------------------------ MODULE VerdictWritersProofs -------------------------
(* Theorems about VerdictWriters, for any number of evaluations, commands with any *)
(* options, and calls of interpret: together the writers implement the ledger, and *)
(* what each of them does elsewhere agrees with the store, wherever they die.      *)
EXTENDS VerdictWriters, SequenceTheorems, TLAPS

Ancestry(r) == {Trigger(r)} \cup verdicts[Trigger(r)].context

\* What a verdict in the store looks like.
Shapes ==
  /\ \A id \in Stored : /\ verdicts[id].context \subseteq Stored
                        /\ verdicts[id].children \subseteq Stored
                        /\ verdicts[id].thread \in {id, None}
                        /\ verdicts[id].thread # None => id \in Evaluations \cup Runs
  /\ \A r \in Runs \cap Stored : verdicts[r].context = {Trigger(r)} /\ verdicts[r].children = {}

Before == {"lookup", "gather", "reason", "store"}
Unnoted == {"record", "find", "context", "send", "annotate"}

\* How far a run has come and what there is of its verdict.
Progress(r) ==
  /\ pc[r] \in Before => r \notin Stored
  /\ pc[r] \in {"lookup", "gather"} => found[r] = {}
  /\ pc[r] \in {"reason", "store"} => found[r] # {}
  /\ pc[r] \in Steps \ Before => r \in Stored
  /\ pc[r] \in Steps \ {"lookup"} \/ r \in Stored => Trigger(r) \in Stored
  /\ pc[r] \in Unnoted => verdicts[r].thread = None
  /\ r \in Stored => found[r] # {}

\* The effects of a run come one after the other, after its verdict.
Effects(r) ==
  /\ r \in recorded \cup responders \/ MessagesOf(r) # {} => r \in Stored
  /\ r \in responders => pc[r] \in {"wait", "exit 0", "died"}
  /\ pc[r] \in Before \cup {"record", "find", "context", "send"} => MessagesOf(r) = {}
  /\ pc[r] = "annotate" => MessagesOf(r) # {}
  /\ pc[r] \in {"find", "context", "send", "annotate"} /\ option[r].records => r \in recorded
  /\ pc[r] \in {"respond", "wait"} \/ r \in responders => AllTold(r)
  /\ pc[r] = "wait" => option[r].respond = "good"
  /\ pc[r] = "exit 0" /\ found[r] # {} => AllTold(r) /\ option[r].respond \in {"none", "good"}
  /\ pc[r] = "exit 1" /\ r \in Stored => AllTold(r) /\ option[r].respond = "bad"

IsFound(r, t) == \E v \in Ancestry(r) : verdicts[v].thread = t

\* A thread that was found is one of the ancestry's, and then none is noted; one that
\* was started is noted unless the run is about to, or died.
Threads(r) ==
  /\ thread[r] # None => /\ Trigger(r) \in Stored /\ IsFound(r, thread[r]) /\ thread[r] # r
                         /\ pc[r] # "annotate" /\ (r \in Stored => verdicts[r].thread = None)
  /\ \A m \in MessagesOf(r) : m.thread # None =>
       IF m.thread = r
       THEN pc[r] \in {"annotate", "died"} \/ (r \in Stored /\ verdicts[r].thread = r)
       ELSE thread[r] = m.thread

\* The verdicts of a call, by how far it has come.
MadeBy(c) ==
  LET kept == IdsOf(c) \cap Stored
  IN  /\ stage[c] \in {"asking", "template"} => kept = {} /\ made[c] = 0
      /\ stage[c] = "assessing" => kept = IF stores[c] THEN {<<c, k>> : k \in 1..made[c]} ELSE {}
      /\ stage[c] = "assessed" => kept = IF stores[c] THEN Children(c) \cup {<<c, 0>>} ELSE {}
      /\ <<c, 0>> \in kept => /\ stage[c] = "assessed"
                              /\ verdicts[<<c, 0>>].children = Children(c)

Made == \A c \in Calls : MadeBy(c)

Inv ==
  /\ TypeOK /\ Shapes /\ Made /\ LineageEnds
  /\ \A r \in Runs : Progress(r) /\ Effects(r) /\ Threads(r)
-----------------------------------------------------------------------------
(* What a step does to the store                                              *)

Added(id) ==
  /\ id \notin Stored /\ Stored' = Stored \cup {id}
  /\ \A i \in Stored : verdicts'[i] = verdicts[i]
  /\ verdicts'[id].context \subseteq Stored /\ verdicts'[id].children \subseteq Stored
  /\ verdicts'[id].thread = None

Noted(id) ==
  /\ id \in Stored \cap (Evaluations \cup Runs) /\ verdicts[id].thread = None /\ Stored' = Stored
  /\ \A i \in Stored \ {id} : verdicts'[i] = verdicts[i]
  /\ verdicts'[id].context = verdicts[id].context
  /\ verdicts'[id].children = verdicts[id].children
  /\ verdicts'[id].thread = id

\* What put leaves in the store.
LEMMA PutFacts ==
  ASSUME NEW id, NEW v, Put(id, v)
  PROVE  /\ Stored' = Stored \cup {id} /\ verdicts'[id] = v
         /\ \A i \in Stored \ {id} : verdicts'[i] = verdicts[i]
BY DEF Put, Stored

\* An evaluation is added, then its thread is noted.
LEMMA EvaluateAdds ==
  ASSUME NEW e \in Evaluations, Evaluate(e) PROVE Added(e)
<1>1. PICK context \in {{}} \cup {{f} : f \in Evaluations \cap Stored} : Put(e, Verdict(context, {}, {}))
  BY DEF Evaluate
<1>2. context \subseteq Stored /\ e \notin Stored
  BY DEF Evaluate
<1>3. /\ Stored' = Stored \cup {e} /\ verdicts'[e] = Verdict(context, {}, {})
      /\ \A i \in Stored \ {e} : verdicts'[i] = verdicts[i]
  BY <1>1, PutFacts
<1> QED BY <1>2, <1>3 DEF Added, Verdict

\* Measure notes a thread on an evaluation that has none.
LEMMA PostEvaluationNotes ==
  ASSUME Shapes, NEW e \in Evaluations, PostEvaluation(e) PROVE Noted(e)
<1>1. /\ e \in Stored /\ verdicts[e].thread = None
      /\ Put(e, [verdicts[e] EXCEPT !.thread = e])
  BY DEF PostEvaluation
<1>2. /\ Stored' = Stored \cup {e} /\ verdicts'[e] = [verdicts[e] EXCEPT !.thread = e]
      /\ \A i \in Stored \ {e} : verdicts'[i] = verdicts[i]
  BY <1>1, PutFacts
<1> QED BY <1>1, <1>2 DEF Noted

\* A command adds its verdict, which refers to its trigger, then notes its thread.
LEMMA StoreVerdictAdds ==
  ASSUME NEW r \in Runs, Progress(r), StoreVerdict(r)
  PROVE  Added(r) /\ verdicts'[r] = CorrVerdict(r)
<1>1. pc[r] = "store" /\ Put(r, CorrVerdict(r))
  BY DEF StoreVerdict, Go
<1>2. /\ Stored' = Stored \cup {r} /\ verdicts'[r] = CorrVerdict(r)
      /\ \A i \in Stored \ {r} : verdicts'[i] = verdicts[i]
  BY <1>1, PutFacts
<1>3. r \notin Stored /\ Trigger(r) \in Stored
  BY <1>1 DEF Progress, Before, Steps
<1> QED BY <1>2, <1>3 DEF Added, CorrVerdict, Verdict

\* A command notes the thread it started on its own verdict, which had none.
LEMMA NoteThreadNotes ==
  ASSUME Shapes, NEW r \in Runs, Progress(r), NoteThread(r)
  PROVE  Noted(r)
<1>1. pc[r] = "annotate" /\ Put(r, [CorrVerdict(r) EXCEPT !.thread = r])
  BY DEF NoteThread, Go
<1>2. /\ Stored' = Stored \cup {r} /\ verdicts'[r] = [CorrVerdict(r) EXCEPT !.thread = r]
      /\ \A i \in Stored \ {r} : verdicts'[i] = verdicts[i]
  BY <1>1, PutFacts
<1>3. r \in Stored /\ verdicts[r].thread = None
  BY <1>1 DEF Progress, Before, Unnoted, Steps
<1>4. verdicts[r].context = {Trigger(r)} /\ verdicts[r].children = {}
  BY <1>3 DEF Shapes
<1> QED BY <1>2, <1>3, <1>4 DEF Noted, CorrVerdict, Verdict

\* A call adds a child it has not made yet, or nothing when it has no store.
LEMMA MakeChildAdds ==
  ASSUME TypeOK, Made, NEW c \in Calls, MakeChild(c)
  PROVE  /\ made[c] + 1 \in 1..MaxAssessed
         /\ IF stores[c] THEN Added(<<c, made[c] + 1>>) ELSE UNCHANGED verdicts
<1>1. /\ stage[c] = "assessing" /\ made[c] \in Nat /\ assessed[c] \in 0..MaxAssessed
      /\ made[c] < assessed[c] /\ Keep(c, <<c, made[c] + 1>>, Verdict({}, {}, {}))
  BY DEF MakeChild, TypeOK
<1>2. made[c] + 1 \in 1..MaxAssessed
  BY <1>1, MaxAssessedAssumption
<1>3. CASE stores[c]
  <2> DEFINE id == <<c, made[c] + 1>>
  <2>1. /\ Stored' = Stored \cup {id} /\ verdicts'[id] = Verdict({}, {}, {})
        /\ \A i \in Stored \ {id} : verdicts'[i] = verdicts[i]
    BY <1>1, <1>3, PutFacts DEF Keep
  <2>2. id \notin Stored
    <3>1. IdsOf(c) \cap Stored = {<<c, k>> : k \in 1..made[c]}
      BY <1>1, <1>3 DEF Made, MadeBy
    <3>2. id \in IdsOf(c)
      BY <1>2, MaxAssessedAssumption DEF IdsOf
    <3>3. \A k \in 1..made[c] : <<c, k>> # id
      BY <1>1
    <3> QED BY <3>1, <3>2, <3>3
  <2> QED BY <1>2, <1>3, <2>1, <2>2 DEF Added, Verdict
<1>4. CASE ~stores[c]
  BY <1>1, <1>2, <1>4 DEF Keep
<1> QED BY <1>3, <1>4

\* ... and the parent when all its children are there.
LEMMA MakeParentAdds ==
  ASSUME TypeOK, Made, NEW c \in Calls, MakeParent(c)
  PROVE  IF stores[c] THEN Added(<<c, 0>>) /\ verdicts'[<<c, 0>>].children = Children(c)
         ELSE UNCHANGED verdicts
<1>1. /\ stage[c] = "assessing" /\ made[c] = assessed[c]
      /\ Keep(c, <<c, 0>>, Verdict({}, Children(c), {}))
  BY DEF MakeParent
<1>2. CASE stores[c]
  <2> DEFINE id == <<c, 0>>
  <2>1. /\ Stored' = Stored \cup {id} /\ verdicts'[id] = Verdict({}, Children(c), {})
        /\ \A i \in Stored \ {id} : verdicts'[i] = verdicts[i]
    BY <1>1, <1>2, PutFacts DEF Keep
  <2>2. IdsOf(c) \cap Stored = Children(c)
    BY <1>1, <1>2 DEF Made, MadeBy, Children
  <2>3. id \notin Stored
    <3>1. id \in IdsOf(c)
      BY MaxAssessedAssumption DEF IdsOf
    <3>2. id \notin Children(c)
      BY DEF Children
    <3> QED BY <2>2, <3>1, <3>2
  <2> QED BY <1>2, <2>1, <2>2, <2>3 DEF Added, Verdict
<1>3. CASE ~stores[c]
  BY <1>1, <1>3 DEF Keep
<1> QED BY <1>2, <1>3

\* Measure adds an evaluation or notes its thread.
LEMMA MeasureStores ==
  ASSUME Inv, Measure
  PROVE  \E e \in Evaluations : Added(e) \/ Noted(e)
BY EvaluateAdds, PostEvaluationNotes DEF Measure, Inv

\* A command adds its own verdict, then notes its thread.
LEMMA CommandStores ==
  ASSUME Inv, NEW r \in Runs, Command(r)
  PROVE  UNCHANGED verdicts \/ Added(r) \/ Noted(r)
<1>1. CASE StoreVerdict(r)
  BY <1>1, StoreVerdictAdds DEF Inv
<1>2. CASE NoteThread(r)
  BY <1>2, NoteThreadNotes DEF Inv
<1>3. CASE ~StoreVerdict(r) /\ ~NoteThread(r)
  BY <1>3 DEF Command, LookUp, NothingFound, GroupsFound, NoModel, ModelReasons, WriteRecord,
       FindOwn, FindInContext, FindFails, Post, PostUnanswered, NoResponder, StartResponder,
       ResponderEnds, Dies
<1> QED BY <1>1, <1>2, <1>3

\* A call adds verdicts of its own.
LEMMA CallStores ==
  ASSUME Inv, NEW c \in Calls, Interpret(c)
  PROVE  UNCHANGED verdicts \/ \E id \in IdsOf(c) : Added(id)
<1>1. CASE MakeChild(c)
  <2>1. made[c] + 1 \in 1..MaxAssessed
    BY <1>1, MakeChildAdds DEF Inv
  <2>2. made[c] + 1 \in 0..MaxAssessed
    BY <2>1, MaxAssessedAssumption
  <2>3. <<c, made[c] + 1>> \in IdsOf(c)
    BY <2>2 DEF IdsOf
  <2> QED BY <1>1, <2>3, MakeChildAdds DEF Inv
<1>2. CASE MakeParent(c)
  <2>1. <<c, 0>> \in IdsOf(c)
    BY MaxAssessedAssumption DEF IdsOf
  <2> QED BY <1>2, <2>1, MakeParentAdds DEF Inv
<1>3. CASE Answered(c) \/ Unanswered(c) \/ InterpretDies(c)
  BY <1>3 DEF Answered, Unanswered, InterpretDies
<1> QED BY <1>1, <1>2, <1>3 DEF Interpret

\* Every step leaves the store alone, adds one verdict or notes one thread.
LEMMA StoreStep ==
  ASSUME Inv, Next
  PROVE  UNCHANGED verdicts \/ \E id \in Ids : Added(id) \/ Noted(id)
<1>1. Evaluations \subseteq Ids /\ Runs \subseteq Ids /\ \A c \in Calls : IdsOf(c) \subseteq Ids
  BY DEF Ids
<1>2. CASE Measure
  BY <1>1, <1>2, MeasureStores
<1>3. CASE Commands
  BY <1>1, <1>3, CommandStores DEF Commands
<1>4. CASE Interpreters
  BY <1>1, <1>4, CallStores DEF Interpreters
<1>5. CASE Done
  BY <1>5 DEF Done, vars
<1> QED BY <1>2, <1>3, <1>4, <1>5 DEF Next

\* What a verdict says stays, but for a thread it did not have.
LEMMA Kept ==
  ASSUME Inv, Next, NEW id \in Stored
  PROVE  /\ id \in Stored'
         /\ verdicts'[id].context = verdicts[id].context
         /\ verdicts'[id].children = verdicts[id].children
         /\ verdicts[id].thread # None => verdicts'[id].thread = verdicts[id].thread
         /\ verdicts'[id].thread \in {verdicts[id].thread, id}
<1>1. CASE UNCHANGED verdicts
  BY <1>1 DEF Stored
<1>2. ASSUME NEW i \in Ids, Added(i) \/ Noted(i)
      PROVE  /\ id \in Stored'
             /\ verdicts'[id].context = verdicts[id].context
             /\ verdicts'[id].children = verdicts[id].children
             /\ verdicts[id].thread # None => verdicts'[id].thread = verdicts[id].thread
             /\ verdicts'[id].thread \in {verdicts[id].thread, id}
  <2>1. CASE Added(i)
    BY <2>1 DEF Added
  <2>2. CASE Noted(i) /\ i # id
    BY <2>2 DEF Noted
  <2>3. CASE Noted(i) /\ i = id
    BY <2>3 DEF Noted
  <2> QED BY <1>2, <2>1, <2>2, <2>3
<1> QED BY <1>1, <1>2, StoreStep
-----------------------------------------------------------------------------
(* The ledger                                                                 *)

\* What the ledger sees of the store, before and after a step.
LEMMA ViewOf ==
  /\ DOMAIN LedgerView = Stored
  /\ \A id \in Stored : /\ LedgerView[id].refers = verdicts[id].context \cup verdicts[id].children
                        /\ LedgerView[id].thread = verdicts[id].thread
BY DEF LedgerView

LEMMA ViewOfNext ==
  /\ DOMAIN LedgerView' = Stored'
  /\ \A id \in Stored' :
       /\ LedgerView'[id].refers = verdicts'[id].context \cup verdicts'[id].children
       /\ LedgerView'[id].thread = verdicts'[id].thread
BY DEF LedgerView

\* Every step of the writers is one of the ledger, or leaves it alone.
LEMMA StepIsLedgerStep ==
  ASSUME Inv, Next
  PROVE  [Ledger!LedgerNext]_LedgerView
<1>1. CASE UNCHANGED verdicts
  BY <1>1 DEF LedgerView, Stored
<1>2. ASSUME NEW id \in Ids, Added(id) PROVE Ledger!AddVerdict(id)
  <2>1. /\ id \notin Stored /\ Stored' = Stored \cup {id}
        /\ \A i \in Stored : verdicts'[i] = verdicts[i]
        /\ verdicts'[id].context \subseteq Stored /\ verdicts'[id].children \subseteq Stored
        /\ verdicts'[id].thread = None
    BY <1>2 DEF Added
  <2>2. \A i \in Stored : LedgerView'[i] = LedgerView[i]
    BY <2>1 DEF LedgerView
  <2> QED BY <2>1, <2>2, ViewOf, ViewOfNext DEF Ledger!AddVerdict
<1>3. ASSUME NEW id \in Ids, Noted(id) PROVE Ledger!NoteThread(id)
  <2>1. /\ id \in Stored /\ verdicts[id].thread = None /\ Stored' = Stored
        /\ \A i \in Stored \ {id} : verdicts'[i] = verdicts[i]
        /\ verdicts'[id].context = verdicts[id].context
        /\ verdicts'[id].children = verdicts[id].children /\ verdicts'[id].thread = id
    BY <1>3 DEF Noted
  <2>2. LedgerView' = [i \in Stored |-> IF i = id THEN [LedgerView[id] EXCEPT !.thread = id]
                                       ELSE LedgerView[i]]
    BY <2>1 DEF LedgerView
  <2>3. LedgerView' = [LedgerView EXCEPT ![id].thread = id]
    BY <2>2, <2>1, ViewOf
  <2> QED BY <2>1, <2>3, ViewOf DEF Ledger!NoteThread
<1> QED BY <1>1, <1>2, <1>3, StoreStep DEF Ledger!LedgerNext, Ids

\* The new verdict refers to none of a set that walks in circles, and none of the
\* set refers to it.
LEMMA LineageEndsNext == ASSUME Inv, Next PROVE LineageEnds'
<1> DEFINE Refers(id) == verdicts[id].context \cup verdicts[id].children
<1>1. /\ \A id \in Stored : Refers(id) \subseteq Stored
      /\ \A S \in SUBSET Stored : S # {} => \E id \in S : Refers(id) \cap S = {}
  BY ViewOf DEF Inv, LineageEnds, Ledger!LineageEnds
<1>2. SUFFICES /\ \A id \in Stored' : Refers(id)' \subseteq Stored'
               /\ \A S \in SUBSET Stored' : S # {} => \E id \in S : Refers(id)' \cap S = {}
  BY ViewOfNext DEF LineageEnds, Ledger!LineageEnds
<1>3. \A id \in Stored : id \in Stored' /\ Refers(id)' = Refers(id)
  BY Kept
<1>4. CASE Stored' = Stored
  BY <1>1, <1>3, <1>4
<1>5. ASSUME NEW new, Added(new)
      PROVE  /\ \A id \in Stored' : Refers(id)' \subseteq Stored'
             /\ \A S \in SUBSET Stored' : S # {} => \E id \in S : Refers(id)' \cap S = {}
  <2>1. new \notin Stored /\ Stored' = Stored \cup {new} /\ Refers(new)' \subseteq Stored
    BY <1>5 DEF Added
  <2>2. \A id \in Stored' : Refers(id)' \subseteq Stored
    BY <1>1, <1>3, <2>1
  <2>3. ASSUME NEW S \in SUBSET Stored', S # {}
        PROVE  \E id \in S : Refers(id)' \cap S = {}
    <3>1. CASE S \ {new} = {}
      BY <2>1, <2>2, <2>3, <3>1
    <3>2. CASE S \ {new} # {}
      <4>1. S \ {new} \in SUBSET Stored
        BY <2>1
      <4>2. PICK id \in S \ {new} : Refers(id) \cap (S \ {new}) = {}
        BY <1>1, <3>2, <4>1
      <4>3. Refers(id)' = Refers(id) /\ new \notin Refers(id)
        BY <1>1, <1>3, <2>1, <4>1
      <4> QED BY <4>2, <4>3
    <3> QED BY <3>1, <3>2
  <2> QED BY <2>1, <2>2, <2>3
<1>6. CASE \E id \in Ids : Noted(id)
  BY <1>4, <1>6 DEF Noted
<1>7. CASE UNCHANGED verdicts
  BY <1>4, <1>7 DEF Stored
<1> QED BY <1>5, <1>6, <1>7, StoreStep
-----------------------------------------------------------------------------
(* Whose verdict is whose                                                     *)

\* A step of a command moves its counter, and touches nothing of another run's.
LEMMA CommandMoves ==
  ASSUME TypeOK, NEW q \in Runs, Command(q)
  PROVE  /\ \E from, to : Go(q, from, to)
         /\ option' = option
         /\ \A r \in Runs \ {q} : /\ pc'[r] = pc[r] /\ found'[r] = found[r] /\ thread'[r] = thread[r]
                                 /\ (r \in recorded' <=> r \in recorded)
                                 /\ (r \in responders' <=> r \in responders)
         /\ \A m : m.run # q => (m \in posted' <=> m \in posted)
<1> DEFINE Message(t) == [run |-> q, thread |-> t]
<1>6. posted' = posted \/ \E t : posted' = posted \cup {Message(t)}
  <2>1. CASE Post(q)
    BY <2>1, Zenon DEF Post
  <2>2. CASE PostUnanswered(q)
    BY <2>2 DEF PostUnanswered
  <2>3. CASE ~Post(q) /\ ~PostUnanswered(q)
    BY <2>3, Zenon DEF Command, LookUp, NothingFound, GroupsFound, NoModel, ModelReasons, StoreVerdict,
      WriteRecord, FindOwn, FindInContext, FindFails, NoteThread, NoResponder, StartResponder,
      ResponderEnds, Dies
  <2> QED BY <2>1, <2>2, <2>3
<1>7. \A m : m.run # q => (m \in posted' <=> m \in posted)
  <2>1. CASE posted' = posted
    BY <2>1
  <2>2. ASSUME NEW t, posted' = posted \cup {Message(t)} PROVE \A m : m.run # q => (m \in posted' <=> m \in posted)
    <3>1. Message(t).run = q
      OBVIOUS
    <3> HIDE DEF Message
    <3> QED BY <2>2, <3>1
  <2> QED BY <1>6, <2>1, <2>2
<1> HIDE DEF Message
<1> USE DEF Command, LookUp, NothingFound, GroupsFound, NoModel, ModelReasons, StoreVerdict,
      WriteRecord, FindOwn, FindInContext, FindFails, Post, PostUnanswered, NoteThread, NoResponder,
      StartResponder, ResponderEnds, Dies
<1>1. \E from, to : Go(q, from, to)
  BY Zenon
<1>2. option' = option
  OBVIOUS
<1>3. \A r \in Runs \ {q} : pc'[r] = pc[r]
  <2>1. PICK from, to : Go(q, from, to)
    BY <1>1
  <2> QED BY <2>1 DEF Go, TypeOK
<1>4. \A r \in Runs \ {q} : found'[r] = found[r]
  <2>1. found' = found \/ \E x : found' = [found EXCEPT ![q] = x]
    BY Zenon
  <2> QED BY <2>1 DEF TypeOK
<1>5. \A r \in Runs \ {q} : thread'[r] = thread[r]
  <2>1. thread' = thread \/ \E x : thread' = [thread EXCEPT ![q] = x]
    BY Zenon
  <2> QED BY <2>1 DEF TypeOK
<1>8. recorded' = recorded \/ recorded' = recorded \cup {q}
  BY Zenon
<1>9. responders' = responders \/ responders' = responders \cup {q}
  BY Zenon
<1> HIDE DEF Command, LookUp, NothingFound, GroupsFound, NoModel, ModelReasons, StoreVerdict,
      WriteRecord, FindOwn, FindInContext, FindFails, Post, PostUnanswered, NoteThread, NoResponder,
      StartResponder, ResponderEnds, Dies
<1>10. \A r \in Runs \ {q} : /\ (r \in recorded' <=> r \in recorded)
                            /\ (r \in responders' <=> r \in responders)
  BY <1>8, <1>9
<1>11. \A r \in Runs \ {q} : /\ pc'[r] = pc[r] /\ found'[r] = found[r] /\ thread'[r] = thread[r]
                            /\ (r \in recorded' <=> r \in recorded)
                            /\ (r \in responders' <=> r \in responders)
  BY <1>3, <1>4, <1>5, <1>10, Zenon
<1> QED BY <1>1, <1>2, <1>7, <1>11, Zenon

\* Only the command itself adds or changes the verdict of a run, and its variables.
LEMMA OthersLeaveRun ==
  ASSUME Inv, Next, NEW r \in Runs, ~Command(r)
  PROVE  /\ pc'[r] = pc[r] /\ found'[r] = found[r] /\ thread'[r] = thread[r] /\ option' = option
         /\ MessagesOf(r)' = MessagesOf(r)
         /\ (r \in recorded' <=> r \in recorded) /\ (r \in responders' <=> r \in responders)
         /\ (r \in Stored' <=> r \in Stored) /\ (r \in Stored => verdicts'[r] = verdicts[r])
<1>1. CASE Measure
  <2>1. PICK e \in Evaluations : Added(e) \/ Noted(e)
    BY <1>1, MeasureStores
  <2>2. e # r /\ UNCHANGED runVars
    BY <1>1, IdsAssumption DEF Measure
  <2> QED BY <2>1, <2>2 DEF Added, Noted, runVars, MessagesOf
<1>2. CASE Interpreters
  <2>1. PICK c \in Calls : Interpret(c)
    BY <1>2 DEF Interpreters
  <2>2. UNCHANGED verdicts \/ \E id \in IdsOf(c) : Added(id)
    BY <2>1, CallStores
  <2>3. UNCHANGED runVars /\ \A id \in IdsOf(c) : id # r
    BY <1>2, IdsAssumption DEF Interpreters
  <2> QED BY <2>2, <2>3 DEF Added, runVars, MessagesOf, Stored
<1>3. CASE Commands
  <2>1. PICK q \in Runs : Command(q)
    BY <1>3 DEF Commands
  <2>2. q # r
    BY <2>1
  <2>3. UNCHANGED verdicts \/ Added(q) \/ Noted(q)
    BY <2>1, CommandStores
  <2>4. (r \in Stored' <=> r \in Stored) /\ (r \in Stored => verdicts'[r] = verdicts[r])
    BY <2>2, <2>3 DEF Added, Noted, Stored
  <2>5. /\ option' = option /\ pc'[r] = pc[r] /\ found'[r] = found[r] /\ thread'[r] = thread[r]
        /\ (r \in recorded' <=> r \in recorded) /\ (r \in responders' <=> r \in responders)
        /\ \A m : m.run # q => (m \in posted' <=> m \in posted)
    <3>1. TypeOK /\ r \in Runs \ {q}
      BY <2>2 DEF Inv
    <3> QED BY <2>1, <3>1, CommandMoves
  <2>6. MessagesOf(r)' = MessagesOf(r)
    BY <2>2, <2>5 DEF MessagesOf
  <2> QED BY <2>4, <2>5, <2>6
<1>4. CASE Done
  BY <1>4 DEF Done, vars, runVars, MessagesOf, Stored
<1> QED BY <1>1, <1>2, <1>3, <1>4 DEF Next

\* No step changes what a run was asked for.
LEMMA OptionStays == ASSUME Inv, Next, NEW r \in Runs PROVE option' = option
<1>1. CASE Command(r)
  BY <1>1, CommandMoves DEF Inv
<1>2. CASE ~Command(r)
  BY <1>2, OthersLeaveRun
<1> QED BY <1>1, <1>2

\* A thread found in the ancestry of a run stays there.
LEMMA FoundStays ==
  ASSUME Inv, Next, NEW r \in Runs, Trigger(r) \in Stored
  PROVE  /\ Trigger(r)' = Trigger(r) /\ Trigger(r) \in Stored' /\ Ancestry(r)' = Ancestry(r)
         /\ \A t : t # None /\ IsFound(r, t) => IsFound(r, t)'
<1>1. option' = option
  BY OptionStays
<1>2. Trigger(r)' = Trigger(r) /\ Trigger(r) \in Stored'
  BY <1>1, Kept DEF Trigger
<1>3. Ancestry(r)' = Ancestry(r) /\ Ancestry(r) \subseteq Stored
  BY <1>2, Kept DEF Ancestry, Inv, Shapes
<1>4. \A v \in Ancestry(r) : verdicts[v].thread # None => verdicts'[v].thread = verdicts[v].thread
  BY <1>3, Kept
<1> QED BY <1>2, <1>3, <1>4 DEF IsFound
-----------------------------------------------------------------------------
(* The steps of a command                                                     *)

\* What was done of a run stays done.
LEMMA AllToldStays ==
  ASSUME Inv, Next, NEW r \in Runs, AllTold(r), option' = option,
         MessagesOf(r)' = MessagesOf(r), r \in recorded => r \in recorded'
  PROVE  AllTold(r)'
<1>1. r \in Stored /\ r \in Stored' /\ None \notin Runs
  BY Kept, IdsAssumption DEF AllTold
<1>2. verdicts[r].thread = r => verdicts'[r].thread = r
  BY <1>1, Kept
<1> QED BY <1>1, <1>2 DEF AllTold

\* A run is not among its own ancestors.
LEMMA NotOwnAncestor ==
  ASSUME Inv, NEW r \in Runs, r \in Stored
  PROVE  r \notin Ancestry(r) /\ Ancestry(r) \subseteq Stored
<1>1. Trigger(r) \in Stored /\ verdicts[r].context = {Trigger(r)}
  BY DEF Inv, Progress, Shapes
<1>2. \A S \in SUBSET Stored :
        S # {} => \E id \in S : (verdicts[id].context \cup verdicts[id].children) \cap S = {}
  BY ViewOf DEF Inv, LineageEnds, Ledger!LineageEnds
<1>3. {r, Trigger(r)} \in SUBSET Stored /\ {r, Trigger(r)} # {}
  BY <1>1
<1>4. PICK id \in {r, Trigger(r)} :
        (verdicts[id].context \cup verdicts[id].children) \cap {r, Trigger(r)} = {}
  BY <1>2, <1>3, Zenon
<1>5. id = Trigger(r) /\ id # r
  BY <1>1, <1>4
<1>6. r \notin verdicts[Trigger(r)].context
  BY <1>4, <1>5
<1>7. Ancestry(r) \subseteq Stored
  BY <1>1 DEF Ancestry, Inv, Shapes
<1> QED BY <1>5, <1>6, <1>7 DEF Ancestry

\* What a thread was found in or noted on still holds it after a step.
LEMMA ThreadsStay ==
  ASSUME Inv, Next, NEW r \in Runs, option' = option, thread'[r] = thread[r],
         MessagesOf(r)' = MessagesOf(r),
         pc[r] = "annotate" => \/ pc'[r] \in {"annotate", "died"}
                               \/ r \in Stored' /\ verdicts'[r].thread = r,
         pc'[r] = "annotate" => pc[r] = "annotate",
         pc[r] = "died" => pc'[r] = "died",
         pc[r] # "annotate" /\ r \in Stored' =>
           verdicts'[r].thread = None \/ (r \in Stored /\ verdicts'[r].thread = verdicts[r].thread)
  PROVE  Threads(r)'
<1>1. Threads(r) /\ None \notin Runs
  BY IdsAssumption DEF Inv
<1>2. ASSUME NEW t, t = thread[r], t # None
      PROVE  /\ Trigger(r)' \in Stored' /\ IsFound(r, t)' /\ t # r
             /\ pc'[r] # "annotate" /\ (r \in Stored' => verdicts'[r].thread = None)
  <2>1. t # r /\ pc[r] # "annotate" /\ Trigger(r) \in Stored /\ IsFound(r, t)
        /\ (r \in Stored => verdicts[r].thread = None)
    BY <1>1, <1>2 DEF Threads
  <2>2. Trigger(r)' \in Stored' /\ IsFound(r, t)'
    BY <1>2, <2>1, FoundStays
  <2> QED BY <2>1, <2>2
<1>3. ASSUME NEW m \in MessagesOf(r), m.thread # None
      PROVE  IF m.thread = r
             THEN pc'[r] \in {"annotate", "died"} \/ (r \in Stored' /\ verdicts'[r].thread = r)
             ELSE thread'[r] = m.thread
  <2>1. CASE m.thread # r
    BY <1>1, <1>3, <2>1 DEF Threads
  <2>2. CASE m.thread = r /\ pc[r] \in {"annotate", "died"}
    BY <2>2
  <2>3. CASE m.thread = r /\ r \in Stored /\ verdicts[r].thread = r
    <3>1. r \in Stored' /\ verdicts'[r].thread = r
      BY <1>1, <2>3, Kept
    <3> QED BY <2>3, <3>1
  <2> QED BY <1>1, <1>3, <2>1, <2>2, <2>3 DEF Threads
<1>4. \A m \in MessagesOf(r)' : m \in MessagesOf(r)
  OBVIOUS
<1> QED BY <1>2, <1>3, <1>4 DEF Threads

\* A step of another process leaves what is known of a run as it is.
LEMMA OthersKeepRun ==
  ASSUME Inv, Next, NEW r \in Runs, ~Command(r)
  PROVE  Progress(r)' /\ Effects(r)' /\ Threads(r)'
<1>1. /\ pc'[r] = pc[r] /\ found'[r] = found[r] /\ thread'[r] = thread[r] /\ option' = option
      /\ MessagesOf(r)' = MessagesOf(r)
      /\ (r \in recorded' <=> r \in recorded) /\ (r \in responders' <=> r \in responders)
      /\ (r \in Stored' <=> r \in Stored) /\ (r \in Stored => verdicts'[r] = verdicts[r])
  BY OthersLeaveRun
<1>2. Progress(r) /\ Effects(r) /\ Threads(r)
  BY DEF Inv
<1>3. Trigger(r)' = Trigger(r) /\ (Trigger(r) \in Stored => Trigger(r) \in Stored')
  BY <1>1, FoundStays DEF Trigger
<1>4. Progress(r)'
  BY <1>1, <1>2, <1>3 DEF Progress, Before, Unnoted, Steps
<1>5. Effects(r)'
  BY <1>1, <1>2, AllToldStays DEF Effects
<1>6. Threads(r)'
  BY <1>1, ThreadsStay
<1> QED BY <1>4, <1>5, <1>6
\* Steps that only move the counter: what they may assume and where they lead.
Moves(r) ==
  \/ pc[r] = "lookup" /\ pc'[r] = "gather" /\ Trigger(r) \in Stored
  \/ pc[r] = "lookup" /\ pc'[r] = "exit 1"
  \/ pc[r] = "gather" /\ pc'[r] = "exit 0"
  \/ pc[r] = "reason" /\ pc'[r] = "store"
  \/ pc[r] \in {"find", "context"} /\ pc'[r] = "send"
  \/ pc[r] = "respond" /\ pc'[r] = "exit 0" /\ option[r].respond \in {"none", "good"}
  \/ pc[r] = "respond" /\ pc'[r] = "exit 1" /\ option[r].respond = "bad"
  \/ pc[r] = "wait" /\ pc'[r] = "exit 0"
  \/ pc[r] \in Steps /\ pc'[r] = "died"

Quiet(r) ==
  LookUp(r) \/ NothingFound(r) \/ NoModel(r) \/ ModelReasons(r) \/ FindFails(r)
    \/ NoResponder(r) \/ ResponderEnds(r) \/ Dies(r)

\* Where a step goes.
LEMMA GoFacts ==
  ASSUME TypeOK, NEW r \in Runs, NEW from, NEW to, Go(r, from, to)
  PROVE  pc[r] = from /\ pc'[r] = to
BY DEF Go, TypeOK

\* The quiet steps only move the counter.
LEMMA QuietMoves ==
  ASSUME TypeOK, NEW r \in Runs, Quiet(r)
  PROVE  Moves(r) /\ UNCHANGED <<verdicts, option, found, thread, recorded, posted, responders>>
<1>1. CASE LookUp(r)
  BY <1>1, GoFacts DEF LookUp, Moves
<1>2. CASE NothingFound(r)
  BY <1>2, GoFacts DEF NothingFound, Moves
<1>3. CASE NoModel(r)
  BY <1>3, GoFacts DEF NoModel, Moves
<1>4. CASE ModelReasons(r)
  BY <1>4, GoFacts DEF ModelReasons, Moves
<1>5. CASE FindFails(r)
  BY <1>5, GoFacts DEF FindFails, Moves
<1>6. CASE NoResponder(r)
  <2>1. option[r].respond \in {"none", "bad", "good"}
    BY <1>6 DEF NoResponder, TypeOK, OptionType
  <2> QED BY <1>6, <2>1, GoFacts DEF NoResponder, Moves
<1>7. CASE ResponderEnds(r)
  BY <1>7, GoFacts DEF ResponderEnds, Moves
<1>8. CASE Dies(r)
  BY <1>8, GoFacts DEF Dies, Moves
<1> QED BY <1>1, <1>2, <1>3, <1>4, <1>5, <1>6, <1>7, <1>8 DEF Quiet

\* ... and so keep what is known of the run.
LEMMA QuietKeepsRun ==
  ASSUME Inv, Next, NEW r \in Runs, Quiet(r)
  PROVE  Progress(r)' /\ Effects(r)' /\ Threads(r)'
<1>1. Moves(r) /\ UNCHANGED <<verdicts, option, found, thread, recorded, posted, responders>>
  BY QuietMoves DEF Inv
<1>2. Progress(r) /\ Effects(r)
  BY DEF Inv
<1>3. /\ Stored' = Stored /\ Trigger(r)' = Trigger(r) /\ MessagesOf(r)' = MessagesOf(r)
  BY <1>1 DEF Stored, Trigger, MessagesOf
<1>4. Progress(r)'
  BY <1>1, <1>2, <1>3 DEF Moves, Progress, Before, Unnoted, Steps
<1>5. Effects(r)'
  <2>1. AllTold(r) => AllTold(r)'
    BY <1>1, <1>3, AllToldStays
  <2> QED BY <1>1, <1>2, <1>3, <2>1 DEF Moves, Effects, Progress, Before, Steps
<1>6. pc'[r] # "annotate" /\ (pc[r] = "annotate" => pc'[r] = "died")
  BY <1>1 DEF Moves
<1>7. pc[r] # "died"
  BY <1>1 DEF Moves, Steps
<1>8. Threads(r)'
  BY <1>1, <1>3, <1>6, <1>7, ThreadsStay
<1> QED BY <1>4, <1>5, <1>8
\* Groups are found before there is a verdict.
LEMMA FoundKeepsRun ==
  ASSUME Inv, Next, NEW r \in Runs, GroupsFound(r)
  PROVE  Progress(r)' /\ Effects(r)' /\ Threads(r)'
<1>1. Progress(r) /\ Effects(r) /\ Threads(r) /\ TypeOK
  BY DEF Inv
<1>2. /\ pc[r] = "gather" /\ pc'[r] = "reason" /\ found'[r] # {}
      /\ UNCHANGED <<verdicts, option, thread, recorded, posted, responders>>
  <2>1. Go(r, "gather", "reason") /\ \E groups : groups # {} /\ found' = [found EXCEPT ![r] = groups]
    BY DEF GroupsFound
  <2> QED BY <1>1, <2>1, GoFacts DEF GroupsFound, TypeOK
<1>3. /\ Stored' = Stored /\ Trigger(r)' = Trigger(r) /\ MessagesOf(r)' = MessagesOf(r)
  BY <1>2 DEF Stored, Trigger, MessagesOf
<1>4. Progress(r)'
  BY <1>1, <1>2, <1>3 DEF Progress, Before, Unnoted, Steps
<1>5. Effects(r)'
  BY <1>1, <1>2, <1>3 DEF Effects, Progress, Before
<1>6. Threads(r)'
  BY <1>2, <1>3, ThreadsStay
<1> QED BY <1>4, <1>5, <1>6

\* The verdict is stored before there is anything else of the run.
LEMMA StoreKeepsRun ==
  ASSUME Inv, Next, NEW r \in Runs, StoreVerdict(r)
  PROVE  Progress(r)' /\ Effects(r)' /\ Threads(r)'
<1>1. Progress(r) /\ Effects(r) /\ Threads(r) /\ TypeOK
  BY DEF Inv
<1>2. /\ pc[r] = "store" /\ pc'[r] = AfterStore(r)
      /\ UNCHANGED <<option, found, thread, recorded, posted, responders>>
  BY <1>1, GoFacts DEF StoreVerdict
<1>3. /\ Trigger(r)' = Trigger(r) /\ MessagesOf(r)' = MessagesOf(r)
      /\ r \notin Stored /\ Stored' = Stored \cup {r} /\ verdicts'[r].thread = None
  BY <1>1, <1>2, StoreVerdictAdds DEF Trigger, MessagesOf, Added
<1>4. /\ pc'[r] \in {"record", "find", "respond"}
      /\ option[r].records => pc'[r] = "record"
      /\ pc'[r] = "respond" => ~option[r].slack
  BY <1>2 DEF AfterStore, AfterRecord
<1>5. Progress(r)'
  BY <1>1, <1>2, <1>3, <1>4 DEF Progress, Before, Unnoted, Steps
<1>6. Effects(r)'
  <2>1. pc'[r] = "respond" => AllTold(r)'
    BY <1>2, <1>3, <1>4 DEF AllTold
  <2> QED BY <1>1, <1>2, <1>3, <1>4, <2>1 DEF Effects, Before
<1>7. Threads(r)'
  BY <1>2, <1>3, <1>4, ThreadsStay
<1> QED BY <1>5, <1>6, <1>7

\* The record follows the verdict.
LEMMA RecordKeepsRun ==
  ASSUME Inv, Next, NEW r \in Runs, WriteRecord(r)
  PROVE  Progress(r)' /\ Effects(r)' /\ Threads(r)'
<1>1. Progress(r) /\ Effects(r) /\ Threads(r) /\ TypeOK
  BY DEF Inv
<1>2. /\ pc[r] = "record" /\ pc'[r] \in {"find", "respond"} /\ r \in recorded'
      /\ recorded' = recorded \cup {r} /\ (pc'[r] = "respond" => ~option[r].slack)
      /\ UNCHANGED <<verdicts, option, found, thread, posted, responders>>
  BY <1>1, GoFacts DEF WriteRecord, AfterRecord
<1>3. /\ Stored' = Stored /\ Trigger(r)' = Trigger(r) /\ MessagesOf(r)' = MessagesOf(r)
  BY <1>2 DEF Stored, Trigger, MessagesOf
<1>4. Progress(r)'
  BY <1>1, <1>2, <1>3 DEF Progress, Before, Unnoted, Steps
<1>5. Effects(r)'
  <2>1. pc'[r] = "respond" => AllTold(r)'
    BY <1>1, <1>2, <1>3 DEF AllTold, Progress, Before, Steps
  <2> QED BY <1>1, <1>2, <1>3, <2>1 DEF Effects, Progress, Before, Steps
<1>6. Threads(r)'
  BY <1>2, <1>3, ThreadsStay
<1> QED BY <1>4, <1>5, <1>6

\* A thread is taken from the ancestry of the run, and is found there from then on.
LEMMA FindKeepsRun ==
  ASSUME Inv, Next, NEW r \in Runs, FindOwn(r) \/ FindInContext(r)
  PROVE  Progress(r)' /\ Effects(r)' /\ Threads(r)'
<1>1. Progress(r) /\ Effects(r) /\ Threads(r) /\ TypeOK
  BY DEF Inv
<1>2. /\ pc[r] \in {"find", "context"} /\ pc'[r] \in {"context", "send"}
      /\ UNCHANGED <<verdicts, option, found, recorded, posted, responders>>
  <2>1. CASE FindOwn(r)
    BY <1>1, <2>1, GoFacts DEF FindOwn
  <2>2. CASE FindInContext(r)
    BY <1>1, <2>2, GoFacts DEF FindInContext
  <2> QED BY <2>1, <2>2
<1>3. /\ Stored' = Stored /\ Trigger(r)' = Trigger(r) /\ MessagesOf(r)' = MessagesOf(r)
      /\ Ancestry(r)' = Ancestry(r) /\ Trigger(r) \in Stored
  BY <1>1, <1>2 DEF Stored, Trigger, MessagesOf, Ancestry, Progress, Steps
<1>4. Progress(r)'
  BY <1>1, <1>2, <1>3 DEF Progress, Before, Unnoted, Steps
<1>5. Effects(r)'
  BY <1>1, <1>2, <1>3 DEF Effects, Before
<1>6. thread'[r] = thread[r] \/ IsFound(r, thread'[r])
  <2>1. CASE FindOwn(r)
    <3>1. thread' = thread \/ thread' = [thread EXCEPT ![r] = verdicts[Trigger(r)].thread]
      BY <2>1 DEF FindOwn
    <3>2. thread'[r] = thread[r] \/ thread'[r] = verdicts[Trigger(r)].thread
      BY <1>1, <3>1 DEF TypeOK
    <3> QED BY <3>2 DEF IsFound, Ancestry
  <2>2. CASE FindInContext(r)
    <3>1. \/ thread' = thread
          \/ \E v \in verdicts[Trigger(r)].context : thread' = [thread EXCEPT ![r] = verdicts[v].thread]
      BY <2>2 DEF FindInContext
    <3>2. \/ thread'[r] = thread[r]
          \/ \E v \in verdicts[Trigger(r)].context : thread'[r] = verdicts[v].thread
      BY <1>1, <3>1 DEF TypeOK
    <3> QED BY <3>2 DEF IsFound, Ancestry
  <2> QED BY <2>1, <2>2
<1>7. thread'[r] # None => thread'[r] # r /\ Trigger(r)' \in Stored' /\ IsFound(r, thread'[r])
  <2>1. r \in Stored
    BY <1>1, <1>2 DEF Progress, Before, Steps
  <2>2. \A t : t # None /\ IsFound(r, t) => t # r
    BY <2>1, NotOwnAncestor DEF IsFound, Inv, Shapes
  <2> QED BY <1>1, <1>3, <1>6, <2>2 DEF Threads
<1>8. \A t : IsFound(r, t)' <=> IsFound(r, t)
  BY <1>2, <1>3 DEF IsFound
<1>9. MessagesOf(r)' = {} /\ verdicts'[r].thread = None /\ pc'[r] # "annotate"
  BY <1>1, <1>2, <1>3 DEF Effects, Progress, Unnoted
<1>10. Threads(r)'
  BY <1>7, <1>8, <1>9 DEF Threads
<1> QED BY <1>4, <1>5, <1>10

\* A message goes to the thread that was found, or starts one that is to be noted.
LEMMA PostKeepsRun ==
  ASSUME Inv, Next, NEW r \in Runs, Post(r) \/ PostUnanswered(r)
  PROVE  Progress(r)' /\ Effects(r)' /\ Threads(r)'
<1>1. Progress(r) /\ Effects(r) /\ Threads(r) /\ TypeOK
  BY DEF Inv
<1>2. /\ pc[r] = "send" /\ pc'[r] \in {"annotate", "respond"}
      /\ UNCHANGED <<verdicts, option, found, thread, recorded, responders>>
      /\ \E t : /\ posted' = posted \cup {[run |-> r, thread |-> t]}
                /\ \/ pc'[r] = "annotate" /\ thread[r] = None /\ t = r
                   \/ pc'[r] = "respond" /\ t = thread[r]
  <2>1. CASE Post(r)
    <3>1. /\ pc[r] = "send" /\ pc'[r] = IF thread[r] = None THEN "annotate" ELSE "respond"
          /\ posted' = posted \cup {[run |-> r, thread |-> IF thread[r] = None THEN r ELSE thread[r]]}
          /\ UNCHANGED <<verdicts, option, found, thread, recorded, responders>>
      BY <1>1, <2>1, GoFacts DEF Post
    <3>2. CASE thread[r] = None
      BY <3>1, <3>2
    <3>3. CASE thread[r] # None
      BY <3>1, <3>3
    <3> QED BY <3>2, <3>3
  <2>2. CASE PostUnanswered(r)
    BY <1>1, <2>2, GoFacts DEF PostUnanswered
  <2> QED BY <2>1, <2>2
<1>3. /\ Stored' = Stored /\ Trigger(r)' = Trigger(r) /\ Ancestry(r)' = Ancestry(r) /\ r \in Stored
  BY <1>1, <1>2 DEF Stored, Trigger, Ancestry, Progress, Before, Steps
<1>4. Progress(r)'
  BY <1>1, <1>2, <1>3 DEF Progress, Before, Unnoted, Steps
<1>5. PICK t : /\ posted' = posted \cup {[run |-> r, thread |-> t]}
               /\ \/ pc'[r] = "annotate" /\ thread[r] = None /\ t = r
                  \/ pc'[r] = "respond" /\ t = thread[r]
  BY <1>2
<1>6. MessagesOf(r)' = {[run |-> r, thread |-> t]}
  <2>1. MessagesOf(r) = {}
    BY <1>1, <1>2 DEF Effects
  <2> QED BY <1>5, <2>1 DEF MessagesOf
<1>7. thread[r] # r /\ None # r
  BY <1>1, IdsAssumption DEF Threads
<1>8. Effects(r)'
  <2>1. pc'[r] = "respond" => AllTold(r)'
    BY <1>1, <1>2, <1>3, <1>5, <1>6, <1>7 DEF AllTold, Effects
  <2> QED BY <1>1, <1>2, <1>3, <1>6, <2>1 DEF Effects, Before
<1>9. \A u : IsFound(r, u)' <=> IsFound(r, u)
  BY <1>2, <1>3 DEF IsFound
<1>10. Threads(r)'
  BY <1>1, <1>2, <1>3, <1>5, <1>6, <1>7, <1>9 DEF Threads
<1> QED BY <1>4, <1>8, <1>10

\* The thread is noted on the verdict, which is left what it was.
LEMMA NoteKeepsRun ==
  ASSUME Inv, Next, NEW r \in Runs, NoteThread(r)
  PROVE  Progress(r)' /\ Effects(r)' /\ Threads(r)'
<1>1. Progress(r) /\ Effects(r) /\ Threads(r) /\ TypeOK
  BY DEF Inv
<1>2. /\ pc[r] = "annotate" /\ pc'[r] = "respond"
      /\ UNCHANGED <<option, found, thread, recorded, posted, responders>>
  BY <1>1, GoFacts DEF NoteThread
<1>3. /\ Trigger(r)' = Trigger(r) /\ MessagesOf(r)' = MessagesOf(r)
      /\ r \in Stored /\ Stored' = Stored /\ verdicts'[r].thread = r
  BY <1>1, <1>2, NoteThreadNotes DEF Trigger, MessagesOf, Noted, Inv
<1>4. Progress(r)'
  BY <1>1, <1>2, <1>3 DEF Progress, Before, Unnoted, Steps
<1>5. Effects(r)'
  <2>1. AllTold(r)'
    BY <1>1, <1>2, <1>3 DEF AllTold, Effects
  <2> QED BY <1>1, <1>2, <1>3, <2>1 DEF Effects, Before
<1>6. Threads(r)'
  BY <1>2, <1>3, ThreadsStay
<1> QED BY <1>4, <1>5, <1>6

\* The responder is started last.
LEMMA RespondKeepsRun ==
  ASSUME Inv, Next, NEW r \in Runs, StartResponder(r)
  PROVE  Progress(r)' /\ Effects(r)' /\ Threads(r)'
<1>1. Progress(r) /\ Effects(r) /\ Threads(r) /\ TypeOK
  BY DEF Inv
<1>2. /\ pc[r] = "respond" /\ pc'[r] = "wait" /\ responders' = responders \cup {r}
      /\ option[r].respond = "good"
      /\ UNCHANGED <<verdicts, option, found, thread, recorded, posted>>
  BY <1>1, GoFacts DEF StartResponder
<1>3. /\ Stored' = Stored /\ Trigger(r)' = Trigger(r) /\ MessagesOf(r)' = MessagesOf(r)
  BY <1>2 DEF Stored, Trigger, MessagesOf
<1>4. Progress(r)'
  BY <1>1, <1>2, <1>3 DEF Progress, Before, Unnoted, Steps
<1>5. Effects(r)'
  <2>1. AllTold(r)'
    BY <1>1, <1>2, <1>3, AllToldStays DEF Effects
  <2> QED BY <1>1, <1>2, <1>3, <2>1 DEF Effects, Progress, Before, Steps
<1>6. Threads(r)'
  BY <1>2, <1>3, ThreadsStay
<1> QED BY <1>4, <1>5, <1>6

\* What is known of a run holds on.
LEMMA RunNext ==
  ASSUME Inv, Next, NEW r \in Runs
  PROVE  Progress(r)' /\ Effects(r)' /\ Threads(r)'
<1>1. ~Command(r) \/ Quiet(r) \/ GroupsFound(r) \/ StoreVerdict(r) \/ WriteRecord(r)
        \/ (FindOwn(r) \/ FindInContext(r)) \/ (Post(r) \/ PostUnanswered(r)) \/ NoteThread(r)
        \/ StartResponder(r)
  BY DEF Command, Quiet
<1> QED BY <1>1, OthersKeepRun, QuietKeepsRun, FoundKeepsRun, StoreKeepsRun, RecordKeepsRun,
           FindKeepsRun, PostKeepsRun, NoteKeepsRun, RespondKeepsRun
-----------------------------------------------------------------------------
(* The store, the calls and the types                                         *)

\* The verdicts keep their shape.
LEMMA ShapesNext == ASSUME Inv, Next PROVE Shapes'
<1>1. Shapes /\ None \notin Runs \cup Evaluations
  BY IdsAssumption DEF Inv
<1>2. ASSUME NEW id \in Stored'
      PROVE  /\ verdicts'[id].context \subseteq Stored' /\ verdicts'[id].children \subseteq Stored'
             /\ verdicts'[id].thread \in {id, None}
             /\ verdicts'[id].thread # None => id \in Evaluations \cup Runs
  <2>1. CASE UNCHANGED verdicts
    BY <1>1, <1>2, <2>1 DEF Shapes, Stored
  <2>2. ASSUME NEW i \in Ids, Added(i)
        PROVE  /\ verdicts'[id].context \subseteq Stored' /\ verdicts'[id].children \subseteq Stored'
               /\ verdicts'[id].thread \in {id, None}
               /\ verdicts'[id].thread # None => id \in Evaluations \cup Runs
    <3>1. CASE id = i
      BY <2>2, <3>1 DEF Added
    <3>2. CASE id # i
      BY <1>1, <1>2, <2>2, <3>2 DEF Added, Shapes
    <3> QED BY <3>1, <3>2
  <2>3. ASSUME NEW i \in Ids, Noted(i)
        PROVE  /\ verdicts'[id].context \subseteq Stored' /\ verdicts'[id].children \subseteq Stored'
               /\ verdicts'[id].thread \in {id, None}
               /\ verdicts'[id].thread # None => id \in Evaluations \cup Runs
    <3>1. CASE id = i
      BY <1>1, <2>3, <3>1 DEF Noted, Shapes
    <3>2. CASE id # i
      BY <1>1, <1>2, <2>3, <3>2 DEF Noted, Shapes
    <3> QED BY <3>1, <3>2
  <2> QED BY <2>1, <2>2, <2>3, StoreStep
<1>3. ASSUME NEW r \in Runs \cap Stored'
      PROVE  verdicts'[r].context = {Trigger(r)'} /\ verdicts'[r].children = {}
  <2>1. Trigger(r)' = Trigger(r)
    <3>1. option' = option /\ r \in Runs
      BY <1>3, OptionStays
    <3> QED BY <3>1 DEF Trigger
  <2>2. CASE r \in Stored
    BY <1>1, <2>1, <2>2, Kept DEF Shapes
  <2>3. CASE r \notin Stored
    <3>1. Command(r)
      BY <1>3, <2>3, OthersLeaveRun
    <3>2. StoreVerdict(r)
      <4>1. ~NoteThread(r)
        BY <2>3, NoteThreadNotes DEF Inv, Noted
      <4>2. Stored' # Stored
        BY <1>3, <2>3
      <4> QED BY <3>1, <4>1, <4>2 DEF Command, LookUp, NothingFound, GroupsFound, NoModel, ModelReasons,
             WriteRecord, FindOwn, FindInContext, FindFails, Post, PostUnanswered, NoResponder,
             StartResponder, ResponderEnds, Dies, Stored
    <3>3. verdicts'[r] = CorrVerdict(r)
      BY <1>3, <3>2, StoreVerdictAdds DEF Inv
    <3> QED BY <2>1, <3>3 DEF CorrVerdict, Verdict
  <2> QED BY <2>2, <2>3
<1> QED BY <1>2, <1>3 DEF Shapes

\* Only a call itself adds or changes its verdicts and its variables.
LEMMA OthersLeaveCall ==
  ASSUME Inv, Next, NEW c \in Calls, ~Interpret(c)
  PROVE  /\ stage'[c] = stage[c] /\ stores'[c] = stores[c]
         /\ assessed'[c] = assessed[c] /\ made'[c] = made[c]
         /\ IdsOf(c) \cap Stored' = IdsOf(c) \cap Stored
<1>1. CASE Measure
  <2>1. PICK e \in Evaluations : Added(e) \/ Noted(e)
    BY <1>1, MeasureStores
  <2>2. e \notin IdsOf(c) /\ UNCHANGED callVars
    BY <1>1, IdsAssumption DEF Measure
  <2> QED BY <2>1, <2>2 DEF Added, Noted, callVars
<1>2. CASE Commands
  <2>1. PICK r \in Runs : Command(r)
    BY <1>2 DEF Commands
  <2>2. UNCHANGED verdicts \/ Added(r) \/ Noted(r)
    BY <2>1, CommandStores
  <2>3. r \notin IdsOf(c) /\ UNCHANGED callVars
    BY <1>2, IdsAssumption DEF Commands
  <2> QED BY <2>2, <2>3 DEF Added, Noted, callVars, Stored
<1>3. CASE Interpreters
  <2>1. PICK d \in Calls : Interpret(d)
    BY <1>3 DEF Interpreters
  <2>2. UNCHANGED verdicts \/ \E id \in IdsOf(d) : Added(id)
    BY <2>1, CallStores
  <2>3. d # c /\ \A id \in IdsOf(d) : id \notin IdsOf(c)
    BY <2>1 DEF IdsOf
  <2>4. IdsOf(c) \cap Stored' = IdsOf(c) \cap Stored
    BY <2>2, <2>3 DEF Added, Stored
  <2>5. /\ stage'[c] = stage[c] /\ stores'[c] = stores[c]
        /\ assessed'[c] = assessed[c] /\ made'[c] = made[c]
    BY <2>1, <2>3 DEF Inv, TypeOK, Interpret, Answered, Unanswered, MakeChild, MakeParent, InterpretDies
  <2> QED BY <2>4, <2>5
<1>4. CASE Done
  BY <1>4 DEF Done, vars, callVars, Stored
<1> QED BY <1>1, <1>2, <1>3, <1>4 DEF Next
\* The verdicts of a call stay those it made.
LEMMA MadeNext == ASSUME Inv, Next, NEW c \in Calls PROVE MadeBy(c)'
<1>1. MadeBy(c) /\ TypeOK /\ Made
  BY DEF Inv, Made
<1>2. \A id \in Stored : id \in Stored' /\ verdicts'[id].children = verdicts[id].children
  BY Kept
<1>3. CASE ~Interpret(c)
  BY <1>1, <1>2, <1>3, OthersLeaveCall DEF MadeBy, Children
<1>4. CASE Answered(c)
  <2>1. /\ stage[c] = "asking" /\ stage'[c] = "assessing" /\ made'[c] = made[c] /\ Stored' = Stored
    BY <1>1, <1>4 DEF Answered, TypeOK, Stored
  <2>2. IdsOf(c) \cap Stored' = {} /\ made'[c] = 0
    BY <1>1, <2>1 DEF MadeBy
  <2>3. {<<c, k>> : k \in 1..made'[c]} = {}
    BY <2>2
  <2> QED BY <2>1, <2>2, <2>3 DEF MadeBy
<1>5. CASE Unanswered(c)
  <2>1. /\ stage[c] = "asking" /\ stage'[c] = "template" /\ made'[c] = made[c] /\ Stored' = Stored
    BY <1>1, <1>5 DEF Unanswered, TypeOK, Stored
  <2> QED BY <1>1, <2>1 DEF MadeBy
<1>6. CASE InterpretDies(c)
  <2>1. /\ stage[c] \in {"asking", "assessing"} /\ stage'[c] = "died" /\ Stored' = Stored
    BY <1>1, <1>6 DEF InterpretDies, TypeOK, Stored
  <2> QED BY <1>1, <2>1 DEF MadeBy
<1>7. CASE MakeChild(c)
  <2> DEFINE id == <<c, made[c] + 1>>
  <2>1. /\ stage[c] = "assessing" /\ stage'[c] = "assessing" /\ made'[c] = made[c] + 1
        /\ stores'[c] = stores[c] /\ made[c] \in Nat
    BY <1>1, <1>7 DEF MakeChild, TypeOK
  <2>2. id \in IdsOf(c)
    <3>1. made[c] + 1 \in 1..MaxAssessed
      BY <1>1, <1>7, MakeChildAdds
    <3>2. made[c] + 1 \in 0..MaxAssessed
      BY <3>1, MaxAssessedAssumption
    <3> QED BY <3>2 DEF IdsOf
  <2>3. IdsOf(c) \cap Stored' = IF stores[c] THEN (IdsOf(c) \cap Stored) \cup {id} ELSE IdsOf(c) \cap Stored
    BY <1>1, <1>7, <2>2, MakeChildAdds DEF Added, Stored
  <2>4. 1..made'[c] = 1..made[c] \cup {made[c] + 1}
    BY <2>1
  <2>5. {<<c, k>> : k \in 1..made'[c]} = {<<c, k>> : k \in 1..made[c]} \cup {id}
    BY <2>4
  <2>6. IdsOf(c) \cap Stored' = IF stores'[c] THEN {<<c, k>> : k \in 1..made'[c]} ELSE {}
    BY <1>1, <2>1, <2>3, <2>5 DEF MadeBy
  <2>7. <<c, 0>> \notin {<<c, k>> : k \in 1..made'[c]}
    BY <2>1
  <2> QED BY <2>1, <2>6, <2>7 DEF MadeBy
<1>8. CASE MakeParent(c)
  <2>1. /\ stage[c] = "assessing" /\ stage'[c] = "assessed" /\ made[c] = assessed[c]
        /\ stores'[c] = stores[c] /\ assessed' = assessed
    BY <1>1, <1>8 DEF MakeParent, TypeOK
  <2>2. <<c, 0>> \in IdsOf(c) /\ Children(c)' = Children(c)
    BY <2>1, MaxAssessedAssumption DEF IdsOf, Children
  <2>3. IdsOf(c) \cap Stored = IF stores[c] THEN Children(c) ELSE {}
    BY <1>1, <2>1 DEF MadeBy, Children
  <2>4. CASE stores[c]
    BY <1>1, <1>8, <2>1, <2>2, <2>3, <2>4, MakeParentAdds DEF Added, MadeBy
  <2>5. CASE ~stores[c]
    <3>1. Stored' = Stored
      BY <1>1, <1>8, <2>5, MakeParentAdds DEF Stored
    <3> QED BY <2>1, <2>3, <2>5, <3>1 DEF MadeBy
  <2> QED BY <2>4, <2>5
<1> QED BY <1>3, <1>4, <1>5, <1>6, <1>7, <1>8 DEF Interpret
\* The variables of the commands and of the calls keep their types.
LEMMA CommandTypes ==
  ASSUME Inv, NEW r \in Runs, Command(r)
  PROVE  /\ pc' \in [Runs -> Steps \cup Exits] /\ option' \in [Runs -> OptionType]
         /\ found' \in [Runs -> FoundSets \cup {{}}] /\ answer' \in [Runs -> Answers \cup {None}]
         /\ thread' \in [Runs -> Evaluations \cup Runs \cup {None}]
         /\ recorded' \subseteq Runs /\ responders' \subseteq Runs
         /\ posted' \subseteq [run : Runs, thread : Evaluations \cup Runs \cup {None}]
<1>1. TypeOK /\ Shapes /\ Progress(r)
  BY DEF Inv
<1>2. pc' \in [Runs -> Steps \cup Exits]
  <2>1. \E to \in Steps \cup Exits : pc' = [pc EXCEPT ![r] = to]
    BY DEF Command, LookUp, NothingFound, GroupsFound, NoModel, ModelReasons, StoreVerdict,
      WriteRecord, FindOwn, FindInContext, FindFails, Post, PostUnanswered, NoteThread, NoResponder,
      StartResponder, ResponderEnds, Dies, Go, Steps, Exits, AfterStore, AfterRecord
  <2> QED BY <1>1, <2>1 DEF TypeOK
<1>3. option' = option
  BY <1>1, CommandMoves
<1>4. found' \in [Runs -> FoundSets \cup {{}}] /\ answer' \in [Runs -> Answers \cup {None}]
  <2>1. /\ found' = found \/ \E x \in FoundSets : found' = [found EXCEPT ![r] = x]
        /\ answer' = answer \/ \E x \in Answers : answer' = [answer EXCEPT ![r] = x]
    BY Zenon DEF Command, LookUp, NothingFound, GroupsFound, NoModel, ModelReasons, StoreVerdict,
      WriteRecord, FindOwn, FindInContext, FindFails, Post, PostUnanswered, NoteThread, NoResponder,
      StartResponder, ResponderEnds, Dies
  <2> QED BY <1>1, <2>1 DEF TypeOK
<1>5. thread' \in [Runs -> Evaluations \cup Runs \cup {None}]
  <2>1. CASE FindOwn(r) \/ FindInContext(r)
    <3>1. Trigger(r) \in Stored
      BY <1>1, <2>1 DEF Progress, FindOwn, FindInContext, Go, Steps
    <3>2. \A v \in Ancestry(r) : verdicts[v].thread \in Evaluations \cup Runs \cup {None}
      BY <1>1, <3>1 DEF Shapes, Ancestry
    <3>3. thread' = thread \/ \E v \in Ancestry(r) : thread' = [thread EXCEPT ![r] = verdicts[v].thread]
      <4>1. CASE FindOwn(r)
        BY <4>1 DEF FindOwn, Ancestry
      <4>2. CASE FindInContext(r)
        BY <4>2 DEF FindInContext, Ancestry
      <4> QED BY <2>1, <4>1, <4>2
    <3> QED BY <1>1, <3>2, <3>3 DEF TypeOK
  <2>2. CASE ~FindOwn(r) /\ ~FindInContext(r)
    BY <1>1, <2>2 DEF TypeOK, Command, LookUp, NothingFound, GroupsFound, NoModel, ModelReasons,
      StoreVerdict, WriteRecord, FindFails, Post, PostUnanswered, NoteThread, NoResponder,
      StartResponder, ResponderEnds, Dies
  <2> QED BY <2>1, <2>2
<1>6. recorded' \subseteq Runs /\ responders' \subseteq Runs
  <2>1. /\ recorded' = recorded \/ recorded' = recorded \cup {r}
        /\ responders' = responders \/ responders' = responders \cup {r}
    BY Zenon DEF Command, LookUp, NothingFound, GroupsFound, NoModel, ModelReasons, StoreVerdict,
      WriteRecord, FindOwn, FindInContext, FindFails, Post, PostUnanswered, NoteThread, NoResponder,
      StartResponder, ResponderEnds, Dies
  <2> QED BY <1>1, <2>1 DEF TypeOK
<1>7. posted' \subseteq [run : Runs, thread : Evaluations \cup Runs \cup {None}]
  <2>1. thread[r] \in Evaluations \cup Runs \cup {None}
    BY <1>1 DEF TypeOK
  <2>2. CASE Post(r)
    BY <1>1, <2>1, <2>2 DEF TypeOK, Post
  <2>3. CASE PostUnanswered(r)
    BY <1>1, <2>1, <2>3 DEF TypeOK, PostUnanswered
  <2>4. CASE ~Post(r) /\ ~PostUnanswered(r)
    BY <1>1, <2>4 DEF TypeOK, Command, LookUp, NothingFound, GroupsFound, NoModel, ModelReasons,
      StoreVerdict, WriteRecord, FindOwn, FindInContext, FindFails, NoteThread, NoResponder,
      StartResponder, ResponderEnds, Dies
  <2> QED BY <2>2, <2>3, <2>4
<1> QED BY <1>1, <1>2, <1>3, <1>4, <1>5, <1>6, <1>7 DEF TypeOK

\* ... and so do those of the calls.
LEMMA CallTypes ==
  ASSUME TypeOK, Made, NEW c \in Calls, Interpret(c)
  PROVE  /\ stage' \in [Calls -> {"asking", "assessing", "assessed", "template", "died"}]
         /\ stores' \in [Calls -> BOOLEAN] /\ assessed' \in [Calls -> 0..MaxAssessed]
         /\ made' \in [Calls -> 0..MaxAssessed] /\ \A d \in Calls : made'[d] <= assessed'[d]
<1>1. CASE Answered(c)
  <2>1. PICK n \in 0..MaxAssessed : assessed' = [assessed EXCEPT ![c] = n]
    BY <1>1 DEF Answered
  <2>2. made[c] = 0
    BY <1>1 DEF Answered, Made, MadeBy
  <2>3. \A d \in Calls : made'[d] <= assessed'[d]
    BY <1>1, <2>1, <2>2, MaxAssessedAssumption DEF Answered, TypeOK
  <2> QED BY <1>1, <2>1, <2>3 DEF Answered, TypeOK
<1>2. CASE Unanswered(c)
  BY <1>2 DEF Unanswered, TypeOK
<1>3. CASE MakeChild(c)
  BY <1>3, MaxAssessedAssumption DEF MakeChild, TypeOK
<1>4. CASE MakeParent(c)
  BY <1>4 DEF MakeParent, TypeOK
<1>5. CASE InterpretDies(c)
  BY <1>5, MaxAssessedAssumption DEF InterpretDies, TypeOK
<1> QED BY <1>1, <1>2, <1>3, <1>4, <1>5 DEF Interpret
\* Every step keeps the types.
LEMMA TypesNext == ASSUME Inv, Next PROVE TypeOK'
<1>1. TypeOK /\ Made
  BY DEF Inv
<1>2. Stored' \subseteq Ids
  BY <1>1, StoreStep DEF TypeOK, Stored, Added, Noted
<1>3. CASE Measure
  BY <1>1, <1>2, <1>3 DEF Measure, runVars, callVars, TypeOK
<1>4. CASE Commands
  <2>1. PICK r \in Runs : Command(r)
    BY <1>4 DEF Commands
  <2>2. UNCHANGED callVars
    BY <1>4 DEF Commands
  <2> QED BY <1>1, <1>2, <2>1, <2>2, CommandTypes DEF callVars, TypeOK
<1>5. CASE Interpreters
  <2>1. PICK c \in Calls : Interpret(c)
    BY <1>5 DEF Interpreters
  <2>2. UNCHANGED runVars
    BY <1>5 DEF Interpreters
  <2> QED BY <1>1, <1>2, <2>1, <2>2, CallTypes DEF runVars, TypeOK
<1>6. CASE Done
  BY <1>1, <1>6 DEF Done, vars, runVars, callVars, TypeOK, Stored
<1> QED BY <1>3, <1>4, <1>5, <1>6 DEF Next
-----------------------------------------------------------------------------
(* Theorems                                                                   *)

\* The invariant holds of an empty store, and of a step that changes nothing.
LEMMA InitInv == Init => Inv
<1> SUFFICES ASSUME Init PROVE Inv
  OBVIOUS
<1>1. verdicts = <<>> /\ Stored = {} /\ DOMAIN LedgerView = {}
  BY ViewOf DEF Init, Stored
<1>2. TypeOK
  BY <1>1, MaxAssessedAssumption DEF Init, CommandInit, InterpretInit, TypeOK, Steps
<1>3. Shapes /\ LineageEnds
  BY <1>1 DEF Shapes, LineageEnds, Ledger!LineageEnds
<1>4. ASSUME NEW c \in Calls PROVE MadeBy(c)
  BY <1>1, <1>4 DEF Init, InterpretInit, MadeBy
<1>5. ASSUME NEW r \in Runs PROVE Progress(r) /\ Effects(r) /\ Threads(r)
  <2>1. /\ pc[r] = "lookup" /\ found[r] = {} /\ thread[r] = None
        /\ recorded = {} /\ responders = {} /\ posted = {}
    BY <1>5 DEF Init, CommandInit
  <2>2. MessagesOf(r) = {}
    BY <2>1 DEF MessagesOf
  <2> QED BY <1>1, <2>1, <2>2 DEF Progress, Effects, Threads, Before, Unnoted, Steps
<1> QED BY <1>2, <1>3, <1>4, <1>5 DEF Inv, Made

\* (the step that changes nothing)
LEMMA StutterInv == ASSUME Inv, UNCHANGED vars PROVE Inv'
<1> USE DEF vars, runVars, callVars
<1>1. TypeOK' /\ Shapes'
  BY DEF Inv, TypeOK, Shapes, Stored, Trigger
<1>2. LineageEnds'
  BY DEF Inv, LineageEnds, Ledger!LineageEnds, LedgerView, Stored
<1>3. ASSUME NEW c \in Calls PROVE MadeBy(c)'
  BY <1>3 DEF Inv, Made, MadeBy, Children, Stored
<1>4. ASSUME NEW r \in Runs PROVE Progress(r)' /\ Effects(r)' /\ Threads(r)'
  <2>1. /\ Stored' = Stored /\ Trigger(r)' = Trigger(r) /\ MessagesOf(r)' = MessagesOf(r)
        /\ \A t : IsFound(r, t)' <=> IsFound(r, t)
    BY DEF Stored, Trigger, MessagesOf, IsFound, Ancestry
  <2>2. Progress(r) /\ Effects(r) /\ Threads(r)
    BY DEF Inv
  <2> QED BY <2>1, <2>2 DEF Progress, Effects, Threads, AllTold
<1> QED BY <1>1, <1>2, <1>3, <1>4 DEF Inv, Made

\* The inductive invariant: the types, the lineage, the shape of the verdicts, and how
\* far each run and each call has come.
THEOREM Invariance == Spec => []Inv
<1>1. Inv /\ [Next]_vars => Inv'
  BY TypesNext, ShapesNext, MadeNext, LineageEndsNext, RunNext, StutterInv DEF Inv, Made
<1> QED BY <1>1, InitInv, PTL DEF Spec

\* The variables keep their types.
THEOREM TypeSafety == Spec => []TypeOK
BY Invariance, PTL DEF Inv

\* The writers together implement the ledger: the store only grows, and a stored
\* verdict changes only by the one thread noted on it (store.put in cli.py and model.py).
THEOREM Refinement == Spec => LedgerSpec
<1>1. Init => Ledger!LedgerInit
  BY DEF Init, LedgerView, Stored, Ledger!LedgerInit
<1>2. Inv /\ [Next]_vars => [Ledger!LedgerNext]_LedgerView
  <2>1. ASSUME UNCHANGED vars PROVE LedgerView' = LedgerView
    BY <2>1 DEF vars, LedgerView, Stored
  <2> QED BY <2>1, StepIsLedgerStep
<1> QED BY <1>1, <1>2, Invariance, PTL DEF Spec, LedgerSpec, Ledger!LedgerSpec

\* A walk over the lineage of verdicts stays in the store and ends.
THEOREM LineageSafety == Spec => []LineageEnds
BY Invariance, PTL DEF Inv

\* The records, messages and responders of the command are all about a stored verdict.
THEOREM EffectsSafety == Spec => []EffectsOfStored
<1>1. Inv => EffectsOfStored
  <2> SUFFICES ASSUME Inv PROVE EffectsOfStored
    OBVIOUS
  <2>1. TypeOK /\ \A r \in Runs : Progress(r) /\ Effects(r)
    BY DEF Inv
  <2>2. \A r \in Runs \cap Stored : found[r] # {} /\ Trigger(r) \in Stored
    BY <2>1 DEF Progress
  <2>3. recorded \cup responders \subseteq Stored
    BY <2>1 DEF TypeOK, Effects
  <2>4. ASSUME NEW m \in posted PROVE m.run \in Stored
    <3>1. m.run \in Runs /\ m \in MessagesOf(m.run)
      BY <2>1, <2>4 DEF TypeOK, MessagesOf
    <3> QED BY <2>1, <3>1 DEF Effects
  <2> QED BY <2>2, <2>3, <2>4 DEF EffectsOfStored
<1> QED BY <1>1, Invariance, PTL

\* The exit code of the command tells of the verdict, its record and its message,
\* whatever died or went unanswered elsewhere.
THEOREM ExitSafety == Spec => []ExitCodesTell
<1>1. Inv => ExitCodesTell
  BY DEF Inv, Effects, ExitCodesTell
<1> QED BY <1>1, Invariance, PTL

\* A later command on the verdict looks up the thread its message is in, if the command
\* started it or found it on the trigger; else the thread is still one verdict further up.
THEOREM ThreadSafety == Spec => []ThreadIsKept
<1>1. Inv => ThreadIsKept
  <2> SUFFICES ASSUME Inv, NEW m \in posted, m.thread # None, pc[m.run] \notin {"annotate", "died"}
               PROVE  IF m.thread \in {m.run, verdicts[Trigger(m.run)].thread}
                      THEN ThreadsFrom(m.run) = {m.thread}
                      ELSE \E v \in verdicts[Trigger(m.run)].context : verdicts[v].thread = m.thread
    BY DEF ThreadIsKept
  <2> DEFINE r == m.run
  <2>1. r \in Runs /\ m \in MessagesOf(r)
    BY DEF Inv, TypeOK, MessagesOf
  <2>2. Threads(r) /\ r \in Stored /\ None # r
    BY <2>1, IdsAssumption DEF Inv, Effects
  <2>3. verdicts[r].context = {Trigger(r)}
    BY <2>1, <2>2 DEF Inv, Shapes
  <2>4. CASE m.thread = r
    <3>1. verdicts[r].thread = r
      BY <2>1, <2>2, <2>4 DEF Threads
    <3> QED BY <2>2, <2>4, <3>1 DEF ThreadsFrom
  <2>5. CASE m.thread # r
    <3>1. thread[r] = m.thread /\ verdicts[r].thread = None /\ IsFound(r, m.thread)
      BY <2>1, <2>2, <2>5 DEF Threads
    <3>2. ThreadsFrom(r) = {verdicts[Trigger(r)].thread} \ {None}
      BY <2>3, <3>1 DEF ThreadsFrom
    <3> QED BY <2>5, <3>1, <3>2 DEF IsFound, Ancestry
  <2> QED BY <2>4, <2>5
<1> QED BY <1>1, Invariance, PTL

\* The verdicts of a call of interpret are whole, wherever it ended.
THEOREM CallsSafety == Spec => []CallsAreWhole
<1>1. Inv => CallsAreWhole
  BY DEF Inv, Made, MadeBy, CallsAreWhole
<1> QED BY <1>1, Invariance, PTL
-----------------------------------------------------------------------------
(* What a verdict says of causes                                              *)

\* One step of the fold that ReasoningByGroup is: an assessment of a group of the run
\* replaces what was said of it.
Hear(groups, said, a) ==
  IF a.group \in groups THEN [said EXCEPT ![a.group] = a.cause] ELSE said
Hearing == INSTANCE FoldTheory WITH Step <- Hear

Causes == {a.cause : a \in Assessments} \cup {None}

\* c is the last word of the answer s on g.
IsLastWord(s, g, c) ==
  \/ c = None /\ \A j \in 1..Len(s) : s[j].group # g
  \/ \E j \in 1..Len(s) : /\ s[j].group = g /\ s[j].cause = c
                          /\ \A k \in 1..Len(s) : k > j => s[k].group # g

Silence(groups) == [g \in groups |-> None]

\* The fold over the answers, and what it is closed under.
LEMMA ReasoningIsFold ==
  \A r : ReasoningByGroup(r) = Hearing!Fold(found[r], Silence(found[r]), answer[r])
BY Zenon DEF ReasoningByGroup, Silence, Hearing!Fold, Hear, FoldLeft, Hearing!FoldLeft,
   MapThenFoldSet, Hearing!MapThenFoldSet, Max, Hearing!Max

\* An assessment leaves a cause for each of the groups.
LEMMA HearingClosed ==
  ASSUME NEW groups
  PROVE  /\ Hearing!Closed(groups, [groups -> Causes], Assessments)
         /\ Silence(groups) \in [groups -> Causes]
BY DEF Hearing!Closed, Hear, Silence, Causes

\* The last words on a group change with an assessment of it only.
LEMMA LastWordAppend ==
  ASSUME NEW s \in Seq(Assessments), NEW a \in Assessments, NEW g, NEW c
  PROVE  /\ a.group = g => IsLastWord(Append(s, a), g, a.cause)
         /\ a.group # g /\ IsLastWord(s, g, c) => IsLastWord(Append(s, a), g, c)
<1>1. PICK t \in Seq(Assessments) : t = Append(s, a)
  BY AppendProperties
<1>2. /\ Len(t) = Len(s) + 1 /\ Len(s) \in Nat /\ t[Len(t)] = a
      /\ \A i \in 1..Len(s) : t[i] = s[i]
  BY <1>1, AppendProperties, LenProperties
<1>3. ASSUME a.group = g PROVE IsLastWord(t, g, a.cause)
  <2>1. Len(t) \in 1..Len(t) /\ \A k \in 1..Len(t) : ~(k > Len(t))
    BY <1>2
  <2> QED BY <1>2, <1>3, <2>1 DEF IsLastWord
<1>4. ASSUME a.group # g, IsLastWord(s, g, c) PROVE IsLastWord(t, g, c)
  <2>1. \A k \in 1..Len(t) : k \in 1..Len(s) \/ k = Len(t)
    BY <1>2
  <2>2. 1..Len(s) \subseteq 1..Len(t)
    BY <1>2
  <2>3. CASE c = None /\ \A j \in 1..Len(s) : s[j].group # g
    BY <1>2, <1>4, <2>1, <2>3 DEF IsLastWord
  <2>4. ASSUME NEW j \in 1..Len(s), s[j].group = g, s[j].cause = c,
               \A k \in 1..Len(s) : k > j => s[k].group # g
        PROVE  IsLastWord(t, g, c)
    <3>1. j \in 1..Len(t) /\ t[j].group = g /\ t[j].cause = c
      BY <1>2, <2>2, <2>4
    <3>2. \A k \in 1..Len(t) : k > j => t[k].group # g
      BY <1>2, <1>4, <2>1, <2>4
    <3> QED BY <3>1, <3>2 DEF IsLastWord
  <2> QED BY <1>4, <2>3, <2>4 DEF IsLastWord
<1> QED BY <1>1, <1>3, <1>4

\* The fold says of each group the last word of the answer on it.
LEMMA FoldHears ==
  ASSUME NEW groups
  PROVE  \A s \in Seq(Assessments) :
           LET said == Hearing!Fold(groups, Silence(groups), s)
           IN  \A g \in groups : IsLastWord(s, g, said[g])
<1> DEFINE Said(s) == Hearing!Fold(groups, Silence(groups), s)
           S == {s \in Seq(Assessments) : \A g \in groups : IsLastWord(s, g, Said(s)[g])}
           V == [groups -> Causes]
<1>1. Hearing!Closed(groups, V, Assessments) /\ Silence(groups) \in V
  BY HearingClosed
<1>2. <<>> \in S
  <2>1. Said(<<>>) = Silence(groups)
    BY Hearing!FoldEmpty
  <2> HIDE DEF Said
  <2> QED BY <2>1 DEF Silence, IsLastWord
<1>3. ASSUME NEW s \in Seq(Assessments), NEW a \in Assessments, s \in S
      PROVE  Append(s, a) \in S
  <2> HIDE DEF V
  <2>1. Said(Append(s, a)) = Hear(groups, Said(s), a)
    BY <1>1, Hearing!FoldAppend
  <2>2. Said(s) \in V
    BY <1>1, Hearing!FoldType
  <2>3. Append(s, a) \in Seq(Assessments)
    BY AppendProperties
  <2>4. \A g \in groups : IsLastWord(s, g, Said(s)[g])
    BY <1>3
  <2> HIDE DEF Said
  <2>5. ASSUME NEW g \in groups
        PROVE  Said(Append(s, a))[g] = IF a.group = g THEN a.cause ELSE Said(s)[g]
    BY <2>1, <2>2 DEF Hear, V
  <2>6. ASSUME NEW g \in groups
        PROVE  IsLastWord(Append(s, a), g, Said(Append(s, a))[g])
    BY <2>4, <2>5, LastWordAppend
  <2> QED BY <2>3, <2>6
<1> HIDE DEF S
<1>4. Seq(Assessments) \subseteq S
  BY <1>2, <1>3, Hearing!SeqInduction
<1> QED BY <1>4 DEF S

\* What a verdict in the store names was made of the groups and the answer of its run.
CausesOk(r) == r \in Stored => verdicts[r].causes = RootCauses(r)

\* A run with a verdict has done with gathering and reasoning.
LEMMA ReasonsStay ==
  ASSUME Inv, Next, NEW r \in Runs \cap Stored
  PROVE  found'[r] = found[r] /\ answer'[r] = answer[r]
<1>1. /\ pc[r] # "gather" /\ pc[r] # "reason"
      /\ found \in [Runs -> FoundSets \cup {{}}] /\ answer \in [Runs -> Answers \cup {None}]
  BY DEF Inv, Progress, Before, TypeOK
<1>2. CASE UNCHANGED <<found, answer>>
  BY <1>2
<1>3. ASSUME NEW q \in Runs, GroupsFound(q) \/ ModelReasons(q)
      PROVE  found'[r] = found[r] /\ answer'[r] = answer[r]
  BY <1>1, <1>3 DEF GroupsFound, ModelReasons, Go
<1>4. ASSUME NEW q \in Runs, Command(q), ~GroupsFound(q), ~ModelReasons(q)
      PROVE  UNCHANGED <<found, answer>>
  BY <1>4 DEF Command, LookUp, NothingFound, NoModel, StoreVerdict, WriteRecord, FindOwn,
     FindInContext, FindFails, Post, PostUnanswered, NoteThread, NoResponder,
     StartResponder, ResponderEnds, Dies
<1>5. CASE Measure \/ Interpreters \/ Done
  BY <1>5 DEF Measure, Interpreters, Done, vars, runVars
<1> QED BY <1>2, <1>3, <1>4, <1>5 DEF Next, Commands

\* The causes follow from what stays.
LEMMA SameCauses ==
  ASSUME NEW r, found'[r] = found[r], answer'[r] = answer[r]
  PROVE  RootCauses(r)' = RootCauses(r)
<1>1. ReasoningByGroup(r)' = ReasoningByGroup(r)
  BY Zenon DEF ReasoningByGroup, FoldLeft, MapThenFoldSet
<1> QED BY <1>1 DEF RootCauses, ChangeCandidates

\* A verdict is written by its own run only, with these causes each time.
LEMMA CausesNext ==
  ASSUME Inv, Next, NEW r \in Runs, CausesOk(r)
  PROVE  CausesOk(r)'
<1>1. CASE StoreVerdict(r) \/ NoteThread(r)
  <2>1. /\ found' = found /\ answer' = answer /\ option' = option
        /\ Put(r, CorrVerdict(r)) \/ Put(r, [CorrVerdict(r) EXCEPT !.thread = r])
    BY <1>1 DEF StoreVerdict, NoteThread
  <2>2. RootCauses(r)' = RootCauses(r)
    BY <2>1, SameCauses
  <2>3. \/ verdicts'[r] = CorrVerdict(r)
        \/ verdicts'[r] = [CorrVerdict(r) EXCEPT !.thread = r]
    BY <2>1, PutFacts
  <2>4. verdicts'[r].causes = RootCauses(r)
    BY <2>3 DEF CorrVerdict, Verdict
  <2> QED BY <2>2, <2>4 DEF CausesOk
<1>2. CASE ~StoreVerdict(r) /\ ~NoteThread(r)
  <2>1. Stored' \cap {r} = Stored \cap {r} /\ (r \in Stored => verdicts'[r] = verdicts[r])
    <3>1. CASE ~Command(r)
      BY <3>1, OthersLeaveRun
    <3>2. CASE Command(r)
      <4>1. UNCHANGED verdicts
        BY <1>2, <3>2 DEF Command, LookUp, NothingFound, GroupsFound, NoModel, ModelReasons,
           WriteRecord, FindOwn, FindInContext, FindFails, Post, PostUnanswered,
           NoResponder, StartResponder, ResponderEnds, Dies
      <4> QED BY <4>1 DEF Stored
    <3> QED BY <3>1, <3>2
  <2>2. r \in Stored => RootCauses(r)' = RootCauses(r)
    BY ReasonsStay, SameCauses
  <2> QED BY <2>1, <2>2 DEF CausesOk
<1> QED BY <1>1, <1>2

\* The causes of a run are the last words of its answer on the groups it found.
LEMMA CausesAreLastWords ==
  ASSUME TypeOK, NEW r \in Runs
  PROVE  RootCauses(r) =
           IF answer[r] = None THEN {}
           ELSE {<<answer[r][i].group, answer[r][i].cause>> : i \in
                   {j \in DOMAIN answer[r] :
                      /\ answer[r][j].cause # None /\ answer[r][j].group \in found[r]
                      /\ \A k \in DOMAIN answer[r] :
                           k > j => answer[r][k].group # answer[r][j].group}}
<1> DEFINE s == answer[r]
           said == ReasoningByGroup(r)
           last == {j \in DOMAIN s : /\ s[j].cause # None /\ s[j].group \in found[r]
                                     /\ \A k \in DOMAIN s : k > j => s[k].group # s[j].group}
<1>1. CASE s = None
  BY <1>1 DEF RootCauses, ChangeCandidates
<1>2. CASE s # None
  <2>1. s \in Seq(Assessments)
    BY <1>2, AnswersAssumption DEF TypeOK
  <2>2. DOMAIN s = 1..Len(s) /\ Len(s) \in Nat
    BY <2>1, LenProperties
  <2>3. \A g \in found[r] : IsLastWord(s, g, said[g])
    BY <2>1, FoldHears, ReasoningIsFold
  <2>4. RootCauses(r) = UNION {IF said[g] # None THEN {<<g, said[g]>>} ELSE {} : g \in found[r]}
    BY <1>2 DEF RootCauses, ChangeCandidates
  <2> HIDE DEF s, said
  <2>5. ASSUME NEW g \in found[r], said[g] # None
        PROVE  \E i \in last : <<g, said[g]>> = <<s[i].group, s[i].cause>>
    <3>1. PICK j \in 1..Len(s) : /\ s[j].group = g /\ s[j].cause = said[g]
                                 /\ \A k \in 1..Len(s) : k > j => s[k].group # g
      BY <2>3, <2>5 DEF IsLastWord
    <3> QED BY <2>2, <2>5, <3>1
  <2>6. ASSUME NEW i \in last
        PROVE  s[i].group \in found[r] /\ said[s[i].group] = s[i].cause
    <3>1. /\ i \in 1..Len(s) /\ s[i].group \in found[r]
          /\ \A k \in 1..Len(s) : k > i => s[k].group # s[i].group
      BY <2>2, <2>6
    <3>2. PICK j \in 1..Len(s) : /\ s[j].group = s[i].group
                                 /\ s[j].cause = said[s[i].group]
                                 /\ \A k \in 1..Len(s) : k > j => s[k].group # s[i].group
      BY <2>3, <3>1 DEF IsLastWord
    <3>3. ~(j > i) /\ ~(i > j)
      BY <3>1, <3>2
    <3>4. j = i
      BY <2>2, <3>1, <3>2, <3>3
    <3> QED BY <3>1, <3>2, <3>4
  <2>7. {<<s[i].group, s[i].cause>> : i \in last}
          = UNION {IF said[g] # None THEN {<<g, said[g]>>} ELSE {} : g \in found[r]}
    <3> DEFINE of(g) == IF said[g] # None THEN {<<g, said[g]>>} ELSE {}
    <3>1. ASSUME NEW i \in last PROVE \E g \in found[r] : <<s[i].group, s[i].cause>> \in of(g)
      <4>1. s[i].cause # None
        OBVIOUS
      <4> QED BY <2>6, <4>1
    <3>2. ASSUME NEW g \in found[r], NEW x \in of(g)
          PROVE  \E i \in last : x = <<s[i].group, s[i].cause>>
      BY <2>5
    <3> HIDE DEF last, of
    <3>3. UNION {of(g) : g \in found[r]} = {<<s[i].group, s[i].cause>> : i \in last}
      BY <3>1, <3>2
    <3> QED BY <3>3 DEF of
  <2> QED BY <1>2, <2>4, <2>7 DEF s
<1> QED BY <1>1, <1>2

\* The causes a stored verdict names are the model's last words on the groups that
\* were found, and stay so when the thread is noted.
THEOREM CausesSafety == Spec => []CausesAreTheModels
<1> DEFINE All == \A r \in Runs : CausesOk(r)
<1>1. Init => All
  BY DEF Init, CausesOk, Stored
<1>2. Inv /\ All /\ [Next]_vars => All'
  <2>1. ASSUME All, UNCHANGED vars PROVE All'
    BY <2>1, SameCauses DEF vars, runVars, CausesOk, Stored
  <2> QED BY <2>1, CausesNext
<1>3. TypeOK /\ All => CausesAreTheModels
  BY CausesAreLastWords DEF CausesOk, CausesAreTheModels
<1> QED BY <1>1, <1>2, <1>3, Invariance, TypeSafety, PTL DEF Spec
=============================================================================
