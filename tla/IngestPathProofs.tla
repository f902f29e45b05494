-------------------------- MODULE IngestPathProofs --------------------------
(* Theorems about IngestPath, for any clients, requests, queue size and bounds  *)
(* on attempts and restarts.                                                   *)
EXTENDS IngestPath, SequenceTheorems, TLAPS

AnyId == {SuppliedId[c] : c \in Clients} \cup (Clients \X Nat)
Events == [from : Clients, kind : Kinds, id : AnyId]

\* What the proofs need to know of the types.
Typed ==
  /\ queue \in Seq(Events) /\ accepted \in Seq(Events) /\ stored \in Seq(Events)
  /\ attempts \in [Clients -> Nat]
  /\ pc \in {"waiting", "draining", "working", "stopping", "down"}
  /\ pc = "down" => queue = <<>>

\* The history the two properties rest on: only what was put on the queue is
\* answered with 200, and what was inserted is in the store.
AckedWasTaken == \A e \in acked : e \in ToSet(accepted)
StoredIsInDb == \A e \in ToSet(stored) : e.id \in db

Inv == Typed /\ NothingLost /\ AckedWasTaken /\ StoredIsInDb

LEMMA AppendElements ==
  ASSUME NEW S, NEW s \in Seq(S), NEW e \in S
  PROVE  ToSet(Append(s, e)) = ToSet(s) \cup {e}
<1> DEFINE u == Append(s, e)
<1>1. /\ Len(s) \in Nat /\ DOMAIN s = 1..Len(s)
      /\ u \in Seq(S) /\ Len(u) = Len(s) + 1 /\ u[Len(s) + 1] = e
      /\ \A i \in 1..Len(s) : u[i] = s[i]
  OBVIOUS
<1>2. DOMAIN u = 1..(Len(s) + 1)
  BY <1>1, LenProperties
<1> HIDE DEF u
<1>3. ToSet(u) \subseteq ToSet(s) \cup {e}
  <2> SUFFICES ASSUME NEW i \in 1..(Len(s) + 1) PROVE u[i] \in ToSet(s) \cup {e}
    BY <1>2 DEF ToSet
  <2>1. i \in 1..Len(s) \/ i = Len(s) + 1
    BY <1>1
  <2> QED BY <1>1, <2>1 DEF ToSet
<1>4. ToSet(s) \cup {e} \subseteq ToSet(u)
  <2>1. e \in ToSet(u)
    BY <1>1, <1>2 DEF ToSet
  <2> SUFFICES ASSUME NEW i \in 1..Len(s) PROVE s[i] \in ToSet(u)
    BY <1>1, <2>1 DEF ToSet
  <2> QED BY <1>1, <1>2 DEF ToSet
<1> QED BY <1>3, <1>4 DEF u

LEMMA ConcatElements ==
  ASSUME NEW S, NEW s \in Seq(S), NEW t \in Seq(S)
  PROVE  ToSet(s \o t) = ToSet(s) \cup ToSet(t)
<1> DEFINE u == s \o t
<1>1. /\ u \in Seq(S) /\ Len(u) = Len(s) + Len(t)
      /\ \A i \in 1..Len(u) : u[i] = IF i <= Len(s) THEN s[i] ELSE t[i - Len(s)]
  BY ConcatProperties
<1>2. Len(s) \in Nat /\ Len(t) \in Nat
      /\ DOMAIN s = 1..Len(s) /\ DOMAIN t = 1..Len(t) /\ DOMAIN u = 1..Len(u)
  BY <1>1, LenProperties
<1> HIDE DEF u
<1>3. ToSet(u) \subseteq ToSet(s) \cup ToSet(t)
  <2> SUFFICES ASSUME NEW i \in 1..Len(u) PROVE u[i] \in ToSet(s) \cup ToSet(t)
    BY <1>2 DEF ToSet
  <2>1. CASE i <= Len(s)
    BY <1>1, <1>2, <2>1 DEF ToSet
  <2>2. CASE ~(i <= Len(s))
    <3>1. i - Len(s) \in 1..Len(t) /\ u[i] = t[i - Len(s)]
      BY <1>1, <1>2, <2>2
    <3> QED BY <1>2, <3>1 DEF ToSet
  <2> QED BY <2>1, <2>2
<1>4. ToSet(s) \subseteq ToSet(u)
  <2> SUFFICES ASSUME NEW i \in 1..Len(s) PROVE s[i] \in ToSet(u)
    BY <1>2 DEF ToSet
  <2>1. i \in 1..Len(u) /\ u[i] = s[i]
    BY <1>1, <1>2
  <2> QED BY <1>2, <2>1 DEF ToSet
<1>5. ToSet(t) \subseteq ToSet(u)
  <2> SUFFICES ASSUME NEW i \in 1..Len(t) PROVE t[i] \in ToSet(u)
    BY <1>2 DEF ToSet
  <2>1. i + Len(s) \in 1..Len(u) /\ u[i + Len(s)] = t[i]
    BY <1>1, <1>2
  <2> QED BY <1>2, <2>1 DEF ToSet
<1> QED BY <1>3, <1>4, <1>5 DEF u

LEMMA HeadFirst ==
  ASSUME NEW S, NEW q \in Seq(S), q # <<>>
  PROVE  <<Head(q)>> \o Tail(q) = q
<1>1. Head(q) \in S /\ Tail(q) \in Seq(S) /\ <<Head(q)>> \in Seq(S)
  BY HeadTailProperties
<1> QED BY <1>1, HeadTailProperties, LenProperties, SeqEqual

\* Inserting the first event of the queue keeps the channel.
LEMMA MoveOne ==
  ASSUME NEW S, NEW s \in Seq(S), NEW q \in Seq(S), q # <<>>
  PROVE  Append(s, Head(q)) \o Tail(q) = s \o q
<1>1. Head(q) \in S /\ Tail(q) \in Seq(S) /\ <<Head(q)>> \in Seq(S)
  BY HeadTailProperties
<1>2. Append(s, Head(q)) = s \o <<Head(q)>>
  BY <1>1, AppendIsConcat
<1>3. (s \o <<Head(q)>>) \o Tail(q) = s \o (<<Head(q)>> \o Tail(q))
  BY <1>1, ConcatAssociative
<1> QED BY <1>2, <1>3, HeadFirst
-----------------------------------------------------------------------------
LEMMA EventType ==
  ASSUME Typed, NEW c \in Clients, NEW kind \in Kinds
  PROVE  Event(c, kind) \in Events
BY DEF Typed, Event, Events, AnyId

LEMMA InitInv == Init => Inv
<1> SUFFICES ASSUME Init PROVE Inv
  OBVIOUS
<1>1. Typed
  BY EmptySeq DEF Init, Typed
<1>2. NothingLost
  BY DEF Init, NothingLost, LoopRuns
<1>3. AckedWasTaken /\ StoredIsInDb
  BY DEF Init, AckedWasTaken, StoredIsInDb, ToSet
<1> QED BY <1>1, <1>2, <1>3 DEF Inv

\* A step that leaves the queue, the store and the histories alone.
LEMMA FrameInv ==
  ASSUME Inv, UNCHANGED <<queue, accepted, stored, db>>, acked' \subseteq acked,
         attempts' \in [Clients -> Nat],
         pc' = pc \/ (LoopRuns /\ pc' \in {"waiting", "draining", "working", "stopping"})
  PROVE  Inv'
<1>1. Typed'
  BY DEF Inv, Typed, LoopRuns
<1>2. NothingLost'
  BY DEF Inv, Typed, NothingLost, LoopRuns
<1>3. AckedWasTaken' /\ StoredIsInDb'
  BY DEF Inv, AckedWasTaken, StoredIsInDb
<1> QED BY <1>1, <1>2, <1>3 DEF Inv

LEMMA HandleInv ==
  ASSUME Inv, NEW c \in Clients, Handle(c)
  PROVE  Inv'
<1>0. PICK kind \in Kinds :
         Refuse(c, kind) \/ Choke(c, kind) \/ Accept(c, kind) \/ Overflow(c, kind)
  BY ClientsAssumption DEF Handle
<1>1. CASE Refuse(c, kind) \/ Choke(c, kind) \/ Overflow(c, kind)
  <2>1. acked' \subseteq acked
    BY <1>1 DEF Refuse, Choke, Overflow, Write
  <2>2. UNCHANGED <<queue, accepted, stored, db, pc, attempts>>
    BY <1>1 DEF Handle, Refuse, Choke, Overflow, loop
  <2> QED BY <2>1, <2>2, FrameInv DEF Inv, Typed
<1>2. CASE Accept(c, kind)
  <2> DEFINE e == Event(c, kind)
  <2>1. e \in Events
    BY EventType DEF Inv
  <2>2. /\ queue' = Append(queue, e) /\ accepted' = Append(accepted, e)
        /\ acked' = acked \cup {e}
        /\ UNCHANGED <<stored, db, pc, attempts>>
    BY <1>2 DEF Handle, Accept, Write, loop
  <2> HIDE DEF e
  <2>3. Typed'
    <3>1. pc # "down"
      BY DEF Handle, HandlersRun
    <3> QED BY <2>1, <2>2, <3>1 DEF Inv, Typed
  <2>4. NothingLost'
    <3>1. Append(stored \o queue, e) = stored \o Append(queue, e)
      <4>1. stored \in Seq(Events) /\ queue \in Seq(Events)
        BY DEF Inv, Typed
      <4>2. \A s, q \in Seq(Events), x \in Events : Append(s \o q, x) = s \o Append(q, x)
        OBVIOUS
      <4> QED BY <2>1, <4>1, <4>2, Zenon
    <3> QED BY <2>2, <3>1 DEF Inv, NothingLost, LoopRuns
  <2>5. AckedWasTaken'
    BY <2>1, <2>2, AppendElements DEF Inv, Typed, AckedWasTaken
  <2>6. StoredIsInDb'
    BY <2>2 DEF Inv, StoredIsInDb
  <2> QED BY <2>3, <2>4, <2>5, <2>6 DEF Inv
<1> QED BY <1>0, <1>1, <1>2

LEMMA ConnectionInv ==
  ASSUME Inv, NEW c \in Clients, Connection(c)
  PROVE  Inv'
<1>1. CASE Connect(c)
  <2>1. attempts' \in [Clients -> Nat]
    BY <1>1 DEF Connect, Inv, Typed
  <2> QED BY <1>1, <2>1, FrameInv DEF Connect, loop
<1>2. CASE Handle(c)
  BY <1>2, HandleInv
<1>3. CASE Close(c) \/ Flush(c) \/ Leave(c) \/ TimeOut(c)
  <2>1. ConnectionOnly
    BY <1>3 DEF Close, Flush, Leave, TimeOut
  <2>2. acked' \subseteq acked /\ UNCHANGED <<queue, accepted, stored, db, pc, attempts>>
    BY <2>1 DEF ConnectionOnly, loop
  <2> QED BY <2>2, FrameInv DEF Inv, Typed
<1> QED BY <1>1, <1>2, <1>3 DEF Connection

LEMMA DrainInv == Inv /\ Drain => Inv'
<1> SUFFICES ASSUME Inv, Drain PROVE Inv'
  OBVIOUS
<1>1. CASE Store
  <2> DEFINE e == Head(queue)
  <2>1. e \in Events /\ Tail(queue) \in Seq(Events)
    BY <1>1, HeadTailProperties DEF Store, Inv, Typed
  <2>2. /\ queue' = Tail(queue) /\ stored' = Append(stored, e) /\ db' = db \cup {e.id}
        /\ UNCHANGED <<accepted, acked, pc, attempts>> /\ pc = "draining" /\ queue # <<>>
    BY <1>1 DEF Store, loop, handlers
  <2>3. stored' \o queue' = stored \o queue
    BY <2>2, MoveOne DEF Inv, Typed
  <2> HIDE DEF e
  <2>4. Typed'
    BY <2>1, <2>2 DEF Inv, Typed
  <2>5. NothingLost'
    BY <2>2, <2>3 DEF Inv, NothingLost, LoopRuns
  <2>6. AckedWasTaken'
    BY <2>2 DEF Inv, AckedWasTaken
  <2>7. StoredIsInDb'
    BY <2>1, <2>2, AppendElements DEF Inv, Typed, StoredIsInDb
  <2> QED BY <2>4, <2>5, <2>6, <2>7 DEF Inv
<1>2. CASE InsertRaises
  <2>1. Tail(queue) \in Seq(Events)
    BY <1>2, HeadTailProperties DEF InsertRaises, Inv, Typed
  <2>2. /\ queue' = Tail(queue) /\ pc' = "stopping"
        /\ UNCHANGED <<accepted, acked, stored, db, attempts>>
    BY <1>2 DEF InsertRaises, handlers
  <2> QED BY <2>1, <2>2
          DEF Inv, Typed, NothingLost, LoopRuns, AckedWasTaken, StoredIsInDb
<1>3. CASE Drained
  BY <1>3, FrameInv DEF Drained, handlers, LoopRuns, Inv, Typed
<1> QED BY <1>1, <1>2, <1>3 DEF Drain

LEMMA LoopInv == Inv /\ (WakeUp \/ EndCycle \/ Signal \/ Stop) => Inv'
<1> SUFFICES ASSUME Inv, WakeUp \/ EndCycle \/ Signal \/ Stop PROVE Inv'
  OBVIOUS
<1>1. UNCHANGED <<queue, accepted, stored, db, acked, attempts>>
  BY DEF WakeUp, EndCycle, Signal, Stop, handlers
<1>2. pc' = pc \/ (LoopRuns /\ pc' \in {"waiting", "draining", "working", "stopping"})
  BY DEF WakeUp, EndCycle, Signal, Stop, LoopRuns
<1> QED BY <1>1, <1>2, FrameInv DEF Inv, Typed

\* Going down forgets the queue, starting again forgets the histories.
LEMMA RestartInv == Inv /\ (CloseStore \/ Crash \/ Restart) => Inv'
<1> SUFFICES ASSUME Inv, CloseStore \/ Crash \/ Restart PROVE Inv'
  OBVIOUS
<1>1. CASE CloseStore \/ Crash
  <2>1. pc' = "down" /\ queue' = <<>> /\ UNCHANGED <<accepted, stored, db, acked, attempts>>
    BY <1>1 DEF CloseStore, Crash, GoDown
  <2> QED BY <2>1, EmptySeq
          DEF Inv, Typed, NothingLost, LoopRuns, AckedWasTaken, StoredIsInDb
<1>2. CASE Restart
  <2>1. /\ queue' = <<>> /\ pc' = "waiting" /\ accepted' = <<>> /\ stored' = <<>>
        /\ acked' = {} /\ UNCHANGED attempts
    BY <1>2 DEF Restart, Inv, Typed
  <2>2. Typed'
    BY <2>1, EmptySeq DEF Inv, Typed
  <2>3. NothingLost'
    BY <2>1 DEF NothingLost
  <2>4. AckedWasTaken' /\ StoredIsInDb'
    BY <2>1 DEF AckedWasTaken, StoredIsInDb, ToSet
  <2> QED BY <2>2, <2>3, <2>4 DEF Inv
<1> QED BY <1>1, <1>2

LEMMA InvHolds == Spec => []Inv
<1>1. Inv /\ [Next]_vars => Inv'
  <2> SUFFICES ASSUME Inv, [Next]_vars PROVE Inv'
    OBVIOUS
  <2>1. CASE UNCHANGED vars
    BY <2>1 DEF vars, Inv, Typed, NothingLost, LoopRuns, AckedWasTaken, StoredIsInDb
  <2> QED BY <2>1, ConnectionInv, DrainInv, LoopInv, RestartInv DEF Next
<1> QED BY InitInv, <1>1, PTL DEF Spec

\* While the loop runs, what the handlers took is what was inserted followed by
\* what is queued.
THEOREM Channel == Spec => []NothingLost
<1>1. Inv => NothingLost
  BY DEF Inv
<1> QED BY InvHolds, <1>1, PTL

\* While the loop runs, an event answered with 200 is in the store or queued.
THEOREM AckedStays == Spec => []AckedIsHeld
<1>1. Inv => AckedIsHeld
  <2> SUFFICES ASSUME Inv, LoopRuns, NEW e \in acked
               PROVE  e.id \in db \/ e \in ToSet(queue)
    BY DEF AckedIsHeld
  <2>1. e \in ToSet(stored \o queue)
    BY DEF Inv, AckedWasTaken, NothingLost
  <2>2. e \in ToSet(stored) \/ e \in ToSet(queue)
    BY <2>1, ConcatElements DEF Inv, Typed
  <2> QED BY <2>2 DEF Inv, StoredIsInDb
<1> QED BY InvHolds, <1>1, PTL
-----------------------------------------------------------------------------
(* Type correctness                                                           *)

\* The parts of TypeOK that do not follow from Typed.
Rest ==
  /\ cause \in {"none", "signal", "insert", "crash"} /\ shutdown \in BOOLEAN
  /\ Len(queue) <= QueueSize
  /\ conn \in [Clients -> ConnStates]
  /\ attempts \in [Clients -> 0..MaxAttempts]
  /\ answer \in [Clients -> Answers \cup {None}]
  /\ restarts \in 0..MaxRestarts

LEMMA RestInit == Init => Rest
<1> SUFFICES ASSUME Init PROVE Rest
  OBVIOUS
<1>1. Len(queue) <= QueueSize
  BY QueueSizeAssumption, EmptySeq DEF Init
<1>2. cause \in {"none", "signal", "insert", "crash"} /\ shutdown \in BOOLEAN
  BY Zenon DEF Init
<1>3. conn \in [Clients -> ConnStates]
  BY DEF Init, ConnStates
<1>4. attempts \in [Clients -> 0..MaxAttempts] /\ restarts \in 0..MaxRestarts
  BY BoundsAssumption DEF Init
<1>5. answer \in [Clients -> Answers \cup {None}]
  BY DEF Init
<1> QED BY <1>1, <1>2, <1>3, <1>4, <1>5 DEF Rest

\* The queue is as long as it was, or one longer when it had room.
LEMMA HandleRest ==
  ASSUME Inv, Rest, NEW c \in Clients, Handle(c)
  PROVE  Rest'
<1>1. PICK kind \in Kinds :
         Refuse(c, kind) \/ Choke(c, kind) \/ Accept(c, kind) \/ Overflow(c, kind)
  BY ClientsAssumption DEF Handle
<1>2. UNCHANGED <<cause, shutdown, attempts, answer, restarts>>
  BY DEF Handle, loop
<1>3. conn' \in [Clients -> ConnStates]
  BY <1>1 DEF Rest, Refuse, Choke, Accept, Overflow, Write, ConnStates, Answers
<1>4. CASE Accept(c, kind)
  <2>1. queue \in Seq(Events) /\ Event(c, kind) \in Events
    BY EventType DEF Inv, Typed
  <2>2. queue' = Append(queue, Event(c, kind)) /\ Len(queue) < QueueSize
    BY <1>4 DEF Accept
  <2>3. Len(queue') = Len(queue) + 1 /\ Len(queue) \in Nat
    BY <2>1, <2>2, AppendProperties, LenProperties
  <2> QED BY <1>2, <1>3, <2>2, <2>3, QueueSizeAssumption DEF Rest
<1>5. CASE ~Accept(c, kind)
  <2>1. UNCHANGED queue
    BY <1>1, <1>5 DEF Refuse, Choke, Overflow
  <2> QED BY <1>2, <1>3, <2>1 DEF Rest
<1> QED BY <1>4, <1>5

LEMMA ConnectionRest ==
  ASSUME Inv, Rest, NEW c \in Clients, Connection(c)
  PROVE  Rest'
<1>1. CASE Connect(c)
  BY <1>1, BoundsAssumption DEF Connect, Rest, loop, ConnStates
<1>2. CASE Close(c) \/ Flush(c) \/ Leave(c) \/ TimeOut(c)
  <2>1. UNCHANGED <<queue, cause, shutdown, attempts, restarts>>
    BY <1>2 DEF Close, Flush, Leave, TimeOut, ConnectionOnly, loop
  <2>2. conn' \in [Clients -> ConnStates]
    BY <1>2 DEF Close, Flush, Leave, TimeOut, Write, Rest, ConnStates
  <2>3. answer' \in [Clients -> Answers \cup {None}]
    BY <1>2 DEF Close, Flush, Leave, TimeOut, Rest, Answers
  <2> QED BY <2>1, <2>2, <2>3 DEF Rest
<1> QED BY <1>1, <1>2, HandleRest DEF Connection

\* Only Accept makes the queue longer.
LEMMA LoopRest ==
  Inv /\ Rest /\ (WakeUp \/ Drain \/ EndCycle \/ Signal \/ Stop) => Rest'
<1> SUFFICES ASSUME Inv, Rest, WakeUp \/ Drain \/ EndCycle \/ Signal \/ Stop PROVE Rest'
  OBVIOUS
<1>1. UNCHANGED <<conn, attempts, answer, restarts>>
  BY DEF WakeUp, Drain, Store, InsertRaises, Drained, EndCycle, Signal, Stop, handlers
<1>2. cause' \in {"none", "signal", "insert", "crash"} /\ shutdown' \in BOOLEAN
  BY DEF Rest, WakeUp, Drain, Store, InsertRaises, Drained, EndCycle, Signal, Stop, loop
<1>3. queue' = queue \/ (queue # <<>> /\ queue' = Tail(queue))
  BY DEF WakeUp, Drain, Store, InsertRaises, Drained, EndCycle, Signal, Stop
<1>4. Len(queue') <= Len(queue) /\ Len(queue) \in Nat /\ Len(queue') \in Nat
  <2>1. queue \in Seq(Events)
    BY DEF Inv, Typed
  <2> QED BY <1>3, <2>1, HeadTailProperties, LenProperties
<1> QED BY <1>1, <1>2, <1>4, QueueSizeAssumption DEF Rest

LEMMA RestartRest == Rest /\ (CloseStore \/ Crash \/ Restart) => Rest'
<1>1. ASSUME Rest, CloseStore \/ Crash PROVE Rest'
  BY <1>1, QueueSizeAssumption, EmptySeq, LenProperties
     DEF CloseStore, Crash, GoDown, Rest, ConnStates
<1>2. ASSUME Rest, Restart PROVE Rest'
  <2>1. restarts' \in 0..MaxRestarts
    BY <1>2, BoundsAssumption DEF Restart, Rest
  <2>2. cause' \in {"none", "signal", "insert", "crash"} /\ shutdown' \in BOOLEAN
    BY <1>2, Zenon DEF Restart
  <2> QED BY <1>2, <2>1, <2>2 DEF Restart, Rest
<1> QED BY <1>1, <1>2

\* Connections, counters and the loop keep their types, and the queue never holds
\* more than its maxsize.
THEOREM TypeSafety == Spec => []TypeOK
<1>1. Inv /\ Rest /\ [Next]_vars => Rest'
  <2> SUFFICES ASSUME Inv, Rest, [Next]_vars PROVE Rest'
    OBVIOUS
  <2>1. CASE UNCHANGED vars
    BY <2>1 DEF vars, Rest
  <2> QED BY <2>1, ConnectionRest, LoopRest, RestartRest DEF Next
<1>2. Inv /\ Rest => TypeOK
  <2> SUFFICES ASSUME Inv, Rest PROVE TypeOK
    OBVIOUS
  <2>1. ASSUME NEW e \in ToSet(queue) PROVE e.from \in Clients
    <3>1. queue \in Seq(Events)
      BY DEF Inv, Typed
    <3>2. e \in Events
      BY <3>1, LenProperties DEF ToSet
    <3> QED BY <3>2 DEF Events
  <2> QED BY <2>1 DEF Inv, Typed, Rest, TypeOK
<1> QED BY InvHolds, RestInit, <1>1, <1>2, PTL DEF Spec
=============================================================================
