--------------------------- MODULE VerdictWriters ----------------------------
(* The processes that write verdicts into one store: nthlayer-measure, correlate  *)
(* commands and calls of interpret.  Together they implement LineageLedger.       *)
EXTENDS CorrelateCommand, ModelInterface

\* Verdict ids are never given out twice.
ASSUME IdsAssumption ==
  /\ Runs \cap Evaluations = {} /\ None \notin Runs \cup Evaluations
  /\ \A c \in Calls : IdsOf(c) \cap (Runs \cup Evaluations) = {}

vars == <<verdicts, runVars, callVars>>

Init == verdicts = <<>> /\ CommandInit /\ InterpretInit

Measure == (\E e \in Evaluations : Evaluate(e) \/ PostEvaluation(e)) /\ UNCHANGED <<runVars, callVars>>
Commands == (\E r \in Runs : Command(r)) /\ UNCHANGED callVars
Interpreters == (\E c \in Calls : Interpret(c)) /\ UNCHANGED runVars

Ended ==
  /\ \A r \in Runs : pc[r] \in Exits
  /\ \A c \in Calls : stage[c] \notin {"asking", "assessing"}

Done == Ended /\ UNCHANGED vars

Next == Measure \/ Commands \/ Interpreters \/ Done

Spec == Init /\ [][Next]_vars
-----------------------------------------------------------------------------
(* Properties                                                                 *)

Ids == Evaluations \cup Runs \cup UNION {IdsOf(c) : c \in Calls}

TypeOK ==
  /\ Stored \subseteq Ids
  /\ pc \in [Runs -> Steps \cup Exits] /\ option \in [Runs -> OptionType]
  /\ found \in [Runs -> FoundSets \cup {{}}] /\ answer \in [Runs -> Answers \cup {None}]
  /\ thread \in [Runs -> Evaluations \cup Runs \cup {None}]
  /\ recorded \subseteq Runs /\ responders \subseteq Runs
  /\ posted \subseteq [run : Runs, thread : Evaluations \cup Runs \cup {None}]
  /\ stage \in [Calls -> {"asking", "assessing", "assessed", "template", "died"}]
  /\ stores \in [Calls -> BOOLEAN] /\ assessed \in [Calls -> 0..MaxAssessed]
  /\ made \in [Calls -> 0..MaxAssessed] /\ \A c \in Calls : made[c] <= assessed[c]

\* The store as the ledger sees it.
LedgerView == [id \in Stored |-> [refers |-> verdicts[id].context \cup verdicts[id].children,
                                  thread |-> verdicts[id].thread]]

Ledger == INSTANCE LineageLedger WITH ledger <- LedgerView

\* The store only grows, by verdicts that refer to stored ones, and a stored verdict
\* only ever gains its thread: no put takes back what another writer relies on.
LedgerSpec == Ledger!LedgerSpec

\* A walk over the lineage never leaves the store and ends.
LineageEnds == Ledger!LineageEnds
=============================================================================
