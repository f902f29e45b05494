---------------------------- MODULE LineageLedger ----------------------------
(* What the writers of verdicts promise of the store together: verdicts are only *)
(* added, each refers to verdicts that are there already, and nothing of a stored *)
(* verdict changes but that a Slack thread, once started for it, is noted on it.  *)
CONSTANTS Ids, None

VARIABLE ledger     \* id -> [refers, thread]

LedgerInit == ledger = <<>>

AddVerdict(id) ==
  /\ id \notin DOMAIN ledger /\ DOMAIN ledger' = DOMAIN ledger \cup {id}
  /\ ledger'[id].refers \subseteq DOMAIN ledger /\ ledger'[id].thread = None
  /\ \A i \in DOMAIN ledger : ledger'[i] = ledger[i]

NoteThread(id) ==
  /\ id \in DOMAIN ledger /\ ledger[id].thread = None
  /\ ledger' = [ledger EXCEPT ![id].thread = id]

LedgerNext == \E id \in Ids : AddVerdict(id) \/ NoteThread(id)

LedgerSpec == LedgerInit /\ [][LedgerNext]_ledger

\* A walk over the lineage stays in the store and ends: there is no set of verdicts
\* each of which refers to another one of the set.
LineageEnds ==
  /\ \A id \in DOMAIN ledger : ledger[id].refers \subseteq DOMAIN ledger
  /\ \A S \in SUBSET DOMAIN ledger :
       S # {} => \E id \in S : ledger[id].refers \cap S = {}
=============================================================================
