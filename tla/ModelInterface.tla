--------------------------- MODULE ModelInterface ----------------------------
(* snapshot/model.py: interpret asks the model about the groups and makes one      *)
(* verdict of each assessment and a parent of them all, storing each as it is      *)
(* made when it was given a store.                                               *)
EXTENDS VerdictStore, Naturals

CONSTANTS
  Calls,        \* the calls of interpret, by serve and by replay
  MaxAssessed   \* bound: assessments in an answer

ASSUME MaxAssessedAssumption == MaxAssessed \in Nat

VARIABLES
  stage,        \* "asking", "assessing", "assessed", "template" or "died"
  stores,       \* the call was given a store (serve's, if it could be opened); chosen
                \* when the model has answered, which is when it matters
  assessed,     \* assessments in the answer
  made          \* child verdicts made

callVars == <<stage, stores, assessed, made>>

\* The ids of a call's verdicts; the parent's has number 0.
IdsOf(c) == {<<c, k>> : k \in 0..MaxAssessed}
Children(c) == {<<c, k>> : k \in 1..assessed[c]}

InterpretInit ==
  /\ stage = [c \in Calls |-> "asking"] /\ stores = [c \in Calls |-> FALSE]
  /\ assessed = [c \in Calls |-> 0] /\ made = [c \in Calls |-> 0]

Answered(c) ==
  /\ stage[c] = "asking" /\ stage' = [stage EXCEPT ![c] = "assessing"]
  /\ \E n \in 0..MaxAssessed : assessed' = [assessed EXCEPT ![c] = n]
  /\ \E s \in BOOLEAN : stores' = [stores EXCEPT ![c] = s]
  /\ UNCHANGED <<made, verdicts>>

\* The call or its parsing failed: the template verdicts are returned, not stored.
Unanswered(c) ==
  /\ stage[c] = "asking" /\ stage' = [stage EXCEPT ![c] = "template"]
  /\ UNCHANGED <<stores, assessed, made, verdicts>>

Keep(c, id, v) == IF stores[c] THEN Put(id, v) ELSE UNCHANGED verdicts

\* Variant: one child more than there are assessments.
MakeChildMore(c) ==
  /\ stage[c] = "assessing" /\ made[c] <= assessed[c]
  /\ made' = [made EXCEPT ![c] = @ + 1]
  /\ Keep(c, <<c, made[c] + 1>>, Verdict({}, {}, {}))
  /\ UNCHANGED <<stage, stores, assessed>>

MakeChild(c) ==
  /\ stage[c] = "assessing" /\ made[c] < assessed[c]
  /\ made' = [made EXCEPT ![c] = @ + 1]
  /\ Keep(c, <<c, made[c] + 1>>, Verdict({}, {}, {}))
  /\ UNCHANGED <<stage, stores, assessed>>

\* Variant: the parent is made when there are still children to make.
MakeParentEarly(c) ==
  /\ stage[c] = "assessing"
  /\ stage' = [stage EXCEPT ![c] = "assessed"]
  /\ Keep(c, <<c, 0>>, Verdict({}, {<<c, k>> : k \in 1..made[c]}, {}))
  /\ UNCHANGED <<stores, assessed, made>>

MakeParent(c) ==
  /\ stage[c] = "assessing" /\ made[c] = assessed[c]
  /\ stage' = [stage EXCEPT ![c] = "assessed"]
  /\ Keep(c, <<c, 0>>, Verdict({}, Children(c), {}))
  /\ UNCHANGED <<stores, assessed, made>>

\* A field of another type than a verdict takes, tags that are no list, a store that
\* fails, or the end of the process: what is stored stays, the rest is lost.
InterpretDies(c) ==
  /\ stage[c] \in {"asking", "assessing"} /\ stage' = [stage EXCEPT ![c] = "died"]
  /\ stores' = [stores EXCEPT ![c] = FALSE]
  /\ assessed' = [assessed EXCEPT ![c] = 0] /\ made' = [made EXCEPT ![c] = 0]
  /\ UNCHANGED verdicts

Interpret(c) ==
  Answered(c) \/ Unanswered(c) \/ MakeChild(c) \/ MakeParent(c) \/ InterpretDies(c)
-----------------------------------------------------------------------------
\* What a call that returned says it did, it did: the verdicts of an assessment are
\* in the store, if there is one, the parent with every child of it; a template is
\* not.  A parent is never without its children, wherever the call ended.
CallsAreWhole ==
  \A c \in Calls :
    LET kept == IdsOf(c) \cap Stored
    IN  /\ stage[c] = "template" => kept = {}
        /\ stage[c] = "assessed" =>
             kept = IF stores[c] THEN Children(c) \cup {<<c, 0>>} ELSE {}
        /\ <<c, 0>> \in kept => /\ stage[c] = "assessed"
                                /\ verdicts[<<c, 0>>].children = Children(c)
=============================================================================
