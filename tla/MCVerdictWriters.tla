-------------------------- MODULE MCVerdictWriters ---------------------------
(* Small instance: two evaluations, a command on one of them, a command on the     *)
(* other or on the first command's verdict, and one call of interpret.            *)
EXTENDS VerdictWriters

CONSTANTS e1, e2, r1, r2, g1, g2, cause

Opt(t, model, records, slack, respond) ==
  [trigger |-> t, model |-> model, records |-> records, slack |-> slack, respond |-> respond]

MCOptions == [r \in {r1, r2} |->
  IF r = r1 THEN {Opt(e1, TRUE, TRUE, TRUE, "good")}
  ELSE {Opt(r1, FALSE, FALSE, TRUE, "bad"), Opt(e2, FALSE, TRUE, FALSE, "list")}]

MCFoundSets == {{g1}}
A(g, c) == [group |-> g, cause |-> c]
MCAnswers == {<<A(g1, None), A(g2, cause), A(g1, cause)>>, <<A(g1, cause), A(g1, None)>>}
=============================================================================
