---------------------------- MODULE MCCorrelation ---------------------------
(* Small instance: a critical service b between a and c, alerts on each, some  *)
(* of them repeated with another severity, changes on b and d, and one event   *)
(* whose timestamp is three ticks behind UTC.                                  *)
EXTENDS Correlation

Ev(id, svc, sig, chg, sev, at, stamp) ==
  [id |-> id, service |-> svc, signal |-> sig, change |-> chg,
   severity |-> sev, at |-> at, stamp |-> stamp]
At(id, svc, sig, chg, sev, at) == Ev(id, svc, sig, chg, sev, at, at)

MCEvents == {
  At(1, "a", "x", FALSE, 9, 3), At(2, "a", "x", FALSE, 4, 5),
  At(3, "a", "y", FALSE, 2, 6), At(4, "b", "x", FALSE, 5, 5),
  At(5, "b", "x", FALSE, 9, 6), At(6, "b", "d", TRUE,  3, 2),
  At(7, "c", "x", FALSE, 1, 3), At(8, "c", "x", FALSE, 7, 5),
  At(9, "d", "d", TRUE,  5, 4), At(10, "d", "x", FALSE, 9, 6),
  Ev(11, "a", "z", FALSE, 7, 7, 4), At(12, "a", "e", TRUE, 3, 4)}
MCTopology == [a |-> [tier |-> "standard", dependencies |-> {"b"}],
               b |-> [tier |-> "critical", dependencies |-> {"c"}],
               c |-> [tier |-> "standard", dependencies |-> {"d"}]]
=============================================================================
