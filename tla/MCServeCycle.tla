---------------------------- MODULE MCServeCycle ----------------------------
(* Small instance: the program's own durations in minutes, and an empty, a     *)
(* calm and two elevated reports, all with different hashes.  The loop passes  *)
(* no topology, so none of them holds a P0 group.                              *)
EXTENDS ServeCycle

CONSTANTS s1, s2

Group(s, n, p) == [services |-> {s}, count |-> n, priority |-> p, tokens |-> 1]
MCReports == {<<>>, <<Group(s1, 1, 1), Group(s2, 1, 2)>>,
              <<Group(s1, 1, 1), Group(s2, 1, 1)>>, <<Group(s1, 2, 1), Group(s2, 1, 1)>>}

\* 30 seconds of INCIDENT are rounded up; serve never enters it.
MCInterval == [watching |-> 5, alert |-> 1, incident |-> 1, degraded |-> 2]
MCTtl == [watching |-> 15, alert |-> 5, incident |-> 0, degraded |-> 10]
=============================================================================
