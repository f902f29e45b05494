------------------------ MODULE MCSnapshotGenerator ------------------------
(* Small instance: five groups of two services, lists of at most two of them   *)
(* and a few of three, a budget that two small groups or one large one fill,   *)
(* and the program's times to live in units of five minutes.                   *)
EXTENDS SnapshotGenerator

CONSTANTS s1, s2

Group(s, p, t) == [services |-> {s}, count |-> 1, priority |-> p, tokens |-> t]

\* The second and third group have one key and different texts.
MCGroups == {Group(s1, 0, 2), Group(s1, 1, 2), Group(s1, 1, 1),
             Group(s2, 1, 1), Group(s2, 2, 1)}
MCLong == {<<Group(s2, 2, 1), Group(s1, 1, 2), Group(s1, 0, 2)>>,
           <<Group(s2, 2, 1), Group(s2, 1, 1), Group(s1, 1, 1)>>,
           <<Group(s2, 2, 1), Group(s1, 1, 2), Group(s2, 1, 1)>>,
           <<Group(s2, 1, 1), Group(s1, 1, 2), Group(s2, 2, 1)>>,
           <<Group(s1, 0, 2), Group(s2, 1, 1), Group(s2, 0, 1)>>}
MCReports == BoundedSeq(MCGroups, 2) \cup MCLong
MCTtl == [watching |-> 3, alert |-> 1, incident |-> 0, degraded |-> 2]
=============================================================================
