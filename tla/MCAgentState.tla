---------------------------- MODULE MCAgentState ----------------------------
(* Small instance: every report of at most two groups with priorities P0..P2.  *)
EXTENDS AgentState

MCGroups == [priority : 0..2]
MCReports == {<<>>} \cup [1..1 -> MCGroups] \cup [1..2 -> MCGroups]
=============================================================================
