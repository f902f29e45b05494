---------------------------- MODULE MCEventStore ----------------------------
(* Small instance: one event that is inserted alone, and batches of two, one of *)
(* which overlaps with the others and one of which repeats an event.           *)
EXTENDS EventStore

CONSTANTS e1, e2, e3, e4

MCBatches == {<<e2, e3>>, <<e3, e1>>, <<e4, e4>>}
=============================================================================
