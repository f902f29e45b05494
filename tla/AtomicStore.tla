----------------------------- MODULE AtomicStore ----------------------------
(* What the event store promises of what is durable: a request takes effect as *)
(* a whole or not at all, an id is stored once, and the full-text index always *)
(* holds the events that the table holds.                                      *)
CONSTANTS
  Requests      \* the sets of events that callers insert together

VARIABLES
  table,        \* the durable events
  searchable    \* those the full-text index finds

vars == <<table, searchable>>

Init == table = {} /\ searchable = {}

Add(events) ==
  /\ events \cap table = {}
  /\ table' = table \cup events
  /\ searchable' = table'

Expire(events) ==
  /\ events \subseteq table
  /\ table' = table \ events
  /\ searchable' = table'

Next ==
  \/ \E events \in Requests : Add(events)
  \/ \E events \in SUBSET table : Expire(events)

Spec == Init /\ [][Next]_vars
=============================================================================
