---------------------------- MODULE MCIngestPath ----------------------------
(* Small instances: c1 gives its event an id and sends it again under that id;  *)
(* the others give none.  In the mixed instance c1 and c3 send every kind of     *)
(* request between them, whichever they like each time.                         *)
EXTENDS IngestPath

CONSTANTS c1, c2, c3, e1

MCSuppliedId == [c \in Clients |-> IF c \in {c1, c2} THEN e1 ELSE None]
MCKind == [c \in Clients |-> {"event"}]
MCMixedKind == [c \in Clients |->
  IF c = c1 THEN {"event", "mistyped", "echoed"} ELSE {"event", "unbindable", "invalid", "refused"}]
=============================================================================
