----------------------------- MODULE IngestPath -----------------------------
(* How an event gets from a client into the event store when the agent serves: *)
(* the webhook's connection handlers (ingestion/webhook.py) put it on a bounded *)
(* queue, and the serve loop (cli.py) drains the queue into the store each time *)
(* its wait ends.  Both run in one event loop and the drain awaits nothing, so  *)
(* no handler runs during it; a crash may still fall between two of its inserts. *)
(* Clients are external: they send an event and send it again, with the same id *)
(* if they gave it one, until they have read an answer or given up.             *)
EXTENDS Naturals, FiniteSets, Sequences, SequencesExt

CONSTANTS
  Clients,
  Kind,           \* the kinds of request each client may send, see Kinds
  SuppliedId,     \* the id a client puts in its event, or None
  None,
  QueueSize,      \* the queue's maxsize
  WaitsForConnections,  \* Server.wait_closed waits for open connections (Python 3.12)
  StoreMayFail,   \* an insert may fail for reasons of its own: lock, disk
  MaxAttempts,    \* bound: requests per client
  MaxRestarts     \* bound: times the agent is started again

\* "event" is what the store takes; "unbindable" passes the webhook but holds a
\* value SQLite cannot bind; "invalid" fails validation; "echoed" fails it too, with
\* a type so long that the answer, which repeats it, is not sent off until the peer
\* reads; "mistyped" makes the parser raise TypeError; "refused" has a bad method or
\* an excessive size.
Kinds == {"event", "unbindable", "invalid", "echoed", "mistyped", "refused"}

ASSUME ClientsAssumption ==
  Kind \in [Clients -> SUBSET Kinds] /\ DOMAIN SuppliedId = Clients
ASSUME QueueSizeAssumption == QueueSize \in Nat \ {0}
ASSUME BoundsAssumption ==
  MaxAttempts \in Nat /\ MaxRestarts \in Nat
  /\ WaitsForConnections \in BOOLEAN /\ StoreMayFail \in BOOLEAN

VARIABLES
  pc,         \* the loop: "waiting" for the timer, "draining", "working" (the rest
              \* of the cycle, with its model call), "stopping" or "down"
  cause,      \* why it left the loop: "none", "signal", "insert" or "crash"
  shutdown,   \* the shutdown event is set
  queue,      \* event_queue
  db,         \* ids of the committed rows of the store
  conn,       \* each client's connection, see ConnStates
  attempts,   \* requests each client has made
  answer,     \* the answer each client has read, or None
  restarts,
  accepted,   \* history: events put on the queue since the start
  stored,     \* history: events inserted since the start
  acked       \* history: events answered with 200 since the start

loop == <<pc, cause, shutdown>>
vars == <<pc, cause, shutdown, queue, db, conn, attempts, answer, restarts,
          accepted, stored, acked>>

Answers == {"200", "400", "refused"}

\* A short answer is off as soon as it is written.  "unread" is a 400 that waits in
\* the transport for the peer to read; "overdue" is one whose deadline has passed:
\* its handler was cancelled, once, and waits for the transport to close.
ConnStates == Answers \cup {"closed", "reading", "unread", "overdue"}

\* An event without an id gets a new one with every request.
Event(c, kind) ==
  [from |-> c, kind |-> kind,
   id |-> IF SuppliedId[c] # None THEN SuppliedId[c] ELSE <<c, attempts[c]>>]
Bindable(e) == e.kind = "event"

Ids(events) == {e.id : e \in events}

Init ==
  /\ pc = "waiting" /\ cause = "none" /\ shutdown = FALSE
  /\ queue = <<>> /\ db = {}
  /\ conn = [c \in Clients |-> "closed"]
  /\ attempts = [c \in Clients |-> 0]
  /\ answer = [c \in Clients |-> None]
  /\ restarts = 0
  /\ accepted = <<>> /\ stored = <<>> /\ acked = {}
-----------------------------------------------------------------------------
(* Connections.  Handlers run whenever the loop awaits something, and still do *)
(* while the finally block waits for the server to close.                      *)

HandlersRun == pc \in {"waiting", "working", "stopping"}

Connect(c) ==
  /\ pc \in {"waiting", "working"}
  /\ conn[c] = "closed" /\ answer[c] = None /\ attempts[c] < MaxAttempts
  /\ conn' = [conn EXCEPT ![c] = "reading"]
  /\ attempts' = [attempts EXCEPT ![c] = @ + 1]
  /\ UNCHANGED <<loop, queue, db, answer, restarts, accepted, stored, acked>>

Write(c, code) == conn' = [conn EXCEPT ![c] = code]

\* 431, 413 and 405 need no body; 400 is for what validation rejects.
Refuse(c, kind) ==
  /\ \/ kind = "refused" /\ Write(c, "refused")
     \/ kind = "invalid" /\ Write(c, "400")
     \/ kind = "echoed" /\ Write(c, "unread")
  /\ UNCHANGED <<queue, accepted, acked>>

\* The parser raises what its caller does not catch: closed without an answer.
Choke(c, kind) ==
  /\ kind = "mistyped"
  /\ Write(c, "closed")
  /\ UNCHANGED <<queue, accepted, acked>>

\* Variant of Overflow: a full queue is answered as if the event had been taken.
OverflowSilent(c, kind) ==
  /\ kind \in {"event", "unbindable"} /\ Len(queue) >= QueueSize
  /\ acked' = acked \cup {Event(c, kind)}
  /\ Write(c, "200")
  /\ UNCHANGED <<queue, accepted>>

\* The handler puts the event on the queue before the answer is written.
Accept(c, kind) ==
  /\ kind \in {"event", "unbindable"} /\ Len(queue) < QueueSize
  /\ queue' = Append(queue, Event(c, kind))
  /\ accepted' = Append(accepted, Event(c, kind))
  /\ acked' = acked \cup {Event(c, kind)}
  /\ Write(c, "200")

\* put_nowait raises QueueFull: closed without an answer.
Overflow(c, kind) ==
  /\ kind \in {"event", "unbindable"} /\ Len(queue) >= QueueSize
  /\ Write(c, "closed")
  /\ UNCHANGED <<queue, accepted, acked>>

Handle(c) ==
  /\ HandlersRun /\ conn[c] = "reading"
  /\ \E kind \in Kind[c] :
       Refuse(c, kind) \/ Choke(c, kind) \/ Accept(c, kind) \/ Overflow(c, kind)
  /\ UNCHANGED <<loop, db, attempts, answer, restarts, stored>>

\* What ends a connection touches nothing else but what its client has read.
ConnectionOnly == UNCHANGED <<loop, queue, db, attempts, restarts, accepted, stored, acked>>

\* A short answer is written, the finally block closes the connection; the client
\* reads it, or is gone.
Close(c) ==
  /\ HandlersRun /\ conn[c] \in Answers
  /\ \/ answer' = [answer EXCEPT ![c] = conn[c]]
     \/ UNCHANGED answer
  /\ Write(c, "closed")
  /\ ConnectionOnly

\* The peer has read a long answer, so drain() or wait_closed() returns.
Flush(c) ==
  /\ HandlersRun /\ conn[c] \in {"unread", "overdue"}
  /\ answer' = [answer EXCEPT ![c] = "400"]
  /\ Write(c, "closed")
  /\ ConnectionOnly

\* The peer goes away: before its request is complete, or without reading on.
Leave(c) ==
  /\ HandlersRun /\ conn[c] \in {"reading", "unread", "overdue"}
  /\ Write(c, "closed")
  /\ UNCHANGED answer
  /\ ConnectionOnly

\* Variants of TimeOut: the deadline covers the reading of the request only, or the
\* writing of the answer only.
TimeOutReading(c) ==
  /\ HandlersRun /\ conn[c] = "reading"
  /\ Write(c, "closed")
  /\ UNCHANGED answer
  /\ ConnectionOnly
TimeOutWriting(c) ==
  /\ HandlersRun /\ conn[c] = "unread"
  /\ Write(c, "overdue")
  /\ UNCHANGED answer
  /\ ConnectionOnly

\* The connection's deadline passes: the handler is cancelled, and its finally block
\* closes the connection and waits for that without a limit.  A transport with
\* nothing to send closes at once, one with an answer not read does not.
TimeOut(c) ==
  /\ HandlersRun
  /\ \/ conn[c] = "reading" /\ Write(c, "closed")
     \/ conn[c] = "unread" /\ Write(c, "overdue")
  /\ UNCHANGED answer
  /\ ConnectionOnly
-----------------------------------------------------------------------------
(* The loop                                                                   *)

handlers == <<conn, attempts, answer, accepted, acked>>

WakeUp ==
  /\ pc = "waiting"
  /\ pc' = "draining"
  /\ UNCHANGED <<cause, shutdown, queue, db, handlers, restarts, stored>>

\* Variants: the newest event first; a drain that stops with events left.
StoreNewest ==
  /\ pc = "draining" /\ queue # <<>>
  /\ Bindable(Last(queue)) /\ Last(queue).id \notin db
  /\ db' = db \cup {Last(queue).id}
  /\ stored' = Append(stored, Last(queue))
  /\ queue' = Front(queue)
  /\ UNCHANGED <<loop, handlers, restarts>>
DrainedEarly ==
  /\ pc = "draining"
  /\ pc' = "working"
  /\ UNCHANGED <<cause, shutdown, queue, db, handlers, restarts, stored>>

Store ==
  /\ pc = "draining" /\ queue # <<>>
  /\ Bindable(Head(queue)) /\ Head(queue).id \notin db
  /\ db' = db \cup {Head(queue).id}
  /\ stored' = Append(stored, Head(queue))
  /\ queue' = Tail(queue)
  /\ UNCHANGED <<loop, handlers, restarts>>

\* Only QueueEmpty is caught: a failing insert takes the loop with it.
InsertRaises ==
  /\ pc = "draining" /\ queue # <<>>
  /\ StoreMayFail \/ ~Bindable(Head(queue)) \/ Head(queue).id \in db
  /\ queue' = Tail(queue)
  /\ pc' = "stopping" /\ cause' = "insert"
  /\ UNCHANGED <<shutdown, db, handlers, restarts, stored>>

Drained ==
  /\ pc = "draining" /\ queue = <<>>
  /\ pc' = "working"
  /\ UNCHANGED <<cause, shutdown, queue, db, handlers, restarts, stored>>

\* What the cycle does meanwhile is ServeCycle's.
EndCycle ==
  /\ pc = "working"
  /\ \/ ~shutdown /\ pc' = "waiting" /\ UNCHANGED cause
     \/ shutdown /\ pc' = "stopping" /\ cause' = "signal"
  /\ UNCHANGED <<shutdown, queue, db, handlers, restarts, stored>>

Drain == Store \/ InsertRaises \/ Drained

Signal ==
  /\ pc # "down" /\ ~shutdown
  /\ shutdown' = TRUE
  /\ UNCHANGED <<pc, cause, queue, db, handlers, restarts, stored>>

\* The queue is not drained on the way out.
Stop ==
  /\ pc = "waiting" /\ shutdown
  /\ pc' = "stopping" /\ cause' = "signal"
  /\ UNCHANGED <<shutdown, queue, db, handlers, restarts, stored>>

GoDown ==
  /\ pc' = "down"
  /\ queue' = <<>>
  /\ conn' = [c \in Clients |-> "closed"]
  /\ UNCHANGED <<shutdown, db, attempts, answer, restarts, accepted, stored, acked>>

CloseStore ==
  /\ pc = "stopping"
  /\ WaitsForConnections => \A c \in Clients : conn[c] = "closed"
  /\ GoDown
  /\ UNCHANGED cause

Crash == pc # "down" /\ GoDown /\ cause' = "crash"

Restart ==
  /\ pc = "down" /\ restarts < MaxRestarts
  /\ restarts' = restarts + 1
  /\ pc' = "waiting" /\ cause' = "none" /\ shutdown' = FALSE
  /\ accepted' = <<>> /\ stored' = <<>> /\ acked' = {}
  /\ UNCHANGED <<queue, db, conn, attempts, answer>>

Connection(c) ==
  Connect(c) \/ Handle(c) \/ Close(c) \/ Flush(c) \/ Leave(c) \/ TimeOut(c)

Next ==
  \/ \E c \in Clients : Connection(c)
  \/ WakeUp \/ Drain \/ EndCycle \/ Signal \/ Stop \/ CloseStore \/ Crash \/ Restart

Spec == Init /\ [][Next]_vars

\* The timer fires, the drain goes on, the cycle ends, a set shutdown event ends
\* the wait, the finally block runs.  The 30-second timer of a connection fires, and
\* a handler with nothing left to wait for goes on, when the event loop next gets to
\* them: strong fairness, because a drain comes between again and again.
\* Clients, crashes and restarts owe nothing; above all nobody reads a long answer.
Fairness ==
  /\ WF_vars(WakeUp) /\ WF_vars(Drain) /\ WF_vars(EndCycle)
  /\ WF_vars(Stop) /\ WF_vars(CloseStore)
  /\ \A c \in Clients : SF_vars(TimeOut(c)) /\ SF_vars(Close(c))

FairSpec == Spec /\ Fairness
-----------------------------------------------------------------------------
(* Properties                                                                 *)

LoopRuns == pc \in {"waiting", "draining", "working"}

TypeOK ==
  /\ pc \in {"waiting", "draining", "working", "stopping", "down"}
  /\ cause \in {"none", "signal", "insert", "crash"}
  /\ shutdown \in BOOLEAN
  /\ \A e \in ToSet(queue) : e.from \in Clients
  /\ Len(queue) <= QueueSize
  /\ conn \in [Clients -> ConnStates]
  /\ attempts \in [Clients -> 0..MaxAttempts]
  /\ answer \in [Clients -> Answers \cup {None}]
  /\ restarts \in 0..MaxRestarts

\* As long as the loop runs, the queue and the store between them are a channel:
\* what the handlers took is what was inserted followed by what is queued, in
\* order, nothing lost and nothing twice.
NothingLost ==
  LoopRuns => accepted = stored \o queue

\* As long as the loop runs, an event that was answered with 200 is in the store
\* or on its way there.
AckedIsHeld ==
  LoopRuns => \A e \in acked : e.id \in db \/ e \in ToSet(queue)

\* The queue does not fill up behind a loop that runs: the n-th event taken is
\* inserted by a later drain, unless the loop ends.
QueuedIsStored ==
  \A n \in 1..(MaxAttempts * Cardinality(Clients)) :
    (Len(accepted) >= n) ~> (Len(stored) >= n \/ ~LoopRuns)

\* A requested shutdown completes, whatever clients do that connect, send half a
\* request or go away; only a peer that never reads a long answer, and stays, holds it
\* up: the finally block waits for the server, the server for the connection, and its
\* deadline has already been spent (_handle_connection, _handle_request, stop).
ShutdownCompletes ==
  (\A c \in Clients : []<>(conn[c] # "overdue"))
    => (shutdown ~> (pc = "down" \/ ~shutdown))

\* Every connection is closed or comes to its deadline, whatever its client does or
\* leaves undone; what is open afterwards is open for a long answer that is not read.
ConnectionsEnd ==
  \A c \in Clients : (conn[c] # "closed") ~> (conn[c] \in {"closed", "overdue"})

\* The design's "Run until SIGTERM/SIGINT": the loop is left on a signal only.
RunsUntilSignal == pc = "stopping" => shutdown

\* The design's "Writes to EventStore via insert()" and "Returns 200 on success":
\* an event answered with 200 is in the store after an orderly shutdown.
AckedSurvivesShutdown ==
  pc = "down" /\ cause = "signal" => Ids(acked) \subseteq db
=============================================================================
