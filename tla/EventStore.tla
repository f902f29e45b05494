----------------------------- MODULE EventStore -----------------------------
(* The SQLite event store (store/sqlite.py): the table of events and its        *)
(* full-text index, one connection, and the transaction Python's sqlite3 opens  *)
(* before the first statement that writes.  A row is <<rowid, event>>, the event *)
(* standing for its id; an index entry names the row it was made from.  Every    *)
(* statement is a step, any of them may fail, and the process may die between   *)
(* two.  Which rows are past their time to live is left open.                    *)
EXTENDS Naturals, FiniteSets, Sequences, SequencesExt

CONSTANTS
  Singles,      \* events that are inserted alone
  Batches,      \* sequences of events that are inserted together
  CallersCarryOn,   \* callers use the store again after it raised
  MaxRowid      \* bound: the highest rowid

ASSUME BatchesAssumption ==
  /\ CallersCarryOn \in BOOLEAN /\ MaxRowid \in Nat
  /\ \A b \in Batches : b # <<>> /\ b \in Seq(ToSet(b))

VARIABLES
  pc,           \* "idle", the statement that is next, "failed" or "closed"
  kind,         \* the operation in progress, or the last one
  todo,         \* its events that are not in the index yet
  doomed,       \* expired rows that are still in the index
  rows, index,  \* what the connection sees
  crows, cindex,    \* what is committed
  asked         \* history: the events the operation is about

pending == <<rows, index>>
durable == <<crows, cindex>>
vars == <<pc, kind, todo, doomed, rows, index, crows, cindex, asked>>

IdsOf(table) == {row[2] : row \in table}

Statements == {"row", "index", "unindex", "delete", "commit"}

Init ==
  /\ pc = "idle" /\ kind = "none"
  /\ todo = <<>> /\ doomed = {} /\ asked = {}
  /\ rows = {} /\ index = {} /\ crows = {} /\ cindex = {}

\* Variant of NewRowid: the number of rows plus one.
NewRowidCount == Cardinality(rows) + 1

\* Without AUTOINCREMENT the rowid of a deleted last row is given again.
NewRowid == IF rows = {} THEN 1 ELSE Max({row[1] : row \in rows}) + 1

Begin(operation, events) ==
  /\ pc = "idle"
  /\ pc' = "row" /\ kind' = operation
  /\ todo' = events /\ asked' = ToSet(events)
  /\ UNCHANGED <<doomed, pending, durable>>

Insert(e) == Begin("insert", <<e>>)

InsertBatch(events) == Begin("batch", events)

\* The primary key: a known id fails here.
InsertRow ==
  /\ pc = "row" /\ Head(todo) \notin IdsOf(rows) /\ NewRowid <= MaxRowid
  /\ rows' = rows \cup {<<NewRowid, Head(todo)>>}
  /\ pc' = "index"
  /\ UNCHANGED <<kind, todo, doomed, index, durable, asked>>

\* Variants of IndexRow: a commit for every event of a batch; events after the
\* first left out of the index.
IndexRowCommit ==
  /\ pc = "index"
  /\ index' = index \cup {row \in rows : row[2] = Head(todo)}
  /\ todo' = Tail(todo)
  /\ pc' = IF todo' = <<>> THEN "commit" ELSE "row"
  /\ crows' = rows /\ cindex' = index'
  /\ UNCHANGED <<kind, doomed, rows, asked>>
IndexRowLast ==
  /\ pc = "index"
  /\ index' = IF Len(todo) > 1 THEN index
              ELSE index \cup {row \in rows : row[2] = Head(todo)}
  /\ todo' = Tail(todo)
  /\ pc' = IF todo' = <<>> THEN "commit" ELSE "row"
  /\ UNCHANGED <<kind, doomed, rows, durable, asked>>

IndexRow ==
  /\ pc = "index"
  /\ index' = index \cup {row \in rows : row[2] = Head(todo)}
  /\ todo' = Tail(todo)
  /\ pc' = IF todo' = <<>> THEN "commit" ELSE "row"
  /\ UNCHANGED <<kind, doomed, rows, durable, asked>>

\* Variant of ExpireOld: the rows only.
ExpireOldUnindexed(expired) ==
  /\ pc = "idle" /\ expired # {}
  /\ pc' = "delete" /\ kind' = "expire"
  /\ doomed' = {} /\ asked' = IdsOf(expired) /\ todo' = <<>>
  /\ UNCHANGED <<pending, durable>>

\* expire_old selects the rows; with none it returns.
ExpireOld(expired) ==
  /\ pc = "idle" /\ expired # {}
  /\ pc' = "unindex" /\ kind' = "expire"
  /\ doomed' = expired /\ asked' = IdsOf(expired) /\ todo' = <<>>
  /\ UNCHANGED <<pending, durable>>

Unindex(row) ==
  /\ pc = "unindex" /\ row \in doomed
  /\ index' = index \ {row}
  /\ doomed' = doomed \ {row}
  /\ pc' = IF doomed' = {} THEN "delete" ELSE "unindex"
  /\ UNCHANGED <<kind, todo, rows, durable, asked>>

DeleteRows ==
  /\ pc = "delete"
  /\ rows' = {row \in rows : row[2] \notin asked}
  /\ pc' = "commit"
  /\ UNCHANGED <<kind, todo, doomed, index, durable, asked>>

Commit ==
  /\ pc = "commit"
  /\ crows' = rows /\ cindex' = index
  /\ pc' = "idle"
  /\ UNCHANGED <<kind, todo, doomed, pending, asked>>

RollBack == rows' = crows /\ index' = cindex

\* Only insert_batch rolls back; insert and expire_old leave their transaction open.
Raise ==
  /\ pc \in Statements
  /\ IF kind = "batch" THEN RollBack ELSE UNCHANGED pending
  /\ pc' = "failed"
  /\ UNCHANGED <<kind, todo, doomed, durable, asked>>

\* serve, replay and correlate end on what the store raises, and close it or exit.
CarryOn ==
  /\ pc = "failed" /\ CallersCarryOn
  /\ pc' = "idle"
  /\ UNCHANGED <<kind, todo, doomed, pending, durable, asked>>

\* close, or the end of the process at any point: what is not committed is gone.
Close ==
  /\ pc # "closed"
  /\ RollBack
  /\ pc' = "closed"
  /\ UNCHANGED <<kind, todo, doomed, durable, asked>>

Open ==
  /\ pc = "closed"
  /\ pc' = "idle"
  /\ UNCHANGED <<kind, todo, doomed, pending, durable, asked>>

Next ==
  \/ \E e \in Singles : Insert(e)
  \/ \E events \in Batches : InsertBatch(events)
  \/ InsertRow \/ IndexRow
  \/ \E expired \in SUBSET rows : ExpireOld(expired)
  \/ \E row \in doomed : Unindex(row)
  \/ DeleteRows \/ Commit \/ Raise \/ CarryOn \/ Close \/ Open

Spec == Init /\ [][Next]_vars
-----------------------------------------------------------------------------
(* Properties                                                                 *)

Events == Singles \cup UNION {ToSet(b) : b \in Batches}

\* A rowid is one row's and an event has one row, even where the rowid of a deleted
\* row is given again; what is indexed, and what is about to be deleted, is a row.
TypeOK ==
  /\ pc \in Statements \cup {"idle", "failed", "closed"}
  /\ kind \in {"none", "insert", "batch", "expire"}
  /\ todo \in Seq(Events) /\ asked \subseteq Events
  /\ rows \cup crows \cup doomed \subseteq (1..MaxRowid) \X Events
  /\ index \subseteq rows
  /\ pc \in {"unindex", "delete"} => doomed \subseteq rows
  /\ \A r, q \in rows : r[1] = q[1] \/ r[2] = q[2] => r = q

\* What is committed always has its index: no crash and no failing statement leaves
\* a row that search does not find, or an entry without its row.
IndexFollowsRows == cindex = crows

\* Every operation is atomic and durable as AtomicStore says: a batch is stored as
\* a whole or not at all, expiry takes rows and index entries together.
Requests == {{e} : e \in Singles} \cup {ToSet(b) : b \in Batches}
Store == INSTANCE AtomicStore
           WITH table <- IdsOf(crows), searchable <- IdsOf(cindex)
StoreSpec == Store!Spec

\* Even when callers carry on after an exception, so that a later commit takes the
\* leftovers of a failed operation with it, no index entry is without its row: with
\* rowids given twice, search would return another event for it.
NoDanglingEntry == cindex \subseteq crows
=============================================================================
