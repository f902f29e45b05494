-------------------------- MODULE EventStoreProofs --------------------------
(* Theorems about EventStore, for any events, batches and bound on rowids: first *)
(* for callers that end on what the store raises, then for all.                *)
EXTENDS EventStore, SequenceTheorems, WellFoundedInduction, TLAPS

\* A row is found by its event.
OneRowEach(table) == \A r, q \in table : r[2] = q[2] => r = q

\* While events are inserted, the table holds what was committed and what was asked
\* for and is not left to do, and none of that was there before.
Inserting ==
  pc \in {"row", "index"} =>
    /\ todo \in Seq(Events) /\ todo # <<>>
    /\ kind # "expire" /\ asked \in Requests
    /\ crows \subseteq rows /\ OneRowEach(rows)
    /\ IdsOf(rows) \cup ToSet(todo) = IdsOf(crows) \cup asked
    /\ asked \cap IdsOf(crows) \subseteq ToSet(todo)
    /\ pc = "row" => index = rows
    /\ pc = "index" => /\ index \cup {r \in rows : r[2] = Head(todo)} = rows
                       /\ Head(todo) \in IdsOf(rows) \ IdsOf(crows)

\* While events are expired, the index lacks those that are done with.
Expiring ==
  pc \in {"unindex", "delete"} =>
    /\ kind = "expire" /\ rows = crows /\ asked \subseteq IdsOf(crows)
    /\ index = {r \in rows : r[2] \notin asked \/ r \in doomed}
    /\ \A r \in doomed : r[2] \in asked
    /\ pc = "delete" => doomed = {}

\* What the commit is going to make durable.
Committing ==
  pc = "commit" =>
    /\ index = rows /\ OneRowEach(rows)
    /\ \/ /\ asked \in Requests /\ asked \cap IdsOf(crows) = {}
          /\ IdsOf(rows) = IdsOf(crows) \cup asked
       \/ /\ asked \subseteq IdsOf(crows)
          /\ IdsOf(rows) = IdsOf(crows) \ asked

Inv ==
  /\ IndexFollowsRows
  /\ OneRowEach(crows)
  /\ pc \in {"idle", "closed"} => rows = crows /\ index = crows
  /\ Inserting
  /\ Expiring
  /\ Committing

\* A list that is not empty is its head and its tail.
LEMMA HeadAndTail ==
  ASSUME NEW S, NEW s \in Seq(S), s # <<>>
  PROVE  /\ Tail(s) \in Seq(S) /\ Head(s) \in S
         /\ ToSet(s) = {Head(s)} \cup ToSet(Tail(s))
<1> DEFINE t == Tail(s)
<1>1. /\ t \in Seq(S) /\ Len(t) = Len(s) - 1 /\ Len(s) \in Nat \ {0}
      /\ \A i \in 1..Len(t) : t[i] = s[i + 1]
  BY HeadTailProperties, LenProperties
<1>2. Head(s) = s[1] /\ Head(s) \in S
  BY HeadTailProperties
<1>3. DOMAIN s = 1..Len(s) /\ DOMAIN t = 1..Len(t)
  BY <1>1, LenProperties
<1> HIDE DEF t
<1>4. ToSet(s) \subseteq {Head(s)} \cup ToSet(t)
  <2> SUFFICES ASSUME NEW i \in 1..Len(s) PROVE s[i] \in {Head(s)} \cup ToSet(t)
    BY <1>3 DEF ToSet
  <2>1. CASE i = 1
    BY <2>1, <1>2
  <2>2. CASE i # 1
    <3>1. i - 1 \in 1..Len(t) /\ t[i - 1] = s[i]
      BY <1>1, <2>2
    <3> QED BY <3>1, <1>3 DEF ToSet
  <2> QED BY <2>1, <2>2
<1>5. Head(s) \in ToSet(s)
  BY <1>1, <1>2, <1>3 DEF ToSet
<1>6. ToSet(t) \subseteq ToSet(s)
  <2> SUFFICES ASSUME NEW i \in 1..Len(t) PROVE t[i] \in ToSet(s)
    BY <1>3 DEF ToSet
  <2>1. i + 1 \in 1..Len(s) /\ s[i + 1] = t[i]
    BY <1>1
  <2> QED BY <2>1, <1>3 DEF ToSet
<1> QED BY <1>1, <1>2, <1>4, <1>5, <1>6 DEF t

\* One event alone is a list of it.
LEMMA SingleElement ==
  ASSUME NEW e PROVE ToSet(<<e>>) = {e} /\ <<e>> # <<>>
BY DEF ToSet

\* Nothing left to do is no event.
LEMMA EmptyElements == ToSet(<<>>) = {}
BY DEF ToSet

\* The store starts empty.
LEMMA InitInv == Init => Inv
BY SMT DEF Init, Inv, IndexFollowsRows, OneRowEach, Inserting, Expiring, Committing

\* Beginning an insert: nothing of it is in the table, everything is to do.
LEMMA BeginInv ==
  ASSUME Inv, NEW operation, operation # "expire",
         NEW events \in Seq(Events), events # <<>>, ToSet(events) \in Requests,
         Begin(operation, events)
  PROVE  Inv'
<1>1. rows = crows /\ index = crows /\ cindex = crows /\ OneRowEach(crows)
  BY DEF Inv, Begin, IndexFollowsRows
<1>2. pc' = "row" /\ kind' = operation /\ todo' = events /\ asked' = ToSet(events)
      /\ rows' = rows /\ index' = index /\ crows' = crows /\ cindex' = cindex
  BY DEF Begin, pending, durable
<1>3. Requests' = Requests
  BY DEF Requests
<1>4. Inserting'
  BY <1>1, <1>2, <1>3 DEF Inserting, OneRowEach, IdsOf
<1> QED BY <1>1, <1>2, <1>4 DEF Inv, IndexFollowsRows, OneRowEach, Expiring, Committing

\* What is begun is a request.
LEMMA RequestTypes ==
  /\ \A e \in Singles : <<e>> \in Seq(Events) /\ ToSet(<<e>>) \in Requests
  /\ \A b \in Batches : b \in Seq(Events) /\ b # <<>> /\ ToSet(b) \in Requests
<1>1. ASSUME NEW e \in Singles PROVE <<e>> \in Seq(Events) /\ ToSet(<<e>>) \in Requests
  BY SingleElement DEF Events, Requests
<1>2. ASSUME NEW b \in Batches PROVE b \in Seq(Events) /\ b # <<>> /\ ToSet(b) \in Requests
  <2>1. b \in Seq(ToSet(b)) /\ b # <<>>
    BY BatchesAssumption
  <2>2. ToSet(b) \subseteq Events
    BY DEF Events
  <2> QED BY <2>1, <2>2 DEF Requests
<1> QED BY <1>1, <1>2

\* The new row is the only one of its event.
LEMMA InsertRowInv == Inv /\ InsertRow => Inv'
<1> SUFFICES ASSUME Inv, InsertRow PROVE Inv'
  OBVIOUS
<1> DEFINE new == <<NewRowid, Head(todo)>>
<1>1. /\ pc = "row" /\ pc' = "index" /\ todo' = todo /\ asked' = asked /\ kind' = kind
      /\ index' = index /\ crows' = crows /\ cindex' = cindex
      /\ rows' = rows \cup {new} /\ new[2] = Head(todo) /\ Head(todo) \notin IdsOf(rows)
  BY DEF InsertRow, durable
<1>2. Inserting
  BY DEF Inv
<1> HIDE DEF new
<1>3. Head(todo) \in ToSet(todo)
  BY <1>1, <1>2, HeadAndTail DEF Inserting
<1>4. IdsOf(rows') = IdsOf(rows) \cup {Head(todo)}
  BY <1>1 DEF IdsOf
<1>5. OneRowEach(rows')
  BY <1>1, <1>2 DEF Inserting, OneRowEach, IdsOf
<1>6. index' \cup {r \in rows' : r[2] = Head(todo')} = rows'
  BY <1>1, <1>2 DEF Inserting, IdsOf
<1>7. Head(todo) \notin IdsOf(crows)
  BY <1>1, <1>2 DEF Inserting, IdsOf
<1>8. IdsOf(rows') \cup ToSet(todo') = IdsOf(crows') \cup asked'
  BY <1>1, <1>2, <1>3, <1>4 DEF Inserting, IdsOf
<1>9. Inserting'
  <2>1. Requests' = Requests
    BY DEF Requests
  <2>2. todo' \in Seq(Events) /\ todo' # <<>> /\ kind' # "expire" /\ asked' \in Requests'
    BY <1>1, <1>2, <2>1 DEF Inserting
  <2>3. crows' \subseteq rows' /\ asked' \cap IdsOf(crows') \subseteq ToSet(todo')
    BY <1>1, <1>2 DEF Inserting
  <2>4. Head(todo') \in IdsOf(rows') \ IdsOf(crows')
    BY <1>1, <1>4, <1>7
  <2> QED BY <1>1, <1>5, <1>6, <1>8, <2>2, <2>3, <2>4 DEF Inserting
<1> QED BY <1>1, <1>9 DEF Inv, IndexFollowsRows, Expiring, Committing

\* The last entry of an insert makes it ready for its commit.
LEMMA IndexRowInv == Inv /\ IndexRow => Inv'
<1> SUFFICES ASSUME Inv, IndexRow PROVE Inv'
  OBVIOUS
<1>1. /\ pc = "index" /\ pc' = (IF todo' = <<>> THEN "commit" ELSE "row")
      /\ todo' = Tail(todo) /\ asked' = asked /\ kind' = kind
      /\ rows' = rows /\ crows' = crows /\ cindex' = cindex
      /\ index' = index \cup {row \in rows : row[2] = Head(todo)}
  BY DEF IndexRow, durable
<1>2. Inserting
  BY DEF Inv
<1>3. index' = rows'
  BY <1>1, <1>2 DEF Inserting
<1>4. todo' \in Seq(Events) /\ ToSet(todo) = {Head(todo)} \cup ToSet(todo')
  BY <1>1, <1>2, HeadAndTail DEF Inserting
<1>5. /\ IdsOf(rows') \cup ToSet(todo') = IdsOf(crows') \cup asked'
      /\ asked' \cap IdsOf(crows') \subseteq ToSet(todo')
  BY <1>1, <1>2, <1>4 DEF Inserting
<1>6. Requests' = Requests
  BY DEF Requests
<1>7. CASE todo' = <<>>
  <2>1. /\ asked' \in Requests' /\ asked' \cap IdsOf(crows') = {}
        /\ IdsOf(rows') = IdsOf(crows') \cup asked'
    BY <1>1, <1>2, <1>5, <1>6, <1>7, EmptyElements DEF Inserting
  <2>2. Committing'
    BY <1>1, <1>2, <1>3, <2>1 DEF Committing, Inserting, OneRowEach
  <2> QED BY <1>1, <1>7, <2>2 DEF Inv, IndexFollowsRows, Inserting, Expiring
<1>8. CASE todo' # <<>>
  <2>1. Inserting'
    BY <1>1, <1>2, <1>3, <1>4, <1>5, <1>6, <1>8 DEF Inserting, OneRowEach
  <2> QED BY <1>1, <1>8, <2>1 DEF Inv, IndexFollowsRows, Committing, Expiring
<1> QED BY <1>7, <1>8

\* An expiry takes entries first, then rows.
LEMMA ExpireInv ==
  Inv /\ ((\E expired \in SUBSET rows : ExpireOld(expired))
          \/ (\E row \in doomed : Unindex(row)) \/ DeleteRows) => Inv'
<1>1. ASSUME Inv, NEW expired \in SUBSET rows, ExpireOld(expired) PROVE Inv'
  <2>1. /\ pc = "idle" /\ pc' = "unindex" /\ kind' = "expire" /\ expired # {}
        /\ doomed' = expired /\ asked' = IdsOf(expired)
        /\ rows' = rows /\ index' = index /\ crows' = crows /\ cindex' = cindex
    BY <1>1 DEF ExpireOld, pending, durable
  <2>2. rows = crows /\ index = crows /\ OneRowEach(crows) /\ cindex = crows
    BY <1>1, <2>1 DEF Inv, IndexFollowsRows
  <2>3. Expiring'
    BY <2>1, <2>2 DEF Expiring, OneRowEach, IdsOf
  <2> QED BY <2>1, <2>2, <2>3 DEF Inv, IndexFollowsRows, Inserting, Committing, OneRowEach
<1>2. ASSUME Inv, NEW row \in doomed, Unindex(row) PROVE Inv'
  <2>1. /\ pc = "unindex" /\ pc' = (IF doomed' = {} THEN "delete" ELSE "unindex")
        /\ kind' = kind /\ doomed' = doomed \ {row} /\ asked' = asked
        /\ index' = index \ {row}
        /\ rows' = rows /\ crows' = crows /\ cindex' = cindex
    BY <1>2 DEF Unindex, durable
  <2>2. Expiring'
    BY <1>2, <2>1 DEF Inv, Expiring
  <2> QED BY <1>2, <2>1, <2>2 DEF Inv, IndexFollowsRows, Inserting, Committing, OneRowEach
<1>3. ASSUME Inv, DeleteRows PROVE Inv'
  <2>1. /\ pc = "delete" /\ pc' = "commit" /\ asked' = asked /\ index' = index
        /\ rows' = {row \in rows : row[2] \notin asked}
        /\ crows' = crows /\ cindex' = cindex
    BY <1>3 DEF DeleteRows, durable
  <2>2. /\ rows = crows /\ asked \subseteq IdsOf(crows)
        /\ index = {r \in rows : r[2] \notin asked} /\ OneRowEach(crows)
    BY <1>3, <2>1 DEF Inv, Expiring
  <2>3. IdsOf(rows') = IdsOf(crows) \ asked
    BY <2>1, <2>2 DEF IdsOf
  <2>4. Committing'
    BY <2>1, <2>2, <2>3 DEF Committing, OneRowEach
  <2> QED BY <1>3, <2>1, <2>4 DEF Inv, IndexFollowsRows, Inserting, Expiring, OneRowEach
<1> QED BY <1>1, <1>2, <1>3

\* What ends an operation: without callers that carry on, only a close follows a failure.
LEMMA EndInv ==
  ASSUME ~CallersCarryOn
  PROVE  Inv /\ (Commit \/ Raise \/ CarryOn \/ Close \/ Open) => Inv'
<1>1. ASSUME Inv, Commit PROVE Inv'
  BY <1>1 DEF Inv, Commit, pending, Committing, IndexFollowsRows, OneRowEach,
              Inserting, Expiring
<1>2. ASSUME Inv, Raise PROVE Inv'
  BY <1>2 DEF Inv, Raise, durable, IndexFollowsRows, OneRowEach,
              Inserting, Expiring, Committing
<1>3. ASSUME Inv, CarryOn PROVE Inv'
  BY <1>3 DEF CarryOn
<1>4. ASSUME Inv, Close PROVE Inv'
  BY <1>4 DEF Inv, Close, RollBack, durable, IndexFollowsRows, OneRowEach,
              Inserting, Expiring, Committing
<1>5. ASSUME Inv, Open PROVE Inv'
  BY <1>5 DEF Inv, Open, pending, durable, IndexFollowsRows, OneRowEach,
              Inserting, Expiring, Committing
<1> QED BY <1>1, <1>2, <1>3, <1>4, <1>5

\* So the invariant holds, for callers that end on an exception.
LEMMA InvHolds == ASSUME ~CallersCarryOn PROVE Spec => []Inv
<1>1. Inv /\ [Next]_vars => Inv'
  <2> SUFFICES ASSUME Inv, [Next]_vars PROVE Inv'
    OBVIOUS
  <2>1. CASE UNCHANGED vars
    BY <2>1 DEF vars, Inv, IndexFollowsRows, OneRowEach, Inserting, Expiring, Committing,
                Requests
  <2>2. ASSUME NEW e \in Singles, Insert(e) PROVE Inv'
    BY <2>2, BeginInv, RequestTypes, SingleElement DEF Insert
  <2>3. ASSUME NEW b \in Batches, InsertBatch(b) PROVE Inv'
    BY <2>3, BeginInv, RequestTypes DEF InsertBatch
  <2> QED BY <2>1, <2>2, <2>3, InsertRowInv, IndexRowInv, ExpireInv, EndInv DEF Next
<1> QED BY InitInv, <1>1, PTL DEF Spec

\* When callers end on an exception, what is committed always has its index,
\* whatever fails and wherever the process dies.
THEOREM IndexIsComplete == ASSUME ~CallersCarryOn PROVE Spec => []IndexFollowsRows
<1>1. Inv => IndexFollowsRows
  BY DEF Inv
<1> QED BY InvHolds, <1>1, PTL

\* The store implements AtomicStore: what becomes durable is a request as a whole,
\* or an expiry as a whole, in the table and the index alike.
THEOREM Atomicity == ASSUME ~CallersCarryOn PROVE Spec => StoreSpec
<1>1. Init => Store!Init
  BY DEF Init, Store!Init, IdsOf
<1>2. Inv /\ Inv' /\ [Next]_vars => [Store!Next]_Store!vars
  <2> SUFFICES ASSUME Inv, Inv', [Next]_vars PROVE [Store!Next]_Store!vars
    OBVIOUS
  <2>1. CASE Commit
    <3>1. /\ Committing /\ pc = "commit" /\ crows' = rows /\ cindex' = rows
      BY <2>1 DEF Inv, Commit, Committing
    <3>2. CASE asked \in Requests /\ asked \cap IdsOf(crows) = {}
               /\ IdsOf(rows) = IdsOf(crows) \cup asked
      <4>1. Store!Add(asked)
        BY <3>1, <3>2 DEF Store!Add
      <4> QED BY <3>2, <4>1 DEF Store!Next
    <3>3. CASE asked \subseteq IdsOf(crows) /\ IdsOf(rows) = IdsOf(crows) \ asked
      <4>1. Store!Expire(asked)
        BY <3>1, <3>3 DEF Store!Expire
      <4> QED BY <3>3, <4>1 DEF Store!Next
    <3> QED BY <3>1, <3>2, <3>3 DEF Committing
  <2>2. CASE crows' = crows /\ cindex' = cindex
    BY <2>2 DEF Store!vars
  <2>3. Commit \/ (crows' = crows /\ cindex' = cindex)
    BY DEF Next, Insert, InsertBatch, Begin, InsertRow, IndexRow, ExpireOld, Unindex,
           DeleteRows, Raise, CarryOn, Close, Open, vars, durable
  <2> QED BY <2>1, <2>2, <2>3
<1> QED BY InvHolds, <1>1, <1>2, PTL DEF Spec, StoreSpec, Store!Spec
-----------------------------------------------------------------------------
(* For callers that carry on after an exception, less is left: a row may be without *)
(* its entry, so that the table is not the index, but no entry is without its row.  *)

\* While events are expired, what the index still has of them is among those that
\* are left to take from it.
Unindexing ==
  pc \in {"unindex", "delete"} =>
    /\ \A r \in index : r[2] \in asked => r \in doomed
    /\ pc = "delete" => doomed = {}

EntriesHaveRows ==
  /\ index \subseteq rows /\ cindex \subseteq crows
  /\ OneRowEach(rows) /\ OneRowEach(crows)
  /\ Unindexing

\* The store starts empty.
LEMMA EntriesHaveRowsInit == Init => EntriesHaveRows
BY SMT DEF Init, EntriesHaveRows, OneRowEach, Unindexing

\* The statements of an insert: a new row is the first of its event, and an entry is
\* made of a row.
LEMMA InsertingKeepsRows ==
  EntriesHaveRows /\ (InsertRow \/ IndexRow) => EntriesHaveRows'
<1>1. ASSUME EntriesHaveRows, InsertRow PROVE EntriesHaveRows'
  <2> DEFINE new == <<NewRowid, Head(todo)>>
  <2>1. /\ pc' = "index" /\ index' = index /\ crows' = crows /\ cindex' = cindex
        /\ rows' = rows \cup {new} /\ new[2] = Head(todo) /\ Head(todo) \notin IdsOf(rows)
    BY <1>1 DEF InsertRow, durable
  <2> HIDE DEF new
  <2>2. OneRowEach(rows')
    BY <1>1, <2>1 DEF EntriesHaveRows, OneRowEach, IdsOf
  <2> QED BY <1>1, <2>1, <2>2 DEF EntriesHaveRows, OneRowEach, Unindexing
<1>2. ASSUME EntriesHaveRows, IndexRow PROVE EntriesHaveRows'
  BY <1>2 DEF IndexRow, durable, EntriesHaveRows, OneRowEach, Unindexing
<1> QED BY <1>1, <1>2

\* The statements of an expiry: the rows go when the last of their entries is gone.
LEMMA ExpiringKeepsRows ==
  ASSUME EntriesHaveRows
  PROVE  /\ \A expired \in SUBSET rows : ExpireOld(expired) => EntriesHaveRows'
         /\ \A row \in doomed : Unindex(row) => EntriesHaveRows'
         /\ DeleteRows => EntriesHaveRows'
<1>1. ASSUME NEW expired \in SUBSET rows, ExpireOld(expired) PROVE EntriesHaveRows'
  <2>1. /\ pc' = "unindex" /\ doomed' = expired /\ asked' = IdsOf(expired)
        /\ rows' = rows /\ index' = index /\ crows' = crows /\ cindex' = cindex
    BY <1>1 DEF ExpireOld, pending, durable
  <2>2. Unindexing'
    BY <2>1 DEF EntriesHaveRows, OneRowEach, IdsOf, Unindexing
  <2> QED BY <2>1, <2>2 DEF EntriesHaveRows, OneRowEach
<1>2. ASSUME NEW row \in doomed, Unindex(row) PROVE EntriesHaveRows'
  BY <1>2 DEF Unindex, durable, EntriesHaveRows, OneRowEach, Unindexing
<1>3. ASSUME DeleteRows PROVE EntriesHaveRows'
  BY <1>3 DEF DeleteRows, durable, EntriesHaveRows, OneRowEach, Unindexing
<1> QED BY <1>1, <1>2, <1>3

\* Steps that begin or end an operation move nothing, or what belongs together.
LEMMA OthersKeepRows ==
  EntriesHaveRows /\ (Commit \/ Raise \/ CarryOn \/ Close \/ Open) => EntriesHaveRows'
BY DEF Commit, Raise, CarryOn, Close, Open, RollBack, pending, durable, EntriesHaveRows,
       OneRowEach, Unindexing

\* So every step keeps an entry's row.
LEMMA EntriesHold == Spec => []EntriesHaveRows
<1>1. EntriesHaveRows /\ [Next]_vars => EntriesHaveRows'
  <2> SUFFICES ASSUME EntriesHaveRows, [Next]_vars PROVE EntriesHaveRows'
    OBVIOUS
  <2>1. CASE UNCHANGED vars
    BY <2>1 DEF vars, pending, durable, EntriesHaveRows, OneRowEach, Unindexing
  <2>2. ASSUME NEW operation, NEW events, Begin(operation, events) PROVE EntriesHaveRows'
    BY <2>2 DEF Begin, pending, durable, EntriesHaveRows, OneRowEach, Unindexing
  <2> QED BY <2>1, <2>2, InsertingKeepsRows, ExpiringKeepsRows, OthersKeepRows
          DEF Next, Insert, InsertBatch
<1> QED BY EntriesHaveRowsInit, <1>1, PTL DEF Spec

\* Whatever fails, whoever carries on and wherever the process dies, no committed
\* entry of the index is without its row: search never returns another event for it.
THEOREM NoEntryDangles == Spec => []NoDanglingEntry
<1>1. EntriesHaveRows => NoDanglingEntry
  BY DEF EntriesHaveRows, NoDanglingEntry
<1> QED BY EntriesHold, <1>1, PTL
-----------------------------------------------------------------------------
(* Types, and rowids that are one row's each, for callers of either kind.        *)

\* Rowids and events alike find one row.
OneRowOf(table) == \A r, q \in table : r[1] = q[1] \/ r[2] = q[2] => r = q

Table == (1..MaxRowid) \X Events

Typed ==
  /\ pc \in Statements \cup {"idle", "failed", "closed"}
  /\ kind \in {"none", "insert", "batch", "expire"}
  /\ todo \in Seq(Events) /\ asked \subseteq Events
  /\ pc \in {"row", "index"} => todo # <<>>
  /\ rows \subseteq Table /\ crows \subseteq Table /\ doomed \subseteq Table
  /\ pc \in {"unindex", "delete"} => doomed \subseteq rows
  /\ OneRowOf(rows) /\ OneRowOf(crows)

\* A set of rowids has a largest one: the one that is nearest to the bound.
LEMMA HighestRowid ==
  ASSUME NEW S \in SUBSET (1..MaxRowid), S # {}
  PROVE  Max(S) \in S /\ \A n \in S : n <= Max(S)
<1> DEFINE R == {p \in Nat \X Nat : p[1] < p[2]}
           T == {d \in Nat : MaxRowid - d \in S}
           IsMax(x) == x \in S /\ \A n \in S : x >= n
<1>1. MaxRowid \in Nat
  BY BatchesAssumption
<1>2. T # {}
  <2>1. PICK n \in S : n \in 1..MaxRowid
    OBVIOUS
  <2>2. MaxRowid - n \in Nat /\ MaxRowid - (MaxRowid - n) = n
    BY <1>1, <2>1
  <2> QED BY <2>2
<1>3. PICK d \in T : \A e \in T : <<e, d>> \notin R
  <2>1. IsWellFoundedOn(R, Nat)
    BY NatLessThanWellFounded DEF OpToRel
  <2> HIDE DEF R
  <2> QED BY <1>2, <2>1, WFMin, T \subseteq Nat
<1>4. ASSUME NEW n \in S PROVE n <= MaxRowid - d
  <2>1. n \in 1..MaxRowid /\ d \in Nat
    OBVIOUS
  <2>2. MaxRowid - n \in T
    BY <1>1, <2>1
  <2>3. ~(MaxRowid - n < d)
    BY <1>1, <1>3, <2>1, <2>2
  <2> QED BY <1>1, <2>1, <2>3
<1>5. IsMax(MaxRowid - d)
  BY <1>1, <1>4
<1>6. IsMax(Max(S))
  BY <1>5, Zenon DEF Max
<1> HIDE DEF Max
<1> QED BY <1>1, <1>6

\* The rowid of a new row is not in use.
LEMMA FreshRowid ==
  ASSUME rows \subseteq Table
  PROVE  NewRowid \in Nat \ {0} /\ \A r \in rows : r[1] # NewRowid
<1> DEFINE ids == {row[1] : row \in rows}
<1>1. CASE rows = {}
  BY <1>1 DEF NewRowid
<1>2. CASE rows # {}
  <2>1. ids \in SUBSET (1..MaxRowid) /\ ids # {}
    BY <1>2 DEF Table
  <2>2. NewRowid = Max(ids) + 1
    BY <1>2 DEF NewRowid
  <2> HIDE DEF ids
  <2>3. Max(ids) \in 1..MaxRowid /\ \A n \in ids : n <= Max(ids)
    BY <2>1, HighestRowid
  <2>4. \A r \in rows : r[1] \in ids
    BY DEF ids
  <2>5. \A n \in ids : n \in Int /\ n # Max(ids) + 1
    BY <2>1, <2>3
  <2> QED BY <2>2, <2>3, <2>4, <2>5
<1> QED BY <1>1, <1>2

\* A row is added with a rowid and an event of its own.
LEMMA InsertingKeepsTypes == Typed /\ (InsertRow \/ IndexRow) => Typed'
<1>1. ASSUME Typed, InsertRow PROVE Typed'
  <2> DEFINE new == <<NewRowid, Head(todo)>>
  <2>1. /\ pc = "row" /\ pc' = "index" /\ kind' = kind /\ todo' = todo /\ asked' = asked
        /\ doomed' = doomed /\ crows' = crows
        /\ rows' = rows \cup {new} /\ Head(todo) \notin IdsOf(rows) /\ NewRowid <= MaxRowid
    BY <1>1 DEF InsertRow, durable
  <2>2. Head(todo) \in Events
    BY <1>1, <2>1, HeadAndTail DEF Typed
  <2>3. NewRowid \in 1..MaxRowid /\ \A r \in rows : r[1] # NewRowid
    <3>1. NewRowid \in Nat \ {0} /\ \A r \in rows : r[1] # NewRowid
      BY <1>1, FreshRowid DEF Typed
    <3> QED BY <2>1, <3>1, BatchesAssumption
  <2>4. new \in Table /\ \A r \in rows : r[1] # new[1] /\ r[2] # new[2]
    BY <2>1, <2>2, <2>3 DEF Table, IdsOf
  <2> HIDE DEF new
  <2>5. OneRowOf(rows')
    BY <1>1, <2>1, <2>4 DEF Typed, OneRowOf
  <2> QED BY <1>1, <2>1, <2>4, <2>5 DEF Typed, Statements, Table
<1>2. ASSUME Typed, IndexRow PROVE Typed'
  <2>1. Tail(todo) \in Seq(Events)
    BY <1>2, HeadAndTail DEF Typed, IndexRow
  <2> QED BY <1>2, <2>1 DEF IndexRow, durable, Typed, Statements, Table, OneRowOf
<1> QED BY <1>1, <1>2

\* Expiry takes rows away.
LEMMA ExpiringKeepsTypes ==
  ASSUME Typed
  PROVE  /\ \A expired \in SUBSET rows : ExpireOld(expired) => Typed'
         /\ \A row \in doomed : Unindex(row) => Typed'
         /\ DeleteRows => Typed'
<1> USE DEF Typed, Statements, Table, OneRowOf
<1>1. ASSUME NEW expired \in SUBSET rows, ExpireOld(expired) PROVE Typed'
  <2>1. IdsOf(expired) \subseteq Events /\ expired \subseteq Table
    BY DEF IdsOf
  <2>2. <<>> \in Seq(Events)
    OBVIOUS
  <2> QED BY <1>1, <2>1, <2>2 DEF ExpireOld, pending, durable
<1>2. ASSUME NEW row \in doomed, Unindex(row) PROVE Typed'
  BY <1>2 DEF Unindex, durable
<1>3. ASSUME DeleteRows PROVE Typed'
  BY <1>3 DEF DeleteRows, durable
<1> QED BY <1>1, <1>2, <1>3

\* What begins or ends an operation moves whole tables.
LEMMA OthersKeepTypes ==
  Typed /\ (Commit \/ Raise \/ CarryOn \/ Close \/ Open \/ UNCHANGED vars) => Typed'
BY DEF Commit, Raise, CarryOn, Close, Open, RollBack, vars, pending, durable, Typed,
       Statements, Table, OneRowOf

\* Rows, entries and what is left to do keep their types, and no rowid and no event
\* has two rows, for callers of either kind and any bound on the rowids.
THEOREM TypeSafety == Spec => []TypeOK
<1>1. Init => Typed
  BY DEF Init, Typed, Statements, Table, OneRowOf
<1>2. Typed /\ [Next]_vars => Typed'
  <2> SUFFICES ASSUME Typed, [Next]_vars PROVE Typed'
    OBVIOUS
  <2>1. ASSUME NEW operation \in {"insert", "batch"}, NEW events \in Seq(Events),
               events # <<>>, ToSet(events) \subseteq Events, Begin(operation, events)
        PROVE  Typed'
    BY <2>1 DEF Begin, pending, durable, Typed, Statements, Table, OneRowOf
  <2>2. \A q \in Requests : q \subseteq Events
    BY DEF Requests, Events
  <2>3. ASSUME NEW e \in Singles, Insert(e) PROVE Typed'
    BY <2>1, <2>2, <2>3, RequestTypes, SingleElement DEF Insert
  <2>4. ASSUME NEW b \in Batches, InsertBatch(b) PROVE Typed'
    BY <2>1, <2>2, <2>4, RequestTypes DEF InsertBatch
  <2> QED BY <2>3, <2>4, InsertingKeepsTypes, ExpiringKeepsTypes, OthersKeepTypes DEF Next
<1>3. EntriesHaveRows /\ Typed => TypeOK
  BY DEF EntriesHaveRows, Typed, TypeOK, Table, OneRowOf
<1> QED BY <1>1, <1>2, <1>3, EntriesHold, PTL DEF Spec
=============================================================================
