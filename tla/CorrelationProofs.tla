-------------------------- MODULE CorrelationProofs ---------------------------
(* Theorems about the reports of Correlation, for every set of events, every    *)
(* topology and every window: one lemma says what each stage of the pipeline    *)
(* keeps of what it is given (KeptOf, SameElements, Split, SignalsOf, Shares,    *)
(* Assembled), Made puts them together, and the properties of a report follow   *)
(* from Made without another look at the loops.                                 *)
EXTENDS Correlation, FiniteSetTheorems, SequenceTheorems, TLAPS

\* The rows a report is made from: events of the store, or a scenario's.
Rows == Events \cup {[e EXCEPT !.severity = 5] : e \in Events}

\* One step of Deduplicate: dedup.py.
KeepFirst(ctx, kept, e) ==
  IF \E k \in ToSet(kept) : Key(k) = Key(e) THEN kept ELSE Append(kept, e)
Keeping == INSTANCE FoldTheory WITH Step <- KeepFirst

\* One step of ServicesOf: temporal.py.
AddService(ctx, list, e) ==
  IF e.service \in ToSet(list) THEN list ELSE Append(list, e.service)
Listing == INSTANCE FoldTheory WITH Step <- AddService

\* One step of Windows: temporal.py.
AddToWindow(window, windows, e) ==
  IF windows # <<>> /\ e.at - Head(Last(windows)).at <= window
  THEN Append(Front(windows), Append(Last(windows), e))
  ELSE Append(windows, <<e>>)
Splitting == INSTANCE FoldTheory WITH Step <- AddToWindow

\* One step of GroupTopology: topology.py.
AddLink(signals, links, p) ==
  LET service(i) == ServiceOf(signals[i])
      linkable(q) == DependsOn(service(q[1]), service(q[2]))
                       \/ DependsOn(service(q[2]), service(q[1]))
      pair(q) == {service(q[1]), service(q[2])}
  IN  IF Cardinality(pair(p)) = 2 /\ linkable(p) /\ pair(p) \notin ToSet(links)
      THEN Append(links, pair(p)) ELSE links
Linking == INSTANCE FoldTheory WITH Step <- AddLink

\* One step of LinkedGroups, with the signals, the links and the changes as context.
AddGroup(c, done, link) ==
  LET taken == UNION {ToSet(g.signals) : g \in ToSet(done)}
      mine  == Selected(c[1], {s \in ToSet(c[1]) : ServiceOf(s) \in link /\ s \notin taken})
  IN  IF mine = <<>> THEN done ELSE Append(done, MakeGroup(link, mine, c[2], c[3]))
Grouping == INSTANCE FoldTheory WITH Step <- AddGroup

\* The pipeline's loops are folds.
LEMMA DedupIsFold == \A s : Deduplicate(s) = Keeping!Fold(0, <<>>, s)
BY Zenon DEF Deduplicate, Keeping!Fold, KeepFirst, FoldLeft, Keeping!FoldLeft,
   MapThenFoldSet, Keeping!MapThenFoldSet, Max, Keeping!Max

\* The same for the services.
LEMMA ServicesIsFold == \A s : ServicesOf(s) = Listing!Fold(0, <<>>, s)
BY Zenon DEF ServicesOf, Listing!Fold, AddService, FoldLeft, Listing!FoldLeft,
   MapThenFoldSet, Listing!MapThenFoldSet, Max, Listing!Max

\* The same for the windows.
LEMMA WindowsIsFold == \A s, w : Windows(s, w) = Splitting!Fold(w, <<>>, s)
BY Zenon DEF Windows, Splitting!Fold, AddToWindow, FoldLeft, Splitting!FoldLeft,
   MapThenFoldSet, Splitting!MapThenFoldSet, Max, Splitting!Max

\* The pairs of signals in the order in which GroupTopology takes them.
Index(signals) == FlattenSeq([i \in DOMAIN signals |->
                 [k \in 1..(Len(signals) - i) |-> <<i, i + k>>]])
\* The same for the links.
LEMMA LinksIsFold == \A s : GroupTopology(s) = Linking!Fold(s, <<>>, Index(s))
BY Zenon DEF GroupTopology, Index, Linking!Fold, AddLink, FoldLeft, Linking!FoldLeft,
   MapThenFoldSet, Linking!MapThenFoldSet, Max, Linking!Max

\* The same for the linked groups.
LEMMA GroupsIsFold ==
  \A s, l, ch : LinkedGroups(s, l, ch) = Grouping!Fold(<<s, l, ch>>, <<>>, l)
<1>1. \A c : LinkedGroups(c[1], c[2], c[3]) = Grouping!Fold(c, <<>>, c[2])
  BY Zenon DEF LinkedGroups, Grouping!Fold, AddGroup, FoldLeft, Grouping!FoldLeft,
     MapThenFoldSet, Grouping!MapThenFoldSet, Max, Grouping!Max
<1> TAKE s, l, ch
<1>2. PICK c : c = <<s, l, ch>>
  OBVIOUS
<1>3. c[1] = s /\ c[2] = l /\ c[3] = ch
  BY <1>2
<1> QED BY <1>1, <1>2, <1>3, Zenon
-----------------------------------------------------------------------------
(* Lists, as FoldTheory has them                                              *)

\* No element twice.
OnceEach(s) == \A i, j \in 1..Len(s) : s[i] = s[j] => i = j

\* What a list of lists holds.
Contents(ss) == UNION {ToSet(x) : x \in ToSet(ss)}

\* The instances of FoldTheory speak of the pipeline's own operators.
LEMMA SameToSet == \A s : ToSet(s) = Keeping!ToSet(s)
BY DEF ToSet, Keeping!ToSet

\* The same for FlattenSeq.
LEMMA SameFlatten == \A s : FlattenSeq(s) = Keeping!FlattenSeq(s)
BY Zenon DEF FlattenSeq, Keeping!FlattenSeq

\* The same for Selected.
LEMMA SameSelected == \A s, T : Selected(s, T) = Keeping!Selected(s, T)
BY Zenon DEF Selected, Keeping!Selected, FlattenSeq, Keeping!FlattenSeq

\* The same for OnceEach.
LEMMA SameOnce == \A s : OnceEach(s) = Keeping!OnceEach(s)
BY Zenon DEF OnceEach, Keeping!OnceEach

\* The same for Contents.
LEMMA SameContents == \A s : Contents(s) = Keeping!Contents(s)
BY Zenon DEF Contents, Keeping!Contents, ToSet, Keeping!ToSet

\* A list and the set of its elements.
LEMMA ListSet ==
  ASSUME NEW E, NEW s \in Seq(E)
  PROVE  ToSet(s) \subseteq E /\ ToSet(s) = {s[i] : i \in 1..Len(s)} /\ Len(s) \in Nat
         /\ DOMAIN s = 1..Len(s)
<1>1. Keeping!ToSet(s) \subseteq E /\ Keeping!ToSet(s) = {s[i] : i \in 1..Len(s)}
  BY Keeping!ToSetSeq
<1>2. ToSet(s) = Keeping!ToSet(s)
  BY SameToSet, Zenon
<1> QED BY <1>1, <1>2, LenProperties

\* The empty list has no elements.
LEMMA EmptyList == ToSet(<<>>) = {} /\ OnceEach(<<>>) /\ \A T : Selected(<<>>, T) = <<>>
<1>1. ToSet(<<>>) = {} /\ OnceEach(<<>>)
  BY DEF ToSet, OnceEach
<1>2. \A T : Keeping!Selected(<<>>, T) = <<>>
  BY Keeping!SelectedEmpty
<1> QED BY <1>1, <1>2, SameSelected, Zenon

\* Append adds its element.
LEMMA AppendSet ==
  ASSUME NEW E, NEW s \in Seq(E), NEW e \in E
  PROVE  /\ Append(s, e) \in Seq(E)
         /\ ToSet(Append(s, e)) = ToSet(s) \cup {e}
         /\ OnceEach(s) /\ e \notin ToSet(s) => OnceEach(Append(s, e))
<1>1. Keeping!ToSet(Append(s, e)) = Keeping!ToSet(s) \cup {e}
  BY Keeping!ToSetAppend
<1>2. Keeping!OnceEach(s) /\ e \notin Keeping!ToSet(s) => Keeping!OnceEach(Append(s, e))
  BY Keeping!OnceAppend
<1>3. Append(s, e) \in Seq(E)
  BY AppendProperties
<1> QED BY <1>1, <1>2, <1>3, SameToSet, SameOnce, Zenon

\* Concatenation joins the elements.
LEMMA ConcatSet ==
  ASSUME NEW E, NEW s \in Seq(E), NEW t \in Seq(E)
  PROVE  /\ s \o t \in Seq(E)
         /\ ToSet(s \o t) = ToSet(s) \cup ToSet(t)
         /\ OnceEach(s) /\ OnceEach(t) /\ ToSet(s) \cap ToSet(t) = {} => OnceEach(s \o t)
<1>1. Keeping!ToSet(s \o t) = Keeping!ToSet(s) \cup Keeping!ToSet(t)
  BY Keeping!ToSetConcat
<1>2. Keeping!OnceEach(s) /\ Keeping!OnceEach(t) /\ Keeping!ToSet(s) \cap Keeping!ToSet(t) = {}
        => Keeping!OnceEach(s \o t)
  BY Keeping!OnceConcat
<1>3. s \o t \in Seq(E)
  BY ConcatProperties
<1> QED BY <1>1, <1>2, <1>3, SameToSet, SameOnce, Zenon

\* What a selection holds.
LEMMA SelectedList ==
  ASSUME NEW E, NEW T, NEW s \in Seq(E)
  PROVE  /\ Selected(s, T) \in Seq(E)
         /\ ToSet(Selected(s, T)) = ToSet(s) \cap T
         /\ OnceEach(s) => OnceEach(Selected(s, T))
<1>1. Keeping!Selected(s, T) \in Seq(E)
  BY Keeping!SelectedType
<1>2. Keeping!ToSet(Keeping!Selected(s, T)) = Keeping!ToSet(s) \cap T
  BY Keeping!SelectedSet
<1>3. Keeping!OnceEach(s) => Keeping!OnceEach(Keeping!Selected(s, T))
  BY Keeping!OnceSelected
<1> QED BY <1>1, <1>2, <1>3, SameToSet, SameSelected, SameOnce, Zenon

\* No two of the lists have an element in common.
Apart(ss) == \A i, j \in 1..Len(ss) : i # j => ToSet(ss[i]) \cap ToSet(ss[j]) = {}

\* The same for Apart.
LEMMA SameApart == \A s : Apart(s) = Keeping!Apart(s)
BY Zenon DEF Apart, Keeping!Apart, ToSet, Keeping!ToSet

\* What a list of lists holds when it is flattened.
LEMMA FlattenList ==
  ASSUME NEW E, NEW ss \in Seq(Seq(E))
  PROVE  /\ FlattenSeq(ss) \in Seq(E)
         /\ ToSet(FlattenSeq(ss)) = Contents(ss)
         /\ Apart(ss) /\ (\A i \in 1..Len(ss) : OnceEach(ss[i])) => OnceEach(FlattenSeq(ss))
<1>1. Keeping!FlattenSeq(ss) \in Seq(E)
  BY Keeping!FlattenType
<1>2. Keeping!ToSet(Keeping!FlattenSeq(ss)) = Keeping!Contents(ss)
  BY Keeping!FlattenContents
<1>3. Keeping!Apart(ss) /\ (\A i \in 1..Len(ss) : Keeping!OnceEach(ss[i]))
        => Keeping!OnceEach(Keeping!FlattenSeq(ss))
  BY Keeping!OnceFlatten
<1> QED BY <1>1, <1>2, <1>3, SameToSet, SameFlatten, SameContents, SameOnce, SameApart, Zenon

\* A function on the indices up to n is a list.
LEMMA FunctionList ==
  ASSUME NEW E, NEW n \in Nat, NEW f \in [1..n -> E]
  PROVE  f \in Seq(E) /\ Len(f) = n
OBVIOUS

\* MaxOf is the number that is not exceeded.
LEMMA MaxOfIs ==
  ASSUME NEW S \in SUBSET Int, NEW m \in S, \A n \in S : n <= m
  PROVE  MaxOf(S) = m
<1> DEFINE Is(x) == x \in S /\ \A n \in S : n <= x
<1>1. Is(m)
  OBVIOUS
<1>2. ASSUME NEW x, Is(x) PROVE x = m
  <2>1. x \in Int /\ m \in Int /\ x <= m /\ m <= x
    BY <1>2
  <2> QED BY <2>1
<1>3. MaxOf(S) = CHOOSE x : Is(x)
  BY Zenon DEF MaxOf
<1> HIDE DEF Is
<1> QED BY <1>1, <1>2, <1>3

\* The largest value of a list that is not empty.
LEMMA MaxOfList ==
  ASSUME NEW E, NEW v \in [E -> Int], NEW s \in Seq(E), s # <<>>
  PROVE  /\ MaxOf({v[e] : e \in ToSet(s)}) \in {v[e] : e \in ToSet(s)}
         /\ \A e \in ToSet(s) : v[e] <= MaxOf({v[d] : d \in ToSet(s)})
<1>1. \E e \in Keeping!ToSet(s) : \A d \in Keeping!ToSet(s) : v[d] <= v[e]
  BY Keeping!LargestValue
<1>2. ToSet(s) = Keeping!ToSet(s) /\ ToSet(s) \subseteq E
  BY SameToSet, ListSet
<1>3. PICK e \in ToSet(s) : \A d \in ToSet(s) : v[d] <= v[e]
  BY <1>1, <1>2
<1>4. {v[d] : d \in ToSet(s)} \subseteq Int
  BY <1>2
<1>5. MaxOf({v[d] : d \in ToSet(s)}) = v[e]
  BY <1>3, <1>4, MaxOfIs
<1> QED BY <1>3, <1>5
-----------------------------------------------------------------------------
(* The stages of the pipeline                                                 *)

\* Instants and severities are numbers.
LEMMA RowFacts ==
  \A e \in Rows : e.at \in Nat /\ e.stamp \in Nat \ {0} /\ e.severity \in 0..10
BY EventsAssumption DEF Rows

\* What Deduplicate has kept: one event for every key of the list.
KeptOf(d, s) ==
  /\ OnceEach(d) /\ ToSet(d) \subseteq ToSet(s)
  /\ \A e \in ToSet(s) : \E k \in ToSet(d) : Key(k) = Key(e)
  /\ \A k, l \in ToSet(d) : Key(k) = Key(l) => k = l

\* One event for each key.
LEMMA DeduplicateKeeps ==
  ASSUME NEW E, NEW s \in Seq(E)
  PROVE  Deduplicate(s) \in Seq(E) /\ KeptOf(Deduplicate(s), s)
<1> DEFINE V == Seq(E)
           S == {x \in Seq(E) : Keeping!Fold(0, <<>>, x) \in V /\ KeptOf(Keeping!Fold(0, <<>>, x), x)}
<1>1. <<>> \in V /\ <<>> \in Seq(E)
  OBVIOUS
<1>2. Keeping!Closed(0, V, E)
  BY AppendSet DEF Keeping!Closed, KeepFirst
<1>3. <<>> \in S
  <2>1. Keeping!Fold(0, <<>>, <<>>) = <<>>
    BY Keeping!FoldEmpty
  <2>2. KeptOf(<<>>, <<>>)
    BY EmptyList DEF KeptOf
  <2> QED BY <1>1, <2>1, <2>2
<1>4. ASSUME NEW x \in Seq(E), NEW e \in E, x \in S PROVE Append(x, e) \in S
  <2>1. PICK d \in Seq(E) : d = Keeping!Fold(0, <<>>, x)
    BY <1>4
  <2>2. KeptOf(d, x)
    BY <1>4, <2>1
  <2>3. PICK y \in Seq(E) : y = Append(x, e)
    BY AppendSet
  <2>4. Keeping!Fold(0, <<>>, y) = KeepFirst(0, d, e)
    <3> HIDE DEF V
    <3>1. Keeping!Fold(0, <<>>, Append(x, e)) = KeepFirst(0, Keeping!Fold(0, <<>>, x), e)
      BY <1>1, <1>2, Keeping!FoldAppend
    <3> QED BY <2>1, <2>3, <3>1
  <2>5. ToSet(y) = ToSet(x) \cup {e}
    BY <2>3, AppendSet
  <2>6. CASE \E k \in ToSet(d) : Key(k) = Key(e)
    <3>1. KeepFirst(0, d, e) = d
      BY <2>6 DEF KeepFirst
    <3>2. KeptOf(d, y)
      BY <2>2, <2>5, <2>6 DEF KeptOf
    <3> QED BY <2>3, <2>4, <3>1, <3>2
  <2>7. CASE ~ \E k \in ToSet(d) : Key(k) = Key(e)
    <3>1. PICK c \in Seq(E) : c = Append(d, e)
      BY AppendSet
    <3>2. KeepFirst(0, d, e) = c
      BY <2>7, <3>1 DEF KeepFirst
    <3>3. ToSet(c) = ToSet(d) \cup {e} /\ OnceEach(c)
      BY <2>2, <2>7, <3>1, AppendSet DEF KeptOf
    <3>4. KeptOf(c, y)
      BY <2>2, <2>5, <2>7, <3>3 DEF KeptOf
    <3> QED BY <2>3, <2>4, <3>2, <3>4
  <2> QED BY <2>6, <2>7
<1> HIDE DEF S
<1>5. Seq(E) \subseteq S
  BY <1>3, <1>4, Keeping!SeqInduction
<1> QED BY <1>5, DedupIsFold DEF S

\* s is a rearrangement of t.
SameElements(s, t) == OnceEach(s) /\ ToSet(s) = ToSet(t)

\* Sorting neither loses nor repeats an event.
LEMMA SortedKeeps ==
  ASSUME NEW s \in Seq(Rows), OnceEach(s)
  PROVE  SortedByStamp(s) \in Seq(Rows) /\ SameElements(SortedByStamp(s), s)
<1> DEFINE stamps == {e.stamp : e \in ToSet(s)} \cup {0}
           At(t) == {e \in ToSet(s) : e.stamp = t}
<1>1. ToSet(s) \subseteq Rows
  BY ListSet
<1>2. PICK last \in Nat : last = MaxOf(stamps) /\ \A e \in ToSet(s) : e.stamp \in 1..last
  <2>1. stamps \subseteq Int /\ \A n \in stamps : 0 <= n
    BY <1>1, RowFacts
  <2>2. CASE s = <<>>
    <3>1. ToSet(s) = {} /\ stamps = {0}
      BY <2>2, EmptyList
    <3>2. MaxOf(stamps) = 0
      <4>1. 0 \in stamps /\ \A n \in stamps : n <= 0
        BY <3>1
      <4> HIDE DEF stamps
      <4> QED BY <2>1, <4>1, MaxOfIs
    <3> QED BY <3>1, <3>2
  <2>3. CASE s # <<>>
    <3> DEFINE v == [e \in Rows |-> e.stamp]
               own == {v[e] : e \in ToSet(s)}
    <3>1. v \in [Rows -> Int]
      BY RowFacts
    <3>2. PICK m : m = MaxOf(own)
      OBVIOUS
    <3>3. m \in own /\ \A e \in ToSet(s) : v[e] <= m
      <4> HIDE DEF v
      <4> QED BY <2>3, <3>1, <3>2, MaxOfList
    <3>4. own \cup {0} = stamps
      BY <1>1
    <3>5. m \in Nat /\ \A e \in ToSet(s) : e.stamp <= m
      BY <1>1, <3>3, RowFacts
    <3>6. MaxOf(stamps) = m
      <4>1. m \in stamps /\ \A n \in stamps : n <= m
        <5>1. \A n \in own : n <= m
          BY <3>3
        <5> HIDE DEF own
        <5> QED BY <3>3, <3>4, <3>5, <5>1
      <4> HIDE DEF stamps
      <4> QED BY <2>1, <4>1, MaxOfIs
    <3>7. \A e \in ToSet(s) : e.stamp \in Nat \ {0}
      BY <1>1, RowFacts
    <3>8. m \in Nat /\ \A e \in ToSet(s) : e.stamp \in 1..m
      <4> HIDE DEF own
      <4> QED BY <3>5, <3>7
    <3> HIDE DEF stamps, own
    <3> QED BY <3>6, <3>8
  <2> QED BY <2>2, <2>3
<1> DEFINE ss == [t \in 1..last |-> Selected(s, At(t))]
<1>3. ss \in Seq(Seq(Rows)) /\ Len(ss) = last
  <2>1. \A t : Selected(s, At(t)) \in Seq(Rows)
    BY SelectedList
  <2> DEFINE E == Seq(Rows)
  <2>2. ss \in [1..last -> E]
    BY <2>1
  <2> HIDE DEF ss, E
  <2>3. ss \in Seq(E) /\ Len(ss) = last
    BY <2>2, FunctionList
  <2> QED BY <2>3 DEF E
<1>4. \A t \in 1..Len(ss) : ToSet(ss[t]) = At(t) /\ OnceEach(ss[t])
  <2>1. \A t : ToSet(Selected(s, At(t))) = ToSet(s) \cap At(t) /\ OnceEach(Selected(s, At(t)))
    BY SelectedList
  <2> QED BY <1>3, <2>1
<1>5. Apart(ss)
  BY <1>4 DEF Apart
<1>6. Contents(ss) = ToSet(s)
  <2>1. ToSet(ss) = {ss[t] : t \in 1..Len(ss)}
    <3> HIDE DEF ss
    <3> QED BY <1>3, ListSet
  <2>2. Contents(ss) = UNION {ToSet(ss[t]) : t \in 1..last}
    <3> HIDE DEF ss
    <3> QED BY <1>3, <2>1 DEF Contents
  <2>3. UNION {ToSet(ss[t]) : t \in 1..last} = UNION {At(t) : t \in 1..last}
    <3> HIDE DEF ss
    <3> QED BY <1>3, <1>4
  <2>4. UNION {At(t) : t \in 1..last} = ToSet(s)
    <3>1. \A e \in ToSet(s) : e \in At(e.stamp)
      OBVIOUS
    <3>2. \A t : At(t) \subseteq ToSet(s)
      OBVIOUS
    <3> HIDE DEF At
    <3> QED BY <1>2, <3>1, <3>2
  <2> QED BY <2>2, <2>3, <2>4, Zenon
<1>7. SortedByStamp(s) = FlattenSeq(ss)
  <2>1. SortedByStamp(s) = FlattenSeq([t \in 1..MaxOf(stamps) |-> Selected(s, At(t))])
    BY Zenon DEF SortedByStamp
  <2> QED BY <1>2, <2>1, Zenon
<1> HIDE DEF ss
<1> QED BY <1>3, <1>4, <1>5, <1>6, <1>7, FlattenList DEF SameElements

\* Every service of the list, once.
LEMMA ServicesListed ==
  ASSUME NEW s \in Seq(Rows)
  PROVE  /\ ServicesOf(s) \in Seq({e.service : e \in Rows})
         /\ OnceEach(ServicesOf(s)) /\ ToSet(ServicesOf(s)) = {e.service : e \in ToSet(s)}
<1> DEFINE Names == {e.service : e \in Rows}
           V == Seq(Names)
           Ok(x, d) == d \in V /\ OnceEach(d) /\ ToSet(d) = {e.service : e \in ToSet(x)}
           S == {x \in Seq(Rows) : Ok(x, Listing!Fold(0, <<>>, x))}
<1>1. <<>> \in V /\ <<>> \in Seq(Rows)
  OBVIOUS
<1>2. Listing!Closed(0, V, Rows)
  BY AppendSet DEF Listing!Closed, AddService
<1>3. <<>> \in S
  <2>1. Listing!Fold(0, <<>>, <<>>) = <<>>
    BY Listing!FoldEmpty
  <2>2. Ok(<<>>, <<>>)
    BY <1>1, EmptyList
  <2> QED BY <1>1, <2>1, <2>2
<1>4. ASSUME NEW x \in Seq(Rows), NEW e \in Rows, x \in S PROVE Append(x, e) \in S
  <2>1. PICK d : d = Listing!Fold(0, <<>>, x)
    OBVIOUS
  <2>2. Ok(x, d)
    BY <1>4, <2>1
  <2>3. PICK y \in Seq(Rows) : y = Append(x, e)
    BY AppendSet
  <2>4. Listing!Fold(0, <<>>, y) = AddService(0, d, e)
    <3> HIDE DEF V
    <3>1. Listing!Fold(0, <<>>, Append(x, e)) = AddService(0, Listing!Fold(0, <<>>, x), e)
      BY <1>1, <1>2, Listing!FoldAppend
    <3> QED BY <2>1, <2>3, <3>1
  <2>5. ToSet(y) = ToSet(x) \cup {e}
    BY <2>3, AppendSet
  <2>6. CASE e.service \in ToSet(d)
    BY <2>2, <2>3, <2>4, <2>5, <2>6 DEF AddService
  <2>7. CASE e.service \notin ToSet(d)
    <3>1. PICK n \in Names : n = e.service
      OBVIOUS
    <3>2. PICK c \in V : c = Append(d, e.service)
      BY <2>2, AppendSet
    <3>4. ToSet(c) = ToSet(d) \cup {n} /\ OnceEach(c)
      <4> HIDE DEF Names
      <4> QED BY <2>2, <2>7, <3>1, <3>2, AppendSet
    <3>3. Ok(y, c)
      BY <2>2, <2>5, <3>1, <3>4
    <3> QED BY <2>3, <2>4, <2>7, <3>2, <3>3 DEF AddService
  <2> QED BY <2>6, <2>7
<1> HIDE DEF S
<1>5. Seq(Rows) \subseteq S
  BY <1>3, <1>4, Listing!SeqInduction
<1> QED BY <1>5, ServicesIsFold DEF S

\* A temporal group: events, at least one.
Signal == Seq(Rows) \ {<<>>}

\* No event is in two of the lists.
Disjoint(S) == \A x, y \in S : x # y => ToSet(x) \cap ToSet(y) = {}

\* The beginning of a list without repetition is one, and its last element is new.
LEMMA OnceShorter ==
  ASSUME NEW E, NEW s \in Seq(E), NEW e \in E, OnceEach(Append(s, e))
  PROVE  OnceEach(s) /\ e \notin ToSet(s)
<1>1. PICK t \in Seq(E) : t = Append(s, e)
  BY AppendSet
<1>2. /\ Len(s) \in Nat /\ Len(t) = Len(s) + 1 /\ t[Len(t)] = e
      /\ \A i \in 1..Len(s) : t[i] = s[i]
  BY <1>1, AppendProperties, LenProperties
<1>3. 1..Len(s) \subseteq 1..Len(t) /\ Len(t) \in 1..Len(t) /\ Len(t) \notin 1..Len(s)
  BY <1>2
<1>4. OnceEach(s) /\ \A i \in 1..Len(s) : s[i] # e
  BY <1>1, <1>2, <1>3 DEF OnceEach
<1>5. ToSet(s) = {s[i] : i \in 1..Len(s)}
  BY ListSet
<1> QED BY <1>4, <1>5

\* What Front and Last undo.
LEMMA FrontAndLast ==
  ASSUME NEW E, NEW s \in Seq(E), NEW e \in E
  PROVE  Front(Append(s, e)) = s /\ Last(Append(s, e)) = e
<1>1. PICK t \in Seq(E) : t = Append(s, e)
  BY AppendSet
<1>2. /\ Len(s) \in Nat /\ Len(t) = Len(s) + 1 /\ t[Len(t)] = e
      /\ \A i \in 1..Len(s) : t[i] = s[i]
  BY <1>1, AppendProperties, LenProperties
<1>3. Last(t) = e
  BY <1>2 DEF Last
<1>4. /\ SubSeq(t, 1, Len(s)) \in Seq(E) /\ Len(SubSeq(t, 1, Len(s))) = Len(s)
      /\ \A i \in 1..Len(s) : SubSeq(t, 1, Len(s))[i] = s[i]
  BY <1>2, SubSeqProperties
<1>5. SubSeq(t, 1, Len(s)) = s
  BY <1>4, SeqEqual
<1>6. Front(t) = SubSeq(t, 1, Len(s))
  BY <1>2 DEF Front
<1> QED BY <1>1, <1>3, <1>5, <1>6

\* The head of a list is in it.
LEMMA HeadIn ==
  ASSUME NEW E, NEW s \in Seq(E), s # <<>>
  PROVE  Head(s) \in ToSet(s)
<1>1. Head(s) = s[1] /\ 1 \in 1..Len(s)
  OBVIOUS
<1> QED BY <1>1, ListSet

\* No two of the events are farther apart than the window.
Within(S, window) == \A d, e \in S : d.at - e.at <= window

\* How windows split the events of s.
Split(ws, s, window) ==
  /\ OnceEach(ws) /\ Disjoint(ToSet(ws)) /\ Contents(ws) = ToSet(s)
  /\ \A w \in ToSet(ws) : OnceEach(w)
  /\ Within(ToSet(s), window) => \A v, w \in ToSet(ws) : v = w

\* An event opens a window.
LEMMA SplitOpens ==
  ASSUME NEW x \in Seq(Rows), NEW e \in Rows, NEW ws \in Seq(Signal), NEW window,
         Split(ws, x, window), e \notin ToSet(x),
         ws # <<>> => ~ Within(ToSet(x) \cup {e}, window)
  PROVE  Append(ws, <<e>>) \in Seq(Signal) /\ Split(Append(ws, <<e>>), Append(x, e), window)
<1>1. PICK w \in Signal : w = <<e>>
  <2>1. <<e>> \in Signal
    BY DEF Signal
  <2> QED BY <2>1
<1>2. ToSet(w) = {e} /\ OnceEach(w)
  BY <1>1 DEF ToSet, OnceEach
<1>3. \A v \in ToSet(ws) : e \notin ToSet(v)
  BY DEF Split, Contents
<1>4. w \notin ToSet(ws)
  BY <1>2, <1>3
<1>5. PICK vs \in Seq(Signal) : vs = Append(ws, w)
  BY AppendSet
<1>6. OnceEach(vs) /\ ToSet(vs) = ToSet(ws) \cup {w}
  BY <1>4, <1>5, AppendSet DEF Split
<1>7. Disjoint(ToSet(vs))
  BY <1>2, <1>3, <1>6 DEF Split, Disjoint
<1>8. PICK y \in Seq(Rows) : y = Append(x, e)
  BY AppendSet
<1>9. ToSet(y) = ToSet(x) \cup {e}
  BY <1>8, AppendSet
<1>10. Contents(vs) = ToSet(y)
  <2>1. Contents(vs) = Contents(ws) \cup ToSet(w)
    BY <1>6 DEF Contents
  <2> QED BY <1>2, <1>9, <2>1 DEF Split
<1>11. ASSUME Within(ToSet(y), window) PROVE \A u, v \in ToSet(vs) : u = v
  <2>1. ws = <<>>
    BY <1>9, <1>11
  <2> QED BY <1>6, <2>1, EmptyList
<1>12. Split(vs, y, window)
  BY <1>2, <1>6, <1>7, <1>10, <1>11 DEF Split
<1> QED BY <1>1, <1>5, <1>8, <1>12

\* An event that is near enough joins the last one.
LEMMA SplitJoins ==
  ASSUME NEW x \in Seq(Rows), NEW e \in Rows, NEW r \in Seq(Signal), NEW a \in Signal,
         NEW window, Split(Append(r, a), x, window), e \notin ToSet(x)
  PROVE  /\ Append(r, Append(a, e)) \in Seq(Signal)
         /\ Split(Append(r, Append(a, e)), Append(x, e), window)
<1>1. PICK ws \in Seq(Signal) : ws = Append(r, a)
  BY AppendSet
<1>2. ToSet(ws) = ToSet(r) \cup {a} /\ OnceEach(r) /\ a \notin ToSet(r)
  BY <1>1, AppendSet, OnceShorter DEF Split
<1>3. a \in Seq(Rows) /\ \A v \in ToSet(ws) : e \notin ToSet(v)
  BY <1>1 DEF Split, Contents, Signal
<1>4. PICK b \in Signal : b = Append(a, e)
  <2>1. Append(a, e) \in Signal
    BY <1>3, AppendProperties DEF Signal
  <2> QED BY <2>1
<1>5. ToSet(b) = ToSet(a) \cup {e} /\ OnceEach(b)
  <2>1. OnceEach(a) /\ e \notin ToSet(a)
    BY <1>1, <1>2, <1>3 DEF Split
  <2> QED BY <1>3, <1>4, <2>1, AppendSet
<1>6. b \notin ToSet(r)
  BY <1>2, <1>3, <1>5
<1>7. PICK vs \in Seq(Signal) : vs = Append(r, b)
  BY AppendSet
<1>8. OnceEach(vs) /\ ToSet(vs) = ToSet(r) \cup {b}
  BY <1>2, <1>6, <1>7, AppendSet
<1>9. Disjoint(ToSet(vs))
  <2>1. \A v \in ToSet(r) : ToSet(v) \cap ToSet(a) = {} /\ e \notin ToSet(v)
    BY <1>1, <1>2, <1>3 DEF Split, Disjoint
  <2>2. \A u, v \in ToSet(r) : u # v => ToSet(u) \cap ToSet(v) = {}
    BY <1>1, <1>2 DEF Split, Disjoint
  <2>3. \A v \in ToSet(r) : ToSet(v) \cap ToSet(b) = {}
    BY <1>5, <2>1
  <2> QED BY <1>8, <2>2, <2>3 DEF Disjoint
<1>10. PICK y \in Seq(Rows) : y = Append(x, e)
  BY AppendSet
<1>11. ToSet(y) = ToSet(x) \cup {e}
  BY <1>10, AppendSet
<1>12. Contents(vs) = ToSet(y)
  <2>1. Contents(ws) = Contents(r) \cup ToSet(a) /\ Contents(vs) = Contents(r) \cup ToSet(b)
    BY <1>2, <1>8 DEF Contents
  <2>2. Contents(ws) = ToSet(x)
    BY <1>1 DEF Split
  <2> QED BY <1>5, <1>11, <2>1, <2>2
<1>13. ASSUME Within(ToSet(y), window) PROVE \A u, v \in ToSet(vs) : u = v
  <2>1. Within(ToSet(x), window)
    BY <1>11, <1>13 DEF Within
  <2>2. \A u, v \in ToSet(ws) : u = v
    BY <1>1, <2>1 DEF Split
  <2> QED BY <1>2, <1>8, <2>2
<1>14. \A v \in ToSet(vs) : OnceEach(v)
  BY <1>1, <1>2, <1>5, <1>8 DEF Split
<1>15. Split(vs, y, window)
  BY <1>8, <1>9, <1>12, <1>13, <1>14 DEF Split
<1> QED BY <1>4, <1>7, <1>10, <1>15

\* One step of Windows.
LEMMA AddToWindowSplits ==
  ASSUME NEW x \in Seq(Rows), NEW e \in Rows, NEW ws \in Seq(Signal), NEW window,
         Split(ws, x, window), e \notin ToSet(x)
  PROVE  Split(AddToWindow(window, ws, e), Append(x, e), window)
<1>1. CASE ws = <<>>
  <2>1. AddToWindow(window, ws, e) = Append(ws, <<e>>)
    BY <1>1 DEF AddToWindow
  <2> QED BY <1>1, <2>1, SplitOpens
<1>2. CASE ws # <<>>
  <2>1. PICK r \in Seq(Signal), a \in Signal : ws = Append(r, a)
    BY <1>2, SequenceEmptyOrAppend
  <2>2. Front(ws) = r /\ Last(ws) = a
    BY <2>1, FrontAndLast
  <2>3. CASE e.at - Head(a).at <= window
    <3>1. AddToWindow(window, ws, e) = Append(r, Append(a, e))
      BY <1>2, <2>2, <2>3 DEF AddToWindow
    <3> QED BY <2>1, <3>1, SplitJoins
  <2>4. CASE ~ (e.at - Head(a).at <= window)
    <3>1. AddToWindow(window, ws, e) = Append(ws, <<e>>)
      BY <2>2, <2>4 DEF AddToWindow
    <3>2. Head(a) \in ToSet(x)
      <4>1. Head(a) \in ToSet(a)
        BY HeadIn DEF Signal
      <4>2. a \in ToSet(ws)
        BY <2>1, AppendSet
      <4> QED BY <4>1, <4>2 DEF Split, Contents
    <3>3. ~ Within(ToSet(x) \cup {e}, window)
      BY <2>4, <3>2 DEF Within
    <3> QED BY <3>1, <3>3, SplitOpens
  <2> QED BY <2>3, <2>4
<1> QED BY <1>1, <1>2

\* The steps of Windows stay lists of signals.
LEMMA WindowsClosed ==
  ASSUME NEW window
  PROVE  Splitting!Closed(window, Seq(Signal), Rows) /\ <<>> \in Seq(Signal)
<1>1. ASSUME NEW ws \in Seq(Signal), NEW e \in Rows
      PROVE  AddToWindow(window, ws, e) \in Seq(Signal)
  <2>1. <<e>> \in Signal
    BY DEF Signal
  <2>2. Append(ws, <<e>>) \in Seq(Signal)
    BY <2>1, AppendSet
  <2>3. ASSUME ws # <<>> PROVE Append(Front(ws), Append(Last(ws), e)) \in Seq(Signal)
    <3>1. PICK r \in Seq(Signal), a \in Signal : ws = Append(r, a)
      BY <2>3, SequenceEmptyOrAppend
    <3>2. Front(ws) = r /\ Last(ws) = a
      BY <3>1, FrontAndLast
    <3>3. Append(a, e) \in Signal
      BY AppendProperties DEF Signal
    <3> QED BY <3>2, <3>3, AppendSet
  <2> QED BY <2>2, <2>3 DEF AddToWindow
<1> QED BY <1>1 DEF Splitting!Closed

\* Windows shares the events out, and keeps together what is within the window.
LEMMA WindowsSplit ==
  ASSUME NEW s \in Seq(Rows), NEW window, OnceEach(s)
  PROVE  Windows(s, window) \in Seq(Signal) /\ Split(Windows(s, window), s, window)
<1> DEFINE V == Seq(Signal)
           F(x) == Splitting!Fold(window, <<>>, x)
           S == {x \in Seq(Rows) : F(x) \in V /\ (OnceEach(x) => Split(F(x), x, window))}
<1>1. <<>> \in V /\ <<>> \in Seq(Rows) /\ Splitting!Closed(window, V, Rows)
  BY WindowsClosed
<1>2. <<>> \in S
  <2>1. F(<<>>) = <<>>
    BY Splitting!FoldEmpty
  <2>2. Split(<<>>, <<>>, window)
    BY EmptyList DEF Split, Contents, Disjoint
  <2> QED BY <1>1, <2>1, <2>2
<1>3. ASSUME NEW x \in Seq(Rows), NEW e \in Rows, x \in S PROVE Append(x, e) \in S
  <2>1. PICK ws \in V : ws = F(x)
    BY <1>3
  <2>2. PICK y \in Seq(Rows) : y = Append(x, e)
    BY AppendSet
  <2>3. F(y) = AddToWindow(window, ws, e)
    <3> HIDE DEF V
    <3>1. Splitting!Fold(window, <<>>, Append(x, e))
            = AddToWindow(window, Splitting!Fold(window, <<>>, x), e)
      BY <1>1, Splitting!FoldAppend
    <3> QED BY <2>1, <2>2, <3>1
  <2>4. AddToWindow(window, ws, e) \in V
    BY <1>1 DEF Splitting!Closed
  <2>5. ASSUME OnceEach(y) PROVE Split(AddToWindow(window, ws, e), y, window)
    <3>1. OnceEach(x) /\ e \notin ToSet(x)
      BY <2>2, <2>5, OnceShorter
    <3>2. Split(ws, x, window)
      BY <1>3, <2>1, <3>1
    <3> QED BY <2>2, <3>1, <3>2, AddToWindowSplits
  <2> QED BY <2>2, <2>3, <2>4, <2>5
<1> HIDE DEF S
<1>4. Seq(Rows) \subseteq S
  BY <1>2, <1>3, Splitting!SeqInduction
<1>5. s \in S
  BY <1>4
<1>6. Windows(s, window) = F(s)
  BY WindowsIsFold
<1> QED BY <1>5, <1>6 DEF S

EventsOf(events, service) == {e \in ToSet(events) : e.service = service}

\* The temporal groups: they share the events out, each has one service, and a service
\* whose events are all within the window has one.
SignalsOf(signals, events, window) ==
  /\ OnceEach(signals) /\ Disjoint(ToSet(signals)) /\ Contents(signals) = ToSet(events)
  /\ \A x \in ToSet(signals) :
       OnceEach(x) /\ \A e \in ToSet(x) : e.service = ServiceOf(x)
  /\ \A x, y \in ToSet(signals) :
       ServiceOf(x) = ServiceOf(y) /\ Within(EventsOf(events, ServiceOf(x)), window) => x = y

\* What GroupTemporal makes of the events it is given.
LEMMA GroupTemporalSignals ==
  ASSUME NEW d \in Seq(Rows), OnceEach(d), NEW window
  PROVE  /\ GroupTemporal(d, window) \in Seq(Signal)
         /\ SignalsOf(GroupTemporal(d, window), d, window)
<1> DEFINE sorted == SortedByStamp(d)
           services == ServicesOf(sorted)
           Mine(i) == {e \in ToSet(sorted) : e.service = services[i]}
           W(i) == Windows(Selected(sorted, Mine(i)), window)
<1>1. sorted \in Seq(Rows) /\ OnceEach(sorted) /\ ToSet(sorted) = ToSet(d)
  BY SortedKeeps DEF SameElements
<1>2. /\ OnceEach(services) /\ ToSet(services) = {e.service : e \in ToSet(sorted)}
      /\ ToSet(services) = {services[i] : i \in 1..Len(services)}
      /\ Len(services) \in Nat /\ DOMAIN services = 1..Len(services)
  <2>1. PICK E : /\ services \in Seq(E) /\ OnceEach(services)
                 /\ ToSet(services) = {e.service : e \in ToSet(sorted)}
    <3> HIDE DEF sorted
    <3> QED BY <1>1, ServicesListed
  <2> HIDE DEF services, sorted
  <2> QED BY <2>1, ListSet
<1>3. GroupTemporal(d, window) = FlattenSeq([i \in 1..Len(services) |-> W(i)])
  <2>1. GroupTemporal(d, window) = FlattenSeq([i \in DOMAIN services |-> W(i)])
    BY Zenon DEF GroupTemporal
  <2> HIDE DEF services, W
  <2> QED BY <1>2, <2>1, Zenon
<1> HIDE DEF sorted, services
<1>4. ASSUME NEW i \in 1..Len(services)
      PROVE  /\ W(i) \in Seq(Signal) /\ OnceEach(W(i)) /\ Disjoint(ToSet(W(i)))
             /\ Contents(W(i)) = Mine(i) /\ \A w \in ToSet(W(i)) : OnceEach(w)
             /\ Within(Mine(i), window) => \A v, w \in ToSet(W(i)) : v = w
  <2>1. PICK s \in Seq(Rows) : s = Selected(sorted, Mine(i))
    BY <1>1, SelectedList
  <2>2. ToSet(s) = Mine(i) /\ OnceEach(s)
    <3>1. ToSet(s) = ToSet(sorted) \cap Mine(i)
      BY <1>1, <2>1, SelectedList
    <3>2. OnceEach(s)
      BY <1>1, <2>1, SelectedList
    <3> QED BY <3>1, <3>2
  <2>3. W(i) = Windows(s, window)
    BY <2>1
  <2> HIDE DEF W, Mine
  <2>4. Windows(s, window) \in Seq(Signal) /\ Split(Windows(s, window), s, window)
    BY <2>2, WindowsSplit
  <2> QED BY <2>2, <2>3, <2>4 DEF Split
<1>5. ASSUME NEW i \in 1..Len(services), NEW w \in ToSet(W(i))
      PROVE  /\ w \in Signal /\ ToSet(w) \subseteq Mine(i) /\ Head(w) \in ToSet(w)
             /\ ServiceOf(w) = services[i]
  <2> HIDE DEF W
  <2>1. w \in Signal
    BY <1>4, ListSet
  <2>2. ToSet(w) \subseteq Mine(i)
    <3> HIDE DEF Mine
    <3> QED BY <1>4 DEF Contents
  <2>3. Head(w) \in ToSet(w)
    BY <2>1, HeadIn DEF Signal
  <2> QED BY <2>1, <2>2, <2>3 DEF ServiceOf
<1> DEFINE n == Len(services)
           ww == [i \in 1..n |-> W(i)]
<1> HIDE DEF W, Mine
<1>6. ww \in Seq(Seq(Signal)) /\ Len(ww) = n /\ \A i \in 1..n : ww[i] = W(i)
  <2> DEFINE E == Seq(Signal)
  <2>1. ww \in [1..n -> E] /\ \A i \in 1..n : ww[i] = W(i)
    BY <1>4
  <2> HIDE DEF ww, E, n
  <2>2. n \in Nat
    BY <1>2 DEF n
  <2>3. ww \in Seq(E) /\ Len(ww) = n
    BY <2>1, <2>2, FunctionList
  <2> QED BY <2>1, <2>3 DEF E
<1> HIDE DEF ww
<1>7. Apart(ww)
  <2> SUFFICES ASSUME NEW i \in 1..n, NEW j \in 1..n, NEW w, w \in ToSet(W(i)), w \in ToSet(W(j))
               PROVE  i = j
    BY <1>6 DEF Apart
  <2>1. services[i] = services[j]
    BY <1>5
  <2> QED BY <1>2, <2>1 DEF OnceEach
<1>8. PICK signals \in Seq(Signal) : signals = FlattenSeq(ww)
  BY <1>6, FlattenList
<1>9. OnceEach(signals)
  <2>1. \A i \in 1..Len(ww) : OnceEach(ww[i])
    BY <1>4, <1>6
  <2> QED BY <1>6, <1>7, <1>8, <2>1, FlattenList
<1>10. ToSet(signals) = UNION {ToSet(W(i)) : i \in 1..n}
  <2>1. ToSet(signals) = Contents(ww)
    BY <1>6, <1>8, FlattenList
  <2>2. ToSet(ww) = {ww[i] : i \in 1..n}
    BY <1>6, ListSet
  <2>3. Contents(ww) = UNION {ToSet(ww[i]) : i \in 1..n}
    BY <2>2 DEF Contents
  <2>4. UNION {ToSet(ww[i]) : i \in 1..n} = UNION {ToSet(W(i)) : i \in 1..n}
    BY <1>6
  <2> QED BY <2>1, <2>3, <2>4
<1>11. \A x \in ToSet(signals) : \E i \in 1..n : x \in ToSet(W(i))
  BY <1>10
<1>12. ASSUME NEW x \in ToSet(signals), NEW y \in ToSet(signals), ServiceOf(x) = ServiceOf(y)
       PROVE  \E i \in 1..n : /\ x \in ToSet(W(i)) /\ y \in ToSet(W(i))
                              /\ ServiceOf(x) = services[i]
  <2>1. PICK i \in 1..n : x \in ToSet(W(i))
    BY <1>11
  <2>2. PICK j \in 1..n : y \in ToSet(W(j))
    BY <1>11
  <2>3. services[i] = services[j] /\ ServiceOf(x) = services[i]
    BY <1>5, <1>12, <2>1, <2>2
  <2>4. i = j
    BY <1>2, <2>3 DEF OnceEach
  <2> QED BY <2>1, <2>2, <2>3, <2>4
<1>13. \A x \in ToSet(signals) : \A e \in ToSet(x) : e.service = ServiceOf(x)
  <2> TAKE x \in ToSet(signals)
  <2>1. PICK i \in 1..n : x \in ToSet(W(i))
    BY <1>11
  <2> QED BY <1>5, <2>1 DEF Mine
<1>14. Disjoint(ToSet(signals))
  <2> SUFFICES ASSUME NEW x \in ToSet(signals), NEW y \in ToSet(signals),
                      NEW e, e \in ToSet(x), e \in ToSet(y)
               PROVE  x = y
    BY DEF Disjoint
  <2>1. ServiceOf(x) = ServiceOf(y)
    BY <1>13
  <2>2. PICK i \in 1..n : x \in ToSet(W(i)) /\ y \in ToSet(W(i))
    BY <1>12, <2>1
  <2> QED BY <1>4, <2>2 DEF Disjoint
<1>15. Contents(signals) = ToSet(d)
  <2>1. ASSUME NEW x \in ToSet(signals) PROVE ToSet(x) \subseteq ToSet(sorted)
    BY <1>5, <1>11 DEF Mine
  <2>2. ASSUME NEW e \in ToSet(sorted) PROVE \E x \in ToSet(signals) : e \in ToSet(x)
    <3>1. PICK i \in 1..n : e.service = services[i]
      BY <1>2
    <3>2. e \in Contents(W(i))
      BY <1>4, <3>1 DEF Mine
    <3> QED BY <1>10, <3>2 DEF Contents
  <2> QED BY <1>1, <2>1, <2>2 DEF Contents
<1>16. ASSUME NEW x \in ToSet(signals), NEW y \in ToSet(signals), ServiceOf(x) = ServiceOf(y),
              Within(EventsOf(d, ServiceOf(x)), window)
       PROVE  x = y
  <2>1. PICK i \in 1..n : x \in ToSet(W(i)) /\ y \in ToSet(W(i)) /\ ServiceOf(x) = services[i]
    BY <1>12, <1>16
  <2>2. Within(Mine(i), window)
    BY <1>1, <1>16, <2>1 DEF Mine, EventsOf
  <2> QED BY <1>4, <2>1, <2>2
<1>17. \A x \in ToSet(signals) : OnceEach(x)
  BY <1>4, <1>11
<1>18. SignalsOf(signals, d, window)
  <2>1. \A x, y \in ToSet(signals) :
          ServiceOf(x) = ServiceOf(y) /\ Within(EventsOf(d, ServiceOf(x)), window) => x = y
    BY <1>16
  <2>2. \A x \in ToSet(signals) : OnceEach(x) /\ \A e \in ToSet(x) : e.service = ServiceOf(x)
    BY <1>13, <1>17
  <2> QED BY <1>9, <1>14, <1>15, <2>1, <2>2, Zenon DEF SignalsOf
<1>19. GroupTemporal(d, window) = signals
  BY <1>3, <1>8, Zenon DEF ww, n
<1> QED BY <1>18, <1>19

\* The links are a list of sets of services.
LEMMA LinksAreList == ASSUME NEW signals \in Seq(Signal)
                      PROVE  \E E : GroupTopology(signals) \in Seq(E)
<1> DEFINE n == Len(signals)
           P == Nat \X Nat
           Row(i) == [k \in 1..(n - i) |-> <<i, i + k>>]
           rows == [i \in 1..n |-> Row(i)]
           L == {{ServiceOf(signals[p[1]]), ServiceOf(signals[p[2]])} : p \in P}
           V == Seq(L)
<1>1. n \in Nat /\ DOMAIN signals = 1..n
  BY LenProperties
<1>2. \A i \in 1..n : Row(i) \in Seq(P)
  <2> TAKE i \in 1..n
  <2>1. n - i \in Nat /\ Row(i) \in [1..(n - i) -> P]
    BY <1>1
  <2> HIDE DEF Row, P
  <2> QED BY <2>1, FunctionList
<1>3. FlattenSeq(rows) \in Seq(P)
  <2> DEFINE E == Seq(P)
  <2> HIDE DEF Row
  <2>1. rows \in [1..n -> E]
    BY <1>2
  <2> HIDE DEF rows, E, P
  <2>2. rows \in Seq(E)
    BY <1>1, <2>1, FunctionList
  <2> QED BY <2>2, FlattenList DEF E
<1>4. Index(signals) = FlattenSeq(rows)
  <2> HIDE DEF n
  <2>1. Index(signals) = FlattenSeq([i \in DOMAIN signals |-> Row(i)])
    BY Zenon DEF Index, n
  <2> QED BY <1>1, <2>1, Zenon
<1>5. Linking!Closed(signals, V, P) /\ <<>> \in V
  <2>1. ASSUME NEW links \in V, NEW p \in P PROVE AddLink(signals, links, p) \in V
    <3>1. PICK l \in L : l = {ServiceOf(signals[p[1]]), ServiceOf(signals[p[2]])}
      OBVIOUS
    <3> HIDE DEF L
    <3>2. Append(links, l) \in V
      BY AppendSet
    <3> QED BY <3>1, <3>2 DEF AddLink
  <2>2. <<>> \in V
    OBVIOUS
  <2> HIDE DEF V, P
  <2> QED BY <2>1, <2>2 DEF Linking!Closed
<1> HIDE DEF V, P, rows
<1>6. Linking!Fold(signals, <<>>, Index(signals)) \in V
  BY <1>3, <1>4, <1>5, Linking!FoldType
<1> QED BY <1>6, LinksIsFold DEF V

\* Peaks are severities.
LEMMA PeakRange == \A x \in Signal : Peak(x) \in 0..10
<1> TAKE x \in Signal
<1> DEFINE v == [e \in Rows |-> e.severity]
<1>1. v \in [Rows -> Int] /\ \A e \in Rows : v[e] \in 0..10
  BY RowFacts
<1>2. x \in Seq(Rows) /\ x # <<>> /\ ToSet(x) \subseteq Rows
  BY ListSet DEF Signal
<1>3. MaxOf({v[e] : e \in ToSet(x)}) \in {v[e] : e \in ToSet(x)}
  <2> HIDE DEF v
  <2> QED BY <1>1, <1>2, MaxOfList
<1>4. {v[e] : e \in ToSet(x)} = {e.severity : e \in ToSet(x)}
  BY <1>2
<1>5. Peak(x) = MaxOf({v[e] : e \in ToSet(x)})
  <2>1. Peak(x) = MaxOf({e.severity : e \in ToSet(x)})
    BY Zenon DEF Peak
  <2> QED BY <1>4, <2>1, Zenon
<1> HIDE DEF v
<1> QED BY <1>1, <1>2, <1>3, <1>5

\* So are those of groups.
LEMMA PeakOfRange == \A x \in Seq(Signal) : x # <<>> => PeakOf(x) \in 0..10
<1> SUFFICES ASSUME NEW x \in Seq(Signal), x # <<>> PROVE PeakOf(x) \in 0..10
  OBVIOUS
<1> DEFINE v == [s \in Signal |-> Peak(s)]
<1>1. v \in [Signal -> Int] /\ \A s \in Signal : v[s] \in 0..10
  BY PeakRange
<1>2. ToSet(x) \subseteq Signal
  BY ListSet
<1>3. MaxOf({v[s] : s \in ToSet(x)}) \in {v[s] : s \in ToSet(x)}
  <2> HIDE DEF v
  <2> QED BY <1>1, MaxOfList
<1>4. {v[s] : s \in ToSet(x)} = {Peak(s) : s \in ToSet(x)}
  BY <1>2
<1>5. PeakOf(x) = MaxOf({v[s] : s \in ToSet(x)})
  <2>1. PeakOf(x) = MaxOf({Peak(s) : s \in ToSet(x)})
    BY Zenon DEF PeakOf
  <2> QED BY <1>4, <2>1, Zenon
<1> HIDE DEF v
<1> QED BY <1>1, <1>2, <1>3, <1>5

\* g is a group that AssembleGroups may make of the signals: of one of the links in made,
\* or of one signal alone.
GroupFor(g, signals, links, changes, made) ==
  /\ \E l \in made : g = MakeGroup(l, g.signals, links, changes)
  /\ g.signals \in Seq(Signal) \ {<<>>} /\ OnceEach(g.signals)
  /\ \A s \in ToSet(g.signals) : s \in ToSet(signals) /\ ServiceOf(s) \in g.services

\* No signal is in two groups.
Separate(gs) ==
  \A g, h \in ToSet(gs) : g # h => ToSet(g.signals) \cap ToSet(h.signals) = {}

\* The signals that are in the groups.
Taken(gs) == UNION {ToSet(g.signals) : g \in ToSet(gs)}

\* The groups made so far share signals out among themselves.
Shares(gs, signals, links, changes, made) ==
  /\ OnceEach(gs) /\ Separate(gs)
  /\ \A g \in ToSet(gs) : GroupFor(g, signals, links, changes, made)

\* A group that takes none of the signals the others have joins them.
LEMMA SharesMore ==
  ASSUME NEW E, NEW gs \in Seq(E), NEW g \in E, NEW signals, NEW links, NEW changes, NEW made,
         Shares(gs, signals, links, changes, made), GroupFor(g, signals, links, changes, made),
         ToSet(g.signals) \cap Taken(gs) = {}
  PROVE  /\ Shares(Append(gs, g), signals, links, changes, made)
         /\ Taken(Append(gs, g)) = Taken(gs) \cup ToSet(g.signals)
<1>1. PICK s \in ToSet(g.signals) : TRUE
  BY HeadIn DEF GroupFor
<1>2. g \notin ToSet(gs)
  BY <1>1 DEF Taken
<1>3. PICK hs \in Seq(E) : hs = Append(gs, g)
  BY AppendSet
<1>4. ToSet(hs) = ToSet(gs) \cup {g} /\ OnceEach(hs)
  BY <1>2, <1>3, AppendSet DEF Shares
<1>5. Separate(hs)
  <2>1. \A f, h \in ToSet(gs) : f # h => ToSet(f.signals) \cap ToSet(h.signals) = {}
    BY DEF Shares, Separate
  <2>2. \A h \in ToSet(gs) : ToSet(g.signals) \cap ToSet(h.signals) = {}
    BY DEF Taken
  <2> QED BY <1>4, <2>1, <2>2 DEF Separate
<1>6. Taken(hs) = Taken(gs) \cup ToSet(g.signals)
  BY <1>4 DEF Taken
<1>7. Shares(hs, signals, links, changes, made)
  BY <1>4, <1>5 DEF Shares
<1> QED BY <1>3, <1>6, <1>7

\* What MakeGroup makes.
LEMMA MakeGroupFields ==
  ASSUME NEW l, NEW x, NEW links, NEW changes
  PROVE  LET g == MakeGroup(l, x, links, changes)
         IN  /\ g.services = l /\ g.signals = x
             /\ g.priority = ComputePriority(PeakOf(x), l, links)
             /\ g.changes = UNION {changes[s] : s \in l}
BY DEF MakeGroup

\* A made group of some of the signals is one for them.
LEMMA MakeGroupFor ==
  ASSUME NEW signals, NEW links, NEW changes, NEW made, NEW l \in made,
         NEW x \in Seq(Signal) \ {<<>>}, OnceEach(x),
         \A s \in ToSet(x) : s \in ToSet(signals) /\ ServiceOf(s) \in l
  PROVE  GroupFor(MakeGroup(l, x, links, changes), signals, links, changes, made)
<1>1. PICK g : g = MakeGroup(l, x, links, changes)
  OBVIOUS
<1>2. g.services = l /\ g.signals = x
  BY <1>1, MakeGroupFields
<1> QED BY <1>1, <1>2 DEF GroupFor

\* The first pass.
LEMMA LinkedGroupsShare ==
  ASSUME NEW signals \in Seq(Signal), OnceEach(signals), NEW changes, NEW L, NEW links \in Seq(L)
  PROVE  /\ \E E : LinkedGroups(signals, links, changes) \in Seq(E)
         /\ Shares(LinkedGroups(signals, links, changes), signals, links, changes, ToSet(links))
<1> DEFINE E == {MakeGroup(l, x, links, changes) : l \in L, x \in Seq(Signal)}
           V == Seq(E)
           F(x) == Grouping!Fold(<<signals, links, changes>>, <<>>, x)
           Ok(gs, x) == Shares(gs, signals, links, changes, ToSet(x))
           S == {x \in Seq(L) : F(x) \in V /\ Ok(F(x), x)}
           Mine(gs, l) == Selected(signals, {s \in ToSet(signals) : ServiceOf(s) \in l /\ s \notin Taken(gs)})
           Group(gs, l) == MakeGroup(l, Mine(gs, l), links, changes)
<1>1. \A gs, l : AddGroup(<<signals, links, changes>>, gs, l)
                   = IF Mine(gs, l) = <<>> THEN gs ELSE Append(gs, Group(gs, l))
  BY DEF AddGroup, Taken
<1>2. \A gs, l : Mine(gs, l) \in Seq(Signal)
  BY SelectedList
<1>3. ASSUME NEW gs \in V, NEW l \in L PROVE Group(gs, l) \in E
  <2>1. Mine(gs, l) \in Seq(Signal)
    BY SelectedList
  <2> HIDE DEF Mine
  <2> QED BY <2>1
<1> HIDE DEF E
<1>4. Grouping!Closed(<<signals, links, changes>>, V, L)
  <2>1. \A gs \in V, l \in L : Append(gs, Group(gs, l)) \in V
    <3> HIDE DEF Group
    <3> QED BY <1>3, AppendSet
  <2> HIDE DEF V, Mine, Group
  <2> QED BY <1>1, <2>1 DEF Grouping!Closed
<1>5. <<>> \in V /\ <<>> \in Seq(L)
  OBVIOUS
<1>6. <<>> \in S
  <2>1. F(<<>>) = <<>>
    BY Grouping!FoldEmpty
  <2>2. Ok(<<>>, <<>>)
    BY EmptyList DEF Shares, Separate
  <2> QED BY <1>5, <2>1, <2>2
<1> HIDE DEF V
<1>7. ASSUME NEW x \in Seq(L), NEW l \in L, x \in S PROVE Append(x, l) \in S
  <2>1. PICK gs \in V : gs = F(x)
    BY <1>7
  <2>2. PICK y \in Seq(L) : y = Append(x, l)
    BY AppendSet
  <2>3. ToSet(y) = ToSet(x) \cup {l}
    BY <2>2, AppendSet
  <2>4. F(y) = AddGroup(<<signals, links, changes>>, gs, l)
    <3>1. F(Append(x, l)) = AddGroup(<<signals, links, changes>>, F(x), l)
      BY <1>4, <1>5, Grouping!FoldAppend
    <3> QED BY <2>1, <2>2, <3>1
  <2>5. Shares(gs, signals, links, changes, ToSet(y))
    <3>1. Shares(gs, signals, links, changes, ToSet(x))
      BY <1>7, <2>1
    <3> QED BY <2>3, <3>1 DEF Shares, GroupFor
  <2>6. CASE Mine(gs, l) = <<>>
    <3>1. F(y) = gs
      BY <1>1, <2>4, <2>6
    <3> QED BY <2>2, <2>5, <3>1
  <2>7. CASE Mine(gs, l) # <<>>
    <3>1. PICK g \in E : g = Group(gs, l)
      BY <1>3
    <3>2. PICK m \in Seq(Signal) : m = Mine(gs, l)
      BY <1>2
    <3>3. /\ OnceEach(m)
          /\ \A s \in ToSet(m) : s \in ToSet(signals) /\ ServiceOf(s) \in l /\ s \notin Taken(gs)
      <4>1. OnceEach(m)
        BY <3>2, SelectedList
      <4>2. ToSet(m) = ToSet(signals) \cap {s \in ToSet(signals) : ServiceOf(s) \in l /\ s \notin Taken(gs)}
        BY <3>2, SelectedList
      <4> QED BY <4>1, <4>2
    <3>4. g = MakeGroup(l, m, links, changes)
      BY <3>1, <3>2
    <3>5. GroupFor(g, signals, links, changes, ToSet(y))
      <4>1. m \in Seq(Signal) \ {<<>>} /\ l \in ToSet(y)
        BY <2>3, <2>7, <3>2
      <4> QED BY <3>3, <3>4, <4>1, MakeGroupFor
    <3>6. g.signals = m
      BY <3>4, MakeGroupFields
    <3>7. ToSet(g.signals) \cap Taken(gs) = {}
      BY <3>3, <3>6
    <3>8. PICK hs \in Seq(E) : hs = Append(gs, g)
      BY AppendSet DEF V
    <3>9. Shares(hs, signals, links, changes, ToSet(y))
      BY <2>5, <3>5, <3>7, <3>8, SharesMore DEF V
    <3>10. F(y) = hs
      BY <1>1, <2>4, <2>7, <3>1, <3>8
    <3> QED BY <2>2, <3>9, <3>10 DEF V
  <2> QED BY <2>6, <2>7
<1> HIDE DEF S
<1>8. Seq(L) \subseteq S
  BY <1>6, <1>7, Grouping!SeqInduction
<1>9. links \in S
  BY <1>8
<1>10. LinkedGroups(signals, links, changes) = F(links)
  BY GroupsIsFold
<1> QED BY <1>9, <1>10 DEF S, V

\* The second pass of AssembleGroups.
Singles(alone, links, changes) ==
  [i \in DOMAIN alone |-> MakeGroup({ServiceOf(alone[i])}, <<alone[i]>>, links, changes)]

\* The groups that the signals left over make.
LEMMA AloneShare ==
  ASSUME NEW alone \in Seq(Signal), OnceEach(alone), NEW signals, NEW links, NEW changes,
         ToSet(alone) \subseteq ToSet(signals)
  PROVE  /\ \E E : Singles(alone, links, changes) \in Seq(E)
         /\ Shares(Singles(alone, links, changes), signals, links, changes,
                   {{ServiceOf(s)} : s \in Signal})
         /\ Taken(Singles(alone, links, changes)) = ToSet(alone)
<1> DEFINE G(s) == MakeGroup({ServiceOf(s)}, <<s>>, links, changes)
           made == {{ServiceOf(s)} : s \in Signal}
           n == Len(alone)
           E == {G(s) : s \in Signal}
<1>1. n \in Nat /\ DOMAIN alone = 1..n /\ ToSet(alone) = {alone[i] : i \in 1..n}
      /\ \A i \in 1..n : alone[i] \in Signal
  BY ListSet, ElementOfSeq
<1>2. ASSUME NEW s \in Signal
      PROVE  <<s>> \in Seq(Signal) \ {<<>>} /\ OnceEach(<<s>>) /\ ToSet(<<s>>) = {s}
  BY DEF OnceEach, ToSet
<1>3. ASSUME NEW s \in Signal
      PROVE  G(s).signals = <<s>> /\ ToSet(G(s).signals) = {s}
  BY <1>2, MakeGroupFields
<1>4. ASSUME NEW s \in ToSet(alone)
      PROVE  GroupFor(G(s), signals, links, changes, made)
  <2>1. s \in Signal /\ s \in ToSet(signals)
    BY <1>1
  <2>2. {ServiceOf(s)} \in made
    BY <2>1
  <2> HIDE DEF made
  <2>3. PICK x \in Seq(Signal) \ {<<>>} : x = <<s>> /\ OnceEach(x) /\ ToSet(x) = {s}
    BY <1>2, <2>1
  <2>4. \A t \in ToSet(x) : t \in ToSet(signals) /\ ServiceOf(t) \in {ServiceOf(s)}
    BY <2>1, <2>3
  <2> QED BY <2>2, <2>3, <2>4, MakeGroupFor
<1>5. Singles(alone, links, changes) = [i \in 1..n |-> G(alone[i])]
  BY <1>1 DEF Singles
<1>6. PICK gs : gs = [i \in 1..n |-> G(alone[i])]
  OBVIOUS
<1>7. gs \in Seq(E) /\ Len(gs) = n /\ \A i \in 1..n : gs[i] = G(alone[i])
  <2>1. gs \in [1..n -> E]
    BY <1>1, <1>6
  <2> HIDE DEF E, G
  <2>2. gs \in Seq(E) /\ Len(gs) = n
    BY <1>1, <2>1, FunctionList
  <2> QED BY <1>6, <2>2
<1> HIDE DEF G, E
<1>8. ToSet(gs) = {G(s) : s \in ToSet(alone)}
  <2>1. ToSet(gs) = {gs[i] : i \in 1..n}
    BY <1>7, ListSet
  <2> QED BY <1>1, <1>7, <2>1
<1>9. \A s, t \in Signal : G(s) = G(t) => s = t
  <2> SUFFICES ASSUME NEW s \in Signal, NEW t \in Signal, G(s) = G(t) PROVE s = t
    OBVIOUS
  <2>1. {s} = {t}
    BY <1>3
  <2> QED BY <2>1
<1>10. OnceEach(gs)
  <2>1. ASSUME NEW i \in 1..n, NEW j \in 1..n, gs[i] = gs[j] PROVE i = j
    <3>1. alone[i] = alone[j]
      BY <1>1, <1>7, <1>9, <2>1
    <3> QED BY <3>1 DEF OnceEach
  <2> QED BY <1>7, <2>1 DEF OnceEach
<1>11. \A s \in ToSet(alone) : s \in Signal
  BY <1>1
<1>12. Separate(gs)
  <2> SUFFICES ASSUME NEW s \in ToSet(alone), NEW t \in ToSet(alone), G(s) # G(t)
               PROVE  ToSet(G(s).signals) \cap ToSet(G(t).signals) = {}
    BY <1>8 DEF Separate
  <2>1. s # t
    OBVIOUS
  <2> QED BY <1>3, <1>11, <2>1
<1>13. Taken(gs) = ToSet(alone)
  <2>1. \A s \in ToSet(alone) : ToSet(G(s).signals) = {s} /\ G(s) \in ToSet(gs)
    BY <1>3, <1>8, <1>11
  <2>2. \A g \in ToSet(gs) : \E s \in ToSet(alone) : ToSet(g.signals) = {s}
    BY <1>8, <2>1
  <2>3. ToSet(alone) \subseteq Taken(gs)
    BY <2>1 DEF Taken
  <2>4. Taken(gs) \subseteq ToSet(alone)
    BY <2>2 DEF Taken
  <2> QED BY <2>3, <2>4
<1>14. \A g \in ToSet(gs) : GroupFor(g, signals, links, changes, made)
  <2> HIDE DEF made
  <2> QED BY <1>4, <1>8
<1>15. Shares(gs, signals, links, changes, made)
  BY <1>10, <1>12, <1>14 DEF Shares
<1> QED BY <1>5, <1>6, <1>7, <1>13, <1>15

\* The groups of the two passes, joined and sorted.
Assembled(gs, signals, links, changes) ==
  /\ \E E : gs \in Seq(E)
  /\ Shares(gs, signals, links, changes, ToSet(links) \cup {{ServiceOf(s)} : s \in Signal})
  /\ Taken(gs) = ToSet(signals)

\* The priorities are P0 to P3.
LEMMA PriorityRange ==
  ASSUME NEW peak, NEW services, NEW links
  PROVE  ComputePriority(peak, services, links) \in 0..3
BY DEF ComputePriority

\* AssembleGroups gives every signal to one group.
LEMMA AssembleGroupsShares ==
  ASSUME NEW signals \in Seq(Signal), OnceEach(signals), NEW changes, NEW L, NEW links \in Seq(L)
  PROVE  Assembled(AssembleGroups(signals, links, changes), signals, links, changes)
<1> DEFINE linked == LinkedGroups(signals, links, changes)
           alone  == Selected(signals, ToSet(signals) \ Taken(linked))
           singles == Singles(alone, links, changes)
           all    == linked \o singles
           own    == {{ServiceOf(s)} : s \in Signal}
           made   == ToSet(links) \cup own
           At(k)  == {g \in ToSet(all) : 11 * g.priority + 10 - PeakOf(g.signals) = k - 1}
           final  == FlattenSeq([k \in 1..44 |-> Selected(all, At(k))])
<1>1. AssembleGroups(signals, links, changes) = final
  BY Zenon DEF AssembleGroups, Taken, Singles
<1> HIDE DEF linked, own
<1>2. PICK E1 : linked \in Seq(E1)
  BY LinkedGroupsShare DEF linked
<1>3. Shares(linked, signals, links, changes, ToSet(links))
  BY LinkedGroupsShare DEF linked
<1>4. /\ alone \in Seq(Signal) /\ OnceEach(alone)
      /\ ToSet(alone) = ToSet(signals) \ Taken(linked)
  <2>1. ToSet(alone) = ToSet(signals) \cap (ToSet(signals) \ Taken(linked))
    BY SelectedList
  <2> QED BY <2>1, SelectedList
<1> HIDE DEF alone
<1>5. /\ \E E : singles \in Seq(E)
      /\ Shares(singles, signals, links, changes, own) /\ Taken(singles) = ToSet(alone)
  BY <1>4, AloneShare DEF own
<1> HIDE DEF singles
<1>6. PICK E2 : singles \in Seq(E2)
  BY <1>5
<1> DEFINE E == E1 \cup E2
<1>7. linked \in Seq(E) /\ singles \in Seq(E)
  BY <1>2, <1>6, SeqMonotonic
<1>8. Taken(linked) \subseteq ToSet(signals)
  BY <1>3 DEF Shares, GroupFor, Taken
<1>9. \A g \in ToSet(linked), h \in ToSet(singles) : ToSet(g.signals) \cap ToSet(h.signals) = {}
  <2> TAKE g \in ToSet(linked), h \in ToSet(singles)
  <2>1. ToSet(g.signals) \subseteq Taken(linked)
    BY DEF Taken
  <2>2. ToSet(h.signals) \subseteq Taken(singles)
    BY DEF Taken
  <2> QED BY <1>4, <1>5, <2>1, <2>2
<1>10. ToSet(linked) \cap ToSet(singles) = {}
  <2> SUFFICES ASSUME NEW g \in ToSet(linked), g \in ToSet(singles) PROVE FALSE
    OBVIOUS
  <2>1. Head(g.signals) \in ToSet(g.signals)
    BY <1>3, HeadIn DEF Shares, GroupFor
  <2> QED BY <1>9, <2>1
<1> HIDE DEF E
<1>11. all \in Seq(E) /\ OnceEach(all) /\ ToSet(all) = ToSet(linked) \cup ToSet(singles)
  <2>1. OnceEach(linked) /\ OnceEach(singles)
    BY <1>3, <1>5 DEF Shares
  <2> QED BY <1>7, <1>10, <2>1, ConcatSet
<1> HIDE DEF all
<1>12. \A g \in ToSet(all) : GroupFor(g, signals, links, changes, made)
  <2>1. \A g \in ToSet(linked) : GroupFor(g, signals, links, changes, made)
    BY <1>3 DEF Shares, GroupFor
  <2>2. \A g \in ToSet(singles) : GroupFor(g, signals, links, changes, made)
    BY <1>5 DEF Shares, GroupFor
  <2> QED BY <1>11, <2>1, <2>2
<1> HIDE DEF made
<1>13. Separate(all)
  BY <1>3, <1>5, <1>9, <1>11 DEF Shares, Separate
<1>14. Taken(all) = ToSet(signals)
  <2>1. Taken(all) = Taken(linked) \cup Taken(singles)
    BY <1>11 DEF Taken
  <2> QED BY <1>4, <1>5, <1>8, <2>1
<1>15. ASSUME NEW g \in ToSet(all)
       PROVE  \E k \in 1..44 : g \in At(k)
  <2>1. PICK l : g = MakeGroup(l, g.signals, links, changes)
    BY <1>12 DEF GroupFor
  <2>2. g.priority \in 0..3
    BY <2>1, MakeGroupFields, PriorityRange
  <2>3. PeakOf(g.signals) \in 0..10
    BY <1>12, PeakOfRange DEF GroupFor
  <2>4. PICK p \in 0..3, q \in 0..10 : p = g.priority /\ q = PeakOf(g.signals)
    BY <2>2, <2>3
  <2>5. PICK k \in 1..44 : 11 * p + 10 - q = k - 1
    <3>1. 11 * p + 10 - q + 1 \in 1..44 /\ 11 * p + 10 - q = (11 * p + 10 - q + 1) - 1
      OBVIOUS
    <3> QED BY <3>1
  <2> QED BY <2>4, <2>5
<1> DEFINE gg == [k \in 1..44 |-> Selected(all, At(k))]
<1>16. \A k \in 1..44 : /\ Selected(all, At(k)) \in Seq(E) /\ OnceEach(Selected(all, At(k)))
                        /\ ToSet(Selected(all, At(k))) = ToSet(all) \cap At(k)
  <2> HIDE DEF At
  <2> QED BY <1>11, SelectedList
<1>17. \A k, j, g : g \in At(k) /\ g \in At(j) /\ k \in 1..44 /\ j \in 1..44 => k = j
  OBVIOUS
<1> HIDE DEF At
<1>18. gg \in Seq(Seq(E)) /\ Len(gg) = 44 /\ \A k \in 1..44 : gg[k] = Selected(all, At(k))
  <2> DEFINE F == Seq(E)
  <2>1. gg \in [1..44 -> F] /\ \A k \in 1..44 : gg[k] = Selected(all, At(k))
    BY <1>16
  <2> DEFINE n == 44
  <2>2. n \in Nat /\ gg \in [1..n -> F]
    BY <2>1
  <2> HIDE DEF gg, F, n
  <2>3. gg \in Seq(F) /\ Len(gg) = n
    BY <2>2, FunctionList
  <2> QED BY <2>1, <2>3 DEF F, n
<1> HIDE DEF gg
<1>19. Apart(gg) /\ \A k \in 1..Len(gg) : OnceEach(gg[k])
  BY <1>16, <1>17, <1>18 DEF Apart
<1>20. PICK gs \in Seq(E) : gs = FlattenSeq(gg)
  BY <1>18, FlattenList
<1>21. OnceEach(gs)
  BY <1>18, <1>19, <1>20, FlattenList
<1>22. ToSet(gs) = ToSet(all)
  <2>1. ToSet(gs) = Contents(gg)
    BY <1>18, <1>20, FlattenList
  <2>2. ToSet(gg) = {gg[k] : k \in 1..44}
    BY <1>18, ListSet
  <2>3. Contents(gg) = UNION {ToSet(gg[k]) : k \in 1..44}
    BY <2>2 DEF Contents
  <2>4. \A k \in 1..44 : ToSet(gg[k]) = ToSet(all) \cap At(k)
    BY <1>16, <1>18
  <2>5. Contents(gg) = UNION {ToSet(all) \cap At(k) : k \in 1..44}
    BY <2>3, <2>4
  <2>6. UNION {ToSet(all) \cap At(k) : k \in 1..44} = ToSet(all)
    BY <1>15
  <2> QED BY <2>1, <2>5, <2>6
<1>23. Assembled(gs, signals, links, changes)
  <2>1. Separate(gs) /\ Taken(gs) = Taken(all)
    BY <1>13, <1>22 DEF Separate, Taken
  <2>2. \A g \in ToSet(gs) : GroupFor(g, signals, links, changes, made)
    BY <1>12, <1>22
  <2>3. \E F : gs \in Seq(F)
    BY <1>20
  <2> QED BY <1>14, <1>21, <2>1, <2>2, <2>3 DEF Assembled, Shares, made, own
<1> QED BY <1>1, <1>20, <1>23 DEF gg
-----------------------------------------------------------------------------
(* What a report is made of                                                   *)

\* The report's groups are those that the pipeline makes of the events it was given.
Made(gs, rows, events, window, lookBack) ==
  LET kept    == Deduplicate(events)
      signals == GroupTemporal(kept, window)
      links   == GroupTopology(signals)
      changes == FindChangeCandidates(rows, signals, lookBack)
  IN  /\ kept \in Seq(Rows) /\ KeptOf(kept, events)
      /\ signals \in Seq(Signal) /\ SignalsOf(signals, kept, window)
      /\ Assembled(gs, signals, links, changes)

\* Every stage does what it should.
LEMMA CorrelateEventsMakes ==
  ASSUME NEW rows, NEW events \in Seq(Rows), NEW window, NEW lookBack
  PROVE  Made(CorrelateEvents(rows, events, window, lookBack), rows, events, window, lookBack)
<1> DEFINE kept    == Deduplicate(events)
           signals == GroupTemporal(kept, window)
           links   == GroupTopology(signals)
           changes == FindChangeCandidates(rows, signals, lookBack)
<1>1. kept \in Seq(Rows) /\ KeptOf(kept, events)
  BY DeduplicateKeeps
<1> HIDE DEF kept
<1>2. signals \in Seq(Signal) /\ SignalsOf(signals, kept, window)
  BY <1>1, GroupTemporalSignals DEF KeptOf
<1> HIDE DEF signals
<1>3. PICK L : links \in Seq(L)
  BY <1>2, LinksAreList
<1> HIDE DEF links, changes
<1>4. Assembled(AssembleGroups(signals, links, changes), signals, links, changes)
  BY <1>2, <1>3, AssembleGroupsShares DEF SignalsOf
<1>5. CorrelateEvents(rows, events, window, lookBack) = AssembleGroups(signals, links, changes)
  BY Zenon DEF CorrelateEvents, changes, links, signals, kept
<1> QED BY <1>1, <1>2, <1>4, <1>5, Zenon DEF Made, changes, links, signals, kept

\* The events of a report are within the window it groups by, as their timestamps compare.
Gathered(events, window) ==
  \E start, end \in Int : end - start <= window /\ \A e \in ToSet(events) : e.stamp \in start..end

\* Before the first report there is nothing; then there is what the pipeline makes.
Reported ==
  \/ seen = <<>> /\ groups = <<>>
  \/ /\ seen \in Seq(Rows) /\ base \subseteq Rows /\ back \in Int
     /\ \E window \in Int : Gathered(seen, window) /\ Made(groups, base, seen, window, back)

\* The inductive invariant.
RInv == stored \subseteq Events /\ IsFiniteSet(stored) /\ Reported

\* What Report leaves.
LEMMA ReportMakes ==
  ASSUME NEW rows \in SUBSET Rows, IsFiniteSet(rows), NEW start \in Int, NEW end \in Int,
         NEW window \in Int, NEW lookBack \in Int, end - start <= window,
         Report(rows, start, end, window, lookBack)
  PROVE  Reported' /\ stored' = stored
<1> DEFINE inside == {e \in rows : e.stamp \in start..end}
<1>1. PICK events \in TimeWindow(rows, start, end) :
        seen' = events /\ groups' = CorrelateEvents(rows, events, window, lookBack)
  BY DEF Report
<1>2. base' = rows /\ back' = lookBack /\ stored' = stored
  BY DEF Report
<1>3. events \in [1..Cardinality(inside) -> inside]
  BY <1>1 DEF TimeWindow, SetToSeqs
<1>4. Cardinality(inside) \in Nat
  BY FS_Subset, FS_CardinalityType
<1>5. events \in Seq(Rows) /\ \A e \in ToSet(events) : e.stamp \in start..end
  <2>1. inside \subseteq Rows /\ \A e \in inside : e.stamp \in start..end
    OBVIOUS
  <2> HIDE DEF inside
  <2>2. events \in Seq(inside)
    BY <1>3, <1>4, FunctionList
  <2>3. ToSet(events) \subseteq inside
    BY <2>2, ListSet
  <2> QED BY <2>1, <2>2, <2>3, SeqMonotonic
<1>6. Gathered(events, window)
  BY <1>5 DEF Gathered
<1>7. Made(groups', rows, events, window, lookBack)
  BY <1>1, <1>5, CorrelateEventsMakes
<1> QED BY <1>1, <1>2, <1>5, <1>6, <1>7 DEF Reported

\* A finite set of numbers has a largest one, and so a smallest.
LEMMA MaxOfFinite ==
  ASSUME NEW S \in SUBSET Int, IsFiniteSet(S), S # {}
  PROVE  MaxOf(S) \in S /\ \A n \in S : n <= MaxOf(S)
<1>1. PICK s \in Seq(S) : \A n \in S : \E i \in 1..Len(s) : s[i] = n
  BY DEF IsFiniteSet
<1>2. ToSet(s) = S /\ s # <<>>
  <2>1. ToSet(s) \subseteq S /\ ToSet(s) = {s[i] : i \in 1..Len(s)}
    BY ListSet
  <2>2. S \subseteq ToSet(s)
    BY <1>1, <2>1
  <2>3. s # <<>>
    BY <2>1, <2>2, EmptyList
  <2> QED BY <2>1, <2>2, <2>3
<1> DEFINE v == [n \in S |-> n]
<1>3. v \in [S -> Int] /\ \A n \in S : v[n] = n
  OBVIOUS
<1>4. \E n \in Keeping!ToSet(s) : \A m \in Keeping!ToSet(s) : v[m] <= v[n]
  <2> HIDE DEF v
  <2> QED BY <1>2, <1>3, Keeping!LargestValue
<1>5. PICK n \in S : \A m \in S : m <= n
  BY <1>2, <1>3, <1>4, SameToSet
<1>6. MaxOf(S) = n
  BY <1>5, MaxOfIs
<1> QED BY <1>5, <1>6

\* A finite set has a finite image.
LEMMA ImageFinite ==
  ASSUME NEW S, IsFiniteSet(S), NEW E, NEW f \in [S -> E]
  PROVE  IsFiniteSet({f[x] : x \in S})
<1> DEFINE T == {f[x] : x \in S}
<1>1. PICK s \in Seq(S) : \A x \in S : \E i \in 1..Len(s) : s[i] = x
  BY DEF IsFiniteSet
<1> DEFINE n == Len(s)
           t == [i \in 1..n |-> f[s[i]]]
<1>2. n \in Nat /\ \A i \in 1..n : s[i] \in S
  BY LenProperties
<1>3. t \in [1..n -> T] /\ \A y \in T : \E i \in 1..n : t[i] = y
  BY <1>1, <1>2
<1> HIDE DEF t, T, n
<1>4. t \in Seq(T) /\ Len(t) = n
  BY <1>2, <1>3, FunctionList
<1>5. IsFiniteSet(T)
  BY <1>3, <1>4 DEF IsFiniteSet
<1> QED BY <1>5 DEF T

\* The smallest of a finite set of numbers.
LEMMA LeastIs ==
  ASSUME NEW S \in SUBSET Int, IsFiniteSet(S), S # {}
  PROVE  (CHOOSE t \in S : \A u \in S : t <= u) \in S
<1> DEFINE f == [n \in S |-> 0 - n]
           N == {f[n] : n \in S}
<1>1. f \in [S -> Int] /\ \A n \in S : f[n] = 0 - n
  OBVIOUS
<1>2. N \subseteq Int /\ N # {} /\ \A m \in N : \E n \in S : m = 0 - n
  BY <1>1
<1>3. \A n \in S : 0 - n \in N
  OBVIOUS
<1>4. IsFiniteSet(N)
  <2> HIDE DEF f
  <2> QED BY <1>1, ImageFinite
<1> HIDE DEF N
<1>5. PICK m \in N : \A k \in N : k <= m
  BY <1>2, <1>4, MaxOfFinite
<1>6. PICK n \in S : m = 0 - n
  BY <1>2
<1>7. \A u \in S : n <= u
  BY <1>3, <1>5, <1>6
<1> QED BY <1>7

\* RInv holds of the empty store.
LEMMA RInvInit == Init => RInv
BY FS_EmptySet DEF Init, RInv, Reported

\* A new row leaves the last report alone.
LEMMA InsertKeeps ==
  ASSUME RInv, NEW e \in Events, Insert(e)
  PROVE  RInv'
<1>1. stored' = stored \cup {e} /\ seen' = seen /\ groups' = groups /\ base' = base /\ back' = back
  BY DEF Insert
<1>2. IsFiniteSet(stored')
  BY <1>1, FS_AddElement DEF RInv
<1>3. Reported'
  BY <1>1 DEF RInv, Reported
<1> QED BY <1>1, <1>2, <1>3 DEF RInv

\* The engine's window is the query's.
LEMMA CorrelateKeeps ==
  ASSUME RInv, NEW e \in Events, Correlate(e.stamp)
  PROVE  RInv'
<1>1. /\ stored \subseteq Rows /\ IsFiniteSet(stored)
      /\ Window \in Int /\ LookBack \in Int /\ e.stamp \in Int
  BY WindowAssumption, EventsAssumption DEF RInv, Rows
<1>2. Report(stored, e.stamp - Window, e.stamp, Window, LookBack)
  BY DEF Correlate
<1>3. e.stamp - Window \in Int /\ e.stamp - (e.stamp - Window) <= Window
  BY <1>1
<1>4. Reported' /\ stored' = stored
  BY <1>1, <1>2, <1>3, ReportMakes
<1> QED BY <1>4 DEF RInv

\* The scenario's window spans its events.
LEMMA ReplayKeeps ==
  ASSUME RInv, Replay
  PROVE  RInv'
<1> DEFINE times  == {e.stamp : e \in stored}
           start  == CHOOSE t \in times : \A u \in times : t <= u
           window == MaxOf({MaxOf(times) - start + 1, 5})
<1>1. stored \subseteq Events /\ IsFiniteSet(stored) /\ stored # {}
  BY DEF RInv, Replay
<1>2. times \subseteq Int /\ times # {} /\ IsFiniteSet(times)
  <2> DEFINE f == [e \in stored |-> e.stamp]
  <2>1. {f[e] : e \in stored} = times
    OBVIOUS
  <2>2. IsFiniteSet({f[e] : e \in stored})
    <3>1. f \in [stored -> Int]
      BY <1>1, EventsAssumption
    <3> HIDE DEF f, times
    <3> QED BY <1>1, <3>1, ImageFinite
  <2>3. times \subseteq Int /\ times # {}
    BY <1>1, EventsAssumption
  <2> QED BY <2>1, <2>2, <2>3
<1>3. Scenario \subseteq Rows /\ IsFiniteSet(Scenario)
  <2> DEFINE f == [e \in stored |-> [e EXCEPT !.severity = 5]]
  <2>1. f \in [stored -> Rows] /\ {f[e] : e \in stored} = Scenario
    BY <1>1 DEF Rows, Scenario
  <2>2. Scenario \subseteq Rows
    BY <1>1 DEF Rows, Scenario
  <2> HIDE DEF f
  <2>3. IsFiniteSet({f[e] : e \in stored})
    BY <1>1, <2>1, ImageFinite
  <2> QED BY <2>1, <2>2, <2>3
<1>4. Report(Scenario, start, MaxOf(times) + 1, window, window + 30)
  BY DEF Replay
<1> HIDE DEF times
<1>5. MaxOf(times) \in Int /\ start \in Int
  BY <1>2, MaxOfFinite, LeastIs
<1> HIDE DEF start
<1>6. PICK a \in Int : a = MaxOf(times)
  BY <1>5
<1>7. window \in Int /\ a - start + 1 <= window
  <2> DEFINE b == a - start + 1
             S == {b, 5}
  <2>1. b \in Int /\ S \subseteq Int /\ 5 \in S /\ b \in S
    BY <1>5
  <2>2. window = MaxOf(S)
    BY <1>6
  <2>3. CASE b <= 5
    <3>1. \A n \in S : n <= 5
      BY <2>1, <2>3
    <3> HIDE DEF b, S, window
    <3>2. MaxOf(S) = 5
      BY <2>1, <3>1, MaxOfIs
    <3> QED BY <2>2, <2>3, <3>2 DEF b
  <2>4. CASE ~ (b <= 5)
    <3>1. \A n \in S : n <= b
      BY <2>1, <2>4
    <3> HIDE DEF b, S, window
    <3>2. MaxOf(S) = b
      BY <2>1, <3>1, MaxOfIs
    <3> QED BY <2>1, <2>2, <3>2 DEF b
  <2> QED BY <2>3, <2>4
<1> HIDE DEF window
<1>8. /\ MaxOf(times) + 1 \in Int /\ (MaxOf(times) + 1) - start <= window
      /\ window \in Int /\ window + 30 \in Int
  BY <1>5, <1>6, <1>7
<1>9. Reported' /\ stored' = stored
  BY <1>3, <1>4, <1>5, <1>8, ReportMakes
<1> QED BY <1>1, <1>9 DEF RInv

\* RInv holds of every state.
THEOREM ReportSafety == Spec => []RInv
<1>1. RInv /\ [Next]_vars => RInv'
  <2> SUFFICES ASSUME RInv, [Next]_vars PROVE RInv'
    OBVIOUS
  <2>1. CASE UNCHANGED vars
    BY <2>1 DEF vars, RInv, Reported
  <2>2. ASSUME NEW e \in Events, Insert(e) PROVE RInv'
    BY <2>2, InsertKeeps
  <2>3. ASSUME NEW e \in Events, Correlate(e.stamp) PROVE RInv'
    BY <2>3, CorrelateKeeps
  <2>4. CASE Replay
    BY <2>4, ReplayKeeps
  <2> QED BY <2>1, <2>2, <2>3, <2>4 DEF Next
<1> QED BY RInvInit, <1>1, PTL DEF Spec
-----------------------------------------------------------------------------
(* The properties of a report                                                 *)

\* A P0 group of a link has a critical service in it, so what shares a service with it
\* is linked to a critical service.
LEMMA LinkedToP0 ==
  ASSUME RInv
  PROVE  LinkedToP0IsUrgent
<1> SUFFICES ASSUME NEW g \in ToSet(groups), NEW h \in ToSet(groups),
                    g.priority = 0, Cardinality(g.services) = 2, g.services \cap h.services # {}
             PROVE  h.priority <= 1
  BY DEF LinkedToP0IsUrgent
<1>1. PICK window \in Int : Made(groups, base, seen, window, back)
  BY EmptyList DEF RInv, Reported
<1> DEFINE signals == GroupTemporal(Deduplicate(seen), window)
           links == GroupTopology(signals)
           changes == FindChangeCandidates(base, signals, back)
           own == {{ServiceOf(s)} : s \in Signal}
<1>2. signals \in Seq(Signal) /\ Assembled(groups, signals, links, changes)
  BY <1>1 DEF Made
<1> HIDE DEF signals, own
<1>3. PICK L : links \in Seq(L)
  BY <1>2, LinksAreList
<1>4. DOMAIN links = 1..Len(links) /\ ToSet(links) = {links[i] : i \in 1..Len(links)}
  BY <1>3, ListSet
<1> HIDE DEF links, changes
<1>5. \A f \in ToSet(groups) : \E l \in ToSet(links) \cup own : f = MakeGroup(l, f.signals, links, changes)
  BY <1>2 DEF Assembled, Shares, GroupFor, own
<1>6. \A f \in ToSet(groups) : /\ f.services \in ToSet(links) \cup own
                               /\ f.priority = ComputePriority(PeakOf(f.signals), f.services, links)
  BY <1>5, MakeGroupFields
<1>7. g.services \in ToSet(links)
  <2>1. \A l \in own : Cardinality(l) = 1
    BY FS_Singleton DEF own
  <2> QED BY <1>6, <2>1
<1>8. PICK i \in DOMAIN links : links[i] = g.services
  BY <1>4, <1>7
<1>9. \E s \in g.services : Critical(s)
  BY <1>6 DEF ComputePriority
<1>10. links[i] \cap h.services # {} /\ \E s \in links[i] : Critical(s)
  BY <1>8, <1>9
<1> QED BY <1>6, <1>10 DEF ComputePriority

\* Every reachable report ranks what is linked to a P0 group as P1 at least.
THEOREM LinkedSafety == Spec => []LinkedToP0IsUrgent
<1>1. RInv => LinkedToP0IsUrgent
  BY LinkedToP0
<1> QED BY ReportSafety, <1>1, PTL

\* The signals and events of a report by their place.
SignalAt(i, j) == groups[i].signals[j]
EventAt(i, j, k) == SignalAt(i, j)[k]
IsPlace(i, j) == i \in DOMAIN groups /\ j \in DOMAIN groups[i].signals
IsEventPlace(i, j, k) == IsPlace(i, j) /\ k \in DOMAIN SignalAt(i, j)

\* The element at an index is in the list.
LEMMA AtIndex == \A s : \A i \in DOMAIN s : s[i] \in ToSet(s)
BY DEF ToSet

\* What a report has at its places.
LEMMA PlaceFacts ==
  ASSUME NEW window, Made(groups, base, seen, window, back)
  PROVE  /\ \A i, j : IsPlace(i, j) =>
              /\ SignalAt(i, j) \in ToSet(GroupTemporal(Deduplicate(seen), window))
              /\ SignalAt(i, j) \in Signal
         /\ \A i, j, m, n : IsPlace(i, j) /\ IsPlace(m, n) /\ SignalAt(i, j) = SignalAt(m, n)
                              => i = m /\ j = n
         /\ \A x \in ToSet(GroupTemporal(Deduplicate(seen), window)) :
              \E i, j : IsPlace(i, j) /\ SignalAt(i, j) = x
<1> DEFINE signals == GroupTemporal(Deduplicate(seen), window)
           links == GroupTopology(signals)
           changes == FindChangeCandidates(base, signals, back)
           made == ToSet(links) \cup {{ServiceOf(s)} : s \in Signal}
<1>1. signals \in Seq(Signal) /\ Assembled(groups, signals, links, changes)
  BY DEF Made
<1> HIDE DEF signals, links, changes
<1>2. PICK E : groups \in Seq(E)
  BY <1>1 DEF Assembled
<1>3. /\ OnceEach(groups) /\ Separate(groups) /\ Taken(groups) = ToSet(signals)
      /\ \A g \in ToSet(groups) : GroupFor(g, signals, links, changes, made)
  BY <1>1 DEF Assembled, Shares
<1> HIDE DEF made
<1>4. DOMAIN groups = 1..Len(groups) /\ ToSet(groups) = {groups[i] : i \in 1..Len(groups)}
  BY <1>2, ListSet
<1>5. ASSUME NEW i \in DOMAIN groups
      PROVE  /\ groups[i] \in ToSet(groups) /\ groups[i].signals \in Seq(Signal)
             /\ OnceEach(groups[i].signals) /\ DOMAIN groups[i].signals = 1..Len(groups[i].signals)
             /\ ToSet(groups[i].signals) = {groups[i].signals[j] : j \in DOMAIN groups[i].signals}
             /\ ToSet(groups[i].signals) \subseteq ToSet(signals)
  <2>1. groups[i] \in ToSet(groups)
    BY AtIndex
  <2>2. /\ groups[i].signals \in Seq(Signal) /\ OnceEach(groups[i].signals)
        /\ ToSet(groups[i].signals) \subseteq ToSet(signals)
    BY <1>3, <2>1 DEF GroupFor
  <2> QED BY <2>1, <2>2, ListSet
<1>6. ASSUME NEW i, NEW j, IsPlace(i, j)
      PROVE  /\ SignalAt(i, j) \in ToSet(groups[i].signals)
             /\ SignalAt(i, j) \in ToSet(signals) /\ SignalAt(i, j) \in Signal
  <2>1. ToSet(signals) \subseteq Signal
    BY <1>1, ListSet
  <2> QED BY <1>5, <1>6, <2>1, AtIndex DEF IsPlace, SignalAt
<1>7. ASSUME NEW i, NEW j, NEW m, NEW n, IsPlace(i, j), IsPlace(m, n), SignalAt(i, j) = SignalAt(m, n)
      PROVE  i = m /\ j = n
  <2>1. i \in 1..Len(groups) /\ m \in 1..Len(groups)
    BY <1>4, <1>7 DEF IsPlace
  <2>2. groups[i] = groups[m]
    BY <1>3, <1>5, <1>6, <1>7 DEF IsPlace, Separate
  <2>3. i = m
    BY <1>3, <2>1, <2>2 DEF OnceEach
  <2>4. j \in 1..Len(groups[i].signals) /\ n \in 1..Len(groups[i].signals)
    BY <1>5, <1>7, <2>3 DEF IsPlace
  <2>5. OnceEach(groups[i].signals) /\ groups[i].signals[j] = groups[i].signals[n]
    BY <1>5, <1>7, <2>3 DEF IsPlace, SignalAt
  <2>6. j = n
    BY <2>4, <2>5 DEF OnceEach
  <2> QED BY <2>3, <2>6
<1>8. ASSUME NEW x \in ToSet(signals)
      PROVE  \E i, j : IsPlace(i, j) /\ SignalAt(i, j) = x
  <2>1. PICK g \in ToSet(groups) : x \in ToSet(g.signals)
    BY <1>3 DEF Taken
  <2>2. PICK i \in DOMAIN groups : g = groups[i]
    BY <1>4
  <2>3. PICK j \in DOMAIN groups[i].signals : x = groups[i].signals[j]
    BY <1>5, <2>1, <2>2
  <2> QED BY <2>3 DEF IsPlace, SignalAt
<1> QED BY <1>6, <1>7, <1>8 DEF signals

\* Every event of the window is at one place, and no two keys are mixed up.
LEMMA EventHasPlace ==
  ASSUME NEW window, Made(groups, base, seen, window, back), NEW e \in ToSet(seen)
  PROVE  \E i, j, k : /\ IsEventPlace(i, j, k) /\ PlacesOf(e) = {<<i, j, k>>}
                      /\ ServiceOf(SignalAt(i, j)) = e.service
<1> DEFINE kept == Deduplicate(seen)
           signals == GroupTemporal(kept, window)
<1>1. KeptOf(kept, seen) /\ signals \in Seq(Signal) /\ SignalsOf(signals, kept, window)
  BY DEF Made
<1>2. /\ \A i, j : IsPlace(i, j) => SignalAt(i, j) \in ToSet(signals) /\ SignalAt(i, j) \in Signal
      /\ \A i, j, m, n : IsPlace(i, j) /\ IsPlace(m, n) /\ SignalAt(i, j) = SignalAt(m, n)
                           => i = m /\ j = n
      /\ \A x \in ToSet(signals) : \E i, j : IsPlace(i, j) /\ SignalAt(i, j) = x
  BY PlaceFacts
<1> HIDE DEF kept, signals
<1>3. PICK a \in ToSet(kept) : Key(a) = Key(e)
  BY <1>1 DEF KeptOf
<1>4. PICK x \in ToSet(signals) : a \in ToSet(x)
  BY <1>1 DEF SignalsOf, Contents
<1>5. PICK i, j : IsPlace(i, j) /\ SignalAt(i, j) = x
  BY <1>2, <1>4
<1>6. x \in Seq(Rows) /\ OnceEach(x)
  BY <1>1, <1>2, <1>4, <1>5 DEF SignalsOf, Signal
<1>7. DOMAIN x = 1..Len(x) /\ ToSet(x) = {x[k] : k \in 1..Len(x)}
  BY <1>6, ListSet
<1>8. PICK k \in DOMAIN x : x[k] = a
  BY <1>4, <1>7
<1>9. IsEventPlace(i, j, k) /\ Key(EventAt(i, j, k)) = Key(e)
  BY <1>3, <1>5, <1>8 DEF IsEventPlace, EventAt
<1>10. ASSUME NEW m, NEW n, NEW l, IsEventPlace(m, n, l), Key(EventAt(m, n, l)) = Key(e)
       PROVE  m = i /\ n = j /\ l = k
  <2> DEFINE b == EventAt(m, n, l)
             y == SignalAt(m, n)
  <2>1. y \in ToSet(signals) /\ b \in ToSet(y)
    BY <1>2, <1>10, AtIndex DEF IsEventPlace, EventAt
  <2>2. b \in ToSet(kept)
    BY <1>1, <2>1 DEF SignalsOf, Contents
  <2>3. a = b
    BY <1>1, <1>3, <1>10, <2>2 DEF KeptOf
  <2>4. x = y
    BY <1>1, <1>4, <2>1, <2>3 DEF SignalsOf, Disjoint
  <2>5. m = i /\ n = j
    BY <1>2, <1>5, <1>10, <2>4 DEF IsEventPlace
  <2>6. l \in 1..Len(x) /\ k \in 1..Len(x) /\ x[l] = x[k]
    BY <1>7, <1>8, <1>10, <2>3, <2>4 DEF IsEventPlace, EventAt
  <2>7. l = k
    BY <1>6, <2>6 DEF OnceEach
  <2> QED BY <2>5, <2>7
<1>11. PlacesOf(e) = {<<i, j, k>>}
  <2>1. <<i, j, k>> \in PlacesOf(e)
    BY <1>9 DEF PlacesOf, IsEventPlace, IsPlace, EventAt, SignalAt
  <2>2. ASSUME NEW p \in PlacesOf(e) PROVE p = <<i, j, k>>
    <3>1. PICK m \in DOMAIN groups : \E n \in DOMAIN groups[m].signals :
            \E l \in DOMAIN groups[m].signals[n] :
              p = <<m, n, l>> /\ Key(groups[m].signals[n][l]) = Key(e)
      BY <2>2 DEF PlacesOf
    <3>2. PICK n \in DOMAIN groups[m].signals : \E l \in DOMAIN groups[m].signals[n] :
              p = <<m, n, l>> /\ Key(groups[m].signals[n][l]) = Key(e)
      BY <3>1
    <3>3. PICK l \in DOMAIN groups[m].signals[n] :
              p = <<m, n, l>> /\ Key(groups[m].signals[n][l]) = Key(e)
      BY <3>2
    <3>4. IsEventPlace(m, n, l) /\ Key(EventAt(m, n, l)) = Key(e)
      BY <3>3 DEF IsEventPlace, IsPlace, EventAt, SignalAt
    <3> QED BY <1>10, <3>3, <3>4
  <2> QED BY <2>1, <2>2
<1>12. ServiceOf(x) = e.service
  <2>1. a.service = e.service
    BY <1>3 DEF Key
  <2> QED BY <1>1, <1>4, <2>1 DEF SignalsOf
<1> QED BY <1>5, <1>9, <1>11, <1>12

\* So every event is in the report exactly once.
THEOREM OnceSafety == Spec => []EveryEventOnce
<1>1. ASSUME RInv PROVE EveryEventOnce
  <2> SUFFICES ASSUME NEW e \in ToSet(seen) PROVE Cardinality(PlacesOf(e)) = 1
    BY DEF EveryEventOnce
  <2>1. PICK window \in Int : Made(groups, base, seen, window, back)
    BY <1>1, EmptyList DEF RInv, Reported
  <2>2. PICK p : PlacesOf(e) = {p}
    BY <2>1, EventHasPlace
  <2> QED BY <2>2, FS_Singleton
<1> QED BY ReportSafety, <1>1, PTL

\* A service that reports in UTC has no two events farther apart than the window, so it
\* has one signal.
LEMMA UtcSignal ==
  ASSUME NEW window \in Int, seen \in Seq(Rows), Gathered(seen, window),
         Made(groups, base, seen, window, back)
  PROVE  \A x, y \in ToSet(GroupTemporal(Deduplicate(seen), window)) :
           ServiceOf(x) = ServiceOf(y) /\ ReportsUtc(ServiceOf(x)) => x = y
<1> DEFINE kept == Deduplicate(seen)
           signals == GroupTemporal(kept, window)
<1>1. KeptOf(kept, seen) /\ SignalsOf(signals, kept, window)
  BY DEF Made
<1> HIDE DEF kept, signals
<1>2. PICK start \in Int, end \in Int :
        end - start <= window /\ \A e \in ToSet(seen) : e.stamp \in start..end
  BY DEF Gathered
<1>3. ASSUME NEW service, ReportsUtc(service)
      PROVE  Within(EventsOf(kept, service), window)
  <2> SUFFICES ASSUME NEW d \in EventsOf(kept, service), NEW e \in EventsOf(kept, service)
               PROVE  d.at - e.at <= window
    BY DEF Within
  <2>1. d \in ToSet(seen) /\ e \in ToSet(seen) /\ d.service = service /\ e.service = service
    BY <1>1 DEF EventsOf, KeptOf
  <2>2. d.at = d.stamp /\ e.at = e.stamp
    BY <1>3, <2>1 DEF ReportsUtc, Utc
  <2>3. d.stamp \in start..end /\ e.stamp \in start..end
    BY <1>2, <2>1
  <2> QED BY <1>2, <2>2, <2>3
<1>4. \A x, y \in ToSet(signals) : ServiceOf(x) = ServiceOf(y) /\ ReportsUtc(ServiceOf(x)) => x = y
  BY <1>1, <1>3 DEF SignalsOf
<1> QED BY <1>4 DEF kept, signals

\* The events of a service that reports in UTC are in one signal of the report.
THEOREM OneSignalSafety == Spec => []OneSignalPerService
<1>1. ASSUME RInv PROVE OneSignalPerService
  <2> SUFFICES ASSUME NEW e \in ToSet(seen), NEW f \in ToSet(seen),
                      e.service = f.service, ReportsUtc(e.service)
               PROVE  {<<p[1], p[2]>> : p \in PlacesOf(e)} = {<<p[1], p[2]>> : p \in PlacesOf(f)}
    BY DEF OneSignalPerService
  <2>1. PICK window \in Int : /\ seen \in Seq(Rows) /\ Gathered(seen, window)
                              /\ Made(groups, base, seen, window, back)
    BY <1>1, EmptyList DEF RInv, Reported
  <2>2. PICK i, j, k : /\ IsEventPlace(i, j, k) /\ PlacesOf(e) = {<<i, j, k>>}
                       /\ ServiceOf(SignalAt(i, j)) = e.service
    BY <2>1, EventHasPlace
  <2>3. PICK m, n, l : /\ IsEventPlace(m, n, l) /\ PlacesOf(f) = {<<m, n, l>>}
                       /\ ServiceOf(SignalAt(m, n)) = f.service
    BY <2>1, EventHasPlace
  <2>4. IsPlace(i, j) /\ IsPlace(m, n)
    BY <2>2, <2>3 DEF IsEventPlace
  <2>5. SignalAt(i, j) = SignalAt(m, n)
    BY <2>1, <2>2, <2>3, <2>4, PlaceFacts, UtcSignal
  <2>6. i = m /\ j = n
    BY <2>1, <2>4, <2>5, PlaceFacts
  <2> QED BY <2>2, <2>3, <2>6
<1> QED BY ReportSafety, <1>1, PTL

\* The largest of one number.
LEMMA MaxOfOne == \A n \in Int : MaxOf({n}) = n
BY MaxOfIs

\* What is found for a service that has one signal.
LEMMA CandidatesOfOne ==
  ASSUME NEW rows, NEW signals \in Seq(Signal), OnceEach(signals), NEW lookBack,
         NEW s \in ToSet(signals), NEW c \in Candidates(rows, s, lookBack),
         \A x \in ToSet(signals) : ServiceOf(x) = ServiceOf(s) => x = s
  PROVE  c \in FindChangeCandidates(rows, signals, lookBack)[ServiceOf(s)]
<1> DEFINE Of(i) == Candidates(rows, signals[i], lookBack)
           Having(t) == {i \in DOMAIN signals : ServiceOf(signals[i]) = t /\ Of(i) # {}}
           services == {ServiceOf(signals[i]) : i \in DOMAIN signals}
<1>1. DOMAIN signals = 1..Len(signals) /\ ToSet(signals) = {signals[i] : i \in 1..Len(signals)}
  BY ListSet
<1>2. PICK i \in 1..Len(signals) : signals[i] = s
  BY <1>1
<1>3. \A k \in 1..Len(signals) : ServiceOf(signals[k]) = ServiceOf(s) => k = i
  BY <1>1, <1>2 DEF OnceEach
<1>4. c \in Of(i)
  BY <1>2
<1>5. Having(ServiceOf(s)) = {i}
  <2> HIDE DEF Of
  <2> QED BY <1>1, <1>2, <1>3, <1>4
<1>6. MaxOf(Having(ServiceOf(s))) = i
  <2>1. i \in Int
    BY <1>1
  <2> HIDE DEF Having
  <2> QED BY <1>5, <2>1, MaxOfOne
<1>7. FindChangeCandidates(rows, signals, lookBack)
        = [t \in services |-> IF Having(t) = {} THEN {} ELSE Of(MaxOf(Having(t)))]
  BY Zenon DEF FindChangeCandidates
<1>8. ServiceOf(s) \in services
  BY <1>1, <1>2
<1> HIDE DEF Of, Having, services
<1>9. FindChangeCandidates(rows, signals, lookBack)[ServiceOf(s)] = Of(i)
  BY <1>5, <1>6, <1>7, <1>8
<1> QED BY <1>4, <1>9

\* A change that is a candidate of a group's signal is one of the group.
LEMMA ChangeReaches ==
  ASSUME NEW window \in Int, seen \in Seq(Rows), Gathered(seen, window),
         base \subseteq Rows, back \in Int, Made(groups, base, seen, window, back),
         NEW g \in ToSet(groups), NEW s \in ToSet(g.signals), NEW c \in base,
         c.change, Utc(c), ReportsUtc(ServiceOf(s)),
         c.service = ServiceOf(s) \/ DependsOn(ServiceOf(s), c.service),
         Head(s).at - c.at \in 0..back
  PROVE  c \in g.changes
<1> DEFINE kept == Deduplicate(seen)
           signals == GroupTemporal(kept, window)
           links == GroupTopology(signals)
           changes == FindChangeCandidates(base, signals, back)
           made == ToSet(links) \cup {{ServiceOf(t)} : t \in Signal}
<1>1. /\ KeptOf(kept, seen) /\ signals \in Seq(Signal) /\ SignalsOf(signals, kept, window)
      /\ Assembled(groups, signals, links, changes)
  BY DEF Made
<1>2. \A x \in ToSet(signals) : ServiceOf(x) = ServiceOf(s) => x = s
  <2>1. s \in ToSet(signals)
    BY <1>1 DEF Assembled, Shares, GroupFor
  <2> HIDE DEF signals
  <2>2. \A x, y \in ToSet(signals) : ServiceOf(x) = ServiceOf(y) /\ ReportsUtc(ServiceOf(x)) => x = y
    BY UtcSignal DEF signals
  <2> QED BY <2>1, <2>2
<1> HIDE DEF kept, signals, links, changes, made
<1>3. GroupFor(g, signals, links, changes, made)
  BY <1>1 DEF Assembled, Shares, made
<1>4. s \in ToSet(signals) /\ ServiceOf(s) \in g.services
  BY <1>3 DEF GroupFor
<1>5. PICK l : g = MakeGroup(l, g.signals, links, changes)
  BY <1>3 DEF GroupFor
<1>6. g.changes = UNION {changes[t] : t \in g.services}
  BY <1>5, MakeGroupFields
<1>7. c \in Candidates(base, s, back)
  <2>1. s \in Signal
    BY <1>1, <1>4, ListSet
  <2>2. Head(s) \in ToSet(s)
    BY <2>1, HeadIn DEF Signal
  <2>3. Head(s) \in ToSet(seen) /\ Head(s).service = ServiceOf(s)
    BY <1>1, <1>4, <2>2 DEF SignalsOf, Contents, KeptOf
  <2>4. Head(s).stamp = Head(s).at /\ c.stamp = c.at
    BY <2>3 DEF ReportsUtc, Utc
  <2>5. Head(s).at \in Int /\ c.at \in Int
    BY <2>1, <2>2, RowFacts, ListSet DEF Signal
  <2>6. c.stamp >= Head(s).at - back /\ c.stamp <= Head(s).stamp
    BY <2>4, <2>5
  <2>7. c \in RecentChanges(base, c.service, Head(s), back)
    BY <2>6 DEF RecentChanges
  <2>8. c.service \in {ServiceOf(s)} \cup (IF ServiceOf(s) \in DOMAIN Topology
                                           THEN Topology[ServiceOf(s)].dependencies ELSE {})
    BY DEF DependsOn
  <2> QED BY <2>7, <2>8 DEF Candidates
<1>8. c \in changes[ServiceOf(s)]
  <2>1. OnceEach(signals)
    BY <1>1 DEF SignalsOf
  <2> QED BY <1>1, <1>2, <1>4, <1>7, <2>1, CandidatesOfOne DEF changes
<1> QED BY <1>4, <1>6, <1>8

\* So the changes of the look-back reach the groups they may explain.
THEOREM ChangesSafety == Spec => []ChangesReachGroups
<1>1. ASSUME RInv PROVE ChangesReachGroups
  <2>1. CASE groups = <<>>
    <3>1. ToSet(groups) = {}
      BY <2>1, EmptyList
    <3> QED BY <3>1 DEF ChangesReachGroups
  <2>2. CASE ~ (groups = <<>>)
    <3>1. PICK window \in Int : /\ seen \in Seq(Rows) /\ Gathered(seen, window)
                                /\ base \subseteq Rows /\ back \in Int
                                /\ Made(groups, base, seen, window, back)
      BY <1>1, <2>2 DEF RInv, Reported
    <3> QED BY <3>1, ChangeReaches DEF ChangesReachGroups
  <2> QED BY <2>1, <2>2
<1> QED BY ReportSafety, <1>1, PTL
===============================================================================
