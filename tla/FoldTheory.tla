----------------------------- MODULE FoldTheory ------------------------------
(* What the proofs need to know of FoldLeft, FlattenSeq and Selected.  The        *)
(* induction theorems of the library take a predicate as a parameter; the ones    *)
(* here take the set of the values that satisfy it, and rest on NatInd, which     *)
(* follows from the well-foundedness of the naturals.  A model that folds is      *)
(* reasoned about through an instance, its own function in the place of Step.     *)
EXTENDS Integers, Lists, WellFoundedInduction, SequenceTheorems, TLAPS

CONSTANT Step(_, _, _)   \* what the step of a fold depends on, the value so far, the element

\* Induction on the naturals, for a set in the place of a predicate.
LEMMA NatInd ==
  ASSUME NEW S, 0 \in S, \A n \in Nat : n \in S => n + 1 \in S
  PROVE  Nat \subseteq S
<1> DEFINE R == {p \in Nat \X Nat : p[1] < p[2]}
           T == Nat \ S
<1>1. SUFFICES ASSUME T # {} PROVE FALSE
  OBVIOUS
<1>2. PICK x \in T : \A y \in T : <<y, x>> \notin R
  <2>1. IsWellFoundedOn(R, Nat)
    BY NatLessThanWellFounded DEF OpToRel
  <2> HIDE DEF R
  <2> QED BY <1>1, <2>1, WFMin, T \subseteq Nat
<1>3. x # 0 /\ x \in Nat
  OBVIOUS
<1>4. x - 1 \in Nat /\ <<x-1, x>> \in R
  BY <1>3
<1>5. x - 1 \notin T
  BY <1>2, <1>4
<1> QED BY <1>3, <1>4, <1>5

\* Induction up to a bound.
LEMMA UpTo ==
  ASSUME NEW n \in Nat, NEW S, 0 \in S, \A i \in 1..n : i - 1 \in S => i \in S
  PROVE  0..n \subseteq S
<1> DEFINE T == {i \in Nat : i <= n => i \in S}
<1>1. 0 \in T
  OBVIOUS
<1>2. \A i \in Nat : i \in T => i + 1 \in T
  <2> SUFFICES ASSUME NEW i \in Nat, i \in T, i + 1 <= n PROVE i + 1 \in S
    OBVIOUS
  <2>1. i \in S /\ i + 1 \in 1..n /\ (i + 1) - 1 = i
    OBVIOUS
  <2> QED BY <2>1
<1> HIDE DEF T
<1>3. Nat \subseteq T
  BY <1>1, <1>2, NatInd
<1> QED BY <1>3 DEF T

\* The largest index of a set of the first i indices that has i is i.
LEMMA MaxOfPrefix ==
  ASSUME NEW i \in Nat \ {0}, NEW s \in SUBSET (1..i), i \in s
  PROVE  Max(s) = i
<1> DEFINE IsMax(x) == x \in s /\ \A y \in s : x >= y
<1>1. IsMax(i)
  OBVIOUS
<1>2. \A x \in s : x \in Int
  OBVIOUS
<1>3. \A x : IsMax(x) => x = i
  BY <1>1, <1>2
<1>4. IsMax(Max(s))
  BY <1>1, Zenon DEF Max
<1> HIDE DEF IsMax, Max
<1> QED BY <1>3, <1>4

\* A set of indices that is not empty has its maximum.
LEMMA MaxInSet ==
  ASSUME NEW n \in Nat, NEW s \in SUBSET (1..n), s # {}
  PROVE  Max(s) \in s
<1> DEFINE Has(i) == \A t \in SUBSET (1..i) : t # {} => \E x \in t : \A y \in t : x >= y
           S == {i \in 0..n : Has(i)}
<1>1. 0 \in S
  <2>1. ASSUME NEW t \in SUBSET (1..0), t # {} PROVE FALSE
    <3>1. \E x : x \in t
      BY <2>1, Zenon
    <3>2. \A x \in t : x \in 1..0
      OBVIOUS
    <3> QED BY <3>1, <3>2
  <2>2. \A t \in SUBSET (1..0) : t = {}
    BY <2>1, Zenon
  <2>3. Has(0)
    BY <2>2
  <2> HIDE DEF Has
  <2> QED BY <2>3
<1>2. ASSUME NEW i \in 1..n, i - 1 \in S PROVE i \in S
  <2> SUFFICES ASSUME NEW t \in SUBSET (1..i), t # {} PROVE \E x \in t : \A y \in t : x >= y
    OBVIOUS
  <2>1. CASE i \in t
    BY <2>1
  <2>2. CASE i \notin t
    BY <1>2, <2>2, t \in SUBSET (1..(i-1))
  <2> QED BY <2>1, <2>2
<1> HIDE DEF S
<1>3. n \in S
  BY <1>1, <1>2, UpTo
<1>4. \E x \in s : \A y \in s : x >= y
  BY <1>3 DEF S
<1> QED BY <1>4 DEF Max

\* f is what the recursion of MapThenFoldSet computes on the sets of indices.
IsFold(f, n, b, step) ==
  f = [s \in SUBSET (1..n) |-> IF s = {} THEN b ELSE step[<<Max(s), f[s \ {Max(s)}]>>]]

\* The function that a fold takes by CHOOSE exists: the indices are a finite set,
\* from which one can be taken away at a time.
LEMMA FoldExists ==
  ASSUME NEW n \in Nat, NEW V, NEW b \in V, NEW step \in [(1..n) \X V -> V]
  PROVE  \E f \in [SUBSET (1..n) -> V] : IsFold(f, n, b, step)
<1> DEFINE Unfolds(f, i) == \A s \in SUBSET (1..i) :
                         f[s] = IF s = {} THEN b ELSE step[<<Max(s), f[s \ {Max(s)}]>>]
           Has(i) == \E f \in [SUBSET (1..i) -> V] : Unfolds(f, i)
           S == {i \in 0..n : Has(i)}
<1>1. 0 \in S
  <2>1. [s \in SUBSET (1..0) |-> b] \in [SUBSET (1..0) -> V]
    OBVIOUS
  <2>2. Unfolds([s \in SUBSET (1..0) |-> b], 0)
    OBVIOUS
  <2>3. Has(0)
    <3> HIDE DEF Unfolds
    <3> QED BY <2>1, <2>2, Zenon
  <2> HIDE DEF Has
  <2> QED BY <2>3
<1>2. ASSUME NEW i \in 1..n, i - 1 \in S PROVE i \in S
  <2>1. PICK f \in [SUBSET (1..(i-1)) -> V] : Unfolds(f, i-1)
    BY <1>2
  <2> DEFINE h == [s \in SUBSET (1..i) |-> IF i \in s THEN step[<<i, f[s \ {i}]>>] ELSE f[s]]
  <2>2. ASSUME NEW s \in SUBSET (1..i)
        PROVE  /\ i \notin s => s \in SUBSET (1..(i-1))
               /\ s \ {i} \in SUBSET (1..(i-1))
    OBVIOUS
  <2>3. h \in [SUBSET (1..i) -> V]
    BY <2>2
  <2>4. ASSUME NEW s \in SUBSET (1..i)
        PROVE  h[s] = IF s = {} THEN b ELSE step[<<Max(s), h[s \ {Max(s)}]>>]
    <3>1. CASE i \in s
      <4>1. Max(s) = i
        BY <3>1, MaxOfPrefix
      <4>2. s \ {i} \in SUBSET (1..i) /\ i \notin s \ {i} /\ h[s \ {i}] = f[s \ {i}]
        OBVIOUS
      <4> QED BY <3>1, <4>1, <4>2
    <3>2. CASE i \notin s
      <4>1. s \in SUBSET (1..(i-1)) /\ h[s] = f[s]
        BY <2>2, <3>2
      <4>2. \A x : s \ {x} \in SUBSET (1..i) /\ i \notin s \ {x}
        BY <3>2
      <4>3. \A x : h[s \ {x}] = f[s \ {x}]
        BY <4>2
      <4> HIDE DEF h
      <4> QED BY <2>1, <4>1, <4>3
    <3> QED BY <3>1, <3>2
  <2> HIDE DEF h
  <2>5. Unfolds(h, i)
    BY <2>4
  <2>6. Has(i)
    <3> HIDE DEF Unfolds
    <3> QED BY <2>3, <2>5, Zenon
  <2> HIDE DEF Has
  <2> QED BY <2>6
<1> HIDE DEF S
<1>3. n \in S
  BY <1>1, <1>2, UpTo
<1>4. PICK f \in [SUBSET (1..n) -> V] : Unfolds(f, n)
  BY <1>3 DEF S
<1>5. IsFold(f, n, b, step)
  BY <1>4 DEF IsFold
<1> QED BY <1>4, <1>5, Zenon
\* The recursion on 1..i takes i away and goes on with 1..(i - 1).
LEMMA FirstIndices ==
  ASSUME NEW n \in Nat, NEW i \in 1..n
  PROVE  /\ 1..i \in SUBSET (1..n) /\ 1..i # {} /\ Max(1..i) = i
         /\ (1..i) \ {i} = 1..(i - 1) /\ 1..0 = {}
<1>1. i \in Nat \ {0} /\ i \in 1..i
  OBVIOUS
<1>2. Max(1..i) = i
  BY <1>1, MaxOfPrefix
<1> QED BY <1>1, <1>2
\* The fold by Step from base over s, from left to right.
Fold(ctx, base, s) == FoldLeft(LAMBDA v, e : Step(ctx, v, e), base, s)

\* t is s and one element more.
Longer(s, t) == Len(t) = Len(s) + 1 /\ \A i \in 1..Len(s) : s[i] = t[i]

\* Step leads from a value in V and an element in E to a value in V.
Closed(ctx, V, E) == \A v \in V, e \in E : Step(ctx, v, e) \in V

\* k[i] is the value after the first i elements of s.
Runs(k, ctx, base, s) ==
  k[0] = base /\ \A i \in 1..Len(s) : k[i] = Step(ctx, k[i-1], s[i])

\* A fold is the last value of its run.
LEMMA FoldSteps ==
  ASSUME NEW ctx, NEW V, NEW E, NEW base \in V, NEW s \in Seq(E),
         Closed(ctx, V, E)
  PROVE  \E k : Runs(k, ctx, base, s) /\ Fold(ctx, base, s) = k[Len(s)]
<1> DEFINE n == Len(s)
           step == [p \in (1..n) \X V |-> Step(ctx, p[2], s[p[1]])]
           Unfolds(f) == f = [t \in SUBSET DOMAIN s |->
                                IF t = {} THEN base ELSE Step(ctx, f[t \ {Max(t)}], s[Max(t)])]
<1>1. n \in Nat /\ DOMAIN s = 1..n /\ \A i \in 1..n : s[i] \in E
  BY LenProperties
<1>2. step \in [(1..n) \X V -> V]
  BY <1>1 DEF Closed
<1>3. \E f : Unfolds(f)
  <2>1. PICK f \in [SUBSET (1..n) -> V] : IsFold(f, n, base, step)
    <3> HIDE DEF step, n
    <3> QED BY <1>1, <1>2, FoldExists
  <2>2. \A t \in SUBSET (1..n) : t # {} => Max(t) \in 1..n /\ f[t \ {Max(t)}] \in V
    BY <1>1, MaxInSet
  <2>3. Unfolds(f)
    BY <1>1, <2>1, <2>2 DEF IsFold
  <2> QED BY <2>3
<1> DEFINE c == CHOOSE f : Unfolds(f)
           k == [i \in 0..n |-> c[1..i]]
<1>4. Unfolds(c)
  <2> HIDE DEF Unfolds
  <2> QED BY <1>3, Zenon
<1>5. Fold(ctx, base, s) = c[DOMAIN s]
  BY DEF Fold, FoldLeft, MapThenFoldSet
<1> HIDE DEF c
<1>6. ASSUME NEW i \in 1..n PROVE c[1..i] = Step(ctx, c[1..(i-1)], s[i])
  <2>1. 1..i \in SUBSET (1..n) /\ 1..i # {} /\ Max(1..i) = i /\ (1..i) \ {i} = 1..(i - 1)
    BY <1>1, FirstIndices
  <2>2. c[1..i] = IF 1..i = {} THEN base ELSE Step(ctx, c[(1..i) \ {Max(1..i)}], s[Max(1..i)])
    BY <1>1, <1>4, <2>1
  <2> HIDE DEF n
  <2> QED BY <2>1, <2>2, Zenon
<1>7. c[1..0] = base
  <2>1. 1..0 = {}
    OBVIOUS
  <2> QED BY <1>1, <1>4, <2>1
<1>8. /\ k[0] = base /\ Fold(ctx, base, s) = k[n]
      /\ \A i \in 1..n : k[i] = Step(ctx, k[i-1], s[i])
  BY <1>1, <1>5, <1>6, <1>7
<1> HIDE DEF k
<1> QED BY <1>8 DEF Runs

\* Two runs over lists with a common beginning agree after it.
LEMMA RunsAgree ==
  ASSUME NEW ctx, NEW base, NEW E, NEW s \in Seq(E), NEW t \in Seq(E), NEW k, NEW l,
         Runs(k, ctx, base, s), Runs(l, ctx, base, t),
         Len(s) <= Len(t), \A i \in 1..Len(s) : s[i] = t[i]
  PROVE  k[Len(s)] = l[Len(s)]
<1> DEFINE S == {i \in 0..Len(s) : k[i] = l[i]}
<1>1. Len(s) \in Nat /\ Len(t) \in Nat
  BY LenProperties
<1>2. 0 \in S
  BY <1>1 DEF Runs
<1>3. ASSUME NEW i \in 1..Len(s), i - 1 \in S PROVE i \in S
  BY <1>1, <1>3 DEF Runs
<1> HIDE DEF S
<1>4. 0..Len(s) \subseteq S
  BY <1>1, <1>2, <1>3, UpTo
<1> QED BY <1>1, <1>4 DEF S

\* A fold over no elements is its base.
LEMMA FoldNone ==
  ASSUME NEW ctx, NEW V, NEW E, NEW base \in V, NEW s \in Seq(E), Closed(ctx, V, E),
         Len(s) = 0
  PROVE  Fold(ctx, base, s) = base
<1>1. PICK k : Runs(k, ctx, base, s) /\ Fold(ctx, base, s) = k[Len(s)]
  BY FoldSteps
<1> QED BY <1>1 DEF Runs

\* The fold of the empty list.
THEOREM FoldEmpty ==
  ASSUME NEW ctx, NEW base
  PROVE  Fold(ctx, base, <<>>) = base
<1>1. base \in {base} /\ <<>> \in Seq({}) /\ Len(<<>>) = 0 /\ Closed(ctx, {base}, {})
  BY DEF Closed
<1> QED BY <1>1, FoldNone, Zenon

\* One element more is one step more.
LEMMA FoldLonger ==
  ASSUME NEW ctx, NEW V, NEW E, NEW base \in V, NEW s \in Seq(E), NEW t \in Seq(E),
         Closed(ctx, V, E), Longer(s, t)
  PROVE  Fold(ctx, base, t) = Step(ctx, Fold(ctx, base, s), t[Len(t)])
<1>1. PICK k : Runs(k, ctx, base, s) /\ Fold(ctx, base, s) = k[Len(s)]
  BY FoldSteps
<1>2. PICK l : Runs(l, ctx, base, t) /\ Fold(ctx, base, t) = l[Len(t)]
  BY FoldSteps
<1>3. Len(s) \in Nat /\ Len(t) \in 1..Len(t) /\ Len(t) - 1 = Len(s) /\ Len(s) <= Len(t)
  BY LenProperties DEF Longer
<1>4. k[Len(s)] = l[Len(s)]
  BY <1>1, <1>2, <1>3, RunsAgree DEF Longer
<1>5. l[Len(t)] = Step(ctx, l[Len(t) - 1], t[Len(t)])
  BY <1>2, <1>3 DEF Runs
<1> QED BY <1>1, <1>2, <1>3, <1>4, <1>5

\* The equation that the proofs cite: a fold over Append(s, e) takes one step from the
\* fold over s.
THEOREM FoldAppend ==
  ASSUME NEW ctx, NEW V, NEW E, NEW base \in V, NEW s \in Seq(E), NEW e \in E,
         Closed(ctx, V, E)
  PROVE  Fold(ctx, base, Append(s, e)) = Step(ctx, Fold(ctx, base, s), e)
<1>1. PICK t \in Seq(E) : t = Append(s, e)
  BY AppendProperties
<1>2. Longer(s, t) /\ t[Len(t)] = e
  BY <1>1, AppendProperties, LenProperties DEF Longer
<1>3. Fold(ctx, base, t) = Step(ctx, Fold(ctx, base, s), t[Len(t)])
  BY <1>2, FoldLonger
<1> QED BY <1>1, <1>2, <1>3, Zenon

\* Induction on lists, for a set in the place of a predicate: with it, FoldEmpty and
\* FoldAppend, a proof says of a fold what it says of a recursive function.
THEOREM SeqInduction ==
  ASSUME NEW E, NEW S, <<>> \in S,
         \A s \in Seq(E), e \in E : s \in S => Append(s, e) \in S
  PROVE  Seq(E) \subseteq S
<1> DEFINE T == {n \in Nat : \A s \in Seq(E) : Len(s) = n => s \in S}
<1>1. 0 \in T
  OBVIOUS
<1>2. ASSUME NEW n \in Nat, n \in T PROVE n + 1 \in T
  <2> SUFFICES ASSUME NEW s \in Seq(E), Len(s) = n + 1 PROVE s \in S
    OBVIOUS
  <2>1. PICK r \in Seq(E), e \in E : s = Append(r, e)
    BY SequenceEmptyOrAppend
  <2>2. Len(r) = n
    BY <2>1, AppendProperties
  <2> QED BY <1>2, <2>1, <2>2
<1> HIDE DEF T
<1>3. Nat \subseteq T
  BY <1>1, <1>2, NatInd
<1> QED BY <1>3 DEF T

\* A fold stays where its steps stay.
THEOREM FoldType ==
  ASSUME NEW ctx, NEW V, NEW E, NEW base \in V,
         Closed(ctx, V, E)
  PROVE  \A s \in Seq(E) : Fold(ctx, base, s) \in V
<1> DEFINE S == {s \in Seq(E) : Fold(ctx, base, s) \in V}
<1>1. <<>> \in S
  BY FoldEmpty
<1>2. ASSUME NEW s \in Seq(E), NEW e \in E, s \in S PROVE Append(s, e) \in S
  BY <1>2, FoldAppend, AppendProperties DEF Closed
<1> HIDE DEF S
<1>3. Seq(E) \subseteq S
  BY <1>1, <1>2, SeqInduction
<1> QED BY <1>3 DEF S

-----------------------------------------------------------------------------
\* The elements of a list are its values at its indices.
LEMMA ToSetSeq ==
  ASSUME NEW E, NEW s \in Seq(E)
  PROVE  /\ ToSet(s) \subseteq E
         /\ ToSet(s) = {s[i] : i \in 1..Len(s)}
BY LenProperties DEF ToSet

\* Append adds its element.
LEMMA ToSetAppend ==
  ASSUME NEW E, NEW s \in Seq(E), NEW e \in E
  PROVE  ToSet(Append(s, e)) = ToSet(s) \cup {e}
<1>1. PICK t \in Seq(E) : t = Append(s, e)
  BY AppendProperties
<1>2. /\ Len(s) \in Nat /\ Len(t) = Len(s) + 1 /\ t[Len(s) + 1] = e
      /\ \A i \in 1..Len(s) : t[i] = s[i]
  BY <1>1, AppendProperties, LenProperties
<1>3. ToSet(t) = ToSet(s) \cup {e}
  <2>1. ToSet(t) \subseteq ToSet(s) \cup {e}
    BY <1>2, ToSetSeq
  <2>2. \A i \in 1..Len(s) : i \in 1..Len(t)
    BY <1>2
  <2>3. ToSet(s) \subseteq ToSet(t)
    <3> SUFFICES ASSUME NEW i \in 1..Len(s) PROVE s[i] \in ToSet(t)
      BY ToSetSeq
    <3> QED BY <1>2, <2>2, ToSetSeq
  <2>4. Len(s) + 1 \in 1..Len(t)
    BY <1>2
  <2>5. e \in ToSet(t)
    BY <1>2, <2>4, ToSetSeq
  <2> QED BY <2>1, <2>3, <2>5
<1> QED BY <1>1, <1>3

\* Concatenation joins the elements.
LEMMA ToSetConcat ==
  ASSUME NEW E, NEW s \in Seq(E), NEW t \in Seq(E)
  PROVE  ToSet(s \o t) = ToSet(s) \cup ToSet(t)
<1>1. PICK u \in Seq(E) : u = s \o t
  BY ConcatProperties
<1>2. /\ Len(s) \in Nat /\ Len(t) \in Nat /\ Len(u) = Len(s) + Len(t)
      /\ \A i \in 1..(Len(s) + Len(t)) : u[i] = IF i <= Len(s) THEN s[i] ELSE t[i - Len(s)]
  BY <1>1, ConcatProperties, LenProperties
<1>3. ToSet(u) \subseteq ToSet(s) \cup ToSet(t)
  <2> SUFFICES ASSUME NEW i \in 1..Len(u) PROVE u[i] \in ToSet(s) \cup ToSet(t)
    BY ToSetSeq
  <2>1. CASE i <= Len(s)
    BY <1>2, <2>1, ToSetSeq
  <2>2. CASE ~(i <= Len(s))
    <3>1. i - Len(s) \in 1..Len(t) /\ u[i] = t[i - Len(s)]
      BY <1>2, <2>2
    <3> QED BY <3>1, ToSetSeq
  <2> QED BY <2>1, <2>2
<1>4. ToSet(s) \subseteq ToSet(u)
  <2> SUFFICES ASSUME NEW i \in 1..Len(s) PROVE s[i] \in ToSet(u)
    BY ToSetSeq
  <2>1. i \in 1..Len(u) /\ u[i] = s[i]
    BY <1>2
  <2> QED BY <2>1, ToSetSeq
<1>5. ToSet(t) \subseteq ToSet(u)
  <2> SUFFICES ASSUME NEW i \in 1..Len(t) PROVE t[i] \in ToSet(u)
    BY ToSetSeq
  <2>1. PICK j \in Nat : j = Len(s) + i
    BY <1>2
  <2>2. j \in 1..(Len(s) + Len(t)) /\ ~(j <= Len(s)) /\ j - Len(s) = i
    BY <1>2, <2>1
  <2>3. j \in 1..Len(u) /\ u[j] = t[i]
    BY <1>2, <2>2
  <2> QED BY <2>3, ToSetSeq
<1> QED BY <1>1, <1>3, <1>4, <1>5
-----------------------------------------------------------------------------
\* Two runs that start alike and take the same steps end alike.
LEMMA Agree ==
  ASSUME NEW n \in Nat, NEW k, NEW l, k[0] = l[0],
         \A i \in 1..n : k[i-1] = l[i-1] => k[i] = l[i]
  PROVE  k[n] = l[n]
<1> DEFINE S == {i \in 0..n : k[i] = l[i]}
<1>1. 0 \in S
  OBVIOUS
<1>2. ASSUME NEW i \in 1..n, i - 1 \in S PROVE i \in S
  BY <1>2
<1> HIDE DEF S
<1>3. 0..n \subseteq S
  BY <1>1, <1>2, UpTo
<1> QED BY <1>3 DEF S

\* k[i] is the concatenation of the first i lists of ss.
Joins(k, ss) == k[0] = <<>> /\ \A i \in 1..Len(ss) : k[i] = k[i-1] \o ss[i]

\* FlattenSeq is the last value of the run that joins the lists from left to right.
LEMMA FlattenJoins ==
  ASSUME NEW E, NEW ss \in Seq(Seq(E))
  PROVE  \E k : Joins(k, ss) /\ FlattenSeq(ss) = k[Len(ss)]
<1> DEFINE n == Len(ss)
           V == Seq(E)
           step == [p \in (1..n) \X V |-> p[2] \o ss[p[1]]]
           Unfolds(f) == f = [i \in 1..Len(ss) |-> IF i = 1 THEN ss[i] ELSE f[i-1] \o ss[i]]
<1>1. n \in Nat /\ DOMAIN ss = 1..n /\ \A i \in 1..n : ss[i] \in Seq(E)
  BY LenProperties
<1>2. step \in [(1..n) \X V -> V]
  BY <1>1, ConcatProperties
<1>3. \E f : Unfolds(f)
  <2>1. PICK g \in [SUBSET (1..n) -> V] : IsFold(g, n, <<>>, step)
    <3>1. <<>> \in V
      OBVIOUS
    <3> HIDE DEF step, n, V
    <3> QED BY <1>1, <1>2, <3>1, FoldExists
  <2> DEFINE f == [i \in 1..n |-> g[1..i]]
  <2>2. ASSUME NEW i \in 1..n PROVE f[i] = g[1..(i-1)] \o ss[i] /\ g[1..(i-1)] \in V
    <3>1. 1..i \in SUBSET (1..n) /\ 1..i # {} /\ Max(1..i) = i /\ (1..i) \ {i} = 1..(i - 1)
      BY <1>1, FirstIndices
    <3>2. 1..(i-1) \in SUBSET (1..n)
      BY <1>1
    <3>3. g[1..i] = step[<<i, g[1..(i-1)]>>]
      BY <2>1, <3>1 DEF IsFold
    <3> QED BY <2>1, <3>2, <3>3
  <2>3. g[{}] = <<>>
    BY <2>1 DEF IsFold
  <2>4. ASSUME NEW i \in 1..n PROVE f[i] = IF i = 1 THEN ss[i] ELSE f[i-1] \o ss[i]
    <3>1. CASE i = 1
      <4>1. 1..(i-1) = {}
        BY <3>1
      <4>2. f[i] = <<>> \o ss[i]
        BY <2>2, <2>3, <4>1
      <4>3. ss[i] \in Seq(E)
        BY <1>1
      <4>4. <<>> \o ss[i] = ss[i]
        BY <4>3, ConcatEmptySeq
      <4> QED BY <3>1, <4>2, <4>4
    <3>2. CASE i # 1
      <4>1. i - 1 \in 1..n
        BY <1>1, <3>2
      <4> QED BY <2>2, <3>2, <4>1
    <3> QED BY <3>1, <3>2
  <2>5. Unfolds(f)
    BY <2>4
  <2> QED BY <2>5
<1> DEFINE c == CHOOSE f : Unfolds(f)
           k == [i \in 0..n |-> IF i = 0 THEN <<>> ELSE c[i]]
<1>4. Unfolds(c)
  <2> HIDE DEF Unfolds
  <2> QED BY <1>3, Zenon
<1>5. FlattenSeq(ss) = IF n = 0 THEN ss ELSE c[n]
  BY DEF FlattenSeq
<1> HIDE DEF c
<1>6. FlattenSeq(ss) = k[n]
  BY <1>1, <1>5
<1>7. ASSUME NEW i \in 1..n PROVE k[i] = k[i-1] \o ss[i]
  <2>1. CASE i = 1
    <3>1. k[i] = ss[i] /\ k[i-1] = <<>> /\ ss[i] \in Seq(E)
      BY <1>1, <1>4, <2>1
    <3>2. <<>> \o ss[i] = ss[i]
      BY <3>1, ConcatEmptySeq
    <3> QED BY <3>1, <3>2
  <2>2. CASE i # 1
    <3>1. i - 1 \in 1..n /\ i # 0 /\ i - 1 # 0
      BY <1>1, <2>2
    <3>2. k[i] = c[i] /\ k[i-1] = c[i-1]
      BY <1>1, <3>1
    <3>3. c[i] = c[i-1] \o ss[i]
      BY <1>4, <2>2
    <3> QED BY <3>2, <3>3
  <2> QED BY <2>1, <2>2
<1>8. k[0] = <<>>
  BY <1>1
<1> HIDE DEF k
<1> QED BY <1>6, <1>7, <1>8 DEF Joins

\* Nothing to join is the empty list.
THEOREM FlattenEmpty == FlattenSeq(<<>>) = <<>>
BY DEF FlattenSeq

\* One list more is one concatenation more.
LEMMA FlattenLonger ==
  ASSUME NEW E, NEW ss \in Seq(Seq(E)), NEW tt \in Seq(Seq(E)), Longer(ss, tt)
  PROVE  FlattenSeq(tt) = FlattenSeq(ss) \o tt[Len(tt)]
<1>1. PICK k : Joins(k, ss) /\ FlattenSeq(ss) = k[Len(ss)]
  BY FlattenJoins
<1>2. PICK l : Joins(l, tt) /\ FlattenSeq(tt) = l[Len(tt)]
  BY FlattenJoins
<1>3. Len(ss) \in Nat /\ Len(tt) \in 1..Len(tt) /\ Len(tt) - 1 = Len(ss) /\ Len(ss) <= Len(tt)
  BY LenProperties DEF Longer
<1>4. k[Len(ss)] = l[Len(ss)]
  <2>1. k[0] = l[0]
    BY <1>1, <1>2 DEF Joins
  <2>2. ASSUME NEW i \in 1..Len(ss), k[i-1] = l[i-1] PROVE k[i] = l[i]
    <3>1. i \in 1..Len(tt) /\ ss[i] = tt[i]
      BY <1>3 DEF Longer
    <3>2. k[i] = k[i-1] \o ss[i]
      BY <1>1 DEF Joins
    <3>3. l[i] = l[i-1] \o tt[i]
      BY <1>2, <3>1 DEF Joins
    <3> QED BY <2>2, <3>1, <3>2, <3>3
  <2> QED BY <1>3, <2>1, <2>2, Agree
<1>5. l[Len(tt)] = l[Len(tt) - 1] \o tt[Len(tt)]
  BY <1>2, <1>3 DEF Joins
<1> QED BY <1>1, <1>2, <1>3, <1>4, <1>5

\* The equation that the proofs cite for FlattenSeq.
THEOREM FlattenAppend ==
  ASSUME NEW E, NEW ss \in Seq(Seq(E)), NEW s \in Seq(E)
  PROVE  FlattenSeq(Append(ss, s)) = FlattenSeq(ss) \o s
<1>1. PICK tt \in Seq(Seq(E)) : tt = Append(ss, s)
  BY AppendProperties
<1>2. Longer(ss, tt) /\ tt[Len(tt)] = s
  BY <1>1, AppendProperties, LenProperties DEF Longer
<1>3. FlattenSeq(tt) = FlattenSeq(ss) \o tt[Len(tt)]
  BY <1>2, FlattenLonger
<1> QED BY <1>1, <1>2, <1>3, Zenon

\* Joined lists are a list of the same elements.
THEOREM FlattenType ==
  ASSUME NEW E, NEW ss \in Seq(Seq(E))
  PROVE  FlattenSeq(ss) \in Seq(E)
<1> DEFINE S == {x \in Seq(Seq(E)) : FlattenSeq(x) \in Seq(E)}
<1>1. <<>> \in S
  <2>1. <<>> \in Seq(E) /\ <<>> \in Seq(Seq(E))
    OBVIOUS
  <2> QED BY <2>1, FlattenEmpty
<1>2. ASSUME NEW x \in Seq(Seq(E)), NEW e \in Seq(E), x \in S PROVE Append(x, e) \in S
  BY <1>2, FlattenAppend, AppendProperties, ConcatProperties
<1> HIDE DEF S
<1>3. Seq(Seq(E)) \subseteq S
  BY <1>1, <1>2, SeqInduction
<1> QED BY <1>3 DEF S

\* What a flattened list holds.
Contents(ss) == UNION {ToSet(x) : x \in ToSet(ss)}

\* FlattenSeq loses no element and invents none.
THEOREM FlattenContents ==
  ASSUME NEW E, NEW ss \in Seq(Seq(E))
  PROVE  ToSet(FlattenSeq(ss)) = Contents(ss)
<1> DEFINE S == {x \in Seq(Seq(E)) : ToSet(FlattenSeq(x)) = Contents(x)}
<1>1. <<>> \in S
  BY FlattenEmpty DEF ToSet, Contents
<1>2. ASSUME NEW x \in Seq(Seq(E)), NEW e \in Seq(E), x \in S PROVE Append(x, e) \in S
  <2>1. ToSet(FlattenSeq(Append(x, e))) = ToSet(FlattenSeq(x)) \cup ToSet(e)
    <3>1. FlattenSeq(Append(x, e)) = FlattenSeq(x) \o e /\ FlattenSeq(x) \in Seq(E)
      BY FlattenAppend, FlattenType
    <3> QED BY <3>1, ToSetConcat
  <2>2. ToSet(Append(x, e)) = ToSet(x) \cup {e}
    BY ToSetAppend
  <2>3. Contents(Append(x, e)) = Contents(x) \cup ToSet(e)
    BY <2>2 DEF Contents
  <2> QED BY <1>2, <2>1, <2>3, AppendProperties
<1> HIDE DEF S
<1>3. Seq(Seq(E)) \subseteq S
  BY <1>1, <1>2, SeqInduction
<1> QED BY <1>3 DEF S
-----------------------------------------------------------------------------
\* Nothing is selected from nothing.
THEOREM SelectedEmpty ==
  ASSUME NEW T
  PROVE  Selected(<<>>, T) = <<>>
BY FlattenEmpty DEF Selected

\* An appended element is selected if and only if it is in T.
THEOREM SelectedAppend ==
  ASSUME NEW E, NEW T, NEW s \in Seq(E), NEW e \in E
  PROVE  Selected(Append(s, e), T)
           = IF e \in T THEN Append(Selected(s, T), e) ELSE Selected(s, T)
<1> DEFINE Piece(x) == IF x \in T THEN <<x>> ELSE <<>>
           Pieces(l) == [i \in DOMAIN l |-> Piece(l[i])]
<1>1. \A x \in E : Piece(x) \in Seq(E)
  OBVIOUS
<1> HIDE DEF Piece
<1>2. ASSUME NEW l \in Seq(E)
      PROVE  /\ Pieces(l) \in Seq(Seq(E)) /\ Len(Pieces(l)) = Len(l)
             /\ \A i \in 1..Len(l) : Pieces(l)[i] = Piece(l[i])
  <2>1. Len(l) \in Nat /\ DOMAIN l = 1..Len(l) /\ \A i \in 1..Len(l) : l[i] \in E
    BY LenProperties
  <2> QED BY <1>1, <2>1
<1> HIDE DEF Pieces
<1>3. PICK t \in Seq(E) : t = Append(s, e)
  BY AppendProperties
<1>4. /\ Len(s) \in Nat /\ Len(t) = Len(s) + 1 /\ t[Len(t)] = e
      /\ \A i \in 1..Len(s) : t[i] = s[i]
  BY <1>3, AppendProperties, LenProperties
<1>5. Longer(Pieces(s), Pieces(t)) /\ Pieces(t)[Len(Pieces(t))] = Piece(e)
  <2>1. Len(Pieces(t)) = Len(Pieces(s)) + 1 /\ Len(t) \in 1..Len(t)
        /\ \A i \in 1..Len(s) : i \in 1..Len(t)
    BY <1>2, <1>4
  <2>2. \A i \in 1..Len(s) : Pieces(s)[i] = Pieces(t)[i]
    BY <1>2, <1>4, <2>1
  <2> QED BY <1>2, <1>4, <2>1, <2>2 DEF Longer
<1>6. FlattenSeq(Pieces(t)) = FlattenSeq(Pieces(s)) \o Piece(e)
  BY <1>2, <1>5, FlattenLonger
<1>7. FlattenSeq(Pieces(s)) \in Seq(E)
  BY <1>2, FlattenType
<1>8. FlattenSeq(Pieces(s)) \o <<>> = FlattenSeq(Pieces(s))
      /\ FlattenSeq(Pieces(s)) \o <<e>> = Append(FlattenSeq(Pieces(s)), e)
  BY <1>7, ConcatEmptySeq, AppendIsConcat
<1>9. \A l : Selected(l, T) = FlattenSeq(Pieces(l))
  BY Zenon DEF Selected, Pieces, Piece
<1> QED BY <1>3, <1>6, <1>8, <1>9 DEF Piece

\* A selection is a list of the same elements.
THEOREM SelectedType ==
  ASSUME NEW E, NEW T, NEW s \in Seq(E)
  PROVE  Selected(s, T) \in Seq(E)
<1> DEFINE S == {x \in Seq(E) : Selected(x, T) \in Seq(E)}
<1>1. <<>> \in S
  <2>1. <<>> \in Seq(E)
    OBVIOUS
  <2> QED BY <2>1, SelectedEmpty
<1>2. ASSUME NEW x \in Seq(E), NEW e \in E, x \in S PROVE Append(x, e) \in S
  <2>1. PICK y \in Seq(E) : y = Append(x, e)
    BY AppendProperties
  <2>2. Append(Selected(x, T), e) \in Seq(E)
    BY <1>2, AppendProperties
  <2>3. Selected(y, T) = IF e \in T THEN Append(Selected(x, T), e) ELSE Selected(x, T)
    BY <2>1, SelectedAppend
  <2> QED BY <1>2, <2>1, <2>2, <2>3
<1> HIDE DEF S
<1>3. Seq(E) \subseteq S
  BY <1>1, <1>2, SeqInduction
<1> QED BY <1>3 DEF S

\* A selection has the elements of the list that are in T, and no others.
THEOREM SelectedSet ==
  ASSUME NEW E, NEW T, NEW s \in Seq(E)
  PROVE  ToSet(Selected(s, T)) = ToSet(s) \cap T
<1> DEFINE S == {x \in Seq(E) : ToSet(Selected(x, T)) = ToSet(x) \cap T}
<1>1. <<>> \in S
  BY SelectedEmpty DEF ToSet
<1>2. ASSUME NEW x \in Seq(E), NEW e \in E, x \in S PROVE Append(x, e) \in S
  <2>1. ToSet(Append(x, e)) = ToSet(x) \cup {e} /\ Append(x, e) \in Seq(E)
    BY ToSetAppend, AppendProperties
  <2>2. Selected(x, T) \in Seq(E)
    BY SelectedType
  <2>3. ToSet(Append(Selected(x, T), e)) = ToSet(Selected(x, T)) \cup {e}
    BY <2>2, ToSetAppend
  <2>4. ToSet(Selected(Append(x, e), T)) = ToSet(Append(x, e)) \cap T
    <3>1. Selected(Append(x, e), T)
            = IF e \in T THEN Append(Selected(x, T), e) ELSE Selected(x, T)
      BY SelectedAppend
    <3> HIDE DEF S
    <3>2. ToSet(Selected(x, T)) = ToSet(x) \cap T
      BY <1>2 DEF S
    <3>3. CASE e \in T
      BY <2>1, <2>3, <3>1, <3>2, <3>3
    <3>4. CASE e \notin T
      BY <2>1, <3>1, <3>2, <3>4
    <3> QED BY <3>3, <3>4
  <2> QED BY <2>1, <2>4
<1> HIDE DEF S
<1>3. Seq(E) \subseteq S
  BY <1>1, <1>2, SeqInduction
<1> QED BY <1>3 DEF S

\* Everything is selected when everything is in T.
THEOREM SelectedAll ==
  ASSUME NEW E, NEW T, NEW s \in Seq(E), ToSet(s) \subseteq T
  PROVE  Selected(s, T) = s
<1> DEFINE S == {x \in Seq(E) : ToSet(x) \subseteq T => Selected(x, T) = x}
<1>1. <<>> \in S
  <2>1. <<>> \in Seq(E)
    OBVIOUS
  <2> QED BY <2>1, SelectedEmpty
<1>2. ASSUME NEW x \in Seq(E), NEW e \in E, x \in S PROVE Append(x, e) \in S
  <2>1. PICK y \in Seq(E) : y = Append(x, e)
    BY AppendProperties
  <2>2. ToSet(y) = ToSet(x) \cup {e}
    BY <2>1, ToSetAppend
  <2>3. Selected(y, T) = IF e \in T THEN Append(Selected(x, T), e) ELSE Selected(x, T)
    BY <2>1, SelectedAppend
  <2> QED BY <1>2, <2>1, <2>2, <2>3
<1> HIDE DEF S
<1>3. Seq(E) \subseteq S
  BY <1>1, <1>2, SeqInduction
<1> QED BY <1>3 DEF S

\* Only the members of T that are in the list matter.
THEOREM SelectedAgree ==
  ASSUME NEW E, NEW T, NEW U, NEW s \in Seq(E), ToSet(s) \cap T = ToSet(s) \cap U
  PROVE  Selected(s, T) = Selected(s, U)
<1> DEFINE S == {x \in Seq(E) : ToSet(x) \cap T = ToSet(x) \cap U
                                  => Selected(x, T) = Selected(x, U)}
<1>1. <<>> \in S
  <2>1. <<>> \in Seq(E)
    OBVIOUS
  <2> QED BY <2>1, SelectedEmpty
<1>2. ASSUME NEW x \in Seq(E), NEW e \in E, x \in S PROVE Append(x, e) \in S
  <2>1. PICK y \in Seq(E) : y = Append(x, e)
    BY AppendProperties
  <2>2. ToSet(y) = ToSet(x) \cup {e}
    BY <2>1, ToSetAppend
  <2>3. /\ Selected(y, T) = IF e \in T THEN Append(Selected(x, T), e) ELSE Selected(x, T)
        /\ Selected(y, U) = IF e \in U THEN Append(Selected(x, U), e) ELSE Selected(x, U)
    BY <2>1, SelectedAppend
  <2>4. SUFFICES ASSUME ToSet(y) \cap T = ToSet(y) \cap U
                 PROVE  Selected(y, T) = Selected(y, U)
    BY <2>1
  <2>5. ToSet(x) \cap T = ToSet(x) \cap U /\ (e \in T <=> e \in U)
    BY <2>2, <2>4
  <2>6. Selected(x, T) = Selected(x, U)
    BY <1>2, <2>5
  <2> QED BY <2>3, <2>5, <2>6, Zenon
<1> HIDE DEF S
<1>3. Seq(E) \subseteq S
  BY <1>1, <1>2, SeqInduction
<1> QED BY <1>3 DEF S
-----------------------------------------------------------------------------
(* Lists without repetition                                                   *)

OnceEach(s) == \A i, j \in 1..Len(s) : s[i] = s[j] => i = j

\* No two of the lists have an element in common.
Apart(ss) == \A i, j \in 1..Len(ss) : i # j => ToSet(ss[i]) \cap ToSet(ss[j]) = {}

\* The empty list repeats nothing.
LEMMA OnceEmpty == OnceEach(<<>>)
BY DEF OnceEach

\* A new element repeats nothing.
LEMMA OnceAppend ==
  ASSUME NEW E, NEW s \in Seq(E), NEW e \in E, OnceEach(s), e \notin ToSet(s)
  PROVE  OnceEach(Append(s, e))
<1>1. PICK t \in Seq(E) : t = Append(s, e)
  BY AppendProperties
<1>2. /\ Len(t) = Len(s) + 1 /\ Len(s) \in Nat /\ t[Len(t)] = e
      /\ \A i \in 1..Len(s) : t[i] = s[i]
  BY <1>1, AppendProperties, LenProperties
<1>3. \A i \in 1..Len(s) : s[i] # e
  BY ToSetSeq
<1>4. \A i \in 1..Len(t) : i \in 1..Len(s) \/ i = Len(t)
  BY <1>2
<1>5. OnceEach(t)
  BY <1>2, <1>3, <1>4 DEF OnceEach
<1> QED BY <1>1, <1>5

\* Lists with no element in common are joined without repetition.
LEMMA OnceConcat ==
  ASSUME NEW E, NEW s \in Seq(E), NEW t \in Seq(E), OnceEach(s), OnceEach(t),
         ToSet(s) \cap ToSet(t) = {}
  PROVE  OnceEach(s \o t)
<1>1. PICK u \in Seq(E) : u = s \o t
  BY ConcatProperties
<1>2. /\ Len(u) = Len(s) + Len(t) /\ Len(s) \in Nat /\ Len(t) \in Nat
      /\ \A i \in 1..Len(u) : u[i] = IF i <= Len(s) THEN s[i] ELSE t[i - Len(s)]
  BY <1>1, ConcatProperties, LenProperties
<1>3. \A i \in 1..Len(s), j \in 1..Len(t) : s[i] # t[j]
  <2>1. ToSet(s) = {s[i] : i \in 1..Len(s)}
    BY ToSetSeq
  <2>2. ToSet(t) = {t[j] : j \in 1..Len(t)}
    BY ToSetSeq
  <2> QED BY <2>1, <2>2
<1>4. ASSUME NEW i \in 1..Len(u), NEW j \in 1..Len(u), u[i] = u[j] PROVE i = j
  <2>1. CASE i <= Len(s) /\ j <= Len(s)
    BY <1>2, <1>4, <2>1 DEF OnceEach
  <2>2. CASE i > Len(s) /\ j > Len(s)
    <3>1. i - Len(s) \in 1..Len(t) /\ j - Len(s) \in 1..Len(t)
      BY <1>2, <2>2
    <3>2. t[i - Len(s)] = t[j - Len(s)]
      BY <1>2, <1>4, <2>2
    <3>3. i - Len(s) = j - Len(s)
      BY <3>1, <3>2 DEF OnceEach
    <3> QED BY <1>2, <3>3
  <2>3. CASE i <= Len(s) /\ j > Len(s)
    <3>1. i \in 1..Len(s) /\ j - Len(s) \in 1..Len(t)
      BY <1>2, <2>3
    <3>2. u[i] = s[i] /\ u[j] = t[j - Len(s)]
      BY <1>2, <2>3, <3>1
    <3> QED BY <1>3, <1>4, <3>1, <3>2
  <2>4. CASE i > Len(s) /\ j <= Len(s)
    <3>1. j \in 1..Len(s) /\ i - Len(s) \in 1..Len(t)
      BY <1>2, <2>4
    <3>2. u[j] = s[j] /\ u[i] = t[i - Len(s)]
      BY <1>2, <2>4, <3>1
    <3> QED BY <1>3, <1>4, <3>1, <3>2
  <2> QED BY <1>2, <2>1, <2>2, <2>3, <2>4
<1> QED BY <1>1, <1>4 DEF OnceEach

\* So it is when many are joined.
THEOREM OnceFlatten ==
  ASSUME NEW E, NEW ss \in Seq(Seq(E)), Apart(ss), \A i \in 1..Len(ss) : OnceEach(ss[i])
  PROVE  OnceEach(FlattenSeq(ss))
<1> DEFINE Ok(x) == Apart(x) /\ \A i \in 1..Len(x) : OnceEach(x[i])
           S == {x \in Seq(Seq(E)) : Ok(x) => OnceEach(FlattenSeq(x))}
<1>1. <<>> \in S
  BY FlattenEmpty, OnceEmpty
<1>2. ASSUME NEW x \in Seq(Seq(E)), NEW s \in Seq(E), x \in S PROVE Append(x, s) \in S
  <2>1. PICK y \in Seq(Seq(E)) : y = Append(x, s)
    BY AppendProperties
  <2>2. /\ Len(y) = Len(x) + 1 /\ Len(x) \in Nat /\ y[Len(y)] = s
        /\ \A i \in 1..Len(x) : y[i] = x[i]
    BY <2>1, AppendProperties, LenProperties
  <2>3. 1..Len(x) \subseteq 1..Len(y) /\ Len(y) \in 1..Len(y) /\ Len(y) \notin 1..Len(x)
    BY <2>2
  <2>4. ASSUME Ok(y) PROVE OnceEach(FlattenSeq(y))
    <3>1. Ok(x) /\ OnceEach(s)
      BY <2>2, <2>3, <2>4 DEF Apart
    <3>2. \A i \in 1..Len(x) : ToSet(x[i]) \cap ToSet(s) = {}
      <4> TAKE i \in 1..Len(x)
      <4>1. i \in 1..Len(y) /\ i # Len(y)
        BY <2>3
      <4>2. ToSet(y[i]) \cap ToSet(y[Len(y)]) = {}
        BY <2>3, <2>4, <4>1 DEF Apart
      <4> QED BY <2>2, <4>2
    <3>3. FlattenSeq(x) \in Seq(E) /\ ToSet(FlattenSeq(x)) = Contents(x)
      BY FlattenType, FlattenContents
    <3>4. Contents(x) \cap ToSet(s) = {}
      <4>1. ToSet(x) = {x[i] : i \in 1..Len(x)}
        BY ToSetSeq
      <4> QED BY <3>2, <4>1 DEF Contents
    <3>5. OnceEach(FlattenSeq(x))
      BY <1>2, <3>1
    <3>6. FlattenSeq(y) = FlattenSeq(x) \o s
      BY <2>1, FlattenAppend
    <3>7. ToSet(FlattenSeq(x)) \cap ToSet(s) = {}
      BY <3>3, <3>4
    <3> HIDE DEF Ok, S
    <3> QED BY <3>1, <3>3, <3>5, <3>6, <3>7, OnceConcat
  <2> QED BY <2>1, <2>4
<1> HIDE DEF S
<1>3. Seq(Seq(E)) \subseteq S
  BY <1>1, <1>2, SeqInduction
<1> QED BY <1>3 DEF S

\* A selection repeats nothing that the list does not.
THEOREM OnceSelected ==
  ASSUME NEW E, NEW T, NEW s \in Seq(E), OnceEach(s)
  PROVE  OnceEach(Selected(s, T))
<1> DEFINE S == {x \in Seq(E) : OnceEach(x) => OnceEach(Selected(x, T))}
<1>1. <<>> \in S
  BY SelectedEmpty, OnceEmpty
<1>2. ASSUME NEW x \in Seq(E), NEW e \in E, x \in S PROVE Append(x, e) \in S
  <2>1. PICK y \in Seq(E) : y = Append(x, e)
    BY AppendProperties
  <2>2. /\ Len(y) = Len(x) + 1 /\ Len(x) \in Nat /\ y[Len(y)] = e
        /\ \A i \in 1..Len(x) : y[i] = x[i]
    BY <2>1, AppendProperties, LenProperties
  <2>3. ASSUME OnceEach(y) PROVE OnceEach(Selected(y, T))
    <3>1. 1..Len(x) \subseteq 1..Len(y) /\ Len(y) \in 1..Len(y) /\ Len(y) \notin 1..Len(x)
      BY <2>2
    <3>2. OnceEach(x) /\ \A i \in 1..Len(x) : x[i] # e
      BY <2>2, <2>3, <3>1 DEF OnceEach
    <3>3. Selected(x, T) \in Seq(E) /\ ToSet(Selected(x, T)) = ToSet(x) \cap T
      BY SelectedType, SelectedSet
    <3>4. e \notin ToSet(x)
      BY <3>2, ToSetSeq
    <3>5. Selected(y, T) = IF e \in T THEN Append(Selected(x, T), e) ELSE Selected(x, T)
      BY <2>1, SelectedAppend
    <3>6. OnceEach(Selected(x, T)) /\ e \notin ToSet(Selected(x, T))
      BY <1>2, <3>2, <3>3, <3>4
    <3>7. OnceEach(Append(Selected(x, T), e))
      BY <3>3, <3>6, OnceAppend
    <3> QED BY <3>5, <3>6, <3>7
  <2> QED BY <2>1, <2>3
<1> HIDE DEF S
<1>3. Seq(E) \subseteq S
  BY <1>1, <1>2, SeqInduction
<1> QED BY <1>3 DEF S

\* The largest value of a list that is not empty.
THEOREM LargestValue ==
  ASSUME NEW E, NEW v \in [E -> Int], NEW s \in Seq(E), s # <<>>
  PROVE  \E e \in ToSet(s) : \A d \in ToSet(s) : v[d] <= v[e]
<1> DEFINE Has(x) == \E e \in ToSet(x) : \A d \in ToSet(x) : v[d] <= v[e]
           S == {x \in Seq(E) : x # <<>> => Has(x)}
<1>1. <<>> \in S
  OBVIOUS
<1>2. ASSUME NEW x \in Seq(E), NEW e \in E, x \in S PROVE Append(x, e) \in S
  <2>1. ToSet(Append(x, e)) = ToSet(x) \cup {e} /\ ToSet(x) \subseteq E
    BY ToSetAppend, ToSetSeq
  <2>2. Append(x, e) \in Seq(E)
    BY AppendProperties
  <2>3. CASE x = <<>>
    <3>1. ToSet(x) = {}
      BY <2>3 DEF ToSet
    <3> QED BY <2>1, <2>2, <3>1
  <2>4. CASE x # <<>>
    <3>1. PICK b \in ToSet(x) : \A d \in ToSet(x) : v[d] <= v[b]
      BY <1>2, <2>4
    <3>2. v[b] \in Int /\ v[e] \in Int /\ \A d \in ToSet(x) : v[d] \in Int
      BY <2>1
    <3>3. Has(Append(x, e))
      <4>1. CASE v[e] <= v[b]
        BY <2>1, <3>1, <3>2, <4>1
      <4>2. CASE v[b] <= v[e]
        BY <2>1, <3>1, <3>2, <4>2
      <4> QED BY <3>2, <4>1, <4>2
    <3> QED BY <2>2, <3>3
  <2> QED BY <2>3, <2>4
<1> HIDE DEF S
<1>3. Seq(E) \subseteq S
  BY <1>1, <1>2, SeqInduction
<1> QED BY <1>3 DEF S
===============================================================================
