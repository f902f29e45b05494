-------------------------- MODULE ServeCycleProofs --------------------------
(* Theorems about ServeCycle and about the SnapshotGenerator in it, for all    *)
(* reports, budgets and durations that satisfy their assumptions.              *)
EXTENDS ServeCycle, SequenceTheorems, TLAPS

\* One step of the sum that Tokens is.
AddTokens(ctx, n, g) == n + g.tokens
Adding == INSTANCE FoldTheory WITH Step <- AddTokens

\* One step of the loop of ApplyBudget: _apply_budget in generator.py.
KeepGroup(ctx, kept, g) ==
  IF g.priority = 0 \/ Tokens(kept) + g.tokens <= Budget
  THEN Append(kept, g) ELSE kept
Keeping == INSTANCE FoldTheory WITH Step <- KeepGroup

\* What the prompt and the reports are made of.
GroupSeq == Seq(Groups)

\* The instances of FoldTheory speak of the generator's own operators.
LEMMA SameToSet == \A s : ToSet(s) = Adding!ToSet(s)
BY DEF ToSet, Adding!ToSet

\* The same for Selected.
LEMMA SameSelected == \A s, T : Selected(s, T) = Adding!Selected(s, T)
BY Zenon DEF Selected, Adding!Selected, FlattenSeq, Adding!FlattenSeq

\* The set of a list's elements, as the lemmas below use it.
LEMMA ListSet ==
  ASSUME NEW E, NEW s \in Seq(E), NEW t \in Seq(E)
  PROVE  /\ ToSet(s) \subseteq E
         /\ ToSet(s \o t) = ToSet(s) \cup ToSet(t)
<1>1. Adding!ToSet(s) \subseteq E
  BY Adding!ToSetSeq
<1>2. Adding!ToSet(s \o t) = Adding!ToSet(s) \cup Adding!ToSet(t)
  BY Adding!ToSetConcat
<1> QED BY <1>1, <1>2, SameToSet, Zenon

\* The empty list has no elements.
LEMMA EmptySet == ToSet(<<>>) = {}
BY DEF ToSet

\* Append adds its element.
LEMMA AppendSet ==
  ASSUME NEW E, NEW s \in Seq(E), NEW e \in E
  PROVE  ToSet(Append(s, e)) = ToSet(s) \cup {e}
<1>1. Adding!ToSet(Append(s, e)) = Adding!ToSet(s) \cup {e}
  BY Adding!ToSetAppend
<1> QED BY <1>1, SameToSet, Zenon

\* Selected as FoldTheory has it, restated for the lists of groups.
LEMMA SelectedList ==
  ASSUME NEW E, NEW T, NEW s \in Seq(E)
  PROVE  /\ Selected(s, T) \in Seq(E)
         /\ ToSet(Selected(s, T)) = ToSet(s) \cap T
         /\ ToSet(s) \subseteq T => Selected(s, T) = s
         /\ Selected(s, ToSet(s) \cap T) = Selected(s, T)
<1>1. Adding!Selected(s, T) \in Seq(E)
  BY Adding!SelectedType
<1>2. Adding!ToSet(Adding!Selected(s, T)) = Adding!ToSet(s) \cap T
  BY Adding!SelectedSet
<1>3. Adding!ToSet(s) \subseteq T => Adding!Selected(s, T) = s
  BY Adding!SelectedAll
<1>4. Adding!Selected(s, Adding!ToSet(s) \cap T) = Adding!Selected(s, T)
  <2>1. Adding!ToSet(s) \cap (Adding!ToSet(s) \cap T) = Adding!ToSet(s) \cap T
    OBVIOUS
  <2> QED BY <2>1, Adding!SelectedAgree
<1> QED BY <1>1, <1>2, <1>3, <1>4, SameToSet, SameSelected, Zenon

\* One group more is selected if and only if it is in T.
LEMMA SelectedLonger ==
  ASSUME NEW E, NEW T, NEW s \in Seq(E), NEW e \in E
  PROVE  Selected(Append(s, e), T)
           = IF e \in T THEN Append(Selected(s, T), e) ELSE Selected(s, T)
<1>1. Adding!Selected(Append(s, e), T)
        = IF e \in T THEN Append(Adding!Selected(s, T), e) ELSE Adding!Selected(s, T)
  BY Adding!SelectedAppend
<1> QED BY <1>1, SameSelected, Zenon

\* Nothing is selected from nothing.
LEMMA SelectedNone == \A T : Selected(<<>>, T) = <<>>
BY SameSelected, Adding!SelectedEmpty

\* The tokens of a prompt are a fold.
LEMMA TokensIsFold == \A s : Tokens(s) = Adding!Fold(0, 0, s)
BY Zenon DEF Tokens, Adding!Fold, AddTokens, FoldLeft, Adding!FoldLeft,
   MapThenFoldSet, Adding!MapThenFoldSet, Max, Adding!Max

\* Its steps stay in the naturals.
LEMMA TokensClosed == Adding!Closed(0, Nat, Groups)
BY GroupsAssumption DEF Adding!Closed, AddTokens

\* The tokens of a list of groups are a natural number.
LEMMA TokensType ==
  ASSUME NEW s \in GroupSeq
  PROVE  Tokens(s) \in Nat
<1> DEFINE V == Nat
<1>1. Adding!Closed(0, V, Groups) /\ 0 \in V
  BY TokensClosed
<1> HIDE DEF V
<1>2. Adding!Fold(0, 0, s) \in V
  BY <1>1, Adding!FoldType DEF GroupSeq
<1> QED BY <1>2, TokensIsFold DEF V

\* A group adds its own tokens.
LEMMA TokensAppend ==
  ASSUME NEW s \in GroupSeq, NEW g \in Groups
  PROVE  Tokens(Append(s, g)) = Tokens(s) + g.tokens
<1> DEFINE V == Nat
<1>1. Adding!Closed(0, V, Groups) /\ 0 \in V
  BY TokensClosed
<1> HIDE DEF V
<1>2. Adding!Fold(0, 0, Append(s, g)) = AddTokens(0, Adding!Fold(0, 0, s), g)
  BY <1>1, Adding!FoldAppend DEF GroupSeq
<1> QED BY <1>2, TokensIsFold DEF AddTokens

\* The budget's loop is a fold.
LEMMA BudgetIsFold == \A s : ApplyBudget(s) = Keeping!Fold(0, <<>>, s)
BY Zenon DEF ApplyBudget, Keeping!Fold, KeepGroup, FoldLeft, Keeping!FoldLeft,
   MapThenFoldSet, Keeping!MapThenFoldSet, Max, Keeping!Max

\* Its steps stay lists of groups.
LEMMA KeepClosed == Keeping!Closed(0, GroupSeq, Groups) /\ <<>> \in GroupSeq
BY AppendProperties DEF Keeping!Closed, KeepGroup, GroupSeq

\* What the budget keeps is a list of groups.
LEMMA BudgetType ==
  ASSUME NEW s \in GroupSeq
  PROVE  ApplyBudget(s) \in GroupSeq
<1>1. s \in Seq(Groups)
  BY DEF GroupSeq
<1> QED BY <1>1, KeepClosed, BudgetIsFold, Keeping!FoldType

\* The budget keeps nothing of nothing.
LEMMA BudgetEmpty == ApplyBudget(<<>>) = <<>>
<1>1. Keeping!Fold(0, <<>>, <<>>) = <<>>
  BY Keeping!FoldEmpty
<1> QED BY <1>1, BudgetIsFold

\* The last group is kept when it is P0 or fits beside what was kept before it.
LEMMA BudgetAppend ==
  ASSUME NEW s \in GroupSeq, NEW g \in Groups
  PROVE  ApplyBudget(Append(s, g)) = KeepGroup(0, ApplyBudget(s), g)
<1>1. s \in Seq(Groups)
  BY DEF GroupSeq
<1>2. Keeping!Fold(0, <<>>, Append(s, g)) = KeepGroup(0, Keeping!Fold(0, <<>>, s), g)
  BY <1>1, KeepClosed, Keeping!FoldAppend
<1> QED BY <1>2, BudgetIsFold, Zenon
-----------------------------------------------------------------------------
\* The groups that are as urgent as p or more.
AtMost(p) == {g \in Groups : g.priority <= p}

\* What the budget does to a list that comes with the most urgent groups first.
Fits(s) ==
  LET kept == ApplyBudget(s)
  IN  /\ ToSet(kept) \subseteq ToSet(s)
      /\ \A g \in ToSet(s) : g.priority = 0 => g \in ToSet(kept)
      /\ (\E g \in ToSet(kept) : g.priority # 0)
           => Tokens(kept) <= Budget
      /\ \A g \in ToSet(s) :
           \/ g \in ToSet(kept)
           \/ Tokens(Selected(kept, AtMost(g.priority))) + g.tokens > Budget

\* The empty prompt fits.
LEMMA FitsEmpty == Fits(<<>>)
BY EmptySet, BudgetEmpty, Zenon DEF Fits

\* The tokens of a part of a list never exceed those of the part of a longer one.
LEMMA SelectedTokens ==
  ASSUME NEW s \in GroupSeq, NEW g \in Groups, NEW T
  PROVE  /\ Tokens(Selected(s, T)) \in Nat
         /\ Tokens(Selected(Append(s, g), T))
              >= Tokens(Selected(s, T))
<1>1. Selected(s, T) \in GroupSeq
  BY SelectedList DEF GroupSeq
<1>2. Selected(Append(s, g), T)
        = IF g \in T THEN Append(Selected(s, T), g) ELSE Selected(s, T)
  BY SelectedLonger DEF GroupSeq
<1>3. /\ Tokens(Selected(s, T)) \in Nat
      /\ Tokens(Append(Selected(s, T), g))
           = Tokens(Selected(s, T)) + g.tokens
  BY <1>1, TokensType, TokensAppend
<1>4. g.tokens \in Nat
  BY GroupsAssumption
<1> QED BY <1>2, <1>3, <1>4

\* A list that fits still does when a group that is no more urgent follows.
LEMMA FitsAppend ==
  ASSUME NEW s \in GroupSeq, NEW g \in Groups, Fits(s),
         \A h \in ToSet(s) : h.priority <= g.priority
  PROVE  Fits(Append(s, g))
<1> DEFINE k == ApplyBudget(s)
           l == ApplyBudget(Append(s, g))
<1>1. k \in GroupSeq /\ l = KeepGroup(0, k, g)
  BY BudgetType, BudgetAppend
<1>2. /\ ToSet(Append(s, g)) = ToSet(s) \cup {g}
      /\ ToSet(Append(k, g)) = ToSet(k) \cup {g}
      /\ ToSet(s) \subseteq Groups
  BY <1>1, ListSet, AppendSet DEF GroupSeq
<1>3. /\ Tokens(k) \in Nat /\ g.tokens \in Nat /\ g.priority \in 0..3
      /\ Tokens(Append(k, g)) = Tokens(k) + g.tokens
      /\ \A h \in Groups : h.priority \in 0..3 /\ h.tokens \in Nat
  BY <1>1, TokensType, TokensAppend, GroupsAssumption
<1>4. /\ ToSet(k) \subseteq ToSet(s)
      /\ \A h \in ToSet(s) : h.priority = 0 => h \in ToSet(k)
      /\ (\E h \in ToSet(k) : h.priority # 0) => Tokens(k) <= Budget
      /\ \A h \in ToSet(s) :
           \/ h \in ToSet(k)
           \/ Tokens(Selected(k, AtMost(h.priority))) + h.tokens > Budget
  BY Zenon DEF Fits
<1> HIDE DEF k, l
<1>5. ASSUME NEW h \in ToSet(s), h \notin ToSet(k)
      PROVE  Tokens(Selected(Append(k, g), AtMost(h.priority)))
               + h.tokens > Budget
  <2> DEFINE T == AtMost(h.priority)
             a == Tokens(Selected(k, T))
             b == Tokens(Selected(Append(k, g), T))
  <2>1. Append(k, g) \in GroupSeq
    BY <1>1, AppendProperties DEF GroupSeq
  <2>2. a \in Nat /\ b \in Nat /\ b >= a /\ a + h.tokens > Budget /\ h.tokens \in Nat
    BY <1>1, <1>2, <1>3, <1>4, <1>5, <2>1, SelectedTokens
  <2> HIDE DEF a, b
  <2>3. b + h.tokens > Budget
    BY <2>2, BudgetAssumption
  <2> QED BY <2>3 DEF b
<1>6. CASE g.priority = 0 \/ Tokens(k) + g.tokens <= Budget
  <2>1. l = Append(k, g)
    BY <1>1, <1>6 DEF KeepGroup
  <2>2. (\E h \in ToSet(l) : h.priority # 0) => Tokens(l) <= Budget
    <3>1. CASE g.priority = 0
      <4>1. \A h \in ToSet(l) : h.priority = 0
        BY <1>2, <1>3, <1>4, <2>1, <3>1
      <4> QED BY <4>1
    <3>2. CASE g.priority # 0
      BY <1>3, <1>6, <2>1, <3>2
    <3> QED BY <3>1, <3>2
  <2>3. \A h \in ToSet(Append(s, g)) :
          \/ h \in ToSet(l)
          \/ Tokens(Selected(l, AtMost(h.priority))) + h.tokens > Budget
    BY <1>2, <1>5, <2>1
  <2>4. /\ ToSet(l) \subseteq ToSet(Append(s, g))
        /\ \A h \in ToSet(Append(s, g)) : h.priority = 0 => h \in ToSet(l)
    BY <1>2, <1>4, <2>1
  <2> QED BY <2>2, <2>3, <2>4 DEF Fits, l
<1>7. CASE ~(g.priority = 0 \/ Tokens(k) + g.tokens <= Budget)
  <2>1. l = k
    BY <1>1, <1>7 DEF KeepGroup
  <2>2. Tokens(k) + g.tokens > Budget
    BY <1>3, <1>7, BudgetAssumption
  <2>3. Selected(k, AtMost(g.priority)) = k
    <3>1. ToSet(k) \subseteq AtMost(g.priority)
      BY <1>2, <1>4 DEF AtMost
    <3> QED BY <1>1, <3>1, SelectedList DEF GroupSeq
  <2>4. \A h \in ToSet(Append(s, g)) :
          \/ h \in ToSet(l)
          \/ Tokens(Selected(l, AtMost(h.priority))) + h.tokens > Budget
    BY <1>2, <1>4, <2>1, <2>2, <2>3
  <2>5. /\ ToSet(l) \subseteq ToSet(Append(s, g))
        /\ \A h \in ToSet(Append(s, g)) : h.priority = 0 => h \in ToSet(l)
        /\ (\E h \in ToSet(l) : h.priority # 0) => Tokens(l) <= Budget
    BY <1>2, <1>4, <1>7, <2>1
  <2> QED BY <2>4, <2>5 DEF Fits, l
<1> QED BY <1>6, <1>7

\* A list that fits still does when groups that are no more urgent follow.
LEMMA FitsConcat ==
  ASSUME NEW s \in GroupSeq, NEW t \in GroupSeq, Fits(s), NEW p \in 0..3,
         \A g \in ToSet(s) : g.priority <= p,
         \A g \in ToSet(t) : g.priority = p
  PROVE  Fits(s \o t)
<1> DEFINE S == {x \in GroupSeq : (\A g \in ToSet(x) : g.priority = p) => Fits(s \o x)}
<1>1. <<>> \in S
  BY KeepClosed, ConcatEmptySeq DEF GroupSeq
<1>2. ASSUME NEW x \in GroupSeq, NEW g \in Groups, x \in S PROVE Append(x, g) \in S
  <2>1. s \in Seq(Groups) /\ x \in Seq(Groups)
    BY DEF GroupSeq
  <2>2. Append(x, g) \in GroupSeq /\ s \o x \in GroupSeq /\ s \o Append(x, g) = Append(s \o x, g)
    BY <2>1, AppendProperties, ConcatProperties, AppendIsConcat, ConcatAssociative DEF GroupSeq
  <2>3. ToSet(Append(x, g)) = ToSet(x) \cup {g}
        /\ ToSet(s \o x) = ToSet(s) \cup ToSet(x)
    BY <2>1, ListSet, AppendSet
  <2> SUFFICES ASSUME \A h \in ToSet(Append(x, g)) : h.priority = p
               PROVE  Fits(Append(s \o x, g))
    BY <2>2
  <2>4. Fits(s \o x) /\ \A h \in ToSet(s \o x) : h.priority <= g.priority
    BY <1>2, <2>3
  <2> QED BY <2>2, <2>4, FitsAppend
<1> HIDE DEF S
<1>3. GroupSeq \subseteq S
  BY <1>1, <1>2, Adding!SeqInduction DEF GroupSeq
<1> QED BY <1>3 DEF S

\* A prompt made of these groups fits, and has nothing the groups do not have.
LEMMA SortedFits ==
  ASSUME NEW s \in GroupSeq
  PROVE  /\ SortByPriority(s) \in GroupSeq
         /\ ToSet(SortByPriority(s)) = ToSet(s)
         /\ Fits(SortByPriority(s))
<1> DEFINE Tier(p) == Selected(s, {g \in ToSet(s) : g.priority = p})
           Of(p) == {g \in ToSet(s) : g.priority = p}
<1>1. SortByPriority(s) = Tier(0) \o Tier(1) \o Tier(2) \o Tier(3)
  BY DEF SortByPriority
<1>2. s \in Seq(Groups) /\ ToSet(s) \subseteq Groups
  BY ListSet DEF GroupSeq
<1>3. ASSUME NEW p PROVE Tier(p) \in GroupSeq /\ ToSet(Tier(p)) = Of(p)
  <2>1. ToSet(s) \cap Of(p) = Of(p) /\ Tier(p) = Selected(s, Of(p))
    OBVIOUS
  <2> HIDE DEF Tier, Of
  <2>2. Selected(s, Of(p)) \in Seq(Groups)
    BY <1>2, SelectedList
  <2>3. ToSet(Selected(s, Of(p))) = ToSet(s) \cap Of(p)
    BY <1>2, SelectedList
  <2> QED BY <2>1, <2>2, <2>3 DEF GroupSeq
<1> HIDE DEF Tier
<1>4. ASSUME NEW p \in 0..3 PROVE \A g \in ToSet(Tier(p)) : g.priority = p
  BY <1>3
<1>5. ASSUME NEW a \in GroupSeq, NEW b \in GroupSeq
      PROVE  a \o b \in GroupSeq
             /\ ToSet(a \o b) = ToSet(a) \cup ToSet(b)
  BY ConcatProperties, ListSet DEF GroupSeq
<1> DEFINE t0 == Tier(0)
           t1 == Tier(0) \o Tier(1)
           t2 == Tier(0) \o Tier(1) \o Tier(2)
           t3 == Tier(0) \o Tier(1) \o Tier(2) \o Tier(3)
<1>6. /\ t1 \in GroupSeq /\ ToSet(t1) = Of(0) \cup Of(1)
      /\ t2 \in GroupSeq /\ ToSet(t2) = Of(0) \cup Of(1) \cup Of(2)
      /\ t3 \in GroupSeq /\ ToSet(t3) = Of(0) \cup Of(1) \cup Of(2) \cup Of(3)
  BY <1>3, <1>5
<1>7. Fits(t0)
  <2>1. <<>> \o Tier(0) = Tier(0)
    BY <1>3, ConcatEmptySeq DEF GroupSeq
  <2>2. 0 \in 0..3 /\ \A g \in ToSet(<<>>) : g.priority <= 0
    BY EmptySet
  <2>3. Fits(<<>> \o Tier(0))
    BY <1>3, <1>4, <2>2, FitsEmpty, FitsConcat, KeepClosed
  <2> QED BY <2>1, <2>3
<1>8. Fits(t1)
  BY <1>3, <1>7, FitsConcat
<1>9. Fits(t2)
  BY <1>3, <1>6, <1>8, FitsConcat
<1>10. Fits(t3)
  BY <1>3, <1>6, <1>9, FitsConcat
<1>11. ToSet(s) = Of(0) \cup Of(1) \cup Of(2) \cup Of(3)
  BY <1>2, GroupsAssumption
<1> QED BY <1>1, <1>6, <1>10, <1>11

-----------------------------------------------------------------------------
(* The generator alone: what is cached, and what was answered, is the prompt   *)
(* that was built last.                                                        *)

BuiltTyped == built \in [groups : Reports \cup {<<>>}, age : 0..MaxAge]

\* Nothing is cached, or the last prompt that was built, under the hash of what it was
\* built of and as old as it is.
CacheIsBuilt ==
  \/ cachedHash = None /\ cachedPrompt = <<>>
  \/ /\ cachedHash = ComputeHash(built.groups)
     /\ cachedPrompt = AssemblePrompt(built.groups)
     /\ cacheAge = built.age

\* What was answered is the last prompt that was built, of groups with the hash of the
\* caller's; of the caller's own, when it was not cached.
AnswerIsBuilt ==
  /\ ComputeHash(answer.groups) = ComputeHash(built.groups)
  /\ answer.prompt = AssemblePrompt(built.groups)
  /\ ~answer.hit => built.groups = answer.groups
  /\ answer.inTime = TRUE

GeneratorInv ==
  /\ BuiltTyped
  /\ CacheIsBuilt
  /\ AnswerIsBuilt
  /\ answer.hit \in BOOLEAN
  /\ cacheAge \in 0..MaxAge

\* The reports are lists of groups.
LEMMA ReportsAreLists == Reports \cup {<<>>} \subseteq GroupSeq
BY GroupsAssumption, KeepClosed DEF GroupSeq

\* The cache and the answer are empty at first.
LEMMA GeneratorInitInv == GeneratorInit => GeneratorInv
<1> SUFFICES ASSUME GeneratorInit PROVE GeneratorInv
  OBVIOUS
<1>1. /\ cachedHash = None /\ cachedPrompt = <<>> /\ cacheAge = MaxAge
      /\ built = [groups |-> <<>>, age |-> MaxAge]
      /\ answer = [groups |-> <<>>, prompt |-> <<>>, hit |-> FALSE, inTime |-> TRUE]
  BY Zenon DEF GeneratorInit
<1>2. AssemblePrompt(<<>>) = <<>>
  <2>1. SortByPriority(<<>>) = <<>>
    BY SelectedNone DEF SortByPriority
  <2> QED BY <2>1, BudgetEmpty DEF AssemblePrompt
<1>3. MaxAge \in 0..MaxAge
  BY MaxAgeAssumption
<1>4. BuiltTyped /\ CacheIsBuilt
  BY <1>1, <1>3 DEF BuiltTyped, CacheIsBuilt
<1>5. AnswerIsBuilt /\ answer.hit \in BOOLEAN
  BY <1>1, <1>2 DEF AnswerIsBuilt
<1> QED BY <1>1, <1>3, <1>4, <1>5 DEF GeneratorInv

\* One call of generate, with a hit or without, keeps the invariant.
LEMMA GenerateInv ==
  ASSUME GeneratorInv, NEW groups \in Reports, NEW st \in DOMAIN Ttl, NEW force,
         Generate(groups, st, force)
  PROVE  GeneratorInv'
<1>1. CASE MayHit(groups, st, force) /\ ServeFromCache(groups, st)
  <2>1. /\ answer' = [groups |-> groups, prompt |-> cachedPrompt, hit |-> TRUE,
                      inTime |-> built.age < Ttl[st]]
        /\ UNCHANGED <<cachedHash, cachedPrompt, cacheAge, built>>
    BY <1>1, Zenon DEF ServeFromCache, Hit
  <2>2. cachedHash # None /\ ComputeHash(groups) = cachedHash /\ cacheAge < Ttl[st]
    BY <1>1, Zenon DEF MayHit, IsCacheValid
  <2>3. /\ cachedHash = ComputeHash(built.groups)
        /\ cachedPrompt = AssemblePrompt(built.groups)
        /\ cacheAge = built.age
    BY <2>2 DEF GeneratorInv, CacheIsBuilt
  <2>4. /\ answer'.groups = groups /\ answer'.prompt = cachedPrompt
        /\ answer'.hit = TRUE /\ answer'.inTime = TRUE
    BY <2>1, <2>2, <2>3
  <2>5. AnswerIsBuilt'
    BY <2>1, <2>2, <2>3, <2>4 DEF AnswerIsBuilt
  <2>6. CacheIsBuilt' /\ BuiltTyped'
    BY <2>1 DEF GeneratorInv, CacheIsBuilt, BuiltTyped
  <2> QED BY <2>1, <2>4, <2>5, <2>6 DEF GeneratorInv
<1>2. CASE Rebuild(groups)
  <2>1. /\ cachedHash' = ComputeHash(groups)
        /\ cachedPrompt' = AssemblePrompt(groups)
        /\ cacheAge' = 0
        /\ built' = [groups |-> groups, age |-> 0]
        /\ answer' = [groups |-> groups, prompt |-> AssemblePrompt(groups), hit |-> FALSE,
                      inTime |-> TRUE]
    BY <1>2, Zenon DEF Rebuild, Assemble
  <2>2. AnswerIsBuilt' /\ answer'.hit \in BOOLEAN
    BY <2>1 DEF AnswerIsBuilt
  <2>3. CacheIsBuilt'
    BY <2>1 DEF CacheIsBuilt
  <2>4. BuiltTyped' /\ cacheAge' \in 0..MaxAge
    BY <2>1, MaxAgeAssumption DEF BuiltTyped
  <2> QED BY <2>2, <2>3, <2>4 DEF GeneratorInv
<1> QED BY <1>1, <1>2 DEF Generate

\* So does every step of the generator.
LEMMA GeneratorStep == GeneratorInv /\ [GeneratorNext]_generator => GeneratorInv'
<1> SUFFICES ASSUME GeneratorInv, [GeneratorNext]_generator PROVE GeneratorInv'
  OBVIOUS
<1>1. CASE Age
  <2>1. /\ UNCHANGED <<cachedHash, cachedPrompt, answer>>
        /\ cacheAge' = Older(cacheAge)
        /\ built' = [built EXCEPT !.age = Older(@)]
    BY <1>1, Zenon DEF Age
  <2>2. built \in [groups : Reports \cup {<<>>}, age : 0..MaxAge]
    BY DEF GeneratorInv, BuiltTyped
  <2>3. \A age \in 0..MaxAge : Older(age) \in 0..MaxAge
    BY MaxAgeAssumption DEF Older
  <2>4. BuiltTyped' /\ built'.groups = built.groups /\ built'.age = Older(built.age)
    BY <2>1, <2>2, <2>3 DEF BuiltTyped
  <2>5. CacheIsBuilt' /\ AnswerIsBuilt'
    BY <2>1, <2>4 DEF GeneratorInv, CacheIsBuilt, AnswerIsBuilt
  <2> QED BY <2>1, <2>3, <2>4, <2>5 DEF GeneratorInv
<1>2. CASE InvalidateCache
  BY <1>2 DEF InvalidateCache, GeneratorInv, BuiltTyped, CacheIsBuilt, AnswerIsBuilt
<1>3. CASE UNCHANGED generator
  BY <1>3 DEF generator, GeneratorInv, BuiltTyped, CacheIsBuilt, AnswerIsBuilt
<1>4. ASSUME NEW groups \in Reports, NEW st \in DOMAIN Ttl, NEW force,
             Generate(groups, st, force)
      PROVE  GeneratorInv'
  BY <1>4, GenerateInv
<1> QED BY <1>1, <1>2, <1>3, <1>4 DEF GeneratorNext

\* Lists with the same hash have the same keys, as often each.
LEMMA HashHasKeys ==
  ASSUME NEW s, NEW t, ComputeHash(s) = ComputeHash(t)
  PROVE  SameKeys(s, t)
<1>1. \A l : DOMAIN ComputeHash(l) = KeysOf(l)
  BY DEF ComputeHash
<1>2. KeysOf(s) = KeysOf(t)
  BY <1>1, Zenon
<1>3. \A l : \A k \in KeysOf(l) : ComputeHash(l)[k] = Copies(l, k)
  BY DEF ComputeHash
<1>4. ASSUME NEW k \in KeysOf(s) PROVE Copies(s, k) = Copies(t, k)
  <2>1. ComputeHash(s)[k] = Copies(s, k) /\ ComputeHash(t)[k] = Copies(t, k)
    BY <1>2, <1>3
  <2> QED BY <2>1, Zenon
<1> QED BY <1>2, <1>4 DEF SameKeys

\* The keys are those of the groups, whatever their order.
LEMMA KeysOfSet ==
  ASSUME NEW s
  PROVE  KeysOf(s) = {Key(g) : g \in ToSet(s)}
BY DEF KeysOf, ToSet

\* What holds of every answer, by the facts about the prompt it was given.
LEMMA AnswerFacts ==
  ASSUME GeneratorInv
  PROVE  P0InPrompt /\ HitRepeatsLastBuild /\ WithinBudget
         /\ DroppedDidNotFit
<1> DEFINE source == built.groups
           sorted == SortByPriority(source)
           prompt == ApplyBudget(sorted)
<1>1. /\ ComputeHash(answer.groups) = ComputeHash(source)
      /\ answer.prompt = AssemblePrompt(source)
      /\ ~answer.hit => source = answer.groups
      /\ answer.inTime
  BY DEF GeneratorInv, AnswerIsBuilt
<1>0. source \in GroupSeq
  BY ReportsAreLists DEF GeneratorInv, BuiltTyped
<1>2. answer.prompt = prompt
  BY <1>1 DEF AssemblePrompt
<1>8. HitRepeatsLastBuild
  BY <1>1, HashHasKeys DEF HitRepeatsLastBuild
<1>6. KeysOf(answer.groups) = KeysOf(source)
  BY <1>1, HashHasKeys DEF SameKeys
<1> HIDE DEF source
<1>3. sorted \in GroupSeq /\ ToSet(sorted) = ToSet(source) /\ Fits(sorted)
  BY <1>0, SortedFits
<1>4. prompt \in GroupSeq
  BY <1>3, BudgetType
<1>5. /\ ToSet(prompt) \subseteq ToSet(source)
      /\ \A g \in ToSet(source) : g.priority = 0 => g \in ToSet(prompt)
      /\ (\E g \in ToSet(prompt) : g.priority # 0)
           => Tokens(prompt) <= Budget
      /\ \A g \in ToSet(source) :
           \/ g \in ToSet(prompt)
           \/ Tokens(Selected(prompt, AtMost(g.priority))) + g.tokens > Budget
  BY <1>3, Zenon DEF Fits
<1> HIDE DEF prompt, sorted
<1>7. P0InPrompt
  <2> SUFFICES ASSUME NEW i \in DOMAIN answer.groups, answer.groups[i].priority = 0
               PROVE  Key(answer.groups[i]) \in KeysOf(prompt)
    BY <1>2 DEF P0InPrompt
  <2>1. Key(answer.groups[i]) \in KeysOf(source)
    BY <1>6 DEF KeysOf
  <2>2. PICK g \in ToSet(source) : Key(answer.groups[i]) = Key(g)
    BY <2>1, KeysOfSet
  <2>3. g.priority = 0
    BY <2>2 DEF Key
  <2> QED BY <1>5, <2>2, <2>3, KeysOfSet
<1>9. WithinBudget
  BY <1>2, <1>5 DEF WithinBudget, ToSet
<1>10. DroppedDidNotFit
  <2> SUFFICES ASSUME ~answer.hit, NEW i \in DOMAIN source
               PROVE  \/ source[i] \in ToSet(prompt)
                      \/ Tokens(Selected(prompt,
                           {h \in ToSet(prompt) : h.priority <= source[i].priority}))
                           + source[i].tokens > Budget
    BY <1>1, <1>2 DEF DroppedDidNotFit
  <2> DEFINE g == source[i]
             before == {h \in ToSet(prompt) : h.priority <= g.priority}
  <2>1. g \in ToSet(source)
    BY DEF ToSet
  <2>2. prompt \in Seq(Groups)
    BY <1>4 DEF GroupSeq
  <2>3. ToSet(prompt) \subseteq Groups
    BY <2>2, ListSet
  <2>4. before = ToSet(prompt) \cap AtMost(g.priority)
    BY <2>3 DEF AtMost
  <2>5. Selected(prompt, before) = Selected(prompt, AtMost(g.priority))
    BY <2>2, <2>4, SelectedList
  <2> HIDE DEF g, before
  <2>6. \/ g \in ToSet(prompt)
        \/ Tokens(Selected(prompt, before)) + g.tokens > Budget
    BY <1>5, <2>1, <2>5
  <2> QED BY <2>6 DEF g, before
<1> QED BY <1>7, <1>8, <1>9, <1>10

\* Every P0 group the caller passed is named in the prompt it gets back.
THEOREM PromptHoldsP0 == GeneratorSpec => []P0InPrompt
BY GeneratorInitInv, GeneratorStep, AnswerFacts, PTL DEF GeneratorSpec

\* An answer from the cache is the last prompt that was built, of groups with the
\* caller's keys and within the time to live of the caller's state.
THEOREM HitsAreOfTheLastBuild == GeneratorSpec => []HitRepeatsLastBuild
BY GeneratorInitInv, GeneratorStep, AnswerFacts, PTL DEF GeneratorSpec

\* A prompt with a group below P0 is within the budget as a whole.
THEOREM BudgetIsKept == GeneratorSpec => []WithinBudget
BY GeneratorInitInv, GeneratorStep, AnswerFacts, PTL DEF GeneratorSpec

\* What a fresh prompt leaves out had no room beside the more urgent groups.
THEOREM NothingDroppedForNothing == GeneratorSpec => []DroppedDidNotFit
BY GeneratorInitInv, GeneratorStep, AnswerFacts, PTL DEF GeneratorSpec
-----------------------------------------------------------------------------
(* The loop: its types, and the age of its cache.                              *)

\* What the proofs need to know of the types.
Typed ==
  /\ state \in Machine!States
  /\ cacheAge \in 0..MaxAge
  /\ pc \in {"waiting", "interpreting", "stopped"}
  /\ wakeIn \in Nat

Inv == Typed /\ CacheAgesInWatching

\* No entry of the cache is valid for a cycle that turns from WATCHING to ALERT.
LEMMA NoHitOnAlert ==
  ASSUME Inv, TimedOut, state = "watching", NEW hash
  PROVE  ~IsCacheValid(hash, "alert")
BY MaxAgeAssumption, TtlAssumption 
   DEF Inv, Typed, CacheAgesInWatching, TimedOut, IsCacheValid, Machine!States

\* An update ends in a state of the machine, and in ALERT only from ALERT or by elevated
\* groups from WATCHING.
LEMMA UpdateState ==
  ASSUME state \in Machine!States, NEW groups, NEW healthy \in BOOLEAN,
         Machine!Update(groups, healthy)
  PROVE  /\ state' \in Machine!States
         /\ state' = "alert" =>
              state = "alert" \/ (state = "watching" /\ Machine!Elevated(groups))
BY DEF Machine!Update, Machine!States, Machine!Degrade, Machine!Recover,
   Machine!RaiseAlert, Machine!StayWatching, Machine!Reignite, Machine!StartCalm,
   Machine!StayCalm, Machine!EndAlert, Machine!HoldIncident, Machine!machine

\* A report without groups is not elevated.
LEMMA EmptyNotElevated == ~Machine!Elevated(<<>>)
BY DEF Machine!Elevated

\* After the end of a cycle the next wait is long enough by itself.
LEMMA EndCycleInv ==
  ASSUME EndCycle, Typed, state' \in Machine!States
  PROVE  /\ wakeIn' \in Nat
         /\ pc' \in {"waiting", "stopped"}
         /\ pc' = "waiting" /\ state' = "watching" => wakeIn' >= Ttl["alert"]
BY IntervalAssumption, FreshnessAssumption DEF EndCycle, Typed, Machine!States

\* The loop starts with an empty cache.
LEMMA InitInv == Init => Inv
<1> SUFFICES ASSUME Init PROVE Inv
  OBVIOUS
<1>1. Typed
  BY MaxAgeAssumption, TtlAssumption, IntervalAssumption
     DEF Init, Typed, Machine!Init, Machine!States, GeneratorInit
<1>2. CacheAgesInWatching
  BY DEF Init, CacheAgesInWatching, GeneratorInit
<1> QED BY <1>1, <1>2 DEF Inv

\* A tick ages the cache and shortens the wait alike.
LEMMA TickInv == Inv /\ Tick => Inv'
<1> SUFFICES ASSUME Inv, Tick PROVE Inv'
  OBVIOUS
<1>1. /\ UNCHANGED <<state, cachedHash, pc>>
      /\ cacheAge' = Older(cacheAge)
      /\ \/ pc = "waiting" /\ wakeIn > 0 /\ wakeIn' = wakeIn - 1
         \/ pc = "interpreting" /\ UNCHANGED wakeIn
  BY Zenon DEF Tick, Machine!Tick, Age
<1>2. Typed'
  BY <1>1, MaxAgeAssumption, TtlAssumption DEF Inv, Typed, Older
<1>3. CacheAgesInWatching'
  BY <1>1, MaxAgeAssumption, TtlAssumption
     DEF Inv, Typed, Older, CacheAgesInWatching, Machine!States
<1> QED BY <1>2, <1>3 DEF Inv

\* A cycle, with or without a model call to wait for.
LEMMA WakeInv == Inv /\ Wake => Inv'
<1> SUFFICES ASSUME Inv, Wake PROVE Inv'
  OBVIOUS
<1>1. CASE DrainRaises
  BY <1>1 DEF DrainRaises, Inv, Typed, CacheAgesInWatching, machine, generator
<1>2. CASE CorrelateRaises
  <2>1. UNCHANGED <<state, cachedHash, cacheAge>> /\ EndCycle
    BY <1>2 DEF CorrelateRaises, machine, generator
  <2> QED BY <2>1, EndCycleInv, MaxAgeAssumption, TtlAssumption
          DEF Inv, Typed, CacheAgesInWatching, Machine!States
<1>3. ASSUME NEW groups \in Reports, GenerateRaises(groups) PROVE Inv'
  <2>1. UNCHANGED <<cachedHash, cacheAge>> /\ EndCycle
    BY <1>3 DEF GenerateRaises, generator
  <2>2. state' \in Machine!States
    BY <1>3, UpdateState DEF GenerateRaises, Inv, Typed
  <2> QED BY <2>1, <2>2, EndCycleInv, MaxAgeAssumption, TtlAssumption
          DEF Inv, Typed, CacheAgesInWatching, Machine!States
<1>4. ASSUME NEW groups \in Reports, Cycle(groups) PROVE Inv'
  <2>1. state' \in Machine!States
    BY <1>4, UpdateState DEF Cycle, Inv, Typed
  <2>2. cacheAge' \in 0..MaxAge
    <3>1. cacheAge' = cacheAge \/ cacheAge' = 0
      BY <1>4, Zenon DEF Cycle, Generate, ServeFromCache, Rebuild
    <3> QED BY <3>1, MaxAgeAssumption, TtlAssumption DEF Inv, Typed
  <2>3. CASE pc' = "interpreting" /\ UNCHANGED wakeIn
    BY <2>1, <2>2, <2>3 DEF Inv, Typed, CacheAgesInWatching
  <2>4. CASE EndCycle
    BY <2>1, <2>2, <2>4, EndCycleInv, MaxAgeAssumption, TtlAssumption
       DEF Inv, Typed, CacheAgesInWatching, Machine!States
  <2> QED BY <1>4, <2>3, <2>4 DEF Cycle
<1> QED BY <1>1, <1>2, <1>3, <1>4 DEF Wake

\* The end of a cycle, however the model did.
LEMMA ReturnInv == Inv /\ Return => Inv'
<1> SUFFICES ASSUME Inv, Return PROVE Inv'
  OBVIOUS
<1>1. UNCHANGED <<cachedHash, cacheAge>> /\ EndCycle
  BY DEF Return, ModelAnswers, ModelFails, InterpretRaises, generator
<1>2. state' \in Machine!States
  <2>1. CASE InterpretRaises
    BY <2>1, UpdateState DEF InterpretRaises, Inv, Typed
  <2>2. CASE ModelAnswers \/ ModelFails
    BY <2>2 DEF ModelAnswers, ModelFails, machine, Inv, Typed
  <2> QED BY <2>1, <2>2 DEF Return
<1> QED BY <1>1, <1>2, EndCycleInv, MaxAgeAssumption, TtlAssumption
        DEF Inv, Typed, CacheAgesInWatching, Machine!States

\* Every step of the loop keeps the invariant.
LEMMA StepInv == Inv /\ [Next]_vars => Inv'
<1> SUFFICES ASSUME Inv, [Next]_vars PROVE Inv'
  OBVIOUS
<1>1. CASE Signal \/ Stop
  BY <1>1 DEF Signal, Stop, machine, generator, Inv, Typed, CacheAgesInWatching
<1>2. CASE Finished \/ UNCHANGED vars
  BY <1>2 DEF Finished, vars, Inv, Typed, CacheAgesInWatching
<1> QED BY <1>1, <1>2, TickInv, WakeInv, ReturnInv DEF Next

\* While the agent waits in WATCHING, the cache is on its way to being too old
\* for ALERT.
THEOREM CacheAges == Spec => []CacheAgesInWatching
<1>1. Inv => CacheAgesInWatching
  BY DEF Inv
<1> QED BY InitInv, StepInv, <1>1, PTL DEF Spec

\* The cycle that raises an ALERT is not answered from the cache.
THEOREM AlertIsFresh == Spec => FreshOnAlert
<1> DEFINE Fresh == state # "alert" /\ state' = "alert"
                      => pc' = "interpreting" \/ outcome' = "error"
<1>1. Inv /\ [Next]_vars => [Fresh]_vars
  <2> SUFFICES ASSUME Inv, Next, state # "alert", state' = "alert"
               PROVE  pc' = "interpreting" \/ outcome' = "error"
    BY DEF Fresh
  <2>1. CASE Tick \/ Signal \/ Stop \/ Finished
    BY <2>1 DEF Tick, Signal, Stop, Finished, Machine!Tick, machine, vars
  <2>2. CASE Return
    <3>1. InterpretRaises
      BY <2>2 DEF Return, ModelAnswers, ModelFails, machine
    <3> QED BY <3>1 DEF InterpretRaises, Machine!Update, Machine!Degrade, Machine!Recover,
               Machine!RaiseAlert, Machine!StayWatching, Machine!Reignite, Machine!StartCalm,
               Machine!StayCalm, Machine!EndAlert, Machine!HoldIncident, Machine!machine
  <2>3. CASE DrainRaises \/ CorrelateRaises
    BY <2>3 DEF DrainRaises, CorrelateRaises, machine
  <2>4. ASSUME NEW groups \in Reports, GenerateRaises(groups) PROVE outcome' = "error"
    BY <2>4 DEF GenerateRaises
  <2>5. ASSUME NEW groups \in Reports, Cycle(groups) PROVE pc' = "interpreting"
    <3>1. state = "watching" /\ Machine!Elevated(groups)
      BY <2>5, UpdateState DEF Cycle, Inv, Typed
    <3>2. groups # <<>>
      BY <3>1, EmptyNotElevated
    <3>3. ~MayHit(groups, state', FALSE)
      BY <2>5, <3>1, NoHitOnAlert DEF Cycle, MayHit
    <3>4. ~answer'.hit
      <4>1. Rebuild(groups)
        BY <2>5, <3>3 DEF Cycle, Generate
      <4> QED BY <4>1, Zenon DEF Rebuild, Assemble
    <3> QED BY <2>5, <3>2, <3>4 DEF Cycle
  <2> QED BY <2>1, <2>2, <2>3, <2>4, <2>5 DEF Next, Wake
<1>2. Spec => [][Fresh]_vars
  BY InitInv, StepInv, <1>1, PTL DEF Spec
<1> QED BY <1>2 DEF FreshOnAlert
-----------------------------------------------------------------------------
(* The loop drives the machine and the generator by their own steps only.      *)

MachineFacts == INSTANCE AgentStateProofs

\* The report the model is being asked about, and the machine hears about again
\* when interpret raises, is one of the cycle's reports.
AsksAboutReport == pc = "interpreting" => answer.groups \in Reports

\* Only a cycle makes a prompt, and of its report.
LEMMA StepAsks == AsksAboutReport /\ [Next]_vars => AsksAboutReport'
<1> SUFFICES ASSUME AsksAboutReport, [Next]_vars, pc' = "interpreting"
             PROVE  answer'.groups \in Reports
  BY DEF AsksAboutReport
<1>1. CASE Tick \/ Signal \/ Stop \/ Finished \/ UNCHANGED vars
  BY <1>1 DEF AsksAboutReport, Tick, Signal, Stop, Finished, Age, generator, vars
<1>2. CASE DrainRaises \/ CorrelateRaises \/ Return
  BY <1>2 DEF DrainRaises, CorrelateRaises, Return, ModelAnswers, ModelFails, InterpretRaises,
     EndCycle
<1>3. ASSUME NEW groups \in Reports, GenerateRaises(groups) PROVE FALSE
  BY <1>3 DEF GenerateRaises, EndCycle
<1>4. ASSUME NEW groups \in Reports, Cycle(groups) PROVE answer'.groups \in Reports
  <2>1. \/ answer' = [groups |-> groups, prompt |-> cachedPrompt, hit |-> TRUE,
                      inTime |-> built.age < Ttl[state']]
        \/ answer' = [groups |-> groups, prompt |-> AssemblePrompt(groups),
                      hit |-> FALSE, inTime |-> TRUE]
    BY <1>4, Zenon DEF Cycle, Generate, ServeFromCache, Hit, Rebuild, Assemble
  <2>2. answer'.groups = groups
    BY <2>1
  <2> QED BY <2>2
<1> QED BY <1>1, <1>2, <1>3, <1>4 DEF Next, Wake

\* Every step of the loop is a step of the generator or leaves it alone.
LEMMA GeneratorStepOfLoop == Inv /\ Inv' /\ [Next]_vars => [GeneratorNext]_generator
<1> SUFFICES ASSUME Inv, Inv', [Next]_vars PROVE [GeneratorNext]_generator
  OBVIOUS
<1>1. CASE Tick
  BY <1>1 DEF Tick, GeneratorNext
<1>2. CASE Signal \/ Stop \/ Finished \/ DrainRaises \/ CorrelateRaises \/ Return \/ UNCHANGED vars
  BY <1>2 DEF Signal, Stop, Finished, DrainRaises, CorrelateRaises, Return, ModelAnswers,
     ModelFails, InterpretRaises, generator, vars
<1>3. ASSUME NEW groups \in Reports, GenerateRaises(groups) PROVE UNCHANGED generator
  BY <1>3 DEF GenerateRaises, generator
<1>4. ASSUME NEW groups \in Reports, Cycle(groups) PROVE GeneratorNext
  <2>1. state' \in DOMAIN Ttl
    BY MaxAgeAssumption, TtlAssumption DEF Inv, Typed
  <2>2. Generate(groups, state', FALSE)
    BY <1>4 DEF Cycle
  <2> QED BY <2>1, <2>2 DEF GeneratorNext
<1> QED BY <1>1, <1>2, <1>3, <1>4 DEF Next, Wake

\* Every step of the loop is a step of the state machine or leaves it alone.
LEMMA MachineStepOfLoop == AsksAboutReport /\ [Next]_vars => [Machine!Next]_(Machine!vars)
<1> SUFFICES ASSUME AsksAboutReport, [Next]_vars PROVE [Machine!Next]_(Machine!vars)
  OBVIOUS
<1>1. CASE Tick
  BY <1>1 DEF Tick, Machine!Next
<1>2. CASE Signal \/ Stop \/ Finished \/ DrainRaises \/ CorrelateRaises \/ ModelAnswers
           \/ ModelFails \/ UNCHANGED vars
  BY <1>2 DEF Signal, Stop, Finished, DrainRaises, CorrelateRaises, ModelAnswers,
     ModelFails, machine, vars, Machine!vars
<1>3. CASE InterpretRaises
  <2>1. Machine!Update(answer.groups, FALSE) /\ answer.groups \in Reports
    BY <1>3 DEF InterpretRaises, AsksAboutReport
  <2> QED BY <2>1 DEF Machine!Next
<1>4. ASSUME NEW groups \in Reports, GenerateRaises(groups) \/ Cycle(groups)
      PROVE  Machine!Next
  <2>1. Machine!Update(groups, TRUE)
    BY <1>4 DEF GenerateRaises, Cycle
  <2> QED BY <2>1 DEF Machine!Next
<1> QED BY <1>1, <1>2, <1>3, <1>4 DEF Next, Wake, Return

\* So the update that follows interpretation is one of a report.
LEMMA AsksHolds == Spec => []AsksAboutReport
<1>1. Init => AsksAboutReport
  BY DEF Init, AsksAboutReport
<1> QED BY <1>1, StepAsks, PTL DEF Spec

\* The loop uses the generator as the generator's own specification has it.
THEOREM LoopDrivesGenerator == Spec => GeneratorSpec
<1>1. Init => GeneratorInit
  BY DEF Init
<1> QED BY <1>1, InitInv, StepInv, GeneratorStepOfLoop, PTL DEF Spec, GeneratorSpec

\* What holds of the prompts of the generator's own specification holds of those the
\* loop hands to the model.
THEOREM LoopPrompts ==
  Spec => [](/\ P0InPrompt /\ HitRepeatsLastBuild
             /\ WithinBudget /\ DroppedDidNotFit)
BY LoopDrivesGenerator, PromptHoldsP0, HitsAreOfTheLastBuild, BudgetIsKept,
   NothingDroppedForNothing, PTL

\* The loop uses the state machine as the machine's own specification has it.
THEOREM LoopDrivesMachine == Spec => Machine!Spec
<1>1. Init => Machine!Init
  BY DEF Init
<1> QED BY <1>1, AsksHolds, MachineStepOfLoop, PTL DEF Spec, Machine!Spec
-----------------------------------------------------------------------------
\* AgentStateProofs speaks of its own copy of the machine, which is the same.
LEMMA SameMachine ==
  /\ Machine!Init <=> MachineFacts!Init
  /\ [Machine!Next]_(Machine!vars) <=> [MachineFacts!Next]_(MachineFacts!vars)
BY Zenon DEF Machine!Init, MachineFacts!Init, Machine!Next, MachineFacts!Next, Machine!Tick, MachineFacts!Tick,
     Machine!Update, MachineFacts!Update, Machine!DeclareIncident,
     MachineFacts!DeclareIncident, Machine!ResolveIncident,
     MachineFacts!ResolveIncident, Machine!Degrade,
     MachineFacts!Degrade, Machine!Recover, MachineFacts!Recover,
     Machine!RaiseAlert, MachineFacts!RaiseAlert, Machine!StayWatching,
     MachineFacts!StayWatching, Machine!Reignite, MachineFacts!Reignite,
     Machine!StartCalm, MachineFacts!StartCalm, Machine!StayCalm,
     MachineFacts!StayCalm, Machine!EndAlert, MachineFacts!EndAlert,
     Machine!HoldIncident, MachineFacts!HoldIncident, Machine!machine,
     MachineFacts!machine, Machine!history, MachineFacts!history,
     Machine!vars, MachineFacts!vars, Machine!Elevated,
     MachineFacts!Elevated, Machine!Older, MachineFacts!Older,
     Machine!States, MachineFacts!States

\* The reports are as AgentState assumes them.
LEMMA ReportsTyped ==
  \A r \in Reports : /\ r = <<>> \/ DOMAIN r = 1..Len(r)
                     /\ \A i \in DOMAIN r : r[i].priority \in Nat
<1> SUFFICES ASSUME NEW r \in Reports
             PROVE  /\ r = <<>> \/ DOMAIN r = 1..Len(r)
                    /\ \A i \in DOMAIN r : r[i].priority \in Nat
  OBVIOUS
<1>1. r \in Seq(Groups)
  BY GroupsAssumption
<1>2. DOMAIN r = 1..Len(r) /\ \A i \in DOMAIN r : r[i] \in Groups
  BY <1>1, LenProperties
<1> QED BY <1>2, GroupsAssumption

\* Its invariant is kept by every step of the loop.
LEMMA MachineInv == AsksAboutReport /\ MachineFacts!Inv /\ [Next]_vars => MachineFacts!Inv'
<1> SUFFICES ASSUME AsksAboutReport, MachineFacts!Inv, [Next]_vars PROVE MachineFacts!Inv'
  OBVIOUS
<1>1. [MachineFacts!Next]_(MachineFacts!vars)
  BY MachineStepOfLoop, SameMachine
<1>2. CalmPeriod \in Nat \ {0} /\ None \notin Nat
  BY MachineAssumption
<1> QED BY <1>1, <1>2, ReportsTyped, MachineFacts!StepInv

\* It holds at first.
LEMMA MachineInit == Machine!Init => MachineFacts!Inv
<1>1. CalmPeriod \in Nat \ {0} /\ None \notin Nat
  BY MachineAssumption
<1> QED BY <1>1, ReportsTyped, SameMachine, MachineFacts!InitInv

\* It types the machine.
LEMMA MachineTyped == MachineFacts!Inv => Machine!TypeOK
BY Zenon DEF MachineFacts!Inv, MachineFacts!TypeOK, Machine!TypeOK, Machine!States,
   MachineFacts!States

\* What is cached and answered is made of reports.
LEMMA GeneratorTyped == GeneratorInv => GeneratorTypeOK
<1> SUFFICES ASSUME GeneratorInv PROVE GeneratorTypeOK
  OBVIOUS
<1> DEFINE All == UNION {KeysOf(gs) : gs \in Reports}
<1>1. KeysOf(built.groups) \subseteq All
  <2>1. KeysOf(<<>>) = {}
    BY KeysOfSet, EmptySet
  <2> QED BY <2>1 DEF GeneratorInv, BuiltTyped
<1>2. cachedHash = None \/ DOMAIN cachedHash \subseteq All
  <2>1. \A s : DOMAIN ComputeHash(s) = KeysOf(s)
    BY DEF ComputeHash
  <2> QED BY <1>1, <2>1 DEF GeneratorInv, CacheIsBuilt
<1>3. KeysOf(cachedPrompt) \subseteq All
  <2>1. CASE cachedPrompt = <<>>
    BY <2>1, KeysOfSet, EmptySet
  <2>2. CASE cachedPrompt = AssemblePrompt(built.groups)
    <3>1. built.groups \in GroupSeq
      BY ReportsAreLists DEF GeneratorInv, BuiltTyped
    <3>2. ToSet(cachedPrompt) \subseteq ToSet(built.groups)
      BY <2>2, <3>1, SortedFits, Zenon DEF AssemblePrompt, Fits
    <3> QED BY <1>1, <3>2, KeysOfSet
  <2> QED BY <2>1, <2>2 DEF GeneratorInv, CacheIsBuilt
<1>4. built.groups \in Reports \cup {<<>>} /\ built.age \in 0..MaxAge
  BY DEF GeneratorInv, BuiltTyped
<1>5. answer.hit \in BOOLEAN /\ answer.inTime \in BOOLEAN
  BY DEF GeneratorInv, AnswerIsBuilt
<1> QED BY <1>2, <1>3, <1>4, <1>5 DEF GeneratorInv, GeneratorTypeOK

LoopTyped == shutdown \in BOOLEAN /\ outcome \in Outcomes

\* Every step keeps the types of what is the loop's own.
LEMMA LoopTypedStep == LoopTyped /\ [Next]_vars => LoopTyped'
<1> SUFFICES ASSUME LoopTyped, [Next]_vars PROVE LoopTyped'
  OBVIOUS
<1> USE DEF LoopTyped, Outcomes
<1>1. CASE Tick \/ Signal \/ Stop \/ Finished \/ UNCHANGED vars
  BY <1>1 DEF Tick, Signal, Stop, Finished, vars
<1>2. CASE DrainRaises \/ CorrelateRaises \/ Return
  BY <1>2 DEF DrainRaises, CorrelateRaises, Return, ModelAnswers, ModelFails, InterpretRaises,
     EndCycle
<1>3. ASSUME NEW groups \in Reports, GenerateRaises(groups) PROVE LoopTyped'
  BY <1>3 DEF GenerateRaises, EndCycle
<1>4. ASSUME NEW groups \in Reports, Cycle(groups) PROVE LoopTyped'
  BY <1>4 DEF Cycle, EndCycle
<1> QED BY <1>1, <1>2, <1>3, <1>4 DEF Next, Wake

\* Every variable of the loop and of the parts it drives keeps its type.
THEOREM TypeCorrect == Spec => []TypeOK
<1> DEFINE All == Inv /\ AsksAboutReport /\ GeneratorInv /\ MachineFacts!Inv /\ LoopTyped
<1>1. Init => All
  <2>1. Init => LoopTyped /\ AsksAboutReport
    BY DEF Init, LoopTyped, Outcomes, AsksAboutReport
  <2> QED BY <2>1, InitInv, GeneratorInitInv, MachineInit DEF Init
<1>2. All /\ [Next]_vars => All'
  BY StepInv, StepAsks, MachineInv, LoopTypedStep, GeneratorStep, GeneratorStepOfLoop
<1>3. All => TypeOK
  BY MachineTyped, GeneratorTyped DEF TypeOK, LoopTyped, Inv, Typed
<1> QED BY <1>1, <1>2, <1>3, PTL DEF Spec
=============================================================================
