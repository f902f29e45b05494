-------------------------- MODULE SnapshotGenerator --------------------------
(* snapshot/generator.py: the prompt for the model, built from the groups of a *)
(* correlation cycle under a token budget, and cached by a hash of the groups. *)
(* A prompt is the sequence of the groups it serializes; a group is a record   *)
(* [services, count, priority, tokens], where tokens is the estimated length   *)
(* of its text.  The text shows more of a group than the hash covers (first    *)
(* seen, change candidates, topology), so two groups that differ in tokens     *)
(* only are different groups with the same key.                                *)
EXTENDS Integers, FiniteSets, Lists

CONSTANTS
  Reports,      \* the group lists the generator may be given
  Budget,       \* SnapshotBudget.available_for_groups
  Ttl,          \* time to live of the cached prompt, in ticks, by agent state
  MaxAge,       \* an age no time to live exceeds; ages stop growing there
  None

ASSUME MaxAgeAssumption ==
  MaxAge \in Nat /\ \A st \in DOMAIN Ttl : Ttl[st] \in 0..MaxAge

\* Negative where more tokens are reserved than there are.
ASSUME BudgetAssumption == Budget \in Int

\* A group stands for the text it is serialized to.
Groups == UNION {ToSet(groups) : groups \in Reports}

\* The engine computes priorities P0 to P3; the estimate is a length divided by four.
ASSUME GroupsAssumption ==
  /\ Reports \subseteq Seq(Groups)
  /\ \A g \in Groups : g.priority \in 0..3 /\ g.tokens \in Nat

VARIABLES
  cachedHash,   \* SnapshotGenerator._cached_hash, or None
  cachedPrompt, \* SnapshotGenerator._cached_prompt, <<>> for None
  cacheAge,     \* time since SnapshotGenerator._cache_time
  answer,       \* what the last generate returned: [groups, prompt, hit, inTime]
  built         \* history: what the last prompt was built of, and the time since

generator == <<cachedHash, cachedPrompt, cacheAge, answer, built>>

Key(g) == <<g.services, g.count, g.priority>>

KeysOf(groups) == {Key(groups[i]) : i \in DOMAIN groups}

Copies(groups, k) == Cardinality({i \in DOMAIN groups : Key(groups[i]) = k})

\* The hash is taken over the sorted multiset of keys: the order of the groups,
\* and everything outside the keys, is left out.
ComputeHash(groups) == [k \in KeysOf(groups) |-> Copies(groups, k)]

IsCacheValid(hash, st) ==
  cachedHash # None /\ hash = cachedHash /\ cacheAge < Ttl[st]

\* Variant of SortByPriority: the groups as they come.
SortByPriorityNot(groups) == groups

\* Stable sort, P0 first.
SortByPriority(groups) ==
  LET tier(p) == Selected(groups, {g \in ToSet(groups) : g.priority = p})
  IN  tier(0) \o tier(1) \o tier(2) \o tier(3)

Tokens(groups) == FoldLeft(LAMBDA n, g : n + g.tokens, 0, groups)

\* Variants of ApplyBudget: P0 has to fit as well; the check leaves out the group
\* that is about to be added.
ApplyBudgetToAll(sorted) ==
  FoldLeft(LAMBDA kept, g :
             IF Tokens(kept) + g.tokens <= Budget THEN Append(kept, g) ELSE kept,
           <<>>, sorted)
ApplyBudgetLate(sorted) ==
  FoldLeft(LAMBDA kept, g :
             IF g.priority = 0 \/ Tokens(kept) < Budget THEN Append(kept, g) ELSE kept,
           <<>>, sorted)

\* A group that does not fit is skipped, and later groups are still tried.
ApplyBudget(sorted) ==
  FoldLeft(LAMBDA kept, g :
             IF g.priority = 0 \/ Tokens(kept) + g.tokens <= Budget
             THEN Append(kept, g) ELSE kept,
           <<>>, sorted)

AssemblePrompt(groups) == ApplyBudget(SortByPriority(groups))

GeneratorInit ==
  /\ cachedHash = None
  /\ cachedPrompt = <<>>
  /\ cacheAge = MaxAge
  /\ built = [groups |-> <<>>, age |-> MaxAge]
  /\ answer = [groups |-> <<>>, prompt |-> <<>>, hit |-> FALSE, inTime |-> TRUE]

Older(age) == IF age < MaxAge THEN age + 1 ELSE age

\* The monotonic clock; outside the calls, nothing else ages the cache.
Age ==
  /\ cacheAge' = Older(cacheAge)
  /\ built' = [built EXCEPT !.age = Older(@)]
  /\ UNCHANGED <<cachedHash, cachedPrompt, answer>>

\* The cached prompt is returned, whatever the groups show beyond the hash.
\* inTime is what the caller may hope for: the prompt was built within the time to
\* live.
Hit(groups, st) ==
  answer' = [groups |-> groups, prompt |-> cachedPrompt, hit |-> TRUE,
             inTime |-> built.age < Ttl[st]]

\* Variant of ServeFromCache: a hit renews the entry.
ServeFromCacheRenewed(groups, st) ==
  /\ Hit(groups, st)
  /\ cacheAge' = 0
  /\ UNCHANGED <<cachedHash, cachedPrompt, built>>

ServeFromCache(groups, st) ==
  /\ Hit(groups, st)
  /\ UNCHANGED <<cachedHash, cachedPrompt, cacheAge, built>>

Assemble(groups) ==
  /\ built' = [groups |-> groups, age |-> 0]
  /\ answer' = [groups |-> groups, prompt |-> AssemblePrompt(groups), hit |-> FALSE,
                inTime |-> TRUE]

Rebuild(groups) ==
  /\ Assemble(groups)
  /\ cachedHash' = ComputeHash(groups)
  /\ cachedPrompt' = AssemblePrompt(groups)
  /\ cacheAge' = 0

MayHit(groups, st, force) ==
  ~force /\ st # "incident" /\ IsCacheValid(ComputeHash(groups), st)

\* Variant of Generate: a prompt built for an INCIDENT, or by force, is not cached.
GenerateAside(groups, st, force) ==
  \/ MayHit(groups, st, force) /\ ServeFromCache(groups, st)
  \/ /\ ~MayHit(groups, st, force)
     /\ \/ ~force /\ st # "incident" /\ Rebuild(groups)
        \/ /\ force \/ st = "incident"
           /\ Assemble(groups) /\ UNCHANGED <<cachedHash, cachedPrompt, cacheAge>>

Generate(groups, st, force) ==
  \/ MayHit(groups, st, force) /\ ServeFromCache(groups, st)
  \/ ~MayHit(groups, st, force) /\ Rebuild(groups)

InvalidateCache ==
  /\ cachedHash' = None
  /\ cachedPrompt' = <<>>
  /\ UNCHANGED <<cacheAge, answer, built>>

GeneratorNext ==
  \/ Age
  \/ \E groups \in Reports, st \in DOMAIN Ttl, force \in BOOLEAN :
       Generate(groups, st, force)
  \/ InvalidateCache

GeneratorSpec == GeneratorInit /\ [][GeneratorNext]_generator
-----------------------------------------------------------------------------
(* Properties                                                                 *)

GeneratorTypeOK ==
  /\ cachedHash = None \/ DOMAIN cachedHash \subseteq UNION {KeysOf(gs) : gs \in Reports}
  /\ KeysOf(cachedPrompt) \subseteq UNION {KeysOf(gs) : gs \in Reports}
  /\ cacheAge \in 0..MaxAge
  /\ built.groups \in Reports \cup {<<>>} /\ built.age \in 0..MaxAge
  /\ answer.hit \in BOOLEAN /\ answer.inTime \in BOOLEAN

\* The budget never costs a P0 group its place: every P0 group the caller passed
\* is named in the prompt it gets back, from the cache or not.
P0InPrompt ==
  \A i \in DOMAIN answer.groups :
    answer.groups[i].priority = 0 => Key(answer.groups[i]) \in KeysOf(answer.prompt)

SameKeys(groups, others) ==
  /\ KeysOf(groups) = KeysOf(others)
  /\ \A k \in KeysOf(groups) : Copies(groups, k) = Copies(others, k)

\* How stale an answer of generate may be.  What a group shows beyond its key (when
\* it was first seen, its change candidates) may be that of an earlier report; but
\* it is the last report a prompt was built of, by whichever way through generate
\* and for whichever state, its groups have the keys of the caller's, as often, and
\* it is younger than the time to live of the caller's state, however many hits
\* there were in between: _is_cache_valid and the end of generate.
HitRepeatsLastBuild ==
  /\ answer.prompt = AssemblePrompt(built.groups)
  /\ SameKeys(answer.groups, built.groups)
  /\ answer.inTime

\* Groups below P0 are dropped, never truncated, to stay within the budget: a
\* prompt that holds one is within it as a whole.
WithinBudget ==
  (\E i \in DOMAIN answer.prompt : answer.prompt[i].priority # 0)
    => Tokens(answer.prompt) <= Budget

\* A dropped group did not fit: with all the more urgent groups that were kept,
\* a fresh prompt had no room for it.
DroppedDidNotFit ==
  ~answer.hit =>
    \A i \in DOMAIN answer.groups :
      LET g == answer.groups[i]
          before == Selected(answer.prompt,
                      {h \in ToSet(answer.prompt) : h.priority <= g.priority})
      IN  g \in ToSet(answer.prompt) \/ Tokens(before) + g.tokens > Budget
=============================================================================
