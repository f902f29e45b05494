# nthlayer-correlate in TLA+

This directory holds TLA+ models of nthlayer-correlate, TLC configurations that check them on small
instances, and theorems about them that TLAPS checks. The models are translated from
`src/nthlayer_correlate/` (Python); paths below are relative to that package. The design document
`docs/superpowers/specs/2026-03-17-sitrep-phase2-design.md` is called *the design*; it is where the
statements come from that the code turns out not to satisfy.

## 1. The system

nthlayer-correlate takes operational events in, correlates them into prioritised groups, and has a language
model assess the groups. It is made to run as an agent (`serve_command`) or as one-shot commands
(`correlate_command`, `replay_command`, `status_command`). At this commit the package is deprecated: `main` prints
where the functionality went and exits with 1 (`cli.py:798`), the parser of the command line is no longer wired to
it (`_legacy_main_kept_for_reference`), and the commands are functions kept for whoever imports them. The models are of
these functions; `serve` and `correlate` below mean them, called by an importer's own entry point.

```
 clients ──HTTP──> WebhookIngester ──put_nowait──> event_queue (10000)
                                                      │ drained when the loop's wait ends
                                                      v
   timer ──> _serve_loop ── insert ──> SQLiteEventStore (events + FTS index)
                │                            │ get_by_time_window, change queries
                │<──── groups ── CorrelationEngine.correlate
                ├── StateMachine.update(groups, healthy) ── get_interval ──> next wait
                ├── SnapshotGenerator.generate(groups, state) ── prompt, cache hit?
                └── ModelInterface.interpret(prompt) ── verdicts or template verdicts
                                                           │ put
 nthlayer-measure ── evaluation verdicts ──> verdict store <┘
                                                │  ^
                          trigger, recent       v  │ put verdict, put again with its thread
 manifests ── load_dependency_graph ──> correlate_command ──> decision record, Slack, nthlayer-respond
               blast_radius_services      │ fetch_alerts, fetch_metric_breaches <── Prometheus
                                          │ get_trace_evidence, topology divergence <── Tempo
                                          └ CorrelationEngine.correlate over a store of its own
```

`serve` is one process that lives long; each `correlate` is a process of its own, started for one evaluation
verdict; they, `nthlayer-measure` and `nthlayer-respond` meet in the verdict store.

| Component | Source | State it keeps | Operations |
|---|---|---|---|
| agent state machine | `state.py` | state, alert start, calm since | `update`, `declare_incident`, `resolve_incident`, `get_interval`, `get_cache_ttl` |
| snapshot generator | `snapshot/generator.py`, `token.py` | cached hash, prompt and its time | `generate`, `invalidate_cache` |
| serve loop | `cli.py` `_serve_loop` | the wait, the shutdown event, the queue | wait, drain, cycle, signal handler, finally block |
| model interface | `snapshot/model.py` | the verdict store it is given | `interpret` |
| webhook ingester | `ingestion/webhook.py` | server, open connections | `_handle_connection`, `_process_event`, `start`, `stop` |
| event store | `store/sqlite.py` | table, full-text index, open transaction | `insert`, `insert_batch`, `expire_old`, queries, `close` |
| correlation engine | `correlation/*.py` | none | `correlate` and its five stages |
| severity pre-score | `ingestion/severity.py` | none | `pre_score` |
| correlate command | `cli.py`, `notifications.py` | verdict store, decision store | trigger lookup, gathering, correlation, reasoning, verdict, record, Slack, responder |
| Prometheus, graph | `prometheus.py` | none | `fetch_alerts`, `fetch_metric_breaches`, `load_dependency_graph`, `blast_radius_services` |
| reasoning | `reasoning.py` | none | prompt, call, parsing, fallback |
| trace backends | `traces/*.py` | none | evidence of spans, topology divergence |
| replay, status | `cli.py` | none | one pass over a scenario; counts |
| configuration | `config.py` | none | reads YAML |
| command line entry | `cli.py` `main` | none | prints the deprecation message, exits with 1 |

### What is hard about it

- **One event loop, several tasks.** Connection handlers run whenever the serve loop awaits its timer, the
  model, or the closing of the server; the drain and the correlation await nothing.
- **State that outlives a cycle.** The prompt cache and the state machine's calm timer are carried from
  cycle to cycle on two clocks, and the cache's key is not the prompt.
- **Acknowledged is not stored.** A handler answers 200 when the event is on an in-memory queue; the insert
  happens up to five minutes later, in another task, and may fail.
- **Clients retry.** A deadline may cut a connection between the queueing of an event and the reading of its
  answer, and an id given twice is an error of the store.
- **Two tables, one transaction opened implicitly.** Rows and index entries are written by separate
  statements; only one of the three writing operations rolls back.
- **Overlapping links.** A service may take part in several topology links, its signals go to one of them.
- **Several effects, nothing undone.** The correlate command stores a verdict, writes a record, posts a message,
  stores the verdict again from memory and starts a responder; it may fail or be killed between any two, while
  other processes write to the same store.
- **Sources that fail quietly.** Most failures of Prometheus and the trace backend are taken for silence, some
  are not caught at all; "nothing found" and "found nothing" look alike.
- **Declared graphs.** Manifests may repeat a service, be broken, and declare cycles.
- **Text against instants.** Timestamps are compared as text in the queries and sorts and as instants in the
  grouping.

### What makes each component correct

- *State machine*: calm is real calm; an alarm is never lost for more than the one cycle of recovery; an
  ALERT is given up only after ten quiet minutes, an INCIDENT only by its resolution.
- *Snapshot generator*: a prompt is of the last report one was built of, which has the same keys as the caller's
  and is younger than its time to live; P0 groups are never left out, the budget is kept below P0, what is dropped
  did not fit.
- *Serve loop*: an ALERT is never raised on a stale prompt, hits do not silence the model for ever, ALERT
  ends, shutdown ends.
- *Ingestion*: nothing taken is lost or reordered while the loop runs; an acknowledged event is stored or
  queued; the queue empties; connections and shutdown end, but for a long answer that nobody reads.
- *Event store*: operations are atomic and durable; the index and the table agree whenever they are
  committed, and never so that an entry points to a row that is gone.
- *Engine*: every event of the window is reported exactly once, priorities spread along links, change
  candidates reach the group of their signal.

- *Graph and blast radius*: the graph is what the last manifest of each service declares; the walk ends and
  finds exactly the services the incident may reach.
- *Gathering*: ending without a verdict means that the sources that answered had nothing recent to say.
- *Trace divergence*: between services with profiles, what is reported is what the backend can tell of calls and
  declarations.
- *Correlate command*: no effect is about a verdict that is not stored, exit codes tell what was stored, recorded and
  handed over, a message's thread is found again from its verdict, causes are the model's last words.
- *Verdict store, as its writers use it*: it only grows, lineage stays inside it and never runs in a circle.

`PROJECT.json` lists the hazards behind these, each at its line, with the properties that address it.

## 2. The modules

| Module | Models | Proofs |
|---|---|---|
| `AlarmLatch` | what the state machine promises about its alarm (abstract) | |
| `AgentState` | `state.py` | `AgentStateProofs` |
| `SnapshotGenerator` | `snapshot/generator.py` | `ServeCycleProofs` |
| `ServeCycle` | `_serve_loop` from the drain's end to the next wait; extends `SnapshotGenerator`, instantiates `AgentState` | `ServeCycleProofs` |
| `IngestPath` | `ingestion/webhook.py` and the loop's queue and drain | `IngestPathProofs` |
| `AtomicStore` | what the store promises of what is durable (abstract) | |
| `EventStore` | `store/sqlite.py`'s writing operations, statement by statement | `EventStoreProofs` |
| `Correlation` | `correlation/*.py` over the store's queries, and `replay_command` | `CorrelationProofs` |
| `DependencyGraph` | `prometheus.py`: `load_dependency_graph`, `blast_radius_services` | |
| `TraceEvidence` | `traces/tempo.py`, `traces/topology.py` | |
| `Gathering` | `correlate_command` to the groups; extends the two above | `GatheringProofs` |
| `LineageLedger` | what the writers of verdicts promise together (abstract) | |
| `VerdictStore` | the verdict store of `nthlayer_learn` and `nthlayer-measure`, both external | |
| `ModelInterface` | `snapshot/model.py`, put by put | |
| `CorrelateCommand` | `correlate_command` from the groups, `reasoning.py`'s outcomes, `notifications.py` | |
| `VerdictWriters` | commands, calls of `interpret` and `nthlayer-measure` on one store | `VerdictWritersProofs` |
| `Lists` | `Selected`, the elements of a list that are in a set, as the engine and the generator use it | |
| `FoldTheory` | no code: what the proofs know of `FoldLeft`, `FlattenSeq` and `Selected` | its own |

Each has an `MC...` module with the values of its small instance, where it needs more than the `.cfg` can say.
The operators that stand just before a definition and are called variants of it are plausible mistakes
in that definition; `PROJECT.json` pairs every property with one it must tell from the code.

### AgentState
`update` has nine ways through, one action each: `Degrade`, `Recover`, `RaiseAlert`, `StayWatching`, `Reignite`,
`StartCalm`, `StayCalm`, `EndAlert`, `HoldIncident`; `DeclareIncident` and `ResolveIncident` are the other two
methods. `_calm_since` is kept as an age that stops at the ten-minute threshold (`CalmPeriod`), the only number
it is compared with; `_alert_start` is only set or not set, since nothing reads its value. `quiet`, `heard`,
`streak` and `byHand` are history; the last keeps a resolution by hand, which may come in any state, apart from
an ALERT that ends by itself.
The model's clock only goes forward; the code uses the wall clock.

### SnapshotGenerator
A prompt is the sequence of the groups it serialises; a group carries its estimated token count. The hash is
the multiset of `(services, count, priority)`, exactly what `compute_hash` joins, so that two groups with one
key and different texts exist in the instance. A hit returns the earlier one's text, and nothing in the code objects.
`generate` is `ServeFromCache` or `Rebuild`; sorting and
budgeting are operators (`SortByPriority`, `ApplyBudget`). `built` is history: the groups of the last build and its age,
counted apart from `cacheAge`; `answer.inTime` says whether that age was below the time to live when `generate`
answered. The specification is `GeneratorSpec`, its parts `GeneratorInit` and
`GeneratorNext`, because `ServeCycle` extends the module. Left out: the wording, and hash collisions.

### ServeCycle
Everything between two awaits is one step: the wake-up runs correlation, `update`, `generate`
(`Cycle`), and ends in the model call or in the next wait, whose length `EndCycle` reads from the state *after*
the cycle. Failures are actions of their own: `DrainRaises` (outside the cycle's try), `CorrelateRaises`,
`GenerateRaises` (after the update was taken), `ModelFails` (swallowed inside `interpret`), `InterpretRaises`
(the only path on which the loop reports an unhealthy model). A signal may arrive at any time. The report of a
cycle is any member of `Reports`; the drain and the connections are `IngestPath`'s. A tick is one minute;
computation takes less than a tick. Serve passes no topology, so no report contains a P0 group, and it never
calls `declare_incident`: INCIDENT is unreachable here, and is exercised in `AgentState`.

### IngestPath
A request is its kind: what the store takes, what it cannot bind, what validation rejects, the same with a type so
long that the answer repeating it has to wait for the peer to read ("echoed"), what makes the
parser raise an exception nobody catches, what is refused before its body is read. `Handle` is everything
from the end of the read to the write of the answer, which has no await in it. A connection then ends in one of
four ways: `Close`, the handler's `finally` after a short answer; `Flush`, the peer reads a long one; `Leave`, the peer
goes; `TimeOut`, the 30-second deadline, which cancels the handler *once*. The `finally` block of the cancelled handler waits for
the transport without a limit (`webhook.py:195`), so that a long answer nobody reads turns from "unread" into "overdue"
and stays. The drain takes one event per
step so that a crash may fall in between; no handler runs during it. `InsertRaises` takes the loop out,
`Stop` is the shutdown event ending the wait, `CloseStore` the `finally` block. Clients are external: they
repeat a request, under the same id if they gave one, until they have an answer. `WaitsForConnections` is
`Server.wait_closed`'s behaviour from Python 3.12 on.

### EventStore
Every SQL statement is a step, between any two of which the process may die (`Close`) and each of which may
fail (`Raise`). `rows`, `index` are what the connection sees, `crows`, `cindex` what is committed; a crash, a
`close` and a rollback bring the committed state back. An event stands for its id; a row is
`<<rowid, event>>`, and a rowid is given again after the last row is deleted, as SQLite does without
AUTOINCREMENT. `CallersCarryOn` says whether a caller goes on using the store after an exception. In the
program none does: `serve`, `replay` and `correlate` all end on it; the store's interface permits it.

### Correlation
`Correlate` is `CorrelationEngine.correlate`: the query, `Deduplicate`, `GroupTemporal`, `GroupTopology`,
`FindChangeCandidates`, `AssembleGroups` with its two passes, and the final sort. Rows with equal timestamps come in any
order. Each event has two times: `at`, the instant, and `stamp`, what the text of its timestamp
compares by. A linked group lists both services of its link, even the one whose signals an earlier link has
taken. `Replay` is `replay_command` on a scenario of the events chosen: all of them in UTC and with one severity,
as `scenario_event_to_sitrep` makes them, in a window from the first to a minute after the last, at least five long, with the
look-back computed from it. `FindChangeCandidates` keeps one entry per service, as the dict of `changes.py:85` does:
when a service has two signals, which takes an event that is not in UTC, the later one's candidates replace the
earlier one's, and a change that explains the earlier group is lost. `ChangesReachGroups` and `OneSignalPerService`
therefore speak of the services whose events report in UTC. Left out: summaries, ids, durations, the direction of a link.

### DependencyGraph
One action per manifest (`ReadFile`, `ReadRaises`), one for the reverse links (`LinkGraph`), one per service the
walk visits (`Visit`), one for the trigger's own dependencies (`AddDependencies`). A file is what reading it
comes to: a manifest, something that is skipped, or something on which the reading raises outside the try (a null
section, a dependency without a name). Lists of services are sets, since the walk computes a set.

### TraceEvidence
`get_trace_evidence` by its phases; a query that fails in any of them ends all. A service without server spans has
no profile; edges come from client spans (`FromSpans`) or from service graph metrics (`FromMetrics`). The search's limit
is on spans as they come, before those without a peer are dropped and repeats merged (`tempo.py:313`), so a full search
(`cut`) may show any of the calls or none. Every series of the metrics becomes an edge, also one that has not moved
in the window (`idle`). `calls`, `cut` and `idle` are history.
`DetectTopologyDivergence` is `topology.py`. Latencies, error rates, operations, top errors and sample traces only
ornament a profile; the queries for them are the phase `details`, which may fail like the others.

### Gathering
`correlate_command` from the manifests to the groups: alerts, breaches, verdicts, traces, closing the backend's
client, divergence, engine. Each source has an action for an answer, one for a failure that is
swallowed where the code swallows it, and `SourceRaises` for one it does not; `CorrelateRaises` is `insert_batch` or the
engine raising. A signal carries whether its
timestamp lies in the engine's window, the only thing the engine asks of it here: that every event
of the window ends in a group is `EveryEventOnce` of `Correlation`. `said` is history: what the answers held.

### VerdictStore, ModelInterface, CorrelateCommand, VerdictWriters
`put` commits one verdict in place of an earlier one of the same id. A verdict is its context, its children, its
Slack thread and its causes; a thread is named after the verdict whose message began it. `CorrelateCommand`
has one action per effect and per outcome of each await, from `LookUp` to `ResponderEnds`, and `Dies` before any
of them: that covers what the code does not catch and a kill alike. `FindOwn`, `FindInContext` and `FindFails` are
`find_slack_thread_ts`, which reads the store twice while others write. `posted` holds what was handed to Slack; `PostUnanswered` is a
message of which no timestamp comes back, delivered or not, and its thread is then one that was found or unknown (`None`). `NoteThread` puts the whole verdict again from memory. The heuristic's causes (`ChangeCandidates`) are empty,
because no source of the command delivers a change event. `ModelInterface` is `interpret` put by put; serve passes a
store if it could open one, replay never. `VerdictWriters` interleaves them all; `Measure` is external: it
stores evaluations and may later note a thread on one.

## 3. What is checked

All runs together take some ten minutes. Deadlock is checked except for `IngestPath`, where the agent may be down
for good and the clients done.

| Run | Instance | Shows |
|---|---|---|
| `AgentState` | reports of at most two groups, P0..P2; the program's threshold of 10 | `CalmImpliesQuiet`: the timer never claims more calm than there was. `TwoAlarmsRaise`: of two elevated healthy updates in a row at most the first is swallowed. `LatchSpec`: the machine refines `AlarmLatch` |
| `SnapshotGenerator` | five groups of two services, lists up to two and five longer ones; budget of two small groups or one large | `P0InPrompt`; `HitRepeatsLastBuild`: an answer is the prompt of the last build, by force or in an INCIDENT included, of a report with the caller's keys, within the caller's time to live; `WithinBudget`, `DroppedDidNotFit` |
| `ServeCycle` | the program's intervals and times to live in minutes; an empty, a calm and two elevated reports; fairness | `CacheAgesInWatching`, `FreshOnAlert`: the cycle that raises an ALERT asks the model. `HitsRunOut`, `AlertSubsides`, `ShutsDown` |
| `IngestPath` | two clients with two requests each, which send every kind of request between them, one of them under the same id every time and with answers it may leave unread; queue of two, one restart, inserts may fail, Python 3.12's `wait_closed`; fairness | `NothingLost`: taken = stored then queued, in order. `AckedIsHeld`: 200 means stored or queued. `QueuedIsStored`. `ConnectionsEnd`: every connection closes or comes to its deadline. `ShutdownCompletes`, unless an overdue connection stays open for ever |
| `EventStore` | one event alone, three batches of two (overlapping, and one that repeats an id) | `IndexFollowsRows`; `StoreSpec`: the store refines `AtomicStore` |
| `EventStoreCarryOn` | the same, for callers that go on after an exception | `NoDanglingEntry`: a row may lack its entry, no entry lacks its row |
| `Correlation` | a chain of four services with the critical one second; up to four of twelve events stored, one of them not in UTC; every window, every replay | `EveryEventOnce`, `OneSignalPerService`, `LinkedToP0IsUrgent`, `ChangesReachGroups` |
| `Gathering` | six directories over four services: empty, chain with a skipped file, diamond, cycles, a service declared twice, a broken file; one alert, breach or verdict per answer; searches cut at three spans; fairness | `GraphIsDeclared`, `BlastRadiusIsExact`, `SilenceIsSilence`, `DivergenceIsReal`, `GatheringEnds` |
| `VerdictWriters` | two evaluations, a command on one, a command on the other or on the first command's verdict, one call of `interpret`, every kind of `--respond-args` but none, any of them dying at any step | `EffectsOfStored`. `ExitCodesTell`: what exit 0 and 1 say of verdict, record, message and noted thread. `ThreadIsKept`: a later command on the verdict finds the message's thread, if the run started it or found it on the trigger. `CausesAreTheModels`, `CallsAreWhole`, `LineageEnds`; `LedgerSpec`: the writers refine `LineageLedger` |

`GeneratorTypeOK` and the machine's `TypeOK` are parts of `TypeOK` of `ServeCycle`; every `TypeOK` is a theorem as
well. `Correlation` keeps nothing but its report, and has none.

**Why the bounds are enough.** The state machine compares one age with one threshold and at most two groups
count. The prompt needs three groups to show order, skipping and overflow. The serve cycle is checked at
the program's own durations; two elevated reports with different hashes are needed to miss the cache inside
ALERT. Two clients with two requests each fill the queue of two; a client that repeats its id covers
both a retry and two clients with one id. Two
events per batch give a first and a last one; four rowids allow an expiry and the reuse of a rowid; four events over a chain of
services allow a P0 link, a second link over one of its services, a repeated alert and a change. Four services give cycles,
a diamond and a consumer at distance three; the verdict limit of one and the search's limit of three spans are reached. Two
commands, one of which may be triggered by the other's verdict, give a lineage of three generations and two
writers on one thread. What the instances cannot show, the theorems of section 5 do for the safety
properties of every module here.

**Fairness.** `ServeCycle`: the timer fires and a due cycle runs because asyncio runs ready callbacks; `Return` is
weakly fair because the model call is bounded by its client's own time limit (external to this
package). The clock's fairness is limited to the wait, so that nothing is assumed about how long the model takes. `IngestPath`: the loop's
steps are weakly fair for the same reason. `TimeOut` and `Close` are strongly fair, since handlers are paused again and
again by drains: a connection is under `asyncio.wait_for` with 30 seconds, and a handler with nothing to wait for goes
on. `Flush` and `Leave` are not fair, so nobody has to read a long answer or go away; `ShutdownCompletes` therefore has
the premise that no connection is overdue for ever. Clients, signals, crashes and restarts owe nothing. `Gathering`: the command's steps are weakly fair because every request has a time
limit, 10 s to Prometheus and 30 s to the backend. `VerdictWriters` assumes none and claims no liveness: nothing
bounds the wait for the responder.

## 4. Where the code and its documents part

Three runs each check one statement of a document or docstring and find a behaviour of the code that violates it;
`PROJECT.json` quotes the lines.

| Run | Statement | What the code does |
|---|---|---|
| `IngestUntilSignal` | the loop runs until a signal | a repeated id raises in the drain and ends the process |
| `IngestAcked` | 200 means written to the store | events queued when the signal comes are discarded |
| `TraceDivergence` | an "undeclared dependency" is not in the specs | a declared call to a service without server spans is reported as undeclared, since only the declared side is restricted to services with profiles |

Further divergences that the models contain, each plain from one definition, so that no run is spent on them:

- `Elevated` counts one P1 group as calm, so an ALERT ends although a P1 group is in every report (design, line 356:
  no P0/P1 groups for ten minutes).
- `ModelFails` returns template verdicts, so the loop never learns of a failing model call, and the agent never
  turns to DEGRADED for it (design, lines 354 and 357).
- `Recover` does not look at the groups: a P0 group reported with the recovery from DEGRADED waits for the next
  cycle, where the design (line 370) raises ALERT at once. `TwoAlarmsRaise` bounds the delay.
- `Cycle` reports a healthy model before the model is called, so DEGRADED ends at the next wake-up (design,
  line 359: when model calls recover).
- `ApplyBudget` skips a group that does not fit and still tries less urgent ones (design, line 293, and the comment
  at `generator.py:99`: until the budget is exhausted).
- `Overflow` and `Choke` close the connection without an answer (design, line 220: 503, 400).
- `ComputePriority` makes a group P1 when it is linked with a critical service, of whatever severity
  (`engine.py:195`: with a P0 group).
- `Deduplicate` keeps the newest occurrence of an alert with its own severity, so the peak of a signal leaves out a
  more severe earlier one (design, line 257).
- `SortedByStamp` sorts by text and `Windows` measures in instants, so with mixed offsets the first event is not
  the earliest (`temporal.py:22`).
- `FindOwn` and `FindInContext` take the nearest thread, one level up at most (`notifications.py:59`: from the
  earliest verdict, walking the lineage). A command whose message went to a thread found one level above its trigger
  notes nothing, so a command on *its* verdict does not reach that thread and starts another: the last case of
  `ThreadIsKept`.
- `TimeOut` cancels a handler once, and its `finally` block then waits without a limit for a peer that does not read a
  long 400 answer, although the deadline is called per-connection (`webhook.py:16` and `:99`). On Python 3.12
  `Server.wait_closed` waits for it as well, and shutdown with it.
- `ExitCodesTell` says no more of Slack than that the message was handed over: an answer that does not come
  (`PostUnanswered`) ends in exit code 0 too.
- `Dies` may follow from prompts that cannot be built: they are outside the try of `reason_about_correlations`
  (`reasoning.py:57`: on any failure, a degraded result).
- `ChangeCandidates` is empty: the command's fallback to "temporal proximity" (`cli.py:584`) has no change events
  to work on, and without a model the Slack message still says that the root cause is identified.

## 5. What is proved

TLAPS checks these for every value of the constants that satisfies the named assumptions. The assumptions that only
say what a constant is (`EventsAssumption`, `GroupsAssumption`, `AnswersAssumption`, `IdsAssumption` and the like)
stand in the module that declares it; the ones a result leans on are named below.

- **`AgentStateProofs`**: `TypeCorrect`, `CalmIsHonest`, `SecondAlarmRaises`, `Refinement` (`Spec => LatchSpec`). No property but the first is
  inductive alone: `Inv` adds the types, that a set timer in ALERT is no older than `quiet` and the link
  between `streak` and the state. The refinement maps every update to `HearElevated`, `HearCalm` or
  `LoseModel`, using the invariant to show that a timer at the threshold implies `quiet = CalmPeriod`.
- **`ServeCycleProofs`**, for any reports, budget and durations. `GeneratorSpec`: `PromptHoldsP0`, `HitsAreOfTheLastBuild`,
  `BudgetIsKept`, `NothingDroppedForNothing`. `Spec` of the loop: `LoopDrivesGenerator` and `LoopDrivesMachine` (every step of
  the loop is a step of the generator's and of the machine's own specification, or leaves them alone),
  `LoopPrompts`, `CacheAges`, `AlertIsFresh`, `TypeCorrect`.
  The generator's invariant is cache coherence (`GeneratorInv`): what is cached, hash and prompt and age, is what the last
  build made of its report (`CacheIsBuilt`), and so is the answer, whose caller's hash was that report's (`AnswerIsBuilt`).
  A hit thus answers with the prompt of another report; what the properties say of the caller's groups follows from
  equal hashes, which compare services, count and priority and nothing else. That the budget is kept rests on the order: when
  `ApplyBudget` meets the first group that may be dropped, all P0 groups are in (`Fits`, `SortedFits`).
  `CacheAges` and `AlertIsFresh` hold because of `FreshnessAssumption`: the wait in
  WATCHING (300 s in `state.py`) is at least the cache's life in ALERT (300 s in `generator.py`). No code
  relates the two numbers; the theorem says that this relation is all that freshness rests on, and lowering the
  one or raising the other breaks it. The invariant: while the loop waits in WATCHING, the cache's age plus the
  remaining wait is at least that life.
- **`IngestPathProofs`**: `Channel`, `AckedStays` and `TypeSafety` (with the queue's bound), for any clients, kinds, queue
  size and bounds. The invariant
  adds that while the loop runs every acknowledged event was accepted, and every stored event's id is in the database.
- **`EventStoreProofs`**: `IndexIsComplete` and `Atomicity`, both under `~CallersCarryOn`: without that
  assumption the first is false, since a later commit takes along the row of a failed `insert`. The
  invariant says, per statement that is next, what the open transaction holds relative to the committed state:
  the events of the operation that are done, the one that has its row and not its entry, the expired rows
  that are still indexed. `NoEntryDangles` and `TypeSafety` need no such assumption: whatever callers do, entries are taken
  from the index before their rows, so that the index, open or committed, stays within the table. Its invariant adds
  that a row is found by its event and that what an expiry has still to take is among `doomed`.
- **`CorrelationProofs`**, for any events, any topology and any number of rows: `OnceSafety`, `OneSignalSafety`, `LinkedSafety`,
  `ChangesSafety`, over the inductive invariant `RInv` (`ReportSafety`). The engine is one pipeline of loops, so the
  argument is one lemma per stage: what `Deduplicate` keeps stands for all there was (`KeptOf`), the sort neither loses
  nor repeats (`SameElements`), the windows split a service's events without overlap (`Split`, `SignalsOf`), the two
  passes over links and the rest share the signals out (`Shares`), and every group is made of its signals, its link and their
  changes (`Assembled`). `Made` is the conjunction, `RInv` says that the last report is `Made` of the rows it was made from,
  and the properties follow from `Made` without another look at a loop. `OneSignalSafety` rests on the window of the
  grouping being no shorter than the query's, so that events of a service that are in UTC cannot be split
  (`UtcSignal`); both callers choose it so. `ChangesSafety` needs the same, since of two signals of a
  service only the last one's candidates are kept (`CandidatesOfOne`). `LinkedSafety` is about
  priorities only: what shares a service with the link of a P0 group shares one with a link that has a critical
  service, which is all that `ComputePriority` asks for P1.
- **`GatheringProofs`**, for any services, directories, answers and calls: `TypeSafety`, `GraphFollowsManifests`,
  `WalkIsExact`, `SilenceSafety`, `DivergenceSafety`. The invariant of the reading is that the graph is that of the
  last manifests among the files read; that of the walk is the usual one of a closure: what was reached is
  upstream, and what is next to it has been reached or is still to be visited. On it rest the facts of the
  gathering: recent signals on affected services are among the events, and of the calls between services with
  profiles a search that was not full has all, while what it shows was called or is known to the metrics.
- **`VerdictWritersProofs`**, for any number of evaluations, commands with any options, and calls: `TypeSafety`,
  `Refinement` (`Spec => LedgerSpec`), `LineageSafety`, `EffectsSafety`, `ExitSafety`, `ThreadSafety`, `CallsSafety`,
  `CausesSafety`.
  Every step either leaves the store alone, adds a verdict whose references are stored, or notes a thread on a
  verdict that has none; three lemmas per writer say which, and the refinement and the absence of cycles follow
  from that alone. The rest of the invariant says, per command, how far it has come and which of its effects there
  are (`Progress`, `Effects`, `Threads`), and per call, which of its verdicts are stored (`Made`). The second `put` is
  harmless because between the two no other writer touches the verdict (`Unnoted` in `Progress`). `ExitSafety` carries
  `AllTold` from the last effect to the exit (`AllToldStays`); `ThreadSafety` needs that a run is not among its own
  ancestors (`NotOwnAncestor`, from `LineageEnds`), so that a thread it found cannot be the one it would start. `CausesSafety`
  adds that the causes of a stored verdict are the last entries of the model's answer on the groups found.
- **`FoldTheory`** carries the loops. The library's induction takes a predicate as a parameter, which the provers
  cannot instantiate; here induction is over the *set* of values that satisfy it (`NatInd`, from the well-foundedness of
  the naturals, then `SeqInduction`). From it follow, once, that a fold is its value so far and one step more
  (`FoldEmpty`, `FoldAppend`, `FoldType`), what `FlattenSeq` and `Selected` contain, and that they repeat nothing
  (`OnceFlatten`, `OnceSelected`). `Step` is a constant operator: a model's loop is an instance of the module, with its own step.

Only model-checked: every liveness property (`AlertSubsides`, `HitsRunOut`, `ShutsDown`, `QueuedIsStored`,
`ShutdownCompletes`, `ConnectionsEnd`, `GatheringEnds`), which is out of the proof system's reach, and the three
violations of section 4.

## 6. What is not modelled

- **Severity pre-score**: no command passes SLO targets, so it returns the event's own severity in every run.
- **status** prints counts and changes nothing; **configuration** becomes constants. `main` only
  prints the deprecation message and exits with 1; the parsing of arguments is no longer reached.
- **Who calls expiry**: `expire_old` is an operation of the store that no command calls; it is modelled as one that a
  caller may use.
- Of the **reasoning layer**, the text of the prompts and the clamping of numbers; of the **trace backends**, the
  statistics of a profile, `health_check` and `get_service_dependencies`, which no command calls.
- Thresholds and severities of Prometheus' answers: arithmetic on one value each.
- The store's queries that only read and that the engine does not use (`search`, `get_by_topology`, `get_stats`,
  `get_state_hash`); what a prompt, a summary, a message or a record says.
- Jumps of the wall clock; computation that takes a minute or more; a `|` inside the parts of a dedup key;
  payloads that are not objects; timestamps that differ in format only.
- Two commands for one trigger are two runs; that they store two verdicts and may begin two threads is what the code
  does, and nothing in the repository forbids it.

## 7. Plan

1. `ServeAgent`: `IngestPath`, `EventStore` and `ServeCycle` composed, so that what an alert causes can be followed from
   request to prompt. Each keeps what it shows now; the composition is wanted for one statement, that an event
   answered with 200 is in the report of a later cycle unless the loop ends.
2. Theorems still worth proving: that the report does not depend on the order in which the store returns rows of one
   timestamp, as far as it does not; an abstract specification of the report, which `Correlation` implements and
   `ServeCycle` and `Gathering` may take in place of `Reports` and of the engine's step.
3. The reads of the store that `status` and other readers make while a batch is written.
