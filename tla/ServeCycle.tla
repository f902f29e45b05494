----------------------------- MODULE ServeCycle -----------------------------
(* The serve loop of cli.py from the end of its drain to its next wait: the    *)
(* state machine (AgentState), the prompt cache (SnapshotGenerator) and the    *)
(* model call, driven by one timer whose period depends on the agent's state.  *)
(* Everything between two awaits is one step; the loop awaits the timer and    *)
(* the model.  Nothing in the loop declares or resolves an incident.           *)
EXTENDS SnapshotGenerator

CONSTANTS
  CalmPeriod, Interval  \* durations, in ticks

VARIABLES
  state, alertStart, calmFor, quiet, heard, streak, byHand,     \* of AgentState
  pc,           \* "waiting" for the timer, "interpreting" or "stopped"
  wakeIn,       \* ticks left of the wait
  shutdown,     \* the shutdown event is set
  outcome       \* how the last cycle went, or "none"

Machine == INSTANCE AgentState

ASSUME IntervalAssumption == \A st \in Machine!States : Interval[st] \in Nat \ {0}
ASSUME TtlAssumption == DOMAIN Ttl = Machine!States

\* What the machine assumes of its parameters.
ASSUME MachineAssumption == CalmPeriod \in Nat \ {0} /\ None \notin Nat

\* 300 seconds between cycles in WATCHING, 300 seconds of cache life in ALERT: no
\* code relates the two tables, and the cache's freshness rests on their relation.
ASSUME FreshnessAssumption == Interval["watching"] >= Ttl["alert"]

machine == <<state, alertStart, calmFor, quiet, heard, streak, byHand>>
loop == <<pc, wakeIn, shutdown, outcome>>
vars == <<state, alertStart, calmFor, quiet, heard, streak, byHand,
          cachedHash, cachedPrompt, cacheAge, answer, built,
          pc, wakeIn, shutdown, outcome>>

Outcomes == {"none", "error", "empty", "hit", "assessed", "template", "raised", "crashed"}

TypeOK ==
  /\ Machine!TypeOK
  /\ GeneratorTypeOK
  /\ pc \in {"waiting", "interpreting", "stopped"}
  /\ wakeIn \in Nat
  /\ shutdown \in BOOLEAN
  /\ outcome \in Outcomes

Init ==
  /\ Machine!Init
  /\ GeneratorInit
  /\ pc = "waiting"
  /\ wakeIn = Interval["watching"]
  /\ shutdown = FALSE
  /\ outcome = "none"

\* Variant: an ALERT is not left alone.
ExitRequestedNotInAlert == shutdown /\ state # "alert"

\* The loop's condition, and what its wait waits for.
ExitRequested == shutdown

\* Variant of EndCycle: the interval of the state before the cycle.
EndCycleOldInterval ==
  /\ \/ ExitRequested /\ pc' = "stopped" /\ UNCHANGED wakeIn
     \/ ~ExitRequested /\ pc' = "waiting" /\ wakeIn' = Interval[state]
  /\ UNCHANGED shutdown

\* Back to the top of the loop, which reads the interval anew.
EndCycle ==
  /\ \/ ExitRequested /\ pc' = "stopped" /\ UNCHANGED wakeIn
     \/ ~ExitRequested /\ pc' = "waiting" /\ wakeIn' = Interval[state']
  /\ UNCHANGED shutdown

\* Variant of Tick: a wait that is not bounded by its timer.
TickUnbounded ==
  /\ \/ pc = "waiting" /\ wakeIn' = wakeIn - 1
     \/ pc = "interpreting" /\ UNCHANGED wakeIn
  /\ wakeIn > -2
  /\ Machine!Tick
  /\ Age
  /\ UNCHANGED <<pc, shutdown, outcome>>

Tick ==
  /\ \/ pc = "waiting" /\ wakeIn > 0 /\ wakeIn' = wakeIn - 1
     \/ pc = "interpreting" /\ UNCHANGED wakeIn
  /\ Machine!Tick
  /\ Age
  /\ UNCHANGED <<pc, shutdown, outcome>>

Signal ==
  /\ pc # "stopped" /\ ~shutdown
  /\ shutdown' = TRUE
  /\ UNCHANGED <<machine, generator, pc, wakeIn, outcome>>

\* The wait ends because of the shutdown event: no drain, no last cycle.
Stop ==
  /\ pc = "waiting" /\ ExitRequested
  /\ pc' = "stopped"
  /\ UNCHANGED <<machine, generator, wakeIn, shutdown, outcome>>
-----------------------------------------------------------------------------
(* The wait timed out: a cycle starts.  It does so even when the event was set *)
(* after the timer fired.                                                      *)
TimedOut == pc = "waiting" /\ wakeIn = 0

\* An insert of the drain fails, outside the try of the cycle.
DrainRaises ==
  /\ TimedOut
  /\ pc' = "stopped" /\ outcome' = "crashed"
  /\ UNCHANGED <<machine, generator, wakeIn, shutdown>>

CorrelateRaises ==
  /\ TimedOut
  /\ UNCHANGED <<machine, generator>>
  /\ outcome' = "error" /\ EndCycle

\* The state machine has taken the report when building the prompt fails.
GenerateRaises(groups) ==
  /\ TimedOut
  /\ Machine!Update(groups, TRUE)
  /\ groups # <<>> /\ ~MayHit(groups, state', FALSE)
  /\ outcome' = "error" /\ EndCycle
  /\ UNCHANGED generator

\* Variant of Cycle: the prompt is generated for the state before the update.
CycleOldState(groups) ==
  /\ TimedOut
  /\ Machine!Update(groups, TRUE)
  /\ Generate(groups, state, FALSE)
  /\ \/ /\ ~answer'.hit /\ groups # <<>>
        /\ pc' = "interpreting"
        /\ UNCHANGED <<wakeIn, shutdown, outcome>>
     \/ /\ answer'.hit \/ groups = <<>>
        /\ outcome' = IF answer'.hit THEN "hit" ELSE "empty"
        /\ EndCycle

\* The prompt is cached before the model has seen it.
Cycle(groups) ==
  /\ TimedOut
  /\ Machine!Update(groups, TRUE)
  /\ Generate(groups, state', FALSE)
  /\ \/ /\ ~answer'.hit /\ groups # <<>>
        /\ pc' = "interpreting"
        /\ UNCHANGED <<wakeIn, shutdown, outcome>>
     \/ /\ answer'.hit \/ groups = <<>>
        /\ outcome' = IF answer'.hit THEN "hit" ELSE "empty"
        /\ EndCycle
-----------------------------------------------------------------------------
(* interpret returns or raises                                                *)

ModelAnswers ==
  /\ pc = "interpreting"
  /\ UNCHANGED <<machine, generator>>
  /\ outcome' = "assessed" /\ EndCycle

\* The call or the parsing of its answer failed: interpret swallows the exception
\* and returns template verdicts, which the loop takes for an answer.
ModelFails ==
  /\ pc = "interpreting"
  /\ UNCHANGED <<machine, generator>>
  /\ outcome' = "template" /\ EndCycle

\* Creating or storing a verdict failed.
InterpretRaises ==
  /\ pc = "interpreting"
  /\ Machine!Update(answer.groups, FALSE)
  /\ outcome' = "raised" /\ EndCycle
  /\ UNCHANGED generator

Finished == pc = "stopped" /\ UNCHANGED vars

Wake == DrainRaises \/ CorrelateRaises
        \/ \E groups \in Reports : GenerateRaises(groups) \/ Cycle(groups)
Return == ModelAnswers \/ ModelFails \/ InterpretRaises

Next == Tick \/ Signal \/ Stop \/ Wake \/ Return \/ Finished

Spec == Init /\ [][Next]_vars

\* The event loop runs: timers fire, a due cycle runs, a set event ends the wait.
\* The model call returns, with an answer or by its own time limit.
Fairness ==
  /\ WF_vars(Tick /\ pc = "waiting")
  /\ WF_vars(Wake)
  /\ WF_vars(Stop)
  /\ WF_vars(Return)

FairSpec == Spec /\ Fairness
-----------------------------------------------------------------------------
(* Properties                                                                 *)

\* While the agent waits in WATCHING, the cached prompt is too old, or will be
\* when the timer fires, to be served to a cycle that turns to ALERT.
CacheAgesInWatching ==
  pc = "waiting" /\ state = "watching" /\ cachedHash # None
    => cacheAge + wakeIn >= Ttl["alert"]

\* The design's "State transition (-> ALERT) always invalidates cache", which no
\* line of the code does: a cycle that raises an ALERT never answers it from the
\* cache, it asks the model or fails.
FreshOnAlert ==
  [][state # "alert" /\ state' = "alert" => pc' = "interpreting" \/ outcome' = "error"]_vars

\* Cache hits do not keep each other alive: the model is asked again, a cycle
\* comes up empty or fails, or the loop ends.
HitsRunOut == []<>(outcome # "hit" \/ pc = "stopped")

\* When elevated reports have stopped for good, ALERT ends, unless correlation
\* keeps failing or the loop ends.
AlertSubsides ==
  <>[]~Machine!Elevated(heard)
    => []<>(state # "alert" \/ outcome = "error" \/ pc = "stopped")

\* A requested shutdown ends the loop, whatever the loop was doing.
ShutsDown == shutdown ~> pc = "stopped"
=============================================================================
