------------------------------ MODULE Gathering ------------------------------
(* The first half of correlate_command (cli.py): from the trigger's service to   *)
(* the blast radius, the signals on it from Prometheus and the verdict store, the *)
(* trace evidence, and whether the engine finds anything in them.  Every source   *)
(* may fail in ways that are swallowed and in ways that are not.                  *)
(* A signal is a record [source, service, recent]; recent says whether its         *)
(* timestamp is in the engine's window.                                           *)
EXTENDS DependencyGraph, TraceEvidence

CONSTANTS
  None,
  AlertAnswers, \* Prometheus' answers: sets of [service, firing, recent]
  VerdictLists, \* evaluation verdicts, newest first: sequences of [service, recent]
  VerdictLimit, \* the limit of the verdict query
  MaxBreaches   \* bound: services with a breached metric

ASSUME LimitsAssumption ==
  /\ VerdictLimit \in Nat /\ MaxBreaches \in Nat
  /\ None \notin {"no events", "no groups", "groups", "raised"}

VARIABLES
  step,         \* "alerts", "breaches", "verdicts", "traces", "close", "compare",
                \* "correlate", "end"
  events,       \* the events gathered
  said,         \* history: the recent signals in the sources' answers
  evidence,     \* there is trace evidence
  divergence,   \* trace_evidence.topology_divergence, or None
  outcome       \* None, "no events", "no groups", "groups" or "raised"

gatherVars == <<step, events, said, evidence, divergence, outcome>>
vars == <<graphVars, traceVars, gatherVars>>

Init ==
  /\ GraphInit /\ TraceInit
  /\ step = "alerts" /\ events = {} /\ said = {}
  /\ evidence = FALSE /\ divergence = None /\ outcome = None

\* The graph and the walk are computed before anything is asked.
Prepare == GraphNext /\ UNCHANGED <<traceVars, gatherVars>>

At(s) == phase = "done" /\ step = s /\ outcome = None

Signals(source, items) ==
  {[source |-> source, service |-> i.service, recent |-> i.recent] : i \in items}
Recent(signals) == {s \in signals : s.recent}

Gather(signals, next) ==
  /\ events' = events \cup {s \in signals : s.service \in affected}
  /\ said' = said \cup Recent(signals)
  /\ step' = next
  /\ UNCHANGED <<graphVars, traceVars, evidence, divergence, outcome>>

\* Firing alerts on affected services, stamped with the time they became active.
FetchAlerts ==
  /\ At("alerts")
  /\ \E answer \in AlertAnswers :
       Gather(Signals("alert", {i \in answer : i.firing}), "breaches")

\* HTTP errors and what does not parse are swallowed: no alerts.
AlertsFail == At("alerts") /\ Gather({}, "breaches")

\* Breaches are stamped now; a query without a number is no breach.
FetchBreaches ==
  /\ At("breaches")
  /\ \E over \in SUBSET affected :
       /\ Cardinality(over) <= MaxBreaches
       /\ Gather(Signals("breach", [service : over, recent : {TRUE}]), "verdicts")

\* Variant: the verdicts take the place of what was gathered before.
QueryVerdictsOnly ==
  /\ At("verdicts")
  /\ \E list \in VerdictLists :
       LET newest == Signals("verdict", {list[i] : i \in {j \in DOMAIN list : j <= VerdictLimit}})
       IN  /\ events' = {v \in newest : v.service \in affected}
           /\ said' = said \cup Recent(newest)
  /\ step' = "traces"
  /\ UNCHANGED <<graphVars, traceVars, evidence, divergence, outcome>>

\* The newest of all evaluation verdicts first, those on affected services then.
QueryVerdicts ==
  /\ At("verdicts")
  /\ \E list \in VerdictLists :
       Gather(Signals("verdict", {list[i] : i \in {j \in DOMAIN list : j <= VerdictLimit}}),
              "traces")

Raise ==
  /\ outcome' = "raised" /\ step' = "end"
  /\ UNCHANGED <<graphVars, events, said, evidence, divergence>>

\* An answer of another shape than the code expects, or a store that cannot be read.
SourceRaises ==
  /\ At("alerts") \/ At("breaches") \/ At("verdicts")
  /\ Raise /\ UNCHANGED traceVars

NoBackend ==
  /\ At("traces") /\ query = "idle" /\ step' = "compare"
  /\ UNCHANGED <<graphVars, traceVars, events, said, evidence, divergence, outcome>>

QueryTraces ==
  /\ At("traces")
  /\ AskTraces \/ TraceNext(affected)
  /\ UNCHANGED <<graphVars, gatherVars>>

\* A backend that fails in any phase leaves no evidence, and the command goes on.
TracesEnd ==
  /\ At("traces") /\ query \in {"answered", "failed"}
  /\ evidence' = (query = "answered")
  /\ step' = "close"
  /\ UNCHANGED <<graphVars, traceVars, events, said, divergence, outcome>>

\* The backend's client is closed in an event loop of its own, outside any try.
CloseBackend ==
  /\ At("close")
  /\ \/ /\ step' = "compare"
        /\ UNCHANGED <<graphVars, events, said, evidence, divergence, outcome>>
     \/ Raise
  /\ UNCHANGED traceVars

\* Variant: nobody asks whether there is evidence.
CompareUnchecked ==
  /\ At("compare") /\ step' = "correlate"
  /\ divergence' = IF DOMAIN graph # {} THEN DetectTopologyDivergence(graph) ELSE divergence
  /\ UNCHANGED <<graphVars, traceVars, events, said, evidence, outcome>>

Compare ==
  /\ At("compare") /\ step' = "correlate"
  /\ divergence' = IF evidence /\ DOMAIN graph # {} THEN DetectTopologyDivergence(graph)
                   ELSE divergence
  /\ UNCHANGED <<graphVars, traceVars, events, said, evidence, outcome>>

\* insert_batch or the engine fails, outside any try.
CorrelateRaises == At("correlate") /\ events # {} /\ Raise /\ UNCHANGED traceVars

\* The engine puts every event of its window in a group (Correlation!EveryEventOnce).
Correlate ==
  /\ At("correlate") /\ step' = "end"
  /\ outcome' = IF events = {} THEN "no events"
                ELSE IF Recent(events) = {} THEN "no groups" ELSE "groups"
  /\ UNCHANGED <<graphVars, traceVars, events, said, evidence, divergence>>

Ended == step = "end" \/ phase = "raised"

Work ==
  \/ Prepare
  \/ FetchAlerts \/ AlertsFail \/ FetchBreaches \/ QueryVerdicts \/ SourceRaises
  \/ NoBackend \/ QueryTraces \/ TracesEnd \/ CloseBackend
  \/ Compare \/ CorrelateRaises \/ Correlate

Done == Ended /\ UNCHANGED vars

Next == Work \/ Done

\* Every request has a time limit of its own: 10 s to Prometheus, 30 s to the backend.
Spec == Init /\ [][Next]_vars /\ WF_vars(Work)
-----------------------------------------------------------------------------
(* Properties                                                                 *)

TypeOK ==
  /\ GraphTypeOK
  /\ query \in Phases \cup {"idle", "answered", "failed"}
  /\ profiled \subseteq affected /\ edges \subseteq calls \cup idle
  /\ calls \in CallSets \cup {{}} /\ idle \in CallSets \cup {{}} /\ cut \in BOOLEAN
  /\ step \in {"alerts", "breaches", "verdicts", "traces", "close", "compare",
               "correlate", "end"}
  /\ Recent(events) \subseteq said /\ (divergence # None => evidence)
  /\ outcome \in {None, "no events", "no groups", "groups", "raised"}

\* The command gets past the gathering on every directory, cyclic dependencies
\* included, whichever sources fail.
GatheringEnds == <>Ended

\* When the command ends as if nothing were the matter, no source that answered had
\* a recent signal on a service the trigger's incident may concern: neither on one
\* that depends on it, at any distance, nor on one it depends on.
SilenceIsSilence ==
  outcome \in {"no events", "no groups"} =>
    \A s \in said : s.service \notin Upstream \cup DependenciesOf(trigger)

\* Between two services that both have a profile, the divergence is the difference
\* between what is called and what is declared, as far as the backend can tell: a
\* search that was full may have hidden any call, which is then missing among the
\* undeclared or reported as unobserved, and a service graph may show calls of which
\* there was none in the window.  Nothing else is wrong with it, whatever the order of
\* phases, manifests and failures.
DivergenceIsReal ==
  divergence # None =>
    \A a, b \in profiled :
      LET called == <<a, b>> \in calls
          known  == <<a, b>> \in idle
          named  == a \in DOMAIN graph /\ b \in graph[a].dependencies
      IN  a # b =>
            /\ <<a, b>> \in divergence.undeclared => (called \/ known) /\ ~named
            /\ <<a, b>> \in divergence.unobserved => named /\ (called => cut)
            /\ called /\ ~named /\ ~cut => <<a, b>> \in divergence.undeclared
            /\ named /\ ~called /\ ~known => <<a, b>> \in divergence.unobserved

\* "Undeclared Dependencies (observed in traces, not in specs)": what is reported as
\* undeclared is in no manifest.
UndeclaredIsUndeclared ==
  divergence # None =>
    \A e \in divergence.undeclared :
      ~(e[1] \in DOMAIN graph /\ e[2] \in graph[e[1]].dependencies)
=============================================================================
