---------------------------- MODULE TraceEvidence ----------------------------
(* traces/tempo.py and traces/topology.py: what a trace backend tells about the   *)
(* services of a blast radius.  get_trace_evidence asks in phases, each of which   *)
(* awaits several queries; any query that fails ends it.  Latencies, error rates  *)
(* and sample traces only ornament a profile and are left out.                    *)
EXTENDS Naturals, FiniteSets

CONSTANTS
  CallSets,     \* the calls there may be at a time: sets of <<caller, callee>>
  SpanLimit,    \* how many client spans a search returns at most
  MaxQuiet      \* bound: services asked for that have no server spans

ASSUME TraceAssumption == SpanLimit \in Nat /\ MaxQuiet \in Nat

VARIABLES
  query,        \* the phase: "idle", "stats", "edges", "details", "answered", "failed"
  profiled,     \* services for which server spans were counted
  edges,        \* the call edges the backend reported
  calls,        \* history: the calls made in the window
  cut,          \* history: the search was full, there may be more spans
  idle          \* history: calls the metrics know, with no increase in the window

traceVars == <<query, profiled, edges, calls, cut, idle>>
observed == <<edges, calls, cut, idle>>

TraceInit ==
  /\ query = "idle" /\ profiled = {} /\ edges = {}
  /\ calls = {} /\ cut = FALSE /\ idle = {}

Phases == {"stats", "edges", "details"}

AskTraces == query = "idle" /\ query' = "stats" /\ UNCHANGED <<profiled, observed>>

\* A service without server spans in the window gets no profile.
QueryStats(asked) ==
  /\ query = "stats" /\ query' = "edges"
  /\ profiled' \in {p \in SUBSET asked : Cardinality(asked \ p) <= MaxQuiet}
  /\ UNCHANGED observed

\* Client spans of the services asked for: the callee may be any service, or
\* something that is no service.
Found(asked, made) == {c \in made : c[1] \in asked /\ c[1] # c[2]}

\* The limit is on spans as they come.  Calls to oneself and spans without a peer are
\* left out and repeats merged afterwards, so a full search may show any of the calls,
\* or none.
FromSpans(asked, made) ==
  LET found == Found(asked, made)
  IN  /\ idle' = {}
      /\ \/ ~cut' /\ edges' = found /\ Cardinality(found) < SpanLimit
         \/ cut' /\ edges' \in {page \in SUBSET found : Cardinality(page) <= SpanLimit}

\* Every series of the count query becomes an edge, whatever its value.
SeriesOf(asked, known) == {c \in known : c[1] \in asked /\ c[2] \in asked}

\* Service graph metrics, if the backend knows a Prometheus: both ends are asked for,
\* and a series that has not moved in the window comes as well.
FromMetrics(asked, made) ==
  /\ cut' = FALSE
  /\ idle' \in CallSets \cup {{}}
  /\ edges' = SeriesOf(asked, made \cup idle')

QueryEdges(asked) ==
  /\ query = "edges" /\ query' = "details"
  /\ calls' \in CallSets
  /\ cut' \in BOOLEAN
  /\ FromSpans(asked, calls') \/ FromMetrics(asked, calls')
  /\ UNCHANGED profiled

\* Operations, top errors and sample traces.
QueryDetails ==
  /\ query = "details" /\ query' = "answered"
  /\ UNCHANGED <<profiled, observed>>

QueryRaises ==
  /\ query \in Phases /\ query' = "failed"
  /\ UNCHANGED <<profiled, observed>>

TraceNext(asked) ==
  QueryStats(asked) \/ QueryEdges(asked) \/ QueryDetails \/ QueryRaises
-----------------------------------------------------------------------------
(* Topology divergence                                                        *)

\* callers and callees of the profiles.
Observed == {e \in edges : e[1] \in profiled \/ e[2] \in profiled}

\* Variant: the consumers of a service are taken for its dependencies.
DeclaredBackwards(graph) ==
  {e \in profiled \X profiled : e[1] \in DOMAIN graph /\ e[2] \in graph[e[1]].dependents}

Declared(graph) ==
  {e \in profiled \X profiled : e[1] \in DOMAIN graph /\ e[2] \in graph[e[1]].dependencies}

DetectTopologyDivergence(graph) ==
  [unobserved |-> Declared(graph) \ Observed, undeclared |-> Observed \ Declared(graph)]
=============================================================================
