--------------------------- MODULE DependencyGraph ---------------------------
(* prometheus.py: the declared dependencies of the services, read from a        *)
(* directory of manifests (load_dependency_graph), and the services an incident *)
(* on one of them may concern (blast_radius_services).                          *)
(* A file is a record [kind, name, dependencies]; kind is "manifest", "skipped"  *)
(* for what does not parse or is no mapping, and "broken" for a mapping whose     *)
(* reading raises: a null section, a dependency without a name.                   *)
(* Lists of services are sets: neither their order nor a repetition shows in what *)
(* is computed from them.                                                        *)
EXTENDS Naturals, Sequences

CONSTANTS
  Services,
  Directories   \* the directories there may be, each a sequence of files by file name

Files == [kind : {"manifest", "skipped", "broken"},
          name : Services, dependencies : SUBSET Services]

ASSUME DirectoriesAssumption == Directories \subseteq Seq(Files)

VARIABLES
  directory,    \* sorted(specs_path.glob("*.yaml"))
  trigger,      \* the trigger verdict's service
  phase,        \* "reading", "walking", "done", or "raised"
  read,         \* files read
  graph,        \* service -> [dependencies, dependents]
  affected,
  toVisit       \* services the walk has still to look at

graphVars == <<directory, trigger, phase, read, graph, affected, toVisit>>

Manifests == {i \in DOMAIN directory : directory[i].kind = "manifest"}

GraphInit ==
  /\ directory \in Directories /\ trigger \in Services
  /\ phase = "reading" /\ read = 0 /\ graph = <<>>
  /\ affected = {} /\ toVisit = {}

\* Variant: the first manifest of a service stands.
ReadFileFirst ==
  /\ phase = "reading" /\ read < Len(directory) /\ directory[read + 1].kind # "broken"
  /\ read' = read + 1
  /\ LET file == directory[read + 1]
     IN  graph' = IF file.kind = "skipped" \/ file.name \in DOMAIN graph THEN graph
                  ELSE [s \in DOMAIN graph \cup {file.name} |->
                          IF s = file.name
                          THEN [dependencies |-> file.dependencies, dependents |-> {}]
                          ELSE graph[s]]
  /\ UNCHANGED <<directory, trigger, phase, affected, toVisit>>

\* A later manifest of the same service replaces the earlier one.
ReadFile ==
  /\ phase = "reading" /\ read < Len(directory) /\ directory[read + 1].kind # "broken"
  /\ read' = read + 1
  /\ LET file == directory[read + 1]
     IN  graph' = IF file.kind = "skipped" THEN graph
                  ELSE [s \in DOMAIN graph \cup {file.name} |->
                          IF s = file.name
                          THEN [dependencies |-> file.dependencies, dependents |-> {}]
                          ELSE graph[s]]
  /\ UNCHANGED <<directory, trigger, phase, affected, toVisit>>

\* Only the parsing of a file is guarded, not what is taken from it.
ReadRaises ==
  /\ phase = "reading" /\ read < Len(directory) /\ directory[read + 1].kind = "broken"
  /\ phase' = "raised"
  /\ UNCHANGED <<directory, trigger, read, graph, affected, toVisit>>

\* The services that name s, noted for those that have a manifest themselves.
Consumers(s) == {c \in DOMAIN graph : s \in graph[c].dependencies}

DependentsOf(s) == IF s \in DOMAIN graph THEN graph[s].dependents ELSE {}
DependenciesOf(s) == IF s \in DOMAIN graph THEN graph[s].dependencies ELSE {}

\* The reverse dependencies, and the start of the walk.
LinkGraph ==
  /\ phase = "reading" /\ read = Len(directory)
  /\ graph' = [s \in DOMAIN graph |-> [graph[s] EXCEPT !.dependents = Consumers(s)]]
  /\ affected' = {trigger}
  /\ toVisit' = IF trigger \in DOMAIN graph THEN Consumers(trigger) ELSE {}
  /\ phase' = "walking"
  /\ UNCHANGED <<directory, trigger, read>>

\* Variants: the dependents of a service are looked at whether or not it is known
\* already; a service met for the second time is taken for the end of the walk.
VisitAgain ==
  /\ phase = "walking"
  /\ \E s \in toVisit :
       /\ affected' = affected \cup {s}
       /\ toVisit' = (toVisit \ {s}) \cup DependentsOf(s)
  /\ UNCHANGED <<directory, trigger, phase, read, graph>>
VisitUntilKnown ==
  /\ phase = "walking"
  /\ \E s \in toVisit :
       IF s \in affected
       THEN toVisit' = {} /\ UNCHANGED affected
       ELSE /\ affected' = affected \cup {s}
            /\ toVisit' = (toVisit \ {s}) \cup DependentsOf(s)
  /\ UNCHANGED <<directory, trigger, phase, read, graph>>

Visit ==
  /\ phase = "walking"
  /\ \E s \in toVisit :
       IF s \in affected
       THEN toVisit' = toVisit \ {s} /\ UNCHANGED affected
       ELSE /\ affected' = affected \cup {s}
            /\ toVisit' = (toVisit \ {s}) \cup DependentsOf(s)
  /\ UNCHANGED <<directory, trigger, phase, read, graph>>

\* What the trigger calls itself, one level only.
AddDependencies ==
  /\ phase = "walking" /\ toVisit = {}
  /\ affected' = affected \cup DependenciesOf(trigger)
  /\ phase' = "done"
  /\ UNCHANGED <<directory, trigger, read, graph, toVisit>>

GraphNext == ReadFile \/ ReadRaises \/ LinkGraph \/ Visit \/ AddDependencies

GraphSpec == GraphInit /\ [][GraphNext]_graphVars
-----------------------------------------------------------------------------
(* Properties                                                                 *)

GraphTypeOK ==
  /\ directory \in Directories /\ trigger \in Services
  /\ phase \in {"reading", "walking", "done", "raised"}
  /\ read \in 0..Len(directory)
  /\ DOMAIN graph \subseteq Services
  /\ graph \in [DOMAIN graph -> [dependencies : SUBSET Services,
                                 dependents : SUBSET DOMAIN graph]]
  /\ affected \subseteq Services /\ toVisit \subseteq Services

\* Which services declare that they call s, by the last manifest of each: the
\* directory's own account of it, whatever the graph says.
DeclaredConsumers(s) ==
  {directory[i].name : i \in
     {j \in Manifests : /\ s \in directory[j].dependencies
                        /\ \A k \in Manifests : k > j => directory[k].name # directory[j].name}}

\* The graph is what the directory declares, consumers included: no trace is left
\* of a manifest that a later file has replaced.
GraphIsDeclared ==
  phase \in {"walking", "done"} =>
    /\ DOMAIN graph = {directory[i].name : i \in Manifests}
    /\ \A s \in DOMAIN graph : graph[s].dependents = DeclaredConsumers(s)

ClosedUpstream(S) == trigger \in S /\ \A s \in S : DependentsOf(s) \subseteq S

\* Whom an incident on the trigger reaches: the least set with the trigger and with
\* the dependents of each of its members.
Upstream == {s \in Services : \A S \in SUBSET Services : ClosedUpstream(S) => s \in S}

\* The walk finds exactly the services that depend on the trigger, at any distance
\* and through cycles; what the trigger depends on is added once, at the end.
BlastRadiusIsExact ==
  phase = "done" => affected = Upstream \cup DependenciesOf(trigger)
=============================================================================
