--------------------------- MODULE GatheringProofs ---------------------------
(* Theorems about Gathering, for any services, directories of manifests, answers *)
(* and calls: the graph and the blast radius are what the manifests declare, and  *)
(* nothing recent on the blast radius is passed over in silence.                 *)
EXTENDS Gathering, TLAPS

\* Manifest i is the last of its service among the first n files.
LastOfFirst(i, n) ==
  /\ i \in Manifests /\ i <= n
  /\ \A k \in Manifests : k <= n /\ k > i => directory[k].name # directory[i].name

\* The graph so far is that of the files read so far.
Reading ==
  phase = "reading" =>
    /\ DOMAIN graph = {directory[i].name : i \in {j \in Manifests : j <= read}}
    /\ \A c \in DOMAIN graph :
         \E i \in Manifests : /\ LastOfFirst(i, read) /\ directory[i].name = c
                              /\ graph[c].dependencies = directory[i].dependencies

\* The walk stays within Upstream, and what it has not reached yet is reached from
\* what it has still to look at.
Walking ==
  phase = "walking" =>
    /\ trigger \in affected
    /\ affected \subseteq Upstream /\ toVisit \subseteq Upstream
    /\ \A s \in affected : DependentsOf(s) \subseteq affected \cup toVisit

GraphInv ==
  /\ GraphTypeOK
  /\ Reading
  /\ GraphIsDeclared
  /\ Walking
  /\ BlastRadiusIsExact

\* What the graph names is a service, whether or not it has a manifest.
LEMMA DependentsAreServices ==
  ASSUME GraphTypeOK, NEW s
  PROVE  DependentsOf(s) \subseteq Services /\ DependenciesOf(s) \subseteq Services
BY DEF GraphTypeOK, DependentsOf, DependenciesOf

\* Upstream is closed, and within every closed set of services.
LEMMA UpstreamIsClosed ==
  ASSUME GraphTypeOK
  PROVE  /\ trigger \in Upstream
         /\ \A s \in Upstream : DependentsOf(s) \subseteq Upstream
<1>1. trigger \in Upstream
  BY DEF Upstream, ClosedUpstream, GraphTypeOK
<1>2. ASSUME NEW s \in Upstream, NEW d \in DependentsOf(s)
      PROVE  d \in Upstream
  <2>1. d \in Services
    BY DependentsAreServices
  <2>2. \A S \in SUBSET Services : ClosedUpstream(S) => d \in S
    BY DEF Upstream, ClosedUpstream
  <2> QED BY <2>1, <2>2 DEF Upstream
<1> QED BY <1>1, <1>2

\* Nothing smaller is closed.
LEMMA UpstreamIsLeast ==
  ASSUME NEW S \in SUBSET Services, ClosedUpstream(S)
  PROVE  Upstream \subseteq S
BY DEF Upstream

\* A file that exists is one of the kinds the directory may hold.
LEMMA FileType ==
  ASSUME GraphTypeOK, NEW i \in DOMAIN directory
  PROVE  /\ directory[i] \in Files /\ i \in Nat
         /\ directory[i].name \in Services /\ directory[i].dependencies \subseteq Services
<1>1. directory \in Seq(Files)
  BY DirectoriesAssumption DEF GraphTypeOK
<1>2. i \in 1..Len(directory) /\ directory[i] \in Files
  BY <1>1
<1> QED BY <1>2 DEF Files

\* Nothing is read yet.
LEMMA GraphInitInv == ASSUME GraphInit PROVE GraphInv
<1>1. directory \in Seq(Files)
  BY DirectoriesAssumption DEF GraphInit
<1>2. DOMAIN graph = {} /\ graph \in [{} -> [dependencies : SUBSET Services,
                                            dependents : SUBSET {}]]
  BY DEF GraphInit
<1>3. GraphTypeOK
  BY <1>1, <1>2 DEF GraphInit, GraphTypeOK
<1>4. {j \in Manifests : j <= read} = {}
  BY <1>1 DEF GraphInit, Manifests
<1>5. Reading
  BY <1>2, <1>4 DEF Reading
<1> QED
  BY <1>3, <1>5 DEF GraphInit, GraphInv, GraphIsDeclared, Walking, BlastRadiusIsExact

\* The next file, by what it may hold.
LEMMA NextFile ==
  ASSUME GraphTypeOK, read < Len(directory)
  PROVE  /\ read \in Nat /\ read + 1 \in DOMAIN directory
         /\ {j \in Manifests : j <= read + 1} =
              IF directory[read + 1].kind = "manifest"
              THEN {j \in Manifests : j <= read} \cup {read + 1}
              ELSE {j \in Manifests : j <= read}
<1>1. directory \in Seq(Files) /\ read \in Nat /\ Len(directory) \in Nat
  BY DirectoriesAssumption DEF GraphTypeOK
<1>2. read + 1 \in DOMAIN directory /\ DOMAIN directory = 1..Len(directory)
  BY <1>1
<1>3. \A j \in Manifests : j <= read + 1 <=> j <= read \/ j = read + 1
  BY <1>1, <1>2 DEF Manifests
<1>4. read + 1 \in Manifests <=> directory[read + 1].kind = "manifest"
  BY <1>2 DEF Manifests
<1> QED BY <1>1, <1>2, <1>3, <1>4

\* A manifest takes the place of the earlier ones of its service.
LEMMA ReadFileInv == ASSUME GraphInv, ReadFile PROVE GraphInv'
<1> DEFINE file == directory[read + 1]
<1>1. /\ phase = "reading" /\ phase' = "reading" /\ read < Len(directory) /\ read' = read + 1
      /\ directory' = directory /\ trigger' = trigger
      /\ affected' = affected /\ toVisit' = toVisit /\ Manifests' = Manifests
  BY DEF ReadFile, Manifests
<1>2. /\ read \in Nat /\ read + 1 \in DOMAIN directory
      /\ file.kind \in {"manifest", "skipped"}
      /\ file.name \in Services /\ file.dependencies \subseteq Services
  <2>1. directory[read + 1] \in Files
    BY <1>1, NextFile, FileType DEF GraphInv
  <2> QED BY <1>1, <2>1, NextFile, FileType DEF GraphInv, Files, ReadFile
<1>3. GraphTypeOK'
  <2>1. read' \in 0..Len(directory)
    BY <1>1, <1>2 DEF GraphInv, GraphTypeOK
  <2>2. /\ DOMAIN graph' \subseteq Services
        /\ graph' \in [DOMAIN graph' -> [dependencies : SUBSET Services,
                                        dependents : SUBSET DOMAIN graph']]
    <3>1. CASE file.kind = "skipped"
      BY <3>1 DEF ReadFile, GraphInv, GraphTypeOK
    <3>2. CASE file.kind # "skipped"
      <4>1. graph' = [s \in DOMAIN graph \cup {file.name} |->
                        IF s = file.name
                        THEN [dependencies |-> file.dependencies, dependents |-> {}]
                        ELSE graph[s]]
        BY <3>2 DEF ReadFile
      <4>2. DOMAIN graph' = DOMAIN graph \cup {file.name}
        BY <4>1
      <4>3. \A s \in DOMAIN graph : graph[s] \in [dependencies : SUBSET Services,
                                                dependents : SUBSET DOMAIN graph']
        <5> TAKE s \in DOMAIN graph
        <5>1. graph[s] \in [dependencies : SUBSET Services, dependents : SUBSET DOMAIN graph]
          BY DEF GraphInv, GraphTypeOK
        <5> QED BY <5>1, <4>2
      <4> QED BY <4>1, <4>2, <4>3, <1>2 DEF GraphInv, GraphTypeOK
    <3> QED BY <3>1, <3>2
  <2> QED BY <1>1, <2>1, <2>2 DEF GraphInv, GraphTypeOK
<1>4. Reading'
  <2>1. CASE file.kind = "skipped"
    <3>1. graph' = graph
      BY <2>1 DEF ReadFile
    <3>2. {j \in Manifests : j <= read + 1} = {j \in Manifests : j <= read}
      BY <2>1, <1>1, NextFile DEF GraphInv
    <3>3. \A i \in Manifests : LastOfFirst(i, read) => LastOfFirst(i, read)'
      BY <1>1, <3>2 DEF LastOfFirst
    <3> QED BY <1>1, <3>1, <3>2, <3>3 DEF GraphInv, Reading
  <2>2. CASE file.kind = "manifest"
    <3>1. graph' = [s \in DOMAIN graph \cup {file.name} |->
                      IF s = file.name
                      THEN [dependencies |-> file.dependencies, dependents |-> {}]
                      ELSE graph[s]]
      BY <2>2 DEF ReadFile
    <3>2. {j \in Manifests : j <= read + 1} = {j \in Manifests : j <= read} \cup {read + 1}
      BY <2>2, <1>1, NextFile DEF GraphInv
    <3>3. DOMAIN graph' = {directory[i].name : i \in {j \in Manifests : j <= read + 1}}
      BY <3>1, <3>2, <1>1 DEF GraphInv, Reading
    <3>4. ASSUME NEW c \in DOMAIN graph'
          PROVE  \E i \in Manifests : /\ LastOfFirst(i, read)' /\ directory[i].name = c
                                     /\ graph'[c].dependencies = directory[i].dependencies
      <4>1. CASE c = file.name
        <5>1. PICK i \in Manifests : i = read + 1
          BY <3>2 DEF Manifests
        <5>2. \A k \in Manifests : k \in Nat
          BY FileType DEF Manifests, GraphInv
        <5>3. LastOfFirst(i, read)'
          BY <5>1, <5>2, <1>1, <1>2 DEF LastOfFirst
        <5> QED BY <4>1, <3>1, <5>1, <5>3
      <4>2. CASE c # file.name
        <5>1. c \in DOMAIN graph /\ graph'[c] = graph[c]
          BY <4>2, <3>1
        <5>2. PICK i \in Manifests : /\ LastOfFirst(i, read) /\ directory[i].name = c
                                    /\ graph[c].dependencies = directory[i].dependencies
          BY <5>1, <1>1 DEF GraphInv, Reading
        <5>3. i \in Nat /\ i <= read /\ i <= read + 1
          BY <5>2, <1>2, FileType DEF LastOfFirst, Manifests, GraphInv
        <5>4. LastOfFirst(i, read)'
          <6>1. ASSUME NEW k \in Manifests, k <= read + 1, k > i
                PROVE  directory[k].name # directory[i].name
            <7>1. k \in {j \in Manifests : j <= read} \cup {read + 1}
              BY <6>1, <3>2
            <7> QED BY <6>1, <7>1, <5>2, <4>2 DEF LastOfFirst
          <6> QED BY <6>1, <5>3, <1>1 DEF LastOfFirst
        <5> QED BY <5>1, <5>2, <5>4
      <4> QED BY <4>1, <4>2
    <3> QED BY <3>3, <3>4, <1>1 DEF Reading
  <2> QED BY <2>1, <2>2, <1>2
<1> QED
  BY <1>1, <1>3, <1>4 DEF GraphInv, GraphIsDeclared, Walking, BlastRadiusIsExact

\* The last manifest of each service is what the graph has of it, so that the
\* consumers in the graph are those the directory declares.
LEMMA ConsumersAreDeclared ==
  ASSUME GraphInv, phase = "reading", read = Len(directory), NEW s
  PROVE  Consumers(s) = DeclaredConsumers(s)
<1>1. \A k \in Manifests : k \in Nat /\ k <= read /\ directory[k].name \in DOMAIN graph
  <2> TAKE k \in Manifests
  <2>1. k \in 1..Len(directory)
    <3>1. directory \in Seq(Files)
      BY DirectoriesAssumption DEF GraphInv, GraphTypeOK
    <3> QED BY <3>1 DEF Manifests
  <2> QED BY <2>1 DEF GraphInv, Reading
<1>2. \A i \in Manifests :
        LastOfFirst(i, read) <=> \A k \in Manifests : k > i => directory[k].name # directory[i].name
  BY <1>1 DEF LastOfFirst
<1>3. \A i, j \in Manifests :
        LastOfFirst(i, read) /\ LastOfFirst(j, read) /\ directory[i].name = directory[j].name => i = j
  <2> TAKE i, j \in Manifests
  <2>1. i = j \/ i > j \/ j > i
    BY <1>1
  <2> QED BY <1>2, <2>1
<1>4. \A c \in DOMAIN graph : \A i \in Manifests :
        LastOfFirst(i, read) /\ directory[i].name = c
          => graph[c].dependencies = directory[i].dependencies
  BY <1>3 DEF GraphInv, Reading
<1>5. \A c \in Consumers(s) : c \in DeclaredConsumers(s)
  <2> TAKE c \in Consumers(s)
  <2>1. PICK i \in Manifests : /\ LastOfFirst(i, read) /\ directory[i].name = c
                              /\ graph[c].dependencies = directory[i].dependencies
    BY DEF GraphInv, Reading, Consumers
  <2> QED BY <2>1, <1>2 DEF Consumers, DeclaredConsumers
<1>6. \A c \in DeclaredConsumers(s) : c \in Consumers(s)
  BY <1>1, <1>2, <1>4 DEF Consumers, DeclaredConsumers
<1> QED BY <1>5, <1>6

\* The consumers are noted and the walk starts.
LEMMA LinkGraphInv == ASSUME GraphInv, LinkGraph PROVE GraphInv'
<1>1. /\ phase = "reading" /\ phase' = "walking" /\ read = Len(directory) /\ read' = read
      /\ directory' = directory /\ trigger' = trigger /\ affected' = {trigger}
      /\ graph' = [s \in DOMAIN graph |-> [graph[s] EXCEPT !.dependents = Consumers(s)]]
      /\ DOMAIN graph' = DOMAIN graph
      /\ Manifests' = Manifests
  BY DEF LinkGraph, Manifests
<1>2. \A s \in DOMAIN graph :
        /\ graph[s] \in [dependencies : SUBSET Services, dependents : SUBSET DOMAIN graph]
        /\ Consumers(s) \subseteq DOMAIN graph
        /\ graph'[s] \in [dependencies : SUBSET Services, dependents : SUBSET DOMAIN graph']
        /\ graph'[s].dependents = Consumers(s)
  <2> TAKE s \in DOMAIN graph
  <2>1. graph[s] \in [dependencies : SUBSET Services, dependents : SUBSET DOMAIN graph]
    BY DEF GraphInv, GraphTypeOK
  <2>2. Consumers(s) \subseteq DOMAIN graph
    BY DEF Consumers
  <2> QED BY <1>1, <2>1, <2>2
<1>3. toVisit' = DependentsOf(trigger)'
  BY <1>1, <1>2 DEF LinkGraph, DependentsOf
<1>4. GraphTypeOK'
  <2>1. toVisit' \subseteq Services
    BY <1>2 DEF LinkGraph, GraphInv, GraphTypeOK
  <2>2. graph' \in [DOMAIN graph' -> [dependencies : SUBSET Services,
                                    dependents : SUBSET DOMAIN graph']]
    BY <1>1, <1>2
  <2> QED BY <1>1, <2>1, <2>2 DEF GraphInv, GraphTypeOK
<1>5. GraphIsDeclared'
  <2>1. DOMAIN graph = {directory[i].name : i \in Manifests}
    <3>1. directory \in Seq(Files)
      BY DirectoriesAssumption DEF GraphInv, GraphTypeOK
    <3>2. {j \in Manifests : j <= read} = Manifests
      BY <3>1, <1>1 DEF Manifests
    <3> QED BY <3>2, <1>1 DEF GraphInv, Reading
  <2>2. \A s : DeclaredConsumers(s)' = DeclaredConsumers(s)
    BY <1>1 DEF DeclaredConsumers
  <2>3. \A s \in DOMAIN graph : graph'[s].dependents = DeclaredConsumers(s)
    BY <1>1, <1>2, ConsumersAreDeclared
  <2> QED BY <1>1, <2>1, <2>2, <2>3 DEF GraphIsDeclared
<1>6. Walking'
  <2>1. /\ (trigger \in Upstream)'
        /\ (\A s \in Upstream : DependentsOf(s) \subseteq Upstream)'
    BY <1>4, UpstreamIsClosed, PTL
  <2>2. trigger' \in Upstream' /\ DependentsOf(trigger)' \subseteq Upstream'
    BY <2>1
  <2> QED BY <1>1, <1>3, <2>2 DEF Walking
<1> QED BY <1>1, <1>4, <1>5, <1>6 DEF GraphInv, Reading, BlastRadiusIsExact

\* While the graph and the trigger stay, so does what is computed from them.
LEMMA GraphStays ==
  ASSUME UNCHANGED <<directory, trigger, graph>>
  PROVE  /\ Manifests' = Manifests
         /\ \A s : DependentsOf(s)' = DependentsOf(s) /\ DependenciesOf(s)' = DependenciesOf(s)
         /\ \A s : DeclaredConsumers(s)' = DeclaredConsumers(s)
         /\ Upstream' = Upstream
<1>1. /\ Manifests' = Manifests
      /\ \A s : DependentsOf(s)' = DependentsOf(s) /\ DependenciesOf(s)' = DependenciesOf(s)
  BY DEF Manifests, DependentsOf, DependenciesOf
<1>2. \A s : DeclaredConsumers(s)' = DeclaredConsumers(s)
  BY <1>1 DEF DeclaredConsumers
<1>3. \A S : ClosedUpstream(S)' <=> ClosedUpstream(S)
  BY <1>1 DEF ClosedUpstream
<1> QED BY <1>1, <1>2, <1>3 DEF Upstream

\* A service that is visited was upstream, and so are its dependents.
LEMMA VisitInv == ASSUME GraphInv, Visit PROVE GraphInv'
<1>1. /\ phase = "walking" /\ phase' = "walking" /\ read' = read
      /\ UNCHANGED <<directory, trigger, graph>>
  BY DEF Visit
<1>2. PICK s \in toVisit :
        IF s \in affected
        THEN toVisit' = toVisit \ {s} /\ affected' = affected
        ELSE /\ affected' = affected \cup {s}
             /\ toVisit' = (toVisit \ {s}) \cup DependentsOf(s)
  BY DEF Visit
<1>3. s \in Services /\ DependentsOf(s) \subseteq Services /\ s \in Upstream
      /\ DependentsOf(s) \subseteq Upstream
  BY <1>1, DependentsAreServices, UpstreamIsClosed DEF GraphInv, GraphTypeOK, Walking
<1>4. GraphTypeOK'
  BY <1>1, <1>2, <1>3 DEF GraphInv, GraphTypeOK
<1>5. Walking'
  <2>1. /\ trigger \in affected' /\ affected' \subseteq Upstream /\ toVisit' \subseteq Upstream
    BY <1>1, <1>2, <1>3 DEF GraphInv, Walking
  <2>2. \A t \in affected' : DependentsOf(t) \subseteq affected' \cup toVisit'
    BY <1>1, <1>2 DEF GraphInv, Walking
  <2> QED BY <1>1, <2>1, <2>2, GraphStays DEF Walking
<1>6. GraphIsDeclared'
  BY <1>1, GraphStays DEF GraphInv, GraphIsDeclared
<1> QED BY <1>1, <1>4, <1>5, <1>6 DEF GraphInv, Reading, BlastRadiusIsExact

\* Nothing is left to visit: what was reached is closed, hence all of Upstream.
LEMMA AddDependenciesInv == ASSUME GraphInv, AddDependencies PROVE GraphInv'
<1>1. /\ phase = "walking" /\ phase' = "done" /\ toVisit = {} /\ toVisit' = {} /\ read' = read
      /\ UNCHANGED <<directory, trigger, graph>>
      /\ affected' = affected \cup DependenciesOf(trigger)
  BY DEF AddDependencies
<1>2. affected = Upstream
  <2>1. ClosedUpstream(affected)
    BY <1>1 DEF GraphInv, Walking, ClosedUpstream
  <2>2. Upstream \subseteq affected
    BY <2>1, UpstreamIsLeast DEF GraphInv, GraphTypeOK
  <2> QED BY <1>1, <2>2 DEF GraphInv, Walking
<1>3. BlastRadiusIsExact'
  BY <1>1, <1>2, GraphStays DEF BlastRadiusIsExact
<1>4. GraphTypeOK'
  BY <1>1, DependentsAreServices DEF GraphInv, GraphTypeOK
<1>5. GraphIsDeclared'
  BY <1>1, GraphStays DEF GraphInv, GraphIsDeclared
<1> QED BY <1>1, <1>3, <1>4, <1>5 DEF GraphInv, Reading, Walking

\* Steps that leave the graph alone keep what is known of it.
LEMMA GraphKept == ASSUME GraphInv, UNCHANGED graphVars PROVE GraphInv'
<1>1. /\ UNCHANGED <<directory, trigger, graph>> /\ phase' = phase /\ read' = read
      /\ affected' = affected /\ toVisit' = toVisit
  BY DEF graphVars
<1>2. GraphTypeOK'
  BY <1>1 DEF GraphInv, GraphTypeOK
<1>3. Reading'
  <2>1. \A i : LastOfFirst(i, read)' <=> LastOfFirst(i, read)
    BY <1>1, GraphStays DEF LastOfFirst
  <2> QED BY <1>1, <2>1, GraphStays DEF GraphInv, Reading
<1>4. Walking' /\ GraphIsDeclared' /\ BlastRadiusIsExact'
  BY <1>1, GraphStays DEF GraphInv, Walking, GraphIsDeclared, BlastRadiusIsExact
<1> QED BY <1>2, <1>3, <1>4 DEF GraphInv

\* A broken manifest ends the command before the walk.
LEMMA ReadRaisesInv == ASSUME GraphInv, ReadRaises PROVE GraphInv'
<1>1. /\ phase' = "raised" /\ UNCHANGED <<directory, trigger, read, graph, affected, toVisit>>
  BY DEF ReadRaises
<1>2. GraphTypeOK'
  BY <1>1 DEF GraphInv, GraphTypeOK
<1> QED BY <1>1, <1>2 DEF GraphInv, Reading, Walking, GraphIsDeclared, BlastRadiusIsExact

\* One case per action of the graph.
LEMMA GraphNextInv == ASSUME GraphInv, GraphNext PROVE GraphInv'
BY ReadFileInv, ReadRaisesInv, LinkGraphInv, VisitInv, AddDependenciesInv DEF GraphNext
-----------------------------------------------------------------------------
(* The gathering                                                              *)

\* What the sources said of affected services is among the events.
Heard ==
  /\ phase # "done" => said = {} /\ outcome = None
  /\ \A s \in said : s.service \in affected => s \in Recent(events)
  /\ outcome \in {"no events", "no groups"} => Recent(events) = {}

\* Of the calls between services with a profile, a search that was not full holds
\* all, and what the backend reports was called or is known to the metrics.
Traced ==
  /\ phase # "done" => query = "idle"
  /\ query \in {"idle", "stats"} => profiled = {}
  /\ query \in {"idle", "stats", "edges"} => calls = {}
  /\ profiled \subseteq affected /\ edges \subseteq calls \cup idle
  /\ ~cut => \A a, b \in profiled : a # b /\ <<a, b>> \in calls => <<a, b>> \in edges

Compared ==
  /\ phase # "done" => divergence = None
  /\ divergence # None => /\ step \in {"correlate", "end"}
                          /\ divergence = DetectTopologyDivergence(graph)

Inv == GraphInv /\ Heard /\ Traced /\ Compared

\* Nothing is asked yet.
LEMMA InitInv == ASSUME Init PROVE Inv
<1>1. GraphInv
  BY GraphInitInv DEF Init
<1>2. Recent({}) = {}
  BY DEF Recent
<1>3. Heard /\ Traced /\ Compared
  BY <1>2 DEF Init, GraphInit, TraceInit, Heard, Traced, Compared
<1> QED BY <1>1, <1>3 DEF Inv

\* The graph and the blast radius are complete before anything is asked.
LEMMA PrepareInv == ASSUME Inv, Prepare PROVE Inv'
<1>1. GraphInv' /\ phase # "done"
  BY GraphNextInv
  DEF Inv, Prepare, GraphNext, ReadFile, ReadRaises, LinkGraph, Visit, AddDependencies
<1>2. UNCHANGED <<query, profiled, observed, step, events, said, evidence, divergence, outcome>>
  BY DEF Prepare, traceVars, observed, gatherVars
<1>3. said = {} /\ outcome = None /\ query = "idle" /\ divergence = None
  BY <1>1 DEF Inv, Heard, Traced, Compared
<1>4. Heard'
  BY <1>2, <1>3, LimitsAssumption DEF Heard
<1>5. Traced' /\ Compared'
  BY <1>2, <1>3 DEF Inv, Traced, Compared, observed
<1> QED BY <1>1, <1>4, <1>5 DEF Inv

\* Whatever is done once the blast radius is known leaves it as it is.
LEMMA AfterPrepare ==
  ASSUME Inv, phase = "done", UNCHANGED graphVars
  PROVE  /\ GraphInv' /\ phase' = "done" /\ affected' = affected /\ graph' = graph
         /\ \A s : DependenciesOf(s)' = DependenciesOf(s)
BY GraphKept DEF Inv, graphVars, DependenciesOf

\* An answer adds to the events what it says of affected services.
LEMMA GatherInv ==
  ASSUME Inv, At(step), NEW signals, NEW next, Gather(signals, next),
         step \in {"alerts", "breaches", "verdicts"}
  PROVE  Inv'
<1>1. /\ phase = "done" /\ outcome = None /\ UNCHANGED graphVars
      /\ events' = events \cup {s \in signals : s.service \in affected}
      /\ said' = said \cup Recent(signals)
      /\ UNCHANGED <<query, profiled, observed, evidence, divergence, outcome>>
  BY DEF At, Gather, traceVars, observed
<1>2. GraphInv' /\ phase' = "done" /\ affected' = affected /\ graph' = graph
  BY <1>1, AfterPrepare
<1>3. \A s \in said' : s.service \in affected => s \in Recent(events')
  BY <1>1 DEF Inv, Heard, Recent
<1>4. Heard'
  BY <1>1, <1>2, <1>3, LimitsAssumption DEF Heard
<1>5. Traced'
  BY <1>1, <1>2 DEF Inv, Traced, observed
<1>6. divergence = None
  BY DEF Inv, Compared
<1>7. Compared'
  BY <1>1, <1>2, <1>6 DEF Compared
<1> QED BY <1>2, <1>4, <1>5, <1>7 DEF Inv

\* A step after which the command is over or goes on with what it has.
LEMMA KeepsInv ==
  ASSUME Inv, phase = "done", UNCHANGED graphVars,
         UNCHANGED <<query, profiled, observed, events, said>>,
         outcome' = outcome \/ outcome' = "raised" \/ outcome' = "groups"
           \/ Recent(events) = {},
         divergence' = divergence \/ divergence' = DetectTopologyDivergence(graph),
         divergence' # None => step' \in {"correlate", "end"}
  PROVE  Inv'
<1>1. GraphInv' /\ phase' = "done" /\ affected' = affected /\ graph' = graph
  BY AfterPrepare
<1>2. Heard'
  BY <1>1 DEF Inv, Heard, Recent
<1>3. Traced'
  BY <1>1 DEF Inv, Traced, observed
<1>4. DetectTopologyDivergence(graph)' = DetectTopologyDivergence(graph)
  BY <1>1 DEF DetectTopologyDivergence, Observed, Declared, observed
<1>5. Compared'
  BY <1>1, <1>4 DEF Inv, Compared
<1> QED BY <1>1, <1>2, <1>3, <1>5 DEF Inv

\* Each phase of the trace queries.
LEMMA QueryTracesInv == ASSUME Inv, QueryTraces PROVE Inv'
<1>1. /\ phase = "done" /\ step = "traces" /\ outcome = None /\ UNCHANGED graphVars
      /\ UNCHANGED <<step, events, said, evidence, divergence, outcome>>
  BY DEF QueryTraces, At, gatherVars
<1>2. GraphInv' /\ phase' = "done" /\ affected' = affected /\ graph' = graph
  BY <1>1, AfterPrepare
<1>3. divergence = None
  BY <1>1 DEF Inv, Compared
<1>4. Traced'
  <2>1. CASE AskTraces \/ QueryDetails \/ QueryRaises
    BY <1>1, <1>2, <2>1 DEF Inv, Traced, AskTraces, QueryDetails, QueryRaises, Phases, observed
  <2>2. CASE QueryStats(affected)
    BY <1>1, <1>2, <2>2 DEF Inv, Traced, QueryStats, observed
  <2>3. CASE QueryEdges(affected)
    <3>1. /\ query' = "details" /\ profiled' = profiled /\ profiled \subseteq affected
          /\ FromSpans(affected, calls') \/ FromMetrics(affected, calls')
      BY <2>3 DEF QueryEdges, Inv, Traced
    <3>2. edges' \subseteq calls' \cup idle'
      BY <3>1 DEF FromSpans, Found, FromMetrics, SeriesOf
    <3>3. ASSUME ~cut', NEW a \in affected, NEW b \in affected, a # b, <<a, b>> \in calls'
          PROVE  <<a, b>> \in edges'
      BY <3>1, <3>3 DEF FromSpans, Found, FromMetrics, SeriesOf
    <3> QED BY <1>2, <3>1, <3>2, <3>3 DEF Traced
  <2> QED BY <2>1, <2>2, <2>3 DEF QueryTraces, TraceNext
<1>5. Heard' /\ Compared'
  BY <1>1, <1>2, <1>3 DEF Inv, Heard, Compared, Recent
<1> QED BY <1>2, <1>4, <1>5 DEF Inv

\* One case per action, those that change the same things together.
LEMMA NextInv == ASSUME Inv, [Next]_vars PROVE Inv'
<1>1. CASE Prepare
  BY <1>1, PrepareInv
<1>2. CASE FetchAlerts \/ AlertsFail \/ FetchBreaches \/ QueryVerdicts
  BY <1>2, GatherInv DEF FetchAlerts, AlertsFail, FetchBreaches, QueryVerdicts, At
<1>3. CASE SourceRaises \/ NoBackend \/ TracesEnd \/ CloseBackend
  <2>1. /\ phase = "done" /\ UNCHANGED graphVars /\ divergence' = divergence
        /\ UNCHANGED <<query, profiled, observed, events, said>>
        /\ outcome' = outcome \/ outcome' = "raised"
        /\ step \notin {"correlate", "end"}
    BY <1>3 DEF SourceRaises, NoBackend, TracesEnd, CloseBackend, Raise, At, traceVars,
       observed
  <2> QED BY <2>1, KeepsInv DEF Inv, Compared
<1>4. CASE Compare
  <2>1. /\ phase = "done" /\ UNCHANGED graphVars /\ outcome' = outcome /\ step' = "correlate"
        /\ UNCHANGED <<query, profiled, observed, events, said>>
        /\ divergence' = divergence \/ divergence' = DetectTopologyDivergence(graph)
    BY <1>4 DEF Compare, At, traceVars, observed
  <2> QED BY <2>1, KeepsInv
<1>5. CASE CorrelateRaises \/ Correlate
  <2>1. /\ phase = "done" /\ UNCHANGED graphVars /\ divergence' = divergence /\ step' = "end"
        /\ UNCHANGED <<query, profiled, observed, events, said>>
        /\ outcome' = "groups" \/ outcome' = "raised" \/ Recent(events) = {}
    BY <1>5 DEF CorrelateRaises, Raise, Correlate, At, traceVars, observed, Recent
  <2> QED BY <2>1, KeepsInv
<1>6. CASE UNCHANGED vars
  <2>1. GraphInv' /\ affected' = affected /\ graph' = graph /\ phase' = phase
    BY <1>6, GraphKept DEF vars, graphVars, Inv
  <2>2. UNCHANGED <<query, profiled, observed, step, events, said, evidence, divergence, outcome>>
    BY <1>6 DEF vars, traceVars, observed, gatherVars
  <2>3. Heard' /\ Traced'
    BY <2>1, <2>2 DEF Inv, Heard, Traced, observed, Recent
  <2>4. Compared'
    BY <2>1, <2>2 DEF Inv, Compared, DetectTopologyDivergence, Observed, Declared, observed
  <2> QED BY <2>1, <2>3, <2>4 DEF Inv
<1>7. CASE QueryTraces
  BY <1>7, QueryTracesInv
<1> QED BY <1>1, <1>2, <1>3, <1>4, <1>5, <1>6, <1>7 DEF Next, Work, Done

\* The inductive invariant holds in every state.
THEOREM Invariance == Spec => []Inv
<1>1. Init => Inv
  BY InitInv
<1>2. Inv /\ [Next]_vars => Inv'
  BY NextInv
<1> QED BY <1>1, <1>2, PTL DEF Spec

\* The variables have their types.
THEOREM TypeSafety == Spec => []TypeOK
<1> DEFINE Steps == {"alerts", "breaches", "verdicts", "traces", "close", "compare",
                     "correlate", "end"}
           Types == /\ query \in Phases \cup {"idle", "answered", "failed"}
                    /\ calls \in CallSets \cup {{}} /\ idle \in CallSets \cup {{}}
                    /\ cut \in BOOLEAN /\ step \in Steps
                    /\ Recent(events) \subseteq said /\ (divergence # None => evidence)
                    /\ outcome \in {None, "no events", "no groups", "groups", "raised"}
<1>1. Init => Types
  BY DEF Init, TraceInit, Recent
<1>2. ASSUME Inv, Types, [Next]_vars PROVE Types'
  <2>1. CASE UNCHANGED vars \/ Prepare
    BY <1>2, <2>1 DEF vars, Prepare, traceVars, observed, gatherVars, Recent
  <2>2. ASSUME NEW signals, NEW next \in Steps, Gather(signals, next) PROVE Types'
    BY <1>2, <2>2 DEF Gather, Recent, traceVars, observed
  <2>3. CASE FetchAlerts \/ AlertsFail \/ FetchBreaches \/ QueryVerdicts
    BY <2>2, <2>3 DEF FetchAlerts, AlertsFail, FetchBreaches, QueryVerdicts
  <2>4. CASE QueryTraces
    BY <1>2, <2>4 DEF QueryTraces, AskTraces, TraceNext, QueryStats, QueryEdges, FromSpans,
       FromMetrics, QueryDetails, QueryRaises, Phases, observed, gatherVars, Recent
  <2>5. CASE SourceRaises \/ NoBackend \/ TracesEnd \/ CloseBackend \/ Compare
             \/ CorrelateRaises \/ Correlate
    <3>1. divergence = None \/ step \in {"correlate", "end"}
      BY <1>2 DEF Inv, Compared
    <3> QED BY <1>2, <2>5, <3>1 DEF SourceRaises, NoBackend, TracesEnd, CloseBackend, Compare,
               CorrelateRaises, Correlate, Raise, At, traceVars, observed, Recent
  <2> QED BY <1>2, <2>1, <2>3, <2>4, <2>5 DEF Next, Work, Done
<1>3. Inv /\ Types => TypeOK
  BY DEF Inv, GraphInv, Traced, TypeOK
<1>4. Spec => []Types
  BY <1>1, <1>2, Invariance, PTL DEF Spec
<1> QED BY <1>3, <1>4, Invariance, PTL

\* The graph the command works with is what the directory declares: the last
\* manifest of each service, and its consumers by theirs (load_dependency_graph).
THEOREM GraphFollowsManifests == Spec => []GraphIsDeclared
BY Invariance, PTL DEF Inv, GraphInv

\* The walk over the dependents finds them all and nothing else, on every graph
\* (blast_radius_services).
THEOREM WalkIsExact == Spec => []BlastRadiusIsExact
BY Invariance, PTL DEF Inv, GraphInv

\* The command never ends as if nothing were the matter while a source that
\* answered had a recent signal on the blast radius.
THEOREM SilenceSafety == Spec => []SilenceIsSilence
<1>1. Inv => SilenceIsSilence
  <2> SUFFICES ASSUME Inv, outcome \in {"no events", "no groups"}
               PROVE  \A s \in said : s.service \notin Upstream \cup DependenciesOf(trigger)
    BY DEF SilenceIsSilence
  <2>1. phase = "done"
    BY LimitsAssumption DEF Inv, Heard
  <2>2. affected = Upstream \cup DependenciesOf(trigger)
    BY <2>1 DEF Inv, GraphInv, BlastRadiusIsExact
  <2>3. \A s \in said : s.service \notin affected
    BY DEF Inv, Heard
  <2> QED BY <2>2, <2>3
<1> QED BY <1>1, Invariance, PTL

\* What detect_topology_divergence reports of two services with a profile is the
\* difference between the calls there were and the calls the manifests declare, but
\* for what a full search hides and for calls of which the metrics know only the past.
THEOREM DivergenceSafety == Spec => []DivergenceIsReal
<1>1. Inv => DivergenceIsReal
  <2> SUFFICES ASSUME Inv, divergence # None,
                      NEW a \in profiled, NEW b \in profiled, a # b
               PROVE  LET called == <<a, b>> \in calls
                          known  == <<a, b>> \in idle
                          named  == a \in DOMAIN graph /\ b \in graph[a].dependencies
                      IN  /\ <<a, b>> \in divergence.undeclared => (called \/ known) /\ ~named
                          /\ <<a, b>> \in divergence.unobserved => named /\ (called => cut)
                          /\ called /\ ~named /\ ~cut => <<a, b>> \in divergence.undeclared
                          /\ named /\ ~called /\ ~known => <<a, b>> \in divergence.unobserved
    BY DEF DivergenceIsReal
  <2>1. /\ divergence.undeclared = Observed \ Declared(graph)
        /\ divergence.unobserved = Declared(graph) \ Observed
    BY DEF Inv, Compared, DetectTopologyDivergence
  <2>2. <<a, b>> \in Observed <=> <<a, b>> \in edges
    BY DEF Observed
  <2>3. <<a, b>> \in Declared(graph) <=> a \in DOMAIN graph /\ b \in graph[a].dependencies
    BY DEF Declared
  <2>4. /\ <<a, b>> \in edges => <<a, b>> \in calls \/ <<a, b>> \in idle
        /\ ~cut => (<<a, b>> \in calls => <<a, b>> \in edges)
    BY DEF Inv, Traced
  <2> QED BY <2>1, <2>2, <2>3, <2>4
<1> QED BY <1>1, Invariance, PTL
=============================================================================
