---------------------------- MODULE Correlation -----------------------------
(* The correlation pipeline (correlation/*.py), as the engine runs it over the  *)
(* events of a time window of the store and as replay_command (cli.py) runs it   *)
(* over the events of a scenario file: they are deduplicated, grouped by service *)
(* and time, linked by the dependency topology and assembled into prioritised    *)
(* groups with their change candidates.                                         *)
(* An event is a record [id, service, signal, change, severity, at, stamp]:      *)
(* signal is the rest of its dedup key (source, type, environment, alert), at    *)
(* the instant its timestamp denotes, stamp what the timestamp's text compares   *)
(* by: its wall clock, which is at for an event that reports in UTC.  Severities *)
(* are in tenths.                                                               *)
EXTENDS Integers, FiniteSets, Lists

CONSTANTS
  Events,       \* the events that may be reported
  Topology,     \* services with a manifest: [tier, dependencies]; <<>> for none
  Window,       \* window_minutes, of the query and of the grouping
  LookBack,     \* how far back change candidates are looked for
  MaxStored     \* bound: events in the store

ASSUME EventsAssumption ==
  \A e \in Events : /\ e = [id |-> e.id, service |-> e.service, signal |-> e.signal,
                            change |-> e.change, severity |-> e.severity,
                            at |-> e.at, stamp |-> e.stamp]
                    /\ e.at \in Nat /\ e.stamp \in Nat \ {0}
                    /\ e.severity \in 0..10 /\ e.change \in BOOLEAN
ASSUME WindowAssumption == Window \in Nat /\ LookBack \in Nat

VARIABLES
  stored,       \* the rows of the store
  seen,         \* the events the last correlate took from the store, newest first
  groups,       \* what it returned
  base,         \* history: the rows of the store at that time
  back          \* history: how far back it looked for changes

vars == <<stored, seen, groups, base, back>>

Init == stored = {} /\ seen = <<>> /\ groups = <<>> /\ base = {} /\ back = LookBack

MaxOf(numbers) == CHOOSE n \in numbers : \A m \in numbers : m <= n

\* ORDER BY timestamp DESC; rows with equal timestamps come in any order.
TimeWindow(rows, start, end) ==
  LET inside == {e \in rows : e.stamp \in start..end}
  IN  {list \in SetToSeqs(inside) :
         \A i, j \in DOMAIN list : i < j => list[i].stamp >= list[j].stamp}

Key(e) == <<e.service, e.signal, e.change>>

\* The first of the list is kept for each key, which is the newest.
Deduplicate(events) ==
  FoldLeft(LAMBDA kept, e :
             IF \E k \in ToSet(kept) : Key(k) = Key(e) THEN kept ELSE Append(kept, e),
           <<>>, events)

\* Stable, by the text of the timestamp.
SortedByStamp(events) ==
  FlattenSeq([t \in 1..MaxOf({e.stamp : e \in ToSet(events)} \cup {0}) |->
                Selected(events, {e \in ToSet(events) : e.stamp = t})])

\* Variant of Windows: the window is half open.
WindowsHalfOpen(events, window) ==
  FoldLeft(LAMBDA windows, e :
             IF windows # <<>> /\ e.at - Head(Last(windows)).at < window
             THEN Append(Front(windows), Append(Last(windows), e))
             ELSE Append(windows, <<e>>),
           <<>>, events)

\* The events of one service, split where one is too far from the window's first.
Windows(events, window) ==
  FoldLeft(LAMBDA windows, e :
             IF windows # <<>> /\ e.at - Head(Last(windows)).at <= window
             THEN Append(Front(windows), Append(Last(windows), e))
             ELSE Append(windows, <<e>>),
           <<>>, events)

\* In the order of their first event.
ServicesOf(events) ==
  FoldLeft(LAMBDA list, e : IF e.service \in ToSet(list) THEN list ELSE Append(list, e.service),
           <<>>, events)

\* A temporal group is its events, all of one service.
GroupTemporal(events, window) ==
  LET sorted   == SortedByStamp(events)
      services == ServicesOf(sorted)
  IN  FlattenSeq([i \in DOMAIN services |->
        Windows(Selected(sorted, {e \in ToSet(sorted) : e.service = services[i]}), window)])

ServiceOf(signal) == Head(signal).service
Peak(signal) == MaxOf({e.severity : e \in ToSet(signal)})
PeakOf(signals) == MaxOf({Peak(s) : s \in ToSet(signals)})

DependsOn(a, b) == a \in DOMAIN Topology /\ b \in Topology[a].dependencies
Critical(s) == s \in DOMAIN Topology /\ Topology[s].tier = "critical"

\* The pairs of services one of which depends on the other, each once, in the
\* order of their temporal groups.
GroupTopology(signals) ==
  LET index == FlattenSeq([i \in DOMAIN signals |->
                 [k \in 1..(Len(signals) - i) |-> <<i, i + k>>]])
      service(i) == ServiceOf(signals[i])
      linkable(p) == DependsOn(service(p[1]), service(p[2]))
                       \/ DependsOn(service(p[2]), service(p[1]))
      pair(p) == {service(p[1]), service(p[2])}
  IN  FoldLeft(LAMBDA links, p :
                 IF Cardinality(pair(p)) = 2 /\ linkable(p) /\ pair(p) \notin ToSet(links)
                 THEN Append(links, pair(p)) ELSE links,
               <<>>, index)

\* The lower end of the look-back is computed in UTC, the upper end is the text
\* of the reference time.
RecentChanges(rows, service, reference, lookBack) ==
  {e \in rows : /\ e.change /\ e.service = service
                /\ e.stamp >= reference.at - lookBack /\ e.stamp <= reference.stamp}

\* Variant: changes on the services that depend on it.
CandidatesDependents(rows, signal, lookBack) ==
  UNION {RecentChanges(rows, s, Head(signal), lookBack) :
           s \in {ServiceOf(signal)} \cup {d \in DOMAIN Topology : DependsOn(d, ServiceOf(signal))}}

\* The changes on a temporal group's service and on what it depends on.
Candidates(rows, signal, lookBack) ==
  UNION {RecentChanges(rows, s, Head(signal), lookBack) :
           s \in {ServiceOf(signal)} \cup (IF ServiceOf(signal) \in DOMAIN Topology
                                          THEN Topology[ServiceOf(signal)].dependencies ELSE {})}

\* One entry per service: that of its last temporal group with candidates.
FindChangeCandidates(rows, signals, lookBack) ==
  LET of(i)     == Candidates(rows, signals[i], lookBack)
      having(s) == {i \in DOMAIN signals : ServiceOf(signals[i]) = s /\ of(i) # {}}
  IN  [s \in {ServiceOf(signals[i]) : i \in DOMAIN signals} |->
         IF having(s) = {} THEN {} ELSE of(MaxOf(having(s)))]

\* Variant: only the group's own link makes it urgent.
ComputePriorityOwnLink(peak, services, links) ==
  CASE peak > 8 /\ (\E s \in services : Critical(s)) -> 0
    [] peak > 6                                      -> 1
    [] OTHER -> IF \E s \in services : Critical(s) THEN 1 ELSE IF peak > 3 THEN 2 ELSE 3

ComputePriority(peak, services, links) ==
  LET linkedToCritical == \E i \in DOMAIN links : /\ links[i] \cap services # {}
                                                  /\ \E s \in links[i] : Critical(s)
  IN  IF peak > 8 /\ \E s \in services : Critical(s) THEN 0
      ELSE IF peak > 6 \/ linkedToCritical THEN 1
      ELSE IF peak > 3 THEN 2 ELSE 3

\* A group lists the services of its link, those whose signals an earlier link has
\* taken included.
MakeGroup(services, signals, links, changes) ==
  [services |-> services,
   signals  |-> signals,
   priority |-> ComputePriority(PeakOf(signals), services, links),
   changes  |-> UNION {changes[s] : s \in services}]

\* Variant: the groups of the links, each with all of its services' signals.
LinkedGroupsShared(signals, links, changes) ==
  FoldLeft(LAMBDA done, link :
             Append(done, MakeGroup(link,
               Selected(signals, {s \in ToSet(signals) : ServiceOf(s) \in link}), links, changes)),
           <<>>, links)

\* First pass: a signal goes to the first link that has its service.
LinkedGroups(signals, links, changes) ==
  FoldLeft(LAMBDA done, link :
             LET taken == UNION {ToSet(g.signals) : g \in ToSet(done)}
                 mine  == Selected(signals, {s \in ToSet(signals) :
                                               ServiceOf(s) \in link /\ s \notin taken})
             IN  IF mine = <<>> THEN done
                 ELSE Append(done, MakeGroup(link, mine, links, changes)),
           <<>>, links)

AssembleGroups(signals, links, changes) ==
  LET linked == LinkedGroups(signals, links, changes)
      taken  == UNION {ToSet(g.signals) : g \in ToSet(linked)}
      alone  == Selected(signals, ToSet(signals) \ taken)
      all    == linked \o [i \in DOMAIN alone |->
                  MakeGroup({ServiceOf(alone[i])}, <<alone[i]>>, links, changes)]
  IN  FlattenSeq([k \in 1..44 |->       \* by priority, then by peak severity
        Selected(all, {g \in ToSet(all) : 11 * g.priority + 10 - PeakOf(g.signals) = k - 1})])

CorrelateEvents(rows, events, window, lookBack) ==
  LET signals == GroupTemporal(Deduplicate(events), window)
  IN  AssembleGroups(signals, GroupTopology(signals),
                     FindChangeCandidates(rows, signals, lookBack))
-----------------------------------------------------------------------------
Insert(e) ==
  /\ e \notin stored /\ Cardinality(stored) < MaxStored
  /\ stored' = stored \cup {e}
  /\ UNCHANGED <<seen, groups, base, back>>

Report(rows, start, end, window, lookBack) ==
  /\ \E events \in TimeWindow(rows, start, end) :
       /\ seen' = events
       /\ groups' = CorrelateEvents(rows, events, window, lookBack)
  /\ base' = rows /\ back' = lookBack
  /\ UNCHANGED stored

Correlate(now) == Report(stored, now - Window, now, Window, LookBack)

Utc(e) == e.stamp = e.at

\* A scenario's events report in UTC, all with the same severity; the stored ones
\* stand for what a scenario may hold.
Scenario == {[e EXCEPT !.severity = 5] : e \in stored}

\* From the first event to a minute after the last, in a store of their own and by a
\* process that has reported nothing else; the grouping's window spans them all.
Replay ==
  /\ seen = <<>> /\ stored # {} /\ \A e \in stored : Utc(e)
  /\ LET times  == {e.stamp : e \in stored}
         start  == CHOOSE t \in times : \A u \in times : t <= u
         window == MaxOf({MaxOf(times) - start + 1, 5})
     IN  Report(Scenario, start, MaxOf(times) + 1, window, window + 30)

Next ==
  \/ \E e \in Events : Insert(e)
  \/ \E now \in {e.stamp : e \in Events} : Correlate(now)
  \/ Replay

Spec == Init /\ [][Next]_vars
-----------------------------------------------------------------------------
(* Properties of a report: groups, and the rows it was made from.             *)

\* Where in the report an event is, or one that stands for it.
PlacesOf(e) ==
  UNION {UNION {{<<i, j, k>> : k \in {l \in DOMAIN groups[i].signals[j] :
                                      Key(groups[i].signals[j][l]) = Key(e)}} :
                  j \in DOMAIN groups[i].signals} : i \in DOMAIN groups}

\* Every event of the window is in the report exactly once, itself or by the one
\* that stands for it: the two passes share the signals out without loss or overlap,
\* however the links overlap.
EveryEventOnce == \A e \in ToSet(seen) : Cardinality(PlacesOf(e)) = 1

ReportsUtc(service) == \A e \in ToSet(seen) : e.service = service => Utc(e)

\* The grouping's window is no shorter than the query's, so a service whose events
\* report in UTC has one signal in a report; the prompt cache's key, which tells groups
\* apart by their services, rests on it.
OneSignalPerService ==
  \A e, f \in ToSet(seen) :
    e.service = f.service /\ ReportsUtc(e.service) =>
      {<<p[1], p[2]>> : p \in PlacesOf(e)} = {<<p[1], p[2]>> : p \in PlacesOf(f)}

\* What shares a service with the link of a P0 group is at least P1, in whichever
\* group its signals ended up.
LinkedToP0IsUrgent ==
  \A g, h \in ToSet(groups) :
    g.priority = 0 /\ Cardinality(g.services) = 2 /\ g.services \cap h.services # {}
      => h.priority <= 1

\* A change stored on a signal's service, or on one it depends on, in the look-back
\* before the signal's first event is a candidate of the group the signal is in, as
\* far as both report in UTC, and so do the other events of the service: of several
\* signals of a service only the last one's candidates are kept.
ChangesReachGroups ==
  \A g \in ToSet(groups) : \A s \in ToSet(g.signals) : \A c \in base :
    (/\ c.change /\ Utc(c) /\ ReportsUtc(ServiceOf(s))
     /\ c.service = ServiceOf(s) \/ DependsOn(ServiceOf(s), c.service)
     /\ Head(s).at - c.at \in 0..back) => c \in g.changes
=============================================================================
