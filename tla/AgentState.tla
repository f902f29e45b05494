----------------------------- MODULE AgentState -----------------------------
(* The agent's state machine (state.py): WATCHING, ALERT, INCIDENT, DEGRADED.  *)
(* Wall-clock timestamps are kept as ages in ticks (one tick is one minute of  *)
(* the program), and an age stops growing at CalmPeriod, the only threshold    *)
(* the code compares one with.                                                 *)
EXTENDS Naturals, FiniteSets, Sequences

CONSTANTS
  Reports,      \* the group lists the correlation engine may hand over
  CalmPeriod,   \* ticks of calm that end an ALERT
  None          \* a timestamp that is not set

ASSUME CalmPeriodAssumption == CalmPeriod \in Nat \ {0}
ASSUME NoneAssumption == None \notin Nat
ASSUME ReportsAssumption ==
  \A r \in Reports : /\ r = <<>> \/ DOMAIN r = 1..Len(r)
                     /\ \A i \in DOMAIN r : r[i].priority \in Nat

VARIABLES
  state,        \* StateMachine.state
  alertStart,   \* whether StateMachine._alert_start is set
  calmFor,      \* age of StateMachine._calm_since, or None
  quiet,        \* history: age of the last elevated report
  heard,        \* history: the report of the last update
  streak,       \* history: healthy elevated updates in a row, 2 for two or more
  byHand        \* history: the last call declared or resolved an incident

machine == <<state, alertStart, calmFor>>
history == <<quiet, heard, streak, byHand>>
vars == <<state, alertStart, calmFor, quiet, heard, streak, byHand>>

States == {"watching", "alert", "incident", "degraded"}

\* One P0 group, or two P1 groups, make a report elevated.
Elevated(groups) ==
  \/ \E i \in DOMAIN groups : groups[i].priority = 0
  \/ \E i, j \in DOMAIN groups :
       i # j /\ groups[i].priority = 1 /\ groups[j].priority = 1

Older(age) == IF age \in Nat /\ age < CalmPeriod THEN age + 1 ELSE age

TypeOK ==
  /\ state \in States
  /\ alertStart \in BOOLEAN
  /\ calmFor \in 0..CalmPeriod \cup {None}
  /\ quiet \in 0..CalmPeriod
  /\ heard \in Reports \cup {<<>>}
  /\ streak \in 0..2
  /\ byHand \in BOOLEAN

Init ==
  /\ state = "watching"
  /\ alertStart = FALSE
  /\ calmFor = None
  /\ quiet = 0
  /\ heard = <<>>
  /\ streak = 0
  /\ byHand = FALSE

Tick ==
  /\ calmFor' = Older(calmFor)
  /\ quiet' = Older(quiet)
  /\ UNCHANGED <<state, alertStart, heard, streak, byHand>>
-----------------------------------------------------------------------------
(* Variants of definitions below, each with one plausible mistake: the         *)
(* properties must tell them from the code.                                    *)

\* Reignite that forgets to reset the calm timer.
ReigniteCalmKept(groups, healthy) ==
  /\ healthy /\ state = "alert" /\ Elevated(groups)
  /\ UNCHANGED machine

\* Recover that restarts the timer and stays DEGRADED.
RecoverTimerOnly(healthy) ==
  /\ healthy /\ state = "degraded"
  /\ calmFor' = 0
  /\ UNCHANGED <<state, alertStart>>

\* EndAlert one tick early.
EndAlertEarly(groups, healthy) ==
  /\ healthy /\ state = "alert" /\ ~Elevated(groups)
  /\ calmFor # None /\ calmFor + 1 >= CalmPeriod
  /\ state' = "watching"
  /\ alertStart' = FALSE
  /\ calmFor' = None

\* StayCalm that starts the timer again with every calm report.
StayCalmRestarted(groups, healthy) ==
  /\ healthy /\ state = "alert" /\ ~Elevated(groups) /\ calmFor # None
  /\ calmFor' = 0
  /\ UNCHANGED <<state, alertStart>>
-----------------------------------------------------------------------------
(* update: one action per way through the method                              *)

Degrade(healthy) ==
  /\ ~healthy /\ state # "incident"
  /\ state' = "degraded"
  /\ calmFor' = None
  /\ UNCHANGED alertStart

\* The groups are not looked at on the way out of DEGRADED.
Recover(healthy) ==
  /\ healthy /\ state = "degraded"
  /\ state' = "watching"
  /\ calmFor' = 0
  /\ UNCHANGED alertStart

RaiseAlert(groups, healthy) ==
  /\ healthy /\ state = "watching" /\ Elevated(groups)
  /\ state' = "alert"
  /\ alertStart' = TRUE
  /\ calmFor' = None

StayWatching(groups, healthy) ==
  /\ healthy /\ state = "watching" /\ ~Elevated(groups)
  /\ UNCHANGED machine

Reignite(groups, healthy) ==
  /\ healthy /\ state = "alert" /\ Elevated(groups)
  /\ calmFor' = None
  /\ UNCHANGED <<state, alertStart>>

StartCalm(groups, healthy) ==
  /\ healthy /\ state = "alert" /\ ~Elevated(groups) /\ calmFor = None
  /\ calmFor' = 0
  /\ UNCHANGED <<state, alertStart>>

StayCalm(groups, healthy) ==
  /\ healthy /\ state = "alert" /\ ~Elevated(groups)
  /\ calmFor # None /\ calmFor < CalmPeriod
  /\ UNCHANGED machine

EndAlert(groups, healthy) ==
  /\ healthy /\ state = "alert" /\ ~Elevated(groups)
  /\ calmFor # None /\ calmFor >= CalmPeriod
  /\ state' = "watching"
  /\ alertStart' = FALSE
  /\ calmFor' = None

HoldIncident == state = "incident" /\ UNCHANGED machine

Update(groups, healthy) ==
  /\ \/ Degrade(healthy)
     \/ Recover(healthy)
     \/ RaiseAlert(groups, healthy)
     \/ StayWatching(groups, healthy)
     \/ Reignite(groups, healthy)
     \/ StartCalm(groups, healthy)
     \/ StayCalm(groups, healthy)
     \/ EndAlert(groups, healthy)
     \/ HoldIncident
  /\ quiet' = IF Elevated(groups) THEN 0 ELSE quiet
  /\ heard' = groups
  /\ streak' = IF ~healthy \/ ~Elevated(groups) THEN 0
               ELSE IF streak = 0 THEN 1 ELSE 2
  /\ byHand' = FALSE
-----------------------------------------------------------------------------
DeclareIncident ==
  /\ state' = "incident"
  /\ calmFor' = None
  /\ streak' = 0 /\ byHand' = TRUE
  /\ UNCHANGED <<alertStart, quiet, heard>>

ResolveIncident ==
  /\ state' = "watching"
  /\ alertStart' = FALSE
  /\ calmFor' = 0
  /\ streak' = 0 /\ byHand' = TRUE
  /\ UNCHANGED <<quiet, heard>>

Next ==
  \/ Tick
  \/ \E groups \in Reports, healthy \in BOOLEAN : Update(groups, healthy)
  \/ DeclareIncident
  \/ ResolveIncident

Spec == Init /\ [][Next]_vars
-----------------------------------------------------------------------------
(* Properties                                                                 *)

\* The calm timer never claims more calm than there was: while it runs in ALERT,
\* nothing elevated has been reported for at least as long as it says.
CalmImpliesQuiet == state = "alert" /\ calmFor # None => calmFor <= quiet

\* Leaving DEGRADED swallows one report at most: after two elevated updates in a
\* row with the model healthy, the agent is in ALERT (or held in INCIDENT).
TwoAlarmsRaise == streak = 2 => state \in {"alert", "incident"}

\* Without the timer the machine is AlarmLatch: an update ends an ALERT only after
\* CalmPeriod without an elevated report, and never ends an INCIDENT.
Latch == INSTANCE AlarmLatch WITH mode <- state
LatchSpec == Latch!Spec
=============================================================================
