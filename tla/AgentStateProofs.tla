-------------------------- MODULE AgentStateProofs --------------------------
(* Theorems about AgentState, for every set of reports and every calm period.  *)
EXTENDS AgentState, TLAPS

\* Inside a run of elevated updates the machine cannot be DEGRADED: the first of
\* them has taken it out, and only an unhealthy update, which ends the run, puts
\* it back.
StreakImpliesRecovered == streak > 0 => state # "degraded"

Inv == TypeOK /\ CalmImpliesQuiet /\ StreakImpliesRecovered /\ TwoAlarmsRaise

LEMMA OlderType ==
  ASSUME NEW age \in 0..CalmPeriod \cup {None}
  PROVE  /\ Older(age) \in 0..CalmPeriod \cup {None}
         /\ age # None => Older(age) \in 0..CalmPeriod /\ Older(age) >= age
         /\ age = None => Older(age) = None
BY CalmPeriodAssumption, NoneAssumption DEF Older

\* Two ages that grow together keep their order.
LEMMA OlderMonotone ==
  ASSUME NEW a \in 0..CalmPeriod, NEW b \in 0..CalmPeriod, a <= b
  PROVE  Older(a) <= Older(b)
BY CalmPeriodAssumption DEF Older

LEMMA InitInv == Init => Inv
<1> SUFFICES ASSUME Init PROVE Inv
  OBVIOUS
<1>1. TypeOK
  <2>1. state \in States /\ quiet \in 0..CalmPeriod /\ streak \in 0..2
    BY CalmPeriodAssumption DEF Init, States
  <2>2. alertStart \in BOOLEAN /\ byHand \in BOOLEAN /\ calmFor \in 0..CalmPeriod \cup {None}
    BY Zenon DEF Init
  <2>3. heard \in Reports \cup {<<>>}
    BY Zenon DEF Init
  <2> QED BY <2>1, <2>2, <2>3 DEF TypeOK
<1>2. CalmImpliesQuiet /\ StreakImpliesRecovered /\ TwoAlarmsRaise
  BY DEF Init, CalmImpliesQuiet, StreakImpliesRecovered, TwoAlarmsRaise
<1> QED BY <1>1, <1>2 DEF Inv

LEMMA TickInv == Inv /\ Tick => Inv'
<1> SUFFICES ASSUME Inv, Tick PROVE Inv'
  OBVIOUS
<1>1. TypeOK'
  BY OlderType, NoneAssumption DEF Inv, TypeOK, Tick
<1>2. CalmImpliesQuiet'
  BY OlderType, OlderMonotone, NoneAssumption DEF Inv, TypeOK, CalmImpliesQuiet, Tick
<1>3. StreakImpliesRecovered' /\ TwoAlarmsRaise'
  BY DEF Inv, StreakImpliesRecovered, TwoAlarmsRaise, Tick
<1> QED BY <1>1, <1>2, <1>3 DEF Inv

LEMMA UpdateInv ==
  ASSUME NEW groups \in Reports, NEW healthy \in BOOLEAN, Inv, Update(groups, healthy)
  PROVE  Inv'
<1> USE DEF Inv, Update, Degrade, Recover, RaiseAlert, StayWatching, Reignite,
            StartCalm, StayCalm, EndAlert, HoldIncident, machine
<1>1. TypeOK'
  <2>1. state' \in States
    BY DEF TypeOK, States
  <2>2. alertStart' \in BOOLEAN /\ byHand' \in BOOLEAN
    BY Zenon DEF TypeOK
  <2>3. calmFor' \in 0..CalmPeriod \cup {None}
    BY CalmPeriodAssumption DEF TypeOK
  <2>4. quiet' \in 0..CalmPeriod /\ streak' \in 0..2
    BY CalmPeriodAssumption DEF TypeOK
  <2>5. heard' \in Reports \cup {<<>>}
    BY DEF TypeOK
  <2> QED BY <2>1, <2>2, <2>3, <2>4, <2>5 DEF TypeOK
<1>2. CalmImpliesQuiet'
  BY CalmPeriodAssumption, NoneAssumption DEF TypeOK, CalmImpliesQuiet
<1>3. StreakImpliesRecovered'
  BY DEF TypeOK, States, StreakImpliesRecovered
<1>4. TwoAlarmsRaise'
  BY DEF TypeOK, States, StreakImpliesRecovered, TwoAlarmsRaise
<1> QED BY <1>1, <1>2, <1>3, <1>4

LEMMA IncidentInv == Inv /\ (DeclareIncident \/ ResolveIncident) => Inv'
<1> SUFFICES ASSUME Inv, DeclareIncident \/ ResolveIncident PROVE Inv'
  OBVIOUS
<1> USE DEF DeclareIncident, ResolveIncident
<1>1. TypeOK'
  <2>1. state' \in States /\ quiet' \in 0..CalmPeriod /\ streak' \in 0..2
    BY DEF Inv, TypeOK, States
  <2>2. alertStart' \in BOOLEAN /\ byHand' \in BOOLEAN /\ heard' \in Reports \cup {<<>>}
    BY Zenon DEF Inv, TypeOK
  <2>3. calmFor' \in 0..CalmPeriod \cup {None}
    BY CalmPeriodAssumption
  <2> QED BY <2>1, <2>2, <2>3 DEF TypeOK
<1>2. CalmImpliesQuiet' /\ StreakImpliesRecovered' /\ TwoAlarmsRaise'
  BY DEF CalmImpliesQuiet, StreakImpliesRecovered, TwoAlarmsRaise
<1> QED BY <1>1, <1>2 DEF Inv

LEMMA StepInv == Inv /\ [Next]_vars => Inv'
<1> SUFFICES ASSUME Inv, [Next]_vars PROVE Inv'
  OBVIOUS
<1>1. CASE Tick
  BY <1>1, TickInv
<1>2. CASE \E groups \in Reports, healthy \in BOOLEAN : Update(groups, healthy)
  BY <1>2, UpdateInv
<1>3. CASE DeclareIncident \/ ResolveIncident
  BY <1>3, IncidentInv
<1>4. CASE UNCHANGED vars
  BY <1>4 DEF vars, Inv, TypeOK, CalmImpliesQuiet, StreakImpliesRecovered, TwoAlarmsRaise
<1> QED BY <1>1, <1>2, <1>3, <1>4 DEF Next

LEMMA InvHolds == Spec => []Inv
BY InitInv, StepInv, PTL DEF Spec

\* Every variable keeps its type.
THEOREM TypeCorrect == Spec => []TypeOK
<1>1. Inv => TypeOK
  BY DEF Inv
<1> QED BY InvHolds, <1>1, PTL

\* The calm timer never overstates the calm.
THEOREM CalmIsHonest == Spec => []CalmImpliesQuiet
<1>1. Inv => CalmImpliesQuiet
  BY DEF Inv
<1> QED BY InvHolds, <1>1, PTL

\* Two elevated updates in a row from a healthy model raise the alarm.
THEOREM SecondAlarmRaises == Spec => []TwoAlarmsRaise
<1>1. Inv => TwoAlarmsRaise
  BY DEF Inv
<1> QED BY InvHolds, <1>1, PTL
-----------------------------------------------------------------------------
\* An update is a step of the abstract alarm.
LEMMA UpdateLatch ==
  ASSUME NEW groups \in Reports, NEW healthy \in BOOLEAN, Inv, Update(groups, healthy)
  PROVE  Latch!HearElevated \/ Latch!HearCalm \/ Latch!LoseModel
<1> USE DEF Inv, TypeOK, States, Update, Degrade, Recover, RaiseAlert, StayWatching,
            Reignite, StartCalm, StayCalm, EndAlert, HoldIncident, machine
<1>1. CASE ~healthy
  BY <1>1 DEF Latch!LoseModel
<1>2. CASE healthy /\ Elevated(groups)
  BY <1>2 DEF Latch!HearElevated
<1>3. CASE healthy /\ ~Elevated(groups)
  <2>1. CASE state = "alert" /\ state' = "watching"
    <3>1. quiet = CalmPeriod
      BY <1>3, <2>1, CalmPeriodAssumption, NoneAssumption DEF CalmImpliesQuiet
    <3> QED BY <1>3, <2>1, <3>1 DEF Latch!HearCalm
  <2>2. CASE ~(state = "alert" /\ state' = "watching")
    BY <1>3, <2>2 DEF Latch!HearCalm
  <2> QED BY <2>1, <2>2
<1> QED BY <1>1, <1>2, <1>3

\* The state machine implements the abstract alarm: no update ends an ALERT before
\* its quiet period is over, and none ends an INCIDENT.
THEOREM Refinement == Spec => LatchSpec
<1>1. Init => Latch!Init
  BY DEF Init, Latch!Init
<1>2. Inv /\ [Next]_vars => [Latch!Next]_(Latch!vars)
  <2> SUFFICES ASSUME Inv, [Next]_vars PROVE [Latch!Next]_(Latch!vars)
    OBVIOUS
  <2>1. CASE Tick
    BY <2>1, CalmPeriodAssumption DEF Inv, TypeOK, Tick, Older, Latch!Next, Latch!Tick
  <2>2. CASE \E groups \in Reports, healthy \in BOOLEAN : Update(groups, healthy)
    BY <2>2, UpdateLatch DEF Latch!Next
  <2>3. CASE DeclareIncident
    BY <2>3 DEF DeclareIncident, Latch!Next, Latch!Declare
  <2>4. CASE ResolveIncident
    BY <2>4 DEF ResolveIncident, Latch!Next, Latch!Resolve
  <2>5. CASE UNCHANGED vars
    BY <2>5 DEF vars, Latch!vars
  <2> QED BY <2>1, <2>2, <2>3, <2>4, <2>5 DEF Next
<1> QED BY InvHolds, <1>1, <1>2, PTL DEF Spec, LatchSpec, Latch!Spec
=============================================================================
