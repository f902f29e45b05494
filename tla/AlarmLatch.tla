----------------------------- MODULE AlarmLatch -----------------------------
(* What the agent's state machine promises about its alarm, without saying    *)
(* how it measures calm: once raised, an ALERT is given up for WATCHING only   *)
(* when nothing elevated has been reported for CalmPeriod or by hand, and an    *)
(* INCIDENT only by hand.  AgentState implements this        *)
(* specification; its calm timer is hidden here.                               *)
EXTENDS Naturals

CONSTANT CalmPeriod     \* ticks of quiet after which an ALERT may end

VARIABLES
  mode,                 \* "watching", "alert", "incident" or "degraded"
  quiet,                \* ticks since the last elevated report, at most CalmPeriod
  byHand                \* whether somebody, and no report, brought about the mode

vars == <<mode, quiet, byHand>>

Init == mode = "watching" /\ quiet = 0 /\ byHand = FALSE

Tick ==
  /\ quiet' = IF quiet < CalmPeriod THEN quiet + 1 ELSE quiet
  /\ UNCHANGED <<mode, byHand>>

\* An elevated report restarts the quiet period, and turns WATCHING into ALERT.
HearElevated ==
  /\ quiet' = 0
  /\ mode' = CASE mode = "watching" -> "alert"
               [] mode = "degraded" -> "watching"
               [] OTHER             -> mode
  /\ byHand' = FALSE

\* A calm report may end an ALERT, but never before its quiet period is over.
HearCalm ==
  /\ \/ mode = "degraded" /\ mode' = "watching"
     \/ mode # "degraded" /\ mode' = mode
     \/ mode = "alert" /\ quiet = CalmPeriod /\ mode' = "watching"
  /\ byHand' = FALSE
  /\ UNCHANGED quiet

\* The model fails: DEGRADED, except that an INCIDENT outranks it.
LoseModel ==
  /\ mode' = IF mode = "incident" THEN "incident" ELSE "degraded"
  /\ quiet' \in {0, quiet}
  /\ byHand' = FALSE

Declare == mode' = "incident" /\ byHand' = TRUE /\ UNCHANGED quiet

Resolve == mode' = "watching" /\ byHand' = TRUE /\ UNCHANGED quiet

Next == Tick \/ HearElevated \/ HearCalm \/ LoseModel \/ Declare \/ Resolve

Spec == Init /\ [][Next]_vars
=============================================================================
