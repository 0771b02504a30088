--------------------------- MODULE LightsMonitor ----------------------------
(***************************************************************************)
(* FsmLights with counters of compute_<light>() calls per light, which the *)
(* code does not keep: they give its promises in cycles.  Whether an       *)
(* answer came is recorded where it arrives, apart from the flag that the  *)
(* code keeps of it.                                                       *)
(***************************************************************************)
EXTENDS FsmLights

VARIABLES
  answered,       \* the BGF's answer was decoded since the light's last call
  unconfirmed,    \* calls in a row that left the light driven and unacknowledged
  refused,        \* calls in a row that left the light in OFF in spite of a command,
                  \* with no answer since the call before
  unanswered      \* calls in a row that saw a command, with no answer since the one before

counters == <<unconfirmed, refused, unanswered>>

monitor == <<answered, counters>>

mvars == <<vars, monitor>>

\* The counters saturate here, above every bound claimed of them.
Saturation == TIMER_MAX + 2

Count(c, event) == IF ~event THEN 0 ELSE IF c = Saturation THEN c ELSE c + 1

MonitorTypeOK ==
  /\ TypeOK
  /\ answered \in [Lights -> BOOLEAN]
  /\ unconfirmed \in [Lights -> 0 .. Saturation]
  /\ refused \in [Lights -> 0 .. Saturation]
  /\ unanswered \in [Lights -> 0 .. Saturation]

MonitorInit ==
  /\ Init
  /\ answered = [l \in Lights |-> FALSE]
  /\ unconfirmed = [l \in Lights |-> 0]
  /\ refused = [l \in Lights |-> 0]
  /\ unanswered = [l \in Lights |-> 0]

\* What a call of compute_<light>() is counted as.
Counted(l) ==
  /\ unconfirmed' = [unconfirmed EXCEPT ![l] = Count(@, fsm'[l] = ON)]
  /\ refused' = [refused EXCEPT
                   ![l] = Count(@, fsm'[l] = OFF /\ in[l] /\ ~answered[l])]
  /\ unanswered' = [unanswered EXCEPT ![l] = Count(@, in[l] /\ ~answered[l])]
  /\ answered' = [answered EXCEPT ![l] = FALSE]

\* An answer's arrival.
Answered(l) ==
  /\ answered' = [answered EXCEPT ![l] = TRUE]
  /\ UNCHANGED counters

MonitorCompute(l) == Compute(l) /\ Counted(l)

MonitorNext ==
  \/ Decode_commodos /\ UNCHANGED monitor
  \/ \E l \in Lights : Decode_bgf(l) /\ Answered(l)
  \/ \E l \in Lights : MonitorCompute(l)

MonitorSpec == MonitorInit /\ [][MonitorNext]_mvars

\* The main loop calls compute_<light>() in each of its cycles.
FairMonitorSpec == MonitorSpec /\ \A l \in Lights : WF_mvars(MonitorCompute(l))

-----------------------------------------------------------------------------
\* A driven light whose acknowledgement does not come is given up after at most
\* ACKNOWLEDGEMENT_DELAY + 1 calls, for the lights whose timer is kept.
FaultDetectedInTime ==
  \A l \in TimedLights : unconfirmed[l] <= ACKNOWLEDGEMENT_DELAY + 1

\* The same of every light, the sidelights included: variables.csv gives them a
\* "Timer for the sidelights FSM" and the table an ACK_MISSED transition.
EveryFaultDetectedInTime ==
  \A l \in Lights : unconfirmed[l] <= ACKNOWLEDGEMENT_DELAY + 1

\* The timer that runs on in OFF can make compute_<light>() ignore a command, but
\* for no more calls than the timer has values above the delay; an answer to an OFF
\* frame can, in the call that follows it and in none after that.
RefusalBounded ==
  \A l \in TimedLights : refused[l] <= TIMER_MAX - ACKNOWLEDGEMENT_DELAY

\* CommandSettles with a bound: commanded and not answered for more calls in a row
\* than the timer has values, a light with a timer is confirmed or given up.  Before
\* that the timer may have to wrap in OFF and then to pass the delay in ON.
SettledInTime ==
  \A l \in TimedLights :
    unanswered[l] > TIMER_MAX + 1 => fsm[l] \in {ACKNOWLEDGED, ERROR}

\* The sidelights' timer, which holds the state code, never hides a command: they
\* are lit by the first call that sees the command and no new answer.
SidelightsNeverRefused ==
  "sidelights" \in Lights => refused["sidelights"] = 0

\* The dashboard shows a light only after an answer that came since the light's last
\* call and found it driven by an earlier cycle and still commanded: one for a dark
\* light (the BGF answers OFF frames too) never lights the indicator, then or later.
IndicatorNeedsAcknowledgement ==
  [][\A l \in Lights : indicator'[l] /\ ~indicator[l]
       => out[l] /\ in[l] /\ answered[l]]_mvars

\* Commanded without end, and no longer answered, a light with a timer is in the end
\* either confirmed or given up: neither the wrap of the timer in OFF, which delays the
\* command (it reads as ACK_MISSED), nor an old answer can refuse it for ever.
CommandSettles ==
  \A l \in TimedLights :
    <>[](in[l] /\ ~answered[l]) => <>[](fsm[l] \in {ACKNOWLEDGED, ERROR})

-----------------------------------------------------------------------------
\* The lights with a timer implement supervised lamps: their timer matters while
\* they are ON and nowhere else.
Phase(state) == CASE state = OFF          -> "dark"
                  [] state = ON           -> "lit"
                  [] state = ACKNOWLEDGED -> "confirmed"
                  [] state = ERROR        -> "failed"

Lamp == INSTANCE SupervisedLamp WITH
  Lamps     <- TimedLights,
  Deadline  <- ACKNOWLEDGEMENT_DELAY,
  requested <- [l \in TimedLights |-> in[l]],
  phase     <- [l \in TimedLights |-> Phase(fsm[l])],
  watch     <- [l \in TimedLights |-> IF fsm[l] = ON THEN timer[l] ELSE 0]

\* Every step of the lights is a step of the supervised lamps, or changes none.
ImplementsSupervisedLamp == Lamp!Spec

\* The strengthening the properties of the lights are proved from.  An
\* acknowledgement is kept until the light's next call and no longer.  A light is
\* driven in ON and ACKNOWLEDGED and shown in ACKNOWLEDGED.  With a timer: in ON the
\* timer is the count of unconfirmed calls; in OFF it is ahead of the refused calls
\* by more than the delay, or has just wrapped and lets the next command in; and no
\* call without an answer goes uncounted in either.  The sidelights' timer is their
\* state.
LightInv(l) ==
  /\ acknowledgement[l] = answered[l]
  /\ out[l] <=> fsm[l] \in {ON, ACKNOWLEDGED}
  /\ indicator[l] <=> fsm[l] = ACKNOWLEDGED
  /\ l # "sidelights" =>
       /\ IF fsm[l] = ON THEN /\ timer[l] = unconfirmed[l]
                              /\ timer[l] \in 1 .. ACKNOWLEDGEMENT_DELAY + 1
                         ELSE unconfirmed[l] = 0
       /\ refused[l] > 0 =>
            /\ fsm[l] = OFF
            /\ \/ timer[l] > ACKNOWLEDGEMENT_DELAY + refused[l]
               \/ timer[l] = 0 /\ refused[l] <= TIMER_MAX - ACKNOWLEDGEMENT_DELAY
       /\ fsm[l] = OFF => unanswered[l] = refused[l]
       /\ fsm[l] = ON =>
            unanswered[l] <= TIMER_MAX - ACKNOWLEDGEMENT_DELAY + unconfirmed[l]
  /\ l = "sidelights" =>
       /\ fsm[l] # ERROR
       /\ timer[l] = fsm[l]
       /\ refused[l] = 0

LightsInv == MonitorTypeOK /\ \A l \in Lights : LightInv(l)
=============================================================================
