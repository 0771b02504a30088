---------------------------- MODULE FsmBlinkers -----------------------------
(***************************************************************************)
(* src/src/state_machines/fsm_blinkers.c: one automaton per blinker, run   *)
(* once per cycle of the main loop by compute_<blinker>().  The blinkers   *)
(* share the warnings command and the warnings indicator.                  *)
(***************************************************************************)
EXTENDS Automaton

CONSTANTS Blinkers,                 \* the blinkers of the instance
          ACKNOWLEDGEMENT_DELAY,    \* in cycles: 100 in the code
          BLINKING_DELAY            \* in cycles: 100 in the code

ASSUME BlinkersAssumption == Blinkers \subseteq {"left_blinker", "right_blinker"}

\* The acknowledgement delay can be exceeded by an fsm_timer_t, and the blinking
\* delay is not below it: the code gives both the same value.
ASSUME BlinkersDelayAssumption ==
  /\ ACKNOWLEDGEMENT_DELAY \in Nat /\ 0 < ACKNOWLEDGEMENT_DELAY
  /\ ACKNOWLEDGEMENT_DELAY < TIMER_MAX
  /\ BLINKING_DELAY \in Nat /\ ACKNOWLEDGEMENT_DELAY <= BLINKING_DELAY

VARIABLES
  fsm,                 \* fsm_<blinker>
  timer,               \* fsm_<blinker>_timer
  in,                  \* <blinker>_in, the driver's command
  acknowledgement,     \* <blinker>_acknowledgement
  out,                 \* <blinker>_out, sent to the BGF
  warnings_in,         \* the driver's command for both blinkers
  indicator_warnings   \* sent to the dashboard

vars == <<fsm, timer, in, acknowledgement, out, warnings_in, indicator_warnings>>

OFF                     == 0
ACTIVE_ON               == 1
ACTIVE_OFF              == 2
ACTIVE_ON_ACKNOWLEDGED  == 3
ACTIVE_OFF_ACKNOWLEDGED == 4
ERROR                   == -1

fsm_blinkers_state_t ==
  {OFF, ACTIVE_ON, ACTIVE_OFF, ACTIVE_ON_ACKNOWLEDGED, ACTIVE_OFF_ACKNOWLEDGED, ERROR}
fsm_blinkers_event_t ==
  {"COMMAND_ON", "COMMAND_OFF", "BLINK", "ACK_RECEIVED", "ACK_MISSED"}

\* The states in which the bulb is driven.
Shining == {ACTIVE_ON, ACTIVE_ON_ACKNOWLEDGED}

transitions ==
  { [from |-> ERROR,                   on |-> ANY,            to |-> ERROR],
    [from |-> OFF,                     on |-> "COMMAND_ON",   to |-> ACTIVE_ON],
    [from |-> ACTIVE_ON,               on |-> "COMMAND_OFF",  to |-> OFF],
    [from |-> ACTIVE_ON,               on |-> "ACK_RECEIVED", to |-> ACTIVE_ON_ACKNOWLEDGED],
    [from |-> ACTIVE_ON,               on |-> "ACK_MISSED",   to |-> ERROR],
    [from |-> ACTIVE_ON_ACKNOWLEDGED,  on |-> "COMMAND_OFF",  to |-> OFF],
    [from |-> ACTIVE_ON_ACKNOWLEDGED,  on |-> "BLINK",        to |-> ACTIVE_OFF],
    [from |-> ACTIVE_OFF,              on |-> "COMMAND_OFF",  to |-> OFF],
    [from |-> ACTIVE_OFF,              on |-> "ACK_RECEIVED", to |-> ACTIVE_OFF_ACKNOWLEDGED],
    [from |-> ACTIVE_OFF,              on |-> "ACK_MISSED",   to |-> ERROR],
    [from |-> ACTIVE_OFF_ACKNOWLEDGED, on |-> "COMMAND_OFF",  to |-> OFF],
    [from |-> ACTIVE_OFF_ACKNOWLEDGED, on |-> "BLINK",        to |-> ACTIVE_ON] }

-----------------------------------------------------------------------------
TypeOK ==
  /\ fsm \in [Blinkers -> fsm_blinkers_state_t]
  /\ timer \in [Blinkers -> fsm_timer_t]
  /\ in \in [Blinkers -> BOOLEAN]
  /\ acknowledgement \in [Blinkers -> BOOLEAN]
  /\ out \in [Blinkers -> BOOLEAN]
  /\ warnings_in \in BOOLEAN
  /\ indicator_warnings \in BOOLEAN

\* application_init().
Init ==
  /\ fsm = [b \in Blinkers |-> OFF]
  /\ timer = [b \in Blinkers |-> 0]
  /\ in = [b \in Blinkers |-> FALSE]
  /\ acknowledgement = [b \in Blinkers |-> FALSE]
  /\ out = [b \in Blinkers |-> FALSE]
  /\ warnings_in = FALSE
  /\ indicator_warnings = FALSE

\* The condition compute_<blinker>() opens with.
Commanded(b) == in[b] \/ warnings_in

Event_LateTimeout(b) ==
  CASE ~Commanded(b)                      -> "COMMAND_OFF"
    [] Commanded(b) /\ acknowledgement[b] -> "ACK_RECEIVED"
    [] OTHER -> IF timer[b] > ACKNOWLEDGEMENT_DELAY + 1 THEN "ACK_MISSED"
                ELSE IF timer[b] > BLINKING_DELAY THEN "BLINK" ELSE "COMMAND_ON"

\* The event compute_<blinker>() derives.  The test for BLINK comes second and
\* asks for no more than the one for ACK_MISSED.
Event(b) ==
  CASE ~Commanded(b)                      -> "COMMAND_OFF"
    [] Commanded(b) /\ acknowledgement[b] -> "ACK_RECEIVED"
    [] OTHER -> IF timer[b] > ACKNOWLEDGEMENT_DELAY THEN "ACK_MISSED"
                ELSE IF timer[b] > BLINKING_DELAY THEN "BLINK" ELSE "COMMAND_ON"

WarningsShown_Always(state) == warnings_in

WarningsShown_Sticky(state) ==
  IF state \in Shining THEN warnings_in \/ indicator_warnings ELSE indicator_warnings

\* indicator_warnings is written in the branch of the driven states only.
WarningsShown(state) == IF state \in Shining THEN warnings_in ELSE indicator_warnings

\* An acknowledgement that makes no transition is kept for the next call.
Compute_KeepsAcknowledgement(b) ==
  \E tick \in Tick(transitions, fsm[b], Event(b), timer[b]) :
    /\ fsm' = [fsm EXCEPT ![b] = tick.state]
    /\ timer' = [timer EXCEPT ![b] = tick.timer]
    /\ acknowledgement' = [acknowledgement EXCEPT ![b] = @ /\ tick.state = fsm[b]]
    /\ out' = [out EXCEPT ![b] = tick.state \in Shining]
    /\ indicator_warnings' = WarningsShown(tick.state)
    /\ UNCHANGED <<in, warnings_in>>

Compute(b) ==
  \E tick \in Tick(transitions, fsm[b], Event(b), timer[b]) :
    /\ fsm' = [fsm EXCEPT ![b] = tick.state]
    /\ timer' = [timer EXCEPT ![b] = tick.timer]
    /\ acknowledgement' = [acknowledgement EXCEPT ![b] = FALSE]
    /\ out' = [out EXCEPT ![b] = tick.state \in Shining]
    /\ indicator_warnings' = WarningsShown(tick.state)
    /\ UNCHANGED <<in, warnings_in>>

\* The blinkers' share of decode_commodos().
Decode_commodos ==
  /\ in' \in [Blinkers -> BOOLEAN]
  /\ warnings_in' \in BOOLEAN
  /\ UNCHANGED <<fsm, timer, acknowledgement, out, indicator_warnings>>

\* decode_bgf() of a frame that carries the blinker's id, whatever its value byte.
Decode_bgf(b) ==
  /\ acknowledgement' = [acknowledgement EXCEPT ![b] = TRUE]
  /\ UNCHANGED <<fsm, timer, in, out, warnings_in, indicator_warnings>>

Next == Decode_commodos \/ \E b \in Blinkers : Compute(b) \/ Decode_bgf(b)

Spec == Init /\ [][Next]_vars

\* The main loop calls compute_<blinker>() in each of its cycles.
FairSpec == Spec /\ \A b \in Blinkers : WF_vars(Compute(b))

-----------------------------------------------------------------------------
\* The transition table leaves an acknowledged, commanded blinker on BLINK: it does
\* not shine on for ever.
AcknowledgedBlinkerBlinks ==
  \A b \in Blinkers :
    <>[](Commanded(b) /\ ~acknowledgement[b]) => ~<>[](fsm[b] = ACTIVE_ON_ACKNOWLEDGED)

\* The warnings indicator goes out only when a bulb is driven for a blinker's own command alone.
WarningsIndicatorGoesOutByBlinker ==
  [][indicator_warnings /\ ~indicator_warnings'
       => ~warnings_in /\ \E b \in Blinkers : out'[b] /\ in[b]]_vars

\* The warnings indicator is the "Output buffer for the warnings indicator": when
\* the warnings stay off it is out in the end.
WarningsIndicatorGoesOut == <>[](~warnings_in) => <>[](~indicator_warnings)
=============================================================================
