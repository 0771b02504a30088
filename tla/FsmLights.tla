----------------------------- MODULE FsmLights ------------------------------
(***************************************************************************)
(* src/src/state_machines/fsm_lights.c: one automaton per light, run once  *)
(* per cycle of the main loop by compute_<light>().  The variables are the *)
(* lights' part of the data dictionary; Decode_commodos and Decode_bgf are *)
(* the writes the main loop makes to it between two calls.                 *)
(***************************************************************************)
EXTENDS Automaton

CONSTANTS Lights,                   \* the lights of the instance
          ACKNOWLEDGEMENT_DELAY     \* in cycles: 100 in the code

ASSUME LightsAssumption == Lights \subseteq {"sidelights", "headlights", "redlights"}

\* The delay can be exceeded by an fsm_timer_t, or no fault would ever be seen.
ASSUME LightsDelayAssumption ==
  ACKNOWLEDGEMENT_DELAY \in Nat /\ 0 < ACKNOWLEDGEMENT_DELAY /\ ACKNOWLEDGEMENT_DELAY < TIMER_MAX

VARIABLES
  fsm,              \* fsm_<light>
  timer,            \* fsm_<light>_timer
  in,               \* <light>_in, the driver's command
  acknowledgement,  \* <light>_acknowledgement
  out,              \* <light>_out, sent to the BGF
  indicator         \* indicator_<light>, sent to the dashboard

vars == <<fsm, timer, in, acknowledgement, out, indicator>>

OFF          == 0
ON           == 1
ACKNOWLEDGED == 2
ERROR        == -1

fsm_lights_state_t == {OFF, ON, ACKNOWLEDGED, ERROR}
fsm_lights_event_t == {"COMMAND_ON", "COMMAND_OFF", "ACK_RECEIVED", "ACK_MISSED"}

transitions_AckWhenOff ==
  { [from |-> ERROR,        on |-> ANY,            to |-> ERROR],
    [from |-> OFF,          on |-> "COMMAND_ON",   to |-> ON],
    [from |-> OFF,          on |-> "ACK_RECEIVED", to |-> ACKNOWLEDGED],
    [from |-> ON,           on |-> "COMMAND_OFF",  to |-> OFF],
    [from |-> ON,           on |-> "ACK_RECEIVED", to |-> ACKNOWLEDGED],
    [from |-> ON,           on |-> "ACK_MISSED",   to |-> ERROR],
    [from |-> ACKNOWLEDGED, on |-> "COMMAND_OFF",  to |-> OFF] }

transitions ==
  { [from |-> ERROR,        on |-> ANY,            to |-> ERROR],
    [from |-> OFF,          on |-> "COMMAND_ON",   to |-> ON],
    [from |-> ON,           on |-> "COMMAND_OFF",  to |-> OFF],
    [from |-> ON,           on |-> "ACK_RECEIVED", to |-> ACKNOWLEDGED],
    [from |-> ON,           on |-> "ACK_MISSED",   to |-> ERROR],
    [from |-> ACKNOWLEDGED, on |-> "COMMAND_OFF",  to |-> OFF] }

-----------------------------------------------------------------------------
TypeOK ==
  /\ fsm \in [Lights -> fsm_lights_state_t]
  /\ timer \in [Lights -> fsm_timer_t]
  /\ in \in [Lights -> BOOLEAN]
  /\ acknowledgement \in [Lights -> BOOLEAN]
  /\ out \in [Lights -> BOOLEAN]
  /\ indicator \in [Lights -> BOOLEAN]

\* application_init().
Init ==
  /\ fsm = [l \in Lights |-> OFF]
  /\ timer = [l \in Lights |-> 0]
  /\ in = [l \in Lights |-> FALSE]
  /\ acknowledgement = [l \in Lights |-> FALSE]
  /\ out = [l \in Lights |-> FALSE]
  /\ indicator = [l \in Lights |-> FALSE]

Event_EarlyTimeout(l) ==
  CASE ~in[l]                            -> "COMMAND_OFF"
    [] in[l] /\ acknowledgement[l]       -> "ACK_RECEIVED"
    [] in[l] /\ ~acknowledgement[l]
       /\ timer[l] >= ACKNOWLEDGEMENT_DELAY -> "ACK_MISSED"
    [] OTHER                             -> "COMMAND_ON"

Event_LateTimeout(l) ==
  CASE ~in[l]                            -> "COMMAND_OFF"
    [] in[l] /\ acknowledgement[l]       -> "ACK_RECEIVED"
    [] in[l] /\ ~acknowledgement[l]
       /\ timer[l] > ACKNOWLEDGEMENT_DELAY + 1 -> "ACK_MISSED"
    [] OTHER                             -> "COMMAND_ON"

\* The event compute_<light>() derives.  An acknowledgement hides everything but
\* the command going off, and an elapsed timer reads as a missed one even in OFF.
Event(l) ==
  CASE ~in[l]                            -> "COMMAND_OFF"
    [] in[l] /\ acknowledgement[l]       -> "ACK_RECEIVED"
    [] in[l] /\ ~acknowledgement[l]
       /\ timer[l] > ACKNOWLEDGEMENT_DELAY -> "ACK_MISSED"
    [] OTHER                             -> "COMMAND_ON"

\* compute_sidelights() stores the automaton's state where its timer belongs.
StoredTimer(l, tick) == IF l = "sidelights" THEN ToTimer(tick.state) ELSE tick.timer

\* An acknowledgement that makes no transition is kept for the next call.
Compute_KeepsAcknowledgement(l) ==
  \E tick \in Tick(transitions, fsm[l], Event(l), timer[l]) :
    /\ fsm' = [fsm EXCEPT ![l] = tick.state]
    /\ timer' = [timer EXCEPT ![l] = StoredTimer(l, tick)]
    /\ acknowledgement' = [acknowledgement EXCEPT ![l] = @ /\ tick.state = fsm[l]]
    /\ out' = [out EXCEPT ![l] = tick.state \in {ON, ACKNOWLEDGED}]
    /\ indicator' = [indicator EXCEPT ![l] = tick.state = ACKNOWLEDGED]
    /\ UNCHANGED in

Compute(l) ==
  \E tick \in Tick(transitions, fsm[l], Event(l), timer[l]) :
    /\ fsm' = [fsm EXCEPT ![l] = tick.state]
    /\ timer' = [timer EXCEPT ![l] = StoredTimer(l, tick)]
    /\ acknowledgement' = [acknowledgement EXCEPT ![l] = FALSE]
    /\ out' = [out EXCEPT ![l] = tick.state \in {ON, ACKNOWLEDGED}]
    /\ indicator' = [indicator EXCEPT ![l] = tick.state = ACKNOWLEDGED]
    /\ UNCHANGED in

\* The lights' share of decode_commodos().
Decode_commodos ==
  /\ in' \in [Lights -> BOOLEAN]
  /\ UNCHANGED <<fsm, timer, acknowledgement, out, indicator>>

\* decode_bgf() of a frame that carries the light's id, whatever its value byte.
Decode_bgf(l) ==
  /\ acknowledgement' = [acknowledgement EXCEPT ![l] = TRUE]
  /\ UNCHANGED <<fsm, timer, in, out, indicator>>

Next == Decode_commodos \/ \E l \in Lights : Compute(l) \/ Decode_bgf(l)

Spec == Init /\ [][Next]_vars

-----------------------------------------------------------------------------
\* The lights whose timer survives to the next cycle.
TimedLights == Lights \ {"sidelights"}

\* A light goes dark while commanded only by way of the fault state, and only
\* when it waited for an acknowledgement longer than the delay.
DarkOnlyByFault ==
  [][\A l \in Lights : out[l] /\ ~out'[l] /\ in[l]
       => /\ fsm'[l] = ERROR
          /\ ~indicator[l]
          /\ timer[l] > ACKNOWLEDGEMENT_DELAY]_vars
=============================================================================
