----------------------------- MODULE FsmWipers ------------------------------
(***************************************************************************)
(* src/src/state_machines/fsm_wipers.c: the wipers' and washer's automaton,*)
(* run once per cycle of the main loop by compute_wipers().                *)
(***************************************************************************)
EXTENDS Automaton

CONSTANT WAITING_DELAY      \* in cycles: 200 in the code

\* The delay can be exceeded by an fsm_timer_t, or WAIT would never end.
ASSUME WaitingDelayAssumption == WAITING_DELAY \in Nat /\ WAITING_DELAY < TIMER_MAX

VARIABLES
  fsm, timer,                      \* fsm_wipers, fsm_wipers_timer
  wipers_in, washer_fluid_in,      \* the driver's commands
  wipers_out, washer_fluid_out     \* what the dashboard frame carries

vars == <<fsm, timer, wipers_in, washer_fluid_in, wipers_out, washer_fluid_out>>

OFF  == 0
ON   == 1
WASH == 2
WAIT == 3

fsm_wipers_state_t == {OFF, ON, WASH, WAIT}
fsm_wipers_event_t == {"COMMAND_WIPE", "COMMAND_WASH", "COMMAND_OFF", "TIMEOUT"}

transitions_StuckInWash ==
  { [from |-> OFF,  on |-> "COMMAND_WIPE", to |-> ON],
    [from |-> OFF,  on |-> "COMMAND_WASH", to |-> WASH],
    [from |-> ON,   on |-> "COMMAND_OFF",  to |-> OFF],
    [from |-> ON,   on |-> "COMMAND_WASH", to |-> WASH],
    [from |-> WASH, on |-> "COMMAND_OFF",  to |-> WAIT],
    [from |-> WAIT, on |-> "TIMEOUT",      to |-> OFF],
    [from |-> WAIT, on |-> "COMMAND_WASH", to |-> WASH] }

transitions ==
  { [from |-> OFF,  on |-> "COMMAND_WIPE", to |-> ON],
    [from |-> OFF,  on |-> "COMMAND_WASH", to |-> WASH],
    [from |-> ON,   on |-> "COMMAND_OFF",  to |-> OFF],
    [from |-> ON,   on |-> "COMMAND_WASH", to |-> WASH],
    [from |-> WASH, on |-> "COMMAND_OFF",  to |-> WAIT],
    [from |-> WASH, on |-> "COMMAND_WIPE", to |-> WAIT],
    [from |-> WAIT, on |-> "TIMEOUT",      to |-> OFF],
    [from |-> WAIT, on |-> "COMMAND_WASH", to |-> WASH] }

-----------------------------------------------------------------------------
TypeOK ==
  /\ fsm \in fsm_wipers_state_t
  /\ timer \in fsm_timer_t
  /\ wipers_in \in BOOLEAN /\ washer_fluid_in \in BOOLEAN
  /\ wipers_out \in BOOLEAN /\ washer_fluid_out \in BOOLEAN

\* application_init().
Init ==
  /\ fsm = OFF /\ timer = 0
  /\ wipers_in = FALSE /\ washer_fluid_in = FALSE
  /\ wipers_out = FALSE /\ washer_fluid_out = FALSE

Event_EarlyTimeout ==
  CASE fsm = WAIT /\ timer >= WAITING_DELAY -> "TIMEOUT"
    [] OTHER -> IF washer_fluid_in THEN "COMMAND_WASH"
                ELSE IF wipers_in THEN "COMMAND_WIPE" ELSE "COMMAND_OFF"

Event_LateTimeout ==
  CASE fsm = WAIT /\ timer > WAITING_DELAY + 1 -> "TIMEOUT"
    [] OTHER -> IF washer_fluid_in THEN "COMMAND_WASH"
                ELSE IF wipers_in THEN "COMMAND_WIPE" ELSE "COMMAND_OFF"

\* Without the test of the state an old timer reads as a timeout everywhere.
Event_TimeoutAnywhere ==
  CASE timer > WAITING_DELAY -> "TIMEOUT"
    [] OTHER -> IF washer_fluid_in THEN "COMMAND_WASH"
                ELSE IF wipers_in THEN "COMMAND_WIPE" ELSE "COMMAND_OFF"

\* The event compute_wipers() derives: an elapsed wait comes before any command.
Event ==
  CASE fsm = WAIT /\ timer > WAITING_DELAY -> "TIMEOUT"
    [] OTHER -> IF washer_fluid_in THEN "COMMAND_WASH"
                ELSE IF wipers_in THEN "COMMAND_WIPE" ELSE "COMMAND_OFF"

Compute_wipers ==
  \E tick \in Tick(transitions, fsm, Event, timer) :
    /\ fsm' = tick.state
    /\ timer' = tick.timer
    /\ wipers_out' = (tick.state \in {ON, WASH})
    /\ washer_fluid_out' = (tick.state = WASH)
    /\ UNCHANGED <<wipers_in, washer_fluid_in>>

\* The wipers' share of decode_commodos().
Decode_commodos ==
  /\ wipers_in' \in BOOLEAN
  /\ washer_fluid_in' \in BOOLEAN
  /\ UNCHANGED <<fsm, timer, wipers_out, washer_fluid_out>>

Next == Decode_commodos \/ Compute_wipers

Spec == Init /\ [][Next]_vars

-----------------------------------------------------------------------------
\* The comment on the WASH/COMMAND_WIPE transition: wiping goes on after a wash
\* with the wipers still commanded.  The automaton passes through WAIT and OFF,
\* gets stuck in neither, and in the end wipes for as long as it is told to.
WipingResumes ==
  <>[](wipers_in /\ ~washer_fluid_in) => <>[](fsm = ON /\ wipers_out)
=============================================================================
