--------------------------- MODULE DataDictionary ---------------------------
(***************************************************************************)
(* The types and setters of the generated data dictionary that have a      *)
(* behaviour of their own: fsm_timer_t, which is a uint8_t and wraps, and  *)
(* the setters of variables with a Domain, which drop an illegal value     *)
(* without telling their caller.                                           *)
(***************************************************************************)
EXTENDS Integers

CONSTANT TIMER_MAX      \* the largest fsm_timer_t: 255 in the code

\* Every state code of the automata fits in an fsm_timer_t.
ASSUME TimerMaxAssumption == TIMER_MAX \in Nat /\ TIMER_MAX >= 4

fsm_timer_t == 0 .. TIMER_MAX

IncrementTimer_NoWrap(t) == t + 1

IncrementTimer_Saturates(t) == IF t = TIMER_MAX THEN t ELSE t + 1

\* "*timer_p += 1" on an unsigned type.
IncrementTimer(t) == IF t = TIMER_MAX THEN 0 ELSE t + 1

\* The conversion of an int32_t state code to fsm_timer_t: modulo TIMER_MAX + 1,
\* written out for the codes the automata have, which are -1 or more.
ToTimer(code) == IF code < 0 THEN code + TIMER_MAX + 1 ELSE code

Assign_Unchecked(old, value, Domain) == value

\* set_<name>(value) for a type with a Domain: out of it, the old value stays.
Assign(old, value, Domain) == IF value \in Domain THEN value ELSE old

\* The Domains of types.csv.
mux_id_t      == 0 .. 100
tank_level_t  == 0 .. 40
motor_speed_t == 0 .. 10000
=============================================================================
