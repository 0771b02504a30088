----------------------------- MODULE Automaton ------------------------------
(***************************************************************************)
(* The tick that fsm_lights.c, fsm_blinkers.c and fsm_wipers.c each have a *)
(* copy of.  A transition table is a set of records [from, on, to].        *)
(***************************************************************************)
EXTENDS DataDictionary

ANY == "ANY"

\* The entries of the table that a scan for (state, event) can stop at.
Matching(table, state, event) ==
  {t \in table : t.from = state /\ (t.on = event \/ t.on = ANY)}

Tick_KeepsTimer(table, state, event, timer) ==
  LET hits == Matching(table, state, event)
  IN  IF hits = {} THEN {[state |-> state, timer |-> IncrementTimer(timer)]}
                   ELSE {[state |-> t.to, timer |-> IncrementTimer(timer)] : t \in hits}

\* What fsm_<x>_tick(&fsm, event, &timer) can leave in fsm and timer.  A match
\* restarts the timer, and the increment after the loop runs in every case.
\* The scan stops at the first match; no table has two (see Deterministic),
\* so the result is a singleton and the order of the table is immaterial.
Tick(table, state, event, timer) ==
  LET hits == Matching(table, state, event)
  IN  IF hits = {} THEN {[state |-> state, timer |-> IncrementTimer(timer)]}
                   ELSE {[state |-> t.to, timer |-> IncrementTimer(0)] : t \in hits}

\* No two entries of the table can match the same state and event.
Deterministic(table) ==
  \A t, u \in table : t.from = u.from /\ (t.on = u.on \/ ANY \in {t.on, u.on}) => t = u
=============================================================================
