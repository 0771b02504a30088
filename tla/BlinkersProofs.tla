--------------------------- MODULE BlinkersProofs ---------------------------
(***************************************************************************)
(* The safety of the blinkers, for every timer width, every pair of delays *)
(* with the acknowledgement's below the width and not above the blinking's,*)
(* and their refinement of supervised lamps.                               *)
(***************************************************************************)
EXTENDS BlinkersMonitor, TLAPS

-----------------------------------------------------------------------------
(***************************************************************************)
(* The transition table and the event.                                     *)
(***************************************************************************)

LEMMA StatesDiffer ==
  /\ OFF # ACTIVE_ON /\ OFF # ACTIVE_OFF /\ OFF # ACTIVE_ON_ACKNOWLEDGED
  /\ OFF # ACTIVE_OFF_ACKNOWLEDGED /\ OFF # ERROR
  /\ ACTIVE_ON # ACTIVE_OFF /\ ACTIVE_ON # ACTIVE_ON_ACKNOWLEDGED
  /\ ACTIVE_ON # ACTIVE_OFF_ACKNOWLEDGED /\ ACTIVE_ON # ERROR
  /\ ACTIVE_OFF # ACTIVE_ON_ACKNOWLEDGED /\ ACTIVE_OFF # ACTIVE_OFF_ACKNOWLEDGED
  /\ ACTIVE_OFF # ERROR
  /\ ACTIVE_ON_ACKNOWLEDGED # ACTIVE_OFF_ACKNOWLEDGED /\ ACTIVE_ON_ACKNOWLEDGED # ERROR
  /\ ACTIVE_OFF_ACKNOWLEDGED # ERROR
BY DEF OFF, ACTIVE_ON, ACTIVE_OFF, ACTIVE_ON_ACKNOWLEDGED, ACTIVE_OFF_ACKNOWLEDGED, ERROR

\* No state and event match two entries of fsm_blinkers_transitions, so the order in
\* which fsm_blinkers_tick() scans it does not matter.
THEOREM BlinkersTableDeterministic == Deterministic(transitions)
BY StatesDiffer DEF Deterministic, transitions, ANY

\* What one tick does from the states that are reached, on the events derived there.
TickResult(s, e, t, k) ==
  \/ /\ k.timer = 1
     /\ \/ s = ERROR /\ k.state = ERROR
        \/ s = OFF /\ e = "COMMAND_ON" /\ k.state = ACTIVE_ON
        \/ s \in Shining /\ e = "COMMAND_OFF" /\ k.state = OFF
        \/ s = ACTIVE_ON /\ e = "ACK_RECEIVED" /\ k.state = ACTIVE_ON_ACKNOWLEDGED
        \/ s = ACTIVE_ON /\ e = "ACK_MISSED" /\ k.state = ERROR
  \/ /\ k.timer = IncrementTimer(t)
     /\ k.state = s
     /\ \/ s = OFF /\ e # "COMMAND_ON"
        \/ s = ACTIVE_ON /\ e = "COMMAND_ON"
        \/ s = ACTIVE_ON_ACKNOWLEDGED /\ e # "COMMAND_OFF"

\* The state is neither of the dark phases, and the event is not BLINK.
Reached == {OFF, ACTIVE_ON, ACTIVE_ON_ACKNOWLEDGED, ERROR}
Derived == {"COMMAND_ON", "COMMAND_OFF", "ACK_RECEIVED", "ACK_MISSED"}

\* fsm_blinkers_tick() does what its table says of these and nothing else.
LEMMA TickCases ==
  ASSUME NEW s \in Reached, NEW e \in Derived, NEW t \in fsm_timer_t,
         NEW k \in Tick(transitions, s, e, t)
  PROVE  TickResult(s, e, t, k)
<1> DEFINE hits == Matching(transitions, s, e)
<1>1. IncrementTimer(0) = 1
  BY TimerMaxAssumption DEF IncrementTimer
<1>2. CASE hits = {}
  <2>1. k = [state |-> s, timer |-> IncrementTimer(t)]
    BY <1>2 DEF Tick
  <2>2. \A r \in transitions : r.from = s => r.on # e /\ r.on # ANY
    BY <1>2 DEF Matching
  <2>3. /\ ERROR # s
        /\ OFF = s => "COMMAND_ON" # e
        /\ ACTIVE_ON = s => e \notin {"COMMAND_OFF", "ACK_RECEIVED", "ACK_MISSED"}
        /\ ACTIVE_ON_ACKNOWLEDGED = s => "COMMAND_OFF" # e
    BY <2>2 DEF transitions
  <2>4. \/ s = OFF /\ e # "COMMAND_ON"
        \/ s = ACTIVE_ON /\ e = "COMMAND_ON"
        \/ s = ACTIVE_ON_ACKNOWLEDGED /\ e # "COMMAND_OFF"
    BY <2>3 DEF Reached, Derived
  <2> QED BY <2>1, <2>4 DEF TickResult
<1>3. CASE hits # {}
  <2>1. PICK r \in hits : k = [state |-> r.to, timer |-> 1]
    BY <1>1, <1>3 DEF Tick
  <2>2. r \in transitions /\ r.from = s /\ (r.on = e \/ r.on = ANY)
    BY <2>1 DEF Matching
  <2> QED BY <2>1, <2>2, StatesDiffer DEF TickResult, transitions, ANY, Reached, Derived, Shining
<1> QED BY <1>2, <1>3

\* What compute_<blinker>() derives: never BLINK, whose delay is not the shorter one.
LEMMA EventCases ==
  ASSUME TypeOK, NEW b \in Blinkers
  PROVE  /\ Event(b) \in Derived
         /\ Event(b) = "COMMAND_OFF" <=> ~Commanded(b)
         /\ Event(b) = "ACK_RECEIVED" => acknowledgement[b]
         /\ Event(b) = "ACK_MISSED" => timer[b] > ACKNOWLEDGEMENT_DELAY
         /\ Event(b) = "COMMAND_ON" => ~(timer[b] > ACKNOWLEDGEMENT_DELAY)
         /\ Commanded(b) /\ ~acknowledgement[b] => Event(b) \in {"COMMAND_ON", "ACK_MISSED"}
<1>1. timer[b] \in 0 .. TIMER_MAX
  BY DEF TypeOK, fsm_timer_t
<1>2. ~(timer[b] > ACKNOWLEDGEMENT_DELAY) => ~(timer[b] > BLINKING_DELAY)
  BY <1>1, BlinkersDelayAssumption, TimerMaxAssumption
<1> QED BY <1>2 DEF Event, Derived

-----------------------------------------------------------------------------
(***************************************************************************)
(* Types.                                                                  *)
(***************************************************************************)

\* What keeps the automata in the reached states is part of their type.
Reachable == \A b \in Blinkers : fsm[b] \in Reached

LEMMA IncrementTimerType == \A t \in fsm_timer_t : IncrementTimer(t) \in fsm_timer_t
BY TimerMaxAssumption DEF IncrementTimer, fsm_timer_t

LEMMA CountType == \A c \in 0 .. Saturation, e \in BOOLEAN : Count(c, e) \in 0 .. Saturation
BY TimerMaxAssumption DEF Count, Saturation

LEMMA WarningsShownType ==
  ASSUME TypeOK, NEW s
  PROVE  WarningsShown(s) \in BOOLEAN
BY DEF TypeOK, WarningsShown

\* What compute_<blinker>() does to its own blinker and to the indicator, and that it
\* leaves the other blinker alone.
LEMMA CallEffect ==
  ASSUME TypeOK, Reachable, NEW b \in Blinkers, Compute(b)
  PROVE  /\ TypeOK'
         /\ \E k \in Tick(transitions, fsm[b], Event(b), timer[b]) :
              /\ TickResult(fsm[b], Event(b), timer[b], k)
              /\ fsm'[b] = k.state
              /\ timer'[b] = k.timer
         /\ fsm'[b] \in Reached
         /\ out'[b] = (fsm'[b] \in Shining)
         /\ indicator_warnings' = WarningsShown(fsm'[b])
         /\ acknowledgement'[b] = FALSE
         /\ in' = in /\ warnings_in' = warnings_in
         /\ \A c \in Blinkers \ {b} :
              /\ fsm'[c] = fsm[c] /\ timer'[c] = timer[c] /\ out'[c] = out[c]
              /\ acknowledgement'[c] = acknowledgement[c]
<1>1. PICK k \in Tick(transitions, fsm[b], Event(b), timer[b]) :
        /\ fsm' = [fsm EXCEPT ![b] = k.state]
        /\ timer' = [timer EXCEPT ![b] = k.timer]
        /\ acknowledgement' = [acknowledgement EXCEPT ![b] = FALSE]
        /\ out' = [out EXCEPT ![b] = k.state \in Shining]
        /\ indicator_warnings' = WarningsShown(k.state)
        /\ UNCHANGED <<in, warnings_in>>
  BY DEF Compute
<1>2. /\ fsm[b] \in Reached /\ timer[b] \in fsm_timer_t
      /\ Event(b) \in Derived
  BY EventCases DEF Reachable, TypeOK
<1>3. TickResult(fsm[b], Event(b), timer[b], k)
  BY <1>2, TickCases
<1>4. k.state \in Reached /\ k.timer \in fsm_timer_t
  BY <1>2, <1>3, IncrementTimerType, TimerMaxAssumption DEF TickResult, Reached, fsm_timer_t
<1>5. k.state \in fsm_blinkers_state_t
  BY <1>4 DEF Reached, fsm_blinkers_state_t
<1>6. WarningsShown(k.state) \in BOOLEAN
  BY WarningsShownType
<1>7. TypeOK'
  BY <1>1, <1>4, <1>5, <1>6 DEF TypeOK
<1>8. fsm'[b] = k.state /\ timer'[b] = k.timer /\ out'[b] = (k.state \in Shining)
      /\ acknowledgement'[b] = FALSE
  BY <1>1 DEF TypeOK
<1>9. \A c \in Blinkers \ {b} :
        /\ fsm'[c] = fsm[c] /\ timer'[c] = timer[c] /\ out'[c] = out[c]
        /\ acknowledgement'[c] = acknowledgement[c]
  BY <1>1 DEF TypeOK
<1> QED BY <1>1, <1>3, <1>4, <1>7, <1>8, <1>9

\* The same of the call and what it is counted as.
LEMMA ComputeEffect ==
  ASSUME MonitorTypeOK, Reachable, NEW b \in Blinkers, MonitorCompute(b)
  PROVE  /\ TypeOK'
         /\ \E k \in Tick(transitions, fsm[b], Event(b), timer[b]) :
              /\ TickResult(fsm[b], Event(b), timer[b], k)
              /\ fsm'[b] = k.state
              /\ timer'[b] = k.timer
         /\ fsm'[b] \in Reached
         /\ out'[b] = (fsm'[b] \in Shining)
         /\ indicator_warnings' = WarningsShown(fsm'[b])
         /\ unconfirmed'[b] = Count(unconfirmed[b], fsm'[b] = ACTIVE_ON)
         /\ refused'[b] = Count(refused[b], fsm'[b] = OFF /\ Commanded(b) /\ ~answered[b])
         /\ unanswered'[b] = Count(unanswered[b], Commanded(b) /\ ~answered[b])
         /\ acknowledgement'[b] = FALSE /\ answered'[b] = FALSE
         /\ in' = in /\ warnings_in' = warnings_in
         /\ \A c \in Blinkers \ {b} :
              /\ fsm'[c] = fsm[c] /\ timer'[c] = timer[c] /\ out'[c] = out[c]
              /\ unconfirmed'[c] = unconfirmed[c] /\ refused'[c] = refused[c]
              /\ unanswered'[c] = unanswered[c]
              /\ acknowledgement'[c] = acknowledgement[c] /\ answered'[c] = answered[c]
<1>1. TypeOK /\ Compute(b) /\ Counted(b)
  BY DEF MonitorTypeOK, MonitorCompute
<1>2. /\ unconfirmed'[b] = Count(unconfirmed[b], fsm'[b] = ACTIVE_ON)
      /\ refused'[b] = Count(refused[b], fsm'[b] = OFF /\ Commanded(b) /\ ~answered[b])
      /\ unanswered'[b] = Count(unanswered[b], Commanded(b) /\ ~answered[b])
      /\ answered'[b] = FALSE
      /\ \A c \in Blinkers \ {b} : /\ unconfirmed'[c] = unconfirmed[c]
                                   /\ refused'[c] = refused[c]
                                   /\ unanswered'[c] = unanswered[c]
                                   /\ answered'[c] = answered[c]
  BY <1>1 DEF MonitorTypeOK, Counted
<1> QED BY <1>1, <1>2, CallEffect

\* The types, and with them that no dark phase is reached.
LEMMA TypesAndStates == MonitorSpec => [](MonitorTypeOK /\ Reachable)
<1>1. MonitorInit => MonitorTypeOK /\ Reachable
  <2> SUFFICES ASSUME MonitorInit PROVE MonitorTypeOK /\ Reachable
    OBVIOUS
  <2>1. /\ OFF \in fsm_blinkers_state_t /\ OFF \in Reached
        /\ 0 \in fsm_timer_t /\ 0 \in 0 .. Saturation
    BY TimerMaxAssumption DEF fsm_blinkers_state_t, fsm_timer_t, Saturation, Reached
  <2>2. /\ in \in [Blinkers -> BOOLEAN] /\ acknowledgement \in [Blinkers -> BOOLEAN]
        /\ out \in [Blinkers -> BOOLEAN]
    BY DEF MonitorInit, Init
  <2>3. warnings_in \in BOOLEAN /\ indicator_warnings \in BOOLEAN
    BY Zenon DEF MonitorInit, Init
  <2> QED BY <2>1, <2>2, <2>3 DEF MonitorInit, Init, MonitorTypeOK, TypeOK, Reachable
<1>2. MonitorTypeOK /\ Reachable /\ [MonitorNext]_mvars => (MonitorTypeOK /\ Reachable)'
  <2> SUFFICES ASSUME MonitorTypeOK, Reachable, [MonitorNext]_mvars
               PROVE  MonitorTypeOK' /\ Reachable'
    OBVIOUS
  <2>1. CASE Decode_commodos /\ UNCHANGED monitor
    BY <2>1 DEF Decode_commodos, monitor, counters, MonitorTypeOK, TypeOK, Reachable
  <2>2. ASSUME NEW b \in Blinkers, Decode_bgf(b), Answered(b)
        PROVE  MonitorTypeOK' /\ Reachable'
    BY <2>2 DEF Decode_bgf, Answered, counters, MonitorTypeOK, TypeOK, Reachable
  <2>3. ASSUME NEW b \in Blinkers, MonitorCompute(b)
        PROVE  MonitorTypeOK' /\ Reachable'
    <3> DEFINE u == fsm'[b] = ACTIVE_ON
               r == fsm'[b] = OFF /\ Commanded(b) /\ ~answered[b]
               a == Commanded(b) /\ ~answered[b]
    <3>1. TypeOK'
      BY <2>3, ComputeEffect
    <3>2. u \in BOOLEAN /\ r \in BOOLEAN /\ a \in BOOLEAN
      OBVIOUS
    <3>3. /\ unconfirmed' = [unconfirmed EXCEPT ![b] = Count(@, u)]
          /\ refused' = [refused EXCEPT ![b] = Count(@, r)]
          /\ unanswered' = [unanswered EXCEPT ![b] = Count(@, a)]
          /\ answered' = [answered EXCEPT ![b] = FALSE]
      BY <2>3 DEF MonitorCompute, Counted
    <3>4. /\ unconfirmed' \in [Blinkers -> 0 .. Saturation]
          /\ refused' \in [Blinkers -> 0 .. Saturation]
          /\ unanswered' \in [Blinkers -> 0 .. Saturation]
          /\ answered' \in [Blinkers -> BOOLEAN]
      <4> HIDE DEF u, r, a
      <4> QED BY <3>2, <3>3, CountType DEF MonitorTypeOK
    <3>5. Reachable'
      BY <2>3, ComputeEffect DEF Reachable
    <3> QED BY <3>1, <3>4, <3>5 DEF MonitorTypeOK
  <2>4. CASE UNCHANGED mvars
    BY <2>4 DEF mvars, vars, monitor, counters, MonitorTypeOK, TypeOK, Reachable
  <2> QED BY <2>1, <2>2, <2>3, <2>4 DEF MonitorNext
<1> QED BY <1>1, <1>2, PTL DEF MonitorSpec

\* The blinkers' part of the data dictionary and the counters keep their types.
THEOREM BlinkersTypeCorrect == MonitorSpec => []MonitorTypeOK
BY TypesAndStates, PTL

-----------------------------------------------------------------------------
(***************************************************************************)
(* The invariant.                                                          *)
(***************************************************************************)

\* compute_<blinker>() re-establishes the invariant of its blinker.
LEMMA ComputeKeepsBlinkerInv ==
  ASSUME MonitorTypeOK, Reachable, NEW b \in Blinkers, BlinkerInv(b), MonitorCompute(b)
  PROVE  BlinkerInv(b)'
<1>1. PICK k \in Tick(transitions, fsm[b], Event(b), timer[b]) :
        /\ TickResult(fsm[b], Event(b), timer[b], k)
        /\ fsm'[b] = k.state
        /\ timer'[b] = k.timer
  BY ComputeEffect
<1>2. /\ fsm'[b] \in Reached
      /\ out'[b] = (fsm'[b] \in Shining)
      /\ unconfirmed'[b] = Count(unconfirmed[b], fsm'[b] = ACTIVE_ON)
      /\ refused'[b] = Count(refused[b], fsm'[b] = OFF /\ Commanded(b) /\ ~answered[b])
      /\ unanswered'[b] = Count(unanswered[b], Commanded(b) /\ ~answered[b])
      /\ acknowledgement'[b] = answered'[b]
  BY ComputeEffect
<1>3. /\ fsm[b] \in Reached /\ timer[b] \in 0 .. TIMER_MAX
      /\ unconfirmed[b] \in 0 .. Saturation /\ refused[b] \in 0 .. Saturation
      /\ unanswered[b] \in 0 .. Saturation
  BY DEF Reachable, MonitorTypeOK, TypeOK, fsm_timer_t
<1>4. /\ Event(b) = "COMMAND_OFF" <=> ~Commanded(b)
      /\ Event(b) = "ACK_MISSED" => timer[b] > ACKNOWLEDGEMENT_DELAY
      /\ Event(b) = "COMMAND_ON" => ~(timer[b] > ACKNOWLEDGEMENT_DELAY)
      /\ Commanded(b) /\ ~answered[b] => Event(b) \in {"COMMAND_ON", "ACK_MISSED"}
  BY EventCases DEF MonitorTypeOK, BlinkerInv
<1> USE TimerMaxAssumption, BlinkersDelayAssumption, StatesDiffer
<1>5. fsm'[b] \notin {ACTIVE_OFF, ACTIVE_OFF_ACKNOWLEDGED}
  BY <1>2 DEF Reached
<1>6. out'[b] <=> fsm'[b] \in Shining
  BY <1>2
<1>7. IF fsm'[b] = ACTIVE_ON THEN /\ timer'[b] = unconfirmed'[b]
                                  /\ timer'[b] \in 1 .. ACKNOWLEDGEMENT_DELAY + 1
                             ELSE unconfirmed'[b] = 0
  <2>1. CASE fsm'[b] = ACTIVE_ON
    <3>1. unconfirmed'[b] = IF unconfirmed[b] = Saturation THEN unconfirmed[b]
                                                           ELSE unconfirmed[b] + 1
      BY <1>2, <2>1 DEF Count
    <3>2. \/ fsm[b] = OFF /\ timer'[b] = 1
          \/ fsm[b] = ACTIVE_ON /\ timer'[b] = IncrementTimer(timer[b])
             /\ ~(timer[b] > ACKNOWLEDGEMENT_DELAY)
      BY <1>1, <1>4, <2>1 DEF TickResult
    <3> QED BY <1>3, <2>1, <3>1, <3>2 DEF BlinkerInv, IncrementTimer, Saturation
  <2>2. CASE fsm'[b] # ACTIVE_ON
    BY <1>2, <2>2 DEF Count
  <2> QED BY <2>1, <2>2
<1>8. refused'[b] > 0 =>
        /\ fsm'[b] = OFF
        /\ \/ timer'[b] > ACKNOWLEDGEMENT_DELAY + refused'[b]
           \/ timer'[b] = 0 /\ refused'[b] <= TIMER_MAX - ACKNOWLEDGEMENT_DELAY
  <2>1. CASE fsm'[b] = OFF /\ Commanded(b) /\ ~answered[b]
    <3>1. refused'[b] = IF refused[b] = Saturation THEN refused[b] ELSE refused[b] + 1
      BY <1>2, <2>1 DEF Count
    <3>2. Event(b) \in {"COMMAND_ON", "ACK_MISSED"}
      BY <1>4, <2>1
    <3>3. fsm[b] = OFF /\ timer'[b] = IncrementTimer(timer[b]) /\ timer[b] > ACKNOWLEDGEMENT_DELAY
      BY <1>1, <1>4, <2>1, <3>2 DEF TickResult
    <3> QED BY <1>3, <2>1, <3>1, <3>3 DEF BlinkerInv, IncrementTimer, Saturation
  <2>2. CASE ~(fsm'[b] = OFF /\ Commanded(b) /\ ~answered[b])
    BY <1>2, <2>2 DEF Count
  <2> QED BY <2>1, <2>2
<1>9. ASSUME fsm'[b] = OFF
      PROVE  unanswered'[b] = refused'[b]
  <2>1. CASE Commanded(b) /\ ~answered[b]
    <3>1. fsm[b] = OFF
      BY <1>1, <1>4, <1>9, <2>1 DEF TickResult
    <3> QED BY <1>2, <1>9, <2>1, <3>1 DEF BlinkerInv, Count
  <2>2. CASE ~(Commanded(b) /\ ~answered[b])
    BY <1>2, <2>2 DEF Count
  <2> QED BY <2>1, <2>2
<1>10. ASSUME fsm'[b] = ACTIVE_ON
       PROVE  unanswered'[b] <= TIMER_MAX - ACKNOWLEDGEMENT_DELAY + unconfirmed'[b]
  <2>1. CASE Commanded(b) /\ ~answered[b]
    <3>1. /\ unconfirmed'[b] = (IF unconfirmed[b] = Saturation THEN unconfirmed[b]
                                                              ELSE unconfirmed[b] + 1)
          /\ unanswered'[b] = (IF unanswered[b] = Saturation THEN unanswered[b]
                                                            ELSE unanswered[b] + 1)
      BY <1>2, <1>10, <2>1 DEF Count
    <3>2. fsm[b] \in {OFF, ACTIVE_ON} /\ ~(timer[b] > ACKNOWLEDGEMENT_DELAY)
      BY <1>1, <1>4, <1>10, <2>1 DEF TickResult
    <3> QED BY <1>3, <3>1, <3>2 DEF BlinkerInv, Saturation
  <2>2. CASE ~(Commanded(b) /\ ~answered[b])
    <3>1. unanswered'[b] = 0
      BY <1>2, <2>2 DEF Count
    <3> QED BY <1>7, <1>10, <3>1
  <2> QED BY <2>1, <2>2
<1> QED BY <1>2, <1>5, <1>6, <1>7, <1>8, <1>9, <1>10 DEF BlinkerInv

\* The invariant of the blinkers holds in every reachable state.
THEOREM BlinkersInvariant == MonitorSpec => []BlinkersInv
<1>1. MonitorInit /\ MonitorTypeOK => BlinkersInv
  BY StatesDiffer DEF MonitorInit, Init, BlinkersInv, BlinkerInv, Shining
<1>2. MonitorTypeOK' /\ Reachable /\ BlinkersInv /\ [MonitorNext]_mvars => BlinkersInv'
  <2> SUFFICES ASSUME MonitorTypeOK', Reachable, BlinkersInv, [MonitorNext]_mvars,
                      NEW c \in Blinkers
               PROVE  BlinkerInv(c)'
    BY DEF BlinkersInv
  <2>1. MonitorTypeOK /\ BlinkerInv(c)
    BY DEF BlinkersInv
  <2>2. CASE Decode_commodos /\ UNCHANGED monitor
    BY <2>1, <2>2 DEF Decode_commodos, monitor, counters, BlinkerInv
  <2>3. ASSUME NEW b \in Blinkers, Decode_bgf(b), Answered(b)
        PROVE  BlinkerInv(c)'
    BY <2>1, <2>3 DEF Decode_bgf, Answered, counters, BlinkerInv, MonitorTypeOK, TypeOK
  <2>4. ASSUME NEW b \in Blinkers, MonitorCompute(b)
        PROVE  BlinkerInv(c)'
    <3>1. CASE c = b
      BY <2>1, <2>4, <3>1, ComputeKeepsBlinkerInv
    <3>2. CASE c # b
      <4>1. /\ fsm'[c] = fsm[c] /\ timer'[c] = timer[c] /\ out'[c] = out[c]
            /\ unconfirmed'[c] = unconfirmed[c] /\ refused'[c] = refused[c]
            /\ unanswered'[c] = unanswered[c]
            /\ acknowledgement'[c] = acknowledgement[c] /\ answered'[c] = answered[c]
        BY <2>1, <2>4, <3>2, ComputeEffect
      <4> QED BY <2>1, <4>1 DEF BlinkerInv
    <3> QED BY <3>1, <3>2
  <2>5. CASE UNCHANGED mvars
    BY <2>1, <2>5 DEF mvars, vars, monitor, counters, BlinkerInv
  <2> QED BY <2>2, <2>3, <2>4, <2>5 DEF MonitorNext
<1> QED BY <1>1, <1>2, TypesAndStates, PTL DEF MonitorSpec

\* A driven blinker is unconfirmed for no longer than the delay plus one call.
THEOREM BlinkersFaultDetected == MonitorSpec => []FaultDetectedInTime
<1>1. BlinkersInv => FaultDetectedInTime
  BY BlinkersDelayAssumption DEF BlinkersInv, BlinkerInv, FaultDetectedInTime
<1> QED BY <1>1, BlinkersInvariant, PTL

\* No command is refused for more calls than the timer has values above the delay.
THEOREM BlinkersRefusalBounded == MonitorSpec => []RefusalBounded
<1>1. MonitorTypeOK /\ BlinkersInv => RefusalBounded
  <2> SUFFICES ASSUME MonitorTypeOK, BlinkersInv, NEW b \in Blinkers
               PROVE  refused[b] <= TIMER_MAX - ACKNOWLEDGEMENT_DELAY
    BY DEF RefusalBounded
  <2>1. refused[b] \in Nat /\ timer[b] \in 0 .. TIMER_MAX
    BY TimerMaxAssumption DEF MonitorTypeOK, TypeOK, Saturation, fsm_timer_t
  <2>2. refused[b] > 0 =>
          \/ timer[b] > ACKNOWLEDGEMENT_DELAY + refused[b]
          \/ refused[b] <= TIMER_MAX - ACKNOWLEDGEMENT_DELAY
    BY DEF BlinkersInv, BlinkerInv
  <2> QED BY <2>1, <2>2, TimerMaxAssumption, BlinkersDelayAssumption
<1> QED BY <1>1, BlinkersTypeCorrect, BlinkersInvariant, PTL

\* A commanded blinker that no answer comes for is settled within TIMER_MAX + 2 calls,
\* whichever of its two commands is on and however they relieve one another.
THEOREM BlinkersSettled == MonitorSpec => []SettledInTime
<1>1. MonitorTypeOK /\ Reachable /\ BlinkersInv => SettledInTime
  <2> SUFFICES ASSUME MonitorTypeOK, Reachable, BlinkersInv, NEW b \in Blinkers,
                      unanswered[b] > TIMER_MAX + 1
               PROVE  fsm[b] \in {ACTIVE_ON_ACKNOWLEDGED, ERROR}
    BY DEF SettledInTime
  <2>1. /\ BlinkerInv(b) /\ fsm[b] \in Reached /\ timer[b] \in 0 .. TIMER_MAX
        /\ refused[b] \in Nat /\ unanswered[b] \in Nat
    BY TimerMaxAssumption
       DEF BlinkersInv, Reachable, MonitorTypeOK, TypeOK, Saturation, fsm_timer_t
  <2>2. fsm[b] # OFF
    BY <2>1, TimerMaxAssumption, BlinkersDelayAssumption DEF BlinkerInv
  <2>3. fsm[b] # ACTIVE_ON
    BY <2>1, TimerMaxAssumption, BlinkersDelayAssumption DEF BlinkerInv
  <2> QED BY <2>1, <2>2, <2>3 DEF Reached
<1> QED BY <1>1, TypesAndStates, BlinkersInvariant, PTL

-----------------------------------------------------------------------------
(***************************************************************************)
(* The shared warnings indicator.                                          *)
(***************************************************************************)

\* The indicator is written by a call that leaves its blinker driven, and receives the
\* warnings' command.
LEMMA IndicatorWritten ==
  ASSUME MonitorTypeOK, Reachable, [MonitorNext]_mvars,
         indicator_warnings' # indicator_warnings
  PROVE  \E b \in Blinkers : MonitorCompute(b) /\ out'[b] /\ indicator_warnings' = warnings_in
<1>1. PICK b \in Blinkers : MonitorCompute(b)
  BY DEF MonitorNext, Decode_commodos, Decode_bgf, mvars, vars
<1>2. /\ out'[b] = (fsm'[b] \in Shining)
      /\ indicator_warnings' = WarningsShown(fsm'[b])
  BY <1>1, ComputeEffect
<1>3. fsm'[b] \in Shining /\ indicator_warnings' = warnings_in
  BY <1>2 DEF WarningsShown
<1>4. out'[b]
  BY <1>2, <1>3
<1> QED BY <1>1, <1>3, <1>4

\* The indicator goes out when a bulb is driven for its own command alone.
THEOREM BlinkersIndicatorGoesOut == MonitorSpec => WarningsIndicatorGoesOutByBlinker
<1>1. MonitorTypeOK /\ Reachable /\ [MonitorNext]_mvars
        => [indicator_warnings /\ ~indicator_warnings'
              => ~warnings_in /\ \E b \in Blinkers : out'[b] /\ in[b]]_vars
  <2> SUFFICES ASSUME MonitorTypeOK, Reachable, [MonitorNext]_mvars,
                      indicator_warnings, ~indicator_warnings'
               PROVE  ~warnings_in /\ \E b \in Blinkers : out'[b] /\ in[b]
    OBVIOUS
  <2>1. PICK b \in Blinkers : MonitorCompute(b) /\ out'[b] /\ indicator_warnings' = warnings_in
    BY IndicatorWritten
  <2>2. ~warnings_in
    BY <2>1
  <2>3. fsm'[b] \in Shining
    BY <2>1, ComputeEffect
  <2>4. PICK k \in Tick(transitions, fsm[b], Event(b), timer[b]) :
          TickResult(fsm[b], Event(b), timer[b], k) /\ fsm'[b] = k.state
    BY <2>1, ComputeEffect
  <2>5. Event(b) # "COMMAND_OFF"
    BY <2>3, <2>4, StatesDiffer DEF TickResult, Shining
  <2>6. Commanded(b)
    BY <2>5, EventCases DEF MonitorTypeOK
  <2> QED BY <2>1, <2>2, <2>6 DEF Commanded
<1> QED BY <1>1, TypesAndStates, PTL DEF MonitorSpec, WarningsIndicatorGoesOutByBlinker

-----------------------------------------------------------------------------
(***************************************************************************)
(* Refinement.                                                             *)
(***************************************************************************)

LEMMA PhaseValues == /\ Phase(OFF) = "dark" /\ Phase(ACTIVE_ON) = "lit"
                     /\ Phase(ACTIVE_ON_ACKNOWLEDGED) = "confirmed" /\ Phase(ERROR) = "failed"
BY DEF Phase, OFF, ACTIVE_ON, ACTIVE_OFF, ACTIVE_ON_ACKNOWLEDGED, ACTIVE_OFF_ACKNOWLEDGED, ERROR

\* One call of compute_<blinker>() as the blinker's supervision sees it: it is lit,
\* waits, is confirmed, is given up after exactly the delay, or is put out.
LEMMA SupervisedStep ==
  ASSUME TypeOK, Reachable, NEW b \in Blinkers, Compute(b),
         fsm[b] = ACTIVE_ON => timer[b] \in 1 .. ACKNOWLEDGEMENT_DELAY + 1
  PROVE  \/ fsm[b] = OFF /\ Commanded(b) /\ fsm'[b] = ACTIVE_ON /\ timer'[b] = 1
         \/ /\ fsm[b] = ACTIVE_ON /\ Commanded(b) /\ timer[b] <= ACKNOWLEDGEMENT_DELAY
            /\ fsm'[b] = ACTIVE_ON /\ timer'[b] = timer[b] + 1
         \/ fsm[b] = ACTIVE_ON /\ Commanded(b) /\ fsm'[b] = ACTIVE_ON_ACKNOWLEDGED
         \/ /\ fsm[b] = ACTIVE_ON /\ Commanded(b) /\ timer[b] = ACKNOWLEDGEMENT_DELAY + 1
            /\ fsm'[b] = ERROR
         \/ fsm[b] \in Shining /\ ~Commanded(b) /\ fsm'[b] = OFF
         \/ fsm[b] # ACTIVE_ON /\ fsm'[b] = fsm[b]
<1>1. PICK k \in Tick(transitions, fsm[b], Event(b), timer[b]) :
        /\ TickResult(fsm[b], Event(b), timer[b], k)
        /\ fsm'[b] = k.state
        /\ timer'[b] = k.timer
  BY CallEffect
<1>2. timer[b] \in 0 .. TIMER_MAX
  BY DEF TypeOK, fsm_timer_t
<1>3. /\ Event(b) = "COMMAND_OFF" <=> ~Commanded(b)
      /\ Event(b) = "ACK_MISSED" => timer[b] > ACKNOWLEDGEMENT_DELAY
      /\ Event(b) = "COMMAND_ON" => ~(timer[b] > ACKNOWLEDGEMENT_DELAY)
  BY EventCases
<1>4. IncrementTimer(timer[b]) = IF timer[b] = TIMER_MAX THEN 0 ELSE timer[b] + 1
  BY DEF IncrementTimer
<1> QED BY <1>1, <1>2, <1>3, <1>4, BlinkersDelayAssumption, TimerMaxAssumption, StatesDiffer
        DEF TickResult, Shining

\* One call of compute_<blinker>() seen as a change of its lamp.
LEMMA LampBecomes ==
  ASSUME MonitorTypeOK, Reachable, NEW b \in Blinkers, MonitorCompute(b),
         NEW p, p = Phase(fsm'[b]), NEW w, w = IF fsm'[b] = ACTIVE_ON THEN timer'[b] ELSE 0
  PROVE  Lamp!Become(b, p, w)
<1>1. /\ in' = in /\ warnings_in' = warnings_in
      /\ \A c \in Blinkers \ {b} : fsm'[c] = fsm[c] /\ timer'[c] = timer[c]
  BY ComputeEffect
<1>2. [c \in Blinkers |-> Phase(fsm'[c])]
        = [[c \in Blinkers |-> Phase(fsm[c])] EXCEPT ![b] = Phase(fsm'[b])]
  BY <1>1
<1>3. [c \in Blinkers |-> IF fsm'[c] = ACTIVE_ON THEN timer'[c] ELSE 0]
        = [[c \in Blinkers |-> IF fsm[c] = ACTIVE_ON THEN timer[c] ELSE 0]
             EXCEPT ![b] = IF fsm'[b] = ACTIVE_ON THEN timer'[b] ELSE 0]
  BY <1>1
<1>4. [c \in Blinkers |-> in'[c] \/ warnings_in'] = [c \in Blinkers |-> in[c] \/ warnings_in]
  BY <1>1
<1> QED BY <1>2, <1>3, <1>4 DEF Lamp!Become, Commanded

\* The blinkers implement the supervised lamps of SupervisedLamp.
THEOREM BlinkersImplementSupervisedLamp == MonitorSpec => ImplementsSupervisedLamp
<1>1. MonitorInit => Lamp!Init
  <2> SUFFICES ASSUME MonitorInit PROVE Lamp!Init
    OBVIOUS
  <2>1. \A b \in Blinkers : Commanded(b) = FALSE
    BY DEF MonitorInit, Init, Commanded
  <2>2. \A b \in Blinkers : Phase(fsm[b]) = "dark" /\ fsm[b] # ACTIVE_ON
    BY PhaseValues, StatesDiffer DEF MonitorInit, Init
  <2> QED BY <2>1, <2>2 DEF Lamp!Init
<1>2. MonitorTypeOK /\ Reachable /\ BlinkersInv /\ [MonitorNext]_mvars => [Lamp!Next]_(Lamp!vars)
  <2> SUFFICES ASSUME MonitorTypeOK, Reachable, BlinkersInv, [MonitorNext]_mvars
               PROVE  [Lamp!Next]_(Lamp!vars)
    OBVIOUS
  <2>1. CASE Decode_commodos
    <3>1. [b \in Blinkers |-> in'[b] \/ warnings_in'] \in [Blinkers -> BOOLEAN]
      OBVIOUS
    <3>2. fsm' = fsm /\ timer' = timer
      BY <2>1 DEF Decode_commodos
    <3>3. Lamp!Request
      BY <3>1, <3>2 DEF Lamp!Request, Commanded
    <3> QED BY <3>3 DEF Lamp!Next
  <2>2. ASSUME UNCHANGED <<fsm, timer, in, warnings_in>>
        PROVE  [Lamp!Next]_(Lamp!vars)
    BY <2>2 DEF Lamp!vars, Commanded
  <2>3. ASSUME NEW b \in Blinkers, Decode_bgf(b)
        PROVE  [Lamp!Next]_(Lamp!vars)
    BY <2>2, <2>3 DEF Decode_bgf
  <2>4. ASSUME NEW b \in Blinkers, MonitorCompute(b)
        PROVE  [Lamp!Next]_(Lamp!vars)
    <3> DEFINE phases   == [c \in Blinkers |-> Phase(fsm[c])]
               requests == [c \in Blinkers |-> Commanded(c)]
               watches  == [c \in Blinkers |-> IF fsm[c] = ACTIVE_ON THEN timer[c] ELSE 0]
    <3>1. \/ fsm[b] = OFF /\ Commanded(b) /\ fsm'[b] = ACTIVE_ON /\ timer'[b] = 1
          \/ /\ fsm[b] = ACTIVE_ON /\ Commanded(b) /\ timer[b] <= ACKNOWLEDGEMENT_DELAY
             /\ fsm'[b] = ACTIVE_ON /\ timer'[b] = timer[b] + 1
          \/ fsm[b] = ACTIVE_ON /\ Commanded(b) /\ fsm'[b] = ACTIVE_ON_ACKNOWLEDGED
          \/ /\ fsm[b] = ACTIVE_ON /\ Commanded(b) /\ timer[b] = ACKNOWLEDGEMENT_DELAY + 1
             /\ fsm'[b] = ERROR
          \/ fsm[b] \in Shining /\ ~Commanded(b) /\ fsm'[b] = OFF
          \/ fsm[b] # ACTIVE_ON /\ fsm'[b] = fsm[b]
      BY <2>4, SupervisedStep DEF BlinkersInv, BlinkerInv, MonitorTypeOK, MonitorCompute
    <3>2. /\ phases[b] = Phase(fsm[b]) /\ requests[b] = Commanded(b)
          /\ watches[b] = IF fsm[b] = ACTIVE_ON THEN timer[b] ELSE 0
      OBVIOUS
    <3>3. \A p, w : p = Phase(fsm'[b]) /\ w = (IF fsm'[b] = ACTIVE_ON THEN timer'[b] ELSE 0)
                      => Lamp!Become(b, p, w)
      BY <2>4, LampBecomes
    <3>4. CASE fsm[b] = OFF /\ Commanded(b) /\ fsm'[b] = ACTIVE_ON /\ timer'[b] = 1
      <4>1. Lamp!Become(b, "lit", 1)
        BY <3>3, <3>4, PhaseValues
      <4>2. Lamp!Light(b)
        BY <3>2, <3>4, <4>1, PhaseValues DEF Lamp!Light
      <4> QED BY <4>2 DEF Lamp!Next
    <3>5. CASE /\ fsm[b] = ACTIVE_ON /\ Commanded(b) /\ timer[b] <= ACKNOWLEDGEMENT_DELAY
               /\ fsm'[b] = ACTIVE_ON /\ timer'[b] = timer[b] + 1
      <4>1. requests[b] /\ phases[b] = "lit" /\ watches[b] = timer[b]
        BY <3>2, <3>5, PhaseValues
      <4>2. watches[b] <= ACKNOWLEDGEMENT_DELAY /\ timer'[b] = watches[b] + 1
        BY <3>5, <4>1
      <4>3. \A w : w = timer'[b] => Lamp!Become(b, "lit", w)
        BY <3>3, <3>5, PhaseValues
      <4>4. /\ phases' = [phases EXCEPT ![b] = "lit"]
            /\ watches' = [watches EXCEPT ![b] = timer'[b]]
            /\ UNCHANGED requests
        BY <4>3 DEF Lamp!Become
      <4>5. Lamp!Wait(b)
        BY <4>1, <4>2, <4>4 DEF Lamp!Wait, Lamp!Become
      <4> QED BY <4>5 DEF Lamp!Next
    <3>6. CASE fsm[b] = ACTIVE_ON /\ Commanded(b) /\ fsm'[b] = ACTIVE_ON_ACKNOWLEDGED
      <4>1. Lamp!Become(b, "confirmed", 0)
        BY <3>3, <3>6, StatesDiffer, PhaseValues
      <4>2. Lamp!Confirm(b)
        BY <3>2, <3>6, <4>1, PhaseValues DEF Lamp!Confirm
      <4> QED BY <4>2 DEF Lamp!Next
    <3>7. CASE /\ fsm[b] = ACTIVE_ON /\ Commanded(b) /\ timer[b] = ACKNOWLEDGEMENT_DELAY + 1
               /\ fsm'[b] = ERROR
      <4>1. Lamp!Become(b, "failed", 0)
        BY <3>3, <3>7, StatesDiffer, PhaseValues
      <4>2. Lamp!Fail(b)
        BY <3>2, <3>7, <4>1, PhaseValues DEF Lamp!Fail
      <4> QED BY <4>2 DEF Lamp!Next
    <3>8. CASE fsm[b] \in Shining /\ ~Commanded(b) /\ fsm'[b] = OFF
      <4>1. Lamp!Become(b, "dark", 0)
        BY <3>3, <3>8, StatesDiffer, PhaseValues
      <4>2. Lamp!Douse(b)
        BY <3>2, <3>8, <4>1, PhaseValues DEF Lamp!Douse, Shining
      <4> QED BY <4>2 DEF Lamp!Next
    <3>9. CASE fsm[b] # ACTIVE_ON /\ fsm'[b] = fsm[b]
      <4>1. /\ in' = in /\ warnings_in' = warnings_in
            /\ \A c \in Blinkers \ {b} : fsm'[c] = fsm[c] /\ timer'[c] = timer[c]
        BY <2>4, ComputeEffect
      <4>2. [c \in Blinkers |-> Phase(fsm'[c])] = phases
        BY <3>9, <4>1
      <4>3. [c \in Blinkers |-> IF fsm'[c] = ACTIVE_ON THEN timer'[c] ELSE 0] = watches
        BY <3>9, <4>1
      <4> QED BY <4>1, <4>2, <4>3 DEF Lamp!vars, Commanded
    <3> QED BY <3>1, <3>4, <3>5, <3>6, <3>7, <3>8, <3>9
  <2>5. CASE UNCHANGED mvars
    BY <2>2, <2>5 DEF mvars, vars
  <2> QED BY <2>1, <2>3, <2>4, <2>5 DEF MonitorNext
<1> QED BY <1>1, <1>2, TypesAndStates, BlinkersInvariant, PTL
        DEF MonitorSpec, ImplementsSupervisedLamp, Lamp!Spec
=============================================================================
