---------------------------- MODULE WipersProofs ----------------------------
(***************************************************************************)
(* The safety of the wipers, for every timer width and every waiting delay *)
(* below it.                                                               *)
(***************************************************************************)
EXTENDS WipersMonitor, TLAPS

-----------------------------------------------------------------------------
(***************************************************************************)
(* The transition table.                                                   *)
(***************************************************************************)

\* No state and event match two entries of fsm_wipers_transitions, so the order in
\* which fsm_wipers_tick() scans it does not matter.
THEOREM WipersTableDeterministic == Deterministic(transitions)
BY DEF Deterministic, transitions, ANY, OFF, ON, WASH, WAIT

\* What one tick does, entry by entry.
TickResult(s, e, t, k) ==
  \/ /\ k.timer = 1
     /\ \/ s = OFF /\ e = "COMMAND_WIPE" /\ k.state = ON
        \/ s = ON /\ e = "COMMAND_OFF" /\ k.state = OFF
        \/ s \in {OFF, ON, WAIT} /\ e = "COMMAND_WASH" /\ k.state = WASH
        \/ s = WASH /\ e \in {"COMMAND_OFF", "COMMAND_WIPE"} /\ k.state = WAIT
        \/ s = WAIT /\ e = "TIMEOUT" /\ k.state = OFF
  \/ /\ k.timer = IncrementTimer(t)
     /\ k.state = s
     /\ \/ s = OFF /\ e \in {"COMMAND_OFF", "TIMEOUT"}
        \/ s = ON /\ e \in {"COMMAND_WIPE", "TIMEOUT"}
        \/ s = WASH /\ e \in {"COMMAND_WASH", "TIMEOUT"}
        \/ s = WAIT /\ e \in {"COMMAND_OFF", "COMMAND_WIPE"}

\* fsm_wipers_tick() does what its table says and nothing else.
LEMMA TickCases ==
  ASSUME NEW s \in fsm_wipers_state_t, NEW e \in fsm_wipers_event_t, NEW t \in fsm_timer_t,
         NEW k \in Tick(transitions, s, e, t)
  PROVE  TickResult(s, e, t, k)
<1> DEFINE hits == Matching(transitions, s, e)
<1>1. IncrementTimer(0) = 1
  BY TimerMaxAssumption DEF IncrementTimer
<1>2. CASE hits = {}
  <2>1. k = [state |-> s, timer |-> IncrementTimer(t)]
    BY <1>2 DEF Tick
  <2>2. \A r \in transitions : r.from = s => r.on # e
    BY <1>2 DEF Matching
  <2>3. /\ OFF = s => e \notin {"COMMAND_WIPE", "COMMAND_WASH"}
        /\ ON = s => e \notin {"COMMAND_OFF", "COMMAND_WASH"}
        /\ WASH = s => e \notin {"COMMAND_OFF", "COMMAND_WIPE"}
        /\ WAIT = s => e \notin {"TIMEOUT", "COMMAND_WASH"}
    BY <2>2 DEF transitions
  <2> QED BY <2>1, <2>3 DEF TickResult, fsm_wipers_state_t, fsm_wipers_event_t
<1>3. CASE hits # {}
  <2>1. PICK r \in hits : k = [state |-> r.to, timer |-> 1]
    BY <1>1, <1>3 DEF Tick
  <2>2. r \in transitions /\ r.from = s /\ (r.on = e \/ r.on = ANY)
    BY <2>1 DEF Matching
  <2> QED BY <2>1, <2>2 DEF TickResult, transitions, ANY, OFF, ON, WASH, WAIT
<1> QED BY <1>2, <1>3

-----------------------------------------------------------------------------
(***************************************************************************)
(* Types.                                                                  *)
(***************************************************************************)

LEMMA EventCases ==
  ASSUME TypeOK
  PROVE  /\ Event \in fsm_wipers_event_t
         /\ Event = "TIMEOUT" <=> fsm = WAIT /\ timer > WAITING_DELAY
         /\ Event = "COMMAND_WASH" => washer_fluid_in
         /\ Event = "COMMAND_WIPE" => wipers_in /\ ~washer_fluid_in
         /\ Event = "COMMAND_OFF" => ~wipers_in /\ ~washer_fluid_in
BY DEF TypeOK, Event, fsm_wipers_event_t

LEMMA CountType == \A c \in 0 .. Saturation, e \in BOOLEAN : Count(c, e) \in 0 .. Saturation
BY TimerMaxAssumption DEF Count, Saturation

\* What compute_wipers() does.
LEMMA ComputeEffect ==
  ASSUME MonitorTypeOK, MonitorCompute
  PROVE  /\ TypeOK'
         /\ \E k \in Tick(transitions, fsm, Event, timer) :
              /\ TickResult(fsm, Event, timer, k)
              /\ fsm' = k.state /\ timer' = k.timer
         /\ wipers_out' = (fsm' \in {ON, WASH})
         /\ washer_fluid_out' = (fsm' = WASH)
<1>1. PICK k \in Tick(transitions, fsm, Event, timer) :
        /\ fsm' = k.state /\ timer' = k.timer
        /\ wipers_out' = (k.state \in {ON, WASH})
        /\ washer_fluid_out' = (k.state = WASH)
        /\ UNCHANGED <<wipers_in, washer_fluid_in>>
  BY DEF MonitorCompute, Compute_wipers
<1>2. TickResult(fsm, Event, timer, k)
  BY TickCases, EventCases DEF MonitorTypeOK, TypeOK
<1>3. IncrementTimer(timer) \in fsm_timer_t /\ 1 \in fsm_timer_t
  BY TimerMaxAssumption DEF MonitorTypeOK, TypeOK, IncrementTimer, fsm_timer_t
<1>4. k.state \in fsm_wipers_state_t /\ k.timer \in fsm_timer_t
  BY <1>2, <1>3 DEF TickResult, fsm_wipers_state_t
<1>5. TypeOK'
  BY <1>1, <1>4 DEF MonitorTypeOK, TypeOK
<1> QED BY <1>1, <1>2, <1>5

\* The wipers' part of the data dictionary and the counters keep their types.
THEOREM WipersTypeCorrect == MonitorSpec => []MonitorTypeOK
<1>1. MonitorInit => MonitorTypeOK
  <2> SUFFICES ASSUME MonitorInit PROVE MonitorTypeOK
    OBVIOUS
  <2>1. fsm \in fsm_wipers_state_t /\ timer \in fsm_timer_t
    BY TimerMaxAssumption DEF MonitorInit, Init, fsm_wipers_state_t, fsm_timer_t
  <2>2. /\ wipers_in \in BOOLEAN /\ washer_fluid_in \in BOOLEAN
        /\ wipers_out \in BOOLEAN /\ washer_fluid_out \in BOOLEAN
    BY Zenon DEF MonitorInit, Init
  <2>3. 0 \in 0 .. Saturation
    BY TimerMaxAssumption DEF Saturation
  <2> QED BY <2>1, <2>2, <2>3 DEF MonitorInit, MonitorTypeOK, TypeOK
<1>2. MonitorTypeOK /\ [MonitorNext]_mvars => MonitorTypeOK'
  <2> SUFFICES ASSUME MonitorTypeOK, [MonitorNext]_mvars PROVE MonitorTypeOK'
    OBVIOUS
  <2>1. CASE Decode_commodos /\ UNCHANGED monitor
    BY <2>1 DEF Decode_commodos, monitor, MonitorTypeOK, TypeOK
  <2>2. CASE MonitorCompute
    <3> DEFINE w == fsm' = WAIT
               i == wipers_in /\ ~washer_fluid_in /\ ~wipers_out'
               j == washer_fluid_in /\ ~washer_fluid_out'
    <3>1. TypeOK'
      BY <2>2, ComputeEffect
    <3>2. w \in BOOLEAN /\ i \in BOOLEAN /\ j \in BOOLEAN
      OBVIOUS
    <3>3. waited' = Count(waited, w) /\ wipeIgnored' = Count(wipeIgnored, i)
          /\ washIgnored' = Count(washIgnored, j)
      BY <2>2 DEF MonitorCompute, Counted
    <3> HIDE DEF w, i, j
    <3> QED BY <3>1, <3>2, <3>3, CountType DEF MonitorTypeOK
  <2>3. CASE UNCHANGED mvars
    BY <2>3 DEF mvars, vars, monitor, MonitorTypeOK, TypeOK
  <2> QED BY <2>1, <2>2, <2>3 DEF MonitorNext
<1> QED BY <1>1, <1>2, PTL DEF MonitorSpec

-----------------------------------------------------------------------------
(***************************************************************************)
(* The invariant.                                                          *)
(***************************************************************************)

\* compute_wipers() keeps the invariant.  A wash leaves WAIT's timer behind, and a
\* command that WAIT or the timeout hides is met in OFF by the next call.
LEMMA ComputeKeepsWipersInv ==
  ASSUME MonitorTypeOK', WipersInv, MonitorCompute
  PROVE  WipersInv'
<1>0. MonitorTypeOK
  BY DEF WipersInv
<1>1. PICK k \in Tick(transitions, fsm, Event, timer) :
        /\ TickResult(fsm, Event, timer, k)
        /\ fsm' = k.state /\ timer' = k.timer
  BY <1>0, ComputeEffect
<1>2. wipers_out' = (fsm' \in {ON, WASH}) /\ washer_fluid_out' = (fsm' = WASH)
  BY <1>0, ComputeEffect
<1>3. /\ waited' = Count(waited, fsm' = WAIT)
      /\ wipeIgnored' = Count(wipeIgnored, wipers_in /\ ~washer_fluid_in /\ ~wipers_out')
      /\ washIgnored' = Count(washIgnored, washer_fluid_in /\ ~washer_fluid_out')
  BY DEF MonitorCompute, Counted
<1>4. /\ fsm \in fsm_wipers_state_t /\ timer \in 0 .. TIMER_MAX
      /\ waited \in 0 .. Saturation /\ wipeIgnored \in 0 .. Saturation
      /\ washIgnored \in 0 .. Saturation
  BY <1>0 DEF MonitorTypeOK, TypeOK, fsm_timer_t
<1>5. /\ Event = "TIMEOUT" <=> fsm = WAIT /\ timer > WAITING_DELAY
      /\ Event = "COMMAND_WASH" => washer_fluid_in
      /\ Event = "COMMAND_WIPE" => wipers_in /\ ~washer_fluid_in
      /\ Event = "COMMAND_OFF" => ~wipers_in /\ ~washer_fluid_in
  BY <1>0, EventCases DEF MonitorTypeOK
<1> USE TimerMaxAssumption, WaitingDelayAssumption DEF OFF, ON, WASH, WAIT
<1>6. IF fsm' = WAIT THEN timer' = waited' /\ timer' \in 1 .. WAITING_DELAY + 1
                     ELSE waited' = 0
  <2>1. CASE fsm' = WAIT
    <3>1. waited' = IF waited = Saturation THEN waited ELSE waited + 1
      BY <1>3, <2>1 DEF Count
    <3> QED BY <1>1, <1>4, <1>5, <2>1, <3>1
            DEF WipersInv, TickResult, IncrementTimer, Saturation
  <2>2. CASE fsm' # WAIT
    BY <1>3, <2>2 DEF Count
  <2> QED BY <2>1, <2>2
<1>7. wipeIgnored' > 0 => \/ fsm' = WAIT /\ wipeIgnored' <= timer'
                          \/ fsm' = OFF /\ wipeIgnored' <= WAITING_DELAY + 2
  <2>1. CASE wipers_in /\ ~washer_fluid_in /\ ~wipers_out'
    <3>1. wipeIgnored' = IF wipeIgnored = Saturation THEN wipeIgnored ELSE wipeIgnored + 1
      BY <1>3, <2>1 DEF Count
    <3>2. fsm' \notin {ON, WASH} /\ Event \notin {"COMMAND_WASH", "COMMAND_OFF"}
      BY <1>2, <1>5, <2>1
    <3>3. \/ fsm = WASH /\ fsm' = WAIT /\ timer' = 1
          \/ fsm = WAIT /\ fsm' = OFF
          \/ fsm = WAIT /\ fsm' = WAIT /\ ~(timer > WAITING_DELAY)
             /\ timer' = IncrementTimer(timer)
      BY <1>1, <1>4, <1>5, <3>2 DEF TickResult, fsm_wipers_state_t
    <3> QED BY <1>4, <3>1, <3>3 DEF WipersInv, IncrementTimer, Saturation
  <2>2. CASE ~(wipers_in /\ ~washer_fluid_in /\ ~wipers_out')
    BY <1>3, <2>2 DEF Count
  <2> QED BY <2>1, <2>2
<1>8. washIgnored' > 0 => fsm' = OFF /\ washIgnored' = 1
  <2>1. CASE washer_fluid_in /\ ~washer_fluid_out'
    <3>1. washIgnored' = IF washIgnored = Saturation THEN washIgnored ELSE washIgnored + 1
      BY <1>3, <2>1 DEF Count
    <3>2. fsm' # WASH /\ Event \notin {"COMMAND_WIPE", "COMMAND_OFF"}
      BY <1>2, <1>5, <2>1
    <3>3. fsm = WAIT /\ fsm' = OFF
      BY <1>1, <1>4, <1>5, <3>2 DEF TickResult, fsm_wipers_state_t
    <3> QED BY <1>4, <3>1, <3>3 DEF WipersInv, Saturation
  <2>2. CASE ~(washer_fluid_in /\ ~washer_fluid_out')
    BY <1>3, <2>2 DEF Count
  <2> QED BY <2>1, <2>2
<1> QED BY <1>6, <1>7, <1>8 DEF WipersInv

\* The invariant of the wipers holds in every reachable state.
THEOREM WipersInvariant == MonitorSpec => []WipersInv
<1>1. MonitorInit /\ MonitorTypeOK => WipersInv
  BY DEF MonitorInit, Init, WipersInv, OFF, ON, WASH, WAIT
<1>2. MonitorTypeOK' /\ WipersInv /\ [MonitorNext]_mvars => WipersInv'
  <2> SUFFICES ASSUME MonitorTypeOK', WipersInv, [MonitorNext]_mvars PROVE WipersInv'
    OBVIOUS
  <2>1. CASE Decode_commodos /\ UNCHANGED monitor
    BY <2>1 DEF Decode_commodos, monitor, WipersInv
  <2>2. CASE MonitorCompute
    BY <2>2, ComputeKeepsWipersInv
  <2>3. CASE UNCHANGED mvars
    BY <2>3 DEF mvars, vars, monitor, WipersInv
  <2> QED BY <2>1, <2>2, <2>3 DEF MonitorNext
<1> QED BY <1>1, <1>2, WipersTypeCorrect, PTL DEF MonitorSpec

\* A wiping command is served within the wait plus two calls.
THEOREM WipersWipeServed == MonitorSpec => []WipeServedInTime
<1>1. MonitorTypeOK /\ WipersInv => WipeServedInTime
  BY TimerMaxAssumption, WaitingDelayAssumption
     DEF MonitorTypeOK, Saturation, WipersInv, WipeServedInTime
<1> QED BY <1>1, WipersTypeCorrect, WipersInvariant, PTL

\* A washing command is served by the second call that sees it.
THEOREM WipersWashServed == MonitorSpec => []WashServedInTime
<1>1. MonitorTypeOK /\ WipersInv => WashServedInTime
  BY TimerMaxAssumption DEF MonitorTypeOK, Saturation, WipersInv, WashServedInTime
<1> QED BY <1>1, WipersTypeCorrect, WipersInvariant, PTL

\* The wait after a wash lasts WAITING_DELAY + 1 calls, or up to the next wash.
THEOREM WipersWaitIsExact == MonitorSpec => WaitIsExact
<1>1. MonitorTypeOK /\ WipersInv /\ [MonitorNext]_mvars
        => [fsm = WAIT /\ fsm' # WAIT =>
              \/ fsm' = OFF /\ waited = WAITING_DELAY + 1
              \/ fsm' = WASH /\ washer_fluid_in /\ waited <= WAITING_DELAY]_mvars
  <2> SUFFICES ASSUME MonitorTypeOK, WipersInv, [MonitorNext]_mvars, fsm = WAIT, fsm' # WAIT
               PROVE  \/ fsm' = OFF /\ waited = WAITING_DELAY + 1
                      \/ fsm' = WASH /\ washer_fluid_in /\ waited <= WAITING_DELAY
    OBVIOUS
  <2>1. MonitorCompute
    BY DEF MonitorNext, Decode_commodos, mvars, vars
  <2>2. PICK k \in Tick(transitions, fsm, Event, timer) :
          TickResult(fsm, Event, timer, k) /\ fsm' = k.state
    BY <2>1, ComputeEffect
  <2>3. \/ Event = "TIMEOUT" /\ fsm' = OFF
        \/ Event = "COMMAND_WASH" /\ fsm' = WASH
    BY <2>2 DEF TickResult, OFF, ON, WASH, WAIT
  <2>4. /\ Event = "TIMEOUT" <=> fsm = WAIT /\ timer > WAITING_DELAY
        /\ Event = "COMMAND_WASH" => washer_fluid_in
    BY EventCases DEF MonitorTypeOK
  <2>5. timer = waited /\ timer \in 1 .. WAITING_DELAY + 1
    BY DEF WipersInv
  <2> QED BY <2>3, <2>4, <2>5, WaitingDelayAssumption
<1> QED BY <1>1, WipersTypeCorrect, WipersInvariant, PTL DEF MonitorSpec, WaitIsExact
=============================================================================
