---------------------------- MODULE LightsProofs ----------------------------
(***************************************************************************)
(* The safety of the lights, for every timer width, every delay below it   *)
(* and every set of lights, and their refinement of supervised lamps.      *)
(***************************************************************************)
EXTENDS LightsMonitor, TLAPS

-----------------------------------------------------------------------------
(***************************************************************************)
(* The transition table.                                                   *)
(***************************************************************************)

\* No state and event match two entries of fsm_lights_transitions, so the order in
\* which fsm_lights_tick() scans it does not matter.
THEOREM LightsTableDeterministic == Deterministic(transitions)
BY DEF Deterministic, transitions, ANY, OFF, ON, ACKNOWLEDGED, ERROR

\* What one tick does, entry by entry.
TickResult(s, e, t, k) ==
  \/ s = ERROR /\ k.state = ERROR /\ k.timer = 1
  \/ s = OFF /\ e = "COMMAND_ON" /\ k.state = ON /\ k.timer = 1
  \/ s = ON /\ e = "COMMAND_OFF" /\ k.state = OFF /\ k.timer = 1
  \/ s = ON /\ e = "ACK_RECEIVED" /\ k.state = ACKNOWLEDGED /\ k.timer = 1
  \/ s = ON /\ e = "ACK_MISSED" /\ k.state = ERROR /\ k.timer = 1
  \/ s = ACKNOWLEDGED /\ e = "COMMAND_OFF" /\ k.state = OFF /\ k.timer = 1
  \/ /\ \/ s = OFF /\ e # "COMMAND_ON"
        \/ s = ON /\ e = "COMMAND_ON"
        \/ s = ACKNOWLEDGED /\ e # "COMMAND_OFF"
     /\ k.state = s
     /\ k.timer = IncrementTimer(t)

\* fsm_lights_tick() does what its table says and nothing else.
LEMMA TickCases ==
  ASSUME NEW s \in fsm_lights_state_t, NEW e \in fsm_lights_event_t, NEW t \in fsm_timer_t,
         NEW k \in Tick(transitions, s, e, t)
  PROVE  TickResult(s, e, t, k)
<1> DEFINE hits == Matching(transitions, s, e)
<1>1. IncrementTimer(0) = 1
  BY TimerMaxAssumption DEF IncrementTimer
<1>2. CASE hits = {}
  <2>1. k = [state |-> s, timer |-> IncrementTimer(t)]
    BY <1>2 DEF Tick
  <2>2. \A r \in transitions : r.from = s => r.on # e /\ r.on # ANY
    BY <1>2 DEF Matching
  <2>3. /\ ERROR # s
        /\ OFF = s => "COMMAND_ON" # e
        /\ ON = s => e \notin {"COMMAND_OFF", "ACK_RECEIVED", "ACK_MISSED"}
        /\ ACKNOWLEDGED = s => "COMMAND_OFF" # e
    BY <2>2 DEF transitions
  <2>4. \/ s = OFF /\ e # "COMMAND_ON"
        \/ s = ON /\ e = "COMMAND_ON"
        \/ s = ACKNOWLEDGED /\ e # "COMMAND_OFF"
    BY <2>3 DEF fsm_lights_state_t, fsm_lights_event_t
  <2> QED BY <2>1, <2>4 DEF TickResult
<1>3. CASE hits # {}
  <2>1. PICK r \in hits : k = [state |-> r.to, timer |-> 1]
    BY <1>1, <1>3 DEF Tick
  <2>2. r \in transitions /\ r.from = s /\ (r.on = e \/ r.on = ANY)
    BY <2>1 DEF Matching
  <2> QED BY <2>1, <2>2 DEF TickResult, transitions, ANY, fsm_lights_event_t,
                            OFF, ON, ACKNOWLEDGED, ERROR
<1> QED BY <1>2, <1>3

-----------------------------------------------------------------------------
(***************************************************************************)
(* Types.                                                                  *)
(***************************************************************************)

LEMMA IncrementTimerType == \A t \in fsm_timer_t : IncrementTimer(t) \in fsm_timer_t
BY TimerMaxAssumption DEF IncrementTimer, fsm_timer_t

LEMMA CountType == \A c \in 0 .. Saturation, e \in BOOLEAN : Count(c, e) \in 0 .. Saturation
BY TimerMaxAssumption DEF Count, Saturation

LEMMA EventType == \A l \in Lights : Event(l) \in fsm_lights_event_t
BY DEF Event, fsm_lights_event_t

\* A tick, and what a light stores of it, are of the right types.
LEMMA TickType ==
  ASSUME TypeOK, NEW l \in Lights, NEW k \in Tick(transitions, fsm[l], Event(l), timer[l])
  PROVE  /\ TickResult(fsm[l], Event(l), timer[l], k)
         /\ k.state \in fsm_lights_state_t
         /\ StoredTimer(l, k) \in fsm_timer_t
<1>1. fsm[l] \in fsm_lights_state_t /\ timer[l] \in fsm_timer_t /\ Event(l) \in fsm_lights_event_t
  BY EventType DEF TypeOK
<1>2. TickResult(fsm[l], Event(l), timer[l], k)
  BY <1>1, TickCases
<1>3. k.state \in fsm_lights_state_t /\ k.timer \in fsm_timer_t
  BY <1>1, <1>2, IncrementTimerType, TimerMaxAssumption
     DEF TickResult, fsm_lights_state_t, fsm_timer_t
<1>4. ToTimer(k.state) \in fsm_timer_t
  BY <1>3, TimerMaxAssumption DEF ToTimer, fsm_lights_state_t, fsm_timer_t,
                                  OFF, ON, ACKNOWLEDGED, ERROR
<1> QED BY <1>2, <1>3, <1>4 DEF StoredTimer

\* What compute_<light>() does to its own light, and that it leaves the others alone.
LEMMA CallEffect ==
  ASSUME TypeOK, NEW l \in Lights, Compute(l)
  PROVE  /\ TypeOK'
         /\ \E k \in Tick(transitions, fsm[l], Event(l), timer[l]) :
                  /\ TickResult(fsm[l], Event(l), timer[l], k)
                  /\ fsm'[l] = k.state
                  /\ timer'[l] = StoredTimer(l, k)
                  /\ out'[l] = (k.state \in {ON, ACKNOWLEDGED})
                  /\ indicator'[l] = (k.state = ACKNOWLEDGED)
         /\ in' = in
         /\ acknowledgement'[l] = FALSE
         /\ \A m \in Lights \ {l} :
              /\ fsm'[m] = fsm[m] /\ timer'[m] = timer[m]
              /\ out'[m] = out[m] /\ indicator'[m] = indicator[m]
              /\ acknowledgement'[m] = acknowledgement[m]
<1>1. PICK k \in Tick(transitions, fsm[l], Event(l), timer[l]) :
        /\ fsm' = [fsm EXCEPT ![l] = k.state]
        /\ timer' = [timer EXCEPT ![l] = StoredTimer(l, k)]
        /\ acknowledgement' = [acknowledgement EXCEPT ![l] = FALSE]
        /\ out' = [out EXCEPT ![l] = k.state \in {ON, ACKNOWLEDGED}]
        /\ indicator' = [indicator EXCEPT ![l] = k.state = ACKNOWLEDGED]
        /\ UNCHANGED in
  BY DEF Compute
<1>2. /\ TickResult(fsm[l], Event(l), timer[l], k)
      /\ k.state \in fsm_lights_state_t
      /\ StoredTimer(l, k) \in fsm_timer_t
  BY TickType
<1>3. TypeOK'
  BY <1>1, <1>2 DEF TypeOK
<1>4. /\ fsm'[l] = k.state
      /\ timer'[l] = StoredTimer(l, k)
      /\ out'[l] = (k.state \in {ON, ACKNOWLEDGED})
      /\ indicator'[l] = (k.state = ACKNOWLEDGED)
      /\ acknowledgement'[l] = FALSE
  BY <1>1 DEF TypeOK
<1>5. \A m \in Lights \ {l} : /\ fsm'[m] = fsm[m] /\ timer'[m] = timer[m]
                             /\ out'[m] = out[m] /\ indicator'[m] = indicator[m]
                             /\ acknowledgement'[m] = acknowledgement[m]
  BY <1>1 DEF TypeOK
<1> QED BY <1>1, <1>2, <1>3, <1>4, <1>5

\* The same of the call and what it is counted as.
LEMMA ComputeEffect ==
  ASSUME MonitorTypeOK, NEW l \in Lights, MonitorCompute(l)
  PROVE  /\ TypeOK'
         /\ \E k \in Tick(transitions, fsm[l], Event(l), timer[l]) :
                  /\ TickResult(fsm[l], Event(l), timer[l], k)
                  /\ fsm'[l] = k.state
                  /\ timer'[l] = StoredTimer(l, k)
                  /\ out'[l] = (k.state \in {ON, ACKNOWLEDGED})
                  /\ indicator'[l] = (k.state = ACKNOWLEDGED)
         /\ unconfirmed'[l] = Count(unconfirmed[l], fsm'[l] = ON)
         /\ refused'[l] = Count(refused[l], fsm'[l] = OFF /\ in[l] /\ ~answered[l])
         /\ unanswered'[l] = Count(unanswered[l], in[l] /\ ~answered[l])
         /\ in' = in
         /\ acknowledgement'[l] = FALSE /\ answered'[l] = FALSE
         /\ \A m \in Lights \ {l} :
              /\ fsm'[m] = fsm[m] /\ timer'[m] = timer[m]
              /\ out'[m] = out[m] /\ indicator'[m] = indicator[m]
              /\ unconfirmed'[m] = unconfirmed[m] /\ refused'[m] = refused[m]
              /\ unanswered'[m] = unanswered[m]
              /\ acknowledgement'[m] = acknowledgement[m] /\ answered'[m] = answered[m]
<1>1. TypeOK /\ Compute(l) /\ Counted(l)
  BY DEF MonitorTypeOK, MonitorCompute
<1>2. /\ unconfirmed'[l] = Count(unconfirmed[l], fsm'[l] = ON)
      /\ refused'[l] = Count(refused[l], fsm'[l] = OFF /\ in[l] /\ ~answered[l])
      /\ unanswered'[l] = Count(unanswered[l], in[l] /\ ~answered[l])
      /\ answered'[l] = FALSE
      /\ \A m \in Lights \ {l} : /\ unconfirmed'[m] = unconfirmed[m]
                                 /\ refused'[m] = refused[m]
                                 /\ unanswered'[m] = unanswered[m]
                                 /\ answered'[m] = answered[m]
  BY <1>1 DEF MonitorTypeOK, Counted
<1> QED BY <1>1, <1>2, CallEffect

\* The data dictionary's lights and the counters keep their types: in particular no
\* automaton leaves its four states and no timer its width.
THEOREM LightsTypeCorrect == MonitorSpec => []MonitorTypeOK
<1>1. MonitorInit => MonitorTypeOK
  BY TimerMaxAssumption DEF MonitorInit, Init, MonitorTypeOK, TypeOK, fsm_lights_state_t,
                            fsm_timer_t, Saturation
<1>2. MonitorTypeOK /\ [MonitorNext]_mvars => MonitorTypeOK'
  <2> SUFFICES ASSUME MonitorTypeOK, [MonitorNext]_mvars PROVE MonitorTypeOK'
    OBVIOUS
  <2> USE DEF MonitorTypeOK
  <2>1. CASE Decode_commodos /\ UNCHANGED monitor
    BY <2>1 DEF Decode_commodos, monitor, counters, TypeOK
  <2>2. ASSUME NEW l \in Lights, Decode_bgf(l), Answered(l)
        PROVE  MonitorTypeOK'
    BY <2>2 DEF Decode_bgf, Answered, counters, TypeOK
  <2>3. ASSUME NEW l \in Lights, MonitorCompute(l)
        PROVE  MonitorTypeOK'
    <3>1. TypeOK'
      BY <2>3, ComputeEffect
    <3>2. /\ unconfirmed' \in [Lights -> 0 .. Saturation]
          /\ refused' \in [Lights -> 0 .. Saturation]
          /\ unanswered' \in [Lights -> 0 .. Saturation]
          /\ answered' \in [Lights -> BOOLEAN]
      <4> DEFINE u == fsm'[l] = ON
                 r == fsm'[l] = OFF /\ in[l] /\ ~answered[l]
                 a == in[l] /\ ~answered[l]
      <4>1. u \in BOOLEAN /\ r \in BOOLEAN /\ a \in BOOLEAN
        OBVIOUS
      <4>2. /\ Count(unconfirmed[l], u) \in 0 .. Saturation
            /\ Count(refused[l], r) \in 0 .. Saturation
            /\ Count(unanswered[l], a) \in 0 .. Saturation
        <5> HIDE DEF u, r, a
        <5> QED BY <4>1, CountType
      <4>3. /\ unconfirmed' = [unconfirmed EXCEPT ![l] = Count(@, u)]
            /\ refused' = [refused EXCEPT ![l] = Count(@, r)]
            /\ unanswered' = [unanswered EXCEPT ![l] = Count(@, a)]
            /\ answered' = [answered EXCEPT ![l] = FALSE]
        BY <2>3 DEF MonitorCompute, Counted
      <4> HIDE DEF u, r, a
      <4> QED BY <4>2, <4>3
    <3> QED BY <3>1, <3>2
  <2>4. CASE UNCHANGED mvars
    BY <2>4 DEF mvars, vars, monitor, counters, TypeOK
  <2> QED BY <2>1, <2>2, <2>3, <2>4 DEF MonitorNext
<1> QED BY <1>1, <1>2, PTL DEF MonitorSpec

-----------------------------------------------------------------------------
(***************************************************************************)
(* The invariant.                                                          *)
(***************************************************************************)

\* compute_<light>() re-establishes the invariant of its light.  In ON an ACK_MISSED
\* follows as soon as the timer passes the delay; in OFF each refused call takes the
\* timer one step closer to its wrap.
LEMMA ComputeKeepsLightInv ==
  ASSUME MonitorTypeOK, NEW l \in Lights, LightInv(l), MonitorCompute(l)
  PROVE  LightInv(l)'
<1>1. PICK k \in Tick(transitions, fsm[l], Event(l), timer[l]) :
               /\ TickResult(fsm[l], Event(l), timer[l], k)
               /\ fsm'[l] = k.state
               /\ timer'[l] = StoredTimer(l, k)
               /\ out'[l] = (k.state \in {ON, ACKNOWLEDGED})
               /\ indicator'[l] = (k.state = ACKNOWLEDGED)
  BY ComputeEffect
<1>2. /\ unconfirmed'[l] = Count(unconfirmed[l], fsm'[l] = ON)
      /\ refused'[l] = Count(refused[l], fsm'[l] = OFF /\ in[l] /\ ~answered[l])
      /\ unanswered'[l] = Count(unanswered[l], in[l] /\ ~answered[l])
      /\ acknowledgement'[l] = answered'[l]
  BY ComputeEffect
<1>3. /\ fsm[l] \in fsm_lights_state_t /\ timer[l] \in 0 .. TIMER_MAX
      /\ in[l] \in BOOLEAN
      /\ acknowledgement[l] \in BOOLEAN /\ acknowledgement[l] = answered[l]
      /\ unconfirmed[l] \in 0 .. Saturation /\ refused[l] \in 0 .. Saturation
      /\ unanswered[l] \in 0 .. Saturation
  BY DEF MonitorTypeOK, TypeOK, fsm_timer_t, LightInv
<1>4. out'[l] <=> fsm'[l] \in {ON, ACKNOWLEDGED}
  BY <1>1
<1>5. indicator'[l] <=> fsm'[l] = ACKNOWLEDGED
  BY <1>1
<1> USE TimerMaxAssumption, LightsDelayAssumption
    DEF OFF, ON, ACKNOWLEDGED, ERROR
<1>6. ASSUME l # "sidelights"
      PROVE  /\ IF fsm'[l] = ON THEN /\ timer'[l] = unconfirmed'[l]
                                     /\ timer'[l] \in 1 .. ACKNOWLEDGEMENT_DELAY + 1
                                ELSE unconfirmed'[l] = 0
             /\ refused'[l] > 0 =>
                  /\ fsm'[l] = OFF
                  /\ \/ timer'[l] > ACKNOWLEDGEMENT_DELAY + refused'[l]
                     \/ timer'[l] = 0 /\ refused'[l] <= TIMER_MAX - ACKNOWLEDGEMENT_DELAY
             /\ fsm'[l] = OFF => unanswered'[l] = refused'[l]
             /\ fsm'[l] = ON =>
                  unanswered'[l] <= TIMER_MAX - ACKNOWLEDGEMENT_DELAY + unconfirmed'[l]
  <2>1. timer'[l] = k.timer
    BY <1>1, <1>6 DEF StoredTimer
  <2>2. CASE fsm'[l] = ON
    BY <1>1, <1>2, <1>3, <1>6, <2>1, <2>2
       DEF LightInv, TickResult, Event, IncrementTimer, Count, Saturation, fsm_lights_state_t
  <2>3. CASE fsm'[l] = OFF
    BY <1>1, <1>2, <1>3, <1>6, <2>1, <2>3
       DEF LightInv, TickResult, Event, IncrementTimer, Count, Saturation, fsm_lights_state_t
  <2>4. CASE fsm'[l] \notin {ON, OFF}
    BY <1>2, <2>4 DEF Count
  <2> QED BY <2>2, <2>3, <2>4
<1>7. ASSUME l = "sidelights"
      PROVE  fsm'[l] # ERROR /\ timer'[l] = fsm'[l] /\ refused'[l] = 0
  <2>1. timer[l] = fsm[l] /\ fsm[l] \in {OFF, ON, ACKNOWLEDGED} /\ refused[l] = 0
    BY <1>3, <1>7 DEF LightInv, fsm_lights_state_t
  <2>2. fsm[l] # ACKNOWLEDGED => Event(l) # "ACK_MISSED"
    BY <2>1 DEF Event
  <2>3. fsm'[l] # ERROR /\ fsm'[l] \in fsm_lights_state_t
    BY <1>1, <2>1, <2>2 DEF TickResult, fsm_lights_state_t
  <2>4. timer'[l] = fsm'[l]
    BY <1>1, <1>7, <2>3 DEF StoredTimer, ToTimer, fsm_lights_state_t
  <2>5. fsm'[l] = OFF => ~in[l] \/ acknowledgement[l]
    BY <1>1, <1>3, <2>1, <2>2 DEF TickResult, Event
  <2> QED BY <1>2, <1>3, <2>3, <2>4, <2>5 DEF Count
<1> QED BY <1>2, <1>4, <1>5, <1>6, <1>7 DEF LightInv

\* The invariant of the lights holds in every reachable state.
THEOREM LightsInvariant == MonitorSpec => []LightsInv
<1>1. MonitorInit /\ MonitorTypeOK => LightsInv
  BY DEF MonitorInit, Init, LightsInv, LightInv, OFF, ON, ACKNOWLEDGED, ERROR
<1>2. MonitorTypeOK' /\ LightsInv /\ [MonitorNext]_mvars => LightsInv'
  <2> SUFFICES ASSUME MonitorTypeOK', LightsInv, [MonitorNext]_mvars,
                      NEW m \in Lights
               PROVE  LightInv(m)'
    BY DEF LightsInv
  <2>0. MonitorTypeOK /\ LightInv(m)
    BY DEF LightsInv
  <2>1. CASE Decode_commodos /\ UNCHANGED monitor
    BY <2>0, <2>1 DEF Decode_commodos, monitor, counters, LightInv
  <2>2. ASSUME NEW l \in Lights, Decode_bgf(l), Answered(l)
        PROVE  LightInv(m)'
    BY <2>0, <2>2 DEF Decode_bgf, Answered, counters, LightInv, MonitorTypeOK, TypeOK
  <2>3. ASSUME NEW l \in Lights, MonitorCompute(l)
        PROVE  LightInv(m)'
    <3>1. CASE m = l
      BY <2>0, <2>3, <3>1, ComputeKeepsLightInv
    <3>2. CASE m # l
      <4>1. /\ fsm'[m] = fsm[m] /\ timer'[m] = timer[m]
            /\ out'[m] = out[m] /\ indicator'[m] = indicator[m]
            /\ unconfirmed'[m] = unconfirmed[m] /\ refused'[m] = refused[m]
            /\ unanswered'[m] = unanswered[m]
            /\ acknowledgement'[m] = acknowledgement[m] /\ answered'[m] = answered[m]
        BY <2>0, <2>3, <3>2, ComputeEffect
      <4> QED BY <2>0, <4>1 DEF LightInv
    <3> QED BY <3>1, <3>2
  <2>4. CASE UNCHANGED mvars
    BY <2>0, <2>4 DEF mvars, vars, monitor, counters, LightInv
  <2> QED BY <2>1, <2>2, <2>3, <2>4 DEF MonitorNext
<1> QED BY <1>1, <1>2, LightsTypeCorrect, PTL DEF MonitorSpec

\* Every fault of a light with a timer is detected within the delay plus one call.
THEOREM LightsFaultDetected == MonitorSpec => []FaultDetectedInTime
<1>1. LightsInv => FaultDetectedInTime
  BY LightsDelayAssumption DEF LightsInv, LightInv, FaultDetectedInTime, TimedLights
<1> QED BY <1>1, LightsInvariant, PTL

\* No command is refused for more calls than the timer has values above the delay.
THEOREM LightsRefusalBounded == MonitorSpec => []RefusalBounded
<1>1. LightsInv => RefusalBounded
  <2> SUFFICES ASSUME LightsInv, NEW l \in TimedLights
               PROVE  refused[l] <= TIMER_MAX - ACKNOWLEDGEMENT_DELAY
    BY DEF RefusalBounded
  <2>1. refused[l] \in Nat /\ timer[l] \in 0 .. TIMER_MAX
    BY TimerMaxAssumption
       DEF LightsInv, MonitorTypeOK, TypeOK, TimedLights, Saturation, fsm_timer_t
  <2>2. refused[l] > 0 =>
          \/ timer[l] > ACKNOWLEDGEMENT_DELAY + refused[l]
          \/ refused[l] <= TIMER_MAX - ACKNOWLEDGEMENT_DELAY
    BY DEF LightsInv, LightInv, TimedLights
  <2> QED BY <2>1, <2>2, TimerMaxAssumption, LightsDelayAssumption
<1> QED BY <1>1, LightsInvariant, PTL

\* A commanded light that no answer comes for is settled within TIMER_MAX + 2 calls: the
\* timer wraps in OFF if it must, and then passes the delay in ON.
THEOREM LightsSettled == MonitorSpec => []SettledInTime
<1>1. LightsInv => SettledInTime
  <2> SUFFICES ASSUME LightsInv, NEW l \in TimedLights, unanswered[l] > TIMER_MAX + 1
               PROVE  fsm[l] \in {ACKNOWLEDGED, ERROR}
    BY DEF SettledInTime
  <2>1. /\ l \in Lights /\ l # "sidelights" /\ LightInv(l)
        /\ fsm[l] \in fsm_lights_state_t /\ timer[l] \in 0 .. TIMER_MAX
        /\ refused[l] \in Nat /\ unanswered[l] \in Nat
    BY TimerMaxAssumption
       DEF LightsInv, MonitorTypeOK, TypeOK, TimedLights, Saturation, fsm_timer_t
  <2>2. fsm[l] # OFF
    BY <2>1, TimerMaxAssumption, LightsDelayAssumption DEF LightInv
  <2>3. fsm[l] # ON
    BY <2>1, TimerMaxAssumption, LightsDelayAssumption DEF LightInv
  <2> QED BY <2>1, <2>2, <2>3 DEF fsm_lights_state_t
<1> QED BY <1>1, LightsInvariant, PTL

\* The sidelights obey every command at once.
THEOREM SidelightsObey == MonitorSpec => []SidelightsNeverRefused
<1>1. LightsInv => SidelightsNeverRefused
  BY DEF LightsInv, LightInv, SidelightsNeverRefused
<1> QED BY <1>1, LightsInvariant, PTL

-----------------------------------------------------------------------------
(***************************************************************************)
(* Action properties.                                                      *)
(***************************************************************************)

\* Outputs and states of all lights change by compute_<light>() alone.
LEMMA OnlyComputeChangesOutputs ==
  ASSUME [MonitorNext]_mvars
  PROVE  \/ UNCHANGED <<fsm, timer, out, indicator>>
         \/ \E l \in Lights : MonitorCompute(l)
BY DEF MonitorNext, Decode_commodos, Decode_bgf, mvars, vars

\* The dashboard shows no light that was dark before or that no answer came for.
THEOREM LightsIndicatorNeedsAcknowledgement == MonitorSpec => IndicatorNeedsAcknowledgement
<1>1. MonitorTypeOK /\ LightsInv /\ [MonitorNext]_mvars
        => [\A l \in Lights : indicator'[l] /\ ~indicator[l]
              => out[l] /\ in[l] /\ answered[l]]_mvars
  <2> SUFFICES ASSUME MonitorTypeOK, LightsInv, [MonitorNext]_mvars,
                      NEW m \in Lights, indicator'[m], ~indicator[m]
               PROVE  out[m] /\ in[m] /\ answered[m]
    OBVIOUS
  <2>1. PICK l \in Lights : MonitorCompute(l)
    BY OnlyComputeChangesOutputs
  <2>2. m = l
    BY <2>1, ComputeEffect
  <2>3. fsm[m] # ACKNOWLEDGED /\ (out[m] <=> fsm[m] \in {ON, ACKNOWLEDGED})
        /\ acknowledgement[m] = answered[m]
    BY DEF LightsInv, LightInv
  <2>4. PICK k \in Tick(transitions, fsm[m], Event(m), timer[m]) :
          /\ TickResult(fsm[m], Event(m), timer[m], k)
          /\ indicator'[m] = (k.state = ACKNOWLEDGED)
    BY <2>1, <2>2, ComputeEffect
  <2>5. k.state = ACKNOWLEDGED
    BY <2>4
  <2>6. fsm[m] = ON /\ Event(m) = "ACK_RECEIVED"
    BY <2>3, <2>4, <2>5 DEF TickResult, OFF, ON, ACKNOWLEDGED, ERROR
  <2> QED BY <2>3, <2>6 DEF Event
<1> QED BY <1>1, LightsTypeCorrect, LightsInvariant, PTL
        DEF MonitorSpec, IndicatorNeedsAcknowledgement

\* A commanded light goes dark by a detected fault only.
THEOREM LightsDarkOnlyByFault == MonitorSpec => DarkOnlyByFault
<1>1. MonitorTypeOK /\ LightsInv /\ [MonitorNext]_mvars
        => [\A l \in Lights : out[l] /\ ~out'[l] /\ in[l]
              => /\ fsm'[l] = ERROR
                 /\ ~indicator[l]
                 /\ timer[l] > ACKNOWLEDGEMENT_DELAY]_vars
  <2> SUFFICES ASSUME MonitorTypeOK, LightsInv, [MonitorNext]_mvars,
                      NEW m \in Lights, out[m], ~out'[m], in[m]
               PROVE  /\ fsm'[m] = ERROR
                      /\ ~indicator[m]
                      /\ timer[m] > ACKNOWLEDGEMENT_DELAY
    OBVIOUS
  <2>1. PICK l \in Lights : MonitorCompute(l)
    BY OnlyComputeChangesOutputs
  <2>2. m = l
    BY <2>1, ComputeEffect
  <2>3. fsm[m] \in {ON, ACKNOWLEDGED} /\ (indicator[m] <=> fsm[m] = ACKNOWLEDGED)
    BY DEF LightsInv, LightInv
  <2>4. PICK k \in Tick(transitions, fsm[m], Event(m), timer[m]) :
          /\ TickResult(fsm[m], Event(m), timer[m], k)
          /\ fsm'[m] = k.state
          /\ out'[m] = (k.state \in {ON, ACKNOWLEDGED})
    BY <2>1, <2>2, ComputeEffect
  <2>5. Event(m) # "COMMAND_OFF"
    BY DEF Event
  <2>6. fsm[m] = ON /\ Event(m) = "ACK_MISSED" /\ fsm'[m] = ERROR
    BY <2>3, <2>4, <2>5 DEF TickResult, OFF, ON, ACKNOWLEDGED, ERROR
  <2>7. timer[m] > ACKNOWLEDGEMENT_DELAY
    BY <2>6 DEF Event
  <2> QED BY <2>3, <2>6, <2>7 DEF ON, ACKNOWLEDGED
<1> QED BY <1>1, LightsTypeCorrect, LightsInvariant, PTL DEF MonitorSpec, DarkOnlyByFault

-----------------------------------------------------------------------------
(***************************************************************************)
(* Refinement.                                                             *)
(***************************************************************************)

LEMMA PhaseValues == /\ Phase(OFF) = "dark" /\ Phase(ON) = "lit"
                     /\ Phase(ACKNOWLEDGED) = "confirmed" /\ Phase(ERROR) = "failed"
BY DEF Phase, OFF, ON, ACKNOWLEDGED, ERROR

\* One call of compute_<light>() for a light with a timer, as its supervision sees it:
\* it is lit, waits, is confirmed, is given up after exactly the delay, or is put out.
LEMMA SupervisedStep ==
  ASSUME TypeOK, NEW l \in TimedLights, Compute(l),
         fsm[l] = ON => timer[l] \in 1 .. ACKNOWLEDGEMENT_DELAY + 1
  PROVE  \/ fsm[l] = OFF /\ in[l] /\ fsm'[l] = ON /\ timer'[l] = 1
         \/ /\ fsm[l] = ON /\ in[l] /\ timer[l] <= ACKNOWLEDGEMENT_DELAY
            /\ fsm'[l] = ON /\ timer'[l] = timer[l] + 1
         \/ fsm[l] = ON /\ in[l] /\ fsm'[l] = ACKNOWLEDGED
         \/ fsm[l] = ON /\ in[l] /\ timer[l] = ACKNOWLEDGEMENT_DELAY + 1 /\ fsm'[l] = ERROR
         \/ fsm[l] \in {ON, ACKNOWLEDGED} /\ ~in[l] /\ fsm'[l] = OFF
         \/ fsm[l] # ON /\ fsm'[l] = fsm[l]
<1>1. l \in Lights /\ l # "sidelights"
  BY DEF TimedLights
<1>2. PICK k \in Tick(transitions, fsm[l], Event(l), timer[l]) :
        /\ TickResult(fsm[l], Event(l), timer[l], k)
        /\ fsm'[l] = k.state
        /\ timer'[l] = k.timer
  BY <1>1, CallEffect DEF StoredTimer
<1>3. timer[l] \in 0 .. TIMER_MAX
  BY <1>1 DEF TypeOK, fsm_timer_t
<1>4. /\ Event(l) = "COMMAND_OFF" <=> ~in[l]
      /\ Event(l) = "ACK_MISSED" => timer[l] > ACKNOWLEDGEMENT_DELAY
      /\ Event(l) = "COMMAND_ON" => ~(timer[l] > ACKNOWLEDGEMENT_DELAY)
  BY DEF Event
<1>5. IncrementTimer(timer[l]) = IF timer[l] = TIMER_MAX THEN 0 ELSE timer[l] + 1
  BY DEF IncrementTimer
<1> QED BY <1>2, <1>3, <1>4, <1>5, LightsDelayAssumption, TimerMaxAssumption
        DEF TickResult, OFF, ON, ACKNOWLEDGED, ERROR

\* One call of compute_<light>() seen as a change of its lamp.
LEMMA LampBecomes ==
  ASSUME MonitorTypeOK, NEW l \in TimedLights, MonitorCompute(l),
         NEW p, p = Phase(fsm'[l]), NEW w, w = IF fsm'[l] = ON THEN timer'[l] ELSE 0
  PROVE  Lamp!Become(l, p, w)
<1>1. /\ in' = in
      /\ \A m \in Lights \ {l} : fsm'[m] = fsm[m] /\ timer'[m] = timer[m]
  BY ComputeEffect DEF TimedLights
<1>2. [m \in TimedLights |-> Phase(fsm'[m])]
        = [[m \in TimedLights |-> Phase(fsm[m])] EXCEPT ![l] = Phase(fsm'[l])]
  BY <1>1 DEF TimedLights
<1>3. [m \in TimedLights |-> IF fsm'[m] = ON THEN timer'[m] ELSE 0]
        = [[m \in TimedLights |-> IF fsm[m] = ON THEN timer[m] ELSE 0]
             EXCEPT ![l] = IF fsm'[l] = ON THEN timer'[l] ELSE 0]
  BY <1>1 DEF TimedLights
<1> QED BY <1>1, <1>2, <1>3 DEF Lamp!Become

\* Calls for other lights change no lamp, nor do those that leave its phase out of ON.
LEMMA LampsUnchanged ==
  ASSUME in' = in,
         \A m \in TimedLights : fsm'[m] = fsm[m] /\ (fsm[m] = ON => timer'[m] = timer[m])
  PROVE  UNCHANGED Lamp!vars
<1>1. [m \in TimedLights |-> Phase(fsm'[m])] = [m \in TimedLights |-> Phase(fsm[m])]
  OBVIOUS
<1>2. [m \in TimedLights |-> IF fsm'[m] = ON THEN timer'[m] ELSE 0]
        = [m \in TimedLights |-> IF fsm[m] = ON THEN timer[m] ELSE 0]
  OBVIOUS
<1> QED BY <1>1, <1>2 DEF Lamp!vars, Phase

\* The lights with a timer implement the supervised lamps of SupervisedLamp.
THEOREM LightsImplementSupervisedLamp == MonitorSpec => ImplementsSupervisedLamp
<1>1. MonitorInit => Lamp!Init
  BY DEF MonitorInit, Init, Lamp!Init, Phase, TimedLights, OFF, ON, ACKNOWLEDGED, ERROR
<1>2. MonitorTypeOK /\ LightsInv /\ [MonitorNext]_mvars => [Lamp!Next]_(Lamp!vars)
  <2> SUFFICES ASSUME MonitorTypeOK, LightsInv, [MonitorNext]_mvars
               PROVE  [Lamp!Next]_(Lamp!vars)
    OBVIOUS
  <2>1. CASE Decode_commodos
    <3>1. [l \in TimedLights |-> in'[l]] \in [TimedLights -> BOOLEAN]
      BY <2>1 DEF Decode_commodos, TimedLights
    <3>2. fsm' = fsm /\ timer' = timer
      BY <2>1 DEF Decode_commodos
    <3>3. Lamp!Request
      BY <3>1, <3>2 DEF Lamp!Request
    <3> QED BY <3>3 DEF Lamp!Next
  <2>2. ASSUME UNCHANGED <<fsm, timer, in>>
        PROVE  [Lamp!Next]_(Lamp!vars)
    BY <2>2, LampsUnchanged
  <2>3. ASSUME NEW l \in Lights, Decode_bgf(l)
        PROVE  [Lamp!Next]_(Lamp!vars)
    BY <2>2, <2>3 DEF Decode_bgf
  <2>4. ASSUME NEW l \in Lights, MonitorCompute(l)
        PROVE  [Lamp!Next]_(Lamp!vars)
    <3>1. /\ in' = in
          /\ \A m \in Lights \ {l} : fsm'[m] = fsm[m] /\ timer'[m] = timer[m]
      BY <2>4, ComputeEffect
    <3> DEFINE still == l = "sidelights" \/ (fsm[l] # ON /\ fsm'[l] = fsm[l])
    <3>2. CASE still
      BY <3>1, <3>2, LampsUnchanged DEF TimedLights
    <3>3. CASE ~still
      <4>1. l \in TimedLights
        BY <3>3 DEF TimedLights
      <4>2. \/ fsm[l] = OFF /\ in[l] /\ fsm'[l] = ON /\ timer'[l] = 1
            \/ /\ fsm[l] = ON /\ in[l] /\ timer[l] <= ACKNOWLEDGEMENT_DELAY
               /\ fsm'[l] = ON /\ timer'[l] = timer[l] + 1
            \/ fsm[l] = ON /\ in[l] /\ fsm'[l] = ACKNOWLEDGED
            \/ fsm[l] = ON /\ in[l] /\ timer[l] = ACKNOWLEDGEMENT_DELAY + 1 /\ fsm'[l] = ERROR
            \/ fsm[l] \in {ON, ACKNOWLEDGED} /\ ~in[l] /\ fsm'[l] = OFF
        BY <2>4, <3>3, <4>1, SupervisedStep
           DEF LightsInv, LightInv, MonitorTypeOK, MonitorCompute, TimedLights
      <4> DEFINE phases    == [m \in TimedLights |-> Phase(fsm[m])]
                 requests  == [m \in TimedLights |-> in[m]]
                 watches   == [m \in TimedLights |-> IF fsm[m] = ON THEN timer[m] ELSE 0]
      <4>3. phases[l] = Phase(fsm[l]) /\ requests[l] = in[l]
            /\ watches[l] = IF fsm[l] = ON THEN timer[l] ELSE 0
        BY <4>1
      <4>4. \A p, w : p = Phase(fsm'[l]) /\ w = (IF fsm'[l] = ON THEN timer'[l] ELSE 0)
                        => Lamp!Become(l, p, w)
        BY <2>4, <4>1, LampBecomes
      <4>5. OFF # ON /\ ON # ACKNOWLEDGED /\ ON # ERROR
        BY DEF OFF, ON, ACKNOWLEDGED, ERROR
      <4>6. CASE fsm[l] = OFF /\ in[l] /\ fsm'[l] = ON /\ timer'[l] = 1
        <5>1. Lamp!Become(l, "lit", 1)
          BY <4>4, <4>6, PhaseValues
        <5>2. Lamp!Light(l)
          BY <4>3, <4>6, <5>1, PhaseValues DEF Lamp!Light
        <5> QED BY <4>1, <5>2 DEF Lamp!Next
      <4>7. CASE /\ fsm[l] = ON /\ in[l] /\ timer[l] <= ACKNOWLEDGEMENT_DELAY
                 /\ fsm'[l] = ON /\ timer'[l] = timer[l] + 1
        <5>1. requests[l] /\ phases[l] = "lit" /\ watches[l] = timer[l]
          BY <4>3, <4>7, PhaseValues
        <5>2. watches[l] <= ACKNOWLEDGEMENT_DELAY /\ timer'[l] = watches[l] + 1
          BY <4>7, <5>1
        <5>3. \A w : w = timer'[l] => Lamp!Become(l, "lit", w)
          BY <4>4, <4>7, PhaseValues
        <5>4. /\ phases' = [phases EXCEPT ![l] = "lit"]
              /\ watches' = [watches EXCEPT ![l] = timer'[l]]
              /\ UNCHANGED requests
          BY <5>3 DEF Lamp!Become
        <5>5. Lamp!Wait(l)
          BY <5>1, <5>2, <5>4 DEF Lamp!Wait, Lamp!Become
        <5> QED BY <4>1, <5>5 DEF Lamp!Next
      <4>8. CASE fsm[l] = ON /\ in[l] /\ fsm'[l] = ACKNOWLEDGED
        <5>1. Lamp!Become(l, "confirmed", 0)
          BY <4>4, <4>5, <4>8, PhaseValues
        <5>2. Lamp!Confirm(l)
          BY <4>3, <4>8, <5>1, PhaseValues DEF Lamp!Confirm
        <5> QED BY <4>1, <5>2 DEF Lamp!Next
      <4>9. CASE fsm[l] = ON /\ in[l] /\ timer[l] = ACKNOWLEDGEMENT_DELAY + 1 /\ fsm'[l] = ERROR
        <5>1. Lamp!Become(l, "failed", 0)
          BY <4>4, <4>5, <4>9, PhaseValues
        <5>2. Lamp!Fail(l)
          BY <4>3, <4>9, <5>1, PhaseValues DEF Lamp!Fail
        <5> QED BY <4>1, <5>2 DEF Lamp!Next
      <4>10. CASE fsm[l] \in {ON, ACKNOWLEDGED} /\ ~in[l] /\ fsm'[l] = OFF
        <5>1. Lamp!Become(l, "dark", 0)
          BY <4>4, <4>5, <4>10, PhaseValues
        <5>2. Lamp!Douse(l)
          BY <4>3, <4>10, <5>1, PhaseValues DEF Lamp!Douse
        <5> QED BY <4>1, <5>2 DEF Lamp!Next
      <4> QED BY <4>2, <4>6, <4>7, <4>8, <4>9, <4>10
    <3> HIDE DEF still
    <3> QED BY <3>2, <3>3
  <2>5. CASE UNCHANGED mvars
    BY <2>2, <2>5 DEF mvars, vars
  <2> QED BY <2>1, <2>3, <2>4, <2>5 DEF MonitorNext
<1> QED BY <1>1, <1>2, LightsTypeCorrect, LightsInvariant, PTL
        DEF MonitorSpec, ImplementsSupervisedLamp, Lamp!Spec
=============================================================================
