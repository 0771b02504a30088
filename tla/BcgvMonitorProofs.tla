------------------------- MODULE BcgvMonitorProofs --------------------------
(***************************************************************************)
(* What is proved of the automata, for calls of theirs, carried over to    *)
(* the body controller, where a cycle of the loop makes one call of each.  *)
(***************************************************************************)
EXTENDS BcgvMonitor, BcgvProofs

LP == INSTANCE LightsProofs WITH
  fsm <- lights_fsm, timer <- lights_timer, in <- lights_in,
  acknowledgement <- lights_ack, out <- lights_out, indicator <- lights_ind,
  answered <- lights_answered, unconfirmed <- lights_unconfirmed,
  refused <- lights_refused, unanswered <- lights_unanswered

BP == INSTANCE BlinkersProofs WITH
  fsm <- blinkers_fsm, timer <- blinkers_timer, in <- blinkers_in,
  acknowledgement <- blinkers_ack, out <- blinkers_out,
  answered <- blinkers_answered, unconfirmed <- blinkers_unconfirmed,
  refused <- blinkers_refused, unanswered <- blinkers_unanswered

WP == INSTANCE WipersProofs WITH fsm <- wipers_fsm, timer <- wipers_timer

-----------------------------------------------------------------------------
(***************************************************************************)
(* The counted loop runs the counted automata.                             *)
(***************************************************************************)

\* What the automata's modules assume holds of the loop's constants.
LEMMA ComponentAssumptions ==
  /\ TIMER_MAX \in Nat /\ TIMER_MAX >= 4
  /\ Lights \subseteq {"sidelights", "headlights", "redlights"}
  /\ Blinkers \subseteq {"left_blinker", "right_blinker"}
  /\ /\ ACKNOWLEDGEMENT_DELAY \in Nat /\ 0 < ACKNOWLEDGEMENT_DELAY
     /\ ACKNOWLEDGEMENT_DELAY < TIMER_MAX
  /\ /\ ACKNOWLEDGEMENT_DELAY \in Nat /\ 0 < ACKNOWLEDGEMENT_DELAY
     /\ ACKNOWLEDGEMENT_DELAY < TIMER_MAX
     /\ BLINKING_DELAY \in Nat /\ ACKNOWLEDGEMENT_DELAY <= BLINKING_DELAY
  /\ WAITING_DELAY \in Nat /\ WAITING_DELAY < TIMER_MAX
BY TimerMaxAssumption, DelaysAssumption DEF Lights, Blinkers

\* The counted loop starts with the counted automata in their initial states.
LEMMA InitMonitors == MonitorInit => LP!MonitorInit /\ BP!MonitorInit /\ WP!MonitorInit
<1> SUFFICES ASSUME MonitorInit PROVE LP!MonitorInit /\ BP!MonitorInit /\ WP!MonitorInit
  OBVIOUS
<1>1. LP!MonitorInit
  BY DEF MonitorInit, LM!MonitorInit, LM!Init, LM!OFF, LP!MonitorInit, LP!Init, LP!OFF
<1>2. BP!MonitorInit
  BY DEF MonitorInit, BM!MonitorInit, BM!Init, BM!OFF, BP!MonitorInit, BP!Init, BP!OFF
<1>3. WP!MonitorInit
  BY DEF MonitorInit, WM!MonitorInit, WM!Init, WM!OFF, WP!MonitorInit, WP!Init, WP!OFF
<1> QED BY <1>1, <1>2, <1>3

\* compute_<light>() in the loop is the call of the light's own module.
LEMMA SameLightCall == ASSUME NEW l \in Lights, L!Compute(l) PROVE LP!Compute(l)
  BY DEF L!Compute, L!Tick, L!Matching, L!transitions, L!Event, L!StoredTimer, L!ToTimer,
         L!IncrementTimer, L!ANY, L!OFF, L!ON, L!ACKNOWLEDGED, L!ERROR,
         LP!Compute, LP!Tick, LP!Matching, LP!transitions, LP!Event, LP!StoredTimer, LP!ToTimer,
         LP!IncrementTimer, LP!ANY, LP!OFF, LP!ON, LP!ACKNOWLEDGED, LP!ERROR

\* So it is with its count.
LEMMA SameLight ==
  ASSUME NEW l \in Lights, L!Compute(l), LM!Counted(l)
  PROVE  LP!MonitorCompute(l)
<1>1. LP!Compute(l)
  BY SameLightCall
<1>2. LP!Counted(l)
  BY DEF LM!Counted, LM!Count, LM!Saturation, LM!OFF, LM!ON,
         LP!Counted, LP!Count, LP!Saturation, LP!OFF, LP!ON
<1> QED BY <1>1, <1>2 DEF LP!MonitorCompute

\* The same of compute_<blinker>().
LEMMA SameBlinkerCall == ASSUME NEW b \in Blinkers, B!Compute(b) PROVE BP!Compute(b)
  BY DEF B!Compute, B!Tick, B!Matching, B!transitions, B!Event, B!Commanded, B!WarningsShown,
         B!IncrementTimer, B!ANY, B!Shining, B!OFF, B!ACTIVE_ON, B!ACTIVE_OFF,
         B!ACTIVE_ON_ACKNOWLEDGED, B!ACTIVE_OFF_ACKNOWLEDGED, B!ERROR,
         BP!Compute, BP!Tick, BP!Matching, BP!transitions, BP!Event, BP!Commanded,
         BP!WarningsShown, BP!IncrementTimer, BP!ANY, BP!Shining, BP!OFF, BP!ACTIVE_ON,
         BP!ACTIVE_OFF, BP!ACTIVE_ON_ACKNOWLEDGED, BP!ACTIVE_OFF_ACKNOWLEDGED, BP!ERROR

\* So it is with its count.
LEMMA SameBlinker ==
  ASSUME NEW b \in Blinkers, B!Compute(b), BM!Counted(b)
  PROVE  BP!MonitorCompute(b)
<1>1. BP!Compute(b)
  BY SameBlinkerCall
<1>2. BP!Counted(b)
  BY DEF BM!Counted, BM!Commanded, BM!Count, BM!Saturation, BM!OFF, BM!ACTIVE_ON,
         BP!Counted, BP!Commanded, BP!Count, BP!Saturation, BP!OFF, BP!ACTIVE_ON
<1> QED BY <1>1, <1>2 DEF BP!MonitorCompute

\* The same of compute_wipers().
LEMMA SameWipers ==
  ASSUME W!Compute_wipers, WM!Counted
  PROVE  WP!MonitorCompute
<1>1. WP!Compute_wipers
  BY DEF W!Compute_wipers, W!Tick, W!Matching, W!transitions, W!Event, W!IncrementTimer, W!ANY,
         W!OFF, W!ON, W!WASH, W!WAIT,
         WP!Compute_wipers, WP!Tick, WP!Matching, WP!transitions, WP!Event, WP!IncrementTimer,
         WP!ANY, WP!OFF, WP!ON, WP!WASH, WP!WAIT
<1>2. WP!Counted
  BY DEF WM!Counted, WM!Count, WM!Saturation, WM!WAIT, WP!Counted, WP!Count, WP!Saturation, WP!WAIT
<1> QED BY <1>1, <1>2 DEF WP!MonitorCompute

\* The variables of an automaton and its counters, as its own module lists them.
LEMMA AutomatonUnchanged ==
  /\ UNCHANGED <<lightsVars, lightsMonitor>> => UNCHANGED LP!mvars
  /\ UNCHANGED <<blinkersVars, blinkersMonitor>> => UNCHANGED BP!mvars
  /\ UNCHANGED <<wipersVars, wipersMonitor>> => UNCHANGED WP!mvars
<1>1. UNCHANGED <<lightsVars, lightsMonitor>> => UNCHANGED LP!mvars
  BY DEF lightsVars, lightsMonitor, LP!mvars, LP!vars, LP!monitor, LP!counters
<1>2. UNCHANGED <<blinkersVars, blinkersMonitor>> => UNCHANGED BP!mvars
  BY DEF blinkersVars, blinkersMonitor, BP!mvars, BP!vars, BP!monitor, BP!counters
<1>3. UNCHANGED <<wipersVars, wipersMonitor>> => UNCHANGED WP!mvars
  BY DEF wipersVars, wipersMonitor, WP!mvars, WP!vars, WP!monitor
<1> QED BY <1>1, <1>2, <1>3

\* At each pc, what a step of the loop does to the automata.
LEMMA StepByPc ==
  ASSUME Next
  PROVE  /\ pc \in Lights => L!Compute(pc) /\ UNCHANGED <<blinkersVars, wipersVars>>
         /\ pc \in Blinkers => B!Compute(pc) /\ UNCHANGED <<lightsVars, wipersVars>>
         /\ pc = "wipers" => W!Compute_wipers /\ UNCHANGED <<lightsVars, blinkersVars>>
         /\ pc = "decode" => DecodeFrame \/ UNCHANGED <<lightsVars, blinkersVars, wipersVars>>
         /\ pc \notin Devices \cup {"wipers", "decode"}
              => UNCHANGED <<lightsVars, blinkersVars, wipersVars>>
<1> USE DEF Devices, Lights, Blinkers
<1>1. CASE Open \/ ReadUdp \/ ReadLns \/ DriverFails
  BY <1>1 DEF Open, ReadUdp, ReadLns, DriverFails
<1>2. CASE DecodeFrame \/ DecodeDone
  BY <1>2 DEF DecodeFrame, DecodeDone
<1>3. CASE ComputeLight
  BY <1>3 DEF ComputeLight
<1>4. CASE ComputeBlinker
  BY <1>4 DEF ComputeBlinker
<1>5. CASE ComputeWipers
  BY <1>5 DEF ComputeWipers
<1>6. CASE Transfer \/ WriteUdp \/ WriteLns
  BY <1>6 DEF Transfer, WriteUdp, WriteLns
<1> QED BY <1>1, <1>2, <1>3, <1>4, <1>5, <1>6 DEF Next, Cycle

\* At each pc, what a step of the loop counts.
LEMMA CountedByPc ==
  ASSUME MonitorNext
  PROVE  /\ pc \in Lights => LM!Counted(pc)
         /\ pc \in Blinkers => BM!Counted(pc)
         /\ pc = "wipers" => WM!Counted
         /\ pc # "wipers" => UNCHANGED wipersMonitor
         /\ pc \notin Lights /\ Lights \cap Answering = {} => UNCHANGED lightsMonitor
         /\ pc \notin Blinkers /\ Blinkers \cap Answering = {} => UNCHANGED blinkersMonitor
         /\ \A l \in Lights \cap Answering : LM!Answered(l)
         /\ \A b \in Blinkers \cap Answering : BM!Answered(b)
<1>1. /\ "decode" \notin Lights \cup Blinkers
      /\ Answering # {} => pc = "decode"
  BY DEF Lights, Blinkers, Answering
<1>2. \A d, e \in Answering : d = e
  BY DEF Answering
<1>3. /\ pc \in Lights => LM!Counted(pc)
      /\ pc \notin Lights /\ Lights \cap Answering = {} => UNCHANGED lightsMonitor
      /\ \A l \in Lights \cap Answering : LM!Answered(l)
  BY <1>1, <1>2, Zenon DEF MonitorNext
<1>4. /\ pc \in Blinkers => BM!Counted(pc)
      /\ pc \notin Blinkers /\ Blinkers \cap Answering = {} => UNCHANGED blinkersMonitor
      /\ \A b \in Blinkers \cap Answering : BM!Answered(b)
  BY <1>1, <1>2, Zenon DEF MonitorNext
<1> QED BY <1>3, <1>4 DEF MonitorNext

\* A decoded frame is a command or an answer for the counted automata, or nothing.
LEMMA DecodeMonitors ==
  ASSUME BcgvInv, DecodeFrame, MonitorNext
  PROVE  [LP!MonitorNext]_(LP!mvars) /\ [BP!MonitorNext]_(BP!mvars) /\ [WP!MonitorNext]_(WP!mvars)
<1> DEFINE f == Head(received)
<1>1. /\ pc = "decode" /\ received # <<>> /\ pc \notin Lights \cup Blinkers \cup {"wipers"}
      /\ f.size \in 0 .. 2
  <2>1. pc = "decode" /\ received # <<>>
    BY DEF DecodeFrame
  <2>2. received \in Seq(Arrivals)
    BY DEF BcgvInv, LoopInv, TypeOK
  <2>3. f \in Arrivals
    BY <2>1, <2>2, HeadTailProperties
  <2> QED BY <2>1, <2>3, ArrivalType DEF Lights, Blinkers
<1>2. UNCHANGED wipersMonitor
  BY <1>1, CountedByPc
<1>3. CASE f.from = "bgf" /\ f.size >= 2
  <2> DEFINE a == BgfDevice[f.id]
  <2>1. Answering = {a}
    BY <1>1, <1>3 DEF Answering
  <2>2. Decode_bgf(f.id)
    BY <1>1, <1>3 DEF DecodeFrame
  <2>3. Lights \cap Blinkers = {}
    BY DEF Lights, Blinkers
  <2>4. CASE a \in Lights /\ L!Decode_bgf(a) /\ UNCHANGED <<blinkersVars, wipersVars>>
    <3>1. LP!Decode_bgf(a)
      BY <2>4 DEF L!Decode_bgf, LP!Decode_bgf
    <3>2. LM!Answered(a) /\ UNCHANGED blinkersMonitor
      BY <1>1, <2>1, <2>3, <2>4, CountedByPc
    <3>3. LP!Answered(a)
      BY <3>2 DEF LM!Answered, LM!counters, LP!Answered, LP!counters
    <3> QED BY <1>2, <2>4, <3>1, <3>2, <3>3, AutomatonUnchanged DEF LP!MonitorNext
  <2>5. CASE a \in Blinkers /\ B!Decode_bgf(a) /\ UNCHANGED <<lightsVars, wipersVars>>
    <3>1. BP!Decode_bgf(a)
      BY <2>5 DEF B!Decode_bgf, BP!Decode_bgf
    <3>2. BM!Answered(a) /\ UNCHANGED lightsMonitor
      BY <1>1, <2>1, <2>3, <2>5, CountedByPc
    <3>3. BP!Answered(a)
      BY <3>2 DEF BM!Answered, BM!counters, BP!Answered, BP!counters
    <3> QED BY <1>2, <2>5, <3>1, <3>2, <3>3, AutomatonUnchanged DEF BP!MonitorNext
  <2> QED BY <2>2, <2>4, <2>5 DEF Decode_bgf
<1>4. CASE ~(f.from = "bgf" /\ f.size >= 2)
  <2>1. UNCHANGED <<lightsMonitor, blinkersMonitor>>
    <3>1. Answering = {}
      BY <1>4 DEF Answering
    <3> QED BY <1>1, <3>1, CountedByPc
  <2>2. CASE UNCHANGED <<lightsVars, blinkersVars, wipersVars>>
    BY <1>2, <2>1, <2>2, AutomatonUnchanged
  <2>3. CASE Decode_commodos(f.command)
    <3>1. UNCHANGED LP!monitor /\ UNCHANGED BP!monitor /\ UNCHANGED WP!monitor
      BY <1>2, <2>1 DEF lightsMonitor, blinkersMonitor, wipersMonitor,
         LP!monitor, LP!counters, BP!monitor, BP!counters, WP!monitor
    <3>2. LP!Decode_commodos
      BY <2>3 DEF Decode_commodos, L!Decode_commodos, LP!Decode_commodos
    <3>3. BP!Decode_commodos
      BY <2>3 DEF Decode_commodos, B!Decode_commodos, BP!Decode_commodos
    <3>4. WP!Decode_commodos
      BY <2>3 DEF Decode_commodos, W!Decode_commodos, WP!Decode_commodos
    <3> QED BY <3>1, <3>2, <3>3, <3>4 DEF LP!MonitorNext, BP!MonitorNext, WP!MonitorNext
  <2> QED BY <1>4, <2>2, <2>3 DEF DecodeFrame
<1> QED BY <1>3, <1>4

\* Every step of the counted loop is, for each counted automaton, a step of its own or none.
LEMMA StepMonitors ==
  BcgvInv /\ [MonitorNext]_mvars
    => [LP!MonitorNext]_(LP!mvars) /\ [BP!MonitorNext]_(BP!mvars) /\ [WP!MonitorNext]_(WP!mvars)
<1> DEFINE Goal == /\ [LP!MonitorNext]_(LP!mvars)
                   /\ [BP!MonitorNext]_(BP!mvars)
                   /\ [WP!MonitorNext]_(WP!mvars)
<1> SUFFICES ASSUME BcgvInv, [MonitorNext]_mvars PROVE Goal
  OBVIOUS
<1>1. CASE UNCHANGED mvars
  <2>1. UNCHANGED <<lightsVars, blinkersVars, wipersVars,
                    lightsMonitor, blinkersMonitor, wipersMonitor>>
    BY <1>1 DEF mvars, vars
  <2> QED BY <2>1, AutomatonUnchanged
<1>2. CASE MonitorNext
  <2>1. Next
    BY <1>2 DEF MonitorNext
  <2>2. /\ Lights \cap Blinkers = {} /\ "wipers" \notin Lights \cup Blinkers
        /\ "decode" \notin Lights \cup Blinkers /\ Devices = Lights \cup Blinkers
        /\ pc # "decode" => Answering = {}
    BY DEF Lights, Blinkers, Devices, Answering
  <2>3. CASE pc \in Lights
    <3>1. LP!MonitorCompute(pc)
      BY <1>2, <2>1, <2>3, StepByPc, CountedByPc, SameLight
    <3>2. UNCHANGED <<blinkersVars, wipersVars, blinkersMonitor, wipersMonitor>>
      BY <1>2, <2>1, <2>2, <2>3, StepByPc, CountedByPc
    <3> QED BY <2>3, <3>1, <3>2, AutomatonUnchanged DEF LP!MonitorNext
  <2>4. CASE pc \in Blinkers
    <3>1. BP!MonitorCompute(pc)
      BY <1>2, <2>1, <2>4, StepByPc, CountedByPc, SameBlinker
    <3>2. UNCHANGED <<lightsVars, wipersVars, lightsMonitor, wipersMonitor>>
      BY <1>2, <2>1, <2>2, <2>4, StepByPc, CountedByPc
    <3> QED BY <2>4, <3>1, <3>2, AutomatonUnchanged DEF BP!MonitorNext
  <2>5. CASE pc = "wipers"
    <3>1. WP!MonitorCompute
      BY <1>2, <2>1, <2>5, StepByPc, CountedByPc, SameWipers
    <3>2. UNCHANGED <<lightsVars, blinkersVars, lightsMonitor, blinkersMonitor>>
      BY <1>2, <2>1, <2>2, <2>5, StepByPc, CountedByPc
    <3> QED BY <3>1, <3>2, AutomatonUnchanged DEF WP!MonitorNext
  <2>6. CASE DecodeFrame
    BY <1>2, <2>6, DecodeMonitors
  <2>7. CASE pc \notin Devices \cup {"wipers", "decode"}
    <3>1. UNCHANGED <<lightsMonitor, blinkersMonitor, wipersMonitor>>
      BY <1>2, <2>2, <2>7, CountedByPc
    <3>2. UNCHANGED <<lightsVars, blinkersVars, wipersVars>>
      BY <2>1, <2>7, StepByPc
    <3> QED BY <3>1, <3>2, AutomatonUnchanged
  <2>8. CASE DecodeDone
    <3>1. /\ Answering = {} /\ pc \notin Lights \cup Blinkers \cup {"wipers"}
          /\ UNCHANGED <<lightsVars, blinkersVars, wipersVars>>
      BY <2>8 DEF DecodeDone, Answering, Lights, Blinkers
    <3>2. UNCHANGED <<lightsMonitor, blinkersMonitor, wipersMonitor>>
      BY <1>2, <3>1, CountedByPc
    <3> QED BY <3>1, <3>2, AutomatonUnchanged
  <2>9. pc = "decode" => DecodeFrame \/ DecodeDone
    BY <2>1 DEF Next, Cycle, Open, ReadUdp, ReadLns, ComputeLight, ComputeBlinker,
                ComputeWipers, Transfer, WriteUdp, WriteLns, DriverFails, Lights, Blinkers
  <2> HIDE DEF Goal
  <2> QED BY <2>2, <2>3, <2>4, <2>5, <2>6, <2>7, <2>8, <2>9
<1> HIDE DEF Goal
<1> QED BY <1>1, <1>2

\* The counted loop is the loop, and runs the counted automata of the three modules.
LEMMA MonitorComponents ==
  MonitorSpec => Spec /\ LP!MonitorSpec /\ BP!MonitorSpec /\ WP!MonitorSpec
<1>1. MonitorInit => Init
  BY DEF MonitorInit
<1>2. [MonitorNext]_mvars => [Next]_vars
  BY DEF MonitorNext, mvars
<1> QED BY <1>1, <1>2, InitMonitors, StepMonitors, BcgvInvariant, PTL
        DEF MonitorSpec, Spec, LP!MonitorSpec, BP!MonitorSpec, WP!MonitorSpec

-----------------------------------------------------------------------------
(***************************************************************************)
(* Refinement.                                                             *)
(***************************************************************************)

\* The phase of a device in terms of its automaton's state.
LEMMA PhaseOfLight ==
  ASSUME NEW l \in Lights
  PROVE  /\ lights_fsm[l] = 0 => Phase(l) = "dark" /\ Watch(l) = 0
         /\ lights_fsm[l] = 1 => Phase(l) = "lit" /\ Watch(l) = lights_timer[l]
         /\ lights_fsm[l] = 2 => Phase(l) = "confirmed" /\ Watch(l) = 0
         /\ lights_fsm[l] = -1 => Phase(l) = "failed" /\ Watch(l) = 0
BY DEF Phase, Watch, Lit, Acknowledged, Failed, L!ON, L!ACKNOWLEDGED, L!ERROR

\* The same of a blinker, in the states that are reached.
LEMMA PhaseOfBlinker ==
  ASSUME NEW b \in Blinkers
  PROVE  /\ blinkers_fsm[b] = 0 => Phase(b) = "dark" /\ Watch(b) = 0
         /\ blinkers_fsm[b] = 1 => Phase(b) = "lit" /\ Watch(b) = blinkers_timer[b]
         /\ blinkers_fsm[b] = 3 => Phase(b) = "confirmed" /\ Watch(b) = 0
         /\ blinkers_fsm[b] = -1 => Phase(b) = "failed" /\ Watch(b) = 0
BY DEF Phase, Watch, Lit, Acknowledged, Failed, B!ACTIVE_ON, B!ACTIVE_ON_ACKNOWLEDGED, B!ERROR,
       Lights, Blinkers

\* The ways a lamp can change, of which a supervised device takes one at a time.
LampChange(d) ==
  \/ Phase(d) = "dark" /\ CommandOf(d) /\ Phase(d)' = "lit" /\ Watch(d)' = 1
  \/ /\ Phase(d) = "lit" /\ CommandOf(d) /\ Watch(d) <= ACKNOWLEDGEMENT_DELAY
     /\ Phase(d)' = "lit" /\ Watch(d)' = Watch(d) + 1
  \/ Phase(d) = "lit" /\ CommandOf(d) /\ Phase(d)' = "confirmed" /\ Watch(d)' = 0
  \/ /\ Phase(d) = "lit" /\ CommandOf(d) /\ Watch(d) = ACKNOWLEDGEMENT_DELAY + 1
     /\ Phase(d)' = "failed" /\ Watch(d)' = 0
  \/ Phase(d) \in {"lit", "confirmed"} /\ ~CommandOf(d) /\ Phase(d)' = "dark" /\ Watch(d)' = 0
  \/ Phase(d)' = Phase(d) /\ Watch(d)' = Watch(d)

\* Such a change of one device is a step of the supervised lamps.
LEMMA LampStep ==
  ASSUME NEW d \in Supervised, LampChange(d),
         \A e \in Supervised \ {d} : Phase(e)' = Phase(e) /\ Watch(e)' = Watch(e),
         \A e \in Supervised : CommandOf(e)' = CommandOf(e)
  PROVE  [Lamp!Next]_(Lamp!vars)
<1> DEFINE phases   == [e \in Supervised |-> Phase(e)]
           watches  == [e \in Supervised |-> Watch(e)]
           requests == [e \in Supervised |-> CommandOf(e)]
<1>1. /\ phases[d] = Phase(d) /\ watches[d] = Watch(d) /\ requests[d] = CommandOf(d)
      /\ requests' = requests
  OBVIOUS
<1>2. phases' = [phases EXCEPT ![d] = Phase(d)']
  OBVIOUS
<1>3. watches' = [watches EXCEPT ![d] = Watch(d)']
  OBVIOUS
<1>4. \A p, w : p = Phase(d)' /\ w = Watch(d)' => Lamp!Become(d, p, w)
  BY <1>1, <1>2, <1>3 DEF Lamp!Become
<1>5. CASE Phase(d) = "dark" /\ CommandOf(d) /\ Phase(d)' = "lit" /\ Watch(d)' = 1
  BY <1>1, <1>4, <1>5 DEF Lamp!Next, Lamp!Light
<1>6. CASE /\ Phase(d) = "lit" /\ CommandOf(d) /\ Watch(d) <= ACKNOWLEDGEMENT_DELAY
           /\ Phase(d)' = "lit" /\ Watch(d)' = Watch(d) + 1
  <2>1. /\ phases' = [phases EXCEPT ![d] = "lit"]
        /\ watches' = [watches EXCEPT ![d] = watches[d] + 1]
    BY <1>1, <1>2, <1>3, <1>6
  <2>2. Lamp!Wait(d)
    BY <1>1, <1>6, <2>1 DEF Lamp!Wait, Lamp!Become
  <2> QED BY <2>2 DEF Lamp!Next
<1>7. CASE Phase(d) = "lit" /\ CommandOf(d) /\ Phase(d)' = "confirmed" /\ Watch(d)' = 0
  BY <1>1, <1>4, <1>7 DEF Lamp!Next, Lamp!Confirm
<1>8. CASE /\ Phase(d) = "lit" /\ CommandOf(d) /\ Watch(d) = ACKNOWLEDGEMENT_DELAY + 1
           /\ Phase(d)' = "failed" /\ Watch(d)' = 0
  BY <1>1, <1>4, <1>8 DEF Lamp!Next, Lamp!Fail
<1>9. CASE /\ Phase(d) \in {"lit", "confirmed"} /\ ~CommandOf(d)
           /\ Phase(d)' = "dark" /\ Watch(d)' = 0
  BY <1>1, <1>4, <1>9 DEF Lamp!Next, Lamp!Douse
<1>10. CASE Phase(d)' = Phase(d) /\ Watch(d)' = Watch(d)
  <2>1. phases' = phases /\ watches' = watches
    BY <1>10
  <2> QED BY <1>1, <2>1 DEF Lamp!vars
<1> QED BY <1>5, <1>6, <1>7, <1>8, <1>9, <1>10 DEF LampChange

\* What the supervision rests on: a lit device's timer is within the deadline, no
\* blinker is in a dark phase, and only an acknowledged light is shown.
DevicesInv ==
  /\ \A d \in Supervised : Phase(d) = "lit" => Watch(d) \in 1 .. ACKNOWLEDGEMENT_DELAY + 1
  /\ BP!Reachable
  /\ \A l \in Lights : lights_ind[l] => lights_fsm[l] = L!ACKNOWLEDGED

\* The loop's variables have the types the automata's modules give them.
LEMMA SameTypes == BcgvInv => LP!TypeOK /\ BP!TypeOK
BY DEF BcgvInv, LoopInv, TypeOK, L!TypeOK, B!TypeOK, LP!TypeOK, BP!TypeOK,
       L!fsm_lights_state_t, LP!fsm_lights_state_t, L!fsm_timer_t, LP!fsm_timer_t,
       L!OFF, L!ON, L!ACKNOWLEDGED, L!ERROR, LP!OFF, LP!ON, LP!ACKNOWLEDGED, LP!ERROR,
       B!fsm_blinkers_state_t, BP!fsm_blinkers_state_t, B!fsm_timer_t, BP!fsm_timer_t,
       B!OFF, B!ACTIVE_ON, B!ACTIVE_OFF, B!ACTIVE_ON_ACKNOWLEDGED, B!ACTIVE_OFF_ACKNOWLEDGED,
       B!ERROR, BP!OFF, BP!ACTIVE_ON, BP!ACTIVE_OFF, BP!ACTIVE_ON_ACKNOWLEDGED,
       BP!ACTIVE_OFF_ACKNOWLEDGED, BP!ERROR

\* A call of compute_<light>() changes its light's lamp in one of those ways.
LEMMA LightChange ==
  ASSUME BcgvInv, DevicesInv, NEW l \in Lights \ {"sidelights"}, LP!Compute(l)
  PROVE  LampChange(l)
<1>1. l \in LP!TimedLights /\ l \in Lights
  BY DEF LP!TimedLights
<1>2. /\ LP!TypeOK
      /\ lights_fsm[l] = 1 => lights_timer[l] \in 1 .. ACKNOWLEDGEMENT_DELAY + 1
  BY <1>1, SameTypes, PhaseOfLight DEF DevicesInv, Supervised, Devices
<1>3. \/ lights_fsm[l] = 0 /\ lights_in[l] /\ lights_fsm'[l] = 1 /\ lights_timer'[l] = 1
      \/ /\ lights_fsm[l] = 1 /\ lights_in[l] /\ lights_timer[l] <= ACKNOWLEDGEMENT_DELAY
         /\ lights_fsm'[l] = 1 /\ lights_timer'[l] = lights_timer[l] + 1
      \/ lights_fsm[l] = 1 /\ lights_in[l] /\ lights_fsm'[l] = 2
      \/ /\ lights_fsm[l] = 1 /\ lights_in[l]
         /\ lights_timer[l] = ACKNOWLEDGEMENT_DELAY + 1 /\ lights_fsm'[l] = -1
      \/ lights_fsm[l] \in {1, 2} /\ ~lights_in[l] /\ lights_fsm'[l] = 0
      \/ lights_fsm[l] # 1 /\ lights_fsm'[l] = lights_fsm[l]
  BY <1>1, <1>2, LP!SupervisedStep, ComponentAssumptions
     DEF LP!OFF, LP!ON, LP!ACKNOWLEDGED, LP!ERROR
<1>4. /\ lights_fsm[l] \in {0, 1, 2, -1}
      /\ CommandOf(l) = lights_in[l]
  BY <1>1, <1>2 DEF LP!TypeOK, LP!fsm_lights_state_t, CommandOf,
                    LP!OFF, LP!ON, LP!ACKNOWLEDGED, LP!ERROR
<1>5. /\ lights_fsm'[l] = 0 => Phase(l)' = "dark" /\ Watch(l)' = 0
      /\ lights_fsm'[l] = 1 => Phase(l)' = "lit" /\ Watch(l)' = lights_timer'[l]
      /\ lights_fsm'[l] = 2 => Phase(l)' = "confirmed" /\ Watch(l)' = 0
      /\ lights_fsm'[l] = -1 => Phase(l)' = "failed" /\ Watch(l)' = 0
  BY <1>1 DEF Phase, Watch, Lit, Acknowledged, Failed, L!ON, L!ACKNOWLEDGED, L!ERROR
<1> QED BY <1>1, <1>3, <1>4, <1>5, PhaseOfLight DEF LampChange

\* A call of compute_<blinker>() changes its blinker's lamp in one of those ways.
LEMMA BlinkerChange ==
  ASSUME BcgvInv, DevicesInv, NEW b \in Blinkers, BP!Compute(b)
  PROVE  LampChange(b)
<1>1. b \notin Lights /\ CommandOf(b) = BP!Commanded(b)
  BY DEF Lights, Blinkers, CommandOf, BP!Commanded
<1>2. /\ BP!TypeOK /\ BP!Reachable
      /\ blinkers_fsm[b] = 1 => blinkers_timer[b] \in 1 .. ACKNOWLEDGEMENT_DELAY + 1
  BY <1>1, SameTypes, PhaseOfBlinker DEF DevicesInv, Supervised, Devices, Blinkers
<1>3. \/ blinkers_fsm[b] = 0 /\ CommandOf(b) /\ blinkers_fsm'[b] = 1 /\ blinkers_timer'[b] = 1
      \/ /\ blinkers_fsm[b] = 1 /\ CommandOf(b) /\ blinkers_timer[b] <= ACKNOWLEDGEMENT_DELAY
         /\ blinkers_fsm'[b] = 1 /\ blinkers_timer'[b] = blinkers_timer[b] + 1
      \/ blinkers_fsm[b] = 1 /\ CommandOf(b) /\ blinkers_fsm'[b] = 3
      \/ /\ blinkers_fsm[b] = 1 /\ CommandOf(b)
         /\ blinkers_timer[b] = ACKNOWLEDGEMENT_DELAY + 1 /\ blinkers_fsm'[b] = -1
      \/ blinkers_fsm[b] \in {1, 3} /\ ~CommandOf(b) /\ blinkers_fsm'[b] = 0
      \/ blinkers_fsm[b] # 1 /\ blinkers_fsm'[b] = blinkers_fsm[b]
  BY <1>1, <1>2, BP!SupervisedStep, ComponentAssumptions
     DEF BP!OFF, BP!ACTIVE_ON, BP!ACTIVE_ON_ACKNOWLEDGED, BP!ERROR, BP!Shining
<1>4. blinkers_fsm[b] \in {0, 1, 3, -1}
  BY <1>2 DEF BP!Reachable, BP!Reached, BP!OFF, BP!ACTIVE_ON, BP!ACTIVE_ON_ACKNOWLEDGED, BP!ERROR
<1>5. /\ blinkers_fsm'[b] = 0 => Phase(b)' = "dark" /\ Watch(b)' = 0
      /\ blinkers_fsm'[b] = 1 => Phase(b)' = "lit" /\ Watch(b)' = blinkers_timer'[b]
      /\ blinkers_fsm'[b] = 3 => Phase(b)' = "confirmed" /\ Watch(b)' = 0
      /\ blinkers_fsm'[b] = -1 => Phase(b)' = "failed" /\ Watch(b)' = 0
  BY <1>1 DEF Phase, Watch, Lit, Acknowledged, Failed, B!ACTIVE_ON, B!ACTIVE_ON_ACKNOWLEDGED,
              B!ERROR
<1> QED BY <1>3, <1>4, <1>5, PhaseOfBlinker DEF LampChange

\* A step that leaves a device's automaton alone leaves its phase and its watch alone.
LEMMA PhaseUnchanged ==
  ASSUME NEW d,
         d \in Lights => lights_fsm'[d] = lights_fsm[d] /\ lights_timer'[d] = lights_timer[d],
         d \notin Lights => /\ blinkers_fsm'[d] = blinkers_fsm[d]
                            /\ blinkers_timer'[d] = blinkers_timer[d]
  PROVE  Phase(d)' = Phase(d) /\ Watch(d)' = Watch(d)
<1>1. /\ Lit(d)' = Lit(d) /\ Acknowledged(d)' = Acknowledged(d) /\ Failed(d)' = Failed(d)
  BY DEF Lit, Acknowledged, Failed
<1>2. Watch(d)' = Watch(d)
  BY <1>1 DEF Watch
<1> QED BY <1>1, <1>2 DEF Phase

\* Nor does a step that leaves the lights and the blinkers alone change any lamp.
LEMMA LampsUnchanged ==
  ASSUME UNCHANGED <<lightsVars, blinkersVars>>
  PROVE  UNCHANGED Lamp!vars
<1>1. \A d \in Supervised : Phase(d)' = Phase(d) /\ Watch(d)' = Watch(d)
  BY PhaseUnchanged DEF lightsVars, blinkersVars
<1>2. \A d \in Supervised : CommandOf(d)' = CommandOf(d)
  BY DEF CommandOf, lightsVars, blinkersVars
<1>3. [d \in Supervised |-> Phase(d)]' = [d \in Supervised |-> Phase(d)]
  BY <1>1
<1>4. [d \in Supervised |-> Watch(d)]' = [d \in Supervised |-> Watch(d)]
  BY <1>1
<1>5. [d \in Supervised |-> CommandOf(d)]' = [d \in Supervised |-> CommandOf(d)]
  BY <1>2
<1> QED BY <1>3, <1>4, <1>5 DEF Lamp!vars

\* A decoded frame changes the requests at most.
LEMMA LampsDecode ==
  ASSUME BcgvInv, DecodeFrame
  PROVE  [Lamp!Next]_(Lamp!vars)
<1>0. LoopInv'
  BY DecodeFrameStep DEF BcgvInv
<1>1. /\ lights_fsm' = lights_fsm /\ lights_timer' = lights_timer
      /\ blinkers_fsm' = blinkers_fsm /\ blinkers_timer' = blinkers_timer
  BY DEF DecodeFrame, Decode_commodos, Decode_bgf, L!Decode_commodos, B!Decode_commodos,
         L!Decode_bgf, B!Decode_bgf, lightsVars, blinkersVars
<1>2. \A d \in Supervised : Phase(d)' = Phase(d) /\ Watch(d)' = Watch(d)
  BY <1>1, PhaseUnchanged
<1>3. [d \in Supervised |-> Phase(d)]' = [d \in Supervised |-> Phase(d)]
  BY <1>2
<1>4. [d \in Supervised |-> Watch(d)]' = [d \in Supervised |-> Watch(d)]
  BY <1>2
<1>5. \A d \in Supervised : CommandOf(d)' \in BOOLEAN
  BY <1>0 DEF LoopInv, TypeOK, L!TypeOK, B!TypeOK, CommandOf, Supervised, Devices
<1>6. [d \in Supervised |-> CommandOf(d)]' \in [Supervised -> BOOLEAN]
  BY <1>5
<1>7. Lamp!Request
  BY <1>3, <1>4, <1>6 DEF Lamp!Request
<1> QED BY <1>7 DEF Lamp!Next

\* What a call of a device's automaton does to the lamps: its own changes in one of those
\* ways, the others and the requests not at all.  The sidelights are no lamp.
LEMMA DeviceCall ==
  ASSUME BcgvInv, DevicesInv, Next, NEW d \in Devices, pc = d
  PROVE  /\ d \in Supervised => LampChange(d)
         /\ \A e \in Supervised \ {d} : Phase(e)' = Phase(e) /\ Watch(e)' = Watch(e)
         /\ \A e \in Supervised : CommandOf(e)' = CommandOf(e)
         /\ BP!Reachable'
         /\ \A l \in Lights : lights_ind'[l] => lights_fsm'[l] = L!ACKNOWLEDGED
<1>1. d \in Lights \cup Blinkers /\ Lights \cap Blinkers = {}
  BY DEF Devices, Lights, Blinkers
<1>2. LP!TypeOK /\ BP!TypeOK
  BY SameTypes
<1>3. CASE d \in Lights
  <2>1. LP!Compute(d) /\ UNCHANGED blinkersVars
    BY <1>3, StepByPc, SameLightCall
  <2>2. /\ lights_in' = lights_in
        /\ lights_ind'[d] => lights_fsm'[d] = LP!ACKNOWLEDGED
        /\ \A l \in Lights \ {d} : /\ lights_fsm'[l] = lights_fsm[l]
                                   /\ lights_timer'[l] = lights_timer[l]
                                   /\ lights_ind'[l] = lights_ind[l]
    BY <1>2, <1>3, <2>1, LP!CallEffect, ComponentAssumptions
  <2>3. \A e \in Supervised \ {d} : Phase(e)' = Phase(e) /\ Watch(e)' = Watch(e)
    BY <2>1, <2>2, PhaseUnchanged DEF Supervised, Devices, blinkersVars
  <2>4. \A e \in Supervised : CommandOf(e)' = CommandOf(e)
    BY <2>1, <2>2 DEF CommandOf, blinkersVars
  <2>5. BP!Reachable'
    BY <2>1 DEF DevicesInv, BP!Reachable, blinkersVars
  <2>6. \A l \in Lights : lights_ind'[l] => lights_fsm'[l] = L!ACKNOWLEDGED
    BY <2>2 DEF DevicesInv, LP!ACKNOWLEDGED, L!ACKNOWLEDGED
  <2>7. d \in Supervised => LampChange(d)
    BY <1>3, <2>1, LightChange DEF Supervised
  <2> QED BY <2>3, <2>4, <2>5, <2>6, <2>7
<1>4. CASE d \in Blinkers
  <2>1. BP!Compute(d) /\ UNCHANGED lightsVars
    BY <1>4, StepByPc, SameBlinkerCall
  <2>2. /\ blinkers_in' = blinkers_in /\ warnings_in' = warnings_in
        /\ blinkers_fsm'[d] \in BP!Reached
        /\ \A b \in Blinkers \ {d} : /\ blinkers_fsm'[b] = blinkers_fsm[b]
                                     /\ blinkers_timer'[b] = blinkers_timer[b]
    BY <1>2, <1>4, <2>1, BP!CallEffect, ComponentAssumptions DEF DevicesInv
  <2>3. \A e \in Supervised \ {d} : Phase(e)' = Phase(e) /\ Watch(e)' = Watch(e)
    BY <2>1, <2>2, PhaseUnchanged DEF Supervised, Devices, lightsVars
  <2>4. \A e \in Supervised : CommandOf(e)' = CommandOf(e)
    BY <2>1, <2>2 DEF CommandOf, lightsVars
  <2>5. BP!Reachable'
    BY <2>2 DEF DevicesInv, BP!Reachable
  <2>6. \A l \in Lights : lights_ind'[l] => lights_fsm'[l] = L!ACKNOWLEDGED
    BY <2>1 DEF DevicesInv, lightsVars
  <2>7. LampChange(d)
    BY <1>4, <2>1, BlinkerChange
  <2> QED BY <2>3, <2>4, <2>5, <2>6, <2>7
<1> QED BY <1>1, <1>3, <1>4

\* The loop keeps the devices' timers within the deadline.
LEMMA DevicesInvariant == Spec => []DevicesInv
<1>1. Init => DevicesInv
  BY PhaseOfLight, PhaseOfBlinker DEF Init, L!Init, B!Init, DevicesInv, L!OFF, B!OFF,
     Supervised, Devices, BP!Reachable, BP!Reached, BP!OFF
<1>2. BcgvInv /\ DevicesInv /\ [Next]_vars => DevicesInv'
  <2> SUFFICES ASSUME BcgvInv, DevicesInv, [Next]_vars PROVE DevicesInv'
    OBVIOUS
  <2>1. CASE Next /\ pc \in Devices
    <3>0. PICK d \in Devices : pc = d
      BY <2>1
    <3>1. /\ d \in Supervised => LampChange(d)
          /\ \A e \in Supervised \ {d} : Phase(e)' = Phase(e) /\ Watch(e)' = Watch(e)
          /\ BP!Reachable'
          /\ \A l \in Lights : lights_ind'[l] => lights_fsm'[l] = L!ACKNOWLEDGED
      BY <2>1, <3>0, DeviceCall
    <3>2. \A e \in Supervised : Phase(e) = "lit" => Watch(e) \in 1 .. ACKNOWLEDGEMENT_DELAY + 1
      BY DEF DevicesInv
    <3>3. ASSUME NEW e \in Supervised, Phase(e)' = "lit"
          PROVE  Watch(e)' \in 1 .. ACKNOWLEDGEMENT_DELAY + 1
      <4>1. CASE e = d
        <5>1. \/ Watch(e)' = 1
              \/ /\ Phase(e) = "lit" /\ Watch(e) <= ACKNOWLEDGEMENT_DELAY
                 /\ Watch(e)' = Watch(e) + 1
              \/ Phase(e)' = Phase(e) /\ Watch(e)' = Watch(e)
          BY <3>1, <3>3, <4>1 DEF LampChange
        <5>2. Phase(e) = "lit" => Watch(e) \in 1 .. ACKNOWLEDGEMENT_DELAY + 1
          BY <3>2, <3>3
        <5>3. ACKNOWLEDGEMENT_DELAY \in Nat
          BY DelaysAssumption
        <5> QED BY <3>3, <5>1, <5>2, <5>3
      <4>2. CASE e # d
        BY <3>1, <3>2, <3>3, <4>2
      <4> QED BY <4>1, <4>2
    <3> QED BY <3>1, <3>3 DEF DevicesInv
  <2>2. ASSUME UNCHANGED <<lights_fsm, lights_timer, lights_ind, blinkers_fsm, blinkers_timer>>
        PROVE  DevicesInv'
    <3>1. \A d \in Supervised : Phase(d)' = Phase(d) /\ Watch(d)' = Watch(d)
      BY <2>2, PhaseUnchanged
    <3> QED BY <2>2, <3>1 DEF DevicesInv, BP!Reachable
  <2>3. CASE DecodeFrame
    BY <2>2, <2>3 DEF DecodeFrame, Decode_commodos, Decode_bgf, L!Decode_commodos,
       B!Decode_commodos, L!Decode_bgf, B!Decode_bgf, lightsVars, blinkersVars
  <2>4. CASE UNCHANGED <<lightsVars, blinkersVars>>
    BY <2>2, <2>4 DEF lightsVars, blinkersVars
  <2>5. CASE Next /\ pc \notin Devices
    BY <2>3, <2>4, <2>5, StepByPc
  <2>6. CASE UNCHANGED vars
    BY <2>4, <2>6 DEF vars
  <2> QED BY <2>1, <2>5, <2>6
<1> QED BY <1>1, <1>2, BcgvInvariant, PTL DEF Spec

\* In the loop the lights with a timer and the blinkers are supervised lamps that the
\* commodos' frames alone request.
THEOREM LoopSupervisesDevices == Spec => DevicesSupervised
<1>1. Init => Lamp!Init
  <2> SUFFICES ASSUME Init PROVE Lamp!Init
    OBVIOUS
  <2>1. \A d \in Supervised : Phase(d) = "dark" /\ Watch(d) = 0 /\ CommandOf(d) = FALSE
    BY PhaseOfLight, PhaseOfBlinker
       DEF Init, L!Init, B!Init, L!OFF, B!OFF, Supervised, Devices, CommandOf
  <2> QED BY <2>1 DEF Lamp!Init
<1>2. BcgvInv /\ DevicesInv /\ [Next]_vars => [Lamp!Next]_(Lamp!vars)
  <2> SUFFICES ASSUME BcgvInv, DevicesInv, [Next]_vars PROVE [Lamp!Next]_(Lamp!vars)
    OBVIOUS
  <2>1. CASE UNCHANGED vars
    BY <2>1, LampsUnchanged DEF vars
  <2>2. ASSUME Next, NEW d \in Supervised, pc = d
        PROVE  [Lamp!Next]_(Lamp!vars)
    <3>1. d \in Devices
      BY DEF Supervised
    <3>2. /\ LampChange(d)
          /\ \A e \in Supervised \ {d} : Phase(e)' = Phase(e) /\ Watch(e)' = Watch(e)
          /\ \A e \in Supervised : CommandOf(e)' = CommandOf(e)
      BY <2>2, <3>1, DeviceCall
    <3> QED BY <3>2, LampStep
  <2>3. CASE Next /\ pc = "sidelights"
    <3>1. "sidelights" \in Devices /\ "sidelights" \notin Supervised
      BY DEF Supervised, Devices, Lights
    <3>2. \A e \in Supervised : /\ Phase(e)' = Phase(e) /\ Watch(e)' = Watch(e)
                                /\ CommandOf(e)' = CommandOf(e)
      BY <2>3, <3>1, DeviceCall
    <3>3. [e \in Supervised |-> Phase(e)]' = [e \in Supervised |-> Phase(e)]
      BY <3>2
    <3>4. [e \in Supervised |-> Watch(e)]' = [e \in Supervised |-> Watch(e)]
      BY <3>2
    <3>5. [e \in Supervised |-> CommandOf(e)]' = [e \in Supervised |-> CommandOf(e)]
      BY <3>2
    <3> QED BY <3>3, <3>4, <3>5 DEF Lamp!vars
  <2>4. CASE Next /\ pc \notin Devices
    <3>1. DecodeFrame \/ UNCHANGED <<lightsVars, blinkersVars>>
      BY <2>4, StepByPc
    <3> QED BY <3>1, LampsDecode, LampsUnchanged
  <2> QED BY <2>1, <2>2, <2>3, <2>4 DEF Supervised
<1> QED BY <1>1, <1>2, DevicesInvariant, BcgvInvariant, PTL
        DEF Spec, DevicesSupervised, Lamp!Spec

-----------------------------------------------------------------------------
(***************************************************************************)
(* What the automata promise in calls, in cycles of the loop.              *)
(***************************************************************************)

\* In the loop as by itself: a lit device that is not acknowledged is given up in time,
\* a command is not refused for longer than the timer takes to wrap, nor unsettled for
\* longer than that and the wait after it, and the sidelights refuse none.
THEOREM LoopKeepsDevicePromises ==
  MonitorSpec => [](/\ LM!FaultDetectedInTime /\ LM!RefusalBounded /\ LM!SettledInTime
                    /\ LM!SidelightsNeverRefused
                    /\ BM!FaultDetectedInTime /\ BM!RefusalBounded /\ BM!SettledInTime)
<1>1. LP!MonitorSpec => /\ []LP!FaultDetectedInTime /\ []LP!RefusalBounded
                        /\ []LP!SettledInTime /\ []LP!SidelightsNeverRefused
  BY LP!LightsFaultDetected, LP!LightsRefusalBounded, LP!LightsSettled, LP!SidelightsObey,
     ComponentAssumptions
<1>2. BP!MonitorSpec => /\ []BP!FaultDetectedInTime /\ []BP!RefusalBounded
                        /\ []BP!SettledInTime
  BY BP!BlinkersFaultDetected, BP!BlinkersRefusalBounded, BP!BlinkersSettled,
     ComponentAssumptions
<1>3. /\ LP!FaultDetectedInTime => LM!FaultDetectedInTime
      /\ LP!RefusalBounded => LM!RefusalBounded
      /\ LP!SettledInTime => LM!SettledInTime
      /\ LP!SidelightsNeverRefused => LM!SidelightsNeverRefused
  BY DEF LP!FaultDetectedInTime, LM!FaultDetectedInTime, LP!RefusalBounded, LM!RefusalBounded,
         LP!SettledInTime, LM!SettledInTime, LP!SidelightsNeverRefused,
         LM!SidelightsNeverRefused, LP!TimedLights, LM!TimedLights,
         LP!ACKNOWLEDGED, LM!ACKNOWLEDGED, LP!ERROR, LM!ERROR
<1>4. /\ BP!FaultDetectedInTime => BM!FaultDetectedInTime
      /\ BP!RefusalBounded => BM!RefusalBounded
      /\ BP!SettledInTime => BM!SettledInTime
  BY DEF BP!FaultDetectedInTime, BM!FaultDetectedInTime, BP!RefusalBounded, BM!RefusalBounded,
         BP!SettledInTime, BM!SettledInTime, BP!ACTIVE_ON_ACKNOWLEDGED,
         BM!ACTIVE_ON_ACKNOWLEDGED, BP!ERROR, BM!ERROR
<1> QED BY <1>1, <1>2, <1>3, <1>4, MonitorComponents, PTL

\* Cycle by cycle, wiping and washing are served in time, and after a wash the
\* windscreen is left alone for exactly the delay.
THEOREM LoopServesWindscreen ==
  MonitorSpec => [](WM!WipeServedInTime /\ WM!WashServedInTime) /\ WM!WaitIsExact
<1>1. WP!MonitorSpec => []WP!WipeServedInTime /\ []WP!WashServedInTime /\ WP!WaitIsExact
  BY WP!WipersWipeServed, WP!WipersWashServed, WP!WipersWaitIsExact, ComponentAssumptions
<1>2. /\ WP!WipeServedInTime => WM!WipeServedInTime
      /\ WP!WashServedInTime => WM!WashServedInTime
  BY DEF WP!WipeServedInTime, WM!WipeServedInTime, WP!WashServedInTime, WM!WashServedInTime
<1>3. WP!WaitIsExact => WM!WaitIsExact
  BY PTL DEF WP!WaitIsExact, WM!WaitIsExact, WP!mvars, WM!mvars, WP!vars, WM!vars,
             WP!monitor, WM!monitor, WP!WAIT, WM!WAIT, WP!OFF, WM!OFF, WP!WASH, WM!WASH
<1> QED BY <1>1, <1>2, <1>3, MonitorComponents, PTL

\* A device the BGF has not accepted a frame for is given up once its command has been
\* on for more cycles in a row than the timer has values.
THEOREM DevicesGivenUp == MonitorSpec => []GivenUpInTime
<1>1. LP!MonitorSpec => []LP!SettledInTime
  BY LP!LightsSettled, ComponentAssumptions
<1>2. BP!MonitorSpec => []BP!SettledInTime
  BY BP!BlinkersSettled, ComponentAssumptions
<1>3. LP!SettledInTime /\ BP!SettledInTime /\ AcknowledgedOnlyIfHeard => GivenUpInTime
  BY DEF LP!SettledInTime, LP!TimedLights, LP!ACKNOWLEDGED, LP!ERROR,
         BP!SettledInTime, BP!ACTIVE_ON_ACKNOWLEDGED, BP!ERROR,
         AcknowledgedOnlyIfHeard, Acknowledged, Failed, GivenUpInTime, Unanswered, Supervised,
         Devices, L!ACKNOWLEDGED, L!ERROR, B!ACTIVE_ON_ACKNOWLEDGED, B!ERROR
<1> QED BY <1>1, <1>2, <1>3, MonitorComponents, NoUnheardAcknowledgement, PTL

\* No step of the loop shows a light that was not driven, commanded and answered since
\* its last call, puts out a commanded one but by a fault, or puts out the warnings
\* indicator but by a blinker driven for its own command.
THEOREM LoopKeepsStepPromises ==
  MonitorSpec => /\ LM!IndicatorNeedsAcknowledgement /\ L!DarkOnlyByFault
                 /\ B!WarningsIndicatorGoesOutByBlinker
<1>1. LP!MonitorSpec => LP!IndicatorNeedsAcknowledgement /\ LP!DarkOnlyByFault
  BY LP!LightsIndicatorNeedsAcknowledgement, LP!LightsDarkOnlyByFault, ComponentAssumptions
<1>2. BP!MonitorSpec => BP!WarningsIndicatorGoesOutByBlinker
  BY BP!BlinkersIndicatorGoesOut, ComponentAssumptions
<1>3. LP!IndicatorNeedsAcknowledgement => LM!IndicatorNeedsAcknowledgement
  BY PTL DEF LP!IndicatorNeedsAcknowledgement, LM!IndicatorNeedsAcknowledgement,
             LP!mvars, LM!mvars, LP!vars, LM!vars, LP!monitor, LM!monitor,
             LP!counters, LM!counters
<1>4. LP!DarkOnlyByFault => L!DarkOnlyByFault
  BY PTL DEF LP!DarkOnlyByFault, L!DarkOnlyByFault, LP!vars, L!vars, LP!ERROR, L!ERROR
<1>5. BP!WarningsIndicatorGoesOutByBlinker => B!WarningsIndicatorGoesOutByBlinker
  BY PTL DEF BP!WarningsIndicatorGoesOutByBlinker, B!WarningsIndicatorGoesOutByBlinker,
             BP!vars, B!vars
<1> QED BY <1>1, <1>2, <1>3, <1>4, <1>5, MonitorComponents, PTL

-----------------------------------------------------------------------------
(***************************************************************************)
(* From the BGF to the dashboard.                                          *)
(***************************************************************************)

\* The dashboard shows a light only when the BGF has accepted a frame for it.
THEOREM ShownOnlyIfHeard ==
  Spec => [](pc = "write_udp" => \A l \in Lights : Shows(l) => l \in heard)
<1>1. DevicesInv /\ BcgvInv /\ AcknowledgedOnlyIfHeard
        => (pc = "write_udp" => \A l \in Lights : Shows(l) => l \in heard)
  <2> SUFFICES ASSUME DevicesInv, BcgvInv, AcknowledgedOnlyIfHeard, pc = "write_udp",
                      NEW l \in Lights, Shows(l)
               PROVE  l \in heard
    OBVIOUS
  <2>1. lights_ind[l]
    BY FrameShows
  <2>2. Acknowledged(l)
    BY <2>1 DEF DevicesInv, Acknowledged
  <2> QED BY <2>2 DEF AcknowledgedOnlyIfHeard, Devices
<1> QED BY <1>1, DevicesInvariant, BcgvInvariant, NoUnheardAcknowledgement, PTL

\* As built: a BGF that does not answer to the frames' size as a serial number accepts
\* none of them, so no device is ever acknowledged and the dashboard shows no light.
THEOREM AsBuiltUnheard ==
  ASSUME BGF_OUT_FRAME_SIZE \notin BgfAddresses
  PROVE  Spec => [](/\ heard = {}
                    /\ \A d \in Devices : ~Acknowledged(d)
                    /\ pc = "write_udp" => \A l \in Lights : ~Shows(l))
<1>1. Init => heard = {}
  BY DEF Init
<1>2. BcgvInv /\ heard = {} /\ [Next]_vars => (heard = {})'
  <2> SUFFICES ASSUME BcgvInv, heard = {}, [Next]_vars PROVE heard' = {}
    OBVIOUS
  <2>1. CASE WriteLns
    <3>1. \A i \in BgfIds : bgf_frames[i].serNum = BGF_OUT_FRAME_SIZE
      BY <2>1 DEF WriteLns, BcgvInv, OrderInv, Encode_bgf
    <3>2. {j \in BgfIds : Accepted(j)} = {}
      BY <3>1 DEF Accepted
    <3> QED BY <2>1, <3>2 DEF WriteLns
  <2>2. CASE UNCHANGED vars \/ (Next /\ ~WriteLns)
    BY <2>2 DEF Next, Cycle, Open, ReadUdp, ReadLns, DecodeFrame, DecodeDone, ComputeLight,
                ComputeBlinker, ComputeWipers, Transfer, WriteUdp, DriverFails, vars, lnsVars
  <2> QED BY <2>1, <2>2
<1>3. Spec => [](heard = {})
  BY <1>1, <1>2, BcgvInvariant, PTL DEF Spec
<1>4. /\ heard = {} /\ AcknowledgedOnlyIfHeard => \A d \in Devices : ~Acknowledged(d)
      /\ heard = {} /\ (pc = "write_udp" => \A l \in Lights : Shows(l) => l \in heard)
           => (pc = "write_udp" => \A l \in Lights : ~Shows(l))
  BY DEF AcknowledgedOnlyIfHeard
<1> QED BY <1>3, <1>4, NoUnheardAcknowledgement, ShownOnlyIfHeard, PTL

\* As built, every device with a timer whose command stays on is therefore given up: the
\* README's lights that go out again.
THEOREM AsBuiltGivenUp ==
  ASSUME BGF_OUT_FRAME_SIZE \notin BgfAddresses
  PROVE  MonitorSpec => [](\A d \in Supervised : Unanswered(d) > TIMER_MAX + 1 => Failed(d))
<1>1. heard = {} /\ GivenUpInTime
        => \A d \in Supervised : Unanswered(d) > TIMER_MAX + 1 => Failed(d)
  BY DEF GivenUpInTime
<1> QED BY <1>1, MonitorComponents, AsBuiltUnheard, DevicesGivenUp, PTL
=============================================================================
