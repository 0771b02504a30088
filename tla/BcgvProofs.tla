----------------------------- MODULE BcgvProofs -----------------------------
(***************************************************************************)
(* The body controller, for every set of commands, of vehicle reports, of  *)
(* losses and of addresses, and every timer width.  Nothing here depends   *)
(* on the automata's delays.                                               *)
(***************************************************************************)
EXTENDS Bcgv, MuxCodecProofs, SequenceTheorems

-----------------------------------------------------------------------------
(***************************************************************************)
(* The automata, as far as the loop depends on them.                       *)
(***************************************************************************)

\* What compute_<light>() does to its own light and to the others'.
LEMMA LightEffect ==
  ASSUME L!TypeOK, NEW l \in Lights, L!Compute(l)
  PROVE  /\ L!TypeOK'
         /\ lights_in' = lights_in
         /\ lights_ack' = [lights_ack EXCEPT ![l] = FALSE]
         /\ lights_fsm'[l] = L!ACKNOWLEDGED => lights_fsm[l] = L!ACKNOWLEDGED \/ lights_ack[l]
         /\ lights_out'[l] => lights_in[l]
         /\ lights_ind'[l] => lights_out'[l]
         /\ \A m \in Lights \ {l} : /\ lights_fsm'[m] = lights_fsm[m]
                                    /\ lights_out'[m] = lights_out[m]
                                    /\ lights_ind'[m] = lights_ind[m]
<1>1. PICK k \in L!Tick(L!transitions, lights_fsm[l], L!Event(l), lights_timer[l]) :
        /\ lights_fsm' = [lights_fsm EXCEPT ![l] = k.state]
        /\ lights_timer' = [lights_timer EXCEPT ![l] = L!StoredTimer(l, k)]
        /\ lights_ack' = [lights_ack EXCEPT ![l] = FALSE]
        /\ lights_out' = [lights_out EXCEPT ![l] = k.state \in {L!ON, L!ACKNOWLEDGED}]
        /\ lights_ind' = [lights_ind EXCEPT ![l] = k.state = L!ACKNOWLEDGED]
        /\ lights_in' = lights_in
      BY DEF L!Compute
<1> DEFINE hits == L!Matching(L!transitions, lights_fsm[l], L!Event(l))
<1>2. \/ hits = {} /\ k.state = lights_fsm[l] /\ k.timer = L!IncrementTimer(lights_timer[l])
      \/ \E t \in hits : k.state = t.to /\ k.timer = L!IncrementTimer(0)
      BY DEF L!Tick
<1>3. /\ k.state \in L!fsm_lights_state_t
      /\ k.state = L!ACKNOWLEDGED => lights_fsm[l] = L!ACKNOWLEDGED \/ lights_ack[l]
      /\ k.state \in {L!ON, L!ACKNOWLEDGED} => lights_in[l]
  <2>1. lights_fsm[l] \in L!fsm_lights_state_t
        BY DEF L!TypeOK
  <2>2. /\ L!Event(l) = "ACK_RECEIVED" => lights_ack[l]
        /\ ~lights_in[l] => L!Event(l) = "COMMAND_OFF"
        BY DEF L!Event
  <2>3. CASE hits = {}
    <3>1. \A t \in L!transitions : t.from = lights_fsm[l] => t.on # L!Event(l)
          BY <2>3 DEF L!Matching
    <3>2. lights_fsm[l] \in {L!ON, L!ACKNOWLEDGED} => L!Event(l) # "COMMAND_OFF"
          BY <3>1 DEF L!transitions
    <3>3. QED
          BY <1>2, <2>1, <2>2, <2>3, <3>2
  <2>4. ASSUME NEW t \in hits
        PROVE  /\ t.to \in L!fsm_lights_state_t
               /\ t.to = L!ACKNOWLEDGED => L!Event(l) = "ACK_RECEIVED"
               /\ t.to \in {L!ON, L!ACKNOWLEDGED} => L!Event(l) # "COMMAND_OFF"
    <3>1. t \in L!transitions /\ (t.on = L!Event(l) \/ t.on = L!ANY)
          BY DEF L!Matching
    <3>2. QED
          BY <3>1 DEF L!transitions, L!fsm_lights_state_t, L!ANY,
                      L!OFF, L!ON, L!ACKNOWLEDGED, L!ERROR
  <2>5. QED
        BY <1>2, <2>2, <2>3, <2>4
<1>4. k.timer \in L!fsm_timer_t /\ L!StoredTimer(l, k) \in L!fsm_timer_t
      BY <1>2, <1>3, TimerMaxAssumption
      DEF L!TypeOK, L!IncrementTimer, L!fsm_timer_t, L!StoredTimer, L!ToTimer,
          L!fsm_lights_state_t, L!OFF, L!ON, L!ACKNOWLEDGED, L!ERROR
<1>5. L!TypeOK'
      BY <1>1, <1>3, <1>4 DEF L!TypeOK
<1>6. QED
      BY <1>1, <1>3, <1>5 DEF L!TypeOK

\* What compute_<blinker>() does.
LEMMA BlinkerEffect ==
  ASSUME B!TypeOK, NEW b \in Blinkers, B!Compute(b)
  PROVE  /\ B!TypeOK'
         /\ blinkers_in' = blinkers_in /\ warnings_in' = warnings_in
         /\ blinkers_ack' = [blinkers_ack EXCEPT ![b] = FALSE]
         /\ blinkers_fsm'[b] = B!ACTIVE_ON_ACKNOWLEDGED
              => blinkers_fsm[b] = B!ACTIVE_ON_ACKNOWLEDGED \/ blinkers_ack[b]
         /\ blinkers_out'[b] => blinkers_in[b] \/ warnings_in
         /\ indicator_warnings' = IF blinkers_out'[b] THEN warnings_in ELSE indicator_warnings
         /\ \A c \in Blinkers \ {b} : /\ blinkers_fsm'[c] = blinkers_fsm[c]
                                      /\ blinkers_out'[c] = blinkers_out[c]
<1>1. PICK k \in B!Tick(B!transitions, blinkers_fsm[b], B!Event(b), blinkers_timer[b]) :
        /\ blinkers_fsm' = [blinkers_fsm EXCEPT ![b] = k.state]
        /\ blinkers_timer' = [blinkers_timer EXCEPT ![b] = k.timer]
        /\ blinkers_ack' = [blinkers_ack EXCEPT ![b] = FALSE]
        /\ blinkers_out' = [blinkers_out EXCEPT ![b] = k.state \in B!Shining]
        /\ indicator_warnings' = B!WarningsShown(k.state)
        /\ blinkers_in' = blinkers_in /\ warnings_in' = warnings_in
      BY DEF B!Compute
<1> DEFINE hits == B!Matching(B!transitions, blinkers_fsm[b], B!Event(b))
<1>2. \/ hits = {} /\ k.state = blinkers_fsm[b] /\ k.timer = B!IncrementTimer(blinkers_timer[b])
      \/ \E t \in hits : k.state = t.to /\ k.timer = B!IncrementTimer(0)
      BY DEF B!Tick
<1>3. /\ k.state \in B!fsm_blinkers_state_t
      /\ k.state = B!ACTIVE_ON_ACKNOWLEDGED
           => blinkers_fsm[b] = B!ACTIVE_ON_ACKNOWLEDGED \/ blinkers_ack[b]
      /\ k.state \in B!Shining => blinkers_in[b] \/ warnings_in
  <2>1. blinkers_fsm[b] \in B!fsm_blinkers_state_t
        BY DEF B!TypeOK
  <2>2. /\ B!Event(b) = "ACK_RECEIVED" => blinkers_ack[b]
        /\ ~(blinkers_in[b] \/ warnings_in) => B!Event(b) = "COMMAND_OFF"
        BY DEF B!Event, B!Commanded
  <2>3. CASE hits = {}
    <3>1. \A t \in B!transitions : t.from = blinkers_fsm[b] => t.on # B!Event(b)
          BY <2>3 DEF B!Matching
    <3>2. blinkers_fsm[b] \in B!Shining => B!Event(b) # "COMMAND_OFF"
          BY <3>1 DEF B!transitions, B!Shining
    <3>3. QED
          BY <1>2, <2>1, <2>2, <2>3, <3>2
  <2>4. ASSUME NEW t \in hits
        PROVE  /\ t.to \in B!fsm_blinkers_state_t
               /\ t.to = B!ACTIVE_ON_ACKNOWLEDGED => B!Event(b) = "ACK_RECEIVED"
               /\ t.to \in B!Shining => B!Event(b) # "COMMAND_OFF"
    <3>1. t \in B!transitions /\ (t.on = B!Event(b) \/ t.on = B!ANY)
          BY DEF B!Matching
    <3>2. QED
          BY <3>1 DEF B!transitions, B!fsm_blinkers_state_t, B!ANY, B!Shining,
                      B!OFF, B!ACTIVE_ON, B!ACTIVE_OFF,
                      B!ACTIVE_ON_ACKNOWLEDGED, B!ACTIVE_OFF_ACKNOWLEDGED, B!ERROR
  <2>5. QED
        BY <1>2, <2>2, <2>3, <2>4
<1>4. k.timer \in B!fsm_timer_t
      BY <1>2, TimerMaxAssumption DEF B!TypeOK, B!IncrementTimer, B!fsm_timer_t
<1>5. B!WarningsShown(k.state) = IF k.state \in B!Shining THEN warnings_in ELSE indicator_warnings
      BY DEF B!WarningsShown
<1>6. B!TypeOK'
      BY <1>1, <1>3, <1>4, <1>5 DEF B!TypeOK
<1>7. QED
      BY <1>1, <1>3, <1>5, <1>6 DEF B!TypeOK

\* compute_wipers() keeps its types.
LEMMA WipersEffect ==
  ASSUME W!TypeOK, W!Compute_wipers
  PROVE  W!TypeOK'
<1>1. PICK k \in W!Tick(W!transitions, wipers_fsm, W!Event, wipers_timer) :
        /\ wipers_fsm' = k.state /\ wipers_timer' = k.timer
        /\ wipers_out' = (k.state \in {W!ON, W!WASH})
        /\ washer_fluid_out' = (k.state = W!WASH)
        /\ wipers_in' = wipers_in /\ washer_fluid_in' = washer_fluid_in
      BY DEF W!Compute_wipers
<1>2. \/ k.state = wipers_fsm /\ k.timer = W!IncrementTimer(wipers_timer)
      \/ \E t \in W!transitions : k.state = t.to /\ k.timer = W!IncrementTimer(0)
      BY DEF W!Tick, W!Matching
<1>3. k.state \in W!fsm_wipers_state_t /\ W!IncrementTimer(0) \in W!fsm_timer_t
      BY <1>2, TimerMaxAssumption
      DEF W!IncrementTimer, W!fsm_timer_t, W!TypeOK, W!transitions, W!fsm_wipers_state_t,
          W!OFF, W!ON, W!WASH, W!WAIT
<1>4. k.timer \in W!fsm_timer_t
      BY <1>2, TimerMaxAssumption DEF W!TypeOK, W!IncrementTimer, W!fsm_timer_t
<1>5. QED
      BY <1>1, <1>3, <1>4 DEF W!TypeOK

-----------------------------------------------------------------------------
(***************************************************************************)
(* The inductive invariant.                                                *)
(***************************************************************************)

\* At the start nothing is computed, driven or acknowledged.
LEMMA InitLoop == Init => LoopInv
<1> SUFFICES ASSUME Init PROVE LoopInv
    OBVIOUS
<1>1. L!TypeOK /\ B!TypeOK /\ W!TypeOK
  <2>1. 0 \in L!fsm_timer_t /\ 0 \in B!fsm_timer_t /\ 0 \in W!fsm_timer_t
        BY TimerMaxAssumption DEF L!fsm_timer_t, B!fsm_timer_t, W!fsm_timer_t
  <2>2. L!TypeOK
        BY <2>1 DEF Init, L!Init, L!TypeOK, L!fsm_lights_state_t
  <2>3. B!TypeOK
        BY <2>1 DEF Init, B!Init, B!TypeOK, B!fsm_blinkers_state_t
  <2>4. W!TypeOK
        BY <2>1 DEF Init, W!Init, W!TypeOK, W!fsm_wipers_state_t
  <2>5. QED
        BY <2>2, <2>3, <2>4
<1>2. vehicle \in VehicleType
      BY DEF Init, Zeroes, VehicleType, byte, tank_level_t, motor_speed_t
<1>3. <<0, 0, 0, 0>> \in word /\ Word(<<0, 0, 0, 0>>) = 0
      BY DEF word, byte, Word, AppendByte
<1>4. mux_data \in MuxData /\ vehicle = VehicleOf(mux_data)
  <2>1. mux_data = [ mileage |-> <<0, 0, 0, 0>>, speed |-> 0, frame_flags |-> {},
                     motor_flags |-> {}, tank_level |-> 0,
                     motor_speed |-> <<0, 0, 0, 0>>, battery_flags |-> {} ]
        BY DEF Init, Zeroes
  <2>2. mux_data \in MuxData
        BY <1>3, <2>1 DEF MuxData, byte
  <2>3. vehicle = VehicleOf(mux_data)
        BY <1>3, <2>1 DEF Init, Zeroes, VehicleOf
  <2>4. QED
        BY <2>2, <2>3
<1>5. TypeOK
  <2>1. 0 \in mux_id_t /\ received \in Seq(Arrivals) /\ Len(received) <= MAX_BATCH
        BY FramesAssumption DEF Init, mux_id_t
  <2>2. frame_size \in [BgfIds -> 0 .. 2]
        BY DEF Init
  <2>3. bgf_frames \in BgfFrames
        BY DEF Init, BgfFrames, byte
  <2>4. QED
        BY <1>1, <1>2, <1>4, <2>1, <2>2, <2>3 DEF Init, TypeOK, Steps
<1>6. Computed = {}
      BY DEF Init, Computed
<1>7. \A d \in Devices : ~Acknowledging(d)
      BY DEF Init, Acknowledging, Devices, L!Init, B!Init, L!OFF, L!ACKNOWLEDGED,
             B!OFF, B!ACTIVE_ON_ACKNOWLEDGED
<1>8. QED
      BY <1>4, <1>5, <1>6, <1>7 DEF Init, LoopInv, L!Init

\* The types of what the driver may deliver.
LEMMA ArrivalType ==
  ASSUME NEW f \in Arrivals
  PROVE  /\ f.size \in 0 .. 2
         /\ \/ f.from = "commodos" /\ f.command \in SUBSET CommandNames
            \/ f.from = "bgf" /\ f.id \in BgfIds /\ BgfDevice[f.id] \in heard
BY FramesAssumption DEF Arrivals

\* Every frame id stands for a device.
LEMMA BgfDevices == \A i \in BgfIds : BgfDevice[i] \in Devices
BY DEF BgfIds, BgfDevice, Devices, Lights, Blinkers

\* What the invariant says of the automata does not change as long as they do not.
LEMMA AutomataUnchanged ==
  ASSUME LoopInv, UNCHANGED <<lightsVars, blinkersVars, wipersVars>>
  PROVE  /\ L!TypeOK' /\ B!TypeOK' /\ W!TypeOK'
         /\ \A d : Out(d)' = Out(d) /\ CommandOf(d)' = CommandOf(d)
                   /\ Acknowledging(d)' = Acknowledging(d)
         /\ lights_ind' = lights_ind /\ lights_out' = lights_out
         /\ indicator_warnings' = indicator_warnings /\ warnings_in' = warnings_in
<1> USE DEF lightsVars, blinkersVars, wipersVars
<1>1. L!TypeOK'
      BY DEF LoopInv, TypeOK, L!TypeOK
<1>2. B!TypeOK'
      BY DEF LoopInv, TypeOK, B!TypeOK
<1>3. W!TypeOK'
      BY DEF LoopInv, TypeOK, W!TypeOK
<1>4. \A d : Out(d)' = Out(d) /\ CommandOf(d)' = CommandOf(d)
      BY DEF Out, CommandOf
<1>5. \A d : Acknowledging(d)' = Acknowledging(d)
      BY DEF Acknowledging
<1>6. QED
      BY <1>1, <1>2, <1>3, <1>4, <1>5

\* A step that leaves the automata, the batch and what the BGF has heard alone keeps
\* the invariant if it keeps what is said of the MUX side, makes frames for the BGF if
\* any, and calls no device computed that was not.
LEMMA OtherStep ==
  ASSUME LoopInv, UNCHANGED <<lightsVars, blinkersVars, wipersVars>>,
         UNCHANGED <<received, frame_size, heard, ordered>>, bgf_frames' \in BgfFrames,
         pc' \in Steps, Computed' \subseteq Computed,
         mux_frame_id' \in mux_id_t, last_read' \in mux_id_t, mux_warned' \in BOOLEAN,
         vehicle' \in VehicleType,
         indicators' \subseteq DOMAIN FirstByte \cup DOMAIN SecondByte,
         mux_sent' \in 1 .. MUX_ID_MAX, mux_lost' \in Losses, mux_data' \in MuxData,
         last_read' # 0 => last_read' = mux_sent',
         vehicle' = VehicleOf(mux_data'),
         pc' \in {"write_udp", "write_lns"} => indicators' = VehicleIndicators(vehicle')
  PROVE  LoopInv'
<1>1. Arrivals' = Arrivals
      BY DEF Arrivals
<1>2. TypeOK'
      BY <1>1, AutomataUnchanged DEF LoopInv, TypeOK
<1>3. \A d \in Devices : Acknowledging(d)' => d \in heard'
      BY AutomataUnchanged DEF LoopInv
<1>4. /\ \A l \in Lights : lights_ind'[l] => lights_out'[l]
      /\ \A d \in Computed' : Out(d)' => CommandOf(d)'
      /\ \A b \in Blinkers \cap Computed' : Out(b)' => (indicator_warnings' <=> warnings_in')
      BY AutomataUnchanged DEF LoopInv
<1>5. QED
      BY <1>2, <1>3, <1>4 DEF LoopInv

\* The MUX's next frame, decoded.
LEMMA ReadUdpStep == LoopInv /\ ReadUdp => LoopInv'
<1> SUFFICES ASSUME LoopInv, ReadUdp PROVE LoopInv'
    OBVIOUS
<1>1. PICK lost \in Losses, data \in MuxFrames :
        /\ mux_sent' = ((mux_sent + lost) % MUX_ID_MAX) + 1
        /\ mux_lost' = lost
        /\ mux_frame_id' = Assign(mux_frame_id, mux_sent', mux_id_t)
        /\ vehicle' = Decode_mux(vehicle, data)
        /\ mux_data' = [data EXCEPT
             !.tank_level  = IF @ \in tank_level_t THEN @ ELSE mux_data.tank_level,
             !.motor_speed = IF Word(@) \in motor_speed_t THEN @ ELSE mux_data.motor_speed]
      BY DEF ReadUdp
<1>2. data \in MuxData
      BY FramesAssumption
<1>3. mux_sent' \in 1 .. MUX_ID_MAX /\ mux_sent' \in mux_id_t
  <2>0. mux_sent \in 1 .. MUX_ID_MAX
        BY DEF LoopInv, TypeOK
  <2>1. MUX_ID_MAX \in 1 .. 100 /\ mux_sent + lost \in Nat
        BY <2>0, FramesAssumption DEF mux_id_t
  <2>2. (mux_sent + lost) % MUX_ID_MAX \in 0 .. MUX_ID_MAX - 1
        BY <2>1
  <2>3. QED
        BY <1>1, <2>1, <2>2 DEF mux_id_t
<1>4. mux_frame_id' = mux_sent' /\ last_read' = mux_sent' /\ mux_warned' \in BOOLEAN
      BY <1>1, <1>3 DEF ReadUdp, Assign
<1>5. vehicle' \in VehicleType
      BY <1>1, <1>2, DecodeType DEF LoopInv, TypeOK
<1>6. mux_data' \in MuxData /\ vehicle' = VehicleOf(mux_data')
  <2>1. mux_data \in MuxData /\ vehicle = VehicleOf(mux_data)
        BY DEF LoopInv, TypeOK
  <2> DEFINE tank  == IF data.tank_level \in tank_level_t THEN data.tank_level
                                                          ELSE mux_data.tank_level
             motor == IF Word(data.motor_speed) \in motor_speed_t THEN data.motor_speed
                                                                  ELSE mux_data.motor_speed
  <2>2. mux_data' = [ mileage |-> data.mileage, speed |-> data.speed,
                      frame_flags |-> data.frame_flags, motor_flags |-> data.motor_flags,
                      tank_level |-> tank, motor_speed |-> motor,
                      battery_flags |-> data.battery_flags ]
        BY <1>1, <1>2 DEF MuxData
  <2>3. mux_data' \in MuxData
        BY <1>2, <2>1, <2>2 DEF MuxData
  <2>4. /\ tank = Assign(vehicle.tank_level, data.tank_level, tank_level_t)
        /\ Word(motor) = Assign(vehicle.motor_speed, Word(data.motor_speed), motor_speed_t)
        BY <2>1 DEF VehicleOf, Assign
  <2>5. vehicle' = VehicleOf(mux_data')
        BY <1>1, <2>2, <2>4 DEF Decode_mux, VehicleOf
  <2>6. QED
        BY <2>3, <2>5
<1>7. pc' = "read_lns" /\ pc = "read_udp" /\ Computed' = {} /\ pc' \in Steps
      BY DEF ReadUdp, Computed, Steps
<1>8. UNCHANGED <<lightsVars, blinkersVars, wipersVars, lnsVars, indicators>>
      BY DEF ReadUdp
<1>9. /\ indicators' \subseteq DOMAIN FirstByte \cup DOMAIN SecondByte
      /\ UNCHANGED <<received, frame_size, heard, ordered>> /\ bgf_frames' \in BgfFrames
      BY <1>8 DEF LoopInv, TypeOK, lnsVars
<1>10. mux_frame_id' \in mux_id_t /\ last_read' \in mux_id_t /\ mux_lost' \in Losses
       BY <1>1, <1>3, <1>4
<1>11. QED
       BY <1>3, <1>4, <1>5, <1>6, <1>7, <1>8, <1>9, <1>10, OtherStep

\* The line's frames, read.
LEMMA ReadLnsStep == LoopInv /\ ReadLns => LoopInv'
<1> SUFFICES ASSUME LoopInv, ReadLns PROVE LoopInv'
    OBVIOUS
<1>1. PICK n \in 0 .. MAX_BATCH : received' \in [1 .. n -> Arrivals]
      BY DEF ReadLns
<1>2. received' \in Seq(Arrivals) /\ Len(received') = n /\ n <= MAX_BATCH
  <2>1. n \in Nat /\ n <= MAX_BATCH
        BY FramesAssumption
  <2>2. QED
        BY <1>1, <2>1
<1>3. frame_size' \in [BgfIds -> 0 .. 2]
  <2>1. \A i \in BgfIds : i <= Len(received') => received'[i].size \in 0 .. 2
        BY <1>1, <1>2, ArrivalType DEF BgfIds
  <2>2. QED
        BY <2>1 DEF ReadLns, LoopInv, TypeOK
<1>4. /\ heard' = heard /\ bgf_frames' = bgf_frames
      /\ Arrivals' = Arrivals /\ pc' = "decode" /\ Computed' = {}
      BY DEF ReadLns, Arrivals, Computed
<1>5. UNCHANGED <<lightsVars, blinkersVars, wipersVars, muxVars, indicators>>
      BY DEF ReadLns
<1>6. ordered' \subseteq CommandNames
  <2>1. ASSUME NEW i \in Readable(received') PROVE received'[i].command \subseteq CommandNames
    <3>1. received'[i] \in Arrivals /\ received'[i].from = "commodos"
          BY <1>1, <1>2 DEF Readable
    <3>2. QED
          BY <3>1, ArrivalType
  <2>2. ordered \subseteq CommandNames
        BY DEF LoopInv, TypeOK
  <2>3. QED
        BY <2>1, <2>2 DEF ReadLns
<1>7. TypeOK'
      BY <1>2, <1>3, <1>4, <1>5, <1>6, AutomataUnchanged DEF LoopInv, TypeOK, muxVars, Steps
<1>8. QED
      BY <1>4, <1>5, <1>7, AutomataUnchanged DEF LoopInv, muxVars

\* One frame of the line, decoded: an acknowledgement is of what the BGF has accepted.
LEMMA DecodeFrameStep == LoopInv /\ DecodeFrame => LoopInv'
<1> SUFFICES ASSUME LoopInv, DecodeFrame PROVE LoopInv'
    OBVIOUS
<1> DEFINE f == Head(received)
<1>1. f \in Arrivals /\ received' \in Seq(Arrivals) /\ Len(received') <= MAX_BATCH
  <2>1. received \in Seq(Arrivals) /\ received # <<>> /\ Len(received) <= MAX_BATCH
        BY DEF LoopInv, TypeOK, DecodeFrame
  <2>2. /\ f \in Arrivals /\ Tail(received) \in Seq(Arrivals)
        /\ Len(Tail(received)) = Len(received) - 1
        BY <2>1, HeadTailProperties
  <2>3. Len(received) \in Nat
        BY <2>1
  <2>4. QED
        BY <2>1, <2>2, <2>3, FramesAssumption DEF DecodeFrame
<1>2. /\ pc = "decode" /\ pc' = pc /\ heard' = heard /\ Arrivals' = Arrivals
      /\ Computed' = {} /\ Computed = {}
      /\ UNCHANGED <<muxVars, indicators, frame_size, bgf_frames, ordered>>
      BY DEF DecodeFrame, Arrivals, Computed
<1>3. /\ L!TypeOK' /\ B!TypeOK' /\ W!TypeOK'
      /\ \A d \in Devices : Acknowledging(d)' => d \in heard
      /\ lights_ind' = lights_ind /\ lights_out' = lights_out
  <2>0. L!TypeOK /\ B!TypeOK /\ W!TypeOK
        BY DEF LoopInv, TypeOK
  <2>1. CASE UNCHANGED <<lightsVars, blinkersVars, wipersVars>>
        BY <2>1, AutomataUnchanged DEF LoopInv
  <2>2. CASE Decode_commodos(f.command)
    <3>1. /\ UNCHANGED <<lights_fsm, lights_timer, lights_ack, lights_out, lights_ind>>
          /\ UNCHANGED <<blinkers_fsm, blinkers_timer, blinkers_ack, blinkers_out>>
          /\ UNCHANGED indicator_warnings
          /\ UNCHANGED <<wipers_fsm, wipers_timer, wipers_out, washer_fluid_out>>
          BY <2>2 DEF Decode_commodos, L!Decode_commodos, B!Decode_commodos, W!Decode_commodos
    <3>2. /\ lights_in' \in [Lights -> BOOLEAN] /\ blinkers_in' \in [Blinkers -> BOOLEAN]
          /\ warnings_in' \in BOOLEAN /\ wipers_in' \in BOOLEAN /\ washer_fluid_in' \in BOOLEAN
          BY <2>2 DEF Decode_commodos
    <3>3. L!TypeOK'
          BY <2>0, <3>1, <3>2 DEF L!TypeOK
    <3>4. B!TypeOK'
          BY <2>0, <3>1, <3>2 DEF B!TypeOK
    <3>5. W!TypeOK'
          BY <2>0, <3>1, <3>2 DEF W!TypeOK
    <3>6. QED
          BY <3>1, <3>3, <3>4, <3>5 DEF LoopInv, Acknowledging
  <2>3. CASE f.from = "bgf" /\ Decode_bgf(f.id)
    <3> DEFINE a == BgfDevice[f.id]
    <3>1. a \in heard
          BY <1>1, <2>3, ArrivalType
    <3>2. CASE a \in Lights /\ L!Decode_bgf(a) /\ UNCHANGED <<blinkersVars, wipersVars>>
      <4>1. /\ lights_ack' = [lights_ack EXCEPT ![a] = TRUE]
            /\ UNCHANGED <<lights_fsm, lights_timer, lights_in, lights_out, lights_ind>>
            BY <3>2 DEF L!Decode_bgf
      <4>2. L!TypeOK'
            BY <2>0, <3>2, <4>1 DEF L!TypeOK
      <4>3. B!TypeOK' /\ W!TypeOK'
            BY <2>0, <3>2 DEF B!TypeOK, W!TypeOK, blinkersVars, wipersVars
      <4>4. lights_ack \in [Lights -> BOOLEAN]
            BY <2>0 DEF L!TypeOK
      <4>5. \A d \in Devices : Acknowledging(d)' => d \in heard
            BY <3>1, <3>2, <4>1, <4>4 DEF LoopInv, Acknowledging, blinkersVars
      <4>6. QED
            BY <4>1, <4>2, <4>3, <4>5
    <3>3. CASE a \in Blinkers /\ B!Decode_bgf(a) /\ UNCHANGED <<lightsVars, wipersVars>>
      <4>1. /\ blinkers_ack' = [blinkers_ack EXCEPT ![a] = TRUE]
            /\ UNCHANGED <<blinkers_fsm, blinkers_timer, blinkers_in, blinkers_out,
                           warnings_in, indicator_warnings>>
            BY <3>3 DEF B!Decode_bgf
      <4>2. B!TypeOK'
            BY <2>0, <3>3, <4>1 DEF B!TypeOK
      <4>3. L!TypeOK' /\ W!TypeOK'
            BY <2>0, <3>3 DEF L!TypeOK, W!TypeOK, lightsVars, wipersVars
      <4>4. blinkers_ack \in [Blinkers -> BOOLEAN]
            BY <2>0 DEF B!TypeOK
      <4>5. \A d \in Devices : Acknowledging(d)' => d \in heard
            BY <3>1, <3>3, <4>1, <4>4 DEF LoopInv, Acknowledging, lightsVars
      <4>6. QED
            BY <3>3, <4>2, <4>3, <4>5 DEF lightsVars
    <3>4. QED
          BY <2>3, <3>2, <3>3 DEF Decode_bgf
  <2>4. QED
        BY <2>1, <2>2, <2>3 DEF DecodeFrame
<1>4. TypeOK'
      BY <1>1, <1>2, <1>3 DEF LoopInv, TypeOK, muxVars
<1>5. QED
      BY <1>2, <1>3, <1>4 DEF LoopInv, muxVars

\* What encode_bgf() makes of the devices.
LEMMA EncodedType ==
  ASSUME L!TypeOK, B!TypeOK
  PROVE  Encode_bgf \in BgfFrames
<1>1. \A d \in Devices : Out(d) \in BOOLEAN
      BY DEF Out, Devices, L!TypeOK, B!TypeOK
<1>2. \A i \in BgfIds : Out(BgfDevice[i]) \in BOOLEAN
      BY <1>1, BgfDevices
<1>3. QED
      BY <1>2 DEF Encode_bgf, BgfFrames, byte, BGF_OUT_FRAME_SIZE

\* The steps that only move on, switch indicators or make frames for the BGF.
LEMMA PassingStep ==
  LoopInv /\ (Open \/ DriverFails \/ DecodeDone \/ Transfer \/ WriteUdp) => LoopInv'
<1> SUFFICES ASSUME LoopInv, Open \/ DriverFails \/ DecodeDone \/ Transfer \/ WriteUdp
             PROVE  LoopInv'
    OBVIOUS
<1>1. UNCHANGED <<lightsVars, blinkersVars, wipersVars, muxVars,
                  received, frame_size, heard, ordered>>
      BY DEF Open, DriverFails, DecodeDone, Transfer, WriteUdp, lnsVars
<1>2. /\ mux_frame_id' \in mux_id_t /\ last_read' \in mux_id_t /\ mux_warned' \in BOOLEAN
      /\ vehicle' \in VehicleType /\ vehicle' = vehicle /\ vehicle' = VehicleOf(mux_data')
      /\ mux_sent' \in 1 .. MUX_ID_MAX /\ mux_lost' \in Losses /\ mux_data' \in MuxData
      /\ last_read' # 0 => last_read' = mux_sent'
      BY <1>1 DEF LoopInv, TypeOK, muxVars
<1>3. pc' \in Steps /\ Computed' \subseteq Computed
      BY DEF Open, DriverFails, DecodeDone, Transfer, WriteUdp, Steps, Devices, Lights, Computed
<1>4. /\ indicators' \subseteq DOMAIN FirstByte \cup DOMAIN SecondByte
      /\ pc' \in {"write_udp", "write_lns"} => indicators' = VehicleIndicators(vehicle')
  <2>1. CASE Transfer
    <3>1. indicators' = VehicleIndicators(vehicle')
          BY <1>2, <2>1 DEF Transfer
    <3>2. VehicleIndicators(vehicle') \subseteq DOMAIN FirstByte \cup DOMAIN SecondByte
          BY DEF VehicleIndicators, Raised, FrameFlag, MotorFlag, BatteryFlag, FirstByte, SecondByte
    <3>3. QED
          BY <3>1, <3>2
  <2>2. CASE WriteUdp
        BY <1>2, <2>2 DEF WriteUdp, LoopInv, TypeOK
  <2>3. CASE Open \/ DriverFails \/ DecodeDone
        BY <2>3 DEF Open, DriverFails, DecodeDone, LoopInv, TypeOK
  <2>4. QED
        BY <2>1, <2>2, <2>3
<1>5. bgf_frames' \in BgfFrames
  <2>1. CASE WriteUdp
        BY <2>1, EncodedType DEF WriteUdp, LoopInv, TypeOK
  <2>2. CASE Open \/ DriverFails \/ DecodeDone \/ Transfer
        BY <2>2 DEF Open, DriverFails, DecodeDone, Transfer, lnsVars, LoopInv, TypeOK
  <2>3. QED
        BY <2>1, <2>2
<1>6. QED
      BY <1>1, <1>2, <1>3, <1>4, <1>5, OtherStep

\* The frames for the BGF, taken or not.
LEMMA WriteLnsStep == BcgvInv /\ WriteLns => LoopInv'
<1> SUFFICES ASSUME LoopInv, OrderInv, WriteLns PROVE LoopInv'
    BY DEF BcgvInv
<1>1. \A i \in BgfIds : bgf_frames[i].id = i
      BY DEF OrderInv, WriteLns, Encode_bgf
<1>2. heard \subseteq heard' /\ heard' \subseteq Devices
  <2>1. {BgfDevice[bgf_frames[i].id] : i \in {j \in BgfIds : Accepted(j)}} \subseteq Devices
        BY <1>1, BgfDevices
  <2>2. heard \subseteq Devices
        BY DEF LoopInv, TypeOK
  <2>3. QED
        BY <2>1, <2>2 DEF WriteLns
<1>3. /\ UNCHANGED <<lightsVars, blinkersVars, wipersVars, muxVars, indicators,
                     received, frame_size, bgf_frames, ordered>>
      /\ pc' = "read_udp" /\ Computed' = {}
      BY DEF WriteLns, Computed
<1>4. received' \in Seq(Arrivals')
  <2>1. Arrivals \subseteq Arrivals'
        BY <1>2 DEF Arrivals
  <2>2. received \in Seq(Arrivals)
        BY DEF LoopInv, TypeOK
  <2>3. QED
        BY <1>3, <2>1, <2>2
<1>5. TypeOK'
      BY <1>2, <1>3, <1>4, AutomataUnchanged DEF LoopInv, TypeOK, muxVars, Steps
<1>6. QED
      BY <1>2, <1>3, <1>5, AutomataUnchanged DEF LoopInv, muxVars

\* A light's automaton, run.
LEMMA ComputeLightStep == LoopInv /\ ComputeLight => LoopInv'
<1> SUFFICES ASSUME LoopInv, ComputeLight PROVE LoopInv'
    OBVIOUS
<1>1. PICK l \in Lights : l = pc /\ L!Compute(l)
      BY DEF ComputeLight
<1>2. L!TypeOK /\ B!TypeOK /\ W!TypeOK
      BY DEF LoopInv, TypeOK
<1>3. /\ L!TypeOK'
      /\ lights_in' = lights_in
      /\ lights_ack' = [lights_ack EXCEPT ![l] = FALSE]
      /\ lights_fsm'[l] = L!ACKNOWLEDGED => lights_fsm[l] = L!ACKNOWLEDGED \/ lights_ack[l]
      /\ lights_out'[l] => lights_in[l]
      /\ lights_ind'[l] => lights_out'[l]
      /\ \A m \in Lights \ {l} : /\ lights_fsm'[m] = lights_fsm[m]
                                 /\ lights_out'[m] = lights_out[m]
                                 /\ lights_ind'[m] = lights_ind[m]
      BY <1>1, <1>2, LightEffect
<1>4. /\ UNCHANGED <<blinkersVars, wipersVars, muxVars, indicators, lnsVars>>
      /\ Arrivals' = Arrivals
      BY DEF ComputeLight, Arrivals, lnsVars
<1>5. B!TypeOK' /\ W!TypeOK'
      BY <1>2, <1>4 DEF B!TypeOK, W!TypeOK, blinkersVars, wipersVars
<1>6. pc' = After(l) /\ pc' \in Steps /\ pc' \notin {"write_udp", "write_lns"}
      BY <1>1 DEF ComputeLight, After, Lights, Steps, Devices, Blinkers
<1>7. Computed' = Computed \cup {l} /\ l \notin Computed /\ Computed' \subseteq Lights
      BY <1>1, <1>6 DEF After, Lights, Computed
<1>8. TypeOK'
      BY <1>3, <1>4, <1>5, <1>6 DEF LoopInv, TypeOK, muxVars, lnsVars
<1>9. ASSUME NEW d \in Devices, Acknowledging(d)' PROVE d \in heard'
  <2>1. Acknowledging(d)
    <3>1. CASE d = l
          BY <1>2, <1>3, <1>9, <3>1 DEF Acknowledging, L!TypeOK
    <3>2. CASE d \in Lights \ {l}
          BY <1>2, <1>3, <1>9, <3>2 DEF Acknowledging, L!TypeOK
    <3>3. CASE d \notin Lights
          BY <1>4, <1>9, <3>3 DEF Acknowledging, blinkersVars
    <3>4. QED
          BY <3>1, <3>2, <3>3
  <2>2. QED
        BY <1>4, <2>1 DEF LoopInv, lnsVars
<1>10. \A m \in Lights : lights_ind'[m] => lights_out'[m]
       BY <1>3 DEF LoopInv
<1>11. ASSUME NEW d \in Computed' PROVE Out(d)' => CommandOf(d)'
  <2>1. d \in Lights
        BY <1>7
  <2>2. CASE d = l
        BY <1>3, <2>1, <2>2 DEF Out, CommandOf
  <2>3. CASE d # l
        BY <1>3, <1>7, <2>1, <2>3 DEF Out, CommandOf, LoopInv
  <2>4. QED
        BY <2>2, <2>3
<1>12. Blinkers \cap Computed' = {}
       BY <1>7 DEF Lights, Blinkers
<1>13. QED
       BY <1>4, <1>6, <1>8, <1>9, <1>10, <1>11, <1>12 DEF LoopInv, muxVars

\* A blinker's automaton, run.
LEMMA ComputeBlinkerStep == LoopInv /\ ComputeBlinker => LoopInv'
<1> SUFFICES ASSUME LoopInv, ComputeBlinker PROVE LoopInv'
    OBVIOUS
<1>1. PICK b \in Blinkers : b = pc /\ B!Compute(b)
      BY DEF ComputeBlinker
<1>2. L!TypeOK /\ B!TypeOK /\ W!TypeOK
      BY DEF LoopInv, TypeOK
<1>3. /\ B!TypeOK'
      /\ blinkers_in' = blinkers_in /\ warnings_in' = warnings_in
      /\ blinkers_ack' = [blinkers_ack EXCEPT ![b] = FALSE]
      /\ blinkers_fsm'[b] = B!ACTIVE_ON_ACKNOWLEDGED
           => blinkers_fsm[b] = B!ACTIVE_ON_ACKNOWLEDGED \/ blinkers_ack[b]
      /\ blinkers_out'[b] => blinkers_in[b] \/ warnings_in
      /\ indicator_warnings' = IF blinkers_out'[b] THEN warnings_in ELSE indicator_warnings
      /\ \A c \in Blinkers \ {b} : /\ blinkers_fsm'[c] = blinkers_fsm[c]
                                   /\ blinkers_out'[c] = blinkers_out[c]
      BY <1>1, <1>2, BlinkerEffect
<1>4. /\ UNCHANGED <<lightsVars, wipersVars, muxVars, indicators, lnsVars>>
      /\ Arrivals' = Arrivals
      BY DEF ComputeBlinker, Arrivals, lnsVars
<1>5. L!TypeOK' /\ W!TypeOK'
      BY <1>2, <1>4 DEF L!TypeOK, W!TypeOK, lightsVars, wipersVars
<1>6. pc' = After(b) /\ pc' \in Steps /\ pc' \notin {"write_udp", "write_lns"}
      BY <1>1 DEF ComputeBlinker, After, Lights, Steps, Devices, Blinkers
<1>7. Computed' = Computed \cup {b} /\ b \notin Computed
      BY <1>1, <1>6 DEF After, Lights, Blinkers, Devices, Computed
<1>8. TypeOK'
      BY <1>3, <1>4, <1>5, <1>6 DEF LoopInv, TypeOK, muxVars, lnsVars
<1>9. b \notin Lights /\ Computed \subseteq Devices
      BY DEF Lights, Blinkers, Devices, Computed
<1>10. ASSUME NEW d \in Devices, Acknowledging(d)' PROVE d \in heard'
  <2>1. Acknowledging(d)
    <3>1. CASE d = b
          BY <1>2, <1>3, <1>9, <1>10, <3>1 DEF Acknowledging, B!TypeOK
    <3>2. CASE d \in Blinkers \ {b}
          BY <1>2, <1>3, <1>4, <1>10, <3>2 DEF Acknowledging, B!TypeOK, lightsVars
    <3>3. CASE d \in Lights
          BY <1>4, <1>10, <3>3 DEF Acknowledging, lightsVars
    <3>4. QED
          BY <3>1, <3>2, <3>3 DEF Devices
  <2>2. QED
        BY <1>4, <2>1 DEF LoopInv, lnsVars
<1>11. \A m \in Lights : lights_ind'[m] => lights_out'[m]
       BY <1>4 DEF LoopInv, lightsVars
<1>12. ASSUME NEW d \in Computed' PROVE Out(d)' => CommandOf(d)'
  <2>1. CASE d = b
        BY <1>3, <1>9, <2>1 DEF Out, CommandOf
  <2>2. CASE d # b
    <3>1. d \in Computed /\ d \in Devices
          BY <1>7, <1>9, <2>2
    <3>2. Out(d) => CommandOf(d)
          BY <3>1 DEF LoopInv
    <3>3. Out(d)' = Out(d) /\ CommandOf(d)' = CommandOf(d)
          BY <1>3, <1>4, <2>2, <3>1 DEF Out, CommandOf, lightsVars, Devices
    <3>4. QED
          BY <3>2, <3>3
  <2>3. QED
        BY <2>1, <2>2
<1>13. ASSUME NEW c \in Blinkers \cap Computed', Out(c)'
       PROVE  indicator_warnings' <=> warnings_in'
  <2>1. c \notin Lights
        BY DEF Lights, Blinkers
  <2>2. CASE blinkers_out'[b]
        BY <1>3, <2>2
  <2>3. CASE ~blinkers_out'[b]
    <3>1. c # b /\ c \in Computed
          BY <1>7, <1>13, <2>1, <2>3 DEF Out
    <3>2. Out(c) /\ indicator_warnings' = indicator_warnings
          BY <1>3, <1>13, <2>1, <2>3, <3>1 DEF Out
    <3>3. QED
          BY <1>3, <3>1, <3>2 DEF LoopInv
  <2>4. QED
        BY <2>2, <2>3
<1>14. QED
       BY <1>4, <1>6, <1>8, <1>10, <1>11, <1>12, <1>13 DEF LoopInv, muxVars

\* The wipers' automaton, run.
LEMMA ComputeWipersStep == LoopInv /\ ComputeWipers => LoopInv'
<1> SUFFICES ASSUME LoopInv, ComputeWipers PROVE LoopInv'
    OBVIOUS
<1>1. /\ UNCHANGED <<lightsVars, blinkersVars, muxVars, indicators, lnsVars>>
      /\ Arrivals' = Arrivals /\ pc' = "transfer" /\ pc' \in Steps
      /\ Computed' = Computed
      BY DEF ComputeWipers, Arrivals, lnsVars, Steps, Computed
<1>2. W!TypeOK'
      BY WipersEffect DEF ComputeWipers, LoopInv, TypeOK
<1>3. L!TypeOK' /\ B!TypeOK'
      BY <1>1 DEF LoopInv, TypeOK, L!TypeOK, B!TypeOK, lightsVars, blinkersVars
<1>4. TypeOK'
      BY <1>1, <1>2, <1>3 DEF LoopInv, TypeOK, muxVars, lnsVars
<1>5. \A d : Out(d)' = Out(d) /\ CommandOf(d)' = CommandOf(d)
      BY <1>1 DEF Out, CommandOf, lightsVars, blinkersVars
<1>6. \A d : Acknowledging(d)' = Acknowledging(d)
      BY <1>1 DEF Acknowledging, lightsVars, blinkersVars
<1>7. QED
      BY <1>1, <1>4, <1>5, <1>6 DEF LoopInv, muxVars, lnsVars, lightsVars, blinkersVars

\* Every step of the loop keeps the first part of the invariant.
LEMMA StepLoop == BcgvInv /\ [Next]_vars => LoopInv'
<1> SUFFICES ASSUME BcgvInv, [Next]_vars PROVE LoopInv'
    OBVIOUS
<1>0. LoopInv
      BY DEF BcgvInv
<1>1. CASE Next
      BY <1>0, <1>1, PassingStep, ReadUdpStep, ReadLnsStep, DecodeFrameStep, ComputeLightStep,
         ComputeBlinkerStep, ComputeWipersStep, WriteLnsStep DEF Next, Cycle
<1>2. CASE UNCHANGED vars
  <2>1. /\ UNCHANGED <<pc, lightsVars, blinkersVars, wipersVars, muxVars, lnsVars, indicators>>
        /\ Computed' = Computed
        BY <1>2 DEF vars, Computed
  <2>2. /\ mux_frame_id' \in mux_id_t /\ last_read' \in mux_id_t /\ mux_warned' \in BOOLEAN
        /\ vehicle' \in VehicleType /\ vehicle' = VehicleOf(mux_data')
        /\ indicators' \subseteq DOMAIN FirstByte \cup DOMAIN SecondByte
        /\ mux_sent' \in 1 .. MUX_ID_MAX /\ mux_lost' \in Losses /\ mux_data' \in MuxData
        /\ last_read' # 0 => last_read' = mux_sent'
        /\ pc' \in {"write_udp", "write_lns"} => indicators' = VehicleIndicators(vehicle')
        /\ pc' \in Steps
        BY <1>0, <2>1 DEF LoopInv, TypeOK, muxVars
  <2>3. UNCHANGED <<received, frame_size, heard, ordered>> /\ bgf_frames' \in BgfFrames
        BY <1>0, <2>1 DEF LoopInv, TypeOK, lnsVars
  <2>4. QED
        BY <1>0, <2>1, <2>2, <2>3, OtherStep
<1>3. QED
      BY <1>1, <1>2

\* The command variables are those of the same command as long as they do not change.
LEMMA ObeyedUnchanged ==
  ASSUME UNCHANGED <<lights_in, blinkers_in, warnings_in, ordered>>
  PROVE  Obeyed(ordered)' <=> Obeyed(ordered)
BY DEF Obeyed

\* A step after the decoding and before the next read keeps the order of the commands.
LEMMA OrderKept ==
  ASSUME OrderInv, received = <<>>,
         UNCHANGED <<lights_in, blinkers_in, warnings_in, received, ordered>>,
         pc' = "write_lns" => bgf_frames' = Encode_bgf'
  PROVE  OrderInv'
<1>1. Readable(received) = {} /\ Readable(received)' = {}
      BY DEF Readable
<1>2. QED
      BY <1>1, ObeyedUnchanged DEF OrderInv

\* The newest command of a batch is the one that counts.
LEMMA ReadLnsOrder == OrderInv /\ ReadLns => OrderInv'
<1> SUFFICES ASSUME OrderInv, ReadLns PROVE OrderInv'
    OBVIOUS
<1>1. /\ pc' = "decode" /\ received = <<>>
      /\ UNCHANGED <<lights_in, blinkers_in, warnings_in>>
      BY DEF ReadLns, OrderInv, lightsVars, blinkersVars
<1>2. Readable(received') \subseteq Nat
  <2>1. PICK n \in 0 .. MAX_BATCH : received' \in [1 .. n -> Arrivals]
        BY DEF ReadLns
  <2>2. QED
        BY <2>1 DEF Readable
<1>3. CASE Readable(received') = {} /\ ordered' = ordered
  <2>1. Readable(received) = {}
        BY <1>1 DEF Readable
  <2>2. Obeyed(ordered)'
        BY <1>1, <1>3, <2>1, ObeyedUnchanged DEF OrderInv
  <2>3. QED
        BY <1>1, <1>3, <2>2 DEF OrderInv
<1>4. CASE \E i \in Readable(received') :
             /\ \A j \in Readable(received') : j <= i
             /\ ordered' = received'[i].command
  <2>1. PICK i \in Readable(received') :
          /\ \A j \in Readable(received') : j <= i
          /\ ordered' = received'[i].command
        BY <1>4
  <2>2. ASSUME NEW k \in Readable(received'), \A j \in Readable(received') : j <= k
        PROVE  received'[k].command = ordered'
    <3>1. k = i
          BY <1>2, <2>1, <2>2
    <3>2. QED
          BY <2>1, <3>1
  <2>3. QED
        BY <1>1, <2>1, <2>2 DEF OrderInv
<1>5. QED
      BY <1>3, <1>4 DEF ReadLns

\* A decoded frame leaves the newest command to come, or was the newest and is obeyed.
LEMMA DecodeFrameOrder == LoopInv /\ OrderInv /\ DecodeFrame => OrderInv'
<1> SUFFICES ASSUME LoopInv, OrderInv, DecodeFrame PROVE OrderInv'
    OBVIOUS
<1> DEFINE f == Head(received)
<1>1. /\ received \in Seq(Arrivals) /\ received # <<>> /\ received' = Tail(received)
      /\ pc = "decode" /\ pc' = "decode" /\ ordered' = ordered
      BY DEF LoopInv, TypeOK, DecodeFrame
<1>2. /\ Len(received) \in Nat /\ Len(received) >= 1 /\ f = received[1]
      /\ DOMAIN received = 1 .. Len(received)
      /\ DOMAIN received' = 1 .. Len(received) - 1
      /\ \A i \in 1 .. Len(received) - 1 : received'[i] = received[i + 1]
      BY <1>1
<1>3. /\ \A i \in Readable(received') : i + 1 \in Readable(received) /\ i \in Nat
      /\ \A i \in Readable(received) : i \in Nat
      /\ \A i \in Readable(received) : i # 1 => i - 1 \in Readable(received')
      /\ 1 \in Readable(received) <=> f.from = "commodos" /\ f.size >= 2
  <2>1. ASSUME NEW i \in Readable(received')
        PROVE  i + 1 \in Readable(received) /\ i \in Nat
    <3>1. /\ i \in 1 .. Len(received) - 1
          /\ received'[i].from = "commodos" /\ received'[i].size >= 2
          BY <1>2 DEF Readable
    <3>2. i + 1 \in 1 .. Len(received) /\ received[i + 1] = received'[i]
          BY <1>2, <3>1
    <3>3. QED
          BY <1>2, <3>1, <3>2 DEF Readable
  <2>2. ASSUME NEW i \in Readable(received)
        PROVE  i \in Nat /\ (i # 1 => i - 1 \in Readable(received'))
    <3>1. /\ i \in 1 .. Len(received)
          /\ received[i].from = "commodos" /\ received[i].size >= 2
          BY <1>2 DEF Readable
    <3>2. ASSUME i # 1 PROVE i - 1 \in Readable(received')
      <4>1. i - 1 \in 1 .. Len(received) - 1 /\ (i - 1) + 1 = i
            BY <1>2, <3>1, <3>2
      <4>2. received'[i - 1] = received[i]
            BY <1>2, <4>1
      <4>3. QED
            BY <1>2, <3>1, <4>1, <4>2 DEF Readable
    <3>3. QED
          BY <3>1, <3>2
  <2>3. 1 \in Readable(received) <=> f.from = "commodos" /\ f.size >= 2
        BY <1>2 DEF Readable
  <2>4. QED
        BY <2>1, <2>2, <2>3
<1>4. ASSUME NEW i \in Readable(received'), \A j \in Readable(received') : j <= i
      PROVE  received'[i].command = ordered'
  <2>1. ASSUME NEW k \in Readable(received) PROVE k <= i + 1
    <3>1. CASE k = 1
          BY <1>3, <3>1
    <3>2. CASE k # 1
      <4>1. k - 1 <= i /\ k \in Nat /\ i \in Nat
            BY <1>3, <1>4, <3>2
      <4>2. QED
            BY <4>1
    <3>3. QED
          BY <3>1, <3>2
  <2>2. received[i + 1].command = ordered
        BY <1>3, <2>1 DEF OrderInv
  <2>3. i \in 1 .. Len(received) - 1
        BY <1>2 DEF Readable
  <2>4. QED
        BY <1>1, <1>2, <2>2, <2>3
<1>5. ASSUME Readable(received') = {} PROVE Obeyed(ordered)'
  <2>1. Readable(received) \subseteq {1}
        BY <1>3, <1>5
  <2>2. CASE Readable(received) = {}
    <3>1. UNCHANGED <<lights_in, blinkers_in, warnings_in>>
          BY <1>2, <1>3, <2>2 DEF DecodeFrame, Decode_bgf, L!Decode_bgf, B!Decode_bgf,
             lightsVars, blinkersVars
    <3>2. QED
          BY <1>1, <2>2, <3>1, ObeyedUnchanged DEF OrderInv
  <2>3. CASE Readable(received) = {1}
    <3>1. f.from = "commodos" /\ f.size >= 2 /\ f.command = ordered
          BY <1>2, <1>3, <2>3 DEF OrderInv
    <3>2. Decode_commodos(f.command)
      <4>1. f \in Arrivals
            BY <1>1, <1>2
      <4>2. ~(f.size < 2) /\ f.from # "bgf"
            BY <3>1, <4>1, ArrivalType
      <4>3. QED
            BY <4>2 DEF DecodeFrame
    <3>3. QED
          BY <1>1, <3>1, <3>2 DEF Decode_commodos, Obeyed
  <2>4. QED
        BY <2>1, <2>2, <2>3
<1>6. QED
      BY <1>1, <1>4, <1>5 DEF OrderInv

\* Every step of the loop keeps the second part of the invariant.
LEMMA StepOrder == BcgvInv /\ [Next]_vars => OrderInv'
<1> SUFFICES ASSUME LoopInv, OrderInv, [Next]_vars PROVE OrderInv'
    BY DEF BcgvInv
<1>1. CASE ReadLns
      BY <1>1, ReadLnsOrder
<1>2. CASE DecodeFrame
      BY <1>2, DecodeFrameOrder
<1>3. CASE Open \/ DriverFails \/ ReadUdp \/ DecodeDone \/ Transfer \/ WriteLns
  <2>1. UNCHANGED <<lights_in, blinkers_in, warnings_in, received, ordered>>
        BY <1>3 DEF Open, DriverFails, ReadUdp, DecodeDone, Transfer, WriteLns,
                    lightsVars, blinkersVars, lnsVars
  <2>2. received = <<>> /\ pc' # "write_lns"
        BY <1>3 DEF Open, DriverFails, ReadUdp, DecodeDone, Transfer, WriteLns, OrderInv
  <2>3. QED
        BY <2>1, <2>2, OrderKept
<1>4. CASE WriteUdp
  <2>1. UNCHANGED <<lightsVars, blinkersVars, received, ordered>> /\ received = <<>>
        BY <1>4 DEF WriteUdp, OrderInv
  <2>2. Encode_bgf' = Encode_bgf
        BY <2>1 DEF Encode_bgf, Out, lightsVars, blinkersVars
  <2>3. bgf_frames' = Encode_bgf'
        BY <1>4, <2>2 DEF WriteUdp
  <2>4. UNCHANGED <<lights_in, blinkers_in, warnings_in, received, ordered>>
        BY <2>1 DEF lightsVars, blinkersVars
  <2>5. QED
        BY <2>1, <2>3, <2>4, OrderKept
<1>5. CASE ComputeLight \/ ComputeBlinker \/ ComputeWipers
  <2>1. UNCHANGED <<lights_in, blinkers_in, warnings_in, received, ordered>>
        BY <1>5 DEF ComputeLight, ComputeBlinker, ComputeWipers, L!Compute, B!Compute,
                    lightsVars, blinkersVars, lnsVars
  <2>2. pc # "decode" /\ pc' # "write_lns"
        BY <1>5 DEF ComputeLight, ComputeBlinker, ComputeWipers, After, Lights, Blinkers
  <2>3. QED
        BY <2>1, <2>2, OrderKept DEF OrderInv
<1>6. CASE UNCHANGED vars
  <2>1. /\ UNCHANGED <<pc, lightsVars, blinkersVars, received, bgf_frames, ordered>>
        BY <1>6 DEF vars, lnsVars
  <2>2. Encode_bgf' = Encode_bgf
        BY <2>1 DEF Encode_bgf, Out, lightsVars, blinkersVars
  <2>3. Obeyed(ordered)' <=> Obeyed(ordered)
        BY <2>1, ObeyedUnchanged DEF lightsVars, blinkersVars
  <2>4. QED
        BY <2>1, <2>2, <2>3 DEF OrderInv, Readable
<1>7. QED
      BY <1>1, <1>2, <1>3, <1>4, <1>5, <1>6 DEF Next, Cycle

\* Nothing is ordered at the start, and nothing commanded.
LEMMA InitOrder == Init => OrderInv
<1> SUFFICES ASSUME Init PROVE OrderInv
    OBVIOUS
<1>1. Readable(received) = {}
      BY DEF Init, Readable
<1>2. Obeyed(ordered)
  <2>1. ordered = {}
        BY DEF Init
  <2>2. \A d : (d \in ordered) = FALSE
        BY <2>1
  <2>3. /\ lights_in = [l \in Lights |-> FALSE] /\ blinkers_in = [b \in Blinkers |-> FALSE]
        /\ warnings_in = FALSE
        BY DEF Init, L!Init, B!Init
  <2>4. [l \in Lights |-> FALSE] = [l \in Lights |-> l \in ordered]
        BY <2>2, Zenon
  <2>5. [b \in Blinkers |-> FALSE] = [b \in Blinkers |-> b \in ordered]
        BY <2>2, Zenon
  <2>6. QED
        BY <2>2, <2>3, <2>4, <2>5, Zenon DEF Obeyed
<1>3. QED
      BY <1>1, <1>2 DEF Init, OrderInv

\* What the properties of the loop follow from holds in every state it reaches: at each
\* step of a cycle, the devices whose automaton has run obey the last command decoded,
\* which in the end is the newest sent, and the rest of the data is as the MUX and the
\* BGF last left it.
THEOREM BcgvInvariant == Spec => []BcgvInv
<1>1. Init => BcgvInv
      BY InitLoop, InitOrder DEF BcgvInv
<1>2. BcgvInv /\ [Next]_vars => BcgvInv'
      BY StepLoop, StepOrder DEF BcgvInv
<1>3. QED
      BY <1>1, <1>2, PTL DEF Spec

\* Every variable keeps to its type, the bounds of the ids and of the batch included.
THEOREM TypeCorrect == Spec => []TypeOK
<1>1. BcgvInv => TypeOK
      BY DEF BcgvInv, LoopInv
<1>2. QED
      BY <1>1, BcgvInvariant, PTL

-----------------------------------------------------------------------------
(***************************************************************************)
(* The frames for the BGF and its answers.                                 *)
(***************************************************************************)

\* No device passes for acknowledged before the BGF has accepted a frame for it,
\* however the answers are lost, repeated or reordered.
THEOREM NoUnheardAcknowledgement == Spec => []AcknowledgedOnlyIfHeard
<1>1. BcgvInv => AcknowledgedOnlyIfHeard
      BY DEF BcgvInv, LoopInv, AcknowledgedOnlyIfHeard, Acknowledged, Acknowledging
<1>2. QED
      BY <1>1, BcgvInvariant, PTL

\* When the frames go out, those of the devices that are driven are the ones that
\* switch theirs on.
LEMMA SwitchedOut ==
  ASSUME BcgvInv, pc = "write_lns"
  PROVE  \A d \in Devices : d \in Switched <=> Out(d)
<1>1. \A i \in BgfIds : bgf_frames[i].id = i /\ bgf_frames[i].value = Out(BgfDevice[i])
      BY DEF BcgvInv, OrderInv, Encode_bgf
<1>2. \A d \in Devices : \E i \in BgfIds : BgfDevice[i] = d
      BY DEF BgfIds, BgfDevice, Devices, Lights, Blinkers
<1>3. QED
      BY <1>1, <1>2 DEF Switched

\* The devices in the frames are devices, and those commanded are those ordered.
LEMMA OrderedCommand ==
  ASSUME BcgvInv, pc = "write_lns"
  PROVE  /\ Switched \subseteq Devices
         /\ \A d \in Devices : CommandOf(d) <=> Ordered(d)
         /\ warnings_in <=> "warnings" \in ordered
<1>1. \A i \in BgfIds : bgf_frames[i].id = i
      BY DEF BcgvInv, OrderInv, Encode_bgf
<1>2. Switched \subseteq Devices
      BY <1>1, BgfDevices DEF Switched
<1>3. Obeyed(ordered)
      BY DEF BcgvInv, OrderInv, Readable
<1>4. Lights \cap Blinkers = {}
      BY DEF Lights, Blinkers
<1>5. \A d \in Devices : CommandOf(d) <=> Ordered(d)
      BY <1>3, <1>4 DEF Obeyed, CommandOf, Ordered, Devices
<1>6. QED
      BY <1>2, <1>3, <1>5 DEF Obeyed

\* Each frame for the BGF switches on only what the commodos' newest command asks for,
\* however many commands and answers came in one read, in whatever order.
THEOREM CommandsFollowed == Spec => []FramesFollowCommands
<1>1. BcgvInv => FramesFollowCommands
  <2> SUFFICES ASSUME BcgvInv, pc = "write_lns", NEW d \in Switched PROVE Ordered(d)
      BY DEF FramesFollowCommands
  <2>1. d \in Devices /\ Out(d)
        BY SwitchedOut, OrderedCommand
  <2>2. d \in Computed
        BY <2>1 DEF Computed
  <2>3. QED
        BY <2>1, <2>2, OrderedCommand DEF BcgvInv, LoopInv
<1>2. QED
      BY <1>1, BcgvInvariant, PTL

-----------------------------------------------------------------------------
(***************************************************************************)
(* The dashboard frame.                                                    *)
(***************************************************************************)

\* What the frame shows is what is on.
LEMMA ShowsOn ==
  \A i \in DOMAIN FirstByte \cup DOMAIN SecondByte : Shows(i) <=> i \in On
<1>1. DashboardFrame.first = Bits(FirstByte, On) /\ DashboardFrame.second = Bits(SecondByte, On)
      BY DEF DashboardFrame, Encode_mux
<1>2. DOMAIN FirstByte \cap DOMAIN SecondByte = {}
      BY DEF FirstByte, SecondByte
<1>3. QED
      BY <1>1, <1>2, OwnBits DEF Shows

\* When the frames go out, what the dashboard's shows and the data it shows it of.
LEMMA FrameShows ==
  ASSUME BcgvInv, pc \in {"write_udp", "write_lns"}
  PROVE  /\ \A l \in Lights : Shows(l) <=> lights_ind[l]
         /\ Shows("warnings") <=> indicator_warnings
         /\ \A i \in {"low_fuel", "motor_failure", "brake_failure"}
                     \cup DOMAIN FrameFlag \cup DOMAIN MotorFlag \cup DOMAIN BatteryFlag :
              Shows(i) <=> i \in VehicleIndicators(vehicle)
<1>1. indicators = VehicleIndicators(vehicle)
      BY DEF BcgvInv, LoopInv
<1> DEFINE own == {"low_fuel", "motor_failure", "brake_failure"}
                  \cup DOMAIN FrameFlag \cup DOMAIN MotorFlag \cup DOMAIN BatteryFlag
<1>2. /\ Lights \cup {"warnings"} \cup own \subseteq DOMAIN FirstByte \cup DOMAIN SecondByte
      /\ own \cap (Lights \cup {"warnings", "wipers", "washer_fluid"}) = {}
      BY DEF FirstByte, SecondByte, FrameFlag, MotorFlag, BatteryFlag, Lights
<1>3. VehicleIndicators(vehicle) \subseteq own
      BY DEF VehicleIndicators, Raised
<1>4. /\ \A l \in Lights : l \in On <=> lights_ind[l]
      /\ "warnings" \in On <=> indicator_warnings
      /\ \A i \in own : i \in On <=> i \in VehicleIndicators(vehicle)
  <2> HIDE DEF own
  <2>1. Lights \cap {"warnings", "wipers", "washer_fluid"} = {}
        BY DEF Lights
  <2>2. QED
        BY <1>1, <1>2, <1>3, <2>1 DEF On
<1>5. QED
      BY <1>2, <1>4, ShowsOn

\* The dashboard frame and the frames for the BGF of one cycle tell the same story: a
\* light shown is one switched on, and a warnings indicator shown while a bulb is driven
\* is one the commodos' newest command asks for.
THEOREM DashboardConsistent == Spec => [](LightsShownAreSent /\ WarningsShownAsCommanded)
<1>1. BcgvInv => LightsShownAreSent
  <2> SUFFICES ASSUME BcgvInv, pc = "write_lns", NEW l \in Lights, Shows(l)
               PROVE  l \in Switched
      BY DEF LightsShownAreSent
  <2>1. l \in Devices /\ Out(l)
        BY FrameShows DEF BcgvInv, LoopInv, Out, Devices
  <2>2. QED
        BY <2>1, SwitchedOut
<1>2. BcgvInv => WarningsShownAsCommanded
  <2> SUFFICES ASSUME BcgvInv, pc = "write_lns", NEW b \in Switched \cap Blinkers
               PROVE  Shows("warnings") <=> "warnings" \in ordered
      BY DEF WarningsShownAsCommanded
  <2>1. b \in Blinkers \cap Computed /\ Out(b)
        BY SwitchedOut DEF Computed, Devices
  <2>2. indicator_warnings <=> warnings_in
        BY <2>1 DEF BcgvInv, LoopInv
  <2>3. QED
        BY <2>2, FrameShows, OrderedCommand
<1>3. QED
      BY <1>1, <1>2, BcgvInvariant, PTL

\* Of what the MUX reports the mileage, the speed, the last legal tank level, the flags
\* and low fuel by that level reach the dashboard in the same cycle, whatever the reports.
THEOREM VehicleShown == Spec => []DashboardShowsVehicle
<1>1. BcgvInv => DashboardShowsVehicle
  <2> SUFFICES ASSUME BcgvInv, pc = "write_udp"
               PROVE
                 /\ DashboardFrame.mileage = mux_data.mileage
                 /\ DashboardFrame.speed = mux_data.speed
                 /\ DashboardFrame.tank = mux_data.tank_level
                 /\ \A i \in DOMAIN FrameFlag : Shows(i) <=> FrameFlag[i] \in mux_data.frame_flags
                 /\ \A i \in DOMAIN MotorFlag : Shows(i) <=> MotorFlag[i] \in mux_data.motor_flags
                 /\ \A i \in DOMAIN BatteryFlag :
                      Shows(i) <=> BatteryFlag[i] \in mux_data.battery_flags
                 /\ Shows("low_fuel") <=> mux_data.tank_level < LOW_FUEL_THRESHOLD
                 /\ ~Shows("motor_failure") /\ ~Shows("brake_failure")
      BY DEF DashboardShowsVehicle
  <2>1. vehicle = VehicleOf(mux_data) /\ mux_data \in MuxData
        BY DEF BcgvInv, LoopInv, TypeOK
  <2>2. mux_data.mileage \in word
        BY <2>1 DEF MuxData
  <2>3. /\ DashboardFrame.mileage = Bytes(Word(mux_data.mileage))
        /\ DashboardFrame.speed = mux_data.speed
        /\ DashboardFrame.tank = mux_data.tank_level
        BY <2>1 DEF DashboardFrame, Encode_mux, VehicleOf
  <2>4. /\ \A i \in DOMAIN FrameFlag :
             i \in VehicleIndicators(vehicle) <=> FrameFlag[i] \in vehicle.frame_flags
        /\ \A i \in DOMAIN MotorFlag :
             i \in VehicleIndicators(vehicle) <=> MotorFlag[i] \in vehicle.motor_flags
        /\ \A i \in DOMAIN BatteryFlag :
             i \in VehicleIndicators(vehicle) <=> BatteryFlag[i] \in vehicle.battery_flags
        /\ "low_fuel" \in VehicleIndicators(vehicle) <=> vehicle.tank_level < LOW_FUEL_THRESHOLD
        /\ VehicleIndicators(vehicle) \cap {"motor_failure", "brake_failure"} = {}
        BY DEF VehicleIndicators, Raised, FrameFlag, MotorFlag, BatteryFlag
  <2>5. /\ vehicle.frame_flags = mux_data.frame_flags
        /\ vehicle.motor_flags = mux_data.motor_flags
        /\ vehicle.battery_flags = mux_data.battery_flags
        /\ vehicle.tank_level = mux_data.tank_level
        BY <2>1 DEF VehicleOf
  <2>6. QED
        BY <2>2, <2>3, <2>4, <2>5, FrameShows, WordRoundTrip
<1>2. QED
      BY <1>1, BcgvInvariant, PTL

-----------------------------------------------------------------------------
(***************************************************************************)
(* The loop runs the automata as their own modules say.                    *)
(***************************************************************************)

LEMMA InitComponents == Init => L!Init /\ B!Init /\ W!Init
BY DEF Init

\* Every step of the loop is, for each component, one of its own steps or none.
LEMMA StepComponents ==
  [Next]_vars => [L!Next]_(L!vars) /\ [B!Next]_(B!vars) /\ [W!Next]_(W!vars)
<1> DEFINE Goal == [L!Next]_(L!vars) /\ [B!Next]_(B!vars) /\ [W!Next]_(W!vars)
<1> SUFFICES ASSUME [Next]_vars PROVE Goal
    OBVIOUS
<1>1. UNCHANGED lightsVars => UNCHANGED L!vars
      BY DEF lightsVars, L!vars
<1>2. UNCHANGED blinkersVars => UNCHANGED B!vars
      BY DEF blinkersVars, B!vars
<1>3. UNCHANGED wipersVars => UNCHANGED W!vars
      BY DEF wipersVars, W!vars
<1>4. CASE UNCHANGED <<lightsVars, blinkersVars, wipersVars>>
      BY <1>1, <1>2, <1>3, <1>4
<1>5. CASE ComputeLight
      BY <1>2, <1>3, <1>5 DEF ComputeLight, L!Next
<1>6. CASE ComputeBlinker
      BY <1>1, <1>3, <1>6 DEF ComputeBlinker, B!Next
<1>7. CASE ComputeWipers
      BY <1>1, <1>2, <1>7 DEF ComputeWipers, W!Next
<1>8. CASE DecodeFrame
  <2> DEFINE f == Head(received)
  <2>1. CASE Decode_commodos(f.command)
        BY <2>1 DEF Decode_commodos, L!Next, B!Next, W!Next
  <2>2. CASE Decode_bgf(f.id)
        BY <1>1, <1>2, <1>3, <2>2 DEF Decode_bgf, L!Next, B!Next
  <2>3. QED
        BY <1>4, <1>8, <2>1, <2>2 DEF DecodeFrame
<1>9. CASE Open \/ DriverFails \/ ReadUdp \/ ReadLns \/ DecodeDone
           \/ Transfer \/ WriteUdp \/ WriteLns \/ UNCHANGED vars
  <2>1. UNCHANGED <<lightsVars, blinkersVars, wipersVars>>
        BY <1>9 DEF Open, DriverFails, ReadUdp, ReadLns, DecodeDone, Transfer, WriteUdp,
                    WriteLns, vars
  <2>2. QED
        BY <1>4, <2>1
<1> HIDE DEF Goal
<1>10. QED
       BY <1>5, <1>6, <1>7, <1>8, <1>9 DEF Next, Cycle

\* What is proved of the automata, for any commands and acknowledgements, holds of them
\* in the application.
THEOREM ComponentsImplemented == Spec => ImplementsComponents
<1>1. QED
      BY InitComponents, StepComponents, PTL
      DEF Spec, ImplementsComponents, L!Spec, B!Spec, W!Spec

-----------------------------------------------------------------------------
(***************************************************************************)
(* The ids of the MUX's frames.                                            *)
(***************************************************************************)

\* Division with a remainder under m has one result.
LEMMA UniqueRemainder ==
  ASSUME NEW m \in Nat \ {0}, NEW p \in Nat, NEW q \in Nat,
         NEW r \in 0 .. m - 1, NEW s \in 0 .. m - 1, m * p + r = m * q + s
  PROVE  r = s
<1>1. \A a, b \in Nat : a < b => m * a + m <= m * b
  <2> SUFFICES ASSUME NEW a \in Nat, NEW b \in Nat, a < b PROVE m * a + m <= m * b
      OBVIOUS
  <2>1. m * (b - a) >= m
        OBVIOUS
  <2>2. QED
        BY <2>1
<1>2. m * p \in Nat /\ m * q \in Nat
      OBVIOUS
<1>3. p = q
      BY <1>1, <1>2
<1>4. QED
      BY <1>2, <1>3

LEMMA Remainder ==
  ASSUME NEW m \in Nat \ {0}, NEW n \in Nat
  PROVE  n % m \in 0 .. m - 1 /\ \E q \in Nat : n = m * q + (n % m)
<1>1. n % m \in 0 .. m - 1
      OBVIOUS
<1>2. n \div m \in Nat /\ n = m * (n \div m) + (n % m)
      OBVIOUS
<1>3. QED
      BY <1>1, <1>2

\* Counting on by k under m comes back to the same id exactly after whole turns.
LEMMA SameId ==
  ASSUME NEW m \in Nat \ {0}, NEW n \in 1 .. m, NEW k \in Nat
  PROVE  (n + k) % m = n % m <=> k % m = 0
<1> DEFINE r == n % m
           s == k % m
           t == (n + k) % m
<1>0. n \in Nat /\ n + k \in Nat
      OBVIOUS
<1>1. /\ r \in 0 .. m - 1 /\ s \in 0 .. m - 1 /\ t \in 0 .. m - 1
      BY <1>0, Remainder
<1>2. PICK p \in Nat : n = m * p + r
      BY <1>0, Remainder
<1>3. PICK q \in Nat : k = m * q + s
      BY Remainder
<1>4. PICK o \in Nat : n + k = m * o + t
      BY <1>0, Remainder
<1> HIDE DEF r, s, t
<1>5. m * p \in Nat /\ m * q \in Nat /\ m * o \in Nat /\ m * (p + q) = m * p + m * q
      OBVIOUS
<1>6. m * o + t = m * (p + q) + (r + s)
      BY <1>1, <1>2, <1>3, <1>4, <1>5
<1>7. ASSUME s = 0 PROVE t = r
      BY <1>1, <1>6, <1>7, UniqueRemainder
<1>8. ASSUME t = r PROVE s = 0
  <2>1. m * o + 0 = m * (p + q) + s
        BY <1>1, <1>5, <1>6, <1>8
  <2>2. 0 \in 0 .. m - 1
        OBVIOUS
  <2>3. QED
        BY <1>1, <2>1, <2>2, UniqueRemainder
<1>9. QED
      BY <1>7, <1>8 DEF r, s, t

\* A gap in the ids is logged if and only if frames were lost, for every number of ids
\* and of frames lost, except whole turns.
THEOREM GapsAreReported == Spec => GapsReported
<1>1. ASSUME BcgvInv, ReadUdp, last_read # 0
      PROVE  mux_warned' <=> mux_lost' % MUX_ID_MAX # 0
  <2>1. PICK lost \in Losses :
          /\ mux_sent' = ((mux_sent + lost) % MUX_ID_MAX) + 1
          /\ mux_lost' = lost
          /\ mux_frame_id' = Assign(mux_frame_id, mux_sent', mux_id_t)
        BY <1>1 DEF ReadUdp
  <2>2. /\ MUX_ID_MAX \in Nat \ {0} /\ mux_sent \in 1 .. MUX_ID_MAX /\ lost \in Nat
        /\ MUX_ID_MAX <= 100
        BY <1>1, FramesAssumption DEF BcgvInv, LoopInv, TypeOK, mux_id_t
  <2>3. /\ (mux_sent + lost) % MUX_ID_MAX \in 0 .. MUX_ID_MAX - 1
        /\ mux_sent % MUX_ID_MAX \in 0 .. MUX_ID_MAX - 1
        BY <2>2, Remainder
  <2>4. mux_frame_id' = ((mux_sent + lost) % MUX_ID_MAX) + 1
        BY <2>1, <2>2, <2>3 DEF Assign, mux_id_t
  <2>5. ExpectedId(last_read) = (mux_sent % MUX_ID_MAX) + 1
        BY <1>1 DEF BcgvInv, LoopInv, ExpectedId
  <2>6. mux_warned' <=> (mux_sent + lost) % MUX_ID_MAX # mux_sent % MUX_ID_MAX
    <3>1. mux_warned' <=> mux_frame_id' # ExpectedId(last_read)
          BY <1>1, Zenon DEF ReadUdp
    <3>2. mux_frame_id' # ExpectedId(last_read)
            <=> (mux_sent + lost) % MUX_ID_MAX # mux_sent % MUX_ID_MAX
          BY <2>3, <2>4, <2>5
    <3>3. QED
          BY <3>1, <3>2, Zenon
  <2>7. QED
        BY <2>1, <2>2, <2>6, SameId
<1>2. BcgvInv /\ [Next]_vars
        => [ReadUdp /\ last_read # 0 => (mux_warned' <=> mux_lost' % MUX_ID_MAX # 0)]_vars
      BY <1>1
<1>3. QED
      BY <1>2, BcgvInvariant, PTL DEF Spec, GapsReported
=============================================================================
