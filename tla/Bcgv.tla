-------------------------------- MODULE Bcgv --------------------------------
(***************************************************************************)
(* The body controller: src/src/app.c's main loop over the lights, the     *)
(* blinkers and the wipers, and the devices behind the driver.  The loop   *)
(* is one thread: it meets the rest of the world in its driver calls, and  *)
(* pc names the call or the handler that comes next.                       *)
(***************************************************************************)
EXTENDS MuxCodec, Sequences

CONSTANTS
  ACKNOWLEDGEMENT_DELAY, BLINKING_DELAY, WAITING_DELAY,   \* of the automata
  MUX_ID_MAX,         \* MUX frame ids go round in 1 .. MUX_ID_MAX: 100 in the code
  BgfAddresses,       \* the serial numbers the BGF answers to: {11}
  Commands,           \* the command bytes the commodos send, as sets of commands
  FrameSizes,         \* the sizes of the LNS frames received
  MuxFrames,          \* what the MUX reports of the vehicle, legal or not
  Losses,             \* how many MUX frames in a row can get lost
  MAX_BATCH           \* bound: LNS frames per read

Lights   == {"sidelights", "headlights", "redlights"}
Blinkers == {"left_blinker", "right_blinker"}
Devices  == Lights \cup Blinkers

\* The bits of the commodos' command byte.
CommandNames == Devices \cup {"warnings", "wipers", "washer_fluid"}

\* The device each frame id of the BGF stands for, in both directions.
BgfDevice == <<"sidelights", "headlights", "redlights", "right_blinker", "left_blinker">>
BgfIds == 1 .. 5

BGF_SERIAL_NUMBER  == 11
BGF_OUT_FRAME_SIZE == 2

ASSUME FramesAssumption ==
  /\ Commands \subseteq SUBSET CommandNames
  /\ MUX_ID_MAX \in mux_id_t \ {0}
  /\ Losses \subseteq Nat /\ MAX_BATCH \in Nat
  /\ FrameSizes \subseteq 0 .. 2
  /\ MuxFrames \subseteq MuxData

\* What the automata's modules assume of their delays: 100, 100 and 200 against 255.
ASSUME DelaysAssumption ==
  /\ ACKNOWLEDGEMENT_DELAY \in Nat /\ 0 < ACKNOWLEDGEMENT_DELAY
  /\ ACKNOWLEDGEMENT_DELAY < TIMER_MAX
  /\ BLINKING_DELAY \in Nat /\ ACKNOWLEDGEMENT_DELAY <= BLINKING_DELAY
  /\ WAITING_DELAY \in Nat /\ WAITING_DELAY < TIMER_MAX

VARIABLES
  pc,
  lights_fsm, lights_timer, lights_in, lights_ack, lights_out, lights_ind,
  blinkers_fsm, blinkers_timer, blinkers_in, blinkers_ack, blinkers_out,
  warnings_in, indicator_warnings,
  wipers_fsm, wipers_timer, wipers_in, washer_fluid_in, wipers_out, washer_fluid_out,
  mux_frame_id, last_read, mux_warned,   \* mux_warned: this cycle logged a gap
  vehicle,      \* what decode_mux() has set, but for the id
  indicators,   \* the indicators the main loop derives from it, those that are on
  received,     \* the frames of out_lns_frame that are still to be decoded
  frame_size,   \* the frameSize fields of its first five entries
  mux_sent, mux_lost,   \* MUX: the last id sent, and the frames lost before it
  mux_data,             \* MUX: the last legal value of each field it has sent
  bgf_frames,   \* the frames encode_bgf() last wrote, but for their frameSize
  heard,        \* BGF: the devices it has accepted a frame for
  ordered       \* commodos: the last command they sent in a frame of two bytes

lightsVars   == <<lights_fsm, lights_timer, lights_in, lights_ack, lights_out, lights_ind>>
blinkersVars == <<blinkers_fsm, blinkers_timer, blinkers_in, blinkers_ack, blinkers_out,
                  warnings_in, indicator_warnings>>
wipersVars   == <<wipers_fsm, wipers_timer, wipers_in, washer_fluid_in,
                  wipers_out, washer_fluid_out>>
muxVars      == <<mux_frame_id, last_read, mux_warned, vehicle, mux_sent, mux_lost, mux_data>>
lnsVars      == <<received, frame_size, bgf_frames, heard, ordered>>

vars == <<pc, lightsVars, blinkersVars, wipersVars, muxVars, indicators, lnsVars>>

L == INSTANCE FsmLights WITH
  fsm <- lights_fsm, timer <- lights_timer, in <- lights_in,
  acknowledgement <- lights_ack, out <- lights_out, indicator <- lights_ind

B == INSTANCE FsmBlinkers WITH
  fsm <- blinkers_fsm, timer <- blinkers_timer, in <- blinkers_in,
  acknowledgement <- blinkers_ack, out <- blinkers_out

W == INSTANCE FsmWipers WITH fsm <- wipers_fsm, timer <- wipers_timer

Steps == {"open", "read_udp", "read_lns", "decode", "wipers", "transfer",
          "write_udp", "write_lns", "exit"} \cup Devices

\* What an LNS line can deliver: the commodos' commands, and the BGF's answers to
\* what it has accepted, late, lost, repeated or out of order.  An answer is known
\* by its id: decode_bgf() reads no more of it.
Arrivals ==
  {[from |-> "commodos", command |-> c, size |-> s] : c \in Commands, s \in FrameSizes}
  \cup {[from |-> "bgf", id |-> i, size |-> s] :
          i \in {j \in BgfIds : BgfDevice[j] \in heard}, s \in FrameSizes}

\* The parts of a frame for the BGF that encode_bgf() writes.
BgfFrames == [BgfIds -> [serNum : byte, id : {0} \cup BgfIds, value : BOOLEAN]]

-----------------------------------------------------------------------------
TypeOK ==
  /\ pc \in Steps
  /\ L!TypeOK /\ B!TypeOK /\ W!TypeOK
  /\ mux_frame_id \in mux_id_t /\ last_read \in mux_id_t /\ mux_warned \in BOOLEAN
  /\ vehicle \in VehicleType
  /\ indicators \subseteq DOMAIN FirstByte \cup DOMAIN SecondByte
  /\ frame_size \in [BgfIds -> 0 .. 2]
  /\ received \in Seq(Arrivals) /\ Len(received) <= MAX_BATCH
  /\ mux_sent \in 1 .. MUX_ID_MAX /\ mux_lost \in Losses /\ mux_data \in MuxData
  /\ bgf_frames \in BgfFrames
  /\ heard \subseteq Devices /\ ordered \subseteq CommandNames

Zeroes ==
  [ mileage |-> 0, speed |-> 0, frame_flags |-> {}, motor_flags |-> {},
    tank_level |-> 0, motor_speed |-> 0, battery_flags |-> {} ]

\* application_init() and main()'s globals; the MUX may have been sending for a while.
Init ==
  /\ pc = "open"
  /\ L!Init /\ B!Init /\ W!Init
  /\ mux_frame_id = 0 /\ last_read = 0 /\ mux_warned = FALSE
  /\ vehicle = Zeroes /\ indicators = {}
  /\ received = <<>> /\ frame_size = [i \in BgfIds |-> 0]
  /\ mux_sent \in 1 .. MUX_ID_MAX /\ mux_lost \in Losses
  /\ mux_data = [Zeroes EXCEPT !.mileage = <<0, 0, 0, 0>>, !.motor_speed = <<0, 0, 0, 0>>]
  /\ bgf_frames = [i \in BgfIds |-> [serNum |-> 0, id |-> 0, value |-> FALSE]]
  /\ heard = {} /\ ordered = {}

\* drv_open() succeeds.
Open ==
  /\ pc = "open"
  /\ pc' = "read_udp"
  /\ UNCHANGED <<lightsVars, blinkersVars, wipersVars, muxVars, indicators, lnsVars>>

ExpectedId_NoWrap(id) == id + 1

\* The id the loop expects after last_read.
ExpectedId(id) == (id % MUX_ID_MAX) + 1

\* drv_read_udp_10ms() blocks until a frame comes: the one after those lost.  The MUX
\* keeps its ids in 1 .. MUX_ID_MAX, so the setter never drops one.
ReadUdp ==
  /\ pc = "read_udp"
  /\ \E lost \in Losses, data \in MuxFrames :
       /\ mux_sent' = ((mux_sent + lost) % MUX_ID_MAX) + 1
       /\ mux_lost' = lost
       /\ mux_frame_id' = Assign(mux_frame_id, mux_sent', mux_id_t)
       /\ vehicle' = Decode_mux(vehicle, data)
       /\ mux_data' = [data EXCEPT
            !.tank_level  = IF @ \in tank_level_t THEN @ ELSE mux_data.tank_level,
            !.motor_speed = IF Word(@) \in motor_speed_t THEN @ ELSE mux_data.motor_speed]
  /\ mux_warned' = (mux_frame_id' # ExpectedId(last_read))
  /\ last_read' = mux_frame_id'
  /\ pc' = "read_lns"
  /\ UNCHANGED <<lightsVars, blinkersVars, wipersVars, indicators, lnsVars>>

\* The commodos' frames of a batch that the loop decodes.
Readable(batch) == {i \in DOMAIN batch : batch[i].from = "commodos" /\ batch[i].size >= 2}

\* drv_read_lns() empties the line: the last of the commodos' frames is the newest.
ReadLns ==
  /\ pc = "read_lns"
  /\ \E n \in 0 .. MAX_BATCH : received' \in [1 .. n -> Arrivals]
  /\ \/ Readable(received') = {} /\ ordered' = ordered
     \/ \E i \in Readable(received') :
          /\ \A j \in Readable(received') : j <= i
          /\ ordered' = received'[i].command
  /\ frame_size' = [i \in BgfIds |->
                      IF i <= Len(received') THEN received'[i].size ELSE frame_size[i]]
  /\ pc' = "decode"
  /\ UNCHANGED <<lightsVars, blinkersVars, wipersVars, muxVars, indicators, bgf_frames, heard>>

\* drv_open() or a read fails (drv_read_lns() also when more frames wait than its buffer
\* can hold): main_loop() returns, or is not called, and main() ends in failure.
DriverFails ==
  /\ pc \in {"open", "read_udp", "read_lns"}
  /\ pc' = "exit"
  /\ UNCHANGED <<lightsVars, blinkersVars, wipersVars, muxVars, indicators, lnsVars>>

Decode_commodos(command) ==
  /\ lights_in' = [l \in Lights |-> l \in command] /\ L!Decode_commodos
  /\ blinkers_in' = [b \in Blinkers |-> b \in command]
  /\ warnings_in' = ("warnings" \in command) /\ B!Decode_commodos
  /\ wipers_in' = ("wipers" \in command)
  /\ washer_fluid_in' = ("washer_fluid" \in command) /\ W!Decode_commodos

\* The first two acknowledgement ids taken for one another.
Decode_bgf_Swapped(id) ==
  LET d == IF id \in {1, 2} THEN BgfDevice[3 - id] ELSE BgfDevice[id]
  IN  /\ \/ d \in Lights /\ L!Decode_bgf(d) /\ UNCHANGED blinkersVars
         \/ d \in Blinkers /\ B!Decode_bgf(d) /\ UNCHANGED lightsVars
      /\ UNCHANGED wipersVars

Decode_bgf(id) ==
  /\ \/ BgfDevice[id] \in Lights /\ L!Decode_bgf(BgfDevice[id]) /\ UNCHANGED blinkersVars
     \/ BgfDevice[id] \in Blinkers /\ B!Decode_bgf(BgfDevice[id]) /\ UNCHANGED lightsVars
  /\ UNCHANGED wipersVars

\* The frames of a read taken from the last to the first.
DecodeFrame_NewestFirst ==
  /\ pc = "decode" /\ received # <<>>
  /\ LET f == received[Len(received)]
     IN  \/ f.size < 2 /\ UNCHANGED <<lightsVars, blinkersVars, wipersVars>>
         \/ f.size >= 2 /\ f.from = "commodos" /\ Decode_commodos(f.command)
         \/ f.size >= 2 /\ f.from = "bgf" /\ Decode_bgf(f.id)
  /\ received' = SubSeq(received, 1, Len(received) - 1)
  /\ UNCHANGED <<pc, muxVars, indicators, frame_size, bgf_frames, heard, ordered>>

\* One round of the loop over out_lns_frame.  Frames under two bytes are ignored; a
\* commodos frame with a wrong CRC is logged and decoded like any other.
DecodeFrame ==
  /\ pc = "decode" /\ received # <<>>
  /\ LET f == Head(received)
     IN  \/ f.size < 2 /\ UNCHANGED <<lightsVars, blinkersVars, wipersVars>>
         \/ f.size >= 2 /\ f.from = "commodos" /\ Decode_commodos(f.command)
         \/ f.size >= 2 /\ f.from = "bgf" /\ Decode_bgf(f.id)
  /\ received' = Tail(received)
  /\ UNCHANGED <<pc, muxVars, indicators, frame_size, bgf_frames, heard, ordered>>

DecodeDone ==
  /\ pc = "decode" /\ received = <<>>
  /\ pc' = "sidelights"
  /\ UNCHANGED <<lightsVars, blinkersVars, wipersVars, muxVars, indicators, lnsVars>>

\* The order of the calls that run the automata.
After(step) == CASE step = "sidelights"    -> "headlights"
                 [] step = "headlights"    -> "redlights"
                 [] step = "redlights"     -> "left_blinker"
                 [] step = "left_blinker"  -> "right_blinker"
                 [] step = "right_blinker" -> "wipers"

ComputeLight ==
  /\ pc \in Lights /\ L!Compute(pc)
  /\ pc' = After(pc)
  /\ UNCHANGED <<blinkersVars, wipersVars, muxVars, indicators, lnsVars>>

ComputeBlinker ==
  /\ pc \in Blinkers /\ B!Compute(pc)
  /\ pc' = After(pc)
  /\ UNCHANGED <<lightsVars, wipersVars, muxVars, indicators, lnsVars>>

ComputeWipers ==
  /\ pc = "wipers" /\ W!Compute_wipers
  /\ pc' = "transfer"
  /\ UNCHANGED <<lightsVars, blinkersVars, muxVars, indicators, lnsVars>>

\* The warnings indicator put out by the main loop.
Transfer_ClearsWarnings ==
  /\ pc = "transfer"
  /\ indicators' = VehicleIndicators(vehicle)
  /\ indicator_warnings' = (indicator_warnings /\ warnings_in)
  /\ pc' = "write_udp"
  /\ UNCHANGED <<lightsVars, wipersVars, muxVars, lnsVars, warnings_in, blinkers_fsm,
                 blinkers_timer, blinkers_in, blinkers_ack, blinkers_out>>

\* "Transfer remaining IN signals to OUT signals".
Transfer ==
  /\ pc = "transfer"
  /\ indicators' = VehicleIndicators(vehicle)
  /\ pc' = "write_udp"
  /\ UNCHANGED <<lightsVars, blinkersVars, wipersVars, muxVars, lnsVars>>

\* What encode_mux() finds switched on.
On ==
  {l \in Lights : lights_ind[l]} \cup indicators
  \cup {i \in {"warnings"} : indicator_warnings}
  \cup {o \in {"wipers"} : wipers_out} \cup {o \in {"washer_fluid"} : washer_fluid_out}

\* The frame for the dashboard, and what it shows as on.
DashboardFrame == Encode_mux(vehicle, On)

Shows(i) == \/ i \in DOMAIN FirstByte /\ FirstByte[i] \in DashboardFrame.first
            \/ i \in DOMAIN SecondByte /\ SecondByte[i] \in DashboardFrame.second

Out(d) == IF d \in Lights THEN lights_out[d] ELSE blinkers_out[d]

\* The five frames for the BGF.  Each is given its size as serial number, over the
\* serial number assigned just before.
Encode_bgf ==
  [i \in BgfIds |-> [serNum |-> BGF_OUT_FRAME_SIZE, id |-> i, value |-> Out(BgfDevice[i])]]

\* The frames for the BGF left as they are when the dashboard frame cannot be sent.
WriteUdp_EncodesOnSuccess ==
  /\ pc = "write_udp"
  /\ bgf_frames' = Encode_bgf \/ bgf_frames' = bgf_frames
  /\ pc' = "write_lns"
  /\ UNCHANGED <<lightsVars, blinkersVars, wipersVars, muxVars, indicators,
                 received, frame_size, heard, ordered>>

\* The dashboard frame goes out, or does not and the loop only logs it; either way
\* the frames for the BGF are encoded next.
WriteUdp ==
  /\ pc = "write_udp"
  /\ bgf_frames' = Encode_bgf
  /\ pc' = "write_lns"
  /\ UNCHANGED <<lightsVars, blinkersVars, wipersVars, muxVars, indicators,
                 received, frame_size, heard, ordered>>

\* The BGF takes a frame of its own, of the one size it knows: the frameSize is what
\* the last read that filled the entry left there, encode_bgf() does not set it.
Accepted(i) == bgf_frames[i].serNum \in BgfAddresses /\ frame_size[i] = BGF_OUT_FRAME_SIZE

\* The frames go out and the BGF takes those that are for it, or they do not and the
\* loop only logs it.
WriteLns ==
  /\ pc = "write_lns"
  /\ \/ heard' = heard \cup {BgfDevice[bgf_frames[i].id] : i \in {j \in BgfIds : Accepted(j)}}
     \/ heard' = heard
  /\ pc' = "read_udp"
  /\ UNCHANGED <<lightsVars, blinkersVars, wipersVars, muxVars, indicators,
                 received, frame_size, bgf_frames, ordered>>

\* The steps of a loop whose driver calls succeed.
Cycle ==
  \/ Open \/ ReadUdp \/ ReadLns \/ DecodeFrame \/ DecodeDone
  \/ ComputeLight \/ ComputeBlinker \/ ComputeWipers
  \/ Transfer \/ WriteUdp \/ WriteLns

Next == Cycle \/ DriverFails

Spec == Init /\ [][Next]_vars

-----------------------------------------------------------------------------
\* Run by the loop, the automata see nothing but what their own modules allow for:
\* what is shown of FsmLights, FsmBlinkers and FsmWipers holds in the application.
ImplementsComponents == L!Spec /\ B!Spec /\ W!Spec

\* The command behind a device, as the last frame decoded left it.
CommandOf(d) == IF d \in Lights THEN lights_in[d] ELSE blinkers_in[d] \/ warnings_in

\* A device the commodos last asked for.
Ordered(d) == d \in ordered \/ (d \in Blinkers /\ "warnings" \in ordered)

\* The devices that the frames for the BGF switch on.
Switched == {BgfDevice[bgf_frames[i].id] : i \in {j \in BgfIds : bgf_frames[j].value}}

\* No frame sent to the BGF switches on a device that the commodos' newest command
\* leaves off: of several commands in one read the last one counts, and it is in the
\* frames of the same cycle, whether or not the dashboard could be reached.
FramesFollowCommands ==
  pc = "write_lns" => \A d \in Switched : Ordered(d)

\* No light is shown that the frames going to the BGF leave off, even though the
\* dashboard frame was sent, or lost, before they were made.
LightsShownAreSent ==
  pc = "write_lns" => \A l \in Lights : Shows(l) => l \in Switched

\* While a bulb is driven the dashboard shows the warnings as the commodos last
\* commanded them, whichever blinker ran last.
WarningsShownAsCommanded ==
  pc = "write_lns" /\ Switched \cap Blinkers # {}
    => (Shows("warnings") <=> "warnings" \in ordered)

\* What the MUX has sent reaches the dashboard in the same cycle: the mileage byte by
\* byte, the speed, the last legal tank level, each flag in a bit of its own that
\* nothing else sets, and low fuel by the level shown.  No other failure is shown.  The
\* motor speed is not among it: see MotorSpeedShown.
DashboardShowsVehicle ==
  pc = "write_udp" =>
    /\ DashboardFrame.mileage = mux_data.mileage
    /\ DashboardFrame.speed = mux_data.speed
    /\ DashboardFrame.tank = mux_data.tank_level
    /\ \A i \in DOMAIN FrameFlag : Shows(i) <=> FrameFlag[i] \in mux_data.frame_flags
    /\ \A i \in DOMAIN MotorFlag : Shows(i) <=> MotorFlag[i] \in mux_data.motor_flags
    /\ \A i \in DOMAIN BatteryFlag : Shows(i) <=> BatteryFlag[i] \in mux_data.battery_flags
    /\ Shows("low_fuel") <=> mux_data.tank_level < LOW_FUEL_THRESHOLD
    /\ ~Shows("motor_failure") /\ ~Shows("brake_failure")

\* The dashboard shows the motor speed: types.csv has it in "rotations per minute", up
\* to 10000, and the dashboard has a gauge for them.
MotorSpeedShown == pc = "write_udp" => DashboardFrame.motor = Word(mux_data.motor_speed)

\* How the automaton of a device stands.
Lit(d) == IF d \in Lights THEN lights_fsm[d] = L!ON ELSE blinkers_fsm[d] = B!ACTIVE_ON

Acknowledged(d) == IF d \in Lights THEN lights_fsm[d] = L!ACKNOWLEDGED
                                   ELSE blinkers_fsm[d] = B!ACTIVE_ON_ACKNOWLEDGED

Failed(d) == IF d \in Lights THEN lights_fsm[d] = L!ERROR ELSE blinkers_fsm[d] = B!ERROR

\* A device passes for acknowledged only after the BGF has accepted a frame for it.
AcknowledgedOnlyIfHeard == \A d \in Devices : Acknowledged(d) => d \in heard

\* The devices whose timer survives to the next cycle.
Supervised == Devices \ {"sidelights"}

\* A device as a supervised lamp: its timer matters while it is lit and nowhere else.
Phase(d) == CASE Lit(d)          -> "lit"
              [] Acknowledged(d) -> "confirmed"
              [] Failed(d)       -> "failed"
              [] OTHER           -> "dark"

Watch(d) == IF ~Lit(d) THEN 0 ELSE IF d \in Lights THEN lights_timer[d] ELSE blinkers_timer[d]

Lamp == INSTANCE SupervisedLamp WITH
  Lamps     <- Supervised,
  Deadline  <- ACKNOWLEDGEMENT_DELAY,
  requested <- [d \in Supervised |-> CommandOf(d)],
  phase     <- [d \in Supervised |-> Phase(d)],
  watch     <- [d \in Supervised |-> Watch(d)]

\* Lights and blinkers, each run once per cycle, together implement supervised lamps
\* that the commodos' frames alone request: each is lit, waits, is confirmed, fails or
\* is put out by itself, in a step that changes no request.
DevicesSupervised == Lamp!Spec

\* From the second frame on a gap is logged exactly when frames were lost, unless as
\* many as a whole turn of the ids.
GapsReported ==
  [][ReadUdp /\ last_read # 0 => (mux_warned' <=> mux_lost' % MUX_ID_MAX # 0)]_vars

\* A light that stays commanded, and that the BGF has accepted no frame for, is in the
\* end given up: the README's lights that do not stay on.
CommandedLightsGiveUp ==
  \A l \in Lights \ {"sidelights"} :
    <>[](lights_in[l] /\ l \notin heard /\ pc # "exit") => <>[](lights_fsm[l] = L!ERROR)

\* encode_bgf() "creates and encodes the LNS frames for the BGF".
FramesAddressTheBgf ==
  pc = "write_lns" => \A i \in BgfIds : bgf_frames[i].serNum = BGF_SERIAL_NUMBER

-----------------------------------------------------------------------------
\* The devices whose automaton has run since the last frame was decoded.
Computed ==
  CASE pc = "headlights"    -> {"sidelights"}
    [] pc = "redlights"     -> {"sidelights", "headlights"}
    [] pc = "left_blinker"  -> Lights
    [] pc = "right_blinker" -> Lights \cup {"left_blinker"}
    [] pc \in {"wipers", "transfer", "write_udp", "write_lns"} -> Devices
    [] OTHER -> {}

\* Acknowledged, or about to be.
Acknowledging(d) ==
  IF d \in Lights THEN lights_ack[d] \/ lights_fsm[d] = L!ACKNOWLEDGED
                  ELSE blinkers_ack[d] \/ blinkers_fsm[d] = B!ACTIVE_ON_ACKNOWLEDGED

\* What decode_mux() makes of a frame without an illegal value.
VehicleOf(data) ==
  [ mileage |-> Word(data.mileage), speed |-> data.speed,
    frame_flags |-> data.frame_flags, motor_flags |-> data.motor_flags,
    tank_level |-> data.tank_level, motor_speed |-> Word(data.motor_speed),
    battery_flags |-> data.battery_flags ]

\* The command variables are those of one command.
Obeyed(command) ==
  /\ lights_in = [l \in Lights |-> l \in command]
  /\ blinkers_in = [b \in Blinkers |-> b \in command]
  /\ warnings_in = ("warnings" \in command)

\* Where the loop stands: an automaton that has run in this cycle drives its device only
\* on a command, and the last blinker to drive a bulb has brought the warnings indicator
\* up to date; the vehicle's data is what the MUX last sent, and so is the id the next is
\* compared to.
LoopInv ==
  /\ TypeOK
  /\ last_read # 0 => last_read = mux_sent
  /\ vehicle = VehicleOf(mux_data)
  /\ pc \in {"write_udp", "write_lns"} => indicators = VehicleIndicators(vehicle)
  /\ \A d \in Devices : Acknowledging(d) => d \in heard
  /\ \A l \in Lights : lights_ind[l] => lights_out[l]
  /\ \A d \in Computed : Out(d) => CommandOf(d)
  /\ \A b \in Blinkers \cap Computed : Out(b) => (indicator_warnings <=> warnings_in)

\* The commodos' newest command is the last of those still to be decoded, or is obeyed;
\* the frames that go out are those of the devices as they are.
OrderInv ==
  /\ pc # "decode" => received = <<>>
  /\ Readable(received) = {} => Obeyed(ordered)
  /\ \A i \in Readable(received) :
       (\A j \in Readable(received) : j <= i) => received[i].command = ordered
  /\ pc = "write_lns" => bgf_frames = Encode_bgf

\* What holds between any two steps of the loop, from which its properties follow.
BcgvInv == LoopInv /\ OrderInv
=============================================================================
