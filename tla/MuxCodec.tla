------------------------------ MODULE MuxCodec ------------------------------
(***************************************************************************)
(* The two UDP frames of src/src/app.c: what decode_mux() makes of the     *)
(* MUX's fourteen bytes, what the main loop derives from them, and the     *)
(* nine bytes encode_mux() makes of the result.  A word is its four bytes, *)
(* a byte of flags the set of its bits that are on.                        *)
(***************************************************************************)
EXTENDS DataDictionary

CONSTANT LOW_FUEL_THRESHOLD   \* 5 in the code

byte == 0 .. 255

\* With its first byte under 128 a word fits in the int it is added up in.
word == {b \in [1 .. 4 -> byte] : b[1] < 128}

\* The bytes of a MUX frame after its id.
MuxData ==
  [ mileage : word, speed : byte, frame_flags : SUBSET (0 .. 7), motor_flags : SUBSET (0 .. 7),
    tank_level : byte, motor_speed : word, battery_flags : SUBSET (0 .. 7) ]

\* The vehicle's part of the data dictionary.
VehicleType ==
  [ mileage : Nat, speed : byte, frame_flags : SUBSET (0 .. 7), motor_flags : SUBSET (0 .. 7),
    tank_level : tank_level_t, motor_speed : motor_speed_t, battery_flags : SUBSET (0 .. 7) ]

\* A number with a byte put behind it, and without its last byte.
AppendByte(w, b) == w * 256 + b
Shift(w) == w \div 256

\* FILTER_FRAME_MILEAGE and FILTER_MOTOR_SPEED.
Word(b) == AppendByte(AppendByte(AppendByte(b[1], b[2]), b[3]), b[4])

\* decode_mux() past the id.
Decode_mux(vehicle, data) ==
  [ mileage       |-> Word(data.mileage),
    speed         |-> data.speed,
    frame_flags   |-> data.frame_flags,
    motor_flags   |-> data.motor_flags,
    tank_level    |-> Assign(vehicle.tank_level, data.tank_level, tank_level_t),
    motor_speed   |-> Assign(vehicle.motor_speed, Word(data.motor_speed), motor_speed_t),
    battery_flags |-> data.battery_flags ]

\* The bit each indicator stands for in the flags it comes from: the masks 1, 2, 4.
FrameFlag   == [tire_pressure |-> 0, pads_failure |-> 1]
MotorFlag   == [motor_pressure |-> 0, coolant_overheat |-> 1, oil_overheat |-> 2]
BatteryFlag == [battery_low |-> 0, battery_failure |-> 1]

Raised(Flag, flags) == {i \in DOMAIN Flag : Flag[i] \in flags}

\* The indicators the main loop switches on for the vehicle.  Those of a motor failure
\* and of a brake failure never are.
VehicleIndicators(vehicle) ==
  Raised(FrameFlag, vehicle.frame_flags) \cup Raised(MotorFlag, vehicle.motor_flags)
  \cup Raised(BatteryFlag, vehicle.battery_flags)
  \cup IF vehicle.tank_level < LOW_FUEL_THRESHOLD THEN {"low_fuel"} ELSE {}

\* The offsets of the dashboard frame's first two bytes.
FirstByte ==
  [ sidelights |-> 7, headlights |-> 6, redlights |-> 5, low_fuel |-> 4,
    motor_failure |-> 3, tire_pressure |-> 2, pads_failure |-> 1, battery_low |-> 0 ]

SecondByte_CopyPaste ==
  [ warnings |-> 7, battery_failure |-> 6, coolant_overheat |-> 5, motor_pressure |-> 4,
    oil_overheat |-> 5, brake_failure |-> 2, wipers |-> 1, washer_fluid |-> 0 ]

SecondByte ==
  [ warnings |-> 7, battery_failure |-> 6, coolant_overheat |-> 5, motor_pressure |-> 4,
    oil_overheat |-> 3, brake_failure |-> 2, wipers |-> 1, washer_fluid |-> 0 ]

Bits(Byte, on) == {Byte[i] : i \in on \cap DOMAIN Byte}

\* ENCODE_MILEAGE_<n>_BYTE, stored in a byte: shifted by 24, 16, 8 and 0 bits.
Bytes(w) == <<Shift(Shift(Shift(w))) % 256, Shift(Shift(w)) % 256, Shift(w) % 256, w % 256>>

\* encode_mux(), with "on" the indicators and outputs that are on.  The motor speed is
\* stored in a byte too.
Encode_mux(vehicle, on) ==
  [ first   |-> Bits(FirstByte, on),
    second  |-> Bits(SecondByte, on),
    mileage |-> Bytes(vehicle.mileage),
    speed   |-> vehicle.speed,
    tank    |-> vehicle.tank_level,
    motor   |-> vehicle.motor_speed % 256 ]
=============================================================================
