--------------------------- MODULE MuxCodecProofs ---------------------------
(***************************************************************************)
(* The two UDP frames lose nothing they are meant to carry.                *)
(***************************************************************************)
EXTENDS MuxCodec, TLAPS

\* What is appended can be taken off again.
LEMMA AppendShift ==
  ASSUME NEW n \in Nat, NEW r \in byte
  PROVE  /\ AppendByte(n, r) \in Nat
         /\ AppendByte(n, r) % 256 = r
         /\ Shift(AppendByte(n, r)) = n
BY DEF byte, Shift, AppendByte

LEMMA WordBytes ==
  ASSUME NEW b \in word
  PROVE  /\ b[1] \in byte /\ b[2] \in byte /\ b[3] \in byte /\ b[4] \in byte
         /\ b = <<b[1], b[2], b[3], b[4]>>
<1>1. b \in [1 .. 4 -> byte]
      BY DEF word
<1>2. b[1] \in byte /\ b[2] \in byte /\ b[3] \in byte /\ b[4] \in byte
      BY <1>1
<1>3. b = <<b[1], b[2], b[3], b[4]>>
      BY <1>1
<1>4. QED
      BY <1>2, <1>3

\* encode_mux() takes the mileage apart into the bytes decode_mux() made it of, and the
\* low byte of a word is its last byte.
THEOREM WordRoundTrip ==
  \A b \in word : Word(b) \in Nat /\ Bytes(Word(b)) = b /\ Word(b) % 256 = b[4]
<1> SUFFICES ASSUME NEW b \in word
             PROVE  Word(b) \in Nat /\ Bytes(Word(b)) = b /\ Word(b) % 256 = b[4]
    OBVIOUS
<1> DEFINE two == AppendByte(b[1], b[2])
           three == AppendByte(two, b[3])
           four == AppendByte(three, b[4])
<1>1. b[1] \in Nat /\ b[1] % 256 = b[1]
      BY WordBytes DEF byte
<1>2. two \in Nat /\ two % 256 = b[2] /\ Shift(two) = b[1]
      BY <1>1, WordBytes, AppendShift
<1>3. three \in Nat /\ three % 256 = b[3] /\ Shift(three) = two
      BY <1>2, WordBytes, AppendShift
<1>4. four \in Nat /\ four % 256 = b[4] /\ Shift(four) = three
      BY <1>3, WordBytes, AppendShift
<1>5. Word(b) = four
      BY DEF Word
<1> HIDE DEF two, three, four
<1>6. Bytes(four) = <<b[1], b[2], b[3], b[4]>>
      BY <1>1, <1>2, <1>3, <1>4 DEF Bytes
<1>7. QED
      BY <1>4, <1>5, <1>6, WordBytes

\* No two indicators share a bit: each is read back from the bit it was put into.
THEOREM OwnBits ==
  \A on : /\ \A i \in DOMAIN FirstByte : FirstByte[i] \in Bits(FirstByte, on) <=> i \in on
          /\ \A i \in DOMAIN SecondByte : SecondByte[i] \in Bits(SecondByte, on) <=> i \in on
<1>1. \A i, j \in DOMAIN FirstByte : FirstByte[i] = FirstByte[j] => i = j
      BY DEF FirstByte
<1>2. \A i, j \in DOMAIN SecondByte : SecondByte[i] = SecondByte[j] => i = j
      BY DEF SecondByte
<1>3. QED
      BY <1>1, <1>2 DEF Bits

LEMMA DecodeType ==
  ASSUME NEW vehicle \in VehicleType, NEW data \in MuxData
  PROVE  Decode_mux(vehicle, data) \in VehicleType
BY WordRoundTrip DEF Decode_mux, VehicleType, MuxData, Assign
=============================================================================
