------------------------------ MODULE Records ------------------------------
(***************************************************************************)
(* The channels inside a frame: parse_record and compose_record of          *)
(* protocol/parser.py. Values are raw integers (a channel's value divided   *)
(* by its scale); the booleans of switches are 0 and 1.                     *)
(*                                                                         *)
(* A record is [position, length, bit_position, min, max, step], as in      *)
(* models.py; position counts from 0, as there.                             *)
(***************************************************************************)
EXTENDS Framing

\* Definitions called Wrong... are the ways this code could plausibly be wrong
\* that the properties of Settings.tla have to notice; nothing else uses them.

CONSTANT NoValue  \* a channel that the frame does not carry

\* A boolean channel: a bit, or a number constrained to 0 and 1 (value_kind).
IsSwitch(r) == r.bit_position > 0 \/ (r.min = 0 /\ r.max = 1 /\ r.step = 0)

\* The records that are modelled: parse_record also reads four bytes and none.
Valid(r) == r.length \in {1, 2} /\ r.position \in Nat /\ r.bit_position \in 0 .. 7

\* The bytes of a record lie between two positions; those of two records, or their bits,
\* are different.
Within(r, first, end) == first <= r.position /\ r.position + r.length <= end
Apart(r, q) ==
  \/ r.position + r.length <= q.position
  \/ q.position + q.length <= r.position
  \/ /\ r.position = q.position
     /\ r.bit_position > 0 /\ q.bit_position > 0 /\ r.bit_position # q.bit_position

SignedByte(n) == IF n >= 128 THEN n - 256 ELSE n
SignedShort(n) == IF n >= 32768 THEN n - 65536 ELSE n

\* _get_bit_from_bytes and _set_bit: bit 0 is the most significant one.
BitValue(p) == <<128, 64, 32, 16, 8, 4, 2, 1>>[(p % 8) + 1]
GetBit(byte, p) == (byte \div BitValue(p)) % 2
\* A mask that clears the lower bits as well.
WrongSetBit(byte, p, v) ==
  byte - (byte % (2 * BitValue(p))) + v * BitValue(p)
SetBit(byte, p, v) == byte - GetBit(byte, p) * BitValue(p) + v * BitValue(p)

\* parse_record, for one and two byte channels; NoValue for InvalidDataException.
ParseRecord(frame, r) ==
  LET number == IF r.length = 1 THEN SignedByte(frame[r.position + 1])
                ELSE SignedShort(256 * frame[r.position + 1] + frame[r.position + 2])
  IN  IF Len(frame) < r.position + r.length THEN NoValue
      ELSE IF r.bit_position > 0
           THEN GetBit(frame[r.position + 1 + r.bit_position \div 8], r.bit_position)
      ELSE IF IsSwitch(r) THEN (IF number # 0 THEN 1 ELSE 0)
      ELSE number

\* ValueOutOfRange is raised, except for switches, which are not range checked.
OutOfRange(r, v) == ~IsSwitch(r) /\ (v > r.max \/ v < r.min)

\* short_to_bytes: two's complement, what is above 16 bits is cut off.
WrongLowByte(v) == v
LowByte(v) == v % 256
HighByte(v) == (v \div 256) % 256

\* The bytes of the frame that compose_record puts the value in. Of a two byte
\* switch only the first one is written.
Put(frame, r, v) ==
  IF IsSwitch(r) /\ r.bit_position > 0
  THEN [frame EXCEPT ![r.position + 1] = SetBit(@, r.bit_position, v)]
  ELSE IF IsSwitch(r) \/ r.length = 1
  THEN [frame EXCEPT ![r.position + 1] = LowByte(v)]
  ELSE [frame EXCEPT ![r.position + 1] = HighByte(v), ![r.position + 2] = LowByte(v)]

\* compose_record of a value in range, on a frame that reaches to the channel.
ComposeRecord(frame, r, v) == WithChecksum([Put(frame, r, v) EXCEPT ![2] = SET])
=============================================================================
