------------------------------- MODULE Values -------------------------------
(***************************************************************************)
(* What becomes of a value on its way from the JSON of a PUT to the bytes  *)
(* of a channel and back: service._coerce, compose_record, scaled_to_raw   *)
(* and parse_record, and the type that is published for it (value_kind).   *)
(* Calls are single steps here; Gateway has their failures, Settings the   *)
(* frame around the bytes.                                                 *)
(*                                                                         *)
(* Numbers are in hundredths, the resolution of parse_record. A channel is *)
(* [length, scale, bit, min, max, step, writable]; `bit` stands for        *)
(* bit_position > 0.                                                       *)
(***************************************************************************)
EXTENDS Integers

CONSTANTS
  Channels,   \* the channels to try, one at a time
  Numbers,    \* numbers that clients send
  Infinity, NotANumber,
  On, Off, Word,  \* texts: true, on, yes; false, off, no; anything else
  Nothing

One == 100
Specials == {Infinity, NotANumber}
Texts == {On, Off, Word}
JsonTypes == {"boolean", "integer", "number", "text"}

\* value_kind: switches are bits or bytes held to 0 and 1.
IsSwitch(c) ==
  c.bit \/ (c.scale = One /\ c.min = 0 /\ c.max = One /\ c.step = 0)
ValueKind(c) ==
  IF IsSwitch(c) THEN "boolean"
  ELSE IF c.length = 4 \/ c.scale = One THEN "integer" ELSE "number"

\* The bytes of a channel, read as a signed number.
Half(c) == IF c.length = 1 THEN 128 ELSE 32768
Raws(c) == IF c.bit THEN 0 .. 1 ELSE -Half(c) .. Half(c) - 1
Signed(n, h) == ((n + h) % (2 * h)) - h

\* The range of a setting consists of multiples of the scale that fit into its bytes,
\* switches have one byte, and what has four is no setting. So it is in the shipped
\* definitions, but for three one byte settings with ranges beyond 127 (p30, p32, p33
\* of the 2.06, 2.36 and 4.19 files); Settings has such a one.
ASSUME ValuesAssumption ==
  /\ Numbers \subseteq Int
  /\ \A x \in Specials \cup Texts : x \notin Int
  /\ Infinity # NotANumber /\ Specials \cap Texts = {} /\ On # Off
  /\ Nothing \notin [type : JsonTypes, val : Int \cup Specials \cup Texts]
  /\ \A c \in Channels :
       /\ c.length \in {1, 2, 4}
       /\ c.scale \in 1 .. One
       /\ c.min \in Int /\ c.max \in Int /\ c.step \in Int
       /\ c.bit \in BOOLEAN /\ c.writable \in BOOLEAN
       /\ IsSwitch(c) => c.length = 1
       /\ c.length = 4 => ~c.writable
       /\ c.writable =>
            /\ \E low \in Raws(c) : c.min = low * c.scale
            /\ \E high \in Raws(c) : c.max = high * c.scale

VARIABLES
  channel,  \* the channel, fixed at the start
  raw,      \* its bytes on the device
  last,     \* the JSON value of the PUT just answered, Nothing after a GET
  status,
  shown     \* the JSON value of the answer

vars == <<channel, raw, last, status, shown>>

\* JSON values: a text may also be a number written out, without a point if it has
\* none. WriteRequest takes all of these.
Json(t, v) == [type |-> t, val |-> v]
Whole == {n \in Numbers : n % One = 0}
Bodies ==
  {Json("boolean", b) : b \in {0, One}}
    \cup {Json("integer", n) : n \in Whole}
    \cup {Json("number", n) : n \in Numbers \cup Specials}
    \cup {Json("text", n) : n \in Numbers \cup Specials \cup Texts}

-----------------------------------------------------------------------------
(* From JSON to bytes. Definitions called Wrong... are the ways this code      *)
(* could plausibly be wrong that the properties below have to notice.           *)

Error(e) == Json(e, 0)

\* int() cuts the decimals off; of an infinite number it raises OverflowError.
Truncated(n) == IF n >= 0 THEN n - (n % One) ELSE n + ((-n) % One)

ToBoolean(j) ==
  IF j.type # "text" THEN Json("boolean", IF j.val = 0 THEN 0 ELSE One)
  ELSE IF j.val \in {On, One} THEN Json("boolean", One)
  ELSE IF j.val \in {Off, 0} THEN Json("boolean", 0)
  ELSE Error("ValueError")

ToNumber(j) == IF j.val \in Texts THEN Error("ValueError") ELSE Json("number", j.val)

ToInteger(j) ==
  IF j.val = Infinity /\ j.type # "text" THEN Error("OverflowError")
  ELSE IF \/ j.val \in Specials \cup Texts
          \/ j.type = "text" /\ j.val % One # 0
  THEN Error("ValueError")
  ELSE Json("integer", Truncated(j.val))

\* service._coerce, by the published kind.
Coerce(c, j) ==
  CASE ValueKind(c) = "boolean" -> ToBoolean(j)
    [] ValueKind(c) = "number"  -> ToNumber(j)
    [] OTHER                    -> ToInteger(j)

\* compose_record: comparisons with NaN are false, and rounding it a ValueError.
WrongOutOfRange(c, v) == v = Infinity \/ (v \in Int /\ v > c.max)
OutOfRange(c, v) == v = Infinity \/ (v \in Int /\ (v > c.max \/ v < c.min))

\* scaled_to_raw: floor(value / scale + 0.5). The quotient of floats may be a little
\* too small, which matters where it comes to a whole number.
WrongScaledToRaw(v, s) == {(v - e) \div s : e \in {0, 1}}
ScaledToRaw(v, s) == {(2 * v + s - e) \div (2 * s) : e \in {0, 1}}

\* The raw values that compose_record may come to.
Encoded(c, w) ==
  CASE w.type = "boolean" -> {w.val \div One}
    [] w.type = "number"  -> ScaledToRaw(w.val, c.scale)
    [] OTHER              -> {w.val \div One}

\* What the bytes are after it: 16 bits, or the lower 8 of them; four are not written.
WrongWritten(c, n) == IF c.length = 4 THEN raw ELSE n % 256 ^ c.length
Written(c, n) == IF c.length = 4 THEN raw ELSE Signed(n, Half(c))

\* parse_record. The product of a float is off by less than the rounding to
\* hundredths takes away.
WrongParse(n, c) ==
  IF c.length = 4 THEN Json("integer", n * One)
  ELSE IF c.bit THEN Json("boolean", n * One)
  ELSE IF c.scale # One THEN Json("number", n * c.scale)
  ELSE Json("integer", n * One)
Parse(n, c) ==
  IF c.length = 4 THEN Json("integer", n * One)
  ELSE IF IsSwitch(c) THEN Json("boolean", IF n = 0 THEN 0 ELSE One)
  ELSE IF c.scale # One THEN Json("number", n * c.scale)
  ELSE Json("integer", n * One)

-----------------------------------------------------------------------------

\* What the device may hold at first: a value of the channel's range.
InRange(c, n) == c.min <= n * c.scale /\ n * c.scale <= c.max
Allowed(c) == {n \in Raws(c) : InRange(c, n)}

Init ==
  /\ channel \in Channels
  /\ raw \in Allowed(channel)
  /\ last = Nothing
  /\ status = 200
  /\ shown = Parse(raw, channel)

\* GET /channels/{channel_id}
Get ==
  /\ last' = Nothing
  /\ status' = 200
  /\ shown' = Parse(raw, channel)
  /\ UNCHANGED <<channel, raw>>

Refuse(s) == status' = s /\ shown' = Nothing /\ UNCHANGED raw

\* PUT /channels/{channel_id}
Accepted(c, w) ==
  \/ w.type = "boolean"
  \/ w.type \in {"integer", "number"} /\ w.val # NotANumber /\ ~OutOfRange(c, w.val)

Put(j) ==
  LET w == Coerce(channel, j) IN
  /\ last' = j
  /\ \/ ~channel.writable /\ Refuse(409)
     \/ channel.writable /\ w.type = "OverflowError" /\ Refuse(500)
     \/ channel.writable /\ w.type # "OverflowError" /\ ~Accepted(channel, w) /\ Refuse(400)
     \/ /\ channel.writable
        /\ Accepted(channel, w)
        /\ \E n \in Encoded(channel, w) : raw' = Written(channel, n)
        /\ status' = 200
        /\ shown' = Parse(raw', channel)
  /\ UNCHANGED channel

\* The value is put that the last answer showed.
PutBack == shown # Nothing /\ Put(shown)

Next == Get \/ (\E j \in Bodies : Put(j)) \/ PutBack

Spec == Init /\ [][Next]_vars

-----------------------------------------------------------------------------
(* Properties *)

TypeOK ==
  /\ channel \in Channels
  /\ raw \in Raws(channel)
  /\ last \in {Nothing} \/ last.type \in JsonTypes
  /\ status \in {200, 400, 409, 500}
  /\ (shown = Nothing) <=> (status # 200)

\* No sequence of PUTs, whatever they ask for, leaves a setting outside the range of
\* its channel (the range check of compose_record, before the rounding).
StaysInRange == InRange(channel, raw) \/ IsSwitch(channel)

\* What is shown has the type that /channels and the OpenAPI document publish for
\* the channel (value_kind against parse_record).
TypeAsPublished == shown # Nothing => shown.type = ValueKind(channel)

\* A PUT that is answered with 200 shows the value asked for, or the multiple of the
\* scale that is nearest to it, on integer channels the one towards zero; the float
\* error of the division never costs a step (scaled_to_raw).
Distance(a, b) == IF a > b THEN a - b ELSE b - a
NearestIsShown ==
  last # Nothing /\ status = 200 /\ last.val \in Int /\ ~IsSwitch(channel) =>
    IF ValueKind(channel) = "number"
    THEN 2 * Distance(shown.val, last.val) <= channel.scale
    ELSE shown.val = Truncated(last.val)

\* To put back what was shown is accepted and changes nothing, for every
\* value that a setting may have (_coerce, compose_record and parse_record together).
PutBackKeeps ==
  [][shown # Nothing /\ last' = shown /\ channel.writable
      => raw' = raw /\ status' = 200]_vars
=============================================================================
