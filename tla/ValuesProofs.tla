---------------------------- MODULE ValuesProofs ----------------------------
(***************************************************************************)
(* Values on their way to a channel and back, for any settings whose       *)
(* ranges fit their bytes, any other channels, and any numbers.            *)
(***************************************************************************)
EXTENDS Values, TLAPS

\* The bytes are of the channel's range, and what is shown is what they say.
Inv ==
  /\ channel \in Channels
  /\ raw \in Raws(channel)
  /\ IsSwitch(channel) => raw \in 0 .. 1
  /\ ~IsSwitch(channel) => InRange(channel, raw)
  /\ status \in {200, 400, 409, 500}
  /\ status = 200 => shown = Parse(raw, channel)
  /\ status # 200 => shown = Nothing

\* What the assumption says of one channel.
ChannelOK(c) ==
  /\ c.length \in {1, 2, 4}
  /\ c.scale \in 1 .. One
  /\ c.min \in Int /\ c.max \in Int /\ c.step \in Int
  /\ c.bit \in BOOLEAN /\ c.writable \in BOOLEAN
  /\ IsSwitch(c) => c.length = 1
  /\ c.length = 4 => ~c.writable
  /\ c.writable =>
       /\ \E low \in Raws(c) : c.min = low * c.scale
       /\ \E high \in Raws(c) : c.max = high * c.scale

LEMMA ChannelsOK == ASSUME NEW c \in Channels PROVE ChannelOK(c)
BY ValuesAssumption DEF ChannelOK

LEMMA RawsAreInts == ASSUME NEW c PROVE Raws(c) \subseteq Int
BY DEF Raws, Half

-----------------------------------------------------------------------------
(* Arithmetic of scaled_to_raw *)

\* A quotient is at least k if the dividend reaches k times the divisor.
LEMMA Quotient ==
  ASSUME NEW a \in Int, NEW d \in Nat \ {0}, NEW k \in Int
  PROVE  /\ a \div d \in Int
         /\ k * d <= a => k <= a \div d
         /\ a < (k + 1) * d => a \div d <= k
<1> DEFINE q == a \div d
           r == a % d
<1>1. q \in Int /\ r \in Int /\ 0 <= r /\ r < d /\ a = d * q + r
  OBVIOUS
<1> HIDE DEF q, r
<1>2. k * d <= a => k <= q
  <2> SUFFICES ASSUME k * d <= a, q < k PROVE FALSE BY <1>1
  <2>1. PICK e \in Nat : k = q + 1 + e
    <3>1. k - q - 1 \in Nat /\ k = q + 1 + (k - q - 1) BY <1>1
    <3> QED BY <3>1
  <2>2. k * d = d * q + d + e * d BY <1>1, <2>1
  <2>3. e * d \in Nat /\ d * q \in Int BY <1>1, <2>1
  <2> QED BY <1>1, <2>2, <2>3
<1>3. a < (k + 1) * d => q <= k
  <2> SUFFICES ASSUME a < (k + 1) * d, q > k PROVE FALSE BY <1>1
  <2>1. PICK e \in Nat : q = k + 1 + e
    <3>1. q - k - 1 \in Nat /\ q = k + 1 + (q - k - 1) BY <1>1
    <3> QED BY <3>1
  <2>2. d * q = (k + 1) * d + e * d BY <1>1, <2>1
  <2>3. e * d \in Nat /\ (k + 1) * d \in Int BY <2>1
  <2> QED BY <1>1, <2>2, <2>3
<1> QED BY <1>1, <1>2, <1>3 DEF q

\* What the quotient leaves over is less than the divisor.
LEMMA Remainder ==
  ASSUME NEW a \in Int, NEW d \in Nat \ {0}
  PROVE  d * (a \div d) <= a /\ a <= d * (a \div d) + d - 1
OBVIOUS

\* Products grow with their first factor.
LEMMA Monotone ==
  ASSUME NEW a \in Int, NEW b \in Int, NEW s \in Nat, a <= b
  PROVE  a * s <= b * s
<1>1. (b - a) * s \in Nat BY b - a \in Nat
<1>2. (b - a) * s = b * s - a * s OBVIOUS
<1> QED BY <1>1, <1>2

\* Between multiples of the scale, scaled_to_raw comes to a number of steps between.
LEMMA ScaledStays ==
  ASSUME NEW v \in Int, NEW s \in 1 .. One, NEW low \in Int, NEW high \in Int,
         low * s <= v, v <= high * s, NEW n \in ScaledToRaw(v, s)
  PROVE  n \in low .. high
<1>1. PICK e \in {0, 1} : n = (2 * v + s - e) \div (2 * s) BY DEF ScaledToRaw
<1> DEFINE a == 2 * v + s - e
<1>2. /\ s \in Int /\ 1 <= s /\ e \in Int /\ 0 <= e /\ e <= 1
      /\ a \in Int /\ 2 * s \in Nat \ {0}
  BY DEF One
<1>3. low * (2 * s) <= a
  <2>1. low * (2 * s) = 2 * (low * s) BY <1>2
  <2>2. low * s \in Int BY <1>2
  <2> QED BY <1>2, <2>1, <2>2
<1>4. a < (high + 1) * (2 * s)
  <2>1. (high + 1) * (2 * s) = 2 * (high * s) + 2 * s BY <1>2
  <2>2. high * s \in Int BY <1>2
  <2> QED BY <1>2, <2>1, <2>2
<1> QED BY <1>1, <1>2, <1>3, <1>4, Quotient

\* It goes to the nearest of them, and the float error does not show.
LEMMA ScaledIsNearest ==
  ASSUME NEW v \in Int, NEW s \in 1 .. One, NEW n \in ScaledToRaw(v, s)
  PROVE  n \in Int /\ 2 * Distance(n * s, v) <= s
<1>1. PICK e \in {0, 1} : n = (2 * v + s - e) \div (2 * s) BY DEF ScaledToRaw
<1> DEFINE a == 2 * v + s - e
           d == 2 * s
<1>2. /\ s \in Int /\ 1 <= s /\ e \in Int /\ 0 <= e /\ e <= 1
      /\ a \in Int /\ d \in Nat \ {0}
  BY DEF One
<1>3. n \in Int BY <1>1, <1>2, Quotient
<1>4. d * n <= a /\ a <= d * n + d - 1 BY <1>1, <1>2, Remainder
<1>5. d * n = 2 * (n * s) /\ n * s \in Int BY <1>2, <1>3
<1> QED BY <1>2, <1>3, <1>4, <1>5 DEF Distance

\* A multiple of the scale comes back as itself.
LEMMA ScaledIsInverse ==
  ASSUME NEW k \in Int, NEW s \in 1 .. One, NEW n \in ScaledToRaw(k * s, s)
  PROVE  n = k
<1>1. k * s \in Int /\ k * s <= k * s BY DEF One
<1>2. n \in k .. k BY <1>1, ScaledStays
<1> QED BY <1>2

-----------------------------------------------------------------------------
(* What a PUT does to the bytes *)

\* int() leaves whole numbers.
LEMMA TruncatedIsWhole ==
  ASSUME NEW v \in Int
  PROVE  /\ Truncated(v) \in Int
         /\ Truncated(v) \div One \in Int
         /\ Truncated(v) = (Truncated(v) \div One) * One
<1>1. \A u \in Int : \E q \in Int : u - (u % One) = q * One
  BY DEF One
<1>2. PICK q \in Int : Truncated(v) = q * One
  <2>1. CASE v >= 0 BY <1>1, <2>1 DEF Truncated
  <2>2. CASE v < 0
    <3>1. PICK q \in Int : (-v) - ((-v) % One) = q * One BY <1>1
    <3>2. (-v) % One \in Int BY DEF One
    <3>3. Truncated(v) = (-q) * One BY <2>2, <3>1, <3>2 DEF Truncated, One
    <3> QED BY <3>3
  <2> QED BY <2>1, <2>2
<1>3. q * One \in Int /\ (q * One) \div One = q BY DEF One
<1> QED BY <1>2, <1>3

\* Dividing does not change what is smaller than the divisor.
LEMMA SmallRemainder ==
  ASSUME NEW d \in Nat \ {0}, NEW a \in Int, 0 <= a, a < d
  PROVE  a % d = a
<1>1. a \div d = 0
  <2>1. 0 * d <= a /\ a < (0 + 1) * d OBVIOUS
  <2> QED BY <2>1, Quotient
<1>2. a = d * (a \div d) + (a % d) /\ a % d \in Int OBVIOUS
<1> QED BY <1>1, <1>2

LEMMA HalfIsPositive == ASSUME NEW c PROVE Half(c) \in Nat \ {0}
BY DEF Half

\* The values of a channel's bytes have no gaps.
LEMMA RawsAreInterval ==
  ASSUME NEW c, NEW low \in Raws(c), NEW high \in Raws(c), NEW n \in Int,
         low <= n, n <= high
  PROVE  n \in Raws(c)
<1>1. CASE c.bit BY <1>1 DEF Raws
<1>2. CASE ~c.bit BY <1>2, HalfIsPositive DEF Raws
<1> QED BY <1>1, <1>2

\* Bytes hold what fits into them.
LEMMA Fits ==
  ASSUME NEW c \in Channels, c.writable, NEW n \in Raws(c), c.bit => c.length = 1
  PROVE  Written(c, n) = n
<1> DEFINE h == Half(c)
<1>1. c.length \in {1, 2} BY ChannelsOK DEF ChannelOK
<1>2. h \in Nat \ {0} /\ (c.length = 1 => h = 128) BY HalfIsPositive DEF Half
<1>3. n \in Int /\ -h <= n /\ n < h
  <2>1. CASE c.bit BY <1>2, <2>1 DEF Raws
  <2>2. CASE ~c.bit BY <1>2, <2>2 DEF Raws
  <2> QED BY <2>1, <2>2
<1> HIDE DEF h
<1>4. (n + h) % (2 * h) = n + h BY <1>2, <1>3, SmallRemainder
<1> QED BY <1>1, <1>2, <1>3, <1>4 DEF Written, Signed, h

\* The JSON values that a PUT may have.
Jsons == {Json(t, v) : t \in JsonTypes, v \in Int \cup Specials \cup Texts}

\* A switch turns whatever it accepts into its bit.
LEMMA SwitchWrites ==
  ASSUME NEW c \in Channels, c.writable, IsSwitch(c), NEW j \in Jsons,
         Accepted(c, Coerce(c, j)), NEW n \in Encoded(c, Coerce(c, j))
  PROVE  n \in 0 .. 1 /\ n \in Raws(c) /\ Written(c, n) = n
<1> DEFINE w == Coerce(c, j)
<1>1. w = ToBoolean(j) BY DEF Coerce, ValueKind
<1>2. w.type = "boolean" /\ w.val \in {0, One}
  BY <1>1 DEF ToBoolean, Accepted, Json, Error
<1>3. n \in {0 \div One, One \div One} BY <1>2 DEF Encoded
<1>4. n \in 0 .. 1 BY <1>3 DEF One
<1>5. c.length = 1 BY ChannelsOK DEF ChannelOK
<1>6. n \in Raws(c) BY <1>4, <1>5 DEF Raws, Half
<1> QED BY <1>4, <1>5, <1>6, Fits

\* A number that is accepted is one, comes to bytes of the channel's range, and to those
\* of the nearest step.
LEMMA NumberWrites ==
  ASSUME NEW c \in Channels, c.writable, ValueKind(c) = "number", NEW j \in Jsons,
         Accepted(c, Coerce(c, j)), NEW n \in Encoded(c, Coerce(c, j))
  PROVE  /\ j.val \in Int /\ n \in ScaledToRaw(j.val, c.scale)
         /\ n \in Raws(c) /\ InRange(c, n) /\ Written(c, n) = n
<1> DEFINE w == Coerce(c, j)
<1>1. ~IsSwitch(c) /\ c.scale # One BY DEF ValueKind
<1>2. w = ToNumber(j) BY DEF Coerce
<1>3. w = Json("number", j.val) /\ j.val \notin Texts
  BY <1>2 DEF ToNumber, Accepted, Json, Error
<1>4. w.type = "number" /\ w.val = j.val BY <1>3 DEF Json
<1>5. j.val \in Int /\ ~OutOfRange(c, j.val)
  <2>1. j.val \in Int \cup Specials \cup Texts BY DEF Jsons, Json
  <2> QED BY <1>3, <1>4, <2>1 DEF Accepted, OutOfRange, Specials
<1>6. n \in ScaledToRaw(j.val, c.scale) BY <1>4 DEF Encoded
<1>7. /\ c.scale \in 1 .. One /\ c.min \in Int /\ c.max \in Int
  BY ChannelsOK DEF ChannelOK
<1>8. PICK low \in Raws(c) : c.min = low * c.scale BY ChannelsOK DEF ChannelOK
<1>9. PICK high \in Raws(c) : c.max = high * c.scale BY ChannelsOK DEF ChannelOK
<1>10. low \in Int /\ high \in Int BY <1>8, <1>9, RawsAreInts
<1>11. low * c.scale <= j.val /\ j.val <= high * c.scale
  BY <1>5, <1>7, <1>8, <1>9 DEF OutOfRange
<1>12. n \in low .. high BY <1>5, <1>6, <1>7, <1>10, <1>11, ScaledStays
<1>13. n \in Raws(c) BY <1>8, <1>9, <1>10, <1>12, RawsAreInterval
<1>14. InRange(c, n)
  <2>1. low * c.scale <= n * c.scale /\ n * c.scale <= high * c.scale
    BY <1>7, <1>10, <1>12, Monotone DEF One
  <2> QED BY <1>8, <1>9, <2>1 DEF InRange
<1>15. c.bit => c.length = 1 BY <1>1 DEF IsSwitch
<1> QED BY <1>5, <1>6, <1>13, <1>14, <1>15, Fits

\* So does an integer, to those of the number with its decimals cut off.
LEMMA IntegerWrites ==
  ASSUME NEW c \in Channels, c.writable, ValueKind(c) = "integer", NEW j \in Jsons,
         Accepted(c, Coerce(c, j)), NEW n \in Encoded(c, Coerce(c, j))
  PROVE  /\ j.val \in Int /\ n * One = Truncated(j.val) /\ c.scale = One
         /\ n \in Raws(c) /\ InRange(c, n) /\ Written(c, n) = n
<1> DEFINE w == Coerce(c, j)
<1>1. ~IsSwitch(c) BY DEF ValueKind
<1>2. c.scale = One /\ c.length # 4 BY ChannelsOK DEF ChannelOK, ValueKind
<1>3. w = ToInteger(j) BY DEF Coerce
<1>4. w = Json("integer", Truncated(j.val)) /\ j.val \notin Specials \cup Texts
  BY <1>3 DEF ToInteger, Accepted, Json, Error
<1>5. j.val \in Int
  <2>1. j.val \in Int \cup Specials \cup Texts BY DEF Jsons, Json
  <2> QED BY <1>4, <2>1
<1>6. w.type = "integer" /\ w.val = Truncated(j.val) BY <1>4 DEF Json
<1>7. n = Truncated(j.val) \div One BY <1>6 DEF Encoded
<1>8. n \in Int /\ n * One = Truncated(j.val) /\ Truncated(j.val) \in Int
  BY <1>5, <1>7, TruncatedIsWhole
<1>9. c.min <= n * One /\ n * One <= c.max
  <2>1. ~OutOfRange(c, Truncated(j.val)) BY <1>6 DEF Accepted
  <2>2. c.min \in Int /\ c.max \in Int BY ChannelsOK DEF ChannelOK
  <2> QED BY <1>8, <2>1, <2>2 DEF OutOfRange
<1>10. InRange(c, n) BY <1>2, <1>9 DEF InRange
<1>11. PICK low \in Raws(c) : c.min = low * c.scale BY ChannelsOK DEF ChannelOK
<1>12. PICK high \in Raws(c) : c.max = high * c.scale BY ChannelsOK DEF ChannelOK
<1>13. low <= n /\ n <= high
  BY <1>2, <1>8, <1>9, <1>11, <1>12, RawsAreInts DEF One
<1>14. n \in Raws(c) BY <1>8, <1>11, <1>12, <1>13, RawsAreInterval
<1>15. c.bit => c.length = 1 BY <1>1 DEF IsSwitch
<1> QED BY <1>2, <1>5, <1>8, <1>10, <1>14, <1>15, Fits
-----------------------------------------------------------------------------
(* The invariant *)

\* What is shown of legal bytes is a legal JSON value, of the published kind.
LEMMA ParseIsJson ==
  ASSUME NEW c \in Channels, NEW n \in Raws(c)
  PROVE  /\ Parse(n, c) \in Jsons
         /\ Parse(n, c) # Nothing
         /\ Parse(n, c).type = ValueKind(c)
<1>1. n \in Int /\ c.scale \in Int /\ (IsSwitch(c) => c.length = 1)
  BY RawsAreInts, ChannelsOK DEF ChannelOK, One
<1>2. n * One \in Int /\ n * c.scale \in Int /\ One \in Int /\ 0 \in Int
  BY <1>1 DEF One
<1>3. \E t \in JsonTypes, v \in Int : Parse(n, c) = Json(t, v) /\ t = ValueKind(c)
  BY <1>1, <1>2 DEF Parse, ValueKind, JsonTypes
<1>4. PICK t \in JsonTypes, v \in Int : Parse(n, c) = Json(t, v) /\ t = ValueKind(c)
  BY <1>3
<1>5. Json(t, v) \in [type : JsonTypes, val : Int \cup Specials \cup Texts]
  BY DEF Json
<1>6. Json(t, v) # Nothing BY <1>5, ValuesAssumption
<1> QED BY <1>4, <1>6 DEF Jsons, Json

\* Every PUT is of a JSON value, of a client's choice or of the last answer.
LEMMA PutsAreJson ==
  ASSUME Inv, Next
  PROVE  Get \/ \E j \in Jsons : Put(j)
<1>1. ASSUME NEW j \in Bodies, Put(j) PROVE j \in Jsons
  BY ValuesAssumption DEF Bodies, Whole, Jsons, JsonTypes, One
<1>2. ASSUME PutBack PROVE shown \in Jsons /\ Put(shown)
  <2>1. status = 200 BY <1>2 DEF PutBack, Inv
  <2> QED BY <1>2, <2>1, ParseIsJson DEF PutBack, Inv
<1> QED BY <1>1, <1>2 DEF Next

\* What a PUT that is answered with 200 leaves on the device.
LEMMA PutWrites ==
  ASSUME Inv, NEW j \in Jsons, Put(j), status' = 200
  PROVE  /\ channel.writable /\ Accepted(channel, Coerce(channel, j))
         /\ raw' \in Encoded(channel, Coerce(channel, j))
         /\ raw' \in Raws(channel)
         /\ IsSwitch(channel) => raw' \in 0 .. 1
         /\ ~IsSwitch(channel) => InRange(channel, raw')
         /\ shown' = Parse(raw', channel)
<1>1. /\ channel.writable /\ Accepted(channel, Coerce(channel, j))
      /\ shown' = Parse(raw', channel)
      /\ \E n \in Encoded(channel, Coerce(channel, j)) : raw' = Written(channel, n)
  BY DEF Put, Refuse
<1>2. PICK n \in Encoded(channel, Coerce(channel, j)) : raw' = Written(channel, n)
  BY <1>1
<1>3. channel \in Channels BY DEF Inv
<1>4. CASE IsSwitch(channel) BY <1>1, <1>2, <1>3, <1>4, SwitchWrites
<1>5. CASE ~IsSwitch(channel) /\ ValueKind(channel) = "number"
  BY <1>1, <1>2, <1>3, <1>5, NumberWrites
<1>6. CASE ~IsSwitch(channel) /\ ValueKind(channel) = "integer"
  BY <1>1, <1>2, <1>3, <1>6, IntegerWrites
<1> QED BY <1>4, <1>5, <1>6 DEF ValueKind

LEMMA InvInit == Init => Inv
<1> SUFFICES ASSUME Init PROVE Inv OBVIOUS
<1>1. channel \in Channels /\ raw \in Raws(channel) /\ InRange(channel, raw)
  BY DEF Init, Allowed
<1>2. IsSwitch(channel) => raw \in 0 .. 1
  <2>1. CASE channel.bit BY <1>1, <2>1 DEF Raws
  <2>2. CASE IsSwitch(channel) /\ ~channel.bit
    <3>1. raw \in Int BY <1>1, RawsAreInts
    <3>2. 0 <= raw * One /\ raw * One <= One
      BY <1>1, <2>2 DEF IsSwitch, InRange
    <3> QED BY <3>1, <3>2 DEF One
  <2> QED BY <2>1, <2>2
<1> QED BY <1>1, <1>2 DEF Init, Inv

LEMMA InvNext == Inv /\ [Next]_vars => Inv'
<1> SUFFICES ASSUME Inv, [Next]_vars PROVE Inv' OBVIOUS
<1>1. CASE Get BY <1>1 DEF Get, Inv
<1>2. CASE \E j \in Jsons : Put(j)
  <2>1. PICK j \in Jsons : Put(j) BY <1>2
  <2>2. CASE status' = 200
    <3>1. channel' = channel BY <2>1 DEF Put
    <3> QED BY <2>1, <2>2, <3>1, PutWrites DEF Inv
  <2>3. CASE status' # 200
    <3>1. /\ channel' = channel /\ raw' = raw /\ shown' = Nothing
          /\ status' \in {400, 409, 500}
      BY <2>1, <2>3 DEF Put, Refuse
    <3> QED BY <3>1 DEF Inv
  <2> QED BY <2>2, <2>3
<1>3. CASE UNCHANGED vars BY <1>3 DEF vars, Inv
<1> QED BY <1>1, <1>2, <1>3, PutsAreJson

\* The bytes stay in the channel's range and the answers tell of them.
THEOREM Invariance == Spec => []Inv
BY InvInit, InvNext, PTL DEF Spec

-----------------------------------------------------------------------------
(* The properties *)

\* Bytes, status and what is shown have their types; nothing is shown with an error.
THEOREM TypeCorrect == Spec => []TypeOK
<1>1. Inv => /\ channel \in Channels /\ raw \in Raws(channel)
             /\ status \in {200, 400, 409, 500}
             /\ (shown = Nothing) <=> (status # 200)
  BY ParseIsJson DEF Inv
<1> DEFINE LastOK == last \in {Nothing} \/ last.type \in JsonTypes
<1>2. Init => LastOK BY DEF Init
<1>3. Inv /\ LastOK /\ [Next]_vars => LastOK'
  <2>1. ASSUME NEW j \in Jsons PROVE j.type \in JsonTypes BY DEF Jsons, Json
  <2> QED BY <2>1, PutsAreJson DEF Get, Put, vars
<1>4. Inv /\ LastOK => TypeOK BY <1>1 DEF TypeOK
<1> QED BY <1>2, <1>3, <1>4, Invariance, PTL DEF Spec

\* No sequence of PUTs leaves a setting outside its range, whatever the channel.
THEOREM RangesHold == Spec => []StaysInRange
<1>1. Inv => StaysInRange BY DEF Inv, StaysInRange
<1> QED BY <1>1, Invariance, PTL

\* The type of every value shown is the one published for its channel.
THEOREM TypesArePublished == Spec => []TypeAsPublished
<1>1. Inv => TypeAsPublished BY ParseIsJson DEF Inv, TypeAsPublished
<1> QED BY <1>1, Invariance, PTL

\* A PUT that succeeds shows the step that is nearest to what was asked for.
THEOREM NearestStep == Spec => []NearestIsShown
<1>1. Init => NearestIsShown BY DEF Init, NearestIsShown
<1>2. Inv /\ NearestIsShown /\ [Next]_vars => NearestIsShown'
  <2> SUFFICES ASSUME Inv, NearestIsShown, [Next]_vars PROVE NearestIsShown' OBVIOUS
  <2>1. CASE Get BY <2>1 DEF Get, NearestIsShown
  <2>2. CASE \E j \in Jsons : Put(j)
    <3>1. PICK j \in Jsons : Put(j) BY <2>2
    <3> DEFINE w == Coerce(channel, j)
    <3>2. SUFFICES ASSUME status' = 200, j.val \in Int, ~IsSwitch(channel)
          PROVE  IF ValueKind(channel) = "number"
                 THEN 2 * Distance(shown'.val, j.val) <= channel.scale
                 ELSE shown'.val = Truncated(j.val)
      BY <3>1 DEF Put, NearestIsShown
    <3>3. /\ channel \in Channels /\ channel.writable /\ Accepted(channel, w)
          /\ raw' \in Encoded(channel, w) /\ shown' = Parse(raw', channel)
      BY <3>1, <3>2, PutWrites DEF Inv
    <3>4. channel.length # 4 /\ channel.scale \in 1 .. One
      BY <3>3, ChannelsOK DEF ChannelOK
    <3>5. CASE ValueKind(channel) = "number"
      <4>1. channel.scale # One BY <3>5 DEF ValueKind
      <4>2. shown'.val = raw' * channel.scale
        BY <3>2, <3>3, <3>4, <4>1 DEF Parse, Json
      <4> QED BY <3>2, <3>3, <3>4, <3>5, <4>2, NumberWrites, ScaledIsNearest
    <3>6. CASE ValueKind(channel) = "integer"
      <4>1. raw' * One = Truncated(j.val) /\ channel.scale = One
        BY <3>3, <3>6, IntegerWrites
      <4>2. shown'.val = raw' * One BY <3>2, <3>3, <3>4, <4>1 DEF Parse, Json
      <4> QED BY <3>6, <4>1, <4>2
    <3> QED BY <3>2, <3>5, <3>6 DEF ValueKind
  <2>3. CASE UNCHANGED vars BY <2>3 DEF vars, NearestIsShown, IsSwitch, ValueKind
  <2> QED BY <2>1, <2>2, <2>3, PutsAreJson
<1> QED BY <1>1, <1>2, Invariance, PTL DEF Spec

\* What was shown is accepted when it is put back.
LEMMA ShownIsAccepted ==
  ASSUME Inv, shown # Nothing, channel.writable
  PROVE  LET w == Coerce(channel, shown) IN
         /\ w.type # "OverflowError" /\ Accepted(channel, w)
         /\ \A n \in Encoded(channel, w) : n = raw
<1> DEFINE w == Coerce(channel, shown)
<1>1. shown = Parse(raw, channel) /\ channel \in Channels /\ raw \in Int
  BY RawsAreInts DEF Inv
<1>2. /\ channel.length # 4 /\ channel.scale \in 1 .. One
      /\ channel.min \in Int /\ channel.max \in Int
  BY <1>1, ChannelsOK DEF ChannelOK
<1>3. raw * channel.scale \in Int /\ raw * One \in Int BY <1>1, <1>2 DEF One
<1>4. \A v \in Int : v \notin Specials \cup Texts BY ValuesAssumption
<1>5. CASE IsSwitch(channel)
  <2>1. raw \in 0 .. 1 BY <1>5 DEF Inv
  <2>2. shown = Json("boolean", IF raw = 0 THEN 0 ELSE One)
    BY <1>1, <1>2, <1>5 DEF Parse
  <2>3. w = Json("boolean", IF raw = 0 THEN 0 ELSE One)
    BY <1>5, <2>2 DEF Coerce, ValueKind, ToBoolean, Json, One
  <2>4. w.type = "boolean" /\ w.val = IF raw = 0 THEN 0 ELSE One BY <2>3 DEF Json
  <2>5. \A n \in Encoded(channel, w) : n = raw BY <2>1, <2>4 DEF Encoded, One
  <2> QED BY <2>4, <2>5 DEF Accepted
<1>6. CASE ~IsSwitch(channel) /\ channel.scale # One
  <2>1. shown = Json("number", raw * channel.scale) BY <1>1, <1>2, <1>6 DEF Parse
  <2>2. w = Json("number", raw * channel.scale)
    BY <1>2, <1>3, <1>4, <1>6, <2>1 DEF Coerce, ValueKind, ToNumber, Json
  <2>3. w.type = "number" /\ w.val = raw * channel.scale BY <2>2 DEF Json
  <2>4. ~OutOfRange(channel, w.val) /\ w.val # NotANumber
    BY <1>2, <1>3, <1>4, <1>6, <2>3 DEF Inv, InRange, OutOfRange, Specials
  <2>5. \A n \in Encoded(channel, w) : n = raw
    BY <1>1, <1>2, <2>3, ScaledIsInverse DEF Encoded
  <2> QED BY <2>3, <2>4, <2>5 DEF Accepted
<1>7. CASE ~IsSwitch(channel) /\ channel.scale = One
  <2>1. shown = Json("integer", raw * One) BY <1>1, <1>2, <1>7 DEF Parse
  <2>2. Truncated(raw * One) = raw * One
    <3>1. raw * One >= 0 => (raw * One) % One = 0 BY <1>1 DEF One
    <3>2. (-(raw * One)) % One = 0 BY <1>1 DEF One
    <3> QED BY <1>3, <3>1, <3>2 DEF Truncated
  <2>3. w = Json("integer", raw * One)
    BY <1>3, <1>4, <1>7, <2>1, <2>2 DEF Coerce, ValueKind, ToInteger, Json, Specials
  <2>4. w.type = "integer" /\ w.val = raw * One BY <2>3 DEF Json
  <2>5. ~OutOfRange(channel, w.val) /\ w.val # NotANumber
    BY <1>2, <1>3, <1>4, <1>7, <2>4 DEF Inv, InRange, OutOfRange, Specials
  <2>6. \A n \in Encoded(channel, w) : n = raw
    <3>1. (raw * One) \div One = raw BY <1>1 DEF One
    <3> QED BY <2>4, <3>1 DEF Encoded
  <2> QED BY <2>4, <2>5, <2>6 DEF Accepted
<1> QED BY <1>5, <1>6, <1>7

\* To put back what was shown succeeds and changes nothing.
THEOREM PutBackIsNeutral == Spec => PutBackKeeps
<1>1. Inv /\ [Next]_vars
      => [shown # Nothing /\ last' = shown /\ channel.writable
            => raw' = raw /\ status' = 200]_vars
  <2> SUFFICES ASSUME Inv, Next, shown # Nothing, last' = shown, channel.writable
               PROVE  raw' = raw /\ status' = 200
    OBVIOUS
  <2>1. Put(shown) BY PutsAreJson DEF Get, Put
  <2>2. /\ Coerce(channel, shown).type # "OverflowError"
        /\ Accepted(channel, Coerce(channel, shown))
        /\ \A n \in Encoded(channel, Coerce(channel, shown)) : n = raw
    BY ShownIsAccepted
  <2>3. status' = 200 BY <2>1, <2>2 DEF Put
  <2>4. shown \in Jsons BY ParseIsJson DEF Inv
  <2>5. raw' \in Encoded(channel, Coerce(channel, shown)) BY <2>1, <2>3, <2>4, PutWrites
  <2> QED BY <2>2, <2>3, <2>5
<1> QED BY <1>1, Invariance, PTL DEF Spec, PutBackKeeps
=============================================================================
