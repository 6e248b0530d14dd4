------------------------------ MODULE Framing ------------------------------
(***************************************************************************)
(* Frames on the wire: protocol/parser.py without its records. A frame is  *)
(* a sequence of bytes <<HEADER_START, get or set, checksum, ...>> with a   *)
(* two byte footer; on the wire 10h and 2Bh are escaped. Sequences count   *)
(* from 1, so that data[i] of the code is data[i + 1] here.                *)
(***************************************************************************)
EXTENDS Integers, Sequences, SequencesExt

Byte == 0 .. 255

ESCAPE == 16
HEADER_START == 1
END == 3
GET == 0
SET == 128
FOOTER == <<ESCAPE, END>>

\* The other byte that is escaped, and what follows it on the wire.
ESCAPE2 == 43
STUFFING == 24

\* A sequence from left to right, as FoldLeft of the community modules, but as a recursive
\* function, and with a function of the element for every step, so that SettingsProofs can look into it.
Folded(step, base, s) ==
  LET f[i \in 0 .. Len(s)] == IF i = 0 THEN base ELSE step[s[i]][f[i - 1]]
  IN  f[Len(s)]

\* Without the last two bytes, which the code takes for the footer unseen.
Body(data) == SubSeq(data, 1, Len(data) - 2)

\* The low byte of the sum of all bytes but the checksum itself and the footer.
Checksum(data) ==
  Folded([b \in Int |-> [sum \in Int |-> (sum + b) % 256]], 0, Body([data EXCEPT ![3] = 0]))

WithChecksum(data) == [data EXCEPT ![3] = Checksum(data)]

-----------------------------------------------------------------------------
(* Definitions called Wrong... are the ways this code could plausibly be wrong *)
(* that the properties of Settings.tla have to notice; nothing else uses them. *)

Escaped(b) == IF b = ESCAPE THEN <<b, ESCAPE>>
              ELSE IF b = ESCAPE2 THEN <<b, STUFFING>> ELSE <<b>>

\* add_duplicated_bytes: header and footer are copied as they are.
AddDuplicatedBytes(data) ==
  SubSeq(data, 1, 2)
    \o Folded([b \in Int |-> [out \in Seq(Int) |-> out \o Escaped(b)]], <<>>,
              SubSeq(data, 3, Len(data) - 2))
    \o SubSeq(data, Len(data) - 1, Len(data))

\* bytes.replace: each pair a, b becomes a, from left to right, and what has been
\* put out is not looked at again.
States == [out : Seq(Int), half : BOOLEAN]
Pairing(a, b) ==
  [x \in Int |-> [s \in States |->
     IF s.half /\ x = b THEN [out |-> s.out, half |-> FALSE]
     ELSE [out |-> Append(s.out, x), half |-> x = a]]]
Paired(a, b, data) == Folded(Pairing(a, b), [out |-> <<>>, half |-> FALSE], data)
ReplacePairs(a, b, data) == Paired(a, b, data).out

\* fix_duplicated_bytes: the last two bytes are not looked at.
FixDuplicatedBytes(data) ==
  IF Len(data) < 2 THEN data
  ELSE ReplacePairs(ESCAPE2, STUFFING, ReplacePairs(ESCAPE, ESCAPE, Body(data))) \o FOOTER

\* The binding takes every 10h 03h for the footer.
WrongIsFrameEnd(data) ==
  Len(data) >= 2 /\ SubSeq(data, Len(data) - 1, Len(data)) = FOOTER

\* The first m bytes end with n times ESCAPE and no more.
Escapes(data, m, n) ==
  /\ \A i \in m - n + 1 .. m : data[i] = ESCAPE
  /\ n = m \/ data[m - n] # ESCAPE

\* Escaped bytes come in pairs, so the footer leaves an odd number of 10h in front
\* of the 03h.
IsFrameEnd(data) ==
  /\ Len(data) >= 2
  /\ data[Len(data)] = END
  /\ \E n \in 1 .. Len(data) - 1 : n % 2 = 1 /\ Escapes(data, Len(data) - 1, n)

\* The checksum is not looked at.
WrongVerifyHeader(data) ==
  /\ Len(data) >= 5
  /\ data[1] = HEADER_START
  /\ data[2] \in {GET, SET}

\* verify_header. A frame too short for calculate_checksum is refused as well.
VerifyHeader(data) ==
  /\ Len(data) >= 5
  /\ data[1] = HEADER_START
  /\ data[2] \in {GET, SET}
  /\ data[3] = Checksum(data)

\* create_request_message.
CreateRequestMessage(command) ==
  AddDuplicatedBytes(WithChecksum(<<HEADER_START, GET, 0>> \o command \o FOOTER))

\* What a receiver that stops at the first footer after min bytes makes of the
\* bytes that arrive: Connector._receive_data (min = 5, and if no footer comes,
\* everything there is) and the device (min = 6).
Received(wire, min) ==
  LET ends == {n \in min .. Len(wire) : IsFrameEnd(SubSeq(wire, 1, n))}
      n == IF ends = {} THEN Len(wire) ELSE CHOOSE e \in ends : \A f \in ends : e <= f
  IN  FixDuplicatedBytes(SubSeq(wire, 1, n))
=============================================================================
