------------------------------ MODULE Settings ------------------------------
(***************************************************************************)
(* Reading and writing the settings of one register over the wire: what     *)
(* the bytes of service.write_channel and read_channel come to, through     *)
(* _write_values, compose_record, the escaping of frames on both ends and   *)
(* the store of the device (simulator.py). One call is one step: Gateway    *)
(* has the interleavings and the failures. Here an answer may lose bytes.   *)
(***************************************************************************)
EXTENDS Records, FiniteSets

CONSTANTS
  Channels,   \* the channels of the register
  Layout,     \* their records
  Commands,   \* commands the register may have (sequences of bytes)
  Payloads,   \* what the payload of the register may be at first
  Offered     \* pairs <<channel, raw value>> that clients write

ASSUME SettingsAssumption ==
  /\ NoValue \notin Int
  /\ Commands \subseteq Seq(Byte)
  /\ Payloads \subseteq Seq(Byte)
  /\ \A c \in Channels : Valid(Layout[c])
  /\ Offered \subseteq Channels \X Int

\* What the definitions of a heat pump have to keep to, and those of this repository do but
\* for stoveFireplaceOperation and p75OperatingModePassiveCooling, which share a byte: settings
\* lie between the command and the footer, and have no bit in common. A switch is a bit or a byte.
ASSUME LayoutAssumption ==
  \A w \in Offered :
    LET r == Layout[w[1]] IN
    /\ \A c \in Commands, p \in Payloads : Within(r, 3 + Len(c), 3 + Len(c) + Len(p))
    /\ IsSwitch(r) => w[2] \in 0 .. 1 /\ (r.bit_position > 0 \/ r.length = 1)
    /\ \A other \in Offered : other[1] # w[1] => Apart(r, Layout[other[1]])

VARIABLES
  command,  \* the command of the register
  store,    \* the frame the device holds
  ledger,   \* ghost: the value last acknowledged for each channel, or NoValue
  last,     \* the call just answered: <<channel, value>> of a write, or <<>>
  status,   \* its HTTP status
  shown,    \* what the answer to the last call showed of each channel
  reach     \* ghost: bytes of the frame shown that are not its footer

vars == <<command, store, ledger, last, status, shown, reach>>

Shown(frame) == [c \in Channels |-> ParseRecord(frame, Layout[c])]
Nothing == [c \in Channels |-> NoValue]

\* Simulator: a request is matched by its command, and a SET is kept as a GET.
Matches(frame) == SubSeq(frame, 4, 3 + Len(command)) = command
Stored(frame) == WithChecksum([frame EXCEPT ![2] = GET])

\* The device's answer to a GET as it goes over the wire, if it knows the request.
DeviceHears(message) == Received(message, 6)
AnswerToGet == AddDuplicatedBytes(store)
Confirmation ==
  AddDuplicatedBytes(WithChecksum(<<HEADER_START, SET, 0>> \o command \o FOOTER))

Init ==
  /\ command \in Commands
  /\ \E p \in Payloads :
       store = WithChecksum(<<HEADER_START, GET, 0>> \o command \o p \o FOOTER)
  /\ ledger = Nothing
  /\ last = <<>>
  /\ status = 200
  /\ shown = Shown(store)
  /\ reach = Len(Body(store))

\* What may arrive of an answer: its beginning, or all but one byte. The header
\* is left alone, and no zero gets lost in the middle, as the checksum, a sum of
\* bytes without their number or order, cannot tell that.
Arrivals(wire) ==
  {SubSeq(wire, 1, n) : n \in 0 .. Len(wire)}
    \cup {RemoveAt(wire, i) : i \in {j \in 4 .. Len(wire) : wire[j] # 0}}

\* read_channel: the request has to get through.
Read ==
  /\ Matches(DeviceHears(CreateRequestMessage(command)))
  /\ \E bytes \in Arrivals(AnswerToGet) :
       LET frame == Received(bytes, 5) IN
       \/ /\ VerifyHeader(frame)
          /\ status' = 200
          /\ shown' = Shown(frame)
          /\ reach' = Len(Body(frame))
       \/ /\ ~VerifyHeader(frame)
          /\ status' = 503
          /\ shown' = Nothing
          /\ reach' = 0
  /\ last' = <<>>
  /\ UNCHANGED <<command, store, ledger>>

\* The frame write_data sends: the pre-read, edited, and not yet escaped.
Composed(c, v) == ComposeRecord(Received(AnswerToGet, 5), Layout[c], v)

\* write_channel of a value out of range.
Refuse(c, v) ==
  /\ OutOfRange(Layout[c], v)
  /\ last' = <<c, v>>
  /\ status' = 400
  /\ shown' = Nothing
  /\ reach' = 0
  /\ UNCHANGED <<command, store, ledger>>

\* write_channel: pre-read, compose, SET, confirmation. What is shown is what the
\* answer of the PUT shows of the frame that was sent.
Write(c, v) ==
  /\ ~OutOfRange(Layout[c], v)
  /\ last' = <<c, v>>
  /\ reach' = 0
  /\ LET heard == DeviceHears(AddDuplicatedBytes(Composed(c, v)))
         taken == VerifyHeader(heard) /\ heard[2] = SET /\ Matches(heard)
     IN  IF taken /\ VerifyHeader(Received(Confirmation, 5))
         THEN /\ store' = Stored(heard)
              /\ ledger' = [ledger EXCEPT ![c] = v]
              /\ status' = 200
              /\ shown' = [Nothing EXCEPT ![c] = ParseRecord(Composed(c, v), Layout[c])]
         ELSE /\ status' = 502
              /\ shown' = Nothing
              /\ UNCHANGED <<store, ledger>>
  /\ UNCHANGED command

Next ==
  \/ Read
  \/ \E w \in Offered : Refuse(w[1], w[2]) \/ Write(w[1], w[2])

Spec == Init /\ [][Next]_vars

-----------------------------------------------------------------------------
(* Properties *)

TypeOK ==
  /\ command \in Commands
  /\ store \in Seq(Byte)
  /\ ledger \in [Channels -> Int \cup {NoValue}]
  /\ last = <<>> \/ last \in Offered
  /\ status \in {200, 400, 502, 503}
  /\ shown \in [Channels -> Int \cup {NoValue}]
  /\ reach \in 0 .. Len(Body(store))

\* The values that a channel's bytes can hold (parse_record reads them as signed).
OfOneByte(v) == -128 <= v /\ v <= 127
OfTwoBytes(v) == -32768 <= v /\ v <= 32767
Fits(r, v) ==
  CASE IsSwitch(r)    -> v \in 0 .. 1
    [] r.length = 1   -> OfOneByte(v)
    [] OTHER          -> OfTwoBytes(v)

\* Whatever was written before, to this channel or to others whose bytes or bits lie
\* next to it, the device shows the value last acknowledged for each channel
\* (compose_record, parse_record and the escaping of both directions).
LedgerHolds ==
  \A c \in Channels :
    ledger[c] # NoValue /\ Fits(Layout[c], ledger[c])
      => ParseRecord(store, Layout[c]) = ledger[c]

\* No value, checksum or command that needs escaping keeps a write from getting
\* through: on a line without errors it is confirmed unless it is out of range.
CleanLineConfirms == last # <<>> => status \in {200, 400}

\* A read whose answer lost its end or a byte, an escape or one that looks like
\* the footer included, shows nothing but what the device holds of the channels in
\* front of its own footer: it shows fewer channels, or it is refused (is_frame_end,
\* fix_duplicated_bytes, verify_header). Channels behind that are read from the
\* footer that fix_duplicated_bytes has put there: nothing holds of them.
DamagedReadsAreTrue ==
  last = <<>> =>
    \A c \in Channels :
      shown[c] # NoValue /\ Layout[c].position + Layout[c].length <= reach
        => shown[c] = ParseRecord(store, Layout[c])
=============================================================================
