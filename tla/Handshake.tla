----------------------------- MODULE Handshake ------------------------------
(***************************************************************************)
(* The byte level handshake of protocol/connector.py over the receive      *)
(* queue of protocol/transport.py, with the heat pump on the other end as  *)
(* simulator.py has it. The line loses bytes, delivers them late, and the  *)
(* queue outlives a restart of the link.                                   *)
(*                                                                         *)
(* A frame is <<SOH, kind, body, ESC, ETX>>, where one symbol stands for   *)
(* checksum, command and payload; bodies are whole or absent.              *)
(***************************************************************************)
EXTENDS Naturals, Sequences, FiniteSets

CONSTANTS
  Registers, Values,
  NoOp,                 \* no conversation; also "no value"
  Ops,                  \* the conversations that are held
  MAX_RETRY,            \* connector.py, 5
  INPUT_BUFFER_LENGTH,  \* connector.py, 1024
  MaxFaults,            \* bytes lost or late, in all
  MaxConversations,     \* conversations held; 0: no bound
  GivesUp               \* may the device drop a handshake when time passes?

ASSUME HandshakeAssumption ==
  /\ MAX_RETRY \in Nat \ {0}
  /\ INPUT_BUFFER_LENGTH \in Nat \ {0}
  /\ MaxFaults \in Nat
  /\ MaxConversations \in Nat
  /\ GivesUp \subseteq BOOLEAN /\ GivesUp # {}
  /\ NoOp \notin Registers \cup Values

VARIABLES
  cpc,     \* where the connector is
  op,      \* the conversation going on, or NoOp
  request, \* request_retry of _establish_request
  retry,   \* buffer_retry of _establish_request, retry of _receive_data
  head,    \* the first two bytes of the buffer of _establish_request
  num,     \* num_read of _establish_request
  buf,     \* what _receive_data has read
  tx,      \* bytes written by the gateway and not yet read by the device
  queue,   \* bytes sent by the device and not yet read
  dev,     \* the device: [state, buffer, pending, store]
  answer,  \* how the last conversation ended
  held,    \* ghost: values the register had since the conversation began
  taken,   \* ghost: the device took the SET of this conversation
  faults,  \* faults of the line so far
  talks    \* conversations begun so far

vars == <<cpc, op, request, retry, head, num, buf, tx, queue, dev, answer,
          held, taken, faults, talks>>


STX == <<"02">>   \* START_COMMUNICATION, and the second byte of DATA_AVAILABLE
ESC == <<"10">>
SOH == <<"01">>
ETX == <<"03">>
GET == <<"00">>
SET == <<"80">>
ERR == <<"err">>
NUL == <<"--">>
Body(r, v) == <<"body", r, v>>
IsBody(s) == Len(s) = 3
Bytes == {STX, ESC, SOH, ETX, GET, SET, ERR}
           \cup {Body(r, v) : r \in Registers \cup {NoOp}, v \in Values \cup {NoOp}}

Frame(k, r, v) == <<SOH, k, Body(r, v), ESC, ETX>>
RequestMessage(o) == Frame(IF o.kind = "get" THEN GET ELSE SET, o.reg, o.val)

\* Length in bytes: a body is a checksum and a one byte command, and a value has two
\* bytes more.
Bodies(s) == {i \in DOMAIN s : IsBody(s[i])}
Weight(s) ==
  Len(s) + Cardinality(Bodies(s)) + 2 * Cardinality({i \in Bodies(s) : s[i][3] # NoOp})
IsFrameEnd(s) == Len(s) >= 2 /\ s[Len(s)] = ETX /\ s[Len(s) - 1] = ESC

IntactRequest(s) ==
  /\ Len(s) = 5 /\ s[1] = SOH /\ s[2] \in {GET, SET}
  /\ IsBody(s[3]) /\ (s[2] = SET <=> s[3][3] # NoOp)

\* The SET that the device has got and not yet carried out.
PendingSet ==
  IF dev.state = "AWAIT_ACK" /\ IntactRequest(dev.pending) /\ dev.pending[2] = SET
  THEN [kind |-> "set", reg |-> dev.pending[3][2], val |-> dev.pending[3][3]]
  ELSE NoOp

C == INSTANCE Conversation WITH store <- dev.store, pending <- PendingSet

ASSUME OpsAssumption ==
  /\ Ops \subseteq C!Gets \cup C!Sets
  /\ NoOp \notin C!Gets \cup C!Sets

-----------------------------------------------------------------------------
(* Definitions called Wrong... are the ways this code could plausibly be wrong *)
(* that the properties below have to notice; nothing in Spec uses them.        *)

\* verify_header, as far as its verdict goes: a frame starts with SOH and the
\* status byte of an answered GET or SET, not with that of an error; the checksum
\* counts the status byte, so that a body checks only behind that of its own frame:
\* the answer to a GET has a value, the answer to a SET a register and no value.
WrongHeaderCheck(s) == Len(s) >= 3 /\ s[1] = SOH /\ IsBody(s[3])
HeaderCheck(s) ==
  /\ Len(s) >= 3 /\ s[1] = SOH /\ s[2] \in {GET, SET} /\ IsBody(s[3])
  /\ s[3][2] # NoOp /\ (s[2] = GET <=> s[3][3] # NoOp)

\* _establish_request and _receive_data count the waits that brought nothing.
WrongRetriesLeft == retry < MAX_RETRY
RetriesLeft == retry + 1 < MAX_RETRY
WrongNextRetry == retry
NextRetry == retry + 1

\* _start_communication: the one byte that the device answers a START with.
WrongStartAccepted(b) == b = STX
StartAccepted(b) == b = ESC

-----------------------------------------------------------------------------
(* The device *)

\* The device drops the handshake it is in.
Idled(d) == [d EXCEPT !.state = "IDLE", !.buffer = <<>>, !.pending = <<>>]

\* _feed_byte, one byte of what the gateway has written, in each of the device's
\* states; a byte that the state has no use for is ignored. The ghosts see a SET
\* that is taken.
Ignored(b) ==
  \/ dev.state = "IDLE" /\ b # STX
  \/ dev.state = "AWAIT_ACK" /\ b # ESC

DeviceIgnores ==
  /\ tx # <<>>
  /\ Ignored(Head(tx))
  /\ tx' = Tail(tx)
  /\ UNCHANGED <<dev, queue, held, taken>>

DeviceStarts ==
  /\ tx # <<>>
  /\ dev.state = "IDLE" /\ Head(tx) = STX
  /\ tx' = Tail(tx)
  /\ dev' = [dev EXCEPT !.state = "COLLECTING", !.buffer = <<>>]
  /\ queue' = Append(queue, ESC)
  /\ UNCHANGED <<held, taken>>

DeviceCollects ==
  /\ tx # <<>>
  /\ dev.state = "COLLECTING"
  /\ tx' = Tail(tx)
  /\ LET got == Append(dev.buffer, Head(tx)) IN
     IF Weight(got) >= 6 /\ IsFrameEnd(got)
     THEN /\ dev' = [dev EXCEPT !.state = "AWAIT_ACK", !.buffer = <<>>, !.pending = got]
          /\ queue' = queue \o <<ESC, STX>>
     ELSE /\ dev' = [dev EXCEPT !.buffer = got]
          /\ UNCHANGED queue
  /\ UNCHANGED <<held, taken>>

\* _build_response: a SET is stored and confirmed, a GET answered from the store.
\* A request that arrives damaged is answered with an error frame, as the error
\* "CRC error in request" of parser.py says of the real pump (the simulator, on
\* an undamaged line, does not check).
DeviceAnswers ==
  /\ tx # <<>>
  /\ dev.state = "AWAIT_ACK" /\ Head(tx) = ESC
  /\ tx' = Tail(tx)
  /\ LET s == dev.pending
         sets == IntactRequest(s) /\ s[2] = SET
         store == IF sets THEN [dev.store EXCEPT ![s[3][2]] = s[3][3]] ELSE dev.store
     IN  /\ dev' = [Idled(dev) EXCEPT !.store = store]
         /\ queue' = queue \o
              (IF ~IntactRequest(s) THEN Frame(ERR, NoOp, NoOp)
               ELSE IF sets THEN Frame(SET, s[3][2], NoOp)
               ELSE Frame(GET, s[3][2], store[s[3][2]]))
         /\ held' = held \cup {store[op.reg]}
         /\ taken' = (taken \/ (sets /\ op.kind = "set" /\ s[3] = Body(op.reg, op.val)))

Device ==
  /\ DeviceIgnores \/ DeviceStarts \/ DeviceCollects \/ DeviceAnswers
  /\ UNCHANGED <<cpc, op, request, retry, head, num, buf, answer, faults, talks>>

\* transport.write. The device reads before the gateway gets on.
Send(msg) ==
  /\ tx' = msg
  /\ UNCHANGED <<dev, queue, held, taken, faults>>

-----------------------------------------------------------------------------
(* The connector *)

Init ==
  /\ cpc = "idle"
  /\ op = NoOp
  /\ request = 0
  /\ retry = 0
  /\ head = <<NUL, NUL>>
  /\ num = 0
  /\ buf = <<>>
  /\ tx = <<>>
  /\ queue = <<>>
  /\ dev \in [state : {"IDLE"}, buffer : {<<>>}, pending : {<<>>},
              store : [Registers -> Values]]
  /\ answer = C!Failed
  /\ held = {}
  /\ taken = FALSE
  /\ faults = 0
  /\ talks = 0

\* get_data and set_data are entered.
Begin(o) ==
  /\ cpc = "idle"
  /\ MaxConversations = 0 \/ talks < MaxConversations
  /\ talks' = IF MaxConversations = 0 THEN 0 ELSE talks + 1
  /\ cpc' = "sendStart"
  /\ op' = o
  /\ answer' = C!Failed
  /\ held' = {dev.store[o.reg]}
  /\ UNCHANGED <<request, retry, head, num, buf, tx, queue, dev, taken,
                 faults>>

\* The end of a conversation. The locals of the connector are gone; the queue
\* and the device keep what they have.
End(a) ==
  /\ cpc' = "idle"
  /\ op' = NoOp
  /\ answer' = a
  /\ held' = {}
  /\ taken' = FALSE
  /\ request' = 0
  /\ retry' = 0
  /\ head' = <<NUL, NUL>>
  /\ num' = 0
  /\ buf' = <<>>

\* _start_communication, the write.
SendStart ==
  /\ cpc = "sendStart"
  /\ Send(<<STX>>)
  /\ cpc' = "start"
  /\ UNCHANGED <<op, request, retry, head, num, buf, answer, talks>>

\* _start_communication, the byte that answers. What follows a START that was
\* sent after MAX_RETRY requests is the end of _establish_request: get_data gives
\* up, set_data does not look at the result and goes on.
Started ==
  /\ cpc = "start"
  /\ tx = <<>> /\ queue # <<>>
  /\ queue' = Tail(queue)
  /\ \/ /\ StartAccepted(Head(queue))
        /\ request < MAX_RETRY
        /\ cpc' = "sendRequest"
        /\ UNCHANGED <<op, request, retry, head, num, buf, answer, held, taken>>
     \/ /\ StartAccepted(Head(queue))
        /\ request >= MAX_RETRY
        /\ op.kind = "set"
        /\ cpc' = "sendEscape"
        /\ UNCHANGED <<op, request, retry, head, num, buf, answer, held, taken>>
     \/ /\ StartAccepted(Head(queue))
        /\ request >= MAX_RETRY
        /\ op.kind = "get"
        /\ End(C!Failed)
     \/ /\ ~StartAccepted(Head(queue))
        /\ End(C!Failed)
  /\ UNCHANGED <<tx, dev, faults, talks>>

\* _establish_request: num_read starts again at 0, the buffer is not cleared.
SendRequest ==
  /\ cpc = "sendRequest"
  /\ Send(RequestMessage(op))
  /\ cpc' = "establish"
  /\ num' = 0
  /\ retry' = 0
  /\ UNCHANGED <<op, request, head, buf, answer, talks>>

\* One byte in the inner loop of _establish_request.
Establish ==
  /\ cpc = "establish"
  /\ tx = <<>> /\ queue # <<>>
  /\ queue' = Tail(queue)
  /\ \/ /\ num >= INPUT_BUFFER_LENGTH
        /\ End(C!Failed)
     \/ /\ num < INPUT_BUFFER_LENGTH
        /\ num' = num + Weight(<<Head(queue)>>)
        /\ head' = [i \in 1 .. 2 |-> IF i > num /\ i <= num' THEN Head(queue) ELSE head[i]]
        /\ cpc' = IF head' = <<ESC, STX>> THEN "sendEscape" ELSE "establish"
        /\ UNCHANGED <<op, request, retry, buf, answer, held, taken>>
  /\ UNCHANGED <<tx, dev, faults, talks>>

\* The acknowledgement that makes the device answer or store.
SendEscape ==
  /\ cpc = "sendEscape"
  /\ Send(<<ESC>>)
  /\ cpc' = "receive"
  /\ retry' = 0
  /\ UNCHANGED <<op, request, head, num, buf, answer, talks>>

\* What the caller makes of the bytes received. fix_duplicated_bytes replaces the
\* last two bytes by a footer, whatever they are, so that a frame whose footer is
\* incomplete still checks if the payload bytes it loses are 0; it is then too short.
Verdict(s) ==
  LET whole == Len(s) = 5 /\ ~IsBody(s[4]) /\ ~IsBody(s[5])
      cut == Len(s) = 3 \/ (Len(s) = 4 /\ ~IsBody(s[4]))
      reg == s[3][2]
      val == s[3][3]
  IN  IF ~HeaderCheck(s) \/ ~(whole \/ (cut /\ val # NoOp)) THEN {C!Failed}
      ELSE IF op.kind = "set"
           THEN {[kind |-> "confirmed", reg |-> reg, val |-> NoOp]}
                  \cup IF cut THEN {C!Failed} ELSE {}
      ELSE IF whole /\ val # NoOp THEN {[kind |-> "value", reg |-> reg, val |-> val]}
      ELSE {C!Failed, [kind |-> "short", reg |-> reg, val |-> NoOp]}

\* One byte in _receive_data.
Receive ==
  /\ cpc = "receive"
  /\ tx = <<>> /\ queue # <<>>
  /\ queue' = Tail(queue)
  /\ LET got == Append(buf, Head(queue)) IN
     \/ /\ Weight(buf) >= INPUT_BUFFER_LENGTH
        /\ End(C!Failed)
     \/ /\ Weight(buf) < INPUT_BUFFER_LENGTH
        /\ Weight(got) > 4 /\ IsFrameEnd(got)
        /\ \E a \in Verdict(got) : End(a)
     \/ /\ Weight(buf) < INPUT_BUFFER_LENGTH
        /\ ~(Weight(got) > 4 /\ IsFrameEnd(got))
        /\ buf' = got
        /\ UNCHANGED <<cpc, op, request, retry, head, num, answer, held, taken>>
  /\ UNCHANGED <<tx, dev, faults, talks>>

\* NoDataAvailable: nothing in the queue for a second, or not yet. Time passes
\* for the device as well.
Timeout ==
  /\ cpc \in {"start", "establish", "receive"}
  /\ tx = <<>>
  /\ queue # <<>> => faults < MaxFaults
  /\ faults' = IF queue = <<>> THEN faults ELSE faults + 1
  /\ \E g \in GivesUp : dev' = IF g THEN Idled(dev) ELSE dev
  /\ \/ /\ cpc = "start"
        /\ End(C!Failed)
     \/ /\ cpc # "start"
        /\ RetriesLeft
        /\ retry' = NextRetry
        /\ UNCHANGED <<cpc, op, request, head, num, buf, answer, held, taken>>
     \/ /\ cpc = "establish"
        /\ ~RetriesLeft
        /\ request' = request + 1
        /\ cpc' = "sendStart"
        /\ UNCHANGED <<op, retry, head, num, buf, answer, held, taken>>
     \/ /\ cpc = "receive"
        /\ ~RetriesLeft
        /\ \E a \in Verdict(buf) : End(a)
  /\ UNCHANGED <<tx, queue, talks>>

\* A byte on its way gets lost, in either direction.
Lose ==
  /\ faults < MaxFaults
  /\ \/ /\ queue # <<>>
        /\ queue' = Tail(queue)
        /\ UNCHANGED tx
     \/ /\ tx # <<>>
        /\ tx' = Tail(tx)
        /\ UNCHANGED queue
  /\ faults' = faults + 1
  /\ UNCHANGED <<cpc, op, request, retry, head, num, buf, dev, answer, held, taken,
                 talks>>

\* Noise is read as a byte that means nothing.
Noise ==
  /\ faults < MaxFaults
  /\ queue' = Append(queue, NUL)
  /\ faults' = faults + 1
  /\ UNCHANGED <<cpc, op, request, retry, head, num, buf, tx, dev, answer, held,
                 taken, talks>>

Connector ==
  SendStart \/ Started \/ SendRequest \/ Establish \/ SendEscape \/ Receive \/ Timeout

Next == (\E o \in Ops : Begin(o)) \/ Connector \/ Device \/ Lose \/ Noise

Spec == Init /\ [][Next]_vars

\* The connector and the device keep running, and there is always another conversation.
FairSpec == Spec /\ WF_vars(Connector) /\ WF_vars(Device) /\ WF_vars(\E o \in Ops : Begin(o))

-----------------------------------------------------------------------------
(* Properties *)

TypeOK ==
  /\ cpc \in {"idle", "sendStart", "start", "sendRequest", "establish",
              "sendEscape", "receive"}
  /\ op \in C!Gets \cup C!Sets \cup {NoOp}
  /\ request \in 0 .. MAX_RETRY
  /\ retry \in 0 .. MAX_RETRY - 1
  /\ head \in (Bytes \cup {NUL}) \X (Bytes \cup {NUL})
  /\ num \in 0 .. INPUT_BUFFER_LENGTH + 3
  /\ buf \in Seq(Bytes \cup {NUL})
  /\ tx \in Seq(Bytes)
  /\ queue \in Seq(Bytes \cup {NUL})
  /\ dev.state \in {"IDLE", "COLLECTING", "AWAIT_ACK"}
  /\ dev.store \in [Registers -> Values]
  /\ answer \in C!Answers
  /\ held \subseteq Values
  /\ taken \in BOOLEAN
  /\ faults \in 0 .. MaxFaults
  /\ talks \in 0 .. MaxConversations

\* Seen from its callers, the handshake is the one of Conversation: a read ends
\* with a value that its own register had while it went on, a write is confirmed
\* only if the device took that very SET, and a SET that failed is taken later at
\* most until the next success (get_data, set_data). This holds while no more
\* than three bytes are lost or late.
KeepsPromise == C!Spec

\* Every conversation ends: all waits are bounded (MAX_RETRY in connector.py).
ConversationEnds == op # NoOp ~> op = NoOp

\* With a device that drops a handshake when nothing happens for a second, the
\* link recovers from any loss: bytes left in the queue by earlier conversations
\* are used up, and conversations succeed again.
Recovers == []<>(answer # C!Failed)
=============================================================================
