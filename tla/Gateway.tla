------------------------------ MODULE Gateway ------------------------------
(***************************************************************************)
(* The gateway between its REST clients and the heat pump: the request     *)
(* threads of api.py, the single lock of HeatPumpService (service.py), the *)
(* read-retry loop and the read-modify-write of CommunicationService       *)
(* (protocol/communication.py), and the serial port they share.            *)
(*                                                                         *)
(* One conversation with the device (Connector.get_data, set_data) is one  *)
(* step here; its outcomes are those a caller of the connector can see: a  *)
(* frame (intact, garbled, bare or too short), no frame, or an exception   *)
(* that is not a ProtocolError. The pump, its panel and the USB cable are  *)
(* the environment.                                                        *)
(***************************************************************************)
EXTENDS Naturals

CONSTANTS
  Threads,       \* worker threads that run request handlers
  Channels,      \* configured channel ids
  Registers,     \* commands, each answered by one frame of the device
  RegisterOf,    \* the register whose frame carries a channel
  Writable,      \* the Settings channels
  StubChannels,  \* channels whose place a frame without payload has its footer in
  Values,        \* values within min..max of a channel
  Offered,       \* the calls clients make (a subset of all calls)
  Panel,         \* channels that change without the gateway
  Damaged,       \* the payloads a noisy line can turn a frame into
  MAX_TRIES,     \* attempts of CommunicationService.read_request
  FooterValue,   \* what such a channel then seems to be
  NoThread, NoValue, UnknownId, TooLarge, NotANumber

\* Every call a client can make: GET /channels/{id}, GET /values?ids=...
\* (or a category), PUT /channels/{id}.
Ids == Channels \cup {UnknownId}
AllCalls ==
  [kind : {"read"}, id : Ids, ids : {{}}, value : {NoValue}]
    \cup [kind : {"list"}, id : {UnknownId}, ids : SUBSET Ids, value : {NoValue}]
    \cup [kind : {"write"}, id : Ids, ids : {{}},
          value : Values \cup {TooLarge, NotANumber}]

ASSUME ConstantsAssumption ==
  /\ RegisterOf \in [Channels -> Registers]
  /\ Registers # {}
  /\ Writable \subseteq Channels
  /\ StubChannels \subseteq Channels
  /\ Offered \subseteq AllCalls
  /\ Panel \subseteq Channels
  /\ Damaged \subseteq [Channels -> Values]
  /\ MAX_TRIES \in Nat \ {0}
  /\ NoThread \notin Threads
  /\ UnknownId \notin Channels
  /\ NoValue \notin Values
  /\ FooterValue \notin Values \cup {NoValue}
  /\ TooLarge \notin Values
  /\ NotANumber \notin Values \cup {TooLarge}

VARIABLES
  lock,       \* HeatPumpService._lock: the holder, or NoThread
  pc,         \* where each thread is
  call,       \* the call a thread serves
  todo,       \* registers a read has still to ask for
  reg,        \* the register being asked for
  attempt,    \* the loop variable of read_request
  frame,      \* _write_values: the frame read and edited in place
  data,       \* values decoded so far
  outcome,    \* "ok", or the exception leaving the locked block
  status,     \* the HTTP status of the answer, 0 before there is one
  port,       \* SerialTransport._serial: "closed" (None), "open", "dead"
  connected,  \* HeatPumpService._connected
  plugged,    \* environment: the adapter is there
  phase,      \* lifespan of the application
  device,     \* the values the heat pump holds
  late,       \* the failed SET the device may still take, if any
  applied,    \* ghost: the device has taken this call's SET
  confirmed,  \* ghost: what the last acknowledged PUT left, where it stands
  since       \* ghost: values the device held since the thread got the lock

callVars == <<call, todo, reg, attempt, frame, data, outcome, applied>>
linkVars == <<port, connected, plugged, phase>>
deviceVars == <<device, late, confirmed>>
vars == <<lock, pc, callVars, status, linkVars, deviceVars, since>>

Maybe == Values \cup {NoValue}
Frames == [kind : {"none", "full", "bare", "stub"}, ok : BOOLEAN,
           reg : Registers, vals : [Channels -> Maybe]]
Outcomes == {"ok", "ValueOutOfRange", "WriteNotConfirmed", "ProtocolError",
             "Exception"}
Places == {"idle", "wait", "read", "restart", "pre", "set", "leave", "answer"}

-----------------------------------------------------------------------------
(* Definitions called Wrong... are the ways this code could plausibly be wrong *)
(* that the properties below have to notice; nothing in Spec uses them.        *)

\* WriteNotConfirmed derived from ValueError, as ValueOutOfRange is.
WrongStatusOf(exn) ==
  CASE exn \in {"ValueOutOfRange", "WriteNotConfirmed"} -> 400
    [] exn = "ProtocolError" -> 503
    [] exn = "Exception" -> 500
    [] exn = "ok" -> 200

\* The exception handlers of build_app and of the PUT route. What is neither a
\* ProtocolError nor a ValueError (SerialException, RuntimeError, IndexError)
\* reaches the server, which answers 500.
StatusOf(exn) ==
  CASE exn = "ValueOutOfRange"   -> 400
    [] exn = "WriteNotConfirmed" -> 502
    [] exn = "ProtocolError"     -> 503
    [] exn = "Exception"         -> 500
    [] exn = "ok"                -> 200

-----------------------------------------------------------------------------
(* Frames *)

NoValues == [c \in Channels |-> NoValue]
NoCall == [kind |-> "list", id |-> UnknownId, ids |-> {}, value |-> NoValue]
NoFrame == [kind |-> "none", ok |-> FALSE,
            reg |-> CHOOSE r \in Registers : TRUE, vals |-> NoValues]

\* The part of a value map that the frame of register r carries.
Content(r, m) ==
  [c \in Channels |-> IF RegisterOf[c] = r THEN m[c] ELSE NoValue]

\* A frame that passes verify_header. It tells the truth about the device, but
\* may be too short to carry any channel; a bare one equals its own request.
ValidFrames(r) ==
  {[kind |-> "full", ok |-> TRUE, reg |-> r, vals |-> Content(r, device)]}
    \cup [kind : {"bare", "stub"}, ok : {TRUE}, reg : {r}, vals : {NoValues}]

\* A frame that fails it: of full length with any bytes wrong, those of the
\* command included, or an error answer or truncated frame.
InvalidFrames(r) ==
  {[kind |-> "full", ok |-> FALSE, reg |-> q, vals |-> Content(q, m)] :
      q \in Registers, m \in Damaged}
    \cup {[kind |-> "stub", ok |-> FALSE, reg |-> r, vals |-> NoValues]}

\* Whatever Connector.get_data can return that is not empty.
Answers(r) == ValidFrames(r) \cup InvalidFrames(r)

\* parse_records: records beyond the end of the frame are left out. The footer is
\* part of the frame to it (see Settings.tla).
ParseRecords(f, known) ==
  [c \in Channels |->
     IF RegisterOf[c] # f.reg THEN known[c]
     ELSE IF f.kind = "full" THEN f.vals[c]
     ELSE IF c \in StubChannels THEN FooterValue
     ELSE known[c]]

\* verify_header, as far as its verdict goes.
WrongHeaderCheck(f) == f.kind # "none"
HeaderCheck(f) == f.ok

\* A SET that carries only its own channel.
WrongComposeRecord(f, k) ==
  [f EXCEPT !.vals = [c \in Channels |-> IF c = k.id THEN k.value
                                         ELSE CHOOSE v \in Values : TRUE]]

\* compose_record: the new value is put in place, everything else in the frame
\* is kept, and the checksum is recomputed whether or not it was right before. A
\* value out of range raises before anything is edited. In a damaged frame of another
\* register the value is put at some place too: one damage more to a frame whose values
\* are any already (Answers).
ComposeRecord(f, k) ==
  IF k.value \in Values /\ f.kind = "full" /\ RegisterOf[k.id] = f.reg
  THEN [f EXCEPT !.vals = [f.vals EXCEPT ![k.id] = k.value]]
  ELSE f

-----------------------------------------------------------------------------
Init ==
  /\ lock = NoThread
  /\ pc = [t \in Threads |-> "idle"]
  /\ call = [t \in Threads |-> NoCall]
  /\ todo = [t \in Threads |-> {}]
  /\ reg = [t \in Threads |-> NoFrame.reg]
  /\ attempt = [t \in Threads |-> 1]
  /\ frame = [t \in Threads |-> NoFrame]
  /\ data = [t \in Threads |-> NoValues]
  /\ outcome = [t \in Threads |-> "ok"]
  /\ status = [t \in Threads |-> 0]
  /\ port = "closed"
  /\ connected = FALSE
  /\ plugged \in BOOLEAN
  /\ phase = "starting"
  /\ device \in [Channels -> Values]
  /\ late = {}
  /\ applied = [t \in Threads |-> FALSE]
  /\ confirmed = NoValues
  /\ since = [t \in Threads |-> [c \in Channels |-> {}]]

\* HeatPumpService._lock can be taken.
WrongLockFree == TRUE
LockFree == lock = NoThread

(* Lifespan *)

\* lifespan of build_app: connect if the settings say so (connect_on_startup), and
\* serve even if that failed. Nothing connects later.
Startup ==
  /\ phase = "starting"
  /\ LockFree
  /\ phase' = "serving"
  /\ connected' \in {FALSE, plugged}
  /\ port' = IF connected' THEN "open" ELSE port
  /\ UNCHANGED <<lock, pc, callVars, status, plugged, deviceVars, since>>

\* The server is told to stop; it takes no more calls.
Stop ==
  /\ phase = "serving"
  /\ phase' = "stopping"
  /\ UNCHANGED <<lock, pc, callVars, status, port, connected, plugged,
                 deviceVars, since>>

\* HeatPumpService.close, under the lock. If closing the port raises, the port is given up
\* all the same, but the service still counts as connected.
Close ==
  /\ phase = "stopping"
  /\ LockFree
  /\ phase' = "closed"
  /\ port' = IF connected THEN "closed" ELSE port
  /\ connected' \in {FALSE, connected}
  /\ UNCHANGED <<lock, pc, callVars, status, plugged, deviceVars, since>>

(* Calls *)

\* What a handler answers before it touches the lock, 0 if it goes on.
Rejection(k) ==
  CASE k.kind = "list" /\ ~(k.ids \subseteq Channels)  -> 404
    [] k.kind # "list" /\ k.id \notin Channels         -> 404
    [] k.kind = "write" /\ k.id \in Channels \ Writable -> 409
    [] k.kind = "write" /\ k.id \in Writable /\ k.value = NotANumber -> 400
    [] OTHER -> 0

RegistersFor(k) ==
  {RegisterOf[c] : c \in (IF k.kind = "read" THEN {k.id} ELSE k.ids)}

Reject(t, k) ==
  /\ phase = "serving"
  /\ pc[t] = "idle"
  /\ Rejection(k) # 0
  /\ call' = [call EXCEPT ![t] = k]
  /\ status' = [status EXCEPT ![t] = Rejection(k)]
  /\ pc' = [pc EXCEPT ![t] = "answer"]
  /\ UNCHANGED <<lock, todo, reg, attempt, frame, data, outcome, applied,
                 linkVars, deviceVars, since>>

Admit(t, k) ==
  /\ phase = "serving"
  /\ pc[t] = "idle"
  /\ Rejection(k) = 0
  /\ call' = [call EXCEPT ![t] = k]
  /\ todo' = [todo EXCEPT ![t] = IF k.kind = "write" THEN {} ELSE RegistersFor(k)]
  /\ pc' = [pc EXCEPT ![t] = "wait"]
  /\ UNCHANGED <<lock, reg, attempt, frame, data, outcome, status, applied,
                 linkVars, deviceVars, since>>

\* read_requests: on to the next register, or out of the locked block.
NextRequest(t) ==
  \/ /\ todo[t] = {}
     /\ pc' = [pc EXCEPT ![t] = "leave"]
     /\ UNCHANGED <<todo, reg, attempt>>
  \/ \E r \in todo[t] :
       /\ reg' = [reg EXCEPT ![t] = r]
       /\ todo' = [todo EXCEPT ![t] = todo[t] \ {r}]
       /\ attempt' = [attempt EXCEPT ![t] = 1]
       /\ pc' = [pc EXCEPT ![t] = "read"]

\* with self._lock: a reader starts on its requests, a writer on its pre-read.
Acquire(t) ==
  /\ pc[t] = "wait"
  /\ LockFree
  /\ lock' = t
  /\ since' = [since EXCEPT ![t] = [c \in Channels |-> {device[c]}]]
  /\ \/ /\ call[t].kind # "write"
        /\ NextRequest(t)
     \/ /\ call[t].kind = "write"
        /\ reg' = [reg EXCEPT ![t] = RegisterOf[call[t].id]]
        /\ pc' = [pc EXCEPT ![t] = "pre"]
        /\ UNCHANGED <<todo, attempt>>
  /\ UNCHANGED <<call, frame, data, outcome, status, applied, linkVars, deviceVars>>

\* The locked block is left with an exception (or "ok").
Finish(t, exn) ==
  /\ pc' = [pc EXCEPT ![t] = "leave"]
  /\ outcome' = [outcome EXCEPT ![t] = exn]

\* The lock is released and the handler turns the result into an answer. A
\* channel that the frame did not carry is "not found" for read_channel; the
\* list operations leave it out. The locals of the call are dropped; of its
\* frame only the verdict is kept, for the properties.
Answer(t) ==
  IF outcome[t] = "ok" /\ call[t].kind = "read" /\ data[t][call[t].id] = NoValue
  THEN 404
  ELSE StatusOf(outcome[t])

\* The end of "with self._lock", exception or not.
WrongReleased(t) == IF outcome[t] = "ok" THEN NoThread ELSE lock
Released(t) == NoThread

Leave(t) ==
  /\ pc[t] = "leave"
  /\ lock' = Released(t)
  /\ status' = [status EXCEPT ![t] = Answer(t)]
  /\ pc' = [pc EXCEPT ![t] = "answer"]
  /\ todo' = [todo EXCEPT ![t] = {}]
  /\ reg' = [reg EXCEPT ![t] = NoFrame.reg]
  /\ attempt' = [attempt EXCEPT ![t] = 1]
  /\ data' = [data EXCEPT ![t] = NoValues]
  /\ outcome' = [outcome EXCEPT ![t] = "ok"]
  /\ frame' = [frame EXCEPT ![t] =
                 [NoFrame EXCEPT !.kind = frame[t].kind, !.ok = frame[t].ok]]
  /\ since' = [since EXCEPT ![t] = [c \in Channels |-> {}]]
  /\ UNCHANGED <<call, applied, linkVars, deviceVars>>

\* The answer is sent; the thread goes back to the pool.
Respond(t) ==
  /\ pc[t] = "answer"
  /\ pc' = [pc EXCEPT ![t] = "idle"]
  /\ call' = [call EXCEPT ![t] = NoCall]
  /\ frame' = [frame EXCEPT ![t] = NoFrame]
  /\ status' = [status EXCEPT ![t] = 0]
  /\ applied' = [applied EXCEPT ![t] = FALSE]
  /\ UNCHANGED <<lock, todo, reg, attempt, data, outcome, linkVars, deviceVars,
                 since>>

(* Reading *)

\* read_request: a valid frame ends the loop.
ReadOk(t) ==
  /\ pc[t] = "read"
  /\ port = "open"
  /\ \E f \in {g \in Answers(reg[t]) : HeaderCheck(g)} :
       data' = [data EXCEPT ![t] = ParseRecords(f, data[t])]
  /\ late' = {}
  /\ NextRequest(t)
  /\ UNCHANGED <<lock, call, frame, outcome, status, applied, linkVars,
                 device, confirmed, since>>

\* A ProtocolError, or a frame that header_check refuses: restart the link.
ReadFails(t) ==
  /\ pc[t] = "read"
  /\ port = "open"
  /\ pc' = [pc EXCEPT ![t] = "restart"]
  /\ UNCHANGED <<lock, callVars, status, linkVars, deviceVars, since>>

WrongReadBroken(t) ==
  /\ pc[t] = "read"
  /\ port # "open"
  /\ pc' = [pc EXCEPT ![t] = "restart"]
  /\ UNCHANGED <<lock, callVars, status, linkVars, deviceVars, since>>

\* transport.write raises on a port that is closed or gone. This is not a
\* ProtocolError: the loop does not catch it and the link is not restarted.
ReadBroken(t) ==
  /\ pc[t] = "read"
  /\ port # "open"
  /\ Finish(t, "Exception")
  /\ UNCHANGED <<lock, call, todo, reg, attempt, frame, data, status, applied,
                 linkVars, deviceVars, since>>

\* for attempt in range(1, MAX_TRIES + 1)
WrongTriesLeft(t) == attempt[t] <= MAX_TRIES
TriesLeft(t) == attempt[t] < MAX_TRIES
WrongNextAttempt(t) == attempt[t]
NextAttempt(t) == attempt[t] + 1

\* _restart: close the port and open it again, after the last attempt too. If either
\* raises, as opening does when the adapter is gone, the port stays closed.
Restart(t) ==
  /\ pc[t] = "restart"
  /\ \/ /\ plugged
        /\ port' = "open"
        /\ TriesLeft(t)
        /\ attempt' = [attempt EXCEPT ![t] = NextAttempt(t)]
        /\ pc' = [pc EXCEPT ![t] = "read"]
        /\ UNCHANGED outcome
     \/ /\ plugged
        /\ port' = "open"
        /\ ~TriesLeft(t)
        /\ Finish(t, "ProtocolError")
        /\ UNCHANGED attempt
     \/ /\ port' = "closed"
        /\ Finish(t, "Exception")
        /\ UNCHANGED attempt
  /\ UNCHANGED <<lock, call, todo, reg, frame, data, status, applied,
                 connected, plugged, phase, deviceVars, since>>

(* Writing *)

\* _write_values, the pre-read: no frame (b"" or a ProtocolError) ends the
\* call, and so does a port that cannot be written to. There is no retry.
PreReadFails(t) ==
  /\ pc[t] = "pre"
  /\ Finish(t, IF port = "open" THEN "ProtocolError" ELSE "Exception")
  /\ UNCHANGED <<lock, call, todo, reg, attempt, frame, data, status, applied,
                 linkVars, deviceVars, since>>

\* A frame that equals the request is taken to mean that the value is already
\* set: the call ends without a SET.
PreReadBare(t) ==
  /\ pc[t] = "pre"
  /\ port = "open"
  /\ \E f \in ValidFrames(reg[t]) :
       /\ f.kind = "bare"
       /\ frame' = [frame EXCEPT ![t] = f]
  /\ late' = {}
  /\ Finish(t, "ok")
  /\ UNCHANGED <<lock, call, todo, reg, attempt, data, status, applied,
                 linkVars, device, confirmed, since>>

\* Any other frame is edited, whether or not its header would check. The range
\* check comes first; then the channel's bytes must lie within the frame.
PreRead(t) ==
  /\ pc[t] = "pre"
  /\ port = "open"
  /\ \E f \in Answers(reg[t]) :
       /\ f.kind # "bare"
       /\ frame' = [frame EXCEPT ![t] = ComposeRecord(f, call[t])]
       /\ late' = IF HeaderCheck(f) THEN {} ELSE late
       /\ \/ /\ call[t].value = TooLarge
             /\ Finish(t, "ValueOutOfRange")
          \/ /\ call[t].value # TooLarge
             /\ f.kind = "stub" /\ call[t].id \notin StubChannels
             /\ Finish(t, "Exception")
          \/ /\ call[t].value # TooLarge
             /\ f.kind = "full" \/ call[t].id \in StubChannels
             /\ pc' = [pc EXCEPT ![t] = "set"]
             /\ UNCHANGED outcome
  /\ UNCHANGED <<lock, call, todo, reg, attempt, data, status, applied,
                 linkVars, device, confirmed, since>>

\* A SET as the device may take it: the frame, and the channel it is meant for.
SetOf(t) == [frame |-> frame[t], id |-> call[t].id]

\* The device takes a SET: every channel of the register the frame names, not
\* only the one that was written. (since is kept for the holder of the lock.)
DeviceTakes(p) ==
  /\ device' = [c \in Channels |-> IF RegisterOf[c] = p.frame.reg
                                   THEN p.frame.vals[c] ELSE device[c]]
  /\ since' = [t \in Threads |->
                 IF lock = t THEN [c \in Channels |-> since[t][c] \cup {device'[c]}]
                 ELSE since[t]]

\* Ghost: what clients may still rely on once the device has taken p and the
\* client was told v (NoValue: was told that the write failed).
Ledger(p, v) ==
  [c \in Channels |->
     IF c = p.id THEN (IF p.frame.ok THEN v ELSE NoValue)
     ELSE IF ~p.frame.ok /\ RegisterOf[c] = p.frame.reg THEN NoValue
     ELSE confirmed[c]]

\* The device takes the SET and its confirmation arrives.
SetConfirmed(t) ==
  /\ pc[t] = "set"
  /\ port = "open"
  /\ frame[t].kind = "full"
  /\ DeviceTakes(SetOf(t))
  /\ applied' = [applied EXCEPT ![t] = TRUE]
  /\ confirmed' = Ledger(SetOf(t), call[t].value)
  /\ late' = {}
  /\ Finish(t, "ok")
  /\ UNCHANGED <<lock, call, todo, reg, attempt, frame, data, status, linkVars>>

\* What _write_values makes of a SET that verify_header does not confirm. (The
\* binding this code was ported from only logged it.)
WrongUnverified == "ok"
Unverified == "WriteNotConfirmed"

\* The device takes the SET but the confirmation is lost or damaged
\* (verify_header fails), or bytes arrive without end (_receive_data gives up).
SetUnconfirmed(t) ==
  /\ pc[t] = "set"
  /\ port = "open"
  /\ frame[t].kind = "full"
  /\ DeviceTakes(SetOf(t))
  /\ applied' = [applied EXCEPT ![t] = TRUE]
  /\ confirmed' = Ledger(SetOf(t), NoValue)
  /\ late' = {SetOf(t)}
  /\ \E exn \in {Unverified, "ProtocolError"} : Finish(t, exn)
  /\ UNCHANGED <<lock, call, todo, reg, attempt, frame, data, status, linkVars>>

\* The device does not take the SET: it refuses it, never sees its end, or the
\* handshake fails, which set_data swallows just as it does a dead port. A whole
\* frame that got into the device may still be there, waiting for its Escape.
SetIgnored(t) ==
  /\ pc[t] = "set"
  /\ \/ Finish(t, Unverified)
     \/ port = "open" /\ Finish(t, "ProtocolError")
  /\ \/ UNCHANGED late
     \/ /\ port = "open"
        /\ frame[t].kind = "full"
        /\ late' = {SetOf(t)}
  /\ UNCHANGED <<lock, call, todo, reg, attempt, frame, data, status, applied,
                 linkVars, device, confirmed, since>>

(* Environment *)

\* The user at the pump's panel, or the pump itself, changes a value.
PanelChange(c, v) ==
  /\ v # device[c]
  /\ device' = [device EXCEPT ![c] = v]
  /\ confirmed' = [confirmed EXCEPT ![c] = NoValue]
  /\ since' = [t \in Threads |->
                 IF lock = t THEN [since[t] EXCEPT ![c] = since[t][c] \cup {v}]
                 ELSE since[t]]
  /\ UNCHANGED <<lock, pc, callVars, status, linkVars, late>>

\* The device takes a SET whose conversation has failed (see Conversation.tla:
\* a later handshake completes the earlier one), with no success since.
LateTake(p) ==
  /\ port = "open"
  /\ DeviceTakes(p)
  /\ confirmed' = Ledger(p, NoValue)
  /\ late' = {}
  /\ UNCHANGED <<lock, pc, callVars, status, linkVars>>

\* The USB adapter is pulled out; its open file descriptor is dead for good.
Unplug ==
  /\ plugged
  /\ plugged' = FALSE
  /\ port' = IF port = "open" THEN "dead" ELSE port
  /\ UNCHANGED <<lock, pc, callVars, status, connected, phase, deviceVars, since>>

Replug ==
  /\ ~plugged
  /\ plugged' = TRUE
  /\ UNCHANGED <<lock, pc, callVars, status, port, connected, phase, deviceVars,
                 since>>

-----------------------------------------------------------------------------
\* What a thread does on its own once a call is admitted.
Work(t) ==
  \/ Acquire(t) \/ Leave(t) \/ Respond(t)
  \/ ReadOk(t) \/ ReadFails(t) \/ ReadBroken(t) \/ Restart(t)
  \/ PreReadFails(t) \/ PreReadBare(t) \/ PreRead(t)
  \/ SetConfirmed(t) \/ SetUnconfirmed(t) \/ SetIgnored(t)

Environment ==
  \/ \E c \in Panel, v \in Values : PanelChange(c, v)
  \/ \E p \in late : LateTake(p)
  \/ Unplug
  \/ Replug

Next ==
  \/ Startup
  \/ Stop
  \/ Close
  \/ \E t \in Threads, k \in Offered : Reject(t, k) \/ Admit(t, k)
  \/ \E t \in Threads : Work(t)
  \/ Environment

Spec == Init /\ [][Next]_vars

\* Every thread keeps running (the conversation it is in always ends: each wait
\* for a byte has a timeout) and the shutdown gets on. Nothing is assumed of
\* clients, of the panel or of the cable, and the lock is not fair.
FairSpec ==
  /\ Spec
  /\ \A t \in Threads : WF_vars(Work(t))
  /\ WF_vars(Close)

-----------------------------------------------------------------------------
(* Properties *)

TypeOK ==
  /\ lock \in Threads \cup {NoThread}
  /\ pc \in [Threads -> Places]
  /\ call \in [Threads -> AllCalls]
  /\ todo \in [Threads -> SUBSET Registers]
  /\ reg \in [Threads -> Registers]
  /\ attempt \in [Threads -> 1 .. MAX_TRIES]
  /\ frame \in [Threads -> Frames]
  /\ data \in [Threads -> [Channels -> Maybe \cup {FooterValue}]]
  /\ outcome \in [Threads -> Outcomes]
  /\ status \in [Threads -> {0, 200, 400, 404, 409, 500, 502, 503}]
  /\ port \in {"closed", "open", "dead"}
  /\ connected \in BOOLEAN
  /\ plugged \in BOOLEAN
  /\ phase \in {"starting", "serving", "stopping", "closed"}
  /\ device \in [Channels -> Values]
  /\ late \subseteq [frame : Frames, id : Channels]
  /\ applied \in [Threads -> BOOLEAN]
  /\ confirmed \in [Channels -> Maybe]
  /\ since \in [Threads -> [Channels -> SUBSET Values]]

\* At most one thread is inside a locked block, and the lock names it: the one
\* serial link carries one conversation at a time ("with self._lock" around
\* every use of CommunicationService).
InConversation(t) == pc[t] \in {"read", "restart", "pre", "set", "leave"}
OneConversation == \A t \in Threads : InConversation(t) => lock = t

\* A value whose PUT was acknowledged is still on the device, unless the panel
\* has changed that channel since, or the device took the SET of a PUT of it that
\* was answered with a failure (at once, or late, in a later conversation), or
\* a SET built from a pre-read with a bad header hit its register. In particular
\* no write of another channel in the same register, whose SET carries the whole
\* register, ever puts an older value back (_write_values, lines 119-144).
NoLostUpdate ==
  \A c \in Channels : confirmed[c] # NoValue => device[c] = confirmed[c]

\* A SET about to be sent on an intact pre-read agrees with every acknowledged
\* value of the register it is going to overwrite: nobody else can have written
\* between the pre-read and the SET of _write_values.
SnapshotKeepsConfirmed ==
  \A t \in Threads : pc[t] = "set" /\ frame[t].kind = "full" /\ frame[t].ok =>
    \A c \in Channels \ {call[t].id} :
      RegisterOf[c] = frame[t].reg /\ confirmed[c] # NoValue
        => frame[t].vals[c] = confirmed[c]

\* Every value a read takes from the payload of a frame was on the device at some
\* time while the thread held the lock, whatever went wrong on the line and however
\* often the link was restarted (header_check in read_request).
ReadsWereHeld ==
  \A t \in Threads, c \in Channels :
    data[t][c] \in Values => data[t][c] \in since[t][c]

\* A call answered with a client error (400, 404, 409) has changed nothing on
\* the device, although the range check happens inside the locked block, after
\* the pre-read (ValueOutOfRange is no ProtocolError and the reverse).
ClientErrorNeverWrites ==
  \A t \in Threads : status[t] \in {400, 404, 409} => ~applied[t]

\* A PUT answered 200 has changed the device, the case of a pre-read that equals
\* its request left aside.
AcknowledgedIsApplied ==
  \A t \in Threads :
    status[t] = 200 /\ call[t].kind = "write" /\ frame[t].kind # "bare" => applied[t]

\* A port that is not closed belongs to a connected service, which will close it; and
\* after close(), even one that raised, it stays closed: no thread that was still waiting
\* for the lock opens it again through _restart.
NoOrphanPort ==
  /\ port # "closed" => connected
  /\ phase = "closed" => port = "closed"

\* The SET of an intact pre-read can at worst put a sibling channel back to a
\* value it had during this very call; it never invents one (the panel may change
\* a value between the pre-read and the SET).
SiblingsOnlyRevert ==
  [][\A t \in Threads : pc[t] = "set" /\ pc'[t] = "leave" /\ frame[t].ok =>
       \A c \in Channels \ {call[t].id} :
         device'[c] # device[c] => device'[c] \in since[t][c]]_vars

\* Whoever has the lock gives it back: retries are bounded and every exception
\* leaves the locked block.
LockIsReleased == \A t \in Threads : lock = t ~> lock # t

\* Once the server stops taking calls, every waiting call is answered and the
\* port gets closed. (While calls keep coming a waiting thread may be overtaken
\* for ever: threading.Lock is not fair.)
ShutdownDrains ==
  phase = "stopping" ~> (phase = "closed" /\ \A t \in Threads : pc[t] = "idle")
=============================================================================
