-------------------------- MODULE HandshakeProofs ---------------------------
(***************************************************************************)
(* Theorems about Handshake, for any registers, values and bounds.         *)
(*                                                                         *)
(* Types       what the variables hold, with what the actions rely on      *)
(* Heard       what is on its way was true once, however stale it is       *)
(* Own         if the conversation going on began on a quiet line: all     *)
(*             that is on its way speaks truthfully of its register, with  *)
(*             any number of faults before and since                       *)
(* Clean       before the first fault: Own, and the gateway and the device *)
(*             are at the same point of the handshake (Lockstep)           *)
(***************************************************************************)
EXTENDS Handshake, SequenceTheorems, FiniteSetTheorems, TLAPS

-----------------------------------------------------------------------------
(* What goes over the line *)

Signs == {STX, ESC, SOH, ETX, GET, SET, ERR}
\* What the gateway writes, and what the device and the line make of it.
Asked == Signs \cup {Body(r, v) : r \in Registers, v \in Values \cup {NoOp}}
Told == Asked \cup {NUL, Body(NoOp, NoOp)}

Devices == [state : {"IDLE", "COLLECTING", "AWAIT_ACK"}, buffer : Seq(Asked),
            pending : Seq(Asked), store : [Registers -> Values]]

Types ==
  /\ cpc \in {"idle", "sendStart", "start", "sendRequest", "establish",
              "sendEscape", "receive"}
  /\ op \in C!Gets \cup C!Sets \cup {NoOp}
  /\ op = NoOp <=> cpc = "idle"
  /\ request \in 0 .. MAX_RETRY
  /\ cpc \in {"sendRequest", "establish"} => request < MAX_RETRY
  /\ retry \in 0 .. MAX_RETRY - 1
  /\ head \in (Told \X Told)
  /\ num \in 0 .. INPUT_BUFFER_LENGTH + 3
  /\ buf \in Seq(Told)
  /\ cpc # "receive" => buf = <<>>
  /\ tx \in Seq(Asked)
  /\ cpc \notin {"start", "establish", "receive"} => tx = <<>>
  /\ queue \in Seq(Told)
  /\ dev \in Devices
  /\ dev.state = "IDLE" => dev.buffer = <<>> /\ dev.pending = <<>>
  /\ answer \in C!Answers
  /\ held \subseteq Values
  /\ taken \in BOOLEAN
  /\ op = NoOp => taken = FALSE
  /\ faults \in 0 .. MaxFaults
  /\ talks \in 0 .. MaxConversations

-----------------------------------------------------------------------------
(* Symbols, operations and frames *)

\* Symbols are told apart, and a body is what has a register and a value.
LEMMA Symbols ==
  /\ \A b \in Signs \cup {NUL} : ~IsBody(b)
  /\ \A r, v : IsBody(Body(r, v)) /\ Body(r, v)[2] = r /\ Body(r, v)[3] = v
  /\ \A r, v, q, w : Body(r, v) = Body(q, w) <=> r = q /\ v = w
BY DEF Signs, STX, ESC, SOH, ETX, GET, SET, ERR, NUL, IsBody, Body

\* What a body on the line says: the gateway speaks of registers only, the device also of none.
LEMMA BodiesAre ==
  /\ \A b \in Asked : IsBody(b) =>
       \E r \in Registers : \E v \in Values \cup {NoOp} : b = Body(r, v)
  /\ \A b \in Told : IsBody(b) =>
       b[2] \in Registers \cup {NoOp} /\ b[3] \in Values \cup {NoOp} /\ b = Body(b[2], b[3])
BY Symbols DEF Asked, Told

\* Sequences over a set are sequences over a larger one.
LEMMA SeqMonotone ==
  ASSUME NEW S, NEW T, S \subseteq T
  PROVE  Seq(S) \subseteq Seq(T)
OBVIOUS

\* What the steps do to a sequence keeps it over its set.
LEMMA SeqSteps ==
  ASSUME NEW S, NEW s \in Seq(S)
  PROVE  /\ <<>> \in Seq(S)
         /\ s # <<>> => Tail(s) \in Seq(S) /\ Head(s) \in S
         /\ \A e \in S : Append(s, e) \in Seq(S) /\ s \o <<e>> \in Seq(S)
         /\ \A e, f \in S : s \o <<e, f>> \in Seq(S)
         /\ \A t \in Seq(S) : s \o t \in Seq(S)
OBVIOUS

\* One symbol stands for at most four bytes.
LEMMA WeightOfOne ==
  ASSUME NEW b
  PROVE  Weight(<<b>>) \in 1 .. 4
<1>. DEFINE A == Bodies(<<b>>)
            B == {i \in A : <<b>>[i][3] # NoOp}
<1>1. A \subseteq {1} /\ B \subseteq {1} /\ Len(<<b>>) = 1
  BY DEF Bodies
<1>2. Cardinality({}) = 0 /\ Cardinality({1}) = 1
  BY FS_EmptySet, FS_Singleton
<1>3. Cardinality(A) \in {0, 1} /\ Cardinality(B) \in {0, 1}
  <2>. HIDE DEF A, B
  <2>1. (A = {} \/ A = {1}) /\ (B = {} \/ B = {1})
    BY <1>1
  <2>. QED BY <1>2, <2>1
<1>. QED BY <1>1, <1>3 DEF Weight

\* The conversation going on is a GET without a value, or a SET with one.
LEMMA OpIs ==
  ASSUME Types, op # NoOp
  PROVE  /\ op.reg \in Registers
         /\ \/ op \in C!Gets /\ op.kind = "get" /\ op.val = NoOp
            \/ op \in C!Sets /\ op.kind = "set" /\ op.val \in Values
BY DEF Types, C!Gets, C!Sets

\* What the gateway writes is something that is asked.
LEMMA RequestIs ==
  ASSUME Types, op # NoOp
  PROVE  RequestMessage(op) \in Seq(Asked)
<1>1. op.reg \in Registers /\ op.val \in Values \cup {NoOp}
  BY OpIs
<1>2. Body(op.reg, op.val) \in Asked
  BY <1>1 DEF Asked
<1>3. {SOH, GET, SET, ESC, ETX} \subseteq Asked
  BY DEF Asked, Signs
<1>. QED BY <1>2, <1>3 DEF RequestMessage, Frame

\* What the device sends of a register.
LEMMA AnswerIs ==
  /\ Frame(ERR, NoOp, NoOp) \in Seq(Told)
  /\ \A r \in Registers : \A v \in Values \cup {NoOp} : \A k \in {GET, SET} :
       Frame(k, r, v) \in Seq(Told)
  /\ <<ESC, STX>> \in Seq(Told)
<1>1. {SOH, GET, SET, ERR, ESC, ETX, STX} \subseteq Told
  BY DEF Asked, Told, Signs
<1>2. Body(NoOp, NoOp) \in Told
  BY DEF Told
<1>3. \A r \in Registers : \A v \in Values \cup {NoOp} : Body(r, v) \in Told
  BY DEF Asked, Told
<1>. QED BY <1>1, <1>2, <1>3 DEF Frame

\* Frames that pass verify_header: the verdict speaks of the body's register and value.
LEMMA VerdictIs ==
  ASSUME Types, NEW s \in Seq(Told), NEW a \in Verdict(s)
  PROVE  /\ a \in C!Answers
         /\ \/ a = C!Failed
            \/ /\ HeaderCheck(s) /\ s[3] \in Told /\ IsBody(s[3]) /\ s[3][2] # NoOp
               /\ a.reg = s[3][2]
               /\ \/ a.kind = "confirmed" /\ op.kind = "set"
                  \/ a.kind = "value" /\ op.kind # "set" /\ a.val = s[3][3] /\ a.val # NoOp
                  \/ a.kind = "short" /\ op.kind # "set"
<1>1. C!Failed \in C!Answers
  BY DEF C!Failed, C!Answers
<1>. SUFFICES ASSUME a # C!Failed
              PROVE  /\ a \in C!Answers
                     /\ HeaderCheck(s) /\ s[3] \in Told /\ IsBody(s[3]) /\ s[3][2] # NoOp
                     /\ a.reg = s[3][2]
                     /\ \/ a.kind = "confirmed" /\ op.kind = "set"
                        \/ a.kind = "value" /\ op.kind # "set" /\ a.val = s[3][3] /\ a.val # NoOp
                        \/ a.kind = "short" /\ op.kind # "set"
  BY <1>1
<1>2. HeaderCheck(s)
  BY DEF Verdict
<1>3. s[3] \in Told /\ IsBody(s[3]) /\ s[3][2] # NoOp
  BY <1>2 DEF HeaderCheck
<1>4. s[3][2] \in Registers /\ s[3][3] \in Values \cup {NoOp}
  BY <1>3, BodiesAre
<1>5. \/ op.kind = "set" /\ a = [kind |-> "confirmed", reg |-> s[3][2], val |-> NoOp]
      \/ op.kind # "set" /\ s[3][3] # NoOp /\ a = [kind |-> "value", reg |-> s[3][2], val |-> s[3][3]]
      \/ op.kind # "set" /\ a = [kind |-> "short", reg |-> s[3][2], val |-> NoOp]
  BY DEF Verdict
<1>. QED BY <1>2, <1>3, <1>4, <1>5 DEF C!Answers

-----------------------------------------------------------------------------
(* Types *)

\* The values that the variables begin with.
LEMMA Zeros ==
  /\ 0 \in 0 .. MAX_RETRY /\ 0 \in 0 .. MAX_RETRY - 1
  /\ 0 \in 0 .. INPUT_BUFFER_LENGTH + 3
  /\ 0 \in 0 .. MaxFaults /\ 0 \in 0 .. MaxConversations
  /\ <<NUL, NUL>> \in Told \X Told
  /\ <<>> \in Seq(Told) /\ <<>> \in Seq(Asked)
  /\ C!Failed \in C!Answers
<1>1. NUL \in Told
  BY DEF Told
<1>. QED BY <1>1, HandshakeAssumption DEF C!Failed, C!Answers

\* Types hold at first; one lemma for every step follows.
LEMMA InitTypes == Init => Types
<1>. SUFFICES ASSUME Init PROVE Types
  OBVIOUS
<1>1. dev \in Devices /\ dev.buffer = <<>> /\ dev.pending = <<>>
  BY Zeros DEF Init, Devices
<1>. QED BY <1>1, Zeros DEF Init, Types

\* What the connector leaves when a conversation ends.
LEMMA EndTypes ==
  ASSUME Types, NEW a \in C!Answers, End(a), tx = <<>>, tx' = tx, queue' \in Seq(Told),
         dev' \in Devices, dev'.state = "IDLE" => dev'.buffer = <<>> /\ dev'.pending = <<>>,
         faults' \in 0 .. MaxFaults, talks' = talks
  PROVE  Types'
BY Zeros DEF Types, End

\* get_data and set_data are entered: Begin keeps Types.
LEMMA BeginTypes ==
  ASSUME Types, NEW o \in Ops, Begin(o)
  PROVE  Types'
<1>1. o \in C!Gets \cup C!Sets /\ o # NoOp
  BY OpsAssumption
<1>2. dev.store[o.reg] \in Values
  BY <1>1 DEF Types, Devices, C!Gets, C!Sets
<1>3. C!Failed \in C!Answers
  BY DEF C!Failed, C!Answers
<1>4. talks' \in 0 .. MaxConversations
  BY HandshakeAssumption DEF Begin, Types
<1>. QED BY <1>1, <1>2, <1>3, <1>4 DEF Types, Begin

\* The three writes keep Types.
LEMMA SendTypes ==
  ASSUME Types, SendStart \/ SendRequest \/ SendEscape
  PROVE  Types'
<1>1. <<STX>> \in Seq(Asked) /\ <<ESC>> \in Seq(Asked)
  BY DEF Asked, Signs
<1>2. op # NoOp => RequestMessage(op) \in Seq(Asked)
  BY RequestIs
<1>3. 0 \in 0 .. MAX_RETRY - 1
  BY HandshakeAssumption
<1>4. 0 \in 0 .. INPUT_BUFFER_LENGTH + 3
  BY HandshakeAssumption
<1>5. CASE SendStart
  BY <1>1, <1>5 DEF Types, SendStart, Send
<1>6. CASE SendRequest
  BY <1>2, <1>3, <1>4, <1>6 DEF Types, SendRequest, Send
<1>7. CASE SendEscape
  BY <1>1, <1>3, <1>7 DEF Types, SendEscape, Send
<1>. QED BY <1>5, <1>6, <1>7

\* The byte that answers a START.
LEMMA StartedTypes ==
  ASSUME Types, Started
  PROVE  Types'
<1>1. /\ cpc = "start" /\ tx = <<>> /\ queue' \in Seq(Told)
      /\ UNCHANGED <<tx, dev, faults, talks>>
  BY DEF Started, Types
<1>2. CASE End(C!Failed)
  <2>1. C!Failed \in C!Answers
    BY DEF C!Failed, C!Answers
  <2>. QED BY <1>1, <1>2, <2>1, EndTypes DEF Types
<1>3. CASE /\ cpc' \in {"sendRequest", "sendEscape"}
           /\ cpc' = "sendRequest" => request < MAX_RETRY
           /\ UNCHANGED <<op, request, retry, head, num, buf, answer, held, taken>>
  BY <1>1, <1>3 DEF Types
<1>. QED BY <1>2, <1>3 DEF Started

\* A byte of the inner loop: num_read passes its bound by less than one symbol.
LEMMA EstablishTypes ==
  ASSUME Types, Establish
  PROVE  Types'
<1>1. /\ cpc = "establish" /\ tx = <<>> /\ queue' \in Seq(Told) /\ Head(queue) \in Told
      /\ UNCHANGED <<tx, dev, faults, talks>>
  BY DEF Establish, Types
<1>2. CASE End(C!Failed)
  <2>1. C!Failed \in C!Answers
    BY DEF C!Failed, C!Answers
  <2>. QED BY <1>1, <1>2, <2>1, EndTypes DEF Types
<1>3. CASE /\ num < INPUT_BUFFER_LENGTH
           /\ num' = num + Weight(<<Head(queue)>>)
           /\ head' = [i \in 1 .. 2 |-> IF i > num /\ i <= num' THEN Head(queue) ELSE head[i]]
           /\ cpc' = IF head' = <<ESC, STX>> THEN "sendEscape" ELSE "establish"
           /\ UNCHANGED <<op, request, retry, buf, answer, held, taken>>
  <2>1. Weight(<<Head(queue)>>) \in 1 .. 4
    BY WeightOfOne
  <2>2. num' \in 0 .. INPUT_BUFFER_LENGTH + 3
    <3>1. num \in Nat /\ INPUT_BUFFER_LENGTH \in Nat
      BY HandshakeAssumption DEF Types
    <3>. HIDE DEF Weight
    <3>. QED BY <1>3, <2>1, <3>1
  <2>3. head' \in Told \X Told
    <3>1. head[1] \in Told /\ head[2] \in Told
      BY DEF Types
    <3>2. head'[1] \in Told /\ head'[2] \in Told
      BY <1>1, <1>3, <3>1
    <3>3. head' = <<head'[1], head'[2]>>
      BY <1>3
    <3>. QED BY <3>2, <3>3
  <2>4. cpc' \in {"sendEscape", "establish"}
    BY <1>3
  <2>. QED BY <1>1, <1>3, <2>2, <2>3, <2>4 DEF Types
<1>. QED BY <1>2, <1>3 DEF Establish

\* A byte of the answer, and the verdict on it.
LEMMA ReceiveTypes ==
  ASSUME Types, Receive
  PROVE  Types'
<1>. DEFINE got == Append(buf, Head(queue))
<1>1. /\ cpc = "receive" /\ tx = <<>> /\ queue' \in Seq(Told) /\ Head(queue) \in Told
      /\ UNCHANGED <<tx, dev, faults, talks>>
      /\ got \in Seq(Told)
  BY DEF Receive, Types
<1>2. ASSUME NEW a \in C!Answers, End(a) PROVE Types'
  BY <1>1, <1>2, EndTypes DEF Types
<1>3. CASE buf' = got /\ UNCHANGED <<cpc, op, request, retry, head, num, answer, held, taken>>
  BY <1>1, <1>3 DEF Types
<1>4. C!Failed \in C!Answers
  BY DEF C!Failed, C!Answers
<1>5. \A a \in Verdict(got) : a \in C!Answers
  <2>. HIDE DEF got
  <2>. QED BY <1>1, VerdictIs
<1>. QED BY <1>2, <1>3, <1>4, <1>5 DEF Receive

\* A device that drops its handshake.
LEMMA IdledTypes ==
  ASSUME Types
  PROVE  /\ Idled(dev) \in Devices
         /\ Idled(dev) = [dev EXCEPT !.state = "IDLE", !.buffer = <<>>, !.pending = <<>>]
         /\ Idled(dev).state = "IDLE" /\ Idled(dev).buffer = <<>> /\ Idled(dev).pending = <<>>
         /\ Idled(dev).store = dev.store
<1>1. dev \in Devices /\ <<>> \in Seq(Asked)
  BY DEF Types
<1>. QED BY <1>1 DEF Devices, Idled

\* The waits that bring nothing: both counts stay within MAX_RETRY.
LEMMA TimeoutTypes ==
  ASSUME Types, Timeout
  PROVE  Types'
<1>1. /\ cpc \in {"start", "establish", "receive"} /\ tx = <<>> /\ UNCHANGED <<tx, queue, talks>>
      /\ queue' \in Seq(Told)
  BY DEF Timeout, Types
<1>2. dev' \in Devices /\ (dev'.state = "IDLE" => dev'.buffer = <<>> /\ dev'.pending = <<>>)
  BY IdledTypes DEF Timeout, Types
<1>3. faults' \in 0 .. MaxFaults
  BY HandshakeAssumption DEF Timeout, Types
<1>4. ASSUME NEW a \in C!Answers, End(a) PROVE Types'
  BY <1>1, <1>2, <1>3, <1>4, EndTypes
<1>5. C!Failed \in C!Answers
  BY DEF C!Failed, C!Answers
<1>6. \A a \in Verdict(buf) : a \in C!Answers
  BY VerdictIs DEF Types
<1>7. CASE /\ RetriesLeft /\ retry' = NextRetry
           /\ UNCHANGED <<cpc, op, request, head, num, buf, answer, held, taken>>
  <2>1. retry' \in 0 .. MAX_RETRY - 1
    BY <1>7, HandshakeAssumption DEF RetriesLeft, NextRetry, Types
  <2>. QED BY <1>1, <1>2, <1>3, <1>7, <2>1 DEF Types
<1>8. CASE /\ cpc = "establish" /\ request' = request + 1 /\ cpc' = "sendStart"
           /\ UNCHANGED <<op, retry, head, num, buf, answer, held, taken>>
  <2>1. request' \in 0 .. MAX_RETRY
    BY <1>8, HandshakeAssumption DEF Types
  <2>. QED BY <1>1, <1>2, <1>3, <1>8, <2>1 DEF Types
<1>. QED BY <1>4, <1>5, <1>6, <1>7, <1>8 DEF Timeout

\* What the line loses and adds.
LEMMA LineTypes ==
  ASSUME Types, Lose \/ Noise
  PROVE  Types'
<1>1. faults' \in 0 .. MaxFaults
  BY HandshakeAssumption DEF Lose, Noise, Types
<1>2. queue' \in Seq(Told) /\ tx' \in Seq(Asked)
  <2>1. queue \in Seq(Told) /\ tx \in Seq(Asked) /\ NUL \in Told
    BY DEF Types, Told
  <2>2. CASE Lose
    <3>1. \/ queue # <<>> /\ queue' = Tail(queue) /\ tx' = tx
          \/ tx # <<>> /\ tx' = Tail(tx) /\ queue' = queue
      BY <2>2 DEF Lose
    <3>2. (queue # <<>> => Tail(queue) \in Seq(Told)) /\ (tx # <<>> => Tail(tx) \in Seq(Asked))
      BY <2>1
    <3>. QED BY <2>1, <3>1, <3>2
  <2>3. CASE Noise
    BY <2>1, <2>3 DEF Noise
  <2>. QED BY <2>2, <2>3
<1>3. tx # <<>> \/ tx' = tx
  BY DEF Lose, Noise
<1>. QED BY <1>1, <1>2, <1>3 DEF Lose, Noise, Types

\* The fields of the device, step by step.
LEMMA DeviceFields ==
  ASSUME Types
  PROVE  /\ dev.state \in {"IDLE", "COLLECTING", "AWAIT_ACK"}
         /\ dev.buffer \in Seq(Asked) /\ dev.pending \in Seq(Asked)
         /\ dev.store \in [Registers -> Values]
BY DEF Types, Devices

\* An intact request has a register, and a value just if it is a SET.
LEMMA IntactIs ==
  ASSUME NEW s \in Seq(Asked), IntactRequest(s)
  PROVE  /\ Len(s) = 5 /\ s[3] \in Asked /\ IsBody(s[3]) /\ s[3] = Body(s[3][2], s[3][3])
         /\ s[3][2] \in Registers
         /\ s[2] = SET => s[3][3] \in Values
         /\ s[2] # SET => s[3][3] = NoOp
<1>1. Len(s) = 5 /\ IsBody(s[3]) /\ (s[2] = SET <=> s[3][3] # NoOp)
  BY DEF IntactRequest
<1>2. s[3] \in Asked
  BY <1>1
<1>3. PICK r \in Registers : \E v \in Values \cup {NoOp} : s[3] = Body(r, v)
  BY <1>1, <1>2, BodiesAre
<1>4. s[3][2] = r /\ s[3][3] \in Values \cup {NoOp} /\ s[3] = Body(s[3][2], s[3][3])
  BY <1>3, Symbols
<1>. QED BY <1>1, <1>2, <1>4

\* The bytes of a request, one by one.
LEMMA CollectsTypes ==
  ASSUME Types, DeviceIgnores \/ DeviceStarts \/ DeviceCollects
  PROVE  /\ dev' \in Devices /\ dev'.state \in {dev.state, "COLLECTING", "AWAIT_ACK"}
         /\ dev'.store = dev.store
         /\ dev'.state = "IDLE" => dev' = dev
         /\ tx # <<>> /\ tx' = Tail(tx) /\ tx' \in Seq(Asked) /\ queue' \in Seq(Told)
<1>1. tx # <<>> /\ tx' = Tail(tx) /\ tx' \in Seq(Asked) /\ Head(tx) \in Asked
      /\ queue \in Seq(Told) /\ dev \in Devices
  <2>1. tx \in Seq(Asked) /\ queue \in Seq(Told) /\ dev \in Devices
    BY DEF Types
  <2>2. tx # <<>> /\ tx' = Tail(tx)
    BY DEF DeviceIgnores, DeviceStarts, DeviceCollects
  <2>. QED BY <2>1, <2>2
<1>2. CASE DeviceIgnores
  BY <1>1, <1>2, DeviceFields DEF DeviceIgnores
<1>3. CASE DeviceStarts
  <2>1. ESC \in Told /\ <<>> \in Seq(Asked)
    BY DEF Told, Asked, Signs
  <2>2. queue' = Append(queue, ESC) /\ dev' = [dev EXCEPT !.state = "COLLECTING", !.buffer = <<>>]
    BY <1>3 DEF DeviceStarts
  <2>3. queue' \in Seq(Told)
    BY <1>1, <2>1, <2>2
  <2>4. dev' \in Devices /\ dev'.state = "COLLECTING" /\ dev'.store = dev.store
    BY <1>1, <2>1, <2>2 DEF Devices
  <2>. QED BY <1>1, <2>3, <2>4
<1>4. CASE DeviceCollects
  <2>. DEFINE got == Append(dev.buffer, Head(tx))
  <2>1. got \in Seq(Asked) /\ <<>> \in Seq(Asked)
    BY <1>1, DeviceFields
  <2>2. \/ /\ dev' = [dev EXCEPT !.state = "AWAIT_ACK", !.buffer = <<>>, !.pending = got]
           /\ queue' = queue \o <<ESC, STX>>
        \/ dev' = [dev EXCEPT !.buffer = got] /\ queue' = queue
    BY <1>4 DEF DeviceCollects
  <2>3. dev.state = "COLLECTING"
    BY <1>4 DEF DeviceCollects
  <2>4. queue' \in Seq(Told)
    BY <1>1, <2>2, AnswerIs
  <2>. HIDE DEF got
  <2>. QED BY <1>1, <2>1, <2>2, <2>3, <2>4 DEF Devices
<1>. QED BY <1>2, <1>3, <1>4

\* What the device has made of its store, and the frame it answers with.
Sets(s) == IntactRequest(s) /\ s[2] = SET
Stored(s) == IF Sets(s) THEN [dev.store EXCEPT ![s[3][2]] = s[3][3]] ELSE dev.store
Reply(s) ==
  IF ~IntactRequest(s) THEN Frame(ERR, NoOp, NoOp)
  ELSE IF Sets(s) THEN Frame(SET, s[3][2], NoOp)
  ELSE Frame(GET, s[3][2], Stored(s)[s[3][2]])

\* The answer of the device, and what it has stored.
LEMMA AnswersTypes ==
  ASSUME Types, DeviceAnswers
  PROVE  /\ dev' = [Idled(dev) EXCEPT !.store = Stored(dev.pending)]
         /\ Stored(dev.pending) \in [Registers -> Values]
         /\ dev' \in Devices /\ dev'.state = "IDLE" /\ dev'.buffer = <<>> /\ dev'.pending = <<>>
         /\ dev'.store = Stored(dev.pending)
         /\ tx # <<>> /\ tx' = Tail(tx) /\ tx' \in Seq(Asked)
         /\ queue' = queue \o Reply(dev.pending) /\ queue' \in Seq(Told)
<1>. DEFINE s == dev.pending
<1>1. s \in Seq(Asked) /\ dev.store \in [Registers -> Values]
  BY DeviceFields
<1>2. Stored(s) \in [Registers -> Values]
  BY <1>1, IntactIs DEF Stored, Sets
<1>3. Reply(s) \in Seq(Told)
  <2>1. CASE ~IntactRequest(s)
    BY <2>1, AnswerIs DEF Reply
  <2>2. CASE IntactRequest(s)
    <3>1. s[3][2] \in Registers /\ Stored(s)[s[3][2]] \in Values
      BY <1>1, <1>2, <2>2, IntactIs
    <3>. QED BY <2>2, <3>1, AnswerIs DEF Reply
  <2>. QED BY <2>1, <2>2
<1>4. dev' = [Idled(dev) EXCEPT !.store = Stored(s)]
  BY DEF DeviceAnswers, Stored, Sets
<1>5. queue' = queue \o Reply(s)
  BY DEF DeviceAnswers, Stored, Sets, Reply
<1>6. tx # <<>> /\ tx' = Tail(tx) /\ tx' \in Seq(Asked) /\ queue \in Seq(Told)
  <2>1. tx \in Seq(Asked) /\ queue \in Seq(Told)
    BY DEF Types
  <2>2. tx # <<>> /\ tx' = Tail(tx)
    BY DEF DeviceAnswers
  <2>. QED BY <2>1, <2>2
<1>7. queue' \in Seq(Told)
  BY <1>3, <1>5, <1>6
<1>8. /\ dev' \in Devices /\ dev'.state = "IDLE" /\ dev'.buffer = <<>> /\ dev'.pending = <<>>
      /\ dev'.store = Stored(s)
  BY <1>2, <1>4, IdledTypes DEF Devices
<1>. QED BY <1>2, <1>4, <1>5, <1>6, <1>7, <1>8

\* All that the device does.
LEMMA DeviceTypes ==
  ASSUME Types, Device
  PROVE  Types'
<1>1. UNCHANGED <<cpc, op, request, retry, head, num, buf, answer, faults, talks>>
  BY DEF Device
<1>2. /\ tx # <<>> /\ tx' \in Seq(Asked) /\ queue' \in Seq(Told) /\ dev' \in Devices
      /\ dev'.state = "IDLE" => dev'.buffer = <<>> /\ dev'.pending = <<>>
  BY CollectsTypes, AnswersTypes DEF Device, Types
<1>3. cpc \in {"start", "establish", "receive"} /\ op # NoOp
  BY <1>2 DEF Types
<1>4. held' \subseteq Values /\ taken' \in BOOLEAN
  <2>1. CASE DeviceAnswers
    <3>1. Stored(dev.pending) \in [Registers -> Values] /\ op.reg \in Registers
      BY <1>3, <2>1, AnswersTypes, OpIs
    <3>2. held' = held \cup {Stored(dev.pending)[op.reg]}
      BY <2>1 DEF DeviceAnswers, Stored, Sets
    <3>3. taken' \in BOOLEAN
      BY <2>1 DEF DeviceAnswers, Types
    <3>. QED BY <3>1, <3>2, <3>3 DEF Types
  <2>2. CASE UNCHANGED <<held, taken>>
    BY <2>2 DEF Types
  <2>. QED BY <2>1, <2>2 DEF Device, DeviceIgnores, DeviceStarts, DeviceCollects
<1>. QED BY <1>1, <1>2, <1>3, <1>4 DEF Types

\* Every step keeps Types.
LEMMA StepTypes == Types /\ [Next]_vars => Types'
<1>. SUFFICES ASSUME Types, [Next]_vars PROVE Types'
  OBVIOUS
<1>1. CASE UNCHANGED vars
  BY <1>1 DEF vars, Types
<1>. QED
  BY <1>1, BeginTypes, SendTypes, StartedTypes, EstablishTypes, ReceiveTypes, TimeoutTypes,
     DeviceTypes, LineTypes DEF Next, Connector

\* So they hold always.
LEMMA AlwaysTypes == Spec => []Types
BY InitTypes, StepTypes, PTL DEF Spec

\* Types: whatever the line loses, delays or adds, no count passes its bound, nothing is
\* written over the end of a buffer, and an answer is one the callers know (connector.py).
THEOREM TypeCorrect == Spec => []TypeOK
<1>1. Types => TypeOK
  <2>. SUFFICES ASSUME Types PROVE TypeOK
    OBVIOUS
  <2>1. Asked \subseteq Bytes /\ Told \subseteq Bytes \cup {NUL}
    BY DEF Asked, Told, Signs, Bytes
  <2>2. Seq(Asked) \subseteq Seq(Bytes) /\ Seq(Told) \subseteq Seq(Bytes \cup {NUL})
    BY <2>1, SeqMonotone
  <2>3. head \in (Bytes \cup {NUL}) \X (Bytes \cup {NUL})
    BY <2>1 DEF Types
  <2>. QED BY <2>2, <2>3, DeviceFields DEF Types, TypeOK
<1>. QED BY <1>1, AlwaysTypes, PTL

-----------------------------------------------------------------------------
(* Conversations that begin on a quiet line *)

\* Nothing of an earlier conversation is on its way or in the device.
Quiet == tx = <<>> /\ queue = <<>> /\ dev.state = "IDLE"

\* A history variable: did the conversation going on begin on a quiet line? It follows
\* the behaviour and restricts nothing.
VARIABLE quiet
Marks ==
  /\ quiet = FALSE
  /\ [][quiet' = IF op = NoOp /\ op' # NoOp THEN Quiet ELSE quiet]_<<vars, quiet>>

\* Then only this conversation's register is spoken of, and only truthfully: a value is
\* one it has had since the conversation began, and a SET is confirmed that was taken.
OwnAsked == Signs \cup {Body(op.reg, op.val)}
OwnValues == IF op.kind = "get" THEN held ELSE IF taken THEN {NoOp} ELSE {}
OwnTold == Signs \cup {NUL, Body(NoOp, NoOp)} \cup {Body(op.reg, v) : v \in OwnValues}

Own ==
  op # NoOp =>
    /\ dev.store[op.reg] \in held
    /\ tx \in Seq(OwnAsked) /\ dev.buffer \in Seq(OwnAsked) /\ dev.pending \in Seq(OwnAsked)
    /\ queue \in Seq(OwnTold) /\ buf \in Seq(OwnTold)

\* A body that is heard is that of an error, or speaks of the register truthfully.
LEMMA OwnBodies ==
  ASSUME Types, op # NoOp
  PROVE  /\ \A b \in OwnAsked : IsBody(b) => b = Body(op.reg, op.val)
         /\ \A b \in OwnTold : IsBody(b) /\ b[2] # NoOp =>
              /\ b[2] = op.reg
              /\ op.kind = "get" => b[3] \in held
              /\ op.kind # "get" => b[3] = NoOp /\ taken
<1>1. \A b \in OwnAsked : IsBody(b) => b = Body(op.reg, op.val)
  BY Symbols DEF OwnAsked
<1>2. ASSUME NEW b \in OwnTold, IsBody(b), b[2] # NoOp
      PROVE  /\ b[2] = op.reg
             /\ op.kind = "get" => b[3] \in held
             /\ op.kind # "get" => b[3] = NoOp /\ taken
  <2>1. PICK v \in OwnValues : b = Body(op.reg, v)
    BY <1>2, Symbols DEF OwnTold
  <2>2. b[2] = op.reg /\ b[3] = v
    BY <2>1, Symbols
  <2>. QED BY <2>1, <2>2 DEF OwnValues
<1>. QED BY <1>1, <1>2

\* What the gateway writes is of its own conversation.
LEMMA OwnRequest ==
  ASSUME Types, op # NoOp
  PROVE  /\ RequestMessage(op) \in Seq(OwnAsked)
         /\ <<STX>> \in Seq(OwnAsked) /\ <<ESC>> \in Seq(OwnAsked)
<1>1. Body(op.reg, op.val) \in OwnAsked /\ {SOH, GET, SET, ESC, ETX, STX} \subseteq OwnAsked
  BY DEF OwnAsked, Signs
<1>. QED BY <1>1 DEF RequestMessage, Frame

\* What stays as it was.
LEMMA OwnSame ==
  ASSUME op' = op, held' = held, taken' = taken
  PROVE  OwnAsked' = OwnAsked /\ OwnTold' = OwnTold
BY DEF OwnAsked, OwnTold, OwnValues

\* On a quiet line nothing else is on its way.
LEMMA BeginOwn ==
  ASSUME Types, NEW o \in Ops, Begin(o), Quiet
  PROVE  Own'
<1>1. /\ tx' = <<>> /\ queue' = <<>> /\ buf' = <<>> /\ dev' = dev
      /\ dev.buffer = <<>> /\ dev.pending = <<>>
      /\ op' = o /\ held' = {dev.store[o.reg]}
  BY DEF Begin, Quiet, Types
<1>2. dev'.store[op'.reg] \in held'
  BY <1>1
<1>3. \A S : <<>> \in Seq(S)
  OBVIOUS
<1>. QED BY <1>1, <1>2, <1>3 DEF Own

\* The connector, the line and time add nothing that is not their own.
LEMMA ConnectorOwn ==
  ASSUME Types, Own, Connector \/ Lose \/ Noise
  PROVE  Own'
<1>. SUFFICES ASSUME op' # NoOp PROVE Own'
  BY DEF Own
<1>1. op' = op /\ held' = held /\ taken' = taken /\ dev'.store = dev.store
  BY IdledTypes
  DEF Connector, SendStart, Started, SendRequest, Establish, SendEscape, Receive, Timeout,
      Lose, Noise, Send, End
<1>2. OwnAsked' = OwnAsked /\ OwnTold' = OwnTold
  BY <1>1, OwnSame
<1>3. /\ dev.store[op.reg] \in held
      /\ tx \in Seq(OwnAsked) /\ dev.buffer \in Seq(OwnAsked) /\ dev.pending \in Seq(OwnAsked)
      /\ queue \in Seq(OwnTold) /\ buf \in Seq(OwnTold)
  BY <1>1 DEF Own
<1>. HIDE DEF OwnAsked, OwnTold
<1>4. dev'.buffer \in Seq(OwnAsked) /\ dev'.pending \in Seq(OwnAsked)
  <2>1. dev' = dev \/ dev' = Idled(dev)
    BY DEF Connector, SendStart, Started, SendRequest, Establish, SendEscape, Receive, Timeout,
           Lose, Noise, Send
  <2>2. <<>> \in Seq(OwnAsked)
    BY <1>3, SeqSteps
  <2>3. Idled(dev).buffer = <<>> /\ Idled(dev).pending = <<>>
    BY IdledTypes
  <2>. QED BY <1>3, <2>1, <2>2, <2>3
<1>5. tx' \in Seq(OwnAsked)
  <2>1. tx' \in {tx, <<STX>>, <<ESC>>, RequestMessage(op)} \/ (tx # <<>> /\ tx' = Tail(tx))
    BY DEF Connector, SendStart, Started, SendRequest, Establish, SendEscape, Receive, Timeout,
           Lose, Noise, Send
  <2>2. RequestMessage(op) \in Seq(OwnAsked) /\ <<STX>> \in Seq(OwnAsked) /\ <<ESC>> \in Seq(OwnAsked)
    BY <1>1, OwnRequest
  <2>. QED BY <1>3, <2>1, <2>2, SeqSteps
<1>6. queue' \in Seq(OwnTold)
  <2>1. queue' = queue \/ (queue # <<>> /\ queue' = Tail(queue)) \/ queue' = Append(queue, NUL)
    BY DEF Connector, SendStart, Started, SendRequest, Establish, SendEscape, Receive, Timeout,
           Lose, Noise, Send
  <2>2. NUL \in OwnTold
    BY DEF OwnTold
  <2>. QED BY <1>3, <2>1, <2>2, SeqSteps
<1>7. buf' \in Seq(OwnTold)
  <2>1. buf' = buf \/ (queue # <<>> /\ buf' = Append(buf, Head(queue)))
    BY <1>1 DEF Connector, SendStart, Started, SendRequest, Establish, SendEscape, Receive, Timeout,
           Lose, Noise, Send, End
  <2>. QED BY <1>3, <2>1, SeqSteps
<1>. QED BY <1>1, <1>2, <1>3, <1>4, <1>5, <1>6, <1>7 DEF Own

\* A request that the device collects is the conversation's own.
LEMMA CollectsOwn ==
  ASSUME Types, Own, op # NoOp, op' = op, buf' = buf,
         DeviceIgnores \/ DeviceStarts \/ DeviceCollects
  PROVE  Own'
<1>1. OwnAsked' = OwnAsked /\ OwnTold' = OwnTold /\ held' = held
  BY OwnSame DEF DeviceIgnores, DeviceStarts, DeviceCollects
<1>2. /\ dev.store[op.reg] \in held
      /\ tx \in Seq(OwnAsked) /\ dev.buffer \in Seq(OwnAsked) /\ dev.pending \in Seq(OwnAsked)
      /\ queue \in Seq(OwnTold) /\ buf \in Seq(OwnTold)
  BY DEF Own
<1>3. tx' \in Seq(OwnAsked) /\ dev'.store = dev.store /\ Head(tx) \in OwnAsked
  BY <1>2, CollectsTypes, SeqSteps
<1>4. ESC \in OwnTold /\ STX \in OwnTold
  BY DEF OwnTold, Signs
<1>5. queue' \in {queue, Append(queue, ESC), queue \o <<ESC, STX>>}
  BY DEF DeviceIgnores, DeviceStarts, DeviceCollects
<1>6. queue' \in Seq(OwnTold)
  <2>1. Append(queue, ESC) \in Seq(OwnTold) /\ queue \o <<ESC, STX>> \in Seq(OwnTold)
    BY <1>2, <1>4, SeqSteps
  <2>. QED BY <1>2, <1>5, <2>1
<1>7. Append(dev.buffer, Head(tx)) \in Seq(OwnAsked) /\ <<>> \in Seq(OwnAsked)
  BY <1>2, <1>3
<1>8. /\ dev'.buffer \in {dev.buffer, <<>>, Append(dev.buffer, Head(tx))}
      /\ dev'.pending \in {dev.pending, Append(dev.buffer, Head(tx))}
  <2>1. dev = [state |-> dev.state, buffer |-> dev.buffer, pending |-> dev.pending, store |-> dev.store]
    BY DEF Types, Devices
  <2>. QED BY <2>1 DEF DeviceIgnores, DeviceStarts, DeviceCollects
<1>9. dev'.buffer \in Seq(OwnAsked) /\ dev'.pending \in Seq(OwnAsked)
  BY <1>2, <1>7, <1>8
<1>. QED BY <1>1, <1>2, <1>3, <1>6, <1>9 DEF Own

\* The device stores and answers what this conversation asks of it.
LEMMA AnswersOwn ==
  ASSUME Types, Own, op # NoOp, op' = op, buf' = buf, DeviceAnswers
  PROVE  Own' /\ dev.store[op.reg] \in held
<1>. DEFINE s == dev.pending
            o == op
<1>1. /\ dev.store[op.reg] \in held
      /\ tx \in Seq(OwnAsked) /\ s \in Seq(OwnAsked)
      /\ queue \in Seq(OwnTold) /\ buf \in Seq(OwnTold)
  BY DEF Own
<1>2. /\ dev'.store = Stored(s) /\ dev'.buffer = <<>> /\ dev'.pending = <<>>
      /\ tx # <<>> /\ tx' = Tail(tx) /\ queue' = queue \o Reply(s)
  BY AnswersTypes
<1>3. /\ held' = held \cup {Stored(s)[op.reg]}
      /\ taken' = (taken \/ (Sets(s) /\ op.kind = "set" /\ s[3] = Body(op.reg, op.val)))
  BY DEF DeviceAnswers, Stored, Sets
<1>4. OwnAsked' = OwnAsked
  BY DEF OwnAsked
<1>5. OwnTold \subseteq OwnTold'
  <2>1. held \subseteq held' /\ (taken => taken')
    BY <1>3
  <2>2. OwnValues \subseteq OwnValues'
    BY <2>1 DEF OwnValues
  <2>. QED BY <2>2 DEF OwnTold
<1>6. IntactRequest(s) => s[3] = Body(op.reg, op.val)
  <2>. SUFFICES ASSUME IntactRequest(s) PROVE s[3] = Body(op.reg, op.val)
    OBVIOUS
  <2>1. IsBody(s[3]) /\ 3 \in 1 .. Len(s)
    BY DEF IntactRequest
  <2>2. s[3] \in OwnAsked
    BY <1>1, <2>1
  <2>. QED BY <2>1, <2>2, OwnBodies
<1>7. IntactRequest(s) => s[3][2] = op.reg /\ s[3][3] = op.val
  BY <1>6, Symbols
<1>8. Sets(s) => op.kind = "set" /\ taken'
  <2>. SUFFICES ASSUME Sets(s) PROVE op.kind = "set" /\ taken'
    OBVIOUS
  <2>1. s[3][3] \in Values
    BY DeviceFields, IntactIs DEF Sets
  <2>2. op.val # NoOp
    BY <1>7, <2>1, HandshakeAssumption DEF Sets
  <2>. QED BY <1>3, <1>6, <2>2, OpIs DEF Sets
<1>9. IntactRequest(s) /\ ~Sets(s) => op.kind = "get"
  <2>. SUFFICES ASSUME IntactRequest(s), ~Sets(s) PROVE op.kind = "get"
    OBVIOUS
  <2>1. op.val = NoOp
    BY <1>7, DeviceFields, IntactIs DEF Sets
  <2>. QED BY <2>1, OpIs, HandshakeAssumption
<1>10. {SOH, GET, SET, ERR, ESC, ETX, Body(NoOp, NoOp)} \subseteq OwnTold'
  BY DEF OwnTold, Signs
<1>11. Reply(s) \in Seq(OwnTold')
  <2>1. CASE ~IntactRequest(s)
    BY <1>10, <2>1 DEF Reply, Frame
  <2>2. CASE Sets(s)
    <3>1. NoOp \in OwnValues'
      BY <1>8, <2>2 DEF OwnValues
    <3>2. Body(op.reg, NoOp) \in OwnTold'
      BY <3>1 DEF OwnTold
    <3>3. Reply(s) = <<SOH, SET, Body(op.reg, NoOp), ESC, ETX>>
      BY <1>7, <2>2 DEF Reply, Frame, Sets
    <3>. QED BY <1>10, <3>2, <3>3
  <2>3. CASE IntactRequest(s) /\ ~Sets(s)
    <3>1. Stored(s)[op.reg] \in OwnValues'
      BY <1>3, <1>9, <2>3 DEF OwnValues
    <3>2. Body(op.reg, Stored(s)[op.reg]) \in OwnTold'
      BY <3>1 DEF OwnTold
    <3>3. Reply(s) = <<SOH, GET, Body(op.reg, Stored(s)[op.reg]), ESC, ETX>>
      BY <1>7, <2>3 DEF Reply, Frame
    <3>. QED BY <1>10, <3>2, <3>3
  <2>. QED BY <2>1, <2>2, <2>3
<1>12. queue' \in Seq(OwnTold') /\ buf' \in Seq(OwnTold')
  <2>1. queue \in Seq(OwnTold') /\ buf \in Seq(OwnTold')
    BY <1>1, <1>5, SeqMonotone
  <2>. QED BY <1>2, <1>11, <2>1, SeqSteps
<1>13. tx' \in Seq(OwnAsked) /\ <<>> \in Seq(OwnAsked)
  BY <1>1, <1>2, SeqSteps
<1>14. dev'.store[op'.reg] \in held'
  BY <1>2, <1>3
<1>. QED BY <1>1, <1>2, <1>4, <1>12, <1>13, <1>14 DEF Own

\* Every step keeps Own, if the conversation that it begins or goes on with began quietly.
LEMMA StepOwn ==
  ASSUME Types, Own, [Next]_vars, op = NoOp /\ op' # NoOp => Quiet
  PROVE  Own'
<1>1. CASE UNCHANGED vars
  BY <1>1 DEF vars, Own, OwnAsked, OwnTold, OwnValues
<1>2. ASSUME NEW o \in Ops, Begin(o) PROVE Own'
  <2>1. op = NoOp /\ op' # NoOp
    BY <1>2, OpsAssumption DEF Begin, Types
  <2>. QED BY <1>2, <2>1, BeginOwn
<1>3. CASE Connector \/ Lose \/ Noise
  BY <1>3, ConnectorOwn
<1>4. CASE Device
  <2>1. op' = op /\ buf' = buf /\ tx # <<>>
    BY <1>4 DEF Device, DeviceIgnores, DeviceStarts, DeviceCollects, DeviceAnswers
  <2>2. op # NoOp
    BY <2>1 DEF Types
  <2>. QED BY <1>4, <2>1, <2>2, CollectsOwn, AnswersOwn DEF Device
<1>. QED BY <1>1, <1>2, <1>3, <1>4 DEF Next

-----------------------------------------------------------------------------
(* The steps of the promise *)

\* The SET that is pending is one of Sets, and nothing is pending in a device that is not
\* waiting for the acknowledgement.
LEMMA PendingIs ==
  ASSUME Types
  PROVE  /\ PendingSet = IF dev.state = "AWAIT_ACK" /\ Sets(dev.pending)
                         THEN [kind |-> "set", reg |-> dev.pending[3][2], val |-> dev.pending[3][3]]
                         ELSE NoOp
         /\ PendingSet # NoOp <=> dev.state = "AWAIT_ACK" /\ Sets(dev.pending)
<1>. DEFINE s == dev.pending
            p == [kind |-> "set", reg |-> s[3][2], val |-> s[3][3]]
<1>1. ASSUME Sets(s) PROVE p # NoOp
  <2>1. p \in C!Sets
    BY <1>1, DeviceFields, IntactIs DEF Sets, C!Sets
  <2>. QED BY <2>1, OpsAssumption
<1>2. PendingSet = IF dev.state = "AWAIT_ACK" /\ Sets(s) THEN p ELSE NoOp
  BY DEF PendingSet, Sets
<1>. QED BY <1>1, <1>2

\* While a conversation that began quietly goes on, the pending SET is its own.
LEMMA PendingIsOwn ==
  ASSUME Types, op # NoOp, NEW s \in Seq(Asked), s \in Seq(OwnAsked), Sets(s)
  PROVE  [kind |-> "set", reg |-> s[3][2], val |-> s[3][3]] = op /\ op \in C!Sets
         /\ s[3] = Body(op.reg, op.val) /\ s[3][2] = op.reg /\ s[3][3] = op.val
<1>1. s[3] \in OwnAsked /\ IsBody(s[3])
  BY DEF Sets, IntactRequest
<1>2. s[3] = Body(op.reg, op.val) /\ s[3][2] = op.reg /\ s[3][3] = op.val
  BY <1>1, OwnBodies, Symbols
<1>3. op.val \in Values
  BY <1>2, IntactIs DEF Sets
<1>4. op \in C!Sets /\ op.kind = "set"
  BY <1>3, OpIs, HandshakeAssumption
<1>. QED BY <1>2, <1>4 DEF C!Sets

\* An end with a truthful answer is one of the promise.
LEMMA EndIsTrue ==
  ASSUME Types, NEW a \in C!Answers, op # NoOp, End(a), C!Truthful(a),
         dev' = dev \/ dev' = Idled(dev)
  PROVE  C!EndTruthfully(a)
<1>1. dev'.store = dev.store
  BY IdledTypes
<1>2. PendingSet' \in {PendingSet, NoOp}
  <2>1. CASE dev' = dev
    BY <2>1 DEF PendingSet
  <2>2. CASE dev' = Idled(dev)
    BY <2>2, IdledTypes DEF PendingSet
  <2>. QED BY <2>1, <2>2
<1>. QED BY <1>1, <1>2 DEF End, C!EndTruthfully

\* To fail is never a lie.
LEMMA FailedIsTrue == C!Failed \in C!Answers /\ C!Truthful(C!Failed)
<1>1. C!Failed.kind = "failed"
  BY DEF C!Failed
<1>. QED BY <1>1, Zeros DEF C!Truthful

\* What verify_header lets through is true, since all that is heard is.
LEMMA VerdictIsTrue ==
  ASSUME Types, Own, op # NoOp, NEW s \in Seq(Told), s \in Seq(OwnTold), NEW a \in Verdict(s)
  PROVE  a \in C!Answers /\ C!Truthful(a)
<1>1. CASE a = C!Failed
  BY <1>1, FailedIsTrue
<1>2. CASE a # C!Failed
  <2>1. /\ a \in C!Answers /\ HeaderCheck(s) /\ IsBody(s[3]) /\ s[3][2] # NoOp /\ a.reg = s[3][2]
        /\ \/ a.kind = "confirmed" /\ op.kind = "set"
           \/ a.kind = "value" /\ op.kind # "set" /\ a.val = s[3][3] /\ a.val # NoOp
           \/ a.kind = "short" /\ op.kind # "set"
    BY <1>2, VerdictIs
  <2>2. s[3] \in OwnTold
    BY <2>1 DEF HeaderCheck
  <2>3. s[3][2] = op.reg /\ (op.kind = "get" => s[3][3] \in held) /\ (op.kind # "get" => taken)
    BY <2>1, <2>2, OwnBodies
  <2>. QED BY <2>1, <2>3, OpIs DEF C!Truthful
<1>. QED BY <1>1, <1>2

\* A step of the connector or the line: an end, a drop, or nothing a caller could see.
LEMMA ConnectorIsTrue ==
  ASSUME Types, Own, Connector \/ Lose \/ Noise
  PROVE  [C!TrueNext]_(C!vars)
<1>1. op = NoOp => UNCHANGED <<dev, op, held, taken, answer>>
  BY DEF Types, Connector, SendStart, Started, SendRequest, Establish, SendEscape, Receive,
         Timeout, Lose, Noise
<1>2. CASE UNCHANGED <<dev, op, held, taken, answer>>
  BY <1>2 DEF C!vars, PendingSet
<1>3. ASSUME NEW a \in C!Answers, op # NoOp, End(a), C!Truthful(a),
             dev' = dev \/ dev' = Idled(dev)
      PROVE  C!TrueNext
  BY <1>3, EndIsTrue DEF C!TrueNext
<1>4. CASE op # NoOp /\ UNCHANGED <<op, held, taken, answer>> /\ dev' = Idled(dev)
  <2>1. PendingSet' = NoOp /\ dev'.store = dev.store
    BY <1>4, IdledTypes DEF PendingSet
  <2>. QED BY <1>4, <2>1 DEF C!TrueNext, C!Drop, C!vars
<1>5. CASE op # NoOp /\ (Started \/ Establish)
  BY <1>2, <1>3, <1>5, FailedIsTrue DEF Started, Establish
<1>6. CASE op # NoOp /\ Receive
  <2>. DEFINE got == Append(buf, Head(queue))
  <2>1. got \in Seq(Told) /\ got \in Seq(OwnTold)
    BY <1>6, SeqSteps DEF Receive, Types, Own
  <2>2. \A a \in Verdict(got) : a \in C!Answers /\ C!Truthful(a)
    <3>. HIDE DEF got
    <3>. QED BY <1>6, <2>1, VerdictIsTrue
  <2>3. dev' = dev
    BY <1>6 DEF Receive
  <2>4. \/ End(C!Failed)
        \/ \E a \in Verdict(got) : End(a)
        \/ UNCHANGED <<dev, op, held, taken, answer>>
    BY <1>6 DEF Receive
  <2>. QED BY <1>2, <1>3, <1>6, <2>2, <2>3, <2>4, FailedIsTrue
<1>7. CASE op # NoOp /\ Timeout
  <2>1. dev' = dev \/ dev' = Idled(dev)
    BY <1>7 DEF Timeout
  <2>2. \A a \in Verdict(buf) : a \in C!Answers /\ C!Truthful(a)
    BY <1>7, VerdictIsTrue DEF Types, Own
  <2>3. \/ End(C!Failed)
        \/ \E a \in Verdict(buf) : End(a)
        \/ UNCHANGED <<op, held, taken, answer>>
    BY <1>7 DEF Timeout
  <2>. QED BY <1>2, <1>3, <1>4, <1>7, <2>1, <2>2, <2>3, FailedIsTrue
<1>8. CASE SendStart \/ SendRequest \/ SendEscape \/ Lose \/ Noise
  BY <1>2, <1>8 DEF SendStart, SendRequest, SendEscape, Send, Lose, Noise
<1>. QED BY <1>1, <1>2, <1>5, <1>6, <1>7, <1>8 DEF Connector

\* A step of the device: it holds the SET, takes it, or does nothing a caller could see.
LEMMA DeviceIsTrue ==
  ASSUME Types, Own, Device
  PROVE  [C!TrueNext]_(C!vars)
<1>1. tx # <<>> /\ op' = op /\ answer' = answer
  BY DEF Device, DeviceIgnores, DeviceStarts, DeviceCollects, DeviceAnswers
<1>2. op # NoOp
  BY <1>1 DEF Types
<1>3. /\ dev.store[op.reg] \in held
      /\ tx \in Seq(OwnAsked) /\ dev.buffer \in Seq(OwnAsked) /\ dev.pending \in Seq(OwnAsked)
  BY <1>2 DEF Own
<1>4. dev \in Devices
  BY DEF Types
<1>5. CASE DeviceIgnores
  BY <1>1, <1>5 DEF DeviceIgnores, C!vars, PendingSet
<1>6. CASE DeviceStarts
  <2>1. dev.state = "IDLE" /\ dev'.state = "COLLECTING" /\ dev'.store = dev.store
        /\ UNCHANGED <<held, taken>>
    BY <1>4, <1>6 DEF DeviceStarts, Devices
  <2>. QED BY <1>1, <2>1 DEF C!vars, PendingSet
<1>7. CASE DeviceCollects
  <2>. DEFINE got == Append(dev.buffer, Head(tx))
  <2>1. dev.state = "COLLECTING" /\ UNCHANGED <<held, taken>> /\ dev'.store = dev.store
    BY <1>7, CollectsTypes DEF DeviceCollects
  <2>2. PendingSet = NoOp
    BY <2>1 DEF PendingSet
  <2>3. got \in Seq(Asked) /\ got \in Seq(OwnAsked)
    <3>1. tx \in Seq(Asked) /\ dev.buffer \in Seq(Asked)
      BY DeviceFields DEF Types
    <3>. QED BY <1>1, <1>3, <3>1, SeqSteps
  <2>4. \/ dev'.state = "AWAIT_ACK" /\ dev'.pending = got
        \/ dev'.state = "COLLECTING"
    BY <1>4, <1>7, <2>1 DEF DeviceCollects, Devices
  <2>. HIDE DEF got
  <2>5. PendingSet' \in {op, NoOp} /\ (PendingSet' = op => op \in C!Sets)
    <3>1. CASE dev'.state = "AWAIT_ACK" /\ dev'.pending = got /\ Sets(got)
      <4>1. PendingSet' = [kind |-> "set", reg |-> got[3][2], val |-> got[3][3]]
        BY <3>1 DEF PendingSet, Sets
      <4>. QED BY <1>2, <2>3, <3>1, <4>1, PendingIsOwn
    <3>2. CASE ~(dev'.state = "AWAIT_ACK" /\ dev'.pending = got /\ Sets(got))
      <4>1. PendingSet' = NoOp
        BY <2>4, <3>2 DEF PendingSet, Sets
      <4>. QED BY <1>2, <4>1
    <3>. QED BY <3>1, <3>2
  <2>. QED BY <1>1, <2>1, <2>2, <2>5 DEF C!TrueNext, C!Hold, C!vars
<1>8. CASE DeviceAnswers
  <2>. DEFINE s == dev.pending
  <2>1. /\ dev.state = "AWAIT_ACK"
        /\ dev'.store = Stored(s) /\ dev'.state = "IDLE"
        /\ held' = held \cup {Stored(s)[op.reg]}
        /\ taken' = (taken \/ (Sets(s) /\ op.kind = "set" /\ s[3] = Body(op.reg, op.val)))
    BY <1>8, AnswersTypes DEF DeviceAnswers, Stored, Sets
  <2>2. PendingSet' = NoOp
    BY <2>1 DEF PendingSet
  <2>3. CASE Sets(s)
    <3>1. /\ [kind |-> "set", reg |-> s[3][2], val |-> s[3][3]] = op /\ op \in C!Sets
          /\ s[3] = Body(op.reg, op.val) /\ s[3][2] = op.reg /\ s[3][3] = op.val
      BY <1>2, <1>3, <2>3, DeviceFields, PendingIsOwn
    <3>2. PendingSet = op
      BY <2>1, <2>3, <3>1, PendingIs
    <3>3. Stored(s) = [dev.store EXCEPT ![op.reg] = op.val]
      BY <2>3, <3>1 DEF Stored
    <3>4. taken' = TRUE /\ op.kind = "set"
      BY <2>1, <2>3, <3>1 DEF C!Sets
    <3>5. taken' = (taken \/ PendingSet = op)
      BY <3>2, <3>4
    <3>6. C!Take
      BY <1>1, <1>2, <2>1, <2>2, <3>2, <3>3, <3>5 DEF C!Take
    <3>. QED BY <3>6 DEF C!TrueNext
  <2>4. CASE ~Sets(s)
    <3>1. PendingSet = NoOp /\ Stored(s) = dev.store
      BY <2>4, PendingIs DEF Stored
    <3>2. held' = held
      BY <1>3, <2>1, <3>1
    <3>3. taken' = taken
      BY <2>1, <2>4 DEF Types
    <3>. QED BY <1>1, <2>1, <2>2, <3>1, <3>2, <3>3 DEF C!vars
  <2>. QED BY <2>3, <2>4
<1>. QED BY <1>5, <1>6, <1>7, <1>8 DEF Device

\* Every step is one of the promise.
LEMMA StepIsTrue ==
  Types /\ Own /\ [Next]_vars => [C!TrueNext]_(C!vars)
<1>. SUFFICES ASSUME Types, Own, [Next]_vars PROVE [C!TrueNext]_(C!vars)
  OBVIOUS
<1>1. CASE UNCHANGED vars
  BY <1>1 DEF vars, C!vars, PendingSet
<1>2. ASSUME NEW o \in Ops, Begin(o) PROVE C!TrueNext
  <2>1. op = NoOp /\ taken = FALSE /\ o \in C!Gets \cup C!Sets
    BY <1>2, OpsAssumption DEF Begin, Types
  <2>2. dev' = dev /\ PendingSet' = PendingSet
    BY <1>2 DEF Begin, PendingSet
  <2>3. C!Begin(o)
    BY <1>2, <2>1, <2>2 DEF Begin, C!Begin
  <2>. QED BY <2>1, <2>3 DEF C!TrueNext, C!Start
<1>3. CASE Connector \/ Lose \/ Noise
  BY <1>3, ConnectorIsTrue
<1>4. CASE Device
  BY <1>4, DeviceIsTrue
<1>. QED BY <1>1, <1>2, <1>3, <1>4 DEF Next

\* Nothing is pending at first.
LEMMA InitIsTrue == Init => Own /\ C!Init
<1>. SUFFICES ASSUME Init PROVE Own /\ C!Init
  OBVIOUS
<1>1. dev.state = "IDLE" /\ dev.store \in [Registers -> Values]
  BY DEF Init
<1>. QED BY <1>1 DEF Init, Own, C!Init, PendingSet

\* A step while no conversation goes on does nothing that a caller could see, but begin one.
LEMMA IdleStepIsTrue ==
  ASSUME Types, op = NoOp, [Next]_vars PROVE [C!TrueNext]_(C!vars)
BY StepIsTrue DEF Own

\* A conversation that begins when nothing of an earlier one is on its way is answered
\* truthfully, whatever the line lost, delayed or added before and whatever it does while
\* the conversation goes on, and however often (get_data, set_data): a read ends with a
\* value that its own register had while it went on, a write is confirmed only if the
\* device took that very SET, and the device takes no other. Nothing is asked of the
\* conversations before it.
THEOREM QuietConversation ==
  Spec /\ Marks => [][op = NoOp \/ quiet => [C!TrueNext]_(C!vars)]_vars
<1>. DEFINE I == quiet => Own
            M == quiet' = IF op = NoOp /\ op' # NoOp THEN Quiet ELSE quiet
<1>1. Types /\ I /\ [Next]_vars /\ [M]_<<vars, quiet>> => I'
  <2>. SUFFICES ASSUME Types, I, [Next]_vars, [M]_<<vars, quiet>>, quiet' PROVE Own'
    OBVIOUS
  <2>1. CASE M /\ op = NoOp
    <3>1. Own /\ (op' # NoOp => Quiet)
      BY <2>1 DEF Own
    <3>. QED BY <3>1, StepOwn
  <2>2. CASE M /\ op # NoOp
    <3>1. Own
      BY <2>2
    <3>. QED BY <2>2, <3>1, StepOwn
  <2>3. CASE UNCHANGED <<vars, quiet>>
    <3>1. Own /\ op' = op
      BY <2>3 DEF vars
    <3>. QED BY <3>1, StepOwn
  <2>. QED BY <2>1, <2>2, <2>3
<1>2. Types /\ I /\ [Next]_vars => [op = NoOp \/ quiet => [C!TrueNext]_(C!vars)]_vars
  BY StepIsTrue, IdleStepIsTrue
<1>3. quiet = FALSE => I
  OBVIOUS
<1>. QED BY <1>1, <1>2, <1>3, AlwaysTypes, PTL DEF Spec, Marks

-----------------------------------------------------------------------------
(* Whatever is left over on the line *)

\* What the registers have held so far; another history variable.
VARIABLE past
Holds == {<<r, dev.store[r]>> : r \in Registers}
Collects == past = Holds /\ [][past' = past \cup Holds']_<<vars, past>>

\* What may be heard: a body with a value tells of one that its register has held.
OnceTrue == {b \in Told : IsBody(b) /\ b[3] # NoOp => <<b[2], b[3]>> \in past}
Remembered(a) == a.kind = "value" => <<a.reg, a.val>> \in past
Heard ==
  /\ Holds \subseteq past
  /\ queue \in Seq(OnceTrue) /\ buf \in Seq(OnceTrue)
  /\ Remembered(answer)

\* What verify_header lets through is remembered, since all that is heard is.
LEMMA VerdictIsRemembered ==
  ASSUME Types, NEW s \in Seq(OnceTrue), NEW a \in Verdict(s)
  PROVE  Remembered(a)
<1>1. OnceTrue \subseteq Told
  BY DEF OnceTrue
<1>2. s \in Seq(Told)
  BY <1>1, SeqMonotone
<1>. SUFFICES ASSUME a.kind = "value" PROVE <<a.reg, a.val>> \in past
  BY DEF Remembered
<1>3. C!Failed.kind = "failed"
  BY DEF C!Failed
<1>4. HeaderCheck(s) /\ IsBody(s[3]) /\ a.reg = s[3][2] /\ a.val = s[3][3] /\ a.val # NoOp
  BY <1>2, <1>3, VerdictIs
<1>5. s[3] \in OnceTrue
  BY <1>4 DEF HeaderCheck
<1>. QED BY <1>4, <1>5 DEF OnceTrue

\* The device tells what it holds.
LEMMA ReplyIsHeard ==
  ASSUME Types, DeviceAnswers, past' = past \cup Holds'
  PROVE  Reply(dev.pending) \in Seq(OnceTrue')
<1>. DEFINE s == dev.pending
<1>1. dev'.store = Stored(s) /\ Stored(s) \in [Registers -> Values]
  BY AnswersTypes
<1>2. \A r \in Registers : <<r, Stored(s)[r]>> \in past'
  BY <1>1 DEF Holds
<1>3. {SOH, GET, SET, ERR, ESC, ETX, STX} \subseteq Told
  BY DEF Asked, Told, Signs
<1>4. {SOH, GET, SET, ERR, ESC, ETX, STX} \subseteq OnceTrue'
  <2>1. \A b \in {SOH, GET, SET, ERR, ESC, ETX, STX} : ~IsBody(b)
    BY Symbols DEF Signs
  <2>. QED BY <1>3, <2>1 DEF OnceTrue
<1>5. Body(NoOp, NoOp) \in OnceTrue' /\ \A r \in Registers : Body(r, NoOp) \in OnceTrue'
  BY Symbols DEF OnceTrue, Told, Asked
<1>6. \A r \in Registers : Body(r, Stored(s)[r]) \in OnceTrue'
  <2>. TAKE r \in Registers
  <2>1. Stored(s)[r] \in Values
    BY <1>1
  <2>2. Body(r, Stored(s)[r]) \in Told
    BY <2>1 DEF Told, Asked
  <2>. QED BY <1>2, <2>2, Symbols DEF OnceTrue
<1>7. IntactRequest(s) => s[3][2] \in Registers
  BY DeviceFields, IntactIs
<1>. HIDE DEF s, OnceTrue
<1>8. CASE ~IntactRequest(s)
  BY <1>4, <1>5, <1>8 DEF Reply, Frame, s
<1>9. CASE IntactRequest(s)
  BY <1>4, <1>5, <1>6, <1>7, <1>9 DEF Reply, Frame, s, Sets
<1>. QED BY <1>8, <1>9 DEF s

\* Every step keeps Heard.
LEMMA StepHeard ==
  ASSUME Types, Heard, [Next]_vars, past' = past \cup Holds'
  PROVE  Heard'
<1>. DEFINE got == Append(buf, Head(queue))
<1>1. OnceTrue \subseteq OnceTrue' /\ Holds' \subseteq past'
  BY DEF OnceTrue
<1>2. queue \in Seq(OnceTrue') /\ buf \in Seq(OnceTrue') /\ <<>> \in Seq(OnceTrue')
  BY <1>1, SeqMonotone, SeqSteps DEF Heard
<1>3. ASSUME NEW a, Remembered(a) PROVE Remembered(a)'
  BY <1>3 DEF Remembered
<1>4. Remembered(answer) /\ Remembered(C!Failed)
  BY DEF Heard, Remembered, C!Failed
<1>5. NUL \in OnceTrue' /\ ESC \in OnceTrue' /\ STX \in OnceTrue'
  BY Symbols DEF OnceTrue, Told, Asked, Signs
<1>6. CASE UNCHANGED vars \/ \E o \in Ops : Begin(o)
  <2>1. queue' = queue /\ buf' = buf /\ answer' \in {answer, C!Failed}
    BY <1>6 DEF vars, Begin
  <2>. QED BY <1>1, <1>2, <1>4, <2>1 DEF Heard, Remembered
<1>7. CASE Connector \/ Lose \/ Noise
  <2>1. \/ queue' = queue
        \/ queue # <<>> /\ queue' = Tail(queue)
        \/ queue' = Append(queue, NUL)
    BY <1>7 DEF Connector, SendStart, Started, SendRequest, Establish, SendEscape, Receive, Timeout,
           Lose, Noise, Send
  <2>2. \/ buf' = buf
        \/ buf' = <<>>
        \/ queue # <<>> /\ buf' = got
    BY <1>7 DEF Connector, SendStart, Started, SendRequest, Establish, SendEscape, Receive, Timeout,
           Lose, Noise, Send, End
  <2>3. \/ answer' \in {answer, C!Failed}
        \/ queue # <<>> /\ answer' \in Verdict(got)
        \/ answer' \in Verdict(buf)
    BY <1>7 DEF Connector, SendStart, Started, SendRequest, Establish, SendEscape, Receive, Timeout,
           Lose, Noise, Send, End
  <2>4. queue # <<>> => Tail(queue) \in Seq(OnceTrue') /\ got \in Seq(OnceTrue') /\ got \in Seq(OnceTrue)
    <3>1. queue # <<>> => Tail(queue) \in Seq(OnceTrue') /\ Head(queue) \in OnceTrue' /\ Head(queue) \in OnceTrue
      BY <1>2, SeqSteps DEF Heard
    <3>. QED BY <1>2, <3>1, SeqSteps DEF Heard
  <2>5. Append(queue, NUL) \in Seq(OnceTrue')
    BY <1>2, <1>5, SeqSteps
  <2>6. queue' \in Seq(OnceTrue') /\ buf' \in Seq(OnceTrue')
    BY <1>2, <2>1, <2>2, <2>4, <2>5
  <2>7. \A a \in {answer, C!Failed} \cup Verdict(buf) : Remembered(a)
    BY <1>4, VerdictIsRemembered DEF Heard
  <2>8. queue # <<>> => \A a \in Verdict(got) : Remembered(a)
    <3>. HIDE DEF got
    <3>. QED BY <2>4, VerdictIsRemembered
  <2>. HIDE DEF got
  <2>9. Remembered(answer') /\ past \subseteq past'
    BY <2>3, <2>7, <2>8
  <2>10. Remembered(answer)'
    BY <2>9 DEF Remembered
  <2>. QED BY <1>1, <2>6, <2>10 DEF Heard
<1>8. CASE Device
  <2>1. buf' = buf /\ answer' = answer
    BY <1>8 DEF Device
  <2>2. queue' \in Seq(OnceTrue')
    <3>1. CASE DeviceAnswers
      <4>1. queue' = queue \o Reply(dev.pending)
        BY <3>1, AnswersTypes
      <4>2. Reply(dev.pending) \in Seq(OnceTrue')
        BY <3>1, ReplyIsHeard
      <4>. QED BY <1>2, <4>1, <4>2, SeqSteps
    <3>2. CASE DeviceIgnores \/ DeviceStarts \/ DeviceCollects
      <4>1. queue' \in {queue, Append(queue, ESC), queue \o <<ESC, STX>>}
        BY <3>2 DEF DeviceIgnores, DeviceStarts, DeviceCollects
      <4>2. Append(queue, ESC) \in Seq(OnceTrue') /\ queue \o <<ESC, STX>> \in Seq(OnceTrue')
        BY <1>2, <1>5, SeqSteps
      <4>. QED BY <1>2, <4>1, <4>2
    <3>. QED BY <1>8, <3>1, <3>2 DEF Device
  <2>. QED BY <1>1, <1>2, <1>4, <2>1, <2>2 DEF Heard, Remembered
<1>. QED BY <1>6, <1>7, <1>8 DEF Next

\* However stale the queue is, whatever the line loses, delays or adds, and however often:
\* a conversation never ends with a value that the register it names has not held at some
\* time; what an earlier conversation left behind is old at worst (get_data, _receive_data,
\* verify_header).
THEOREM NeverInvented == Spec /\ Collects => [](answer.kind = "value" => <<answer.reg, answer.val>> \in past)
<1>1. Init /\ past = Holds => Heard
  <2>. SUFFICES ASSUME Init, past = Holds PROVE Heard
    OBVIOUS
  <2>1. answer.kind = "failed" /\ queue = <<>> /\ buf = <<>>
    BY DEF Init, C!Failed
  <2>. QED BY <2>1 DEF Heard, Remembered
<1>2. Types /\ Heard /\ [Next]_vars /\ [past' = past \cup Holds']_<<vars, past>> => Heard'
  <2>. SUFFICES ASSUME Types, Heard, [Next]_vars, [past' = past \cup Holds']_<<vars, past>>
                PROVE  Heard'
    OBVIOUS
  <2>1. CASE past' = past \cup Holds'
    BY <2>1, StepHeard
  <2>2. CASE UNCHANGED <<vars, past>>
    <3>1. Holds' = Holds
      BY <2>2 DEF vars, Holds
    <3>. QED BY <2>2, <3>1, StepHeard DEF Heard
  <2>. QED BY <2>1, <2>2
<1>3. Heard => (answer.kind = "value" => <<answer.reg, answer.val>> \in past)
  BY DEF Heard, Remembered
<1>. QED BY <1>1, <1>2, <1>3, AlwaysTypes, PTL DEF Spec, Collects

-----------------------------------------------------------------------------
(* Until the first fault *)

\* A frame in two parts: one that has been collected and one still to come.
Parts(s, t, f) ==
  /\ Len(s) + Len(t) = Len(f)
  /\ \A i \in 1 .. Len(s) : s[i] = f[i]
  /\ \A j \in 1 .. Len(t) : t[j] = f[Len(s) + j]

\* Nothing has been collected yet.
LEMMA PartsBegin ==
  ASSUME NEW S, NEW f \in Seq(S)
  PROVE  Parts(<<>>, f, f)
BY DEF Parts

\* One more symbol is collected; the frame is whole with its fifth.
LEMMA PartsStep ==
  ASSUME NEW S, NEW s \in Seq(S), NEW t \in Seq(S), NEW f, Len(f) = 5, Parts(s, t, f), t # <<>>
  PROVE  /\ Parts(Append(s, Head(t)), Tail(t), f)
         /\ Len(s) \in 0 .. 4
         /\ Len(Append(s, Head(t))) = Len(s) + 1
         /\ Tail(t) = <<>> <=> Len(Append(s, Head(t))) = 5
<1>1. Len(s) \in Nat /\ Len(t) \in Nat \ {0} /\ Head(t) = t[1] /\ Len(s) + Len(t) = 5
  BY EmptySeq DEF Parts
<1>2. /\ Len(Append(s, Head(t))) = Len(s) + 1 /\ Len(Tail(t)) = Len(t) - 1
      /\ \A i \in 1 .. Len(s) : Append(s, Head(t))[i] = s[i]
      /\ Append(s, Head(t))[Len(s) + 1] = Head(t)
      /\ \A j \in 1 .. Len(t) - 1 : Tail(t)[j] = t[j + 1]
  BY <1>1
<1>3. t[1] = f[Len(s) + 1]
  BY <1>1 DEF Parts
<1>4. \A i \in 1 .. Len(s) + 1 : Append(s, Head(t))[i] = f[i]
  BY <1>1, <1>2, <1>3 DEF Parts
<1>5. \A j \in 1 .. Len(t) - 1 : Tail(t)[j] = f[Len(s) + 1 + j]
  <2>. TAKE j \in 1 .. Len(t) - 1
  <2>1. Tail(t)[j] = t[j + 1] /\ j + 1 \in 1 .. Len(t)
    BY <1>1, <1>2
  <2>2. t[j + 1] = f[Len(s) + (j + 1)]
    BY <2>1 DEF Parts
  <2>. QED BY <1>1, <2>1, <2>2
<1>6. Tail(t) = <<>> <=> Len(s) = 4
  <2>1. Tail(t) \in Seq(S)
    BY SeqSteps
  <2>2. Tail(t) = <<>> <=> Len(Tail(t)) = 0
    BY <2>1, EmptySeq
  <2>3. \A a, b \in Nat : a + b = 5 => (b - 1 = 0 <=> a = 4)
    OBVIOUS
  <2>4. Len(t) - 1 = 0 <=> Len(s) = 4
    BY <1>1, <2>3
  <2>. QED BY <1>2, <2>2, <2>4
<1>7. Len(Append(s, Head(t))) + Len(Tail(t)) = 5 /\ Len(s) \in 0 .. 4
  <2>1. \A a, b \in Nat : a + b = 5 /\ b # 0 => (a + 1) + (b - 1) = 5 /\ a \in 0 .. 4
    OBVIOUS
  <2>. QED BY <1>1, <1>2, <2>1
<1>8. Parts(Append(s, Head(t)), Tail(t), f)
  BY <1>2, <1>4, <1>5, <1>7, Zenon DEF Parts
<1>9. Len(Append(s, Head(t))) = 5 <=> Len(s) = 4
  <2>1. \A n \in 0 .. 4 : n + 1 = 5 <=> n = 4
    OBVIOUS
  <2>. QED BY <1>2, <1>7, <2>1
<1>. QED BY <1>2, <1>6, <1>7, <1>8, <1>9

\* All has been collected.
LEMMA PartsEnd ==
  ASSUME NEW S, NEW s \in Seq(S), NEW f \in Seq(S), Parts(s, <<>>, f)
  PROVE  s = f
<1>1. Len(s) = Len(f) /\ \A i \in 1 .. Len(s) : s[i] = f[i]
  BY DEF Parts
<1>. QED BY <1>1, SeqEqual

\* A frame, and when its end is reached.
FrameLike(f) ==
  \E k \in {GET, SET} : \E r \in Registers : \E v \in Values \cup {NoOp} : f = Frame(k, r, v)

\* The one ETX of a frame is its last symbol, and its one body the third.
LEMMA FramesAre ==
  ASSUME NEW f, FrameLike(f)
  PROVE  /\ Len(f) = 5 /\ f[1] = SOH /\ f[2] \in {GET, SET} /\ IsBody(f[3]) /\ f[4] = ESC /\ f[5] = ETX
         /\ \A i \in 1 .. 5 : (f[i] = ETX <=> i = 5) /\ (IsBody(f[i]) <=> i = 3)
<1>1. PICK k \in {GET, SET}, r \in Registers, v \in Values \cup {NoOp} :
        f = <<SOH, k, Body(r, v), ESC, ETX>>
  BY DEF FrameLike, Frame
<1>2. ~IsBody(SOH) /\ ~IsBody(k) /\ IsBody(Body(r, v)) /\ ~IsBody(ESC) /\ ~IsBody(ETX)
  BY <1>1, Symbols DEF Signs
<1>3. SOH # ETX /\ k # ETX /\ ESC # ETX
  BY <1>1 DEF SOH, GET, SET, ESC, ETX
<1>. QED BY <1>1, <1>2, <1>3

\* A frame ends exactly where IsFrameEnd says so, and is then longer than both ends of
\* the conversation ask of it (4 bytes in _receive_data, 6 in _feed_byte).
LEMMA WeightOfPart ==
  ASSUME NEW s \in Seq(Told), NEW t \in Seq(Told), NEW f, FrameLike(f), Parts(s, t, f)
  PROVE  /\ IsFrameEnd(s) <=> Len(s) = 5
         /\ Weight(s) \in Len(s) .. Len(s) + 3
         /\ Len(s) = 5 => Weight(s) >= 6
<1>1. /\ Len(s) \in 0 .. 5 /\ DOMAIN s = 1 .. Len(s)
      /\ \A i \in 1 .. Len(s) : s[i] = f[i]
  <2>1. Len(f) = 5
    BY FramesAre
  <2>2. Len(s) \in Nat /\ Len(t) \in Nat /\ DOMAIN s = 1 .. Len(s)
    OBVIOUS
  <2>3. Len(s) + Len(t) = 5 /\ \A i \in 1 .. Len(s) : s[i] = f[i]
    BY <2>1 DEF Parts
  <2>4. Len(s) \in 0 .. 5
    BY <2>2, <2>3
  <2>. QED BY <2>2, <2>3, <2>4
<1>2. IsFrameEnd(s) <=> Len(s) = 5
  BY <1>1, FramesAre DEF IsFrameEnd
<1>. DEFINE A == Bodies(s)
            B == {i \in A : s[i][3] # NoOp}
<1>3. A \subseteq {3} /\ B \subseteq {3} /\ (Len(s) = 5 => A = {3})
  BY <1>1, FramesAre DEF Bodies
<1>4. Cardinality({}) = 0 /\ Cardinality({3}) = 1
  BY FS_EmptySet, FS_Singleton
<1>5. /\ Cardinality(A) \in {0, 1} /\ Cardinality(B) \in {0, 1}
      /\ Len(s) = 5 => Cardinality(A) = 1
  <2>. HIDE DEF A, B
  <2>1. (A = {} \/ A = {3}) /\ (B = {} \/ B = {3})
    BY <1>3
  <2>. QED BY <1>3, <1>4, <2>1
<1>6. Weight(s) = Len(s) + Cardinality(A) + 2 * Cardinality(B)
  BY DEF Weight
<1>. HIDE DEF A, B
<1>7. Weight(s) \in Len(s) .. Len(s) + 3 /\ (Len(s) = 5 => Weight(s) >= 6)
  <2>1. \A n \in 0 .. 5 : \A a, b \in {0, 1} :
          /\ n + a + 2 * b \in n .. n + 3
          /\ n = 5 /\ a = 1 => n + a + 2 * b >= 6
    OBVIOUS
  <2>. QED BY <1>1, <1>5, <1>6, <2>1
<1>. QED BY <1>2, <1>7

\* The frames that may answer a conversation.
Replies == IF op.kind = "get" THEN {Frame(GET, op.reg, v) : v \in Values}
           ELSE {Frame(SET, op.reg, NoOp)}

\* While the line has had no fault, the gateway and the device go hand in hand.
Waiting == dev.state = "AWAIT_ACK" /\ dev.pending = RequestMessage(op)
Lockstep ==
  /\ request = 0
  /\ cpc \notin {"sendEscape", "receive"} => head[2] # STX
  /\ CASE cpc \in {"idle", "sendStart"} -> queue = <<>> /\ dev.state = "IDLE"
       [] cpc = "start" ->
            \/ tx = <<STX>> /\ queue = <<>> /\ dev.state = "IDLE"
            \/ tx = <<>> /\ queue = <<ESC>> /\ dev.state = "COLLECTING" /\ dev.buffer = <<>>
       [] cpc = "sendRequest" -> queue = <<>> /\ dev.state = "COLLECTING" /\ dev.buffer = <<>>
       [] cpc = "establish" ->
            \/ /\ queue = <<>> /\ num = 0 /\ dev.state = "COLLECTING" /\ tx # <<>>
               /\ Parts(dev.buffer, tx, RequestMessage(op))
            \/ tx = <<>> /\ queue = <<ESC, STX>> /\ num = 0 /\ Waiting
            \/ tx = <<>> /\ queue = <<STX>> /\ num = 1 /\ head[1] = ESC /\ Waiting
       [] cpc = "sendEscape" -> queue = <<>> /\ Waiting
       [] cpc = "receive" ->
            \/ tx = <<ESC>> /\ queue = <<>> /\ buf = <<>> /\ Waiting
            \/ /\ tx = <<>> /\ queue # <<>> /\ dev.state = "IDLE"
               /\ \E f \in Replies : Parts(buf, queue, f)

Clean == faults = 0 => Own /\ Lockstep

\* A request is a frame, and intact.
LEMMA RequestFrame ==
  ASSUME Types, op # NoOp
  PROVE  FrameLike(RequestMessage(op)) /\ RequestMessage(op) \in Seq(Told)
         /\ IntactRequest(RequestMessage(op))
<1>1. op.reg \in Registers /\ op.val \in Values \cup {NoOp} /\ (op.kind = "set" <=> op.val # NoOp)
  BY OpIs, HandshakeAssumption
<1>. DEFINE k == IF op.kind = "get" THEN GET ELSE SET
            f == Frame(k, op.reg, op.val)
<1>2. RequestMessage(op) = f /\ k \in {GET, SET} /\ (k = SET <=> op.kind # "get")
  BY DEF RequestMessage, GET, SET
<1>3. FrameLike(f)
  BY <1>1, <1>2 DEF FrameLike
<1>4. f \in Seq(Told)
  BY <1>1, <1>2, AnswerIs
<1>5. f[3] = Body(op.reg, op.val) /\ f[2] = k
  BY DEF Frame
<1>6. f[3][3] = op.val
  BY <1>5, Symbols
<1>7. op.kind \in {"get", "set"}
  BY OpIs
<1>. HIDE DEF f, k
<1>8. IntactRequest(f)
  BY <1>1, <1>2, <1>3, <1>5, <1>6, <1>7, FramesAre DEF IntactRequest
<1>. QED BY <1>2, <1>3, <1>4, <1>8

\* A reply is a frame, and its verdict is never that the conversation failed.
LEMMA ReplyFrames ==
  ASSUME Types, op # NoOp, NEW f \in Replies
  PROVE  FrameLike(f) /\ f \in Seq(Told) /\ \A a \in Verdict(f) : a # C!Failed
<1>1. op.reg \in Registers /\ op.kind \in {"get", "set"}
  BY OpIs
<1>2. PICK k \in {GET, SET}, v \in Values \cup {NoOp} :
        /\ f = Frame(k, op.reg, v)
        /\ k = GET <=> op.kind = "get"
        /\ k = GET <=> v # NoOp
  <2>1. GET # SET
    BY DEF GET, SET
  <2>2. CASE op.kind = "get"
    <3>1. PICK v \in Values : f = Frame(GET, op.reg, v)
      BY <2>2 DEF Replies
    <3>2. v # NoOp
      BY HandshakeAssumption
    <3>. QED BY <2>2, <3>1, <3>2
  <2>3. CASE op.kind # "get"
    BY <2>1, <2>3 DEF Replies
  <2>. QED BY <2>2, <2>3
<1>3. FrameLike(f) /\ f \in Seq(Told)
  BY <1>1, <1>2, AnswerIs DEF FrameLike
<1>4. f = <<SOH, k, Body(op.reg, v), ESC, ETX>>
  BY <1>2 DEF Frame
<1>5. f[3][2] = op.reg /\ f[3][3] = v /\ IsBody(f[3])
  BY <1>4, Symbols
<1>6. Len(f) = 5 /\ f[4] = ESC /\ f[5] = ETX /\ f[1] = SOH /\ f[2] = k
  BY <1>4
<1>7. HeaderCheck(f)
  BY <1>1, <1>2, <1>5, <1>6, HandshakeAssumption DEF HeaderCheck
<1>8. Len(f) # 3 /\ Len(f) # 4 /\ ~IsBody(f[4]) /\ ~IsBody(f[5])
  BY <1>3, <1>6, FramesAre
<1>9. Verdict(f) = IF op.kind = "set" THEN {[kind |-> "confirmed", reg |-> op.reg, val |-> NoOp]}
                   ELSE {[kind |-> "value", reg |-> op.reg, val |-> v]}
  BY <1>1, <1>2, <1>5, <1>6, <1>7, <1>8 DEF Verdict
<1>10. \A a \in Verdict(f) : a.kind # "failed"
  BY <1>9
<1>11. C!Failed.kind = "failed"
  BY DEF C!Failed
<1>. QED BY <1>3, <1>10, <1>11

\* Hand in hand, step by step; a conversation begins on a quiet line.
LEMMA LockBegin ==
  ASSUME Types, Lockstep, NEW o \in Ops, Begin(o)
  PROVE  Lockstep' /\ Quiet
BY DEF Types, Lockstep, Begin, Quiet

\* The three writes find the device where it waits for them.
LEMMA LockSend ==
  ASSUME Types, Lockstep, SendStart \/ SendRequest \/ SendEscape
  PROVE  Lockstep'
<1>1. CASE SendStart
  BY <1>1 DEF Types, Lockstep, SendStart, Send
<1>2. CASE SendRequest
  <2>. DEFINE f == RequestMessage(op)
  <2>1. op # NoOp /\ cpc = "sendRequest"
    BY <1>2 DEF SendRequest, Types
  <2>2. f \in Seq(Told) /\ Len(f) = 5
    BY <2>1, RequestFrame, FramesAre
  <2>3. f # <<>>
    BY <2>2
  <2>. HIDE DEF f
  <2>4. Parts(<<>>, f, f)
    BY <2>2, PartsBegin
  <2>5. /\ cpc' = "establish" /\ tx' = f /\ num' = 0
        /\ UNCHANGED <<op, request, dev, queue, head>>
    BY <1>2 DEF SendRequest, Send, f
  <2>6. RequestMessage(op)' = f
    BY <2>5 DEF f, RequestMessage, Frame
  <2>7. request = 0 /\ queue = <<>> /\ dev.state = "COLLECTING" /\ dev.buffer = <<>>
        /\ head[2] # STX
    BY <2>1 DEF Lockstep
  <2>. QED BY <2>3, <2>4, <2>5, <2>6, <2>7 DEF Lockstep
<1>3. CASE SendEscape
  <2>1. Waiting' = Waiting /\ cpc = "sendEscape" /\ buf = <<>>
    BY <1>3 DEF SendEscape, Send, Waiting, RequestMessage, Frame, Types
  <2>. QED BY <1>3, <2>1 DEF Lockstep, SendEscape, Send
<1>. QED BY <1>1, <1>2, <1>3

\* The START is answered at once.
LEMMA LockStarted ==
  ASSUME Types, Lockstep, Started
  PROVE  Lockstep' /\ op' # NoOp
<1>1. cpc = "start" /\ op # NoOp /\ tx = <<>> /\ queue # <<>>
  BY DEF Started, Types
<1>2. queue = <<ESC>> /\ dev.state = "COLLECTING" /\ dev.buffer = <<>> /\ request = 0
      /\ head[2] # STX
  BY <1>1 DEF Lockstep
<1>3. Head(queue) = ESC /\ Tail(queue) = <<>>
  BY <1>2
<1>4. request < MAX_RETRY
  BY <1>2, HandshakeAssumption
<1>5. /\ cpc' = "sendRequest" /\ queue' = <<>>
      /\ UNCHANGED <<op, request, dev, head>>
  BY <1>3, <1>4, HandshakeAssumption DEF Started, StartAccepted, Types
<1>. QED BY <1>1, <1>2, <1>5 DEF Lockstep

\* DATA_AVAILABLE fills an empty buffer: head was not yet ESC STX before.
LEMMA LockEstablish ==
  ASSUME Types, Lockstep, Establish, INPUT_BUFFER_LENGTH >= 8
  PROVE  Lockstep' /\ op' # NoOp
<1>1. cpc = "establish" /\ op # NoOp /\ tx = <<>> /\ queue # <<>> /\ queue' = Tail(queue)
      /\ tx' = tx /\ dev' = dev
  BY DEF Establish, Types
<1>2. request = 0 /\ Waiting /\ head[2] # STX
      /\ \/ queue = <<ESC, STX>> /\ num = 0
         \/ queue = <<STX>> /\ num = 1 /\ head[1] = ESC
  BY <1>1 DEF Lockstep
<1>3. num < INPUT_BUFFER_LENGTH /\ ~(num >= INPUT_BUFFER_LENGTH)
  BY <1>2, HandshakeAssumption
<1>. DEFINE b == Head(queue)
<1>4. ~IsBody(b)
  <2>1. b = ESC \/ b = STX
    BY <1>2
  <2>. QED BY <2>1, Symbols DEF Signs
<1>. HIDE DEF b
<1>5. Weight(<<b>>) = 1
  <2>1. Bodies(<<b>>) = {}
    BY <1>4 DEF Bodies
  <2>2. {i \in Bodies(<<b>>) : <<b>>[i][3] # NoOp} = {}
    BY <2>1
  <2>3. Cardinality({}) = 0
    BY FS_EmptySet
  <2>4. Weight(<<b>>) = Len(<<b>>) + Cardinality(Bodies(<<b>>))
                        + 2 * Cardinality({i \in Bodies(<<b>>) : <<b>>[i][3] # NoOp})
    BY DEF Weight
  <2>5. Weight(<<b>>) = 1 + 0 + 2 * 0
    BY <2>1, <2>2, <2>3, <2>4
  <2>. QED BY <2>5
<1>6. /\ num' = num + 1
      /\ head' = [i \in 1 .. 2 |-> IF i > num /\ i <= num + 1 THEN b ELSE head[i]]
      /\ cpc' = IF head' = <<ESC, STX>> THEN "sendEscape" ELSE "establish"
      /\ UNCHANGED <<op, request, retry, buf, answer, held, taken>>
  <2>1. /\ num' = num + Weight(<<b>>)
        /\ head' = [i \in 1 .. 2 |-> IF i > num /\ i <= num' THEN b ELSE head[i]]
        /\ cpc' = IF head' = <<ESC, STX>> THEN "sendEscape" ELSE "establish"
        /\ UNCHANGED <<op, request, retry, buf, answer, held, taken>>
    BY <1>3 DEF Establish, b
  <2>. QED BY <1>5, <2>1
<1>7. Waiting'
  BY <1>1, <1>2, <1>6 DEF Waiting, RequestMessage, Frame
<1>8. CASE queue = <<ESC, STX>> /\ num = 0
  <2>1. b = ESC /\ queue' = <<STX>> /\ num' = 1
    BY <1>1, <1>6, <1>8 DEF b
  <2>2. head'[1] = ESC /\ head'[2] = head[2]
    BY <1>6, <1>8, <2>1
  <2>3. cpc' = "establish"
    BY <1>2, <1>6, <2>2
  <2>. QED BY <1>1, <1>2, <1>6, <1>7, <2>1, <2>2, <2>3 DEF Lockstep
<1>9. CASE queue = <<STX>> /\ num = 1 /\ head[1] = ESC
  <2>1. b = STX /\ queue' = <<>>
    BY <1>1, <1>9 DEF b
  <2>2. head'[1] = ESC /\ head'[2] = STX
    BY <1>6, <1>9, <2>1
  <2>3. head' = <<ESC, STX>>
    BY <1>6, <2>2
  <2>4. cpc' = "sendEscape"
    BY <1>6, <2>3
  <2>. QED BY <1>1, <1>2, <1>6, <1>7, <2>1, <2>4 DEF Lockstep
<1>. QED BY <1>2, <1>8, <1>9

\* The answer is received to its end, never cut, and makes the conversation succeed.
LEMMA LockReceive ==
  ASSUME Types, Lockstep, Receive, INPUT_BUFFER_LENGTH >= 8
  PROVE  Lockstep' /\ (op' = NoOp => answer' # C!Failed /\ dev.state = "IDLE")
<1>. DEFINE got == Append(buf, Head(queue))
<1>1. cpc = "receive" /\ op # NoOp /\ tx = <<>> /\ queue # <<>> /\ queue' = Tail(queue)
      /\ tx' = tx /\ dev' = dev /\ buf \in Seq(Told) /\ queue \in Seq(Told)
  BY DEF Receive, Types
<1>2. request = 0 /\ dev.state = "IDLE" /\ \E f \in Replies : Parts(buf, queue, f)
  BY <1>1 DEF Lockstep
<1>3. PICK f \in Replies : Parts(buf, queue, f)
  BY <1>2
<1>4. FrameLike(f) /\ f \in Seq(Told) /\ Len(f) = 5
  BY <1>1, ReplyFrames, FramesAre
<1>5. /\ Parts(got, Tail(queue), f) /\ Len(buf) \in 0 .. 4 /\ Len(got) = Len(buf) + 1
      /\ Tail(queue) = <<>> <=> Len(got) = 5
  <2>1. buf \in Seq(Told) /\ queue \in Seq(Told) /\ queue # <<>>
    BY <1>1
  <2>2. Len(f) = 5 /\ Parts(buf, queue, f)
    BY <1>3, <1>4
  <2>. QED BY <2>1, <2>2, PartsStep
<1>6. got \in Seq(Told) /\ Tail(queue) \in Seq(Told)
  BY <1>1, SeqSteps
<1>. HIDE DEF got
<1>7. Weight(buf) \in Len(buf) .. Len(buf) + 3
  BY <1>1, <1>3, <1>4, WeightOfPart
<1>8. Weight(buf) < INPUT_BUFFER_LENGTH /\ ~(Weight(buf) >= INPUT_BUFFER_LENGTH)
  <2>1. \A n \in 0 .. 4 : \A w \in n .. n + 3 : \A l \in Nat : l >= 8 => w < l /\ ~(w >= l)
    OBVIOUS
  <2>. QED BY <1>5, <1>7, <2>1, HandshakeAssumption
<1>9. /\ IsFrameEnd(got) <=> Len(got) = 5
      /\ Len(got) = 5 => Weight(got) >= 6
      /\ Weight(got) \in Len(got) .. Len(got) + 3
  BY <1>4, <1>5, <1>6, WeightOfPart
<1>10. Weight(got) > 4 /\ IsFrameEnd(got) <=> Len(got) = 5
  <2>1. \A n \in 1 .. 5 : \A w \in n .. n + 3 : n = 5 => w > 4
    OBVIOUS
  <2>. QED BY <1>5, <1>9, <2>1
<1>11. CASE Len(got) = 5
  <2>1. Tail(queue) = <<>>
    BY <1>5, <1>11
  <2>2. got = f
    BY <1>4, <1>5, <1>6, <2>1, PartsEnd
  <2>3. PICK a \in Verdict(f) : End(a)
    BY <1>8, <1>10, <1>11, <2>2 DEF Receive, got
  <2>4. a # C!Failed
    BY <1>1, <2>3, ReplyFrames
  <2>5. head'[2] = NUL /\ NUL # STX /\ request' = 0 /\ cpc' = "idle" /\ answer' = a
    BY <2>3 DEF End, NUL, STX
  <2>. QED BY <1>1, <1>2, <2>1, <2>4, <2>5 DEF Lockstep
<1>12. CASE Len(got) # 5
  <2>1. buf' = got /\ UNCHANGED <<cpc, op, request, retry, head, num, answer, held, taken>>
    BY <1>8, <1>10, <1>12 DEF Receive, got
  <2>2. Replies' = Replies
    BY <2>1 DEF Replies
  <2>3. Tail(queue) # <<>>
    BY <1>5, <1>12
  <2>4. \E g \in Replies' : Parts(buf', queue', g)
    BY <1>1, <1>3, <1>5, <2>1, <2>2
  <2>. QED BY <1>1, <1>2, <2>1, <2>3, <2>4 DEF Lockstep
<1>. QED BY <1>11, <1>12

\* No wait is in vain: there is always a byte to be read, unless the line delays it.
LEMMA LockTimeout ==
  ASSUME Types, Lockstep, Timeout
  PROVE  faults' # 0
<1>1. cpc \in {"start", "establish", "receive"} /\ tx = <<>>
  BY DEF Timeout
<1>2. <<STX>> # <<>> /\ <<ESC>> # <<>> /\ <<ESC, STX>> # <<>>
  OBVIOUS
<1>3. queue # <<>>
  <2>1. CASE cpc = "start"
    BY <1>1, <1>2, <2>1 DEF Lockstep
  <2>2. CASE cpc = "establish"
    BY <1>1, <1>2, <2>2 DEF Lockstep
  <2>3. CASE cpc = "receive"
    BY <1>1, <1>2, <2>3 DEF Lockstep
  <2>. QED BY <1>1, <2>1, <2>2, <2>3
<1>4. faults' = faults + 1
  BY <1>3 DEF Timeout
<1>. QED BY <1>4 DEF Types

\* What the line loses or adds is a fault.
LEMMA LockLine ==
  ASSUME Types, Lose \/ Noise
  PROVE  faults' # 0
BY DEF Types, Lose, Noise

\* The device takes a START where one is sent, and ignores nothing.
LEMMA LockStarts ==
  ASSUME Types, Own, Lockstep, Device, DeviceStarts \/ DeviceIgnores
  PROVE  Lockstep'
<1>1. tx # <<>> /\ tx' = Tail(tx) /\ op # NoOp
      /\ UNCHANGED <<cpc, op, request, head, num, buf>>
  BY DEF DeviceStarts, DeviceIgnores, Device, Types
<1>2. CASE DeviceStarts
  <2>1. dev.state = "IDLE"
    BY <1>2 DEF DeviceStarts
  <2>2. cpc = "start" /\ tx = <<STX>> /\ queue = <<>> /\ request = 0 /\ head[2] # STX
    <3>1. cpc \in {"start", "establish", "receive"}
      BY <1>1 DEF Types
    <3>. QED BY <1>1, <2>1, <3>1 DEF Lockstep, Waiting
  <2>3. dev'.state = "COLLECTING" /\ dev'.buffer = <<>> /\ queue' = <<ESC>>
    BY <1>2, <2>2 DEF DeviceStarts, Types, Devices
  <2>4. tx' = <<>>
    BY <1>1, <2>2
  <2>. QED BY <1>1, <2>2, <2>3, <2>4 DEF Lockstep
<1>3. CASE DeviceIgnores
  <2>1. \/ dev.state = "IDLE" /\ Head(tx) # STX
        \/ dev.state = "AWAIT_ACK" /\ Head(tx) # ESC
    BY <1>3 DEF DeviceIgnores, Ignored
  <2>2. cpc \in {"start", "establish", "receive"}
    BY <1>1 DEF Types
  <2>3. CASE cpc = "start"
    <3>1. tx = <<STX>> /\ dev.state = "IDLE"
      BY <1>1, <2>3 DEF Lockstep
    <3>. QED BY <2>1, <3>1
  <2>4. CASE cpc = "establish"
    BY <1>1, <2>1, <2>4 DEF Lockstep
  <2>5. CASE cpc = "receive"
    <3>1. tx = <<ESC>> /\ dev.state = "AWAIT_ACK"
      BY <1>1, <2>5 DEF Lockstep, Waiting
    <3>. QED BY <2>1, <3>1
  <2>. QED BY <2>2, <2>3, <2>4, <2>5
<1>. QED BY <1>2, <1>3

\* The device collects the request to its end and not beyond.
LEMMA LockCollects ==
  ASSUME Types, Own, Lockstep, Device, DeviceCollects
  PROVE  Lockstep'
<1>. DEFINE got == Append(dev.buffer, Head(tx))
            f == RequestMessage(op)
<1>1. /\ tx # <<>> /\ tx' = Tail(tx) /\ op # NoOp /\ dev.state = "COLLECTING"
      /\ UNCHANGED <<cpc, op, request, head, num, buf>>
      /\ tx \in Seq(Told) /\ dev.buffer \in Seq(Told)
  <2>1. tx \in Seq(Asked) /\ dev.buffer \in Seq(Asked)
    BY DeviceFields DEF Types
  <2>2. Asked \subseteq Told
    BY DEF Told
  <2>3. tx \in Seq(Told) /\ dev.buffer \in Seq(Told)
    BY <2>1, <2>2, SeqMonotone
  <2>. QED BY <2>3 DEF DeviceCollects, Device, Types
<1>2. /\ cpc = "establish" /\ queue = <<>> /\ num = 0 /\ request = 0 /\ head[2] # STX
      /\ Parts(dev.buffer, tx, f)
  <2>1. cpc \in {"start", "establish", "receive"}
    BY <1>1 DEF Types
  <2>. QED BY <1>1, <2>1 DEF Lockstep, Waiting
<1>3. FrameLike(f) /\ f \in Seq(Told) /\ Len(f) = 5 /\ f' = f
  <2>1. f' = f
    BY <1>1 DEF RequestMessage, Frame
  <2>. QED BY <1>1, <2>1, RequestFrame, FramesAre
<1>. HIDE DEF f
<1>4. /\ Parts(got, Tail(tx), f) /\ Len(dev.buffer) \in 0 .. 4 /\ Len(got) = Len(dev.buffer) + 1
      /\ Tail(tx) = <<>> <=> Len(got) = 5
  BY <1>1, <1>2, <1>3, PartsStep
<1>5. got \in Seq(Told) /\ Tail(tx) \in Seq(Told)
  BY <1>1, SeqSteps
<1>6. \/ /\ Weight(got) >= 6 /\ IsFrameEnd(got)
         /\ dev' = [dev EXCEPT !.state = "AWAIT_ACK", !.buffer = <<>>, !.pending = got]
         /\ queue' = queue \o <<ESC, STX>>
      \/ /\ ~(Weight(got) >= 6 /\ IsFrameEnd(got))
         /\ dev' = [dev EXCEPT !.buffer = got] /\ queue' = queue
  BY DEF DeviceCollects
<1>. HIDE DEF got
<1>7. Weight(got) >= 6 /\ IsFrameEnd(got) <=> Len(got) = 5
  BY <1>3, <1>4, <1>5, WeightOfPart
<1>8. CASE Len(got) = 5
  <2>1. Tail(tx) = <<>>
    BY <1>4, <1>8
  <2>2. got = f
    BY <1>3, <1>4, <1>5, <2>1, PartsEnd
  <2>3. dev'.state = "AWAIT_ACK" /\ dev'.pending = got
    BY <1>6, <1>7, <1>8 DEF Types, Devices
  <2>4. queue' = <<ESC, STX>>
    <3>1. queue' = <<>> \o <<ESC, STX>>
      BY <1>2, <1>6, <1>7, <1>8
    <3>. QED BY <3>1
  <2>5. Waiting'
    BY <1>3, <2>2, <2>3 DEF Waiting, f
  <2>. QED BY <1>1, <1>2, <2>1, <2>4, <2>5 DEF Lockstep
<1>9. CASE Len(got) # 5
  <2>1. Tail(tx) # <<>>
    BY <1>4, <1>9
  <2>2. dev'.state = "COLLECTING" /\ dev'.buffer = got /\ queue' = <<>>
    BY <1>1, <1>2, <1>6, <1>7, <1>9 DEF Types, Devices
  <2>3. RequestMessage(op)' = f
    BY <1>3 DEF f
  <2>4. Parts(dev'.buffer, tx', RequestMessage(op)')
    BY <1>1, <1>4, <2>2, <2>3
  <2>. QED BY <1>1, <1>2, <2>1, <2>2, <2>4 DEF Lockstep
<1>. QED BY <1>8, <1>9

\* The device answers the request it was sent.
LEMMA LockAnswers ==
  ASSUME Types, Own, Lockstep, Device, DeviceAnswers
  PROVE  Lockstep'
<1>. DEFINE s == dev.pending
            f == Reply(s)
<1>1. /\ tx # <<>> /\ tx' = Tail(tx) /\ op # NoOp /\ dev.state = "AWAIT_ACK"
      /\ UNCHANGED <<cpc, op, request, head, num, buf>>
      /\ dev'.state = "IDLE" /\ queue' = queue \o f
      /\ Stored(s) \in [Registers -> Values]
  BY AnswersTypes DEF DeviceAnswers, Device, Types
<1>2. /\ cpc = "receive" /\ tx = <<ESC>> /\ queue = <<>> /\ buf = <<>> /\ request = 0
      /\ s = RequestMessage(op)
  <2>1. cpc \in {"start", "establish", "receive"}
    BY <1>1 DEF Types
  <2>. QED BY <1>1, <2>1 DEF Lockstep, Waiting
<1>3. IntactRequest(s)
  BY <1>1, <1>2, RequestFrame
<1>4. s[3][2] = op.reg /\ op.reg \in Registers /\ (Sets(s) <=> op.kind # "get")
  <2>1. s[3] = Body(op.reg, op.val) /\ s[2] = (IF op.kind = "get" THEN GET ELSE SET)
    BY <1>2 DEF RequestMessage, Frame
  <2>2. GET # SET
    BY DEF GET, SET
  <2>. QED BY <1>1, <1>3, <2>1, <2>2, Symbols, OpIs DEF Sets
<1>5. f \in Replies
  <2>1. CASE op.kind = "get"
    <3>1. f = Frame(GET, op.reg, Stored(s)[op.reg]) /\ Stored(s)[op.reg] \in Values
      BY <1>1, <1>3, <1>4, <2>1 DEF Reply
    <3>. QED BY <2>1, <3>1 DEF Replies
  <2>2. CASE op.kind # "get"
    BY <1>3, <1>4, <2>2 DEF Reply, Replies
  <2>. QED BY <2>1, <2>2
<1>6. f \in Seq(Told) /\ Len(f) = 5
  BY <1>1, <1>5, ReplyFrames, FramesAre
<1>7. Replies' = Replies
  BY <1>1 DEF Replies
<1>. HIDE DEF f
<1>8. queue' = f /\ f # <<>> /\ tx' = <<>>
  <2>1. queue' = <<>> \o f
    BY <1>1, <1>2
  <2>2. queue' = f
    BY <1>6, <2>1
  <2>3. Len(<<>>) = 0
    OBVIOUS
  <2>4. f # <<>>
    BY <1>6, <2>3
  <2>5. tx' = <<>>
    BY <1>1, <1>2
  <2>. QED BY <2>2, <2>4, <2>5
<1>9. Parts(buf', queue', f)
  BY <1>1, <1>2, <1>6, <1>8, PartsBegin
<1>. QED BY <1>1, <1>2, <1>5, <1>7, <1>8, <1>9 DEF Lockstep

\* The gateway and the device begin in step.
LEMMA InitLock == Init => Lockstep
BY HandshakeAssumption DEF Init, Lockstep, NUL, STX

\* The invariant, and what every step does that leaves the line without a fault.
LEMMA StepClean ==
  ASSUME Types, Clean, [Next]_vars, INPUT_BUFFER_LENGTH >= 8
  PROVE  /\ Clean'
         /\ faults' = 0 =>
              /\ Own
              /\ op # NoOp /\ op' = NoOp => answer' # C!Failed /\ dev.state = "IDLE" /\ dev' = dev
<1>1. faults' = 0 => faults = 0
  BY DEF Types, Next, vars, Begin, Connector, SendStart, Started, SendRequest, Establish,
         SendEscape, Receive, Timeout, Device, Lose, Noise, Send
<1>. SUFFICES ASSUME faults' = 0
     PROVE  /\ Own' /\ Lockstep'
            /\ op # NoOp /\ op' = NoOp => answer' # C!Failed /\ dev.state = "IDLE" /\ dev' = dev
  BY <1>1 DEF Clean
<1>2. Own /\ Lockstep
  BY <1>1 DEF Clean
<1>3. CASE UNCHANGED vars
  BY <1>2, <1>3 DEF vars, Own, OwnAsked, OwnTold, OwnValues, Lockstep, Waiting, Replies,
                    RequestMessage, Frame
<1>4. ASSUME NEW o \in Ops, Begin(o)
      PROVE  Own' /\ Lockstep' /\ op = NoOp
  BY <1>2, <1>4, LockBegin, BeginOwn DEF Begin, Types
<1>5. CASE Connector
  <2>1. Own'
    BY <1>2, <1>5, ConnectorOwn
  <2>2. CASE SendStart \/ SendRequest \/ SendEscape
    BY <1>2, <2>1, <2>2, LockSend DEF SendStart, SendRequest, SendEscape
  <2>3. CASE Started
    BY <1>2, <2>1, <2>3, LockStarted
  <2>4. CASE Establish
    BY <1>2, <2>1, <2>4, LockEstablish
  <2>5. CASE Receive
    BY <1>2, <2>1, <2>5, LockReceive DEF Receive
  <2>6. CASE Timeout
    BY <1>2, <2>6, LockTimeout
  <2>. QED BY <1>5, <2>2, <2>3, <2>4, <2>5, <2>6 DEF Connector
<1>6. CASE Device
  <2>1. Own' /\ op' = op
    <3>1. op' = op /\ buf' = buf /\ tx # <<>>
      BY <1>6 DEF Device, DeviceIgnores, DeviceStarts, DeviceCollects, DeviceAnswers
    <3>2. op # NoOp
      BY <3>1 DEF Types
    <3>. QED BY <1>2, <1>6, <3>1, <3>2, CollectsOwn, AnswersOwn DEF Device
  <2>2. Lockstep'
    BY <1>2, <1>6, LockStarts, LockCollects, LockAnswers DEF Device
  <2>. QED BY <2>1, <2>2
<1>7. CASE Lose \/ Noise
  BY <1>7, LockLine
<1>. QED BY <1>2, <1>3, <1>4, <1>5, <1>6, <1>7 DEF Next

\* A step of the true promise that ends with nothing pending is one of the full promise.
LEMMA CleanStep ==
  ASSUME Types, Own, [Next]_vars,
         op # NoOp /\ op' = NoOp => dev.state = "IDLE" /\ dev' = dev
  PROVE  [C!Next]_(C!vars)
<1>1. [C!TrueNext]_(C!vars)
  BY StepIsTrue
<1>2. ASSUME NEW a \in C!Answers, C!EndTruthfully(a)
      PROVE  C!End(a)
  <2>1. op # NoOp /\ op' = NoOp
    BY <1>2 DEF C!EndTruthfully
  <2>2. PendingSet = NoOp
    BY <2>1 DEF PendingSet
  <2>. QED BY <1>2, <2>2 DEF C!End
<1>. QED BY <1>1, <1>2 DEF C!TrueNext, C!Next

\* So Clean is an invariant; a buffer of 8 bytes holds the longest frame.
LEMMA AlwaysClean == INPUT_BUFFER_LENGTH >= 8 => (Spec => []Clean)
<1>. SUFFICES ASSUME INPUT_BUFFER_LENGTH >= 8 PROVE Spec => []Clean
  OBVIOUS
<1>1. Init => Clean
  BY InitLock, InitIsTrue DEF Clean
<1>2. Types /\ Clean /\ [Next]_vars => Clean'
  BY StepClean
<1>. QED BY <1>1, <1>2, AlwaysTypes, PTL DEF Spec

\* Up to the first fault every step is one that Connector.get_data and set_data promise, and
\* every conversation succeeds, however many there are; a later fault takes nothing of this
\* back. A line without faults is quiet between conversations, so this needs no assumption
\* about how they begin.
THEOREM UntilAFault ==
  INPUT_BUFFER_LENGTH >= 8 =>
    (Spec => [][faults' = 0 =>
                  /\ [C!Next]_(C!vars)
                  /\ op # NoOp /\ op' = NoOp => answer' # C!Failed]_vars)
<1>. SUFFICES ASSUME INPUT_BUFFER_LENGTH >= 8
              PROVE  Spec => [][faults' = 0 =>
                                  /\ [C!Next]_(C!vars)
                                  /\ op # NoOp /\ op' = NoOp => answer' # C!Failed]_vars
  OBVIOUS
<1>1. Types /\ Clean /\ [Next]_vars =>
        [faults' = 0 => /\ [C!Next]_(C!vars)
                        /\ op # NoOp /\ op' = NoOp => answer' # C!Failed]_vars
  BY StepClean, CleanStep
<1>. QED BY <1>1, AlwaysTypes, AlwaysClean, PTL DEF Spec

\* On a line without faults the handshake implements the promise that Gateway is written
\* against, with any registers and values and any number of conversations.
THEOREM PerfectLine == MaxFaults = 0 /\ INPUT_BUFFER_LENGTH >= 8 => (Spec => KeepsPromise)
<1>. SUFFICES ASSUME MaxFaults = 0, INPUT_BUFFER_LENGTH >= 8 PROVE Spec => KeepsPromise
  OBVIOUS
<1>1. Init => C!Init
  BY InitIsTrue
<1>2. Types /\ Types' /\ Clean /\ [Next]_vars => [C!Next]_(C!vars)
  <2>. SUFFICES ASSUME Types, Types', Clean, [Next]_vars PROVE [C!Next]_(C!vars)
    OBVIOUS
  <2>1. faults' = 0
    BY DEF Types
  <2>. QED BY <2>1, StepClean, CleanStep
<1>. QED BY <1>1, <1>2, AlwaysTypes, AlwaysClean, PTL DEF Spec, KeepsPromise, C!Spec
=============================================================================
