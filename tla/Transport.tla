----------------------------- MODULE Transport -----------------------------
(***************************************************************************)
(* SerialTransport of protocol/transport.py: the reader thread, its queue, *)
(* and the port across close and open. One thread at a time calls it (the  *)
(* lock of service.py). Bytes are numbered in the order they are sent.     *)
(***************************************************************************)
EXTENDS Naturals, Sequences, SequencesExt

CONSTANTS
  Readers,   \* names for reader threads
  MaxBytes,  \* bytes that are sent
  MaxErrors, \* reads that raise although the adapter is there
  NoReader,
  NoByte

ASSUME TransportAssumption ==
  /\ Readers # {}
  /\ MaxBytes \in Nat
  /\ MaxErrors \in Nat
  /\ NoReader \notin Readers
  /\ NoByte \notin Nat

VARIABLES
  pc,       \* the caller: out of the transport, or where it is in close
  serial,   \* _serial: is there a port?
  running,  \* _running
  reader,   \* _reader
  loop,     \* where each reader thread is in _read_loop
  hand,     \* the byte it has read and not yet put into the queue
  line,     \* bytes that the driver has
  plugged,  \* is the adapter there?
  dead,     \* the open port is one whose adapter went away; all its reads raise
  errors,   \* reads so far that raised for another reason
  queue,    \* _queue
  got,      \* what get has returned
  sent,     \* ghost: bytes sent so far
  lost,     \* ghost: those that were thrown away with a port, unread
  overrun   \* ghost: a join timed out although the thread had been told to stop

vars == <<pc, serial, running, reader, loop, hand, line, plugged, dead, errors, queue,
          got, sent, lost, overrun>>
caller == <<pc, serial, running, reader, got, overrun>>
threads == <<loop, hand>>
wire == <<line, plugged, dead, errors, sent, lost>>

Alive(r) == loop[r] # "none"

-----------------------------------------------------------------------------
(* The caller. Definitions called Wrong... are the ways this code could       *)
(* plausibly be wrong that the properties below have to notice.                *)

Init ==
  /\ pc = "out"
  /\ serial = FALSE
  /\ running = FALSE
  /\ reader = NoReader
  /\ loop = [r \in Readers |-> "none"]
  /\ hand = [r \in Readers |-> NoByte]
  /\ line = <<>>
  /\ plugged \in BOOLEAN
  /\ dead = FALSE
  /\ errors = 0
  /\ queue = <<>>
  /\ got = <<>>
  /\ sent = 0
  /\ lost = {}
  /\ overrun = FALSE

\* open: a new port, whose input buffer pyserial empties, and a new thread. Without the
\* adapter it raises before anything is assigned. The services call it on a closed port
\* only.
Open ==
  /\ pc = "out" /\ ~serial
  /\ plugged
  /\ serial' = TRUE
  /\ running' = TRUE
  /\ \E r \in Readers :
       /\ ~Alive(r)
       /\ reader' = r
       /\ loop' = [loop EXCEPT ![r] = "test"]
  /\ line' = <<>>
  /\ lost' = lost \cup ToSet(line)
  /\ dead' = FALSE
  /\ UNCHANGED <<pc, hand, plugged, errors, queue, got, sent, overrun>>

\* close, up to the join.
WrongStopped == running
Stopped == FALSE

Close ==
  /\ pc = "out" /\ serial
  /\ pc' = "join"
  /\ running' = Stopped
  /\ UNCHANGED <<serial, reader, got, overrun, threads, wire, queue>>

\* The join ends with the thread, or after a second, and close goes on all the same. A
\* thread that was told to stop needs a fraction of that (a read returns after 50 ms)
\* if it is given the time to run.
WrongJoined == TRUE
Joined == ~Alive(reader)

Join ==
  /\ pc = "join"
  /\ \/ Joined /\ UNCHANGED overrun
     \/ Alive(reader) /\ overrun' = (overrun \/ ~running)
  /\ pc' = "shut"
  /\ reader' = NoReader
  /\ UNCHANGED <<serial, running, got, threads, wire, queue>>

\* The port is closed, and forgotten even if that raises. The queue stays.
Shut ==
  /\ pc = "shut"
  /\ pc' = "out"
  /\ serial' = FALSE
  /\ line' = <<>>
  /\ lost' = lost \cup ToSet(line)
  /\ dead' = FALSE
  /\ UNCHANGED <<running, reader, got, overrun, threads, plugged, errors, sent, queue>>

Get ==
  /\ pc = "out"
  /\ queue # <<>>
  /\ got' = Append(got, Head(queue))
  /\ queue' = Tail(queue)
  /\ UNCHANGED <<pc, serial, running, reader, overrun, threads, wire>>

-----------------------------------------------------------------------------
(* _read_loop *)

Goto(r, place) == loop' = [loop EXCEPT ![r] = place]

Test(r) ==
  /\ loop[r] = "test"
  /\ Goto(r, IF running THEN "read" ELSE "none")
  /\ UNCHANGED <<caller, hand, wire, queue>>

\* A byte, or none within the time-out of the port. A read raises if there is no port
\* any more, or the adapter went away, or the port is not the one that the thread has
\* begun to read; or now and then although nothing is wrong with it, as pyserial does
\* when another process reads the same device. The thread goes on all the same.
WrongAfterError == "none"
WrongRetry == "read"
AfterError == "test"

WrongAfterNothing == "put"
AfterNothing == "test"

Read(r) ==
  /\ loop[r] = "read"
  /\ \/ /\ serial /\ ~dead /\ line # <<>>
        /\ hand' = [hand EXCEPT ![r] = Head(line)]
        /\ line' = Tail(line)
        /\ Goto(r, "put")
        /\ UNCHANGED errors
     \/ /\ serial /\ ~dead /\ line = <<>>
        /\ Goto(r, AfterNothing)
        /\ UNCHANGED <<hand, line, errors>>
     \/ /\ dead \/ ~serial \/ r # reader
        /\ Goto(r, AfterError)
        /\ UNCHANGED <<hand, line, errors>>
     \/ /\ errors < MaxErrors
        /\ errors' = errors + 1
        /\ Goto(r, AfterError)
        /\ UNCHANGED <<hand, line>>
  /\ UNCHANGED <<caller, plugged, dead, sent, lost, queue>>

\* The byte is put, whether or not the thread has to stop.
WrongKept == running
Kept == TRUE

Put(r) ==
  /\ loop[r] = "put"
  /\ queue' = IF Kept THEN Append(queue, hand[r]) ELSE queue
  /\ hand' = [hand EXCEPT ![r] = NoByte]
  /\ Goto(r, "test")
  /\ UNCHANGED <<caller, wire>>

-----------------------------------------------------------------------------
(* The heat pump and the adapter *)

Arrive ==
  /\ serial /\ plugged /\ ~dead
  /\ sent < MaxBytes
  /\ sent' = sent + 1
  /\ line' = Append(line, sent')
  /\ UNCHANGED <<caller, threads, plugged, dead, errors, lost, queue>>

\* A port that was open stays dead when the adapter is back.
Unplug ==
  /\ plugged
  /\ plugged' = FALSE
  /\ dead' = serial
  /\ line' = <<>>
  /\ lost' = lost \cup ToSet(line)
  /\ UNCHANGED <<caller, threads, errors, sent, queue>>

Replug ==
  /\ ~plugged
  /\ plugged' = TRUE
  /\ UNCHANGED <<caller, threads, line, dead, errors, sent, lost, queue>>

ReadLoop(r) == Test(r) \/ Read(r) \/ Put(r)

Next ==
  \/ Open \/ Close \/ Join \/ Shut \/ Get
  \/ \E r \in Readers : ReadLoop(r)
  \/ Arrive \/ Unplug \/ Replug

Spec == Init /\ [][Next]_vars

\* Threads run, and a read of the port returns within its time-out; nobody has to
\* call, nor to go on with a close.
FairSpec == Spec /\ \A r \in Readers : WF_vars(ReadLoop(r))

-----------------------------------------------------------------------------
(* Properties *)

TypeOK ==
  /\ pc \in {"out", "join", "shut"}
  /\ serial \in BOOLEAN
  /\ running \in BOOLEAN
  /\ reader \in Readers \cup {NoReader}
  /\ loop \in [Readers -> {"none", "test", "read", "put"}]
  /\ hand \in [Readers -> Nat \cup {NoByte}]
  /\ line \in Seq(Nat)
  /\ plugged \in BOOLEAN
  /\ dead \in BOOLEAN
  /\ errors \in 0 .. MaxErrors
  /\ queue \in Seq(Nat)
  /\ got \in Seq(Nat)
  /\ sent \in Nat
  /\ lost \in SUBSET Nat
  /\ overrun \in BOOLEAN

\* Everything that was ever put into the queue, and what threads have read and not yet put.
Given == got \o queue
Held == {hand[r] : r \in Readers} \ {NoByte}

\* Whatever was opened and closed in between, bytes leave the queue in the order in
\* which they were sent (_read_loop and get); unless a thread that had to stop was not
\* given the time to, so that two threads read at once (the time-out of the join).
InOrder ==
  ~overrun =>
    /\ \A i \in 1 .. Len(Given) - 1 : Given[i] < Given[i + 1]
    /\ \A b \in ToSet(Given), h \in Held : b < h

\* A port that is closed or closing for good has no thread left that could read the
\* port opened next (close, join), unless one was not given the time to end.
NoReaderLeft ==
  ~overrun /\ (pc = "shut" \/ (pc = "out" /\ ~serial)) => \A r \in Readers : ~Alive(r)

\* Also when two threads read at once, when reads raise, and when the port is closed or
\* lost while a thread has a byte in its hand: every byte sent is handed out, or still on
\* its way, or was in the buffer of a port that is gone; and none is handed out twice
\* (_read_loop, get and close together).
EveryByteOnce ==
  /\ 1 .. sent = ToSet(Given) \cup Held \cup ToSet(line) \cup lost
  /\ \A i, j \in 1 .. Len(Given) : Given[i] = Given[j] => i = j
  /\ \A r, q \in Readers : hand[r] = hand[q] => r = q \/ hand[r] = NoByte
  /\ Held \cap ToSet(Given) = {}
  /\ (Held \cup ToSet(Given)) \cap (ToSet(line) \cup lost) = {}

\* A read that raises does not end the reading: as long as the port stays open and its
\* adapter is there, every byte that reaches it reaches the queue (the except clause of
\* _read_loop; nobody starts the thread again).
ByteArrives ==
  \A b \in 1 .. MaxBytes :
    b \in ToSet(line) ~> b \in ToSet(Given) \/ dead \/ pc # "out"

\* A close ends the reader thread, also while every read of the port raises (_read_loop
\* tests _running after an error as well), unless it is not given the time.
CloseEndsReader == pc = "join" ~> overrun \/ \A r \in Readers : ~Alive(r)
=============================================================================
