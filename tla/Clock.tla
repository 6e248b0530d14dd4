------------------------------- MODULE Clock -------------------------------
(***************************************************************************)
(* POST /actions/set-time: set_time of protocol/communication.py, while    *)
(* the clocks of the gateway and of the heat pump go on. One conversation  *)
(* is one step, as in Gateway, which also has the lock; what other calls   *)
(* and the panel do to the clock in the meantime is PanelChange.           *)
(*                                                                         *)
(* A time is a function on Places: place 1 is the minutes, and a place     *)
(* carries into the next one. Definition files have a register for every   *)
(* field or (2.x firmware) for none; `registers` tells which.              *)
(***************************************************************************)
EXTENDS Naturals, FiniteSets

CONSTANTS
  N,              \* the fields of a time; 5 in the code
  Radix,          \* how many values each place has
  CLOCK_FIELDS,   \* _CLOCK_FIELDS: the places in the order they are written; minutes last
  NoPlace, NoTime

Places == 1 .. N
Digits == UNION {0 .. Radix[p] - 1 : p \in Places}
Clocks == {c \in [Places -> Digits] : \A p \in Places : c[p] < Radix[p]}

ASSUME ClockAssumption ==
  /\ N \in Nat \ {0}
  /\ Radix \in [Places -> Nat \ {0}]
  /\ CLOCK_FIELDS \in [Places -> Places]
  /\ \A i, j \in Places : CLOCK_FIELDS[i] = CLOCK_FIELDS[j] => i = j
  /\ \A p \in Places : \E i \in Places : CLOCK_FIELDS[i] = p
  /\ CLOCK_FIELDS[N] = 1
  /\ NoPlace \notin Places
  /\ NoTime \notin Clocks

VARIABLES
  registers,  \* are there registers of single fields?
  clock,      \* the system time of the gateway
  device,     \* the clock of the heat pump
  pc,         \* where the call is
  now,        \* datetime.now() of the call
  done,       \* registers written so far
  aim,        \* the register whose frame the pre-read got
  late,       \* the fields of a SET that failed and may still be carried out
  status,     \* how the call ends
  shown,      \* the time in its answer
  since,      \* ghost: system times while the call has had the lock
  old,        \* ghost: the clock of the heat pump had the call not been made
  rolled,     \* ghost: it carried into the hours since the call got the lock
  spoiled     \* ghost: a damaged or bare pre-read, or somebody else's change

clocks == <<registers, clock, device>>
call == <<pc, now, done, aim, status, shown>>
ghosts == <<since, old, rolled, spoiled>>
vars == <<clocks, call, late, ghosts>>

\* One minute later: a place moves on when all those before it are at their end.
Carry(c, p) == \A q \in 1 .. p - 1 : c[q] = Radix[q] - 1

Ticked(c) ==
  [p \in Places |-> IF ~Carry(c, p) THEN c[p]
                    ELSE IF c[p] = Radix[p] - 1 THEN 0 ELSE c[p] + 1]

Overlay(fields, c) ==
  [p \in Places |-> IF p \in DOMAIN fields THEN fields[p] ELSE c[p]]
Nothing == [p \in {} |-> 0]
Field == CLOCK_FIELDS[done + 1]

-----------------------------------------------------------------------------

Init ==
  /\ registers \in BOOLEAN
  /\ clock \in Clocks
  /\ device \in Clocks
  /\ pc = "idle"
  /\ now = NoTime
  /\ done = 0
  /\ aim = NoPlace
  /\ late = Nothing
  /\ status = 200
  /\ shown = NoTime
  /\ since = {}
  /\ old = device
  /\ rolled = FALSE
  /\ spoiled = FALSE

\* The route is called; the lock may be held by somebody else.
Call ==
  /\ pc = "idle"
  /\ pc' = "wait"
  /\ UNCHANGED <<clocks, now, done, aim, late, status, shown, ghosts>>

\* service.set_time gets the lock, and only then takes the time.
Acquire ==
  /\ pc = "wait"
  /\ pc' = IF registers THEN "pre" ELSE "get"
  /\ now' = clock
  /\ since' = {clock}
  /\ old' = device
  /\ rolled' = FALSE
  /\ spoiled' = FALSE
  /\ UNCHANGED <<clocks, done, aim, late, status, shown>>

\* ProtocolError is 503, WriteNotConfirmed 502, and anything else 500.
Raise(s) ==
  /\ pc' = "leave"
  /\ status' = s
  /\ UNCHANGED <<now, done, aim, shown>>

\* Definitions called Wrong... are the ways this code could plausibly be wrong that
\* the properties below have to notice; nothing in Spec uses them.

\* One more register is done, or skipped, in _set_time_via_registers.
WrongAllWritten(n) == n >= N - 1
WrongLastField(n) == n > N
AllWritten(n) == n = N
Advance ==
  /\ done' = done + 1
  /\ pc' = IF AllWritten(done') THEN "readback" ELSE "pre"
  /\ UNCHANGED <<now, aim, status, shown>>

\* _write_values reads the register first. A damaged frame is edited like any
\* other and may be that of another register, or of none.
PreRead ==
  /\ pc = "pre"
  /\ pc' = "set"
  /\ \/ /\ aim' = Field
        /\ late' = Nothing
        /\ UNCHANGED spoiled
     \/ /\ aim' \in Places \cup {NoPlace}
        /\ spoiled' = TRUE
        /\ UNCHANGED late
  /\ UNCHANGED <<clocks, now, done, status, shown, since, old, rolled>>

\* An answer equal to the request counts as 'already set'.
PreReadBare ==
  /\ pc = "pre"
  /\ Advance
  /\ late' = Nothing
  /\ spoiled' = TRUE
  /\ UNCHANGED <<clocks, since, old, rolled>>

\* No answer, a dead port, a damaged frame that is too short to edit; in any
\* conversation of the call.
ConversationFails ==
  /\ pc \in {"pre", "get", "readback"}
  /\ \E s \in {503, 500} : Raise(s)
  /\ UNCHANGED <<clocks, late, ghosts>>

\* What the SET changes: nothing, if the frame is no clock register's or the value is
\* none of that field.
SetOf ==
  IF aim \in Places /\ now[Field] < Radix[aim] THEN [p \in {aim} |-> now[Field]]
  ELSE Nothing

SetConfirmed ==
  /\ pc = "set"
  /\ device' = Overlay(SetOf, device)
  /\ late' = Nothing
  /\ Advance
  /\ UNCHANGED <<registers, clock, ghosts>>

\* The confirmation is missing, refused or damaged. The device has taken the SET
\* or not, and may then take it later.
WrongUnverified == Advance
Unverified == \E s \in {502, 503} : Raise(s)

SetUnconfirmed ==
  /\ pc = "set"
  /\ Unverified
  /\ \/ /\ device' = Overlay(SetOf, device)
        /\ UNCHANGED late
     \/ /\ late' \in {Nothing, late, SetOf}
        /\ UNCHANGED device
  /\ UNCHANGED <<registers, clock, ghosts>>

\* _set_time_via_frame reads the FC register, and writes nothing if the frame does
\* not check.
GetFrame ==
  /\ pc = "get"
  /\ \/ pc' = "frame" /\ late' = Nothing
     \/ pc' = "readback" /\ UNCHANGED late
  /\ UNCHANGED <<clocks, now, done, aim, status, shown, ghosts>>

\* The frame with all the fields is sent, and the answer not looked at.
SetFrame ==
  /\ pc = "frame"
  /\ \/ /\ device' = Overlay(now, device)
        /\ late' \in {Nothing, late}
     \/ /\ late' \in {Nothing, late, now}
        /\ UNCHANGED device
  /\ \/ /\ pc' = "readback"
        /\ done' = N
        /\ UNCHANGED <<now, aim, status, shown>>
     \/ Raise(503)
  /\ UNCHANGED <<registers, clock, ghosts>>

\* What the call returns: the FC register as it is now, if its frame checks, under
\* the values that _set_time_via_frame reports as written.
Merged(readback) == IF ~registers /\ done = N THEN now ELSE readback

ReadBack ==
  /\ pc = "readback"
  /\ pc' = "leave"
  /\ status' = 200
  /\ \/ shown' = Merged(device) /\ late' = Nothing
     \/ shown' = Merged(NoTime) /\ UNCHANGED late
  /\ UNCHANGED <<clocks, now, done, aim, ghosts>>

\* The lock is released and the call answered.
Leave ==
  /\ pc = "leave"
  /\ pc' = "idle"
  /\ now' = NoTime
  /\ done' = 0
  /\ aim' = NoPlace
  /\ status' = 200
  /\ shown' = NoTime
  /\ since' = {}
  /\ old' = device
  /\ rolled' = FALSE
  /\ spoiled' = FALSE
  /\ UNCHANGED <<clocks, late>>

-----------------------------------------------------------------------------
(* Time, the panel, and a SET that comes late *)

InLock == pc \notin {"idle", "wait"}

GatewayTicks ==
  /\ clock' = Ticked(clock)
  /\ since' = IF InLock THEN since \cup {clock'} ELSE {}
  /\ UNCHANGED <<registers, device, call, late, old, rolled, spoiled>>

DeviceTicks ==
  /\ device' = Ticked(device)
  /\ old' = Ticked(old)
  /\ rolled' = (InLock /\ (rolled \/ device[1] = Radix[1] - 1))
  /\ UNCHANGED <<registers, clock, call, late, since, spoiled>>

PanelChange ==
  /\ device' \in Clocks
  /\ old' = device'
  /\ spoiled' = InLock
  /\ UNCHANGED <<registers, clock, call, late, since, rolled>>

\* The ESCAPE of a later conversation makes the device carry out a pending SET, one
\* of this call if it is the frame.
LateTake ==
  /\ late # Nothing
  /\ pc # "leave"
  /\ device' = Overlay(late, device)
  /\ late' = Nothing
  /\ old' = IF pc = "readback" /\ done = N THEN old ELSE Overlay(late, old)
  /\ UNCHANGED <<registers, clock, call, since, rolled, spoiled>>

SetTime ==
  \/ Acquire \/ PreRead \/ PreReadBare \/ ConversationFails \/ SetConfirmed
  \/ SetUnconfirmed \/ GetFrame \/ SetFrame \/ ReadBack \/ Leave

Next == Call \/ SetTime \/ GatewayTicks \/ DeviceTicks \/ PanelChange \/ LateTake

Spec == Init /\ [][Next]_vars

-----------------------------------------------------------------------------
(* Properties *)

Fieldsets == UNION {[S -> Digits] : S \in SUBSET Places}

TypeOK ==
  /\ registers \in BOOLEAN
  /\ clock \in Clocks
  /\ device \in Clocks
  /\ pc \in {"idle", "wait", "pre", "set", "get", "frame", "readback", "leave"}
  /\ now \in Clocks \cup {NoTime}
  /\ done \in 0 .. N
  /\ pc \in {"pre", "set"} => done < N
  /\ aim \in Places \cup {NoPlace}
  /\ late \in Fieldsets /\ \A p \in DOMAIN late : late[p] < Radix[p]
  /\ status \in {200, 500, 502, 503}
  /\ shown \in Clocks \cup {NoTime}
  /\ since \subseteq Clocks
  /\ old \in Clocks
  /\ rolled \in BOOLEAN
  /\ spoiled \in BOOLEAN

\* When the last register of a set-time is confirmed, the heat pump shows a time that
\* the gateway's clock had during this very call, however long the call waited for the
\* lock, whichever SET of an earlier call came late, and however often the minutes
\* went on meanwhile (_set_time_via_registers): unless the hour changed on the heat
\* pump in the middle, a pre-read was damaged or bare, or somebody set the clock.
SetTimeSetsClock ==
  [][pc = "set" /\ pc' = "readback" /\ ~rolled /\ ~spoiled => device' \in since]_vars

\* The first k fields in the order of CLOCK_FIELDS are those of `now`, the minutes
\* having gone on at most, and the others as if nobody had called.
Mixture(k) ==
  \A i \in Places :
    LET p == CLOCK_FIELDS[i] IN
    IF i <= k THEN device[p] = now[p] \/ (p = 1 /\ device[p] > now[p])
    ELSE device[p] = old[p]

\* A set-time that fails leaves a beginning of its fields written, at most the one
\* whose confirmation is missing besides those that were confirmed, and writes all
\* fields or none where there are no registers (the exceptions of _write_values).
FailureLeavesPrefix ==
  pc = "leave" /\ status # 200 /\ ~rolled /\ ~spoiled =>
    \E k \in IF registers THEN {done, done + 1} ELSE {0, N} : Mixture(k)

(* What the documentation says, and the code does not do *)

\* protocol/communication.py:177: "Set the heat pump clock to the current system time."
SetTimeIsSystemTime ==
  [][pc = "set" /\ pc' = "readback" /\ ~spoiled => device' \in since]_vars
=============================================================================
