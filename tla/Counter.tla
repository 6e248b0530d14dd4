------------------------------ MODULE Counter ------------------------------
(***************************************************************************)
(* A counter that spans two commands: read_request with request_bytes2 and *)
(* parse_records of protocol/, while the heat pump goes on counting. The   *)
(* first command has the low part, the second the high one, and there is a *)
(* pause between them. The shipped ones, electrDHWDay and electrHCDay of   *)
(* LWZ_THZ504_7_59.xml, start again at 0 every day.                        *)
(***************************************************************************)
EXTENDS Naturals

CONSTANTS
  Base,       \* 1000 in the code
  MaxHigh,    \* bound of the high part
  MAX_TRIES,  \* communication.py, 3
  NoValue

ASSUME CounterAssumption ==
  /\ Base \in Nat \ {0}
  /\ MaxHigh \in Nat
  /\ MAX_TRIES \in Nat \ {0}
  /\ NoValue \notin Nat

VARIABLES
  count,    \* the counter of the heat pump: its high and its low part
  pc,       \* where the call is
  attempt,  \* of read_request
  first,    \* the low part that the first response has, or NoValue
  result,   \* what parse_records finds of the channel, or NoValue
  status,   \* of the answer
  start,    \* ghost: the counter when the last attempt began
  since,    \* ghost: what the counter was since then
  carried,  \* ghost: it carried since then
  reset     \* ghost: it was reset since then

ghosts == <<start, since, carried, reset>>
vars == <<count, pc, attempt, first, result, status, ghosts>>

Low == 0 .. Base - 1
High == 0 .. MaxHigh
Value(c) == c.high * Base + c.low

-----------------------------------------------------------------------------
(* Definitions called Wrong... are the ways this code could plausibly be wrong *)
(* that the properties below have to notice; nothing in Spec uses them.        *)

\* A frame that checks may still be too short for the channel.
Decoded(part) == {part, NoValue}

\* parse_records: value2 * 1000 + value, and nothing at all if one of them is missing.
WrongCombined(high, low) ==
  IF low = NoValue THEN NoValue
  ELSE (IF high = NoValue THEN 0 ELSE high * Base) + low
Combined(high, low) ==
  IF high = NoValue \/ low = NoValue THEN NoValue ELSE high * Base + low

\* Every attempt asks for both parts.
WrongFirstStage == IF first = NoValue THEN "first" ELSE "second"
FirstStage == "first"

\* for attempt in range(1, MAX_TRIES + 1)
WrongTriesLeft == attempt <= MAX_TRIES
TriesLeft == attempt < MAX_TRIES

Init ==
  /\ count \in [high : High, low : Low]
  /\ pc = "idle"
  /\ attempt = 1
  /\ first = NoValue
  /\ result = NoValue
  /\ status = 200
  /\ start = count
  /\ since = {count}
  /\ carried = FALSE
  /\ reset = FALSE

\* An attempt begins; the ghosts begin with it.
Attempt ==
  /\ start' = count
  /\ since' = {count}
  /\ carried' = FALSE
  /\ reset' = FALSE
  /\ UNCHANGED count

\* read_channel has the lock.
Begin ==
  /\ pc = "idle"
  /\ pc' = FirstStage
  /\ UNCHANGED <<attempt, first, result, status>>
  /\ Attempt

ReadFirst ==
  /\ pc = "first"
  /\ first' \in Decoded(count.low)
  /\ pc' = "second"
  /\ UNCHANGED <<count, attempt, result, status, ghosts>>

\* After the pause.
ReadSecond ==
  /\ pc = "second"
  /\ \E high \in Decoded(count.high) : result' = Combined(high, first)
  /\ status' = IF result' = NoValue THEN 404 ELSE 200
  /\ pc' = "leave"
  /\ UNCHANGED <<count, attempt, first, ghosts>>

\* Either conversation fails: the link is restarted and both are held again.
Retry ==
  /\ pc \in {"first", "second"}
  /\ TriesLeft
  /\ attempt' = attempt + 1
  /\ pc' = FirstStage
  /\ UNCHANGED <<first, result, status>>
  /\ Attempt

GiveUp ==
  /\ pc \in {"first", "second"}
  /\ ~TriesLeft
  /\ pc' = "leave"
  /\ status' = 503
  /\ UNCHANGED <<count, attempt, first, result, ghosts>>

Leave ==
  /\ pc = "leave"
  /\ pc' = "idle"
  /\ attempt' = 1
  /\ first' = NoValue
  /\ result' = NoValue
  /\ status' = 200
  /\ Attempt

\* The heat pump counts, and starts again.
Count ==
  /\ \/ /\ count.low < Base - 1
        /\ count' = [count EXCEPT !.low = @ + 1]
        /\ UNCHANGED carried
     \/ /\ count.low = Base - 1 /\ count.high < MaxHigh
        /\ count' = [high |-> count.high + 1, low |-> 0]
        /\ carried' = TRUE
  /\ since' = since \cup {count'}
  /\ UNCHANGED <<pc, attempt, first, result, status, start, reset>>

Reset ==
  /\ count' = [high |-> 0, low |-> 0]
  /\ reset' = TRUE
  /\ since' = since \cup {count'}
  /\ UNCHANGED <<pc, attempt, first, result, status, start, carried>>

Next ==
  Begin \/ ReadFirst \/ ReadSecond \/ Retry \/ GiveUp \/ Leave \/ Count \/ Reset

Spec == Init /\ [][Next]_vars

-----------------------------------------------------------------------------
(* Properties *)

TypeOK ==
  /\ count \in [high : High, low : Low]
  /\ pc \in {"idle", "first", "second", "leave"}
  /\ attempt \in 1 .. MAX_TRIES
  /\ first \in Low \cup {NoValue}
  /\ result \in Nat \cup {NoValue}
  /\ status \in {200, 404, 503}
  /\ start \in [high : High, low : Low]
  /\ since \subseteq [high : High, low : Low]
  /\ carried \in BOOLEAN
  /\ reset \in BOOLEAN

\* A counter that is answered was the counter of the heat pump since the attempt
\* that is answered began: never the parts of two attempts, and never one part alone
\* (read_request, parse_records). Unless it carried or was reset in between.
CounterWasHeld ==
  pc = "leave" /\ result # NoValue /\ ~carried /\ ~reset =>
    \E c \in since : result = Value(c)

\* A carry between the two commands never makes the counter go back: it is answered
\* too high at worst, and by less than the parts' base (the order of the two
\* commands in read_request).
CounterNeverLow ==
  pc = "leave" /\ result # NoValue /\ ~reset =>
    result >= Value(start) /\ \E c \in since : result < Value(c) + Base
=============================================================================
