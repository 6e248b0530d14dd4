--------------------------- MODULE CounterProofs ---------------------------
(***************************************************************************)
(* Counters of two commands, for any base, any size and any number of      *)
(* attempts.                                                               *)
(***************************************************************************)
EXTENDS Counter, TLAPS

USE CounterAssumption

Counts == [high : High, low : Low]

\* c is not before d, if the counter was not reset.
Later(c, d) == c.high > d.high \/ (c.high = d.high /\ c.low >= d.low)

\* The counter goes forward, and keeps its high part until it carries.
Forward ==
  /\ start \in since /\ count \in since
  /\ ~reset => Later(count, start)
  /\ ~reset /\ ~carried => count.high = start.high

\* The low part that was read belongs to a counter of this attempt.
FirstWasHeld ==
  pc = "second" /\ first # NoValue /\ ~reset =>
    \E m \in since :
      /\ m.low = first
      /\ Later(m, start) /\ m.high <= count.high
      /\ ~carried => m.high = count.high

Inv == TypeOK /\ Forward /\ FirstWasHeld /\ CounterWasHeld /\ CounterNeverLow

\* Only the second command gives a result.
Settled == pc \in {"idle", "first", "second"} => result = NoValue

LEMMA Bounds ==
  /\ \A n \in Low : n \in Nat /\ n < Base
  /\ \A n \in High : n \in Nat
BY DEF Low, High

LEMMA Monotonic ==
  ASSUME NEW a \in Nat, NEW b \in Nat, a > b
  PROVE  a * Base \in Nat /\ b * Base \in Nat /\ a * Base >= b * Base + Base
<1>1. PICK d \in Nat : a = b + 1 + d
  <2>1. a - b - 1 \in Nat /\ a = b + 1 + (a - b - 1) OBVIOUS
  <2> QED BY <2>1
<1>2. a * Base = b * Base + Base + d * Base BY <1>1
<1>3. b * Base \in Nat /\ d * Base \in Nat /\ a * Base \in Nat OBVIOUS
<1> QED BY <1>2, <1>3

LEMMA AttemptTyped ==
  ASSUME TypeOK, Attempt
  PROVE  /\ count' \in [high : High, low : Low] /\ start' \in [high : High, low : Low]
         /\ since' \subseteq [high : High, low : Low]
         /\ carried' \in BOOLEAN /\ reset' \in BOOLEAN
<1>1. count \in Counts BY DEF TypeOK, Counts
<1>2. count' = count /\ start' = count /\ since' = {count} BY DEF Attempt
<1>3. carried' = FALSE /\ reset' = FALSE BY DEF Attempt
<1>4. since' \subseteq Counts BY <1>1, <1>2
<1> QED BY <1>1, <1>2, <1>3, <1>4 DEF Counts

LEMMA Typing == ASSUME TypeOK, [Next]_vars PROVE TypeOK'
<1> USE DEF TypeOK
<1>1. CASE Begin
  <2>1. pc' = "first" /\ UNCHANGED <<attempt, first, result, status>>
    BY <1>1 DEF Begin, FirstStage
  <2>2. Attempt BY <1>1 DEF Begin
  <2> QED BY <2>1, <2>2, AttemptTyped
<1>2. CASE ReadFirst BY <1>2 DEF ReadFirst, Decoded, ghosts
<1>3. CASE ReadSecond
  <2>1. PICK high \in Decoded(count.high) : result' = Combined(high, first)
    BY <1>3 DEF ReadSecond
  <2>2. result' \in Nat \cup {NoValue}
    <3>1. CASE high = NoValue \/ first = NoValue BY <2>1, <3>1 DEF Combined
    <3>2. CASE high # NoValue /\ first # NoValue
      <4>1. high \in Nat /\ first \in Nat BY <3>2, Bounds DEF Decoded
      <4>2. high * Base \in Nat BY <4>1
      <4> QED BY <2>1, <3>2, <4>1, <4>2 DEF Combined
    <3> QED BY <3>1, <3>2
  <2> QED BY <1>3, <2>2 DEF ReadSecond, ghosts
<1>4. CASE Retry
  <2>1. attempt' \in 1 .. MAX_TRIES BY <1>4 DEF Retry, TriesLeft
  <2>2. pc' = "first" /\ UNCHANGED <<first, result, status>> BY <1>4 DEF Retry, FirstStage
  <2>3. Attempt BY <1>4 DEF Retry
  <2> QED BY <2>1, <2>2, <2>3, AttemptTyped
<1>5. CASE GiveUp BY <1>5 DEF GiveUp, ghosts
<1>6. CASE Leave
  <2>1. pc' = "idle" /\ attempt' = 1 /\ first' = NoValue /\ result' = NoValue /\ status' = 200
    BY <1>6 DEF Leave
  <2>2. Attempt BY <1>6 DEF Leave
  <2> QED BY <2>1, <2>2, AttemptTyped
<1>7. CASE Count
  <2>1. count' \in Counts
    <3>1. CASE count.low < Base - 1 /\ count' = [count EXCEPT !.low = @ + 1]
      <4>1. count.low + 1 \in Low BY <3>1 DEF Low
      <4> QED BY <3>1, <4>1 DEF Counts
    <3>2. CASE count.high < MaxHigh /\ count' = [high |-> count.high + 1, low |-> 0]
      <4>1. count.high + 1 \in High /\ 0 \in Low BY <3>2 DEF High, Low
      <4> QED BY <3>2, <4>1 DEF Counts
    <3> QED BY <1>7, <3>1, <3>2 DEF Count
  <2>2. carried' \in BOOLEAN BY <1>7 DEF Count
  <2> QED BY <1>7, <2>1, <2>2 DEF Count, Counts
<1>8. CASE Reset
  <2>1. 0 \in High /\ 0 \in Low BY DEF High, Low
  <2> QED BY <1>8, <2>1 DEF Reset
<1>9. CASE UNCHANGED vars BY <1>9 DEF vars, ghosts
<1> QED BY <1>1, <1>2, <1>3, <1>4, <1>5, <1>6, <1>7, <1>8, <1>9 DEF Next

LEMMA ForwardStep == ASSUME TypeOK, Forward, [Next]_vars PROVE Forward'
<1> USE DEF Forward
<1>1. CASE Begin \/ Retry \/ Leave
  <2>1. Attempt BY <1>1 DEF Begin, Retry, Leave
  <2>2. Later(count, count) BY Bounds DEF Later, TypeOK
  <2> QED BY <2>1, <2>2 DEF Attempt, Later
<1>2. CASE UNCHANGED <<count, ghosts>>
  BY <1>2 DEF ghosts, Later
<1>3. CASE Count
  <2>1. start' = start /\ since' = since \cup {count'} /\ reset' = reset BY <1>3 DEF Count
  <2>2. count.high \in Nat /\ count.low \in Nat /\ start.high \in Nat /\ start.low \in Nat
    BY Bounds DEF TypeOK
  <2>3. CASE count' = [count EXCEPT !.low = @ + 1] /\ carried' = carried
    <3>1. count'.high = count.high /\ count'.low = count.low + 1 BY <2>3 DEF TypeOK
    <3> QED BY <2>1, <2>2, <2>3, <3>1 DEF Later
  <2>4. CASE count' = [high |-> count.high + 1, low |-> 0] /\ carried' = TRUE
    BY <2>1, <2>2, <2>4 DEF Later
  <2> QED BY <1>3, <2>3, <2>4 DEF Count
<1>4. CASE Reset BY <1>4 DEF Reset
<1> QED BY <1>1, <1>2, <1>3, <1>4 DEF Next, ReadFirst, ReadSecond, GiveUp, vars

LEMMA FirstStep ==
  ASSUME TypeOK, Forward, FirstWasHeld, [Next]_vars PROVE FirstWasHeld'
<1> USE DEF FirstWasHeld
<1>1. CASE Begin \/ Retry \/ Leave \/ ReadSecond \/ GiveUp
  BY <1>1 DEF Begin, Retry, Leave, ReadSecond, GiveUp, FirstStage
<1>2. CASE ReadFirst
  <2>1. count' = count /\ start' = start /\ since' = since /\ carried' = carried /\ reset' = reset
    BY <1>2 DEF ReadFirst, ghosts
  <2>2. first' = NoValue \/ first' = count.low BY <1>2 DEF ReadFirst, Decoded
  <2>3. count.high \in Nat BY Bounds DEF TypeOK
  <2> QED BY <2>1, <2>2, <2>3 DEF Forward, Later
<1>3. CASE Count
  <2>1. /\ UNCHANGED <<pc, first, start, reset>> /\ since' = since \cup {count'}
    BY <1>3 DEF Count
  <2>2. count.high \in Nat /\ since \subseteq Counts BY Bounds DEF TypeOK, Counts
  <2>3. /\ count'.high >= count.high /\ count'.high \in Nat
        /\ ~carried' => count'.high = count.high /\ carried' = carried
    BY <1>3, <2>2 DEF Count, TypeOK
  <2> SUFFICES ASSUME pc = "second", first # NoValue, ~reset PROVE FirstWasHeld'
    BY <2>1
  <2>4. PICK m \in since : /\ m.low = first /\ Later(m, start) /\ m.high <= count.high
                           /\ ~carried => m.high = count.high
    OBVIOUS
  <2>5. m \in since' /\ m.high \in Nat BY <2>1, <2>2, <2>4, Bounds DEF Counts
  <2>6. m.high <= count'.high /\ (~carried' => m.high = count'.high)
    BY <2>2, <2>3, <2>4, <2>5
  <2> QED BY <2>1, <2>4, <2>5, <2>6 DEF Later
<1>4. CASE Reset BY <1>4 DEF Reset
<1>5. CASE UNCHANGED vars BY <1>5 DEF vars, ghosts, Later
<1> QED BY <1>1, <1>2, <1>3, <1>4, <1>5 DEF Next

LEMMA ResultStep ==
  ASSUME TypeOK, TypeOK', Forward, FirstWasHeld, CounterWasHeld, CounterNeverLow, Settled, [Next]_vars
  PROVE  CounterWasHeld' /\ CounterNeverLow' /\ Settled'
<1> USE DEF CounterWasHeld, CounterNeverLow, Settled
<1>1. CASE Begin \/ Leave \/ Retry
  BY <1>1 DEF Begin, Retry, Leave, FirstStage
<1>2. CASE ReadFirst BY <1>2 DEF ReadFirst
<1>3. CASE GiveUp BY <1>3 DEF GiveUp
<1>4. CASE ReadSecond
  <2>1. /\ pc = "second" /\ pc' = "leave"
        /\ UNCHANGED <<count, first, start, since, carried, reset>>
    BY <1>4 DEF ReadSecond, ghosts
  <2> SUFFICES ASSUME result' # NoValue, ~reset PROVE CounterWasHeld' /\ CounterNeverLow'
    BY <2>1
  <2>2. result' = count.high * Base + first /\ first # NoValue
    BY <1>4 DEF ReadSecond, Decoded, Combined
  <2>3. PICK m \in since : /\ m.low = first /\ Later(m, start) /\ m.high <= count.high
                           /\ ~carried => m.high = count.high
    BY <2>1, <2>2 DEF FirstWasHeld
  <2>4. /\ m.high \in Nat /\ m.low \in Nat /\ m.low < Base
        /\ count.high \in Nat /\ count.low \in Nat
        /\ start.high \in Nat /\ start.low \in Nat /\ start.low < Base
    BY Bounds DEF TypeOK
  <2>5. ~carried => result' = Value(m) BY <2>2, <2>3 DEF Value
  <2>6. count.high * Base \in Nat /\ start.high * Base \in Nat BY <2>4
  <2>7. result' < Value(count) + Base /\ count \in since
    <3>1. Value(count) = count.high * Base + count.low BY DEF Value
    <3> QED BY <2>2, <2>3, <2>4, <2>6, <3>1 DEF Forward
  <2>8. result' >= Value(start)
    <3>1. Value(start) = start.high * Base + start.low BY DEF Value
    <3>2. CASE count.high = start.high
      <4>1. m.low >= start.low BY <2>3, <2>4, <3>2 DEF Later
      <4> QED BY <2>2, <2>3, <2>4, <2>6, <3>1, <3>2, <4>1
    <3>3. CASE count.high > start.high
      <4>1. count.high * Base >= start.high * Base + Base BY <2>4, <3>3, Monotonic
      <4> QED BY <2>2, <2>3, <2>4, <2>6, <3>1, <4>1
    <3> QED BY <2>3, <2>4, <3>2, <3>3 DEF Later
  <2> QED BY <2>1, <2>3, <2>5, <2>7, <2>8 DEF Value
<1>5. CASE Count
  <2>1. /\ UNCHANGED <<pc, result, start, reset>> /\ since \subseteq since'
        /\ ~carried' => ~carried
    BY <1>5 DEF Count
  <2> QED BY <2>1 DEF Value
<1>6. CASE Reset BY <1>6 DEF Reset
<1>7. CASE UNCHANGED vars BY <1>7 DEF vars, ghosts, Value
<1> QED BY <1>1, <1>2, <1>3, <1>4, <1>5, <1>6, <1>7 DEF Next

THEOREM Invariance == Spec => [](Inv /\ Settled)
<1>1. Init => Inv /\ Settled
  <2> SUFFICES ASSUME Init PROVE Inv /\ Settled OBVIOUS
  <2>1. TypeOK
    <3>1. since \subseteq [high : High, low : Low] /\ start \in [high : High, low : Low]
      BY DEF Init
    <3>2. attempt \in 1 .. MAX_TRIES BY DEF Init
    <3> QED BY <3>1, <3>2 DEF Init, TypeOK
  <2>2. Forward BY Bounds DEF Init, Forward, Later
  <2>3. FirstWasHeld /\ CounterWasHeld /\ CounterNeverLow /\ Settled
    BY DEF Init, FirstWasHeld, CounterWasHeld, CounterNeverLow, Settled
  <2> QED BY <2>1, <2>2, <2>3 DEF Inv
<1>2. Inv /\ Settled /\ [Next]_vars => (Inv /\ Settled)'
  BY Typing, ForwardStep, FirstStep, ResultStep DEF Inv
<1> QED BY <1>1, <1>2, PTL DEF Spec

\* Every variable keeps to its values; a result is a natural number.
THEOREM TypeCorrect == Spec => []TypeOK
<1>1. Inv => TypeOK BY DEF Inv
<1> QED BY <1>1, Invariance, PTL

\* Without a carry or a reset, the answer is a counter of the attempt answered.
THEOREM AnswerWasHeld == Spec => []CounterWasHeld
<1>1. Inv => CounterWasHeld BY DEF Inv
<1> QED BY <1>1, Invariance, PTL

\* With a carry it is too high by less than the base, and never too low.
THEOREM AnswerNeverLow == Spec => []CounterNeverLow
<1>1. Inv => CounterNeverLow BY DEF Inv
<1> QED BY <1>1, Invariance, PTL
=============================================================================
