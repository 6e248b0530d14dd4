---------------------------- MODULE ClockProofs ----------------------------
(***************************************************************************)
(* set_time of communication.py, for clocks with any number of fields and  *)
(* any order of writing them in which the minutes come last.               *)
(***************************************************************************)
EXTENDS Clock, TLAPS

USE ClockAssumption

Clean == ~rolled /\ ~spoiled

Stages ==
  /\ pc \in {"idle", "wait", "get", "frame"} => done = 0
  /\ pc \in {"pre", "set"} => registers /\ done < N
  /\ pc \in {"get", "frame"} => ~registers
  /\ pc = "readback" /\ registers => done = N
  /\ ~registers => done \in {0, N}
  /\ InLock => now \in Clocks /\ now \in since

\* What an undamaged call knows of the SETs that are on their way.
Pending ==
  ~spoiled =>
    /\ pc = "set" => aim = Field
    /\ pc \in {"set", "frame"} => late = Nothing
    /\ pc = "pre" /\ done # 0 => late = Nothing
    /\ pc = "readback" /\ registers => late = Nothing
    /\ pc = "readback" /\ ~registers /\ done = N => late \in {Nothing, now}

\* How far the clock has been written.
Progress ==
  Clean =>
    /\ pc \in {"pre", "set", "get", "frame"} => Mixture(done)
    /\ pc = "readback" => Mixture(done) \/ (~registers /\ Mixture(0))
    /\ pc = "leave" /\ status # 200 =>
         \E k \in IF registers THEN {done, done + 1} ELSE {0, N} : Mixture(k)

Inv == TypeOK /\ Stages /\ Pending /\ Progress

-----------------------------------------------------------------------------
(* Clocks *)

LEMMA DigitsOfPlaces == \A p \in Places, n \in Nat : n < Radix[p] => n \in Digits
BY DEF Digits, Places

LEMMA ClockPlaces ==
  ASSUME NEW c \in Clocks, NEW p \in Places
  PROVE  c[p] \in Nat /\ c[p] < Radix[p] /\ c[p] \in Digits /\ Radix[p] \in Nat
<1>1. Radix[p] \in Nat \ {0} OBVIOUS
<1>2. c[p] \in Digits BY DEF Clocks
<1>3. Digits \subseteq Nat BY DEF Digits, Places
<1> QED BY <1>1, <1>2, <1>3 DEF Clocks

LEMMA IsClock ==
  ASSUME NEW c, c = [p \in Places |-> c[p]],
         \A p \in Places : c[p] \in Nat /\ c[p] < Radix[p]
  PROVE  c \in Clocks
BY DigitsOfPlaces DEF Clocks

LEMMA TickedIsClock == ASSUME NEW c \in Clocks PROVE Ticked(c) \in Clocks
<1> DEFINE t == Ticked(c)
<1>1. t = [p \in Places |-> t[p]] BY DEF Ticked
<1>2. ASSUME NEW p \in Places PROVE t[p] \in Nat /\ t[p] < Radix[p]
  <2>1. c[p] \in Nat /\ c[p] < Radix[p] /\ Radix[p] \in Nat \ {0} BY ClockPlaces
  <2>2. t[p] = c[p] \/ t[p] = 0 \/ (t[p] = c[p] + 1 /\ c[p] # Radix[p] - 1)
    BY DEF Ticked
  <2> QED BY <2>1, <2>2
<1> HIDE DEF t
<1>3. t \in Clocks BY <1>1, <1>2, IsClock
<1> QED BY <1>3 DEF t

LEMMA OverlaidIsClock ==
  ASSUME NEW c \in Clocks, NEW f, \A p \in DOMAIN f \cap Places : f[p] \in Nat /\ f[p] < Radix[p]
  PROVE  Overlay(f, c) \in Clocks
<1> DEFINE t == Overlay(f, c)
<1>1. t = [p \in Places |-> t[p]] BY DEF Overlay
<1>2. ASSUME NEW p \in Places PROVE t[p] \in Nat /\ t[p] < Radix[p]
  BY ClockPlaces DEF Overlay
<1> HIDE DEF t
<1>3. t \in Clocks BY <1>1, <1>2, IsClock
<1> QED BY <1>3 DEF t

\* Without a carry, a minute later only the minutes have changed.
LEMMA TickedMinutes ==
  ASSUME NEW c \in Clocks, c[1] # Radix[1] - 1
  PROVE  Ticked(c)[1] = c[1] + 1 /\ \A p \in Places : p # 1 => Ticked(c)[p] = c[p]
<1>1. 1 \in Places BY DEF Places
<1>2. Carry(c, 1) BY DEF Carry
<1>3. \A p \in Places : p # 1 => ~Carry(c, p) BY DEF Carry, Places
<1> QED BY <1>1, <1>2, <1>3 DEF Ticked

LEMMA NowIsOverlaid == ASSUME NEW c \in Clocks, NEW d \in Clocks PROVE Overlay(c, d) = c
BY DEF Overlay, Clocks

LEMMA NothingIsOverlaid == ASSUME NEW c \in Clocks PROVE Overlay(Nothing, c) = c
BY DEF Overlay, Nothing, Clocks

LEMMA LateIsTyped ==
  ASSUME TypeOK
  PROVE  \A p \in DOMAIN late \cap Places : late[p] \in Nat /\ late[p] < Radix[p]
<1>1. PICK S \in SUBSET Places : late \in [S -> Digits] BY DEF TypeOK, Fieldsets
<1>2. Digits \subseteq Nat BY DEF Digits, Places
<1>3. \A p \in DOMAIN late : late[p] \in Digits BY <1>1
<1>4. \A p \in DOMAIN late : late[p] < Radix[p] BY DEF TypeOK
<1> QED BY <1>2, <1>3, <1>4

LEMMA SetOfIsTyped ==
  ASSUME TypeOK, now \in Clocks, pc = "set", done < N
  PROVE  /\ SetOf \in Fieldsets /\ \A p \in DOMAIN SetOf : SetOf[p] < Radix[p]
         /\ \A p \in DOMAIN SetOf \cap Places : SetOf[p] \in Nat /\ SetOf[p] < Radix[p]
<1>1. Field \in Places
  <2>1. done + 1 \in Places BY DEF TypeOK, Places
  <2> QED BY <2>1 DEF Field
<1>2. now[Field] \in Nat /\ now[Field] \in Digits BY <1>1, ClockPlaces
<1>3. CASE aim \in Places /\ now[Field] < Radix[aim]
  <2>1. SetOf = [p \in {aim} |-> now[Field]] BY <1>3 DEF SetOf
  <2>2. SetOf \in [{aim} -> Digits] /\ {aim} \in SUBSET Places BY <1>2, <1>3, <2>1
  <2>3. SetOf \in Fieldsets BY <2>2 DEF Fieldsets
  <2>4. \A p \in DOMAIN SetOf : SetOf[p] \in Nat /\ SetOf[p] < Radix[p] BY <1>2, <1>3, <2>1
  <2> QED BY <2>3, <2>4
<1>4. CASE ~(aim \in Places /\ now[Field] < Radix[aim])
  <2>1. SetOf = [p \in {} |-> 0] BY <1>4 DEF SetOf, Nothing
  <2>2. SetOf \in [{} -> Digits] /\ {} \in SUBSET Places BY <2>1
  <2>3. SetOf \in Fieldsets BY <2>2 DEF Fieldsets
  <2> QED BY <2>1, <2>3
<1> QED BY <1>3, <1>4

-----------------------------------------------------------------------------
(* Types *)

LEMMA NothingIsTyped ==
  Nothing \in Fieldsets /\ \A p \in DOMAIN Nothing : Nothing[p] < Radix[p]
<1>1. Nothing = [p \in {} |-> 0] BY DEF Nothing
<1>2. Nothing \in [{} -> Digits] /\ {} \in SUBSET Places BY <1>1
<1>3. Nothing \in Fieldsets BY <1>2 DEF Fieldsets
<1> QED BY <1>1, <1>3

LEMMA NowIsTyped ==
  ASSUME NEW c \in Clocks
  PROVE  c \in Fieldsets /\ \A p \in DOMAIN c : c[p] < Radix[p]
<1>1. c \in [Places -> Digits] BY DEF Clocks
<1>2. c \in Fieldsets BY <1>1 DEF Fieldsets
<1> QED BY <1>1, <1>2 DEF Clocks

LEMMA FieldIsPlace == ASSUME TypeOK, done < N PROVE Field \in Places
<1>1. done + 1 \in Places BY DEF TypeOK, Places
<1> QED BY <1>1 DEF Field

LEMMA Typing == ASSUME Inv, [Next]_vars PROVE TypeOK'
<1> TypeOK /\ Stages BY DEF Inv
<1> DEFINE LateTyped == late' \in Fieldsets /\ \A p \in DOMAIN late' : late'[p] < Radix[p]
<1>1. CASE Call
  BY <1>1 DEF TypeOK, Call, clocks, ghosts
<1>2. CASE Acquire
  <2>1. pc' \in {"pre", "get"} /\ now' \in Clocks /\ since' \subseteq Clocks /\ old' \in Clocks
    BY <1>2 DEF TypeOK, Acquire
  <2>2. UNCHANGED <<registers, clock, device, done, aim, late, status, shown>>
    BY <1>2 DEF Acquire, clocks
  <2>3. rolled' \in BOOLEAN /\ spoiled' \in BOOLEAN BY <1>2 DEF Acquire
  <2>4. done' < N BY <1>2 DEF Acquire, Stages
  <2> QED BY <2>1, <2>2, <2>3, <2>4 DEF TypeOK
<1>3. CASE PreRead
  <2>1. LateTyped BY <1>3, NothingIsTyped DEF PreRead, TypeOK
  <2>2. aim' \in Places \cup {NoPlace} BY <1>3, FieldIsPlace DEF PreRead, Stages
  <2>3. spoiled' \in BOOLEAN BY <1>3 DEF PreRead, TypeOK
  <2> QED BY <1>3, <2>1, <2>2, <2>3 DEF TypeOK, PreRead, clocks
<1>4. CASE PreReadBare
  <2>1. LateTyped BY <1>4, NothingIsTyped DEF PreReadBare
  <2>2. done' \in 0 .. N BY <1>4 DEF PreReadBare, Advance, Stages, TypeOK
  <2>3. pc' \in {"pre", "set"} => done' < N
    BY <1>4, <2>2 DEF PreReadBare, Advance, AllWritten
  <2> QED BY <1>4, <2>1, <2>2, <2>3 DEF TypeOK, PreReadBare, Advance, clocks
<1>5. CASE ConversationFails
  BY <1>5 DEF TypeOK, ConversationFails, Raise, clocks, ghosts
<1>6. CASE SetConfirmed
  <2>1. LateTyped BY <1>6, NothingIsTyped DEF SetConfirmed
  <2>2. done' \in 0 .. N BY <1>6 DEF SetConfirmed, Advance, Stages, TypeOK
  <2>3. device' \in Clocks
    BY <1>6, SetOfIsTyped, OverlaidIsClock DEF SetConfirmed, Stages, InLock, TypeOK
  <2>4. pc' \in {"pre", "set"} => done' < N
    BY <1>6, <2>2 DEF SetConfirmed, Advance, AllWritten
  <2> QED BY <1>6, <2>1, <2>2, <2>3, <2>4 DEF TypeOK, SetConfirmed, Advance, ghosts
<1>7. CASE SetUnconfirmed
  <2>1. LateTyped
    BY <1>7, NothingIsTyped, SetOfIsTyped DEF SetUnconfirmed, Stages, InLock, TypeOK
  <2>2. device' \in Clocks
    BY <1>7, SetOfIsTyped, OverlaidIsClock DEF SetUnconfirmed, Stages, InLock, TypeOK
  <2> QED BY <1>7, <2>1, <2>2 DEF TypeOK, SetUnconfirmed, Unverified, Raise, ghosts
<1>8. CASE GetFrame
  <2>1. LateTyped BY <1>8, NothingIsTyped DEF GetFrame, TypeOK
  <2> QED BY <1>8, <2>1 DEF TypeOK, GetFrame, clocks, ghosts
<1>9. CASE SetFrame
  <2>1. now \in Clocks BY <1>9 DEF SetFrame, Stages, InLock
  <2>2. LateTyped BY <1>9, <2>1, NothingIsTyped, NowIsTyped DEF SetFrame, TypeOK
  <2>3. device' \in Clocks BY <1>9, <2>1, NowIsOverlaid DEF SetFrame, TypeOK
  <2> QED BY <1>9, <2>2, <2>3 DEF TypeOK, SetFrame, Raise, ghosts
<1>10. CASE ReadBack
  <2>1. LateTyped BY <1>10, NothingIsTyped DEF ReadBack, TypeOK
  <2>2. shown' \in Clocks \cup {NoTime} BY <1>10 DEF ReadBack, Merged, TypeOK
  <2> QED BY <1>10, <2>1, <2>2 DEF TypeOK, ReadBack, clocks, ghosts
<1>11. CASE Leave
  <2>1. /\ pc' = "idle" /\ now' = NoTime /\ done' = 0 /\ aim' = NoPlace /\ status' = 200
        /\ shown' = NoTime /\ since' = {} /\ old' = device
    BY <1>11 DEF Leave
  <2>2. UNCHANGED <<registers, clock, device, late>>
    BY <1>11 DEF Leave, clocks
  <2>3. rolled' \in BOOLEAN /\ spoiled' \in BOOLEAN BY <1>11 DEF Leave
  <2> QED BY <2>1, <2>2, <2>3 DEF TypeOK
<1>12. CASE GatewayTicks
  BY <1>12, TickedIsClock DEF TypeOK, GatewayTicks, call
<1>13. CASE DeviceTicks
  BY <1>13, TickedIsClock DEF TypeOK, DeviceTicks, call
<1>14. CASE PanelChange
  BY <1>14 DEF TypeOK, PanelChange, call, InLock
<1>15. CASE LateTake
  <2>1. LateTyped BY <1>15, NothingIsTyped DEF LateTake
  <2>2. Overlay(late, device) \in Clocks /\ Overlay(late, old) \in Clocks
    BY LateIsTyped, OverlaidIsClock DEF TypeOK
  <2> QED BY <1>15, <2>1, <2>2 DEF TypeOK, LateTake, call
<1>16. CASE UNCHANGED vars
  BY <1>16 DEF TypeOK, vars, clocks, call, ghosts
<1> QED BY <1>1, <1>2, <1>3, <1>4, <1>5, <1>6, <1>7, <1>8, <1>9, <1>10, <1>11, <1>12,
         <1>13, <1>14, <1>15, <1>16 DEF Next, SetTime

-----------------------------------------------------------------------------
(* Where the call is, and what is on its way *)

LEMMA StagesStep == ASSUME Inv, [Next]_vars PROVE Stages'
<1> TypeOK /\ Stages BY DEF Inv
<1> USE DEF Stages, InLock
<1>1. CASE Call BY <1>1 DEF Call, clocks, ghosts
<1>2. CASE Acquire BY <1>2 DEF Acquire, clocks, TypeOK
<1>3. CASE PreRead BY <1>3 DEF PreRead, clocks
<1>4. CASE PreReadBare BY <1>4 DEF PreReadBare, Advance, AllWritten, clocks, TypeOK
<1>5. CASE ConversationFails BY <1>5 DEF ConversationFails, Raise, clocks, ghosts
<1>6. CASE SetConfirmed BY <1>6 DEF SetConfirmed, Advance, AllWritten, ghosts, TypeOK
<1>7. CASE SetUnconfirmed BY <1>7 DEF SetUnconfirmed, Unverified, Raise, ghosts
<1>8. CASE GetFrame BY <1>8 DEF GetFrame, clocks, ghosts
<1>9. CASE SetFrame BY <1>9 DEF SetFrame, Raise, ghosts
<1>10. CASE ReadBack BY <1>10 DEF ReadBack, clocks, ghosts
<1>11. CASE Leave BY <1>11 DEF Leave, clocks
<1>12. CASE GatewayTicks BY <1>12 DEF GatewayTicks, call
<1>13. CASE DeviceTicks BY <1>13 DEF DeviceTicks, call
<1>14. CASE PanelChange BY <1>14 DEF PanelChange, call
<1>15. CASE LateTake BY <1>15 DEF LateTake, call
<1>16. CASE UNCHANGED vars BY <1>16 DEF vars, clocks, call, ghosts
<1> QED BY <1>1, <1>2, <1>3, <1>4, <1>5, <1>6, <1>7, <1>8, <1>9, <1>10, <1>11, <1>12, <1>13, <1>14, <1>15, <1>16 DEF Next, SetTime

LEMMA PendingStep == ASSUME Inv, [Next]_vars PROVE Pending'
<1> TypeOK /\ Stages /\ Pending BY DEF Inv
<1> USE DEF Pending
<1>1. CASE Call BY <1>1 DEF Call
<1>2. CASE Acquire BY <1>2 DEF Acquire, Stages
<1>3. CASE PreRead BY <1>3 DEF PreRead, Field
<1>4. CASE PreReadBare BY <1>4 DEF PreReadBare
<1>5. CASE ConversationFails BY <1>5 DEF ConversationFails, Raise
<1>6. CASE SetConfirmed BY <1>6 DEF SetConfirmed, Advance, Stages, ghosts
<1>7. CASE SetUnconfirmed BY <1>7 DEF SetUnconfirmed, Unverified, Raise
<1>8. CASE GetFrame BY <1>8 DEF GetFrame, Stages, clocks
<1>9. CASE SetFrame BY <1>9 DEF SetFrame, Raise, Stages, ghosts
<1>10. CASE ReadBack BY <1>10 DEF ReadBack
<1>11. CASE Leave BY <1>11 DEF Leave
<1>12. CASE GatewayTicks BY <1>12 DEF GatewayTicks, call, Field
<1>13. CASE DeviceTicks BY <1>13 DEF DeviceTicks, call, Field
<1>14. CASE PanelChange BY <1>14 DEF PanelChange, call, Field, InLock
<1>15. CASE LateTake BY <1>15 DEF LateTake, call, Field
<1>16. CASE UNCHANGED vars BY <1>16 DEF vars, clocks, call, ghosts, Field
<1> QED BY <1>1, <1>2, <1>3, <1>4, <1>5, <1>6, <1>7, <1>8, <1>9, <1>10, <1>11, <1>12, <1>13, <1>14, <1>15, <1>16 DEF Next, SetTime

-----------------------------------------------------------------------------
(* How far the clock has been written *)

\* CLOCK_FIELDS lists every place once, the minutes last.
LEMMA Fields ==
  /\ \A i \in Places : CLOCK_FIELDS[i] \in Places
  /\ \A i, j \in Places : CLOCK_FIELDS[i] = CLOCK_FIELDS[j] => i = j
  /\ N \in Places /\ CLOCK_FIELDS[N] = 1
  /\ \A i \in Places : i # N => CLOCK_FIELDS[i] # 1
  /\ \A p \in Places : \E i \in Places : CLOCK_FIELDS[i] = p
<1>1. N \in Places BY DEF Places
<1>2. CLOCK_FIELDS \in [Places -> Places] OBVIOUS
<1>3. \A i, j \in Places : CLOCK_FIELDS[i] = CLOCK_FIELDS[j] => i = j OBVIOUS
<1> QED BY <1>1, <1>2, <1>3

LEMMA MixtureKept ==
  ASSUME NEW k, Mixture(k), now' = now, device' = device, old' = old
  PROVE  Mixture(k)'
BY DEF Mixture

\* A minute later, without a carry on the device, it is the same mixture.
LEMMA MixtureTicks ==
  ASSUME TypeOK, NEW k \in 0 .. N, Mixture(k), now \in Clocks, now' = now,
         device' = Ticked(device), old' = Ticked(old), device[1] # Radix[1] - 1
  PROVE  Mixture(k)'
<1> device \in Clocks /\ old \in Clocks BY DEF TypeOK
<1>1. device'[1] = device[1] + 1 /\ \A p \in Places : p # 1 => device'[p] = device[p]
  BY TickedMinutes
<1>2. SUFFICES ASSUME NEW i \in Places
               PROVE  IF i <= k
                      THEN \/ device'[CLOCK_FIELDS[i]] = now[CLOCK_FIELDS[i]]
                           \/ CLOCK_FIELDS[i] = 1 /\ device'[CLOCK_FIELDS[i]] > now[CLOCK_FIELDS[i]]
                      ELSE device'[CLOCK_FIELDS[i]] = old'[CLOCK_FIELDS[i]]
  BY DEF Mixture
<1>3. CASE i <= k /\ i # N
  <2>1. CLOCK_FIELDS[i] \in Places /\ CLOCK_FIELDS[i] # 1 BY <1>3, Fields
  <2> QED BY <1>1, <1>3, <2>1 DEF Mixture
<1>4. CASE i <= k /\ i = N
  <2>1. CLOCK_FIELDS[i] = 1 /\ 1 \in Places BY <1>4, Fields
  <2>2. device[1] \in Nat /\ now[1] \in Nat BY <2>1, ClockPlaces
  <2>3. device[1] = now[1] \/ device[1] > now[1] BY <1>4, <2>1 DEF Mixture
  <2> QED BY <1>1, <1>4, <2>1, <2>2, <2>3
<1>5. CASE ~(i <= k)
  <2>1. N \in Places /\ ~(N <= k) BY <1>5, Fields DEF Places
  <2>2. device[1] = old[1] BY <2>1, Fields DEF Mixture
  <2>3. old'[1] = old[1] + 1 /\ \A p \in Places : p # 1 => old'[p] = old[p]
    BY <2>2, TickedMinutes
  <2>4. CLOCK_FIELDS[i] \in Places /\ device[CLOCK_FIELDS[i]] = old[CLOCK_FIELDS[i]]
    BY <1>5, Fields DEF Mixture
  <2> QED BY <1>1, <1>5, <2>2, <2>3, <2>4
<1> QED BY <1>3, <1>4, <1>5

\* One more field is written.
LEMMA MixtureGrows ==
  ASSUME TypeOK, now \in Clocks, done < N, Mixture(done), aim = Field,
         now' = now, old' = old, device' = Overlay(SetOf, device)
  PROVE  /\ \A k : k = done + 1 => Mixture(k)'
         /\ device'[Field] = now[Field]
<1>1. Field \in Places BY FieldIsPlace
<1>2. SetOf = [p \in {Field} |-> now[Field]]
  BY <1>1, ClockPlaces DEF SetOf
<1>3. device'[Field] = now[Field] /\ \A p \in Places : p # Field => device'[p] = device[p]
  BY <1>1, <1>2 DEF Overlay
<1>4. ASSUME NEW k, k = done + 1, NEW i \in Places
      PROVE  IF i <= k
             THEN \/ device'[CLOCK_FIELDS[i]] = now[CLOCK_FIELDS[i]]
                  \/ CLOCK_FIELDS[i] = 1 /\ device'[CLOCK_FIELDS[i]] > now[CLOCK_FIELDS[i]]
             ELSE device'[CLOCK_FIELDS[i]] = old[CLOCK_FIELDS[i]]
  <2>1. CASE i = done + 1 BY <1>3, <1>4, <2>1 DEF Field, Places
  <2>2. CASE i # done + 1
    <3>1. done + 1 \in Places BY DEF TypeOK, Places
    <3>2. CLOCK_FIELDS[i] # Field BY <2>2, <3>1, Fields DEF Field
    <3>3. CLOCK_FIELDS[i] \in Places BY Fields
    <3>4. (i <= k) <=> (i <= done)
      <4>1. done \in Nat /\ i \in Nat BY DEF TypeOK, Places
      <4> QED BY <1>4, <2>2, <4>1
    <3> QED BY <1>3, <3>2, <3>3, <3>4 DEF Mixture
  <2> QED BY <2>1, <2>2
<1> QED BY <1>3, <1>4 DEF Mixture

\* All fields at once.
LEMMA MixtureWhole ==
  ASSUME NEW k, now \in Clocks, now' = now, device' = now, k = N PROVE Mixture(k)'
BY Fields DEF Mixture, Places

LEMMA MixtureAtFirst == ASSUME old = device PROVE Mixture(0)
BY DEF Mixture, Places

LEMMA ProgressStep == ASSUME Inv, [Next]_vars PROVE Progress'
<1> TypeOK /\ Stages /\ Pending /\ Progress BY DEF Inv
<1> SUFFICES ASSUME Clean' PROVE Progress' BY DEF Progress
<1> USE DEF Clean
<1>1. CASE Call
  BY <1>1 DEF Call, Progress
<1>2. CASE Acquire
  <2>1. pc' \in {"pre", "get"} /\ done' = 0 /\ old' = device'
    BY <1>2 DEF Acquire, clocks, Stages
  <2>2. Mixture(0)' BY <2>1 DEF Mixture, Places
  <2> QED BY <2>1, <2>2 DEF Progress
<1>3. CASE PreRead
  <2>1. Clean /\ pc = "pre" /\ pc' = "set" /\ UNCHANGED <<now, device, old, done>>
    BY <1>3 DEF PreRead, clocks
  <2>2. Mixture(done)' BY <2>1, MixtureKept DEF Progress
  <2> QED BY <2>1, <2>2 DEF Progress
<1>4. CASE PreReadBare
  BY <1>4 DEF PreReadBare
<1>5. CASE ConversationFails
  <2>1. /\ Clean /\ pc \in {"pre", "get", "readback"} /\ pc' = "leave"
        /\ UNCHANGED <<registers, now, device, old, done>>
    BY <1>5 DEF ConversationFails, Raise, clocks, ghosts
  <2>2. Mixture(done) \/ (~registers /\ Mixture(0)) BY <2>1 DEF Progress
  <2>3. ASSUME NEW k, Mixture(k) PROVE Mixture(k)' BY <2>1, <2>3, MixtureKept
  <2>4. ~registers => done \in {0, N} BY DEF Stages
  <2> QED BY <2>1, <2>2, <2>3, <2>4 DEF Progress
<1>6. CASE SetConfirmed
  <2>1. /\ Clean /\ pc = "set" /\ pc' \in {"pre", "readback"} /\ done' = done + 1
        /\ UNCHANGED <<now, old>> /\ device' = Overlay(SetOf, device)
    BY <1>6 DEF SetConfirmed, Advance, ghosts
  <2>2. Mixture(done) /\ aim = Field /\ now \in Clocks /\ done < N
    BY <2>1 DEF Progress, Pending, Stages, InLock
  <2>3. Mixture(done)' BY <2>1, <2>2, MixtureGrows
  <2> QED BY <2>1, <2>3 DEF Progress
<1>7. CASE SetUnconfirmed
  <2>1. /\ Clean /\ pc = "set" /\ registers /\ pc' = "leave"
        /\ UNCHANGED <<registers, now, old, done>>
    BY <1>7 DEF SetUnconfirmed, Unverified, Raise, ghosts, Stages
  <2>2. Mixture(done) /\ aim = Field /\ now \in Clocks /\ done < N
    BY <2>1 DEF Progress, Pending, Stages, InLock
  <2>3. CASE device' = device
    <3>1. Mixture(done)' BY <2>1, <2>2, <2>3, MixtureKept
    <3> QED BY <2>1, <3>1 DEF Progress
  <2>4. CASE device' = Overlay(SetOf, device)
    <3>1. \A k : k = done + 1 => Mixture(k)' BY <2>1, <2>2, <2>4, MixtureGrows
    <3> QED BY <2>1, <3>1 DEF Progress
  <2> QED BY <1>7, <2>3, <2>4 DEF SetUnconfirmed
<1>8. CASE GetFrame
  <2>1. Clean /\ pc = "get" /\ pc' \in {"frame", "readback"} /\ UNCHANGED <<now, device, old, done>>
    BY <1>8 DEF GetFrame, clocks, ghosts
  <2>2. Mixture(done)' BY <2>1, MixtureKept DEF Progress
  <2> QED BY <2>1, <2>2 DEF Progress
<1>9. CASE SetFrame
  <2>1. /\ Clean /\ pc = "frame" /\ ~registers /\ now \in Clocks /\ Mixture(0)
        /\ UNCHANGED <<registers, now, old>>
    BY <1>9 DEF SetFrame, Raise, ghosts, Stages, InLock, Progress
  <2>2. pc' = "leave" \/ (pc' = "readback" /\ done' = N)
    BY <1>9 DEF SetFrame, Raise
  <2>3. device' = device \/ device' = now
    BY <1>9, <2>1, NowIsOverlaid DEF SetFrame, TypeOK
  <2>4. Mixture(0)' \/ (\A k : k = N => Mixture(k)')
    BY <2>1, <2>3, MixtureKept, MixtureWhole
  <2> QED BY <2>1, <2>2, <2>4 DEF Progress
<1>10. CASE ReadBack
  BY <1>10 DEF ReadBack, Progress
<1>11. CASE Leave
  BY <1>11 DEF Leave, Progress
<1>12. CASE GatewayTicks
  <2>1. Clean /\ UNCHANGED <<registers, pc, status, now, device, old, done>>
    BY <1>12 DEF GatewayTicks, call
  <2>2. ASSUME NEW k, Mixture(k) PROVE Mixture(k)' BY <2>1, <2>2, MixtureKept
  <2> QED BY <2>1, <2>2 DEF Progress
<1>13. CASE DeviceTicks
  <2>1. CASE ~InLock
    BY <1>13, <2>1 DEF DeviceTicks, call, InLock, Progress
  <2>2. CASE InLock
    <3>1. /\ Clean /\ device[1] # Radix[1] - 1 /\ now \in Clocks
          /\ UNCHANGED <<registers, pc, status, now, done>>
      BY <1>13, <2>2 DEF DeviceTicks, call, Stages
    <3>2. ASSUME NEW k \in 0 .. N, Mixture(k) PROVE Mixture(k)'
      BY <1>13, <3>1, <3>2, MixtureTicks DEF DeviceTicks
    <3>3. done \in 0 .. N /\ 0 \in 0 .. N /\ N \in 0 .. N BY DEF TypeOK
    <3>4. \A k : k = done + 1 /\ Mixture(k) => k \in 0 .. N \/ Mixture(N)
      BY <3>3 DEF Mixture, Places
    <3>5. pc = "leave" /\ status # 200 =>
            \E k \in IF registers THEN {done, done + 1} ELSE {0, N} : Mixture(k)'
      <4> SUFFICES ASSUME pc = "leave", status # 200
                   PROVE  \E k \in IF registers THEN {done, done + 1} ELSE {0, N} : Mixture(k)'
        OBVIOUS
      <4>1. PICK k \in IF registers THEN {done, done + 1} ELSE {0, N} : Mixture(k)
        BY <3>1 DEF Progress
      <4>2. CASE k \in 0 .. N BY <3>2, <4>1, <4>2
      <4>3. CASE k \notin 0 .. N
        <5>1. registers /\ k = done + 1 /\ done = N BY <3>3, <4>1, <4>3
        <5>2. Mixture(N)' BY <3>2, <3>3, <3>4, <4>1, <4>3, <5>1
        <5> QED BY <5>1, <5>2
      <4> QED BY <4>2, <4>3
    <3> QED BY <3>1, <3>2, <3>3, <3>5 DEF Progress
  <2> QED BY <2>1, <2>2
<1>14. CASE PanelChange
  BY <1>14 DEF PanelChange, InLock, call, Progress
<1>15. CASE LateTake
  <2>1. Clean /\ pc # "leave" /\ late # Nothing /\ UNCHANGED <<registers, pc, now, done, status>>
    BY <1>15 DEF LateTake, call
  <2>2. CASE pc \in {"pre", "get"} \/ (pc = "readback" /\ done # N)
    <3>1. done = 0 /\ Mixture(0) /\ old' = Overlay(late, old) /\ device' = Overlay(late, device)
      BY <1>15, <2>1, <2>2 DEF LateTake, Progress, Pending, Stages
    <3>2. ASSUME NEW p \in Places PROVE device[p] = old[p]
      <4>1. PICK i \in Places : CLOCK_FIELDS[i] = p BY Fields
      <4>2. ~(i <= 0) BY DEF Places
      <4> QED BY <3>1, <4>1, <4>2 DEF Mixture
    <3>3. \A p \in Places : device'[p] = old'[p] BY <3>1, <3>2 DEF Overlay
    <3>4. Mixture(0)'
      <4>1. \A i \in Places : ~(i <= 0) BY DEF Places
      <4>2. \A i \in Places : CLOCK_FIELDS[i] \in Places BY Fields
      <4> QED BY <3>3, <4>1, <4>2 DEF Mixture
    <3> QED BY <2>1, <2>2, <3>1, <3>4 DEF Progress
  <2>3. CASE pc = "readback" /\ done = N
    <3>1. ~registers /\ late = now /\ now \in Clocks
      BY <2>1, <2>3 DEF Pending, Stages, InLock
    <3>2. device' = now BY <1>15, <3>1, NowIsOverlaid DEF LateTake, TypeOK
    <3>3. Mixture(done)' BY <2>1, <2>3, <3>1, <3>2, MixtureWhole
    <3> QED BY <2>1, <2>3, <3>3 DEF Progress
  <2>4. CASE pc \notin {"pre", "get", "readback"}
    BY <2>1, <2>4 DEF Pending, Progress
  <2> QED BY <2>2, <2>3, <2>4
<1>16. CASE UNCHANGED vars
  <2>1. Clean /\ UNCHANGED <<registers, pc, status, now, device, old, done>>
    BY <1>16 DEF vars, clocks, call, ghosts
  <2>2. ASSUME NEW k, Mixture(k) PROVE Mixture(k)' BY <2>1, <2>2, MixtureKept
  <2> QED BY <2>1, <2>2 DEF Progress
<1> QED BY <1>1, <1>2, <1>3, <1>4, <1>5, <1>6, <1>7, <1>8, <1>9, <1>10, <1>11, <1>12, <1>13, <1>14, <1>15, <1>16 DEF Next, SetTime

-----------------------------------------------------------------------------
(* Theorems *)

THEOREM Invariance == Spec => []Inv
<1>1. Init => Inv
  <2> SUFFICES ASSUME Init PROVE Inv OBVIOUS
  <2>1. TypeOK
    <3>1. late \in Fieldsets /\ \A p \in DOMAIN late : late[p] < Radix[p]
      BY NothingIsTyped DEF Init
    <3>2. done \in 0 .. N /\ old \in Clocks /\ since \subseteq Clocks BY DEF Init
    <3> QED BY <3>1, <3>2 DEF Init, TypeOK
  <2>2. Stages /\ Pending /\ Progress BY DEF Init, Stages, Pending, Progress, InLock
  <2> QED BY <2>1, <2>2 DEF Inv
<1>2. Inv /\ [Next]_vars => Inv'
  BY Typing, StagesStep, PendingStep, ProgressStep DEF Inv
<1> QED BY <1>1, <1>2, PTL DEF Spec

\* Every variable keeps to its values, the clocks to times that exist.
THEOREM TypeCorrect == Spec => []TypeOK
<1>1. Inv => TypeOK BY DEF Inv
<1> QED BY <1>1, Invariance, PTL

\* A set-time that fails leaves a beginning of its fields written.
THEOREM FailureIsPrefix == Spec => []FailureLeavesPrefix
<1>1. Inv => FailureLeavesPrefix
  BY DEF Inv, Progress, Clean, FailureLeavesPrefix
<1> QED BY <1>1, Invariance, PTL

\* After the last field the heat pump shows a time of the gateway during this call.
THEOREM ClockIsSet == Spec => SetTimeSetsClock
<1>1. ASSUME Inv, [Next]_vars, pc = "set", pc' = "readback", ~rolled, ~spoiled
      PROVE  device' \in since
  <2> TypeOK /\ Stages /\ Pending /\ Progress BY <1>1 DEF Inv
  <2>1. SetConfirmed
    BY <1>1 DEF Next, SetTime, Call, Acquire, PreRead, PreReadBare, ConversationFails, Raise,
      SetUnconfirmed, Unverified, GetFrame, SetFrame, ReadBack, Leave, GatewayTicks,
      DeviceTicks, PanelChange, LateTake, vars, call
  <2>2. /\ now \in Clocks /\ now \in since /\ done < N /\ Mixture(done) /\ aim = Field
        /\ UNCHANGED <<now, old>> /\ device' = Overlay(SetOf, device)
    BY <1>1, <2>1 DEF Stages, Pending, Progress, Clean, InLock, SetConfirmed, Advance, ghosts
  <2>3. done + 1 = N BY <1>1, <2>1 DEF SetConfirmed, Advance, AllWritten
  <2>4. device'[Field] = now[Field] /\ \A k : k = done + 1 => Mixture(k)' BY <2>2, MixtureGrows
  <2>5. Field = 1 /\ Mixture(N)' BY <2>3, <2>4 DEF Field
  <2>6. ASSUME NEW p \in Places PROVE device'[p] = now[p]
    <3>1. PICK i \in Places : CLOCK_FIELDS[i] = p BY Fields
    <3>2. i <= N BY DEF Places
    <3> QED BY <2>2, <2>4, <2>5, <3>1, <3>2 DEF Mixture
  <2>7. device' \in Clocks BY <1>1, Typing DEF TypeOK
  <2>8. device' = now BY <2>2, <2>6, <2>7 DEF Clocks
  <2> QED BY <2>2, <2>8
<1>2. Inv /\ [Next]_vars =>
        [pc = "set" /\ pc' = "readback" /\ ~rolled /\ ~spoiled => device' \in since]_vars
  BY <1>1
<1> QED BY <1>2, Invariance, PTL DEF Spec, SetTimeSetsClock
=============================================================================
