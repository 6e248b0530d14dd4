-------------------------- MODULE TransportProofs --------------------------
(***************************************************************************)
(* The reader threads of transport.py, for any number of bytes, openings,  *)
(* threads and reads that raise: no byte that was read is dropped or       *)
(* handed out twice, and as long as no join is overrun, the queue keeps    *)
(* the order of the line and no thread outlives its port.                  *)
(***************************************************************************)
EXTENDS Transport, SequenceTheorems, TLAPS

USE TransportAssumption

\* A thread has a byte in its hand from the read to the put.
Hands == \A r \in Readers : (hand[r] # NoByte) <=> (loop[r] = "put")

\* Only the thread of the open port lives, and it has to stop once close has begun.
OneReader ==
  /\ pc = "join" => ~running
  /\ ~overrun => \A r \in Readers : Alive(r) => r = reader /\ serial /\ pc # "shut"

\* The bytes on the line are in order, and those that were read were sent before them,
\* in order as well if only one thread has read.
Order ==
  /\ \A i, j \in 1 .. Len(line) : i < j => line[i] < line[j]
  /\ ToSet(line) \cap lost = {}
  /\ ~overrun =>
       /\ \A i, j \in 1 .. Len(Given) : i < j => Given[i] < Given[j]
       /\ \A b \in ToSet(Given), h \in Held : b < h
       /\ \A b \in ToSet(Given) \cup Held, l \in ToSet(line) : b < l

Inv == TypeOK /\ Hands /\ OneReader /\ EveryByteOnce /\ Order

-----------------------------------------------------------------------------
(* Types *)

\* Every step keeps the types.
LEMMA TypeStep == ASSUME TypeOK, Hands, [Next]_vars PROVE TypeOK'
<1> USE DEF TypeOK
<1>0. <<>> \in Seq(Nat) /\ ToSet(line) \in SUBSET Nat BY DEF ToSet
<1>1. CASE Open BY <1>0, <1>1 DEF Open
<1>2. CASE Close BY <1>2 DEF Close, Stopped, threads, wire
<1>3. CASE Join BY <1>3 DEF Join, threads, wire
<1>4. CASE Shut BY <1>0, <1>4 DEF Shut, threads
<1>5. CASE Get
  <2>1. Head(queue) \in Nat /\ Tail(queue) \in Seq(Nat) BY <1>5 DEF Get
  <2>2. Append(got, Head(queue)) \in Seq(Nat) BY <2>1
  <2> QED BY <1>5, <2>1, <2>2 DEF Get, threads, wire
<1>6. ASSUME NEW r \in Readers, ReadLoop(r) PROVE TypeOK'
  <2>1. CASE Test(r) BY <2>1 DEF Test, Goto, caller, wire
  <2>2. CASE Read(r)
    <3>1. line # <<>> => Head(line) \in Nat /\ Tail(line) \in Seq(Nat) OBVIOUS
    <3>2. errors' \in 0 .. MaxErrors BY <2>2 DEF Read
    <3> QED BY <2>2, <3>1, <3>2 DEF Read, Goto, caller, AfterNothing, AfterError
  <2>3. CASE Put(r)
    <3>1. hand[r] \in Nat BY <2>3 DEF Put, Hands
    <3>2. Append(queue, hand[r]) \in Seq(Nat) BY <3>1
    <3> QED BY <2>3, <3>2 DEF Put, Goto, caller, wire, Kept
  <2> QED BY <1>6, <2>1, <2>2, <2>3 DEF ReadLoop
<1>7. CASE Arrive
  <2>1. Append(line, sent + 1) \in Seq(Nat) OBVIOUS
  <2> QED BY <1>7, <2>1 DEF Arrive, caller, threads
<1>8. CASE Unplug BY <1>0, <1>8 DEF Unplug, caller, threads
<1>9. CASE Replug BY <1>9 DEF Replug, caller, threads
<1>10. CASE UNCHANGED vars BY <1>10 DEF vars
<1> QED BY <1>1, <1>2, <1>3, <1>4, <1>5, <1>6, <1>7, <1>8, <1>9, <1>10 DEF Next

-----------------------------------------------------------------------------
(* The threads *)

\* A thread puts the byte it has before it goes on (_read_loop).
LEMMA HandsStep == ASSUME TypeOK, Hands, [Next]_vars PROVE Hands'
<1> USE DEF TypeOK, Hands
<1>1. CASE Open BY <1>1 DEF Open, Alive
<1>2. CASE Close \/ Join \/ Shut \/ Get \/ Arrive \/ Unplug \/ Replug \/ UNCHANGED vars
  BY <1>2 DEF Close, Join, Shut, Get, Arrive, Unplug, Replug, vars, threads
<1>3. ASSUME NEW r \in Readers, ReadLoop(r) PROVE Hands'
  <2>1. CASE Test(r) BY <2>1 DEF Test, Goto
  <2>2. CASE Read(r)
    <3>1. line # <<>> => Head(line) \in Nat OBVIOUS
    <3> QED BY <2>2, <3>1 DEF Read, Goto, AfterNothing, AfterError
  <2>3. CASE Put(r) BY <2>3 DEF Put, Goto
  <2> QED BY <1>3, <2>1, <2>2, <2>3 DEF ReadLoop
<1> QED BY <1>1, <1>2, <1>3 DEF Next

\* A new thread starts on a closed port only, and close waits for the old one (open, close).
LEMMA OneReaderStep == ASSUME TypeOK, OneReader, [Next]_vars PROVE OneReader'
<1> USE DEF TypeOK, OneReader, Alive
<1>1. CASE Open BY <1>1 DEF Open
<1>2. CASE Close BY <1>2 DEF Close, Stopped, threads
<1>3. CASE Join BY <1>3 DEF Join, Joined, threads
<1>4. CASE Shut BY <1>4 DEF Shut, threads
<1>5. CASE Get \/ Arrive \/ Unplug \/ Replug \/ UNCHANGED vars
  BY <1>5 DEF Get, Arrive, Unplug, Replug, vars, threads, caller
<1>6. ASSUME NEW r \in Readers, ReadLoop(r) PROVE OneReader'
  <2>1. CASE Test(r) BY <2>1 DEF Test, Goto, caller
  <2>2. CASE Read(r) BY <2>2 DEF Read, Goto, caller, AfterNothing, AfterError
  <2>3. CASE Put(r) BY <2>3 DEF Put, Goto, caller
  <2> QED BY <1>6, <2>1, <2>2, <2>3 DEF ReadLoop
<1> QED BY <1>1, <1>2, <1>3, <1>4, <1>5, <1>6 DEF Next

-----------------------------------------------------------------------------
(* Where the bytes are *)

\* A sequence with one more element.
LEMMA Appended ==
  ASSUME NEW s \in Seq(Nat), NEW n \in Nat
  PROVE  /\ Append(s, n) \in Seq(Nat) /\ Len(Append(s, n)) = Len(s) + 1
         /\ \A i \in 1 .. Len(s) : Append(s, n)[i] = s[i]
         /\ Append(s, n)[Len(s) + 1] = n
         /\ ToSet(Append(s, n)) = ToSet(s) \cup {n}
<1> DEFINE a == Append(s, n)
<1>1. /\ a \in Seq(Nat) /\ Len(a) = Len(s) + 1 /\ a[Len(s) + 1] = n
      /\ \A i \in 1 .. Len(s) : a[i] = s[i]
  OBVIOUS
<1>2. \A i \in 1 .. Len(a) : i \in 1 .. Len(s) \/ i = Len(s) + 1
  BY <1>1
<1> HIDE DEF a
<1>3. 1 .. Len(s) \subseteq 1 .. Len(a) /\ Len(s) + 1 \in 1 .. Len(a)
  BY <1>1
<1>4. DOMAIN a = 1 .. Len(a) /\ DOMAIN s = 1 .. Len(s)
  BY <1>1
<1>5. ToSet(a) = ToSet(s) \cup {n}
  BY <1>1, <1>2, <1>3, <1>4 DEF ToSet
<1> QED BY <1>1, <1>5 DEF a

\* A sequence without its first element.
LEMMA Shortened ==
  ASSUME NEW s \in Seq(Nat), s # <<>>
  PROVE  /\ Head(s) \in Nat /\ Tail(s) \in Seq(Nat) /\ Len(Tail(s)) = Len(s) - 1
         /\ Head(s) = s[1] /\ 1 \in 1 .. Len(s)
         /\ \A i \in 1 .. Len(Tail(s)) : Tail(s)[i] = s[i + 1] /\ i + 1 \in 1 .. Len(s)
         /\ ToSet(s) = {Head(s)} \cup ToSet(Tail(s))
<1> DEFINE t == Tail(s)
<1>1. /\ Head(s) \in Nat /\ t \in Seq(Nat) /\ Len(t) = Len(s) - 1
      /\ Head(s) = s[1] /\ 1 \in 1 .. Len(s)
      /\ \A i \in 1 .. Len(t) : t[i] = s[i + 1] /\ i + 1 \in 1 .. Len(s)
  OBVIOUS
<1> HIDE DEF t
<1>2. \A i \in 1 .. Len(s) : i = 1 \/ (i - 1 \in 1 .. Len(t) /\ s[i] = t[i - 1])
  <2> TAKE i \in 1 .. Len(s)
  <2>1. i = 1 \/ i - 1 \in 1 .. Len(t)
    BY <1>1
  <2>2. (i - 1) + 1 = i
    OBVIOUS
  <2> QED BY <1>1, <2>1, <2>2
<1>3. DOMAIN t = 1 .. Len(t) /\ DOMAIN s = 1 .. Len(s)
  BY <1>1
<1>4. \A i \in 1 .. Len(s) : s[i] \in {Head(s)} \cup {t[j] : j \in 1 .. Len(t)}
  BY <1>1, <1>2
<1>5. \A j \in 1 .. Len(t) : t[j] \in {s[i] : i \in 1 .. Len(s)}
  BY <1>1
<1>6. ToSet(s) = {s[i] : i \in 1 .. Len(s)} /\ ToSet(t) = {t[j] : j \in 1 .. Len(t)}
  BY <1>3 DEF ToSet
<1>7. ToSet(s) = {Head(s)} \cup ToSet(t)
  BY <1>1, <1>4, <1>5, <1>6
<1> QED BY <1>1, <1>7 DEF t

\* How a sequence is put together does not matter.
LEMMA Associated ==
  ASSUME NEW s \in Seq(Nat), NEW t \in Seq(Nat), NEW u \in Seq(Nat)
  PROVE  (s \o t) \o u = s \o (t \o u)
<1> DEFINE a == (s \o t) \o u
           b == s \o (t \o u)
<1>1. /\ a \in Seq(Nat) /\ b \in Seq(Nat)
      /\ Len(a) = Len(s) + Len(t) + Len(u) /\ Len(b) = Len(s) + Len(t) + Len(u)
  OBVIOUS
<1>2. \A i \in 1 .. Len(a) : a[i] = b[i]
  OBVIOUS
<1> HIDE DEF a, b
<1>3. a = b
  BY <1>1, <1>2, SeqEqual
<1> QED BY <1>3 DEF a, b

\* get and put as they look to Given.
LEMMA GivenSteps ==
  ASSUME TypeOK
  PROVE  /\ Given \in Seq(Nat)
         /\ UNCHANGED <<got, queue>> => Given' = Given
         /\ Get => Given' = Given
         /\ \A x \in Nat : got' = got /\ queue' = Append(queue, x) => Given' = Append(Given, x)
<1> USE DEF TypeOK
<1>1. Given \in Seq(Nat)
  BY ConcatProperties DEF Given
<1>2. UNCHANGED <<got, queue>> => Given' = Given
  BY DEF Given
<1>3. ASSUME Get PROVE Given' = Given
  <2>1. queue # <<>> /\ got' = Append(got, Head(queue)) /\ queue' = Tail(queue)
    BY <1>3 DEF Get
  <2>2. Head(queue) \in Nat /\ Tail(queue) \in Seq(Nat)
    BY <2>1
  <2> DEFINE first == <<Head(queue)>>
  <2>3. first \in Seq(Nat) /\ Len(first) = 1 /\ first[1] = Head(queue)
    BY <2>2
  <2>4. first \o Tail(queue) = queue
    <3>1. /\ first \o Tail(queue) \in Seq(Nat)
          /\ Len(first \o Tail(queue)) = Len(queue)
          /\ \A i \in 1 .. Len(queue) :
               (first \o Tail(queue))[i] = IF i = 1 THEN Head(queue) ELSE Tail(queue)[i - 1]
      BY <2>1, <2>2, <2>3, ConcatProperties, Shortened
    <3>2. \A i \in 1 .. Len(queue) :
            queue[i] = IF i = 1 THEN Head(queue) ELSE Tail(queue)[i - 1]
      BY <2>1
    <3> QED BY <3>1, <3>2, SeqEqual
  <2>5. Append(got, Head(queue)) = got \o first
    BY <2>2, AppendIsConcat
  <2> HIDE DEF first
  <2>6. Append(got, Head(queue)) \o Tail(queue) = got \o queue
    <3> DEFINE rest == Tail(queue)
    <3>1. got \in Seq(Nat) /\ first \in Seq(Nat) /\ rest \in Seq(Nat)
      BY <2>2, <2>3
    <3> HIDE DEF rest
    <3>2. (got \o first) \o rest = got \o (first \o rest)
      <4> HIDE DEF TypeOK
      <4> QED BY <3>1, Associated, Zenon
    <3> QED BY <2>4, <2>5, <3>2 DEF rest
  <2> QED BY <2>1, <2>6 DEF Given
<1>4. ASSUME NEW x \in Nat, got' = got, queue' = Append(queue, x) PROVE Given' = Append(Given, x)
  <2>1. got \o Append(queue, x) = Append(got \o queue, x)
    <3>1. <<x>> \in Seq(Nat) /\ got \o queue \in Seq(Nat)
      BY ConcatProperties
    <3>2. Append(queue, x) = queue \o <<x>> /\ Append(got \o queue, x) = (got \o queue) \o <<x>>
      BY <3>1, AppendIsConcat
    <3> QED BY <3>1, <3>2, ConcatAssociative
  <2> QED BY <1>4, <2>1 DEF Given
<1> QED BY <1>1, <1>2, <1>3, <1>4

\* What threads hold: a read takes a byte into a hand, a put takes it out.
LEMMA HeldSteps ==
  ASSUME TypeOK
  PROVE  /\ UNCHANGED hand => Held' = Held
         /\ \A r \in Readers, b \in Nat :
              hand[r] = NoByte /\ hand' = [hand EXCEPT ![r] = b] => Held' = Held \cup {b}
         /\ EveryByteOnce =>
              \A r \in Readers :
                hand' = [hand EXCEPT ![r] = NoByte] => Held' = Held \ {hand[r]}
<1> USE DEF TypeOK, Held
<1>1. UNCHANGED hand => Held' = Held
  OBVIOUS
<1>2. ASSUME NEW r \in Readers, NEW b \in Nat, hand[r] = NoByte, hand' = [hand EXCEPT ![r] = b]
      PROVE  Held' = Held \cup {b}
  <2>1. b # NoByte /\ hand'[r] = b /\ \A q \in Readers : q # r => hand'[q] = hand[q]
    BY <1>2
  <2> QED BY <1>2, <2>1
<1>3. ASSUME EveryByteOnce, NEW r \in Readers, hand' = [hand EXCEPT ![r] = NoByte]
      PROVE  Held' = Held \ {hand[r]}
  <2>1. hand'[r] = NoByte /\ \A q \in Readers : q # r => hand'[q] = hand[q]
    BY <1>3
  <2>2. \A q \in Readers : hand[q] = hand[r] => q = r \/ hand[q] = NoByte
    BY <1>3 DEF EveryByteOnce
  <2>3. ASSUME NEW x PROVE x \in Held' <=> x \in Held /\ x # hand[r]
    <3>1. x \in Held' <=> x # NoByte /\ \E q \in Readers : x = hand'[q]
      OBVIOUS
    <3>2. x \in Held <=> x # NoByte /\ \E q \in Readers : x = hand[q]
      OBVIOUS
    <3> QED BY <2>1, <2>2, <3>1, <3>2
  <2> QED BY <2>3
<1> QED BY <1>1, <1>2, <1>3

\* Every step takes a byte from one place to the next, and nothing else.
LEMMA OnceStep ==
  ASSUME TypeOK, Hands, Order, EveryByteOnce, [Next]_vars PROVE EveryByteOnce'
<1> DEFINE L == ToSet(line)
           G == ToSet(Given)
<1>1. /\ 1 .. sent = G \cup Held \cup L \cup lost
      /\ \A i, j \in 1 .. Len(Given) : Given[i] = Given[j] => i = j
      /\ \A r, q \in Readers : hand[r] = hand[q] => r = q \/ hand[r] = NoByte
      /\ Held \cap G = {}
      /\ (Held \cup G) \cap (L \cup lost) = {}
  BY DEF EveryByteOnce
<1>2. ToSet(<<>>) = {}
  BY DEF ToSet
<1>3. CASE Open \/ Shut \/ Unplug
  <2>1. line' = <<>> /\ lost' = lost \cup L /\ UNCHANGED <<got, queue, hand, sent>>
    BY <1>3 DEF Open, Shut, Unplug, threads, caller
  <2>2. Given' = Given /\ Held' = Held
    BY <2>1, GivenSteps, HeldSteps
  <2>3. ToSet(line)' = {}
    BY <1>2, <2>1
  <2> HIDE DEF L, G
  <2>4. G' = G
    BY <2>2 DEF G
  <2> QED BY <1>1, <2>1, <2>2, <2>3, <2>4 DEF EveryByteOnce, L, G
<1>4. CASE Close \/ Join \/ Get \/ Replug \/ UNCHANGED vars
  <2>1. /\ UNCHANGED <<hand, line, lost, sent>>
        /\ Get \/ UNCHANGED <<got, queue>>
    BY <1>4 DEF Close, Join, Get, Replug, vars, threads, wire, caller
  <2>2. Given' = Given /\ Held' = Held
    BY <2>1, GivenSteps, HeldSteps
  <2> QED BY <1>1, <2>1, <2>2 DEF EveryByteOnce
<1>5. CASE Arrive
  <2>1. sent' = sent + 1 /\ line' = Append(line, sent + 1)
        /\ UNCHANGED <<hand, lost, got, queue>>
    BY <1>5 DEF Arrive, threads, caller
  <2>2. Given' = Given /\ Held' = Held
    BY <2>1, GivenSteps, HeldSteps
  <2>3. ToSet(line)' = L \cup {sent + 1}
    BY <2>1, Appended DEF TypeOK
  <2>4. 1 .. sent' = (1 .. sent) \cup {sent + 1} /\ sent + 1 \notin 1 .. sent
    BY <2>1 DEF TypeOK
  <2>5. G' = G
    BY <2>2
  <2> HIDE DEF L, G
  <2>6. /\ 1 .. sent' = G \cup Held \cup (L \cup {sent + 1}) \cup lost
        /\ (Held \cup G) \cap (L \cup {sent + 1} \cup lost) = {}
    BY <1>1, <2>4
  <2> QED BY <1>1, <2>1, <2>2, <2>3, <2>5, <2>6 DEF EveryByteOnce, L, G
<1>6. ASSUME NEW r \in Readers, Test(r) \/ Read(r) PROVE EveryByteOnce'
  <2>1. UNCHANGED <<got, queue, sent, lost>> /\ loop[r] # "put"
    BY <1>6 DEF Test, Read, caller, wire
  <2>2. Given' = Given /\ hand[r] = NoByte
    BY <2>1, GivenSteps DEF Hands
  <2>3. CASE UNCHANGED <<hand, line>>
    <3>1. Held' = Held
      BY <2>3, HeldSteps
    <3> QED BY <1>1, <2>1, <2>2, <2>3, <3>1 DEF EveryByteOnce
  <2>4. CASE /\ line # <<>> /\ line' = Tail(line)
             /\ hand' = [hand EXCEPT ![r] = Head(line)]
    <3> DEFINE b == Head(line)
    <3>1. b \in Nat /\ L = {b} \cup ToSet(Tail(line)) /\ b \notin ToSet(Tail(line))
      <4>1. /\ b \in Nat /\ b = line[1] /\ 1 \in 1 .. Len(line) /\ Tail(line) \in Seq(Nat)
            /\ \A i \in 1 .. Len(Tail(line)) :
                 Tail(line)[i] = line[i + 1] /\ i + 1 \in 1 .. Len(line)
            /\ L = {b} \cup ToSet(Tail(line))
        BY <2>4, Shortened DEF TypeOK
      <4>2. \A i \in 1 .. Len(Tail(line)) : b < Tail(line)[i] /\ Tail(line)[i] \in Nat
        BY <4>1 DEF Order
      <4>3. \A x \in ToSet(Tail(line)) : b < x
        BY <4>1, <4>2 DEF ToSet
      <4> QED BY <4>1, <4>3
    <3>2. Held' = Held \cup {b}
      BY <2>2, <2>4, <3>1, HeldSteps
    <3>3. /\ ToSet(line)' = ToSet(Tail(line))
          /\ ToSet(line)' = L \ {b}
      BY <2>4, <3>1
    <3>4. G' = G /\ b \in L /\ b \notin lost
      BY <2>2, <3>1 DEF Order
    <3>5. \A p, q \in Readers : hand'[p] = hand'[q] => p = q \/ hand'[p] = NoByte
      <4>1. \A q \in Readers : hand[q] # b
        <5>1. b # NoByte
          BY <3>1
        <5> QED BY <1>1, <3>4, <5>1 DEF Held
      <4>2. hand'[r] = b /\ \A q \in Readers : q # r => hand'[q] = hand[q]
        BY <2>4 DEF TypeOK
      <4> QED BY <1>1, <4>1, <4>2
    <3> HIDE DEF L, G, b
    <3>6. /\ 1 .. sent = G \cup (Held \cup {b}) \cup (L \ {b}) \cup lost
          /\ (Held \cup {b}) \cap G = {}
          /\ (Held \cup {b} \cup G) \cap ((L \ {b}) \cup lost) = {}
      BY <1>1, <3>4
    <3> QED BY <1>1, <2>1, <2>2, <3>2, <3>3, <3>4, <3>5, <3>6 DEF EveryByteOnce, G
  <2> QED BY <1>6, <2>3, <2>4 DEF Test, Read, wire
<1>7. ASSUME NEW r \in Readers, Put(r) PROVE EveryByteOnce'
  <2> DEFINE b == hand[r]
  <2>1. /\ queue' = Append(queue, b) /\ hand' = [hand EXCEPT ![r] = NoByte]
        /\ UNCHANGED <<got, line, sent, lost>>
        /\ b \in Nat /\ b \in Held
    BY <1>7 DEF Put, Kept, caller, wire, Hands, Held, TypeOK
  <2>2. Given \in Seq(Nat) /\ Given' = Append(Given, b) /\ Held' = Held \ {b}
    BY <2>1, GivenSteps, HeldSteps
  <2>3. /\ Len(Given') = Len(Given) + 1 /\ Given'[Len(Given) + 1] = b
        /\ \A i \in 1 .. Len(Given) : Given'[i] = Given[i]
        /\ ToSet(Given)' = G \cup {b}
    BY <2>1, <2>2, Appended
  <2>4. \A i, j \in 1 .. Len(Given') : Given'[i] = Given'[j] => i = j
    <3>1. \A i \in 1 .. Len(Given) : Given[i] # b
      <4>1. \A i \in 1 .. Len(Given) : Given[i] \in G
        BY <2>2 DEF ToSet
      <4> QED BY <1>1, <2>1, <4>1
    <3>2. \A i \in 1 .. Len(Given') : i \in 1 .. Len(Given) \/ i = Len(Given) + 1
      BY <2>2, <2>3
    <3> QED BY <1>1, <2>3, <3>1, <3>2
  <2>5. \A p, q \in Readers : hand'[p] = hand'[q] => p = q \/ hand'[p] = NoByte
    BY <1>1, <2>1 DEF TypeOK
  <2> HIDE DEF b, G, L
  <2>6. /\ 1 .. sent = (G \cup {b}) \cup (Held \ {b}) \cup L \cup lost
        /\ (Held \ {b}) \cap (G \cup {b}) = {}
        /\ ((Held \ {b}) \cup (G \cup {b})) \cap (L \cup lost) = {}
    BY <1>1, <2>1
  <2> QED BY <2>1, <2>2, <2>3, <2>4, <2>5, <2>6 DEF EveryByteOnce, L
<1> QED BY <1>3, <1>4, <1>5, <1>6, <1>7 DEF Next, ReadLoop
\* Each place takes its bytes from the front of the one before it; two threads that read at
\* once are what an overrun join excuses.
LEMMA OrderStep ==
  ASSUME TypeOK, Hands, OneReader, Order, EveryByteOnce, [Next]_vars PROVE Order'
<1> DEFINE L == ToSet(line)
           G == ToSet(Given)
<1>1. /\ \A i, j \in 1 .. Len(line) : i < j => line[i] < line[j]
      /\ L \cap lost = {}
      /\ ~overrun =>
           /\ \A i, j \in 1 .. Len(Given) : i < j => Given[i] < Given[j]
           /\ \A b \in G, h \in Held : b < h
           /\ \A b \in G \cup Held, l \in L : b < l
  BY DEF Order
<1>2. L \cup lost \cup G \cup Held = 1 .. sent
  BY DEF EveryByteOnce
<1>3. CASE Open \/ Shut \/ Unplug
  <2>1. line' = <<>> /\ UNCHANGED <<got, queue, hand, overrun>>
    BY <1>3 DEF Open, Shut, Unplug, threads, caller
  <2>2. Given' = Given /\ Held' = Held /\ ToSet(line)' = {}
    BY <2>1, GivenSteps, HeldSteps DEF ToSet
  <2>3. Len(line') = 0
    BY <2>1
  <2> QED BY <1>1, <2>1, <2>2, <2>3 DEF Order
<1>4. CASE Close \/ Join \/ Get \/ Replug \/ UNCHANGED vars
  <2>1. /\ UNCHANGED <<hand, line, lost>> /\ (~overrun' => ~overrun)
        /\ Get \/ UNCHANGED <<got, queue>>
    <3>1. CASE Join
      BY <3>1 DEF Join, threads, wire, TypeOK
    <3>2. CASE Close \/ Get \/ Replug \/ UNCHANGED vars
      BY <3>2 DEF Close, Get, Replug, vars, threads, wire, caller
    <3> QED BY <1>4, <3>1, <3>2
  <2>2. Given' = Given /\ Held' = Held
    BY <2>1, GivenSteps, HeldSteps
  <2> QED BY <1>1, <2>1, <2>2 DEF Order
<1>5. CASE Arrive
  <2>1. sent' = sent + 1 /\ line' = Append(line, sent + 1) /\ sent \in Nat
        /\ UNCHANGED <<hand, lost, got, queue, overrun>>
    BY <1>5 DEF Arrive, threads, caller, TypeOK
  <2>2. Given' = Given /\ Held' = Held
    BY <2>1, GivenSteps, HeldSteps
  <2>3. /\ Len(line') = Len(line) + 1 /\ line'[Len(line) + 1] = sent + 1
        /\ \A i \in 1 .. Len(line) : line'[i] = line[i]
        /\ ToSet(line)' = L \cup {sent + 1}
    BY <2>1, Appended DEF TypeOK
  <2>4. \A x \in L \cup lost \cup G \cup Held : x < sent + 1
    BY <1>2, <2>1
  <2>5. \A i \in 1 .. Len(line) : line[i] < sent + 1
    <3>1. \A i \in 1 .. Len(line) : line[i] \in L
      BY DEF ToSet, TypeOK
    <3> QED BY <2>4, <3>1
  <2>6. \A i, j \in 1 .. Len(line') : i < j => line'[i] < line'[j]
    <3>1. \A i \in 1 .. Len(line') : i \in 1 .. Len(line) \/ i = Len(line) + 1
      BY <2>3 DEF TypeOK
    <3>2. \A i \in 1 .. Len(line) : i < Len(line) + 1 /\ ~(Len(line) + 1 < i)
      BY DEF TypeOK
    <3> QED BY <1>1, <2>3, <2>5, <3>1, <3>2
  <2>7. G' = G
    BY <2>2
  <2> HIDE DEF L, G
  <2>8. (L \cup {sent + 1}) \cap lost = {}
    BY <1>1, <2>1, <2>4
  <2>9. ~overrun => \A b \in G \cup Held, l \in L \cup {sent + 1} : b < l
    BY <1>1, <2>4
  <2> QED BY <1>1, <2>1, <2>2, <2>3, <2>6, <2>7, <2>8, <2>9 DEF Order, G
<1>6. ASSUME NEW r \in Readers, Test(r) \/ Read(r) PROVE Order'
  <2>1. UNCHANGED <<got, queue, lost, overrun>> /\ loop[r] \notin {"put", "none"}
    BY <1>6 DEF Test, Read, caller, wire
  <2>2. Given' = Given /\ hand[r] = NoByte
    BY <2>1, GivenSteps DEF Hands
  <2>3. CASE UNCHANGED <<hand, line>>
    <3>1. Held' = Held
      BY <2>3, HeldSteps
    <3> QED BY <1>1, <2>1, <2>2, <2>3, <3>1 DEF Order
  <2>4. CASE /\ line # <<>> /\ line' = Tail(line)
             /\ hand' = [hand EXCEPT ![r] = Head(line)]
    <3> DEFINE b == Head(line)
    <3>1. /\ b \in Nat /\ b = line[1] /\ 1 \in 1 .. Len(line)
          /\ Len(line') = Len(line) - 1 /\ line' \in Seq(Nat)
          /\ \A i \in 1 .. Len(line') : line'[i] = line[i + 1] /\ i + 1 \in 1 .. Len(line)
          /\ L = {b} \cup ToSet(line')
      BY <2>4, Shortened DEF TypeOK
    <3>2. Held' = Held \cup {b} /\ ToSet(line)' = ToSet(line')
      BY <2>2, <2>4, <3>1, HeldSteps DEF ToSet
    <3>3. \A i, j \in 1 .. Len(line') : i < j => line'[i] < line'[j]
      <4> SUFFICES ASSUME NEW i \in 1 .. Len(line'), NEW j \in 1 .. Len(line'), i < j
                   PROVE  line'[i] < line'[j]
        OBVIOUS
      <4>1. i + 1 < j + 1 /\ i + 1 \in 1 .. Len(line) /\ j + 1 \in 1 .. Len(line)
        BY <3>1
      <4> QED BY <1>1, <3>1, <4>1
    <3>4. \A x \in ToSet(line') : b < x
      <4>1. \A i \in 1 .. Len(line') : 1 < i + 1
        BY <3>1
      <4>2. \A i \in 1 .. Len(line') : b < line'[i]
        BY <1>1, <3>1, <4>1
      <4> QED BY <3>1, <4>2 DEF ToSet
    <3>5. ~overrun => Held = {}
      <4>1. ~overrun => \A q \in Readers : Alive(q) => q = r
        BY <2>1 DEF OneReader, Alive
      <4>2. ~overrun => \A q \in Readers : hand[q] = NoByte
        BY <2>2, <4>1 DEF Hands, Alive
      <4> QED BY <4>2 DEF Held
    <3>6. G' = G
      BY <2>2
    <3> HIDE DEF L, G, b
    <3> DEFINE M == ToSet(line')
    <3>7. L = {b} \cup M
      BY <3>1
    <3>8. \A x \in M : b < x
      BY <3>4
    <3> HIDE DEF M
    <3>9. M \cap lost = {}
      BY <1>1, <3>7
    <3>10. ~overrun => /\ \A x \in G, h \in {b} : x < h
                       /\ \A x \in G \cup {b}, l \in M : x < l
      BY <1>1, <3>7, <3>8
    <3> QED BY <1>1, <2>1, <2>2, <3>2, <3>3, <3>5, <3>6, <3>9, <3>10 DEF Order, G, M
  <2> QED BY <1>6, <2>3, <2>4 DEF Test, Read, wire
<1>7. ASSUME NEW r \in Readers, Put(r) PROVE Order'
  <2> DEFINE b == hand[r]
  <2>1. /\ queue' = Append(queue, b) /\ hand' = [hand EXCEPT ![r] = NoByte]
        /\ UNCHANGED <<got, line, lost, overrun>>
        /\ b \in Nat /\ b \in Held
    BY <1>7 DEF Put, Kept, caller, wire, Hands, Held, TypeOK
  <2>2. Given \in Seq(Nat) /\ Given' = Append(Given, b) /\ Held' = Held \ {b}
    BY <2>1, GivenSteps, HeldSteps
  <2>3. /\ Len(Given') = Len(Given) + 1 /\ Given'[Len(Given) + 1] = b
        /\ \A i \in 1 .. Len(Given) : Given'[i] = Given[i]
        /\ ToSet(Given)' = G \cup {b}
    BY <2>1, <2>2, Appended
  <2>4. ~overrun => \A i, j \in 1 .. Len(Given') : i < j => Given'[i] < Given'[j]
    <3>1. ~overrun => \A i \in 1 .. Len(Given) : Given[i] < b
      <4>1. \A i \in 1 .. Len(Given) : Given[i] \in G
        BY <2>2 DEF ToSet
      <4> QED BY <1>1, <2>1, <4>1
    <3>2. \A i \in 1 .. Len(Given') : i \in 1 .. Len(Given) \/ i = Len(Given) + 1
      BY <2>2, <2>3
    <3>3. \A i \in 1 .. Len(Given) : ~(Len(Given) + 1 < i) /\ ~(Len(Given) + 1 < Len(Given) + 1)
      BY <2>2
    <3> QED BY <1>1, <2>3, <3>1, <3>2, <3>3
  <2>5. ~overrun => Held \ {b} = {}
    <3>1. ~overrun => \A q \in Readers : Alive(q) => q = r
      BY <1>7 DEF OneReader, Alive, Put
    <3>2. ~overrun => \A q \in Readers : q # r => hand[q] = NoByte
      BY <3>1 DEF Hands, Alive
    <3> QED BY <3>2 DEF Held
  <2> HIDE DEF b, G, L
  <2>6. ~overrun => \A x \in (G \cup {b}) \cup (Held \ {b}), l \in L : x < l
    BY <1>1, <2>1
  <2> QED BY <1>1, <2>1, <2>2, <2>3, <2>4, <2>5, <2>6 DEF Order, L
<1> QED BY <1>3, <1>4, <1>5, <1>6, <1>7 DEF Next, ReadLoop

-----------------------------------------------------------------------------
(* The theorems *)

\* Every reachable state satisfies the inductive invariant.
THEOREM Invariance == Spec => []Inv
<1>1. Init => Inv
  <2> SUFFICES ASSUME Init PROVE Inv
    OBVIOUS
  <2>1. TypeOK
    <3>1. <<>> \in Seq(Nat) /\ 0 \in 0 .. MaxErrors /\ {} \in SUBSET Nat
      BY DEF TransportAssumption
    <3> QED BY <3>1 DEF Init, TypeOK
  <2>2. Hands /\ OneReader
    BY DEF Init, Hands, OneReader, Alive
  <2>3. Given = <<>> /\ Len(Given) = 0
    BY DEF Init, Given
  <2>4. Held = {} /\ ToSet(line) = {} /\ ToSet(Given) = {} /\ lost = {} /\ 1 .. sent = {}
    BY <2>3 DEF Init, Held, ToSet
  <2>5. Len(line) = 0 /\ \A r \in Readers : hand[r] = NoByte
    BY DEF Init
  <2>6. EveryByteOnce
    <3>1. \A i \in 1 .. Len(Given) : FALSE
      BY <2>3
    <3> QED BY <2>4, <2>5, <3>1 DEF EveryByteOnce
  <2>7. Order
    BY <2>3, <2>4, <2>5 DEF Order
  <2> QED BY <2>1, <2>2, <2>6, <2>7 DEF Inv
<1>2. Inv /\ [Next]_vars => Inv'
  BY TypeStep, HandsStep, OneReaderStep, OnceStep, OrderStep DEF Inv
<1> QED BY <1>1, <1>2, PTL DEF Spec

\* The state of transport.py keeps its types.
THEOREM TypeCorrect == Spec => []TypeOK
<1>1. Inv => TypeOK
  BY DEF Inv
<1> QED BY <1>1, Invariance, PTL

\* However often the port is closed, opened and lost, and however many threads read it
\* at once, each byte sent is at one place only: returned by get or in the queue once, in
\* one thread's hand, on the line, or gone with a port (_read_loop, get, open, close).
THEOREM BytesOnce == Spec => []EveryByteOnce
<1>1. Inv => EveryByteOnce
  BY DEF Inv
<1> QED BY <1>1, Invariance, PTL

\* As long as no join is overrun, bytes leave the queue as they were sent (_read_loop, get).
THEOREM QueueInOrder == Spec => []InOrder
<1>1. Inv => InOrder
  <2> SUFFICES ASSUME Inv, ~overrun PROVE /\ \A i \in 1 .. Len(Given) - 1 : Given[i] < Given[i + 1]
                                          /\ \A b \in ToSet(Given), h \in Held : b < h
    BY DEF InOrder
  <2>1. Given \in Seq(Nat)
    BY GivenSteps DEF Inv
  <2>2. \A i \in 1 .. Len(Given) - 1 : i \in 1 .. Len(Given) /\ i + 1 \in 1 .. Len(Given) /\ i < i + 1
    BY <2>1
  <2> QED BY <2>2 DEF Inv, Order
<1> QED BY <1>1, Invariance, PTL

\* A closed port has no reader left, unless one was not given the time (close and its join).
THEOREM ReaderEndsWithPort == Spec => []NoReaderLeft
<1>1. Inv => NoReaderLeft
  BY DEF Inv, OneReader, NoReaderLeft
<1> QED BY <1>1, Invariance, PTL
=============================================================================
