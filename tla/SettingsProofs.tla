--------------------------- MODULE SettingsProofs ---------------------------
(***************************************************************************)
(* The bytes of a register, for any commands, payloads, channels and        *)
(* values. The first half is about Framing alone: frames arrive as they     *)
(* were sent, and one that lost a byte is refused or only shorter. Then     *)
(* the channels inside a frame, and the specification.                      *)
(***************************************************************************)
EXTENDS Settings, SequenceTheorems, FiniteSetTheorems, WellFoundedInduction, NaturalsInduction, TLAPS

-----------------------------------------------------------------------------
(* Numbers and recursion *)

\* The first of the numbers that have a property.
LEMMA LeastElement ==
  ASSUME NEW T \in SUBSET Nat, T # {}
  PROVE  \E m \in T : \A k \in T : m <= k
<1>. DEFINE R == {p \in Nat \X Nat : p[1] < p[2]}
<1>1. IsWellFoundedOn(R, Nat)
  BY NatLessThanWellFounded DEF OpToRel
<1>2. \E x \in T : \A y \in T : <<y, x>> \notin R
  <2>. HIDE DEF R
  <2>. QED BY <1>1, WFMin
<1>3. PICK x \in T : \A y \in T : <<y, x>> \notin R
  BY <1>2
<1>4. ASSUME NEW y \in T PROVE x <= y
  <2>1. <<y, x>> \in Nat \X Nat /\ <<y, x>> \notin R
    BY <1>3
  <2>2. ~(y < x)
    BY <2>1
  <2>. QED BY <2>2
<1>. QED BY <1>4

\* Induction, over a set that stands for the property.
LEMMA Induction ==
  ASSUME NEW n \in Nat, NEW S, 0 \in S, \A i \in 1 .. n : i - 1 \in S => i \in S
  PROVE  0 .. n \subseteq S
<1>. SUFFICES ASSUME NEW x \in 0 .. n, x \notin S PROVE FALSE
  OBVIOUS
<1>. DEFINE T == {k \in 0 .. n : k \notin S}
<1>1. T \in SUBSET Nat /\ T # {}
  OBVIOUS
<1>2. \E m \in T : \A k \in T : m <= k
  <2>. HIDE DEF T
  <2>. QED BY <1>1, LeastElement
<1>3. PICK m \in T : \A k \in T : m <= k
  BY <1>2
<1>4. m # 0 /\ m \in 1 .. n
  OBVIOUS
<1>5. m - 1 \in 0 .. n /\ ~(m <= m - 1)
  BY <1>4
<1>6. m - 1 \in S
  BY <1>3, <1>5
<1>. QED BY <1>4, <1>6

\* A function can be defined by its value at 0 and the step from one number to the next.
Steps(f, n, e, step) == f[0] = e /\ \A i \in 1 .. n : f[i] = step[i][f[i - 1]]

\* There is such a function.
LEMMA Recursion ==
  ASSUME NEW n \in Nat, NEW A, NEW e \in A, NEW step \in [1 .. n -> [A -> A]]
  PROVE  \E f \in [0 .. n -> A] : Steps(f, n, e, step)
<1>. DEFINE S == {k \in 0 .. n : \E f \in [0 .. k -> A] : Steps(f, k, e, step)}
<1>1. 0 \in S
  <2>. DEFINE f == [i \in 0 .. 0 |-> e]
  <2>1. f \in [0 .. 0 -> A] /\ Steps(f, 0, e, step)
    BY DEF Steps
  <2>. HIDE DEF f
  <2>. QED BY <2>1
<1>2. ASSUME NEW k \in 1 .. n, k - 1 \in S
      PROVE  k \in S
  <2>1. PICK f \in [0 .. k - 1 -> A] : Steps(f, k - 1, e, step)
    BY <1>2
  <2>. DEFINE g == [i \in 0 .. k |-> IF i = k THEN step[k][f[k - 1]] ELSE f[i]]
  <2>2. g \in [0 .. k -> A]
    OBVIOUS
  <2>3. g[0] = e
    BY <2>1 DEF Steps
  <2>4. ASSUME NEW i \in 1 .. k PROVE g[i] = step[i][g[i - 1]]
    <3>1. i \in 0 .. k /\ i - 1 \in 0 .. k /\ i - 1 # k
      OBVIOUS
    <3>2. g[i - 1] = f[i - 1]
      BY <3>1
    <3>3. CASE i = k
      BY <3>1, <3>2, <3>3
    <3>4. CASE i # k
      <4>1. i \in 1 .. k - 1
        BY <3>4
      <4>2. f[i] = step[i][f[i - 1]]
        BY <2>1, <4>1 DEF Steps
      <4>3. g[i] = f[i]
        BY <3>1, <3>4
      <4>. QED BY <3>2, <4>2, <4>3
    <3>. QED BY <3>3, <3>4
  <2>5. Steps(g, k, e, step)
    BY <2>3, <2>4 DEF Steps
  <2>. HIDE DEF g
  <2>. QED BY <2>2, <2>5
<1>3. 0 .. n \subseteq S
  <2>. HIDE DEF S
  <2>. QED BY <1>1, <1>2, Induction
<1>4. n \in S
  BY <1>3
<1>. QED BY <1>4

-----------------------------------------------------------------------------
(* Folded *)

\* The steps in which Folded goes through a sequence.
Run(f, step, base, s) == f[0] = base /\ \A i \in 1 .. Len(s) : f[i] = step[s[i]][f[i - 1]]

Stepping(step, A, B) == step \in [B -> [A -> A]]

\* Folded ends with the last of these steps.
LEMMA FoldedRun ==
  ASSUME NEW A, NEW B, NEW base \in A, NEW step, Stepping(step, A, B), NEW s \in Seq(B)
  PROVE  \E f \in [0 .. Len(s) -> A] : Run(f, step, base, s) /\ Folded(step, base, s) = f[Len(s)]
<1>. DEFINE Rec(f) == f = [i \in 0 .. Len(s) |-> IF i = 0 THEN base ELSE step[s[i]][f[i - 1]]]
            next == [i \in 1 .. Len(s) |-> [a \in A |-> step[s[i]][a]]]
<1>1. Len(s) \in Nat
  OBVIOUS
<1>2. next \in [1 .. Len(s) -> [A -> A]]
  <2>1. \A i \in 1 .. Len(s) : s[i] \in B
    OBVIOUS
  <2>2. step \in [B -> [A -> A]]
    BY DEF Stepping
  <2>. QED BY <2>1, <2>2
<1>3. \E f \in [0 .. Len(s) -> A] : Steps(f, Len(s), base, next)
  <2>. HIDE DEF next
  <2>. QED BY <1>1, <1>2, Recursion
<1>4. PICK f \in [0 .. Len(s) -> A] : Steps(f, Len(s), base, next)
  BY <1>3
<1>5. Run(f, step, base, s)
  <2>. SUFFICES ASSUME NEW i \in 1 .. Len(s)
                PROVE  f[i] = step[s[i]][f[i - 1]]
    BY <1>4 DEF Run, Steps
  <2>1. f[i] = next[i][f[i - 1]]
    BY <1>4 DEF Steps
  <2>2. f[i - 1] \in A
    OBVIOUS
  <2>. QED BY <2>1, <2>2
<1>6. Rec(f)
  <2>. DEFINE g == [i \in 0 .. Len(s) |-> IF i = 0 THEN base ELSE step[s[i]][f[i - 1]]]
  <2>1. ASSUME NEW i \in 0 .. Len(s) PROVE f[i] = g[i]
    <3>1. CASE i = 0
      BY <1>5, <3>1 DEF Run
    <3>2. CASE i # 0
      <4>1. i \in 1 .. Len(s)
        BY <3>2
      <4>2. f[i] = step[s[i]][f[i - 1]]
        BY <1>5, <4>1 DEF Run
      <4>. QED BY <3>2, <4>2
    <3>. QED BY <3>1, <3>2
  <2>2. f = g
    BY <2>1
  <2>. QED BY <2>2
<1>. DEFINE h == CHOOSE g : Rec(g)
<1>7. Rec(h)
  <2>. HIDE DEF Rec
  <2>. QED BY <1>6
<1>8. Folded(step, base, s) = h[Len(s)]
  BY Zenon DEF Folded
<1>. HIDE DEF h
<1>9. Run(h, step, base, s)
  <2>1. \A i \in 0 .. Len(s) : h[i] = IF i = 0 THEN base ELSE step[s[i]][h[i - 1]]
    BY <1>7, Zenon
  <2>2. 0 \in 0 .. Len(s) /\ \A i \in 1 .. Len(s) : i \in 0 .. Len(s) /\ i # 0
    OBVIOUS
  <2>. HIDE DEF Rec
  <2>. QED BY <2>1, <2>2 DEF Run
<1>10. h \in [0 .. Len(s) -> A]
  <2>. DEFINE T == {i \in 0 .. Len(s) : h[i] \in A}
  <2>1. 0 \in T
    <3>1. h[0] = base /\ 0 \in 0 .. Len(s)
      BY <1>9 DEF Run
    <3>. QED BY <3>1
  <2>2. ASSUME NEW i \in 1 .. Len(s), i - 1 \in T PROVE i \in T
    <3>1. h[i] = step[s[i]][h[i - 1]]
      BY <1>9 DEF Run
    <3>2. s[i] \in B /\ h[i - 1] \in A
      BY <2>2
    <3>3. step \in [B -> [A -> A]]
      BY DEF Stepping
    <3>. QED BY <3>1, <3>2, <3>3
  <2>3. 0 .. Len(s) \subseteq T
    <3>. HIDE DEF T
    <3>. QED BY <1>1, <2>1, <2>2, Induction
  <2>4. \A i \in 0 .. Len(s) : h[i] \in A
    BY <2>3
  <2>5. DOMAIN h = 0 .. Len(s) /\ h = [i \in DOMAIN h |-> h[i]]
    BY <1>7
  <2>. QED BY <2>4, <2>5
<1>. QED BY <1>8, <1>9, <1>10

\* Nothing to go through.
LEMMA FoldedEmpty ==
  ASSUME NEW A, NEW B, NEW base \in A, NEW step, Stepping(step, A, B)
  PROVE  Folded(step, base, <<>>) = base
<1>1. \A z \in Seq(B) : Len(z) = 0 => Folded(step, base, z) = base
  <2>. TAKE z \in Seq(B)
  <2>1. PICK f \in [0 .. Len(z) -> A] : Run(f, step, base, z) /\ Folded(step, base, z) = f[Len(z)]
    BY FoldedRun
  <2>. QED BY <2>1 DEF Run
<1>2. <<>> \in Seq(B) /\ Len(<<>>) = 0
  OBVIOUS
<1>. QED BY <1>1, <1>2, Zenon

\* One step more.
LEMMA FoldedAppend ==
  ASSUME NEW A, NEW B, NEW base \in A, NEW step, Stepping(step, A, B), NEW s \in Seq(B), NEW x \in B
  PROVE  /\ Folded(step, base, <<>>) = base
         /\ Folded(step, base, s) \in A
         /\ Folded(step, base, Append(s, x)) = step[x][Folded(step, base, s)]
<1>1. PICK f \in [0 .. Len(s) -> A] : Run(f, step, base, s) /\ Folded(step, base, s) = f[Len(s)]
  BY FoldedRun
<1>. DEFINE t == Append(s, x)
<1>2. /\ t \in Seq(B) /\ Len(t) = Len(s) + 1 /\ Len(s) \in Nat /\ t[Len(s) + 1] = x
      /\ \A i \in 1 .. Len(s) : t[i] = s[i]
  BY AppendProperties
<1>. HIDE DEF t
<1>3. PICK g \in [0 .. Len(t) -> A] : Run(g, step, base, t) /\ Folded(step, base, t) = g[Len(t)]
  <2>1. t \in Seq(B)
    BY <1>2
  <2>. QED BY <2>1, FoldedRun
<1>4. f[Len(s)] = g[Len(s)]
  <2>. DEFINE T == {i \in 0 .. Len(s) : f[i] = g[i]}
  <2>1. 0 \in T
    BY <1>1, <1>2, <1>3 DEF Run
  <2>2. ASSUME NEW i \in 1 .. Len(s), i - 1 \in T PROVE i \in T
    <3>1. f[i] = step[s[i]][f[i - 1]]
      BY <1>1 DEF Run
    <3>2. i \in 1 .. Len(t) /\ t[i] = s[i]
      BY <1>2
    <3>3. g[i] = step[t[i]][g[i - 1]]
      BY <1>3, <3>2 DEF Run
    <3>. QED BY <2>2, <3>1, <3>2, <3>3
  <2>3. 0 .. Len(s) \subseteq T
    <3>. HIDE DEF T
    <3>. QED BY <1>2, <2>1, <2>2, Induction
  <2>. QED BY <1>2, <2>3
<1>5. g[Len(s) + 1] = step[x][g[Len(s)]]
  <2>1. Len(s) + 1 \in 1 .. Len(t) /\ Len(s) + 1 - 1 = Len(s)
    BY <1>2
  <2>2. g[Len(s) + 1] = step[t[Len(s) + 1]][g[Len(s) + 1 - 1]]
    BY <1>3, <2>1 DEF Run
  <2>. QED BY <1>2, <2>1, <2>2
<1>6. Folded(step, base, <<>>) = base
  BY FoldedEmpty
<1>7. Folded(step, base, s) \in A
  BY <1>1, <1>2
<1>. QED BY <1>1, <1>2, <1>3, <1>4, <1>5, <1>6, <1>7 DEF t

-----------------------------------------------------------------------------
(* The first elements of a sequence *)

First(s, n) == SubSeq(s, 1, n)

\* The first n elements.
LEMMA FirstIs ==
  ASSUME NEW S, NEW s \in Seq(S), NEW n \in 0 .. Len(s)
  PROVE  /\ First(s, n) \in Seq(S) /\ Len(First(s, n)) = n
         /\ \A i \in 1 .. n : First(s, n)[i] = s[i]
         /\ First(s, 0) = <<>> /\ First(s, Len(s)) = s
<1>1. Len(s) \in Nat
  OBVIOUS
<1>2. First(s, n) \in Seq(S) /\ Len(First(s, n)) = n /\ \A i \in 1 .. n : First(s, n)[i] = s[i]
  BY <1>1 DEF First
<1>3. First(s, 0) \in Seq(S) /\ Len(First(s, 0)) = 0
  BY <1>1 DEF First
<1>4. First(s, Len(s)) \in Seq(S) /\ Len(First(s, Len(s))) = Len(s)
      /\ \A i \in 1 .. Len(s) : First(s, Len(s))[i] = s[i]
  BY <1>1 DEF First
<1>5. First(s, 0) = <<>>
  BY <1>3, EmptySeq
<1>6. First(s, Len(s)) = s
  BY <1>4, SeqEqual
<1>. QED BY <1>2, <1>5, <1>6

\* One element more.
LEMMA FirstStep ==
  ASSUME NEW S, NEW s \in Seq(S), NEW n \in 1 .. Len(s)
  PROVE  First(s, n) = Append(First(s, n - 1), s[n]) /\ s[n] \in S
<1>1. n \in 0 .. Len(s) /\ n - 1 \in 0 .. Len(s) /\ s[n] \in S /\ n - 1 + 1 = n
  OBVIOUS
<1>. DEFINE a == First(s, n)
            b == Append(First(s, n - 1), s[n])
<1>2. a \in Seq(S) /\ Len(a) = n /\ \A i \in 1 .. n : a[i] = s[i]
  BY <1>1, FirstIs
<1>3. First(s, n - 1) \in Seq(S) /\ Len(First(s, n - 1)) = n - 1
      /\ \A i \in 1 .. n - 1 : First(s, n - 1)[i] = s[i]
  BY <1>1, FirstIs
<1>4. b \in Seq(S) /\ Len(b) = n /\ b[n] = s[n] /\ \A i \in 1 .. n - 1 : b[i] = s[i]
  BY <1>1, <1>3, AppendProperties
<1>. HIDE DEF a, b
<1>5. \A i \in 1 .. n : a[i] = b[i]
  <2>1. \A i \in 1 .. n : i = n \/ i \in 1 .. n - 1
    OBVIOUS
  <2>. QED BY <1>2, <1>4, <2>1
<1>6. a = b
  BY <1>2, <1>4, <1>5, SeqEqual
<1>. QED BY <1>1, <1>6 DEF a, b

-----------------------------------------------------------------------------
(* What a receiver makes of a wire, byte for byte *)

Fresh == [out |-> <<>>, half |-> FALSE]

\* From s, x leads to t.
PairStep(a, b, s, x, t) ==
  /\ s.half /\ x = b => t.out = s.out /\ t.half = FALSE
  /\ ~(s.half /\ x = b) => t.out = Append(s.out, x) /\ t.half = (x = a)

\* One byte more.
LEMMA PairedStep ==
  ASSUME NEW a \in Int, NEW b \in Int, NEW d \in Seq(Int), NEW x \in Int
  PROVE  /\ Paired(a, b, <<>>) = Fresh
         /\ Paired(a, b, d) \in States
         /\ PairStep(a, b, Paired(a, b, d), x, Paired(a, b, Append(d, x)))
<1>. DEFINE step == Pairing(a, b)
            s == Paired(a, b, d)
<1>1. Fresh \in States
  <2>1. <<>> \in Seq(Int)
    OBVIOUS
  <2>. QED BY <2>1 DEF Fresh, States
<1>2. \A y \in Int : \A t \in States :
        /\ step[y][t] = IF t.half /\ y = b THEN [out |-> t.out, half |-> FALSE]
                        ELSE [out |-> Append(t.out, y), half |-> y = a]
        /\ step[y][t] \in States
  <2>. TAKE y \in Int
  <2>. TAKE t \in States
  <2>1. step[y][t] = IF t.half /\ y = b THEN [out |-> t.out, half |-> FALSE]
                     ELSE [out |-> Append(t.out, y), half |-> y = a]
    BY DEF Pairing
  <2>2. t.out \in Seq(Int) /\ Append(t.out, y) \in Seq(Int) /\ t.half \in BOOLEAN
    BY DEF States
  <2>3. [out |-> t.out, half |-> FALSE] \in States
    BY <2>2 DEF States
  <2>4. [out |-> Append(t.out, y), half |-> y = a] \in States
    BY <2>2 DEF States
  <2>. QED BY <2>1, <2>3, <2>4
<1>3. step \in [Int -> [States -> States]]
  <2>1. step = [y \in Int |-> [t \in States |-> step[y][t]]]
    BY DEF Pairing
  <2>. HIDE DEF step
  <2>. QED BY <1>2, <2>1
<1>. HIDE DEF step
<1>4. /\ Folded(step, Fresh, <<>>) = Fresh
      /\ Folded(step, Fresh, d) \in States
      /\ Folded(step, Fresh, Append(d, x)) = step[x][Folded(step, Fresh, d)]
  <2>1. Stepping(step, States, Int)
    BY <1>3 DEF Stepping
  <2>. QED BY <1>1, <2>1, FoldedAppend
<1>5. /\ Paired(a, b, <<>>) = Folded(step, Fresh, <<>>)
      /\ s = Folded(step, Fresh, d)
      /\ Paired(a, b, Append(d, x)) = Folded(step, Fresh, Append(d, x))
  BY DEF Paired, step, Fresh
<1>6. s \in States /\ Paired(a, b, Append(d, x)) = step[x][s] /\ Paired(a, b, <<>>) = Fresh
  BY <1>4, <1>5
<1>. HIDE DEF s
<1>7. step[x][s] = IF s.half /\ x = b THEN [out |-> s.out, half |-> FALSE]
                   ELSE [out |-> Append(s.out, x), half |-> x = a]
  BY <1>2, <1>6
<1>. DEFINE t == Paired(a, b, Append(d, x))
<1>9. t = IF s.half /\ x = b THEN [out |-> s.out, half |-> FALSE]
          ELSE [out |-> Append(s.out, x), half |-> x = a]
  BY <1>6, <1>7
<1>. HIDE DEF t
<1>10. PairStep(a, b, s, x, t)
  BY <1>9 DEF PairStep
<1>. QED BY <1>6, <1>10 DEF s, t

\* After m bytes: is the first half of an escaped ESCAPE open, is that of an escaped
\* ESCAPE2, and what has been put out.
Doubles(w, m) == Paired(ESCAPE, ESCAPE, First(w, m))
Stuffs(w, m) == Paired(ESCAPE2, STUFFING, Doubles(w, m).out)
Odd(w, m) == Doubles(w, m).half
Open(w, m) == Stuffs(w, m).half
Out(w, m) == Stuffs(w, m).out

\* Before the first byte.
LEMMA DecoderStarts ==
  ASSUME NEW w \in Seq(Int)
  PROVE  Odd(w, 0) = FALSE /\ Open(w, 0) = FALSE /\ Out(w, 0) = <<>>
<1>1. First(w, 0) = <<>>
  BY FirstIs
<1>2. <<>> \in Seq(Int) /\ 0 \in Int /\ ESCAPE \in Int /\ ESCAPE2 \in Int /\ STUFFING \in Int
  BY DEF ESCAPE, ESCAPE2, STUFFING
<1>3. Doubles(w, 0) = Fresh
  <2>1. ESCAPE \in Int
    BY <1>2
  <2>2. Paired(ESCAPE, ESCAPE, <<>>) = Fresh
    BY <1>2, <2>1, PairedStep
  <2>. QED BY <1>1, <2>2 DEF Doubles
<1>4. Doubles(w, 0).out = <<>> /\ Doubles(w, 0).half = FALSE
  BY <1>3 DEF Fresh
<1>5. Stuffs(w, 0) = Fresh
  <2>1. ESCAPE2 \in Int
    BY <1>2
  <2>2. STUFFING \in Int
    BY <1>2
  <2>3. Paired(ESCAPE2, STUFFING, <<>>) = Fresh
    BY <1>2, <2>1, <2>2, PairedStep
  <2>. QED BY <1>4, <2>3 DEF Stuffs
<1>. QED BY <1>4, <1>5 DEF Odd, Open, Out, Fresh

\* The decoder takes one byte: what it has put out, and which half pairs it is in.
LEMMA DecoderStep ==
  ASSUME NEW w \in Seq(Int), NEW m \in 1 .. Len(w)
  PROVE  /\ Odd(w, m - 1) \in BOOLEAN /\ Open(w, m - 1) \in BOOLEAN /\ Out(w, m - 1) \in Seq(Int)
         /\ Odd(w, m) = (Odd(w, m - 1) = FALSE /\ w[m] = ESCAPE)
         /\ Odd(w, m - 1) /\ w[m] = ESCAPE =>
              Open(w, m) = Open(w, m - 1) /\ Out(w, m) = Out(w, m - 1)
         /\ Open(w, m - 1) /\ w[m] = STUFFING =>
              Open(w, m) = FALSE /\ Out(w, m) = Out(w, m - 1)
         /\ ~(Odd(w, m - 1) /\ w[m] = ESCAPE) /\ ~(Open(w, m - 1) /\ w[m] = STUFFING) =>
              Open(w, m) = (w[m] = ESCAPE2) /\ Out(w, m) = Append(Out(w, m - 1), w[m])
<1>. DEFINE z == First(w, m - 1)
            x == w[m]
            d == Doubles(w, m - 1)
            e == Doubles(w, m)
            y == d.out
<1>1. First(w, m) = Append(z, x) /\ x \in Int /\ z \in Seq(Int)
  BY FirstStep, FirstIs
<1>2. ESCAPE \in Int /\ ESCAPE2 \in Int /\ STUFFING \in Int /\ ESCAPE # STUFFING
  BY DEF ESCAPE, ESCAPE2, STUFFING
<1>3. d = Paired(ESCAPE, ESCAPE, z) /\ e = Paired(ESCAPE, ESCAPE, Append(z, x))
  BY <1>1 DEF Doubles
<1>. HIDE DEF z, x, d, e
<1>4. x \in Int
  BY <1>1
<1>5. z \in Seq(Int)
  BY <1>1
<1>6. ESCAPE \in Int
  BY <1>2
<1>. DEFINE r == Paired(ESCAPE, ESCAPE, z)
            q == Paired(ESCAPE, ESCAPE, Append(z, x))
<1>19. r \in States /\ PairStep(ESCAPE, ESCAPE, r, x, q)
  BY <1>4, <1>5, <1>6, PairedStep
<1>20. d = r /\ e = q
  BY <1>3
<1>. HIDE DEF r, q
<1>7. /\ d.out \in Seq(Int) /\ d.half \in BOOLEAN
      /\ d.half /\ x = ESCAPE => e.out = d.out /\ e.half = FALSE
      /\ ~(d.half /\ x = ESCAPE) => e.out = Append(d.out, x) /\ e.half = (x = ESCAPE)
  BY <1>19, <1>20 DEF States, PairStep
<1>. HIDE DEF y
<1>8. y \in Seq(Int)
  BY <1>7 DEF y
<1>9. ESCAPE2 \in Int
  BY <1>2
<1>10. STUFFING \in Int
  BY <1>2
<1>. DEFINE s == Paired(ESCAPE2, STUFFING, y)
            t == Paired(ESCAPE2, STUFFING, Append(y, x))
            u == Stuffs(w, m)
<1>21. s \in States /\ PairStep(ESCAPE2, STUFFING, s, x, t)
  BY <1>4, <1>8, <1>9, <1>10, PairedStep
<1>11. /\ s.out \in Seq(Int) /\ s.half \in BOOLEAN
       /\ s.half /\ x = STUFFING => t.out = s.out /\ t.half = FALSE
       /\ ~(s.half /\ x = STUFFING) => t.out = Append(s.out, x) /\ t.half = (x = ESCAPE2)
  <2>. HIDE DEF s, t, u
  <2>. QED BY <1>21 DEF States, PairStep
<1>12. s = Stuffs(w, m - 1) /\ u = Paired(ESCAPE2, STUFFING, e.out)
  BY DEF Stuffs, y, d, e
<1>13. /\ d.half /\ x = ESCAPE => u = s
       /\ ~(d.half /\ x = ESCAPE) => u = t
  BY <1>7, <1>12 DEF y
<1>14. Odd(w, m - 1) = d.half /\ Odd(w, m) = e.half
       /\ Open(w, m - 1) = s.half /\ Open(w, m) = u.half
       /\ Out(w, m - 1) = s.out /\ Out(w, m) = u.out
  BY <1>12 DEF Odd, Open, Out, d, e
<1>. HIDE DEF s, t, u
<1>15. Odd(w, m - 1) \in BOOLEAN /\ Open(w, m - 1) \in BOOLEAN /\ Out(w, m - 1) \in Seq(Int)
  BY <1>7, <1>11, <1>14
<1>16. Odd(w, m) = (Odd(w, m - 1) = FALSE /\ x = ESCAPE)
  BY <1>7, <1>14
<1>17. CASE d.half /\ x = ESCAPE
  <2>1. u.half = s.half /\ u.out = s.out
    BY <1>13, <1>17
  <2>2. x # STUFFING
    BY <1>2, <1>17
  <2>. QED BY <1>14, <1>15, <1>16, <1>17, <2>1, <2>2 DEF x
<1>18. CASE ~(d.half /\ x = ESCAPE)
  <2>1. u.half = t.half /\ u.out = t.out
    BY <1>13, <1>18
  <2>. QED BY <1>11, <1>14, <1>15, <1>16, <1>18, <2>1 DEF x
<1>. QED BY <1>17, <1>18

-----------------------------------------------------------------------------
(* Where a frame ends *)

\* The run of ESCAPE at the end of a beginning of the wire has one length.
LEMMA OneRun ==
  ASSUME NEW w \in Seq(Int), NEW m \in 0 .. Len(w), NEW n \in 0 .. m, NEW o \in 0 .. m,
         Escapes(w, m, n), Escapes(w, m, o)
  PROVE  n = o
<1>1. \A x, y \in 0 .. m : Escapes(w, m, x) /\ Escapes(w, m, y) => ~(x < y)
  <2>. TAKE x, y \in 0 .. m
  <2>. HAVE Escapes(w, m, x) /\ Escapes(w, m, y)
  <2>. SUFFICES ASSUME x < y PROVE FALSE
    OBVIOUS
  <2>1. x # m /\ m - x \in m - y + 1 .. m
    OBVIOUS
  <2>. QED BY <2>1 DEF Escapes
<1>2. ~(n < o) /\ ~(o < n)
  BY <1>1
<1>. QED BY <1>2

\* Whether the number of ESCAPE in front is odd is what the receiver remembers of them.
LEMMA OddRun ==
  ASSUME NEW w \in Seq(Int), NEW m \in 0 .. Len(w)
  PROVE  Odd(w, m) <=> \E n \in 1 .. m : n % 2 = 1 /\ Escapes(w, m, n)
<1>8. m \in Nat
  OBVIOUS
<1>7. ~(0 % 2 = 1)
  <2>1. \A a \in Nat : a < 2 => a % 2 = a
    OBVIOUS
  <2>2. 0 % 2 = 0
    BY <2>1
  <2>. QED BY <2>2
<1>. DEFINE T == {k \in 0 .. m : \E n \in 0 .. k : Escapes(w, k, n) /\ (Odd(w, k) <=> n % 2 = 1)}
<1>1. 0 \in T
  <2>1. Odd(w, 0) = FALSE
    BY DecoderStarts
  <2>2. Escapes(w, 0, 0)
    BY DEF Escapes
  <2>3. (Odd(w, 0) <=> 0 % 2 = 1) /\ 0 \in 0 .. 0
    BY <1>7, <2>1
  <2>. QED BY <2>2, <2>3
<1>2. ASSUME NEW k \in 1 .. m, k - 1 \in T PROVE k \in T
  <2>1. PICK n \in 0 .. k - 1 : Escapes(w, k - 1, n) /\ (Odd(w, k - 1) <=> n % 2 = 1)
    BY <1>2
  <2>2. k \in 1 .. Len(w)
    OBVIOUS
  <2>3. Odd(w, k - 1) \in BOOLEAN /\ Odd(w, k) = (Odd(w, k - 1) = FALSE /\ w[k] = ESCAPE)
    BY <2>2, DecoderStep
  <2>4. CASE w[k] = ESCAPE
    <3>1. Escapes(w, k, n + 1)
      <4>1. \A i \in k - (n + 1) + 1 .. k : i = k \/ i \in k - 1 - n + 1 .. k - 1
        OBVIOUS
      <4>2. \A i \in k - (n + 1) + 1 .. k : w[i] = ESCAPE
        BY <2>1, <2>4, <4>1 DEF Escapes
      <4>3. n + 1 = k \/ w[k - (n + 1)] # ESCAPE
        <5>1. k - (n + 1) = k - 1 - n
          OBVIOUS
        <5>. QED BY <2>1, <5>1 DEF Escapes
      <4>. QED BY <4>2, <4>3 DEF Escapes
    <3>2. Odd(w, k) <=> (n + 1) % 2 = 1
      <4>1. \A a \in Nat : (a + 1) % 2 = 1 <=> a % 2 # 1
        OBVIOUS
      <4>2. (n + 1) % 2 = 1 <=> n % 2 # 1
        BY <4>1
      <4>. QED BY <2>1, <2>3, <2>4, <4>2
    <3>3. n + 1 \in 0 .. k
      OBVIOUS
    <3>. QED BY <3>1, <3>2, <3>3
  <2>5. CASE w[k] # ESCAPE
    <3>1. Escapes(w, k, 0)
      BY <2>5 DEF Escapes
    <3>2. Odd(w, k) = FALSE
      BY <2>3, <2>5
    <3>3. (Odd(w, k) <=> 0 % 2 = 1) /\ 0 \in 0 .. k
      BY <1>7, <3>2
    <3>. QED BY <3>1, <3>3
  <2>. QED BY <2>4, <2>5
<1>3. m \in T
  <2>. HIDE DEF T
  <2>1. 0 .. m \subseteq T
    BY <1>1, <1>2, <1>8, Induction
  <2>. QED BY <1>8, <2>1
<1>4. PICK n \in 0 .. m : Escapes(w, m, n) /\ (Odd(w, m) <=> n % 2 = 1)
  BY <1>3
<1>5. \A o \in 1 .. m : Escapes(w, m, o) => o = n
  BY <1>4, OneRun
<1>6. n % 2 = 1 => n \in 1 .. m
  OBVIOUS
<1>. QED BY <1>4, <1>5, <1>6

\* is_frame_end, byte for byte.
EndsAt(w, m) == m >= 2 /\ w[m] = END /\ Odd(w, m - 1)

\* is_frame_end looks back for what the decoder knows going forward.
LEMMA FrameEndIs ==
  ASSUME NEW w \in Seq(Int), NEW m \in 0 .. Len(w)
  PROVE  IsFrameEnd(First(w, m)) <=> EndsAt(w, m)
<1>. DEFINE d == First(w, m)
<1>1. Len(d) = m /\ \A i \in 1 .. m : d[i] = w[i]
  BY FirstIs
<1>. HIDE DEF d
<1>2. CASE m < 2
  BY <1>1, <1>2 DEF IsFrameEnd, EndsAt, d
<1>3. CASE m >= 2
  <2>1. \A n \in 1 .. m - 1 : Escapes(d, m - 1, n) <=> Escapes(w, m - 1, n)
    <3>. TAKE n \in 1 .. m - 1
    <3>1. \A i \in m - 1 - n + 1 .. m - 1 : d[i] = w[i]
      BY <1>1
    <3>2. n # m - 1 => d[m - 1 - n] = w[m - 1 - n]
      BY <1>1
    <3>. QED BY <3>1, <3>2 DEF Escapes
  <2>2. m - 1 \in 0 .. Len(w)
    BY <1>3
  <2>3. Odd(w, m - 1) <=> \E n \in 1 .. m - 1 : n % 2 = 1 /\ Escapes(w, m - 1, n)
    BY <2>2, OddRun
  <2>4. d[m] = w[m]
    BY <1>1, <1>3
  <2>5. IsFrameEnd(d) <=> w[m] = END /\ \E n \in 1 .. m - 1 : n % 2 = 1 /\ Escapes(d, m - 1, n)
    BY <1>1, <1>3, <2>4 DEF IsFrameEnd
  <2>. QED BY <1>3, <2>1, <2>3, <2>5 DEF EndsAt, d
<1>. QED BY <1>2, <1>3

\* What a receiver makes of a wire: all of it, if it does not see an end before.
LEMMA ReceivedIs ==
  ASSUME NEW w \in Seq(Int), NEW min \in Nat
  PROVE  \E n \in 0 .. Len(w) :
           /\ Received(w, min) = IF n < 2 THEN First(w, n) ELSE Out(w, n - 2) \o FOOTER
           /\ (\A m \in min .. Len(w) - 1 : ~EndsAt(w, m)) => n = Len(w)
<1>. DEFINE ends == {k \in min .. Len(w) : IsFrameEnd(SubSeq(w, 1, k))}
            n == IF ends = {} THEN Len(w) ELSE CHOOSE e \in ends : \A f \in ends : e <= f
<1>1. n \in 0 .. Len(w) /\ (n = Len(w) \/ n \in ends)
  <2>1. CASE ends = {}
    BY <2>1
  <2>2. CASE ends # {}
    <3>1. ends \in SUBSET Nat /\ ends \subseteq 0 .. Len(w)
      OBVIOUS
    <3>. HIDE DEF ends
    <3>2. \E e \in ends : \A f \in ends : e <= f
      BY <2>2, <3>1, LeastElement
    <3>3. n \in ends
      BY <2>2, <3>2
    <3>. HIDE DEF n
    <3>. QED BY <3>1, <3>3
  <2>. QED BY <2>1, <2>2
<1>2. Received(w, min) = FixDuplicatedBytes(First(w, n))
  BY DEF Received, First
<1>3. (\A m \in min .. Len(w) - 1 : ~EndsAt(w, m)) => n = Len(w)
  <2>. SUFFICES ASSUME \A m \in min .. Len(w) - 1 : ~EndsAt(w, m), n # Len(w) PROVE FALSE
    OBVIOUS
  <2>1. n \in min .. Len(w) - 1 /\ IsFrameEnd(First(w, n))
    BY <1>1 DEF First
  <2>. HIDE DEF n
  <2>2. EndsAt(w, n)
    BY <1>1, <2>1, FrameEndIs
  <2>. QED BY <2>1, <2>2
<1>. HIDE DEF n
<1>4. Len(First(w, n)) = n /\ First(w, n) \in Seq(Int) /\ \A i \in 1 .. n : First(w, n)[i] = w[i]
  BY <1>1, FirstIs
<1>5. CASE n < 2
  BY <1>1, <1>2, <1>3, <1>4, <1>5 DEF FixDuplicatedBytes
<1>6. CASE n >= 2
  <2>1. n - 2 \in 0 .. Len(w)
    BY <1>1, <1>6
  <2>2. First(w, n - 2) \in Seq(Int) /\ Len(First(w, n - 2)) = n - 2
        /\ \A i \in 1 .. n - 2 : First(w, n - 2)[i] = w[i]
    BY <2>1, FirstIs
  <2>3. First(First(w, n), n - 2) \in Seq(Int) /\ Len(First(First(w, n), n - 2)) = n - 2
        /\ \A i \in 1 .. n - 2 : First(First(w, n), n - 2)[i] = First(w, n)[i]
    <3>. DEFINE d == First(w, n)
    <3>1. d \in Seq(Int) /\ n - 2 \in 0 .. Len(d)
      BY <1>4, <2>1
    <3>. HIDE DEF d
    <3>2. First(d, n - 2) \in Seq(Int) /\ Len(First(d, n - 2)) = n - 2
          /\ \A i \in 1 .. n - 2 : First(d, n - 2)[i] = d[i]
      BY <3>1, FirstIs
    <3>. QED BY <3>2 DEF d
  <2>4. First(First(w, n), n - 2) = First(w, n - 2)
    <3>1. ASSUME NEW i \in 1 .. n - 2
          PROVE  First(First(w, n), n - 2)[i] = First(w, n - 2)[i]
      <4>1. i \in 1 .. n
        BY <1>1
      <4>. QED BY <1>4, <2>2, <2>3, <4>1
    <3>. DEFINE x == First(First(w, n), n - 2)
                y == First(w, n - 2)
    <3>2. x \in Seq(Int) /\ y \in Seq(Int) /\ Len(x) = Len(y) /\ \A i \in 1 .. Len(x) : x[i] = y[i]
      BY <2>2, <2>3, <3>1
    <3>. HIDE DEF x, y
    <3>3. x = y
      BY <3>2, SeqEqual
    <3>. QED BY <3>3 DEF x, y
  <2>5. Body(First(w, n)) = First(w, n - 2)
    BY <1>4, <2>4 DEF Body, First
  <2>6. FixDuplicatedBytes(First(w, n)) = Out(w, n - 2) \o FOOTER
    BY <1>4, <1>6, <2>5 DEF FixDuplicatedBytes, ReplacePairs, Out, Stuffs, Doubles
  <2>7. Received(w, min) = IF n < 2 THEN First(w, n) ELSE Out(w, n - 2) \o FOOTER
    BY <1>1, <1>2, <1>6, <2>6
  <2>8. n \in 0 .. Len(w)
    BY <1>1
  <2>. QED BY <1>3, <2>7, <2>8
<1>7. n < 2 \/ n >= 2
  BY <1>1
<1>. QED BY <1>5, <1>6, <1>7

-----------------------------------------------------------------------------
(* Bytes that are sent whole *)

\* The byte x of a frame, escaped if need be, is on the wire behind the first p bytes, and
\* up to the first q.
Stuff(x) == IF x = ESCAPE THEN ESCAPE ELSE STUFFING
Token(w, p, q, x) ==
  /\ w[p + 1] = x
  /\ x \in {ESCAPE, ESCAPE2} => q = p + 2 /\ w[p + 2] = Stuff(x)
  /\ x \notin {ESCAPE, ESCAPE2} => q = p + 1

\* The receiver is ready for x. It need not be where the sender thinks it is.
Ready(w, p, x) ==
  /\ Open(w, p) => Odd(w, p) = FALSE
  /\ Open(w, p) => x # STUFFING

\* Then it gets x, and sees no end in it unless it was out of step.
LEMMA TokenStep ==
  ASSUME NEW w \in Seq(Int), NEW p \in Nat, NEW q \in 0 .. Len(w), NEW x \in Int,
         Token(w, p, q, x), Ready(w, p, x)
  PROVE  /\ p < q
         /\ Out(w, q) = Append(Out(w, p), x)
         /\ Open(w, q) = FALSE
         /\ Odd(w, p) = FALSE => Odd(w, q) = FALSE
         /\ \A m \in p .. q : Out(w, m) = Out(w, p) \/ Out(w, m) = Out(w, q)
         /\ Odd(w, p) = FALSE => \A m \in p + 1 .. q : ~EndsAt(w, m)
<1>1. ESCAPE = 16 /\ ESCAPE2 = 43 /\ STUFFING = 24 /\ END = 3
  BY DEF ESCAPE, ESCAPE2, STUFFING, END
<1>2. p < q /\ p + 1 \in 1 .. Len(w) /\ p + 1 - 1 = p /\ Len(w) \in Nat
  BY DEF Token
<1>3. /\ Odd(w, p) \in BOOLEAN /\ Open(w, p) \in BOOLEAN
      /\ Odd(w, p + 1) = (Odd(w, p) = FALSE /\ w[p + 1] = ESCAPE)
      /\ Odd(w, p) /\ w[p + 1] = ESCAPE =>
           Open(w, p + 1) = Open(w, p) /\ Out(w, p + 1) = Out(w, p)
      /\ Open(w, p) /\ w[p + 1] = STUFFING =>
           Open(w, p + 1) = FALSE /\ Out(w, p + 1) = Out(w, p)
      /\ ~(Odd(w, p) /\ w[p + 1] = ESCAPE) /\ ~(Open(w, p) /\ w[p + 1] = STUFFING) =>
           Open(w, p + 1) = (w[p + 1] = ESCAPE2) /\ Out(w, p + 1) = Append(Out(w, p), w[p + 1])
  <2>. DEFINE m == p + 1
  <2>1. m \in 1 .. Len(w) /\ m - 1 = p
    BY <1>2
  <2>. HIDE DEF m
  <2>2. /\ Odd(w, m - 1) \in BOOLEAN /\ Open(w, m - 1) \in BOOLEAN
        /\ Odd(w, m) = (Odd(w, m - 1) = FALSE /\ w[m] = ESCAPE)
        /\ Odd(w, m - 1) /\ w[m] = ESCAPE =>
             Open(w, m) = Open(w, m - 1) /\ Out(w, m) = Out(w, m - 1)
        /\ Open(w, m - 1) /\ w[m] = STUFFING =>
             Open(w, m) = FALSE /\ Out(w, m) = Out(w, m - 1)
        /\ ~(Odd(w, m - 1) /\ w[m] = ESCAPE) /\ ~(Open(w, m - 1) /\ w[m] = STUFFING) =>
             Open(w, m) = (w[m] = ESCAPE2) /\ Out(w, m) = Append(Out(w, m - 1), w[m])
    BY <2>1, DecoderStep
  <2>. QED BY <2>1, <2>2 DEF m
<1>4. w[p + 1] = x
  BY DEF Token
<1>5. CASE x \notin {ESCAPE, ESCAPE2}
  <2>1. q = p + 1
    BY <1>5 DEF Token
  <2>2. Odd(w, q) = FALSE /\ Open(w, q) = FALSE /\ Out(w, q) = Append(Out(w, p), x)
    BY <1>3, <1>4, <1>5, <2>1 DEF Ready
  <2>3. Odd(w, p) = FALSE => ~EndsAt(w, p + 1)
    BY <1>2 DEF EndsAt
  <2>4. \A m \in p .. q : m = p \/ m = q
    BY <2>1
  <2>5. \A m \in p + 1 .. q : m = p + 1
    BY <2>1
  <2>. QED BY <1>2, <2>1, <2>2, <2>3, <2>4, <2>5
<1>6. CASE x \in {ESCAPE, ESCAPE2}
  <2>1. q = p + 2 /\ w[p + 2] = Stuff(x) /\ p + 2 \in 1 .. Len(w)
    BY <1>6 DEF Token
  <2>2. /\ Odd(w, p + 1) \in BOOLEAN /\ Open(w, p + 1) \in BOOLEAN
        /\ Odd(w, q) = (Odd(w, p + 1) = FALSE /\ w[q] = ESCAPE)
        /\ Odd(w, p + 1) /\ w[q] = ESCAPE =>
             Open(w, q) = Open(w, p + 1) /\ Out(w, q) = Out(w, p + 1)
        /\ Open(w, p + 1) /\ w[q] = STUFFING =>
             Open(w, q) = FALSE /\ Out(w, q) = Out(w, p + 1)
        /\ ~(Odd(w, p + 1) /\ w[q] = ESCAPE) /\ ~(Open(w, p + 1) /\ w[q] = STUFFING) =>
             Open(w, q) = (w[q] = ESCAPE2) /\ Out(w, q) = Append(Out(w, p + 1), w[q])
    <3>1. q \in 1 .. Len(w) /\ q - 1 = p + 1
      BY <2>1
    <3>2. /\ Odd(w, q - 1) \in BOOLEAN /\ Open(w, q - 1) \in BOOLEAN
          /\ Odd(w, q) = (Odd(w, q - 1) = FALSE /\ w[q] = ESCAPE)
          /\ Odd(w, q - 1) /\ w[q] = ESCAPE =>
               Open(w, q) = Open(w, q - 1) /\ Out(w, q) = Out(w, q - 1)
          /\ Open(w, q - 1) /\ w[q] = STUFFING =>
               Open(w, q) = FALSE /\ Out(w, q) = Out(w, q - 1)
          /\ ~(Odd(w, q - 1) /\ w[q] = ESCAPE) /\ ~(Open(w, q - 1) /\ w[q] = STUFFING) =>
               Open(w, q) = (w[q] = ESCAPE2) /\ Out(w, q) = Append(Out(w, q - 1), w[q])
      BY <3>1, DecoderStep
    <3>. QED BY <3>1, <3>2
  <2>3. w[q] = Stuff(x)
    BY <2>1
  <2>4. Open(w, q) = FALSE /\ Out(w, q) = Append(Out(w, p), x)
        /\ (Out(w, p + 1) = Out(w, p) \/ Out(w, p + 1) = Out(w, q))
        /\ (Odd(w, p) = FALSE => Odd(w, q) = FALSE)
    <3>1. CASE x = ESCAPE2
      <4>1. w[q] = STUFFING
        BY <1>1, <2>3, <3>1 DEF Stuff
      <4>2. w[p + 1] # ESCAPE /\ w[p + 1] # STUFFING /\ w[p + 1] = ESCAPE2
        BY <1>1, <1>4, <3>1
      <4>3. Odd(w, p + 1) = FALSE /\ Open(w, p + 1) /\ Out(w, p + 1) = Append(Out(w, p), x)
        BY <1>3, <1>4, <4>2
      <4>. QED BY <1>1, <2>2, <4>1, <4>3
    <3>2. CASE x = ESCAPE
      <4>1. w[q] = ESCAPE
        BY <2>3, <3>2 DEF Stuff
      <4>2. CASE Odd(w, p)
        <5>1. Open(w, p) = FALSE
          BY <1>3, <4>2 DEF Ready
        <5>2. Odd(w, p + 1) = FALSE /\ Open(w, p + 1) = FALSE /\ Out(w, p + 1) = Out(w, p)
          BY <1>3, <1>4, <3>2, <4>2, <5>1
        <5>. QED BY <1>1, <2>2, <3>2, <4>1, <4>2, <5>2
      <4>3. CASE Odd(w, p) = FALSE
        <5>2. w[p + 1] # ESCAPE2 /\ w[p + 1] # STUFFING /\ w[p + 1] = ESCAPE
          BY <1>1, <1>4, <3>2
        <5>1. Odd(w, p + 1) /\ Open(w, p + 1) = FALSE /\ Out(w, p + 1) = Append(Out(w, p), x)
          BY <1>3, <1>4, <4>3, <5>2
        <5>. QED BY <1>1, <2>2, <3>2, <4>1, <5>1
      <4>. QED BY <1>3, <4>2, <4>3
    <3>. QED BY <1>6, <3>1, <3>2
  <2>5. Odd(w, p) = FALSE => ~EndsAt(w, p + 1)
    BY <1>2 DEF EndsAt
  <2>6. ~EndsAt(w, q)
    BY <1>1, <2>3 DEF EndsAt, Stuff
  <2>7. \A m \in p .. q : m = p \/ m = p + 1 \/ m = q
    BY <2>1
  <2>8. \A m \in p + 1 .. q : m = p + 1 \/ m = q
    BY <2>1
  <2>. QED BY <1>2, <2>4, <2>5, <2>6, <2>7, <2>8
<1>. QED BY <1>5, <1>6

\* Induction from a to b.
LEMMA InductionFrom ==
  ASSUME NEW a \in Nat, NEW b \in Nat, NEW S, a \in S, \A i \in a + 1 .. b : i - 1 \in S => i \in S
  PROVE  a .. b \subseteq S
<1>. SUFFICES ASSUME NEW x \in a .. b, x \notin S PROVE FALSE
  OBVIOUS
<1>. DEFINE T == {k \in a .. b : k \notin S}
<1>1. T \in SUBSET Nat /\ T # {}
  OBVIOUS
<1>2. \E m \in T : \A k \in T : m <= k
  <2>. HIDE DEF T
  <2>. QED BY <1>1, LeastElement
<1>3. PICK m \in T : \A k \in T : m <= k
  BY <1>2
<1>4. m # a /\ m \in a + 1 .. b
  OBVIOUS
<1>5. m - 1 \in a .. b /\ ~(m <= m - 1)
  BY <1>4
<1>6. m - 1 \in S
  BY <1>3, <1>5
<1>. QED BY <1>4, <1>6

\* The bytes of g from the one behind a to b are on the wire, one behind the other; at[k] is
\* where the first k of them end.
Carried(w, g, a, b, at) ==
  /\ at \in [a .. b -> 0 .. Len(w)]
  /\ \A k \in a + 1 .. b : Token(w, at[k - 1], at[k], g[k])

\* The bytes from a to b have got through.
Delivered(w, g, a, b, at) ==
  \A k \in a .. b : /\ Out(w, at[k]) = First(g, k)
                    /\ a < k => Open(w, at[k]) = FALSE
                    /\ Odd(w, at[a]) = FALSE => Odd(w, at[k]) = FALSE

\* From p to q, what has been put out is a beginning of the first l bytes of g.
Begins(w, p, q, g, l) == \A m \in p .. q : \E j \in 0 .. l : Out(w, m) = First(g, j)

NoEnd(w, p, q) == \A m \in p .. q : ~EndsAt(w, m)

\* Then they get through, if the first one does.
LEMMA CarriedArrive ==
  ASSUME NEW w \in Seq(Int), NEW g \in Seq(Int), NEW a \in 0 .. Len(g), NEW b \in a .. Len(g),
         NEW at, Carried(w, g, a, b, at),
         Out(w, at[a]) = First(g, a), a < b => Ready(w, at[a], g[a + 1])
  PROVE  /\ Delivered(w, g, a, b, at)
         /\ Begins(w, at[a], at[b], g, b)
         /\ Odd(w, at[a]) = FALSE => NoEnd(w, at[a] + 1, at[b])
<1>. DEFINE Good(k) ==
       /\ at[a] <= at[k]
       /\ Out(w, at[k]) = First(g, k)
       /\ a < k => Open(w, at[k]) = FALSE
       /\ Odd(w, at[a]) = FALSE => Odd(w, at[k]) = FALSE
     Seen(k) ==
       /\ \A m \in at[a] .. at[k] : \E j \in a .. b : Out(w, m) = First(g, j)
       /\ Odd(w, at[a]) = FALSE => \A m \in at[a] + 1 .. at[k] : ~EndsAt(w, m)
     T == {k \in a .. b : Good(k) /\ Seen(k)}
<1>1. a \in Nat /\ b \in Nat /\ a <= b /\ Len(g) \in Nat /\ \A k \in a .. b : at[k] \in Nat /\ at[k] \in 0 .. Len(w)
  BY DEF Carried
<1>2. a \in T
  <2>1. Good(a)
    BY <1>1
  <2>2. \A m \in at[a] .. at[a] : m = at[a]
    BY <1>1
  <2>3. Seen(a)
    BY <1>1, <2>2
  <2>. QED BY <1>1, <2>1, <2>3
<1>3. ASSUME NEW k \in a + 1 .. b, k - 1 \in T PROVE k \in T
  <2>1. k - 1 \in a .. b /\ k \in a .. b /\ Good(k - 1) /\ Seen(k - 1)
    BY <1>1, <1>3
  <2>. DEFINE p == at[k - 1]
              q == at[k]
  <2>2. g[k] \in Int /\ First(g, k) = Append(First(g, k - 1), g[k]) /\ k \in 1 .. Len(g)
    <3>1. k \in 1 .. Len(g)
      BY <1>1
    <3>. QED BY <3>1, FirstStep
  <2>3. Ready(w, p, g[k])
    <3>1. CASE k = a + 1
      <4>1. k - 1 = a
        BY <1>1, <3>1
      <4>. QED BY <1>1, <3>1, <4>1
    <3>2. CASE k # a + 1
      <4>1. a < k - 1
        BY <1>1, <3>2
      <4>. QED BY <2>1, <4>1 DEF Ready
    <3>. QED BY <3>1, <3>2
  <2>4. Token(w, p, q, g[k])
    BY DEF Carried
  <2>5. p \in Nat /\ q \in 0 .. Len(w) /\ at[a] \in Nat
    <3>1. \A n \in a .. b : at[n] \in Nat /\ at[n] \in 0 .. Len(w)
      BY <1>1
    <3>2. a \in a .. b /\ k - 1 \in a .. b /\ k \in a .. b
      BY <1>1, <2>1
    <3>. QED BY <3>1, <3>2
  <2>. HIDE DEF p, q
  <2>6. /\ p < q
        /\ Out(w, q) = Append(Out(w, p), g[k])
        /\ Open(w, q) = FALSE
        /\ Odd(w, p) = FALSE => Odd(w, q) = FALSE
        /\ \A m \in p .. q : Out(w, m) = Out(w, p) \/ Out(w, m) = Out(w, q)
        /\ Odd(w, p) = FALSE => \A m \in p + 1 .. q : ~EndsAt(w, m)
    <3>1. g[k] \in Int
      BY <2>2
    <3>. QED BY <2>3, <2>4, <2>5, <3>1, TokenStep
  <2>7. /\ at[a] <= p
        /\ Out(w, p) = First(g, k - 1)
        /\ Odd(w, at[a]) = FALSE => Odd(w, p) = FALSE
        /\ \A m \in at[a] .. p : \E j \in a .. b : Out(w, m) = First(g, j)
        /\ Odd(w, at[a]) = FALSE => \A m \in at[a] + 1 .. p : ~EndsAt(w, m)
    BY <2>1 DEF p
  <2>8. at[k] = q
    BY DEF q
  <2>9. Good(k)
    <3>1. at[a] <= q
      <4>1. at[a] <= p /\ p < q
        BY <2>6, <2>7
      <4>2. q \in Nat
        BY <2>5
      <4>. QED BY <2>5, <4>1, <4>2
    <3>2. Out(w, q) = First(g, k)
      BY <2>2, <2>6, <2>7
    <3>. QED BY <2>6, <2>7, <2>8, <3>1, <3>2
  <2>10. \A m \in at[a] .. q : \E j \in a .. b : Out(w, m) = First(g, j)
    <3>. TAKE m \in at[a] .. q
    <3>1. m \in at[a] .. p \/ m \in p .. q
      BY <2>5
    <3>2. CASE m \in at[a] .. p
      BY <2>7, <3>2
    <3>3. CASE m \in p .. q
      <4>1. Out(w, q) = First(g, k)
        BY <2>2, <2>6, <2>7
      <4>. QED BY <2>1, <2>6, <2>7, <3>3, <4>1
    <3>. QED BY <3>1, <3>2, <3>3
  <2>11. ASSUME Odd(w, at[a]) = FALSE, NEW m \in at[a] + 1 .. q PROVE ~EndsAt(w, m)
    <3>1. m \in at[a] + 1 .. p \/ m \in p + 1 .. q
      BY <2>5
    <3>. QED BY <2>6, <2>7, <2>11, <3>1
  <2>12. Seen(k)
    BY <2>8, <2>10, <2>11
  <2>. QED BY <2>1, <2>9, <2>12
<1>4. \A k \in a .. b : Good(k) /\ Seen(k)
  <2>. HIDE DEF Good, Seen
  <2>1. a .. b \subseteq T
    <3>. HIDE DEF T
    <3>1. a \in Nat
      BY <1>1
    <3>2. b \in Nat
      BY <1>1
    <3>. QED BY <1>2, <1>3, <3>1, <3>2, InductionFrom
  <2>. QED BY <2>1
<1>5. b \in a .. b /\ \A j \in a .. b : j \in 0 .. b
  BY <1>1
<1>6. Delivered(w, g, a, b, at)
  BY <1>4 DEF Delivered
<1>7. Begins(w, at[a], at[b], g, b)
  BY <1>4, <1>5 DEF Begins
<1>8. Odd(w, at[a]) = FALSE => NoEnd(w, at[a] + 1, at[b])
  BY <1>4, <1>5 DEF NoEnd
<1>. QED BY <1>6, <1>7, <1>8

\* Every byte takes room.
LEMMA CarriedGrows ==
  ASSUME NEW w \in Seq(Int), NEW g \in Seq(Int), NEW a \in Nat, NEW b \in Nat, NEW at,
         Carried(w, g, a, b, at), NEW j \in a .. b, NEW k \in j .. b
  PROVE  at[j] + (k - j) <= at[k]
<1>. DEFINE T == {i \in j .. k : at[j] + (i - j) <= at[i]}
<1>1. \A i \in a .. b : at[i] \in Nat
  BY DEF Carried
<1>2. j \in T
  BY <1>1
<1>3. ASSUME NEW i \in j + 1 .. k, i - 1 \in T PROVE i \in T
  <2>1. i \in a + 1 .. b /\ i - 1 \in a .. b /\ i \in a .. b
    OBVIOUS
  <2>2. Token(w, at[i - 1], at[i], g[i])
    BY <2>1 DEF Carried
  <2>3. at[i - 1] < at[i]
    BY <1>1, <2>1, <2>2 DEF Token
  <2>4. at[j] + (i - 1 - j) <= at[i - 1]
    BY <1>3
  <2>5. at[j] + (i - j) <= at[i]
    <3>. DEFINE x == at[i - 1]
                y == at[i]
                z == at[j]
                n == i - j
    <3>1. x \in Nat /\ y \in Nat /\ z \in Nat
      BY <1>1, <2>1
    <3>2. n \in Int /\ i - 1 - j = n - 1
      OBVIOUS
    <3>3. x < y /\ z + (n - 1) <= x
      BY <2>3, <2>4, <3>2
    <3>. HIDE DEF x, y, z, n
    <3>4. z + n <= y
      BY <3>1, <3>2, <3>3
    <3>. QED BY <3>4 DEF y, z, n
  <2>. QED BY <2>5
<1>4. j .. k \subseteq T
  <2>. HIDE DEF T
  <2>1. j \in Nat
    OBVIOUS
  <2>2. k \in Nat
    OBVIOUS
  <2>. QED BY <1>2, <1>3, <2>1, <2>2, InductionFrom
<1>5. k \in j .. k
  OBVIOUS
<1>. QED BY <1>4, <1>5

-----------------------------------------------------------------------------
(* What a sender makes of a frame *)

Enc(s) == Folded([b \in Int |-> [out \in Seq(Int) |-> out \o Escaped(b)]], <<>>, s)

\* A byte as it is sent.
LEMMA EscapedIs ==
  ASSUME NEW x \in Int
  PROVE  /\ Escaped(x) \in Seq(Int)
         /\ Escaped(x)[1] = x
         /\ x \in {ESCAPE, ESCAPE2} => Len(Escaped(x)) = 2 /\ Escaped(x)[2] = Stuff(x)
         /\ x \notin {ESCAPE, ESCAPE2} => Len(Escaped(x)) = 1
BY DEF Escaped, Stuff, ESCAPE, ESCAPE2, STUFFING

\* One byte more is sent.
LEMMA EncStep ==
  ASSUME NEW s \in Seq(Int), NEW x \in Int
  PROVE  /\ Enc(<<>>) = <<>>
         /\ Enc(s) \in Seq(Int)
         /\ Enc(Append(s, x)) = Enc(s) \o Escaped(x)
<1>. DEFINE step == [b \in Int |-> [out \in Seq(Int) |-> out \o Escaped(b)]]
<1>1. step \in [Int -> [Seq(Int) -> Seq(Int)]]
  <2>1. \A b \in Int : \A out \in Seq(Int) : out \o Escaped(b) \in Seq(Int)
    <3>. TAKE b \in Int
    <3>1. Escaped(b) \in Seq(Int)
      BY EscapedIs
    <3>. QED BY <3>1
  <2>. QED BY <2>1
<1>2. <<>> \in Seq(Int)
  OBVIOUS
<1>3. \A out \in Seq(Int) : step[x][out] = out \o Escaped(x)
  OBVIOUS
<1>4. Enc(<<>>) = Folded(step, <<>>, <<>>) /\ Enc(s) = Folded(step, <<>>, s)
      /\ Enc(Append(s, x)) = Folded(step, <<>>, Append(s, x))
  BY DEF Enc
<1>. DEFINE base == <<>>
<1>. HIDE DEF step, base
<1>5. base \in Seq(Int)
  BY <1>2 DEF base
<1>6. /\ Folded(step, base, <<>>) = base
      /\ Folded(step, base, s) \in Seq(Int)
      /\ Folded(step, base, Append(s, x)) = step[x][Folded(step, base, s)]
  <2>1. Stepping(step, Seq(Int), Int)
    BY <1>1 DEF Stepping
  <2>. QED BY <1>5, <2>1, FoldedAppend
<1>. QED BY <1>3, <1>4, <1>6 DEF base

\* Nothing is sent of nothing.
LEMMA EncEmpty == Enc(<<>>) = <<>>
<1>1. <<>> \in Seq(Int) /\ 0 \in Int
  OBVIOUS
<1>2. \A s \in Seq(Int) : \A x \in Int : Enc(<<>>) = <<>>
  BY EncStep
<1>. QED BY <1>1, <1>2

\* One sequence behind the other.
LEMMA Concat ==
  ASSUME NEW S, NEW s \in Seq(S), NEW t \in Seq(S)
  PROVE  /\ s \o t \in Seq(S) /\ Len(s \o t) = Len(s) + Len(t)
         /\ \A i \in 1 .. Len(s) : (s \o t)[i] = s[i]
         /\ \A i \in 1 .. Len(t) : (s \o t)[Len(s) + i] = t[i]
<1>1. Len(s) \in Nat /\ Len(t) \in Nat
  OBVIOUS
<1>2. s \o t \in Seq(S) /\ Len(s \o t) = Len(s) + Len(t)
  OBVIOUS
<1>3. \A i \in 1 .. Len(s) : (s \o t)[i] = s[i]
  BY <1>1
<1>4. \A i \in 1 .. Len(t) : (s \o t)[Len(s) + i] = t[i]
  BY <1>1
<1>. QED BY <1>2, <1>3, <1>4

\* What has been put out stays.
LEMMA EncGrows ==
  ASSUME NEW s \in Seq(Int), NEW k \in 0 .. Len(s), NEW j \in k .. Len(s)
  PROVE  /\ Enc(First(s, k)) \in Seq(Int) /\ Enc(First(s, j)) \in Seq(Int)
         /\ Len(Enc(First(s, k))) <= Len(Enc(First(s, j)))
         /\ \A i \in 1 .. Len(Enc(First(s, k))) : Enc(First(s, j))[i] = Enc(First(s, k))[i]
<1>. DEFINE E(i) == Enc(First(s, i))
            Grown(i) == /\ Len(E(k)) <= Len(E(i))
                        /\ \A m \in 1 .. Len(E(k)) : E(i)[m] = E(k)[m]
            T == {i \in k .. j : Grown(i)}
<1>1. \A i \in 0 .. Len(s) : E(i) \in Seq(Int) /\ Len(E(i)) \in Nat
  <2>. TAKE i \in 0 .. Len(s)
  <2>1. First(s, i) \in Seq(Int)
    BY FirstIs
  <2>2. 0 \in Int
    OBVIOUS
  <2>3. E(i) \in Seq(Int)
    BY <2>1, <2>2, EncStep
  <2>. QED BY <2>3
<1>2. k \in Nat /\ j \in Nat /\ k <= j /\ j \in 0 .. Len(s) /\ Len(s) \in Nat
  OBVIOUS
<1>3. k \in T
  <2>1. Len(E(k)) <= Len(E(k))
    BY <1>1
  <2>. QED BY <1>2, <2>1
<1>4. ASSUME NEW i \in k + 1 .. j, i - 1 \in T PROVE i \in T
  <2>1. i \in 1 .. Len(s) /\ i - 1 \in 0 .. Len(s) /\ i \in 0 .. Len(s) /\ i \in k .. j
    BY <1>2
  <2>2. First(s, i) = Append(First(s, i - 1), s[i]) /\ s[i] \in Int /\ First(s, i - 1) \in Seq(Int)
    BY <2>1, FirstStep, FirstIs
  <2>3. E(i) = E(i - 1) \o Escaped(s[i]) /\ Escaped(s[i]) \in Seq(Int)
    <3>. DEFINE d == First(s, i - 1)
                x == s[i]
    <3>1. d \in Seq(Int)
      BY <2>2
    <3>2. x \in Int
      BY <2>2
    <3>. HIDE DEF d, x
    <3>3. Enc(Append(d, x)) = Enc(d) \o Escaped(x) /\ Escaped(x) \in Seq(Int)
      BY <3>1, <3>2, EncStep, EscapedIs
    <3>. QED BY <2>2, <3>3 DEF d, x
  <2>4. E(i - 1) \in Seq(Int) /\ Grown(i - 1) /\ E(k) \in Seq(Int)
    BY <1>1, <1>2, <1>4, <2>1
  <2>. HIDE DEF E
  <2>5. Len(E(i - 1)) <= Len(E(i)) /\ \A m \in 1 .. Len(E(i - 1)) : E(i)[m] = E(i - 1)[m]
    BY <2>3, <2>4
  <2>6. Len(E(k)) <= Len(E(i))
    BY <1>1, <1>2, <2>1, <2>4, <2>5
  <2>7. \A m \in 1 .. Len(E(k)) : E(i)[m] = E(k)[m]
    <3>. TAKE m \in 1 .. Len(E(k))
    <3>1. m \in 1 .. Len(E(i - 1))
      BY <1>1, <1>2, <2>1, <2>4
    <3>. QED BY <2>4, <2>5, <3>1
  <2>. QED BY <2>1, <2>6, <2>7
<1>5. k .. j \subseteq T
  <2>. HIDE DEF T
  <2>1. k \in Nat
    BY <1>2
  <2>2. j \in Nat
    BY <1>2
  <2>. QED BY <1>3, <1>4, <2>1, <2>2, InductionFrom
<1>6. Grown(j)
  <2>1. j \in k .. j
    BY <1>2
  <2>. HIDE DEF Grown
  <2>. QED BY <1>5, <2>1
<1>. QED BY <1>1, <1>2, <1>6

\* A frame that starts as all do, and has its footer.
Sendable(f) ==
  /\ f \in Seq(Int)
  /\ Len(f) >= 4
  /\ f[1] \notin {ESCAPE, ESCAPE2} /\ f[2] \notin {ESCAPE, ESCAPE2}
  /\ f[Len(f) - 1] = ESCAPE /\ f[Len(f)] = END

\* The wire has its bytes, and behind them the footer.
LEMMA WireIs ==
  ASSUME NEW f, Sendable(f)
  PROVE  LET w == AddDuplicatedBytes(f)
             l == Len(f) - 2
         IN  /\ w \in Seq(Int)
             /\ \E at : /\ Carried(w, f, 0, l, at)
                        /\ at[0] = 0 /\ at[1] = 1 /\ at[2] = 2
                        /\ Len(w) = at[l] + 2 /\ w[at[l] + 1] = ESCAPE /\ w[at[l] + 2] = END
<1>. DEFINE w == AddDuplicatedBytes(f)
            l == Len(f) - 2
            m == Len(f) - 4
            mid == SubSeq(f, 3, Len(f) - 2)
            E(k) == Enc(First(mid, k))
            at == [k \in 0 .. l |-> IF k < 2 THEN k ELSE 2 + Len(E(k - 2))]
            head == SubSeq(f, 1, 2)
            foot == SubSeq(f, Len(f) - 1, Len(f))
<1>1. f \in Seq(Int) /\ Len(f) \in Nat /\ Len(f) >= 4 /\ l \in Nat /\ m \in Nat /\ l = m + 2 /\ 2 <= l
  BY DEF Sendable
<1>2. /\ mid \in Seq(Int) /\ Len(mid) = m /\ \A i \in 1 .. m : mid[i] = f[i + 2]
      /\ head \in Seq(Int) /\ Len(head) = 2 /\ head[1] = f[1] /\ head[2] = f[2]
      /\ foot \in Seq(Int) /\ Len(foot) = 2 /\ foot[1] = f[Len(f) - 1] /\ foot[2] = f[Len(f)]
  BY <1>1
<1>3. \A k \in 0 .. m : E(k) \in Seq(Int) /\ Len(E(k)) \in Nat
        /\ Len(E(k)) <= Len(E(m)) /\ \A i \in 1 .. Len(E(k)) : E(m)[i] = E(k)[i]
  <2>. TAKE k \in 0 .. m
  <2>. DEFINE s == mid
  <2>. HIDE DEF mid
  <2>1. k \in 0 .. Len(s) /\ m \in k .. Len(s) /\ s \in Seq(Int)
    BY <1>1, <1>2
  <2>. HIDE DEF m, s
  <2>2. Enc(First(s, k)) \in Seq(Int) /\ Enc(First(s, m)) \in Seq(Int)
         /\ Len(Enc(First(s, k))) <= Len(Enc(First(s, m)))
         /\ \A i \in 1 .. Len(Enc(First(s, k))) : Enc(First(s, m))[i] = Enc(First(s, k))[i]
    BY <2>1, EncGrows
  <2>. QED BY <2>2 DEF s
<1>4. E(m) = Enc(mid) /\ E(0) = <<>>
  <2>1. First(mid, m) = mid /\ First(mid, 0) = <<>>
    <3>. DEFINE s == mid
    <3>1. s \in Seq(Int) /\ m = Len(s) /\ m \in 0 .. Len(s)
      BY <1>1, <1>2
    <3>. HIDE DEF s, m
    <3>2. First(s, m) = s /\ First(s, 0) = <<>>
      BY <3>1, FirstIs
    <3>. QED BY <3>2 DEF s
  <2>2. Enc(<<>>) = <<>>
    BY EncEmpty
  <2>. QED BY <2>1, <2>2
<1>5. w = head \o E(m) \o foot
  BY <1>4 DEF AddDuplicatedBytes, Enc
<1>6. \A k \in 1 .. m : E(k) = E(k - 1) \o Escaped(f[k + 2]) /\ f[k + 2] \in Int
  <2>. TAKE k \in 1 .. m
  <2>. DEFINE s == mid
  <2>1. k \in 1 .. Len(s) /\ k - 1 \in 0 .. Len(s) /\ s \in Seq(Int) /\ s[k] = f[k + 2]
    BY <1>1, <1>2
  <2>. HIDE DEF s
  <2>. DEFINE d == First(s, k - 1)
              x == s[k]
  <2>2. First(s, k) = Append(d, x) /\ x \in Int /\ d \in Seq(Int)
    BY <2>1, FirstStep, FirstIs
  <2>3. x \in Int
    BY <2>2
  <2>4. d \in Seq(Int)
    BY <2>2
  <2>. HIDE DEF d, x
  <2>5. Enc(Append(d, x)) = Enc(d) \o Escaped(x)
    BY <2>3, <2>4, EncStep
  <2>. QED BY <2>1, <2>2, <2>5 DEF d, x, s
<1>. HIDE DEF E, mid, head, foot, w
<1>7. /\ w \in Seq(Int) /\ Len(w) = Len(E(m)) + 4
      /\ w[1] = f[1] /\ w[2] = f[2]
      /\ \A i \in 1 .. Len(E(m)) : w[2 + i] = E(m)[i]
      /\ w[2 + Len(E(m)) + 1] = f[Len(f) - 1] /\ w[2 + Len(E(m)) + 2] = f[Len(f)]
  <2>1. m \in 0 .. m
    BY <1>1
  <2>2. E(m) \in Seq(Int) /\ Len(E(m)) \in Nat
    BY <1>3, <2>1
  <2>. DEFINE e == E(m)
              y == head \o e
  <2>3. e \in Seq(Int) /\ Len(e) \in Nat /\ w = y \o foot
    BY <1>5, <2>2
  <2>. HIDE DEF e
  <2>4. y \in Seq(Int) /\ Len(y) = 2 + Len(e) /\ y[1] = head[1] /\ y[2] = head[2]
        /\ \A i \in 1 .. Len(e) : y[2 + i] = e[i]
    <3>1. head \in Seq(Int)
      BY <1>2
    <3>2. e \in Seq(Int)
      BY <2>3
    <3>3. /\ y \in Seq(Int) /\ Len(y) = Len(head) + Len(e)
          /\ \A i \in 1 .. Len(head) : y[i] = head[i]
          /\ \A i \in 1 .. Len(e) : y[Len(head) + i] = e[i]
      BY <3>1, <3>2, Concat
    <3>4. Len(head) = 2 /\ 1 \in 1 .. 2 /\ 2 \in 1 .. 2
      BY <1>2
    <3>. QED BY <3>3, <3>4
  <2>. HIDE DEF y
  <2>5. w \in Seq(Int) /\ Len(w) = Len(y) + 2 /\ (\A i \in 1 .. Len(y) : w[i] = y[i])
        /\ w[Len(y) + 1] = foot[1] /\ w[Len(y) + 2] = foot[2]
    <3>1. foot \in Seq(Int)
      BY <1>2
    <3>2. y \in Seq(Int)
      BY <2>4
    <3>3. /\ y \o foot \in Seq(Int) /\ Len(y \o foot) = Len(y) + Len(foot)
          /\ \A i \in 1 .. Len(y) : (y \o foot)[i] = y[i]
          /\ \A i \in 1 .. Len(foot) : (y \o foot)[Len(y) + i] = foot[i]
      BY <3>1, <3>2, Concat
    <3>4. Len(foot) = 2 /\ 1 \in 1 .. 2 /\ 2 \in 1 .. 2
      BY <1>2
    <3>. QED BY <2>3, <3>3, <3>4
  <2>6. \A i \in 1 .. Len(e) : 2 + i \in 1 .. Len(y)
    BY <2>3, <2>4
  <2>7. 1 \in 1 .. Len(y) /\ 2 \in 1 .. Len(y)
    BY <2>3, <2>4
  <2>8. w[1] = f[1] /\ w[2] = f[2] /\ \A i \in 1 .. Len(e) : w[2 + i] = e[i]
    BY <1>2, <2>4, <2>5, <2>6, <2>7
  <2>9. w[2 + Len(e) + 1] = f[Len(f) - 1] /\ w[2 + Len(e) + 2] = f[Len(f)] /\ Len(w) = Len(e) + 4
    BY <1>2, <2>3, <2>4, <2>5
  <2>. QED BY <2>5, <2>8, <2>9 DEF e
<1>8. at[0] = 0 /\ at[1] = 1 /\ at[2] = 2 /\ at[l] = 2 + Len(E(m))
      /\ \A k \in 2 .. l : at[k] = 2 + Len(E(k - 2))
  <2>1. at[0] = 0 /\ at[1] = 1 /\ \A k \in 2 .. l : at[k] = 2 + Len(E(k - 2))
    BY <1>1
  <2>2. Len(<<>>) = 0 /\ 2 \in 2 .. l /\ 2 - 2 = 0 /\ l \in 2 .. l /\ l - 2 = m
    BY <1>1
  <2>3. at[2] = 2 + Len(E(0))
    BY <2>1, <2>2
  <2>4. at[l] = 2 + Len(E(m))
    BY <2>1, <2>2
  <2>5. Len(E(0)) = 0
    BY <1>4, <2>2
  <2>. QED BY <2>1, <2>3, <2>4, <2>5
<1>9. at \in [0 .. l -> 0 .. Len(w)]
  <2>1. \A k \in 0 .. l : k < 2 \/ k - 2 \in 0 .. m
    BY <1>1
  <2>2. 0 \in 0 .. m /\ Len(E(m)) \in Nat /\ Len(w) = Len(E(m)) + 4
    BY <1>1, <1>3, <1>7
  <2>3. \A k \in 0 .. l : (IF k < 2 THEN k ELSE 2 + Len(E(k - 2))) \in 0 .. Len(w)
    BY <1>3, <2>1, <2>2
  <2>. QED BY <2>3
<1>. HIDE DEF at
<1>10. ASSUME NEW k \in 1 .. l PROVE Token(w, at[k - 1], at[k], f[k])
  <2>1. CASE k = 1
    <3>1. f[1] \notin {ESCAPE, ESCAPE2}
      BY DEF Sendable
    <3>2. at[k - 1] = 0 /\ at[k] = 1 /\ f[k] = f[1]
      BY <1>8, <2>1
    <3>3. w[0 + 1] = f[1]
      BY <1>7
    <3>. QED BY <3>1, <3>2, <3>3 DEF Token
  <2>2. CASE k = 2
    <3>1. f[2] \notin {ESCAPE, ESCAPE2}
      BY DEF Sendable
    <3>2. at[k - 1] = 1 /\ at[k] = 2 /\ f[k] = f[2]
      BY <1>8, <2>2
    <3>3. w[1 + 1] = f[2]
      BY <1>7
    <3>. QED BY <3>1, <3>2, <3>3 DEF Token
  <2>3. CASE k > 2
    <3>. DEFINE j == k - 2
    <3>1. j \in 1 .. m /\ j - 1 \in 0 .. m /\ j \in 0 .. m /\ k \in 2 .. l /\ k - 1 \in 2 .. l
          /\ k - 1 - 2 = j - 1 /\ j + 2 = k
      BY <1>1, <2>3
    <3>. HIDE DEF j, l, m
    <3>2. at[k - 1] = 2 + Len(E(j - 1)) /\ at[k] = 2 + Len(E(j))
      BY <1>8, <3>1 DEF j
    <3>3. E(j) = E(j - 1) \o Escaped(f[k]) /\ f[k] \in Int
      BY <1>6, <3>1
    <3>4. E(j - 1) \in Seq(Int) /\ Len(E(j - 1)) \in Nat /\ Len(E(j)) \in Nat /\ Len(E(j)) <= Len(E(m))
          /\ (\A i \in 1 .. Len(E(j)) : E(m)[i] = E(j)[i]) /\ Len(E(m)) \in Nat
      BY <1>1, <1>3, <3>1
    <3>. DEFINE x == f[k]
                a == E(j - 1)
                b == E(j)
                c == Escaped(x)
    <3>. HIDE DEF x
    <3>5. x \in Int
      BY <3>3 DEF x
    <3>6. /\ c \in Seq(Int) /\ c[1] = x
          /\ x \in {ESCAPE, ESCAPE2} => Len(c) = 2 /\ c[2] = Stuff(x)
          /\ x \notin {ESCAPE, ESCAPE2} => Len(c) = 1
      BY <3>5, EscapedIs
    <3>7. b = a \o c
      BY <3>3 DEF x
    <3>8. a \in Seq(Int) /\ Len(a) \in Nat
      BY <3>4
    <3>9. Len(b) \in Nat /\ \A i \in 1 .. Len(b) : w[2 + i] = b[i]
      <4>1. \A i \in 1 .. Len(E(j)) : i \in 1 .. Len(E(m))
        BY <3>4
      <4>. QED BY <1>7, <3>4, <4>1
    <3>. HIDE DEF a, b, c
    <3>10. Len(b) = Len(a) + Len(c) /\ b[Len(a) + 1] = c[1] /\ (Len(c) = 2 => b[Len(a) + 2] = c[2])
      BY <3>6, <3>7, <3>8
    <3>11. at[k - 1] = 2 + Len(a) /\ at[k] = 2 + Len(b)
      BY <3>2 DEF a, b
    <3>12. w[2 + Len(a) + 1] = x
      <4>1. Len(a) + 1 \in 1 .. Len(b) /\ 2 + (Len(a) + 1) = 2 + Len(a) + 1
        BY <3>6, <3>8, <3>10
      <4>2. w[2 + (Len(a) + 1)] = b[Len(a) + 1]
        BY <3>9, <4>1
      <4>. QED BY <3>6, <3>10, <4>1, <4>2
    <3>13. x \in {ESCAPE, ESCAPE2} => w[2 + Len(a) + 2] = Stuff(x) /\ at[k] = at[k - 1] + 2
      <4>. SUFFICES ASSUME x \in {ESCAPE, ESCAPE2}
                    PROVE  w[2 + Len(a) + 2] = Stuff(x) /\ at[k] = at[k - 1] + 2
        OBVIOUS
      <4>1. Len(a) + 2 \in 1 .. Len(b) /\ 2 + (Len(a) + 2) = 2 + Len(a) + 2
        BY <3>6, <3>8, <3>10
      <4>2. w[2 + (Len(a) + 2)] = b[Len(a) + 2]
        BY <3>9, <4>1
      <4>. QED BY <3>6, <3>8, <3>10, <3>11, <4>1, <4>2
    <3>14. x \notin {ESCAPE, ESCAPE2} => at[k] = at[k - 1] + 1
      <4>. SUFFICES ASSUME x \notin {ESCAPE, ESCAPE2} PROVE at[k] = at[k - 1] + 1
        OBVIOUS
      <4>1. Len(c) = 1
        BY <3>6
      <4>2. Len(b) = Len(a) + 1
        BY <3>10, <4>1
      <4>. QED BY <3>8, <3>11, <4>2
    <3>15. Token(w, at[k - 1], at[k], x)
      BY <3>11, <3>12, <3>13, <3>14 DEF Token
    <3>. QED BY <3>15 DEF x
  <2>4. k = 1 \/ k = 2 \/ k > 2
    BY <1>1
  <2>. QED BY <2>1, <2>2, <2>3, <2>4
<1>11. Carried(w, f, 0, l, at)
  BY <1>9, <1>10 DEF Carried
<1>12. Len(w) = at[l] + 2 /\ w[at[l] + 1] = ESCAPE /\ w[at[l] + 2] = END
  <2>1. Len(E(m)) \in Nat
    BY <1>1, <1>3
  <2>. QED BY <1>7, <1>8, <2>1 DEF Sendable
<1>. QED BY <1>7, <1>8, <1>11, <1>12 DEF w

-----------------------------------------------------------------------------
(* What arrives of a frame *)

\* If the bytes of g are on the wire and two more behind them, the receiver makes of it g
\* with a footer.
LEMMA CarriedWhole ==
  ASSUME NEW w \in Seq(Int), NEW g \in Seq(Int), NEW l \in 0 .. Len(g), NEW at, NEW min \in Nat,
         Carried(w, g, 0, l, at), at[0] = 0, Len(w) = at[l] + 2
  PROVE  Received(w, min) = First(g, l) \o FOOTER
<1>1. PICK n \in 0 .. Len(w) :
         /\ Received(w, min) = IF n < 2 THEN First(w, n) ELSE Out(w, n - 2) \o FOOTER
         /\ (\A m \in min .. Len(w) - 1 : ~EndsAt(w, m)) => n = Len(w)
  BY ReceivedIs
<1>2. Len(g) \in Nat /\ l \in Nat /\ 0 \in 0 .. Len(g) /\ l \in 0 .. l /\ at[l] \in Nat /\ Len(w) \in Nat
  BY DEF Carried
<1>3. Odd(w, 0) = FALSE /\ Open(w, 0) = FALSE /\ Out(w, 0) = <<>> /\ First(g, 0) = <<>>
  BY DecoderStarts, FirstIs
<1>. DEFINE a == 0
<1>4. a \in 0 .. Len(g) /\ l \in a .. Len(g) /\ Carried(w, g, a, l, at)
      /\ Out(w, at[a]) = First(g, a) /\ (a < l => Ready(w, at[a], g[a + 1])) /\ Odd(w, at[a]) = FALSE
  BY <1>2, <1>3 DEF Ready
<1>. HIDE DEF a
<1>5. Delivered(w, g, a, l, at) /\ (Odd(w, at[a]) = FALSE => NoEnd(w, at[a] + 1, at[l]))
  BY <1>4, CarriedArrive
<1>6. Out(w, at[l]) = First(g, l) /\ Odd(w, at[l]) = FALSE /\ \A m \in 1 .. at[l] : ~EndsAt(w, m)
  <2>1. l \in a .. l /\ at[a] = 0
    BY <1>2 DEF a
  <2>2. Out(w, at[l]) = First(g, l) /\ Odd(w, at[l]) = FALSE
    BY <1>4, <1>5, <2>1 DEF Delivered
  <2>3. NoEnd(w, at[a] + 1, at[l])
    BY <1>4, <1>5
  <2>. QED BY <2>1, <2>2, <2>3 DEF NoEnd
<1>7. ~EndsAt(w, at[l] + 1)
  <2>. DEFINE m == at[l] + 1
  <2>1. m - 1 = at[l]
    BY <1>2
  <2>. HIDE DEF m
  <2>2. Odd(w, m - 1) = FALSE
    BY <1>6, <2>1
  <2>3. ~EndsAt(w, m)
    BY <2>2 DEF EndsAt
  <2>. QED BY <2>3 DEF m
<1>8. ~EndsAt(w, 0)
  BY DEF EndsAt
<1>9. \A m \in min .. Len(w) - 1 : ~EndsAt(w, m)
  <2>. TAKE m \in min .. Len(w) - 1
  <2>. DEFINE x == at[l]
              v == Len(w)
  <2>1. x \in Nat /\ v = x + 2 /\ m \in min .. v - 1
    BY <1>2
  <2>. HIDE DEF x, v
  <2>2. m = 0 \/ m \in 1 .. x \/ m = x + 1
    BY <2>1
  <2>. QED BY <1>6, <1>7, <1>8, <2>2 DEF x
<1>10. n = Len(w) /\ n - 2 = at[l] /\ ~(n < 2)
  <2>1. n = Len(w)
    BY <1>1, <1>9
  <2>. DEFINE x == at[l]
  <2>2. x \in Nat /\ n = x + 2
    BY <1>2, <2>1
  <2>. HIDE DEF x
  <2>3. n - 2 = x /\ ~(n < 2)
    BY <2>2
  <2>. QED BY <2>1, <2>3 DEF x
<1>. QED BY <1>1, <1>6, <1>10

\* A frame is its body and its footer.
LEMMA FooterSplit ==
  ASSUME NEW f, Sendable(f)
  PROVE  f = First(f, Len(f) - 2) \o FOOTER
<1>1. f \in Seq(Int) /\ Len(f) \in Nat /\ Len(f) >= 4 /\ Len(f) - 2 \in 0 .. Len(f)
  BY DEF Sendable
<1>. DEFINE a == First(f, Len(f) - 2)
<1>2. a \in Seq(Int) /\ Len(a) = Len(f) - 2 /\ \A i \in 1 .. Len(f) - 2 : a[i] = f[i]
  BY <1>1, FirstIs
<1>. HIDE DEF a
<1>3. FOOTER \in Seq(Int) /\ Len(FOOTER) = 2 /\ FOOTER[1] = ESCAPE /\ FOOTER[2] = END
  BY DEF FOOTER, ESCAPE, END
<1>4. /\ a \o FOOTER \in Seq(Int) /\ Len(a \o FOOTER) = Len(a) + Len(FOOTER)
      /\ \A i \in 1 .. Len(a) : (a \o FOOTER)[i] = a[i]
      /\ \A i \in 1 .. Len(FOOTER) : (a \o FOOTER)[Len(a) + i] = FOOTER[i]
  <2>1. FOOTER \in Seq(Int)
    BY <1>3
  <2>2. a \in Seq(Int)
    BY <1>2
  <2>. QED BY <2>1, <2>2, Concat
<1>. DEFINE b == a \o FOOTER
<1>5. b \in Seq(Int) /\ Len(b) = Len(f)
  BY <1>1, <1>2, <1>3, <1>4
<1>6. \A i \in 1 .. Len(f) : b[i] = f[i]
  <2>. TAKE i \in 1 .. Len(f)
  <2>1. CASE i <= Len(f) - 2
    BY <1>1, <1>2, <1>4, <2>1
  <2>2. CASE i = Len(f) - 1
    <3>1. 1 \in 1 .. Len(FOOTER) /\ Len(a) + 1 = i
      BY <1>1, <1>2, <1>3, <2>2
    <3>2. (a \o FOOTER)[Len(a) + 1] = FOOTER[1]
      BY <1>4, <3>1
    <3>. QED BY <1>3, <2>2, <3>1, <3>2 DEF Sendable
  <2>3. CASE i = Len(f)
    <3>1. 2 \in 1 .. Len(FOOTER) /\ Len(a) + 2 = i
      BY <1>1, <1>2, <1>3, <2>3
    <3>2. (a \o FOOTER)[Len(a) + 2] = FOOTER[2]
      BY <1>4, <3>1
    <3>. QED BY <1>3, <2>3, <3>1, <3>2 DEF Sendable
  <2>4. i <= Len(f) - 2 \/ i = Len(f) - 1 \/ i = Len(f)
    BY <1>1
  <2>. HIDE DEF b
  <2>. QED BY <2>1, <2>2, <2>3, <2>4
<1>. HIDE DEF b
<1>7. b = f
  BY <1>1, <1>5, <1>6, SeqEqual
<1>. QED BY <1>7 DEF a, b

\* A frame that is sent whole is received as it was.
LEMMA RoundTrip ==
  ASSUME NEW f, Sendable(f), NEW min \in Nat
  PROVE  Received(AddDuplicatedBytes(f), min) = f
<1>. DEFINE w == AddDuplicatedBytes(f)
            l == Len(f) - 2
<1>1. /\ w \in Seq(Int)
      /\ \E at : /\ Carried(w, f, 0, l, at)
                 /\ at[0] = 0 /\ at[1] = 1 /\ at[2] = 2
                 /\ Len(w) = at[l] + 2 /\ w[at[l] + 1] = ESCAPE /\ w[at[l] + 2] = END
  BY WireIs
<1>2. f \in Seq(Int) /\ l \in 0 .. Len(f)
  BY DEF Sendable
<1>. HIDE DEF w
<1>3. PICK at : Carried(w, f, 0, l, at) /\ at[0] = 0 /\ Len(w) = at[l] + 2
  BY <1>1
<1>4. f = First(f, l) \o FOOTER
  BY FooterSplit
<1>. HIDE DEF l
<1>5. Received(w, min) = First(f, l) \o FOOTER
  <2>1. w \in Seq(Int)
    BY <1>1
  <2>2. f \in Seq(Int)
    BY <1>2
  <2>3. l \in 0 .. Len(f)
    BY <1>2
  <2>. QED BY <1>3, <2>1, <2>2, <2>3, CarriedWhole
<1>. QED BY <1>4, <1>5 DEF w

-----------------------------------------------------------------------------
(* What arrives of a frame that loses a byte *)

\* The receiver is in the same state as long as it has got the same.
LEMMA SameStart ==
  ASSUME NEW w \in Seq(Int), NEW b \in Seq(Int), NEW m \in Nat, m <= Len(w), m <= Len(b),
         \A j \in 1 .. m : b[j] = w[j]
  PROVE  Out(b, m) = Out(w, m) /\ Odd(b, m) = Odd(w, m) /\ Open(b, m) = Open(w, m)
<1>1. Len(w) \in Nat /\ Len(b) \in Nat /\ m \in 0 .. Len(w) /\ m \in 0 .. Len(b)
  OBVIOUS
<1>. DEFINE x == First(w, m)
            y == First(b, m)
<1>2. x \in Seq(Int) /\ Len(x) = m /\ \A i \in 1 .. m : x[i] = w[i]
  BY <1>1, FirstIs
<1>3. y \in Seq(Int) /\ Len(y) = m /\ \A i \in 1 .. m : y[i] = b[i]
  BY <1>1, FirstIs
<1>. HIDE DEF x, y
<1>4. x = y
  BY <1>2, <1>3, SeqEqual
<1>. QED BY <1>4 DEF Out, Odd, Open, Stuffs, Doubles, x, y

\* The i-th byte of w, part of the k-th byte of f, is missing in b.
Missing(w, b, f, l, at, i, k) ==
  /\ w \in Seq(Int) /\ b \in Seq(Int) /\ f \in Seq(Int)
  /\ l \in 0 .. Len(f)
  /\ Carried(w, f, 0, l, at) /\ at[0] = 0 /\ Len(w) = at[l] + 2
  /\ i \in 1 .. Len(w)
  /\ Len(b) = Len(w) - 1
  /\ \A j \in 1 .. i - 1 : b[j] = w[j]
  /\ \A j \in i .. Len(w) - 1 : b[j] = w[j + 1]
  /\ k \in 1 .. l
  /\ at[k - 1] < i /\ i <= at[k]

\* What lies in front of it is where it was, what lies behind has moved.
LEMMA Shifted ==
  ASSUME NEW w, NEW b, NEW f, NEW l, NEW at, NEW i, NEW k, Missing(w, b, f, l, at, i, k)
  PROVE  /\ \A n \in 0 .. l : at[n] \in Nat /\ at[n] <= at[l]
         /\ \A n \in 0 .. k - 1 : at[n] <= at[k - 1]
         /\ \A n \in k .. l : at[k] <= at[n] /\ at[n] - 1 \in Nat
         /\ \A n \in 1 .. k - 1 : Token(b, at[n - 1], at[n], f[n])
         /\ \A n \in k + 1 .. l : Token(b, at[n - 1] - 1, at[n] - 1, f[n])
<1>1. w \in Seq(Int) /\ f \in Seq(Int) /\ l \in Nat /\ Carried(w, f, 0, l, at) /\ k \in 1 .. l
      /\ Len(w) \in Nat /\ i \in 1 .. Len(w) /\ at[k - 1] < i /\ i <= at[k] /\ Len(w) = at[l] + 2
  BY DEF Missing
<1>2. \A n \in 0 .. l : at[n] \in Nat
  BY <1>1 DEF Carried
<1>3. \A n \in 0 .. l : \A m \in n .. l : at[n] <= at[m]
  <2>. TAKE n \in 0 .. l
  <2>. TAKE m \in n .. l
  <2>1. n \in Nat /\ m \in Nat /\ n <= m /\ m \in 0 .. l
    BY <1>1
  <2>. DEFINE a == 0
  <2>2. a \in Nat /\ n \in a .. l /\ m \in n .. l /\ Carried(w, f, a, l, at)
    BY <1>1
  <2>. HIDE DEF a
  <2>3. at[n] + (m - n) <= at[m]
    <3>1. f \in Seq(Int)
      BY <1>1
    <3>2. w \in Seq(Int)
      BY <1>1
    <3>3. l \in Nat
      BY <1>1
    <3>. QED BY <2>2, <3>1, <3>2, <3>3, CarriedGrows
  <2>4. at[n] \in Nat /\ at[m] \in Nat
    BY <1>2, <2>1
  <2>. QED BY <2>1, <2>3, <2>4
<1>4. \A n \in 0 .. l : at[n] <= at[l]
  <2>1. \A n \in 0 .. l : l \in n .. l
    BY <1>1
  <2>. QED BY <1>3, <2>1
<1>5. \A n \in 0 .. k - 1 : at[n] <= at[k - 1]
  <2>. TAKE n \in 0 .. k - 1
  <2>1. n \in 0 .. l /\ k - 1 \in n .. l
    BY <1>1
  <2>. QED BY <1>3, <2>1
<1>6. \A n \in k .. l : at[k] <= at[n] /\ at[n] - 1 \in Nat
  <2>. TAKE n \in k .. l
  <2>1. k \in 0 .. l /\ n \in 0 .. l /\ k - 1 \in 0 .. l
    BY <1>1
  <2>2. at[k] <= at[n] /\ at[n] \in Nat /\ at[k] \in Nat /\ at[k - 1] \in Nat
    BY <1>2, <1>3, <2>1
  <2>. DEFINE x == at[n]
              y == at[k]
  <2>3. x \in Nat /\ y \in Nat /\ y <= x /\ i <= y /\ i \in Nat /\ 1 <= i
    BY <1>1, <2>2
  <2>. HIDE DEF x, y
  <2>4. x - 1 \in Nat
    BY <2>3
  <2>. QED BY <2>2, <2>4 DEF x
<1>7. ASSUME NEW n \in 1 .. k - 1 PROVE Token(b, at[n - 1], at[n], f[n])
  <2>1. n \in 1 .. l /\ n \in 0 .. k - 1 /\ n - 1 \in 0 .. l /\ n \in 0 .. l
    BY <1>1
  <2>2. Token(w, at[n - 1], at[n], f[n])
    BY <1>1, <2>1 DEF Carried
  <2>. DEFINE p == at[n - 1]
              q == at[n]
  <2>3. p \in Nat /\ q \in Nat /\ q < i
    <3>1. at[n] <= at[k - 1] /\ at[k - 1] \in Nat
      BY <1>1, <1>2, <1>5, <2>1
    <3>2. at[n] \in Nat /\ at[n - 1] \in Nat
      BY <1>2, <2>1
    <3>. QED BY <1>1, <3>1, <3>2
  <2>4. \A j \in 1 .. i - 1 : b[j] = w[j]
    BY DEF Missing
  <2>. HIDE DEF p, q
  <2>5. Token(w, p, q, f[n])
    BY <2>2 DEF p, q
  <2>6. p < q
    BY <2>3, <2>5 DEF Token
  <2>7. b[p + 1] = w[p + 1] /\ (q = p + 2 => b[p + 2] = w[p + 2])
    BY <1>1, <2>3, <2>4, <2>6
  <2>8. Token(b, p, q, f[n])
    BY <2>5, <2>7 DEF Token
  <2>. QED BY <2>8 DEF p, q
<1>8. ASSUME NEW n \in k + 1 .. l PROVE Token(b, at[n - 1] - 1, at[n] - 1, f[n])
  <2>1. n \in 1 .. l /\ n - 1 \in k .. l /\ n - 1 \in 0 .. l /\ n \in 0 .. l
    BY <1>1
  <2>2. Token(w, at[n - 1], at[n], f[n])
    BY <1>1, <2>1 DEF Carried
  <2>. DEFINE p == at[n - 1]
              q == at[n]
  <2>3. p \in Nat /\ q \in Nat /\ i <= p /\ q <= Len(w) - 2
    <3>1. at[k] <= at[n - 1] /\ at[n] <= at[l]
      BY <1>4, <1>6, <2>1
    <3>2. at[n] \in Nat /\ at[n - 1] \in Nat /\ at[k] \in Nat /\ at[l] \in Nat
      BY <1>1, <1>2, <2>1
    <3>3. i <= at[k] /\ Len(w) = at[l] + 2 /\ i \in Nat
      BY <1>1
    <3>4. i <= at[n - 1] /\ at[n] <= Len(w) - 2
      BY <3>1, <3>2, <3>3
    <3>. QED BY <3>2, <3>4
  <2>4. \A j \in i .. Len(w) - 1 : b[j] = w[j + 1]
    BY DEF Missing
  <2>. HIDE DEF p, q
  <2>5. Token(w, p, q, f[n])
    BY <2>2 DEF p, q
  <2>6. p < q
    BY <2>3, <2>5 DEF Token
  <2>7. b[p] = w[p + 1] /\ (q = p + 2 => b[p + 1] = w[p + 2])
    <3>. DEFINE m == Len(w)
    <3>1. m \in Nat /\ i \in Nat /\ p \in Nat /\ q \in Nat /\ i <= p /\ q <= m - 2 /\ p < q
      BY <1>1, <2>3, <2>6
    <3>. HIDE DEF m
    <3>2. p \in i .. m - 1
      BY <3>1
    <3>3. q = p + 2 => p + 1 \in i .. m - 1 /\ p + 1 + 1 = p + 2
      BY <3>1
    <3>4. \A j \in i .. m - 1 : b[j] = w[j + 1]
      BY <2>4 DEF m
    <3>. QED BY <3>2, <3>3, <3>4
  <2>8. p - 1 + 1 = p /\ p - 1 + 2 = p + 1 /\ (q = p + 2 => q - 1 = p - 1 + 2)
        /\ (q = p + 1 => q - 1 = p - 1 + 1)
    BY <2>3
  <2>9. Token(b, p - 1, q - 1, f[n])
    BY <2>5, <2>7, <2>8 DEF Token
  <2>. QED BY <2>9 DEF p, q
<1>. QED BY <1>2, <1>4, <1>5, <1>6, <1>7, <1>8

\* What is left of a frame: its beginning, or all but one byte, or all with a byte changed.
Cut(f, l, r) == (r \in Seq(Int) /\ Len(r) < 2) \/ \E j \in 0 .. l : r = First(f, j) \o FOOTER
Without(f, l, k) == [n \in 1 .. l - 1 |-> IF n < k THEN f[n] ELSE f[n + 1]]
Changed(f, l, k) == [n \in 1 .. l |-> IF n = k THEN STUFFING ELSE f[n]]

\* A receiver that has only the start of a frame in front of its last two bytes makes a cut frame of it.
LEMMA CutIs ==
  ASSUME NEW b \in Seq(Int), NEW f \in Seq(Int), NEW l \in 0 .. Len(f), NEW min \in Nat,
         Begins(b, 0, Len(b) - 2, f, l)
  PROVE  Cut(f, l, Received(b, min))
<1>1. PICK n \in 0 .. Len(b) :
         /\ Received(b, min) = IF n < 2 THEN First(b, n) ELSE Out(b, n - 2) \o FOOTER
         /\ (\A m \in min .. Len(b) - 1 : ~EndsAt(b, m)) => n = Len(b)
  BY ReceivedIs
<1>2. CASE n < 2
  <2>1. First(b, n) \in Seq(Int) /\ Len(First(b, n)) = n
    BY FirstIs
  <2>. QED BY <1>1, <1>2, <2>1 DEF Cut
<1>3. CASE ~(n < 2)
  <2>1. n - 2 \in 0 .. Len(b) - 2
    BY <1>3
  <2>2. PICK j \in 0 .. l : Out(b, n - 2) = First(f, j)
    BY <2>1 DEF Begins
  <2>. QED BY <1>1, <1>3, <2>2 DEF Cut
<1>. QED BY <1>2, <1>3

\* The receiver has got d from the first p bytes, and waits for nothing.
InStep(b, p, d) ==
  /\ p \in Nat /\ p < Len(b)
  /\ Out(b, p) = d
  /\ Odd(b, p) = FALSE /\ Open(b, p) = FALSE

\* The lengths of what was sent, of what is left, and of the frame.
LEMMA MissingTypes ==
  ASSUME NEW w, NEW b, NEW f, NEW l, NEW at, NEW i, NEW k, Missing(w, b, f, l, at, i, k)
  PROVE  /\ w \in Seq(Int) /\ b \in Seq(Int) /\ f \in Seq(Int)
         /\ l \in Nat /\ l \in 0 .. Len(f) /\ k \in 1 .. l /\ at[0] = 0 /\ at[l] \in Nat
         /\ Len(f) \in Nat /\ l <= Len(f) /\ Len(w) \in Nat /\ Len(b) \in Nat /\ Len(b) = at[l] + 1
<1>1. /\ w \in Seq(Int) /\ b \in Seq(Int) /\ f \in Seq(Int)
      /\ l \in 0 .. Len(f) /\ k \in 1 .. l /\ at[0] = 0
      /\ Len(w) = at[l] + 2 /\ Len(b) = Len(w) - 1
  BY DEF Missing
<1>2. Len(f) \in Nat /\ Len(w) \in Nat /\ Len(b) \in Nat
  BY <1>1
<1>3. l \in Nat /\ l <= Len(f) /\ l \in 0 .. l
  BY <1>1, <1>2
<1>4. \A n \in 0 .. l : at[n] \in Nat
  BY Shifted
<1>5. at[l] \in Nat
  BY <1>3, <1>4
<1>6. Len(b) = at[l] + 1
  <2>. DEFINE x == at[l]
              m == Len(w)
  <2>1. x \in Nat /\ m \in Nat /\ m = x + 2 /\ Len(b) = m - 1
    BY <1>1, <1>2, <1>5
  <2>. HIDE DEF x, m
  <2>2. Len(b) = x + 1
    BY <2>1
  <2>. QED BY <2>2 DEF x
<1>. QED BY <1>1, <1>2, <1>3, <1>5, <1>6

\* The tokens in front of a lost byte are read as they were sent.
LEMMA MissingFront ==
  ASSUME NEW w, NEW b, NEW f, NEW l, NEW at, NEW i, NEW k, Missing(w, b, f, l, at, i, k)
  PROVE  /\ InStep(b, at[k - 1], First(f, k - 1))
         /\ Begins(b, 0, at[k - 1], f, l)
<1>1. /\ b \in Seq(Int) /\ f \in Seq(Int) /\ l \in Nat /\ k \in 1 .. l /\ at[0] = 0
      /\ Len(f) \in Nat /\ l <= Len(f) /\ Len(b) = at[l] + 1 /\ Len(b) \in Nat /\ at[l] \in Nat
  <2>1. /\ w \in Seq(Int) /\ b \in Seq(Int) /\ f \in Seq(Int)
        /\ l \in Nat /\ l \in 0 .. Len(f) /\ k \in 1 .. l /\ at[0] = 0 /\ at[l] \in Nat
        /\ Len(f) \in Nat /\ l <= Len(f) /\ Len(w) \in Nat /\ Len(b) \in Nat /\ Len(b) = at[l] + 1
    BY MissingTypes
  <2>. QED BY <2>1
<1>2. /\ \A n \in 0 .. l : at[n] \in Nat /\ at[n] <= at[l]
      /\ \A n \in 0 .. k - 1 : at[n] <= at[k - 1]
      /\ \A n \in 1 .. k - 1 : Token(b, at[n - 1], at[n], f[n])
  BY Shifted
<1>. DEFINE a == 0
            c == k - 1
            to == [n \in a .. c |-> at[n]]
<1>3. Carried(b, f, a, c, to)
  <2>1. \A n \in a .. c : n \in 0 .. l
    BY <1>1
  <2>2. to \in [a .. c -> 0 .. Len(b)]
    <3>. SUFFICES ASSUME NEW n \in a .. c PROVE at[n] \in 0 .. Len(b)
      OBVIOUS
    <3>. DEFINE x == at[n]
                y == at[l]
                m == Len(b)
    <3>1. x \in Nat /\ x <= y
      BY <1>2, <2>1
    <3>2. y \in Nat /\ m = y + 1
      BY <1>1, Zenon
    <3>. HIDE DEF x, y, m
    <3>3. x \in 0 .. m
      BY <3>1, <3>2
    <3>. QED BY <3>3 DEF x, m
  <2>3. \A n \in a + 1 .. c : n \in 1 .. k - 1 /\ to[n - 1] = at[n - 1] /\ to[n] = at[n]
    BY <1>1
  <2>. HIDE DEF to
  <2>4. \A n \in a + 1 .. c : Token(b, to[n - 1], to[n], f[n])
    BY <1>2, <2>3
  <2>. QED BY <2>2, <2>4 DEF Carried
<1>4. to[a] = 0 /\ to[c] = at[k - 1] /\ c \in a .. c /\ a \in 0 .. Len(f) /\ c \in a .. Len(f)
  BY <1>1
<1>5. Odd(b, 0) = FALSE /\ Open(b, 0) = FALSE /\ Out(b, 0) = <<>> /\ First(f, 0) = <<>>
  <2>1. 0 \in 0 .. Len(f)
    BY <1>1
  <2>. QED BY <1>1, <2>1, DecoderStarts, FirstIs
<1>6. Out(b, to[a]) = First(f, a) /\ Odd(b, to[a]) = FALSE /\ Open(b, to[a]) = FALSE
  BY <1>4, <1>5
<1>7. a < c => Ready(b, to[a], f[a + 1])
  BY <1>6 DEF Ready
<1>8. \A n \in 0 .. c : n \in 0 .. l
  BY <1>1
<1>. HIDE DEF a, c, to
<1>9. Delivered(b, f, a, c, to) /\ Begins(b, to[a], to[c], f, c)
  <2>1. b \in Seq(Int)
    BY <1>1
  <2>2. f \in Seq(Int)
    BY <1>1
  <2>3. a \in 0 .. Len(f)
    BY <1>4
  <2>4. c \in a .. Len(f)
    BY <1>4
  <2>5. Out(b, to[a]) = First(f, a)
    BY <1>6
  <2>. QED BY <1>3, <1>7, <2>1, <2>2, <2>3, <2>4, <2>5, CarriedArrive
<1>10. Out(b, at[k - 1]) = First(f, c) /\ Odd(b, at[k - 1]) = FALSE
  BY <1>4, <1>6, <1>9 DEF Delivered
<1>11. Open(b, at[k - 1]) = FALSE
  <2>1. c = a \/ a < c
    BY <1>4 DEF a
  <2>. QED BY <1>4, <1>6, <1>9, <2>1 DEF Delivered
<1>12. Begins(b, 0, at[k - 1], f, l)
  BY <1>4, <1>8, <1>9 DEF Begins
<1>13. at[k - 1] \in Nat /\ at[k - 1] < Len(b)
  <2>1. k - 1 \in 0 .. l
    BY <1>1
  <2>. DEFINE x == at[k - 1]
              y == at[l]
              m == Len(b)
  <2>2. x \in Nat /\ x <= y
    BY <1>2, <2>1
  <2>3. y \in Nat /\ m = y + 1
    BY <1>1, Zenon
  <2>. HIDE DEF x, y, m
  <2>4. x \in Nat /\ x < m
    BY <2>2, <2>3
  <2>. QED BY <2>4 DEF x, m
<1>14. Out(b, at[k - 1]) = First(f, k - 1)
  BY <1>10 DEF c
<1>. QED BY <1>10, <1>11, <1>12, <1>13, <1>14 DEF InStep

\* The receiver has the k-th byte, of which one of two has been lost, and is ready for the next.
Rejoined(b, f, l, at, k) ==
  /\ at[k] = at[k - 1] + 2
  /\ Out(b, at[k] - 1) = First(f, k)
  /\ k < l => Ready(b, at[k] - 1, f[k + 1])

\* If the decoder is in step again behind the lost byte, at most the end is missing.
LEMMA MissingBack ==
  ASSUME NEW w, NEW b, NEW f, NEW l, NEW at, NEW i, NEW k, Missing(w, b, f, l, at, i, k),
         Rejoined(b, f, l, at, k), NEW min \in Nat
  PROVE  Cut(f, l, Received(b, min))
<1>1. /\ at[k - 1] \in Nat /\ at[k - 1] < Len(b)
      /\ Begins(b, 0, at[k - 1], f, l)
  <2>1. InStep(b, at[k - 1], First(f, k - 1)) /\ Begins(b, 0, at[k - 1], f, l)
    BY MissingFront
  <2>. QED BY <2>1 DEF InStep
<1>2. /\ \A n \in 0 .. l : at[n] \in Nat /\ at[n] <= at[l]
      /\ \A n \in k .. l : at[k] <= at[n] /\ at[n] - 1 \in Nat
      /\ \A n \in k + 1 .. l : Token(b, at[n - 1] - 1, at[n] - 1, f[n])
  BY Shifted
<1>3. /\ b \in Seq(Int) /\ f \in Seq(Int) /\ l \in 0 .. Len(f) /\ l \in Nat /\ k \in 1 .. l
      /\ Len(f) \in Nat /\ Len(b) = at[l] + 1 /\ at[l] \in Nat
  <2>1. /\ w \in Seq(Int) /\ b \in Seq(Int) /\ f \in Seq(Int)
        /\ l \in Nat /\ l \in 0 .. Len(f) /\ k \in 1 .. l /\ at[0] = 0 /\ at[l] \in Nat
        /\ Len(f) \in Nat /\ l <= Len(f) /\ Len(w) \in Nat /\ Len(b) \in Nat /\ Len(b) = at[l] + 1
    BY MissingTypes
  <2>. QED BY <2>1
<1>. DEFINE to == [n \in k .. l |-> at[n] - 1]
<1>4. Carried(b, f, k, l, to)
  <2>1. \A n \in k .. l : n \in 0 .. l
    BY <1>3
  <2>2. \A n \in k .. l : at[n] - 1 \in 0 .. Len(b)
    <3>. TAKE n \in k .. l
    <3>1. at[n] - 1 \in Nat /\ at[n] \in Nat /\ at[n] <= at[l]
      BY <1>2, <2>1
    <3>. DEFINE x == at[n]
                y == at[l]
                m == Len(b)
    <3>2. x - 1 \in Nat /\ x \in Nat /\ x <= y
      BY <3>1
    <3>3. m = y + 1 /\ y \in Nat
      BY <1>3
    <3>. HIDE DEF x, y, m
    <3>4. x - 1 \in 0 .. m
      BY <3>2, <3>3
    <3>. QED BY <3>4 DEF x, m
  <2>3. to \in [k .. l -> 0 .. Len(b)]
    BY <2>2
  <2>4. \A n \in k + 1 .. l : to[n - 1] = at[n - 1] - 1 /\ to[n] = at[n] - 1
    BY <1>3
  <2>. HIDE DEF to
  <2>5. \A n \in k + 1 .. l : Token(b, to[n - 1], to[n], f[n])
    BY <1>2, <2>4
  <2>. QED BY <2>3, <2>5 DEF Carried
<1>5. to[k] = at[k] - 1 /\ to[l] = at[l] - 1
  BY <1>3
<1>. HIDE DEF to
<1>6. Begins(b, to[k], to[l], f, l)
  <2>1. b \in Seq(Int)
    BY <1>3
  <2>2. f \in Seq(Int)
    BY <1>3
  <2>3. k \in 0 .. Len(f)
    BY <1>3
  <2>4. l \in k .. Len(f)
    BY <1>3
  <2>5. Out(b, to[k]) = First(f, k)
    BY <1>5 DEF Rejoined
  <2>6. k < l => Ready(b, to[k], f[k + 1])
    BY <1>5 DEF Rejoined
  <2>. QED BY <1>4, <2>1, <2>2, <2>3, <2>4, <2>5, <2>6, CarriedArrive
<1>7. Begins(b, 0, Len(b) - 2, f, l)
  <2>. SUFFICES ASSUME NEW m \in 0 .. Len(b) - 2
                PROVE  \E j \in 0 .. l : Out(b, m) = First(f, j)
    BY DEF Begins
  <2>1. m \in 0 .. at[k - 1] \/ m \in to[k] .. to[l]
    <3>2. at[k] = at[k - 1] + 2
      BY DEF Rejoined
    <3>1. to[l] = Len(b) - 2 /\ to[k] = at[k - 1] + 1
      <4>. DEFINE x == at[k]
                  y == at[k - 1]
                  z == at[l]
      <4>1. y \in Nat /\ x = y + 2 /\ to[k] = x - 1 /\ z \in Nat /\ to[l] = z - 1 /\ Len(b) = z + 1
        BY <1>1, <1>3, <1>5, <3>2
      <4>. HIDE DEF x, y, z
      <4>2. to[k] = y + 1 /\ to[l] = Len(b) - 2
        BY <4>1
      <4>. QED BY <4>2 DEF y
    <3>. QED BY <1>1, <1>3, <3>1
  <2>. QED BY <1>1, <1>6, <2>1 DEF Begins
<1>8. b \in Seq(Int)
  BY <1>3
<1>9. f \in Seq(Int)
  BY <1>3
<1>10. l \in 0 .. Len(f)
  BY <1>3
<1>. QED BY <1>7, <1>8, <1>9, <1>10, CutIs

\* One of the two ESCAPE that stand for one is lost. The other one waits for a second, and
\* takes the first ESCAPE that follows for it, in which case that one waits, and so on.
LEMMA LostEscape ==
  ASSUME NEW w, NEW b, NEW f, NEW l, NEW at, NEW i, NEW k, Missing(w, b, f, l, at, i, k),
         f[k] = ESCAPE
  PROVE  Rejoined(b, f, l, at, k)
<1>. DEFINE p == at[k - 1]
<1>1. /\ p \in Nat /\ p < Len(b)
      /\ Out(b, p) = First(f, k - 1)
      /\ Odd(b, p) = FALSE /\ Open(b, p) = FALSE
  <2>1. InStep(b, at[k - 1], First(f, k - 1))
    BY MissingFront
  <2>. QED BY <2>1 DEF InStep
<1>2. /\ b \in Seq(Int) /\ f \in Seq(Int) /\ k \in 1 .. l /\ l \in 0 .. Len(f) /\ Token(w, p, at[k], f[k])
      /\ Len(b) \in Nat /\ Len(f) \in Nat
  <2>1. b \in Seq(Int) /\ f \in Seq(Int) /\ k \in 1 .. l /\ l \in 0 .. Len(f) /\ Carried(w, f, 0, l, at)
    BY DEF Missing
  <2>2. k \in 0 + 1 .. l /\ Len(b) \in Nat /\ Len(f) \in Nat
    BY <2>1
  <2>3. \A n \in 0 + 1 .. l : Token(w, at[n - 1], at[n], f[n])
    BY <2>1 DEF Carried
  <2>4. Token(w, p, at[k], f[k])
    BY <2>2, <2>3
  <2>. QED BY <2>1, <2>2, <2>4
<1>3. /\ ESCAPE \in {ESCAPE, ESCAPE2} /\ Stuff(ESCAPE) = ESCAPE /\ ESCAPE # ESCAPE2 /\ ESCAPE # STUFFING
      /\ ESCAPE \in Int
  BY DEF Stuff, ESCAPE, ESCAPE2, STUFFING
<1>4. w[p + 1] = ESCAPE /\ w[p + 2] = ESCAPE /\ at[k] = p + 2
  BY <1>2, <1>3 DEF Token
<1>5. p < i /\ i <= at[k] /\ i \in 1 .. Len(w) /\ Len(w) \in Nat
      /\ (\A j \in 1 .. i - 1 : b[j] = w[j]) /\ (\A j \in i .. Len(w) - 1 : b[j] = w[j + 1])
      /\ Len(b) = Len(w) - 1
  <2>1. w \in Seq(Int)
    BY DEF Missing
  <2>. QED BY <2>1 DEF Missing
<1>. DEFINE m == p + 1
<1>6. m \in 1 .. Len(b) /\ m - 1 = p /\ at[k] - 1 = m /\ m \in Nat
  <2>1. p \in Nat /\ p < Len(b) /\ Len(b) \in Nat /\ at[k] = p + 2
    BY <1>1, <1>2, <1>4
  <2>. HIDE DEF p
  <2>. QED BY <2>1
<1>7. b[m] = ESCAPE
  <2>1. i = p + 1 \/ i = p + 2
    BY <1>1, <1>4, <1>5
  <2>2. CASE i = p + 1
    <3>1. m \in i .. Len(w) - 1 /\ m + 1 = p + 2
      BY <1>1, <1>5, <1>6, <2>2
    <3>. QED BY <1>4, <1>5, <3>1
  <2>3. CASE i = p + 2
    <3>1. m \in 1 .. i - 1
      BY <1>1, <2>3
    <3>. QED BY <1>4, <1>5, <3>1
  <2>. QED BY <2>1, <2>2, <2>3
<1>. HIDE DEF p, m
<1>8. /\ Odd(b, m - 1) \in BOOLEAN /\ Open(b, m - 1) \in BOOLEAN /\ Out(b, m - 1) \in Seq(Int)
      /\ Odd(b, m) = (Odd(b, m - 1) = FALSE /\ b[m] = ESCAPE)
      /\ ~(Odd(b, m - 1) /\ b[m] = ESCAPE) /\ ~(Open(b, m - 1) /\ b[m] = STUFFING) =>
           Open(b, m) = (b[m] = ESCAPE2) /\ Out(b, m) = Append(Out(b, m - 1), b[m])
  <2>1. b \in Seq(Int)
    BY <1>2
  <2>2. m \in 1 .. Len(b)
    BY <1>6
  <2>. QED BY <2>1, <2>2, DecoderStep
<1>9. Odd(b, m - 1) = FALSE /\ Open(b, m - 1) = FALSE /\ Out(b, m - 1) = First(f, k - 1)
  BY <1>1, <1>6
<1>10. Open(b, m) = FALSE /\ Out(b, m) = Append(First(f, k - 1), f[k])
  BY <1>3, <1>7, <1>8, <1>9
<1>11. First(f, k) = Append(First(f, k - 1), f[k])
  <2>1. k \in 1 .. Len(f)
    BY <1>2
  <2>. QED BY <1>2, <2>1, FirstStep
<1>12. Out(b, at[k] - 1) = First(f, k) /\ Open(b, at[k] - 1) = FALSE
  BY <1>6, <1>10, <1>11
<1>13. at[k] = at[k - 1] + 2
  BY <1>4 DEF p
<1>. QED BY <1>12, <1>13 DEF Rejoined, Ready

\* The byte behind an ESCAPE2 is lost. The receiver waits for it, and takes the next byte for
\* it if it looks like it.
LEMMA LostStuffing ==
  ASSUME NEW w, NEW b, NEW f, NEW l, NEW at, NEW i, NEW k, Missing(w, b, f, l, at, i, k),
         f[k] = ESCAPE2, i = at[k], k < l => f[k + 1] # STUFFING
  PROVE  Rejoined(b, f, l, at, k)
<1>. DEFINE p == at[k - 1]
<1>1. /\ p \in Nat /\ p < Len(b)
      /\ Out(b, p) = First(f, k - 1)
      /\ Odd(b, p) = FALSE /\ Open(b, p) = FALSE
  <2>1. InStep(b, at[k - 1], First(f, k - 1))
    BY MissingFront
  <2>. QED BY <2>1 DEF InStep
<1>2. /\ b \in Seq(Int) /\ f \in Seq(Int) /\ k \in 1 .. l /\ l \in 0 .. Len(f) /\ Token(w, p, at[k], f[k])
      /\ Len(b) \in Nat /\ Len(f) \in Nat
  <2>1. b \in Seq(Int) /\ f \in Seq(Int) /\ k \in 1 .. l /\ l \in 0 .. Len(f) /\ Carried(w, f, 0, l, at)
    BY DEF Missing
  <2>2. k \in 0 + 1 .. l /\ Len(b) \in Nat /\ Len(f) \in Nat
    BY <2>1
  <2>3. \A n \in 0 + 1 .. l : Token(w, at[n - 1], at[n], f[n])
    BY <2>1 DEF Carried
  <2>4. Token(w, p, at[k], f[k])
    BY <2>2, <2>3
  <2>. QED BY <2>1, <2>2, <2>4
<1>3. ESCAPE2 \in {ESCAPE, ESCAPE2} /\ ESCAPE # ESCAPE2 /\ ESCAPE2 # STUFFING /\ ESCAPE2 \in Int
  BY DEF ESCAPE, ESCAPE2, STUFFING
<1>4. w[p + 1] = ESCAPE2 /\ at[k] = p + 2
  BY <1>2, <1>3 DEF Token
<1>5. \A j \in 1 .. i - 1 : b[j] = w[j]
  BY DEF Missing
<1>. DEFINE m == p + 1
<1>6. m \in 1 .. Len(b) /\ m - 1 = p /\ at[k] - 1 = m /\ m \in Nat
  <2>1. p \in Nat /\ p < Len(b) /\ Len(b) \in Nat /\ at[k] = p + 2
    BY <1>1, <1>2, <1>4
  <2>. HIDE DEF p
  <2>. QED BY <2>1
<1>7. b[m] = ESCAPE2
  <2>1. m \in 1 .. i - 1
    BY <1>1, <1>4
  <2>. QED BY <1>4, <1>5, <2>1
<1>. HIDE DEF p, m
<1>8. /\ Odd(b, m - 1) \in BOOLEAN /\ Open(b, m - 1) \in BOOLEAN /\ Out(b, m - 1) \in Seq(Int)
      /\ Odd(b, m) = (Odd(b, m - 1) = FALSE /\ b[m] = ESCAPE)
      /\ ~(Odd(b, m - 1) /\ b[m] = ESCAPE) /\ ~(Open(b, m - 1) /\ b[m] = STUFFING) =>
           Open(b, m) = (b[m] = ESCAPE2) /\ Out(b, m) = Append(Out(b, m - 1), b[m])
  <2>1. b \in Seq(Int)
    BY <1>2
  <2>2. m \in 1 .. Len(b)
    BY <1>6
  <2>. QED BY <2>1, <2>2, DecoderStep
<1>9. Odd(b, m - 1) = FALSE /\ Open(b, m - 1) = FALSE /\ Out(b, m - 1) = First(f, k - 1)
  BY <1>1, <1>6
<1>10. Odd(b, m) = FALSE /\ Out(b, m) = Append(First(f, k - 1), f[k])
  BY <1>3, <1>7, <1>8, <1>9
<1>11. First(f, k) = Append(First(f, k - 1), f[k])
  <2>1. k \in 1 .. Len(f)
    BY <1>2
  <2>. QED BY <1>2, <2>1, FirstStep
<1>12. Out(b, at[k] - 1) = First(f, k) /\ Odd(b, at[k] - 1) = FALSE
  BY <1>6, <1>10, <1>11
<1>13. at[k] = at[k - 1] + 2
  BY <1>4 DEF p
<1>. QED BY <1>12, <1>13 DEF Rejoined, Ready

\* The bytes of g are those of f but one: what follows them on the wire has moved up.
Closes(b, f, g, l, at, k) ==
  /\ g \in Seq(Int) /\ Len(g) = l - 1
  /\ \A n \in 1 .. k - 1 : g[n] = f[n]
  /\ \A n \in k + 1 .. l - 1 : g[n] = f[n + 1]
  /\ k < l => Token(b, at[k - 1], at[k + 1] - 1, g[k])
  /\ k = l => at[k - 1] = at[l] - 1

\* A wire that carries another frame, behind the lost byte, is read as that one.
LEMMA MissingOne ==
  ASSUME NEW w, NEW b, NEW f, NEW g, NEW l, NEW at, NEW i, NEW k, Missing(w, b, f, l, at, i, k),
         Closes(b, f, g, l, at, k), NEW min \in Nat
  PROVE  Received(b, min) = g \o FOOTER
<1>1. /\ \A n \in 0 .. l : at[n] \in Nat /\ at[n] <= at[l]
      /\ \A n \in k .. l : at[k] <= at[n] /\ at[n] - 1 \in Nat
      /\ \A n \in 1 .. k - 1 : Token(b, at[n - 1], at[n], f[n])
      /\ \A n \in k + 1 .. l : Token(b, at[n - 1] - 1, at[n] - 1, f[n])
  BY Shifted
<1>2. /\ b \in Seq(Int) /\ l \in Nat /\ k \in 1 .. l /\ at[0] = 0
      /\ Len(b) = at[l] + 1 /\ at[l] \in Nat
  <2>1. /\ w \in Seq(Int) /\ b \in Seq(Int) /\ f \in Seq(Int)
        /\ l \in Nat /\ l \in 0 .. Len(f) /\ k \in 1 .. l /\ at[0] = 0 /\ at[l] \in Nat
        /\ Len(f) \in Nat /\ l <= Len(f) /\ Len(w) \in Nat /\ Len(b) \in Nat /\ Len(b) = at[l] + 1
    BY MissingTypes
  <2>. QED BY <2>1
<1>. DEFINE h == l - 1
            to == [n \in 0 .. h |-> IF n < k THEN at[n] ELSE at[n + 1] - 1]
<1>3. \A n \in 0 .. h : /\ n < k => to[n] = at[n]
                        /\ ~(n < k) => to[n] = at[n + 1] - 1
  OBVIOUS
<1>4. to \in [0 .. h -> 0 .. Len(b)]
  <2>1. \A n \in 0 .. h : (IF n < k THEN at[n] ELSE at[n + 1] - 1) \in 0 .. Len(b)
    <3>. TAKE n \in 0 .. h
    <3>1. CASE n < k
      <4>1. n \in 0 .. l
        BY <1>2, <3>1
      <4>2. at[n] \in Nat /\ at[n] <= at[l]
        BY <1>1, <4>1
      <4>. QED BY <1>2, <3>1, <4>2
    <3>2. CASE ~(n < k)
      <4>1. n + 1 \in k .. l /\ n + 1 \in 0 .. l
        BY <1>2, <3>2
      <4>2. at[n + 1] - 1 \in Nat /\ at[n + 1] \in Nat /\ at[n + 1] <= at[l]
        BY <1>1, <4>1
      <4>. DEFINE x == at[n + 1]
      <4>3. x - 1 \in Nat /\ x \in Nat /\ x <= at[l]
        BY <4>2
      <4>. HIDE DEF x
      <4>4. x - 1 \in 0 .. Len(b)
        BY <1>2, <4>3
      <4>. QED BY <3>2, <4>4 DEF x
    <3>. QED BY <3>1, <3>2
  <2>. QED BY <2>1
<1>5. ASSUME NEW n \in 1 .. h PROVE Token(b, to[n - 1], to[n], g[n])
  <2>1. n \in 0 .. h /\ n - 1 \in 0 .. h
    BY <1>2
  <2>2. CASE n < k
    <3>1. to[n] = at[n] /\ to[n - 1] = at[n - 1] /\ n \in 1 .. k - 1
      BY <1>2, <1>3, <2>1, <2>2
    <3>2. g[n] = f[n]
      BY <3>1 DEF Closes
    <3>. QED BY <1>1, <3>1, <3>2
  <2>3. CASE n = k
    <3>1. to[n] = at[n + 1] - 1 /\ to[n - 1] = at[n - 1] /\ n < l
      BY <1>2, <1>3, <2>1, <2>3
    <3>2. Token(b, at[k - 1], at[k + 1] - 1, g[k])
      BY <2>3, <3>1 DEF Closes
    <3>. QED BY <2>3, <3>1, <3>2
  <2>4. CASE n > k
    <3>1. ~(n < k) /\ ~(n - 1 < k) /\ n - 1 + 1 = n /\ n + 1 \in k + 1 .. l /\ n \in k + 1 .. l - 1
          /\ n + 1 - 1 = n
      BY <1>2, <2>4
    <3>2. to[n] = at[n + 1] - 1 /\ to[n - 1] = at[n] - 1
      BY <1>3, <2>1, <3>1
    <3>3. g[n] = f[n + 1]
      BY <3>1 DEF Closes
    <3>4. Token(b, at[n + 1 - 1] - 1, at[n + 1] - 1, f[n + 1])
      BY <1>1, <3>1
    <3>. QED BY <3>1, <3>2, <3>3, <3>4
  <2>. QED BY <1>2, <2>2, <2>3, <2>4
<1>6. h \in Nat /\ 0 \in 0 .. h /\ h \in 0 .. h
  BY <1>2
<1>7. to[0] = 0
  BY <1>2, <1>3, <1>6
<1>8. to[h] + 2 = Len(b)
  <2>1. CASE k = l
    <3>1. to[h] = at[k - 1] /\ at[k - 1] = at[l] - 1
      BY <1>2, <1>3, <1>6, <2>1 DEF Closes
    <3>. QED BY <1>2, <3>1
  <2>2. CASE k # l
    <3>1. to[h] = at[h + 1] - 1 /\ h + 1 = l
      BY <1>2, <1>3, <1>6, <2>2
    <3>. QED BY <1>2, <3>1
  <2>. QED BY <2>1, <2>2
<1>9. g \in Seq(Int) /\ Len(g) = h
  BY DEF Closes
<1>. HIDE DEF to, h
<1>. DEFINE a == 0
<1>10. a + 1 .. h = 1 .. h /\ to \in [a .. h -> 0 .. Len(b)] /\ a = 0
  BY <1>4
<1>11. Carried(b, g, 0, h, to)
  <2>. HIDE DEF a
  <2>1. Carried(b, g, a, h, to)
    BY <1>5, <1>10 DEF Carried
  <2>. QED BY <1>10, <2>1
<1>12. Received(b, min) = First(g, h) \o FOOTER
  <2>1. h \in 0 .. Len(g)
    BY <1>6, <1>9
  <2>2. b \in Seq(Int)
    BY <1>2
  <2>3. g \in Seq(Int)
    BY <1>9
  <2>4. Len(b) = to[h] + 2
    BY <1>8
  <2>. QED BY <1>7, <1>11, <2>1, <2>2, <2>3, <2>4, CarriedWhole
<1>13. First(g, h) = g
  <2>1. h \in 0 .. Len(g)
    BY <1>6, <1>9
  <2>2. Len(First(g, h)) = h /\ First(g, h) \in Seq(Int) /\ \A n \in 1 .. h : First(g, h)[n] = g[n]
    BY <1>9, <2>1, FirstIs
  <2>. DEFINE x == First(g, h)
  <2>3. x \in Seq(Int) /\ Len(x) = Len(g) /\ \A n \in 1 .. Len(x) : x[n] = g[n]
    BY <1>9, <2>2
  <2>. HIDE DEF x
  <2>4. x = g
    BY <1>9, <2>3, SeqEqual
  <2>. QED BY <2>4 DEF x
<1>. QED BY <1>12, <1>13

\* The first l bytes of a frame without the byte k.
LEMMA WithoutIs ==
  ASSUME NEW f \in Seq(Int), NEW l \in 1 .. Len(f), NEW k \in 1 .. l
  PROVE  /\ Without(f, l, k) \in Seq(Int) /\ Len(Without(f, l, k)) = l - 1
         /\ \A n \in 1 .. k - 1 : Without(f, l, k)[n] = f[n]
         /\ \A n \in k .. l - 1 : Without(f, l, k)[n] = f[n + 1]
<1>1. Len(f) \in Nat /\ l \in Nat /\ k \in Nat /\ l - 1 \in Nat /\ k <= l /\ l <= Len(f)
  OBVIOUS
<1>2. \A n \in 1 .. l - 1 : (IF n < k THEN f[n] ELSE f[n + 1]) \in Int
  <2>. TAKE n \in 1 .. l - 1
  <2>1. n \in 1 .. Len(f) /\ n + 1 \in 1 .. Len(f)
    BY <1>1
  <2>. QED BY <2>1
<1>. DEFINE h == l - 1
            g == [n \in 1 .. h |-> IF n < k THEN f[n] ELSE f[n + 1]]
<1>3. g \in Seq(Int) /\ Len(g) = h
  <2>1. h \in Nat
    BY <1>1
  <2>2. \A n \in 1 .. h : (IF n < k THEN f[n] ELSE f[n + 1]) \in Int
    BY <1>2
  <2>. HIDE DEF h
  <2>. QED BY <2>1, <2>2
<1>4. \A n \in 1 .. k - 1 : n \in 1 .. h /\ n < k
  BY <1>1
<1>5. \A n \in k .. l - 1 : n \in 1 .. h /\ ~(n < k)
  BY <1>1
<1>6. \A n \in 1 .. k - 1 : g[n] = f[n]
  BY <1>4
<1>7. \A n \in k .. l - 1 : g[n] = f[n + 1]
  BY <1>5
<1>. QED BY <1>3, <1>6, <1>7 DEF Without

\* The first l bytes of a frame with STUFFING for the byte k.
LEMMA ChangedIs ==
  ASSUME NEW f \in Seq(Int), NEW l \in 1 .. Len(f), NEW k \in 1 .. l
  PROVE  /\ Changed(f, l, k) \in Seq(Int) /\ Len(Changed(f, l, k)) = l
         /\ \A n \in 1 .. l : n # k => Changed(f, l, k)[n] = f[n]
         /\ Changed(f, l, k)[k] = STUFFING
<1>1. Len(f) \in Nat /\ l \in Nat /\ l <= Len(f) /\ STUFFING \in Int
  BY DEF STUFFING
<1>2. \A n \in 1 .. l : n \in 1 .. Len(f)
  BY <1>1
<1>3. \A n \in 1 .. l : (IF n = k THEN STUFFING ELSE f[n]) \in Int
  BY <1>1, <1>2
<1>. DEFINE g == [n \in 1 .. l |-> IF n = k THEN STUFFING ELSE f[n]]
<1>4. g \in Seq(Int) /\ Len(g) = l
  BY <1>1, <1>3
<1>. QED BY <1>4 DEF Changed

\* The bytes of a frame, of which one is missing on the wire.
LEMMA MissingIs ==
  ASSUME NEW w, NEW b, NEW f, NEW l, NEW at, NEW i, NEW k, Missing(w, b, f, l, at, i, k)
  PROVE  /\ w \in Seq(Int) /\ b \in Seq(Int) /\ f \in Seq(Int) /\ Len(w) \in Nat
         /\ l \in Nat /\ l \in 1 .. Len(f) /\ k \in 1 .. l /\ i \in 1 .. Len(w)
         /\ at[k - 1] \in Nat /\ at[k] \in Nat /\ at[k - 1] < i /\ i <= at[k] /\ at[k] + 2 <= Len(w)
         /\ Token(w, at[k - 1], at[k], f[k])
         /\ \A j \in 1 .. i - 1 : b[j] = w[j]
         /\ \A j \in i .. Len(w) - 1 : b[j] = w[j + 1]
<1>1. /\ w \in Seq(Int) /\ b \in Seq(Int) /\ f \in Seq(Int) /\ k \in 1 .. l /\ l \in 0 .. Len(f)
      /\ i \in 1 .. Len(w) /\ at[k - 1] < i /\ i <= at[k] /\ Len(w) = at[l] + 2
      /\ Carried(w, f, 0, l, at)
  BY DEF Missing
<1>2. Len(w) \in Nat /\ Len(f) \in Nat /\ l \in Nat /\ l \in 1 .. Len(f)
  BY <1>1
<1>3. k \in 0 + 1 .. l /\ k \in 0 .. l /\ k - 1 \in 0 .. l
  BY <1>1, <1>2
<1>4. at[k - 1] \in Nat /\ at[k] \in Nat /\ at[k] <= at[l] /\ at[l] \in Nat
  <2>1. \A n \in 0 .. l : at[n] \in Nat /\ at[n] <= at[l]
    BY Shifted
  <2>2. l \in 0 .. l
    BY <1>2
  <2>. QED BY <1>3, <2>1, <2>2
<1>5. Token(w, at[k - 1], at[k], f[k])
  BY <1>1, <1>3 DEF Carried
<1>6. at[k] + 2 <= Len(w)
  <2>. DEFINE x == at[k]
              y == at[l]
  <2>1. x \in Nat /\ y \in Nat /\ x <= y /\ Len(w) = y + 2
    BY <1>1, <1>4
  <2>. HIDE DEF x, y
  <2>2. x + 2 <= Len(w)
    BY <2>1
  <2>. QED BY <2>2 DEF x
<1>7. /\ \A j \in 1 .. i - 1 : b[j] = w[j]
      /\ \A j \in i .. Len(w) - 1 : b[j] = w[j + 1]
  BY DEF Missing
<1>. QED BY <1>1, <1>2, <1>4, <1>5, <1>6, <1>7

\* A byte that is sent as it is is lost.
LEMMA LostByte ==
  ASSUME NEW w, NEW b, NEW f, NEW l, NEW at, NEW i, NEW k, Missing(w, b, f, l, at, i, k),
         f[k] \notin {ESCAPE, ESCAPE2}
  PROVE  Closes(b, f, Without(f, l, k), l, at, k)
<1>1. /\ f \in Seq(Int) /\ l \in Nat /\ l \in 1 .. Len(f) /\ k \in 1 .. l
      /\ at[k - 1] \in Nat /\ Token(w, at[k - 1], at[k], f[k])
  BY MissingIs
<1>2. \A n \in k + 1 .. l : Token(b, at[n - 1] - 1, at[n] - 1, f[n])
  BY Shifted
<1>3. at[k] = at[k - 1] + 1
  BY <1>1 DEF Token
<1>4. at[k] - 1 = at[k - 1]
  <2>. DEFINE x == at[k]
              y == at[k - 1]
  <2>1. y \in Nat /\ x = y + 1
    BY <1>1, <1>3
  <2>. HIDE DEF x, y
  <2>2. x - 1 = y
    BY <2>1
  <2>. QED BY <2>2 DEF x, y
<1>. DEFINE g == Without(f, l, k)
<1>5. /\ g \in Seq(Int) /\ Len(g) = l - 1
      /\ \A n \in 1 .. k - 1 : g[n] = f[n]
      /\ \A n \in k .. l - 1 : g[n] = f[n + 1]
  BY <1>1, WithoutIs
<1>. HIDE DEF g
<1>6. \A n \in k + 1 .. l - 1 : g[n] = f[n + 1]
  <2>1. k \in Nat /\ l \in Nat
    BY <1>1
  <2>2. \A n \in k + 1 .. l - 1 : n \in k .. l - 1
    BY <2>1
  <2>3. \A n \in k .. l - 1 : g[n] = f[n + 1]
    BY <1>5
  <2>. QED BY <2>2, <2>3
<1>7. k < l => Token(b, at[k - 1], at[k + 1] - 1, g[k])
  <2>1. HAVE k < l
  <2>2. k \in k .. l - 1 /\ k + 1 \in k + 1 .. l /\ k + 1 - 1 = k
    BY <1>1, <2>1
  <2>3. Token(b, at[k + 1 - 1] - 1, at[k + 1] - 1, f[k + 1])
    BY <1>2, <2>2
  <2>4. g[k] = f[k + 1]
    BY <1>5, <2>2
  <2>. QED BY <1>4, <2>2, <2>3, <2>4
<1>8. k = l => at[k - 1] = at[l] - 1
  BY <1>4
<1>. QED BY <1>5, <1>6, <1>7, <1>8 DEF Closes, g

\* The byte behind an ESCAPE2 is lost, and the next byte is taken for it.
Swallows(f, l, at, i, k) == f[k] = ESCAPE2 /\ i = at[k] /\ k < l /\ f[k + 1] = STUFFING

\* A lost STUFFING behind which the frame has that byte: the byte of the frame is taken for it.
LEMMA SwallowedByte ==
  ASSUME NEW w, NEW b, NEW f, NEW l, NEW at, NEW i, NEW k, Missing(w, b, f, l, at, i, k),
         Swallows(f, l, at, i, k)
  PROVE  Closes(b, f, Without(f, l, k + 1), l, at, k)
<1>1. /\ w \in Seq(Int) /\ f \in Seq(Int) /\ l \in Nat /\ l \in 1 .. Len(f) /\ k \in 1 .. l
      /\ Len(w) \in Nat /\ i \in 1 .. Len(w)
      /\ at[k - 1] \in Nat /\ at[k] \in Nat /\ at[k] + 2 <= Len(w)
      /\ Token(w, at[k - 1], at[k], f[k])
      /\ \A j \in 1 .. i - 1 : b[j] = w[j]
      /\ \A j \in i .. Len(w) - 1 : b[j] = w[j + 1]
  BY MissingIs
<1>15. f[k] = ESCAPE2 /\ i = at[k] /\ k < l /\ f[k + 1] = STUFFING
  BY DEF Swallows
<1>2. /\ ESCAPE2 \in {ESCAPE, ESCAPE2} /\ Stuff(ESCAPE2) = STUFFING
      /\ STUFFING \notin {ESCAPE, ESCAPE2}
  BY DEF ESCAPE, ESCAPE2, STUFFING, Stuff
<1>3. at[k] = at[k - 1] + 2 /\ w[at[k - 1] + 1] = ESCAPE2
  BY <1>1, <1>2, <1>15 DEF Token
<1>4. k + 1 \in 1 .. l /\ k + 1 \in 0 + 1 .. l /\ k + 1 - 1 = k
  <2>1. k \in 1 .. l /\ l \in Nat /\ k < l
    BY <1>1, <1>15
  <2>. QED BY <2>1
<1>5. Token(w, at[k], at[k + 1], STUFFING)
  <2>1. Carried(w, f, 0, l, at)
    BY DEF Missing
  <2>. DEFINE m == k + 1
  <2>2. m \in 0 + 1 .. l /\ m - 1 = k
    <3>1. k \in 1 .. l /\ l \in Nat /\ k < l
      BY <1>1, <1>15
    <3>. QED BY <3>1
  <2>. HIDE DEF m
  <2>3. Token(w, at[m - 1], at[m], f[m])
    BY <2>1, <2>2 DEF Carried
  <2>4. f[m] = STUFFING
    BY <1>15 DEF m
  <2>5. Token(w, at[k], at[m], STUFFING)
    BY <2>2, <2>3, <2>4
  <2>. QED BY <2>5 DEF m
<1>6. w[at[k] + 1] = STUFFING /\ at[k + 1] = at[k] + 1
  BY <1>2, <1>5 DEF Token
<1>. DEFINE p == at[k - 1]
            q == at[k]
            r == at[k + 1]
<1>7. Token(b, p, r - 1, ESCAPE2)
  <2>1. p \in Nat /\ q \in Nat /\ q = p + 2 /\ r = q + 1 /\ w[p + 1] = ESCAPE2 /\ w[q + 1] = STUFFING
        /\ i = q /\ q + 2 <= Len(w)
    BY <1>1, <1>3, <1>6, <1>15
  <2>. HIDE DEF p, q, r
  <2>2. p + 1 \in 1 .. i - 1 /\ q \in i .. Len(w) - 1
    BY <1>1, <2>1
  <2>3. b[p + 1] = ESCAPE2 /\ b[q] = STUFFING
    BY <1>1, <2>1, <2>2
  <2>4. b[p + 2] = STUFFING /\ r - 1 = p + 2
    BY <2>1, <2>3
  <2>. QED BY <1>2, <2>3, <2>4 DEF Token
<1>. DEFINE m == k + 1
            g == Without(f, l, m)
<1>8. /\ g \in Seq(Int) /\ Len(g) = l - 1
      /\ \A n \in 1 .. m - 1 : g[n] = f[n]
      /\ \A n \in m .. l - 1 : g[n] = f[n + 1]
  <2>1. m \in 1 .. l
    BY <1>4
  <2>. HIDE DEF m
  <2>. QED BY <1>1, <2>1, WithoutIs
<1>9. m - 1 = k /\ k \in 1 .. m - 1 /\ \A n \in 1 .. k - 1 : n \in 1 .. m - 1
  BY <1>1
<1>10. \A n \in k + 1 .. l - 1 : g[n] = f[n + 1]
  BY <1>8 DEF m
<1>. HIDE DEF g
<1>11. g[k] = ESCAPE2 /\ \A n \in 1 .. k - 1 : g[n] = f[n]
  BY <1>8, <1>9, <1>15
<1>12. k # l
  BY <1>1, <1>15
<1>. HIDE DEF m
<1>13. g \in Seq(Int) /\ Len(g) = l - 1
  BY <1>8
<1>14. Closes(b, f, g, l, at, k)
  BY <1>7, <1>10, <1>11, <1>12, <1>13 DEF Closes
<1>. QED BY <1>14 DEF g, m

\* An ESCAPE2 is lost, and the byte behind it is taken for itself.
Bares(f, at, i, k) == f[k] = ESCAPE2 /\ i = at[k - 1] + 1

\* A lost 2Bh leaves its STUFFING behind.
LEMMA BareStuffing ==
  ASSUME NEW w, NEW b, NEW f, NEW l, NEW at, NEW i, NEW k, Missing(w, b, f, l, at, i, k),
         Bares(f, at, i, k), NEW min \in Nat
  PROVE  Received(b, min) = Changed(f, l, k) \o FOOTER
<1>1. /\ w \in Seq(Int) /\ f \in Seq(Int) /\ l \in Nat /\ l \in 1 .. Len(f) /\ k \in 1 .. l
      /\ Len(w) \in Nat /\ i \in 1 .. Len(w)
      /\ at[k - 1] \in Nat /\ at[k] \in Nat /\ at[k] + 2 <= Len(w)
      /\ Token(w, at[k - 1], at[k], f[k])
      /\ \A j \in i .. Len(w) - 1 : b[j] = w[j + 1]
  BY MissingIs
<1>17. f[k] = ESCAPE2 /\ i = at[k - 1] + 1
  BY DEF Bares
<1>2. /\ \A n \in 0 .. l : at[n] \in Nat /\ at[n] <= at[l]
      /\ \A n \in k .. l : at[k] <= at[n] /\ at[n] - 1 \in Nat
      /\ \A n \in 1 .. k - 1 : Token(b, at[n - 1], at[n], f[n])
      /\ \A n \in k + 1 .. l : Token(b, at[n - 1] - 1, at[n] - 1, f[n])
  BY Shifted
<1>3. /\ b \in Seq(Int) /\ at[0] = 0 /\ Len(b) = at[l] + 1 /\ at[l] \in Nat
  <2>1. Len(w) = at[l] + 2 /\ Len(b) = Len(w) - 1 /\ b \in Seq(Int) /\ at[0] = 0
    BY DEF Missing
  <2>2. at[l] \in Nat
    BY <1>1, <1>2
  <2>3. Len(b) = at[l] + 1
    BY <1>1, <2>1, <2>2
  <2>. QED BY <2>1, <2>2, <2>3
<1>4. /\ ESCAPE2 \in {ESCAPE, ESCAPE2} /\ Stuff(ESCAPE2) = STUFFING
      /\ STUFFING \notin {ESCAPE, ESCAPE2}
  BY DEF ESCAPE, ESCAPE2, STUFFING, Stuff
<1>5. at[k] = at[k - 1] + 2 /\ w[at[k - 1] + 2] = STUFFING
  BY <1>1, <1>4, <1>17 DEF Token
<1>6. Token(b, at[k - 1], at[k] - 1, STUFFING)
  <2>. DEFINE p == at[k - 1]
              q == at[k]
              m == p + 1
  <2>1. p \in Nat /\ q = p + 2 /\ w[p + 2] = STUFFING /\ i = p + 1 /\ q + 2 <= Len(w) /\ q \in Nat
    BY <1>1, <1>5, <1>17
  <2>. HIDE DEF p, q
  <2>2. m \in i .. Len(w) - 1 /\ m + 1 = p + 2 /\ q - 1 = p + 1
    BY <1>1, <2>1
  <2>3. b[m] = w[m + 1]
    BY <1>1, <2>2
  <2>4. b[p + 1] = STUFFING
    BY <2>1, <2>2, <2>3
  <2>5. Token(b, p, q - 1, STUFFING)
    BY <1>4, <2>2, <2>4 DEF Token
  <2>. QED BY <2>5 DEF p, q
<1>. DEFINE g == Changed(f, l, k)
            to == [n \in 0 .. l |-> IF n < k THEN at[n] ELSE at[n] - 1]
<1>7. /\ g \in Seq(Int) /\ Len(g) = l
      /\ \A n \in 1 .. l : n # k => g[n] = f[n]
      /\ g[k] = STUFFING
  BY <1>1, ChangedIs
<1>8. \A n \in 0 .. l : /\ n < k => to[n] = at[n]
                        /\ ~(n < k) => to[n] = at[n] - 1
  OBVIOUS
<1>9. to \in [0 .. l -> 0 .. Len(b)]
  <2>1. \A n \in 0 .. l : (IF n < k THEN at[n] ELSE at[n] - 1) \in 0 .. Len(b)
    <3>. TAKE n \in 0 .. l
    <3>. DEFINE x == at[n]
    <3>1. x \in Nat /\ x <= at[l] /\ (~(n < k) => x - 1 \in Nat)
      <4>1. n \in 0 .. l /\ k \in 1 .. l /\ l \in Nat
        BY <1>1
      <4>2. ~(n < k) => n \in k .. l
        BY <4>1
      <4>. QED BY <1>2, <4>1, <4>2
    <3>. HIDE DEF x
    <3>2. (IF n < k THEN x ELSE x - 1) \in 0 .. Len(b)
      BY <1>3, <3>1
    <3>. QED BY <3>2 DEF x
  <2>. QED BY <2>1
<1>10. ASSUME NEW n \in 1 .. l PROVE Token(b, to[n - 1], to[n], g[n])
  <2>0. k \in 1 .. l /\ l \in Nat
    BY <1>1
  <2>1. n \in 0 .. l /\ n - 1 \in 0 .. l
    BY <2>0
  <2>2. CASE n < k
    <3>1. n - 1 < k /\ n \in 1 .. k - 1 /\ n # k
      BY <2>0, <2>2
    <3>2. to[n] = at[n] /\ to[n - 1] = at[n - 1]
      BY <1>8, <2>1, <2>2, <3>1
    <3>3. g[n] = f[n]
      BY <1>7, <3>1
    <3>. QED BY <1>2, <3>1, <3>2, <3>3
  <2>3. CASE n = k
    <3>1. n - 1 < k /\ ~(n < k)
      BY <2>0, <2>3
    <3>2. to[n] = at[n] - 1 /\ to[n - 1] = at[n - 1]
      BY <1>8, <2>1, <3>1
    <3>. QED BY <1>6, <1>7, <2>3, <3>2
  <2>4. CASE n > k
    <3>1. ~(n - 1 < k) /\ ~(n < k) /\ n \in k + 1 .. l /\ n # k
      BY <2>0, <2>4
    <3>2. to[n] = at[n] - 1 /\ to[n - 1] = at[n - 1] - 1
      BY <1>8, <2>1, <3>1
    <3>3. g[n] = f[n]
      BY <1>7, <3>1
    <3>. QED BY <1>2, <3>1, <3>2, <3>3
  <2>. QED BY <2>0, <2>2, <2>3, <2>4
<1>11. to[0] = 0 /\ to[l] + 2 = Len(b)
  <2>1. 0 \in 0 .. l /\ l \in 0 .. l /\ 0 < k /\ ~(l < k)
    BY <1>1
  <2>2. to[0] = at[0] /\ to[l] = at[l] - 1
    BY <1>8, <2>1
  <2>. QED BY <1>3, <2>2
<1>. HIDE DEF to, g
<1>. DEFINE a == 0
<1>12. a + 1 .. l = 1 .. l /\ to \in [a .. l -> 0 .. Len(b)] /\ a = 0
  BY <1>9
<1>13. Carried(b, g, 0, l, to)
  <2>. HIDE DEF a
  <2>1. Carried(b, g, a, l, to)
    BY <1>10, <1>12 DEF Carried
  <2>. QED BY <1>12, <2>1
<1>14. l \in 0 .. Len(g) /\ g \in Seq(Int)
  BY <1>1, <1>7
<1>15. Received(b, min) = First(g, l) \o FOOTER
  <2>1. b \in Seq(Int)
    BY <1>3
  <2>2. g \in Seq(Int)
    BY <1>14
  <2>3. l \in 0 .. Len(g)
    BY <1>14
  <2>4. Len(b) = to[l] + 2
    BY <1>11
  <2>. QED BY <1>11, <1>13, <2>1, <2>2, <2>3, <2>4, CarriedWhole
<1>16. First(g, l) = g
  <2>2. Len(First(g, l)) = l /\ First(g, l) \in Seq(Int) /\ \A n \in 1 .. l : First(g, l)[n] = g[n]
    BY <1>14, FirstIs
  <2>. DEFINE x == First(g, l)
  <2>3. x \in Seq(Int) /\ Len(x) = Len(g) /\ \A n \in 1 .. Len(x) : x[n] = g[n]
    BY <1>7, <2>2
  <2>. HIDE DEF x
  <2>4. x = g
    BY <1>14, <2>3, SeqEqual
  <2>. QED BY <2>4 DEF x
<1>. QED BY <1>15, <1>16 DEF g

\* All bytes but one.
LEMMA RemoveAtIs ==
  ASSUME NEW w \in Seq(Int), NEW i \in 1 .. Len(w)
  PROVE  /\ RemoveAt(w, i) \in Seq(Int) /\ Len(RemoveAt(w, i)) = Len(w) - 1
         /\ \A j \in 1 .. i - 1 : RemoveAt(w, i)[j] = w[j]
         /\ \A j \in i .. Len(w) - 1 : RemoveAt(w, i)[j] = w[j + 1]
<1>1. Len(w) \in Nat /\ i \in Nat /\ i >= 1 /\ i <= Len(w)
  OBVIOUS
<1>. DEFINE a == SubSeq(w, 1, i - 1)
            c == SubSeq(w, i + 1, Len(w))
<1>2. a \in Seq(Int) /\ Len(a) = i - 1 /\ \A j \in 1 .. i - 1 : a[j] = w[j]
  <2>1. i - 1 \in 0 .. Len(w)
    BY <1>1
  <2>2. First(w, i - 1) \in Seq(Int) /\ Len(First(w, i - 1)) = i - 1
        /\ \A j \in 1 .. i - 1 : First(w, i - 1)[j] = w[j]
    BY <2>1, FirstIs
  <2>. QED BY <2>2 DEF First
<1>3. c \in Seq(Int) /\ Len(c) = Len(w) - i /\ \A j \in 1 .. Len(w) - i : c[j] = w[i + j]
  <2>. DEFINE m == i + 1
  <2>1. m \in 1 .. Len(w) + 1 /\ m \in Int /\ Len(w) \in Int
    BY <1>1
  <2>2. \A j \in m .. Len(w) : j \in 1 .. Len(w)
    BY <2>1
  <2>3. \A j \in m .. Len(w) : w[j] \in Int
    BY <2>2
  <2>. HIDE DEF m
  <2>4. /\ SubSeq(w, m, Len(w)) \in Seq(Int)
        /\ Len(SubSeq(w, m, Len(w))) = IF m <= Len(w) THEN Len(w) - m + 1 ELSE 0
        /\ \A j \in 1 .. Len(w) - m + 1 : SubSeq(w, m, Len(w))[j] = w[m + j - 1]
    <3>1. \A j \in m .. Len(w) : w[j] \in Int
      BY <2>3
    <3>. QED BY <2>1, SubSeqProperties
  <2>5. Len(SubSeq(w, m, Len(w))) = Len(w) - i
    BY <1>1, <2>1, <2>4 DEF m
  <2>6. \A j \in 1 .. Len(w) - i : j \in 1 .. Len(w) - m + 1 /\ m + j - 1 = i + j
    BY <1>1 DEF m
  <2>7. \A j \in 1 .. Len(w) - i : SubSeq(w, m, Len(w))[j] = w[i + j]
    BY <2>4, <2>6
  <2>. QED BY <2>4, <2>5, <2>7 DEF m
<1>. HIDE DEF a, c
<1>4. /\ a \o c \in Seq(Int) /\ Len(a \o c) = Len(a) + Len(c)
      /\ \A j \in 1 .. Len(a) : (a \o c)[j] = a[j]
      /\ \A j \in 1 .. Len(c) : (a \o c)[Len(a) + j] = c[j]
  <2>1. a \in Seq(Int) /\ c \in Seq(Int)
    BY <1>2, <1>3
  <2>2. \A x \in Seq(Int), y \in Seq(Int) :
          /\ x \o y \in Seq(Int) /\ Len(x \o y) = Len(x) + Len(y)
          /\ \A j \in 1 .. Len(x) : (x \o y)[j] = x[j]
          /\ \A j \in 1 .. Len(y) : (x \o y)[Len(x) + j] = y[j]
    BY Concat
  <2>. QED BY <2>1, <2>2, Zenon
<1>. DEFINE b == a \o c
<1>. HIDE DEF b
<1>5. b \in Seq(Int) /\ Len(b) = Len(w) - 1
  BY <1>1, <1>2, <1>3, <1>4 DEF b
<1>6. \A j \in 1 .. i - 1 : b[j] = w[j]
  BY <1>2, <1>4 DEF b
<1>7. \A j \in i .. Len(w) - 1 : b[j] = w[j + 1]
  <2>. TAKE j \in i .. Len(w) - 1
  <2>. DEFINE n == j - (i - 1)
  <2>1. n \in 1 .. Len(w) - i /\ i - 1 + n = j /\ i + n = j + 1
    BY <1>1
  <2>. HIDE DEF n
  <2>2. b[Len(a) + n] = c[n] /\ c[n] = w[i + n]
    BY <1>3, <1>4, <2>1 DEF b
  <2>. QED BY <1>2, <2>1, <2>2
<1>. QED BY <1>5, <1>6, <1>7 DEF RemoveAt, a, b, c

\* If it is only the footer that a receiver cannot see, it makes a beginning of the frame of it.
LEMMA OnlyTheStart ==
  ASSUME NEW w \in Seq(Int), NEW b \in Seq(Int), NEW f \in Seq(Int), NEW l \in 0 .. Len(f), NEW at,
         Carried(w, f, 0, l, at), at[0] = 0, NEW min \in Nat,
         NEW m \in Nat, m <= at[l], m <= Len(b), Len(b) - 2 <= m, \A j \in 1 .. m : b[j] = w[j]
  PROVE  Cut(f, l, Received(b, min))
<1>1. Len(f) \in Nat /\ l \in Nat /\ 0 \in 0 .. Len(f) /\ l \in 0 .. l /\ at[l] \in Nat
      /\ at[l] <= Len(w) /\ Len(w) \in Nat /\ Len(b) \in Nat
  BY DEF Carried
<1>2. Open(w, 0) = FALSE /\ Out(w, 0) = <<>> /\ First(f, 0) = <<>>
  BY DecoderStarts, FirstIs
<1>. DEFINE a == 0
<1>3. a \in 0 .. Len(f) /\ l \in a .. Len(f) /\ Carried(w, f, a, l, at)
      /\ Out(w, at[a]) = First(f, a) /\ (a < l => Ready(w, at[a], f[a + 1])) /\ at[a] = 0
  BY <1>1, <1>2 DEF Ready
<1>. HIDE DEF a
<1>4. Begins(w, at[a], at[l], f, l)
  BY <1>3, CarriedArrive
<1>5. Begins(b, 0, Len(b) - 2, f, l)
  <2>. SUFFICES ASSUME NEW n \in 0 .. Len(b) - 2
                PROVE  \E j \in 0 .. l : Out(b, n) = First(f, j)
    BY DEF Begins
  <2>. DEFINE x == at[l]
              v == Len(w)
              u == Len(b)
  <2>1. x \in Nat /\ v \in Nat /\ u \in Nat /\ x <= v /\ m <= x /\ m <= u /\ u - 2 <= m /\ n \in 0 .. u - 2
    BY <1>1
  <2>. HIDE DEF x, v, u
  <2>2. n \in Nat /\ n <= m /\ n <= v /\ n <= u /\ n \in 0 .. x /\ 1 .. n \subseteq 1 .. m
    BY <2>1
  <2>3. \A j \in 1 .. n : b[j] = w[j]
    BY <2>2
  <2>4. n <= Len(w) /\ n <= Len(b)
    BY <2>2 DEF v, u
  <2>5. Out(b, n) = Out(w, n)
    BY <2>2, <2>3, <2>4, SameStart
  <2>6. n \in at[a] .. at[l]
    BY <1>3, <2>2 DEF x
  <2>. QED BY <1>4, <2>5, <2>6 DEF Begins
<1>. QED BY <1>5, CutIs

\* What a receiver can make of a frame that has lost a byte behind its checksum that is not a
\* zero, or its end.
Damage(f, l, r) ==
  \/ Cut(f, l, r)
  \/ \E k \in 4 .. l : f[k] # 0 /\ r = Without(f, l, k) \o FOOTER
  \/ \E k \in 4 .. l : f[k] = ESCAPE2 /\ r = Changed(f, l, k) \o FOOTER

Behind(w, l, at, i) == l >= 2 /\ at[2] = 2 /\ i >= 4 /\ w[i] # 0

\* All that the loss of a byte behind the header can lead to.
LEMMA MissingByte ==
  ASSUME NEW w, NEW b, NEW f, NEW l, NEW at, NEW i, NEW k, Missing(w, b, f, l, at, i, k),
         Behind(w, l, at, i), NEW min \in Nat
  PROVE  Damage(f, l, Received(b, min))
<1>1. /\ f \in Seq(Int) /\ l \in Nat /\ l \in 1 .. Len(f) /\ k \in 1 .. l
      /\ Len(w) \in Nat /\ i \in 1 .. Len(w)
      /\ at[k - 1] \in Nat /\ at[k] \in Nat /\ at[k - 1] < i /\ i <= at[k]
      /\ Token(w, at[k - 1], at[k], f[k])
  BY MissingIs
<1>2. k >= 3
  <2>. SUFFICES ASSUME k <= 2 PROVE FALSE
    BY <1>1
  <2>1. 2 \in k .. l
    BY <1>1 DEF Behind
  <2>2. at[k] <= at[2]
    <3>1. \A n \in k .. l : at[k] <= at[n] /\ at[n] - 1 \in Nat
      BY Shifted
    <3>. QED BY <2>1, <3>1
  <2>3. at[2] = 2 /\ i >= 4
    BY DEF Behind
  <2>. QED BY <1>1, <2>2, <2>3
<1>3. k = 3 => at[k - 1] + 1 < i
  BY <1>1 DEF Behind
<1>4. ESCAPE \notin {0, ESCAPE2} /\ ESCAPE2 # 0 /\ STUFFING # 0
  BY DEF ESCAPE, ESCAPE2, STUFFING
<1>5. CASE f[k] \notin {ESCAPE, ESCAPE2}
  <2>1. at[k] = at[k - 1] + 1 /\ w[at[k - 1] + 1] = f[k]
    BY <1>1, <1>5 DEF Token
  <2>2. i = at[k - 1] + 1
    <3>. DEFINE x == at[k - 1]
                y == at[k]
    <3>1. x \in Nat /\ y \in Nat /\ x < i /\ i <= y /\ y = x + 1 /\ i \in Nat
      BY <1>1, <2>1
    <3>. HIDE DEF x, y
    <3>2. i = x + 1
      BY <3>1
    <3>. QED BY <3>2 DEF x
  <2>3. f[k] # 0
    BY <2>1, <2>2 DEF Behind
  <2>4. k \in 4 .. l
    BY <1>1, <1>2, <1>3, <2>2
  <2>5. Closes(b, f, Without(f, l, k), l, at, k)
    BY <1>5, LostByte
  <2>6. Received(b, min) = Without(f, l, k) \o FOOTER
    BY <2>5, MissingOne
  <2>. QED BY <2>3, <2>4, <2>6 DEF Damage
<1>6. CASE f[k] = ESCAPE
  <2>1. Rejoined(b, f, l, at, k)
    BY <1>6, LostEscape
  <2>2. Cut(f, l, Received(b, min))
    BY <2>1, MissingBack
  <2>. QED BY <2>2 DEF Damage
<1>7. CASE f[k] = ESCAPE2
  <2>1. at[k] = at[k - 1] + 2
    BY <1>1, <1>7 DEF Token
  <2>2. i = at[k - 1] + 1 \/ i = at[k]
    <3>. DEFINE x == at[k - 1]
                y == at[k]
    <3>1. x \in Nat /\ y = x + 2 /\ x < i /\ i <= y /\ i \in Nat
      BY <1>1, <2>1
    <3>. HIDE DEF x, y
    <3>2. i = x + 1 \/ i = y
      BY <3>1
    <3>. QED BY <3>2 DEF x, y
  <2>3. CASE i = at[k - 1] + 1
    <3>1. Bares(f, at, i, k)
      BY <1>7, <2>3 DEF Bares
    <3>2. Received(b, min) = Changed(f, l, k) \o FOOTER
      BY <3>1, BareStuffing
    <3>3. k \in 4 .. l
      BY <1>1, <1>2, <1>3, <2>3
    <3>. QED BY <1>7, <3>2, <3>3 DEF Damage
  <2>4. CASE i = at[k] /\ k < l /\ f[k + 1] = STUFFING
    <3>1. Swallows(f, l, at, i, k)
      BY <1>7, <2>4 DEF Swallows
    <3>. DEFINE m == k + 1
    <3>2. Closes(b, f, Without(f, l, m), l, at, k)
      BY <3>1, SwallowedByte
    <3>3. m \in 4 .. l
      BY <1>1, <1>2, <2>4
    <3>4. f[m] # 0
      BY <1>4, <2>4
    <3>. HIDE DEF m
    <3>5. Received(b, min) = Without(f, l, m) \o FOOTER
      BY <3>2, MissingOne
    <3>. QED BY <3>3, <3>4, <3>5 DEF Damage
  <2>5. CASE i = at[k] /\ ~(k < l /\ f[k + 1] = STUFFING)
    <3>1. k < l => f[k + 1] # STUFFING
      BY <2>5
    <3>2. i = at[k]
      BY <2>5
    <3>3. Rejoined(b, f, l, at, k)
      BY <1>7, <3>1, <3>2, LostStuffing
    <3>4. Cut(f, l, Received(b, min))
      BY <3>3, MissingBack
    <3>. QED BY <3>4 DEF Damage
  <2>. QED BY <2>2, <2>3, <2>4, <2>5
<1>. QED BY <1>5, <1>6, <1>7

\* What may be left of what is sent.
Left(w, b) ==
  \/ \E n \in 0 .. Len(w) : b = First(w, n)
  \/ \E i \in 4 .. Len(w) : w[i] # 0 /\ b = RemoveAt(w, i)

\* All that a lost end or a lost byte can lead to.
LEMMA DamagedFrame ==
  ASSUME NEW f, Sendable(f), NEW b, Left(AddDuplicatedBytes(f), b), NEW min \in Nat
  PROVE  Damage(f, Len(f) - 2, Received(b, min))
<1>. DEFINE w == AddDuplicatedBytes(f)
            l == Len(f) - 2
<1>1. /\ w \in Seq(Int)
      /\ \E at : /\ Carried(w, f, 0, l, at)
                 /\ at[0] = 0 /\ at[1] = 1 /\ at[2] = 2
                 /\ Len(w) = at[l] + 2 /\ w[at[l] + 1] = ESCAPE /\ w[at[l] + 2] = END
  BY WireIs
<1>2. f \in Seq(Int) /\ l \in 0 .. Len(f) /\ l \in Nat /\ l >= 2 /\ Len(f) \in Nat
  BY DEF Sendable
<1>3. Left(w, b)
  OBVIOUS
<1>. HIDE DEF w, l
<1>4. PICK at : Carried(w, f, 0, l, at) /\ at[0] = 0 /\ at[2] = 2 /\ Len(w) = at[l] + 2
  BY <1>1
<1>5. Len(w) \in Nat /\ at[l] \in Nat /\ \A k \in 0 .. l : at[k] \in Nat
  <2>1. at \in [0 .. l -> 0 .. Len(w)]
    BY <1>4 DEF Carried
  <2>2. \A k \in 0 .. l : at[k] \in Nat
    BY <2>1
  <2>3. l \in 0 .. l /\ Len(w) \in Nat
    BY <1>1, <1>2
  <2>. QED BY <2>2, <2>3
<1>6. ASSUME NEW d \in Seq(Int), NEW m \in Nat, m <= at[l], m <= Len(d), Len(d) - 2 <= m,
             \A j \in 1 .. m : d[j] = w[j]
      PROVE  Damage(f, l, Received(d, min))
  <2>1. Cut(f, l, Received(d, min))
    BY <1>1, <1>2, <1>4, <1>6, OnlyTheStart
  <2>. QED BY <2>1 DEF Damage
<1>7. ASSUME NEW n \in 0 .. Len(w), b = First(w, n) PROVE Damage(f, l, Received(b, min))
  <2>1. b \in Seq(Int) /\ Len(b) = n /\ \A j \in 1 .. n : b[j] = w[j]
    BY <1>1, <1>7, FirstIs
  <2>. DEFINE m == IF n <= at[l] THEN n ELSE at[l]
  <2>2. m \in Nat /\ m <= at[l] /\ m <= Len(b) /\ Len(b) - 2 <= m /\ m <= n /\ n \in Nat
    BY <1>4, <1>5, <2>1
  <2>. HIDE DEF m
  <2>3. \A j \in 1 .. m : b[j] = w[j]
    <3>1. \A j \in 1 .. m : j \in 1 .. n
      BY <2>2
    <3>. QED BY <2>1, <3>1
  <2>. QED BY <1>6, <2>1, <2>2, <2>3
<1>8. ASSUME NEW i \in 4 .. Len(w), w[i] # 0, b = RemoveAt(w, i) PROVE Damage(f, l, Received(b, min))
  <2>1. i \in 1 .. Len(w) /\ i \in Nat
    BY <1>5
  <2>2. /\ b \in Seq(Int) /\ Len(b) = Len(w) - 1
        /\ \A j \in 1 .. i - 1 : b[j] = w[j]
        /\ \A j \in i .. Len(w) - 1 : b[j] = w[j + 1]
    BY <1>1, <1>8, <2>1, RemoveAtIs
  <2>3. CASE i > at[l]
    <3>. DEFINE m == at[l]
    <3>1. m \in Nat /\ m <= at[l] /\ m <= Len(b) /\ Len(b) - 2 <= m
      <4>1. m = at[l] /\ m \in Nat /\ Len(w) = m + 2 /\ Len(b) = Len(w) - 1
        BY <1>4, <1>5, <2>2
      <4>. HIDE DEF m
      <4>2. m <= Len(b) /\ Len(b) - 2 <= m /\ m <= m
        BY <4>1
      <4>. QED BY <4>1, <4>2
    <3>2. \A j \in 1 .. m : j \in 1 .. i - 1
      BY <1>5, <2>1, <2>3
    <3>3. \A j \in 1 .. m : b[j] = w[j]
      BY <2>2, <3>2
    <3>. QED BY <1>6, <2>2, <3>1, <3>3
  <2>4. CASE i <= at[l]
    <3>. DEFINE T == {k \in 0 .. l : i <= at[k]}
    <3>1. T \in SUBSET Nat /\ T # {}
      <4>1. l \in T
        BY <1>2, <2>4
      <4>. QED BY <4>1
    <3>2. \E m \in T : \A k \in T : m <= k
      <4>. HIDE DEF T
      <4>. QED BY <3>1, LeastElement
    <3>3. PICK k \in T : \A m \in T : k <= m
      BY <3>2
    <3>4. k \in 0 .. l /\ i <= at[k]
      OBVIOUS
    <3>5. k # 0
      BY <1>4, <2>1, <3>4
    <3>6. k \in 1 .. l /\ k - 1 \in 0 .. l /\ ~(k <= k - 1)
      BY <1>2, <3>4, <3>5
    <3>7. k - 1 \notin T
      BY <3>3, <3>6
    <3>8. at[k - 1] < i
      <4>1. at[k - 1] \in Nat /\ ~(i <= at[k - 1])
        BY <1>5, <3>6, <3>7
      <4>. QED BY <2>1, <4>1
    <3>9. Missing(w, b, f, l, at, i, k)
      BY <1>1, <1>2, <1>4, <2>1, <2>2, <3>4, <3>6, <3>8 DEF Missing
    <3>10. Behind(w, l, at, i)
      BY <1>2, <1>4, <1>8, <2>1 DEF Behind
    <3>. QED BY <3>9, <3>10, MissingByte
  <2>. QED BY <1>5, <2>1, <2>3, <2>4
<1>9. Damage(f, l, Received(b, min))
  BY <1>3, <1>7, <1>8 DEF Left
<1>. QED BY <1>9 DEF l

-----------------------------------------------------------------------------
(* The checksum *)

Sum(s) == Folded([b \in Int |-> [sum \in Int |-> (sum + b) % 256]], 0, s)

\* One byte more.
LEMMA SumStep ==
  ASSUME NEW s \in Seq(Int), NEW x \in Int
  PROVE  Sum(s) \in Int /\ Sum(Append(s, x)) = (Sum(s) + x) % 256
<1>. DEFINE step == [b \in Int |-> [sum \in Int |-> (sum + b) % 256]]
<1>1. step \in [Int -> [Int -> Int]]
  OBVIOUS
<1>2. \A sum \in Int : step[x][sum] = (sum + x) % 256
  OBVIOUS
<1>3. Sum(s) = Folded(step, 0, s) /\ Sum(Append(s, x)) = Folded(step, 0, Append(s, x))
  BY DEF Sum
<1>. DEFINE base == 0
            I == Int
<1>4. base \in I /\ s \in Seq(I) /\ x \in I /\ step \in [I -> [I -> I]]
  BY <1>1
<1>. HIDE DEF step, base, I
<1>5. /\ Folded(step, base, <<>>) = base
      /\ Folded(step, base, s) \in I
      /\ Folded(step, base, Append(s, x)) = step[x][Folded(step, base, s)]
  <2>1. base \in I
    BY <1>4
  <2>2. s \in Seq(I)
    BY <1>4
  <2>3. x \in I
    BY <1>4
  <2>4. Stepping(step, I, I)
    BY <1>4 DEF Stepping
  <2>. QED BY <2>1, <2>2, <2>3, <2>4, FoldedAppend
<1>6. Sum(s) \in I /\ Sum(Append(s, x)) = step[x][Sum(s)]
  BY <1>3, <1>5 DEF base
<1>7. Sum(s) \in Int
  BY <1>6 DEF I
<1>. QED BY <1>2, <1>6, <1>7

\* Sums are bytes.
LEMMA SumIs ==
  ASSUME NEW s \in Seq(Int)
  PROVE  Sum(s) \in Int /\ (s # <<>> => Sum(s) \in Byte)
<1>1. Sum(s) \in Int
  <2>1. 0 \in Int
    OBVIOUS
  <2>. QED BY <2>1, SumStep
<1>2. ASSUME s # <<>> PROVE Sum(s) \in Byte
  <2>1. Len(s) \in 1 .. Len(s)
    <3>1. Len(s) \in Nat /\ Len(s) # 0
      BY <1>2, EmptySeq
    <3>. QED BY <3>1
  <2>. DEFINE t == First(s, Len(s) - 1)
              x == s[Len(s)]
  <2>2. First(s, Len(s)) = Append(t, x) /\ x \in Int
    BY <2>1, FirstStep
  <2>3. t \in Seq(Int) /\ First(s, Len(s)) = s
    <3>1. Len(s) - 1 \in 0 .. Len(s) /\ Len(s) \in Nat
      BY <2>1
    <3>. QED BY <3>1, FirstIs
  <2>. HIDE DEF t, x
  <2>4. Sum(t) \in Int /\ Sum(Append(t, x)) = (Sum(t) + x) % 256
    BY <2>2, <2>3, SumStep
  <2>5. \A a \in Int : a % 256 \in 0 .. 255
    OBVIOUS
  <2>6. Sum(t) + x \in Int
    BY <2>2, <2>4
  <2>7. (Sum(t) + x) % 256 \in 0 .. 255
    BY <2>5, <2>6
  <2>8. s = Append(t, x)
    BY <2>2, <2>3
  <2>. QED BY <2>4, <2>7, <2>8 DEF Byte
<1>. QED BY <1>1, <1>2

\* Behind the k-th element, t has the same elements as s, d places further to the front, and up
\* to there their sums differ by e.
Differ(s, t, k, d, e) ==
  /\ k \in 1 .. Len(s) /\ d \in 0 .. 1 /\ e \in Int
  /\ Len(t) = Len(s) - d
  /\ \A n \in k + 1 .. Len(s) : t[n - d] = s[n]
  /\ Sum(First(s, k)) = (Sum(First(t, k - d)) + e) % 256

\* Sums of sequences that are the same behind some place differ by what they differ there.
LEMMA SumsDiffer ==
  ASSUME NEW s \in Seq(Int), NEW t \in Seq(Int), NEW k, NEW d, NEW e, Differ(s, t, k, d, e)
  PROVE  Sum(s) = (Sum(t) + e) % 256
<1>1. /\ k \in 1 .. Len(s) /\ d \in 0 .. 1 /\ e \in Int /\ Len(s) \in Nat /\ Len(t) \in Nat
      /\ Len(t) = Len(s) - d
      /\ \A n \in k + 1 .. Len(s) : t[n - d] = s[n]
      /\ Sum(First(s, k)) = (Sum(First(t, k - d)) + e) % 256
  <2>1. Len(s) \in Nat /\ Len(t) \in Nat
    OBVIOUS
  <2>. QED BY <2>1, Zenon DEF Differ
<1>. DEFINE T == {n \in k .. Len(s) : Sum(First(s, n)) = (Sum(First(t, n - d)) + e) % 256}
<1>2. k \in T
  BY <1>1
<1>3. ASSUME NEW n \in k + 1 .. Len(s), n - 1 \in T PROVE n \in T
  <2>1. n \in 1 .. Len(s) /\ n - 1 \in 0 .. Len(s) /\ n \in k .. Len(s)
    BY <1>1
  <2>2. n - d \in 1 .. Len(t) /\ n - d - 1 = n - 1 - d /\ n - d - 1 \in 0 .. Len(t)
    BY <1>1
  <2>. DEFINE x == s[n]
              a == First(s, n - 1)
              c == First(t, n - d - 1)
  <2>3. First(s, n) = Append(a, x) /\ x \in Int /\ a \in Seq(Int)
    BY <2>1, FirstStep, FirstIs
  <2>4. First(t, n - d) = Append(c, t[n - d]) /\ c \in Seq(Int)
    BY <2>2, FirstStep, FirstIs
  <2>5. t[n - d] = x
    BY <1>1
  <2>6. Sum(a) = (Sum(c) + e) % 256
    BY <1>3, <2>2
  <2>. HIDE DEF a, c, x
  <2>7. Sum(a) \in Int /\ Sum(Append(a, x)) = (Sum(a) + x) % 256
    BY <2>3, SumStep
  <2>8. Sum(c) \in Int /\ Sum(Append(c, x)) = (Sum(c) + x) % 256
    BY <2>3, <2>4, SumStep
  <2>9. \A u \in Int, y \in Int, z \in Int : (((u + y) % 256) + z) % 256 = (((u + z) % 256) + y) % 256
    OBVIOUS
  <2>10. (((Sum(c) + e) % 256) + x) % 256 = (((Sum(c) + x) % 256) + e) % 256
    <3>1. Sum(c) \in Int /\ e \in Int /\ x \in Int
      BY <1>1, <2>3, <2>8
    <3>. QED BY <2>9, <3>1
  <2>11. Sum(First(s, n)) = (Sum(First(t, n - d)) + e) % 256
    <3>1. Sum(First(s, n)) = (Sum(a) + x) % 256
      BY <2>3, <2>7
    <3>2. Sum(First(t, n - d)) = (Sum(c) + x) % 256
      BY <2>4, <2>5, <2>8
    <3>. QED BY <2>6, <2>10, <3>1, <3>2
  <2>. QED BY <2>1, <2>11
<1>4. k .. Len(s) \subseteq T
  <2>. HIDE DEF T
  <2>1. k \in Nat
    BY <1>1
  <2>2. Len(s) \in Nat
    BY <1>1
  <2>. QED BY <1>2, <1>3, <2>1, <2>2, InductionFrom
<1>5. Sum(First(s, Len(s))) = (Sum(First(t, Len(s) - d)) + e) % 256
  <2>1. Len(s) \in k .. Len(s)
    BY <1>1
  <2>. QED BY <1>4, <2>1
<1>6. First(s, Len(s)) = s
  <2>1. Len(s) \in 0 .. Len(s)
    BY <1>1
  <2>. QED BY <2>1, FirstIs
<1>7. First(t, Len(t)) = t
  <2>1. Len(t) \in 0 .. Len(t)
    BY <1>1
  <2>. QED BY <2>1, FirstIs
<1>. QED BY <1>1, <1>5, <1>6, <1>7

\* Bytes are numbers.
LEMMA BytesAreNumbers ==
  ASSUME NEW s \in Seq(Byte)
  PROVE  s \in Seq(Int)
<1>1. \A x \in Byte : x \in Int
  BY DEF Byte
<1>2. \A i \in 1 .. Len(s) : s[i] \in Byte
  OBVIOUS
<1>3. \A i \in 1 .. Len(s) : s[i] \in Int
  BY <1>1, <1>2
<1>. QED BY <1>3

\* The beginnings of sequences that have the same elements.
LEMMA FirstSame ==
  ASSUME NEW s \in Seq(Int), NEW t \in Seq(Int), NEW m \in Nat, m <= Len(s), m <= Len(t),
         \A i \in 1 .. m : s[i] = t[i]
  PROVE  First(s, m) = First(t, m)
<1>. DEFINE x == First(s, m)
            y == First(t, m)
<1>1. m \in 0 .. Len(s) /\ m \in 0 .. Len(t)
  OBVIOUS
<1>2. x \in Seq(Int) /\ Len(x) = m /\ \A i \in 1 .. m : x[i] = s[i]
  BY <1>1, FirstIs
<1>3. y \in Seq(Int) /\ Len(y) = m /\ \A i \in 1 .. m : y[i] = t[i]
  BY <1>1, FirstIs
<1>. HIDE DEF x, y
<1>4. x = y
  BY <1>2, <1>3, SeqEqual
<1>. QED BY <1>4 DEF x, y

Zeroed(g) == [g EXCEPT ![3] = 0]

\* Only the place of the checksum is zero.
LEMMA ZeroedIs ==
  ASSUME NEW g \in Seq(Int), Len(g) >= 3
  PROVE  /\ Zeroed(g) \in Seq(Int) /\ Len(Zeroed(g)) = Len(g)
         /\ Zeroed(g)[3] = 0
         /\ \A i \in 1 .. Len(g) : i # 3 => Zeroed(g)[i] = g[i]
BY DEF Zeroed

\* A frame with its footer, and its bytes without it.
LEMMA ClosedIs ==
  ASSUME NEW g \in Seq(Int)
  PROVE  /\ g \o FOOTER \in Seq(Int) /\ Len(g \o FOOTER) = Len(g) + 2
         /\ \A i \in 1 .. Len(g) : (g \o FOOTER)[i] = g[i]
         /\ (g \o FOOTER)[Len(g) + 1] = ESCAPE /\ (g \o FOOTER)[Len(g) + 2] = END
         /\ Body(g \o FOOTER) = g
<1>1. FOOTER \in Seq(Int) /\ Len(FOOTER) = 2 /\ FOOTER[1] = ESCAPE /\ FOOTER[2] = END
  BY DEF FOOTER, ESCAPE, END
<1>. DEFINE d == g \o FOOTER
<1>2. d \in Seq(Int) /\ Len(d) = Len(g) + Len(FOOTER)
      /\ (\A i \in 1 .. Len(g) : d[i] = g[i])
      /\ (\A i \in 1 .. Len(FOOTER) : d[Len(g) + i] = FOOTER[i])
  <2>1. FOOTER \in Seq(Int)
    BY <1>1
  <2>. QED BY <2>1, Concat
<1>3. 1 \in 1 .. Len(FOOTER) /\ 2 \in 1 .. Len(FOOTER) /\ Len(g) \in Nat
  BY <1>1
<1>4. Len(d) = Len(g) + 2 /\ d[Len(g) + 1] = ESCAPE /\ d[Len(g) + 2] = END
  BY <1>1, <1>2, <1>3
<1>. HIDE DEF d
<1>5. Len(d) - 2 = Len(g)
  BY <1>3, <1>4
<1>6. Body(d) = First(d, Len(g))
  BY <1>5 DEF Body, First
<1>7. First(d, Len(g)) = First(g, Len(g))
  <2>1. Len(g) <= Len(d) /\ Len(g) <= Len(g) /\ \A i \in 1 .. Len(g) : d[i] = g[i]
    BY <1>2, <1>3, <1>4
  <2>2. Len(g) \in Nat
    BY <1>3
  <2>3. d \in Seq(Int)
    BY <1>2
  <2>. QED BY <2>1, <2>2, <2>3, FirstSame
<1>8. First(g, Len(g)) = g
  <2>1. Len(g) \in 0 .. Len(g)
    BY <1>3
  <2>. QED BY <2>1, FirstIs
<1>. QED BY <1>2, <1>4, <1>6, <1>7, <1>8 DEF d

\* The checksum of a frame is the sum of what is in front of the footer.
LEMMA ChecksumIs ==
  ASSUME NEW g \in Seq(Int), Len(g) >= 3
  PROVE  Checksum(g \o FOOTER) = Sum(Zeroed(g)) /\ Checksum(g \o FOOTER) \in Byte
<1>. DEFINE d == g \o FOOTER
            z == Zeroed(d)
            y == Zeroed(g)
<1>1. d \in Seq(Int) /\ Len(d) = Len(g) + 2 /\ \A i \in 1 .. Len(g) : d[i] = g[i]
  BY ClosedIs
<1>. HIDE DEF d
<1>2. Len(d) >= 3 /\ Len(g) \in Nat
  BY <1>1
<1>3. z \in Seq(Int) /\ Len(z) = Len(d) /\ z[3] = 0 /\ \A i \in 1 .. Len(d) : i # 3 => z[i] = d[i]
  BY <1>1, <1>2, ZeroedIs
<1>4. y \in Seq(Int) /\ Len(y) = Len(g) /\ y[3] = 0 /\ \A i \in 1 .. Len(g) : i # 3 => y[i] = g[i]
  BY ZeroedIs
<1>5. Checksum(d) = Sum(Body(z))
  BY DEF Checksum, Sum, Zeroed
<1>. HIDE DEF z, y
<1>6. Len(z) - 2 = Len(g)
  BY <1>1, <1>2, <1>3
<1>7. Body(z) = First(z, Len(g))
  BY <1>6 DEF Body, First
<1>8. First(z, Len(g)) = First(y, Len(g))
  <2>1. Len(g) <= Len(z) /\ Len(g) <= Len(y)
    BY <1>1, <1>2, <1>3, <1>4
  <2>2. \A i \in 1 .. Len(g) : z[i] = y[i]
    <3>. TAKE i \in 1 .. Len(g)
    <3>1. i \in 1 .. Len(d)
      BY <1>1, <1>2
    <3>. QED BY <1>1, <1>3, <1>4, <3>1
  <2>3. Len(g) \in Nat
    BY <1>2
  <2>4. z \in Seq(Int)
    BY <1>3
  <2>5. y \in Seq(Int)
    BY <1>4
  <2>. QED BY <2>1, <2>2, <2>3, <2>4, <2>5, FirstSame
<1>9. First(y, Len(g)) = y
  <2>1. Len(g) \in 0 .. Len(y) /\ Len(g) = Len(y)
    BY <1>2, <1>4
  <2>. QED BY <1>4, <2>1, FirstIs
<1>10. Sum(y) \in Byte
  <2>1. y # <<>>
    BY <1>2, <1>4
  <2>. QED BY <1>4, <2>1, SumIs
<1>11. Checksum(d) = Sum(y)
  BY <1>5, <1>7, <1>8, <1>9
<1>. QED BY <1>10, <1>11 DEF d, y

\* The sum notices that a byte which is not a zero is missing behind the checksum...
LEMMA WithoutShows ==
  ASSUME NEW f \in Seq(Byte), NEW l \in 4 .. Len(f), NEW k \in 4 .. l, f[k] # 0
  PROVE  /\ Len(Without(f, l, k)) >= 3 /\ Without(f, l, k)[3] = f[3]
         /\ Sum(Zeroed(Without(f, l, k))) # Sum(Zeroed(First(f, l)))
<1>1. f \in Seq(Int) /\ Len(f) \in Nat /\ l \in Nat /\ k \in Nat /\ 4 <= k /\ k <= l /\ l <= Len(f)
  <2>1. f \in Seq(Int)
    BY BytesAreNumbers
  <2>. QED BY <2>1
<1>2. f[k] \in 1 .. 255 /\ f[k] \in Int
  <2>1. k \in 1 .. Len(f)
    BY <1>1
  <2>2. f[k] \in Byte
    BY <2>1
  <2>3. \A x \in Byte : x # 0 => x \in 1 .. 255 /\ x \in Int
    BY DEF Byte
  <2>. QED BY <2>2, <2>3
<1>. DEFINE g == Without(f, l, k)
            u == First(f, l)
            s == Zeroed(u)
            t == Zeroed(g)
            m == k - 1
            e == f[k]
<1>3. /\ g \in Seq(Int) /\ Len(g) = l - 1
      /\ \A n \in 1 .. k - 1 : g[n] = f[n]
      /\ \A n \in k .. l - 1 : g[n] = f[n + 1]
  <2>1. l \in 1 .. Len(f) /\ k \in 1 .. l
    BY <1>1
  <2>. QED BY <1>1, <2>1, WithoutIs
<1>4. u \in Seq(Int) /\ Len(u) = l /\ \A n \in 1 .. l : u[n] = f[n]
  <2>1. l \in 0 .. Len(f)
    BY <1>1
  <2>. QED BY <1>1, <2>1, FirstIs
<1>. HIDE DEF g, u
<1>5. Len(g) >= 3 /\ Len(u) >= 3
  BY <1>1, <1>3, <1>4
<1>6. s \in Seq(Int) /\ Len(s) = l /\ s[3] = 0 /\ \A n \in 1 .. l : n # 3 => s[n] = f[n]
  <2>1. s \in Seq(Int) /\ Len(s) = Len(u) /\ s[3] = 0 /\ \A n \in 1 .. Len(u) : n # 3 => s[n] = u[n]
    BY <1>4, <1>5, ZeroedIs
  <2>. QED BY <1>4, <2>1
<1>7. t \in Seq(Int) /\ Len(t) = l - 1 /\ t[3] = 0 /\ \A n \in 1 .. l - 1 : n # 3 => t[n] = g[n]
  <2>1. t \in Seq(Int) /\ Len(t) = Len(g) /\ t[3] = 0 /\ \A n \in 1 .. Len(g) : n # 3 => t[n] = g[n]
    BY <1>3, <1>5, ZeroedIs
  <2>. QED BY <1>3, <2>1
<1>. HIDE DEF s, t
<1>8. m \in Nat /\ m <= Len(s) /\ m <= Len(t) /\ m \in 0 .. Len(s)
  BY <1>1, <1>6, <1>7
<1>9. \A n \in 1 .. m : s[n] = t[n]
  <2>. TAKE n \in 1 .. m
  <2>1. n \in 1 .. l /\ n \in 1 .. l - 1 /\ n \in 1 .. k - 1
    BY <1>1
  <2>. QED BY <1>3, <1>6, <1>7, <2>1
<1>10. First(s, k) = Append(First(s, m), e)
  <2>1. k \in 1 .. Len(s) /\ k \in 1 .. l /\ k # 3
    BY <1>1, <1>6
  <2>2. First(s, k) = Append(First(s, k - 1), s[k])
    BY <1>6, <2>1, FirstStep
  <2>. QED BY <1>6, <2>1, <2>2
<1>. HIDE DEF m, e
<1>11. First(s, m) = First(t, m)
  BY <1>6, <1>7, <1>8, <1>9, FirstSame
<1>12. First(s, m) \in Seq(Int)
  BY <1>6, <1>8, FirstIs
<1>13. Sum(First(s, k)) = (Sum(First(t, m)) + e) % 256
  <2>1. e \in Int
    BY <1>2 DEF e
  <2>. DEFINE c == First(s, m)
  <2>2. c \in Seq(Int)
    BY <1>12
  <2>. HIDE DEF c
  <2>3. Sum(c) \in Int /\ Sum(Append(c, e)) = (Sum(c) + e) % 256
    BY <2>1, <2>2, SumStep
  <2>. QED BY <1>10, <1>11, <2>3 DEF c
<1>14. Differ(s, t, k, 1, e)
  <2>1. k \in 1 .. Len(s) /\ 1 \in 0 .. 1 /\ e \in Int /\ Len(t) = Len(s) - 1 /\ k - 1 = m
    BY <1>1, <1>2, <1>6, <1>7 DEF e, m
  <2>2. \A n \in k + 1 .. Len(s) : t[n - 1] = s[n]
    <3>. TAKE n \in k + 1 .. Len(s)
    <3>. DEFINE i == n - 1
    <3>1. n \in 1 .. l /\ n # 3 /\ i \in 1 .. l - 1 /\ i # 3 /\ i \in k .. l - 1 /\ i + 1 = n
      BY <1>1, <1>6
    <3>. HIDE DEF i
    <3>2. t[i] = g[i] /\ g[i] = f[n] /\ s[n] = f[n]
      BY <1>3, <1>6, <1>7, <3>1
    <3>. QED BY <3>2 DEF i
  <2>. QED BY <1>13, <2>1, <2>2 DEF Differ
<1>15. Sum(s) = (Sum(t) + e) % 256
  <2>. DEFINE d == 1
  <2>1. Differ(s, t, k, d, e)
    BY <1>14
  <2>. HIDE DEF d
  <2>. QED BY <1>6, <1>7, <2>1, SumsDiffer
<1>16. Sum(t) \in Byte
  <2>1. t # <<>>
    BY <1>1, <1>7
  <2>. QED BY <1>7, <2>1, SumIs
<1>17. Sum(s) # Sum(t)
  <2>. DEFINE x == Sum(t)
              y == Sum(s)
  <2>1. x \in 0 .. 255 /\ e \in 1 .. 255 /\ y = (x + e) % 256
    BY <1>2, <1>15, <1>16 DEF Byte, e
  <2>. HIDE DEF x, y, e
  <2>2. x # y
    BY <2>1
  <2>. QED BY <2>2 DEF x, y
<1>18. g[3] = f[3]
  <2>1. 3 \in 1 .. k - 1
    BY <1>1
  <2>. QED BY <1>3, <2>1
<1>. QED BY <1>5, <1>17, <1>18 DEF g, u, s, t

\* ...and that an ESCAPE2 has become the byte that follows it on the wire.
LEMMA ChangedShows ==
  ASSUME NEW f \in Seq(Byte), NEW l \in 4 .. Len(f), NEW k \in 4 .. l, f[k] = ESCAPE2
  PROVE  /\ Len(Changed(f, l, k)) >= 3 /\ Changed(f, l, k)[3] = f[3]
         /\ Sum(Zeroed(Changed(f, l, k))) # Sum(Zeroed(First(f, l)))
<1>1. f \in Seq(Int) /\ Len(f) \in Nat /\ l \in Nat /\ k \in Nat /\ 4 <= k /\ k <= l /\ l <= Len(f)
  <2>1. f \in Seq(Int)
    BY BytesAreNumbers
  <2>. QED BY <2>1
<1>. DEFINE g == Changed(f, l, k)
            u == First(f, l)
            s == Zeroed(u)
            t == Zeroed(g)
            m == k - 1
            e == 19
<1>3. /\ g \in Seq(Int) /\ Len(g) = l
      /\ \A n \in 1 .. l : n # k => g[n] = f[n]
      /\ g[k] = STUFFING
  <2>1. l \in 1 .. Len(f) /\ k \in 1 .. l
    BY <1>1
  <2>. QED BY <1>1, <2>1, ChangedIs
<1>4. u \in Seq(Int) /\ Len(u) = l /\ \A n \in 1 .. l : u[n] = f[n]
  <2>1. l \in 0 .. Len(f)
    BY <1>1
  <2>. QED BY <1>1, <2>1, FirstIs
<1>. HIDE DEF g, u
<1>5. Len(g) >= 3 /\ Len(u) >= 3
  BY <1>1, <1>3, <1>4
<1>6. s \in Seq(Int) /\ Len(s) = l /\ s[3] = 0 /\ \A n \in 1 .. l : n # 3 => s[n] = f[n]
  <2>1. s \in Seq(Int) /\ Len(s) = Len(u) /\ s[3] = 0 /\ \A n \in 1 .. Len(u) : n # 3 => s[n] = u[n]
    BY <1>4, <1>5, ZeroedIs
  <2>. QED BY <1>4, <2>1
<1>7. t \in Seq(Int) /\ Len(t) = l /\ t[3] = 0 /\ \A n \in 1 .. l : n # 3 => t[n] = g[n]
  <2>1. t \in Seq(Int) /\ Len(t) = Len(g) /\ t[3] = 0 /\ \A n \in 1 .. Len(g) : n # 3 => t[n] = g[n]
    BY <1>3, <1>5, ZeroedIs
  <2>. QED BY <1>3, <2>1
<1>. HIDE DEF s, t
<1>8. m \in Nat /\ m <= Len(s) /\ m <= Len(t) /\ m \in 0 .. Len(s) /\ m \in 0 .. Len(t)
  BY <1>1, <1>6, <1>7
<1>9. \A n \in 1 .. m : s[n] = t[n]
  <2>. TAKE n \in 1 .. m
  <2>1. n \in 1 .. l /\ n # k
    BY <1>1
  <2>. QED BY <1>3, <1>6, <1>7, <2>1
<1>10. First(s, k) = Append(First(s, m), 43) /\ First(t, k) = Append(First(t, m), 24)
  <2>1. k \in 1 .. Len(s) /\ k \in 1 .. Len(t) /\ k \in 1 .. l /\ k # 3
    BY <1>1, <1>6, <1>7
  <2>2. First(s, k) = Append(First(s, k - 1), s[k]) /\ First(t, k) = Append(First(t, k - 1), t[k])
    BY <1>6, <1>7, <2>1, FirstStep
  <2>3. s[k] = 43 /\ t[k] = 24
    BY <1>3, <1>6, <1>7, <2>1 DEF ESCAPE2, STUFFING
  <2>. QED BY <2>2, <2>3
<1>. HIDE DEF m
<1>11. First(s, m) = First(t, m)
  BY <1>6, <1>7, <1>8, <1>9, FirstSame
<1>12. First(s, m) \in Seq(Int)
  BY <1>6, <1>8, FirstIs
<1>13. Sum(First(s, k)) = (Sum(First(t, k)) + 19) % 256
  <2>. DEFINE c == First(s, m)
              a == 43
              b == 24
  <2>1. a \in Int /\ b \in Int
    OBVIOUS
  <2>2. c \in Seq(Int)
    BY <1>12
  <2>. HIDE DEF c, a, b
  <2>3. Sum(c) \in Int /\ Sum(Append(c, a)) = (Sum(c) + a) % 256
    BY <2>1, <2>2, SumStep
  <2>4. Sum(c) \in Int /\ Sum(Append(c, b)) = (Sum(c) + b) % 256
    BY <2>1, <2>2, SumStep
  <2>5. First(s, k) = Append(c, a) /\ First(t, k) = Append(c, b)
    BY <1>10, <1>11 DEF a, b, c
  <2>6. \A x \in Int : (x + 43) % 256 = (((x + 24) % 256) + 19) % 256
    OBVIOUS
  <2>7. (Sum(c) + a) % 256 = (((Sum(c) + b) % 256) + 19) % 256
    BY <2>3, <2>6 DEF a, b
  <2>. QED BY <2>3, <2>4, <2>5, <2>7
<1>14. Differ(s, t, k, 0, e)
  <2>1. k \in 1 .. Len(s) /\ 0 \in 0 .. 1 /\ e \in Int /\ Len(t) = Len(s) - 0 /\ k - 0 = k
    BY <1>1, <1>6, <1>7
  <2>2. \A n \in k + 1 .. Len(s) : t[n - 0] = s[n]
    <3>. TAKE n \in k + 1 .. Len(s)
    <3>1. n \in 1 .. l /\ n # 3 /\ n # k /\ n - 0 = n
      BY <1>1, <1>6
    <3>2. t[n] = g[n] /\ g[n] = f[n] /\ s[n] = f[n]
      BY <1>3, <1>6, <1>7, <3>1
    <3>. QED BY <3>1, <3>2
  <2>. QED BY <1>13, <2>1, <2>2 DEF Differ
<1>. HIDE DEF e
<1>15. Sum(s) = (Sum(t) + e) % 256
  <2>. DEFINE d == 0
  <2>1. Differ(s, t, k, d, e)
    BY <1>14
  <2>. HIDE DEF d
  <2>. QED BY <1>6, <1>7, <2>1, SumsDiffer
<1>16. Sum(t) \in Byte
  <2>1. t # <<>>
    BY <1>1, <1>7
  <2>. QED BY <1>7, <2>1, SumIs
<1>17. Sum(s) # Sum(t)
  <2>. DEFINE x == Sum(t)
              y == Sum(s)
  <2>1. x \in 0 .. 255 /\ y = (x + 19) % 256
    BY <1>15, <1>16 DEF Byte, e
  <2>. HIDE DEF x, y
  <2>2. x # y
    BY <2>1
  <2>. QED BY <2>2 DEF x, y
<1>18. g[3] = f[3]
  <2>1. 3 \in 1 .. l /\ 3 # k
    BY <1>1
  <2>. QED BY <1>3, <2>1
<1>. QED BY <1>5, <1>17, <1>18 DEF g, u, s, t

\* A frame that passes verify_header and has its footer.
Intact(f) ==
  /\ f \in Seq(Byte) /\ Len(f) >= 5
  /\ f[1] = HEADER_START /\ f[2] \in {GET, SET} /\ f[3] = Checksum(f)
  /\ f[Len(f) - 1] = ESCAPE /\ f[Len(f)] = END

\* An intact frame can be sent, and is accepted.
LEMMA IntactIs ==
  ASSUME NEW f, Intact(f)
  PROVE  Sendable(f) /\ VerifyHeader(f)
<1>1. f \in Seq(Int)
  <2>1. f \in Seq(Byte)
    BY DEF Intact
  <2>. QED BY <2>1, BytesAreNumbers
<1>2. Sendable(f)
  <2>1. Len(f) >= 4
    BY <1>1 DEF Intact
  <2>2. f[1] \notin {ESCAPE, ESCAPE2} /\ f[2] \notin {ESCAPE, ESCAPE2}
    BY DEF Intact, HEADER_START, GET, SET, ESCAPE, ESCAPE2
  <2>3. f[Len(f) - 1] = ESCAPE /\ f[Len(f)] = END
    BY DEF Intact
  <2>. QED BY <1>1, <2>1, <2>2, <2>3 DEF Sendable
<1>3. VerifyHeader(f)
  BY DEF Intact, VerifyHeader
<1>. QED BY <1>2, <1>3

\* A receiver that checks what it has got has got a beginning of it.
LEMMA DamageRefused ==
  ASSUME NEW f, Intact(f), NEW b, Left(AddDuplicatedBytes(f), b), NEW min \in Nat,
         VerifyHeader(Received(b, min))
  PROVE  \E j \in 3 .. Len(f) - 2 : Received(b, min) = First(f, j) \o FOOTER
<1>. DEFINE l == Len(f) - 2
            r == Received(b, min)
<1>1. f \in Seq(Byte) /\ f \in Seq(Int) /\ Len(f) \in Nat /\ l \in 0 .. Len(f) /\ l \in Nat /\ l >= 3
  <2>1. f \in Seq(Byte) /\ Len(f) >= 5
    BY DEF Intact
  <2>. QED BY <2>1, BytesAreNumbers
<1>2. Sendable(f)
  BY IntactIs
<1>3. Damage(f, l, r)
  BY <1>2, DamagedFrame
<1>4. f = First(f, l) \o FOOTER
  BY <1>2, FooterSplit
<1>5. Len(r) >= 5 /\ r[3] = Checksum(r)
  BY DEF VerifyHeader
<1>. HIDE DEF l, r
<1>6. First(f, l) \in Seq(Int) /\ Len(First(f, l)) = l
  BY <1>1, FirstIs
<1>7. f[3] = Sum(Zeroed(First(f, l)))
  <2>. DEFINE g == First(f, l)
  <2>1. g \in Seq(Int) /\ Len(g) >= 3
    BY <1>1, <1>6
  <2>. HIDE DEF g
  <2>2. Checksum(g \o FOOTER) = Sum(Zeroed(g)) /\ Checksum(g \o FOOTER) \in Byte
    BY <2>1, ChecksumIs
  <2>3. f[3] = Checksum(f) /\ f = g \o FOOTER
    BY <1>4 DEF Intact, g
  <2>. QED BY <2>2, <2>3 DEF g
<1>8. ASSUME NEW g \in Seq(Int), Len(g) >= 3, g[3] = f[3], r = g \o FOOTER
      PROVE  Sum(Zeroed(g)) = Sum(Zeroed(First(f, l)))
  <2>1. Checksum(g \o FOOTER) = Sum(Zeroed(g)) /\ Checksum(g \o FOOTER) \in Byte
    BY <1>8, ChecksumIs
  <2>2. \A i \in 1 .. Len(g) : (g \o FOOTER)[i] = g[i]
    BY ClosedIs
  <2>3. 3 \in 1 .. Len(g)
    BY <1>8
  <2>4. r[3] = g[3]
    BY <1>8, <2>2, <2>3
  <2>. QED BY <1>5, <1>7, <1>8, <2>1, <2>4
<1>9. CASE Cut(f, l, r)
  <2>1. ~(r \in Seq(Int) /\ Len(r) < 2)
    <3>. SUFFICES ASSUME r \in Seq(Int), Len(r) < 2 PROVE FALSE
      BY <1>9 DEF Cut
    <3>1. Len(r) \in Nat
      OBVIOUS
    <3>. QED BY <1>5, <3>1
  <2>2. PICK j \in 0 .. l : r = First(f, j) \o FOOTER
    BY <1>9, <2>1 DEF Cut
  <2>3. First(f, j) \in Seq(Int) /\ Len(First(f, j)) = j
    <3>1. j \in 0 .. Len(f)
      BY <1>1
    <3>. QED BY <1>1, <3>1, FirstIs
  <2>4. Len(r) = j + 2
    BY <2>2, <2>3, ClosedIs
  <2>5. j \in 3 .. l
    BY <1>1, <1>5, <2>4
  <2>. QED BY <2>2, <2>5 DEF l, r
<1>10. ASSUME NEW k \in 4 .. l, f[k] # 0, r = Without(f, l, k) \o FOOTER PROVE FALSE
  <2>1. l \in 4 .. Len(f)
    BY <1>1
  <2>2. /\ Len(Without(f, l, k)) >= 3 /\ Without(f, l, k)[3] = f[3]
        /\ Sum(Zeroed(Without(f, l, k))) # Sum(Zeroed(First(f, l)))
    BY <1>1, <1>10, <2>1, WithoutShows
  <2>3. Without(f, l, k) \in Seq(Int)
    <3>1. l \in 1 .. Len(f) /\ k \in 1 .. l
      BY <1>1, <2>1
    <3>. QED BY <1>1, <3>1, WithoutIs
  <2>. QED BY <1>8, <1>10, <2>2, <2>3
<1>11. ASSUME NEW k \in 4 .. l, f[k] = ESCAPE2, r = Changed(f, l, k) \o FOOTER PROVE FALSE
  <2>1. l \in 4 .. Len(f)
    BY <1>1
  <2>2. /\ Len(Changed(f, l, k)) >= 3 /\ Changed(f, l, k)[3] = f[3]
        /\ Sum(Zeroed(Changed(f, l, k))) # Sum(Zeroed(First(f, l)))
    BY <1>1, <1>11, <2>1, ChangedShows
  <2>3. Changed(f, l, k) \in Seq(Int)
    <3>1. l \in 1 .. Len(f) /\ k \in 1 .. l
      BY <1>1, <2>1
    <3>. QED BY <1>1, <3>1, ChangedIs
  <2>. QED BY <1>8, <1>11, <2>2, <2>3
<1>. QED BY <1>3, <1>9, <1>10, <1>11 DEF Damage

-----------------------------------------------------------------------------
(* Bits *)

\* The values of the bits.
LEMMA BitValueIs ==
  /\ BitValue(1) = 64 /\ BitValue(2) = 32 /\ BitValue(3) = 16 /\ BitValue(4) = 8
  /\ BitValue(5) = 4 /\ BitValue(6) = 2 /\ BitValue(7) = 1
<1>1. (1 % 8) + 1 = 2 /\ (2 % 8) + 1 = 3 /\ (3 % 8) + 1 = 4 /\ (4 % 8) + 1 = 5
      /\ (5 % 8) + 1 = 6 /\ (6 % 8) + 1 = 7 /\ (7 % 8) + 1 = 8
  OBVIOUS
<1>. QED BY <1>1 DEF BitValue

\* A bit that has been set reads so, and the others read as before.
BitIsSet(x, p, v) ==
  /\ SetBit(x, p, v) \in Byte
  /\ GetBit(SetBit(x, p, v), p) = v
  /\ \A q \in 1 .. 7 : q # p => GetBit(SetBit(x, p, v), q) = GetBit(x, q)

\* _set_bit: the new bit is read, and the others are as they were.
LEMMA BitSet ==
  ASSUME NEW x \in Byte, NEW v \in 0 .. 1, NEW p \in 1 .. 7
  PROVE  BitIsSet(x, p, v)
<1>1. p = 1 \/ p = 2 \/ p = 3 \/ p = 4 \/ p = 5 \/ p = 6 \/ p = 7
  OBVIOUS
<1>2. \A q \in 1 .. 7 : q = 1 \/ q = 2 \/ q = 3 \/ q = 4 \/ q = 5 \/ q = 6 \/ q = 7
  OBVIOUS
<1>3. CASE p = 1
  <2>. DEFINE y == x - ((x \div 64) % 2) * 64 + v * 64
  <2>1. y \in Byte /\ (y \div 64) % 2 = v
    BY DEF Byte
  <2>2. (y \div 32) % 2 = (x \div 32) % 2
    BY DEF Byte
  <2>3. (y \div 16) % 2 = (x \div 16) % 2
    BY DEF Byte
  <2>4. (y \div 8) % 2 = (x \div 8) % 2
    BY DEF Byte
  <2>5. (y \div 4) % 2 = (x \div 4) % 2
    BY DEF Byte
  <2>6. (y \div 2) % 2 = (x \div 2) % 2
    BY DEF Byte
  <2>7. (y \div 1) % 2 = (x \div 1) % 2
    BY DEF Byte
  <2>8. SetBit(x, p, v) = y
    BY <1>3, BitValueIs DEF SetBit, GetBit
  <2>. HIDE DEF y
  <2>9. GetBit(y, 1) = v
    BY <2>1, BitValueIs DEF GetBit
  <2>10. GetBit(y, 2) = GetBit(x, 2)
    BY <2>2, BitValueIs DEF GetBit
  <2>11. GetBit(y, 3) = GetBit(x, 3)
    BY <2>3, BitValueIs DEF GetBit
  <2>12. GetBit(y, 4) = GetBit(x, 4)
    BY <2>4, BitValueIs DEF GetBit
  <2>13. GetBit(y, 5) = GetBit(x, 5)
    BY <2>5, BitValueIs DEF GetBit
  <2>14. GetBit(y, 6) = GetBit(x, 6)
    BY <2>6, BitValueIs DEF GetBit
  <2>15. GetBit(y, 7) = GetBit(x, 7)
    BY <2>7, BitValueIs DEF GetBit
  <2>. QED BY <1>2, <1>3, <2>1, <2>8, <2>9, <2>10, <2>11, <2>12, <2>13, <2>14, <2>15 DEF BitIsSet
<1>4. CASE p = 2
  <2>. DEFINE y == x - ((x \div 32) % 2) * 32 + v * 32
  <2>1. y \in Byte /\ (y \div 32) % 2 = v
    BY DEF Byte
  <2>2. (y \div 64) % 2 = (x \div 64) % 2
    BY DEF Byte
  <2>3. (y \div 16) % 2 = (x \div 16) % 2
    BY DEF Byte
  <2>4. (y \div 8) % 2 = (x \div 8) % 2
    BY DEF Byte
  <2>5. (y \div 4) % 2 = (x \div 4) % 2
    BY DEF Byte
  <2>6. (y \div 2) % 2 = (x \div 2) % 2
    BY DEF Byte
  <2>7. (y \div 1) % 2 = (x \div 1) % 2
    BY DEF Byte
  <2>8. SetBit(x, p, v) = y
    BY <1>4, BitValueIs DEF SetBit, GetBit
  <2>. HIDE DEF y
  <2>9. GetBit(y, 2) = v
    BY <2>1, BitValueIs DEF GetBit
  <2>10. GetBit(y, 1) = GetBit(x, 1)
    BY <2>2, BitValueIs DEF GetBit
  <2>11. GetBit(y, 3) = GetBit(x, 3)
    BY <2>3, BitValueIs DEF GetBit
  <2>12. GetBit(y, 4) = GetBit(x, 4)
    BY <2>4, BitValueIs DEF GetBit
  <2>13. GetBit(y, 5) = GetBit(x, 5)
    BY <2>5, BitValueIs DEF GetBit
  <2>14. GetBit(y, 6) = GetBit(x, 6)
    BY <2>6, BitValueIs DEF GetBit
  <2>15. GetBit(y, 7) = GetBit(x, 7)
    BY <2>7, BitValueIs DEF GetBit
  <2>. QED BY <1>2, <1>4, <2>1, <2>8, <2>9, <2>10, <2>11, <2>12, <2>13, <2>14, <2>15 DEF BitIsSet
<1>5. CASE p = 3
  <2>. DEFINE y == x - ((x \div 16) % 2) * 16 + v * 16
  <2>1. y \in Byte /\ (y \div 16) % 2 = v
    BY DEF Byte
  <2>2. (y \div 64) % 2 = (x \div 64) % 2
    BY DEF Byte
  <2>3. (y \div 32) % 2 = (x \div 32) % 2
    BY DEF Byte
  <2>4. (y \div 8) % 2 = (x \div 8) % 2
    BY DEF Byte
  <2>5. (y \div 4) % 2 = (x \div 4) % 2
    BY DEF Byte
  <2>6. (y \div 2) % 2 = (x \div 2) % 2
    BY DEF Byte
  <2>7. (y \div 1) % 2 = (x \div 1) % 2
    BY DEF Byte
  <2>8. SetBit(x, p, v) = y
    BY <1>5, BitValueIs DEF SetBit, GetBit
  <2>. HIDE DEF y
  <2>9. GetBit(y, 3) = v
    BY <2>1, BitValueIs DEF GetBit
  <2>10. GetBit(y, 1) = GetBit(x, 1)
    BY <2>2, BitValueIs DEF GetBit
  <2>11. GetBit(y, 2) = GetBit(x, 2)
    BY <2>3, BitValueIs DEF GetBit
  <2>12. GetBit(y, 4) = GetBit(x, 4)
    BY <2>4, BitValueIs DEF GetBit
  <2>13. GetBit(y, 5) = GetBit(x, 5)
    BY <2>5, BitValueIs DEF GetBit
  <2>14. GetBit(y, 6) = GetBit(x, 6)
    BY <2>6, BitValueIs DEF GetBit
  <2>15. GetBit(y, 7) = GetBit(x, 7)
    BY <2>7, BitValueIs DEF GetBit
  <2>. QED BY <1>2, <1>5, <2>1, <2>8, <2>9, <2>10, <2>11, <2>12, <2>13, <2>14, <2>15 DEF BitIsSet
<1>6. CASE p = 4
  <2>. DEFINE y == x - ((x \div 8) % 2) * 8 + v * 8
  <2>1. y \in Byte /\ (y \div 8) % 2 = v
    BY DEF Byte
  <2>2. (y \div 64) % 2 = (x \div 64) % 2
    BY DEF Byte
  <2>3. (y \div 32) % 2 = (x \div 32) % 2
    BY DEF Byte
  <2>4. (y \div 16) % 2 = (x \div 16) % 2
    BY DEF Byte
  <2>5. (y \div 4) % 2 = (x \div 4) % 2
    BY DEF Byte
  <2>6. (y \div 2) % 2 = (x \div 2) % 2
    BY DEF Byte
  <2>7. (y \div 1) % 2 = (x \div 1) % 2
    BY DEF Byte
  <2>8. SetBit(x, p, v) = y
    BY <1>6, BitValueIs DEF SetBit, GetBit
  <2>. HIDE DEF y
  <2>9. GetBit(y, 4) = v
    BY <2>1, BitValueIs DEF GetBit
  <2>10. GetBit(y, 1) = GetBit(x, 1)
    BY <2>2, BitValueIs DEF GetBit
  <2>11. GetBit(y, 2) = GetBit(x, 2)
    BY <2>3, BitValueIs DEF GetBit
  <2>12. GetBit(y, 3) = GetBit(x, 3)
    BY <2>4, BitValueIs DEF GetBit
  <2>13. GetBit(y, 5) = GetBit(x, 5)
    BY <2>5, BitValueIs DEF GetBit
  <2>14. GetBit(y, 6) = GetBit(x, 6)
    BY <2>6, BitValueIs DEF GetBit
  <2>15. GetBit(y, 7) = GetBit(x, 7)
    BY <2>7, BitValueIs DEF GetBit
  <2>. QED BY <1>2, <1>6, <2>1, <2>8, <2>9, <2>10, <2>11, <2>12, <2>13, <2>14, <2>15 DEF BitIsSet
<1>7. CASE p = 5
  <2>. DEFINE y == x - ((x \div 4) % 2) * 4 + v * 4
  <2>1. y \in Byte /\ (y \div 4) % 2 = v
    BY DEF Byte
  <2>2. (y \div 64) % 2 = (x \div 64) % 2
    BY DEF Byte
  <2>3. (y \div 32) % 2 = (x \div 32) % 2
    BY DEF Byte
  <2>4. (y \div 16) % 2 = (x \div 16) % 2
    BY DEF Byte
  <2>5. (y \div 8) % 2 = (x \div 8) % 2
    BY DEF Byte
  <2>6. (y \div 2) % 2 = (x \div 2) % 2
    BY DEF Byte
  <2>7. (y \div 1) % 2 = (x \div 1) % 2
    BY DEF Byte
  <2>8. SetBit(x, p, v) = y
    BY <1>7, BitValueIs DEF SetBit, GetBit
  <2>. HIDE DEF y
  <2>9. GetBit(y, 5) = v
    BY <2>1, BitValueIs DEF GetBit
  <2>10. GetBit(y, 1) = GetBit(x, 1)
    BY <2>2, BitValueIs DEF GetBit
  <2>11. GetBit(y, 2) = GetBit(x, 2)
    BY <2>3, BitValueIs DEF GetBit
  <2>12. GetBit(y, 3) = GetBit(x, 3)
    BY <2>4, BitValueIs DEF GetBit
  <2>13. GetBit(y, 4) = GetBit(x, 4)
    BY <2>5, BitValueIs DEF GetBit
  <2>14. GetBit(y, 6) = GetBit(x, 6)
    BY <2>6, BitValueIs DEF GetBit
  <2>15. GetBit(y, 7) = GetBit(x, 7)
    BY <2>7, BitValueIs DEF GetBit
  <2>. QED BY <1>2, <1>7, <2>1, <2>8, <2>9, <2>10, <2>11, <2>12, <2>13, <2>14, <2>15 DEF BitIsSet
<1>8. CASE p = 6
  <2>. DEFINE y == x - ((x \div 2) % 2) * 2 + v * 2
  <2>1. y \in Byte /\ (y \div 2) % 2 = v
    BY DEF Byte
  <2>2. (y \div 64) % 2 = (x \div 64) % 2
    BY DEF Byte
  <2>3. (y \div 32) % 2 = (x \div 32) % 2
    BY DEF Byte
  <2>4. (y \div 16) % 2 = (x \div 16) % 2
    BY DEF Byte
  <2>5. (y \div 8) % 2 = (x \div 8) % 2
    BY DEF Byte
  <2>6. (y \div 4) % 2 = (x \div 4) % 2
    BY DEF Byte
  <2>7. (y \div 1) % 2 = (x \div 1) % 2
    BY DEF Byte
  <2>8. SetBit(x, p, v) = y
    BY <1>8, BitValueIs DEF SetBit, GetBit
  <2>. HIDE DEF y
  <2>9. GetBit(y, 6) = v
    BY <2>1, BitValueIs DEF GetBit
  <2>10. GetBit(y, 1) = GetBit(x, 1)
    BY <2>2, BitValueIs DEF GetBit
  <2>11. GetBit(y, 2) = GetBit(x, 2)
    BY <2>3, BitValueIs DEF GetBit
  <2>12. GetBit(y, 3) = GetBit(x, 3)
    BY <2>4, BitValueIs DEF GetBit
  <2>13. GetBit(y, 4) = GetBit(x, 4)
    BY <2>5, BitValueIs DEF GetBit
  <2>14. GetBit(y, 5) = GetBit(x, 5)
    BY <2>6, BitValueIs DEF GetBit
  <2>15. GetBit(y, 7) = GetBit(x, 7)
    BY <2>7, BitValueIs DEF GetBit
  <2>. QED BY <1>2, <1>8, <2>1, <2>8, <2>9, <2>10, <2>11, <2>12, <2>13, <2>14, <2>15 DEF BitIsSet
<1>9. CASE p = 7
  <2>. DEFINE y == x - ((x \div 1) % 2) * 1 + v * 1
  <2>1. y \in Byte /\ (y \div 1) % 2 = v
    BY DEF Byte
  <2>2. (y \div 64) % 2 = (x \div 64) % 2
    BY DEF Byte
  <2>3. (y \div 32) % 2 = (x \div 32) % 2
    BY DEF Byte
  <2>4. (y \div 16) % 2 = (x \div 16) % 2
    BY DEF Byte
  <2>5. (y \div 8) % 2 = (x \div 8) % 2
    BY DEF Byte
  <2>6. (y \div 4) % 2 = (x \div 4) % 2
    BY DEF Byte
  <2>7. (y \div 2) % 2 = (x \div 2) % 2
    BY DEF Byte
  <2>8. SetBit(x, p, v) = y
    BY <1>9, BitValueIs DEF SetBit, GetBit
  <2>. HIDE DEF y
  <2>9. GetBit(y, 7) = v
    BY <2>1, BitValueIs DEF GetBit
  <2>10. GetBit(y, 1) = GetBit(x, 1)
    BY <2>2, BitValueIs DEF GetBit
  <2>11. GetBit(y, 2) = GetBit(x, 2)
    BY <2>3, BitValueIs DEF GetBit
  <2>12. GetBit(y, 3) = GetBit(x, 3)
    BY <2>4, BitValueIs DEF GetBit
  <2>13. GetBit(y, 4) = GetBit(x, 4)
    BY <2>5, BitValueIs DEF GetBit
  <2>14. GetBit(y, 5) = GetBit(x, 5)
    BY <2>6, BitValueIs DEF GetBit
  <2>15. GetBit(y, 6) = GetBit(x, 6)
    BY <2>7, BitValueIs DEF GetBit
  <2>. QED BY <1>2, <1>9, <2>1, <2>8, <2>9, <2>10, <2>11, <2>12, <2>13, <2>14, <2>15 DEF BitIsSet
<1>. QED BY <1>1, <1>3, <1>4, <1>5, <1>6, <1>7, <1>8, <1>9

-----------------------------------------------------------------------------
(* Channels in a frame *)

\* short_to_bytes and the signed numbers of parse_record.
LEMMA Complement ==
  ASSUME NEW v \in Int
  PROVE  /\ LowByte(v) \in Byte /\ HighByte(v) \in Byte
         /\ OfOneByte(v) => SignedByte(LowByte(v)) = v
         /\ OfTwoBytes(v) => SignedShort(256 * HighByte(v) + LowByte(v)) = v
<1>. DEFINE l == v % 256
            q == v \div 256
            h == q % 256
<1>1. l \in 0 .. 255 /\ q \in Int /\ v = 256 * q + l
  OBVIOUS
<1>. HIDE DEF l, q
<1>2. h \in 0 .. 255
  BY <1>1
<1>3. ASSUME OfTwoBytes(v)
      PROVE  (q \in 0 .. 127 /\ h = q) \/ (q \in -128 .. -1 /\ h = q + 256)
  <2>1. -32768 <= v /\ v <= 32767
    BY <1>3 DEF OfTwoBytes
  <2>2. q >= -128 /\ q <= 127
    BY <1>1, <2>1
  <2>. QED BY <1>1, <2>2
<1>. HIDE DEF h
<1>4. ASSUME OfOneByte(v) PROVE SignedByte(l) = v
  <2>1. v >= -128 /\ v <= 127
    BY <1>4 DEF OfOneByte
  <2>2. q = 0 \/ q = -1
    BY <1>1, <2>1
  <2>. QED BY <1>1, <2>1, <2>2 DEF SignedByte
<1>5. ASSUME OfTwoBytes(v) PROVE SignedShort(256 * h + l) = v
  <2>1. (q \in 0 .. 127 /\ h = q) \/ (q \in -128 .. -1 /\ h = q + 256)
    BY <1>3, <1>5
  <2>2. l \in 0 .. 255 /\ q \in Int /\ v = 256 * q + l
    BY <1>1
  <2>3. CASE q \in 0 .. 127 /\ h = q
    <3>1. 256 * h + l = v /\ ~(v >= 32768)
      BY <2>2, <2>3
    <3>. QED BY <3>1 DEF SignedShort
  <2>4. CASE q \in -128 .. -1 /\ h = q + 256
    <3>1. q >= -128 /\ q <= -1
      BY <2>4
    <3>2. 256 * h + l = v + 65536 /\ v + 65536 >= 32768 /\ v + 65536 - 65536 = v
      BY <2>2, <2>4, <3>1
    <3>. QED BY <3>2 DEF SignedShort
  <2>. QED BY <2>1, <2>3, <2>4
<1>7. l \in Byte /\ h \in Byte
  BY <1>1, <1>2 DEF Byte
<1>8. LowByte(v) = l /\ HighByte(v) = h
  BY DEF LowByte, HighByte, l, q, h
<1>9. ASSUME OfOneByte(v) PROVE SignedByte(LowByte(v)) = v
  BY <1>4, <1>8, <1>9
<1>10. ASSUME OfTwoBytes(v) PROVE SignedShort(256 * HighByte(v) + LowByte(v)) = v
  BY <1>5, <1>8, <1>10
<1>11. LowByte(v) \in Byte /\ HighByte(v) \in Byte
  BY <1>7, <1>8
<1>. QED BY <1>9, <1>10, <1>11

\* The channel is in the frame, and the value is one that it can be given.
Fitting(f, r) == r.position + r.length <= Len(f)
Settable(r, v) == IsSwitch(r) => v \in 0 .. 1 /\ (r.bit_position > 0 \/ r.length = 1)

\* What is read of a channel depends on its bytes alone.
LEMMA ParseSame ==
  ASSUME NEW f \in Seq(Int), NEW g \in Seq(Int), NEW r, Valid(r), Fitting(f, r), Fitting(g, r),
         \A i \in r.position + 1 .. r.position + r.length : f[i] = g[i]
  PROVE  ParseRecord(f, r) = ParseRecord(g, r)
<1>1. r.length \in {1, 2} /\ r.position \in Nat /\ r.bit_position \in 0 .. 7
  BY DEF Valid
<1>2. Len(f) \in Nat /\ Len(g) \in Nat
  OBVIOUS
<1>3. ~(Len(f) < r.position + r.length) /\ ~(Len(g) < r.position + r.length)
  BY <1>1, <1>2 DEF Fitting
<1>4. f[r.position + 1] = g[r.position + 1]
  <2>1. r.position + 1 \in r.position + 1 .. r.position + r.length
    BY <1>1
  <2>. QED BY <2>1
<1>5. r.length # 1 => f[r.position + 2] = g[r.position + 2]
  <2>1. r.length # 1 => r.position + 2 \in r.position + 1 .. r.position + r.length
    BY <1>1
  <2>. QED BY <2>1
<1>6. r.bit_position \div 8 = 0
  BY <1>1
<1>7. r.position + 1 + r.bit_position \div 8 = r.position + 1
  BY <1>1, <1>6
<1>. QED BY <1>3, <1>4, <1>5, <1>7 DEF ParseRecord

\* A number, or that the frame does not carry the channel.
LEMMA ParseIs ==
  ASSUME NEW f \in Seq(Int), NEW r, Valid(r)
  PROVE  ParseRecord(f, r) \in Int \cup {NoValue}
<1>1. r.length \in {1, 2} /\ r.position \in Nat /\ r.bit_position \in 0 .. 7 /\ Len(f) \in Nat
  BY DEF Valid
<1>2. CASE Len(f) < r.position + r.length
  BY <1>2 DEF ParseRecord
<1>3. CASE ~(Len(f) < r.position + r.length)
  <2>1. r.position + 1 \in 1 .. Len(f) /\ (r.length # 1 => r.position + 2 \in 1 .. Len(f))
    BY <1>1, <1>3
  <2>2. f[r.position + 1] \in Int /\ (r.length # 1 => f[r.position + 2] \in Int)
    BY <2>1
  <2>3. r.bit_position \div 8 = 0
    BY <1>1
  <2>4. r.position + 1 + r.bit_position \div 8 = r.position + 1
    BY <1>1, <2>3
  <2>5. CASE r.bit_position > 0
    <3>1. BitValue(r.bit_position) \in {64, 32, 16, 8, 4, 2, 1}
      <4>1. r.bit_position \in 1 .. 7
        BY <1>1, <2>5
      <4>. QED BY <4>1, BitValueIs
    <3>. DEFINE b == BitValue(r.bit_position)
                x == f[r.position + 1]
    <3>2. x \in Int /\ b \in {64, 32, 16, 8, 4, 2, 1}
      BY <2>2, <3>1
    <3>. HIDE DEF b, x
    <3>3. (x \div b) % 2 \in Int
      BY <3>2
    <3>4. GetBit(f[r.position + 1], r.bit_position) \in Int
      BY <3>3 DEF GetBit, b, x
    <3>. QED BY <1>3, <2>4, <2>5, <3>4 DEF ParseRecord
  <2>6. CASE ~(r.bit_position > 0)
    <3>. DEFINE n == IF r.length = 1 THEN SignedByte(f[r.position + 1])
                     ELSE SignedShort(256 * f[r.position + 1] + f[r.position + 2])
    <3>1. n \in Int
      <4>1. \A x \in Int : SignedByte(x) \in Int
        BY DEF SignedByte
      <4>2. \A x \in Int, y \in Int : SignedShort(256 * x + y) \in Int
        BY DEF SignedShort
      <4>. QED BY <2>2, <4>1, <4>2
    <3>2. ParseRecord(f, r) = IF IsSwitch(r) THEN (IF n # 0 THEN 1 ELSE 0) ELSE n
      BY <1>3, <2>6 DEF ParseRecord
    <3>. HIDE DEF n
    <3>. QED BY <3>1, <3>2
  <2>. QED BY <2>5, <2>6
<1>. QED BY <1>2, <1>3

\* Only the bytes of the channel are different.
Rewrites(g, f, r) ==
  /\ g \in Seq(Byte) /\ Len(g) = Len(f)
  /\ \A i \in 1 .. Len(f) : i <= r.position \/ r.position + r.length < i => g[i] = f[i]

\* A sequence with another element in one place.
LEMMA Updated ==
  ASSUME NEW S, NEW f \in Seq(S), NEW i \in 1 .. Len(f), NEW x \in S
  PROVE  /\ [f EXCEPT ![i] = x] \in Seq(S) /\ Len([f EXCEPT ![i] = x]) = Len(f)
         /\ [f EXCEPT ![i] = x][i] = x
         /\ \A j \in 1 .. Len(f) : j # i => [f EXCEPT ![i] = x][j] = f[j]
OBVIOUS

\* compose_record of one bit.
LEMMA PutBit ==
  ASSUME NEW f \in Seq(Byte), NEW r, Valid(r), Fitting(f, r), NEW v \in 0 .. 1, IsSwitch(r), r.bit_position > 0
  PROVE  /\ Rewrites(Put(f, r, v), f, r)
         /\ f[r.position + 1] \in Byte
         /\ Put(f, r, v)[r.position + 1] = SetBit(f[r.position + 1], r.bit_position, v)
<1>. DEFINE i == r.position + 1
            x == SetBit(f[i], r.bit_position, v)
<1>1. r.length \in {1, 2} /\ r.position \in Nat /\ r.bit_position \in 0 .. 7 /\ Len(f) \in Nat
  BY DEF Valid
<1>2. r.bit_position \in 1 .. 7
  BY <1>1
<1>3. i \in 1 .. Len(f)
  BY <1>1 DEF Fitting
<1>4. f[i] \in Byte
  BY <1>3
<1>5. x \in Byte
  BY <1>2, <1>4, BitSet DEF BitIsSet
<1>6. Put(f, r, v) = [f EXCEPT ![i] = x]
  BY DEF Put
<1>7. i = r.position + 1
  OBVIOUS
<1>8. x = SetBit(f[i], r.bit_position, v)
  OBVIOUS
<1>. HIDE DEF i, x
<1>9. /\ [f EXCEPT ![i] = x] \in Seq(Byte) /\ Len([f EXCEPT ![i] = x]) = Len(f)
      /\ [f EXCEPT ![i] = x][i] = x
      /\ \A j \in 1 .. Len(f) : j # i => [f EXCEPT ![i] = x][j] = f[j]
  BY <1>3, <1>5, Updated
<1>10. \A j \in 1 .. Len(f) : j <= r.position \/ r.position + r.length < j => j # i
  BY <1>1, <1>7
<1>. QED BY <1>4, <1>6, <1>7, <1>8, <1>9, <1>10 DEF Rewrites

\* compose_record of one byte.
LEMMA PutByte ==
  ASSUME NEW f \in Seq(Byte), NEW r, Valid(r), Fitting(f, r), NEW v \in Int,
         IsSwitch(r) \/ r.length = 1, ~(IsSwitch(r) /\ r.bit_position > 0)
  PROVE  /\ Rewrites(Put(f, r, v), f, r)
         /\ Put(f, r, v)[r.position + 1] = LowByte(v)
<1>. DEFINE i == r.position + 1
            x == LowByte(v)
<1>1. r.length \in {1, 2} /\ r.position \in Nat /\ Len(f) \in Nat
  BY DEF Valid
<1>3. i \in 1 .. Len(f)
  BY <1>1 DEF Fitting
<1>5. x \in Byte
  BY Complement
<1>6. Put(f, r, v) = [f EXCEPT ![i] = x]
  BY DEF Put
<1>7. i = r.position + 1 /\ x = LowByte(v)
  OBVIOUS
<1>. HIDE DEF i, x
<1>9. /\ [f EXCEPT ![i] = x] \in Seq(Byte) /\ Len([f EXCEPT ![i] = x]) = Len(f)
      /\ [f EXCEPT ![i] = x][i] = x
      /\ \A j \in 1 .. Len(f) : j # i => [f EXCEPT ![i] = x][j] = f[j]
  BY <1>3, <1>5, Updated
<1>10. \A j \in 1 .. Len(f) : j <= r.position \/ r.position + r.length < j => j # i
  BY <1>1, <1>7
<1>. QED BY <1>6, <1>7, <1>9, <1>10 DEF Rewrites

\* compose_record of two bytes.
LEMMA PutShort ==
  ASSUME NEW f \in Seq(Byte), NEW r, Valid(r), Fitting(f, r), NEW v \in Int,
         ~IsSwitch(r), r.length # 1
  PROVE  /\ Rewrites(Put(f, r, v), f, r)
         /\ Put(f, r, v)[r.position + 1] = HighByte(v)
         /\ Put(f, r, v)[r.position + 2] = LowByte(v)
<1>. DEFINE i == r.position + 1
            k == r.position + 2
            h == HighByte(v)
            x == LowByte(v)
<1>1. r.length = 2 /\ r.position \in Nat /\ Len(f) \in Nat
  BY DEF Valid
<1>3. i \in 1 .. Len(f) /\ k \in 1 .. Len(f) /\ i # k
  BY <1>1 DEF Fitting
<1>5. h \in Byte /\ x \in Byte
  BY Complement
<1>6. Put(f, r, v) = [f EXCEPT ![i] = h, ![k] = x]
  BY DEF Put
<1>7. i = r.position + 1 /\ k = r.position + 2 /\ x = LowByte(v) /\ h = HighByte(v)
  OBVIOUS
<1>. HIDE DEF i, x, k, h
<1>. DEFINE g == [f EXCEPT ![i] = h]
<1>8. /\ g \in Seq(Byte) /\ Len(g) = Len(f)
      /\ g[i] = h
      /\ \A j \in 1 .. Len(f) : j # i => g[j] = f[j]
  BY <1>3, <1>5, Updated
<1>9. Put(f, r, v) = [g EXCEPT ![k] = x]
  BY <1>6
<1>. HIDE DEF g
<1>10. k \in 1 .. Len(g)
  BY <1>3, <1>8
<1>11. /\ [g EXCEPT ![k] = x] \in Seq(Byte) /\ Len([g EXCEPT ![k] = x]) = Len(g)
      /\ [g EXCEPT ![k] = x][k] = x
      /\ \A j \in 1 .. Len(g) : j # k => [g EXCEPT ![k] = x][j] = g[j]
  BY <1>5, <1>8, <1>10, Updated
<1>12. \A j \in 1 .. Len(f) : j <= r.position \/ r.position + r.length < j => j # i /\ j # k
  BY <1>1, <1>7
<1>13. [g EXCEPT ![k] = x][i] = h
  BY <1>3, <1>8, <1>11
<1>14. \A j \in 1 .. Len(f) : j # i /\ j # k => [g EXCEPT ![k] = x][j] = f[j]
  BY <1>8, <1>11
<1>15. Rewrites([g EXCEPT ![k] = x], f, r)
  BY <1>8, <1>11, <1>12, <1>14 DEF Rewrites
<1>. QED BY <1>7, <1>9, <1>11, <1>13, <1>15

\* compose_record touches the bytes of the channel alone.
LEMMA PutIs ==
  ASSUME NEW f \in Seq(Byte), NEW r, Valid(r), Fitting(f, r), NEW v \in Int, Settable(r, v)
  PROVE  Rewrites(Put(f, r, v), f, r)
<1>1. CASE IsSwitch(r) /\ r.bit_position > 0
  <2>1. v \in 0 .. 1
    BY <1>1 DEF Settable
  <2>. QED BY <1>1, <2>1, PutBit
<1>2. CASE ~(IsSwitch(r) /\ r.bit_position > 0) /\ (IsSwitch(r) \/ r.length = 1)
  BY <1>2, PutByte
<1>3. CASE ~(IsSwitch(r) \/ r.length = 1)
  BY <1>3, PutShort
<1>. QED BY <1>1, <1>2, <1>3

\* parse_record of a frame that reaches to the channel, by the kind of the channel.
LEMMA ParsedAs ==
  ASSUME NEW f \in Seq(Int), NEW r, Valid(r), Fitting(f, r)
  PROVE  /\ r.bit_position > 0 => ParseRecord(f, r) = GetBit(f[r.position + 1], r.bit_position)
         /\ ~(r.bit_position > 0) /\ IsSwitch(r) /\ r.length = 1 =>
              ParseRecord(f, r) = IF SignedByte(f[r.position + 1]) # 0 THEN 1 ELSE 0
         /\ ~IsSwitch(r) /\ r.length = 1 => ParseRecord(f, r) = SignedByte(f[r.position + 1])
         /\ ~IsSwitch(r) /\ r.length # 1 =>
              ParseRecord(f, r) = SignedShort(256 * f[r.position + 1] + f[r.position + 2])
<1>1. r.length \in {1, 2} /\ r.position \in Nat /\ r.bit_position \in 0 .. 7 /\ Len(f) \in Nat
  BY DEF Valid
<1>2. ~(Len(f) < r.position + r.length)
  BY <1>1 DEF Fitting
<1>3. r.bit_position \div 8 = 0
  BY <1>1
<1>4. r.position + 1 + r.bit_position \div 8 = r.position + 1
  BY <1>1, <1>3
<1>5. r.bit_position > 0 => IsSwitch(r)
  BY DEF IsSwitch
<1>. QED BY <1>2, <1>4, <1>5 DEF ParseRecord

\* What a value reads back as.
LEMMA PutReads ==
  ASSUME NEW f \in Seq(Byte), NEW r, Valid(r), Fitting(f, r), NEW v \in Int, Settable(r, v), Fits(r, v)
  PROVE  ParseRecord(Put(f, r, v), r) = v
<1>. DEFINE g == Put(f, r, v)
<1>1. Rewrites(g, f, r)
  BY PutIs
<1>2. g \in Seq(Int)
  BY <1>1, BytesAreNumbers DEF Rewrites
<1>3. Fitting(g, r)
  BY <1>1 DEF Fitting, Rewrites
<1>4. CASE r.bit_position > 0
  <2>1. IsSwitch(r)
    BY <1>4 DEF IsSwitch
  <2>2. v \in 0 .. 1
    BY <2>1 DEF Settable
  <2>3. f[r.position + 1] \in Byte /\ g[r.position + 1] = SetBit(f[r.position + 1], r.bit_position, v)
    BY <1>4, <2>1, <2>2, PutBit
  <2>4. r.bit_position \in 1 .. 7
    BY <1>4 DEF Valid
  <2>5. GetBit(g[r.position + 1], r.bit_position) = v
    BY <2>2, <2>3, <2>4, BitSet DEF BitIsSet
  <2>. HIDE DEF g
  <2>6. ParseRecord(g, r) = v
    BY <1>2, <1>3, <1>4, <2>5, ParsedAs
  <2>. QED BY <2>6 DEF g
<1>5. CASE ~(r.bit_position > 0) /\ IsSwitch(r)
  <2>1. v \in 0 .. 1 /\ r.length = 1
    BY <1>5 DEF Settable
  <2>2. g[r.position + 1] = LowByte(v)
    BY <1>5, PutByte
  <2>3. SignedByte(LowByte(v)) = v
    BY <2>1, Complement DEF OfOneByte
  <2>. HIDE DEF g
  <2>4. ParseRecord(g, r) = IF v # 0 THEN 1 ELSE 0
    BY <1>2, <1>3, <1>5, <2>1, <2>2, <2>3, ParsedAs
  <2>5. v = 0 \/ v = 1
    BY <2>1
  <2>6. ParseRecord(g, r) = v
    BY <2>4, <2>5
  <2>. QED BY <2>6 DEF g
<1>6. CASE ~IsSwitch(r) /\ r.length = 1
  <2>1. OfOneByte(v)
    BY <1>6 DEF Fits
  <2>2. g[r.position + 1] = LowByte(v)
    BY <1>6, PutByte
  <2>3. SignedByte(LowByte(v)) = v
    BY <2>1, Complement
  <2>. HIDE DEF g
  <2>4. ParseRecord(g, r) = v
    BY <1>2, <1>3, <1>6, <2>2, <2>3, ParsedAs
  <2>. QED BY <2>4 DEF g
<1>7. CASE ~IsSwitch(r) /\ r.length # 1
  <2>1. OfTwoBytes(v)
    BY <1>7 DEF Fits
  <2>2. g[r.position + 1] = HighByte(v) /\ g[r.position + 2] = LowByte(v)
    BY <1>7, PutShort
  <2>3. SignedShort(256 * HighByte(v) + LowByte(v)) = v
    BY <2>1, Complement
  <2>. HIDE DEF g
  <2>4. ParseRecord(g, r) = v
    BY <1>2, <1>3, <1>7, <2>2, <2>3, ParsedAs
  <2>. QED BY <2>4 DEF g
<1>. QED BY <1>4, <1>5, <1>6, <1>7

\* The other channels read as before.
LEMMA PutSpares ==
  ASSUME NEW f \in Seq(Byte), NEW r, Valid(r), Fitting(f, r), NEW v \in Int, Settable(r, v),
         NEW q, Valid(q), Fitting(f, q), Apart(r, q)
  PROVE  ParseRecord(Put(f, r, v), q) = ParseRecord(f, q)
<1>. DEFINE g == Put(f, r, v)
<1>1. Rewrites(g, f, r)
  BY PutIs
<1>2. g \in Seq(Int) /\ f \in Seq(Int)
  BY <1>1, BytesAreNumbers DEF Rewrites
<1>3. Fitting(g, q)
  BY <1>1 DEF Fitting, Rewrites
<1>4. /\ r.length \in {1, 2} /\ r.position \in Nat /\ r.bit_position \in 0 .. 7
      /\ q.length \in {1, 2} /\ q.position \in Nat /\ q.bit_position \in 0 .. 7 /\ Len(f) \in Nat
  BY DEF Valid
<1>5. CASE r.position + r.length <= q.position \/ q.position + q.length <= r.position
  <2>1. \A i \in q.position + 1 .. q.position + q.length :
          i \in 1 .. Len(f) /\ (i <= r.position \/ r.position + r.length < i)
    BY <1>4, <1>5 DEF Fitting
  <2>2. \A i \in q.position + 1 .. q.position + q.length : g[i] = f[i]
    BY <1>1, <2>1 DEF Rewrites
  <2>. HIDE DEF g
  <2>3. ParseRecord(g, q) = ParseRecord(f, q)
    BY <1>2, <1>3, <2>2, ParseSame
  <2>. QED BY <2>3 DEF g
<1>6. CASE /\ r.position = q.position
           /\ r.bit_position > 0 /\ q.bit_position > 0 /\ r.bit_position # q.bit_position
  <2>1. IsSwitch(r)
    BY <1>6 DEF IsSwitch
  <2>2. v \in 0 .. 1
    BY <2>1 DEF Settable
  <2>3. f[r.position + 1] \in Byte /\ g[r.position + 1] = SetBit(f[r.position + 1], r.bit_position, v)
    BY <1>6, <2>1, <2>2, PutBit
  <2>4. r.bit_position \in 1 .. 7 /\ q.bit_position \in 1 .. 7
    BY <1>4, <1>6
  <2>5. GetBit(g[r.position + 1], q.bit_position) = GetBit(f[r.position + 1], q.bit_position)
    BY <1>6, <2>2, <2>3, <2>4, BitSet DEF BitIsSet
  <2>. HIDE DEF g
  <2>6. ParseRecord(g, q) = GetBit(g[q.position + 1], q.bit_position)
    BY <1>2, <1>3, <1>6, ParsedAs
  <2>7. ParseRecord(f, q) = GetBit(f[q.position + 1], q.bit_position)
    BY <1>2, <1>6, ParsedAs
  <2>8. ParseRecord(g, q) = ParseRecord(f, q)
    BY <1>6, <2>5, <2>6, <2>7
  <2>. QED BY <2>8 DEF g
<1>. QED BY <1>5, <1>6 DEF Apart

-----------------------------------------------------------------------------
(* Whole frames *)

\* All but the checksum is right.
Framed(f) ==
  /\ f \in Seq(Byte) /\ Len(f) >= 5
  /\ f[1] = HEADER_START /\ f[2] \in {GET, SET}
  /\ f[Len(f) - 1] = ESCAPE /\ f[Len(f)] = END

\* The frame is about the register with this command.
Carries(f, c) == 5 + Len(c) <= Len(f) /\ \A i \in 1 .. Len(c) : f[3 + i] = c[i]

\* The same but for the checksum and whether it is a GET or a SET.
Resealed(g, f) == Len(g) = Len(f) /\ \A i \in 4 .. Len(f) : g[i] = f[i]

\* A checksum makes a frame intact.
LEMMA Closing ==
  ASSUME NEW f, Framed(f)
  PROVE  Intact(WithChecksum(f)) /\ Resealed(WithChecksum(f), f) /\ WithChecksum(f)[2] = f[2]
<1>. DEFINE n == Len(f) - 2
            c == Checksum(f)
            g == WithChecksum(f)
<1>1. /\ f \in Seq(Byte) /\ f \in Seq(Int) /\ Len(f) \in Nat /\ Len(f) >= 5
      /\ f[1] = HEADER_START /\ f[2] \in {GET, SET}
      /\ f[Len(f) - 1] = ESCAPE /\ f[Len(f)] = END
  BY BytesAreNumbers DEF Framed
<1>2. Sendable(f)
  BY <1>1 DEF Sendable, HEADER_START, GET, SET, ESCAPE, ESCAPE2
<1>3. f = First(f, n) \o FOOTER
  BY <1>2, FooterSplit
<1>4. n \in 0 .. Len(f) /\ n >= 3
  BY <1>1
<1>. HIDE DEF n
<1>5. First(f, n) \in Seq(Int) /\ Len(First(f, n)) = n
  BY <1>1, <1>4, FirstIs
<1>6. Checksum(First(f, n) \o FOOTER) \in Byte
  BY <1>4, <1>5, ChecksumIs
<1>7. c \in Byte
  BY <1>3, <1>6
<1>8. g = [f EXCEPT ![3] = c]
  BY DEF WithChecksum
<1>9. [f EXCEPT ![3] = c][3] = c
  BY <1>1
<1>10. [g EXCEPT ![3] = 0] = [f EXCEPT ![3] = 0]
  BY <1>1, <1>8
<1>11. Checksum(g) = c
  BY <1>10 DEF Checksum
<1>. HIDE DEF c, g
<1>12. DEFINE k == 3
<1>13. k \in 1 .. Len(f) /\ k = 3
  BY <1>1
<1>. HIDE DEF k
<1>14. /\ [f EXCEPT ![k] = c] \in Seq(Byte) /\ Len([f EXCEPT ![k] = c]) = Len(f)
       /\ [f EXCEPT ![k] = c][k] = c
       /\ \A j \in 1 .. Len(f) : j # k => [f EXCEPT ![k] = c][j] = f[j]
  BY <1>1, <1>7, <1>13, Updated
<1>15. /\ g \in Seq(Byte) /\ Len(g) = Len(f) /\ g[3] = c
       /\ \A j \in 1 .. Len(f) : j # 3 => g[j] = f[j]
  BY <1>8, <1>13, <1>14
<1>16. g[1] = f[1] /\ g[2] = f[2] /\ g[Len(f) - 1] = f[Len(f) - 1] /\ g[Len(f)] = f[Len(f)]
  <2>. DEFINE m == Len(f)
  <2>1. m \in Nat /\ m >= 5
    BY <1>1
  <2>. HIDE DEF m
  <2>2. 1 \in 1 .. m /\ 2 \in 1 .. m /\ m - 1 \in 1 .. m /\ m \in 1 .. m /\ m - 1 # 3 /\ m # 3
    BY <2>1
  <2>3. \A j \in 1 .. m : j # 3 => g[j] = f[j]
    BY <1>15 DEF m
  <2>4. g[1] = f[1] /\ g[2] = f[2] /\ g[m - 1] = f[m - 1] /\ g[m] = f[m]
    BY <2>2, <2>3
  <2>. QED BY <2>4 DEF m
<1>17. Resealed(g, f)
  <2>1. \A i \in 4 .. Len(f) : i \in 1 .. Len(f) /\ i # 3
    BY <1>1
  <2>. QED BY <1>15, <2>1 DEF Resealed
<1>18. Intact(g)
  BY <1>1, <1>11, <1>15, <1>16 DEF Intact
<1>. QED BY <1>16, <1>17, <1>18 DEF g

\* The same frame as a GET or as a SET.
LEMMA Sealing ==
  ASSUME NEW f, Framed(f), NEW x \in {GET, SET}
  PROVE  LET g == WithChecksum([f EXCEPT ![2] = x])
         IN  Intact(g) /\ Resealed(g, f) /\ g[2] = x
<1>. DEFINE h == [f EXCEPT ![2] = x]
            k == 2
<1>1. /\ f \in Seq(Byte) /\ Len(f) \in Nat /\ Len(f) >= 5
      /\ f[1] = HEADER_START
      /\ f[Len(f) - 1] = ESCAPE /\ f[Len(f)] = END
  BY DEF Framed
<1>2. k \in 1 .. Len(f) /\ k = 2
  BY <1>1
<1>3. x \in Byte
  BY DEF GET, SET, Byte
<1>4. h = [f EXCEPT ![k] = x]
  OBVIOUS
<1>. HIDE DEF h, k
<1>5. /\ [f EXCEPT ![k] = x] \in Seq(Byte) /\ Len([f EXCEPT ![k] = x]) = Len(f)
      /\ [f EXCEPT ![k] = x][k] = x
      /\ \A j \in 1 .. Len(f) : j # k => [f EXCEPT ![k] = x][j] = f[j]
  BY <1>1, <1>2, <1>3, Updated
<1>6. /\ h \in Seq(Byte) /\ Len(h) = Len(f) /\ h[2] = x
      /\ \A j \in 1 .. Len(f) : j # 2 => h[j] = f[j]
  BY <1>2, <1>4, <1>5
<1>7. h[1] = f[1] /\ h[Len(f) - 1] = f[Len(f) - 1] /\ h[Len(f)] = f[Len(f)]
  <2>1. 1 \in 1 .. Len(f) /\ Len(f) - 1 \in 1 .. Len(f) /\ Len(f) \in 1 .. Len(f)
        /\ Len(f) - 1 # 2 /\ Len(f) # 2
    BY <1>1
  <2>. QED BY <1>6, <2>1
<1>8. Framed(h)
  BY <1>1, <1>6, <1>7 DEF Framed
<1>9. Intact(WithChecksum(h)) /\ Resealed(WithChecksum(h), h) /\ WithChecksum(h)[2] = h[2]
  BY <1>8, Closing
<1>10. Resealed(WithChecksum(h), f)
  <2>1. \A i \in 4 .. Len(f) : i \in 1 .. Len(f) /\ i # 2
    BY <1>1
  <2>. QED BY <1>6, <1>9, <2>1 DEF Resealed
<1>. QED BY <1>6, <1>9, <1>10 DEF h

\* The command is behind what is different.
LEMMA ResealedCarries ==
  ASSUME NEW g, NEW f \in Seq(Byte), NEW c \in Seq(Byte), Resealed(g, f), Carries(f, c)
  PROVE  Carries(g, c)
<1>1. Len(f) \in Nat /\ Len(c) \in Nat /\ 5 + Len(c) <= Len(f) /\ Len(g) = Len(f)
  BY DEF Carries, Resealed
<1>2. \A i \in 1 .. Len(c) : 3 + i \in 4 .. Len(f)
  BY <1>1
<1>. QED BY <1>1, <1>2 DEF Carries, Resealed

\* The command as Matches takes it out of a frame.
LEMMA CarriesIs ==
  ASSUME NEW f \in Seq(Byte), NEW c \in Seq(Byte), Carries(f, c)
  PROVE  SubSeq(f, 4, 3 + Len(c)) = c
<1>1. Len(f) \in Nat /\ Len(c) \in Nat /\ 5 + Len(c) <= Len(f) /\ \A i \in 1 .. Len(c) : f[3 + i] = c[i]
  BY DEF Carries
<1>. DEFINE d == SubSeq(f, 4, 3 + Len(c))
<1>2. d \in Seq(Byte) /\ Len(d) = Len(c)
  BY <1>1
<1>3. \A i \in 1 .. Len(c) : d[i] = f[3 + i]
  BY <1>1
<1>. HIDE DEF d
<1>4. d = c
  BY <1>1, <1>2, <1>3
<1>. QED BY <1>4 DEF d

\* The channels of a frame that differs in front of them only.
LEMMA ResealedReads ==
  ASSUME NEW g \in Seq(Int), NEW f \in Seq(Int), Resealed(g, f), NEW r, Valid(r), Fitting(f, r),
         r.position >= 3
  PROVE  ParseRecord(g, r) = ParseRecord(f, r) /\ Fitting(g, r)
<1>1. Fitting(g, r)
  BY DEF Fitting, Resealed
<1>2. r.length \in {1, 2} /\ r.position \in Nat /\ Len(f) \in Nat
  BY DEF Valid
<1>3. \A i \in r.position + 1 .. r.position + r.length : i \in 4 .. Len(f)
  BY <1>2 DEF Fitting
<1>4. \A i \in r.position + 1 .. r.position + r.length : g[i] = f[i]
  BY <1>3 DEF Resealed
<1>. QED BY <1>1, <1>4, ParseSame

\* Frames as the simulator builds them.
LEMMA Headed ==
  ASSUME NEW c \in Seq(Byte), NEW x \in {GET, SET}
  PROVE  /\ <<HEADER_START, x, 0>> \o c \in Seq(Byte) /\ Len(<<HEADER_START, x, 0>> \o c) = 3 + Len(c)
         /\ (<<HEADER_START, x, 0>> \o c)[1] = HEADER_START
         /\ (<<HEADER_START, x, 0>> \o c)[2] = x
         /\ \A i \in 1 .. Len(c) : (<<HEADER_START, x, 0>> \o c)[3 + i] = c[i]
<1>. DEFINE s == <<HEADER_START, x, 0>>
<1>1. HEADER_START \in Byte /\ x \in Byte /\ 0 \in Byte
  BY DEF HEADER_START, GET, SET, Byte
<1>2. s \in Seq(Byte) /\ Len(s) = 3 /\ s[1] = HEADER_START /\ s[2] = x
  BY <1>1
<1>. HIDE DEF s
<1>3. /\ s \o c \in Seq(Byte) /\ Len(s \o c) = Len(s) + Len(c)
      /\ \A i \in 1 .. Len(s) : (s \o c)[i] = s[i]
      /\ \A i \in 1 .. Len(c) : (s \o c)[Len(s) + i] = c[i]
  <2>1. s \in Seq(Byte)
    BY <1>2
  <2>. QED BY <2>1, Concat
<1>4. 1 \in 1 .. Len(s) /\ 2 \in 1 .. Len(s)
  BY <1>2
<1>5. (s \o c)[1] = HEADER_START /\ (s \o c)[2] = x
  BY <1>2, <1>3, <1>4
<1>6. \A i \in 1 .. Len(c) : (s \o c)[3 + i] = c[i]
  BY <1>2, <1>3
<1>7. s \o c \in Seq(Byte) /\ Len(s \o c) = 3 + Len(c)
  BY <1>2, <1>3
<1>. QED BY <1>5, <1>6, <1>7 DEF s

\* A footer makes a frame of a header and what follows it.
LEMMA Ended ==
  ASSUME NEW a \in Seq(Byte), Len(a) >= 3, a[1] = HEADER_START, a[2] \in {GET, SET}
  PROVE  /\ Framed(a \o FOOTER) /\ Len(a \o FOOTER) = Len(a) + 2
         /\ \A i \in 1 .. Len(a) : (a \o FOOTER)[i] = a[i]
<1>1. FOOTER \in Seq(Byte) /\ Len(FOOTER) = 2 /\ FOOTER[1] = ESCAPE /\ FOOTER[2] = END
  <2>1. ESCAPE \in Byte /\ END \in Byte
    BY DEF ESCAPE, END, Byte
  <2>. QED BY <2>1 DEF FOOTER
<1>. DEFINE t == FOOTER
            f == a \o t
<1>2. /\ f \in Seq(Byte) /\ Len(f) = Len(a) + Len(t)
      /\ \A i \in 1 .. Len(a) : f[i] = a[i]
      /\ \A i \in 1 .. Len(t) : f[Len(a) + i] = t[i]
  <2>1. t \in Seq(Byte)
    BY <1>1
  <2>. HIDE DEF t
  <2>. QED BY <2>1, Concat
<1>3. Len(t) = 2 /\ t[1] = ESCAPE /\ t[2] = END /\ Len(a) \in Nat
  BY <1>1
<1>. HIDE DEF f, t
<1>4. 1 \in 1 .. Len(t) /\ 2 \in 1 .. Len(t) /\ 1 \in 1 .. Len(a) /\ 2 \in 1 .. Len(a)
  BY <1>3
<1>5. f[Len(a) + 1] = ESCAPE /\ f[Len(a) + 2] = END /\ f[1] = HEADER_START /\ f[2] \in {GET, SET}
  BY <1>2, <1>3, <1>4
<1>6. Len(f) = Len(a) + 2 /\ Len(f) - 1 = Len(a) + 1 /\ Len(f) >= 5
  BY <1>2, <1>3
<1>7. Framed(f)
  BY <1>2, <1>5, <1>6 DEF Framed
<1>. QED BY <1>2, <1>6, <1>7 DEF f, t

\* The frame of a confirmation.
LEMMA BuiltEmpty ==
  ASSUME NEW c \in Seq(Byte), NEW x \in {GET, SET}
  PROVE  Framed(<<HEADER_START, x, 0>> \o c \o FOOTER)
<1>. DEFINE a == <<HEADER_START, x, 0>> \o c
<1>1. a \in Seq(Byte) /\ Len(a) = 3 + Len(c) /\ a[1] = HEADER_START /\ a[2] = x
  BY Headed
<1>2. Len(c) \in Nat
  OBVIOUS
<1>. HIDE DEF a
<1>3. Len(a) >= 3 /\ a[2] \in {GET, SET}
  BY <1>1, <1>2
<1>4. Framed(a \o FOOTER)
  BY <1>1, <1>3, Ended
<1>. QED BY <1>4 DEF a

\* The frame that the device has at first.
LEMMA BuiltIs ==
  ASSUME NEW c \in Seq(Byte), NEW p \in Seq(Byte), NEW x \in {GET, SET}
  PROVE  LET f == <<HEADER_START, x, 0>> \o c \o p \o FOOTER
         IN  Framed(f) /\ Carries(f, c) /\ Len(f) = 5 + Len(c) + Len(p)
<1>. DEFINE a == <<HEADER_START, x, 0>> \o c
            b == a \o p
            f == b \o FOOTER
<1>1. /\ a \in Seq(Byte) /\ Len(a) = 3 + Len(c) /\ a[1] = HEADER_START /\ a[2] = x
      /\ \A i \in 1 .. Len(c) : a[3 + i] = c[i]
  BY Headed
<1>2. Len(c) \in Nat /\ Len(p) \in Nat
  OBVIOUS
<1>3. f = <<HEADER_START, x, 0>> \o c \o p \o FOOTER
  OBVIOUS
<1>. HIDE DEF a
<1>4. /\ b \in Seq(Byte) /\ Len(b) = Len(a) + Len(p)
      /\ (\A i \in 1 .. Len(a) : b[i] = a[i])
      /\ \A i \in 1 .. Len(p) : b[Len(a) + i] = p[i]
  <2>1. a \in Seq(Byte)
    BY <1>1
  <2>. QED BY <2>1, Concat
<1>. HIDE DEF b
<1>5. 1 \in 1 .. Len(a) /\ 2 \in 1 .. Len(a) /\ Len(b) >= 3
  BY <1>1, <1>2, <1>4
<1>6. b[1] = HEADER_START /\ b[2] \in {GET, SET}
  BY <1>1, <1>4, <1>5
<1>7. Framed(f) /\ Len(f) = Len(b) + 2 /\ \A i \in 1 .. Len(b) : f[i] = b[i]
  BY <1>4, <1>5, <1>6, Ended
<1>. HIDE DEF f
<1>8. Len(f) = 5 + Len(c) + Len(p)
  BY <1>1, <1>2, <1>4, <1>7
<1>9. \A i \in 1 .. Len(c) : 3 + i \in 1 .. Len(a) /\ 3 + i \in 1 .. Len(b)
  BY <1>1, <1>2, <1>4
<1>10. \A i \in 1 .. Len(c) : f[3 + i] = c[i]
  BY <1>1, <1>4, <1>7, <1>9
<1>11. 5 + Len(c) <= Len(f)
  BY <1>2, <1>8
<1>12. Carries(f, c)
  BY <1>10, <1>11 DEF Carries
<1>13. Framed(f) /\ Carries(f, c) /\ Len(f) = 5 + Len(c) + Len(p)
  BY <1>7, <1>8, <1>12
<1>. QED BY <1>3, <1>13

-----------------------------------------------------------------------------
(* What is inductive: the device holds a whole frame of its register, as long as *)
(* it was at first, and only values that clients write have been acknowledged.   *)

Register ==
  /\ command \in Commands
  /\ Intact(store) /\ Carries(store, command)
  /\ \E p \in Payloads : Len(store) = 5 + Len(command) + Len(p)
  /\ ledger \in [Channels -> Int \cup {NoValue}]
  /\ \A c \in Channels : ledger[c] # NoValue => <<c, ledger[c]>> \in Offered

IInv == TypeOK /\ Register /\ LedgerHolds /\ CleanLineConfirms /\ DamagedReadsAreTrue

\* A channel that may be written, in a frame of the register.
LEMMA OfferedIs ==
  ASSUME NEW w \in Offered, NEW f, Len(f) \in Nat, command \in Commands,
         \E p \in Payloads : Len(f) = 5 + Len(command) + Len(p)
  PROVE  /\ w[1] \in Channels /\ w[2] \in Int /\ w = <<w[1], w[2]>>
         /\ Valid(Layout[w[1]]) /\ Settable(Layout[w[1]], w[2])
         /\ Fitting(f, Layout[w[1]]) /\ Layout[w[1]].position >= 3 + Len(command)
         /\ Layout[w[1]].position + Layout[w[1]].length <= Len(f) - 2
         /\ \A other \in Offered : other[1] # w[1] => Apart(Layout[w[1]], Layout[other[1]])
<1>. DEFINE r == Layout[w[1]]
<1>1. w[1] \in Channels /\ w[2] \in Int /\ w = <<w[1], w[2]>>
  BY SettingsAssumption
<1>2. Valid(r)
  BY <1>1, SettingsAssumption
<1>3. PICK p \in Payloads : Len(f) = 5 + Len(command) + Len(p)
  OBVIOUS
<1>4. Within(r, 3 + Len(command), 3 + Len(command) + Len(p))
  BY LayoutAssumption
<1>5. IsSwitch(r) => w[2] \in 0 .. 1 /\ (r.bit_position > 0 \/ r.length = 1)
  BY LayoutAssumption
<1>6. \A other \in Offered : other[1] # w[1] => Apart(r, Layout[other[1]])
  BY LayoutAssumption
<1>7. command \in Seq(Byte) /\ p \in Seq(Byte)
  BY SettingsAssumption
<1>8. Len(command) \in Nat /\ Len(p) \in Nat
  BY <1>7
<1>9. r.position \in Nat /\ r.length \in {1, 2}
  BY <1>2 DEF Valid
<1>. HIDE DEF r
<1>10. r.position >= 3 + Len(command) /\ r.position + r.length <= Len(f) - 2
  BY <1>3, <1>4, <1>8, <1>9 DEF Within
<1>11. Fitting(f, r)
  BY <1>9, <1>10 DEF Fitting
<1>12. Settable(r, w[2])
  BY <1>5 DEF Settable
<1>. QED BY <1>1, <1>2, <1>6, <1>10, <1>11, <1>12 DEF r

\* A body is two bytes shorter than its frame.
LEMMA BodyIs ==
  ASSUME NEW f \in Seq(Int), Len(f) >= 2
  PROVE  Len(Body(f)) = Len(f) - 2 /\ Len(Body(f)) \in Nat
<1>. DEFINE n == Len(f) - 2
<1>1. n \in 0 .. Len(f)
  OBVIOUS
<1>2. Body(f) = First(f, n)
  BY DEF Body, First
<1>3. n \in Nat /\ n = Len(f) - 2
  OBVIOUS
<1>. HIDE DEF n
<1>4. Len(First(f, n)) = n
  BY <1>1, FirstIs
<1>. QED BY <1>2, <1>3, <1>4

\* What is shown of a frame.
LEMMA ShownIs ==
  ASSUME NEW f \in Seq(Int)
  PROVE  /\ Shown(f) \in [Channels -> Int \cup {NoValue}]
         /\ \A c \in Channels : Shown(f)[c] = ParseRecord(f, Layout[c])
<1>1. \A c \in Channels : Valid(Layout[c])
  BY SettingsAssumption
<1>2. \A c \in Channels : ParseRecord(f, Layout[c]) \in Int \cup {NoValue}
  BY <1>1, ParseIs
<1>. QED BY <1>2 DEF Shown

\* What arrives is what is left of what was sent.
LEMMA ArrivalIs ==
  ASSUME NEW w, NEW b \in Arrivals(w)
  PROVE  Left(w, b)
BY DEF Arrivals, Left, First

\* The frame that is written, and what the device makes of it.
Writing(w, g, s) ==
  /\ g \in Seq(Int)
  /\ DeviceHears(AddDuplicatedBytes(g)) = g
  /\ VerifyHeader(g) /\ g[2] = SET /\ Matches(g)
  /\ Intact(s) /\ Carries(s, command) /\ Len(s) = Len(store)
  /\ Fits(Layout[w[1]], w[2]) => ParseRecord(s, Layout[w[1]]) = w[2]
  /\ \A other \in Offered :
       other[1] # w[1] => ParseRecord(s, Layout[other[1]]) = ParseRecord(store, Layout[other[1]])

\* A write: the SET is understood, and leaves an intact frame with the new value and the old other ones.
LEMMA WritingIs ==
  ASSUME NEW w \in Offered, Register
  PROVE  Writing(w, Composed(w[1], w[2]), Stored(Composed(w[1], w[2])))
<1>. DEFINE r == Layout[w[1]]
            v == w[2]
            f == Put(store, r, v)
            g == Composed(w[1], v)
            s == Stored(g)
<1>1. /\ command \in Commands /\ Intact(store) /\ Carries(store, command)
      /\ \E p \in Payloads : Len(store) = 5 + Len(command) + Len(p)
  BY DEF Register
<1>2. /\ store \in Seq(Byte) /\ Len(store) \in Nat /\ Len(store) >= 5
      /\ store[1] = HEADER_START /\ store[2] \in {GET, SET}
      /\ store[Len(store) - 1] = ESCAPE /\ store[Len(store)] = END
  BY <1>1 DEF Intact
<1>3. command \in Seq(Byte)
  BY <1>1, SettingsAssumption
<1>4. Len(command) \in Nat
  BY <1>3
<1>5. /\ w[1] \in Channels /\ w[2] \in Int /\ w = <<w[1], w[2]>>
      /\ Valid(Layout[w[1]]) /\ Settable(Layout[w[1]], w[2])
      /\ Fitting(store, Layout[w[1]]) /\ Layout[w[1]].position >= 3 + Len(command)
      /\ Layout[w[1]].position + Layout[w[1]].length <= Len(store) - 2
      /\ \A other \in Offered : other[1] # w[1] => Apart(Layout[w[1]], Layout[other[1]])
  BY <1>1, <1>2, OfferedIs
<1>6. /\ v \in Int /\ Valid(r) /\ Settable(r, v) /\ Fitting(store, r)
      /\ r.position >= 3 + Len(command) /\ r.position + r.length <= Len(store) - 2
  BY <1>5
<1>7. r.position \in Nat /\ r.length \in {1, 2}
  BY <1>6 DEF Valid
<1>8. \A other \in Offered :
        /\ Valid(Layout[other[1]]) /\ Fitting(store, Layout[other[1]])
        /\ Layout[other[1]].position >= 3
        /\ other[1] # w[1] => Apart(r, Layout[other[1]])
  <2>1. SUFFICES ASSUME NEW other \in Offered
                 PROVE  /\ Valid(Layout[other[1]]) /\ Fitting(store, Layout[other[1]])
                        /\ Layout[other[1]].position >= 3
                        /\ other[1] # w[1] => Apart(r, Layout[other[1]])
    OBVIOUS
  <2>2. /\ other[1] \in Channels /\ other[2] \in Int /\ other = <<other[1], other[2]>>
        /\ Valid(Layout[other[1]]) /\ Settable(Layout[other[1]], other[2])
        /\ Fitting(store, Layout[other[1]]) /\ Layout[other[1]].position >= 3 + Len(command)
        /\ Layout[other[1]].position + Layout[other[1]].length <= Len(store) - 2
        /\ \A x \in Offered : x[1] # other[1] => Apart(Layout[other[1]], Layout[x[1]])
    BY <1>1, <1>2, OfferedIs
  <2>3. Layout[other[1]].position \in Nat
    BY <2>2 DEF Valid
  <2>4. Layout[other[1]].position >= 3
    BY <1>4, <2>2, <2>3
  <2>. QED BY <1>5, <2>2, <2>4
<1>9. g = WithChecksum([f EXCEPT ![2] = SET])
  <2>1. Sendable(store)
    BY <1>1, IntactIs
  <2>2. 5 \in Nat
    OBVIOUS
  <2>3. Received(AnswerToGet, 5) = store
    <3>. DEFINE min == 5
    <3>1. min \in Nat
      OBVIOUS
    <3>. HIDE DEF min
    <3>2. Received(AddDuplicatedBytes(store), min) = store
      BY <2>1, <3>1, RoundTrip
    <3>. QED BY <3>2 DEF min, AnswerToGet
  <2>. QED BY <2>3 DEF Composed, ComposeRecord
<1>10. s = WithChecksum([g EXCEPT ![2] = GET])
  BY DEF Stored
<1>11. Rewrites(f, store, r)
  BY <1>2, <1>6, PutIs
<1>12. Fits(r, v) => ParseRecord(f, r) = v
  BY <1>2, <1>6, PutReads
<1>13. \A other \in Offered :
         other[1] # w[1] => ParseRecord(f, Layout[other[1]]) = ParseRecord(store, Layout[other[1]])
  BY <1>2, <1>6, <1>8, PutSpares
<1>. HIDE DEF r, v, f, g, s
<1>14. /\ f \in Seq(Byte) /\ Len(f) = Len(store)
       /\ \A i \in 1 .. Len(store) : i <= r.position \/ r.position + r.length < i => f[i] = store[i]
  BY <1>11 DEF Rewrites
<1>15. Framed(f)
  <2>. DEFINE m == Len(store)
              a == r.position
              e == r.position + r.length
              o == Len(command)
  <2>1. m \in Nat /\ m >= 5 /\ a \in Nat /\ a >= 3 /\ e \in Nat /\ e <= m - 2
    <3>1. m \in Nat /\ m >= 5 /\ e <= m - 2
      BY <1>2, <1>6
    <3>2. a \in Nat /\ e \in Nat
      BY <1>7
    <3>3. o \in Nat /\ a >= 3 + o
      BY <1>4, <1>6
    <3>. HIDE DEF a, o
    <3>4. a >= 3
      BY <3>2, <3>3
    <3>. QED BY <3>1, <3>2, <3>4
  <2>2. \A i \in 1 .. m : i <= a \/ e < i => f[i] = store[i]
    BY <1>14
  <2>. HIDE DEF m, a, e
  <2>3. 1 \in 1 .. m /\ 1 <= a /\ 2 \in 1 .. m /\ 2 <= a
    BY <2>1
  <2>4. m - 1 \in 1 .. m /\ e < m - 1 /\ m \in 1 .. m /\ e < m
    BY <2>1
  <2>5. f[1] = store[1] /\ f[2] = store[2] /\ f[m - 1] = store[m - 1] /\ f[m] = store[m]
    BY <2>2, <2>3, <2>4
  <2>. QED BY <1>2, <1>14, <2>5 DEF Framed, m
<1>16. Carries(f, command)
  <2>1. \A i \in 1 .. Len(command) : 3 + i \in 1 .. Len(store) /\ 3 + i <= r.position
    BY <1>1, <1>2, <1>4, <1>6, <1>7 DEF Carries
  <2>2. \A i \in 1 .. Len(command) : f[3 + i] = store[3 + i]
    BY <1>14, <2>1
  <2>. QED BY <1>1, <1>14, <2>2 DEF Carries
<1>17. Intact(g) /\ Resealed(g, f) /\ g[2] = SET
  <2>1. SET \in {GET, SET}
    OBVIOUS
  <2>. QED BY <1>9, <1>15, <2>1, Sealing
<1>18. g \in Seq(Byte) /\ g \in Seq(Int) /\ f \in Seq(Int) /\ Framed(g) /\ Len(g) = Len(f)
  BY <1>14, <1>17, BytesAreNumbers DEF Intact, Framed, Resealed
<1>19. Carries(g, command)
  BY <1>3, <1>14, <1>16, <1>17, ResealedCarries
<1>20. Matches(g)
  BY <1>3, <1>18, <1>19, CarriesIs DEF Matches
<1>21. Sendable(g) /\ VerifyHeader(g)
  BY <1>17, IntactIs
<1>22. DeviceHears(AddDuplicatedBytes(g)) = g
  <2>. DEFINE min == 6
  <2>1. min \in Nat
    OBVIOUS
  <2>. HIDE DEF min
  <2>2. Received(AddDuplicatedBytes(g), min) = g
    BY <1>21, <2>1, RoundTrip
  <2>. QED BY <2>2 DEF min, DeviceHears
<1>23. Intact(s) /\ Resealed(s, g)
  <2>1. GET \in {GET, SET}
    OBVIOUS
  <2>. QED BY <1>10, <1>18, <2>1, Sealing
<1>24. s \in Seq(Int) /\ Len(s) = Len(store)
  BY <1>14, <1>18, <1>23, BytesAreNumbers DEF Intact, Resealed
<1>25. Carries(s, command)
  BY <1>3, <1>18, <1>19, <1>23, ResealedCarries
<1>26. \A q : Valid(q) /\ Fitting(store, q) /\ q.position >= 3 => ParseRecord(s, q) = ParseRecord(f, q)
  <2>1. SUFFICES ASSUME NEW q, Valid(q), Fitting(store, q), q.position >= 3
                 PROVE  ParseRecord(s, q) = ParseRecord(f, q)
    OBVIOUS
  <2>2. Fitting(f, q)
    BY <1>14, <2>1 DEF Fitting
  <2>3. ParseRecord(g, q) = ParseRecord(f, q) /\ Fitting(g, q)
    BY <1>17, <1>18, <2>1, <2>2, ResealedReads
  <2>4. ParseRecord(s, q) = ParseRecord(g, q) /\ Fitting(s, q)
    BY <1>18, <1>23, <1>24, <2>1, <2>3, ResealedReads
  <2>. QED BY <2>3, <2>4
<1>27. Fits(r, v) => ParseRecord(s, r) = v
  <2>1. r.position >= 3
    BY <1>4, <1>6, <1>7
  <2>. QED BY <1>6, <1>12, <1>26, <2>1
<1>28. \A other \in Offered :
         other[1] # w[1] => ParseRecord(s, Layout[other[1]]) = ParseRecord(store, Layout[other[1]])
  BY <1>8, <1>13, <1>26
<1>29. Writing(w, g, s)
  BY <1>17, <1>18, <1>20, <1>21, <1>22, <1>23, <1>24, <1>25, <1>27, <1>28 DEF Writing, r, v
<1>. QED BY <1>29 DEF g, s, v

\* The confirmation of a SET is accepted.
LEMMA ConfirmationArrives ==
  ASSUME command \in Commands
  PROVE  VerifyHeader(Received(Confirmation, 5))
<1>. DEFINE h == <<HEADER_START, SET, 0>> \o command \o FOOTER
            f == WithChecksum(h)
            min == 5
<1>1. command \in Seq(Byte)
  BY SettingsAssumption
<1>2. SET \in {GET, SET}
  OBVIOUS
<1>3. Framed(h)
  BY <1>1, <1>2, BuiltEmpty
<1>4. min \in Nat
  OBVIOUS
<1>5. Received(Confirmation, 5) = Received(AddDuplicatedBytes(f), min)
  BY DEF Confirmation
<1>. HIDE DEF h
<1>6. Intact(f)
  BY <1>3, Closing
<1>. HIDE DEF f, min
<1>7. Sendable(f) /\ VerifyHeader(f)
  BY <1>6, IntactIs
<1>8. Received(AddDuplicatedBytes(f), min) = f
  BY <1>4, <1>7, RoundTrip
<1>. QED BY <1>5, <1>7, <1>8

\* At first.
LEMMA Starts ==
  Init => IInv
<1>. SUFFICES ASSUME Init PROVE IInv
  OBVIOUS
<1>1. PICK p \in Payloads : store = WithChecksum(<<HEADER_START, GET, 0>> \o command \o p \o FOOTER)
  BY DEF Init
<1>2. /\ command \in Commands /\ ledger = Nothing /\ last = <<>> /\ status = 200
      /\ shown = Shown(store) /\ reach = Len(Body(store))
  BY DEF Init
<1>. DEFINE h == <<HEADER_START, GET, 0>> \o command \o p \o FOOTER
<1>3. command \in Seq(Byte) /\ p \in Seq(Byte)
  BY <1>2, SettingsAssumption
<1>4. Framed(h) /\ Carries(h, command) /\ Len(h) = 5 + Len(command) + Len(p)
  <2>1. GET \in {GET, SET}
    OBVIOUS
  <2>. QED BY <1>3, <2>1, BuiltIs
<1>5. store = WithChecksum(h)
  BY <1>1
<1>. HIDE DEF h
<1>6. Intact(store) /\ Resealed(store, h)
  BY <1>4, <1>5, Closing
<1>7. h \in Seq(Byte) /\ Len(store) = Len(h)
  BY <1>4, <1>6 DEF Framed, Resealed
<1>8. Carries(store, command)
  BY <1>3, <1>4, <1>6, <1>7, ResealedCarries
<1>9. ledger \in [Channels -> Int \cup {NoValue}] /\ \A c \in Channels : ledger[c] = NoValue
  BY <1>2 DEF Nothing
<1>10. Register
  BY <1>2, <1>4, <1>6, <1>7, <1>8, <1>9 DEF Register
<1>11. store \in Seq(Byte) /\ store \in Seq(Int) /\ Len(store) >= 2
  BY <1>6, BytesAreNumbers DEF Intact
<1>12. /\ Shown(store) \in [Channels -> Int \cup {NoValue}]
       /\ \A c \in Channels : Shown(store)[c] = ParseRecord(store, Layout[c])
  BY <1>11, ShownIs
<1>13. Len(Body(store)) = Len(store) - 2 /\ Len(Body(store)) \in Nat
  BY <1>11, BodyIs
<1>14. TypeOK
  BY <1>2, <1>9, <1>11, <1>12, <1>13 DEF TypeOK
<1>15. LedgerHolds
  BY <1>9 DEF LedgerHolds
<1>16. CleanLineConfirms
  BY <1>2 DEF CleanLineConfirms
<1>17. DamagedReadsAreTrue
  BY <1>2, <1>12 DEF DamagedReadsAreTrue
<1>. QED BY <1>10, <1>14, <1>15, <1>16, <1>17 DEF IInv

\* A read changes nothing, and shows what is left of the frame.
LEMMA ReadKeeps ==
  ASSUME IInv, Read
  PROVE  IInv'
<1>1. /\ command \in Commands /\ Intact(store)
      /\ TypeOK /\ Register /\ LedgerHolds
  BY DEF IInv, Register
<1>2. last' = <<>> /\ command' = command /\ store' = store /\ ledger' = ledger
  BY DEF Read
<1>3. Register' /\ LedgerHolds'
  BY <1>1, <1>2 DEF Register, LedgerHolds
<1>4. CleanLineConfirms'
  BY <1>2 DEF CleanLineConfirms
<1>5. store \in Seq(Byte) /\ store \in Seq(Int) /\ Len(store) \in Nat /\ Len(store) >= 5
  BY <1>1, BytesAreNumbers DEF Intact
<1>6. Len(Body(store)) = Len(store) - 2 /\ Len(Body(store)) \in Nat
  <2>1. Len(store) >= 2
    BY <1>5
  <2>. QED BY <1>5, <2>1, BodyIs
<1>7. ASSUME status' \in {200, 503}, shown' \in [Channels -> Int \cup {NoValue}],
             reach' \in 0 .. Len(store) - 2
      PROVE  TypeOK'
  BY <1>1, <1>2, <1>6, <1>7 DEF TypeOK
<1>8. PICK bytes \in Arrivals(AnswerToGet) :
        \/ /\ VerifyHeader(Received(bytes, 5))
           /\ status' = 200
           /\ shown' = Shown(Received(bytes, 5))
           /\ reach' = Len(Body(Received(bytes, 5)))
        \/ /\ ~VerifyHeader(Received(bytes, 5))
           /\ status' = 503
           /\ shown' = Nothing
           /\ reach' = 0
  BY DEF Read
<1>9. CASE ~VerifyHeader(Received(bytes, 5))
  <2>1. status' = 503 /\ shown' = Nothing /\ reach' = 0
    BY <1>8, <1>9
  <2>2. shown' \in [Channels -> Int \cup {NoValue}] /\ \A c \in Channels : shown'[c] = NoValue
    BY <2>1 DEF Nothing
  <2>3. TypeOK'
    BY <1>5, <1>7, <2>1, <2>2
  <2>4. DamagedReadsAreTrue'
    BY <2>2 DEF DamagedReadsAreTrue
  <2>. QED BY <1>3, <1>4, <2>3, <2>4 DEF IInv
<1>10. CASE VerifyHeader(Received(bytes, 5))
  <2>. DEFINE min == 5
              frame == Received(bytes, min)
  <2>1. status' = 200 /\ shown' = Shown(frame) /\ reach' = Len(Body(frame))
    BY <1>8, <1>10
  <2>2. min \in Nat /\ VerifyHeader(frame)
    BY <1>10
  <2>. HIDE DEF min
  <2>3. Left(AddDuplicatedBytes(store), bytes)
    BY ArrivalIs DEF AnswerToGet
  <2>4. \E j \in 3 .. Len(store) - 2 : frame = First(store, j) \o FOOTER
    BY <1>1, <2>2, <2>3, DamageRefused
  <2>5. PICK j \in 3 .. Len(store) - 2 : frame = First(store, j) \o FOOTER
    BY <2>4
  <2>. HIDE DEF frame
  <2>. DEFINE g == First(store, j)
  <2>6. /\ g \in Seq(Int) /\ Len(g) = j
        /\ \A i \in 1 .. j : g[i] = store[i]
    <3>1. j \in 0 .. Len(store)
      BY <1>5
    <3>. QED BY <1>5, <3>1, FirstIs
  <2>7. frame = g \o FOOTER
    BY <2>5
  <2>. HIDE DEF g
  <2>8. g \in Seq(Int)
    BY <2>6
  <2>9. /\ g \o FOOTER \in Seq(Int) /\ Len(g \o FOOTER) = Len(g) + 2
        /\ \A i \in 1 .. Len(g) : (g \o FOOTER)[i] = g[i]
        /\ (g \o FOOTER)[Len(g) + 1] = ESCAPE /\ (g \o FOOTER)[Len(g) + 2] = END
        /\ Body(g \o FOOTER) = g
    BY <2>8, ClosedIs
  <2>10. /\ frame \in Seq(Int) /\ Len(frame) = j + 2 /\ reach' = j
         /\ \A i \in 1 .. j : frame[i] = store[i]
    BY <2>1, <2>6, <2>7, <2>9
  <2>11. /\ Shown(frame) \in [Channels -> Int \cup {NoValue}]
         /\ \A c \in Channels : Shown(frame)[c] = ParseRecord(frame, Layout[c])
    BY <2>10, ShownIs
  <2>12. reach' \in 0 .. Len(store) - 2
    BY <1>5, <2>10
  <2>13. TypeOK'
    BY <1>7, <2>1, <2>11, <2>12
  <2>14. ASSUME NEW c \in Channels, Layout[c].position + Layout[c].length <= j
         PROVE  ParseRecord(frame, Layout[c]) = ParseRecord(store, Layout[c])
    <3>. DEFINE r == Layout[c]
    <3>1. Valid(r)
      BY SettingsAssumption
    <3>2. r.position + r.length <= j
      BY <2>14
    <3>. HIDE DEF r
    <3>3. r.position \in Nat /\ r.length \in {1, 2}
      BY <3>1 DEF Valid
    <3>4. Fitting(frame, r) /\ Fitting(store, r)
      <4>. DEFINE n == r.position + r.length
      <4>1. n \in Nat /\ n <= j
        BY <3>2, <3>3
      <4>2. Len(frame) = j + 2 /\ j \in Nat /\ j <= Len(store)
        BY <1>5, <2>10
      <4>. HIDE DEF n
      <4>3. n <= Len(frame) /\ n <= Len(store)
        BY <1>5, <4>1, <4>2
      <4>. QED BY <4>3 DEF Fitting, n
    <3>5. \A i \in r.position + 1 .. r.position + r.length : i \in 1 .. j
      BY <3>2, <3>3
    <3>6. \A i \in r.position + 1 .. r.position + r.length : frame[i] = store[i]
      BY <2>10, <3>5
    <3>7. ParseRecord(frame, r) = ParseRecord(store, r)
      BY <1>5, <2>10, <3>1, <3>4, <3>6, ParseSame
    <3>. QED BY <3>7 DEF r
  <2>15. DamagedReadsAreTrue'
    BY <1>2, <2>1, <2>10, <2>11, <2>14 DEF DamagedReadsAreTrue
  <2>. QED BY <1>3, <1>4, <2>13, <2>15 DEF IInv
<1>. QED BY <1>9, <1>10

\* A refused write changes nothing and shows nothing.
LEMMA RefuseKeeps ==
  ASSUME IInv, NEW w \in Offered, Refuse(w[1], w[2])
  PROVE  IInv'
<1>1. TypeOK /\ Register /\ LedgerHolds
  BY DEF IInv
<1>2. /\ last' = <<w[1], w[2]>> /\ status' = 400 /\ shown' = Nothing /\ reach' = 0
      /\ command' = command /\ store' = store /\ ledger' = ledger
  BY DEF Refuse
<1>3. Register' /\ LedgerHolds'
  BY <1>1, <1>2 DEF Register, LedgerHolds
<1>4. store \in Seq(Int) /\ Len(store) >= 2
  BY <1>1, BytesAreNumbers DEF Register, Intact
<1>5. Len(Body(store)) = Len(store) - 2 /\ Len(Body(store)) \in Nat
  BY <1>4, BodyIs
<1>6. w = <<w[1], w[2]>>
  BY SettingsAssumption
<1>7. last' \in Offered
  BY <1>2, <1>6
<1>8. shown' \in [Channels -> Int \cup {NoValue}] /\ \A c \in Channels : shown'[c] = NoValue
  BY <1>2 DEF Nothing
<1>9. TypeOK'
  BY <1>1, <1>2, <1>5, <1>7, <1>8 DEF TypeOK
<1>10. CleanLineConfirms' /\ DamagedReadsAreTrue'
  BY <1>2, <1>8 DEF CleanLineConfirms, DamagedReadsAreTrue
<1>. QED BY <1>3, <1>9, <1>10 DEF IInv

\* A write changes its channel.
LEMMA WriteKeeps ==
  ASSUME IInv, NEW w \in Offered, Write(w[1], w[2])
  PROVE  IInv'
<1>. DEFINE g == Composed(w[1], w[2])
            s == Stored(g)
<1>1. TypeOK /\ Register /\ LedgerHolds
  BY DEF IInv
<1>2. command \in Commands /\ w[1] \in Channels /\ w[2] \in Int /\ w = <<w[1], w[2]>>
  BY <1>1, SettingsAssumption DEF Register
<1>3. Writing(w, g, s)
  BY <1>1, WritingIs
<1>4. VerifyHeader(Received(Confirmation, 5))
  BY <1>2, ConfirmationArrives
<1>5. DeviceHears(AddDuplicatedBytes(g)) = g /\ VerifyHeader(g) /\ g[2] = SET /\ Matches(g)
  BY <1>3 DEF Writing
<1>6. /\ last' = <<w[1], w[2]>> /\ reach' = 0 /\ command' = command
      /\ store' = s
      /\ ledger' = [ledger EXCEPT ![w[1]] = w[2]]
      /\ status' = 200
      /\ shown' = [Nothing EXCEPT ![w[1]] = ParseRecord(g, Layout[w[1]])]
  <2>. HIDE DEF g
  <2>1. Composed(w[1], w[2]) = g
    BY DEF g
  <2>. QED BY <1>4, <1>5, <2>1 DEF Write
<1>. HIDE DEF g, s
<1>7. /\ g \in Seq(Int) /\ Intact(s) /\ Carries(s, command) /\ Len(s) = Len(store)
      /\ Fits(Layout[w[1]], w[2]) => ParseRecord(s, Layout[w[1]]) = w[2]
      /\ \A other \in Offered :
           other[1] # w[1] => ParseRecord(s, Layout[other[1]]) = ParseRecord(store, Layout[other[1]])
  BY <1>3 DEF Writing
<1>8. /\ ledger \in [Channels -> Int \cup {NoValue}]
      /\ \A c \in Channels : ledger[c] # NoValue => <<c, ledger[c]>> \in Offered
      /\ \E p \in Payloads : Len(store) = 5 + Len(command) + Len(p)
  BY <1>1 DEF Register
<1>9. /\ ledger' \in [Channels -> Int \cup {NoValue}] /\ ledger'[w[1]] = w[2]
      /\ \A c \in Channels : c # w[1] => ledger'[c] = ledger[c]
  BY <1>2, <1>6, <1>8
<1>10. \A c \in Channels : ledger'[c] # NoValue => <<c, ledger'[c]>> \in Offered
  BY <1>2, <1>8, <1>9
<1>11. Register'
  BY <1>2, <1>6, <1>7, <1>8, <1>9, <1>10 DEF Register
<1>12. LedgerHolds'
  <2>1. SUFFICES ASSUME NEW c \in Channels, ledger'[c] # NoValue, Fits(Layout[c], ledger'[c])
                 PROVE  ParseRecord(s, Layout[c]) = ledger'[c]
    BY <1>6 DEF LedgerHolds
  <2>2. CASE c = w[1]
    BY <1>7, <1>9, <2>1, <2>2
  <2>3. CASE c # w[1]
    <3>1. ledger'[c] = ledger[c] /\ <<c, ledger[c]>> \in Offered
      BY <1>8, <1>9, <2>1, <2>3
    <3>2. PICK other \in Offered : other[1] = c
      BY <3>1
    <3>3. ParseRecord(s, Layout[c]) = ParseRecord(store, Layout[c])
      BY <1>7, <2>3, <3>2
    <3>4. ParseRecord(store, Layout[c]) = ledger[c]
      BY <1>1, <2>1, <3>1 DEF LedgerHolds
    <3>. QED BY <3>1, <3>3, <3>4
  <2>. QED BY <2>2, <2>3
<1>13. s \in Seq(Byte) /\ s \in Seq(Int) /\ Len(s) >= 2
  BY <1>7, BytesAreNumbers DEF Intact
<1>14. Len(Body(s)) = Len(s) - 2 /\ Len(Body(s)) \in Nat
  BY <1>13, BodyIs
<1>15. shown' \in [Channels -> Int \cup {NoValue}]
  <2>1. Valid(Layout[w[1]])
    BY <1>2, SettingsAssumption
  <2>2. ParseRecord(g, Layout[w[1]]) \in Int \cup {NoValue}
    BY <1>7, <2>1, ParseIs
  <2>3. Nothing \in [Channels -> Int \cup {NoValue}]
    BY DEF Nothing
  <2>. QED BY <1>2, <1>6, <2>2, <2>3
<1>16. last' \in Offered
  BY <1>2, <1>6
<1>17. TypeOK'
  BY <1>2, <1>6, <1>9, <1>13, <1>14, <1>15, <1>16 DEF TypeOK
<1>18. last' # <<>>
  BY <1>6
<1>19. CleanLineConfirms' /\ DamagedReadsAreTrue'
  BY <1>6, <1>18 DEF CleanLineConfirms, DamagedReadsAreTrue
<1>. QED BY <1>11, <1>12, <1>17, <1>19 DEF IInv

\* Every step keeps the invariant.
LEMMA Kept ==
  IInv /\ [Next]_vars => IInv'
<1>. SUFFICES ASSUME IInv, [Next]_vars PROVE IInv'
  OBVIOUS
<1>1. CASE Read
  BY <1>1, ReadKeeps
<1>2. CASE \E w \in Offered : Refuse(w[1], w[2]) \/ Write(w[1], w[2])
  BY <1>2, RefuseKeeps, WriteKeeps
<1>3. CASE UNCHANGED vars
  BY <1>3 DEF vars, IInv, TypeOK, Register, LedgerHolds, CleanLineConfirms, DamagedReadsAreTrue
<1>. QED BY <1>1, <1>2, <1>3 DEF Next

-----------------------------------------------------------------------------
(* The theorems *)

\* The invariant holds.
THEOREM AlwaysIInv == Spec => []IInv
BY Starts, Kept, PTL DEF Spec

\* The device always holds bytes, the ledger values that were offered, and answers show numbers.
THEOREM TypeCorrect == Spec => []TypeOK
<1>1. IInv => TypeOK
  BY DEF IInv
<1>. QED BY <1>1, AlwaysIInv, PTL

\* compose_record, parse_record and the escaping of both directions: whatever was written before, the device
\* shows the value last acknowledged for each channel, if its bytes can hold it. For any settings that have no
\* bit in common, and for any commands, payloads and values.
THEOREM Ledger == Spec => []LedgerHolds
<1>1. IInv => LedgerHolds
  BY DEF IInv
<1>. QED BY <1>1, AlwaysIInv, PTL

\* escaping, checksum and footer: no value, checksum or command keeps a write from being confirmed.
THEOREM CleanLine == Spec => []CleanLineConfirms
<1>1. IInv => CleanLineConfirms
  BY DEF IInv
<1>. QED BY <1>1, AlwaysIInv, PTL

\* is_frame_end, fix_duplicated_bytes and verify_header: an answer that lost its end or any byte that is
\* not zero is refused, or shows of the channels in front of its footer what the device holds.
THEOREM DamagedReads == Spec => []DamagedReadsAreTrue
<1>1. IInv => DamagedReadsAreTrue
  BY DEF IInv
<1>. QED BY <1>1, AlwaysIInv, PTL
=============================================================================
