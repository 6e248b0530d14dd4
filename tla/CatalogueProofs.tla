-------------------------- MODULE CatalogueProofs ---------------------------
(***************************************************************************)
(* Theorems about Catalogue, for any definitions, in files and calls of    *)
(* any length. The inductive invariant is Indices (what the two indices    *)
(* are in terms of the channels loaded) and Calls (what the plan of a call *)
(* and the requests it has read have to do with the ids it wants). The     *)
(* lists are filtered with a recursive function, Selected; what it returns *)
(* is shown first, by induction on the places of the sequence.             *)
(***************************************************************************)
EXTENDS Catalogue, SequenceTheorems, FiniteSetTheorems, TLAPS

-----------------------------------------------------------------------------
(* Numbers and recursion *)

\* The first of the numbers that have a property.
LEMMA LeastElement ==
  ASSUME NEW T \in SUBSET Nat, T # {}
  PROVE  \E m \in T : \A k \in T : m <= k
<1>. DEFINE R == {p \in Nat \X Nat : p[1] < p[2]}
<1>1. IsWellFoundedOn(R, Nat)
  BY NatLessThanWellFounded DEF OpToRel
<1>2. \E x \in T : \A y \in T : <<y, x>> \notin R
  <2>. HIDE DEF R
  <2>. QED BY <1>1, WFMin
<1>3. PICK x \in T : \A y \in T : <<y, x>> \notin R
  BY <1>2
<1>4. ASSUME NEW y \in T PROVE x <= y
  <2>1. <<y, x>> \in Nat \X Nat /\ <<y, x>> \notin R
    BY <1>3
  <2>2. ~(y < x)
    BY <2>1
  <2>. QED BY <2>2
<1>. QED BY <1>4

\* Induction, over a set that stands for the property.
LEMMA Induction ==
  ASSUME NEW n \in Nat, NEW S, 0 \in S, \A i \in 1 .. n : i - 1 \in S => i \in S
  PROVE  0 .. n \subseteq S
<1>. SUFFICES ASSUME NEW x \in 0 .. n, x \notin S PROVE FALSE
  OBVIOUS
<1>. DEFINE T == {k \in 0 .. n : k \notin S}
<1>1. T \in SUBSET Nat /\ T # {}
  OBVIOUS
<1>2. \E m \in T : \A k \in T : m <= k
  <2>. HIDE DEF T
  <2>. QED BY <1>1, LeastElement
<1>3. PICK m \in T : \A k \in T : m <= k
  BY <1>2
<1>4. m # 0 /\ m \in 1 .. n
  OBVIOUS
<1>5. m - 1 \in 0 .. n /\ ~(m <= m - 1)
  BY <1>4
<1>6. m - 1 \in S
  BY <1>3, <1>5
<1>. QED BY <1>4, <1>6

\* A function can be defined by its value at 0 and the step from one number to the next.
Steps(f, n, e, step) == f[0] = e /\ \A i \in 1 .. n : f[i] = step[i][f[i - 1]]

\* There is such a function.
LEMMA Recursion ==
  ASSUME NEW n \in Nat, NEW A, NEW e \in A, NEW step \in [1 .. n -> [A -> A]]
  PROVE  \E f \in [0 .. n -> A] : Steps(f, n, e, step)
<1>. DEFINE S == {k \in 0 .. n : \E f \in [0 .. k -> A] : Steps(f, k, e, step)}
<1>1. 0 \in S
  <2>. DEFINE f == [i \in 0 .. 0 |-> e]
  <2>1. f \in [0 .. 0 -> A] /\ Steps(f, 0, e, step)
    BY DEF Steps
  <2>. HIDE DEF f
  <2>. QED BY <2>1
<1>2. ASSUME NEW k \in 1 .. n, k - 1 \in S
      PROVE  k \in S
  <2>1. PICK f \in [0 .. k - 1 -> A] : Steps(f, k - 1, e, step)
    BY <1>2
  <2>. DEFINE g == [i \in 0 .. k |-> IF i = k THEN step[k][f[k - 1]] ELSE f[i]]
  <2>2. g \in [0 .. k -> A]
    OBVIOUS
  <2>3. g[0] = e
    BY <2>1 DEF Steps
  <2>4. ASSUME NEW i \in 1 .. k PROVE g[i] = step[i][g[i - 1]]
    <3>1. i \in 0 .. k /\ i - 1 \in 0 .. k /\ i - 1 # k
      OBVIOUS
    <3>2. g[i - 1] = f[i - 1]
      BY <3>1
    <3>3. CASE i = k
      BY <3>1, <3>2, <3>3
    <3>4. CASE i # k
      <4>1. i \in 1 .. k - 1
        BY <3>4
      <4>2. f[i] = step[i][f[i - 1]]
        BY <2>1, <4>1 DEF Steps
      <4>3. g[i] = f[i]
        BY <3>1, <3>4
      <4>. QED BY <3>2, <4>2, <4>3
    <3>. QED BY <3>3, <3>4
  <2>5. Steps(g, k, e, step)
    BY <2>3, <2>4 DEF Steps
  <2>. HIDE DEF g
  <2>. QED BY <2>2, <2>5
<1>3. 0 .. n \subseteq S
  <2>. HIDE DEF S
  <2>. QED BY <1>1, <1>2, Induction
<1>4. n \in S
  BY <1>3
<1>. QED BY <1>4

-----------------------------------------------------------------------------
(* Selected *)

\* The steps in which Selected goes through a sequence.
Sieves(f, s, S) ==
  /\ f[0] = <<>>
  /\ \A i \in 1 .. Len(s) :
       f[i] = IF s[i] \in S THEN Append(f[i - 1], s[i]) ELSE f[i - 1]

\* Selected ends with the last of these steps.
LEMMA SelectedSteps ==
  ASSUME NEW A, NEW s \in Seq(A), NEW S
  PROVE  \E f \in [0 .. Len(s) -> Seq(A)] : Sieves(f, s, S) /\ Selected(s, S) = f[Len(s)]
<1>. DEFINE Sel(f) == f = [i \in 0 .. Len(s) |->
                             IF i = 0 THEN <<>>
                             ELSE IF s[i] \in S THEN Append(f[i - 1], s[i]) ELSE f[i - 1]]
            step == [i \in 1 .. Len(s) |->
                       [t \in Seq(A) |-> IF s[i] \in S THEN Append(t, s[i]) ELSE t]]
<1>1. Len(s) \in Nat
  OBVIOUS
<1>2. step \in [1 .. Len(s) -> [Seq(A) -> Seq(A)]]
  OBVIOUS
<1>3. \E f \in [0 .. Len(s) -> Seq(A)] : Steps(f, Len(s), <<>>, step)
  <2>1. <<>> \in Seq(A)
    OBVIOUS
  <2>. HIDE DEF step
  <2>. QED BY <1>1, <1>2, <2>1, Recursion
<1>4. PICK f \in [0 .. Len(s) -> Seq(A)] : Steps(f, Len(s), <<>>, step)
  BY <1>3
<1>5. Sieves(f, s, S)
  <2>. SUFFICES ASSUME NEW i \in 1 .. Len(s)
                PROVE  f[i] = IF s[i] \in S THEN Append(f[i - 1], s[i]) ELSE f[i - 1]
    BY <1>4 DEF Sieves, Steps
  <2>1. f[i] = step[i][f[i - 1]]
    BY <1>4 DEF Steps
  <2>2. f[i - 1] \in Seq(A)
    OBVIOUS
  <2>. QED BY <2>1, <2>2
<1>6. Sel(f)
  <2>. DEFINE g == [i \in 0 .. Len(s) |->
                             IF i = 0 THEN <<>>
                             ELSE IF s[i] \in S THEN Append(f[i - 1], s[i]) ELSE f[i - 1]]
  <2>1. ASSUME NEW i \in 0 .. Len(s) PROVE f[i] = g[i]
    <3>1. CASE i = 0
      BY <1>5, <3>1 DEF Sieves
    <3>2. CASE i # 0
      <4>1. i \in 1 .. Len(s)
        BY <3>2
      <4>2. f[i] = IF s[i] \in S THEN Append(f[i - 1], s[i]) ELSE f[i - 1]
        BY <1>5, <4>1 DEF Sieves
      <4>. QED BY <3>2, <4>2
    <3>. QED BY <3>1, <3>2
  <2>2. f = g
    BY <2>1
  <2>. QED BY <2>2
<1>. DEFINE h == CHOOSE g : Sel(g)
<1>7. Sel(h)
  <2>. HIDE DEF Sel
  <2>. QED BY <1>6
<1>8. Selected(s, S) = h[Len(s)]
  BY Zenon DEF Selected
<1>. HIDE DEF h
<1>9. Sieves(h, s, S)
  <2>1. \A i \in 0 .. Len(s) :
          h[i] = IF i = 0 THEN <<>>
                 ELSE IF s[i] \in S THEN Append(h[i - 1], s[i]) ELSE h[i - 1]
    BY <1>7, Zenon
  <2>2. 0 \in 0 .. Len(s) /\ \A i \in 1 .. Len(s) : i \in 0 .. Len(s) /\ i # 0
    OBVIOUS
  <2>. HIDE DEF Sel
  <2>. QED BY <2>1, <2>2 DEF Sieves
<1>10. h \in [0 .. Len(s) -> Seq(A)]
  <2>. DEFINE T == {i \in 0 .. Len(s) : h[i] \in Seq(A)}
  <2>1. 0 \in T
    <3>1. h[0] = <<>> /\ <<>> \in Seq(A) /\ 0 \in 0 .. Len(s)
      BY <1>9 DEF Sieves
    <3>. QED BY <3>1
  <2>2. ASSUME NEW i \in 1 .. Len(s), i - 1 \in T PROVE i \in T
    <3>1. h[i] = IF s[i] \in S THEN Append(h[i - 1], s[i]) ELSE h[i - 1]
      BY <1>9 DEF Sieves
    <3>2. s[i] \in A /\ h[i - 1] \in Seq(A)
      BY <2>2
    <3>. QED BY <3>1, <3>2
  <2>3. 0 .. Len(s) \subseteq T
    <3>. HIDE DEF T
    <3>. QED BY <1>1, <2>1, <2>2, Induction
  <2>4. \A i \in 0 .. Len(s) : h[i] \in Seq(A)
    BY <2>3
  <2>5. DOMAIN h = 0 .. Len(s) /\ h = [i \in DOMAIN h |-> h[i]]
    BY <1>7
  <2>. QED BY <2>4, <2>5
<1>. QED BY <1>8, <1>9, <1>10

\* What Selected keeps, and that it keeps nothing else.
LEMMA SelectedElements ==
  ASSUME NEW A, NEW s \in Seq(A), NEW S
  PROVE  /\ Selected(s, S) \in Seq(A)
         /\ \A k \in 1 .. Len(Selected(s, S)) :
              \E i \in 1 .. Len(s) : s[i] = Selected(s, S)[k] /\ s[i] \in S
         /\ \A i \in 1 .. Len(s) : s[i] \in S =>
              \E k \in 1 .. Len(Selected(s, S)) : Selected(s, S)[k] = s[i]
<1>1. PICK f \in [0 .. Len(s) -> Seq(A)] : Sieves(f, s, S) /\ Selected(s, S) = f[Len(s)]
  BY SelectedSteps
<1>. DEFINE From(n) == \A k \in 1 .. Len(f[n]) : \E i \in 1 .. n : s[i] = f[n][k] /\ s[i] \in S
            All(n) == \A i \in 1 .. n : s[i] \in S => \E k \in 1 .. Len(f[n]) : f[n][k] = s[i]
            T == {n \in 0 .. Len(s) : From(n) /\ All(n)}
<1>2. Len(s) \in Nat
  OBVIOUS
<1>3. 0 \in T
  <2>1. f[0] = <<>> /\ 0 \in 0 .. Len(s)
    BY <1>1, <1>2 DEF Sieves
  <2>2. From(0) /\ All(0)
    BY <2>1
  <2>. QED BY <2>1, <2>2
<1>4. ASSUME NEW n \in 1 .. Len(s), n - 1 \in T PROVE n \in T
  <2>1. f[n] = IF s[n] \in S THEN Append(f[n - 1], s[n]) ELSE f[n - 1]
    BY <1>1 DEF Sieves
  <2>2. f[n - 1] \in Seq(A) /\ s[n] \in A /\ From(n - 1) /\ All(n - 1)
    BY <1>4
  <2>3. \A i \in 1 .. n : i = n \/ i \in 1 .. n - 1
    OBVIOUS
  <2>4. 1 .. n - 1 \subseteq 1 .. n /\ n \in 1 .. n
    OBVIOUS
  <2>5. CASE s[n] \notin S
    <3>1. From(n)
      BY <2>1, <2>2, <2>4, <2>5
    <3>2. All(n)
      BY <2>1, <2>2, <2>3, <2>5
    <3>. QED BY <3>1, <3>2
  <2>6. CASE s[n] \in S
    <3>. DEFINE t == f[n - 1]
    <3>1. /\ f[n] = Append(t, s[n]) /\ Len(f[n]) = Len(t) + 1 /\ Len(t) \in Nat
          /\ f[n][Len(t) + 1] = s[n]
          /\ \A k \in 1 .. Len(t) : f[n][k] = t[k]
      BY <2>1, <2>2, <2>6, AppendProperties
    <3>2. ASSUME NEW k \in 1 .. Len(f[n])
          PROVE  \E i \in 1 .. n : s[i] = f[n][k] /\ s[i] \in S
      <4>1. CASE k = Len(t) + 1
        BY <2>4, <2>6, <3>1, <4>1
      <4>2. CASE k # Len(t) + 1
        <5>1. k \in 1 .. Len(t)
          BY <3>1, <4>2
        <5>2. PICK i \in 1 .. n - 1 : s[i] = t[k] /\ s[i] \in S
          BY <2>2, <5>1
        <5>. QED BY <2>4, <3>1, <5>1, <5>2
      <4>. QED BY <4>1, <4>2
    <3>3. ASSUME NEW i \in 1 .. n, s[i] \in S
          PROVE  \E k \in 1 .. Len(f[n]) : f[n][k] = s[i]
      <4>1. CASE i = n
        <5>1. Len(t) + 1 \in 1 .. Len(f[n])
          BY <3>1
        <5>. QED BY <3>1, <4>1, <5>1
      <4>2. CASE i # n
        <5>1. PICK k \in 1 .. Len(t) : t[k] = s[i]
          BY <2>2, <2>3, <3>3, <4>2
        <5>2. k \in 1 .. Len(f[n]) /\ f[n][k] = t[k]
          BY <3>1
        <5>. QED BY <5>1, <5>2
      <4>. QED BY <4>1, <4>2
    <3>. QED BY <3>2, <3>3
  <2>. QED BY <2>5, <2>6
<1>5. 0 .. Len(s) \subseteq T
  <2>. HIDE DEF T
  <2>. QED BY <1>2, <1>3, <1>4, Induction
<1>6. Len(s) \in T
  <2>. HIDE DEF T
  <2>. QED BY <1>2, <1>5
<1>. QED BY <1>1, <1>2, <1>6

\* Of a sequence without repetitions Selected makes one without repetitions.
Distinct(s) == \A i, j \in 1 .. Len(s) : s[i] = s[j] => i = j

\* In particular it keeps whatever is in the set.
LEMMA SelectedKeeps ==
  ASSUME NEW A, NEW s \in Seq(A), NEW S, NEW i \in 1 .. Len(s), s[i] \in S
  PROVE  \E k \in 1 .. Len(Selected(s, S)) : Selected(s, S)[k] = s[i]
BY SelectedElements

\* Nothing it returns is there twice if nothing of the sequence is.
LEMMA SelectedDistinct ==
  ASSUME NEW A, NEW s \in Seq(A), NEW S, Distinct(s)
  PROVE  Distinct(Selected(s, S))
<1>1. PICK f \in [0 .. Len(s) -> Seq(A)] : Sieves(f, s, S) /\ Selected(s, S) = f[Len(s)]
  BY SelectedSteps
<1>. DEFINE From(n) == \A k \in 1 .. Len(f[n]) : \E i \in 1 .. n : s[i] = f[n][k]
            T == {n \in 0 .. Len(s) : From(n) /\ Distinct(f[n])}
<1>2. Len(s) \in Nat
  OBVIOUS
<1>3. 0 \in T
  <2>1. f[0] = <<>> /\ 0 \in 0 .. Len(s)
    BY <1>1, <1>2 DEF Sieves
  <2>2. From(0) /\ Distinct(f[0])
    BY <2>1 DEF Distinct
  <2>. QED BY <2>1, <2>2
<1>4. ASSUME NEW n \in 1 .. Len(s), n - 1 \in T PROVE n \in T
  <2>1. f[n] = IF s[n] \in S THEN Append(f[n - 1], s[n]) ELSE f[n - 1]
    BY <1>1 DEF Sieves
  <2>2. f[n - 1] \in Seq(A) /\ s[n] \in A /\ From(n - 1) /\ Distinct(f[n - 1])
    BY <1>4
  <2>3. 1 .. n - 1 \subseteq 1 .. n /\ n \in 1 .. n /\ n \notin 1 .. n - 1
    OBVIOUS
  <2>4. CASE s[n] \notin S
    <3>1. From(n)
      BY <2>1, <2>2, <2>3, <2>4
    <3>. QED BY <2>1, <2>2, <2>4, <3>1
  <2>5. CASE s[n] \in S
    <3>. DEFINE t == f[n - 1]
    <3>1. /\ f[n] = Append(t, s[n]) /\ Len(f[n]) = Len(t) + 1 /\ Len(t) \in Nat
          /\ f[n][Len(t) + 1] = s[n]
          /\ \A k \in 1 .. Len(t) : f[n][k] = t[k]
      BY <2>1, <2>2, <2>5, AppendProperties
    <3>2. \A k \in 1 .. Len(f[n]) : k \in 1 .. Len(t) \/ k = Len(t) + 1
      BY <3>1
    <3>3. From(n)
      BY <2>2, <2>3, <3>1, <3>2
    <3>4. \A k \in 1 .. Len(t) : f[n][k] # s[n]
      <4>1. \A i \in 1 .. n - 1 : i \in 1 .. Len(s) /\ i # n
        BY <1>2
      <4>2. \A i \in 1 .. n - 1 : s[i] # s[n]
        BY <4>1 DEF Distinct
      <4>. QED BY <2>2, <3>1, <4>2
    <3>5. Distinct(f[n])
      <4>1. SUFFICES ASSUME NEW i \in 1 .. Len(f[n]), NEW j \in 1 .. Len(f[n]), f[n][i] = f[n][j]
                     PROVE  i = j
        BY DEF Distinct
      <4>2. CASE i \in 1 .. Len(t) /\ j \in 1 .. Len(t)
        BY <2>2, <3>1, <4>1, <4>2 DEF Distinct
      <4>. QED BY <3>1, <3>2, <3>4, <4>1, <4>2
    <3>. QED BY <3>3, <3>5
  <2>. QED BY <2>4, <2>5
<1>5. 0 .. Len(s) \subseteq T
  <2>. HIDE DEF T
  <2>. QED BY <1>2, <1>3, <1>4, Induction
<1>6. Len(s) \in T
  <2>. HIDE DEF T
  <2>. QED BY <1>2, <1>5
<1>. QED BY <1>1, <1>6

\* One more element.
LEMMA SelectedAppend ==
  ASSUME NEW A, NEW s \in Seq(A), NEW e \in A, NEW S
  PROVE  Selected(Append(s, e), S) =
           IF e \in S THEN Append(Selected(s, S), e) ELSE Selected(s, S)
<1>. DEFINE t == Append(s, e)
<1>1. /\ t \in Seq(A) /\ Len(t) = Len(s) + 1 /\ Len(s) \in Nat
      /\ t[Len(s) + 1] = e
      /\ \A i \in 1 .. Len(s) : t[i] = s[i]
  BY AppendProperties
<1>2. PICK f \in [0 .. Len(s) -> Seq(A)] : Sieves(f, s, S) /\ Selected(s, S) = f[Len(s)]
  BY SelectedSteps
<1>3. PICK g \in [0 .. Len(t) -> Seq(A)] : Sieves(g, t, S) /\ Selected(t, S) = g[Len(t)]
  <2>. HIDE DEF t
  <2>. QED BY <1>1, SelectedSteps
<1>. DEFINE T == {i \in 0 .. Len(s) : f[i] = g[i]}
<1>4. 0 \in T
  BY <1>1, <1>2, <1>3 DEF Sieves
<1>5. ASSUME NEW i \in 1 .. Len(s), i - 1 \in T PROVE i \in T
  <2>1. i \in 1 .. Len(t) /\ t[i] = s[i] /\ f[i - 1] = g[i - 1]
    BY <1>1, <1>5
  <2>2. f[i] = IF s[i] \in S THEN Append(f[i - 1], s[i]) ELSE f[i - 1]
    BY <1>2 DEF Sieves
  <2>3. g[i] = IF t[i] \in S THEN Append(g[i - 1], t[i]) ELSE g[i - 1]
    BY <1>3, <2>1 DEF Sieves
  <2>. QED BY <2>1, <2>2, <2>3
<1>6. 0 .. Len(s) \subseteq T
  <2>. HIDE DEF T
  <2>. QED BY <1>1, <1>4, <1>5, Induction
<1>7. f[Len(s)] = g[Len(s)]
  BY <1>1, <1>6
<1>8. g[Len(t)] = IF t[Len(t)] \in S THEN Append(g[Len(t) - 1], t[Len(t)]) ELSE g[Len(t) - 1]
  <2>1. Len(t) \in 1 .. Len(t)
    BY <1>1
  <2>. HIDE DEF t
  <2>. QED BY <1>3, <2>1 DEF Sieves
<1>9. Len(t) - 1 = Len(s) /\ t[Len(t)] = e
  BY <1>1
<1>. QED BY <1>2, <1>3, <1>7, <1>8, <1>9

-----------------------------------------------------------------------------
(* The invariants *)

Command == {Key(d) : d \in Definitions}
OfKey(k) == {d \in Definitions : Key(d) = k}
Request == [key : Command, records : Seq(Definitions)]

\* A definition that has been loaded under an id.
Loads(d, id) == d.id = id /\ \E i \in 1 .. Len(channels) : channels[i] = d

\* The two indices are those of the channels loaded so far.
Indices ==
  /\ channels \in Seq(Definitions)
  /\ requests \in Seq(Request)
  /\ \A i \in 1 .. Len(requests) :
       /\ requests[i].records = Selected(channels, OfKey(requests[i].key))
       /\ requests[i].records # <<>>
  /\ \A i, j \in 1 .. Len(requests) : requests[i].key = requests[j].key => i = j
  /\ \A c \in 1 .. Len(channels) : \E i \in 1 .. Len(requests) : requests[i].key = Key(channels[c])
  /\ \A c \in 1 .. Len(channels) : channels[c].id \in DOMAIN by_id
  /\ \A id \in DOMAIN by_id : Loads(by_id[id], id)

\* What a call may have to do with the requests it reads.
Read == asked \o plan
Reading(ids, qs) ==
  /\ ids \in Seq(DOMAIN by_id)
  /\ qs \in Seq(Request)
  /\ \A i \in 1 .. Len(qs) : \E j \in 1 .. Len(requests) : qs[i] = requests[j]
  /\ Distinct(qs)
  /\ \A w \in 1 .. Len(ids) : \E i \in 1 .. Len(qs) : Carries(qs[i], ids[w])
  /\ UniqueIds => \A i \in 1 .. Len(qs) : \E w \in 1 .. Len(ids) : Carries(qs[i], ids[w])

Calls ==
  /\ pc \in {"load", "idle", "read", "answer"}
  /\ plan \in Seq(Request)
  /\ asked \in Seq(Request)
  /\ pc \in {"load", "idle"} => wanted = <<>> /\ plan = <<>> /\ asked = <<>> /\ DOMAIN data = {}
  /\ Reading(wanted, Read)
  /\ pc = "answer" => plan = <<>>
  /\ \A id \in DOMAIN data : Loads(data[id], id)
  /\ pc = "answer" =>
       answer = {[id |-> id, decoded |-> data[id], labelled |-> by_id[id]] : id \in Picked}

Inductive == Indices /\ Calls

-----------------------------------------------------------------------------
(* What the indices say of channels and requests *)

\* Two definitions have the same key just if they have the same command.
LEMMA KeyIsCommand ==
  ASSUME NEW d \in Definitions, NEW e \in Definitions
  PROVE  SameCommand(d, e) <=> Key(d) = Key(e)
<1>1. \A b \in Bytes : Upper[b] \in Bytes /\ Upper[b] # NoByte
  BY CatalogueAssumption
<1>. QED BY <1>1, CatalogueAssumption DEF SameCommand, Key

\* The records of a request are channels of its command.
LEMMA RecordsAreChannels ==
  ASSUME Indices, NEW i \in 1 .. Len(requests)
  PROVE  /\ requests[i] \in Request
         /\ requests[i].records \in Seq(Definitions)
         /\ Len(requests[i].records) \in Nat \ {0}
         /\ \A k \in 1 .. Len(requests[i].records) :
              LET d == requests[i].records[k] IN
              d \in Definitions /\ Key(d) = requests[i].key /\ Loads(d, d.id)
<1>. DEFINE r == requests[i].records
<1>1. requests[i] \in Request /\ r \in Seq(Definitions) /\ r # <<>>
      /\ r = Selected(channels, OfKey(requests[i].key)) /\ channels \in Seq(Definitions)
  <2>1. requests[i] \in Request
    BY DEF Indices
  <2>2. r \in Seq(Definitions)
    BY <2>1 DEF Request
  <2>. QED BY <2>1, <2>2 DEF Indices
<1>2. \A k \in 1 .. Len(r) :
        \E c \in 1 .. Len(channels) : channels[c] = r[k] /\ channels[c] \in OfKey(requests[i].key)
  <2>. HIDE DEF r
  <2>. QED BY <1>1, SelectedElements
<1>3. Len(r) \in Nat \ {0}
  BY <1>1, EmptySeq
<1>4. ASSUME NEW k \in 1 .. Len(r)
      PROVE  r[k] \in Definitions /\ Key(r[k]) = requests[i].key /\ Loads(r[k], r[k].id)
  BY <1>2 DEF Loads, OfKey
<1>. QED BY <1>1, <1>3, <1>4

\* Every channel is a record of a request.
LEMMA ChannelHasRequest ==
  ASSUME Indices, NEW c \in 1 .. Len(channels)
  PROVE  \E i \in 1 .. Len(requests) :
           \E k \in 1 .. Len(requests[i].records) : requests[i].records[k] = channels[c]
<1>1. PICK i \in 1 .. Len(requests) : requests[i].key = Key(channels[c])
  BY DEF Indices
<1>2. channels \in Seq(Definitions) /\ channels[c] \in OfKey(requests[i].key)
      /\ requests[i].records = Selected(channels, OfKey(requests[i].key))
  BY <1>1 DEF Indices, OfKey
<1>. DEFINE S == OfKey(requests[i].key)
            t == Selected(channels, S)
<1>3. channels \in Seq(Definitions) /\ channels[c] \in S /\ requests[i].records = t
  BY <1>2
<1>4. \E k \in 1 .. Len(t) : t[k] = channels[c]
  <2>. HIDE DEF S
  <2>. QED BY <1>3, SelectedKeeps
<1>5. PICK k \in 1 .. Len(t) : t[k] = channels[c]
  BY <1>4
<1>. HIDE DEF t
<1>6. k \in 1 .. Len(requests[i].records) /\ requests[i].records[k] = channels[c]
  BY <1>3, <1>5
<1>. QED BY <1>6

\* The request of a known id carries it.
LEMMA RequestCarries ==
  ASSUME Indices, NEW id, Known(id)
  PROVE  \E i \in 1 .. Len(requests) :
           RequestForChannel(id) = requests[i] /\ Carries(requests[i], id)
<1>. DEFINE T == {i \in 1 .. Len(requests) : Carries(requests[i], id)}
            First(i) == /\ Carries(requests[i], id)
                        /\ \A j \in 1 .. i - 1 : ~Carries(requests[j], id)
<1>1. requests \in Seq(Request) /\ DOMAIN requests = 1 .. Len(requests) /\ Len(requests) \in Nat
  BY DEF Indices
<1>2. T # {}
  <2>1. PICK c \in 1 .. Len(channels) : channels[c].id = id
    <3>1. Loads(by_id[id], id)
      BY DEF Indices, Known
    <3>. QED BY <3>1 DEF Loads
  <2>2. PICK i \in 1 .. Len(requests) :
          \E k \in 1 .. Len(requests[i].records) : requests[i].records[k] = channels[c]
    BY ChannelHasRequest
  <2>3. DOMAIN requests[i].records = 1 .. Len(requests[i].records)
    BY RecordsAreChannels
  <2>. QED BY <2>1, <2>2, <2>3 DEF Carries
<1>3. PICK m \in T : \A k \in T : m <= k
  <2>1. T \in SUBSET Nat
    BY <1>1
  <2>. HIDE DEF T
  <2>. QED BY <1>2, <2>1, LeastElement
<1>4. First(m)
  <2>. SUFFICES ASSUME NEW j \in 1 .. m - 1 PROVE ~Carries(requests[j], id)
    OBVIOUS
  <2>1. j \in 1 .. Len(requests) /\ ~(m <= j)
    BY <1>1
  <2>. QED BY <1>3, <2>1
<1>5. \E i \in DOMAIN requests : First(i)
  BY <1>1, <1>4
<1>. DEFINE f == CHOOSE i \in DOMAIN requests : First(i)
<1>6. f \in DOMAIN requests /\ First(f)
  <2>. HIDE DEF First
  <2>. QED BY <1>5
<1>7. RequestForChannel(id) = requests[f]
  BY DEF RequestForChannel
<1>. HIDE DEF f
<1>. QED BY <1>1, <1>6, <1>7

-----------------------------------------------------------------------------
(* Loading *)

\* Another definition goes to the end of the request of its command, or to a new request,
\* and to its id.
LEMMA LoadIndexes ==
  ASSUME Indices, NEW d \in Definitions, Load(d)
  PROVE  Indices'
<1>1. /\ channels' = Append(channels, d) /\ requests' = Grouped(d) /\ by_id' = Indexed(d)
      /\ channels \in Seq(Definitions) /\ requests \in Seq(Request)
      /\ Key(d) \in Command
  BY DEF Load, Indices, Command
<1>2. /\ channels' \in Seq(Definitions) /\ Len(channels') = Len(channels) + 1
      /\ channels'[Len(channels) + 1] = d /\ Len(channels) \in Nat
      /\ \A c \in 1 .. Len(channels) : channels'[c] = channels[c]
  BY <1>1, AppendProperties
<1>3. \A c \in 1 .. Len(channels') : c \in 1 .. Len(channels) \/ c = Len(channels) + 1
  BY <1>2
<1>4. 1 .. Len(channels) \subseteq 1 .. Len(channels') /\ Len(channels) + 1 \in 1 .. Len(channels')
  BY <1>2
<1>5. \A S : Selected(channels', S) =
              IF d \in S THEN Append(Selected(channels, S), d) ELSE Selected(channels, S)
  BY <1>1, SelectedAppend
<1>6. \A c \in 1 .. Len(channels') : channels'[c].id \in DOMAIN by_id'
  <2>1. DOMAIN by_id' = DOMAIN by_id \cup {d.id}
    BY <1>1 DEF Indexed
  <2>. QED BY <1>2, <1>3, <2>1 DEF Indices
<1>7. \A id \in DOMAIN by_id' : Loads(by_id[id], id)' 
  <2>. SUFFICES ASSUME NEW id \in DOMAIN by_id' PROVE Loads(by_id[id], id)'
    OBVIOUS
  <2>1. id \in DOMAIN by_id \cup {d.id} /\ by_id'[id] = IF id = d.id THEN d ELSE by_id[id]
    BY <1>1 DEF Indexed
  <2>2. CASE id = d.id
    BY <1>2, <1>4, <2>1, <2>2 DEF Loads
  <2>3. CASE id # d.id
    <3>1. Loads(by_id[id], id)
      BY <2>1, <2>3 DEF Indices
    <3>. QED BY <1>2, <1>4, <2>1, <2>3, <3>1 DEF Loads
  <2>. QED BY <2>2, <2>3
<1>8. \A k : \A e \in Definitions : e \in OfKey(k) <=> Key(e) = k
  BY DEF OfKey
<1>9. /\ DOMAIN requests = 1 .. Len(requests) /\ Len(requests) \in Nat
      /\ \A i \in 1 .. Len(requests) :
           /\ requests[i] \in Request
           /\ requests[i].records \in Seq(Definitions)
           /\ requests[i].records = Selected(channels, OfKey(requests[i].key))
           /\ requests[i].records # <<>>
  <2>1. \A i \in 1 .. Len(requests) : requests[i] \in Request /\ requests[i].records \in Seq(Definitions)
    BY RecordsAreChannels
  <2>. QED BY <1>1, <2>1 DEF Indices
<1>10. CASE \E i \in DOMAIN requests : requests[i].key = Key(d)
  <2>1. requests' = [i \in 1 .. Len(requests) |->
                       IF requests[i].key # Key(d) THEN requests[i]
                       ELSE [requests[i] EXCEPT !.records = Append(@, d)]]
    BY <1>1, <1>9, <1>10 DEF Grouped
  <2>2. ASSUME NEW i \in 1 .. Len(requests)
        PROVE  /\ requests'[i] \in Request /\ requests'[i].key = requests[i].key
               /\ requests'[i].records = Selected(channels', OfKey(requests[i].key))
               /\ requests'[i].records # <<>>
    <3>1. CASE requests[i].key # Key(d)
      BY <1>5, <1>8, <1>9, <2>1, <3>1
    <3>2. CASE requests[i].key = Key(d)
      <4>1. requests'[i] = [requests[i] EXCEPT !.records = Append(@, d)]
        BY <2>1, <3>2
      <4>2. requests[i] = [key |-> requests[i].key, records |-> requests[i].records]
            /\ requests[i].key \in Command
        BY <1>9 DEF Request
      <4>3. requests'[i].key = requests[i].key
            /\ requests'[i].records = Append(requests[i].records, d)
            /\ requests'[i] = [key |-> requests[i].key, records |-> Append(requests[i].records, d)]
        BY <4>1, <4>2
      <4>4. Append(requests[i].records, d) \in Seq(Definitions)
            /\ Append(requests[i].records, d) # <<>>
        BY <1>9, AppendProperties
      <4>5. requests'[i] \in Request
        BY <4>2, <4>3, <4>4 DEF Request
      <4>. QED BY <1>5, <1>8, <1>9, <3>2, <4>3, <4>4, <4>5
    <3>. QED BY <3>1, <3>2
  <2>3. requests' \in Seq(Request) /\ Len(requests') = Len(requests)
    BY <1>9, <2>1, <2>2
  <2>4. \A c \in 1 .. Len(channels') :
          \E i \in 1 .. Len(requests') : requests'[i].key = Key(channels'[c])
    <3>. SUFFICES ASSUME NEW c \in 1 .. Len(channels')
                  PROVE  \E i \in 1 .. Len(requests) : requests'[i].key = Key(channels'[c])
      BY <2>3
    <3>1. CASE c \in 1 .. Len(channels)
      <4>1. PICK i \in 1 .. Len(requests) : requests[i].key = Key(channels[c])
        BY <3>1 DEF Indices
      <4>. QED BY <1>2, <2>2, <3>1, <4>1
    <3>2. CASE c = Len(channels) + 1
      BY <1>2, <1>9, <1>10, <2>2, <3>2
    <3>. QED BY <1>3, <3>1, <3>2
  <2>5. \A i, j \in 1 .. Len(requests') : requests'[i].key = requests'[j].key => i = j
    BY <2>2, <2>3 DEF Indices
  <2>. QED BY <1>2, <1>6, <1>7, <2>2, <2>3, <2>4, <2>5 DEF Indices
<1>11. CASE \A i \in DOMAIN requests : requests[i].key # Key(d)
  <2>. DEFINE q == [key |-> Key(d), records |-> <<d>>]
  <2>1. requests' = Append(requests, q)
    BY <1>1, <1>11 DEF Grouped
  <2>2. q \in Request
    BY <1>1 DEF Request
  <2>3. /\ requests' \in Seq(Request) /\ Len(requests') = Len(requests) + 1
        /\ requests'[Len(requests) + 1] = q
        /\ \A i \in 1 .. Len(requests) : requests'[i] = requests[i]
    <3>. HIDE DEF q
    <3>. QED BY <1>1, <2>1, <2>2, AppendProperties
  <2>4. \A i \in 1 .. Len(requests') : i \in 1 .. Len(requests) \/ i = Len(requests) + 1
    BY <1>9, <2>3
  <2>5. Selected(channels, OfKey(Key(d))) = <<>>
    <3>. DEFINE t == Selected(channels, OfKey(Key(d)))
    <3>1. t \in Seq(Definitions) /\ \A k \in 1 .. Len(t) : \E c \in 1 .. Len(channels) :
            channels[c] = t[k] /\ channels[c] \in OfKey(Key(d))
      BY <1>1, SelectedElements
    <3>2. \A c \in 1 .. Len(channels) : channels[c] \notin OfKey(Key(d))
      BY <1>9, <1>11 DEF Indices, OfKey
    <3>3. ~(1 \in 1 .. Len(t))
      BY <3>1, <3>2
    <3>. HIDE DEF t
    <3>4. t = <<>>
      BY <3>1, <3>3, EmptySeq
    <3>. QED BY <3>4 DEF t
  <2>6. ASSUME NEW i \in 1 .. Len(requests')
        PROVE  /\ requests'[i].records = Selected(channels', OfKey(requests'[i].key))
               /\ requests'[i].records # <<>>
    <3>1. CASE i \in 1 .. Len(requests)
      BY <1>5, <1>8, <1>9, <1>11, <2>3, <3>1
    <3>2. CASE i = Len(requests) + 1
      <4>1. requests'[i].key = Key(d) /\ requests'[i].records = <<d>>
        BY <2>3, <3>2
      <4>2. Append(<<>>, d) = <<d>> /\ <<d>> # <<>>
        OBVIOUS
      <4>. QED BY <1>5, <1>8, <2>5, <4>1, <4>2
    <3>. QED BY <2>4, <3>1, <3>2
  <2>7. \A i, j \in 1 .. Len(requests') : requests'[i].key = requests'[j].key => i = j
    <3>. SUFFICES ASSUME NEW i \in 1 .. Len(requests'), NEW j \in 1 .. Len(requests'),
                         requests'[i].key = requests'[j].key
                  PROVE  i = j
      OBVIOUS
    <3>1. \A k \in 1 .. Len(requests) :
            requests'[k].key = requests[k].key /\ requests'[k].key # Key(d)
      BY <1>9, <1>11, <2>3
    <3>2. requests'[Len(requests) + 1].key = Key(d)
      BY <2>3
    <3>3. CASE i \in 1 .. Len(requests) /\ j \in 1 .. Len(requests)
      BY <3>1, <3>3 DEF Indices
    <3>. QED BY <2>4, <3>1, <3>2, <3>3
  <2>8. \A c \in 1 .. Len(channels') :
          \E i \in 1 .. Len(requests') : requests'[i].key = Key(channels'[c])
    <3>. SUFFICES ASSUME NEW c \in 1 .. Len(channels')
                  PROVE  \E i \in 1 .. Len(requests') : requests'[i].key = Key(channels'[c])
      OBVIOUS
    <3>1. CASE c \in 1 .. Len(channels)
      <4>1. PICK i \in 1 .. Len(requests) : requests[i].key = Key(channels[c])
        BY <3>1 DEF Indices
      <4>2. i \in 1 .. Len(requests')
        BY <1>9, <2>3
      <4>. QED BY <1>2, <2>3, <3>1, <4>1, <4>2
    <3>2. CASE c = Len(channels) + 1
      <4>1. Len(requests) + 1 \in 1 .. Len(requests')
        BY <1>9, <2>3
      <4>. QED BY <1>2, <2>3, <3>2, <4>1
    <3>. QED BY <1>3, <3>1, <3>2
  <2>. QED BY <1>2, <1>6, <1>7, <2>3, <2>6, <2>7, <2>8 DEF Indices
<1>. QED BY <1>10, <1>11

-----------------------------------------------------------------------------
(* Calls *)

\* A finite set as a sequence has each of its elements.
LEMMA SetToSeqElements ==
  ASSUME NEW S, IsFiniteSet(S)
  PROVE  SetToSeq(S) \in Seq(S) /\ \A x \in S : \E i \in 1 .. Len(SetToSeq(S)) : SetToSeq(S)[i] = x
<1>. DEFINE n == Cardinality(S)
            f == CHOOSE f \in [1 .. n -> S] : IsInjective(f)
<1>1. n \in Nat /\ ExistsBijection(1 .. n, S)
  BY FS_CardinalityType
<1>2. \E g \in [1 .. n -> S] : IsInjective(g)
  BY <1>1 DEF ExistsBijection, Bijection, Injection
<1>3. f \in [1 .. n -> S] /\ IsInjective(f)
  BY <1>2
<1>4. SetToSeq(S) = f
  BY DEF SetToSeq
<1>5. IsFiniteSet(1 .. n) /\ Cardinality(1 .. n) = n
  BY <1>1, FS_Interval
<1>. HIDE DEF f
<1>6. f \in Injection(1 .. n, S)
  BY <1>3 DEF Injection
<1>7. f \in Surjection(1 .. n, S)
  BY <1>5, <1>6, FS_Injection
<1>8. \A x \in S : \E i \in 1 .. n : f[i] = x
  BY <1>7 DEF Surjection
<1>9. f \in Seq(S) /\ Len(f) = n
  BY <1>1, <1>3
<1>. QED BY <1>4, <1>8, <1>9

\* Finitely many definitions have been loaded, so read_all can enumerate their ids.
LEMMA IdsAreFinite ==
  ASSUME Indices
  PROVE  IsFiniteSet(DOMAIN by_id)
<1>. DEFINE n == Len(channels)
            f == [c \in 1 .. n |-> channels[c].id]
<1>1. n \in Nat
  BY DEF Indices
<1>2. f \in [1 .. n -> DOMAIN by_id]
  BY DEF Indices
<1>3. \A id \in DOMAIN by_id : \E c \in 1 .. n : f[c] = id
  <2>. SUFFICES ASSUME NEW id \in DOMAIN by_id PROVE \E c \in 1 .. n : f[c] = id
    OBVIOUS
  <2>1. Loads(by_id[id], id)
    BY DEF Indices
  <2>2. PICK c \in 1 .. n : channels[c] = by_id[id]
    BY <2>1 DEF Loads
  <2>3. f[c] = id
    BY <2>1, <2>2 DEF Loads
  <2>. QED BY <2>3
<1>4. f \in Surjection(1 .. n, DOMAIN by_id)
  BY <1>2, <1>3 DEF Surjection
<1>5. IsFiniteSet(1 .. n)
  BY <1>1, FS_Interval
<1>. HIDE DEF f, n
<1>. QED BY <1>4, <1>5, FS_Surjection

\* No two requests are the same.
LEMMA RequestsDistinct ==
  ASSUME Indices
  PROVE  Distinct(requests)
BY DEF Indices, Distinct

\* Ids that are known are in the request found for them, and each request is planned once.
LEMMA PlannedReading ==
  ASSUME Indices, NEW ids \in Seq(Ids), \A i \in DOMAIN ids : Known(ids[i])
  PROVE  Reading(ids, Planned(ids))
<1>. DEFINE n == Len(ids)
            all == [i \in DOMAIN ids |-> RequestForChannel(ids[i])]
            places == [i \in DOMAIN ids |-> i]
            F == {i \in DOMAIN ids : \A j \in 1 .. i - 1 : all[j] # all[i]}
            firsts == Selected(places, F)
            qs == [k \in DOMAIN firsts |-> all[firsts[k]]]
<1>1. n \in Nat /\ DOMAIN ids = 1 .. n /\ ids \in Seq(DOMAIN by_id)
  BY DEF Known
<1>2. Planned(ids) = qs
  BY DEF Planned
<1>3. ASSUME NEW i \in 1 .. n
      PROVE  \E j \in 1 .. Len(requests) : all[i] = requests[j] /\ Carries(requests[j], ids[i])
  BY <1>1, RequestCarries
<1>4. /\ places \in Seq(1 .. n) /\ Len(places) = n /\ \A i \in 1 .. n : places[i] = i
      /\ Distinct(places)
  BY <1>1 DEF Distinct
<1>5. F \subseteq 1 .. n /\ \A i, j \in F : j < i => all[j] # all[i]
  <2>1. F \subseteq 1 .. n
    BY <1>1
  <2>. SUFFICES ASSUME NEW i \in F, NEW j \in F, j < i PROVE all[j] # all[i]
    BY <2>1
  <2>2. j \in 1 .. i - 1
    BY <1>1
  <2>3. \A l \in 1 .. i - 1 : all[l] # all[i]
    OBVIOUS
  <2>. HIDE DEF all
  <2>. QED BY <2>2, <2>3
<1>. HIDE DEF places, F, all
<1>6. /\ firsts \in Seq(1 .. n)
      /\ \A k \in 1 .. Len(firsts) : firsts[k] \in F
      /\ \A i \in F : \E k \in 1 .. Len(firsts) : firsts[k] = i
      /\ Distinct(firsts)
  <2>1. firsts \in Seq(1 .. n)
    BY <1>4, SelectedElements
  <2>2. \A k \in 1 .. Len(firsts) : \E i \in 1 .. Len(places) : places[i] = firsts[k] /\ places[i] \in F
    BY <1>4, SelectedElements
  <2>3. \A i \in 1 .. Len(places) : places[i] \in F =>
          \E k \in 1 .. Len(firsts) : firsts[k] = places[i]
    BY <1>4, SelectedElements
  <2>4. Distinct(firsts)
    BY <1>4, SelectedDistinct
  <2>. HIDE DEF firsts
  <2>5. \A k \in 1 .. Len(firsts) : firsts[k] \in F
    BY <1>4, <2>2
  <2>6. \A i \in F : \E k \in 1 .. Len(firsts) : firsts[k] = i
    BY <1>4, <1>5, <2>3
  <2>. QED BY <2>1, <2>4, <2>5, <2>6
<1>. HIDE DEF firsts
<1>7. Len(firsts) \in Nat /\ DOMAIN firsts = 1 .. Len(firsts)
  BY <1>6
<1>8. /\ \A k \in 1 .. Len(firsts) : qs[k] = all[firsts[k]] /\ firsts[k] \in 1 .. n
      /\ Len(qs) = Len(firsts)
  BY <1>5, <1>6, <1>7
<1>9. qs \in Seq(Request)
  <2>1. \A k \in 1 .. Len(firsts) : qs[k] \in Request
    <3>. SUFFICES ASSUME NEW k \in 1 .. Len(firsts) PROVE qs[k] \in Request
      OBVIOUS
    <3>1. PICK j \in 1 .. Len(requests) : all[firsts[k]] = requests[j]
      BY <1>3, <1>8
    <3>. QED BY <1>8, <3>1 DEF Indices
  <2>. QED BY <1>7, <2>1
<1>. HIDE DEF qs
<1>10. \A k \in 1 .. Len(qs) : \E j \in 1 .. Len(requests) : qs[k] = requests[j]
  BY <1>3, <1>8
<1>11. Distinct(qs)
  <2>. SUFFICES ASSUME NEW k \in 1 .. Len(qs), NEW l \in 1 .. Len(qs), qs[k] = qs[l]
                PROVE  k = l
    BY DEF Distinct
  <2>1. all[firsts[k]] = all[firsts[l]] /\ firsts[k] \in F /\ firsts[l] \in F
    BY <1>6, <1>8
  <2>2. ~(firsts[k] < firsts[l]) /\ ~(firsts[l] < firsts[k])
    BY <1>5, <2>1
  <2>3. firsts[k] = firsts[l]
    BY <1>8, <2>2
  <2>. QED BY <1>6, <1>8, <2>3 DEF Distinct
<1>12. ASSUME NEW w \in 1 .. n
       PROVE  \E k \in 1 .. Len(qs) : Carries(qs[k], ids[w])
  <2>. DEFINE T == {i \in 1 .. n : all[i] = all[w]}
  <2>1. T \in SUBSET Nat /\ T # {}
    OBVIOUS
  <2>2. \E m \in T : \A i \in T : m <= i
    <3>. HIDE DEF T
    <3>. QED BY <2>1, LeastElement
  <2>3. PICK m \in T : \A i \in T : m <= i
    BY <2>2
  <2>4. m \in F
    <3>1. ASSUME NEW j \in 1 .. m - 1 PROVE all[j] # all[m]
      <4>1. j \in 1 .. n /\ ~(m <= j)
        BY <1>1
      <4>. QED BY <2>3, <4>1
    <3>. QED BY <1>1, <3>1 DEF F
  <2>5. PICK k \in 1 .. Len(firsts) : firsts[k] = m
    BY <1>6, <2>4
  <2>6. qs[k] = all[w] /\ k \in 1 .. Len(qs)
    BY <1>8, <2>5
  <2>. QED BY <1>3, <2>6
<1>13. ASSUME NEW k \in 1 .. Len(qs)
       PROVE  \E w \in 1 .. n : Carries(qs[k], ids[w])
  <2>1. firsts[k] \in 1 .. n /\ qs[k] = all[firsts[k]]
    BY <1>8
  <2>2. PICK j \in 1 .. Len(requests) :
          all[firsts[k]] = requests[j] /\ Carries(requests[j], ids[firsts[k]])
    BY <1>3, <2>1
  <2>. QED BY <2>1, <2>2
<1>. QED BY <1>1, <1>2, <1>9, <1>10, <1>11, <1>12, <1>13 DEF Reading

\* A request is swept if it has a channel of the types, and every id of the types is in
\* such a request.
LEMMA SweptReading ==
  ASSUME Indices, NEW types
  PROVE  Reading(SetToSeq({id \in DOMAIN by_id : OfType(types, by_id[id])}), Swept(types))
<1>. DEFINE S == {id \in DOMAIN by_id : OfType(types, by_id[id])}
            ids == SetToSeq(S)
            Q == {q \in ToSet(requests) : \E i \in DOMAIN q.records : OfType(types, q.records[i])}
            qs == Selected(requests, Q)
<1>1. ids \in Seq(S) /\ \A x \in S : \E w \in 1 .. Len(ids) : ids[w] = x
  <2>1. IsFiniteSet(S)
    BY IdsAreFinite, FS_Subset
  <2>. HIDE DEF S
  <2>. QED BY <2>1, SetToSeqElements
<1>2. Swept(types) = qs
  BY DEF Swept
<1>3. requests \in Seq(Request) /\ DOMAIN requests = 1 .. Len(requests)
  BY DEF Indices
<1>4. /\ qs \in Seq(Request)
      /\ \A k \in 1 .. Len(qs) : \E i \in 1 .. Len(requests) : requests[i] = qs[k] /\ requests[i] \in Q
      /\ \A i \in 1 .. Len(requests) : requests[i] \in Q => \E k \in 1 .. Len(qs) : qs[k] = requests[i]
      /\ Distinct(qs)
  <2>. HIDE DEF Q
  <2>1. Distinct(qs)
    BY <1>3, SelectedDistinct, RequestsDistinct
  <2>2. qs \in Seq(Request)
    BY <1>3, SelectedElements
  <2>3. \A k \in 1 .. Len(qs) : \E i \in 1 .. Len(requests) : requests[i] = qs[k] /\ requests[i] \in Q
    BY <1>3, SelectedElements
  <2>4. \A i \in 1 .. Len(requests) : requests[i] \in Q => \E k \in 1 .. Len(qs) : qs[k] = requests[i]
    BY <1>3, SelectedElements
  <2>. QED BY <2>1, <2>2, <2>3, <2>4
<1>5. \A i \in 1 .. Len(requests) :
        requests[i] \in Q <=> \E k \in 1 .. Len(requests[i].records) : OfType(types, requests[i].records[k])
  <2>. SUFFICES ASSUME NEW i \in 1 .. Len(requests)
                PROVE  requests[i] \in Q <=>
                         \E k \in 1 .. Len(requests[i].records) : OfType(types, requests[i].records[k])
    OBVIOUS
  <2>1. requests[i] \in ToSet(requests)
    BY <1>3 DEF ToSet
  <2>2. DOMAIN requests[i].records = 1 .. Len(requests[i].records)
    BY RecordsAreChannels
  <2>. QED BY <2>1, <2>2
<1>. HIDE DEF Q, qs, ids
<1>6. ids \in Seq(DOMAIN by_id)
  BY <1>1
<1>7. ASSUME NEW w \in 1 .. Len(ids)
      PROVE  \E k \in 1 .. Len(qs) : Carries(qs[k], ids[w])
  <2>. DEFINE d == by_id[ids[w]]
  <2>1. Loads(d, ids[w]) /\ OfType(types, d)
    <3>1. ids[w] \in S
      BY <1>1
    <3>. QED BY <3>1 DEF Indices
  <2>2. PICK c \in 1 .. Len(channels) : channels[c] = d
    BY <2>1 DEF Loads
  <2>3. PICK i \in 1 .. Len(requests) :
          \E k \in 1 .. Len(requests[i].records) : requests[i].records[k] = channels[c]
    BY ChannelHasRequest
  <2>4. PICK k \in 1 .. Len(requests[i].records) : requests[i].records[k] = d
    BY <2>2, <2>3
  <2>5. requests[i] \in Q
    BY <1>5, <2>1, <2>4
  <2>6. Carries(requests[i], ids[w])
    <3>1. DOMAIN requests[i].records = 1 .. Len(requests[i].records)
      BY RecordsAreChannels
    <3>. QED BY <2>1, <2>4, <3>1 DEF Carries, Loads
  <2>. QED BY <1>4, <2>5, <2>6
<1>8. ASSUME UniqueIds, NEW k \in 1 .. Len(qs)
      PROVE  \E w \in 1 .. Len(ids) : Carries(qs[k], ids[w])
  <2>1. PICK i \in 1 .. Len(requests) : requests[i] = qs[k] /\ requests[i] \in Q
    BY <1>4
  <2>2. PICK l \in 1 .. Len(requests[i].records) : OfType(types, requests[i].records[l])
    BY <1>5, <2>1
  <2>. DEFINE d == requests[i].records[l]
  <2>3. Loads(d, d.id) /\ DOMAIN requests[i].records = 1 .. Len(requests[i].records)
    BY RecordsAreChannels
  <2>4. PICK c \in 1 .. Len(channels) : channels[c] = d
    BY <2>3 DEF Loads
  <2>5. d.id \in DOMAIN by_id
    BY <2>4 DEF Indices
  <2>6. Loads(by_id[d.id], d.id)
    BY <2>5 DEF Indices
  <2>7. PICK e \in 1 .. Len(channels) : channels[e] = by_id[d.id]
    BY <2>6 DEF Loads
  <2>8. channels[e].id = channels[c].id /\ DOMAIN channels = 1 .. Len(channels)
    BY <2>4, <2>6, <2>7 DEF Loads, Indices
  <2>9. by_id[d.id] = d
    BY <1>8, <2>4, <2>7, <2>8 DEF UniqueIds
  <2>10. d.id \in S
    BY <2>2, <2>5, <2>9
  <2>11. PICK w \in 1 .. Len(ids) : ids[w] = d.id
    BY <1>1, <2>10
  <2>. QED BY <2>1, <2>3, <2>11 DEF Carries
<1>9. \A k \in 1 .. Len(qs) : \E j \in 1 .. Len(requests) : qs[k] = requests[j]
  BY <1>4
<1>10. Reading(ids, qs)
  BY <1>4, <1>6, <1>7, <1>8, <1>9 DEF Reading
<1>. QED BY <1>2, <1>10 DEF ids, qs

-----------------------------------------------------------------------------
(* The steps *)

\* Before a file is loaded.
LEMMA InitInductive == Init => Inductive
<1>. SUFFICES ASSUME Init PROVE Inductive
  OBVIOUS
<1>1. Indices
  BY DEF Init, Indices, Empty
<1>2. Read = <<>>
  BY DEF Init, Read
<1>3. Reading(<<>>, <<>>)
  BY DEF Reading, Distinct
<1>4. Calls
  BY <1>2, <1>3 DEF Init, Calls, Empty
<1>. QED BY <1>1, <1>4 DEF Inductive

\* While nothing is read.
LEMMA QuietCalls ==
  ASSUME pc' \in {"load", "idle"}, wanted' = <<>>, plan' = <<>>, asked' = <<>>, DOMAIN data' = {}
  PROVE  Calls'
<1>1. Read' = <<>>
  BY DEF Read
<1>2. Reading(<<>>, <<>>)'
  BY DEF Reading, Distinct
<1>. QED BY <1>1, <1>2 DEF Calls

\* What may be read depends on the indices alone.
LEMMA ReadingStays ==
  ASSUME NEW ids, NEW qs, Reading(ids, qs), UNCHANGED catalogue, wanted' = ids, Read' = qs
  PROVE  Reading(wanted, Read)'
BY DEF Reading, UniqueIds, catalogue, Carries

\* A call starts with everything it may read in its plan.
LEMMA StartCalls ==
  ASSUME NEW ids, NEW qs, Reading(ids, qs), Start(ids, qs)
  PROVE  Calls'
<1>1. /\ pc' = "read" /\ wanted' = ids /\ plan' = qs /\ asked' = <<>> /\ DOMAIN data' = {}
      /\ UNCHANGED catalogue
  BY DEF Start, Empty
<1>2. qs \in Seq(Request)
  BY DEF Reading
<1>3. Read' = qs
  BY <1>1, <1>2, ConcatEmptySeq DEF Read
<1>4. Reading(wanted, Read)'
  BY <1>1, <1>3, ReadingStays
<1>. QED BY <1>1, <1>2, <1>4 DEF Calls

\* A request that has been read goes from the plan to those asked.
LEMMA NextRequest ==
  ASSUME NEW A, NEW s \in Seq(A), NEW t \in Seq(A), t # <<>>
  PROVE  Append(s, Head(t)) \o Tail(t) = s \o t
<1>. DEFINE u == Append(s, Head(t)) \o Tail(t)
            v == s \o t
<1>1. /\ Head(t) \in A /\ Tail(t) \in Seq(A) /\ Len(Tail(t)) = Len(t) - 1
      /\ Head(t) = t[1] /\ \A i \in 1 .. Len(t) - 1 : Tail(t)[i] = t[i + 1]
      /\ Len(t) \in Nat \ {0} /\ Len(s) \in Nat
  BY HeadTailProperties, EmptySeq
<1>2. /\ Append(s, Head(t)) \in Seq(A) /\ Len(Append(s, Head(t))) = Len(s) + 1
      /\ \A i \in 1 .. Len(s) : Append(s, Head(t))[i] = s[i]
      /\ Append(s, Head(t))[Len(s) + 1] = t[1]
  BY <1>1, AppendProperties
<1>3. /\ v \in Seq(A) /\ Len(v) = Len(s) + Len(t)
      /\ \A i \in 1 .. Len(s) + Len(t) : v[i] = IF i <= Len(s) THEN s[i] ELSE t[i - Len(s)]
  BY ConcatProperties
<1>4. /\ u \in Seq(A) /\ Len(u) = Len(s) + 1 + (Len(t) - 1)
      /\ \A i \in 1 .. Len(s) + 1 + (Len(t) - 1) :
           u[i] = IF i <= Len(s) + 1 THEN Append(s, Head(t))[i] ELSE Tail(t)[i - (Len(s) + 1)]
  BY <1>1, <1>2, ConcatProperties
<1>. HIDE DEF u, v
<1>5. ASSUME NEW i \in 1 .. Len(u) PROVE u[i] = v[i]
  <2>1. i \in 1 .. Len(s) + Len(t)
    BY <1>1, <1>4
  <2>2. CASE i <= Len(s)
    BY <1>1, <1>2, <1>3, <1>4, <2>1, <2>2
  <2>3. CASE i = Len(s) + 1
    BY <1>1, <1>2, <1>3, <1>4, <2>1, <2>3
  <2>4. CASE i > Len(s) + 1
    <3>1. i - (Len(s) + 1) \in 1 .. Len(t) - 1
      BY <1>1, <2>1, <2>4
    <3>2. u[i] = Tail(t)[i - (Len(s) + 1)]
      BY <1>1, <1>4, <2>4
    <3>3. (i - (Len(s) + 1)) + 1 = i - Len(s)
      BY <1>1
    <3>4. v[i] = t[i - Len(s)]
      BY <1>1, <1>3, <2>1, <2>4
    <3>. QED BY <1>1, <3>1, <3>2, <3>3, <3>4
  <2>. QED BY <1>1, <2>1, <2>2, <2>3, <2>4
<1>6. Len(u) = Len(v)
  BY <1>1, <1>3, <1>4
<1>7. u = v
  BY <1>3, <1>4, <1>5, <1>6, SeqEqual
<1>. QED BY <1>7 DEF u, v

\* The last of some places of a sequence.
LEMMA LastPlace ==
  ASSUME NEW n \in Nat, NEW T \in SUBSET (1 .. n), T # {}
  PROVE  \E m \in T : \A k \in T : k <= m
<1>. DEFINE U == {n - k : k \in T}
<1>1. U \in SUBSET Nat /\ U # {}
  <2>1. \A k \in T : n - k \in Nat
    OBVIOUS
  <2>2. PICK k \in T : TRUE
    OBVIOUS
  <2>3. n - k \in U
    OBVIOUS
  <2>. QED BY <2>1, <2>3
<1>2. \E m \in U : \A k \in U : m <= k
  <2>. HIDE DEF U
  <2>. QED BY <1>1, LeastElement
<1>3. PICK m \in T : \A k \in U : n - m <= k
  BY <1>2
<1>4. \A k \in T : n - m <= n - k
  BY <1>3
<1>. QED BY <1>4

\* A frame is decoded with the definitions of the request it was read for.
LEMMA ReadRequestCalls ==
  ASSUME Indices, Calls, ReadRequest
  PROVE  Calls'
<1>. DEFINE q == Head(plan)
<1>1. /\ pc = "read" /\ plan # <<>> /\ plan' = Tail(plan) /\ asked' = Append(asked, q)
      /\ UNCHANGED catalogue /\ pc' = pc /\ wanted' = wanted /\ answer' = answer
      /\ plan \in Seq(Request) /\ asked \in Seq(Request)
  BY DEF ReadRequest, Calls
<1>2. Read' = Read
  BY <1>1, NextRequest DEF Read
<1>3. Reading(wanted, Read)'
  BY <1>1, <1>2, ReadingStays DEF Calls
<1>4. plan' \in Seq(Request) /\ asked' \in Seq(Request)
  BY <1>1, HeadTailProperties, AppendProperties
<1>5. PICK j \in 1 .. Len(requests) : q = requests[j]
  <2>1. Len(plan) \in Nat \ {0} /\ Len(asked) \in Nat /\ q = plan[1]
    BY <1>1, EmptySeq
  <2>2. Len(Read) = Len(asked) + Len(plan) /\ Read[Len(asked) + 1] = plan[1]
    BY <1>1, <2>1, ConcatProperties DEF Read
  <2>3. Len(asked) + 1 \in 1 .. Len(Read)
    BY <2>1, <2>2
  <2>. QED BY <2>1, <2>2, <2>3 DEF Calls, Reading
<1>6. /\ DOMAIN q.records = 1 .. Len(q.records) /\ Len(q.records) \in Nat
      /\ \A k \in 1 .. Len(q.records) : Loads(q.records[k], q.records[k].id)
  BY <1>5, RecordsAreChannels
<1>7. ASSUME NEW id \in DOMAIN data' PROVE Loads(data[id], id)'
  <2>1. PICK got \in SUBSET DOMAIN q.records :
          data' = [i \in DOMAIN data \cup {q.records[k].id : k \in got} |->
                     IF \E k \in got : q.records[k].id = i
                     THEN q.records[CHOOSE k \in got : q.records[k].id = i
                                      /\ \A l \in got : q.records[l].id = i => l <= k]
                     ELSE data[i]]
    BY DEF ReadRequest
  <2>. DEFINE Latest(k) == q.records[k].id = id /\ \A l \in got : q.records[l].id = id => l <= k
  <2>2. channels' = channels
    BY <1>1 DEF catalogue
  <2>3. CASE \E k \in got : q.records[k].id = id
    <3>. DEFINE T == {k \in got : q.records[k].id = id}
    <3>1. T \in SUBSET (1 .. Len(q.records)) /\ T # {}
      BY <1>6, <2>3
    <3>2. PICK m \in T : \A k \in T : k <= m
      <4>. HIDE DEF T
      <4>. QED BY <1>6, <3>1, LastPlace
    <3>3. \E k \in got : Latest(k)
      BY <3>2
    <3>. DEFINE c == CHOOSE k \in got : Latest(k)
    <3>4. c \in got /\ Latest(c)
      <4>. HIDE DEF Latest
      <4>. QED BY <3>3
    <3>5. data'[id] = q.records[c]
      BY <2>1, <2>3
    <3>. HIDE DEF c
    <3>6. Loads(q.records[c], id)
      BY <1>6, <3>4
    <3>. QED BY <2>2, <3>5, <3>6 DEF Loads
  <2>4. CASE ~\E k \in got : q.records[k].id = id
    <3>1. id \in DOMAIN data /\ data'[id] = data[id]
      BY <2>1, <2>4
    <3>. QED BY <2>2, <3>1 DEF Calls, Loads
  <2>. QED BY <2>3, <2>4
<1>. QED BY <1>1, <1>3, <1>4, <1>7 DEF Calls

\* The answer is made of the values that the plan, now empty, has left.
LEMMA AnswerCalls ==
  ASSUME Indices, Calls, Answer
  PROVE  Calls'
<1>1. /\ pc = "read" /\ plan = <<>> /\ pc' = "answer"
      /\ answer' = {[id |-> id, decoded |-> data[id], labelled |-> by_id[id]] : id \in Picked}
      /\ UNCHANGED catalogue /\ UNCHANGED <<wanted, plan, asked, data>>
  BY DEF Answer
<1>2. Picked' = Picked /\ by_id' = by_id /\ channels' = channels /\ Read' = Read
  BY <1>1 DEF Picked, ToSet, catalogue, Read
<1>3. Reading(wanted, Read)'
  BY <1>1, <1>2, ReadingStays DEF Calls
<1>4. \A id \in DOMAIN data' : Loads(data[id], id)'
  BY <1>1, <1>2 DEF Calls, Loads
<1>. QED BY <1>1, <1>2, <1>3, <1>4 DEF Calls

\* No step breaks the invariant.
LEMMA StepInductive == Inductive /\ [Next]_vars => Inductive'
<1>. SUFFICES ASSUME Indices, Calls, [Next]_vars PROVE Indices' /\ Calls'
  BY DEF Inductive
<1>. USE DEF catalogue
<1>0. UNCHANGED catalogue => Indices'
  BY DEF Indices, Loads
<1>1. ASSUME NEW d \in Definitions, Load(d) PROVE Indices' /\ Calls'
  BY <1>1, LoadIndexes, QuietCalls DEF Load, Calls
<1>2. CASE Loaded
  BY <1>0, <1>2, QuietCalls DEF Loaded, Calls
<1>3. ASSUME NEW ids \in SeqOf(Ids, MaxWanted), ReadChannels(ids) PROVE Indices' /\ Calls'
  <2>1. ids \in Seq(Ids)
    BY CatalogueAssumption DEF SeqOf
  <2>2. Reading(ids, Planned(ids)) /\ Start(ids, Planned(ids))
    BY <1>3, <2>1, PlannedReading DEF ReadChannels
  <2>. QED BY <1>0, <2>2, StartCalls DEF Start
<1>4. ASSUME NEW types, ReadAll(types) PROVE Indices' /\ Calls'
  <2>. DEFINE ids == SetToSeq({id \in DOMAIN by_id : OfType(types, by_id[id])})
  <2>1. Start(ids, Swept(types))
    BY <1>4 DEF ReadAll
  <2>2. Reading(ids, Swept(types))
    BY SweptReading
  <2>. HIDE DEF ids
  <2>. QED BY <1>0, <2>1, <2>2, StartCalls DEF Start
<1>5. CASE ReadRequest
  BY <1>0, <1>5, ReadRequestCalls DEF ReadRequest
<1>6. CASE ReadFails \/ Done
  BY <1>0, <1>6, QuietCalls DEF ReadFails, Done, Forget, Empty
<1>7. CASE Answer
  BY <1>0, <1>7, AnswerCalls DEF Answer
<1>8. CASE UNCHANGED vars
  <2>1. Read' = Read /\ Picked' = Picked
    BY <1>8 DEF vars, Read, Picked, ToSet
  <2>2. Reading(wanted, Read)'
    BY <1>8, <2>1, ReadingStays DEF vars, Calls
  <2>3. \A id \in DOMAIN data' : Loads(data[id], id)'
    BY <1>8 DEF vars, Calls, Loads
  <2>. QED BY <1>0, <1>8, <2>1, <2>2, <2>3 DEF vars, Calls
<1>. QED BY <1>1, <1>2, <1>3, <1>4, <1>5, <1>6, <1>7, <1>8 DEF Next

\* So it holds throughout.
LEMMA AlwaysInductive == Spec => []Inductive
BY InitInductive, StepInductive, PTL DEF Spec

-----------------------------------------------------------------------------
(* The properties *)

\* Types: an id is known once a channel has it, a call asks for known ids and reads
\* requests of the configuration, and decodes ids of definitions (config_loader.py,
\* service.py).
THEOREM TypeCorrect == Spec => []TypeOK
<1>1. Inductive => TypeOK
  <2>. SUFFICES ASSUME Indices, Calls PROVE TypeOK
    BY DEF Inductive
  <2>1. \A i \in DOMAIN requests : requests[i].records \in Seq(Definitions) \ {<<>>}
    <3>1. DOMAIN requests = 1 .. Len(requests)
      BY DEF Indices
    <3>. QED BY <3>1, RecordsAreChannels DEF Indices
  <2>2. DOMAIN by_id = {channels[i].id : i \in DOMAIN channels}
    <3>1. DOMAIN channels = 1 .. Len(channels)
      BY DEF Indices
    <3>2. ASSUME NEW id \in DOMAIN by_id PROVE id \in {channels[i].id : i \in DOMAIN channels}
      <4>1. Loads(by_id[id], id)
        BY DEF Indices
      <4>. QED BY <3>1, <4>1 DEF Loads
    <3>. QED BY <3>1, <3>2 DEF Indices
  <2>3. wanted \in Seq(DOMAIN by_id) /\ ToSet(wanted) \subseteq DOMAIN by_id
    BY DEF Calls, Reading, ToSet
  <2>4. ToSet(plan) \cup ToSet(asked) \subseteq ToSet(requests)
    <3>1. /\ plan \in Seq(Request) /\ asked \in Seq(Request) /\ requests \in Seq(Request)
          /\ \A i \in 1 .. Len(Read) : \E j \in 1 .. Len(requests) : Read[i] = requests[j]
      BY DEF Calls, Reading, Indices
    <3>2. /\ Len(Read) = Len(asked) + Len(plan) /\ Len(asked) \in Nat /\ Len(plan) \in Nat
          /\ \A i \in 1 .. Len(asked) + Len(plan) :
               Read[i] = IF i <= Len(asked) THEN asked[i] ELSE plan[i - Len(asked)]
      BY <3>1, ConcatProperties DEF Read
    <3>3. ASSUME NEW i \in 1 .. Len(asked) PROVE asked[i] \in ToSet(requests)
      <4>1. i \in 1 .. Len(Read) /\ Read[i] = asked[i]
        BY <3>2
      <4>2. PICK j \in 1 .. Len(requests) : asked[i] = requests[j]
        BY <3>1, <4>1
      <4>3. j \in DOMAIN requests
        BY <4>2 DEF Indices
      <4>. QED BY <4>2, <4>3, Zenon DEF ToSet
    <3>4. ASSUME NEW i \in 1 .. Len(plan) PROVE plan[i] \in ToSet(requests)
      <4>1. i + Len(asked) \in 1 .. Len(Read) /\ Read[i + Len(asked)] = plan[i]
        BY <3>2
      <4>2. PICK j \in 1 .. Len(requests) : plan[i] = requests[j]
        BY <3>1, <4>1
      <4>3. j \in DOMAIN requests
        BY <4>2 DEF Indices
      <4>. QED BY <4>2, <4>3, Zenon DEF ToSet
    <3>5. DOMAIN asked = 1 .. Len(asked) /\ DOMAIN plan = 1 .. Len(plan)
      BY <3>1
    <3>6. ASSUME NEW q \in ToSet(asked) PROVE q \in ToSet(requests)
      <4>1. PICK i \in DOMAIN asked : q = asked[i]
        BY Zenon DEF ToSet
      <4>. QED BY <3>3, <3>5, <4>1
    <3>7. ASSUME NEW q \in ToSet(plan) PROVE q \in ToSet(requests)
      <4>1. PICK i \in DOMAIN plan : q = plan[i]
        BY Zenon DEF ToSet
      <4>. QED BY <3>4, <3>5, <4>1
    <3>. QED BY <3>6, <3>7
  <2>5. DOMAIN data \subseteq Ids
    <3>. SUFFICES ASSUME NEW id \in DOMAIN data PROVE id \in Ids
      OBVIOUS
    <3>1. Loads(data[id], id)
      BY DEF Calls
    <3>. QED BY <3>1 DEF Loads, Ids, Indices
  <2>. QED BY <2>1, <2>2, <2>3, <2>4, <2>5 DEF TypeOK, Calls, Indices
<1>. QED BY <1>1, AlwaysInductive, PTL

\* Every channel is in the request of its command, in the order of the file, and no two
\* requests have the same command (_group_requests).
THEOREM Grouping == Spec => []GroupedByCommand
<1>1. Inductive => GroupedByCommand
  <2>. SUFFICES ASSUME Indices PROVE GroupedByCommand
    BY DEF Inductive
  <2>. DEFINE First(i) == requests[i].records[1]
  <2>1. DOMAIN requests = 1 .. Len(requests) /\ DOMAIN channels = 1 .. Len(channels)
        /\ \A i \in 1 .. Len(channels) : channels[i] \in Definitions
    BY DEF Indices
  <2>2. ASSUME NEW i \in 1 .. Len(requests)
        PROVE  First(i) \in Definitions /\ Key(First(i)) = requests[i].key
    <3>1. 1 \in 1 .. Len(requests[i].records)
      BY RecordsAreChannels
    <3>. QED BY <3>1, RecordsAreChannels
  <2>. HIDE DEF First
  <2>3. \A i, j \in DOMAIN requests : SameCommand(First(i), First(j)) => i = j
    BY <2>1, <2>2, KeyIsCommand DEF Indices
  <2>4. ASSUME NEW i \in DOMAIN requests
        PROVE  requests[i].records = Selected(channels, {d \in Definitions : SameCommand(d, First(i))})
    <3>1. OfKey(requests[i].key) = {d \in Definitions : SameCommand(d, First(i))}
      BY <2>1, <2>2, KeyIsCommand DEF OfKey
    <3>. QED BY <2>1, <3>1 DEF Indices
  <2>5. ASSUME NEW i \in DOMAIN channels
        PROVE  \E j \in DOMAIN requests : SameCommand(channels[i], First(j))
    <3>1. PICK j \in 1 .. Len(requests) : requests[j].key = Key(channels[i])
      BY <2>1 DEF Indices
    <3>. QED BY <2>1, <2>2, <3>1, KeyIsCommand
  <2>. QED BY <2>3, <2>4, <2>5 DEF GroupedByCommand, First
<1>. QED BY <1>1, AlwaysInductive, PTL

\* A call has no conversation twice, and none without a channel it wants (_requests_for,
\* read_all).
THEOREM EachRequestOnce == Spec => []NoNeedlessConversation
<1>1. Inductive => NoNeedlessConversation
  <2>. SUFFICES ASSUME Calls PROVE NoNeedlessConversation
    BY DEF Inductive
  <2>1. Read \in Seq(Request) /\ DOMAIN Read = 1 .. Len(Read) /\ DOMAIN wanted = 1 .. Len(wanted)
    BY DEF Calls, Reading
  <2>. QED BY <2>1 DEF NoNeedlessConversation, Calls, Reading, Distinct, Read
<1>. QED BY <1>1, AlwaysInductive, PTL

\* If ids are unique, an answer has every wanted channel whose frame reached it and no
\* other, with the unit and the type of the definition that its value was decoded with
\* (read_channels, read_all, HeatPumpConfig).
THEOREM AnswersWanted == Spec => []AnswerIsWanted
<1>1. Inductive => AnswerIsWanted
  <2>. SUFFICES ASSUME Indices, Calls, pc = "answer", UniqueIds
                PROVE  /\ {a.id : a \in answer} \subseteq ToSet(wanted)
                       /\ \A w \in ToSet(wanted) :
                            w \in {a.id : a \in answer}
                            \/ \E i \in DOMAIN asked : Carries(asked[i], w) /\ w \notin DOMAIN data
                       /\ \A a \in answer : a.decoded = a.labelled
    BY DEF Inductive, AnswerIsWanted
  <2>1. answer = {[id |-> id, decoded |-> data[id], labelled |-> by_id[id]] : id \in Picked}
    BY DEF Calls
  <2>2. {a.id : a \in answer} = Picked
    <3>1. ASSUME NEW a \in answer PROVE a.id \in Picked
      BY <2>1
    <3>2. ASSUME NEW id \in Picked PROVE \E a \in answer : id = a.id
      <4>1. [id |-> id, decoded |-> data[id], labelled |-> by_id[id]] \in answer
        BY <2>1
      <4>. QED BY <4>1
    <3>3. ASSUME NEW id \in {a.id : a \in answer} PROVE id \in Picked
      BY <3>1
    <3>4. ASSUME NEW id \in Picked PROVE id \in {a.id : a \in answer}
      BY <3>2
    <3>. QED BY <3>3, <3>4
  <2>3. /\ wanted \in Seq(DOMAIN by_id) /\ DOMAIN wanted = 1 .. Len(wanted)
        /\ asked \in Seq(Request) /\ DOMAIN asked = 1 .. Len(asked) /\ plan = <<>>
    BY DEF Calls, Reading
  <2>4. Read = asked
    BY <2>3, ConcatEmptySeq DEF Read
  <2>5. ASSUME NEW w \in ToSet(wanted)
        PROVE  w \in Picked \/ \E i \in DOMAIN asked : Carries(asked[i], w) /\ w \notin DOMAIN data
    <3>1. \E i \in 1 .. Len(asked) : Carries(asked[i], w)
      BY <2>3, <2>4 DEF Calls, Reading, ToSet
    <3>. QED BY <2>3, <3>1 DEF Picked
  <2>6. ASSUME NEW id \in Picked PROVE data[id] = by_id[id]
    <3>1. id \in DOMAIN data /\ id \in DOMAIN by_id
      BY <2>3 DEF Picked, ToSet
    <3>2. Loads(data[id], id) /\ Loads(by_id[id], id)
      BY <3>1 DEF Calls, Indices
    <3>3. DOMAIN channels = 1 .. Len(channels)
      BY DEF Indices
    <3>. QED BY <3>2, <3>3 DEF Loads, UniqueIds
  <2>7. \A a \in answer : a.decoded = a.labelled
    BY <2>1, <2>6
  <2>. QED BY <2>2, <2>5, <2>7 DEF Picked
<1>. QED BY <1>1, AlwaysInductive, PTL
=============================================================================
