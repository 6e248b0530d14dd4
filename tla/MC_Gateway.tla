----------------------------- MODULE MC_Gateway -----------------------------
(* A small heat pump for TLC: one register with two settings, one with a      *)
(* sensor, and the calls that contend for them.                               *)
EXTENDS Gateway, TLC

CONSTANTS t1, t2, c1, c2, s1, rA, rB

MC_RegisterOf == [c \in {c1, c2, s1} |-> IF c = s1 THEN rB ELSE rA]

Put(c, v) == [kind |-> "write", id |-> c, ids |-> {}, value |-> v]
Get(c) == [kind |-> "read", id |-> c, ids |-> {}, value |-> NoValue]
List(I) == [kind |-> "list", id |-> UnknownId, ids |-> I, value |-> NoValue]

\* Writes of both settings of one register, by either thread.
MC_WriteOffered == {Put(c1, 1), Put(c2, 0)}

\* A read that spans both registers, a write, a write that is out of range, and
\* one of a channel that is not writable.
MC_ReadOffered == {List({c2, s1}), Put(c1, 1), Put(c1, TooLarge), Put(s1, 0)}

\* One call of each kind that reaches the device.
MC_FewOffered == {Put(c1, 1), Get(c1), List({c2, s1})}

\* The same for the liveness run, where the values do not matter and are all 0.
MC_LiveOffered == {Put(c1, 0), List({c2, s1})}

\* Noise turns every payload byte of a frame into the same one.
MC_Damaged == {[c \in {c1, c2, s1} |-> 0]}

Symmetry == Permutations({t1, t2})
=============================================================================
