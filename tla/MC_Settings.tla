---------------------------- MODULE MC_Settings ----------------------------
(* A register with channels of every kind, and values that need escaping.     *)
EXTENDS Settings, TLC

CONSTANTS byte, short, monday, sunday, enabled

Record(p, l, b, min, max, step) ==
  [position |-> p, length |-> l, bit_position |-> b, min |-> min, max |-> max, step |-> step]

\* Two bits of one byte, as hP1Monday and hP1Sunday of LWZ_THZ303_2_06.xml, a
\* one and a two byte number, and a switch of a whole byte.
MC_Layout ==
  (byte    :> Record(6, 1, 0, -100, 100, 1)) @@
  (short   :> Record(7, 2, 0, -1, 12000, 1)) @@
  (monday  :> Record(9, 1, 7, 0, 1, 0)) @@
  (sunday  :> Record(9, 1, 1, 0, 1, 0)) @@
  (enabled :> Record(10, 1, 0, 0, 1, 0))

\* 0A1710, a command of LWZ_THZ504_7_59.xml that needs escaping.
MC_Commands == {<<10, 23, 16>>}
MC_Payloads == {<<0, 0, 0, 0, 0>>, <<43, 16, 3, 130, 16>>}

\* 16, 3 and 43 need escaping or look like a footer, 4099 is 10h 03h, 11032 is
\* 2Bh 18h, and 12001 is out of range.
MC_Offered ==
  (({byte} \X {-1, 16, 43})
    \cup ({short} \X {4099, 11032, 12001})
    \cup ({monday, sunday} \X {0, 1})
    \cup {<<enabled, 1>>})
=============================================================================
