----------------------------- MODULE MC_Values -----------------------------
(* The shapes of channels that the shipped definitions have.                *)
EXTENDS Values

Channel(l, s, b, min, max, step, w) ==
  [length |-> l, scale |-> s, bit |-> b, min |-> min, max |-> max, step |-> step,
   writable |-> w]

\* Of LWZ_THZ303_2_06.xml and LWZ_THZ504_7_59.xml: p01RoomTempDay, a two byte
\* temperature; a one byte number with a scale, and one without; minutes; a number
\* of two bytes; a week program's bit; a switch; a pressure in hundredths; an unscaled counter;
\* and statusAP0, whose range is beyond its byte.
MC_Channels ==
  {Channel(2, 10, FALSE, 1000, 3000, 10, TRUE),
   Channel(2, 10, FALSE, -1000, 1000, 100, TRUE),
   Channel(1, 10, FALSE, 0, 500, 10, TRUE),
   Channel(1, 100, FALSE, -12800, 9500, 0, TRUE),
   Channel(1, 100, FALSE, 0, 5900, 0, TRUE),
   Channel(2, 100, FALSE, 0, 30000, 100, TRUE),
   Channel(1, 100, TRUE, 0, 100, 0, TRUE),
   Channel(1, 100, FALSE, 0, 100, 0, TRUE),
   Channel(2, 1, FALSE, 0, 100, 0, FALSE),
   Channel(1, 10, FALSE, 0, 238800, 0, FALSE),
   Channel(4, 100, FALSE, 0, 200, 0, FALSE)}

\* Ends of ranges and what lies around them, ties, and numbers below zero.
MC_Numbers ==
  {-12850, -12800, -1005, -1000, -50, -15, 0, 5, 10, 100, 495, 500, 1000, 2165,
   2170, 3000, 3005, 5900, 5990, 9550, 30000, 30050}
=============================================================================
