------------------------------ MODULE MC_Clock ------------------------------
(* Minutes, hours and days, written from the days to the minutes. *)
EXTENDS Clock

MC_Radix == <<2, 2, 2>>
MC_ClockFields == <<3, 2, 1>>
=============================================================================
