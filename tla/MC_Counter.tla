----------------------------- MODULE MC_Counter -----------------------------
(* A counter of three by three, so that it carries after two steps at most. *)
EXTENDS Counter
=============================================================================
