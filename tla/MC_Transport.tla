---------------------------- MODULE MC_Transport ----------------------------
(* Two threads, so that one could outlive its port. *)
EXTENDS Transport

CONSTANTS r1, r2
=============================================================================
