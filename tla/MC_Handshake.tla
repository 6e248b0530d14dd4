---------------------------- MODULE MC_Handshake ----------------------------
(* Conversations with two registers of the heat pump, for TLC. *)
EXTENDS Handshake

CONSTANTS rA, rB

Read(r) == [kind |-> "get", reg |-> r, val |-> NoOp]
Write(r, v) == [kind |-> "set", reg |-> r, val |-> v]

MC_Ops == {Read(rA), Read(rB), Write(rA, 1)}
=============================================================================
