---------------------------- MODULE Conversation ----------------------------
(***************************************************************************)
(* What Connector.get_data and Connector.set_data promise their callers,   *)
(* one conversation with the heat pump after another. Gateway.tla is       *)
(* written against this promise, and Handshake.tla shows that the byte     *)
(* level handshake keeps it.                                               *)
(***************************************************************************)
CONSTANTS Registers, Values, NoOp

VARIABLES
  store,   \* what the heat pump holds in each register
  op,      \* the conversation going on, or NoOp
  held,    \* values the register has had since the conversation began
  taken,   \* the device has taken the SET of this conversation
  pending, \* the SET the device has got and not yet carried out, or NoOp
  answer   \* how the last conversation ended

vars == <<store, op, held, taken, pending, answer>>

Gets == [kind : {"get"}, reg : Registers, val : {NoOp}]
Sets == [kind : {"set"}, reg : Registers, val : Values]
\* "failed" stands for every outcome the callers' header check refuses.
Answers == [kind : {"failed"}, reg : {NoOp}, val : {NoOp}]
             \cup [kind : {"short", "confirmed"}, reg : Registers, val : {NoOp}]
             \cup [kind : {"value"}, reg : Registers, val : Values]
Failed == [kind |-> "failed", reg |-> NoOp, val |-> NoOp]

Init ==
  /\ store \in [Registers -> Values]
  /\ op = NoOp
  /\ held = {}
  /\ taken = FALSE
  /\ pending = NoOp
  /\ answer = Failed

Begin(o) ==
  /\ op = NoOp
  /\ op' = o
  /\ held' = {store[o.reg]}
  /\ taken' = FALSE
  /\ answer' = Failed
  /\ UNCHANGED <<store, pending>>

\* The device gets the SET of the conversation going on. It waits for the
\* acknowledgement that makes the device carry it out; the conversation may have
\* failed by then, and another one be going on. Or the device drops it.
Hold ==
  /\ op \in Sets
  /\ pending' = op
  /\ UNCHANGED <<store, op, held, taken, answer>>

Drop ==
  /\ pending # NoOp
  /\ pending' = NoOp
  /\ UNCHANGED <<store, op, held, taken, answer>>

Take ==
  /\ op # NoOp
  /\ pending # NoOp
  /\ pending' = NoOp
  /\ store' = [store EXCEPT ![pending.reg] = pending.val]
  /\ held' = held \cup {store'[op.reg]}
  /\ taken' = (taken \/ pending = op)
  /\ UNCHANGED <<op, answer>>

\* A get ends with a value the register had, or with a valid frame that is too
\* short, or fails; a set is confirmed only if it was taken.
Truthful(a) ==
  CASE a.kind = "value"     -> op \in Gets /\ a.reg = op.reg /\ a.val \in held
    [] a.kind = "short"     -> op \in Gets /\ a.reg = op.reg
    [] a.kind = "confirmed" -> op \in Sets /\ taken
    [] a.kind = "failed"    -> TRUE

EndTruthfully(a) ==
  /\ op # NoOp
  /\ Truthful(a)
  /\ answer' = a
  /\ op' = NoOp
  /\ held' = {}
  /\ taken' = FALSE
  /\ pending' \in {pending, NoOp}
  /\ UNCHANGED store

\* And nothing is pending after a success.
End(a) ==
  /\ a = Failed \/ pending = NoOp
  /\ EndTruthfully(a)

Start == \E o \in Gets \cup Sets : Begin(o)

Next == Start \/ Hold \/ Drop \/ Take \/ (\E a \in Answers : End(a))

Spec == Init /\ [][Next]_vars

\* The part of the promise that outlives any number of faults: what an answer says is
\* true, but a SET that was confirmed may be pending once more.
TrueNext == Start \/ Hold \/ Drop \/ Take \/ (\E a \in Answers : EndTruthfully(a))
=============================================================================
