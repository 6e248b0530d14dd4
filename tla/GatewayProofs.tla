--------------------------- MODULE GatewayProofs ---------------------------
(***************************************************************************)
(* Proofs about Gateway, for any threads, channels, registers, values and  *)
(* calls: its types, that conversations exclude each other, and that an     *)
(* acknowledged write is not lost.                                          *)
(***************************************************************************)
EXTENDS Gateway, TLAPS

-----------------------------------------------------------------------------
(* The inductive invariant *)

\* A write that gets as far as the lock has passed the checks before it: the
\* channel is known and the value is a number (write_channel, _coerce).
WritesAreChecked ==
  \A t \in Threads :
    pc[t] \in {"pre", "set"} \/ (pc[t] = "wait" /\ call[t].kind = "write")
      => call[t].id \in Channels /\ call[t].value \in Values \cup {TooLarge}

\* A pre-read asks for the register of the channel that is written.
PreReadAsksRight ==
  \A t \in Threads : pc[t] = "pre" => reg[t] = RegisterOf[call[t].id]

\* A full frame has a value for every channel of the register it names.
Whole(f) ==
  f.kind = "full" => \A c \in Channels : RegisterOf[c] = f.reg => f.vals[c] \in Values

\* What is known of a SET about to be sent: the value is in range, and on an
\* intact pre-read the frame carries it in its place.
SetIsComposed ==
  \A t \in Threads : pc[t] = "set" =>
    /\ call[t].value \in Values
    /\ Whole(frame[t])
    /\ frame[t].kind = "full" /\ frame[t].ok =>
         /\ frame[t].reg = RegisterOf[call[t].id]
         /\ frame[t].vals[call[t].id] = call[t].value

\* The same of a SET that the device may still take.
LateIsComposed == \A p \in late : p.frame.kind = "full" /\ Whole(p.frame)

\* And it agrees, as SnapshotKeepsConfirmed says of a SET about to be sent, with
\* every acknowledged value it is going to overwrite.
LateKeepsConfirmed ==
  \A p \in late : p.frame.ok =>
    \A c \in Channels \ {p.id} :
      RegisterOf[c] = p.frame.reg /\ confirmed[c] # NoValue
        => p.frame.vals[c] = confirmed[c]

Shape ==
  /\ TypeOK
  /\ WritesAreChecked
  /\ PreReadAsksRight
  /\ SetIsComposed
  /\ LateIsComposed

Inductive ==
  /\ Shape
  /\ OneConversation
  /\ NoLostUpdate
  /\ SnapshotKeepsConfirmed
  /\ LateKeepsConfirmed

-----------------------------------------------------------------------------
(* What the constants and the frames are *)

LEMMA NoFrameIsFrame ==
  /\ NoFrame \in Frames
  /\ NoFrame.reg \in Registers
  /\ NoValues \in [Channels -> Maybe]
  /\ NoCall \in AllCalls
BY ConstantsAssumption DEF NoFrame, Frames, NoValues, Maybe, NoCall, AllCalls, Ids

\* The frames the device can answer with are frames, and the full ones are whole.
LEMMA AnswersAreFrames ==
  ASSUME NEW r \in Registers, device \in [Channels -> Values]
  PROVE  \A f \in Answers(r) : f \in Frames /\ Whole(f)
<1>. SUFFICES ASSUME NEW f \in Answers(r) PROVE f \in Frames /\ Whole(f)
  OBVIOUS
<1>1. CASE f \in ValidFrames(r)
  <2>1. CASE f = [kind |-> "full", ok |-> TRUE, reg |-> r, vals |-> Content(r, device)]
    BY <2>1 DEF Frames, Whole, Content, Maybe
  <2>2. CASE f \in [kind : {"bare", "stub"}, ok : {TRUE}, reg : {r}, vals : {NoValues}]
    BY <2>2, NoFrameIsFrame DEF Frames, Whole
  <2>. QED BY <1>1, <2>1, <2>2 DEF ValidFrames
<1>2. CASE f \in InvalidFrames(r)
  <2>1. CASE f = [kind |-> "stub", ok |-> FALSE, reg |-> r, vals |-> NoValues]
    BY <2>1, NoFrameIsFrame DEF Frames, Whole
  <2>2. ASSUME NEW q \in Registers, NEW m \in Damaged,
               f = [kind |-> "full", ok |-> FALSE, reg |-> q, vals |-> Content(q, m)]
        PROVE  f \in Frames /\ Whole(f)
    <3>1. m \in [Channels -> Values]
      BY ConstantsAssumption
    <3>. QED BY <2>2, <3>1 DEF Frames, Whole, Content, Maybe
  <2>. QED BY <1>2, <2>1, <2>2 DEF InvalidFrames
<1>. QED BY <1>1, <1>2 DEF Answers

\* A full frame with a valid header shows the register as it is.
LEMMA AnswersToTruth ==
  ASSUME NEW r \in Registers, NEW f \in Answers(r), f.kind = "full", f.ok
  PROVE  f.reg = r /\ f.vals = Content(r, device)
<1>1. CASE f \in ValidFrames(r)
  <2>1. f \notin [kind : {"bare", "stub"}, ok : {TRUE}, reg : {r}, vals : {NoValues}]
    OBVIOUS
  <2>2. f = [kind |-> "full", ok |-> TRUE, reg |-> r, vals |-> Content(r, device)]
    BY <1>1, <2>1 DEF ValidFrames
  <2>. QED BY <2>2
<1>2. CASE f \in InvalidFrames(r)
  <2>1. ~f.ok
    BY <1>2 DEF InvalidFrames
  <2>. QED BY <2>1
<1>. QED BY <1>1, <1>2 DEF Answers

\* compose_record keeps the frame a whole frame, in the same place.
LEMMA ComposeKeepsFrame ==
  ASSUME NEW f \in Frames, NEW k, Whole(f)
  PROVE  /\ ComposeRecord(f, k) \in Frames
         /\ Whole(ComposeRecord(f, k))
         /\ ComposeRecord(f, k).kind = f.kind
         /\ ComposeRecord(f, k).ok = f.ok
         /\ ComposeRecord(f, k).reg = f.reg
<1>1. CASE k.value \in Values /\ f.kind = "full" /\ RegisterOf[k.id] = f.reg
  BY <1>1 DEF ComposeRecord, Frames, Whole, Maybe
<1>2. CASE ~(k.value \in Values /\ f.kind = "full" /\ RegisterOf[k.id] = f.reg)
  BY <1>2 DEF ComposeRecord
<1>. QED BY <1>1, <1>2

\* The calls that reach the lock are checked, and ask for registers there are.
LEMMA AdmittedCalls ==
  ASSUME NEW k \in Offered, Rejection(k) = 0
  PROVE  /\ k \in AllCalls
         /\ k.kind # "write" => RegistersFor(k) \subseteq Registers
         /\ k.kind = "write" => k.id \in Channels /\ k.value \in Values \cup {TooLarge}
<1>1. k \in AllCalls
  BY ConstantsAssumption
<1>2. CASE k.kind = "read"
  BY <1>1, <1>2, ConstantsAssumption DEF Rejection, RegistersFor
<1>3. CASE k.kind = "list"
  <2>1. k.ids \subseteq Channels
    BY <1>3 DEF Rejection
  <2>. QED BY <1>3, <2>1, ConstantsAssumption DEF RegistersFor
<1>4. CASE k.kind = "write"
  <2>1. k.id \in Ids /\ k.value \in Values \cup {TooLarge, NotANumber}
    BY <1>1, <1>4 DEF AllCalls
  <2>2. k.id \in Channels
    BY <1>4 DEF Rejection
  <2>3. k.id \in Writable /\ k.value # NotANumber
    BY <1>4, <2>2 DEF Rejection
  <2>. QED BY <1>1, <1>4, <2>1, <2>2, <2>3
<1>5. k.kind \in {"read", "list", "write"}
  BY <1>1 DEF AllCalls
<1>. QED BY <1>1, <1>2, <1>3, <1>4, <1>5

-----------------------------------------------------------------------------
(* Types *)

LEMMA InitInductive == Init => Inductive
<1>. SUFFICES ASSUME Init PROVE Inductive
  OBVIOUS
<1>. USE NoFrameIsFrame DEF Init
<1>1. TypeOK
  <2>1. attempt \in [Threads -> 1 .. MAX_TRIES]
    BY ConstantsAssumption
  <2>2. /\ lock \in Threads \cup {NoThread}
        /\ pc \in [Threads -> Places]
        /\ outcome \in [Threads -> Outcomes]
        /\ status \in [Threads -> {0, 200, 400, 404, 409, 500, 502, 503}]
        /\ todo \in [Threads -> SUBSET Registers]
        /\ since \in [Threads -> [Channels -> SUBSET Values]]
        /\ late \subseteq [frame : Frames, id : Channels]
    BY DEF Places, Outcomes
  <2>3. /\ call \in [Threads -> AllCalls]
        /\ reg \in [Threads -> Registers]
        /\ frame \in [Threads -> Frames]
        /\ data \in [Threads -> [Channels -> Maybe \cup {FooterValue}]]
        /\ confirmed \in [Channels -> Maybe]
    OBVIOUS
  <2>4. applied \in [Threads -> BOOLEAN]
    BY Zenon
  <2>. QED BY <2>1, <2>2, <2>3, <2>4, Zenon DEF TypeOK
<1>2. WritesAreChecked /\ PreReadAsksRight /\ SetIsComposed /\ LateIsComposed
  BY DEF WritesAreChecked, PreReadAsksRight, SetIsComposed, LateIsComposed, NoCall
<1>3. OneConversation /\ SnapshotKeepsConfirmed /\ LateKeepsConfirmed
  BY DEF OneConversation, InConversation, SnapshotKeepsConfirmed, LateKeepsConfirmed
<1>4. NoLostUpdate
  BY DEF NoLostUpdate, NoValues
<1>. QED BY <1>1, <1>2, <1>3, <1>4 DEF Inductive, Shape

\* A SET the device takes leaves the types of what it changes alone.
LEMMA TakesTypes ==
  ASSUME TypeOK, NEW p \in [frame : Frames, id : Channels], Whole(p.frame),
         p.frame.kind = "full", DeviceTakes(p)
  PROVE  /\ device' \in [Channels -> Values]
         /\ since' \in [Threads -> [Channels -> SUBSET Values]]
<1>1. device' \in [Channels -> Values]
  BY DEF DeviceTakes, Whole, TypeOK
<1>. QED BY <1>1 DEF DeviceTakes, TypeOK

LEMMA LedgerTypes ==
  ASSUME TypeOK, NEW p \in [frame : Frames, id : Channels], NEW v \in Maybe
  PROVE  Ledger(p, v) \in [Channels -> Maybe]
BY DEF Ledger, TypeOK, Maybe

LEMMA RequestTypes ==
  ASSUME TypeOK, NEW t \in Threads, NextRequest(t)
  PROVE  /\ pc' \in [Threads -> Places]
         /\ todo' \in [Threads -> SUBSET Registers]
         /\ reg' \in [Threads -> Registers]
         /\ attempt' \in [Threads -> 1 .. MAX_TRIES]
<1>1. 1 \in 1 .. MAX_TRIES
  BY ConstantsAssumption
<1>2. CASE pc' = [pc EXCEPT ![t] = "leave"] /\ UNCHANGED <<todo, reg, attempt>>
  BY <1>2 DEF TypeOK, Places
<1>3. ASSUME NEW r \in todo[t],
             reg' = [reg EXCEPT ![t] = r],
             todo' = [todo EXCEPT ![t] = todo[t] \ {r}],
             attempt' = [attempt EXCEPT ![t] = 1],
             pc' = [pc EXCEPT ![t] = "read"]
      PROVE  /\ pc' \in [Threads -> Places]
             /\ todo' \in [Threads -> SUBSET Registers]
             /\ reg' \in [Threads -> Registers]
             /\ attempt' \in [Threads -> 1 .. MAX_TRIES]
  <2>1. r \in Registers /\ todo[t] \ {r} \in SUBSET Registers
    BY DEF TypeOK
  <2>. QED BY <1>1, <1>3, <2>1 DEF TypeOK, Places
<1>. QED BY <1>2, <1>3 DEF NextRequest

LEMMA FinishTypes ==
  ASSUME TypeOK, NEW t \in Threads, NEW exn \in Outcomes, Finish(t, exn)
  PROVE  /\ pc' \in [Threads -> Places]
         /\ outcome' \in [Threads -> Outcomes]
BY DEF Finish, TypeOK, Places

\* What a thread reads is a whole frame.
LEMMA ReadsFrames ==
  ASSUME TypeOK, NEW t \in Threads
  PROVE  \A f \in Answers(reg[t]) : f \in Frames /\ Whole(f)
<1>1. reg[t] \in Registers /\ device \in [Channels -> Values]
  BY DEF TypeOK
<1>. QED BY <1>1, AnswersAreFrames

LEMMA StepTypes == Shape /\ [Next]_vars => TypeOK'
<1>. SUFFICES ASSUME Shape, [Next]_vars PROVE TypeOK'
  OBVIOUS
<1>. USE DEF Shape
<1>0. TypeOK
  OBVIOUS
<1>1. CASE UNCHANGED vars
  BY <1>1 DEF TypeOK, vars, callVars, linkVars, deviceVars
<1>2. CASE Startup
  BY <1>2 DEF TypeOK, Startup, callVars, deviceVars
<1>3. CASE Stop
  BY <1>3 DEF TypeOK, Stop, callVars, deviceVars
<1>4. CASE Close
  BY <1>4 DEF TypeOK, Close, callVars, deviceVars
<1>5. ASSUME NEW t \in Threads, NEW k \in Offered, Reject(t, k) PROVE TypeOK'
  <2>1. Rejection(k) \in {0, 400, 404, 409}
    BY DEF Rejection
  <2>2. k \in AllCalls
    BY ConstantsAssumption
  <2>. QED BY <1>5, <2>1, <2>2 DEF TypeOK, Places, Reject, linkVars, deviceVars
<1>6. ASSUME NEW t \in Threads, NEW k \in Offered, Admit(t, k) PROVE TypeOK'
  <2>1. k \in AllCalls
    BY ConstantsAssumption
  <2>2. (IF k.kind = "write" THEN {} ELSE RegistersFor(k)) \in SUBSET Registers
    BY <1>6, AdmittedCalls DEF Admit
  <2>. QED BY <1>6, <2>1, <2>2 DEF TypeOK, Places, Admit, linkVars, deviceVars
<1>7. ASSUME NEW t \in Threads, Acquire(t) PROVE TypeOK'
  <2>1. /\ pc' \in [Threads -> Places]
        /\ todo' \in [Threads -> SUBSET Registers]
        /\ reg' \in [Threads -> Registers]
        /\ attempt' \in [Threads -> 1 .. MAX_TRIES]
    <3>1. CASE NextRequest(t)
      BY <1>0, <3>1, RequestTypes
    <3>2. CASE /\ call[t].kind = "write"
               /\ reg' = [reg EXCEPT ![t] = RegisterOf[call[t].id]]
               /\ pc' = [pc EXCEPT ![t] = "pre"]
               /\ UNCHANGED <<todo, attempt>>
      <4>1. RegisterOf[call[t].id] \in Registers
        BY <1>7, <3>2, ConstantsAssumption DEF Acquire, WritesAreChecked
      <4>. QED BY <3>2, <4>1 DEF TypeOK, Places
    <3>. QED BY <1>7, <3>1, <3>2 DEF Acquire
  <2>2. since' \in [Threads -> [Channels -> SUBSET Values]]
    BY <1>7 DEF Acquire, TypeOK
  <2>. QED BY <1>7, <2>1, <2>2 DEF TypeOK, Acquire, linkVars, deviceVars
<1>8. ASSUME NEW t \in Threads, Leave(t) PROVE TypeOK'
  <2>1. Answer(t) \in {200, 400, 404, 500, 502, 503}
    BY DEF Answer, StatusOf, TypeOK, Outcomes
  <2>2. [NoFrame EXCEPT !.kind = frame[t].kind, !.ok = frame[t].ok] \in Frames
    <3>1. frame[t] \in Frames
      BY DEF TypeOK
    <3>. QED BY <3>1, NoFrameIsFrame DEF Frames
  <2>3. frame' \in [Threads -> Frames]
    BY <1>8, <2>2 DEF Leave, TypeOK
  <2>4. attempt' \in [Threads -> 1 .. MAX_TRIES]
    BY <1>8, ConstantsAssumption DEF Leave, TypeOK
  <2>5. since' \in [Threads -> [Channels -> SUBSET Values]]
    BY <1>8 DEF Leave, TypeOK
  <2>. QED BY <1>8, <2>1, <2>3, <2>4, <2>5, NoFrameIsFrame
           DEF TypeOK, Leave, Released, Places, Outcomes, linkVars, deviceVars
<1>9. ASSUME NEW t \in Threads, Respond(t) PROVE TypeOK'
  BY <1>9, NoFrameIsFrame DEF TypeOK, Respond, Places, linkVars, deviceVars
<1>10. ASSUME NEW t \in Threads, ReadOk(t) PROVE TypeOK'
  <2>1. PICK f \in Answers(reg[t]) : data' = [data EXCEPT ![t] = ParseRecords(f, data[t])]
    BY <1>10 DEF ReadOk
  <2>2. f \in Frames /\ data[t] \in [Channels -> Maybe \cup {FooterValue}]
    BY ReadsFrames DEF TypeOK
  <2>3. ParseRecords(f, data[t]) \in [Channels -> Maybe \cup {FooterValue}]
    BY <2>2 DEF ParseRecords, Frames
  <2>4. data' \in [Threads -> [Channels -> Maybe \cup {FooterValue}]]
    BY <2>1, <2>3 DEF TypeOK
  <2>5. /\ pc' \in [Threads -> Places]
        /\ todo' \in [Threads -> SUBSET Registers]
        /\ reg' \in [Threads -> Registers]
        /\ attempt' \in [Threads -> 1 .. MAX_TRIES]
    BY <1>10, RequestTypes DEF ReadOk
  <2>. QED BY <1>10, <2>4, <2>5 DEF TypeOK, ReadOk, linkVars
<1>11. ASSUME NEW t \in Threads, ReadFails(t) PROVE TypeOK'
  BY <1>11 DEF TypeOK, ReadFails, Places, callVars, linkVars, deviceVars
<1>12. ASSUME NEW t \in Threads, ReadBroken(t) PROVE TypeOK'
  BY <1>12 DEF TypeOK, ReadBroken, Finish, Places, Outcomes, linkVars, deviceVars
<1>13. ASSUME NEW t \in Threads, Restart(t) PROVE TypeOK'
  <2>1. attempt' \in [Threads -> 1 .. MAX_TRIES]
    <3>1. attempt[t] \in 1 .. MAX_TRIES /\ MAX_TRIES \in Nat
      BY ConstantsAssumption DEF TypeOK
    <3>2. CASE TriesLeft(t) /\ attempt' = [attempt EXCEPT ![t] = NextAttempt(t)]
      <4>1. NextAttempt(t) \in 1 .. MAX_TRIES
        BY <3>1, <3>2 DEF TriesLeft, NextAttempt
      <4>. QED BY <3>2, <4>1 DEF TypeOK
    <3>3. CASE UNCHANGED attempt
      BY <3>3 DEF TypeOK
    <3>. QED BY <1>13, <3>2, <3>3 DEF Restart
  <2>2. pc' \in [Threads -> Places] /\ outcome' \in [Threads -> Outcomes]
    <3>1. CASE pc' = [pc EXCEPT ![t] = "read"] /\ UNCHANGED outcome
      BY <3>1 DEF TypeOK, Places
    <3>2. ASSUME NEW exn \in {"ProtocolError", "Exception"}, Finish(t, exn)
          PROVE  pc' \in [Threads -> Places] /\ outcome' \in [Threads -> Outcomes]
      BY <3>2, FinishTypes DEF Outcomes
    <3>. QED BY <1>13, <3>1, <3>2 DEF Restart
  <2>3. port' \in {"closed", "open", "dead"}
    BY <1>13 DEF Restart
  <2>. QED BY <1>13, <2>1, <2>2, <2>3 DEF TypeOK, Restart, deviceVars
<1>14. ASSUME NEW t \in Threads, PreReadFails(t) PROVE TypeOK'
  BY <1>14 DEF TypeOK, PreReadFails, Finish, Places, Outcomes, linkVars, deviceVars
<1>15. ASSUME NEW t \in Threads, PreReadBare(t) PROVE TypeOK'
  <2>1. frame' \in [Threads -> Frames]
    BY <1>15, ReadsFrames DEF PreReadBare, Answers, TypeOK
  <2>. QED BY <1>15, <2>1 DEF TypeOK, PreReadBare, Finish, Places, Outcomes, linkVars
<1>16. ASSUME NEW t \in Threads, PreRead(t) PROVE TypeOK'
  <2>1. frame' \in [Threads -> Frames]
    BY <1>16, ReadsFrames, ComposeKeepsFrame DEF PreRead, TypeOK
  <2>2. pc' \in [Threads -> Places] /\ outcome' \in [Threads -> Outcomes]
    <3>1. CASE pc' = [pc EXCEPT ![t] = "set"] /\ UNCHANGED outcome
      BY <3>1 DEF TypeOK, Places
    <3>2. ASSUME NEW exn \in {"ValueOutOfRange", "Exception"}, Finish(t, exn)
          PROVE  pc' \in [Threads -> Places] /\ outcome' \in [Threads -> Outcomes]
      BY <3>2, FinishTypes DEF Outcomes
    <3>. QED BY <1>16, <3>1, <3>2 DEF PreRead
  <2>3. late' \subseteq [frame : Frames, id : Channels]
    BY <1>16 DEF TypeOK, PreRead
  <2>. QED BY <1>16, <2>1, <2>2, <2>3 DEF TypeOK, PreRead, linkVars
<1>17. ASSUME NEW t \in Threads, pc[t] = "set"
       PROVE  SetOf(t) \in [frame : Frames, id : Channels] /\ Whole(frame[t])
  BY <1>17 DEF SetOf, WritesAreChecked, SetIsComposed, TypeOK
<1>18. ASSUME NEW t \in Threads, SetConfirmed(t) PROVE TypeOK'
  <2>1. call[t].value \in Maybe
    BY <1>18 DEF SetConfirmed, SetIsComposed, Maybe
  <2>2. confirmed' \in [Channels -> Maybe]
    BY <1>17, <1>18, <2>1, LedgerTypes DEF SetConfirmed
  <2>3. /\ device' \in [Channels -> Values]
        /\ since' \in [Threads -> [Channels -> SUBSET Values]]
    BY <1>17, <1>18, TakesTypes DEF SetConfirmed, SetOf
  <2>. QED BY <1>18, <2>2, <2>3
           DEF TypeOK, SetConfirmed, Finish, Places, Outcomes, linkVars
<1>19. ASSUME NEW t \in Threads, SetUnconfirmed(t) PROVE TypeOK'
  <2>1. confirmed' \in [Channels -> Maybe]
    BY <1>17, <1>19, LedgerTypes DEF SetUnconfirmed, Maybe
  <2>2. /\ device' \in [Channels -> Values]
        /\ since' \in [Threads -> [Channels -> SUBSET Values]]
    BY <1>17, <1>19, TakesTypes DEF SetUnconfirmed, SetOf
  <2>3. late' \subseteq [frame : Frames, id : Channels]
    BY <1>17, <1>19 DEF SetUnconfirmed
  <2>4. pc' \in [Threads -> Places] /\ outcome' \in [Threads -> Outcomes]
    BY <1>19, FinishTypes DEF SetUnconfirmed, Unverified, Outcomes
  <2>. QED BY <1>19, <2>1, <2>2, <2>3, <2>4 DEF TypeOK, SetUnconfirmed, linkVars
<1>20. ASSUME NEW t \in Threads, SetIgnored(t) PROVE TypeOK'
  <2>1. late' \subseteq [frame : Frames, id : Channels]
    BY <1>17, <1>20 DEF SetIgnored, TypeOK
  <2>2. pc' \in [Threads -> Places] /\ outcome' \in [Threads -> Outcomes]
    BY <1>20, FinishTypes DEF SetIgnored, Unverified, Outcomes
  <2>. QED BY <1>20, <2>1, <2>2 DEF TypeOK, SetIgnored, linkVars
<1>21. ASSUME NEW c \in Panel, NEW v \in Values, PanelChange(c, v) PROVE TypeOK'
  <2>1. c \in Channels
    BY ConstantsAssumption
  <2>2. since' \in [Threads -> [Channels -> SUBSET Values]]
    BY <1>21, <2>1 DEF PanelChange, TypeOK
  <2>. QED BY <1>21, <2>1, <2>2 DEF TypeOK, PanelChange, callVars, linkVars, Maybe
<1>22. ASSUME NEW p \in late, LateTake(p) PROVE TypeOK'
  <2>1. p \in [frame : Frames, id : Channels] /\ Whole(p.frame) /\ p.frame.kind = "full"
    BY DEF LateIsComposed, TypeOK
  <2>2. confirmed' \in [Channels -> Maybe]
    BY <1>22, <2>1, LedgerTypes DEF LateTake, Maybe
  <2>3. /\ device' \in [Channels -> Values]
        /\ since' \in [Threads -> [Channels -> SUBSET Values]]
    BY <1>22, <2>1, TakesTypes DEF LateTake
  <2>. QED BY <1>22, <2>2, <2>3 DEF TypeOK, LateTake, callVars, linkVars
<1>23. CASE Unplug
  BY <1>23 DEF TypeOK, Unplug, callVars, deviceVars
<1>24. CASE Replug
  BY <1>24 DEF TypeOK, Replug, callVars, deviceVars
<1>. QED
  BY <1>1, <1>2, <1>3, <1>4, <1>5, <1>6, <1>7, <1>8, <1>9, <1>10, <1>11, <1>12,
     <1>13, <1>14, <1>15, <1>16, <1>18, <1>19, <1>20, <1>21, <1>22, <1>23, <1>24
  DEF Next, Work, Environment

-----------------------------------------------------------------------------
(* Who changes what *)

ThreadStep(t) == (\E k \in Offered : Reject(t, k) \/ Admit(t, k)) \/ Work(t)
Quiet == Startup \/ Stop \/ Close \/ Environment \/ UNCHANGED vars

LEMMA Steps == [Next]_vars => Quiet \/ \E t \in Threads : ThreadStep(t)
BY DEF Next, Quiet, ThreadStep

LEMMA QuietSteps ==
  ASSUME Quiet
  PROVE  UNCHANGED <<lock, pc, call, reg, frame>>
<1>1. CASE Startup \/ Stop \/ Close
  BY <1>1 DEF Startup, Stop, Close, callVars
<1>2. CASE Environment
  BY <1>2 DEF Environment, PanelChange, LateTake, Unplug, Replug, callVars
<1>3. CASE UNCHANGED vars
  BY <1>3 DEF vars, callVars
<1>. QED BY <1>1, <1>2, <1>3 DEF Quiet

\* A thread leaves what belongs to another one alone.
LEMMA OtherThreads ==
  ASSUME TypeOK, NEW t \in Threads, ThreadStep(t), NEW u \in Threads, u # t
  PROVE  pc'[u] = pc[u] /\ call'[u] = call[u] /\ reg'[u] = reg[u] /\ frame'[u] = frame[u]
<1>. USE DEF TypeOK
<1>1. ASSUME NEW k \in Offered, Reject(t, k) \/ Admit(t, k)
      PROVE  pc'[u] = pc[u] /\ call'[u] = call[u] /\ reg'[u] = reg[u] /\ frame'[u] = frame[u]
  BY <1>1 DEF Reject, Admit
<1>2. CASE Acquire(t) \/ ReadOk(t)
  BY <1>2 DEF Acquire, ReadOk, NextRequest
<1>3. CASE Leave(t) \/ Respond(t)
  BY <1>3 DEF Leave, Respond
<1>4. CASE ReadFails(t) \/ ReadBroken(t) \/ Restart(t)
  BY <1>4 DEF ReadFails, ReadBroken, Restart, Finish, callVars
<1>5. CASE PreReadFails(t) \/ PreReadBare(t) \/ PreRead(t)
  BY <1>5 DEF PreReadFails, PreReadBare, PreRead, Finish
<1>6. CASE SetConfirmed(t) \/ SetUnconfirmed(t) \/ SetIgnored(t)
  BY <1>6 DEF SetConfirmed, SetUnconfirmed, SetIgnored, Finish
<1>. QED BY <1>1, <1>2, <1>3, <1>4, <1>5, <1>6 DEF ThreadStep, Work

\* The only ways to the places where a write is under way.
LEMMA WaysToWrite ==
  ASSUME TypeOK, NEW t \in Threads, ThreadStep(t)
  PROVE  \/ pc'[t] \in {"idle", "read", "restart", "leave", "answer"}
         \/ pc'[t] = "wait" /\ \E k \in Offered : Admit(t, k)
         \/ pc'[t] = "pre" /\ Acquire(t)
         \/ pc'[t] = "set" /\ PreRead(t)
<1>. DEFINE Goal == \/ pc'[t] \in {"idle", "read", "restart", "leave", "answer"}
                    \/ pc'[t] = "wait" /\ \E k \in Offered : Admit(t, k)
                    \/ pc'[t] = "pre" /\ Acquire(t)
                    \/ pc'[t] = "set" /\ PreRead(t)
<1>0. pc \in [Threads -> Places]
  BY DEF TypeOK
<1>1. ASSUME NEW k \in Offered, Reject(t, k) \/ Admit(t, k) PROVE Goal
  BY <1>0, <1>1 DEF Reject, Admit
<1>2. CASE Acquire(t) \/ ReadOk(t)
  BY <1>0, <1>2 DEF Acquire, ReadOk, NextRequest
<1>3. CASE Leave(t) \/ Respond(t)
  BY <1>0, <1>3 DEF Leave, Respond
<1>4. CASE ReadFails(t) \/ ReadBroken(t) \/ Restart(t)
  BY <1>0, <1>4 DEF ReadFails, ReadBroken, Restart, Finish
<1>5. CASE PreReadFails(t) \/ PreReadBare(t) \/ PreRead(t)
  BY <1>0, <1>5 DEF PreReadFails, PreReadBare, PreRead, Finish
<1>6. CASE SetConfirmed(t) \/ SetUnconfirmed(t) \/ SetIgnored(t)
  BY <1>0, <1>6 DEF SetConfirmed, SetUnconfirmed, SetIgnored, Finish
<1>. QED BY <1>1, <1>2, <1>3, <1>4, <1>5, <1>6 DEF ThreadStep, Work

\* Only a thread that sends a SET leaves one behind in the device.
LEMMA LateSteps ==
  ASSUME [Next]_vars
  PROVE  \/ late' \subseteq late
         \/ \E t \in Threads : pc[t] = "set" /\ frame[t].kind = "full" /\ late' = {SetOf(t)}
<1>1. CASE Quiet
  BY <1>1 DEF Quiet, Startup, Stop, Close, Environment, PanelChange, LateTake, Unplug,
              Replug, vars, deviceVars
<1>2. ASSUME NEW t \in Threads, ThreadStep(t)
      PROVE  late' \subseteq late \/ (pc[t] = "set" /\ frame[t].kind = "full" /\ late' = {SetOf(t)})
  <2>1. CASE \E k \in Offered : Reject(t, k) \/ Admit(t, k)
    BY <2>1 DEF Reject, Admit, deviceVars
  <2>2. CASE Acquire(t) \/ Leave(t) \/ Respond(t)
    BY <2>2 DEF Acquire, Leave, Respond, deviceVars
  <2>3. CASE ReadOk(t) \/ ReadFails(t) \/ ReadBroken(t) \/ Restart(t)
    BY <2>3 DEF ReadOk, ReadFails, ReadBroken, Restart, deviceVars
  <2>4. CASE PreReadFails(t) \/ PreReadBare(t) \/ PreRead(t)
    BY <2>4 DEF PreReadFails, PreReadBare, PreRead, deviceVars
  <2>5. CASE SetConfirmed(t) \/ SetUnconfirmed(t) \/ SetIgnored(t)
    BY <2>5 DEF SetConfirmed, SetUnconfirmed, SetIgnored
  <2>. QED BY <1>2, <2>1, <2>2, <2>3, <2>4, <2>5 DEF ThreadStep, Work
<1>. QED BY <1>1, <1>2, Steps

-----------------------------------------------------------------------------
(* Writes are checked before they are composed, and composed before they are sent *)

LEMMA StepWrites ==
  Shape /\ [Next]_vars => WritesAreChecked' /\ PreReadAsksRight' /\ SetIsComposed'
<1>. SUFFICES ASSUME Shape, [Next]_vars, NEW u \in Threads
     PROVE  /\ pc'[u] \in {"pre", "set"} \/ (pc'[u] = "wait" /\ call'[u].kind = "write")
                 => call'[u].id \in Channels /\ call'[u].value \in Values \cup {TooLarge}
            /\ pc'[u] = "pre" => reg'[u] = RegisterOf[call'[u].id]
            /\ pc'[u] = "set" =>
                 /\ call'[u].value \in Values
                 /\ Whole(frame'[u])
                 /\ frame'[u].kind = "full" /\ frame'[u].ok =>
                      /\ frame'[u].reg = RegisterOf[call'[u].id]
                      /\ frame'[u].vals[call'[u].id] = call'[u].value
  BY DEF WritesAreChecked, PreReadAsksRight, SetIsComposed, Whole
<1>. DEFINE Same == pc'[u] = pc[u] /\ call'[u] = call[u] /\ reg'[u] = reg[u]
                      /\ frame'[u] = frame[u]
<1>1. CASE Same
  BY <1>1 DEF Shape, WritesAreChecked, PreReadAsksRight, SetIsComposed
<1>2. ASSUME NEW k \in Offered, Admit(u, k), pc'[u] = "wait"
      PROVE  call'[u].kind = "write" =>
               call'[u].id \in Channels /\ call'[u].value \in Values \cup {TooLarge}
  <2>1. call'[u] = k
    BY <1>2 DEF Admit, Shape, TypeOK
  <2>. QED BY <1>2, <2>1, AdmittedCalls DEF Admit
<1>3. ASSUME Acquire(u), pc'[u] = "pre"
      PROVE  /\ call'[u].id \in Channels /\ call'[u].value \in Values \cup {TooLarge}
             /\ reg'[u] = RegisterOf[call'[u].id]
  <2>1. call[u].kind = "write" /\ reg' = [reg EXCEPT ![u] = RegisterOf[call[u].id]]
    BY <1>3 DEF Acquire, NextRequest, Shape, TypeOK
  <2>. QED BY <1>3, <2>1 DEF Acquire, Shape, WritesAreChecked, TypeOK
<1>4. ASSUME PreRead(u), pc'[u] = "set"
      PROVE  /\ call'[u].id \in Channels
             /\ call'[u].value \in Values
             /\ Whole(frame'[u])
             /\ frame'[u].kind = "full" /\ frame'[u].ok =>
                  /\ frame'[u].reg = RegisterOf[call'[u].id]
                  /\ frame'[u].vals[call'[u].id] = call'[u].value
  <2>1. PICK f \in Answers(reg[u]) :
          /\ frame' = [frame EXCEPT ![u] = ComposeRecord(f, call[u])]
          /\ call[u].value # TooLarge
    <3>1. PICK f \in Answers(reg[u]) :
            /\ frame' = [frame EXCEPT ![u] = ComposeRecord(f, call[u])]
            /\ \/ Finish(u, "ValueOutOfRange")
               \/ Finish(u, "Exception")
               \/ call[u].value # TooLarge
      BY <1>4 DEF PreRead
    <3>2. \A exn \in {"ValueOutOfRange", "Exception"} : ~Finish(u, exn)
      BY <1>4 DEF Finish, Shape, TypeOK
    <3>. QED BY <3>1, <3>2
  <2>2. f \in Frames /\ Whole(f)
    BY ReadsFrames DEF Shape
  <2>3. /\ call' = call
        /\ frame'[u] = ComposeRecord(f, call[u])
        /\ call[u].id \in Channels /\ call[u].value \in Values
        /\ reg[u] = RegisterOf[call[u].id]
    BY <1>4, <2>1 DEF PreRead, Shape, WritesAreChecked, PreReadAsksRight, TypeOK
  <2>4. ASSUME f.kind = "full", f.ok
        PROVE  /\ f.reg = reg[u]
               /\ ComposeRecord(f, call[u]).vals[call[u].id] = call[u].value
    <3>1. f.reg = reg[u]
      BY <2>4, AnswersToTruth DEF Shape, TypeOK
    <3>. QED BY <2>2, <2>3, <2>4, <3>1 DEF ComposeRecord, Frames
  <2>. QED BY <2>2, <2>3, <2>4, ComposeKeepsFrame
<1>5. CASE Quiet
  BY <1>1, <1>5, QuietSteps
<1>6. ASSUME NEW t \in Threads, t # u, ThreadStep(t) PROVE Same
  BY <1>6, OtherThreads DEF Shape
<1>7. CASE ThreadStep(u)
  <2>1. CASE pc'[u] \in {"idle", "read", "restart", "leave", "answer"}
    BY <2>1
  <2>2. CASE pc'[u] = "wait" /\ \E k \in Offered : Admit(u, k)
    BY <1>2, <2>2
  <2>3. CASE pc'[u] = "pre" /\ Acquire(u)
    BY <1>3, <2>3
  <2>4. CASE pc'[u] = "set" /\ PreRead(u)
    BY <1>4, <2>4
  <2>. QED BY <1>7, <2>1, <2>2, <2>3, <2>4, WaysToWrite DEF Shape
<1>. QED BY <1>1, <1>5, <1>6, <1>7, Steps

LEMMA StepShape == Shape /\ [Next]_vars => Shape'
<1>. SUFFICES ASSUME Shape, [Next]_vars PROVE Shape'
  OBVIOUS
<1>1. LateIsComposed'
  <2>1. CASE late' \subseteq late
    BY <2>1 DEF Shape, LateIsComposed, Whole
  <2>2. ASSUME NEW t \in Threads, pc[t] = "set", frame[t].kind = "full", late' = {SetOf(t)}
        PROVE  LateIsComposed'
    BY <2>2 DEF Shape, SetIsComposed, LateIsComposed, SetOf, Whole
  <2>. QED BY <2>1, <2>2, LateSteps
<1>. QED BY <1>1, StepTypes, StepWrites DEF Shape

-----------------------------------------------------------------------------
(* Mutual exclusion *)

LEMMA StepConversation ==
  TypeOK /\ OneConversation /\ [Next]_vars => OneConversation'
<1>. SUFFICES ASSUME TypeOK, OneConversation, [Next]_vars,
                     NEW u \in Threads, InConversation(u)'
     PROVE  lock' = u
  BY DEF OneConversation
<1>1. CASE Quiet
  BY <1>1, QuietSteps DEF OneConversation, InConversation
<1>2. ASSUME NEW t \in Threads, ThreadStep(t) PROVE lock' = u
  <2>1. t # u => InConversation(u)
    BY <1>2, OtherThreads DEF InConversation
  <2>2. CASE Acquire(t)
    BY <2>1, <2>2, ConstantsAssumption DEF Acquire, LockFree, OneConversation
  <2>3. CASE Leave(t)
    <3>1. lock = t /\ ~InConversation(t)'
      BY <2>3 DEF Leave, OneConversation, InConversation, TypeOK
    <3>. QED BY <2>1, <3>1 DEF OneConversation
  <2>4. CASE \E k \in Offered : Reject(t, k) \/ Admit(t, k)
    BY <2>1, <2>4 DEF Reject, Admit, OneConversation, InConversation, TypeOK
  <2>5. CASE Respond(t)
    BY <2>1, <2>5 DEF Respond, OneConversation, InConversation, TypeOK
  <2>6. CASE InConversation(t) /\ UNCHANGED lock
    BY <2>1, <2>6 DEF OneConversation
  <2>7. ReadOk(t) \/ ReadFails(t) \/ ReadBroken(t) \/ Restart(t) \/ PreReadFails(t)
          \/ PreReadBare(t) \/ PreRead(t) \/ SetConfirmed(t) \/ SetUnconfirmed(t)
          \/ SetIgnored(t) => InConversation(t) /\ UNCHANGED lock
    BY DEF ReadOk, ReadFails, ReadBroken, Restart, PreReadFails, PreReadBare, PreRead,
           SetConfirmed, SetUnconfirmed, SetIgnored, InConversation
  <2>. QED BY <1>2, <2>2, <2>3, <2>4, <2>5, <2>6, <2>7 DEF ThreadStep, Work
<1>. QED BY <1>1, <1>2, Steps

-----------------------------------------------------------------------------
(* Acknowledged writes *)

\* confirmed comes to rely on a new value in one action only.
LEMMA ConfirmedSteps ==
  ASSUME TypeOK, [Next]_vars
  PROVE  \/ \A c \in Channels : confirmed'[c] \in {confirmed[c], NoValue}
         \/ \E t \in Threads : SetConfirmed(t)
<1>. DEFINE Weaker == \A c \in Channels : confirmed'[c] \in {confirmed[c], NoValue}
<1>1. CASE UNCHANGED confirmed
  BY <1>1
<1>2. ASSUME NEW p, confirmed' = Ledger(p, NoValue) PROVE Weaker
  BY <1>2 DEF Ledger
<1>3. CASE Quiet
  <2>1. ASSUME NEW c \in Panel, NEW v \in Values, PanelChange(c, v) PROVE Weaker
    BY <2>1 DEF PanelChange, TypeOK
  <2>2. CASE Startup \/ Stop \/ Close \/ Unplug \/ Replug \/ UNCHANGED vars
    BY <1>1, <2>2 DEF Startup, Stop, Close, Unplug, Replug, vars, deviceVars
  <2>. QED BY <1>2, <1>3, <2>1, <2>2 DEF Quiet, Environment, LateTake
<1>4. ASSUME NEW t \in Threads, ThreadStep(t), ~SetConfirmed(t) PROVE Weaker
  <2>1. CASE SetUnconfirmed(t)
    BY <1>2, <2>1 DEF SetUnconfirmed
  <2>2. CASE \E k \in Offered : Reject(t, k) \/ Admit(t, k)
    BY <1>1, <2>2 DEF Reject, Admit, deviceVars
  <2>3. CASE Acquire(t) \/ Leave(t) \/ Respond(t)
    BY <1>1, <2>3 DEF Acquire, Leave, Respond, deviceVars
  <2>4. CASE ReadOk(t) \/ ReadFails(t) \/ ReadBroken(t) \/ Restart(t)
    BY <1>1, <2>4 DEF ReadOk, ReadFails, ReadBroken, Restart, deviceVars
  <2>5. CASE PreReadFails(t) \/ PreReadBare(t) \/ PreRead(t) \/ SetIgnored(t)
    BY <1>1, <2>5 DEF PreReadFails, PreReadBare, PreRead, SetIgnored, deviceVars
  <2>. QED BY <1>4, <2>1, <2>2, <2>3, <2>4, <2>5 DEF ThreadStep, Work
<1>. QED BY <1>3, <1>4, Steps

\* What a SET has to say about the other channels of its register for the device
\* to take it and lose no acknowledged write.
Faithful(p) ==
  p.frame.ok =>
    \A c \in Channels \ {p.id} :
      RegisterOf[c] = p.frame.reg /\ confirmed[c] # NoValue
        => p.frame.vals[c] = confirmed[c]

\* The device takes such a SET and the ledger is brought up to date: nothing is lost.
LEMMA TakesKeep ==
  ASSUME TypeOK, NoLostUpdate, NEW p \in [frame : Frames, id : Channels], NEW v,
         Faithful(p), DeviceTakes(p), confirmed' = Ledger(p, v),
         v # NoValue /\ p.frame.ok =>
           RegisterOf[p.id] = p.frame.reg /\ p.frame.vals[p.id] = v
  PROVE  NoLostUpdate'
<1>. SUFFICES ASSUME NEW c \in Channels, confirmed'[c] # NoValue
              PROVE  device'[c] = confirmed'[c]
  BY DEF NoLostUpdate
<1>1. device'[c] = IF RegisterOf[c] = p.frame.reg THEN p.frame.vals[c] ELSE device[c]
  BY DEF DeviceTakes
<1>2. CASE c = p.id
  BY <1>1, <1>2 DEF Ledger
<1>3. CASE c # p.id /\ RegisterOf[c] = p.frame.reg
  <2>1. p.frame.ok /\ confirmed'[c] = confirmed[c]
    BY <1>3 DEF Ledger
  <2>. QED BY <1>1, <1>3, <2>1 DEF Faithful
<1>4. CASE c # p.id /\ RegisterOf[c] # p.frame.reg
  BY <1>1, <1>4 DEF Ledger, NoLostUpdate
<1>. QED BY <1>2, <1>3, <1>4

LEMMA SetIsFaithful ==
  ASSUME Inductive, NEW t \in Threads, pc[t] = "set", frame[t].kind = "full"
  PROVE  SetOf(t) \in [frame : Frames, id : Channels] /\ Faithful(SetOf(t))
<1>1. frame[t] \in Frames /\ call[t].id \in Channels
  BY DEF Inductive, Shape, TypeOK, WritesAreChecked
<1>. QED BY <1>1 DEF SetOf, Faithful, Inductive, SnapshotKeepsConfirmed

LEMMA StepNoLostUpdate == Inductive /\ [Next]_vars => NoLostUpdate'
<1>. SUFFICES ASSUME Inductive, [Next]_vars PROVE NoLostUpdate'
  OBVIOUS
<1>0. TypeOK /\ NoLostUpdate
  BY DEF Inductive, Shape
<1>1. CASE UNCHANGED <<device, confirmed>>
  BY <1>0, <1>1 DEF NoLostUpdate
<1>2. CASE Quiet
  <2>1. ASSUME NEW c \in Panel, NEW v \in Values, PanelChange(c, v) PROVE NoLostUpdate'
    BY <1>0, <2>1 DEF PanelChange, NoLostUpdate, TypeOK
  <2>2. ASSUME NEW p \in late, LateTake(p) PROVE NoLostUpdate'
    <3>1. p \in [frame : Frames, id : Channels] /\ Faithful(p)
      BY <1>0 DEF Inductive, LateKeepsConfirmed, Faithful, TypeOK
    <3>. QED BY <1>0, <2>2, <3>1, TakesKeep DEF LateTake
  <2>3. CASE Startup \/ Stop \/ Close \/ Unplug \/ Replug \/ UNCHANGED vars
    BY <1>1, <2>3 DEF Startup, Stop, Close, Unplug, Replug, vars, deviceVars
  <2>. QED BY <1>2, <2>1, <2>2, <2>3 DEF Quiet, Environment
<1>3. ASSUME NEW t \in Threads, ThreadStep(t) PROVE NoLostUpdate'
  <2>1. CASE SetConfirmed(t)
    <3>1. SetOf(t) \in [frame : Frames, id : Channels] /\ Faithful(SetOf(t))
      BY <2>1, SetIsFaithful DEF SetConfirmed
    <3>2. frame[t].ok => /\ RegisterOf[call[t].id] = frame[t].reg
                         /\ frame[t].vals[call[t].id] = call[t].value
      BY <2>1 DEF SetConfirmed, Inductive, Shape, SetIsComposed
    <3>3. /\ DeviceTakes(SetOf(t))
          /\ confirmed' = Ledger(SetOf(t), call[t].value)
      BY <2>1 DEF SetConfirmed
    <3>4. SetOf(t).frame = frame[t] /\ SetOf(t).id = call[t].id
      BY DEF SetOf
    <3>. QED BY <1>0, <3>1, <3>2, <3>3, <3>4, TakesKeep
  <2>2. CASE SetUnconfirmed(t)
    <3>1. SetOf(t) \in [frame : Frames, id : Channels] /\ Faithful(SetOf(t))
      BY <2>2, SetIsFaithful DEF SetUnconfirmed
    <3>. QED BY <1>0, <2>2, <3>1, TakesKeep DEF SetUnconfirmed
  <2>3. CASE \E k \in Offered : Reject(t, k) \/ Admit(t, k)
    BY <1>1, <2>3 DEF Reject, Admit, deviceVars
  <2>4. CASE Acquire(t) \/ Leave(t) \/ Respond(t)
    BY <1>1, <2>4 DEF Acquire, Leave, Respond, deviceVars
  <2>5. CASE ReadOk(t) \/ ReadFails(t) \/ ReadBroken(t) \/ Restart(t)
    BY <1>1, <2>5 DEF ReadOk, ReadFails, ReadBroken, Restart, deviceVars
  <2>6. CASE PreReadFails(t) \/ PreReadBare(t) \/ PreRead(t) \/ SetIgnored(t)
    BY <1>1, <2>6 DEF PreReadFails, PreReadBare, PreRead, SetIgnored, deviceVars
  <2>. QED BY <1>3, <2>1, <2>2, <2>3, <2>4, <2>5, <2>6 DEF ThreadStep, Work
<1>. QED BY <1>2, <1>3, Steps

LEMMA StepLate == Inductive /\ [Next]_vars => LateKeepsConfirmed'
<1>. SUFFICES ASSUME Inductive, [Next]_vars, NEW p \in late', p.frame.ok,
                     NEW c \in Channels \ {p.id}, RegisterOf[c] = p.frame.reg,
                     confirmed'[c] # NoValue
              PROVE  p.frame.vals[c] = confirmed'[c]
  BY DEF LateKeepsConfirmed
<1>1. CASE \A d \in Channels : confirmed'[d] \in {confirmed[d], NoValue}
  <2>1. confirmed'[c] = confirmed[c]
    BY <1>1
  <2>2. CASE p \in late
    BY <2>1, <2>2 DEF Inductive, LateKeepsConfirmed
  <2>3. ASSUME NEW t \in Threads, pc[t] = "set", frame[t].kind = "full", p = SetOf(t)
        PROVE  p.frame.vals[c] = confirmed'[c]
    BY <2>1, <2>3, SetIsFaithful DEF Faithful
  <2>. QED BY <2>2, <2>3, LateSteps
<1>2. ASSUME NEW t \in Threads, SetConfirmed(t) PROVE FALSE
  BY <1>2 DEF SetConfirmed
<1>. QED BY <1>1, <1>2, ConfirmedSteps DEF Inductive, Shape

LEMMA StepSnapshot == Inductive /\ [Next]_vars => SnapshotKeepsConfirmed'
<1>. SUFFICES ASSUME Inductive, [Next]_vars,
                     NEW u \in Threads, pc'[u] = "set",
                     frame'[u].kind = "full", frame'[u].ok,
                     NEW c \in Channels \ {call'[u].id}, RegisterOf[c] = frame'[u].reg,
                     confirmed'[c] # NoValue
              PROVE  frame'[u].vals[c] = confirmed'[c]
  BY DEF SnapshotKeepsConfirmed
<1>0. TypeOK
  BY DEF Inductive, Shape
<1>1. ASSUME pc[u] = "set", call'[u] = call[u], frame'[u] = frame[u],
             confirmed'[c] = confirmed[c]
      PROVE  frame'[u].vals[c] = confirmed'[c]
  BY <1>1 DEF Inductive, SnapshotKeepsConfirmed
<1>2. \/ confirmed'[c] = confirmed[c]
      \/ \E t \in Threads : SetConfirmed(t)
  BY <1>0, ConfirmedSteps
<1>3. CASE Quiet
  <2>1. ~ \E t \in Threads : SetConfirmed(t)
    BY <1>0, <1>3, QuietSteps DEF SetConfirmed, Finish, TypeOK
  <2>. QED BY <1>1, <1>2, <1>3, <2>1, QuietSteps
<1>4. ASSUME NEW t \in Threads, ThreadStep(t), t # u
      PROVE  frame'[u].vals[c] = confirmed'[c]
  <2>1. pc[u] = "set" /\ call'[u] = call[u] /\ frame'[u] = frame[u]
    BY <1>0, <1>4, OtherThreads
  <2>2. ASSUME NEW w \in Threads, SetConfirmed(w) PROVE FALSE
    <3>1. pc[w] = "set" /\ pc'[w] = "leave"
      BY <1>0, <2>2 DEF SetConfirmed, Finish, TypeOK
    <3>2. lock = u /\ lock = w
      BY <2>1, <3>1 DEF Inductive, OneConversation, InConversation
    <3>. QED BY <3>1, <3>2
  <2>. QED BY <1>1, <1>2, <2>1, <2>2
<1>5. CASE ThreadStep(u)
  <2>1. PreRead(u)
    BY <1>0, <1>5, WaysToWrite
  <2>2. PICK f \in Answers(reg[u]) : frame' = [frame EXCEPT ![u] = ComposeRecord(f, call[u])]
    BY <2>1 DEF PreRead
  <2>3. frame'[u] = ComposeRecord(f, call[u]) /\ call' = call /\ reg[u] \in Registers
          /\ confirmed' = confirmed
    BY <1>0, <2>1, <2>2 DEF PreRead, TypeOK
  <2>4. f \in Frames /\ Whole(f)
    BY <1>0, ReadsFrames
  <2>5. f.kind = "full" /\ f.ok /\ f.reg = RegisterOf[c]
    BY <2>3, <2>4, ComposeKeepsFrame
  <2>6. f.reg = reg[u] /\ f.vals = Content(reg[u], device)
    BY <2>3, <2>5, AnswersToTruth
  <2>7. frame'[u].vals[c] = f.vals[c]
    BY <2>3, <2>4 DEF ComposeRecord, Frames
  <2>8. f.vals[c] = device[c]
    BY <2>5, <2>6 DEF Content
  <2>9. device[c] = confirmed[c]
    BY <2>3 DEF Inductive, NoLostUpdate
  <2>. QED BY <2>3, <2>7, <2>8, <2>9
<1>. QED BY <1>3, <1>4, <1>5, Steps

LEMMA StepInductive == Inductive /\ [Next]_vars => Inductive'
BY StepShape, StepConversation, StepNoLostUpdate, StepLate, StepSnapshot DEF Inductive, Shape

-----------------------------------------------------------------------------
LEMMA AlwaysInductive == Spec => []Inductive
BY InitInductive, StepInductive, PTL DEF Spec

\* Every reachable state is well typed.
THEOREM Types == Spec => []TypeOK
<1>1. Inductive => TypeOK
  BY DEF Inductive, Shape
<1>. QED BY <1>1, AlwaysInductive, PTL

\* The one serial link carries one conversation at a time.
THEOREM MutualExclusion == Spec => []OneConversation
<1>1. Inductive => OneConversation
  BY DEF Inductive
<1>. QED BY <1>1, AlwaysInductive, PTL

\* What a PUT was acknowledged to have written stays on the device until the panel
\* changes it or a failed write of the same channel or a damaged pre-read of its
\* register intervenes; writes of other channels do not.
THEOREM AcknowledgedWritesStay == Spec => []NoLostUpdate
<1>1. Inductive => NoLostUpdate
  BY DEF Inductive
<1>. QED BY <1>1, AlwaysInductive, PTL

\* A SET on an intact pre-read carries no older value of another channel than the
\* last acknowledged one.
THEOREM SnapshotsAreFresh == Spec => []SnapshotKeepsConfirmed
<1>1. Inductive => SnapshotKeepsConfirmed
  BY DEF Inductive
<1>. QED BY <1>1, AlwaysInductive, PTL

-----------------------------------------------------------------------------
(* The inductive invariants *)

\* What is known of a call on its way to its answer: only writes touch the device,
\* and only at the very end; a SET that was sent does not end in a client error,
\* and a write that ends well has sent one.
Told(t) ==
  /\ pc[t] \in {"read", "restart"} => call[t].kind # "write"
  /\ pc[t] \in {"pre", "set"} => call[t].kind = "write"
  /\ applied[t] => pc[t] \in {"leave", "answer"} /\ call[t].kind = "write"
  /\ pc[t] = "leave" /\ applied[t] => outcome[t] # "ValueOutOfRange"
  /\ pc[t] = "leave" /\ call[t].kind = "write" /\ outcome[t] = "ok"
       /\ frame[t].kind # "bare" => applied[t]
  /\ status[t] # 0 => pc[t] = "answer"
  /\ status[t] \in {400, 404, 409} => ~applied[t]
  /\ status[t] = 200 /\ call[t].kind = "write" /\ frame[t].kind # "bare" => applied[t]
AnswersTellTruth == \A t \in Threads : Told(t)

\* What is known of values read: since has all that the device held while the
\* thread has had the lock, and nothing is kept from one call to the next.
Held(t) ==
  /\ ~InConversation(t) => data[t] = NoValues
  /\ \A c \in Channels : data[t][c] \in Values => data[t][c] \in since[t][c]
  /\ lock = t => \A c \in Channels : device[c] \in since[t][c]
  /\ pc[t] = "set" /\ frame[t].kind = "full" /\ frame[t].ok =>
       \A c \in Channels \ {call[t].id} :
         RegisterOf[c] = frame[t].reg => frame[t].vals[c] \in since[t][c]
ValuesWereHeld == \A t \in Threads : Held(t)

\* What is known of the port: a link is only restarted by a connected service and not after
\* it was closed, and nothing is under way before the service has tried to connect.
PortIsOwned ==
  /\ NoOrphanPort
  /\ \A t \in Threads : pc[t] = "restart" => connected /\ phase # "closed"
  /\ phase = "starting" =>
       port = "closed" /\ ~connected /\ \A t \in Threads : pc[t] = "idle"

-----------------------------------------------------------------------------
(* What an answer says *)

LEMMA OthersAnswers ==
  ASSUME TypeOK, NEW t \in Threads, ThreadStep(t), NEW u \in Threads, u # t
  PROVE  applied'[u] = applied[u] /\ outcome'[u] = outcome[u] /\ status'[u] = status[u]
           /\ data'[u] = data[u]
<1>. USE DEF TypeOK
<1>1. CASE \E k \in Offered : Reject(t, k) \/ Admit(t, k)
  BY <1>1 DEF Reject, Admit
<1>2. CASE Acquire(t) \/ Leave(t) \/ Respond(t)
  BY <1>2 DEF Acquire, Leave, Respond
<1>3. CASE ReadOk(t) \/ ReadFails(t) \/ ReadBroken(t) \/ Restart(t)
  BY <1>3 DEF ReadOk, ReadFails, ReadBroken, Restart, Finish, callVars
<1>4. CASE PreReadFails(t) \/ PreReadBare(t) \/ PreRead(t)
  BY <1>4 DEF PreReadFails, PreReadBare, PreRead, Finish
<1>5. CASE SetConfirmed(t) \/ SetUnconfirmed(t) \/ SetIgnored(t)
  BY <1>5 DEF SetConfirmed, SetUnconfirmed, SetIgnored, Finish
<1>. QED BY <1>1, <1>2, <1>3, <1>4, <1>5 DEF ThreadStep, Work

LEMMA QuietAnswers ==
  ASSUME Quiet
  PROVE  UNCHANGED <<applied, outcome, status, data>>
<1>1. CASE Startup \/ Stop \/ Close
  BY <1>1 DEF Startup, Stop, Close, callVars
<1>2. CASE Environment
  BY <1>2 DEF Environment, PanelChange, LateTake, Unplug, Replug, callVars
<1>3. CASE UNCHANGED vars
  BY <1>3 DEF vars, callVars
<1>. QED BY <1>1, <1>2, <1>3 DEF Quiet

\* The step of a thread keeps what is known of its own answer.
LEMMA OwnAnswer ==
  ASSUME TypeOK, NEW t \in Threads, ThreadStep(t), Told(t)
  PROVE  Told(t)'
<1>. USE DEF TypeOK, Told, Places
<1>1. ASSUME NEW k \in Offered, Reject(t, k) PROVE Told(t)'
  <2>1. Rejection(k) \in {400, 404, 409}
    BY <1>1 DEF Reject, Rejection
  <2>. QED BY <1>1, <2>1 DEF Reject
<1>2. ASSUME NEW k \in Offered, Admit(t, k) PROVE Told(t)'
  BY <1>2 DEF Admit
<1>3. CASE Acquire(t)
  BY <1>3 DEF Acquire, NextRequest
<1>4. CASE Leave(t)
  <2>1. Answer(t) \in {400, 404, 409} => outcome[t] = "ValueOutOfRange" \/ call[t].kind = "read"
    BY DEF Answer, StatusOf, Outcomes
  <2>2. Answer(t) = 200 => outcome[t] = "ok"
    BY DEF Answer, StatusOf, Outcomes
  <2>3. frame'[t].kind = frame[t].kind
    BY <1>4 DEF Leave, NoFrame
  <2>4. /\ pc[t] = "leave" /\ pc'[t] = "answer" /\ status'[t] = Answer(t)
        /\ call' = call /\ applied' = applied
    BY <1>4 DEF Leave
  <2>. QED BY <2>1, <2>2, <2>3, <2>4
<1>5. CASE Respond(t)
  BY <1>5 DEF Respond
<1>6. CASE ReadOk(t)
  BY <1>6 DEF ReadOk, NextRequest
<1>7. CASE ReadFails(t) \/ ReadBroken(t) \/ Restart(t)
  BY <1>7 DEF ReadFails, ReadBroken, Restart, Finish, callVars
<1>8. CASE PreReadFails(t)
  BY <1>8 DEF PreReadFails, Finish
<1>9. CASE PreReadBare(t)
  BY <1>9 DEF PreReadBare, Finish
<1>10. CASE PreRead(t)
  BY <1>10 DEF PreRead, Finish
<1>11. CASE SetConfirmed(t)
  BY <1>11 DEF SetConfirmed, Finish
<1>12. CASE SetUnconfirmed(t)
  BY <1>12 DEF SetUnconfirmed, Finish, Unverified
<1>13. CASE SetIgnored(t)
  BY <1>13 DEF SetIgnored, Finish, Unverified
<1>. QED
  BY <1>1, <1>2, <1>3, <1>4, <1>5, <1>6, <1>7, <1>8, <1>9, <1>10, <1>11, <1>12, <1>13
  DEF ThreadStep, Work

LEMMA StepAnswers == TypeOK /\ AnswersTellTruth /\ [Next]_vars => AnswersTellTruth'
<1>. SUFFICES ASSUME TypeOK, AnswersTellTruth, [Next]_vars, NEW u \in Threads
     PROVE  Told(u)'
  BY DEF AnswersTellTruth
<1>0. Told(u)
  BY DEF AnswersTellTruth
<1>1. CASE Quiet
  BY <1>0, <1>1, QuietSteps, QuietAnswers DEF Told
<1>2. ASSUME NEW t \in Threads, ThreadStep(t), t # u PROVE Told(u)'
  BY <1>0, <1>2, OtherThreads, OthersAnswers DEF Told
<1>3. CASE ThreadStep(u)
  BY <1>0, <1>3, OwnAnswer
<1>. QED BY <1>1, <1>2, <1>3, Steps

LEMMA AlwaysTold == Spec => []AnswersTellTruth
<1>1. ASSUME Init, NEW t \in Threads PROVE Told(t)
  <2>1. pc[t] = "idle" /\ status[t] = 0
    BY <1>1 DEF Init
  <2>2. ~applied[t]
    BY <1>1, Zenon DEF Init
  <2>. QED BY <2>1, <2>2 DEF Told
<1>2. Init => AnswersTellTruth
  BY <1>1 DEF AnswersTellTruth
<1>. QED BY <1>2, StepAnswers, Types, PTL DEF Spec

\* A call that is answered 400, 404 or 409 has changed nothing on the device.
THEOREM ClientErrorsAreHarmless == Spec => []ClientErrorNeverWrites
<1>1. AnswersTellTruth => ClientErrorNeverWrites
  BY DEF AnswersTellTruth, Told, ClientErrorNeverWrites
<1>. QED BY <1>1, AlwaysTold, PTL

\* A PUT that is answered 200 was taken by the device, unless it was found to be
\* set already.
THEOREM AcknowledgedWritesHappened == Spec => []AcknowledgedIsApplied
<1>1. AnswersTellTruth => AcknowledgedIsApplied
  BY DEF AnswersTellTruth, Told, AcknowledgedIsApplied
<1>. QED BY <1>1, AlwaysTold, PTL

-----------------------------------------------------------------------------
(* What a read shows *)

\* Of whoever keeps the lock: since forgets nothing, and follows the device.
LEMMA HolderRemembers ==
  ASSUME TypeOK, [Next]_vars, NEW u \in Threads, lock = u, lock' = u,
         \A c \in Channels : device[c] \in since[u][c]
  PROVE  \A c \in Channels : since[u][c] \subseteq since'[u][c] /\ device'[c] \in since'[u][c]
<1>. USE DEF TypeOK
<1>. DEFINE Goal == \A c \in Channels :
                      since[u][c] \subseteq since'[u][c] /\ device'[c] \in since'[u][c]
<1>1. CASE UNCHANGED <<device, since>>
  BY <1>1
<1>2. ASSUME NEW p, DeviceTakes(p) PROVE Goal
  BY <1>2 DEF DeviceTakes
<1>3. CASE Quiet
  <2>1. ASSUME NEW c \in Panel, NEW v \in Values, PanelChange(c, v) PROVE Goal
    BY <2>1, ConstantsAssumption DEF PanelChange
  <2>2. CASE Startup \/ Stop \/ Close \/ Unplug \/ Replug \/ UNCHANGED vars
    BY <1>1, <2>2 DEF Startup, Stop, Close, Unplug, Replug, vars, deviceVars
  <2>. QED BY <1>2, <1>3, <2>1, <2>2 DEF Quiet, Environment, LateTake
<1>4. ASSUME NEW t \in Threads, ThreadStep(t) PROVE Goal
  <2>1. CASE Acquire(t) \/ Leave(t)
    BY <2>1, ConstantsAssumption DEF Acquire, LockFree, Leave, Released
  <2>2. CASE SetConfirmed(t) \/ SetUnconfirmed(t)
    BY <1>2, <2>2 DEF SetConfirmed, SetUnconfirmed
  <2>3. CASE \E k \in Offered : Reject(t, k) \/ Admit(t, k)
    BY <1>1, <2>3 DEF Reject, Admit, deviceVars
  <2>4. CASE Respond(t) \/ SetIgnored(t)
    BY <1>1, <2>4 DEF Respond, SetIgnored, deviceVars
  <2>5. CASE ReadOk(t) \/ ReadFails(t) \/ ReadBroken(t) \/ Restart(t)
    BY <1>1, <2>5 DEF ReadOk, ReadFails, ReadBroken, Restart, deviceVars
  <2>6. CASE PreReadFails(t) \/ PreReadBare(t) \/ PreRead(t)
    BY <1>1, <2>6 DEF PreReadFails, PreReadBare, PreRead, deviceVars
  <2>. QED BY <1>4, <2>1, <2>2, <2>3, <2>4, <2>5, <2>6 DEF ThreadStep, Work
<1>. QED BY <1>3, <1>4, Steps

\* Nobody takes the lock from its holder, and nobody takes it for another thread.
LEMMA OthersLock ==
  ASSUME TypeOK, OneConversation,
         NEW t \in Threads, ThreadStep(t), NEW u \in Threads, u # t
  PROVE  lock = u <=> lock' = u
<1>1. CASE Acquire(t)
  BY <1>1, ConstantsAssumption DEF Acquire, LockFree
<1>2. CASE Leave(t)
  BY <1>2, ConstantsAssumption DEF Leave, Released, OneConversation, InConversation
<1>3. CASE (\E k \in Offered : Reject(t, k) \/ Admit(t, k)) \/ Respond(t)
  BY <1>3 DEF Reject, Admit, Respond
<1>4. CASE ReadOk(t) \/ ReadFails(t) \/ ReadBroken(t) \/ Restart(t)
  BY <1>4 DEF ReadOk, ReadFails, ReadBroken, Restart
<1>5. CASE PreReadFails(t) \/ PreReadBare(t) \/ PreRead(t)
  BY <1>5 DEF PreReadFails, PreReadBare, PreRead
<1>6. CASE SetConfirmed(t) \/ SetUnconfirmed(t) \/ SetIgnored(t)
  BY <1>6 DEF SetConfirmed, SetUnconfirmed, SetIgnored
<1>. QED BY <1>1, <1>2, <1>3, <1>4, <1>5, <1>6 DEF ThreadStep, Work

\* A step in which a thread stays where it is, with the lock or without.
LEMMA StayingHeld ==
  ASSUME TypeOK, OneConversation, [Next]_vars, NEW u \in Threads, Held(u),
         pc'[u] = pc[u], call'[u] = call[u], frame'[u] = frame[u], data'[u] = data[u],
         lock = u <=> lock' = u
  PROVE  Held(u)'
<1>1. CASE lock = u
  BY <1>1, HolderRemembers DEF Held, InConversation
<1>2. CASE lock # u
  <2>1. ~InConversation(u) /\ data[u] = NoValues
    BY <1>2 DEF OneConversation, Held
  <2>. QED BY <1>2, <2>1, ConstantsAssumption DEF Held, InConversation, NoValues
<1>. QED BY <1>1, <1>2

\* What a valid frame adds to the values read is on the device as it is read.
LEMMA ReadShowsDevice ==
  ASSUME TypeOK, NEW u \in Threads, NEW f \in Answers(reg[u]), HeaderCheck(f),
         NEW c \in Channels, ParseRecords(f, data[u])[c] \in Values
  PROVE  ParseRecords(f, data[u])[c] \in {data[u][c], device[c]}
<1>1. CASE RegisterOf[c] = f.reg /\ f.kind = "full"
  <2>1. f.vals = Content(reg[u], device) /\ f.reg = reg[u]
    BY <1>1, AnswersToTruth DEF TypeOK, HeaderCheck
  <2>. QED BY <1>1, <2>1 DEF ParseRecords, Content
<1>2. CASE ~(RegisterOf[c] = f.reg /\ f.kind = "full")
  BY <1>2, ConstantsAssumption DEF ParseRecords
<1>. QED BY <1>1, <1>2

LEMMA OwnHeld ==
  ASSUME TypeOK, OneConversation, [Next]_vars,
         NEW u \in Threads, ThreadStep(u), Held(u)
  PROVE  Held(u)'
<1>. USE DEF TypeOK
<1>1. CASE (\E k \in Offered : Reject(u, k) \/ Admit(u, k)) \/ Respond(u)
  <2>1. /\ pc'[u] \in {"idle", "wait", "answer"} /\ ~InConversation(u)
        /\ UNCHANGED <<lock, device, since, data>>
    BY <1>1 DEF Reject, Admit, Respond, InConversation, deviceVars
  <2>. QED BY <2>1 DEF Held, InConversation
<1>2. CASE Acquire(u)
  <2>1. /\ data'[u] = NoValues /\ UNCHANGED device /\ pc'[u] # "set"
        /\ \A c \in Channels : since'[u][c] = {device[c]}
    BY <1>2 DEF Acquire, NextRequest, Held, InConversation, deviceVars
  <2>. QED BY <2>1, ConstantsAssumption DEF Held, NoValues
<1>3. CASE Leave(u)
  <2>1. data'[u] = NoValues /\ lock' # u /\ pc'[u] = "answer"
    BY <1>3, ConstantsAssumption DEF Leave, Released
  <2>. QED BY <2>1, ConstantsAssumption DEF Held, NoValues
<1>4. CASE ReadOk(u)
  <2>1. PICK f \in Answers(reg[u]) :
          HeaderCheck(f) /\ data' = [data EXCEPT ![u] = ParseRecords(f, data[u])]
    BY <1>4 DEF ReadOk
  <2>2. /\ lock = u /\ InConversation(u)' /\ pc'[u] # "set"
        /\ UNCHANGED <<lock, device, since>>
    BY <1>4 DEF ReadOk, NextRequest, OneConversation, InConversation
  <2>3. \A c \in Channels : data'[u][c] \in Values => data'[u][c] \in {data[u][c], device[c]}
    BY <2>1, ReadShowsDevice
  <2>. QED BY <2>2, <2>3 DEF Held
<1>5. CASE ReadFails(u) \/ ReadBroken(u) \/ Restart(u) \/ PreReadFails(u) \/ PreReadBare(u)
             \/ SetIgnored(u)
  <2>1. InConversation(u) /\ InConversation(u)' /\ pc'[u] # "set"
    BY <1>5 DEF ReadFails, ReadBroken, Restart, PreReadFails, PreReadBare, SetIgnored,
                Finish, InConversation
  <2>2. UNCHANGED <<lock, device, since, data>>
    BY <1>5 DEF ReadFails, ReadBroken, Restart, PreReadFails, PreReadBare, SetIgnored,
                callVars, deviceVars
  <2>. QED BY <2>1, <2>2 DEF Held
<1>6. CASE PreRead(u)
  <2>1. PICK f \in Answers(reg[u]) : frame' = [frame EXCEPT ![u] = ComposeRecord(f, call[u])]
    BY <1>6 DEF PreRead
  <2>2. /\ lock = u /\ InConversation(u)' /\ frame'[u] = ComposeRecord(f, call[u])
        /\ UNCHANGED <<lock, device, since, data, call>>
    BY <1>6, <2>1 DEF PreRead, Finish, OneConversation, InConversation
  <2>3. f \in Frames /\ Whole(f)
    BY ReadsFrames
  <2>4. ASSUME frame'[u].kind = "full", frame'[u].ok,
               NEW c \in Channels \ {call[u].id}, RegisterOf[c] = frame'[u].reg
        PROVE  frame'[u].vals[c] = device[c]
    <3>1. f.kind = "full" /\ f.ok /\ f.reg = RegisterOf[c]
      BY <2>2, <2>3, <2>4, ComposeKeepsFrame
    <3>2. f.vals = Content(reg[u], device) /\ f.reg = reg[u]
      BY <3>1, AnswersToTruth
    <3>3. frame'[u].vals[c] = f.vals[c]
      BY <2>2, <2>3, <2>4 DEF ComposeRecord, Frames
    <3>4. Content(reg[u], device)[c] = device[c]
      BY <3>1, <3>2 DEF Content
    <3>. QED BY <3>2, <3>3, <3>4
  <2>. QED BY <2>2, <2>4 DEF Held, InConversation
<1>7. CASE SetConfirmed(u) \/ SetUnconfirmed(u)
  <2>1. /\ lock = u /\ InConversation(u) /\ InConversation(u)' /\ pc'[u] # "set"
        /\ UNCHANGED <<lock, data>>
    BY <1>7 DEF SetConfirmed, SetUnconfirmed, Finish, OneConversation, InConversation
  <2>. QED BY <2>1, HolderRemembers DEF Held
<1>. QED BY <1>1, <1>2, <1>3, <1>4, <1>5, <1>6, <1>7 DEF ThreadStep, Work

LEMMA StepHeld ==
  TypeOK /\ OneConversation /\ ValuesWereHeld /\ [Next]_vars => ValuesWereHeld'
<1>. SUFFICES ASSUME TypeOK, OneConversation, ValuesWereHeld, [Next]_vars,
                     NEW u \in Threads
     PROVE  Held(u)'
  BY DEF ValuesWereHeld
<1>0. Held(u)
  BY DEF ValuesWereHeld
<1>1. CASE Quiet
  BY <1>0, <1>1, QuietSteps, QuietAnswers, StayingHeld
<1>2. ASSUME NEW t \in Threads, ThreadStep(t), t # u PROVE Held(u)'
  BY <1>0, <1>2, OtherThreads, OthersAnswers, OthersLock, StayingHeld
<1>3. CASE ThreadStep(u)
  BY <1>0, <1>3, OwnHeld
<1>. QED BY <1>1, <1>2, <1>3, Steps

LEMMA AlwaysHeld == Spec => []ValuesWereHeld
<1>1. ASSUME Init, NEW t \in Threads PROVE Held(t)
  <2>1. pc[t] = "idle" /\ data[t] = NoValues /\ lock # t
    BY <1>1, ConstantsAssumption DEF Init
  <2>2. \A c \in Channels : data[t][c] \notin Values
    BY <2>1, ConstantsAssumption DEF NoValues
  <2>. QED BY <2>1, <2>2 DEF Held
<1>2. Init => ValuesWereHeld
  BY <1>1 DEF ValuesWereHeld
<1>. QED BY <1>2, StepHeld, Types, MutualExclusion, PTL DEF Spec

\* A value read from the payload of a frame was on the device while the call had
\* the lock.
THEOREM ReadsShowTheDevice == Spec => []ReadsWereHeld
<1>1. ValuesWereHeld => ReadsWereHeld
  BY DEF ValuesWereHeld, Held, ReadsWereHeld
<1>. QED BY <1>1, AlwaysHeld, PTL

-----------------------------------------------------------------------------
(* What a SET does to the rest of its register *)

LEMMA SetStep ==
  ASSUME TypeOK, OneConversation, ValuesWereHeld, [Next]_vars,
         NEW t \in Threads, pc[t] = "set", pc'[t] = "leave", frame[t].ok,
         NEW c \in Channels \ {call[t].id}, device'[c] # device[c]
  PROVE  device'[c] \in since[t][c]
<1>. USE DEF TypeOK
<1>1. ThreadStep(t)
  <2>1. ~Quiet
    BY QuietSteps
  <2>2. \A u \in Threads \ {t} : ~ThreadStep(u)
    BY OtherThreads
  <2>. QED BY <2>1, <2>2, Steps
<1>2. CASE SetConfirmed(t) \/ SetUnconfirmed(t)
  <2>1. frame[t].kind = "full" /\ DeviceTakes(SetOf(t))
    BY <1>2 DEF SetConfirmed, SetUnconfirmed
  <2>2. RegisterOf[c] = frame[t].reg /\ device'[c] = frame[t].vals[c]
    BY <2>1 DEF DeviceTakes, SetOf
  <2>. QED BY <2>1, <2>2 DEF ValuesWereHeld, Held
<1>3. CASE SetIgnored(t)
  BY <1>3 DEF SetIgnored
<1>4. CASE (\E k \in Offered : Reject(t, k) \/ Admit(t, k)) \/ Acquire(t) \/ Leave(t)
             \/ Respond(t)
  BY <1>4 DEF Reject, Admit, Acquire, Leave, Respond
<1>5. CASE ReadOk(t) \/ ReadFails(t) \/ ReadBroken(t) \/ Restart(t) \/ PreReadFails(t)
             \/ PreReadBare(t) \/ PreRead(t)
  BY <1>5 DEF ReadOk, ReadFails, ReadBroken, Restart, PreReadFails, PreReadBare, PreRead
<1>. QED BY <1>1, <1>2, <1>3, <1>4, <1>5 DEF ThreadStep, Work

\* The SET of an intact pre-read puts a sibling channel at worst back to a value it
\* had during the same call.
THEOREM SetsOnlyRevert == Spec => SiblingsOnlyRevert
<1>. DEFINE Step == \A t \in Threads : pc[t] = "set" /\ pc'[t] = "leave" /\ frame[t].ok =>
                      \A c \in Channels \ {call[t].id} :
                        device'[c] # device[c] => device'[c] \in since[t][c]
<1>1. TypeOK /\ OneConversation /\ ValuesWereHeld /\ [Next]_vars => [Step]_vars
  BY SetStep
<1>. QED BY <1>1, AlwaysHeld, Types, MutualExclusion, PTL DEF Spec, SiblingsOnlyRevert

-----------------------------------------------------------------------------
(* The port *)

LEMMA StepPort ==
  TypeOK /\ OneConversation /\ PortIsOwned /\ [Next]_vars => PortIsOwned'
<1>. SUFFICES ASSUME TypeOK, OneConversation, PortIsOwned, [Next]_vars
     PROVE  PortIsOwned'
  OBVIOUS
<1>. USE DEF PortIsOwned, NoOrphanPort
<1>1. CASE UNCHANGED vars
  BY <1>1 DEF vars, linkVars
<1>2. LockFree => \A t \in Threads : pc[t] # "restart"
  BY ConstantsAssumption DEF LockFree, OneConversation, InConversation
<1>3. CASE Startup
  BY <1>2, <1>3 DEF Startup
<1>4. CASE Stop
  BY <1>4 DEF Stop
<1>5. CASE Close
  BY <1>2, <1>5 DEF Close
<1>6. CASE Environment
  BY <1>6 DEF Environment, PanelChange, LateTake, Unplug, Replug, linkVars, TypeOK
<1>7. ASSUME NEW t \in Threads, ThreadStep(t) PROVE PortIsOwned'
  <2>. USE DEF TypeOK
  <2>0. \A u \in Threads \ {t} : pc'[u] = pc[u]
    BY <1>7, OtherThreads
  <2>1. CASE \E k \in Offered : Reject(t, k) \/ Admit(t, k)
    BY <2>0, <2>1 DEF Reject, Admit, linkVars
  <2>2. CASE Acquire(t) \/ ReadOk(t)
    BY <2>0, <2>2 DEF Acquire, ReadOk, NextRequest, linkVars
  <2>3. CASE Leave(t) \/ Respond(t)
    BY <2>0, <2>3 DEF Leave, Respond, linkVars
  <2>4. CASE ReadFails(t) \/ ReadBroken(t)
    BY <2>0, <2>4 DEF ReadFails, ReadBroken, Finish, linkVars
  <2>5. CASE Restart(t)
    BY <2>0, <2>5 DEF Restart, Finish
  <2>6. CASE PreReadFails(t) \/ PreReadBare(t) \/ PreRead(t)
    BY <2>0, <2>6 DEF PreReadFails, PreReadBare, PreRead, Finish, linkVars
  <2>7. CASE SetConfirmed(t) \/ SetUnconfirmed(t) \/ SetIgnored(t)
    BY <2>0, <2>7 DEF SetConfirmed, SetUnconfirmed, SetIgnored, Finish, linkVars
  <2>. QED BY <1>7, <2>1, <2>2, <2>3, <2>4, <2>5, <2>6, <2>7 DEF ThreadStep, Work
<1>. QED BY <1>1, <1>3, <1>4, <1>5, <1>6, <1>7, Steps DEF Quiet

\* The port belongs to the service, and nobody opens it again after close().
THEOREM PortsAreClosed == Spec => []NoOrphanPort
<1>1. Init => PortIsOwned
  BY DEF Init, PortIsOwned, NoOrphanPort
<1>2. PortIsOwned => NoOrphanPort
  BY DEF PortIsOwned
<1>. QED BY <1>1, <1>2, StepPort, Types, MutualExclusion, PTL DEF Spec
=============================================================================
