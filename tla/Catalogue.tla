----------------------------- MODULE Catalogue -----------------------------
(***************************************************************************)
(* The channel definitions of config_loader.py, loaded one after another   *)
(* and grouped into requests, and the calls that find their conversations  *)
(* in them: service.read_channel, read_channels and read_all, with         *)
(* communication.read_requests. Gateway has the lock and the retries; here *)
(* one conversation gives a frame or fails the call.                       *)
(***************************************************************************)
EXTENDS Naturals, Sequences, SequencesExt, FiniteSets

CONSTANTS
  Definitions,  \* what a file may define: channels as [id, byte, byte2, type]
  Bytes,        \* request bytes, as they may be spelled
  Upper,        \* their spelling in upper case
  NoByte,       \* there is no second request byte
  MaxChannels,  \* definitions in a file
  MaxWanted     \* ids in a call

DataTypes == {"Sensor", "Status", "Settings"}
Ids == {d.id : d \in Definitions}

ASSUME CatalogueAssumption ==
  /\ \A d \in Definitions :
       d.byte \in Bytes /\ d.byte2 \in Bytes \cup {NoByte} /\ d.type \in DataTypes
  /\ NoByte \notin Bytes
  /\ Upper \in [Bytes -> Bytes]
  /\ \A b \in Bytes : Upper[Upper[b]] = Upper[b]
  /\ MaxChannels \in Nat
  /\ MaxWanted \in Nat

VARIABLES
  channels,  \* the definitions loaded so far
  requests,  \* requests: the command of each, and its records
  by_id,     \* _by_id
  pc,        \* "load", then "idle", "read", "answer"
  wanted,    \* the ids of the call: as given, or those of its data types
  plan,      \* the requests still to be read
  asked,     \* ghost: the requests read so far
  data,      \* id to the definition that its value was decoded with
  answer     \* what the call returns, with definitions for their units and types

vars == <<channels, requests, by_id, pc, wanted, plan, asked, data, answer>>
catalogue == <<channels, requests, by_id>>

Empty == [i \in {} |-> {}]

\* The elements of a sequence that are in a set, in their order: what SelectSeq does,
\* as a recursive function, so that CatalogueProofs can look into it.
Selected(s, S) ==
  LET sel[i \in 0 .. Len(s)] ==
        IF i = 0 THEN <<>>
        ELSE IF s[i] \in S THEN Append(sel[i - 1], s[i]) ELSE sel[i - 1]
  IN  sel[Len(s)]

-----------------------------------------------------------------------------
(* Loading. Definitions called Wrong... are the ways this code could plausibly *)
(* be wrong that the properties below have to notice.                          *)

\* request_key
WrongKey(d) == <<Upper[d.byte], d.byte2>>
Key(d) == <<Upper[d.byte], IF d.byte2 = NoByte THEN NoByte ELSE Upper[d.byte2]>>

\* _group_requests, for one more channel.
Grouped(d) ==
  IF \E i \in DOMAIN requests : requests[i].key = Key(d)
  THEN [i \in DOMAIN requests |->
          IF requests[i].key # Key(d) THEN requests[i]
          ELSE [requests[i] EXCEPT !.records = Append(@, d)]]
  ELSE Append(requests, [key |-> Key(d), records |-> <<d>>])

\* An id that is used again goes to the later definition; nothing refuses it.
WrongIndexed(d) == [i \in {d.id} |-> d]
Indexed(d) ==
  [i \in DOMAIN by_id \cup {d.id} |-> IF i = d.id THEN d ELSE by_id[i]]

Init ==
  /\ channels = <<>>
  /\ requests = <<>>
  /\ by_id = Empty
  /\ pc = "load"
  /\ wanted = <<>>
  /\ plan = <<>>
  /\ asked = <<>>
  /\ data = Empty
  /\ answer = {}

Load(d) ==
  /\ pc = "load"
  /\ Len(channels) < MaxChannels
  /\ channels' = Append(channels, d)
  /\ requests' = Grouped(d)
  /\ by_id' = Indexed(d)
  /\ UNCHANGED <<pc, wanted, plan, asked, data, answer>>

Loaded ==
  /\ pc = "load"
  /\ pc' = "idle"
  /\ UNCHANGED <<catalogue, wanted, plan, asked, data, answer>>

-----------------------------------------------------------------------------
(* Lookups *)

\* config.channel
Known(id) == id \in DOMAIN by_id

\* request_for_channel: the first request that has the channel. (It has one if the
\* channel is known.)
Carries(q, id) == \E i \in DOMAIN q.records : q.records[i].id = id
RequestForChannel(id) ==
  requests[CHOOSE i \in DOMAIN requests :
             /\ Carries(requests[i], id)
             /\ \A j \in 1 .. i - 1 : ~Carries(requests[j], id)]

\* _requests_for: in the order of the ids, each once.
WrongPlanned(ids) == [i \in DOMAIN ids |-> RequestForChannel(ids[i])]
Planned(ids) ==
  LET all == [i \in DOMAIN ids |-> RequestForChannel(ids[i])]
      firsts == Selected([i \in DOMAIN ids |-> i],
                         {i \in DOMAIN ids : \A j \in 1 .. i - 1 : all[j] # all[i]})
  IN  [k \in DOMAIN firsts |-> all[firsts[k]]]

-----------------------------------------------------------------------------
(* Calls *)

Start(ids, qs) ==
  /\ pc' = "read"
  /\ wanted' = ids
  /\ plan' = qs
  /\ asked' = <<>>
  /\ data' = Empty
  /\ answer' = {}
  /\ UNCHANGED catalogue

\* GET /channels/{channel_id} and GET /values?ids=... of ids that are known (others
\* are a 404 before anything is read); an id may be given twice.
ReadChannels(ids) ==
  /\ pc = "idle"
  /\ \A i \in DOMAIN ids : Known(ids[i])
  /\ Start(ids, Planned(ids))

\* GET /values: the requests with a channel of the types, Sensor and Status if none
\* is given.
OfType(types, d) == d.type \in types
WrongSwept(types) ==
  Selected(requests, {q \in ToSet(requests) :
                        \A i \in DOMAIN q.records : OfType(types, q.records[i])})
Swept(types) ==
  Selected(requests, {q \in ToSet(requests) :
                        \E i \in DOMAIN q.records : OfType(types, q.records[i])})
ReadAll(types) ==
  /\ pc = "idle"
  /\ LET ids == {id \in DOMAIN by_id : OfType(types, by_id[id])}
     IN  Start(SetToSeq(ids), Swept(types))

\* One request of read_requests. Channels behind the end of a short frame are
\* missing from what parse_records returns.
ReadRequest ==
  /\ pc = "read" /\ plan # <<>>
  /\ plan' = Tail(plan)
  /\ asked' = Append(asked, Head(plan))
  /\ LET records == Head(plan).records IN
     \E got \in SUBSET DOMAIN records :
       data' = [id \in DOMAIN data \cup {records[i].id : i \in got} |->
                  IF \E i \in got : records[i].id = id
                  THEN records[CHOOSE i \in got : records[i].id = id
                                 /\ \A j \in got : records[j].id = id => j <= i]
                  ELSE data[id]]
  /\ UNCHANGED <<catalogue, pc, wanted, answer>>

\* The retries are exhausted: ProtocolError, 503.
Forget ==
  /\ pc' = "idle"
  /\ wanted' = <<>> /\ plan' = <<>> /\ asked' = <<>> /\ data' = Empty /\ answer' = {}
  /\ UNCHANGED catalogue
ReadFails == pc = "read" /\ plan # <<>> /\ Forget

\* The values that were asked for are picked from everything that was read.
Picked == DOMAIN data \cap ToSet(wanted)
Answer ==
  /\ pc = "read" /\ plan = <<>>
  /\ pc' = "answer"
  /\ answer' = {[id |-> id, decoded |-> data[id], labelled |-> by_id[id]] : id \in Picked}
  /\ UNCHANGED <<catalogue, wanted, plan, asked, data>>

Done == pc = "answer" /\ Forget

Next ==
  \/ (\E d \in Definitions : Load(d)) \/ Loaded
  \/ \E ids \in SeqOf(Ids, MaxWanted) : ReadChannels(ids)
  \/ \E types \in {{t} : t \in DataTypes} \cup {{"Sensor", "Status"}} : ReadAll(types)
  \/ ReadRequest \/ ReadFails \/ Answer \/ Done

Spec == Init /\ [][Next]_vars

-----------------------------------------------------------------------------
(* Properties *)

TypeOK ==
  /\ channels \in Seq(Definitions)
  /\ \A i \in DOMAIN requests : requests[i].records \in Seq(Definitions) \ {<<>>}
  /\ DOMAIN by_id = {channels[i].id : i \in DOMAIN channels}
  /\ pc \in {"load", "idle", "read", "answer"}
  /\ ToSet(wanted) \subseteq DOMAIN by_id
  /\ ToSet(plan) \cup ToSet(asked) \subseteq ToSet(requests)
  /\ DOMAIN data \subseteq Ids

\* Every channel is in the request of its own command, in the order of the file, and
\* no two requests have the same command, however it is spelled (_group_requests).
SameCommand(d, e) ==
  /\ Upper[d.byte] = Upper[e.byte]
  /\ \/ d.byte2 = NoByte /\ e.byte2 = NoByte
     \/ d.byte2 # NoByte /\ e.byte2 # NoByte /\ Upper[d.byte2] = Upper[e.byte2]
GroupedByCommand ==
  LET First(i) == requests[i].records[1] IN
  /\ \A i, j \in DOMAIN requests : SameCommand(First(i), First(j)) => i = j
  /\ \A i \in DOMAIN requests :
       requests[i].records = Selected(channels, {d \in Definitions : SameCommand(d, First(i))})
  /\ \A i \in DOMAIN channels : \E j \in DOMAIN requests : SameCommand(channels[i], First(j))

UniqueIds == \A i, j \in DOMAIN channels : channels[i].id = channels[j].id => i = j

\* A call has no conversation twice, and none without a channel that it wants,
\* however the ids are ordered or repeated (_requests_for, read_all).
NoNeedlessConversation ==
  LET read == asked \o plan IN
  /\ \A i, j \in DOMAIN read : read[i] = read[j] => i = j
  /\ UniqueIds => \A i \in DOMAIN read : \E w \in DOMAIN wanted : Carries(read[i], wanted[w])

\* If ids are unique, as models.py wants them, an answer has every wanted channel whose
\* frame reached it, no other, and each value carries the unit and the type of the
\* definition it was decoded with (the two indices of HeatPumpConfig, read_channels).
AnswerIsWanted ==
  pc = "answer" /\ UniqueIds =>
    /\ {a.id : a \in answer} \subseteq ToSet(wanted)
    /\ \A w \in ToSet(wanted) :
         w \in {a.id : a \in answer}
         \/ \E i \in DOMAIN asked : Carries(asked[i], w) /\ w \notin DOMAIN data
    /\ \A a \in answer : a.decoded = a.labelled
=============================================================================
