# A verification project for the Stiebel Eltron heat pump gateway

The gateway (`stiebel_heatpump`, Python) is a REST service in front of one heat
pump on one serial line. This directory holds TLA+ models of it, the TLC
configurations that check them on small instances, and proofs, checked by TLAPS,
of the most important properties for instances of any size.

Paths below are relative to `stiebel_heatpump/` unless they say otherwise.

## 1. The system

### Inventory

| Part | State it keeps | Operations | Hard about it |
|------|----------------|------------|---------------|
| REST layer, `api.py` | none of its own; the lifespan (starting, serving, closed) | GET `/channels/{id}`, GET `/values`, PUT `/channels/{id}`, POST `/actions/set-time`, GET `/version`; exception handlers; lifespan | which failure becomes which status; what a status says about the device |
| `HeatPumpService`, `service.py` | `_lock`, `_connected` | `connect`, `close`, the reads, `write_channel`, `set_time`, checks before the lock | handlers run in a pool of threads; one lock for the serial line; shutdown while calls wait |
| `CommunicationService`, `protocol/communication.py` | none between calls | `read_request` with `MAX_TRIES` attempts and `_restart`, `read_requests`, `_write_values`, `set_time` | a setting can only be written together with its whole register: read-modify-write with a pause in the middle; retries; a restart that fails half way |
| `Connector`, `protocol/connector.py` | none between conversations | `get_data`, `set_data`, `_start_communication`, `_establish_request`, `_receive_data` | nested retries, time-outs, a buffer that is not cleared, failures that are swallowed |
| Transport, `protocol/transport.py` | the port, the receive queue, the reader thread | `open`, `close`, `write`, `get` | the queue survives a restart; a port that is gone raises what the layers above do not expect |
| Frames and records, `protocol/parser.py` | none (pure) | checksum, escaping, footer, header check, parse and compose | bytes that look like escapes or footers; cut frames; signs and bits |
| Simulator, `simulator.py` | protocol state, one frame per command | `feed`, `set_value` | stands for the heat pump on the other end |
| The heat pump, its panel, the cable | the settings | change, refuse, answer late, lose bytes, be unplugged | environment |
| `config_loader.py` and the lookups of `models.py` | requests and two indices over the channels, built once | grouping by command, `_requests_for`, lookups by id and by data type | commands spelled in either case, ids used twice |
| `settings.py`, `main.py`, OpenAPI in `api.py` | read once at start | - | - |

A call goes down the table: handler, service (checks, then the lock), communication
service (attempts), connector (one conversation), transport (bytes), heat pump.
Results come back up as a frame, `b""` or an exception; the exception handlers
make a status of what arrives. Below the lock everything runs in the thread of
the caller; the reader thread of the transport only fills the queue.

### What makes it correct

- One conversation at a time on the line, and a read-modify-write that no other
  call gets between.
- A PUT that was acknowledged stays in force until somebody changes the channel;
  a write of one channel leaves the others of its register alone.
- A status says what happened: 200 on PUT means the device has taken the value, a
  client error means nothing was sent, a device failure is never a client error.
- A value that is read was the device's value while the call had the lock.
- Whatever fails, the lock is given back, the conversation ends, and the port is
  closed at shutdown. The link recovers from lost bytes.
- What is written is what is read, whatever bytes the value, the checksum and the
  command consist of, and whatever the rounding of floats does to it; its JSON type is
  the one that is published for the channel.
- A set-time that succeeds sets the clock to the gateway's, one that fails leaves a
  beginning of its fields. A counter that is read in two parts was a counter of the
  heat pump.
- Bytes reach the connector in the order they were sent, and no reader thread outlives
  the port that it was started for.

`hazards` in `PROJECT.json` lists where each of these could go wrong, by line.

## 2. The modules

```
Gateway  (calls, lock, retries, read-modify-write, port, panel)
   |  is written against
Conversation  (what one conversation promises)
   ^  is implemented by
Handshake  (connector, queue, line, device: symbols for bytes)

Settings  (PUT and GET of one register, on bytes)
   |  extends
Records  (parse_record, compose_record)  extends  Framing  (checksum, escapes, footer)

Values     (JSON values, scaling, rounding, published types; on numbers)
Clock      (set_time, written against the same conversations as Gateway)
Counter    (a counter of two commands, likewise)
Transport  (reader thread, queue and port, below Handshake)
Catalogue  (definitions, grouping, planning of conversations, answers)

GatewayProofs, HandshakeProofs, SettingsProofs, ClockProofs, CounterProofs,
TransportProofs, ValuesProofs, CatalogueProofs  extend their modules
MC_Gateway, MC_Handshake, ...: constants for TLC
```

`Clock` and `Counter` are modules of their own and not calls of `Gateway`: a call that
has the lock is alone with the heat pump, so what other calls can do to it is what
the panel and a late SET can do (`PanelChange`, `LateTake` and `Count` do it), and the
lock itself is proved in `Gateway`.

### Gateway

One thread is one worker of the server; `pc[t]` is where it is:

| `pc` | in the code |
|------|-------------|
| `idle` | not serving a call |
| `wait` | at `with self._lock` |
| `read` | `read_request`, about to hold a conversation |
| `restart` | in `_restart` |
| `pre` | `_write_values`, about to pre-read |
| `set` | after the pause, about to send the SET |
| `leave` | at the end of the locked block, with a result or an exception (`outcome`) |
| `answer` | the status is settled |

`Reject` and `Admit` are a handler up to the lock, `Acquire` and `Leave` the two
ends of `with self._lock`. `ReadOk`, `ReadFails`, `ReadBroken` and `Restart` are
the loop of `read_request`; `PreReadFails`, `PreReadBare`, `PreRead`,
`SetConfirmed`, `SetUnconfirmed` and `SetIgnored` are `_write_values`, split where
other threads, the panel or the line can interfere. `Startup`, `Stop` and `Close`
are the lifespan. `PanelChange`, `LateTake`, `Unplug` and `Replug` are the
environment. A `_restart` may raise although the adapter is there (its `disconnect`
does), and so may the close at shutdown: then the service goes on calling itself
connected, but the port has been given up either way. A port that was open when the
adapter went stays dead until it is opened anew.

A conversation is one step. Its outcomes are those the connector can produce: a
frame that checks (full; `bare`, equal to the request; `stub`, too short for its
channels), a frame that does not check (any register's, with damaged values, or
an error frame), no frame, or an exception. A frame is abstracted to its verdict,
register and values. `StubChannels` are the channels whose bytes, in a frame without
payload, are its footer: there `parse_record` finds `FooterValue` and
`compose_record` finds room to write.

A failed SET may still wait in the device for its ESCAPE (`late`); `LateTake`
carries it out whenever the port is open, until a conversation succeeds.

Ghost variables: `applied` (the device took this call's SET), `confirmed` (what the
last acknowledged PUT of a channel left, as long as clients may rely on it), `since`
(the values the device had while the thread has held the lock).

Abstractions: a conversation that ends in a frame that checks is assumed to have
been aligned, that is, the frame answers its own request. `Handshake` shows this for
up to three bytes lost or late; with five it fails (section 4). What
a client asks is reduced to what the checks tell apart (unknown id, not a number,
too large, a value in range).

### Conversation and Handshake

`Handshake` is `connector.py` byte by byte over the queue of `transport.py`, with
the device of `simulator.py` on the other end. Each `get` of the connector is a
step (`Started`, `Establish`, `Receive`, or `Timeout` when it finds nothing); the
counters (`request`, `retry`, `num`) and the two bytes of the buffer that are
compared (`head`) are the code's. A frame is five symbols, of which one stands for
checksum, command and payload. `Lose` and `Noise` are the line, `Timeout` with a
full queue is a byte that comes late. The queue and the device keep their contents
between conversations. `HeaderCheck` is `verify_header`; the checksum counts the status
byte, so a body checks only behind the status of its own frame. `Verdict` is what
`fix_duplicated_bytes` and the checks make of a buffer: a frame that lost a byte of its
footer, or both, has the footer put back, and is an answer too short to carry the value.

Deviations from `simulator.py`: a request that arrives damaged is refused (the known
error "CRC error in request" in `parser.py` says that the real heat pump does), and
the device may drop a handshake while nothing happens for a second (`GivesUp`).

`Conversation` is the promise of `get_data` and `set_data`: a read ends with a value
its own register had meanwhile, with a valid frame too short to carry one, or fails;
a SET is confirmed only if this very SET was taken; a SET that failed may be taken
later, until the next success. `KeepsPromise` says that `Handshake` implements it
(`store` and `pending` are read off the device, the other variables have the same
names). `TrueNext` is the same promise without its last part: answers are true
(`Truthful`), but a SET may be pending after a success. This is what can be proved of
single conversations with any number of faults (section 5).

### Framing, Records, Settings

`Framing` and `Records` are `parser.py` on sequences of bytes. `Settings` is a
register with several channels: `Write` is a whole PUT (pre-read, compose, escape,
the device's unescaping, store, confirmation), `Read` a whole GET whose answer may
lose its end or any one byte (`Arrivals`), `Refuse` a value out of range. `ledger` is
a ghost: the value last acknowledged for each channel.

Scaling is left to `Values`: here values are the raw integers of the frame.

Loops over bytes are written with `Folded`, and `bytes.replace` as what it remembers from
one byte to the next (`Pairing`). `IsFrameEnd` looks back from the end as the code does.
`LayoutAssumption` says what `Settings` expects of a definition file: settings lie between
command and footer and have no bit in common (`Apart`).

### Clock

`Clock` is `set_time`. A time is a function on `Places`, of which place 1 is the minutes
and each carries into the next; `CLOCK_FIELDS` is the order of `_CLOCK_FIELDS`, of which
only one thing matters: the minutes are last. `registers` chooses between
`_set_time_via_registers` (`PreRead`, `SetConfirmed` and `SetUnconfirmed` for each field)
and `_set_time_via_frame` (`GetFrame`, `SetFrame`); `ReadBack` is the end of both. Meanwhile
both clocks tick, the panel is used, and a SET that failed may be carried out by a later
ESCAPE (`late`, `LateTake`). `Acquire` takes `now` once the lock is held.

Ghosts: `since` (the gateway's times during the call), `old` (what the heat pump would show
without the call), `rolled` and `spoiled` (the excuses of the properties: an hour that
begins on the heat pump in the middle, and a damaged or bare pre-read or somebody else's
change).

### Counter

`read_request` with `request_bytes2`: the low part, a pause, the high part, both again in
the next attempt (`FirstStage`), and `parse_records`, which shows nothing unless it has
both (`Combined`). The heat pump counts, carries and starts again at 0 at any time.

### Transport

`SerialTransport`: one caller (the lock sees to that) that opens, gets and closes, and the
reader threads in `_read_loop`, one step for each test of `_running`, each `read` and each
`put`. Bytes are numbered as they are sent. `Close`, `Join` and `Shut` are the parts of
`close`; the queue stays. The join may time out. For a thread that has been told to stop
this means that it was not given the time to run, since it tests `_running` again within
the 50 ms of a `read` and the join waits a second; the ghost `overrun` remembers that it
happened, because a port opened next sets `_running` again and two threads may then share
port and queue. A port whose adapter went away is `dead`, and stays so when the adapter is
back, until it is closed and another one is opened; every read of it raises, and the
thread goes on trying. A read of a port with nothing wrong may raise too, `MaxErrors`
times in all. Of a port that goes, by `open`, `Shut` or `Unplug`, the unread bytes go as
well (`lost`).

### Values

A channel is a record with length, scale, range and kind; numbers are in hundredths, the
resolution of `parse_record`. `Coerce` is `service._coerce`, `OutOfRange`, `ScaledToRaw` and
`Written` are `compose_record`, `Parse` is `parse_record`, `ValueKind` the published type. TLA+
has no floats: `ScaledToRaw` takes the exact quotient or one that falls a little short of
it, and so has two results where the exact one is a whole number and a half.
`PutBack` sends the last answer.

### Catalogue

`Load` adds one definition to `requests` (by `request_key`) and to `by_id`; then calls read a
channel, a list of ids, a data type or everything (`read_channel`, `read_channels`,
`read_all`), each frame decoding what it decodes and dropping the rest. `data` maps an id
to the definition that decoded it, so that `AnswerIsWanted` can compare it with the
definition whose unit is shown. `Selected` is the comprehension over a list with a
condition, of which the lookups and the plans consist.

## 3. What TLC checks

| Run | Instance | States | Shows |
|-----|----------|--------|-------|
| `gateway_writes` | 2 threads, 2 settings of a register, 2 values, panel on one of them, 2 attempts | 2.3 M | `OneConversation`, `NoLostUpdate`, `SnapshotKeepsConfirmed`, `AcknowledgedIsApplied`, `SiblingsOnlyRevert` |
| `gateway_reads` | the same, with a sensor in a second register, a sweep over both, and two kinds of refused writes | 1.6 M | `TypeOK`, `ReadsWereHeld`, `ClientErrorNeverWrites`, `NoOrphanPort` |
| `gateway_liveness` | the same with one value and 3 attempts, fair | 145 k | `LockIsReleased`, `ShutdownDrains` |
| `handshake_safety` | 2 registers, 2 reads and a write, up to 4 conversations, 3 faults, 2 retries | 365 k | `TypeOK`, `KeepsPromise` |
| `handshake_liveness` | no bound on conversations, 3 faults, 3 retries, fair | 57 k | `ConversationEnds`, `Recovers` |
| `settings` | two bits of a byte, one and two byte numbers, a switch; values with 10h, 2Bh 18h, 10h 03h and the sign | 2.9 k | `TypeOK`, `LedgerHolds`, `CleanLineConfirms`, `DamagedReadsAreTrue` |
| `set_time` | 3 fields of 2 values, both ways of writing | 1.7 M | `TypeOK`, `FailureLeavesPrefix`, `SetTimeSetsClock` |
| `counter` | base 3, high part up to 2, 2 attempts | 22 k | `TypeOK`, `CounterWasHeld`, `CounterNeverLow` |
| `reader` | 2 threads, 4 bytes, one passing error of a read, any number of openings, joins that time out and unpluggings, fair | 99 k | `TypeOK`, `InOrder`, `NoReaderLeft`, `EveryByteOnce`, `ByteArrives`, `CloseEndsReader` |
| `values` | 11 channels of the shipped definitions, 22 numbers and what is no number, as every JSON type | 53 k | `TypeOK`, `StaysInRange`, `TypeAsPublished`, `NearestIsShown`, `PutBackKeeps` |
| `catalogue` | up to 4 of 7 definitions in any order, 4 spellings of 2 bytes, calls for up to 2 ids | 315 k | `TypeOK`, `GroupedByCommand`, `NoNeedlessConversation`, `AnswerIsWanted` |

The run `torn_clock` is the one that TLC must find violated; see section 4.

Each property of the passing runs is broken by a mutant of the code's model, a plausible
bug at a line of the code (`mutants` in `PROJECT.json`; the operators called
`Wrong...`).

### Why the bounds are enough

- Two threads: the lock is the only thing they share before they hold it, so a third
  one adds no new kind of race; TLAPS proves the main invariants for any number.
- Two channels in one register and a third in another: enough for a write to hurt a
  sibling and for damage to name the wrong register. Two values tell old from new.
- Two attempts (`MAX_TRIES`) give a first, a last, and a restart in between; the
  liveness run has the three of the code.
- Three faults (`MaxFaults`): `KeepsPromise` is claimed for these only; section 4 says
  what happens with five. `INPUT_BUFFER_LENGTH` is 8, just longer
  than the longest frame and short enough to overflow. `MAX_RETRY` is 2 or 3 of 5:
  first, last, and one between. Four conversations are enough for a late SET of the
  first to meet a success and a further one (`MaxConversations`).
- Three fields (`set_time`): the minutes, one in between, and one that carries into
  nothing; an hour of two minutes rolls over within every call. A field of more values
  would only make that rarer. The proofs are for any number of fields and values.
- Base 3 (`counter`): the low part tells a first, a middle and a last value, and carries
  twice (`MaxHigh`). The proofs are for every base.
- Two reader threads: one of an old port that outlived its join, and one of the new. Four
  bytes (`MaxBytes`) put one into each hand, one into the queue and one on the line. One
  passing error of a read (`MaxErrors`) is enough to tell whether a thread survives it, and
  a dead port raises any number of times. The port is opened any number of times.
- The numbers of `values` are the ends of the ranges, what lies just outside, halves of
  a step, fractions below zero and `21.65` and `21.7`, which floats divide badly.
- Four definitions: a request with two records and one with another command, an id used
  twice, and one more.
- Symmetry (of the two threads) is used in runs without liveness only.

`CHECK_DEADLOCK FALSE` is in `handshake_safety`, which may stop after its last
conversation.

### Fairness

- `Gateway`: weak fairness of each thread's `Work`. A thread in the model always gets
  on because every wait of the connector has a time-out (`ConversationEnds`); weak, so
  that nothing is said about who gets the lock: `threading.Lock` is not fair.
  `Close` is fair because the server runs the end of the lifespan once it has stopped
  taking calls. Nothing is assumed of clients, panel and cable.
- `Handshake`: weak fairness of the connector, of the device, and of further calls
  (`Recovers` speaks of conversations that are held). In `handshake_liveness` the device
  drops a handshake in which nothing happens for a second (`GivesUp = {TRUE}`). The
  simulator does not, and without it a device that waits for the end of a request can
  stay out of step for ever, since every START becomes part of that request.
- `Transport`: weak fairness of each reader thread. A thread runs, and a `read` of the port
  returns after 50 ms at most (`timeout=0.05` in `open`). Nobody has to call, or to go on
  with a `close`, and nothing is assumed of the adapter: `ByteArrives` asks nothing once the
  adapter has gone or a close has begun.

## 4. Where the code does not do what its documentation says

The run `torn_clock` shows a race, and is an entry under `findings`. `set_time` is
documented as "Set the heat pump clock to the current system time"
(`protocol/communication.py:177`). `_set_time_via_registers` writes day, month, year, hours
and minutes one after the other, seconds apart, from one `now`. If the heat pump goes
from :59 to :00 after its hours were written, it carries into the hour that was just
set, and the minutes are written then: it is left an hour ahead of any time the
gateway had, and at midnight a day. Every SET was confirmed, and the answer is 200.
`SetTimeSetsClock`, which leaves this case out, is proved.

The others have no run of their own. The models do what the code does, and the
properties above leave these cases out by name:

| The documentation | The code | In the models |
|-------------------|----------|---------------|
| 503 for "bad framing" (`README.md` of the repository, line 308) | the header of a pre-read is never checked (`protocol/communication.py:136`); the damage is edited, gets a new checksum and is written | `PreRead` of `Gateway` takes damaged frames, `NoLostUpdate` and `SiblingsOnlyRevert` except them |
| 502: "the value on the device is unchanged" (line 307) | also answered when only the confirmation was lost (`protocol/communication.py:146`) | `SetUnconfirmed` |
| 200 on PUT: "the device acknowledged the write" (line 310) | any frame that checks ends `set_data` (`protocol/connector.py:53`), also the late confirmation of another SET | `KeepsPromise` fails with `MaxFaults = 5` |
| transport failures are 503 "everywhere" (`api.py:127`) | a dead or never opened port raises what is no `ProtocolError` (`protocol/transport.py:92`): 500, for this and every later call | `ReadBroken`, `StatusOf` |
| never "a stale/guessed value" (`api.py:131`) | a channel can be read from the footer that is put back on a cut frame (`protocol/parser.py:233`) | `Arrivals` and `reach` of `Settings` |
| writes round-trip "exactly" (`protocol/parser.py:317`) | one byte settings are written up to 255 and read as signed (`protocol/parser.py:353`); p30, p32 and p33 of three definition files have such ranges | `Fits` of `Settings` |
| the same | `stoveFireplaceOperation` and `p75OperatingModePassiveCooling` lie on the same byte (`device_configs/LWZ_THZ303_2_06.xml:128` and `:130`, and two other files), which nothing refuses: writing one changes the other | `LayoutAssumption` of `Settings` |
| `read_request` is read back "so the response reports the resulting device time" (`protocol/communication.py:193`) | `_set_time_via_frame` drops the answer of its SET, and what it wanted to write is answered (`protocol/communication.py:220`) | `Merged` of `Clock` |
| 400 for a value "outside `min`..`max`" (line 304) | `int()` cuts decimals off first (`service.py:198`): less than a step outside is accepted; an infinite number is 500 | `ToInteger` of `Values` |
| scale is the "multiplier applied to the raw integer" (line 47) | four byte channels are returned without it (`protocol/parser.py:249`) | `Parse` of `Values` |
| `STIEBEL_APP_CONFIG` is "equivalent to passing `--config`" (line 184) | `main.py:15` gives `--config` a default, so that the variable is never looked at by the console command | not modelled |

## 5. What is proved

`GatewayProofs` proves, for any sets of threads, channels, registers and values, any
offered calls and any `MAX_TRIES > 0`, under `ConstantsAssumption` only:

| Theorem | States |
|---------|--------|
| `Types` | `Spec => []TypeOK` |
| `MutualExclusion` | `Spec => []OneConversation` |
| `AcknowledgedWritesStay` | `Spec => []NoLostUpdate` |
| `SnapshotsAreFresh` | `Spec => []SnapshotKeepsConfirmed` |
| `ClientErrorsAreHarmless` | `Spec => []ClientErrorNeverWrites` |
| `AcknowledgedWritesHappened` | `Spec => []AcknowledgedIsApplied` |
| `ReadsShowTheDevice` | `Spec => []ReadsWereHeld` |
| `SetsOnlyRevert` | `Spec => SiblingsOnlyRevert` |
| `PortsAreClosed` | `Spec => []NoOrphanPort` |

These are all the safety properties that the runs of `Gateway` check. Likewise, all the
safety properties of six other modules are proved, and of `Handshake` what does not
depend on how many bytes are lost:

| Module | Theorem | States | For any |
|--------|---------|--------|---------|
| `SettingsProofs` | `TypeCorrect` | `Spec => []TypeOK` | commands, payloads, channels and values (`SettingsAssumption`, `LayoutAssumption`) |
| | `Ledger` | `Spec => []LedgerHolds` | |
| | `CleanLine` | `Spec => []CleanLineConfirms` | |
| | `DamagedReads` | `Spec => []DamagedReadsAreTrue` | |
| `ClockProofs` | `TypeCorrect` | `Spec => []TypeOK` | number of fields, radix, and order that ends with the minutes (`ClockAssumption`) |
| | `FailureIsPrefix` | `Spec => []FailureLeavesPrefix` | |
| | `ClockIsSet` | `Spec => SetTimeSetsClock` | |
| `CounterProofs` | `TypeCorrect` | `Spec => []TypeOK` | base, size, number of attempts (`CounterAssumption`) |
| | `AnswerWasHeld` | `Spec => []CounterWasHeld` | |
| | `AnswerNeverLow` | `Spec => []CounterNeverLow` | |
| `TransportProofs` | `TypeCorrect` | `Spec => []TypeOK` | number of threads and bytes (`TransportAssumption`) |
| | `QueueInOrder` | `Spec => []InOrder` | |
| | `ReaderEndsWithPort` | `Spec => []NoReaderLeft` | |
| | `BytesOnce` | `Spec => []EveryByteOnce` | |
| `ValuesProofs` | `TypeCorrect` | `Spec => []TypeOK` | channels as `ValuesAssumption` has them, and numbers |
| | `RangesHold` | `Spec => []StaysInRange` | |
| | `TypesArePublished` | `Spec => []TypeAsPublished` | |
| | `NearestStep` | `Spec => []NearestIsShown` | |
| | `PutBackIsNeutral` | `Spec => PutBackKeeps` | |
| `CatalogueProofs` | `TypeCorrect` | `Spec => []TypeOK` | definitions, files and calls of any length (`CatalogueAssumption`) |
| | `Grouping` | `Spec => []GroupedByCommand` | |
| | `EachRequestOnce` | `Spec => []NoNeedlessConversation` | |
| | `AnswersWanted` | `Spec => []AnswerIsWanted` | |
| `HandshakeProofs` | `TypeCorrect` | `Spec => []TypeOK` | registers, values, retries, faults and conversations (`HandshakeAssumption`, `OpsAssumption`) |
| | `NeverInvented` | `Spec /\ Collects => [](answer.kind = "value" => <<answer.reg, answer.val>> \in past)`: a value that is answered is one which the register it names has had, whatever was left on the line | |
| | `QuietConversation` | `Spec /\ Marks => [][op = NoOp \/ quiet => [C!TrueNext]_(C!vars)]_vars`: a conversation that began with nothing of an earlier one under way keeps `TrueNext` to its end | |
| | `UntilAFault` | `Spec => [][faults' = 0 => ...]_vars`: the step is one of `Conversation`, and a conversation that ends succeeds | and buffers that hold the longest frame (`INPUT_BUFFER_LENGTH >= 8`; the code has 1024) |
| | `PerfectLine` | `MaxFaults = 0 => (Spec => KeepsPromise)` | likewise |

### Gateway

`NoLostUpdate` and `SnapshotKeepsConfirmed` are not inductive. A SET overwrites a whole register with what the
pre-read said, so `NoLostUpdate` needs that every SET that can still reach the device
agrees with `confirmed`: the one about to be sent (`SnapshotKeepsConfirmed`, which
holds because the pre-read was true of the device then, the device agreed with
`confirmed`, and nobody but the holder of the lock makes `confirmed` grow, hence
`OneConversation`), and the one that failed and is still pending
(`LateKeepsConfirmed`; it survives later acknowledged writes because each of them
empties `late`). For that to mean anything a SET has to carry a value in
each place and the new one in its own (`SetIsComposed`, `LateIsComposed`), the call has to
have passed the checks in front of the lock (`WritesAreChecked`), and the pre-read
has to ask for the right register (`PreReadAsksRight`). `Inductive` is the conjunction of
these; TLC checked it as an invariant before it was proved.

The other five have invariants of their own, in the second half of the module, which TLC
checked first as well:

- `AnswersTellTruth`: a status exists only at `answer`; `applied` is set only by a write
  on its way out, and not by one that leaves with `ValueOutOfRange` (the range check is
  before the SET); a write that leaves with `ok` has been applied or was bare.
- `ValuesWereHeld`: `since` has the device's present value as long as the thread has the
  lock, and forgets nothing (`HolderRemembers`), so the values already read, and the
  siblings in the frame of a SET, stay among those the device had. It needs
  `OneConversation`: a thread without the lock has nothing read. `SetsOnlyRevert` follows
  from its last conjunct.
- `PortIsOwned`: only a connected service that has not been closed can be in `_restart`, the
  one place that opens a port after the start, and `Close` needs the lock. That it has not
  been closed does not follow from that it is connected, as a close may raise.

The proofs have one lemma per kind of step rather than per action where actions are
alike: `Steps` divides them into those of a thread and the rest, `QuietSteps` says what the
rest leaves alone, `OtherThreads` what a thread leaves alone of another one, and
`WaysToWrite` how a thread gets to the places where a write is under way.

### Settings

`SettingsProofs` starts at the bytes. The loops of the code are one recursive function
(`Folded`), and an induction is one over the numbers up to the length of a frame, with a
set for the property (`Induction`).

- The receiver (`DecoderStep`): what it has put out of the bytes so far, whether it is in
  half a pair, and whether the bytes `10h` in front are odd in number. `is_frame_end` looks
  back from the end of the buffer for what can be told going forward (`FrameEndIs`), so
  that one induction deals with the unescaping and with where the frame ends.
- A byte, escaped, leaves a receiver that is in step in step, whatever it is (`TokenStep`,
  `CarriedArrive`). Hence `RoundTrip`: what `add_duplicated_bytes` makes of a frame is
  received as that frame, not cut short and not run over, whichever footers it seems to
  contain.
- A byte that gets lost is one of four things: one that is sent as it is (`LostByte`), one
  of the two `10h` for one (`LostEscape`), the `18h` behind a `2Bh` (`LostStuffing`), or that
  `2Bh` itself (`BareStuffing`). In each case what arrives is told: the beginning of a frame, or the frame
  without one of its bytes, or with `18h` for `2Bh` (`MissingByte`). The sum of the last two is
  wrong (`SumsDiffer`: `WithoutShows` unless the byte was zero, `ChangedShows` because the
  two bytes differ by less than 256). So `DamageRefused`: what checks is a beginning.
- Within a frame, `compose_record` is read back by `parse_record` if the bytes can hold the
  value (`PutReads`; below it bits, two's complement and signs), and what is read of a
  channel that is `Apart` is as before (`PutSpares`).

The invariant `Register` is needed since none of the properties says what the device
holds: a frame that checks (`Intact`), is of this register (`Carries`, or the SET
would not match) and as long as at first (or `compose_record` would write behind it), and
only values that clients write are in the ledger (or a written channel could lie on one that is
not `Apart`). `IInv` joins it with the four properties. TLC checked it before it was proved.

`LayoutAssumption` is needed: without it `LedgerHolds` is false. All shipped
definitions keep to it but for the two settings of section 4. `Arrivals` leaves out what
the sum cannot notice, a lost zero (section 6).

### The others

- `ClockProofs`: what a set-time leaves is told by `Mixture(k)`, the first k fields new and
  the others as without the call. `Progress` says which k belongs to which place of the
  call. A field that is written makes k one more, and a tick keeps the mixture unless it
  carries, since the minutes are the last of the fields. A SET that is still pending would
  spoil it: `Pending` says that an intact conversation of this call has emptied `late`
  before anything is written, and `Stages` how many fields belong to which `pc`.
- `CounterProofs`: the counter only goes forward until it is reset, and its high part
  is that of the start until it carries (`Forward`). `FirstWasHeld` says of which counter
  of this attempt the low part is; the second part then finds either the same high part
  or a later one, which is too high by less than the base (`Monotonic`).
- `TransportProofs`: `OneReader` (as long as no join has overrun, only the thread of the open
  port lives, and it has been told to stop once `close` waits for it) makes `Order`
  inductive: what `get` returned, the queue, the byte in the thread's hand, and the line come
  one after the other. With two threads alive there would be two hands. `EveryByteOnce` needs
  none of that, and holds with any number of threads: it is inductive with
  `Hands` (a thread has a byte exactly when it is about to put it) and with the order of the
  bytes on the line.
- `ValuesProofs`: `Inv` says that the bytes are in the range of the channel and that what
  is shown is what they say. Below it is arithmetic: the nearest whole multiple of a number
  between two multiples is between them (`ScaledStays`), not further than half a step away
  (`ScaledIsNearest`), and that of a multiple is itself, also if the quotient falls short
  (`ScaledIsInverse`); what fits the bytes survives them (`Fits`).
  `ValuesAssumption` holds for the settings of the shipped definitions but for the three of
  section 4.
- `CatalogueProofs`: `Indices` says what `requests` and `by_id` are in terms of the
  channels loaded so far, `Calls` what the plan of a call, the requests it has read and
  `data` have to do with the ids it wants. Both speak of lists that were filtered, so
  what `Selected` returns comes first (`SelectedElements`, by induction over the places of the
  list, with a set for the property).
- `HandshakeProofs`: see below.

TLC checked each of these invariants before it was proved.

### Handshake and Conversation

Four invariants:

- `Types`: the bounds of the counters and buffers, what symbols can be where
  (`Asked` is what the gateway says, `Told` what it may hear), and which variables are
  empty at which `cpc`. It holds whatever the line does.
- `Own`: while a conversation goes on that began quietly, everything on its way in either
  direction, in the buffer and in the device speaks of the register of this conversation,
  and truthfully: a value is one of `held`, a confirmation is there only if `taken`. Lost
  bytes and noise keep this true, however many there are: a byte less, or a NUL more, makes
  no new body. Whether it began quietly is told by the history variable `quiet` (`Marks`),
  and nothing is assumed about it, because the code does not make sure of it (`Connector`
  never empties its queue): `QuietConversation` speaks of single conversations, and a noisy
  one before or after takes nothing from it. The full `Next` is not implemented even
  so: after enough late rounds the device can be given the request a second time
  while the answer to the first is on its way, and lose the ESCAPE of the second, so
  that a SET is confirmed and pending.
- `Heard`: for conversations that begin among what earlier ones left. The history variable
  `past` collects what each register has had (`Collects`); every body with a
  value that is in the queue or the buffer, and every answer, has a value that its register
  had. Stale bytes may make an answer old, or that of another register; they never make one
  up. This is `NeverInvented`.
- `Clean`: before the first fault, `Own` and `Lockstep`, which goes through the handshake
  and says at each point what is in the queue, on the way and in the device. Its core is
  that a frame that arrives in parts ends where the connector sees the end and not before
  (`FrameLike`, `Verdict`), so that the connector stops reading with an empty queue. `Lockstep`
  says that the line is quiet between conversations, so that `UntilAFault` and
  `PerfectLine` need nothing about how they begin.

So the promise that `Gateway` is written against is proved for a line without faults, and,
with any number of faults, for each conversation that begins quietly but for what is
pending; of the others, that what is read was true once. What lies between is for TLC: `KeepsPromise` with three faults and conversations that begin among what earlier
ones left, and section 4 says that it fails with five.

### Only model-checked

Liveness (fairness is out of the prover's reach): `LockIsReleased`, `ShutdownDrains`,
`ConversationEnds`, `Recovers`, `ByteArrives`, `CloseEndsReader`. And `KeepsPromise` with
faults, which does not hold for any number of them.

## 6. Not modelled

- `get_version`: a `read_request` that changes nothing, and answers a placeholder where
  others answer 404. `request_by_bytes`, which it uses, is a lookup.
- `write_time_quarter_pair`, a `_write_values` of two channels, is called by nothing.
- The metadata routes and the rest of the OpenAPI document: functions of the
  configuration. `Values` has the types they publish.
- Reading of XML and YAML and the defaults for missing attributes (`config_loader.py`),
  layering of settings (`settings.py`), and the console command (`main.py`): done once, by
  one thread, mostly by libraries.
- Validation of request bodies by the framework (422).
- `SimulatorTransport`, which passes bytes on, and `set_value` and the match by the longest
  prefix of the simulator.
- Dates that do not exist: day, month and year are written in this order, and in between
  the heat pump may hold a 31 February. What it does with it is unknown; the places of
  `Clock` are independent of each other.
- A zero byte lost in the middle of a frame, and other damage that an eight bit sum
  cannot see: `Gateway` takes a frame that checks for true.
- Definition files that have only some of the clock registers, or no request `FC`:
  `_set_time_via_registers` passes over what it does not find
  (`protocol/communication.py:209-214` and `:231-232`). `Clock` has all of them.
- The run of `10h` before a footer (`protocol/parser.py:171-176`) in `Handshake`, where a
  body is one symbol; `IsFrameEnd` of `Framing` counts it.
- That a pre-read of fewer than five bytes raises in the checksum
  (`protocol/parser.py:110`): in `Gateway` it is one of the failures of a conversation.

## 7. Plan

Done: every layer from the JSON of a call to the bytes on the line has a module, and
every safety property that the runs check is proved, but for `KeepsPromise` with faults.

1. `KeepsPromise` for up to three faults, or the exact condition on what is left on the
   line under which it holds: `QuietConversation` asks for a line with nothing on it.
2. That the frames of `Gateway` are those of `Settings`: the verdicts that it takes for
   outcomes (`full`, `bare`, `stub`) as a refinement.
