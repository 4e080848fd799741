# Verification of the EB-Therm 300 integration

TLA+ models of the Home Assistant integration `eb300_ble`
(`custom_components/eb300_ble/`) and its client library
(`custom_components/eb300_ble/eb300_ble/`), TLC runs that check them on small
instances, and TLAPS proofs of what matters most for every instance. Paths
below are relative to `src/custom_components/eb300_ble/`; `lib/` stands for its
`eb300_ble/` subdirectory.

## The system

The program reads and controls floor-heating thermostats over Bluetooth LE. All
of it runs on one asyncio event loop: what runs between two `await`s is atomic,
and everything hard comes from what happens at an `await`.

| Component | State it keeps | Operations | Modelled in |
|---|---|---|---|
| Connection gate: `coordinator.py` `async_with_retries`, `async_run_once`, `_CONNECTION_SEMAPHORE` | the semaphore's counter and queue; each task's attempt; its link | queue, connect, run, time out, retry, disconnect; be cancelled at any await | `ConnectionGate`, abstractly `ConnectionSlot` |
| Client session: `lib/client.py` with `lib/exceptions.py` and the `Counter` of `lib/protocol.py` | handshake future, session key, counter, `_pending` | `connect`, `request`, `request_batch`, `_on_notify`, `disconnect` | `EB300Session`, abstractly `RemoteCalls` |
| Setpoint write path: `climate.py`, `coordinator.py` `_write`, settle and scheduled polls | optimistic temperature, write task handle, settle timer, `data` | edit, debounce, write, poll, removal | `SetpointWrite` |
| Config entry: `__init__.py`, `config_flow.py`, the coordinator's `ConfigEntryAuthFailed` | stored key and options, update listener, flows | discovery, first setup, reload, poll refused, reauth, reconfigure, options | `EntryLifecycle` |
| Home program: `coordinator.py` `merge_home_program`, `async_set_home_program`, `async_get_home_program`, `lib/protocol.py` | the device's weekly schedule | GET, merge, SET, verify; retry as a whole | `HomeProgram`, `HomeProgramWrite` |
| Services: `services.py` | none | check the request, fold the `days` shorthand, resolve one coordinator | `HomeProgram`, but for the lookup of the coordinator |
| Calibration, options, power: `number.py`, `select.py`, `switch.py`, presets of `climate.py`, `coordinator.py` `_known` | none of their own; read `coordinator.data` | write at once; a calibration axis carries the other one | `SettingWrites` |
| Status advertisements: `lib/advertisement.py` | burst buckets by counter | add a chunk, discard, clear, decrypt | `BurstReassembler` |
| Codec: `lib/protocol.py`, `lib/models.py` | none | framing, batches, status structure | `WireFormat`, `Framing` |
| Cryptography: `lib/crypto.py` | none | key derivation, HMAC, AES-GCM | assumed (see below) |
| Readings: `sensor.py`, `binary_sensor.py`, the read side of `climate.py` | none | attribute mappings of a status | `Readings`, checked in `Framing` |
| Clock button, `entity.py`, diagnostics, constants | none | a call that forwards to one setter; registration; a redacted dump | not modelled |
| Tools: `src/tools/` | a snapshot file | attended hardware sessions: snapshot, write tests, restore; scripts that only read | `ToolSession`, but for those that only read |

How they meet. Every poll, write, service call and key validation of every
thermostat passes the one gate; inside it a fresh client session is opened,
used and closed. The setpoint path and the entry use the gate as an abstract
slot. The coordinator tells the entry of a refused key by raising; the flows
tell it of a new key through the entry's data and its update listener.

What is hard here: a cancellation that meets a grant, a timeout or a teardown;
retries that queue again; answers matched by counter while pushes and late
answers arrive; a device that applies a write only after it has answered it;
polls that overlap with writes; a key replaced while the entry is being set up;
a schedule read, merged and written back while somebody edits it on the device;
a reload under writes and polls that run on; one-byte counters that come round
again; a restore broken off halfway.
`PROJECT.json` lists these hazards, each at its line, with the properties that
cover it, or the reason none does yet.

What makes each part correct: one connection at a time, nobody starved (gate);
no mismatched answer, nobody left waiting, a refused key told from a bad link
(session); no stale setpoint sent or shown (setpoint path); no key lost, and the
entry running on what is stored (entry); an acknowledged day of the schedule stays
what it was acknowledged as, and what the service accepts is not refused later
(home program); the entities end up telling what the device holds (settings);
nothing emitted or accepted that was not sent (advertisements, codec); no entity
that contradicts another (readings); a verdict that can be relied on (tools).

## The modules

Actions have the names of the functions or events they stand for. A step is what
one task, or one callback, runs between two suspensions: where the code releases
the semaphore, decides to retry and asks again without an `await` in between, so
does the action.

**ConnectionSlot** is the promise: tasks ask for a slot, at most one holds it,
everybody who asks is served or withdraws. **ConnectionGate** is
`asyncio.Semaphore` (modelled from CPython 3.13, the version Home Assistant
runs on), the retry loop and the teardown. `pc[o]` is the `await` a task is
suspended at. A task cancelled while queued is woken later
(`queuedCancelled`), one cancelled after its grant gives the permit back
(`grantedCancelled`). `Conclude` is one whole turn of `async_with_retries`; a
task whose device no scanner sees fails without touching the semaphore.
Simplifications: a connection attempt that is interrupted leaves no link; a
`BleakError` on disconnect counts as the link being gone, as the comment at
`lib/client.py:170-175` has it; a task's name is used again only when its link
is down.

**RemoteCalls** is what a request promises: it is executed at most once before
it succeeds, and it ends. **EB300Session** is a client, a lossy link and the
device. `future[n]` holds whose message the answer to counter `n` belongs to, so
a mismatch is visible. A session key is the number of the handshake that made
it: integrity of AES-GCM, and agreement of the derived keys only between holders
of the same PSK in the same handshake, are assumed and not modelled. The device
is external: it may answer any part of a frame, refuse requests, stay silent,
push at any time; it refuses a counter it has seen. It is assumed to answer the
handshake with ERROR only to refuse the key, as `lib/exceptions.py:26-30` does.
Notifications still under way at a disconnect are dropped. `adverse`, fixed
at the start, says whether anything gets lost at all. A client is connected
again only when its calls have ended (the integration makes a new client for
each attempt; the tools connect one again).

**SetpointWrite** composes the climate entity, the coordinator and the device
with `ConnectionSlot`, which by `ImplementsSlot` is all the gate shows of
itself. Edits are numbered, and an edit's number is its temperature, so "stale"
is "smaller". `wire` is a SET the device has not taken, `staged` one it has taken
and not applied. Two timing facts of the hardware are assumptions in guards:
the thermostat serves one connection at a time, so a new link drops what an
older one carried; and `POST_WRITE_SETTLE_SECONDS` after a write the device has
applied it (docs/HARDWARE_NOTES.md, "A SET is not visible"). An edit is made only
while the last poll succeeded, because Home Assistant calls no service of an
unavailable entity. Turning the knob on
the thermostat, and program or preset switches, are not in the model.

**EntryLifecycle** begins without an entry and numbers keys in the order they are
issued. The entry is made by the discovery flow or the user's own, which may be
open together; creating it aborts the other, whose validation may still wait for
the connection, and then ends without effect. What is stored is a key
and one of the options, the poll interval; `coordinator` is the copy setup took of
them. The other options are read when the entities are made, in the same setup.
`savedInSetup` is history: options were saved while a setup was under way. Home
Assistant's part is external: setup states and lock, retries, one flow of each
kind at a time, polls that stop after `ConfigEntryAuthFailed`, listeners that go
at unload, reloads that coalesce. The gate is a variable that names who is
connected. Removing the entry is not modelled.

**HomeProgram** holds the functions: what the service's schema lets through,
`_collect_updates`, rounding, packing (a half-degree per unit), the order of the
day's slots on a timeline that starts at 02:00, padding and merge. A temperature
in a request is in hundredths of a degree, one in an event in tenths, one on the
wire in half degrees, so each conversion loses what the code's loses; a time is
a triple, of which the code drops the seconds. **HomeProgramWrite** is the two
services at work: each call holds the connection (`ConnectionSlot`) for read,
merge, write and verification, and does it all again when that fails. A SET sent
and not yet taken by the device is `wire`, one answered and not applied is
`staged`; the verification may therefore read the old program. `owed` and
`author` are history: what each day was last acknowledged to hold, and whose SET
made the program what it is.

**SettingWrites** is every write that is neither debounced nor superseded.
Edits are numbered and an edit's number is the value it writes; what the menu
sets has a value of its own, which for an option has no name in the integration
(`MenuValue`). A poll reads every setting at one moment, for it is one batch of GETs.
(Power and preset are read in a request of their own before it; the instance's
options are among the batched ones.) `Reload` shuts the coordinator down and puts
a new one in its place; tasks under way stay with the old one (`left`), where
neither what a poll reads nor a settle poll does anything. Polls run on too; Home
Assistant may cancel the scheduled one, and then it ends sooner. The operations
take turns at the thermostat, so what a connection left with the device is
applied before the next handshake is over.

**BurstReassembler** is the reassembler between a device that advertises
numbered messages, chunk by chunk, and a radio that loses, repeats and reorders
chunks. A message has as many chunks as it has, a counter modulo
`CounterModulus` (256 in the code) and the key of its session. A ciphertext is
the sequence of its chunks, each known by its message and index; `unwrap` returns
a message only for a ciphertext whose chunks are all of one message and one key,
which is what GCM's authentication means; it is assumed and not checked. `Window`
bounds how old the chunks still in the air may be. Four variables are history:
`heard`, `whole` and `decrypted` keep what was heard, emitted and opened of each
message, and `series` tells of each counter which message was heard last, and how
often in full without another one in between.

**WireFormat** is the codec byte by byte: the outer header, inner messages, the
fields of the status structure by width and sign. **Framing** sends frames of
one or more messages and has them arrive whole, cut, or with a byte changed.
**Readings** is what the entities make of a status that has arrived; unknown is the
empty sequence. Sensors, flags and card each read the status with code of their own,
and each has an operator of its own here (only the name of the program is shared, as
`EB300Data.program` is). The card also takes the edit that waits to be written
(`_pending_temperature_c`), in whose place it shows no setpoint of the device; when
an edit is set and cleared is `SetpointWrite`'s. Temperatures stay in tenths, the
energy in watt-minutes: the division that gives degrees and kilowatt-hours is
left out. The signal strength comes from Home Assistant, not from the status.

**ToolSession** is an attended session: `session.py --snapshot`, then `w_tests.py`
and `session.py --restore` in any order and number, over a device somebody stands
at. Each tool is a sequence of requests that may fail anywhere. `Reads`,
`TestWrites` and `RestoreWrites` are the requests in the order of the code. That
`0x1082` is inert in the Home program is the device's (docs/HARDWARE_NOTES.md,
"`0x1082` is silently inert"). Assumption: a GET of a setting returns what was
last SET; the lag the notes describe is of the status, which is not restored
from.

The `MC` modules give model values and symmetry; the `.cfg` files give the bounds. Definitions
whose comment begins with "Mutant:" are not part of any specification. Each
is a plausible bug in the definition it stands before, and is used to
make sure that some property notices it.

## The runs

| Run | Instance | What it shows |
|---|---|---|
| `gate_cancel` | 2 cancellable writes, 1 poll, 2 attempts | types; `PermitConserved`, `NoLostWakeup`, `LinkNeedsPermit`; `NoOvertaking`; the gate implements the slot, fairness included, so that at most one holds it and everybody is served |
| `gate_one_link` | 1 of 3 cancellable | `OneLinkAtATime` fails (finding) |
| `session` | 2 callers, batches of up to 2, 3 counters, 2 sessions, 2 notifications under way; anything lost and the key right, wrong or missing, or nothing lost | agreement on the session, verdicts, counters, matching, registration; calls implement `RemoteCalls`; with nothing lost every handshake and every call succeeds |
| `setpoint` | 3 edits, 2 polls at a time, 2 attempts, removal | types; nothing stale sent, applied, stored or shown; a written edit is shown once its polls are over; the card converges to the device |
| `entry_rotation` | from no entry; 2 rotations, 1 restart, 5 flows, 2 poll intervals | types; the entry runs on what is stored or a reload is due; the stored key never goes back; the key in force comes into force |
| `entry_reauth` | 1 rotation | `FailedEntryHasAWayOut` fails (finding) |
| `program` | 2 calls, 2 attempts, 2 days of 4 slots, 10 requests, 1 edit in the menu | types; acknowledged days survive; a write changes what it is asked to and a retry nothing more; nothing accepted is refused later; an answer can be pasted back |
| `settings` | 2 edits of any setting, a scheduled and a settle poll, 1 edit in the menu, 1 reload | types; once all is over the entities show what the device holds |
| `setting_other_axis` | 2 edits | `EditLeavesOtherAxisAlone` fails (finding): the second edit is made before the first's settle poll has ended |
| `bursts` | 4 messages of up to 2 chunks, 3 counters, 2 keys | what is heard in full is emitted, whole, and nothing else, until a counter comes round; from then on what is heard in full twice in a row is emitted, and decrypted under its own key |
| `frames` | frames of 2 of 19 messages and statuses, every cut, every byte replaced by 6 values | accepted is encoded; what is sent arrives; sensors, flags and card show what was sent, and agree |
| `tools` | 3 runs of the tests and the restore, 2 edits in the menu, any program, power and lock to begin with | types; the restore's verdict is true |

Why the bounds are enough. Gate: two waiters behind a holder are what order,
overtaking and a wakeup passed on need; two attempts is the code's own
`CONNECT_RETRY_ATTEMPTS`; the theorems hold for every number of tasks and
attempts. Session: two callers make answers cross, two requests make a batch
partial, three counters let one batch and one request through and then run out
in the middle of a batch, two sessions let an old session's leftovers meet a new
one. Setpoint: three edits let a task unwind while its successor is already
replaced, two polls overlap and swap. Entry: with two rotations each flow can
hold a key that has been replaced since, and the stored key can be two behind; one
restart brings a loaded entry back with a dead key.
Home program: two calls make one write what the other has read, two attempts
are the code's own, and so are four slots a day; the requests leave slots to be
padded before, at and after the 02:00 at which the timeline starts, and two days
tell a named day from one that is not. Settings: two edits overlap, or
follow each other before a poll, and write both axes; one reload meets each of
them and each poll. The two axes are alike, and so are polls, which symmetry uses.
Tools: three runs are a broken one, another broken one, and a whole one. Bursts: with three counters
a counter comes round after three messages, which stands for 256. Frames: two
messages make the boundary between them; the bytes put in are those that a
length, an operation and an error field are sensitive to.
All variables besides the bounds named in the modules' CONSTANTS are finite by
themselves.

Deadlock is checked except where the system may really stop: a client that stays
closed, an entity that is removed, calls that have all returned, a device that
falls silent, a frame that is full, a session with the tools that is over.

### Fairness

Weak fairness is asked of what the event loop, a timer or a held resource owes:
ready tasks resume, `BLE_OPERATION_TIMEOUT` and `request_timeout` fire, a
disconnect returns. Nothing is asked of the network or the device in
`gate_cancel`, and in `session` only when `adverse` is false, which is the
question whether everything succeeds when nothing is lost: no connection and no
answer ever has to come otherwise. In `SetpointWrite`, a task that waits for the slot gets it
(`SF(Connect)`), as `ConnectionGate` shows; polls keep being scheduled; the
device applies what it holds; nothing is asked of edits or of whether an attempt
succeeds. In `EntryLifecycle`, `Cooperation` says that setup
and polls get through now and then, that the user in the end enters the key in
force in a reauth that is open, and that the device is in reach when it is
validated, for `KeyComesIntoForce` is about nothing else; nobody has to set the
entry up, so it may stay absent. `HomeProgramWrite`, `SettingWrites`,
`BurstReassembler`, `Framing` and `ToolSession` have safety properties only;
that a call or a write ends follows from the gate.

### Findings

1. *Reauth after a failed setup* (`entry_reauth`). The listener that reloads the
   entry for a changed key is registered only after a first successful refresh.
   After a restart with a dead key the entry fails, the reauth form stores the
   new key, and nothing reloads it (`config_flow.py:231-239`).
2. *Two links at once* (`gate_one_link`). The disconnect is not shielded: a newer
   edit cancels a write in its teardown, the permit is released, the link is
   still up when the next operation connects (`coordinator.py:414-415`).
3. *A calibration edit undone by the next* (`setting_other_axis`). The other axis
   is written back as last polled, not as it is (`number.py:74-82`).

Six more divergences show in the models and have no run of their own:

- README.md:260-262 says that the card shows what the device holds when a write
  fails. If only the answer to a SET is lost and the retry fails too, no settle
  poll follows (`coordinator.py:314-326`), and until the next scheduled poll the
  card shows the value before the edit. `CardConverges` is stated so as to allow
  it.
- docs/PROTOCOL.md:178-181 promises that a temperature the device cannot hold is
  rejected. A request is rounded to tenths before it is checked
  (`coordinator.py:486`, `RoundedTenths`): 21.04 is stored as 21.0.
- The docstring at `lib/advertisement.py:105-113` says that a message with a
  chunk missing is never emitted. Buckets are never evicted and counters are one
  byte, so 256 messages later its bucket is filled up by another message. What
  comes out does not authenticate, and the later message is lost in the round in
  which it was heard. `NoCounterTwice` in `EmittedIsAMessage` is there for this;
  `HeardTwiceIsRead` says how far it goes: the device repeats its chunks, and a
  second round is always enough. One round is not: with `rounds = 1` in place of 2
  TLC finds the bucket whose leftovers complete a mix.
- The docstring at `__init__.py:60` has a change of the options reload the entry.
  Options saved while the first refresh is waiting find no listener yet
  (`__init__.py:46-49`) and are acted on only at the next reload; a key stored
  then is not lost, for the refresh that used the old one fails.
  `savedInSetup` in `RunsOnWhatIsStored` is there for this.
- The comment at `coordinator.py:216-221` has a poll follow every write within
  seconds. A calibration or option write that is under way when the entry is
  reloaded schedules it on the coordinator that was shut down, and the new one
  shows the old value until its next scheduled poll. `left` in
  `SettledDataIsCurrent` is there for this.
- `tools/session.py:3-6` says that restore sets every value and confirms that it
  stuck. It writes the manual setpoint before the program (`session.py:84-88`), so
  on a device that is in the Home program then the setpoint does not stick. A second
  restore cures that, unless the snapshot is itself of the Home program: then no
  restore brings the setpoint back. `startedIn` in `VerdictIsTrue` is there for
  this: the tool does report the mismatch.

## The proofs

Each component has its theorems in a module named after it, `...Proofs`; those of
`BurstReassembler` and `Framing` share `ReceiverProofs`. A theorem holds
for every value of the constants the assumptions of the component's module allow,
and uses nothing else. Besides bounds and types the assumptions are:

| Assumption | Why the code justifies it |
|---|---|
| `PollsAssumption` (`SetpointWrite`, `SettingWrites`) | a poll is not an edit: the names of tasks are the model's |
| `CallersAssumption` (`EB300Session`) | a caller's name is not one of the states a future may be in: the model writes both into `future` |
| `SettingsAssumption` (`SettingWrites`) | no calibration axis is an option: they are different entities with different message types |
| `DaysAssumption` (`HomeProgram`) | there are weekdays, and none is called `days` or `events`, the other fields of the service's schema |
| `ProgramsAssumption`, `MenuDaysAssumption` (`HomeProgramWrite`) | the device holds, and its menu makes, only what it would accept itself: whole slots, in order, on its temperature grid |
| `RequestsAssumption` (`HomeProgramWrite`) | Home Assistant applies the service's schema before it calls the handler, and it coerces the fields |
| `SamplesAssumption`, `StatusesAssumption` (`Framing`) | a message's error and operation are nibbles, as the enumerations of `const.py` are; and where a number is too wide for its field `struct.pack` raises, so that nothing is sent. Counters are any number: that one too large is refused is `Buildable`, in the guard of `Add`. |

**`ConnectionGateProofs`**, for any set `Ops`, any `Cancellable \subseteq Ops` and
any number of attempts:

| Theorem | Argument |
|---|---|
| `TypeCorrect` | inductive as it stands |
| `SlotExclusiveAlways`, `PermitConservedAlways` | together with `TypeOK` they are one inductive invariant, `PermitInv`. Exclusion alone is not inductive: a release is safe only because the counter says whether anybody has the permit. |
| `NoLostWakeupAlways` | `QueueInv`, on top of `PermitInv`: the deque holds each waiting task once, and while the permit is free no future in it is pending. A release wakes the first pending future or finds none. |
| `LinkNeedsPermitAlways` | `LinkInv` adds where in an attempt a link can be up, and what the ending of a task that has left one behind is. |
| `OneLinkWhileUncancelled` | with `Cancellable = {}` no task's ending is a cancellation, so every link has the permit, and the permit is exclusive. |
| `NobodyOvertakes` | `OrderInv`, on top of `QueueInv`: the waiter that was granted the permit stays ahead of those asleep until it resumes, however the deque changes. Whoever enters without having waited finds nobody asleep. |
| `GateImplementsSlot` | each step of the gate is a step of `ConnectionSlot` under `asking`, `holding` or leaves both as they are, given `PermitInv`. |

**`EB300SessionProofs`**, for any callers, counters, threshold, size of batches and
number of sessions:

| Theorem | Argument |
|---|---|
| `SessionTypeOK` | `SessionTypes` adds to `TypeOK` what is in the queues and the callers' records. |
| `KeysAgree` | `KeyInv`: a key is the one of the handshake under way, and the queues are empty once the client is closed. |
| `VerdictIsSound` | `VerdictInv`: what the device said of the key is true already while it is on its way, and while it is in the handshake's future. |
| `CountersStayFresh` | `FlightInv` and `DrawnInv`: every counter in a frame was drawn from this session's counter and not yet seen by the device, and frames in the queue share none. |
| `AnswersMatch`, `WaitersStayRegistered` | `OwnerInv` and `FutureInv`: a counter of a call under way is that call's alone, in frames, in answers and among the futures; an answer whose counter is nobody's falls on the floor. Neither property is inductive without the other. |
| `SessionMakesCalls` | each step of the session is a step of `RemoteCalls` or leaves it alone: the safety half of `ImplementsCalls`. |

**`SetpointWriteProofs`**, for any number of edits, polls and attempts:

| Theorem | Argument |
|---|---|
| `WriteTypes` | the first part of the inductive invariant `WriteInv` |
| `OnlyNewestIsSentAlways` | `EditInv`: a task that no cancellation has reached is the one `_write_task` names, and that is the newest edit's. |
| `NothingGoesBackAlways` | `OrderInv`: data, setpoint, staged and wire are edits in the order in which they were made, and what a poll has read lies between data and setpoint. It needs `EditInv`, for the wire must not get an edit older than what is staged. |
| `WriteIsShownAlways` | `ShowInv` says it of the time before the settle poll too: nothing else is on its way to the device, and a poll that will show the edit is to come, has it, or has shown it. `SentInv` carries it from the answer of the device to the end of the write. |
| `WritesUseTheSlot` | each step is one `ConnectionSlot` allows, or leaves the slot alone. |

**`SettingWritesProofs`**, for any axes, options, edits, polls and reloads:

| Theorem | Argument |
|---|---|
| `SettingTypeOK` | the first part of the inductive invariant `SettingInv` |
| `SettledDataStaysCurrent` | `CurrentInv`, which does not wait for the polls of a coordinator that was shut down, with `StagedInv` (a SET to be applied is followed by a settle poll), `ReadInv` (what a poll has read is current until it lets go of the connection) and `ValueInv` (an option is never written under a name it does not have, an axis is always known). |
| `SettingsUseTheSlot` | as for the setpoint |

**`EntryLifecycleProofs`**, for any number of issued keys and of restarts:

| Theorem | Argument |
|---|---|
| `EntryTypes`, `EntryRunsOnWhatIsStored` | two parts of one inductive invariant, `EntryInv`. Neither is inductive alone: whether an entry that is about to be loaded is current depends on what was stored while its first refresh had the slot (`SetupIsCurrent`), and that nothing was depends on accepted flows having the slot (`AcceptedIsNewest`). |
| `StoredKeyAdvances` | from `AcceptedIsNewest` of the same invariant: a flow keeps the slot from the handshake that accepts its key to the step that stores it, so no other flow stores a newer one in between. |

**`HomeProgramWriteProofs`**, for any calls, attempts and menu edits, any weekdays,
number of slots, programs and requests:

| Theorem | Argument |
|---|---|
| `ProgramTypeOK`, `ValidEditsAreTaken` | `MergeSettles`: the merge of anything the service accepts into a program the device accepts is again one it accepts (`Good`); and the device's program is `Good` in every state. |
| `ResponsesPasteBack` | `ResponseIsAccepted` and `ResponseChangesNothing`: units, rounding and padding lose nothing of a `Good` program. |
| `AcknowledgedDaysStay` | `ApartInv`: a SET in flight carries the days its call does not name as the device has them, wherever a day is owed to somebody. It needs `FlightInv`: there is one SET in flight, of the call that has the connection, or had it last. |
| `OnlyWhatIsAskedIsWritten` | from `ApartInv`, and `MergedDayTwice`: merging what was merged changes nothing. |

A day is a function on its slots, and a slot left open is filled from the one before
it, so what holds of a merged day is shown slot by slot: the least slot for which it
failed would have a predecessor for which it holds (`LeastNumber`, from the library's
well-foundedness of `<`). The same way a recursive function over slots is shown
to exist (`SlotsExist`).

**`ReceiverProofs`**, for any number of chunks, counters, keys and messages and
any window; and for any messages and statuses, any bytes a newer firmware appends or a
damage leaves, any largest payload that one length byte can count and any size of batch:

| Theorem | Argument |
|---|---|
| `BurstTypeOK` | first part of the inductive invariant `BurstInv` |
| `EmittedIsSent`, `HeardWholeIsEmitted` | `PureInv`: before a counter comes round a bucket holds chunks of the message that has its counter and no other, namely those heard of it, until it is whole. |
| `HeardTwiceIsReadHolds` | `SeriesInv`: in its first round a message either has all the chunks heard of it in the bucket (`Own`) or has the bucket to itself (`Sole`), since whatever completes drops the bucket; when the round ends it was emitted or has both (a bucket with all its chunks would be complete), and a bucket with nothing else in it, filled, is the message. `ReadInv`: what was emitted under its own key was decrypted then, for the key never comes back. |
| `AcceptedIsEncodedHolds` | `AcceptedBytes`, of any sequence of bytes, by `ParseSound`: what is parsed from an offset on is what the bytes from there to the end encode. From the end backwards: a message that is whole moves the offset on, by 6 at least, and two bytes that are read as a short are written as the same two (`BytesOfUnsigned`), as the two nibbles of the status byte are (`OpStatusOf`). |
| `FrameArrivesHolds` | `FrameInv`: an undamaged payload parses to the batch, and a status in the batch is in its message's data. Of a payload that parses, one message more parses to one message more (`ParseAppend`), and what is packed is unpacked (`StatusRoundTrip`), from the widths of the fields, which tell where each begins (`FlattenParts`), and `UnsignedRoundTrip` and `SignedRoundTrip` for a field's bytes. |
| `EntitiesAgreeHolds` | a status is read as it was pushed (`StatusRoundTrip` again), and the separate readings of floor, room, setpoint, power and relay are compared with what was sent (`ReadAsSent`), with either probe and with or without an edit that waits. |

`FrameInv` is needed because what is to be shown of a frame is about the parser, which
starts at the first byte, and a step of the sender adds to the end. The parser is a
recursive function of the offset; that it exists, and what it is at each offset, is
shown for the offsets from the end down (`Downwards`), as are sums and joined
sequences from the start up (`Upwards`). Both stand for an induction: the greatest, or the
least, number for which something failed would have a neighbour for which it holds.

**`ToolSessionProofs`**, for any number of runs and of edits in the menu:

| Theorem | Argument |
|---|---|
| `ToolTypeOK` | first part of the inductive invariant `ToolInv` |
| `RestoreVerdictIsTrue` | `RestoreInv`: what a restore has written so far is as in the snapshot, touched in the menu, or the manual setpoint on a device in the Home program; what its verification has read so far is what the device holds, or touched since. |

Each inductive invariant was checked by TLC on its run's instance before it was proved.

What is left to TLC: liveness and the fairness half of the refinements
(`ImplementsSlot`, `ImplementsCalls`, `ConnectSucceeds`, `EveryCallSucceeds`,
`CardConverges`, `KeyComesIntoForce`), which need ENABLED. Every invariant and every
action property a passing run checks is also proved.

## Plan

In order; each with its runs, mutants and map entries.

1. `ConnectionGate` with `ConnectionSlot`: done, proved.
2. `EB300Session` with `RemoteCalls`: done, its safety properties proved.
3. `SetpointWrite` over `ConnectionSlot`: done, its safety properties proved.
4. `EntryLifecycle`: done, its invariants and its action property proved.
5. `HomeProgram` and `HomeProgramWrite`: done, proved.
6. `SettingWrites`: done, proved.
7. `BurstReassembler`: done, proved.
8. `WireFormat`, `Readings` and `Framing`: done, proved.
9. `ToolSession`: done, proved.

### Not modelled

- Cryptography: a library; its guarantees are assumptions of `EB300Session` and
  `BurstReassembler`.
- The lookup of a service's target (`services.py` `_resolve_coordinator`): sets of
  registry entries, whose only effect is to refuse the call or to name the
  coordinator.
- The clock button, the device's registration, diagnostics and constants: they keep
  no state, and what they write no poll reads.
- The 16-byte normal advertisement: a record of flags that nothing acts on.
- What a preset, a program or the knob does to the setpoint in force inside the
  device: the repository does not say.
- Bluetooth routing and the internal retries of `establish_connection`: an attempt
  succeeds or fails.
- The tools that only read, print or scan.
