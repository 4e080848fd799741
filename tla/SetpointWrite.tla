--------------------------- MODULE SetpointWrite ---------------------------
(***************************************************************************)
(* A setpoint edited in Home Assistant, on its way to the thermostat and   *)
(* back to the card: the debounced write task of climate.py, _write and    *)
(* the settle poll of coordinator.py, scheduled polls, and a thermostat    *)
(* that applies what it was sent only later.                               *)
(*                                                                         *)
(* Edits are numbered in the order they are made, and an edit's number     *)
(* stands for its temperature; 0 is the setpoint before any edit.  Each    *)
(* edit has a task.  Connections are taken from the one-slot service of    *)
(* ConnectionSlot, which ConnectionGate implements.                        *)
(*                                                                         *)
(* place[t], where task t is suspended:                                    *)
(*   "none"        an edit not made, a poll not running                    *)
(*   "debouncing"  in the sleep of _debounce_and_write                     *)
(*   "asking"      waiting for the connection                              *)
(*   "connected"   has the slot: connecting, or in the handshake           *)
(*   "sending"     the SET is written, the device does not have it         *)
(*   "sent"        the device has the SET, its answer is awaited           *)
(*   "closing"     in the finally: await client.disconnect()               *)
(*   "ended"       an edit's task that is done                             *)
(***************************************************************************)
EXTENDS Naturals

CONSTANTS MaxEdits,     \* Bound: edits made
          Polls,        \* Bound: polls, scheduled or settle, at the same time
          MaxAttempts   \* CONNECT_RETRY_ATTEMPTS

ASSUME MaxEditsAssumption == MaxEdits \in Nat
ASSUME MaxAttemptsAssumption == MaxAttempts \in Nat \ {0}

VARIABLES
    \* the climate entity
    latest,              \* the newest edit
    pendingTemperature,  \* _pending_temperature_c, 0 for None
    writeTask,           \* _write_task, 0 for None
    removed,             \* the entity is gone, the coordinator shut down
    \* the tasks
    place, attempt,
    outcome,             \* what an attempt ends with
    cancelled,           \* the edits' tasks with a CancelledError to come
    asking, holding,     \* the connection slot
    \* the coordinator
    settleTimer,         \* the write _unsub_settle_refresh waits after, or 0
    reading,             \* the setpoint a poll has read
    data,                \* the setpoint in coordinator.data
    lastUpdateSuccess,
    \* the link and the thermostat
    wire,                \* a SET on its way to the device, 0 for none
    staged,              \* a SET the device has and not yet applied, 0 for none
    setpoint,            \* the setpoint in force, which a status read returns
    toShow               \* history: the newest edit is written, and since then no
                         \* poll has failed

entityVars == <<latest, pendingTemperature, writeTask, removed>>
taskVars   == <<place, attempt, outcome, cancelled>>
slotVars   == <<asking, holding>>
coordVars  == <<settleTimer, reading, data, lastUpdateSuccess, toShow>>
deviceVars == <<wire, staged, setpoint>>
vars == <<entityVars, taskVars, slotVars, coordVars, deviceVars>>

Edits == 1..MaxEdits
Tasks == Edits \cup Polls

ASSUME PollsAssumption == Polls \cap Edits = {}

Slot == INSTANCE ConnectionSlot WITH Ops <- Tasks

Init ==
    /\ latest = 0 /\ pendingTemperature = 0 /\ writeTask = 0 /\ removed = FALSE
    /\ place = [t \in Tasks |-> "none"]
    /\ attempt = [t \in Tasks |-> 0]
    /\ outcome = [t \in Tasks |-> "none"]
    /\ cancelled = {}
    /\ Slot!SlotInit
    /\ settleTimer = 0
    /\ reading = [p \in Polls |-> 0]
    /\ data = 0 /\ lastUpdateSuccess = TRUE /\ toShow = FALSE
    /\ wire = 0 /\ staged = 0 /\ setpoint = 0

\* t runs on: nothing has been thrown into it.
Runs(t) == t \notin cancelled

Goes(t, to) == place' = [place EXCEPT ![t] = to]

-----------------------------------------------------------------------------
(* The entity.                                                             *)

\* _cancel_pending_write: Task.cancel() only schedules the CancelledError.
CancelPendingWrite ==
    cancelled' = IF writeTask # 0 /\ place[writeTask] # "ended"
                 THEN cancelled \cup {writeTask} ELSE cancelled

\* async_set_temperature, which Home Assistant calls only if the entity is
\* available: show the new value, cancel the older edit's task, and start one for
\* this edit.
Edit ==
    /\ ~removed /\ lastUpdateSuccess /\ latest < MaxEdits
    /\ latest' = latest + 1
    /\ pendingTemperature' = latest + 1
    /\ CancelPendingWrite
    /\ writeTask' = latest + 1
    /\ Goes(latest + 1, "debouncing")
    /\ toShow' = FALSE
    /\ UNCHANGED <<removed, attempt, outcome, slotVars, settleTimer, reading, data,
                   lastUpdateSuccess, deviceVars>>

\* The entry is unloaded: async_will_remove_from_hass and async_shutdown.
Remove ==
    /\ ~removed
    /\ removed' = TRUE
    /\ CancelPendingWrite
    /\ writeTask' = 0
    /\ settleTimer' = 0 /\ toShow' = FALSE
    /\ UNCHANGED <<latest, pendingTemperature, place, attempt, outcome, slotVars,
                   reading, data, lastUpdateSuccess, deviceVars>>

\* Mutant: a task that ends always clears the handle.
FinishClearing(e) ==
    /\ Goes(e, "ended")
    /\ outcome' = [outcome EXCEPT ![e] = "none"]
    /\ attempt' = [attempt EXCEPT ![e] = 0]
    /\ writeTask' = 0

\* The task of edit e is done: the finally of _debounce_and_write lets go of
\* the handle only if it is still this task's.
Finish(e) ==
    /\ Goes(e, "ended")
    /\ outcome' = [outcome EXCEPT ![e] = "none"]
    /\ attempt' = [attempt EXCEPT ![e] = 0]
    /\ writeTask' = IF writeTask = e THEN 0 ELSE writeTask

-----------------------------------------------------------------------------
(* Connections: async_with_retries and async_run_once, for any task.       *)

\* Ask for a connection, or fail at once because no scanner sees the device.
\* Either way `attempt` counts from 1.
Ask(t) ==
    /\ Slot!Ask(t)
    /\ Goes(t, "asking")
    /\ attempt' = [attempt EXCEPT ![t] = 1]

Connect(t) ==
    /\ place[t] = "asking" /\ Runs(t)
    /\ Slot!Enter(t)
    /\ Goes(t, "connected")
    /\ UNCHANGED <<attempt, outcome, cancelled, entityVars, coordVars, deviceVars>>

\* The attempt is over and the teardown is awaited.
Teardown(t, result) ==
    /\ Goes(t, "closing")
    /\ outcome' = [outcome EXCEPT ![t] = result]
    /\ UNCHANGED <<attempt, slotVars>>

\* Mutant: the attempts are not counted.
RetryAlways(t) ==
    /\ attempt' = [attempt EXCEPT ![t] = @ + 1]
    /\ Slot!LineUpAgain(t)
    /\ Goes(t, "asking")
    /\ outcome' = [outcome EXCEPT ![t] = "none"]

\* Line up again after a failed attempt.
Retry(t) ==
    /\ attempt[t] < MaxAttempts
    /\ attempt' = [attempt EXCEPT ![t] = @ + 1]
    /\ Slot!LineUpAgain(t)
    /\ Goes(t, "asking")
    /\ outcome' = [outcome EXCEPT ![t] = "none"]

\* The attempt fails, by an error or BLE_OPERATION_TIMEOUT.
AttemptFails(t) ==
    /\ place[t] \in {"connected", "sending", "sent"} /\ Runs(t)
    /\ Teardown(t, "failed")
    /\ UNCHANGED <<cancelled, entityVars, coordVars, deviceVars>>

-----------------------------------------------------------------------------
(* The task of an edit: _debounce_and_write and _write.                    *)

\* Mutant: the optimistic value is kept until a poll.
DebounceEndsShowing(e) ==
    /\ place[e] = "debouncing" /\ Runs(e)
    /\ \/ /\ Ask(e)
          /\ UNCHANGED <<outcome, writeTask>>
       \/ /\ Finish(e)
          /\ UNCHANGED slotVars
    /\ UNCHANGED <<latest, pendingTemperature, removed, cancelled, coordVars, deviceVars>>

\* The sleep is over: the optimistic value goes, and the write is attempted.
DebounceEnds(e) ==
    /\ place[e] = "debouncing" /\ Runs(e)
    /\ pendingTemperature' = 0
    /\ \/ /\ Ask(e)
          /\ UNCHANGED <<outcome, writeTask>>
       \/ /\ Finish(e)
          /\ UNCHANGED slotVars
    /\ UNCHANGED <<latest, removed, cancelled, coordVars, deviceVars>>

\* The handshake is done, so what an older link still carried is gone: the
\* thermostat serves one connection at a time.
SendSet(e) ==
    /\ place[e] = "connected" /\ Runs(e)
    /\ Goes(e, "sending")
    /\ wire' = e
    /\ UNCHANGED <<attempt, outcome, cancelled, entityVars, slotVars, coordVars,
                   staged, setpoint>>

\* The device's answer arrives: the write has succeeded.
SetAnswered(e) ==
    /\ place[e] = "sent" /\ Runs(e)
    /\ Teardown(e, "ok")
    /\ UNCHANGED <<cancelled, entityVars, coordVars, deviceVars>>

\* The disconnect returns.  A write that succeeded schedules the settle poll, in
\* place of one that is already scheduled; one that failed does not.
WriteCloses(e) ==
    /\ place[e] = "closing" /\ Runs(e)
    /\ wire' = 0
    /\ \/ /\ outcome[e] = "failed"
          /\ Retry(e)
          /\ UNCHANGED <<writeTask, settleTimer, toShow>>
       \/ /\ Slot!Leave(e)
          /\ Finish(e)
          /\ IF outcome[e] = "ok" THEN settleTimer' = e /\ toShow' = (e = latest /\ ~removed)
             ELSE UNCHANGED <<settleTimer, toShow>>
    /\ UNCHANGED <<latest, pendingTemperature, removed, cancelled, reading, data,
                   lastUpdateSuccess, staged, setpoint>>

\* Mutant: a cancelled attempt is retried like a failed one.
UnwindRetrying(e) ==
    /\ e \in cancelled
    /\ cancelled' = cancelled \ {e}
    /\ \/ /\ place[e] = "debouncing"
          /\ Finish(e)
          /\ UNCHANGED slotVars
       \/ /\ place[e] = "asking"
          /\ Slot!Withdraw(e)
          /\ Finish(e)
       \/ /\ place[e] \in {"connected", "sending", "sent"}
          /\ Teardown(e, "failed")
          /\ UNCHANGED writeTask
       \/ /\ place[e] = "closing"
          /\ Slot!Leave(e)
          /\ Finish(e)
    /\ UNCHANGED <<latest, pendingTemperature, removed, coordVars, deviceVars>>

\* The CancelledError is thrown where the task is suspended.  In an attempt it
\* leads to the teardown, in the teardown out of it.
Unwind(e) ==
    /\ e \in cancelled
    /\ cancelled' = cancelled \ {e}
    /\ \/ /\ place[e] = "debouncing"
          /\ Finish(e)
          /\ UNCHANGED slotVars
       \/ /\ place[e] = "asking"
          /\ Slot!Withdraw(e)
          /\ Finish(e)
       \/ /\ place[e] \in {"connected", "sending", "sent"}
          /\ Teardown(e, "cancelled")
          /\ UNCHANGED writeTask
       \/ /\ place[e] = "closing"
          /\ Slot!Leave(e)
          /\ Finish(e)
    /\ UNCHANGED <<latest, pendingTemperature, removed, coordVars, deviceVars>>

-----------------------------------------------------------------------------
(* Polls.                                                                  *)

\* The refresh ends: data is stored, or the update has failed.
Refreshed(ok) ==
    /\ lastUpdateSuccess' = ok
    /\ toShow' = (toShow /\ ok)

BeginPoll(p) ==
    /\ place[p] = "none"
    /\ \/ /\ Ask(p)
          /\ UNCHANGED <<lastUpdateSuccess, toShow>>
       \/ /\ Refreshed(FALSE)
          /\ UNCHANGED <<place, attempt, slotVars>>
    /\ UNCHANGED <<outcome, cancelled, entityVars, reading, data, deviceVars>>

\* The update interval is over.
ScheduledPoll(p) ==
    /\ ~removed
    /\ BeginPoll(p)
    /\ UNCHANGED settleTimer

\* Mutant: the poll does not wait for the device to settle.
SettlePollAtOnce(p) ==
    /\ settleTimer # 0
    /\ settleTimer' = 0
    /\ BeginPoll(p)

\* POST_WRITE_SETTLE_SECONDS after the write.  Timing assumption, measured on
\* hardware: by then the device has applied what that write sent.
SettlePoll(p) ==
    /\ settleTimer # 0 /\ settleTimer \notin {wire, staged}
    /\ settleTimer' = 0
    /\ BeginPoll(p)

\* The status is read.
PollReads(p) ==
    /\ place[p] = "connected"
    /\ reading' = [reading EXCEPT ![p] = setpoint]
    /\ wire' = 0
    /\ Teardown(p, "ok")
    /\ UNCHANGED <<cancelled, entityVars, settleTimer, data, lastUpdateSuccess,
                   toShow, staged, setpoint>>

PollEnds(p) ==
    /\ Goes(p, "none")
    /\ outcome' = [outcome EXCEPT ![p] = "none"]
    /\ attempt' = [attempt EXCEPT ![p] = 0]
    /\ reading' = [reading EXCEPT ![p] = 0]

\* The disconnect returns; what was read is stored before anybody else runs.
PollCloses(p) ==
    /\ place[p] = "closing"
    /\ \/ /\ outcome[p] = "failed"
          /\ Retry(p)
          /\ UNCHANGED <<reading, data, lastUpdateSuccess, toShow>>
       \/ /\ Slot!Leave(p)
          /\ PollEnds(p)
          /\ data' = IF outcome[p] = "ok" THEN reading[p] ELSE data
          /\ Refreshed(outcome[p] = "ok")
    /\ UNCHANGED <<cancelled, entityVars, settleTimer, deviceVars>>

-----------------------------------------------------------------------------
(* The link and the thermostat.                                            *)

\* The device takes the SET, even from a task that is being cancelled.
DeviceTakesSet ==
    /\ wire # 0
    /\ staged' = wire
    /\ wire' = 0
    /\ place' = [place EXCEPT ![wire] = IF @ = "sending" THEN "sent" ELSE @]
    /\ UNCHANGED <<attempt, outcome, cancelled, entityVars, slotVars, coordVars,
                   setpoint>>

\* It applies it: on disconnect or within about a second.
DeviceApplies ==
    /\ staged # 0
    /\ setpoint' = staged
    /\ staged' = 0
    /\ UNCHANGED <<taskVars, entityVars, slotVars, coordVars, wire>>

\* The SET is lost with the link.
SetLost ==
    /\ wire # 0
    /\ wire' = 0
    /\ UNCHANGED <<taskVars, entityVars, slotVars, coordVars, staged, setpoint>>

WriteStep(e) ==
    \/ DebounceEnds(e) \/ SendSet(e) \/ SetAnswered(e) \/ WriteCloses(e) \/ Unwind(e)

PollStep(p) ==
    \/ ScheduledPoll(p) \/ SettlePoll(p) \/ PollReads(p) \/ PollCloses(p)

Next ==
    \/ Edit \/ Remove
    \/ \E e \in Edits : WriteStep(e)
    \/ \E p \in Polls : PollStep(p)
    \/ \E t \in Tasks : Connect(t) \/ AttemptFails(t)
    \/ DeviceTakesSet \/ DeviceApplies \/ SetLost

\* The loop runs what is ready, timers fire, a connection that is waited for is
\* had in the end (ConnectionGate), polls keep coming, and the device applies
\* what it has.  No connection, read or write has to succeed.
Fairness ==
    /\ \A e \in Edits :
          WF_vars(DebounceEnds(e) \/ AttemptFails(e) \/ Unwind(e) \/ WriteCloses(e))
    /\ \A p \in Polls : WF_vars(ScheduledPoll(p) \/ AttemptFails(p) \/ PollCloses(p))
    /\ \A t \in Tasks : SF_vars(Connect(t))
    /\ WF_vars(DeviceApplies)

Safety == Init /\ [][Next]_vars
Spec == Safety /\ Fairness

-----------------------------------------------------------------------------
(* Properties.                                                             *)

\* Every variable has its type.
TypeOK ==
    /\ latest \in 0..MaxEdits /\ pendingTemperature \in 0..MaxEdits
    /\ writeTask \in 0..MaxEdits /\ removed \in BOOLEAN
    /\ place \in [Tasks -> {"none", "debouncing", "asking", "connected", "sending",
                           "sent", "closing", "ended"}]
    /\ attempt \in [Tasks -> 0..MaxAttempts]
    /\ outcome \in [Tasks -> {"none", "ok", "failed", "cancelled"}]
    /\ cancelled \subseteq Edits
    /\ asking \subseteq Tasks /\ holding \subseteq Tasks
    /\ settleTimer \in 0..MaxEdits
    /\ reading \in [Polls -> 0..MaxEdits] /\ data \in 0..MaxEdits
    /\ lastUpdateSuccess \in BOOLEAN /\ toShow \in BOOLEAN
    /\ wire \in 0..MaxEdits /\ staged \in 0..MaxEdits /\ setpoint \in 0..MaxEdits

\* Rule 1 of the write path: only the newest edit is ever put on the air, and
\* none once the entity is removed.
OnlyNewestIsSent ==
    [][\A e \in Edits : place[e] # "sending" /\ place'[e] = "sending"
                            => e = latest /\ ~removed]_vars

\* No stale write lands, and no stale status replaces a newer one: neither the
\* setpoint in force nor the one shown ever goes back to an older edit's,
\* whatever was retried, timed out or cancelled on the way, and though a settle
\* poll, a scheduled poll and their retries overlap with writes.
NothingGoesBack == [][setpoint' >= setpoint /\ data' >= data]_vars

\* Once the newest edit has been written and no poll is due or under way, the
\* card shows it, provided no poll has failed since: the settle poll did not come
\* too early, was not forgotten, and nothing older was stored over it.
WriteIsShown ==
    toShow /\ settleTimer = 0 /\ (\A p \in Polls : place[p] = "none") => data = latest

TargetTemperature == IF pendingTemperature # 0 THEN pendingTemperature ELSE data

\* If polls succeed from some time on, the card comes to show what the device
\* holds, whatever happened to the writes.
CardConverges ==
    <>[](lastUpdateSuccess /\ ~removed) => <>[](TargetTemperature = setpoint)
=============================================================================
