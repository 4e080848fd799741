--------------------------- MODULE SettingWrites ---------------------------
(***************************************************************************)
(* Everything but the setpoint that Home Assistant writes to a thermostat: *)
(* the two calibration numbers, and the settings that are one value each   *)
(* (power, preset, key lock, language, screensaver).  Such an edit is      *)
(* written without debounce and is not superseded by a newer one, so that  *)
(* several writes and polls wait for the connection together.  The entry   *)
(* may be reloaded under them, onto a new coordinator.                     *)
(*                                                                         *)
(* Edits are numbered in the order they are made, and an edit's number     *)
(* stands for the value it gives; 0 is every setting's value at first.     *)
(*                                                                         *)
(* place[t], where edit or poll t is suspended:                            *)
(*   "idle"        not begun, or over                                      *)
(*   "asking"      waiting for the connection                              *)
(*   "connected"   connecting, in the handshake, or a poll reading         *)
(*   "writing"     the SET is sent, its answer awaited                     *)
(*   "closing"     in the finally: await client.disconnect()               *)
(***************************************************************************)
EXTENDS Naturals

CONSTANTS MaxEdits,        \* Bound: edits in Home Assistant
          MaxMenuEdits,    \* Bound: edits in the thermostat's menu
          Polls,           \* Bound: polls, scheduled or settle, at the same time
          MaxReloads,      \* Bound: reloads of the entry
          Axes,            \* the two axes of the calibration
          Options,         \* the settings that are one value each
          MaxAttempts      \* CONNECT_RETRY_ATTEMPTS

ASSUME SettingBoundsAssumption ==
    /\ MaxEdits \in Nat /\ MaxMenuEdits \in Nat /\ MaxReloads \in Nat
    /\ MaxAttempts \in Nat \ {0}

ASSUME SettingsAssumption == Axes \cap Options = {}

VARIABLES
    \* the tasks
    place, attempt,
    outcome,             \* what an attempt, and at last the task, ends with
    sets,                \* the settings an edit's SET carries, and their values
    left,                \* the tasks of a coordinator that is shut down
    asking, holding,     \* the connection slot
    \* the coordinator
    settleDue,           \* _unsub_settle_refresh is scheduled
    reading,             \* what a poll has read
    data,                \* coordinator.data
    lastUpdateSuccess,
    reloads,
    \* the link and the thermostat
    wire,                \* the SET on its way to the device, as a set
    staged,              \* the SET the device has and not yet applied, as a set
    device, menuEdits

taskVars   == <<place, attempt, outcome, sets, left>>
slotVars   == <<asking, holding>>
coordVars  == <<settleDue, reading, data, lastUpdateSuccess, reloads>>
deviceVars == <<wire, staged, device, menuEdits>>
vars == <<taskVars, slotVars, coordVars, deviceVars>>

Settings == Axes \cup Options
Edits == 1..MaxEdits
Tasks == Edits \cup Polls

ASSUME PollsAssumption == Polls \cap Edits = {}

\* What the user picks in the menu is, for an option, one this version of the
\* integration has no name for.
MenuValue == MaxEdits + 1
Unknown == MaxEdits + 2

Slot == INSTANCE ConnectionSlot WITH Ops <- Tasks

Fresh == [s \in Settings |-> 0]

Init ==
    /\ place = [t \in Tasks |-> "idle"]
    /\ attempt = [t \in Tasks |-> 0]
    /\ outcome = [t \in Tasks |-> "none"]
    /\ sets = [e \in Edits |-> <<>>]
    /\ Slot!SlotInit
    /\ settleDue = FALSE
    /\ reading = [p \in Polls |-> Fresh]
    /\ data = Fresh /\ lastUpdateSuccess = TRUE
    /\ left = {} /\ reloads = 0
    /\ wire = {} /\ staged = {} /\ device = Fresh /\ menuEdits = 0

-----------------------------------------------------------------------------
(* Attempts: async_with_retries and async_run_once, for any task.          *)

\* The task is over; how an edit's ended is kept for the properties.
Ends(t, result) ==
    /\ place' = [place EXCEPT ![t] = "idle"]
    /\ attempt' = [attempt EXCEPT ![t] = 0]
    /\ outcome' = [outcome EXCEPT ![t] = IF t \in Edits THEN result ELSE "none"]

\* Attempts from `first` on find no scanner that sees the device, and fail
\* without waiting, until one asks for the connection or none is left.
NextAttempt(t, first) ==
    \/ \E n \in first..MaxAttempts :
          /\ attempt' = [attempt EXCEPT ![t] = n]
          /\ place' = [place EXCEPT ![t] = "asking"]
          /\ outcome' = [outcome EXCEPT ![t] = "none"]
          /\ IF t \in holding THEN Slot!LineUpAgain(t) ELSE Slot!Ask(t)
    \/ /\ Ends(t, "failed")
       /\ IF t \in holding THEN Slot!Leave(t) ELSE UNCHANGED slotVars

\* The last attempt is over, and so is the task.
Finish(t) ==
    /\ outcome[t] = "ok" \/ attempt[t] = MaxAttempts
    /\ Slot!Leave(t)
    /\ Ends(t, outcome[t])

Connect(t) ==
    /\ place[t] = "asking"
    /\ Slot!Enter(t)
    /\ place' = [place EXCEPT ![t] = "connected"]
    /\ UNCHANGED <<attempt, outcome, sets, left, coordVars, deviceVars>>

Teardown(t, result) ==
    /\ place' = [place EXCEPT ![t] = "closing"]
    /\ outcome' = [outcome EXCEPT ![t] = result]
    /\ UNCHANGED <<attempt, sets, left, slotVars>>

\* By an error or BLE_OPERATION_TIMEOUT.
AttemptFails(t) ==
    /\ place[t] \in {"connected", "writing"}
    /\ Teardown(t, "failed")
    /\ UNCHANGED <<coordVars, deviceVars>>

\* What an earlier connection left with the device has been applied by the time
\* a handshake is over.
Handshaken(t) == place[t] = "connected" /\ staged = {}

-----------------------------------------------------------------------------
(* Edits.                                                                  *)

\* async_set_native_value: the device takes the calibration as a whole, and the
\* other axis goes along as it was last polled.
Carried(s, value) ==
    IF s \in Axes THEN [a \in Axes |-> IF a = s THEN value ELSE data[a]]
    ELSE [o \in {s} |-> value]

\* An entity's service call, which Home Assistant makes only if the entity is
\* available.  What the SET carries is fixed now, before the connection is asked for.
Edit(e) ==
    /\ lastUpdateSuccess
    /\ place[e] = "idle" /\ outcome[e] = "none"
    /\ \A older \in 1..(e - 1) : outcome[older] # "none" \/ place[older] # "idle"
    /\ \E s \in Settings : sets' = [sets EXCEPT ![e] = Carried(s, e)]
    /\ NextAttempt(e, 1)
    /\ UNCHANGED <<left, coordVars, deviceVars>>

SendSet(e) ==
    /\ Handshaken(e)
    /\ wire' = {e}
    /\ place' = [place EXCEPT ![e] = "writing"]
    /\ UNCHANGED <<attempt, outcome, sets, left, slotVars, coordVars, staged, device,
                   menuEdits>>

SetAnswered(e) ==
    /\ place[e] = "writing" /\ wire = {}
    /\ Teardown(e, "ok")
    /\ UNCHANGED <<coordVars, deviceVars>>

\* Mutant: nothing polls after a write.
PollsAfterNothing(e) == FALSE

\* Only a write that succeeded schedules the settle poll, and not on a coordinator
\* that is shut down, whose refreshes do nothing.
PollsAfter(e) == outcome[e] = "ok" /\ e \notin left

\* The disconnect returns.  The settle poll takes the place of one that is due.
EditCloses(e) ==
    /\ place[e] = "closing"
    /\ wire' = {}
    /\ \/ /\ outcome[e] # "ok" /\ attempt[e] < MaxAttempts
          /\ NextAttempt(e, attempt[e] + 1)
          /\ UNCHANGED settleDue
       \/ /\ Finish(e)
          /\ settleDue' = (settleDue \/ PollsAfter(e))
    /\ UNCHANGED <<sets, left, reading, data, lastUpdateSuccess, reloads, staged,
                   device, menuEdits>>

-----------------------------------------------------------------------------
(* Polls.                                                                  *)

\* The refresh ends.  That of a coordinator that is shut down tells nobody.
Refreshed(p, ok) == lastUpdateSuccess' = IF p \in left THEN lastUpdateSuccess ELSE ok

BeginPoll(p) ==
    /\ place[p] = "idle"
    /\ NextAttempt(p, 1)
    /\ lastUpdateSuccess' = (lastUpdateSuccess /\ place'[p] = "asking")
    /\ UNCHANGED <<sets, left, reading, data, reloads, deviceVars>>

ScheduledPoll(p) ==
    /\ BeginPoll(p)
    /\ UNCHANGED settleDue

\* POST_WRITE_SETTLE_SECONDS after the write, which the device has applied by
\* then.
SettlePoll(p) ==
    /\ settleDue /\ staged = {}
    /\ settleDue' = FALSE
    /\ BeginPoll(p)

\* _known: a value without a name is and read as unknown.
HasName(s, raw) == s \in Axes \/ raw # MenuValue

\* Mutant: values are stored as they come.
KnownAny(raw) == raw

Known(raw) == [s \in Settings |-> IF HasName(s, raw[s]) THEN raw[s] ELSE Unknown]

\* _poll: one batch of GETs, so one moment.
PollReads(p) ==
    /\ Handshaken(p)
    /\ reading' = [reading EXCEPT ![p] = Known(device)]
    /\ Teardown(p, "ok")
    /\ UNCHANGED <<settleDue, data, lastUpdateSuccess, reloads, deviceVars>>

\* The disconnect returns; what was read is stored before anybody else runs.
PollCloses(p) ==
    /\ place[p] = "closing"
    /\ \/ /\ outcome[p] # "ok" /\ attempt[p] < MaxAttempts
          /\ NextAttempt(p, attempt[p] + 1)
          /\ IF place'[p] = "asking" THEN UNCHANGED lastUpdateSuccess ELSE Refreshed(p, FALSE)
          /\ UNCHANGED <<reading, data>>
       \/ /\ Finish(p)
          /\ data' = IF outcome[p] = "ok" /\ p \notin left THEN reading[p] ELSE data
          /\ Refreshed(p, outcome[p] = "ok")
          /\ reading' = [reading EXCEPT ![p] = Fresh]
    /\ left' = IF place'[p] = "idle" THEN left \ {p} ELSE left
    /\ UNCHANGED <<sets, settleDue, reloads, deviceVars>>

\* The entry is reloaded: async_shutdown, and a new coordinator that knows nothing
\* until its first refresh.  Service calls under way run on, and so do polls here.
\* (Home Assistant cancels a scheduled poll, which gives back the connection sooner.)
Reload ==
    /\ reloads < MaxReloads
    /\ reloads' = reloads + 1
    /\ left' = left \cup {t \in Tasks : place[t] # "idle"}
    /\ settleDue' = FALSE
    /\ lastUpdateSuccess' = FALSE
    /\ UNCHANGED <<place, attempt, outcome, sets, slotVars, reading, data, deviceVars>>

-----------------------------------------------------------------------------
(* The thermostat and its user.                                            *)

Store(e) == device' = [s \in Settings |-> IF s \in DOMAIN sets[e] THEN sets[e][s]
                                          ELSE device[s]]

DeviceTakesSet ==
    /\ wire # {}
    /\ staged' = wire
    /\ wire' = {}
    /\ UNCHANGED <<taskVars, slotVars, coordVars, device, menuEdits>>

DeviceApplies ==
    /\ \E e \in staged : Store(e)
    /\ staged' = {}
    /\ UNCHANGED <<taskVars, slotVars, coordVars, wire, menuEdits>>

MenuEdit ==
    /\ menuEdits < MaxMenuEdits
    /\ menuEdits' = menuEdits + 1
    /\ \E s \in Settings : device' = [device EXCEPT ![s] = MenuValue]
    /\ UNCHANGED <<taskVars, slotVars, coordVars, wire, staged>>

Next ==
    \/ \E e \in Edits : Edit(e) \/ SendSet(e) \/ SetAnswered(e) \/ EditCloses(e)
    \/ \E p \in Polls : ScheduledPoll(p) \/ SettlePoll(p) \/ PollReads(p) \/ PollCloses(p)
    \/ \E t \in Tasks : Connect(t) \/ AttemptFails(t)
    \/ Reload \/ DeviceTakesSet \/ DeviceApplies \/ MenuEdit

Spec == Init /\ [][Next]_vars

-----------------------------------------------------------------------------
(* Properties.                                                             *)

Values == 0..(MaxEdits + 2)

\* Every variable has its type; the names a poll stores are known ones.
TypeOK ==
    /\ place \in [Tasks -> {"idle", "asking", "connected", "writing", "closing"}]
    /\ attempt \in [Tasks -> 0..MaxAttempts]
    /\ outcome \in [Tasks -> {"none", "ok", "failed"}]
    /\ \A e \in Edits : DOMAIN sets[e] \subseteq Settings
    /\ left \subseteq Tasks /\ reloads \in 0..MaxReloads
    /\ asking \subseteq Tasks /\ holding \subseteq Tasks
    /\ settleDue \in BOOLEAN /\ lastUpdateSuccess \in BOOLEAN
    /\ reading \in [Polls -> [Settings -> Values]] /\ data \in [Settings -> Values]
    /\ \A o \in Options : data[o] # MenuValue
    /\ wire \subseteq Edits /\ staged \subseteq Edits
    /\ device \in [Settings -> Values \ {Unknown}] /\ menuEdits \in 0..MaxMenuEdits

AllWritten == \A e \in Edits : place[e] = "idle" /\ outcome[e] # "failed"

\* Once every edit made has succeeded and no poll is due or under way, Home
\* Assistant shows what the device holds, provided the user stayed away, the
\* last poll succeeded, and no write was under way when the entry was reloaded: one
\* settle poll is enough for any number of writes that overlap with it and with
\* other polls, those of a coordinator shut down among them.
SettledDataIsCurrent ==
    /\ AllWritten /\ ~settleDue
    /\ \A p \in Polls : place[p] = "idle"
    /\ lastUpdateSuccess /\ menuEdits = 0 /\ left \cap Edits = {}
    => data = Known(device)

\* The claim of docs/PROTOCOL.md:203-205: the other axis is written back as its
\* current value, so that an edit of one axis leaves the other alone.
EditLeavesOtherAxisAlone ==
    [][\A e \in staged : staged' = {} /\ menuEdits = 0 =>
          \A a \in Axes : device'[a] \in {device[a], e}]_vars
=============================================================================
