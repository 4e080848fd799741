--------------------------- MODULE EntryLifecycle ---------------------------
(***************************************************************************)
(* The life of a config entry: the flows of config_flow.py that create it, *)
(* replace its key or change its options, setup and the update listener of *)
(* __init__.py, and the coordinator's verdict on a refused key.            *)
(*                                                                         *)
(* Keys are numbered in the order the thermostat is issued them; it takes  *)
(* only the newest.  Every connection goes through the one slot that       *)
(* ConnectionGate provides.  Home Assistant's config entries are external: *)
(* states, the setup lock, retries, flows in progress, update listeners.   *)
(***************************************************************************)
EXTENDS Naturals

CONSTANTS MaxKey,        \* Bound: keys issued after the first
          MaxRestarts    \* Bound: restarts of Home Assistant

ASSUME BoundsAssumption == MaxKey \in Nat /\ MaxRestarts \in Nat

VARIABLES deviceKey,     \* the key the device accepts
          restarts,      \* restarts of Home Assistant so far
          state,         \* ConfigEntryState, or "absent"
          stored,        \* the key in entry.data and the interval in entry.options
          coordinator,   \* the key and the interval it was made with
          listener,      \* whether the update listener is registered
          polling,       \* whether the coordinator schedules polls
          reloadDue,     \* a reload that has not started
          flow,          \* the flows that ask for a key, and the key submitted
          slot,          \* who is connected, the handshake accepted
          savedInSetup   \* history: options saved since setup began

worldVars == <<deviceKey, restarts>>
entryVars == <<stored, reloadDue>>
setupVars == <<state, coordinator, listener, polling, savedInSetup>>
vars == <<worldVars, entryVars, setupVars, flow, slot>>

Keys == 0..MaxKey
Typo == MaxKey + 1       \* a well-formed key that was never issued
SetupFlows == {"discovery", "user"}
Flows == SetupFlows \cup {"reauth", "reconfigure"}
Intervals == {30, 60}    \* of CONF_POLL_INTERVAL's values
NoFlow == [at |-> "none", key |-> 0]
Form   == [at |-> "form", key |-> 0]
NoEntry == [key |-> 0, interval |-> 60]

Init ==
    /\ deviceKey = 0 /\ restarts = 0
    /\ state = "absent" /\ stored = NoEntry /\ coordinator = NoEntry
    /\ listener = FALSE /\ polling = FALSE /\ savedInSetup = FALSE
    /\ reloadDue = FALSE
    /\ flow = [f \in Flows |-> NoFlow]
    /\ slot = "free"

-----------------------------------------------------------------------------
(* The entry.                                                              *)

\* Mutant: the coordinator keeps the key of an earlier setup.
SetupReadsCached(entry) ==
    IF state = "absent" THEN entry ELSE [entry EXCEPT !.key = coordinator.key]

\* What async_setup_entry reads: once, for a coordinator that keeps it.
SetupReads(entry) == entry

BeginSetup(entry) ==
    /\ state' = "settingUp"
    /\ coordinator' = SetupReads(entry)
    /\ listener' = FALSE
    /\ polling' = FALSE
    /\ savedInSetup' = FALSE

\* ConfigEntryAuthFailed: Home Assistant opens a reauth flow unless one is open.
StartReauth ==
    flow' = [flow EXCEPT !["reauth"] = IF @ = NoFlow THEN Form ELSE @]

KeyTaken == coordinator.key = deviceKey

\* The handshake of the first refresh: accepted, refused, or not had.
FirstRefresh ==
    /\ state = "settingUp" /\ slot = "free"
    /\ \/ KeyTaken /\ slot' = "setup" /\ UNCHANGED <<state, flow>>
       \/ ~KeyTaken /\ state' = "setupError" /\ StartReauth /\ UNCHANGED slot
       \/ state' = "setupRetry" /\ UNCHANGED <<flow, slot>>
    /\ UNCHANGED <<worldVars, entryVars, coordinator, listener, polling, savedInSetup>>

\* Mutant: nobody listens for a changed entry.
LoadUnlistening ==
    /\ state' = "loaded" /\ polling' = TRUE
    /\ UNCHANGED listener

\* The update listener is registered only now, and the platforms are set up.
Load ==
    /\ state' = "loaded" /\ polling' = TRUE
    /\ listener' = TRUE

\* The first refresh ends, with data or without.
SetupEnds ==
    /\ slot = "setup"
    /\ slot' = "free"
    /\ \/ Load
       \/ state' = "setupRetry" /\ UNCHANGED <<listener, polling>>
    /\ UNCHANGED <<worldVars, entryVars, coordinator, savedInSetup, flow>>

RetrySetup ==
    /\ state = "setupRetry"
    /\ BeginSetup(stored)
    /\ UNCHANGED <<worldVars, entryVars, flow, slot>>

\* Unload if loaded, then set up again, under the setup lock.
Reload ==
    /\ reloadDue /\ state # "settingUp"
    /\ reloadDue' = FALSE
    /\ BeginSetup(stored)
    /\ UNCHANGED <<worldVars, stored, flow, slot>>

\* Home Assistant restarts: only the entry itself survives.
Restart ==
    /\ restarts < MaxRestarts
    /\ restarts' = restarts + 1
    /\ IF state = "absent" THEN UNCHANGED setupVars ELSE BeginSetup(stored)
    /\ reloadDue' = FALSE
    /\ flow' = [f \in Flows |-> NoFlow]
    /\ slot' = "free"
    /\ UNCHANGED <<deviceKey, stored>>

\* async_update_entry: a change fires the update listener, if there is one.
UpdateEntry(entry) ==
    /\ stored' = entry
    /\ reloadDue' = (reloadDue \/ (entry # stored /\ listener))

-----------------------------------------------------------------------------
(* The coordinator.                                                        *)

\* A scheduled poll connects.  After a refused key no further poll is
\* scheduled; an unreachable device changes nothing here.
Poll ==
    /\ state = "loaded" /\ polling /\ slot = "free"
    /\ \/ KeyTaken /\ slot' = "poll" /\ UNCHANGED <<polling, flow>>
       \/ ~KeyTaken /\ polling' = FALSE /\ StartReauth /\ UNCHANGED slot
    /\ UNCHANGED <<worldVars, entryVars, state, coordinator, listener, savedInSetup>>

PollEnds ==
    /\ slot = "poll"
    /\ slot' = "free"
    /\ UNCHANGED <<worldVars, entryVars, setupVars, flow>>

-----------------------------------------------------------------------------
(* The flows.                                                              *)

Opens(f) ==
    /\ flow[f] = NoFlow
    /\ flow' = [flow EXCEPT ![f] = Form]
    /\ UNCHANGED <<worldVars, entryVars, setupVars, slot>>

\* async_step_bluetooth: not for a configured device, nor while a flow for it is
\* in progress.
Discovered == state = "absent" /\ flow["user"] = NoFlow /\ Opens("discovery")

\* async_step_user with a device picked, also while its discovery is pending.
UserPicks == state = "absent" /\ Opens("user")

StartReconfigure == state # "absent" /\ Opens("reconfigure")

\* The user closes a form.  (Closed while its key is validated, a reconfigure
\* flow runs on unseen and stores the key.)
Dismiss(f) ==
    /\ flow[f] = Form
    /\ flow' = [flow EXCEPT ![f] = NoFlow]
    /\ UNCHANGED <<worldVars, entryVars, setupVars, slot>>

\* The user submits a key: the newest, an older one, or a wrong one.
Submit(f, k) ==
    /\ flow[f] = Form
    /\ flow' = [flow EXCEPT ![f] = [at |-> "validating", key |-> k]]
    /\ UNCHANGED <<worldVars, entryVars, setupVars, slot>>

\* Mutant: a device that cannot be reached does not refuse the key.
AcceptedUnreached(f) == TRUE

Accepted(f) == flow[f].key = deviceKey

\* Mutant: validation does not wait for the connection slot.
TakesNoSlot(f) == UNCHANGED slot

TakesSlot(f) == slot = "free" /\ slot' = f

\* The handshake with the submitted key: accepted, or refused or not had, and
\* the form is shown again with an error.
Validate(f) ==
    /\ flow[f].at = "validating"
    /\ \/ /\ Accepted(f)
          /\ flow' = [flow EXCEPT ![f].at = "accepted"]
          /\ TakesSlot(f)
       \/ /\ slot = "free"
          /\ flow' = [flow EXCEPT ![f] = Form]
          /\ UNCHANGED slot
    /\ UNCHANGED <<worldVars, entryVars, setupVars>>

LeavesSlot(f) == slot' = IF slot = f THEN "free" ELSE slot

\* The read of the device info fails, and the form is shown again.
ValidateFails(f) ==
    /\ flow[f].at = "accepted"
    /\ LeavesSlot(f)
    /\ flow' = [flow EXCEPT ![f] = Form]
    /\ UNCHANGED <<worldVars, entryVars, setupVars>>

\* It succeeds: the key is stored with no step in between, and an unchanged entry
\* is reloaded explicitly.
ApplyPsk(f) ==
    /\ f \notin SetupFlows /\ flow[f].at = "accepted"
    /\ LeavesSlot(f)
    /\ flow' = [flow EXCEPT ![f] = NoFlow]
    /\ LET entry == [stored EXCEPT !.key = flow[f].key]
       IN IF entry = stored THEN reloadDue' = TRUE /\ UNCHANGED stored
          ELSE UpdateEntry(entry)
    /\ UNCHANGED <<worldVars, setupVars>>

\* Home Assistant aborts the other setup flows of the device; a request of
\* theirs that is under way runs on, for nothing.
OtherFlowsAborted(f) ==
    [g \in Flows |-> IF g # f /\ flow[g].at \in {"validating", "accepted"}
                     THEN [at |-> "aborted", key |-> 0] ELSE NoFlow]

\* It succeeds for a new device, and the entry is created and set up.
CreateEntry(f) ==
    /\ f \in SetupFlows /\ flow[f].at = "accepted"
    /\ LeavesSlot(f)
    /\ flow' = OtherFlowsAborted(f)
    /\ stored' = [NoEntry EXCEPT !.key = flow[f].key]
    /\ BeginSetup([NoEntry EXCEPT !.key = flow[f].key])
    /\ UNCHANGED <<worldVars, reloadDue>>

AbortedEnds(f) ==
    /\ flow[f].at = "aborted"
    /\ LeavesSlot(f)
    /\ flow' = [flow EXCEPT ![f] = NoFlow]
    /\ UNCHANGED <<worldVars, entryVars, setupVars>>

\* The options flow, opened before, is submitted.
SaveOptions(interval) ==
    /\ state # "absent"
    /\ UpdateEntry([stored EXCEPT !.interval = interval])
    /\ savedInSetup' = (savedInSetup \/ state = "settingUp")
    /\ UNCHANGED <<worldVars, state, coordinator, listener, polling, flow, slot>>

\* Local API is toggled in the Ebeco app: the device gets a new key.
IssueKey ==
    /\ deviceKey < MaxKey
    /\ deviceKey' = deviceKey + 1
    /\ UNCHANGED <<restarts, entryVars, setupVars, flow, slot>>

Next ==
    \/ FirstRefresh \/ SetupEnds \/ RetrySetup \/ Reload \/ Restart
    \/ Poll \/ PollEnds
    \/ Discovered \/ UserPicks \/ StartReconfigure
    \/ Dismiss("user") \/ Dismiss("reconfigure")
    \/ \E f \in Flows : \/ \E k \in 0..deviceKey \cup {Typo} : Submit(f, k)
                        \/ Validate(f) \/ ValidateFails(f)
                        \/ ApplyPsk(f) \/ CreateEntry(f) \/ AbortedEnds(f)
    \/ \E i \in Intervals : SaveOptions(i)
    \/ IssueKey

Safety == Init /\ [][Next]_vars

\* What a key rotation can count on: timers and scheduled work run, polls keep
\* coming, and a reauth form is in the end answered with the key in force, by a
\* user whose device is in reach when it is.  A validation that waits for the
\* connection slot gets it: the gate is first come, first served.
Cooperation ==
    /\ SF_vars(FirstRefresh /\ state' # "setupRetry")
    /\ SF_vars(SetupEnds /\ state' = "loaded")
    /\ WF_vars(RetrySetup) /\ WF_vars(Reload) /\ WF_vars(PollEnds)
    /\ SF_vars(Poll)
    /\ SF_vars(Submit("reauth", deviceKey))
    /\ SF_vars(Validate("reauth")) /\ SF_vars(Validate("reauth") /\ slot' = "reauth")
    /\ SF_vars(ApplyPsk("reauth"))
    /\ WF_vars(\E f \in Flows : ApplyPsk(f) \/ CreateEntry(f) \/ ValidateFails(f)
                               \/ AbortedEnds(f))

Spec == Safety /\ Cooperation

-----------------------------------------------------------------------------
(* Properties.                                                             *)

Entries == [key : Keys, interval : Intervals]

\* Every variable has its type.
TypeOK ==
    /\ deviceKey \in Keys /\ restarts \in 0..MaxRestarts
    /\ state \in {"absent", "settingUp", "loaded", "setupRetry", "setupError"}
    /\ stored \in Entries /\ coordinator \in Entries
    /\ \A b \in {listener, polling, reloadDue, savedInSetup} : b \in BOOLEAN
    /\ flow \in [Flows -> [at : {"none", "form", "validating", "accepted", "aborted"},
                           key : Keys \cup {Typo}]]
    /\ slot \in {"free", "setup", "poll"} \cup Flows

\* The stored key is replaced only by one the device issued later: a key the
\* device refuses, an older key submitted late, and two flows at the same time
\* never overwrite a key that might still work.
StoredKeyNeverGoesBack == [][stored'.key >= stored.key]_vars

\* A loaded entry runs on what is stored or is about to be reloaded onto it: no
\* key is stored in a gap where the listener is not yet, or no longer, there, and
\* of the options only those saved while the entry is being set up are missed.
RunsOnWhatIsStored ==
    state = "loaded" /\ ~reloadDue
    => /\ coordinator.key = stored.key
       /\ coordinator.interval = stored.interval \/ savedInSetup

\* After the last rotation and the last restart an entry comes to run, time and
\* again, on the key in force, unless it is stuck in the failed state (which
\* FailedEntryHasAWayOut is about).
KeyComesIntoForce ==
    \/ <>[](state \in {"absent", "setupError"})
    \/ []<>(state = "loaded" /\ KeyTaken)

\* The intent of the comment at config_flow.py:231-235: a reauth flow that ends
\* does not leave the entry sitting in its failed state.
FailedEntryHasAWayOut ==
    state = "setupError" => flow["reauth"] # NoFlow \/ reloadDue
=============================================================================
