------------------------ MODULE EntryLifecycleProofs ------------------------
(***************************************************************************)
(* What holds of a config entry for any number of keys and restarts.       *)
(***************************************************************************)
EXTENDS EntryLifecycle, TLAPS

USE BoundsAssumption

(* The inductive invariant, in three parts. *)

\* A key is stored only after the device has taken it, and a coordinator has a key
\* that was stored.
KeysInOrder ==
    /\ stored.key <= deviceKey
    /\ coordinator.key <= stored.key

\* A flow whose key was accepted still has the connection, so that no other flow
\* can have stored a newer one in between.
AcceptedIsNewest ==
    \A f \in Flows : flow[f].at = "accepted" =>
        /\ slot = f
        /\ flow[f].key \in Keys
        /\ stored.key <= flow[f].key /\ flow[f].key <= deviceKey

\* Whether a setup under way is going to load what is stored.
SetupIsCurrent ==
    /\ slot = "setup" => state = "settingUp" /\ coordinator.key = stored.key
    /\ state = "settingUp" => coordinator.interval = stored.interval \/ savedInSetup
    /\ state = "loaded" => listener

EntryInv == TypeOK /\ KeysInOrder /\ AcceptedIsNewest /\ SetupIsCurrent /\ RunsOnWhatIsStored

-----------------------------------------------------------------------------
\* What a flow may be: TypeOK's set, under a name.
FlowStates == [at : {"none", "form", "validating", "accepted", "aborted"},
               key : Keys \cup {Typo}]

\* No flow and a shown form are among the states of a flow.
LEMMA FlowStatesAreStates == NoFlow \in FlowStates /\ Form \in FlowStates
<1>1. 0 \in Keys
  BY DEF Keys
<1> QED
  BY <1>1 DEF FlowStates, NoFlow, Form

\* A refused key leaves every flow in a state, and those that were accepted alone.
LEMMA StartReauthKeeps ==
  ASSUME flow \in [Flows -> FlowStates], StartReauth
  PROVE  /\ flow' \in [Flows -> FlowStates]
         /\ \A f \in Flows : flow'[f].at = "accepted" => flow'[f] = flow[f]
<1>1. "reauth" \in Flows
  BY DEF Flows
<1>2. \A f \in Flows : flow'[f] = flow[f] \/ flow'[f] = Form
  BY <1>1 DEF StartReauth
<1>3. flow' = [f \in Flows |-> flow'[f]]
  BY <1>1 DEF StartReauth
<1> QED
  BY <1>2, <1>3, FlowStatesAreStates DEF Form

\* An installation without an entry satisfies the invariant.
LEMMA InitEntryInv == Init => EntryInv
<1> SUFFICES ASSUME Init PROVE EntryInv
  OBVIOUS
<1>1. 0 \in Keys /\ 0 \in 0..MaxRestarts
  BY DEF Keys
<1>2. TypeOK
  <2>1. NoEntry \in Entries
    BY <1>1 DEF NoEntry, Entries, Intervals
  <2>2. flow \in [Flows -> FlowStates]
    BY FlowStatesAreStates DEF Init
  <2> QED
    BY <1>1, <2>1, <2>2 DEF Init, TypeOK, FlowStates
<1>3. KeysInOrder /\ SetupIsCurrent /\ RunsOnWhatIsStored
  BY DEF Init, KeysInOrder, SetupIsCurrent, RunsOnWhatIsStored, NoEntry
<1>4. AcceptedIsNewest
  BY DEF Init, AcceptedIsNewest, NoFlow
<1> QED
  BY <1>2, <1>3, <1>4 DEF EntryInv

\* Setup takes the slot only while no accepted flow has it.
LEMMA FirstRefreshStep == ASSUME EntryInv, FirstRefresh PROVE EntryInv'
  BY DEF EntryInv, TypeOK, KeysInOrder, AcceptedIsNewest, SetupIsCurrent,
     RunsOnWhatIsStored, FirstRefresh, KeyTaken, StartReauth, Form, worldVars,
     entryVars, Keys, Entries, Flows, SetupFlows

\* A poll has the slot to itself, so it is no flow that loses it.
LEMMA PollEndsStep == ASSUME EntryInv, PollEnds PROVE EntryInv'
  BY DEF EntryInv, TypeOK, KeysInOrder, AcceptedIsNewest, SetupIsCurrent,
     RunsOnWhatIsStored, PollEnds, worldVars, entryVars, setupVars, Flows, SetupFlows

\* A flow that opens has no key yet.
LEMMA FlowOpensStep == ASSUME EntryInv, NEW f \in Flows, Opens(f) PROVE EntryInv'
  BY DEF EntryInv, TypeOK, KeysInOrder, AcceptedIsNewest, SetupIsCurrent,
     RunsOnWhatIsStored, Opens, Form, worldVars, entryVars, setupVars, Keys

\* A form that is closed had no key yet.
LEMMA DismissedStep == ASSUME EntryInv, NEW f \in Flows, Dismiss(f) PROVE EntryInv'
  BY DEF EntryInv, TypeOK, KeysInOrder, AcceptedIsNewest, SetupIsCurrent,
     RunsOnWhatIsStored, Dismiss, worldVars, entryVars, setupVars, Keys, NoFlow

\* A submitted key is not an accepted one.
LEMMA SubmittedStep ==
  ASSUME EntryInv, NEW f \in Flows, NEW k \in 0..deviceKey \cup {Typo}, Submit(f, k)
  PROVE  EntryInv'
  BY DEF EntryInv, TypeOK, KeysInOrder, AcceptedIsNewest, SetupIsCurrent,
     RunsOnWhatIsStored, Submit, worldVars, entryVars, setupVars, Keys

\* An accepted key is the device's newest, and its flow has the slot.
LEMMA ValidatedStep == ASSUME EntryInv, NEW f \in Flows, Validate(f) PROVE EntryInv'
  BY DEF EntryInv, TypeOK, KeysInOrder, AcceptedIsNewest, SetupIsCurrent,
     RunsOnWhatIsStored, Validate, Accepted, TakesSlot, Form, worldVars, entryVars,
     setupVars, Keys, Flows, SetupFlows

\* A flow that fails gives up both its key and the slot.
LEMMA ValidationFailedStep ==
  ASSUME EntryInv, NEW f \in Flows, ValidateFails(f)
  PROVE  EntryInv'
  BY DEF EntryInv, TypeOK, KeysInOrder, AcceptedIsNewest, SetupIsCurrent,
     RunsOnWhatIsStored, ValidateFails, LeavesSlot, Form, worldVars, entryVars,
     setupVars, Keys

\* An aborted flow ends without a trace.
LEMMA AbortEndsStep == ASSUME EntryInv, NEW f \in Flows, AbortedEnds(f) PROVE EntryInv'
  BY DEF EntryInv, TypeOK, KeysInOrder, AcceptedIsNewest, SetupIsCurrent,
     RunsOnWhatIsStored, AbortedEnds, LeavesSlot, worldVars, entryVars, setupVars, Keys,
     NoFlow

\* A newer key leaves the accepted one no older than the stored one.
LEMMA KeyIssuedStep == ASSUME EntryInv, IssueKey PROVE EntryInv'
  BY DEF EntryInv, TypeOK, KeysInOrder, AcceptedIsNewest, SetupIsCurrent,
     RunsOnWhatIsStored, IssueKey, entryVars, setupVars, Keys, Entries

\* No key was stored while the first refresh had the slot; the listener comes with
\* the loaded state.
LEMMA SetupEndsStep == ASSUME EntryInv, SetupEnds PROVE EntryInv'
<1>1. TypeOK'
  BY DEF EntryInv, TypeOK, SetupEnds, Load, worldVars, entryVars
<1>2. KeysInOrder'
  BY DEF EntryInv, KeysInOrder, SetupEnds, worldVars, entryVars
<1>3. AcceptedIsNewest'
  BY DEF EntryInv, AcceptedIsNewest, SetupEnds, Flows, SetupFlows
<1>4. SetupIsCurrent' /\ RunsOnWhatIsStored'
  BY DEF EntryInv, SetupIsCurrent, RunsOnWhatIsStored, SetupEnds, Load, entryVars
<1> QED
  BY <1>1, <1>2, <1>3, <1>4 DEF EntryInv

\* A retried setup reads the entry again.
LEMMA RetrySetupStep == ASSUME EntryInv, RetrySetup PROVE EntryInv'
<1>1. TypeOK'
  BY DEF EntryInv, TypeOK, RetrySetup, BeginSetup, SetupReads, worldVars, entryVars
<1>2. KeysInOrder'
  BY DEF EntryInv, TypeOK, KeysInOrder, RetrySetup, BeginSetup, SetupReads, worldVars,
     entryVars, Entries, Keys
<1>3. AcceptedIsNewest'
  BY DEF EntryInv, AcceptedIsNewest, RetrySetup, worldVars, entryVars
<1>4. SetupIsCurrent' /\ RunsOnWhatIsStored'
  BY DEF SetupIsCurrent, RunsOnWhatIsStored, RetrySetup, BeginSetup, SetupReads,
     entryVars
<1> QED
  BY <1>1, <1>2, <1>3, <1>4 DEF EntryInv

\* So does a reload.
LEMMA ReloadStep == ASSUME EntryInv, Reload PROVE EntryInv'
<1>1. TypeOK'
  BY DEF EntryInv, TypeOK, Reload, BeginSetup, SetupReads, worldVars
<1>2. KeysInOrder'
  BY DEF EntryInv, TypeOK, KeysInOrder, Reload, BeginSetup, SetupReads, worldVars,
     Entries, Keys
<1>3. AcceptedIsNewest'
  BY DEF EntryInv, AcceptedIsNewest, Reload, worldVars
<1>4. SetupIsCurrent' /\ RunsOnWhatIsStored'
  BY DEF SetupIsCurrent, RunsOnWhatIsStored, Reload, BeginSetup, SetupReads
<1> QED
  BY <1>1, <1>2, <1>3, <1>4 DEF EntryInv

\* A restart forgets the flows with the keys they have had accepted.
LEMMA RestartStep == ASSUME EntryInv, Restart PROVE EntryInv'
<1>1. TypeOK'
  <2>1. flow' \in [Flows -> FlowStates]
    BY FlowStatesAreStates DEF Restart
  <2>2. stored' \in Entries /\ coordinator' \in Entries
    BY DEF EntryInv, TypeOK, Restart, BeginSetup, SetupReads, setupVars
  <2>3. restarts' \in 0..MaxRestarts /\ deviceKey' \in Keys
    BY DEF EntryInv, TypeOK, Restart
  <2> QED
    BY <2>1, <2>2, <2>3 DEF EntryInv, TypeOK, Restart, BeginSetup, setupVars, FlowStates
<1>2. KeysInOrder'
  BY DEF EntryInv, TypeOK, KeysInOrder, Restart, BeginSetup, SetupReads, setupVars,
     Entries, Keys
<1>3. AcceptedIsNewest'
  BY DEF AcceptedIsNewest, Restart, NoFlow
<1>4. SetupIsCurrent' /\ RunsOnWhatIsStored'
  BY DEF SetupIsCurrent, RunsOnWhatIsStored, Restart, BeginSetup, SetupReads, setupVars
<1> QED
  BY <1>1, <1>2, <1>3, <1>4 DEF EntryInv

\* A poll takes the slot, or finds the key refused and opens the reauth flow.
LEMMA PollStep == ASSUME EntryInv, Poll PROVE EntryInv'
<1>1. CASE slot' = "poll" /\ UNCHANGED <<polling, flow>>
  <2>1. TypeOK'
    BY <1>1 DEF EntryInv, TypeOK, Poll, worldVars, entryVars
  <2>2. AcceptedIsNewest'
    BY <1>1 DEF EntryInv, AcceptedIsNewest, Poll, Flows, SetupFlows
  <2>3. KeysInOrder' /\ SetupIsCurrent' /\ RunsOnWhatIsStored'
    BY <1>1
    DEF EntryInv, KeysInOrder, SetupIsCurrent, RunsOnWhatIsStored, Poll, worldVars,
        entryVars
  <2> QED
    BY <2>1, <2>2, <2>3 DEF EntryInv
<1>2. CASE StartReauth /\ UNCHANGED slot /\ polling' = FALSE
  <2>1. /\ flow' \in [Flows -> FlowStates]
        /\ \A f \in Flows : flow'[f].at = "accepted" => flow'[f] = flow[f]
    BY <1>2, StartReauthKeeps DEF EntryInv, TypeOK, FlowStates
  <2>2. TypeOK'
    BY <1>2, <2>1 DEF EntryInv, TypeOK, Poll, worldVars, entryVars, FlowStates
  <2>3. AcceptedIsNewest'
    BY <1>2, <2>1 DEF EntryInv, AcceptedIsNewest, Poll, worldVars, entryVars
  <2>4. KeysInOrder' /\ SetupIsCurrent' /\ RunsOnWhatIsStored'
    BY <1>2
    DEF EntryInv, KeysInOrder, SetupIsCurrent, RunsOnWhatIsStored, Poll, worldVars,
        entryVars
  <2> QED
    BY <2>2, <2>3, <2>4 DEF EntryInv
<1> QED
  BY <1>1, <1>2 DEF Poll

\* The flow has the slot, so neither setup nor another flow is half way; if the
\* entry is loaded its listener is there, and a reload follows.
LEMMA KeyAppliedStep == ASSUME EntryInv, NEW f \in Flows, ApplyPsk(f) PROVE EntryInv'
<1>1. stored' \in Entries /\ slot' \in {"free", "setup", "poll"} \cup Flows
  BY DEF EntryInv, TypeOK, AcceptedIsNewest, ApplyPsk, LeavesSlot, UpdateEntry, Entries
<1>2. flow' \in [Flows -> FlowStates]
  BY FlowStatesAreStates DEF EntryInv, TypeOK, ApplyPsk, FlowStates
<1>3. TypeOK'
  BY <1>1, <1>2
  DEF EntryInv, TypeOK, ApplyPsk, UpdateEntry, worldVars, setupVars, FlowStates
<1>4. KeysInOrder'
  BY DEF EntryInv, TypeOK, KeysInOrder, AcceptedIsNewest, ApplyPsk, UpdateEntry,
     worldVars, setupVars, Entries, Keys
<1>5. AcceptedIsNewest'
  BY DEF EntryInv, TypeOK, AcceptedIsNewest, ApplyPsk, NoFlow
<1>6. SetupIsCurrent' /\ RunsOnWhatIsStored'
  BY DEF EntryInv, TypeOK, AcceptedIsNewest, SetupIsCurrent, RunsOnWhatIsStored,
     ApplyPsk, LeavesSlot, UpdateEntry, setupVars, Entries
<1> QED
  BY <1>3, <1>4, <1>5, <1>6 DEF EntryInv

\* The new entry is set up at once, and no other flow keeps an accepted key.
LEMMA EntryCreatedStep ==
  ASSUME EntryInv, NEW f \in Flows, CreateEntry(f)
  PROVE  EntryInv'
<1>1. stored' \in Entries /\ coordinator' \in Entries
  BY DEF EntryInv, AcceptedIsNewest, CreateEntry, BeginSetup, SetupReads, Entries,
     NoEntry, Intervals
<1>2. flow' \in [Flows -> FlowStates]
  <2>1. [at |-> "aborted", key |-> 0] \in FlowStates
    BY DEF FlowStates, Keys
  <2> QED
    BY <2>1, FlowStatesAreStates DEF CreateEntry, OtherFlowsAborted
<1>3. TypeOK'
  BY <1>1, <1>2
  DEF EntryInv, TypeOK, CreateEntry, LeavesSlot, BeginSetup, worldVars, FlowStates
<1>4. KeysInOrder'
  BY DEF EntryInv, KeysInOrder, AcceptedIsNewest, CreateEntry, BeginSetup, SetupReads,
     worldVars, Keys
<1>5. AcceptedIsNewest'
  BY DEF AcceptedIsNewest, CreateEntry, OtherFlowsAborted, NoFlow
<1>6. SetupIsCurrent' /\ RunsOnWhatIsStored'
  BY DEF SetupIsCurrent, RunsOnWhatIsStored, CreateEntry, BeginSetup, SetupReads
<1> QED
  BY <1>3, <1>4, <1>5, <1>6 DEF EntryInv

\* Options saved during setup are remembered, those saved later cause a reload.
LEMMA OptionsSavedStep ==
  ASSUME EntryInv, NEW i \in Intervals, SaveOptions(i)
  PROVE  EntryInv'
<1>1. TypeOK'
  BY DEF EntryInv, TypeOK, SaveOptions, UpdateEntry, worldVars, Entries
<1>2. KeysInOrder'
  BY DEF EntryInv, KeysInOrder, SaveOptions, UpdateEntry, worldVars
<1>3. AcceptedIsNewest'
  BY DEF EntryInv, AcceptedIsNewest, SaveOptions, UpdateEntry, worldVars
<1>4. SetupIsCurrent' /\ RunsOnWhatIsStored'
  BY DEF EntryInv, TypeOK, SetupIsCurrent, RunsOnWhatIsStored, SaveOptions, UpdateEntry,
     Entries
<1> QED
  BY <1>1, <1>2, <1>3, <1>4 DEF EntryInv

-----------------------------------------------------------------------------
\* Every step keeps the invariant: one case for each action.
LEMMA StepEntryInv == EntryInv /\ [Next]_vars => EntryInv'
<1> SUFFICES ASSUME EntryInv, [Next]_vars PROVE EntryInv'
  OBVIOUS
<1>1. CASE UNCHANGED vars
  BY <1>1
  DEF EntryInv, TypeOK, KeysInOrder, AcceptedIsNewest, SetupIsCurrent,
      RunsOnWhatIsStored, vars, worldVars, entryVars, setupVars
<1>2. ASSUME Next PROVE EntryInv'
  <2>1. CASE FirstRefresh \/ SetupEnds \/ RetrySetup \/ Reload \/ Restart
    BY <2>1, FirstRefreshStep, SetupEndsStep, RetrySetupStep, ReloadStep, RestartStep
  <2>2. CASE Poll \/ PollEnds
    BY <2>2, PollStep, PollEndsStep
  <2>3. CASE Discovered \/ UserPicks \/ StartReconfigure
    BY <2>3, FlowOpensStep
    DEF Discovered, UserPicks, StartReconfigure, Flows, SetupFlows
  <2>4. CASE Dismiss("user") \/ Dismiss("reconfigure")
    BY <2>4, DismissedStep DEF Flows, SetupFlows
  <2>5. ASSUME NEW f \in Flows,
               \/ \E k \in 0..deviceKey \cup {Typo} : Submit(f, k)
               \/ Validate(f) \/ ValidateFails(f)
        PROVE EntryInv'
    BY <2>5, SubmittedStep, ValidatedStep, ValidationFailedStep
  <2>6. ASSUME NEW f \in Flows, ApplyPsk(f) \/ CreateEntry(f) \/ AbortedEnds(f)
        PROVE EntryInv'
    BY <2>6, KeyAppliedStep, EntryCreatedStep, AbortEndsStep
  <2>7. CASE (\E i \in Intervals : SaveOptions(i)) \/ IssueKey
    BY <2>7, OptionsSavedStep, KeyIssuedStep
  <2> QED
    BY <1>2, <2>1, <2>2, <2>3, <2>4, <2>5, <2>6, <2>7 DEF Next
<1> QED
  BY <1>1, <1>2

\* The invariant always holds; fairness is not needed for it.
LEMMA EntryInvHolds == Spec => []EntryInv
<1>1. Init /\ [][Next]_vars => []EntryInv
  BY InitEntryInv, StepEntryInv, PTL
<1> QED
  BY <1>1, PTL DEF Spec, Safety

-----------------------------------------------------------------------------
(* The theorems. *)

\* Every variable keeps its type, whatever flows, reloads and restarts do.
THEOREM EntryTypes == Spec => []TypeOK
<1>1. EntryInv => TypeOK
  BY DEF EntryInv
<1> QED
  BY EntryInvHolds, <1>1, PTL

\* A loaded entry of __init__.py runs on the key and, but for options saved while
\* it is being set up, on the options that are stored, or is about to be reloaded.
THEOREM EntryRunsOnWhatIsStored == Spec => []RunsOnWhatIsStored
<1>1. EntryInv => RunsOnWhatIsStored
  BY DEF EntryInv
<1> QED
  BY EntryInvHolds, <1>1, PTL

\* The flows of config_flow.py never replace the stored key by an older one, in
\* whichever order they are submitted, validated and applied.
THEOREM StoredKeyAdvances == Spec => StoredKeyNeverGoesBack
<1>1. EntryInv /\ [Next]_vars => [stored'.key >= stored.key]_vars
  <2> SUFFICES ASSUME EntryInv, Next PROVE stored'.key >= stored.key
    OBVIOUS
  <2>1. stored.key \in Keys
    BY DEF EntryInv, TypeOK, Entries
  <2>2. ASSUME UNCHANGED stored PROVE stored'.key >= stored.key
    BY <2>1, <2>2 DEF Keys
  <2>3. ASSUME NEW f \in Flows, ApplyPsk(f) \/ CreateEntry(f)
        PROVE stored'.key >= stored.key
    BY <2>1, <2>3
    DEF EntryInv, TypeOK, AcceptedIsNewest, ApplyPsk, CreateEntry, UpdateEntry, NoEntry,
        Entries
  <2>4. ASSUME NEW i \in Intervals, SaveOptions(i) PROVE stored'.key >= stored.key
    BY <2>1, <2>4 DEF SaveOptions, UpdateEntry, Keys
  <2> QED
    BY <2>2, <2>3, <2>4
    DEF Next, FirstRefresh, SetupEnds, RetrySetup, Reload, Restart, Poll, PollEnds,
        Discovered, UserPicks, StartReconfigure, Opens, Dismiss, Submit, Validate,
        ValidateFails, AbortedEnds, IssueKey, entryVars
<1> QED
  BY EntryInvHolds, <1>1, PTL DEF Spec, Safety, StoredKeyNeverGoesBack
=============================================================================
