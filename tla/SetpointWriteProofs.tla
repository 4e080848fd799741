------------------------ MODULE SetpointWriteProofs ------------------------
(***************************************************************************)
(* What holds of the setpoint's write path for any number of edits, polls  *)
(* and attempts.                                                           *)
(***************************************************************************)
EXTENDS SetpointWrite, TLAPS

(* The inductive invariant. *)

\* The slot is asked for and held exactly where the tasks are suspended.
Held == {"connected", "sending", "sent", "closing"}

SlotInv ==
    /\ \A t \in Tasks : t \in asking <=> place[t] = "asking"
    /\ \A t \in Tasks : t \in holding <=> place[t] \in Held
    /\ \A t, u \in holding : t = u

\* The task may still write: no cancellation has reached it or is on its way.
Alive(e) ==
    /\ place[e] \notin {"none", "ended"} /\ e \notin cancelled
    /\ ~(place[e] = "closing" /\ outcome[e] = "cancelled")

\* Only the task of the newest edit may still write, and none once the entity is
\* gone; edits to come have no task.
EditInv ==
    /\ \A e \in Edits : e > latest => place[e] = "none"
    /\ writeTask # 0 => writeTask = latest /\ ~removed
    /\ \A e \in Edits : Alive(e) => e = writeTask

\* Edits move from the wire to the device to the setpoint to the data in the order
\* in which they were made.
OrderInv ==
    /\ data <= setpoint
    /\ wire # 0 => setpoint <= wire /\ staged <= wire
    /\ staged # 0 => setpoint <= staged
    /\ setpoint <= latest /\ staged <= latest /\ wire <= latest
    /\ \A p \in Polls : place[p] = "closing" /\ outcome[p] = "ok" =>
          data <= reading[p] /\ reading[p] <= setpoint

\* Edit e is the last one the device was given.
DeviceHas(e) == staged = e \/ (staged = 0 /\ setpoint = e)

\* Once its SET is taken, the device has what the newest edit gave.
SentInv ==
    \A e \in Edits :
        /\ Alive(e)
        /\ place[e] = "sent" \/ (place[e] = "closing" /\ outcome[e] = "ok")
        => wire = 0 /\ DeviceHas(e)

\* The poll is going to read the setpoint, or has read the newest.
WillRead(p) ==
    \/ place[p] \in {"asking", "connected"}
    \/ place[p] = "closing" /\ (outcome[p] # "ok" \/ reading[p] = latest)

\* From the end of the newest edit's write to a poll that fails: nothing else is on
\* its way to the device, and a poll that shows the edit is to come or has been.
ShowInv ==
    toShow =>
        /\ writeTask = 0 /\ wire = 0 /\ settleTimer \in {0, latest} /\ latest # 0
        /\ DeviceHas(latest)
        /\ settleTimer = 0 => /\ setpoint = latest /\ staged = 0
                              /\ data = latest \/ \E p \in Polls : WillRead(p)

WriteInv == TypeOK /\ SlotInv /\ EditInv /\ OrderInv /\ SentInv /\ ShowInv

-----------------------------------------------------------------------------
(* Types. *)

\* TypeOK's conjuncts about the tasks, under a name.
TaskTypes ==
    /\ place \in [Tasks -> {"none", "debouncing", "asking", "connected", "sending",
                           "sent", "closing", "ended"}]
    /\ attempt \in [Tasks -> 0..MaxAttempts]
    /\ outcome \in [Tasks -> {"none", "ok", "failed", "cancelled"}]

\* A task that asks for the connection, or tries again, is one of TypeOK's.
LEMMA AskTypes ==
  ASSUME TypeOK, NEW t \in Tasks, Ask(t), UNCHANGED outcome
  PROVE  TaskTypes'
  BY MaxAttemptsAssumption DEF TypeOK, TaskTypes, Ask, Goes

\* So is one between two attempts ...
LEMMA RetryTypes == ASSUME TypeOK, NEW t \in Tasks, Retry(t) PROVE TaskTypes'
  BY MaxAttemptsAssumption DEF TypeOK, TaskTypes, Retry, Goes

\* ... one that is about to disconnect ...
LEMMA TeardownTypes ==
  ASSUME TypeOK, NEW t \in Tasks, NEW result \in {"ok", "failed", "cancelled"},
         Teardown(t, result)
  PROVE  TaskTypes'
  BY DEF TypeOK, TaskTypes, Teardown, Goes

\* ... an edit that is over ...
LEMMA FinishTypes == ASSUME TypeOK, NEW e \in Edits, Finish(e) PROVE TaskTypes'
  BY MaxAttemptsAssumption DEF TypeOK, TaskTypes, Finish, Goes, Tasks

\* ... and a poll.
LEMMA PollEndsTypes == ASSUME TypeOK, NEW p \in Polls, PollEnds(p) PROVE TaskTypes'
  BY MaxAttemptsAssumption DEF TypeOK, TaskTypes, PollEnds, Goes, Tasks

\* What _cancel_pending_write cancels is an edit.
LEMMA CancelTypes == ASSUME TypeOK, CancelPendingWrite PROVE cancelled' \subseteq Edits
  BY DEF TypeOK, CancelPendingWrite, Edits

\* The tasks keep their types.
LEMMA TaskTypeStep == ASSUME TypeOK, Next PROVE TaskTypes'
<1>1. CASE Edit
  BY <1>1 DEF Edit, Goes, TypeOK, TaskTypes
<1>2. CASE Remove
  BY <1>2 DEF Remove, TypeOK, TaskTypes
<1>3. ASSUME NEW e \in Edits, DebounceEnds(e) PROVE TaskTypes'
  BY <1>3, AskTypes, FinishTypes DEF DebounceEnds, Tasks
<1>4. ASSUME NEW e \in Edits, SendSet(e) PROVE TaskTypes'
  BY <1>4 DEF SendSet, Goes, TypeOK, TaskTypes
<1>5. ASSUME NEW e \in Edits, SetAnswered(e) PROVE TaskTypes'
  BY <1>5, TeardownTypes DEF SetAnswered, Tasks
<1>6. ASSUME NEW e \in Edits, WriteCloses(e) PROVE TaskTypes'
  BY <1>6, RetryTypes, FinishTypes DEF WriteCloses, Tasks
<1>7. ASSUME NEW e \in Edits, Unwind(e) PROVE TaskTypes'
  BY <1>7, TeardownTypes, FinishTypes DEF Unwind, Tasks
<1>8. ASSUME NEW p \in Polls, ScheduledPoll(p) PROVE TaskTypes'
  BY <1>8, AskTypes DEF ScheduledPoll, BeginPoll, TypeOK, TaskTypes, Tasks
<1>9. ASSUME NEW p \in Polls, SettlePoll(p) PROVE TaskTypes'
  BY <1>9, AskTypes DEF SettlePoll, BeginPoll, TypeOK, TaskTypes, Tasks
<1>10. ASSUME NEW p \in Polls, PollReads(p) PROVE TaskTypes'
  BY <1>10, TeardownTypes DEF PollReads, Tasks
<1>11. ASSUME NEW p \in Polls, PollCloses(p) PROVE TaskTypes'
  BY <1>11, RetryTypes, PollEndsTypes DEF PollCloses, Tasks
<1>12. ASSUME NEW t \in Tasks, Connect(t) PROVE TaskTypes'
  BY <1>12 DEF Connect, Goes, TypeOK, TaskTypes
<1>13. ASSUME NEW t \in Tasks, AttemptFails(t) PROVE TaskTypes'
  BY <1>13, TeardownTypes DEF AttemptFails
<1>14. CASE DeviceTakesSet
  BY <1>14 DEF DeviceTakesSet, TypeOK, TaskTypes
<1>15. CASE DeviceApplies
  BY <1>15 DEF DeviceApplies, TypeOK, TaskTypes, taskVars
<1>16. CASE SetLost
  BY <1>16 DEF SetLost, TypeOK, TaskTypes, taskVars
<1> QED
  BY <1>1, <1>2, <1>3, <1>4, <1>5, <1>6, <1>7, <1>8, <1>9, <1>10, <1>11, <1>12, <1>13,
     <1>14, <1>15, <1>16
  DEF Next, WriteStep, PollStep

\* What is cancelled are edits, and flags are flags.
LEMMA FlagTypeStep ==
  ASSUME TypeOK, Next
  PROVE  /\ cancelled' \subseteq Edits /\ removed' \in BOOLEAN
         /\ lastUpdateSuccess' \in BOOLEAN /\ toShow' \in BOOLEAN
<1> DEFINE Goal == /\ cancelled' \subseteq Edits /\ removed' \in BOOLEAN
                   /\ lastUpdateSuccess' \in BOOLEAN /\ toShow' \in BOOLEAN
<1>1. CASE Edit
  BY <1>1, CancelTypes DEF TypeOK, Edit
<1>2. CASE Remove
  BY <1>2, CancelTypes DEF TypeOK, Remove
<1>3. ASSUME NEW e \in Edits, DebounceEnds(e) PROVE Goal
  BY <1>3 DEF TypeOK, DebounceEnds, coordVars
<1>4. ASSUME NEW e \in Edits, SendSet(e) PROVE Goal
  BY <1>4 DEF TypeOK, SendSet, entityVars, coordVars
<1>5. ASSUME NEW e \in Edits, SetAnswered(e) PROVE Goal
  BY <1>5 DEF TypeOK, SetAnswered, entityVars, coordVars
<1>6. ASSUME NEW e \in Edits, WriteCloses(e) PROVE Goal
  BY <1>6 DEF TypeOK, WriteCloses
<1>7. ASSUME NEW e \in Edits, Unwind(e) PROVE Goal
  BY <1>7 DEF TypeOK, Unwind, coordVars
<1>8. ASSUME NEW p \in Polls, ScheduledPoll(p) PROVE Goal
  BY <1>8 DEF TypeOK, ScheduledPoll, BeginPoll, Refreshed, entityVars
<1>9. ASSUME NEW p \in Polls, SettlePoll(p) PROVE Goal
  BY <1>9 DEF TypeOK, SettlePoll, BeginPoll, Refreshed, entityVars
<1>10. ASSUME NEW p \in Polls, PollReads(p) PROVE Goal
  BY <1>10 DEF TypeOK, PollReads, entityVars
<1>11. ASSUME NEW p \in Polls, PollCloses(p) PROVE Goal
  BY <1>11 DEF TypeOK, PollCloses, Refreshed, entityVars
<1>12. ASSUME NEW t \in Tasks, Connect(t) PROVE Goal
  BY <1>12 DEF TypeOK, Connect, entityVars, coordVars
<1>13. ASSUME NEW t \in Tasks, AttemptFails(t) PROVE Goal
  BY <1>13 DEF TypeOK, AttemptFails, entityVars, coordVars
<1>14. CASE DeviceTakesSet
  BY <1>14 DEF TypeOK, DeviceTakesSet, entityVars, coordVars
<1>15. CASE DeviceApplies
  BY <1>15 DEF TypeOK, DeviceApplies, entityVars, taskVars, coordVars
<1>16. CASE SetLost
  BY <1>16 DEF TypeOK, SetLost, entityVars, taskVars, coordVars
<1> QED
  BY <1>1, <1>2, <1>3, <1>4, <1>5, <1>6, <1>7, <1>8, <1>9, <1>10, <1>11, <1>12, <1>13,
     <1>14, <1>15, <1>16
  DEF Next, WriteStep, PollStep

\* The numbers of edits.
LEMMA EntityTypeStep ==
  ASSUME TypeOK, Next
  PROVE  /\ latest' \in 0..MaxEdits
         /\ pendingTemperature' \in 0..MaxEdits
         /\ writeTask' \in 0..MaxEdits
  BY MaxEditsAssumption, SMTT(20)
  DEF TypeOK, Next, WriteStep, PollStep, Edit, CancelPendingWrite, Goes, Remove,
      DebounceEnds, Ask, Finish, Runs, Slot!Ask, SendSet, SetAnswered, Teardown,
      WriteCloses, Retry, Slot!Leave, Slot!LineUpAgain, Unwind, Slot!Withdraw,
      ScheduledPoll, BeginPoll, Refreshed, SettlePoll, PollReads, PollCloses, PollEnds,
      Connect, Slot!Enter, AttemptFails, DeviceTakesSet, DeviceApplies, SetLost,
      entityVars, taskVars, slotVars, coordVars, deviceVars, Edits, Tasks

\* What is due, read and shown.
LEMMA CoordTypeStep ==
  ASSUME TypeOK, Next
  PROVE  /\ settleTimer' \in 0..MaxEdits
         /\ reading' \in [Polls -> 0..MaxEdits]
         /\ data' \in 0..MaxEdits
  BY MaxEditsAssumption, SMTT(20)
  DEF TypeOK, Next, WriteStep, PollStep, Edit, CancelPendingWrite, Goes, Remove,
      DebounceEnds, Ask, Finish, Runs, Slot!Ask, SendSet, SetAnswered, Teardown,
      WriteCloses, Retry, Slot!Leave, Slot!LineUpAgain, Unwind, Slot!Withdraw,
      ScheduledPoll, BeginPoll, Refreshed, SettlePoll, PollReads, PollCloses, PollEnds,
      Connect, Slot!Enter, AttemptFails, DeviceTakesSet, DeviceApplies, SetLost,
      entityVars, taskVars, slotVars, coordVars, deviceVars, Edits, Tasks

\* What is on its way to the device and in it.
LEMMA DeviceTypeStep ==
  ASSUME TypeOK, Next
  PROVE  /\ wire' \in 0..MaxEdits
         /\ staged' \in 0..MaxEdits
         /\ setpoint' \in 0..MaxEdits
  BY MaxEditsAssumption, SMTT(20)
  DEF TypeOK, Next, WriteStep, PollStep, Edit, CancelPendingWrite, Goes, Remove,
      DebounceEnds, Ask, Finish, Runs, Slot!Ask, SendSet, SetAnswered, Teardown,
      WriteCloses, Retry, Slot!Leave, Slot!LineUpAgain, Unwind, Slot!Withdraw,
      ScheduledPoll, BeginPoll, Refreshed, SettlePoll, PollReads, PollCloses, PollEnds,
      Connect, Slot!Enter, AttemptFails, DeviceTakesSet, DeviceApplies, SetLost,
      entityVars, taskVars, slotVars, coordVars, deviceVars, Edits, Tasks

\* The tasks use the connection slot as ConnectionSlot has it.
LEMMA SlotStepAllowed == ASSUME Next PROVE [Slot!SlotNext]_slotVars
<1>1. CASE Edit
  BY <1>1 DEF Edit
<1>2. CASE Remove
  BY <1>2 DEF Remove
<1>3. ASSUME NEW e \in Edits, DebounceEnds(e) PROVE [Slot!SlotNext]_slotVars
  BY <1>3 DEF Slot!SlotNext, DebounceEnds, Ask, Tasks
<1>4. ASSUME NEW e \in Edits, SendSet(e) PROVE [Slot!SlotNext]_slotVars
  BY <1>4 DEF SendSet
<1>5. ASSUME NEW e \in Edits, SetAnswered(e) PROVE [Slot!SlotNext]_slotVars
  BY <1>5 DEF SetAnswered, Teardown
<1>6. ASSUME NEW e \in Edits, WriteCloses(e) PROVE [Slot!SlotNext]_slotVars
  BY <1>6 DEF Slot!SlotNext, WriteCloses, Retry, Tasks
<1>7. ASSUME NEW e \in Edits, Unwind(e) PROVE [Slot!SlotNext]_slotVars
  BY <1>7 DEF Slot!SlotNext, Unwind, Teardown, Tasks
<1>8. ASSUME NEW p \in Polls, ScheduledPoll(p) PROVE [Slot!SlotNext]_slotVars
  BY <1>8 DEF Slot!SlotNext, ScheduledPoll, BeginPoll, Ask, Tasks
<1>9. ASSUME NEW p \in Polls, SettlePoll(p) PROVE [Slot!SlotNext]_slotVars
  BY <1>9 DEF Slot!SlotNext, SettlePoll, BeginPoll, Ask, Tasks
<1>10. ASSUME NEW p \in Polls, PollReads(p) PROVE [Slot!SlotNext]_slotVars
  BY <1>10 DEF PollReads, Teardown
<1>11. ASSUME NEW p \in Polls, PollCloses(p) PROVE [Slot!SlotNext]_slotVars
  BY <1>11 DEF Slot!SlotNext, PollCloses, Retry, Tasks
<1>12. ASSUME NEW t \in Tasks, Connect(t) PROVE [Slot!SlotNext]_slotVars
  BY <1>12 DEF Slot!SlotNext, Connect
<1>13. ASSUME NEW t \in Tasks, AttemptFails(t) PROVE [Slot!SlotNext]_slotVars
  BY <1>13 DEF AttemptFails, Teardown
<1>14. CASE DeviceTakesSet
  BY <1>14 DEF DeviceTakesSet
<1>15. CASE DeviceApplies
  BY <1>15 DEF DeviceApplies
<1>16. CASE SetLost
  BY <1>16 DEF SetLost
<1> QED
  BY <1>1, <1>2, <1>3, <1>4, <1>5, <1>6, <1>7, <1>8, <1>9, <1>10, <1>11, <1>12, <1>13,
     <1>14, <1>15, <1>16
  DEF Next, WriteStep, PollStep

\* Those who ask and hold are tasks.
LEMMA SlotTypeStep ==
  ASSUME TypeOK, Next
  PROVE  asking' \subseteq Tasks /\ holding' \subseteq Tasks
  BY SlotStepAllowed
  DEF TypeOK, Slot!SlotNext, Slot!Ask, Slot!Enter, Slot!Leave, Slot!Withdraw,
      Slot!LineUpAgain, slotVars

\* Every step keeps the types.
LEMMA TypeStep == TypeOK /\ [Next]_vars => TypeOK'
<1>1. ASSUME TypeOK, Next PROVE TypeOK'
  BY <1>1, TaskTypeStep, FlagTypeStep, EntityTypeStep, CoordTypeStep, DeviceTypeStep,
     SlotTypeStep
  DEF TypeOK, TaskTypes
<1>2. ASSUME TypeOK, UNCHANGED vars PROVE TypeOK'
  BY <1>2 DEF TypeOK, vars, entityVars, taskVars, slotVars, coordVars, deviceVars
<1> QED
  BY <1>1, <1>2

-----------------------------------------------------------------------------
(* Steps. *)

\* A task asks for and holds the slot only where it is suspended for it.
LEMMA SlotStep == ASSUME WriteInv, Next PROVE SlotInv'
<1>1. CASE Edit
  BY <1>1, MaxEditsAssumption
  DEF WriteInv, TypeOK, SlotInv, EditInv, Edit, Goes, slotVars, Held, Edits
<1>2. CASE Remove
  BY <1>2 DEF WriteInv, SlotInv, Remove, slotVars
<1>3. ASSUME NEW e \in Edits, DebounceEnds(e) PROVE SlotInv'
  BY <1>3, MaxEditsAssumption, PollsAssumption
  DEF WriteInv, TypeOK, SlotInv, EditInv, DebounceEnds, Ask, Finish, Goes, Runs,
      Slot!Ask, entityVars, taskVars, slotVars, coordVars, deviceVars, Held, Edits,
      Tasks
<1>4. ASSUME NEW e \in Edits, SendSet(e) PROVE SlotInv'
  BY <1>4 DEF WriteInv, SlotInv, SendSet, Goes, slotVars, Held
<1>5. ASSUME NEW e \in Edits, SetAnswered(e) PROVE SlotInv'
  BY <1>5 DEF WriteInv, SlotInv, SetAnswered, Teardown, Goes, slotVars, Held
<1>6. ASSUME NEW e \in Edits, WriteCloses(e) PROVE SlotInv'
  BY <1>6, MaxEditsAssumption, PollsAssumption
  DEF WriteInv, TypeOK, SlotInv, EditInv, WriteCloses, Retry, Finish, Goes, Runs,
      Slot!Leave, Slot!LineUpAgain, entityVars, taskVars, slotVars, coordVars,
      deviceVars, Held, Edits, Tasks
<1>7. ASSUME NEW e \in Edits, Unwind(e) PROVE SlotInv'
  BY <1>7, MaxEditsAssumption, PollsAssumption
  DEF WriteInv, TypeOK, SlotInv, EditInv, Unwind, Finish, Teardown, Goes, Slot!Withdraw,
      Slot!Leave, entityVars, taskVars, slotVars, coordVars, deviceVars, Held, Edits,
      Tasks
<1>8. ASSUME NEW p \in Polls, ScheduledPoll(p) PROVE SlotInv'
  BY <1>8
  DEF WriteInv, TypeOK, SlotInv, ScheduledPoll, BeginPoll, Ask, Goes, Slot!Ask,
      slotVars, Held
<1>9. ASSUME NEW p \in Polls, SettlePoll(p) PROVE SlotInv'
  BY <1>9, MaxEditsAssumption, PollsAssumption
  DEF WriteInv, TypeOK, SlotInv, EditInv, SettlePoll, BeginPoll, Ask, Refreshed, Goes,
      Slot!Ask, entityVars, taskVars, slotVars, coordVars, deviceVars, Held, Edits,
      Tasks
<1>10. ASSUME NEW p \in Polls, PollReads(p) PROVE SlotInv'
  BY <1>10 DEF WriteInv, SlotInv, PollReads, Teardown, Goes, slotVars, Held
<1>11. ASSUME NEW p \in Polls, PollCloses(p) PROVE SlotInv'
  BY <1>11
  DEF WriteInv, TypeOK, SlotInv, PollCloses, Retry, PollEnds, Goes, Slot!Leave,
      Slot!LineUpAgain, Held
<1>12. ASSUME NEW t \in Tasks, Connect(t) PROVE SlotInv'
  BY <1>12 DEF WriteInv, TypeOK, SlotInv, Connect, Goes, Slot!Enter, Held
<1>13. ASSUME NEW t \in Tasks, AttemptFails(t) PROVE SlotInv'
  BY <1>13 DEF WriteInv, SlotInv, AttemptFails, Teardown, Goes, slotVars, Held
<1>14. CASE DeviceTakesSet
  BY <1>14 DEF WriteInv, SlotInv, DeviceTakesSet, slotVars, Held
<1>15. CASE DeviceApplies
  BY <1>15 DEF WriteInv, SlotInv, DeviceApplies, taskVars, slotVars
<1>16. CASE SetLost
  BY <1>16 DEF WriteInv, SlotInv, SetLost, taskVars, slotVars
<1> QED
  BY <1>1, <1>2, <1>3, <1>4, <1>5, <1>6, <1>7, <1>8, <1>9, <1>10, <1>11, <1>12, <1>13,
     <1>14, <1>15, <1>16
  DEF Next, WriteStep, PollStep

\* An edit cancels the one before it, and removal cancels the last.
LEMMA EditStep == ASSUME WriteInv, Next PROVE EditInv'
<1>1. CASE Edit
  BY <1>1 DEF WriteInv, TypeOK, EditInv, Alive, Edit, CancelPendingWrite, Goes, Edits
<1>2. CASE Remove
  BY <1>2 DEF WriteInv, EditInv, Alive, Remove, CancelPendingWrite
<1>3. ASSUME NEW e \in Edits, DebounceEnds(e) PROVE EditInv'
  BY <1>3 DEF WriteInv, TypeOK, EditInv, Alive, DebounceEnds, Ask, Finish, Goes, Tasks
<1>4. ASSUME NEW e \in Edits, SendSet(e) PROVE EditInv'
  BY <1>4 DEF WriteInv, EditInv, Alive, SendSet, Goes, entityVars
<1>5. ASSUME NEW e \in Edits, SetAnswered(e) PROVE EditInv'
  BY <1>5 DEF WriteInv, EditInv, Alive, SetAnswered, Teardown, Goes, entityVars
<1>6. ASSUME NEW e \in Edits, WriteCloses(e) PROVE EditInv'
  BY <1>6 DEF WriteInv, TypeOK, EditInv, Alive, WriteCloses, Retry, Finish, Goes, Tasks
<1>7. ASSUME NEW e \in Edits, Unwind(e) PROVE EditInv'
  BY <1>7 DEF WriteInv, TypeOK, EditInv, Alive, Unwind, Finish, Teardown, Goes, Tasks
<1>8. ASSUME NEW p \in Polls, ScheduledPoll(p) PROVE EditInv'
  BY <1>8, PollsAssumption
  DEF WriteInv, TypeOK, EditInv, Alive, ScheduledPoll, BeginPoll, Ask, Refreshed, Goes,
      entityVars, Tasks
<1>9. ASSUME NEW p \in Polls, SettlePoll(p) PROVE EditInv'
  BY <1>9, PollsAssumption
  DEF WriteInv, TypeOK, EditInv, Alive, SettlePoll, BeginPoll, Ask, Refreshed, Goes,
      entityVars, Tasks
<1>10. ASSUME NEW p \in Polls, PollReads(p) PROVE EditInv'
  BY <1>10 DEF WriteInv, EditInv, Alive, PollReads, Teardown, Goes, entityVars
<1>11. ASSUME NEW p \in Polls, PollCloses(p) PROVE EditInv'
  BY <1>11
  DEF WriteInv, TypeOK, EditInv, Alive, PollCloses, Retry, PollEnds, Goes, entityVars,
      Tasks
<1>12. ASSUME NEW t \in Tasks, Connect(t) PROVE EditInv'
  BY <1>12 DEF WriteInv, EditInv, Alive, Connect, Goes, entityVars
<1>13. ASSUME NEW t \in Tasks, AttemptFails(t) PROVE EditInv'
  BY <1>13 DEF WriteInv, EditInv, Alive, AttemptFails, Teardown, Goes, entityVars
<1>14. CASE DeviceTakesSet
  BY <1>14 DEF WriteInv, EditInv, Alive, DeviceTakesSet, entityVars
<1>15. CASE DeviceApplies
  BY <1>15 DEF WriteInv, EditInv, Alive, DeviceApplies, entityVars, taskVars
<1>16. CASE SetLost
  BY <1>16 DEF WriteInv, EditInv, Alive, SetLost, entityVars, taskVars
<1> QED
  BY <1>1, <1>2, <1>3, <1>4, <1>5, <1>6, <1>7, <1>8, <1>9, <1>10, <1>11, <1>12, <1>13,
     <1>14, <1>15, <1>16
  DEF Next, WriteStep, PollStep

\* Nothing overtakes on the way to the card.
LEMMA OrderStep == ASSUME WriteInv, Next PROVE OrderInv'
<1>1. CASE Edit
  BY <1>1 DEF WriteInv, TypeOK, OrderInv, Edit, Goes, deviceVars
<1>2. CASE Remove
  BY <1>2 DEF WriteInv, OrderInv, Remove, deviceVars
<1>3. ASSUME NEW e \in Edits, DebounceEnds(e) PROVE OrderInv'
  BY <1>3, MaxEditsAssumption, PollsAssumption
  DEF WriteInv, TypeOK, SlotInv, EditInv, Alive, OrderInv, DebounceEnds, Ask, Finish,
      Goes, Runs, Slot!Ask, entityVars, taskVars, slotVars, coordVars, deviceVars, Held,
      Edits, Tasks
<1>4. ASSUME NEW e \in Edits, SendSet(e) PROVE OrderInv'
  BY <1>4
  DEF WriteInv, TypeOK, EditInv, Alive, OrderInv, SendSet, Goes, Runs, entityVars,
      coordVars
<1>5. ASSUME NEW e \in Edits, SetAnswered(e) PROVE OrderInv'
  BY <1>5, PollsAssumption
  DEF WriteInv, OrderInv, SetAnswered, Teardown, Goes, entityVars, coordVars, deviceVars
<1>6. ASSUME NEW e \in Edits, WriteCloses(e) PROVE OrderInv'
  <2>1. wire' = 0 /\ UNCHANGED <<data, setpoint, staged, latest, reading>>
    BY <1>6 DEF WriteCloses
  <2>2. \A p \in Polls : place'[p] = place[p] /\ outcome'[p] = outcome[p]
    BY <1>6, PollsAssumption
    DEF WriteInv, TypeOK, WriteCloses, Retry, Finish, Goes, Tasks
  <2> QED
    BY <2>1, <2>2 DEF WriteInv, TypeOK, OrderInv
<1>7. ASSUME NEW e \in Edits, Unwind(e) PROVE OrderInv'
  BY <1>7
  DEF WriteInv, TypeOK, OrderInv, Unwind, Finish, Teardown, Goes, coordVars, deviceVars,
      Tasks
<1>8. ASSUME NEW p \in Polls, ScheduledPoll(p) PROVE OrderInv'
  BY <1>8
  DEF WriteInv, TypeOK, OrderInv, ScheduledPoll, BeginPoll, Ask, Goes, entityVars,
      deviceVars, Tasks
<1>9. ASSUME NEW p \in Polls, SettlePoll(p) PROVE OrderInv'
  BY <1>9
  DEF WriteInv, TypeOK, OrderInv, SettlePoll, BeginPoll, Ask, Goes, entityVars,
      deviceVars, Tasks
<1>10. ASSUME NEW p \in Polls, PollReads(p) PROVE OrderInv'
  BY <1>10 DEF WriteInv, TypeOK, OrderInv, PollReads, Teardown, Goes, entityVars
<1>11. ASSUME NEW p \in Polls, PollCloses(p) PROVE OrderInv'
  <2>1. UNCHANGED <<wire, staged, setpoint, latest>>
    BY <1>11 DEF PollCloses, deviceVars, entityVars
  <2>2. \A q \in Polls : place[q] = "closing" => q = p
    BY <1>11 DEF WriteInv, SlotInv, Held, Tasks, PollCloses
  <2>3. place'[p] # "closing"
    BY <1>11 DEF WriteInv, TypeOK, Tasks, PollCloses, Retry, PollEnds, Goes
  <2>4. \A q \in Polls : q # p => place'[q] = place[q]
    BY <1>11 DEF WriteInv, TypeOK, Tasks, PollCloses, Retry, PollEnds, Goes
  <2>5. data <= data' /\ data' <= setpoint
    BY <1>11 DEF WriteInv, TypeOK, OrderInv, PollCloses
  <2> QED
    BY <2>1, <2>2, <2>3, <2>4, <2>5 DEF WriteInv, OrderInv
<1>12. ASSUME NEW t \in Tasks, Connect(t) PROVE OrderInv'
  BY <1>12 DEF WriteInv, OrderInv, Connect, Goes, entityVars, coordVars, deviceVars
<1>13. ASSUME NEW t \in Tasks, AttemptFails(t) PROVE OrderInv'
  BY <1>13
  DEF WriteInv, TypeOK, OrderInv, AttemptFails, Teardown, Goes, entityVars, coordVars,
      deviceVars
<1>14. CASE DeviceTakesSet
  BY <1>14 DEF WriteInv, TypeOK, OrderInv, DeviceTakesSet, entityVars, coordVars
<1>15. CASE DeviceApplies
  BY <1>15
  DEF WriteInv, TypeOK, OrderInv, DeviceApplies, entityVars, taskVars, coordVars
<1>16. CASE SetLost
  BY <1>16 DEF WriteInv, TypeOK, OrderInv, SetLost, entityVars, taskVars, coordVars
<1> QED
  BY <1>1, <1>2, <1>3, <1>4, <1>5, <1>6, <1>7, <1>8, <1>9, <1>10, <1>11, <1>12, <1>13,
     <1>14, <1>15, <1>16
  DEF Next, WriteStep, PollStep

\* What was taken from the newest edit is not replaced.
LEMMA SentStep == ASSUME WriteInv, Next PROVE SentInv'
<1>1. CASE Edit
  BY <1>1
  DEF WriteInv, Alive, SentInv, DeviceHas, Edit, CancelPendingWrite, Goes, deviceVars
<1>2. CASE Remove
  BY <1>2
  DEF WriteInv, Alive, SentInv, DeviceHas, Remove, CancelPendingWrite, deviceVars
<1>3. ASSUME NEW e \in Edits, DebounceEnds(e) PROVE SentInv'
  BY <1>3
  DEF WriteInv, TypeOK, EditInv, Alive, SentInv, DebounceEnds, Ask, Finish, Goes, Runs,
      Tasks
<1>4. ASSUME NEW e \in Edits, SendSet(e) PROVE SentInv'
  BY <1>4 DEF WriteInv, EditInv, Alive, SentInv, SendSet, Goes, Runs
<1>5. ASSUME NEW e \in Edits, SetAnswered(e) PROVE SentInv'
  BY <1>5
  DEF WriteInv, Alive, SentInv, DeviceHas, SetAnswered, Teardown, Goes, deviceVars
<1>6. ASSUME NEW e \in Edits, WriteCloses(e) PROVE SentInv'
  BY <1>6
  DEF WriteInv, TypeOK, Alive, SentInv, DeviceHas, WriteCloses, Retry, Finish, Goes,
      Tasks
<1>7. ASSUME NEW e \in Edits, Unwind(e) PROVE SentInv'
  BY <1>7
  DEF WriteInv, TypeOK, Alive, SentInv, DeviceHas, Unwind, Finish, Teardown, Goes,
      deviceVars, Tasks
<1>8. ASSUME NEW p \in Polls, ScheduledPoll(p) PROVE SentInv'
  BY <1>8
  DEF WriteInv, TypeOK, Alive, SentInv, DeviceHas, ScheduledPoll, BeginPoll, Ask,
      Refreshed, Goes, deviceVars, Tasks
<1>9. ASSUME NEW p \in Polls, SettlePoll(p) PROVE SentInv'
  BY <1>9
  DEF WriteInv, TypeOK, Alive, SentInv, DeviceHas, SettlePoll, BeginPoll, Ask,
      Refreshed, Goes, deviceVars, Tasks
<1>10. ASSUME NEW p \in Polls, PollReads(p) PROVE SentInv'
  BY <1>10, PollsAssumption
  DEF WriteInv, Alive, SentInv, DeviceHas, PollReads, Teardown, Goes
<1>11. ASSUME NEW p \in Polls, PollCloses(p) PROVE SentInv'
  BY <1>11
  DEF WriteInv, TypeOK, Alive, SentInv, DeviceHas, PollCloses, Retry, PollEnds, Goes,
      deviceVars, Tasks
<1>12. ASSUME NEW t \in Tasks, Connect(t) PROVE SentInv'
  BY <1>12 DEF WriteInv, Alive, SentInv, DeviceHas, Connect, Goes, deviceVars
<1>13. ASSUME NEW t \in Tasks, AttemptFails(t) PROVE SentInv'
  BY <1>13
  DEF WriteInv, TypeOK, Alive, SentInv, DeviceHas, AttemptFails, Teardown, Goes,
      deviceVars
<1>14. CASE DeviceTakesSet
  BY <1>14 DEF WriteInv, Alive, SentInv, DeviceHas, DeviceTakesSet
<1>15. CASE DeviceApplies
  BY <1>15 DEF WriteInv, Alive, SentInv, DeviceHas, DeviceApplies, taskVars
<1>16. CASE SetLost
  BY <1>16 DEF WriteInv, Alive, SentInv, SetLost, taskVars
<1> QED
  BY <1>1, <1>2, <1>3, <1>4, <1>5, <1>6, <1>7, <1>8, <1>9, <1>10, <1>11, <1>12, <1>13,
     <1>14, <1>15, <1>16
  DEF Next, WriteStep, PollStep

\* What was written is read, and what is read is shown.
LEMMA ShowStep == ASSUME WriteInv, Next PROVE ShowInv'
<1>1. CASE Edit
  BY <1>1 DEF ShowInv, Edit
<1>2. CASE Remove
  BY <1>2 DEF ShowInv, Remove
<1>3. ASSUME NEW e \in Edits, DebounceEnds(e) PROVE ShowInv'
  BY <1>3 DEF WriteInv, EditInv, Alive, ShowInv, DebounceEnds, Runs, coordVars, Edits
<1>4. ASSUME NEW e \in Edits, SendSet(e) PROVE ShowInv'
  BY <1>4, PollsAssumption
  DEF WriteInv, EditInv, Alive, ShowInv, DeviceHas, WillRead, SendSet, Goes, Runs,
      entityVars, coordVars
<1>5. ASSUME NEW e \in Edits, SetAnswered(e) PROVE ShowInv'
  BY <1>5
  DEF WriteInv, ShowInv, DeviceHas, WillRead, SetAnswered, Teardown, Goes, entityVars,
      coordVars, deviceVars
<1>6. ASSUME NEW e \in Edits, WriteCloses(e) PROVE ShowInv'
  <2>1. CASE /\ outcome[e] = "failed" /\ Retry(e)
             /\ UNCHANGED <<writeTask, settleTimer, toShow>>
    <3>1. Alive(e)
      BY <1>6, <2>1 DEF Alive, WriteCloses, Runs
    <3>2. ~toShow
      BY <3>1, <1>6 DEF WriteInv, EditInv, ShowInv, Edits
    <3> QED
      BY <2>1, <3>2 DEF ShowInv
  <2>2. CASE /\ Finish(e) /\ outcome[e] = "ok"
             /\ toShow' = (e = latest /\ ~removed) /\ settleTimer' = e
    <3>1. Alive(e)
      BY <1>6, <2>2 DEF Alive, WriteCloses, Runs
    <3>2. writeTask = e /\ DeviceHas(e)
      BY <3>1, <2>2, <1>6 DEF WriteInv, EditInv, SentInv, WriteCloses
    <3>3. UNCHANGED <<latest, staged, setpoint>> /\ wire' = 0
      BY <1>6 DEF WriteCloses
    <3>4. writeTask' = 0 /\ settleTimer' # 0
      BY <2>2, <3>2, <1>6, MaxEditsAssumption DEF Finish, Edits
    <3> QED
      BY <2>2, <3>2, <3>3, <3>4, <1>6 DEF ShowInv, DeviceHas
  <2>3. CASE Finish(e) /\ outcome[e] # "ok" /\ UNCHANGED <<settleTimer, toShow>>
    <3>1. \A p \in Polls : place'[p] = place[p] /\ outcome'[p] = outcome[p]
      BY <1>6, <2>3, PollsAssumption DEF Finish, Goes
    <3>2. wire' = 0 /\ UNCHANGED <<latest, staged, setpoint, data, reading>>
      BY <1>6 DEF WriteCloses
    <3>3. writeTask = 0 => writeTask' = 0
      BY <2>3 DEF Finish
    <3> QED
      BY <2>3, <3>1, <3>2, <3>3 DEF WriteInv, ShowInv, DeviceHas, WillRead
  <2> QED
    BY <1>6, <2>1, <2>2, <2>3 DEF WriteCloses
<1>7. ASSUME NEW e \in Edits, Unwind(e) PROVE ShowInv'
  <2>1. \A p \in Polls : place'[p] = place[p] /\ outcome'[p] = outcome[p]
    BY <1>7, PollsAssumption DEF WriteInv, TypeOK, Unwind, Finish, Teardown, Goes, Tasks
  <2>2. UNCHANGED <<latest, coordVars, deviceVars>>
    BY <1>7 DEF Unwind
  <2>3. writeTask = 0 => writeTask' = 0
    BY <1>7 DEF Unwind, Finish
  <2> QED
    BY <2>1, <2>2, <2>3
    DEF WriteInv, ShowInv, DeviceHas, WillRead, coordVars, deviceVars
<1>8. ASSUME NEW p \in Polls, ScheduledPoll(p) PROVE ShowInv'
  BY <1>8
  DEF WriteInv, TypeOK, ShowInv, DeviceHas, WillRead, ScheduledPoll, BeginPoll, Ask,
      Refreshed, Goes, entityVars, deviceVars, Tasks
<1>9. ASSUME NEW p \in Polls, SettlePoll(p) PROVE ShowInv'
  BY <1>9, MaxEditsAssumption, PollsAssumption
  DEF WriteInv, TypeOK, SlotInv, EditInv, Alive, OrderInv, SentInv, ShowInv, DeviceHas,
      WillRead, SettlePoll, BeginPoll, Ask, Refreshed, Goes, Slot!Ask, entityVars,
      taskVars, slotVars, coordVars, deviceVars, Held, Edits, Tasks
<1>10. ASSUME NEW p \in Polls, PollReads(p) PROVE ShowInv'
  BY <1>10
  DEF WriteInv, TypeOK, ShowInv, DeviceHas, WillRead, PollReads, Teardown, Goes,
      entityVars
<1>11. ASSUME NEW p \in Polls, PollCloses(p) PROVE ShowInv'
  <2>1. UNCHANGED <<entityVars, deviceVars, settleTimer>>
    BY <1>11 DEF PollCloses
  <2>2. \A q \in Polls : q # p => place'[q] = place[q] /\ outcome'[q] = outcome[q]
                                 /\ reading'[q] = reading[q]
    BY <1>11 DEF WriteInv, TypeOK, Tasks, PollCloses, Retry, PollEnds, Goes
  <2>3. CASE Retry(p) /\ UNCHANGED <<reading, data, lastUpdateSuccess, toShow>>
    <3>1. WillRead(p)'
      BY <2>3 DEF WriteInv, TypeOK, Tasks, Retry, Goes, WillRead
    <3> QED
      BY <2>1, <2>3, <3>1 DEF WriteInv, ShowInv, DeviceHas, entityVars, deviceVars
  <2>4. CASE ~toShow'
    BY <2>4 DEF ShowInv
  <2>5. CASE outcome[p] = "ok" /\ data' = reading[p] /\ toShow' = toShow
    <3>1. data = latest /\ setpoint = latest => data' = latest
      BY <2>5, <1>11 DEF WriteInv, TypeOK, OrderInv, PollCloses
    <3>2. WillRead(p) => data' = latest
      BY <2>5, <1>11 DEF WillRead, PollCloses
    <3>3. \A q \in Polls : q # p /\ WillRead(q) => WillRead(q)'
      BY <2>1, <2>2 DEF WillRead, entityVars
    <3> QED
      BY <2>1, <2>5, <3>1, <3>2, <3>3
      DEF WriteInv, ShowInv, DeviceHas, entityVars, deviceVars
  <2> QED
    BY <1>11, <2>3, <2>4, <2>5 DEF PollCloses, Refreshed
<1>12. ASSUME NEW t \in Tasks, Connect(t) PROVE ShowInv'
  BY <1>12
  DEF WriteInv, ShowInv, DeviceHas, WillRead, Connect, Goes, entityVars, coordVars,
      deviceVars
<1>13. ASSUME NEW t \in Tasks, AttemptFails(t) PROVE ShowInv'
  BY <1>13
  DEF WriteInv, TypeOK, ShowInv, DeviceHas, WillRead, AttemptFails, Teardown, Goes,
      entityVars, coordVars, deviceVars
<1>14. CASE DeviceTakesSet
  BY <1>14 DEF WriteInv, ShowInv, DeviceTakesSet, coordVars
<1>15. CASE DeviceApplies
  BY <1>15 DEF WriteInv, ShowInv, DeviceHas, DeviceApplies, entityVars, coordVars
<1>16. CASE SetLost
  BY <1>16 DEF WriteInv, ShowInv, SetLost, coordVars
<1> QED
  BY <1>1, <1>2, <1>3, <1>4, <1>5, <1>6, <1>7, <1>8, <1>9, <1>10, <1>11, <1>12, <1>13,
     <1>14, <1>15, <1>16
  DEF Next, WriteStep, PollStep

\* Every step keeps the invariant.
LEMMA WriteInvStep == WriteInv /\ [Next]_vars => WriteInv'
<1>1. ASSUME WriteInv, Next PROVE WriteInv'
  BY <1>1, TypeStep, SlotStep, EditStep, OrderStep, SentStep, ShowStep DEF WriteInv
<1>2. ASSUME WriteInv, UNCHANGED vars PROVE WriteInv'
  BY <1>2
  DEF WriteInv, TypeOK, SlotInv, EditInv, OrderInv, SentInv, ShowInv, Alive, DeviceHas,
      WillRead, vars, entityVars, taskVars, slotVars, coordVars, deviceVars
<1> QED
  BY <1>1, <1>2

\* It holds at first, when nothing is written, due or known.
LEMMA InitWriteInv == Init => WriteInv
<1> SUFFICES ASSUME Init PROVE WriteInv
  OBVIOUS
<1>1. TypeOK
  <2>1. 0 \in 0..MaxEdits /\ 0 \in 0..MaxAttempts
    BY MaxEditsAssumption, MaxAttemptsAssumption
  <2> QED
    BY <2>1 DEF Init, TypeOK, Slot!SlotInit
<1>2. SlotInv /\ EditInv /\ SentInv
  BY DEF Init, SlotInv, EditInv, SentInv, Alive, Slot!SlotInit, Held, Tasks
<1>3. OrderInv /\ ShowInv
  BY DEF Init, OrderInv, ShowInv
<1> QED
  BY <1>1, <1>2, <1>3 DEF WriteInv

\* WriteInv is an invariant of the write path.
THEOREM WriteInvHolds == Spec => []WriteInv
<1>1. Init /\ [][Next]_vars => []WriteInv
  BY InitWriteInv, WriteInvStep, PTL
<1> QED
  BY <1>1, PTL DEF Spec, Safety

-----------------------------------------------------------------------------
(* The theorems. *)

\* Every variable keeps its type.
THEOREM WriteTypes == Spec => []TypeOK
<1>1. WriteInv => TypeOK
  BY DEF WriteInv
<1> QED
  BY WriteInvHolds, <1>1, PTL

\* The card comes to show the newest edit once it is written, unless a poll fails:
\* the settle poll of coordinator.py does its work for any number of edits and polls.
THEOREM WriteIsShownAlways == Spec => []WriteIsShown
<1>1. WriteInv => WriteIsShown
  BY DEF WriteInv, ShowInv, WriteIsShown, WillRead
<1> QED
  BY WriteInvHolds, <1>1, PTL

\* Only SendSet puts a SET on the air.
LEMMA StartsSending ==
  ASSUME TypeOK, Next, NEW e \in Edits, place[e] # "sending", place'[e] = "sending"
  PROVE  SendSet(e)
<1>1. CASE Edit
  BY <1>1 DEF Edit, Goes
<1>2. CASE Remove
  BY <1>2 DEF Remove
<1>3. ASSUME NEW f \in Edits, DebounceEnds(f) PROVE SendSet(e)
  BY <1>3 DEF TypeOK, DebounceEnds, Ask, Finish, Goes, Tasks
<1>4. ASSUME NEW f \in Edits, SendSet(f) PROVE SendSet(e)
  BY <1>4 DEF TypeOK, SendSet, Goes, Tasks
<1>5. ASSUME NEW f \in Edits, SetAnswered(f) PROVE SendSet(e)
  BY <1>5 DEF SetAnswered, Teardown, Goes
<1>6. ASSUME NEW f \in Edits, WriteCloses(f) PROVE SendSet(e)
  BY <1>6 DEF TypeOK, WriteCloses, Retry, Finish, Goes, Tasks
<1>7. ASSUME NEW f \in Edits, Unwind(f) PROVE SendSet(e)
  BY <1>7 DEF TypeOK, Unwind, Finish, Teardown, Goes, Tasks
<1>8. ASSUME NEW p \in Polls, ScheduledPoll(p) PROVE SendSet(e)
  BY <1>8 DEF TypeOK, ScheduledPoll, BeginPoll, Ask, Goes, Tasks
<1>9. ASSUME NEW p \in Polls, SettlePoll(p) PROVE SendSet(e)
  BY <1>9 DEF TypeOK, SettlePoll, BeginPoll, Ask, Goes, Tasks
<1>10. ASSUME NEW p \in Polls, PollReads(p) PROVE SendSet(e)
  BY <1>10 DEF PollReads, Teardown, Goes
<1>11. ASSUME NEW p \in Polls, PollCloses(p) PROVE SendSet(e)
  BY <1>11 DEF TypeOK, PollCloses, Retry, PollEnds, Goes, Tasks
<1>12. ASSUME NEW t \in Tasks, Connect(t) PROVE SendSet(e)
  BY <1>12 DEF Connect, Goes
<1>13. ASSUME NEW t \in Tasks, AttemptFails(t) PROVE SendSet(e)
  BY <1>13 DEF AttemptFails, Teardown, Goes
<1>14. CASE DeviceTakesSet
  BY <1>14 DEF DeviceTakesSet
<1>15. CASE DeviceApplies
  BY <1>15 DEF DeviceApplies, taskVars
<1>16. CASE SetLost
  BY <1>16 DEF SetLost, taskVars
<1> QED
  BY <1>1, <1>2, <1>3, <1>4, <1>5, <1>6, <1>7, <1>8, <1>9, <1>10, <1>11, <1>12, <1>13,
     <1>14, <1>15, <1>16
  DEF Next, WriteStep, PollStep

\* Rule 1 of climate.py's write path: only the newest edit is put on the air.
THEOREM OnlyNewestIsSentAlways == Spec => OnlyNewestIsSent
<1> DEFINE A == \A e \in Edits : place[e] # "sending" /\ place'[e] = "sending"
                                    => e = latest /\ ~removed
<1>1. WriteInv /\ [Next]_vars => [A]_vars
  <2> SUFFICES ASSUME WriteInv, Next, NEW e \in Edits,
                      place[e] # "sending", place'[e] = "sending"
               PROVE  e = latest /\ ~removed
    OBVIOUS
  <2>1. SendSet(e)
    BY StartsSending DEF WriteInv
  <2>2. Alive(e)
    BY <2>1 DEF SendSet, Runs, Alive
  <2> QED
    BY <2>2 DEF WriteInv, EditInv, Edits
<1> QED
  BY WriteInvHolds, <1>1, PTL DEF Spec, Safety, OnlyNewestIsSent

\* Neither the setpoint in force nor the one shown goes back to an older edit's.
THEOREM NothingGoesBackAlways == Spec => NothingGoesBack
<1>1. WriteInv /\ [Next]_vars => [setpoint' >= setpoint /\ data' >= data]_vars
  <2> SUFFICES ASSUME WriteInv, Next PROVE setpoint' >= setpoint /\ data' >= data
    OBVIOUS
  <2>1. CASE DeviceApplies
    BY <2>1 DEF WriteInv, TypeOK, OrderInv, DeviceApplies, coordVars
  <2>2. ASSUME NEW p \in Polls, PollCloses(p)
        PROVE  setpoint' >= setpoint /\ data' >= data
    BY <2>2 DEF WriteInv, TypeOK, OrderInv, PollCloses, deviceVars
  <2>3. CASE UNCHANGED <<setpoint, data>>
    BY <2>3 DEF WriteInv, TypeOK
  <2> QED
    BY <2>1, <2>2, <2>3
    DEF Next, WriteStep, PollStep, Edit, Remove, DebounceEnds, SendSet, SetAnswered,
        WriteCloses, Unwind, ScheduledPoll, BeginPoll, SettlePoll, PollReads, Connect,
        AttemptFails, DeviceTakesSet, SetLost, coordVars, deviceVars
<1> QED
  BY WriteInvHolds, <1>1, PTL DEF Spec, Safety, NothingGoesBack

\* The write path is a client of ConnectionSlot: it does nothing to the connection
\* that the gate, which implements the slot, does not provide for.
THEOREM WritesUseTheSlot == Spec => Slot!SlotSafety
<1>1. Init => Slot!SlotInit
  BY DEF Init
<1>2. [Next]_vars => [Slot!SlotNext]_(Slot!slotVars)
  BY SlotStepAllowed DEF vars, slotVars, Slot!slotVars
<1> QED
  BY <1>1, <1>2, PTL DEF Spec, Safety, Slot!SlotSafety
=============================================================================
