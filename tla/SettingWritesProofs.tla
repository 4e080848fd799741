------------------------ MODULE SettingWritesProofs ------------------------
(***************************************************************************)
(* What holds of the settings' write path for any number of edits, polls,  *)
(* attempts and reloads, any axes and any options.                         *)
(***************************************************************************)
EXTENDS SettingWrites, TLAPS

(* The inductive invariant. *)

\* The slot is asked for and held exactly where the tasks are suspended, and an
\* attempt that is over has an outcome.
Held == {"connected", "writing", "closing"}

SlotInv ==
    /\ \A t \in Tasks : t \in asking <=> place[t] = "asking"
    /\ \A t \in Tasks : t \in holding <=> place[t] \in Held
    /\ \A t, u \in holding : t = u
    /\ \A t \in Tasks : place[t] = "closing" => outcome[t] # "none"

\* An option is never stored under a name nobody has, and an axis is always known:
\* what an edit's SET carries, the menu's values aside, is one of the edits' values.
ValueInv ==
    /\ \A p \in Polls : /\ \A o \in Options : reading[p][o] # MenuValue
                        /\ \A a \in Axes : reading[p][a] # Unknown
    /\ \A a \in Axes : data[a] # Unknown
    /\ \A e \in Edits : \A s \in DOMAIN sets[e] : sets[e][s] \in Values \ {Unknown}

\* A SET is on its way only while its edit has the connection, and a coordinator
\* that is shut down counts only the polls that are still under way.
WireInv ==
    /\ \A e \in wire : place[e] \in {"writing", "closing"}
    /\ \A p \in Polls : p \in left => place[p] # "idle"

\* What a poll has read is what the device holds, until the poll gives up the
\* connection or the user edits in the menu.
ReadInv ==
    \A p \in Polls : place[p] = "closing" /\ outcome[p] = "ok" =>
        staged = {} /\ (menuEdits = 0 => reading[p] = Known(device))

\* Every edit made has succeeded, none was under way when the entry was reloaded,
\* and the coordinator has been refreshed since.
Undisturbed == AllWritten /\ left \cap Edits = {} /\ lastUpdateSuccess

\* A SET the device has yet to apply is followed by a settle poll.
StagedInv == Undisturbed /\ staged # {} => settleDue

\* The polls of the coordinator in service are over.
PollsOver == \A p \in Polls : place[p] = "idle" \/ p \in left

\* SettledDataIsCurrent, whatever the polls of an earlier coordinator do.
CurrentInv == Undisturbed /\ PollsOver /\ ~settleDue /\ menuEdits = 0 => data = Known(device)

SettingInv ==
    TypeOK /\ SlotInv /\ ValueInv /\ WireInv /\ ReadInv /\ StagedInv /\ CurrentInv

-----------------------------------------------------------------------------
(* Types. *)

\* TypeOK's conjuncts about the tasks, under a name.
TaskTypes ==
    /\ place \in [Tasks -> {"idle", "asking", "connected", "writing", "closing"}]
    /\ attempt \in [Tasks -> 0..MaxAttempts]
    /\ outcome \in [Tasks -> {"none", "ok", "failed"}]

\* A further attempt, or the end of the task for want of one.
LEMMA NextAttemptTypes ==
  ASSUME TypeOK, NEW t \in Tasks, NEW first \in Nat, NextAttempt(t, first)
  PROVE  TaskTypes'
  BY SettingBoundsAssumption DEF TypeOK, TaskTypes, NextAttempt, Ends

\* The tasks keep their types.
LEMMA TaskTypeStep == ASSUME TypeOK, Next PROVE TaskTypes'
<1>1. ASSUME NEW e \in Edits, Edit(e) PROVE TaskTypes'
  BY <1>1, NextAttemptTypes DEF Edit, Tasks
<1>2. ASSUME NEW e \in Edits, SendSet(e) PROVE TaskTypes'
  BY <1>2 DEF SendSet, TypeOK, TaskTypes
<1>3. ASSUME NEW e \in Edits, SetAnswered(e) PROVE TaskTypes'
  BY <1>3 DEF SetAnswered, Teardown, TypeOK, TaskTypes
<1>4. ASSUME NEW e \in Edits, EditCloses(e) PROVE TaskTypes'
  <2>1. e \in Tasks /\ attempt[e] + 1 \in Nat
    BY SettingBoundsAssumption DEF TypeOK, Tasks
  <2>2. CASE NextAttempt(e, attempt[e] + 1)
    BY <2>1, <2>2, NextAttemptTypes
  <2>3. CASE Finish(e)
    BY <2>1, <2>3, SettingBoundsAssumption DEF TypeOK, TaskTypes, Finish, Ends
  <2> QED
    BY <1>4, <2>2, <2>3 DEF EditCloses
<1>5. ASSUME NEW p \in Polls, ScheduledPoll(p) PROVE TaskTypes'
  BY <1>5, NextAttemptTypes DEF ScheduledPoll, BeginPoll, Tasks
<1>6. ASSUME NEW p \in Polls, SettlePoll(p) PROVE TaskTypes'
  BY <1>6, NextAttemptTypes DEF SettlePoll, BeginPoll, Tasks
<1>7. ASSUME NEW p \in Polls, PollReads(p) PROVE TaskTypes'
  BY <1>7 DEF PollReads, Teardown, TypeOK, TaskTypes
<1>8. ASSUME NEW p \in Polls, PollCloses(p) PROVE TaskTypes'
  <2>1. p \in Tasks /\ attempt[p] + 1 \in Nat
    BY SettingBoundsAssumption DEF TypeOK, Tasks
  <2>2. CASE NextAttempt(p, attempt[p] + 1)
    BY <2>1, <2>2, NextAttemptTypes
  <2>3. CASE Finish(p)
    BY <2>1, <2>3, SettingBoundsAssumption DEF TypeOK, TaskTypes, Finish, Ends
  <2> QED
    BY <1>8, <2>2, <2>3 DEF PollCloses
<1>9. ASSUME NEW t \in Tasks, Connect(t) PROVE TaskTypes'
  BY <1>9 DEF Connect, TypeOK, TaskTypes
<1>10. ASSUME NEW t \in Tasks, AttemptFails(t) PROVE TaskTypes'
  BY <1>10 DEF AttemptFails, Teardown, TypeOK, TaskTypes
<1>11. CASE Reload
  BY <1>11 DEF Reload, TypeOK, TaskTypes
<1>12. CASE DeviceTakesSet
  BY <1>12 DEF DeviceTakesSet, TypeOK, TaskTypes, taskVars
<1>13. CASE DeviceApplies
  BY <1>13 DEF DeviceApplies, TypeOK, TaskTypes, taskVars
<1>14. CASE MenuEdit
  BY <1>14 DEF MenuEdit, TypeOK, TaskTypes, taskVars
<1> QED
  BY <1>1, <1>2, <1>3, <1>4, <1>5, <1>6, <1>7, <1>8, <1>9, <1>10, <1>11, <1>12, <1>13,
     <1>14
  DEF Next

\* The tasks use the connection slot as ConnectionSlot has it.
LEMMA SlotStepAllowed == ASSUME Next PROVE [Slot!SlotNext]_slotVars
<1>1. ASSUME NEW e \in Edits, Edit(e) PROVE [Slot!SlotNext]_slotVars
  BY <1>1 DEF Edit, NextAttempt, Slot!SlotNext, Tasks
<1>2. ASSUME NEW e \in Edits, SendSet(e) PROVE [Slot!SlotNext]_slotVars
  BY <1>2 DEF SendSet
<1>3. ASSUME NEW e \in Edits, SetAnswered(e) PROVE [Slot!SlotNext]_slotVars
  BY <1>3 DEF SetAnswered, Teardown
<1>4. ASSUME NEW e \in Edits, EditCloses(e) PROVE [Slot!SlotNext]_slotVars
  BY <1>4 DEF EditCloses, NextAttempt, Finish, Slot!SlotNext, Tasks
<1>5. ASSUME NEW p \in Polls, ScheduledPoll(p) PROVE [Slot!SlotNext]_slotVars
  BY <1>5 DEF ScheduledPoll, BeginPoll, NextAttempt, Slot!SlotNext, Tasks
<1>6. ASSUME NEW p \in Polls, SettlePoll(p) PROVE [Slot!SlotNext]_slotVars
  BY <1>6 DEF SettlePoll, BeginPoll, NextAttempt, Slot!SlotNext, Tasks
<1>7. ASSUME NEW p \in Polls, PollReads(p) PROVE [Slot!SlotNext]_slotVars
  BY <1>7 DEF PollReads, Teardown
<1>8. ASSUME NEW p \in Polls, PollCloses(p) PROVE [Slot!SlotNext]_slotVars
  BY <1>8 DEF PollCloses, NextAttempt, Finish, Slot!SlotNext, Tasks
<1>9. ASSUME NEW t \in Tasks, Connect(t) PROVE [Slot!SlotNext]_slotVars
  BY <1>9 DEF Connect, Slot!SlotNext
<1>10. ASSUME NEW t \in Tasks, AttemptFails(t) PROVE [Slot!SlotNext]_slotVars
  BY <1>10 DEF AttemptFails, Teardown
<1>11. CASE Reload
  BY <1>11 DEF Reload
<1>12. CASE DeviceTakesSet
  BY <1>12 DEF DeviceTakesSet
<1>13. CASE DeviceApplies
  BY <1>13 DEF DeviceApplies
<1>14. CASE MenuEdit
  BY <1>14 DEF MenuEdit
<1> QED
  BY <1>1, <1>2, <1>3, <1>4, <1>5, <1>6, <1>7, <1>8, <1>9, <1>10, <1>11, <1>12, <1>13,
     <1>14
  DEF Next

\* Flags are flags, counters stay within their bounds, and sets hold tasks.
LEMMA FlagTypeStep ==
  ASSUME TypeOK, Next
  PROVE  /\ settleDue' \in BOOLEAN /\ lastUpdateSuccess' \in BOOLEAN
         /\ left' \subseteq Tasks /\ reloads' \in 0..MaxReloads
         /\ asking' \subseteq Tasks /\ holding' \subseteq Tasks
         /\ wire' \subseteq Edits /\ staged' \subseteq Edits
         /\ menuEdits' \in 0..MaxMenuEdits
<1> DEFINE Goal == /\ settleDue' \in BOOLEAN /\ lastUpdateSuccess' \in BOOLEAN
                   /\ left' \subseteq Tasks /\ reloads' \in 0..MaxReloads
                   /\ wire' \subseteq Edits /\ staged' \subseteq Edits
                   /\ menuEdits' \in 0..MaxMenuEdits
<1>15. asking' \subseteq Tasks /\ holding' \subseteq Tasks
  BY SlotStepAllowed
  DEF TypeOK, Slot!SlotNext, slotVars, Slot!Ask, Slot!Enter, Slot!Withdraw, Slot!Leave,
      Slot!LineUpAgain
<1>1. ASSUME NEW e \in Edits, Edit(e) PROVE Goal
  BY <1>1 DEF Edit, TypeOK, coordVars, deviceVars
<1>2. ASSUME NEW e \in Edits, SendSet(e) PROVE Goal
  BY <1>2 DEF SendSet, TypeOK, coordVars
<1>3. ASSUME NEW e \in Edits, SetAnswered(e) PROVE Goal
  BY <1>3 DEF SetAnswered, Teardown, TypeOK, coordVars, deviceVars
<1>4. ASSUME NEW e \in Edits, EditCloses(e) PROVE Goal
  BY <1>4 DEF EditCloses, TypeOK
<1>5. ASSUME NEW p \in Polls, ScheduledPoll(p) PROVE Goal
  BY <1>5 DEF ScheduledPoll, BeginPoll, TypeOK, deviceVars
<1>6. ASSUME NEW p \in Polls, SettlePoll(p) PROVE Goal
  BY <1>6 DEF SettlePoll, BeginPoll, TypeOK, deviceVars
<1>7. ASSUME NEW p \in Polls, PollReads(p) PROVE Goal
  BY <1>7 DEF PollReads, Teardown, TypeOK, deviceVars
<1>8. ASSUME NEW p \in Polls, PollCloses(p) PROVE Goal
  BY <1>8 DEF PollCloses, Refreshed, TypeOK, deviceVars
<1>9. ASSUME NEW t \in Tasks, Connect(t) PROVE Goal
  BY <1>9 DEF Connect, TypeOK, coordVars, deviceVars
<1>10. ASSUME NEW t \in Tasks, AttemptFails(t) PROVE Goal
  BY <1>10 DEF AttemptFails, Teardown, TypeOK, coordVars, deviceVars
<1>11. CASE Reload
  <2>1. reloads' \in 0..MaxReloads
    BY <1>11, SettingBoundsAssumption DEF TypeOK, Reload
  <2>2. left' \subseteq Tasks
    BY <1>11 DEF TypeOK, Reload
  <2>3. settleDue' \in BOOLEAN /\ lastUpdateSuccess' \in BOOLEAN
    BY <1>11 DEF Reload
  <2>4. wire' \subseteq Edits /\ staged' \subseteq Edits /\ menuEdits' \in 0..MaxMenuEdits
    BY <1>11 DEF TypeOK, Reload, deviceVars
  <2> QED
    BY <1>15, <2>1, <2>2, <2>3, <2>4
<1>12. CASE DeviceTakesSet
  BY <1>12 DEF DeviceTakesSet, TypeOK, taskVars, slotVars, coordVars
<1>13. CASE DeviceApplies
  BY <1>13 DEF DeviceApplies, TypeOK, taskVars, slotVars, coordVars
<1>14. CASE MenuEdit
  BY <1>14, SettingBoundsAssumption DEF MenuEdit, TypeOK, taskVars, slotVars, coordVars
<1> QED
  BY <1>1, <1>2, <1>3, <1>4, <1>5, <1>6, <1>7, <1>8, <1>9, <1>10, <1>11, <1>12, <1>13,
     <1>14, <1>15
  DEF Next

\* What the poll makes of the device's values has the values' type and a known name.
LEMMA KnownValues ==
  ASSUME NEW raw \in [Settings -> Values \ {Unknown}]
  PROVE  /\ Known(raw) \in [Settings -> Values]
         /\ \A o \in Options : Known(raw)[o] # MenuValue
         /\ \A a \in Axes : Known(raw)[a] # Unknown
  BY SettingBoundsAssumption, SettingsAssumption
  DEF Known, HasName, Settings, Values, Unknown

\* So do the values at first.
LEMMA FreshValues ==
  /\ Fresh \in [Settings -> Values \ {Unknown}]
  /\ \A o \in Options : Fresh[o] # MenuValue
  /\ \A a \in Axes : Fresh[a] # Unknown
  BY SettingBoundsAssumption DEF Fresh, Settings, Values, MenuValue, Unknown

\* TypeOK's conjuncts about values, and ValueInv.
ValueTypes ==
    /\ \A e \in Edits : DOMAIN sets[e] \subseteq Settings
    /\ reading \in [Polls -> [Settings -> Values]] /\ data \in [Settings -> Values]
    /\ \A o \in Options : data[o] # MenuValue
    /\ device \in [Settings -> Values \ {Unknown}]
    /\ ValueInv

\* The values of settings keep their types, from the edit to the data.
LEMMA ValueTypeStep == ASSUME TypeOK, ValueInv, Next PROVE ValueTypes'
<1>1. ASSUME NEW e \in Edits, Edit(e) PROVE ValueTypes'
  <2>1. e \in Values \ {Unknown} /\ e # MenuValue
    BY SettingBoundsAssumption DEF Edits, Values, Unknown, MenuValue
  <2>2. ASSUME NEW s \in Settings
        PROVE  /\ DOMAIN Carried(s, e) \subseteq Settings
               /\ \A a \in DOMAIN Carried(s, e) : Carried(s, e)[a] \in Values \ {Unknown}
    BY <2>1 DEF TypeOK, ValueInv, Carried, Settings
  <2>3. PICK s \in Settings : sets' = [sets EXCEPT ![e] = Carried(s, e)]
    BY <1>1 DEF Edit
  <2>4. \A f \in Edits : sets'[f] = sets[f] \/ (f = e /\ sets'[f] \in {sets[f], Carried(s, e)})
    BY <2>3
  <2>5. \A f \in Edits : /\ DOMAIN sets'[f] \subseteq Settings
                       /\ \A a \in DOMAIN sets'[f] : sets'[f][a] \in Values \ {Unknown}
    BY <2>2, <2>4 DEF TypeOK, ValueInv
  <2> QED
    BY <1>1, <2>5 DEF Edit, TypeOK, ValueInv, ValueTypes, coordVars, deviceVars
<1>2. ASSUME NEW e \in Edits, SendSet(e) PROVE ValueTypes'
  BY <1>2 DEF SendSet, TypeOK, ValueTypes, ValueInv, coordVars
<1>3. ASSUME NEW e \in Edits, SetAnswered(e) PROVE ValueTypes'
  BY <1>3 DEF SetAnswered, Teardown, TypeOK, ValueTypes, ValueInv, coordVars, deviceVars
<1>4. ASSUME NEW e \in Edits, EditCloses(e) PROVE ValueTypes'
  BY <1>4 DEF EditCloses, TypeOK, ValueTypes, ValueInv
<1>5. ASSUME NEW p \in Polls, ScheduledPoll(p) PROVE ValueTypes'
  BY <1>5 DEF ScheduledPoll, BeginPoll, TypeOK, ValueTypes, ValueInv, deviceVars
<1>6. ASSUME NEW p \in Polls, SettlePoll(p) PROVE ValueTypes'
  BY <1>6 DEF SettlePoll, BeginPoll, TypeOK, ValueTypes, ValueInv, deviceVars
<1>7. ASSUME NEW p \in Polls, PollReads(p) PROVE ValueTypes'
  <2>1. /\ Known(device) \in [Settings -> Values]
        /\ \A o \in Options : Known(device)[o] # MenuValue
        /\ \A a \in Axes : Known(device)[a] # Unknown
    BY KnownValues DEF TypeOK
  <2> QED
    BY <1>7, <2>1 DEF PollReads, Teardown, TypeOK, ValueInv, ValueTypes, deviceVars
<1>8. ASSUME NEW p \in Polls, PollCloses(p) PROVE ValueTypes'
  <2>1. /\ Fresh \in [Settings -> Values]
        /\ \A o \in Options : Fresh[o] # MenuValue
        /\ \A a \in Axes : Fresh[a] # Unknown
    BY FreshValues
  <2>2. reading' = [reading EXCEPT ![p] = Fresh] \/ reading' = reading
    BY <1>8 DEF PollCloses
  <2>3. data' = reading[p] \/ data' = data
    BY <1>8 DEF PollCloses
  <2>4. UNCHANGED <<sets, device>>
    BY <1>8 DEF PollCloses, deviceVars
  <2>5. reading' \in [Polls -> [Settings -> Values]]
    BY <2>1, <2>2 DEF TypeOK
  <2>6. \A q \in Polls : reading'[q] \in {reading[q], Fresh}
    BY <2>2 DEF TypeOK
  <2>7. \A q \in Polls : /\ \A o \in Options : reading'[q][o] # MenuValue
                       /\ \A a \in Axes : reading'[q][a] # Unknown
    BY <2>1, <2>6 DEF ValueInv
  <2>8. /\ data' \in [Settings -> Values]
        /\ \A o \in Options : data'[o] # MenuValue
        /\ \A a \in Axes : data'[a] # Unknown
    BY <2>3 DEF TypeOK, ValueInv
  <2> QED
    BY <2>4, <2>5, <2>7, <2>8 DEF TypeOK, ValueInv, ValueTypes
<1>9. ASSUME NEW t \in Tasks, Connect(t) PROVE ValueTypes'
  BY <1>9 DEF Connect, TypeOK, ValueTypes, ValueInv, coordVars, deviceVars
<1>10. ASSUME NEW t \in Tasks, AttemptFails(t) PROVE ValueTypes'
  BY <1>10
  DEF AttemptFails, Teardown, TypeOK, ValueTypes, ValueInv, coordVars, deviceVars
<1>11. CASE Reload
  BY <1>11 DEF Reload, TypeOK, ValueTypes, ValueInv, deviceVars
<1>12. CASE DeviceTakesSet
  BY <1>12 DEF DeviceTakesSet, TypeOK, ValueTypes, ValueInv, taskVars, coordVars
<1>13. CASE DeviceApplies
  <2>1. PICK e \in staged : Store(e)
    BY <1>13 DEF DeviceApplies
  <2>2. device' \in [Settings -> Values \ {Unknown}]
    BY <2>1 DEF Store, TypeOK, ValueInv
  <2> QED
    BY <1>13, <2>2 DEF DeviceApplies, TypeOK, ValueInv, ValueTypes, taskVars, coordVars
<1>14. CASE MenuEdit
  <2>1. MenuValue \in Values \ {Unknown}
    BY SettingBoundsAssumption DEF MenuValue, Values, Unknown
  <2>2. device' \in [Settings -> Values \ {Unknown}]
    BY <1>14, <2>1 DEF MenuEdit, TypeOK
  <2> QED
    BY <1>14, <2>2 DEF MenuEdit, TypeOK, ValueInv, ValueTypes, taskVars, coordVars
<1> QED
  BY <1>1, <1>2, <1>3, <1>4, <1>5, <1>6, <1>7, <1>8, <1>9, <1>10, <1>11, <1>12, <1>13,
     <1>14
  DEF Next

\* Every step keeps the types.
LEMMA TypeStep == ASSUME TypeOK, ValueInv, Next PROVE TypeOK' /\ ValueInv'
  BY TaskTypeStep, FlagTypeStep, ValueTypeStep DEF TypeOK, TaskTypes, ValueTypes

-----------------------------------------------------------------------------
(* The ends of an attempt. *)

\* t asks for the connection again ...
Retries(t) ==
    /\ place' = [place EXCEPT ![t] = "asking"]
    /\ outcome' = [outcome EXCEPT ![t] = "none"]
    /\ Slot!LineUpAgain(t)

\* ... or gives it back and is over.
GivesBack(t, result) ==
    /\ place' = [place EXCEPT ![t] = "idle"]
    /\ outcome' = [outcome EXCEPT ![t] = result]
    /\ Slot!Leave(t)

\* A closing edit tries again, or has succeeded or failed; only success is followed
\* by a settle poll.
LEMMA EditClosesEffect ==
  ASSUME TypeOK, SlotInv, NEW e \in Edits, EditCloses(e)
  PROVE  /\ place[e] = "closing" /\ wire' = {}
         /\ UNCHANGED <<sets, left, reading, data, lastUpdateSuccess, reloads, staged,
                         device, menuEdits>>
         /\ \/ Retries(e) /\ UNCHANGED settleDue
            \/ GivesBack(e, "failed") /\ UNCHANGED settleDue
            \/ GivesBack(e, "ok") /\ outcome[e] = "ok" /\ settleDue' = (settleDue \/ e \notin left)
<1>1. e \in Tasks /\ e \in holding
  BY DEF EditCloses, SlotInv, Held, Tasks
<1>2. CASE NextAttempt(e, attempt[e] + 1) /\ UNCHANGED settleDue
  BY <1>1, <1>2 DEF EditCloses, NextAttempt, Ends, Retries, GivesBack
<1>3. CASE Finish(e) /\ settleDue' = (settleDue \/ PollsAfter(e))
  <2>1. outcome[e] = "ok" \/ outcome[e] = "failed"
    BY <1>1 DEF EditCloses, TypeOK, SlotInv
  <2>2. GivesBack(e, outcome[e])
    BY <1>1, <1>3 DEF Finish, Ends, GivesBack
  <2>3. outcome[e] = "failed" => settleDue' = settleDue
    BY <1>3 DEF PollsAfter, TypeOK
  <2>4. outcome[e] = "ok" => settleDue' = (settleDue \/ e \notin left)
    BY <1>3 DEF PollsAfter, TypeOK
  <2> QED
    BY <2>1, <2>2, <2>3, <2>4 DEF EditCloses
<1> QED
  BY <1>2, <1>3 DEF EditCloses

\* A closing poll tries again; or it is over, and then the coordinator in service,
\* and no other, gets what was read and whether it was.
LEMMA PollClosesEffect ==
  ASSUME TypeOK, SlotInv, NEW p \in Polls, PollCloses(p)
  PROVE  /\ place[p] = "closing"
         /\ UNCHANGED <<sets, settleDue, reloads, deviceVars>>
         /\ \/ Retries(p) /\ UNCHANGED <<left, reading, data, lastUpdateSuccess>>
            \/ /\ GivesBack(p, "none")
               /\ left' = left \ {p}
               /\ reading' = reading \/ reading' = [reading EXCEPT ![p] = Fresh]
               /\ \/ p \in left /\ UNCHANGED <<data, lastUpdateSuccess>>
                  \/ p \notin left /\ UNCHANGED data /\ ~lastUpdateSuccess'
                  \/ p \notin left /\ outcome[p] = "ok" /\ data' = reading[p] /\ lastUpdateSuccess'
<1>1. p \in Tasks /\ p \in holding /\ p \notin Edits
  BY PollsAssumption DEF PollCloses, SlotInv, Held, Tasks
<1>2. place[p] = "closing" /\ UNCHANGED <<sets, settleDue, reloads, deviceVars>>
  BY DEF PollCloses
<1>3. CASE /\ NextAttempt(p, attempt[p] + 1)
           /\ IF place'[p] = "asking" THEN UNCHANGED lastUpdateSuccess ELSE Refreshed(p, FALSE)
           /\ UNCHANGED <<reading, data>>
  <2>1. CASE Retries(p)
    <3>1. place'[p] = "asking"
      BY <1>1, <2>1 DEF TypeOK, Retries
    <3> QED
      BY <1>2, <1>3, <2>1, <3>1 DEF PollCloses
  <2>2. CASE GivesBack(p, "none")
    <3>1. place'[p] = "idle"
      BY <1>1, <2>2 DEF TypeOK, GivesBack
    <3> QED
      BY <1>2, <1>3, <2>2, <3>1 DEF PollCloses, Refreshed, TypeOK
  <2> QED
    BY <1>1, <1>3, <2>1, <2>2 DEF NextAttempt, Ends, Retries, GivesBack
<1>4. CASE /\ Finish(p)
           /\ data' = IF outcome[p] = "ok" /\ p \notin left THEN reading[p] ELSE data
           /\ Refreshed(p, outcome[p] = "ok")
           /\ reading' = [reading EXCEPT ![p] = Fresh]
  <2>1. GivesBack(p, "none")
    BY <1>1, <1>4 DEF Finish, Ends, GivesBack
  <2>2. place'[p] = "idle"
    BY <1>1, <2>1 DEF TypeOK, GivesBack
  <2>3. left' = left \ {p}
    BY <2>2 DEF PollCloses
  <2>4. CASE outcome[p] = "ok"
    BY <1>2, <1>4, <2>1, <2>3, <2>4 DEF Refreshed
  <2>5. CASE outcome[p] # "ok"
    BY <1>2, <1>4, <2>1, <2>3, <2>5 DEF Refreshed
  <2> QED
    BY <2>4, <2>5
<1> QED
  BY <1>3, <1>4 DEF PollCloses

-----------------------------------------------------------------------------
(* The conjuncts of the invariant. *)

\* The slot and the tasks' places go together.
LEMMA SlotStep == ASSUME TypeOK, SlotInv, Next PROVE SlotInv'
<1>1. ASSUME NEW e \in Edits, Edit(e) PROVE SlotInv'
  BY <1>1 DEF Edit, NextAttempt, Ends, TypeOK, SlotInv, Held, Slot!Ask, slotVars
<1>2. ASSUME NEW e \in Edits, SendSet(e) PROVE SlotInv'
  BY <1>2 DEF SendSet, Handshaken, SlotInv, Held, slotVars
<1>3. ASSUME NEW e \in Edits, SetAnswered(e) PROVE SlotInv'
  BY <1>3 DEF SetAnswered, Teardown, TypeOK, SlotInv, Held, slotVars
<1>4. ASSUME NEW e \in Edits, EditCloses(e) PROVE SlotInv'
  BY <1>4, EditClosesEffect
  DEF Retries, GivesBack, TypeOK, SlotInv, Held, Tasks, Slot!Leave, Slot!LineUpAgain
<1>5. ASSUME NEW p \in Polls, ScheduledPoll(p) PROVE SlotInv'
  BY <1>5
  DEF ScheduledPoll, BeginPoll, NextAttempt, Ends, TypeOK, SlotInv, Held, Slot!Ask,
      slotVars
<1>6. ASSUME NEW p \in Polls, SettlePoll(p) PROVE SlotInv'
  BY <1>6
  DEF SettlePoll, BeginPoll, NextAttempt, Ends, TypeOK, SlotInv, Held, Tasks, Slot!Ask,
      slotVars
<1>7. ASSUME NEW p \in Polls, PollReads(p) PROVE SlotInv'
  BY <1>7 DEF PollReads, Handshaken, Teardown, TypeOK, SlotInv, Held, slotVars
<1>8. ASSUME NEW p \in Polls, PollCloses(p) PROVE SlotInv'
  BY <1>8, PollClosesEffect
  DEF Retries, GivesBack, TypeOK, SlotInv, Held, Slot!Leave, Slot!LineUpAgain
<1>9. ASSUME NEW t \in Tasks, Connect(t) PROVE SlotInv'
  BY <1>9 DEF Connect, TypeOK, SlotInv, Held, Slot!Enter
<1>10. ASSUME NEW t \in Tasks, AttemptFails(t) PROVE SlotInv'
  BY <1>10 DEF AttemptFails, Teardown, TypeOK, SlotInv, Held, slotVars
<1>11. CASE Reload
  BY <1>11 DEF Reload, SlotInv, slotVars
<1>12. CASE DeviceTakesSet
  BY <1>12 DEF DeviceTakesSet, SlotInv, taskVars, slotVars
<1>13. CASE DeviceApplies
  BY <1>13 DEF DeviceApplies, SlotInv, taskVars, slotVars
<1>14. CASE MenuEdit
  BY <1>14 DEF MenuEdit, SlotInv, taskVars, slotVars
<1> QED
  BY <1>1, <1>2, <1>3, <1>4, <1>5, <1>6, <1>7, <1>8, <1>9, <1>10, <1>11, <1>12, <1>13,
     <1>14
  DEF Next

\* The SET goes with the connection.
LEMMA WireStep == ASSUME TypeOK, SlotInv, WireInv, Next PROVE WireInv'
<1>1. ASSUME NEW e \in Edits, Edit(e) PROVE WireInv'
  BY <1>1 DEF Edit, NextAttempt, Ends, TypeOK, WireInv, Tasks, deviceVars
<1>2. ASSUME NEW e \in Edits, SendSet(e) PROVE WireInv'
  BY <1>2 DEF SendSet, TypeOK, WireInv, Tasks
<1>3. ASSUME NEW e \in Edits, SetAnswered(e) PROVE WireInv'
  BY <1>3 DEF SetAnswered, Teardown, WireInv, deviceVars
<1>4. ASSUME NEW e \in Edits, EditCloses(e) PROVE WireInv'
  BY <1>4, EditClosesEffect, PollsAssumption DEF Retries, GivesBack, TypeOK, WireInv
<1>5. ASSUME NEW p \in Polls, ScheduledPoll(p) PROVE WireInv'
  BY <1>5
  DEF ScheduledPoll, BeginPoll, NextAttempt, Ends, TypeOK, WireInv, Tasks, deviceVars
<1>6. ASSUME NEW p \in Polls, SettlePoll(p) PROVE WireInv'
  BY <1>6
  DEF SettlePoll, BeginPoll, NextAttempt, Ends, TypeOK, WireInv, Tasks, deviceVars
<1>7. ASSUME NEW p \in Polls, PollReads(p) PROVE WireInv'
  BY <1>7 DEF PollReads, Teardown, WireInv, deviceVars
<1>8. ASSUME NEW p \in Polls, PollCloses(p) PROVE WireInv'
  BY <1>8, PollClosesEffect, PollsAssumption
  DEF Retries, GivesBack, TypeOK, WireInv, Tasks, deviceVars
<1>9. ASSUME NEW t \in Tasks, Connect(t) PROVE WireInv'
  BY <1>9 DEF Connect, WireInv, deviceVars
<1>10. ASSUME NEW t \in Tasks, AttemptFails(t) PROVE WireInv'
  BY <1>10 DEF AttemptFails, Teardown, WireInv, deviceVars
<1>11. CASE Reload
  BY <1>11 DEF Reload, WireInv, deviceVars
<1>12. CASE DeviceTakesSet
  BY <1>12 DEF DeviceTakesSet, WireInv, taskVars
<1>13. CASE DeviceApplies
  BY <1>13 DEF DeviceApplies, WireInv, taskVars
<1>14. CASE MenuEdit
  BY <1>14 DEF MenuEdit, WireInv, taskVars
<1> QED
  BY <1>1, <1>2, <1>3, <1>4, <1>5, <1>6, <1>7, <1>8, <1>9, <1>10, <1>11, <1>12, <1>13,
     <1>14
  DEF Next

\* Nothing happens to the device between a poll's reading and its end.
LEMMA ReadStep == ASSUME TypeOK, SlotInv, WireInv, ReadInv, Next PROVE ReadInv'
<1>1. ASSUME NEW e \in Edits, Edit(e) PROVE ReadInv'
  BY <1>1 DEF Edit, NextAttempt, Ends, TypeOK, ReadInv, Tasks, coordVars, deviceVars
<1>2. ASSUME NEW e \in Edits, SendSet(e) PROVE ReadInv'
  BY <1>2 DEF SendSet, Handshaken, SlotInv, ReadInv, Held, Tasks
<1>3. ASSUME NEW e \in Edits, SetAnswered(e) PROVE ReadInv'
  BY <1>3, PollsAssumption DEF SetAnswered, Teardown, SlotInv, ReadInv, Held, Tasks
<1>4. ASSUME NEW e \in Edits, EditCloses(e) PROVE ReadInv'
  BY <1>4, EditClosesEffect DEF Retries, GivesBack, TypeOK, ReadInv, Tasks
<1>5. ASSUME NEW p \in Polls, ScheduledPoll(p) PROVE ReadInv'
  BY <1>5
  DEF ScheduledPoll, BeginPoll, NextAttempt, Ends, TypeOK, ReadInv, Tasks, deviceVars
<1>6. ASSUME NEW p \in Polls, SettlePoll(p) PROVE ReadInv'
  BY <1>6
  DEF SettlePoll, BeginPoll, NextAttempt, Ends, TypeOK, ReadInv, Tasks, deviceVars
<1>7. ASSUME NEW p \in Polls, PollReads(p) PROVE ReadInv'
  BY <1>7 DEF PollReads, Handshaken, Teardown, TypeOK, ReadInv, deviceVars
<1>8. ASSUME NEW p \in Polls, PollCloses(p) PROVE ReadInv'
  BY <1>8, PollClosesEffect
  DEF Retries, GivesBack, TypeOK, SlotInv, ReadInv, Held, Tasks
<1>9. ASSUME NEW t \in Tasks, Connect(t) PROVE ReadInv'
  BY <1>9 DEF Connect, ReadInv, coordVars, deviceVars
<1>10. ASSUME NEW t \in Tasks, AttemptFails(t) PROVE ReadInv'
  BY <1>10 DEF AttemptFails, Teardown, TypeOK, SlotInv, ReadInv, Held, Tasks
<1>11. CASE Reload
  BY <1>11 DEF Reload, ReadInv, deviceVars
<1>12. CASE DeviceTakesSet
  BY <1>12, PollsAssumption
  DEF DeviceTakesSet, TypeOK, SlotInv, WireInv, ReadInv, Held, Tasks, taskVars
<1>13. CASE DeviceApplies
  BY <1>13 DEF DeviceApplies, ReadInv, taskVars
<1>14. CASE MenuEdit
  BY <1>14 DEF MenuEdit, TypeOK, ReadInv, taskVars
<1> QED
  BY <1>1, <1>2, <1>3, <1>4, <1>5, <1>6, <1>7, <1>8, <1>9, <1>10, <1>11, <1>12, <1>13,
     <1>14
  DEF Next

\* The settle poll waits for what the device has yet to apply.
LEMMA StagedStep == ASSUME SettingInv, Next PROVE StagedInv'
<1>1. ASSUME NEW e \in Edits, Edit(e) PROVE StagedInv'
  BY <1>1
  DEF Edit, NextAttempt, Ends, SettingInv, TypeOK, StagedInv, Undisturbed, AllWritten,
      Tasks
<1>2. ASSUME NEW e \in Edits, SendSet(e) PROVE StagedInv'
  BY <1>2 DEF SendSet, Handshaken, StagedInv
<1>3. ASSUME NEW e \in Edits, SetAnswered(e) PROVE StagedInv'
  BY <1>3 DEF SetAnswered, Teardown, StagedInv, Undisturbed, AllWritten
<1>4. ASSUME NEW e \in Edits, EditCloses(e) PROVE StagedInv'
  BY <1>4, EditClosesEffect
  DEF Retries, GivesBack, SettingInv, TypeOK, StagedInv, Undisturbed, AllWritten, Tasks
<1>5. ASSUME NEW p \in Polls, ScheduledPoll(p) PROVE StagedInv'
  BY <1>5
  DEF ScheduledPoll, BeginPoll, NextAttempt, Ends, SettingInv, TypeOK, StagedInv,
      Undisturbed, AllWritten, Tasks, deviceVars
<1>6. ASSUME NEW p \in Polls, SettlePoll(p) PROVE StagedInv'
  BY <1>6 DEF SettlePoll, BeginPoll, StagedInv, deviceVars
<1>7. ASSUME NEW p \in Polls, PollReads(p) PROVE StagedInv'
  BY <1>7 DEF PollReads, Handshaken, StagedInv, deviceVars
<1>8. ASSUME NEW p \in Polls, PollCloses(p) PROVE StagedInv'
  <2>1. UNCHANGED <<staged, settleDue>>
    BY <1>8, PollClosesEffect DEF SettingInv, deviceVars
  <2>2. AllWritten' => AllWritten
    BY <1>8, PollClosesEffect, PollsAssumption
    DEF SettingInv, TypeOK, AllWritten, Retries, GivesBack, Tasks
  <2>3. left' \cap Edits = {} => left \cap Edits = {}
    BY <1>8, PollClosesEffect, PollsAssumption DEF SettingInv
  <2>4. CASE lastUpdateSuccess' => lastUpdateSuccess
    BY <2>1, <2>2, <2>3, <2>4 DEF SettingInv, StagedInv, Undisturbed
  <2>5. CASE outcome[p] = "ok"
    <3>1. staged = {}
      BY <1>8, <2>5, PollClosesEffect DEF SettingInv, ReadInv
    <3> QED
      BY <2>1, <3>1 DEF StagedInv
  <2> QED
    BY <1>8, <2>4, <2>5, PollClosesEffect DEF SettingInv
<1>9. ASSUME NEW t \in Tasks, Connect(t) PROVE StagedInv'
  BY <1>9
  DEF Connect, SettingInv, StagedInv, Undisturbed, AllWritten, coordVars, deviceVars
<1>10. ASSUME NEW t \in Tasks, AttemptFails(t) PROVE StagedInv'
  BY <1>10
  DEF AttemptFails, Teardown, SettingInv, StagedInv, Undisturbed, AllWritten, coordVars,
      deviceVars
<1>11. CASE Reload
  BY <1>11 DEF Reload, StagedInv, Undisturbed
<1>12. CASE DeviceTakesSet
  BY <1>12
  DEF DeviceTakesSet, SettingInv, TypeOK, WireInv, StagedInv, Undisturbed, AllWritten,
      taskVars
<1>13. CASE DeviceApplies
  BY <1>13 DEF DeviceApplies, StagedInv
<1>14. CASE MenuEdit
  BY <1>14
  DEF MenuEdit, SettingInv, StagedInv, Undisturbed, AllWritten, taskVars, coordVars
<1> QED
  BY <1>1, <1>2, <1>3, <1>4, <1>5, <1>6, <1>7, <1>8, <1>9, <1>10, <1>11, <1>12, <1>13,
     <1>14
  DEF Next

\* The last poll's reading is what the device holds.
LEMMA CurrentStep == ASSUME SettingInv, Next PROVE CurrentInv'
<1>1. ASSUME NEW e \in Edits, Edit(e) PROVE CurrentInv'
  BY <1>1
  DEF Edit, NextAttempt, Ends, SettingInv, TypeOK, CurrentInv, Undisturbed, AllWritten,
      Tasks
<1>2. ASSUME NEW e \in Edits, SendSet(e) PROVE CurrentInv'
  BY <1>2 DEF SendSet, Handshaken, CurrentInv, Undisturbed, AllWritten
<1>3. ASSUME NEW e \in Edits, SetAnswered(e) PROVE CurrentInv'
  BY <1>3 DEF SetAnswered, Teardown, CurrentInv, Undisturbed, AllWritten
<1>4. ASSUME NEW e \in Edits, EditCloses(e) PROVE CurrentInv'
  BY <1>4, EditClosesEffect
  DEF Retries, GivesBack, SettingInv, TypeOK, CurrentInv, Undisturbed, AllWritten, Tasks
<1>5. ASSUME NEW p \in Polls, ScheduledPoll(p) PROVE CurrentInv'
  BY <1>5
  DEF ScheduledPoll, BeginPoll, SettingInv, WireInv, CurrentInv, Undisturbed, PollsOver
<1>6. ASSUME NEW p \in Polls, SettlePoll(p) PROVE CurrentInv'
  BY <1>6
  DEF SettlePoll, BeginPoll, SettingInv, WireInv, CurrentInv, Undisturbed, PollsOver
<1>7. ASSUME NEW p \in Polls, PollReads(p) PROVE CurrentInv'
  BY <1>7, PollsAssumption
  DEF PollReads, Teardown, SettingInv, CurrentInv, Undisturbed, PollsOver, AllWritten,
      deviceVars
<1>8. ASSUME NEW p \in Polls, PollCloses(p) PROVE CurrentInv'
  <2>1. UNCHANGED <<settleDue, device, menuEdits>>
    BY <1>8, PollClosesEffect DEF SettingInv, deviceVars
  <2>2. AllWritten' => AllWritten
    BY <1>8, PollClosesEffect, PollsAssumption
    DEF SettingInv, TypeOK, AllWritten, Retries, GivesBack, Tasks
  <2>3. left' \cap Edits = {} => left \cap Edits = {}
    BY <1>8, PollClosesEffect, PollsAssumption DEF SettingInv
  <2>4. Known(device)' = Known(device)
    BY <2>1 DEF Known
  <2>5. CASE Retries(p) /\ UNCHANGED <<left, reading, data, lastUpdateSuccess>>
    <3>1. PollsOver' => PollsOver
      BY <1>8, <2>5 DEF PollsOver, Retries
    <3> QED
      BY <2>1, <2>2, <2>4, <2>5, <3>1 DEF SettingInv, CurrentInv, Undisturbed
  <2>6. CASE /\ GivesBack(p, "none") /\ left' = left \ {p} /\ p \in left
             /\ UNCHANGED <<data, lastUpdateSuccess>>
    <3>1. PollsOver' => PollsOver
      BY <2>6 DEF PollsOver, GivesBack
    <3> QED
      BY <2>1, <2>2, <2>3, <2>4, <2>6, <3>1 DEF SettingInv, CurrentInv, Undisturbed
  <2>7. CASE ~lastUpdateSuccess'
    BY <2>7 DEF CurrentInv, Undisturbed
  <2>8. CASE outcome[p] = "ok" /\ data' = reading[p]
    BY <1>8, <2>1, <2>4, <2>8, PollClosesEffect DEF SettingInv, ReadInv, CurrentInv
  <2> QED
    BY <1>8, <2>5, <2>6, <2>7, <2>8, PollClosesEffect DEF SettingInv
<1>9. ASSUME NEW t \in Tasks, Connect(t) PROVE CurrentInv'
  BY <1>9
  DEF Connect, SettingInv, CurrentInv, Undisturbed, PollsOver, AllWritten, coordVars,
      deviceVars
<1>10. ASSUME NEW t \in Tasks, AttemptFails(t) PROVE CurrentInv'
  BY <1>10
  DEF AttemptFails, Teardown, SettingInv, CurrentInv, Undisturbed, PollsOver,
      AllWritten, coordVars, deviceVars
<1>11. CASE Reload
  BY <1>11 DEF Reload, CurrentInv, Undisturbed
<1>12. CASE DeviceTakesSet
  BY <1>12
  DEF DeviceTakesSet, SettingInv, TypeOK, WireInv, CurrentInv, Undisturbed, AllWritten,
      taskVars
<1>13. CASE DeviceApplies
  BY <1>13
  DEF DeviceApplies, SettingInv, StagedInv, CurrentInv, Undisturbed, AllWritten,
      taskVars, coordVars
<1>14. CASE MenuEdit
  BY <1>14 DEF MenuEdit, SettingInv, TypeOK, CurrentInv
<1> QED
  BY <1>1, <1>2, <1>3, <1>4, <1>5, <1>6, <1>7, <1>8, <1>9, <1>10, <1>11, <1>12, <1>13,
     <1>14
  DEF Next

\* Every step keeps the invariant.
LEMMA SettingInvStep == SettingInv /\ [Next]_vars => SettingInv'
<1>1. ASSUME SettingInv, Next PROVE SettingInv'
  BY <1>1, TypeStep, SlotStep, WireStep, ReadStep, StagedStep, CurrentStep
  DEF SettingInv
<1>2. ASSUME SettingInv, UNCHANGED vars PROVE SettingInv'
  BY <1>2
  DEF SettingInv, TypeOK, SlotInv, ValueInv, WireInv, ReadInv, StagedInv, CurrentInv,
      Undisturbed, PollsOver, AllWritten, vars, taskVars, slotVars, coordVars,
      deviceVars
<1> QED
  BY <1>1, <1>2

\* It holds at first: every setting has the value 0, which is shown.
LEMMA InitSettingInv == Init => SettingInv
<1> SUFFICES ASSUME Init PROVE SettingInv
  OBVIOUS
<1>1. 0 \in Values \ {Unknown} /\ 0 # MenuValue /\ 0 \in 0..MaxAttempts
  BY SettingBoundsAssumption DEF Values, Unknown, MenuValue
<1>2. TypeOK /\ ValueInv
  <2>1. \A e \in Edits : DOMAIN sets[e] = {}
    BY DEF Init
  <2>2. /\ place \in [Tasks -> {"idle", "asking", "connected", "writing", "closing"}]
        /\ attempt \in [Tasks -> 0..MaxAttempts]
        /\ outcome \in [Tasks -> {"none", "ok", "failed"}]
    BY <1>1 DEF Init
  <2>3. /\ left = {} /\ reloads \in 0..MaxReloads /\ menuEdits \in 0..MaxMenuEdits
        /\ asking = {} /\ holding = {} /\ wire = {} /\ staged = {}
    BY SettingBoundsAssumption DEF Init, Slot!SlotInit
  <2>4. /\ reading \in [Polls -> [Settings -> Values]] /\ data \in [Settings -> Values]
        /\ device \in [Settings -> Values \ {Unknown}]
        /\ \A o \in Options : data[o] # MenuValue
        /\ \A a \in Axes : data[a] # Unknown
        /\ \A p \in Polls : reading[p] = data
    BY FreshValues DEF Init
  <2>5. ValueInv
    BY <2>1, <2>4 DEF ValueInv
  <2> QED
    BY <2>1, <2>2, <2>3, <2>4, <2>5 DEF Init, TypeOK
<1>3. SlotInv /\ WireInv /\ ReadInv /\ StagedInv
  BY DEF Init, SlotInv, WireInv, ReadInv, StagedInv, Slot!SlotInit, Held, Tasks
<1>4. data = Known(device)
  BY <1>1 DEF Init, Fresh, Known, HasName
<1> QED
  BY <1>2, <1>3, <1>4 DEF SettingInv, CurrentInv

\* SettingInv is an invariant of the write path.
THEOREM SettingInvHolds == Spec => []SettingInv
  BY InitSettingInv, SettingInvStep, PTL DEF Spec

-----------------------------------------------------------------------------
(* The theorems. *)

\* Every variable keeps its type, and no option is stored under a name nobody has.
THEOREM SettingTypeOK == Spec => []TypeOK
<1>1. SettingInv => TypeOK
  BY DEF SettingInv
<1> QED
  BY SettingInvHolds, <1>1, PTL

\* One settle poll is enough for any number of writes and polls that overlap: once
\* every edit has succeeded and no poll is due or under way, coordinator.data is what
\* the device holds.
THEOREM SettledDataStaysCurrent == Spec => []SettledDataIsCurrent
<1>1. SettingInv => SettledDataIsCurrent
  BY DEF SettingInv, CurrentInv, SettledDataIsCurrent, Undisturbed, PollsOver
<1> QED
  BY SettingInvHolds, <1>1, PTL

\* The settings' writes and polls are clients of ConnectionSlot, as the setpoint's
\* are: they do nothing to the connection that the gate does not provide for.
THEOREM SettingsUseTheSlot == Spec => Slot!SlotSafety
<1>1. Init => Slot!SlotInit
  BY DEF Init
<1>2. [Next]_vars => [Slot!SlotNext]_(Slot!slotVars)
  BY SlotStepAllowed DEF vars, slotVars, Slot!slotVars
<1> QED
  BY <1>1, <1>2, PTL DEF Spec, Slot!SlotSafety
=============================================================================
