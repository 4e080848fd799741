------------------------- MODULE ToolSessionProofs -------------------------
(***************************************************************************)
(* What an attended session can rely on, for any number of tools that are   *)
(* started and of settings that are changed at the thermostat meanwhile.   *)
(***************************************************************************)
EXTENDS ToolSession, SequenceTheorems, TLAPS

-----------------------------------------------------------------------------
(* The settings and their places.                                          *)

Place(s) == CHOOSE i \in DOMAIN Reads : Reads[i] = s

\* Each setting has one place in the snapshot, and is restored once.
LEMMA Places ==
  /\ Len(Reads) = 8 /\ DOMAIN Reads = 1..8
  /\ \A i \in 1..8 : Reads[i] \in Settings /\ Place(Reads[i]) = i
  /\ \A s \in Settings : Place(s) \in 1..8 /\ Reads[Place(s)] = s
<1>1. Len(Reads) = 8 /\ DOMAIN Reads = 1..8
  BY DEF Reads
<1>2. \A i, j \in 1..8 : Reads[i] = Reads[j] => i = j
  BY DEF Reads
<1>3. \A i \in 1..8 : Place(Reads[i]) = i
  BY <1>1, <1>2 DEF Place
<1>4. Settings = {Reads[i] : i \in 1..8}
  BY <1>1 DEF Settings
<1> QED
  BY <1>1, <1>3, <1>4

\* The settings by name.
LEMMA SettingNames ==
  Settings = {"power", "manual", "program", "home", "calibration", "keyLock", "language",
              "screensaver"}
<1>1. Settings = {Reads[i] : i \in 1..8}
  BY Places DEF Settings
<1>2. /\ Reads[1] = "power" /\ Reads[2] = "manual" /\ Reads[3] = "program"
      /\ Reads[4] = "home" /\ Reads[5] = "calibration" /\ Reads[6] = "keyLock"
      /\ Reads[7] = "language" /\ Reads[8] = "screensaver"
  BY DEF Reads
<1>3. 1..8 = {1, 2, 3, 4, 5, 6, 7, 8}
  OBVIOUS
<1> QED
  BY <1>1, <1>2, <1>3

\* restore writes every setting, power first, and the manual temperature once, early.
LEMMA RestoreOrder ==
  /\ Len(RestoreWrites) = 8 /\ Len(TestWrites) = 10
  /\ \A i \in 1..8 : RestoreWrites[i] \in Settings
  /\ \A s \in Settings : \E i \in 1..8 : RestoreWrites[i] = s
  /\ RestoreWrites[1] = "power" /\ RestoreWrites[2] = "manual"
  /\ \A i \in 3..8 : RestoreWrites[i] # "manual"
<1>1. Len(RestoreWrites) = 8 /\ Len(TestWrites) = 10
  BY DEF RestoreWrites, TestWrites
<1>2. /\ RestoreWrites[1] = "power" /\ RestoreWrites[2] = "manual"
      /\ RestoreWrites[3] = "program" /\ RestoreWrites[4] = "home"
      /\ RestoreWrites[5] = "calibration" /\ RestoreWrites[6] = "keyLock"
      /\ RestoreWrites[7] = "language" /\ RestoreWrites[8] = "screensaver"
  BY DEF RestoreWrites
<1>3. 1..8 = {1, 2, 3, 4, 5, 6, 7, 8} /\ 3..8 = {3, 4, 5, 6, 7, 8}
  OBVIOUS
<1> QED
  BY <1>1, <1>2, <1>3, SettingNames

\* Every test writes a value its setting can have.
LEMMA TestValues ==
  \A i \in 1..10 : /\ TestWrites[i][1] \in Settings
                   /\ TestWrites[i][2] \in Values(TestWrites[i][1])
<1>1. 1..10 = {1, 2, 3, 4, 5, 6, 7, 8, 9, 10}
  OBVIOUS
<1> QED
  BY <1>1, SettingNames DEF TestWrites, Values

AnyValue == {"on", "off", "MANUAL", "HOME", "locked", "unlocked", "first", "test", "menu"}

\* Each setting's values are among those of all.
LEMMA ValuesAreValues == \A s \in Settings : Values(s) \subseteq AnyValue
  BY SettingNames DEF Values, AnyValue

-----------------------------------------------------------------------------
(* The inductive invariant.                                                *)

DeviceOK ==
    /\ device \in [Settings -> AnyValue]
    /\ \A s \in Settings : device[s] \in Values(s)

SnapshotOK ==
    /\ snapshot \in Seq(AnyValue) /\ Len(snapshot) \in {0, Len(Reads)}
    /\ snapshot # <<>> => \A s \in Settings : Snapped(s) \in Values(s)

\* How far the tool has come.
ProgressOK ==
    /\ tool \in {"none", "snapshot", "tests", "restore", "verify"}
    /\ step \in 0..Len(TestWrites)
    /\ seen \in Seq(AnyValue) /\ Len(seen) \in {0, step}
    /\ \A i \in 1..Len(seen) : seen[i] \in Values(Reads[i])
    /\ tool \in {"snapshot", "verify"} => step <= Len(Reads) /\ Len(seen) = step
    /\ tool \notin {"snapshot", "verify"} => seen = <<>>
    /\ tool = "restore" => step <= Len(RestoreWrites)
    /\ tool \in {"tests", "restore", "verify"} => snapshot # <<>>

OtherOK ==
    /\ verdict \in {"none", "verified", "mismatch"}
    /\ runs \in 0..MaxRuns /\ menuEdits \in 0..MaxMenuEdits
    /\ touched \subseteq Settings /\ startedIn \in Values("program")

\* TypeOK, with how far each tool comes.
ToolTypes == DeviceOK /\ SnapshotOK /\ ProgressOK /\ OtherOK

\* What a restore has written is there, but for the manual setpoint it wrote while the
\* Home program was active.
MayStick == startedIn = "HOME" \/ "program" \in touched
Restored(s) == s \in touched \/ device[s] = Snapped(s) \/ (s = "manual" /\ MayStick)

RestoreInv ==
    /\ tool = "restore" =>
         /\ \A i \in 1..step : Restored(RestoreWrites[i])
         /\ step < 3 => device["program"] = startedIn \/ "program" \in touched
    /\ tool = "verify" =>
         /\ \A s \in Settings : Restored(s)
         /\ \A i \in 1..step : Reads[i] \in touched \/ seen[i] = device[Reads[i]]

\* There is a verdict only between two tools.
VerdictInv ==
    /\ VerdictIsTrue
    /\ tool # "none" => verdict = "none"

ToolInv == ToolTypes /\ RestoreInv /\ VerdictInv

-----------------------------------------------------------------------------
(* What the steps do.                                                      *)

\* A SET changes its own setting and no other; only the manual temperature may stay as it
\* was, while the device follows its Home program.
LEMMA SetEffect ==
  ASSUME ToolTypes, NEW s \in Settings, NEW value \in Values(s), Set(s, value)
  PROVE  /\ device' \in [Settings -> AnyValue]
         /\ \A r \in Settings : device'[r] \in Values(r)
         /\ \A r \in Settings \ {s} : device'[r] = device[r]
         /\ \/ device'[s] = value
            \/ s = "manual" /\ device["program"] = "HOME" /\ device' = device
<1>1. device' = device \/ device' = [device EXCEPT ![s] = value]
  BY DEF Set
<1> QED
  BY <1>1, ValuesAreValues DEF ToolTypes, DeviceOK, Set, Inert

\* A setting is read.
LEMMA ReadEffect ==
  ASSUME ToolTypes, Read
  PROVE  /\ step \in 0..7 /\ step' = step + 1
         /\ UNCHANGED <<device, snapshot, tool, touched>>
         /\ seen' \in Seq(AnyValue) /\ Len(seen') = step' /\ Len(seen) = step
         /\ \A i \in 1..step : seen'[i] = seen[i]
         /\ seen'[step + 1] = device[Reads[step + 1]]
         /\ Reads[step + 1] \in Settings
<1>1. step \in 0..7 /\ step' = step + 1 /\ UNCHANGED <<device, snapshot, tool, touched>>
  BY Places DEF Read, Proceed, ToolTypes, ProgressOK
<1>2. Reads[step + 1] \in Settings
  BY <1>1, Places
<1>3. device[Reads[step + 1]] \in AnyValue
  BY <1>2 DEF ToolTypes, DeviceOK
<1>4. seen' = Append(seen, device[Reads[step + 1]]) /\ Len(seen) = step
  BY DEF Read, ToolTypes, ProgressOK
<1> QED
  BY <1>1, <1>2, <1>3, <1>4, AppendProperties DEF ToolTypes, ProgressOK

\* A setting is restored.
LEMMA RestoreEffect ==
  ASSUME ToolTypes, RestoreWrite
  PROVE  /\ step \in 0..7 /\ step' = step + 1 /\ tool = "restore"
         /\ UNCHANGED <<snapshot, verdict, runs, menuEdits, touched, startedIn, tool, seen>>
         /\ LET s == RestoreWrites[step + 1]
            IN  s \in Settings /\ Snapped(s) \in Values(s) /\ Set(s, Snapped(s))
<1>1. step \in 0..7
  BY RestoreOrder DEF RestoreWrite, ToolTypes, ProgressOK
<1> QED
  BY <1>1, RestoreOrder DEF RestoreWrite, Proceed, ToolTypes, ProgressOK, SnapshotOK

-----------------------------------------------------------------------------
(* Steps.                                                                  *)

\* The settings of the device have values of theirs, whoever writes them.
LEMMA DeviceStep == ASSUME ToolInv, Next PROVE DeviceOK'
<1> USE DEF ToolInv, DeviceOK
<1>1. CASE UNCHANGED device
  BY <1>1 DEF ToolTypes
<1>2. CASE TestWrite
  <2>1. step + 1 \in 1..10
    BY <1>2, RestoreOrder DEF TestWrite, ToolTypes, ProgressOK
  <2> QED
    BY <1>2, <2>1, TestValues, SetEffect DEF TestWrite
<1>3. CASE RestoreWrite
  BY <1>3, RestoreEffect, SetEffect
<1>4. CASE MenuEdit
  BY <1>4, ValuesAreValues DEF MenuEdit, ToolTypes
<1> QED
  BY <1>1, <1>2, <1>3, <1>4
  DEF Next, StartSnapshot, StartTool, Begin, SnapshotWritten, Read, TestsEnd,
      BeginVerify,
      Verified, ToolFails

\* The snapshot is written whole.
LEMMA SnapshotStep == ASSUME ToolInv, Next PROVE SnapshotOK'
<1> USE DEF ToolInv
<1>1. CASE UNCHANGED snapshot
  BY <1>1 DEF ToolTypes, SnapshotOK, Snapped
<1>2. CASE SnapshotWritten
  <2>1. snapshot' = seen /\ Len(seen) = 8 /\ seen \in Seq(AnyValue)
    BY <1>2, Places DEF SnapshotWritten, ToolTypes, ProgressOK
  <2>2. \A s \in Settings : Snapped(s)' = seen[Place(s)]
    BY <2>1 DEF Snapped, Place
  <2>3. \A s \in Settings : seen[Place(s)] \in Values(s)
    BY <2>1, Places DEF ToolTypes, ProgressOK
  <2> QED
    BY <2>1, <2>2, <2>3, Places DEF SnapshotOK
<1> QED
  BY <1>1, <1>2
  DEF Next, StartSnapshot, StartTool, Read, TestWrite, TestsEnd, RestoreWrite, Proceed,
      BeginVerify, Verified, ToolFails, MenuEdit

\* A tool that begins has taken no step.
LEMMA Begins ==
  ASSUME tool' \in {"none", "snapshot", "tests", "restore"}, step' = 0, seen' = <<>>,
         tool' \in {"tests", "restore"} => snapshot' # <<>>
  PROVE  ProgressOK'
<1>1. /\ Len(TestWrites) = 10 /\ Len(Reads) = 8 /\ Len(RestoreWrites) = 8
      /\ seen' \in Seq(AnyValue) /\ Len(seen') = 0
  BY Places, RestoreOrder, EmptySeq
<1>2. 1..Len(seen') = {}
  BY <1>1
<1>3. \A i \in 1..Len(seen') : seen'[i] \in Values(Reads[i])
  BY <1>2
<1> QED
  BY <1>1, <1>3 DEF ProgressOK

\* A tool proceeds through its requests to the last.
LEMMA ProgressStep == ASSUME ToolInv, Next PROVE ProgressOK'
<1> USE DEF ToolInv
<1>0. /\ Len(TestWrites) = 10 /\ Len(Reads) = 8 /\ Len(RestoreWrites) = 8
      /\ <<>> \in Seq(AnyValue) /\ Len(<<>>) = 0
  BY Places, RestoreOrder, EmptySeq
<1>1. CASE StartSnapshot \/ StartTool("tests") \/ StartTool("restore")
  BY <1>1, Begins DEF StartSnapshot, StartTool, Begin
<1>2. CASE Read
  <2>1. \A i \in 1..(step + 1) : i \in 1..step \/ i = step + 1
    BY <1>2, ReadEffect
  <2>2. \A i \in 1..Len(seen') : seen'[i] \in Values(Reads[i])
    BY <1>2, <2>1, ReadEffect DEF ToolTypes, ProgressOK, DeviceOK
  <2>3. /\ tool' \in {"snapshot", "verify"} /\ step' \in 0..8 /\ Len(seen') = step'
        /\ seen' \in Seq(AnyValue)
        /\ UNCHANGED <<tool, snapshot>>
    BY <1>2, ReadEffect DEF Read
  <2> QED
    BY <1>0, <2>2, <2>3 DEF ToolTypes, ProgressOK
<1>3. CASE TestWrite \/ RestoreWrite
  <2>1. /\ UNCHANGED <<tool, seen, snapshot>> /\ step' = step + 1
        /\ (tool = "tests" /\ step < 10) \/ (tool = "restore" /\ step < 8)
    BY <1>0, <1>3 DEF TestWrite, RestoreWrite, Proceed
  <2> QED
    BY <1>0, <2>1 DEF ToolTypes, ProgressOK
<1>4. CASE BeginVerify
  BY <1>0, <1>4 DEF BeginVerify, ToolTypes, ProgressOK
<1>5. CASE SnapshotWritten \/ TestsEnd \/ Verified \/ ToolFails
  BY <1>5, Begins DEF SnapshotWritten, TestsEnd, Verified, ToolFails, Finish
<1>6. CASE MenuEdit
  BY <1>6 DEF MenuEdit, ToolTypes, ProgressOK
<1> QED
  BY <1>1, <1>2, <1>3, <1>4, <1>5, <1>6 DEF Next

\* The verdict, the bounded counters and the marks a session leaves keep their types.
LEMMA OtherStep == ASSUME ToolInv, Next PROVE OtherOK'
<1> USE DEF ToolInv, OtherOK
<1>1. CASE StartSnapshot \/ StartTool("tests") \/ StartTool("restore")
  BY <1>1, SettingNames, ToolBoundsAssumption
  DEF StartSnapshot, StartTool, Begin, ToolTypes, DeviceOK
<1>2. CASE MenuEdit
  BY <1>2, ToolBoundsAssumption DEF MenuEdit, ToolTypes
<1> QED
  BY <1>1, <1>2
  DEF Next, ToolTypes, Read, TestWrite, RestoreWrite, Proceed, SnapshotWritten,
      TestsEnd,
      BeginVerify, Verified, ToolFails

\* What is restored stays so, or somebody touches it.
LEMMA RestoreStep == ASSUME ToolInv, Next PROVE RestoreInv'
<1> USE DEF ToolInv
<1>1. CASE StartSnapshot \/ StartTool("tests") \/ SnapshotWritten \/ TestWrite \/ TestsEnd
           \/ Verified \/ ToolFails
  BY <1>1
  DEF StartSnapshot, StartTool, Begin, SnapshotWritten, TestWrite, TestsEnd, Verified,
      ToolFails, Finish, RestoreInv
<1>2. CASE StartTool("restore")
  BY <1>2 DEF StartTool, Begin, RestoreInv
<1>3. CASE Read
  <2>1. /\ tool' = "verify" => tool = "verify"
        /\ tool' # "restore"
    BY <1>3 DEF Read
  <2>2. \A s \in Settings : Restored(s)' = Restored(s)
    BY <1>3 DEF Read, Proceed, Restored, MayStick, Snapped
  <2>3. \A i \in 1..(step + 1) : i \in 1..step \/ i = step + 1
    BY <1>3, ReadEffect
  <2> QED
    BY <1>3, <2>1, <2>2, <2>3, ReadEffect DEF RestoreInv
<1>4. CASE RestoreWrite
  <2>1. PICK s \in Settings :
            /\ step \in 0..7 /\ step' = step + 1 /\ tool' = "restore" /\ tool = "restore"
            /\ UNCHANGED <<snapshot, touched, startedIn>>
            /\ s = RestoreWrites[step + 1]
            /\ Snapped(s) \in Values(s) /\ Set(s, Snapped(s))
    BY <1>4, RestoreEffect
  <2>2. /\ \A r \in Settings \ {s} : device'[r] = device[r]
        /\ \/ device'[s] = Snapped(s)
           \/ s = "manual" /\ device["program"] = "HOME" /\ device' = device
    BY <2>1, SetEffect
  <2>3. \A r \in Settings : Snapped(r)' = Snapped(r)
    BY <2>1 DEF Snapped
  <2>4. s = "manual" => step < 3
    <3>1. step < 3 \/ step + 1 \in 3..8
      BY <2>1
    <3>2. step + 1 \in 3..8 => RestoreWrites[step + 1] # "manual"
      BY RestoreOrder
    <3> QED
      BY <2>1, <3>1, <3>2
  <2>5. Restored(s)'
    BY <2>1, <2>2, <2>3, <2>4 DEF Restored, MayStick, RestoreInv
  <2>6. ASSUME NEW i \in 1..step PROVE Restored(RestoreWrites[i])'
    <3>1. RestoreWrites[i] \in Settings /\ Restored(RestoreWrites[i])
      BY <2>1, RestoreOrder DEF RestoreInv
    <3>2. CASE RestoreWrites[i] = s
      BY <2>5, <3>2
    <3>3. CASE RestoreWrites[i] # s
      BY <2>1, <2>2, <2>3, <3>1, <3>3 DEF Restored, MayStick
    <3> QED
      BY <3>2, <3>3
  <2>7. step' < 3 => device'["program"] = startedIn' \/ "program" \in touched'
    <3>1. step' < 3 => step \in {0, 1} /\ s # "program"
      BY <2>1, RestoreOrder
    <3> QED
      BY <2>1, <2>2, <3>1, SettingNames DEF RestoreInv
  <2>8. \A i \in 1..(step + 1) : i \in 1..step \/ i = step + 1
    BY <2>1
  <2> QED
    BY <2>1, <2>5, <2>6, <2>7, <2>8 DEF RestoreInv
<1>5. CASE BeginVerify
  <2>1. /\ tool = "restore" /\ step = 8 /\ tool' = "verify" /\ step' = 0
        /\ UNCHANGED <<device, snapshot, touched, startedIn>>
    BY <1>5, RestoreOrder DEF BeginVerify
  <2>2. \A r \in Settings : Restored(r)
    BY <2>1, RestoreOrder DEF RestoreInv
  <2>3. \A r \in Settings : Restored(r)' = Restored(r)
    BY <2>1 DEF Restored, MayStick, Snapped
  <2> QED
    BY <2>1, <2>2, <2>3 DEF RestoreInv
<1>6. CASE MenuEdit
  <2>1. PICK s \in Settings : \E value \in Values(s) :
            device' = [device EXCEPT ![s] = value] /\ touched' = touched \cup {s}
    BY <1>6 DEF MenuEdit
  <2>2. UNCHANGED <<snapshot, tool, step, seen, startedIn>>
    BY <1>6 DEF MenuEdit
  <2>3. \A r \in Settings : r \in touched' \/ device'[r] = device[r]
    BY <2>1 DEF ToolTypes, DeviceOK
  <2>4. \A r \in Settings : Restored(r) => Restored(r)'
    BY <2>1, <2>2, <2>3 DEF Restored, MayStick, Snapped
  <2>5. tool = "restore" => \A i \in 1..step : RestoreWrites[i] \in Settings
    BY RestoreOrder DEF ToolTypes, ProgressOK
  <2>6. tool = "verify" => \A i \in 1..step : Reads[i] \in Settings
    BY Places DEF ToolTypes, ProgressOK
  <2> QED
    BY <2>1, <2>2, <2>3, <2>4, <2>5, <2>6, SettingNames DEF RestoreInv
<1> QED
  BY <1>1, <1>2, <1>3, <1>4, <1>5, <1>6 DEF Next

\* A verdict is given at the end of a verification.
LEMMA VerdictStep == ASSUME ToolInv, Next PROVE VerdictInv'
<1> USE DEF ToolInv
<1>1. CASE verdict' = "none"
  BY <1>1 DEF VerdictInv, VerdictIsTrue
<1>2. CASE StartSnapshot \/ StartTool("tests") \/ StartTool("restore")
  BY <1>1, <1>2 DEF StartSnapshot, StartTool, Begin
<1>3. CASE Read \/ TestWrite \/ RestoreWrite \/ SnapshotWritten \/ TestsEnd \/ BeginVerify
           \/ ToolFails
  BY <1>1, <1>3
  DEF Read, TestWrite, RestoreWrite, Proceed, SnapshotWritten, TestsEnd, BeginVerify,
      ToolFails, VerdictInv
<1>4. CASE Verified
  <2>1. /\ tool = "verify" /\ step = 8 /\ tool' = "none"
        /\ Len(seen) = 8 /\ Len(snapshot) = 8
        /\ verdict' = IF seen = snapshot THEN "verified" ELSE "mismatch"
        /\ UNCHANGED <<device, snapshot, touched, startedIn>>
    BY <1>4, Places, EmptySeq DEF Verified, Finish, ToolTypes, ProgressOK, SnapshotOK
  <2>2. \A s \in Settings : s \in touched \/ seen[Place(s)] = device[s]
    BY <2>1, Places DEF RestoreInv
  <2>3. \A s \in Settings : Snapped(s) = snapshot[Place(s)]
    BY DEF Snapped, Place
  <2>4. CASE seen = snapshot
    BY <2>1, <2>2, <2>3, <2>4 DEF VerdictInv, VerdictIsTrue, Snapped
  <2>5. CASE seen # snapshot
    <3>1. PICK i \in 1..8 : seen[i] # snapshot[i]
      BY <2>1, <2>5, SeqEqual DEF ToolTypes, ProgressOK, SnapshotOK
    <3>2. Reads[i] \in Settings /\ Place(Reads[i]) = i
      BY <3>1, Places
    <3>3. Restored(Reads[i])
      BY <2>1, <3>2 DEF RestoreInv
    <3>4. touched # {} \/ startedIn = "HOME"
      BY <2>2, <2>3, <3>1, <3>2, <3>3 DEF Restored, MayStick
    <3> QED
      BY <2>1, <2>5, <3>4 DEF VerdictInv, VerdictIsTrue
  <2> QED
    BY <2>4, <2>5
<1>5. CASE MenuEdit
  <2>1. PICK s \in Settings : \E value \in Values(s) :
            device' = [device EXCEPT ![s] = value] /\ touched' = touched \cup {s}
    BY <1>5 DEF MenuEdit
  <2>2. UNCHANGED <<snapshot, tool, verdict, startedIn>>
    BY <1>5 DEF MenuEdit
  <2>3. \A r \in Settings \ touched' : r \in Settings \ touched /\ device'[r] = device[r]
    BY <2>1 DEF ToolTypes, DeviceOK
  <2> QED
    BY <2>1, <2>2, <2>3 DEF VerdictInv, VerdictIsTrue, Snapped
<1> QED
  BY <1>2, <1>3, <1>4, <1>5 DEF Next

-----------------------------------------------------------------------------
(* The theorems.                                                           *)

\* It holds at first, before any tool runs.
LEMMA InitToolInv == ASSUME Init PROVE ToolInv
<1>1. \A s \in Settings : device[s] \in Values(s) /\ device \in [Settings -> AnyValue]
  BY SettingNames DEF Init, Values, AnyValue
<1>2. startedIn \in Values("program")
  BY <1>1, SettingNames DEF Init
<1>3. <<>> \in Seq(AnyValue) /\ Len(<<>>) = 0
  BY EmptySeq
<1> QED
  BY <1>1, <1>2, <1>3, RestoreOrder, ToolBoundsAssumption
  DEF Init, ToolInv, ToolTypes, DeviceOK, SnapshotOK, ProgressOK, OtherOK, RestoreInv,
      VerdictInv, VerdictIsTrue

\* The invariant holds of an attended session.
THEOREM ToolInvHolds == Spec => []ToolInv
<1>1. ASSUME ToolInv, [Next]_vars PROVE ToolInv'
  <2>1. CASE Next
    BY <1>1, <2>1, DeviceStep, SnapshotStep, ProgressStep, OtherStep,
       RestoreStep, VerdictStep
    DEF ToolInv, ToolTypes
  <2>2. CASE UNCHANGED vars
    BY <1>1, <2>2
    DEF vars, ToolInv, ToolTypes, DeviceOK, SnapshotOK, ProgressOK, OtherOK, RestoreInv,
        Restored, MayStick, VerdictInv,
        VerdictIsTrue, Snapped
  <2> QED
    BY <1>1, <2>1, <2>2
<1> QED
  BY <1>1, InitToolInv, PTL DEF Spec

\* Every variable has its type.
THEOREM ToolTypeOK == Spec => []TypeOK
<1>1. ToolInv => TypeOK
  BY DEF ToolInv, ToolTypes, DeviceOK, SnapshotOK, ProgressOK, OtherOK, TypeOK
<1> QED
  BY <1>1, ToolInvHolds, PTL

\* What tools/session.py --restore prints can be relied on, however many tests and
\* restores broke off before it, and wherever.
THEOREM RestoreVerdictIsTrue == Spec => []VerdictIsTrue
<1>1. ToolInv => VerdictIsTrue
  BY DEF ToolInv, VerdictInv
<1> QED
  BY <1>1, ToolInvHolds, PTL
=============================================================================
