---------------------------- MODULE ToolSession ----------------------------
(***************************************************************************)
(* An attended session with the write tests: tools/session.py --snapshot,  *)
(* tools/w_tests.py, and tools/session.py --restore until it verifies.     *)
(* Each is a sequence of requests over one connection, and ends early,     *)
(* anywhere, if a request fails.  The settings are read and written one    *)
(* after the other, while somebody may stand at the thermostat.            *)
(*                                                                         *)
(* A setting that is only compared has the values "first", "test" and      *)
(* "menu", for who gave it.  Assumption about the device: a GET returns    *)
(* what was last SET; what lags behind is the status, which no tool        *)
(* restores from.                                                          *)
(***************************************************************************)
EXTENDS Naturals, Sequences

CONSTANTS MaxRuns,       \* Bound: tools started after the snapshot
          MaxMenuEdits   \* Bound: settings changed at the thermostat

ASSUME ToolBoundsAssumption == MaxRuns \in Nat /\ MaxMenuEdits \in Nat

VARIABLES device,        \* the settings in force
          snapshot,      \* the snapshot file, <<>> before it is written
          tool,          \* what is running: "none", "snapshot", "tests",
                         \* "restore", or "verify", the second half of a restore
          step,          \* how many of its requests are done
          seen,          \* what a snapshot or a verification has read
          verdict,       \* what the last restore has printed
          runs, menuEdits,
          touched,       \* history: settings changed in the menu since the tool began
          startedIn      \* history: the program in force when it began

vars == <<device, snapshot, tool, step, seen, verdict, runs, menuEdits, touched, startedIn>>

\* What _snapshot reads, and its order.
Reads == <<"power", "manual", "program", "home", "calibration", "keyLock", "language",
           "screensaver">>

Settings == {Reads[i] : i \in DOMAIN Reads}

Values(s) ==
    CASE s = "power" -> {"on", "off"}
      [] s = "program" -> {"MANUAL", "HOME"}
      [] s = "keyLock" -> {"locked", "unlocked"}
      [] OTHER -> {"first", "test", "menu"}

Init ==
    /\ \E power \in Values("power"), program \in Values("program"), lock \in Values("keyLock") :
          device = [s \in Settings |-> CASE s = "power" -> power [] s = "program" -> program
                                         [] s = "keyLock" -> lock [] OTHER -> "first"]
    /\ snapshot = <<>> /\ seen = <<>> /\ verdict = "none"
    /\ tool = "none" /\ step = 0
    /\ runs = 0 /\ menuEdits = 0
    /\ touched = {} /\ startedIn = device["program"]

-----------------------------------------------------------------------------
(* Requests.                                                               *)

\* 0x1082 is accepted and ignored while the Home program is active.
Inert(s) == s = "manual" /\ device["program"] = "HOME"

Set(s, value) == device' = IF Inert(s) THEN device ELSE [device EXCEPT ![s] = value]

\* The writes of w_tests.py.  (W-1, the override, and W-7, the clock, change no
\* setting; W-2 writes the program only if it is another.)
TestWrites == <<
    <<"program", "MANUAL">>, <<"manual", "test">>,                      \* W-2
    <<"program", "HOME">>, <<"manual", "test">>,                        \* W-3
    <<"program", "MANUAL">>,                                            \* W-5
    <<"power", "off">>, <<"power", "on">>,                              \* W-4
    <<"keyLock", "locked">>, <<"keyLock", "unlocked">>,                 \* W-6
    <<"calibration", "test">> >>                                        \* W-8

\* Mutant: the program is restored before the setpoint that depends on it.
RestoreWritesProgramFirst ==
    <<"program", "power", "manual", "home", "calibration", "keyLock", "language", "screensaver">>

\* What _restore writes, and its order.
RestoreWrites ==
    <<"power", "manual", "program", "home", "calibration", "keyLock", "language", "screensaver">>

-----------------------------------------------------------------------------
(* The tools.                                                              *)

Begin(t) ==
    /\ tool' = t /\ step' = 0 /\ seen' = <<>> /\ verdict' = "none"
    /\ touched' = {} /\ startedIn' = device["program"]
    /\ UNCHANGED <<device, menuEdits>>

\* "Always run tools/session.py --snapshot first and --restore after."
StartSnapshot ==
    /\ tool = "none" /\ snapshot = <<>>
    /\ Begin("snapshot")
    /\ UNCHANGED <<snapshot, runs>>

StartTool(t) ==
    /\ tool = "none" /\ snapshot # <<>> /\ runs < MaxRuns
    /\ runs' = runs + 1
    /\ Begin(t)
    /\ UNCHANGED snapshot

Proceed == step' = step + 1 /\ UNCHANGED <<snapshot, verdict, runs, menuEdits, touched, startedIn>>

Finish == tool' = "none" /\ step' = 0 /\ seen' = <<>>

\* _snapshot: a setting is read.
Read ==
    /\ tool \in {"snapshot", "verify"} /\ step < Len(Reads)
    /\ seen' = Append(seen, device[Reads[step + 1]])
    /\ Proceed
    /\ UNCHANGED <<device, tool>>

SnapshotWritten ==
    /\ tool = "snapshot" /\ step = Len(Reads)
    /\ snapshot' = seen
    /\ Finish
    /\ UNCHANGED <<device, verdict, runs, menuEdits, touched, startedIn>>

\* Mutant: the fields of the file are out of step with what was read.
SnappedNext(s) == snapshot[1 + ((CHOOSE i \in DOMAIN Reads : Reads[i] = s) % Len(Reads))]

\* A setting in the snapshot.
Snapped(s) == snapshot[CHOOSE i \in DOMAIN Reads : Reads[i] = s]

TestWrite ==
    /\ tool = "tests" /\ step < Len(TestWrites)
    /\ Set(TestWrites[step + 1][1], TestWrites[step + 1][2])
    /\ Proceed
    /\ UNCHANGED <<tool, seen>>

TestsEnd ==
    /\ tool = "tests" /\ step = Len(TestWrites)
    /\ Finish
    /\ UNCHANGED <<device, snapshot, verdict, runs, menuEdits, touched, startedIn>>

RestoreWrite ==
    /\ tool = "restore" /\ step < Len(RestoreWrites)
    /\ Set(RestoreWrites[step + 1], Snapped(RestoreWrites[step + 1]))
    /\ Proceed
    /\ UNCHANGED <<tool, seen>>

BeginVerify ==
    /\ tool = "restore" /\ step = Len(RestoreWrites)
    /\ tool' = "verify" /\ step' = 0
    /\ UNCHANGED <<device, snapshot, seen, verdict, runs, menuEdits, touched, startedIn>>

\* _verify: every setting is compared.
Verified ==
    /\ tool = "verify" /\ step = Len(Reads)
    /\ verdict' = IF seen = snapshot THEN "verified" ELSE "mismatch"
    /\ Finish
    /\ UNCHANGED <<device, snapshot, runs, menuEdits, touched, startedIn>>

\* A request is not answered, or the link is lost: the exception ends the tool.
\* What it has written stays, the request that failed perhaps with it.
ToolFails ==
    /\ tool # "none"
    /\ Finish
    /\ UNCHANGED <<device, snapshot, verdict, runs, menuEdits, touched, startedIn>>

\* The buttons do not respond while they are locked.
MenuEdit ==
    /\ menuEdits < MaxMenuEdits /\ device["keyLock"] = "unlocked"
    /\ menuEdits' = menuEdits + 1
    /\ \E s \in Settings : \E value \in Values(s) \ {device[s], "first", "test"} :
          /\ device' = [device EXCEPT ![s] = value]
          /\ touched' = touched \cup {s}
    /\ UNCHANGED <<snapshot, tool, step, seen, verdict, runs, startedIn>>

Next ==
    \/ StartSnapshot \/ SnapshotWritten \/ Read
    \/ StartTool("tests") \/ TestWrite \/ TestsEnd
    \/ StartTool("restore") \/ RestoreWrite \/ BeginVerify \/ Verified
    \/ ToolFails \/ MenuEdit

Spec == Init /\ [][Next]_vars

-----------------------------------------------------------------------------
(* Properties.                                                             *)

\* Every variable has its type.
TypeOK ==
    /\ \A s \in Settings : device[s] \in Values(s)
    /\ tool \in {"none", "snapshot", "tests", "restore", "verify"}
    /\ step \in 0..Len(TestWrites)
    /\ Len(seen) \in {0, step} /\ Len(snapshot) \in {0, Len(Reads)}
    /\ snapshot # <<>> => \A s \in Settings : Snapped(s) \in Values(s)
    /\ verdict \in {"none", "verified", "mismatch"}
    /\ runs \in 0..MaxRuns /\ menuEdits \in 0..MaxMenuEdits
    /\ touched \subseteq Settings /\ startedIn \in Values("program")

\* What a restore prints can be relied on, however often the tests and earlier
\* restores broke off and wherever: "Restore verified" means that every setting is
\* as in the snapshot but those changed in the menu since it began, and a mismatch
\* that something got in its way: somebody at the menu, or the Home program, in
\* which the manual setpoint it writes first does not stick.
VerdictIsTrue ==
    /\ verdict = "verified" => \A s \in Settings \ touched : device[s] = Snapped(s)
    /\ verdict = "mismatch" => touched # {} \/ startedIn = "HOME"
=============================================================================
