-------------------------- MODULE HomeProgramWrite --------------------------
(***************************************************************************)
(* The two schedule services at work: calls of set_home_program and        *)
(* get_home_program, each of which reads, merges, writes and verifies      *)
(* inside one connection and starts over when that fails, a thermostat     *)
(* that may apply a write late or not at all, and its user, who edits the  *)
(* schedule in its menu.  Connections are taken from the one-slot service  *)
(* of ConnectionSlot, which ConnectionGate implements.                     *)
(*                                                                         *)
(* place[c], where call c is suspended:                                    *)
(*   "idle"        not made, or returned                                   *)
(*   "asking"      waiting for the connection                              *)
(*   "connected"   connecting, in the handshake, or reading the program    *)
(*   "writing"     the SET is sent; its answer, then the readback, awaited *)
(*   "closing"     in the finally: await client.disconnect()               *)
(***************************************************************************)
EXTENDS HomeProgram

CONSTANTS Calls,            \* the service calls
          Requests,         \* what set_home_program may be called with
          Programs,         \* the device's program at first
          MenuDays,         \* what its user may make of a day
          MaxMenuEdits,     \* Bound: edits in the menu
          MaxAttempts       \* CONNECT_RETRY_ATTEMPTS

ASSUME MaxMenuEditsAssumption == MaxMenuEdits \in Nat
ASSUME MaxAttemptsAssumption == MaxAttempts \in Nat \ {0}
\* The device never holds a program it would not accept.
ASSUME ProgramsAssumption ==
    \A p \in Programs : p \in [Days -> Seq(HomeProgramEvent)] /\ ValidHomeProgram(p)
ASSUME MenuDaysAssumption ==
    \A m \in MenuDays : m \in Seq(HomeProgramEvent) /\ Len(m) = EventsPerDay /\ ValidDay(m)
\* What the service's schema has made of a call.
ASSUME RequestsAssumption ==
    \A data \in Requests : /\ \A f \in DOMAIN data \ {"days"} : data[f] \in Seq(GivenEvent)
                           /\ "days" \in DOMAIN data => data.days \subseteq Days

NoUpdates == <<>>           \* a call of get_home_program, the empty function

VARIABLES
    \* the calls
    place, attempt,
    updates,     \* the days a call is to write
    merged,      \* what it last sent
    outcome,     \* what an attempt, and at last the call, ends with
    asking, holding,        \* the connection slot
    response,    \* what get_home_program returned last, NoUpdates at first
    settleDue,   \* a settle poll is scheduled
    \* the link and the thermostat, which remember who sent a SET
    wire,        \* the SET on its way to the device
    staged,      \* the SET the device has answered and not yet applied
    device,      \* the program in the device
    menuEdits,
    \* history
    author,      \* the call whose SET made the device's program what it is
    owed         \* what each day must hold, as the last call to write it was told

callVars   == <<place, attempt, updates, merged, outcome>>
slotVars   == <<asking, holding>>
haVars     == <<response, settleDue>>
deviceVars == <<wire, staged, device, menuEdits>>
history    == <<author, owed>>
vars == <<callVars, slotVars, haVars, deviceVars, history>>

Slot == INSTANCE ConnectionSlot WITH Ops <- Calls

Init ==
    /\ place = [c \in Calls |-> "idle"]
    /\ attempt = [c \in Calls |-> 0]
    /\ updates = [c \in Calls |-> NoUpdates]
    /\ merged = [c \in Calls |-> NoUpdates]
    /\ outcome = [c \in Calls |-> "none"]
    /\ Slot!SlotInit
    /\ response = NoUpdates /\ settleDue = FALSE
    /\ wire = {} /\ staged = {} /\ device \in Programs /\ menuEdits = 0
    /\ author = {} /\ owed = [d \in Days |-> {}]

-----------------------------------------------------------------------------
(* The services.                                                           *)

New(c) == place[c] = "idle" /\ outcome[c] = "none"

\* Attempts from `first` on find no scanner that sees the device, and fail
\* without waiting, until one asks for the connection or none is left.
NextAttempt(c, first) ==
    \/ \E n \in first..MaxAttempts :
          /\ attempt' = [attempt EXCEPT ![c] = n]
          /\ place' = [place EXCEPT ![c] = "asking"]
          /\ outcome' = [outcome EXCEPT ![c] = "none"]
          /\ IF c \in holding THEN Slot!LineUpAgain(c) ELSE Slot!Ask(c)
    \/ /\ attempt' = [attempt EXCEPT ![c] = MaxAttempts]
       /\ place' = [place EXCEPT ![c] = "idle"]
       /\ outcome' = [outcome EXCEPT ![c] = "failed"]
       /\ IF c \in holding THEN Slot!Leave(c) ELSE UNCHANGED slotVars

BeginCall(c, request) ==
    /\ New(c)
    /\ updates' = [updates EXCEPT ![c] = request]
    /\ NextAttempt(c, 1)
    /\ UNCHANGED <<merged, haVars, deviceVars, history>>

\* set_home_program, with a request of one's own or with a pasted response.
SetProgram(c) ==
    \E data \in Requests \cup (IF response = NoUpdates THEN {} ELSE {response}) :
        ServiceAccepts(data) /\ BeginCall(c, CollectUpdates(data))

\* Refused before any connection: the caller's mistake.
RefuseRequest(c) ==
    /\ New(c)
    /\ \E data \in Requests : ~ServiceAccepts(data)
    /\ outcome' = [outcome EXCEPT ![c] = "refused by the service"]
    /\ UNCHANGED <<place, attempt, updates, merged, slotVars, haVars, deviceVars, history>>

GetProgram(c) == BeginCall(c, NoUpdates)

-----------------------------------------------------------------------------
(* One attempt.                                                            *)

Connect(c) ==
    /\ place[c] = "asking"
    /\ Slot!Enter(c)
    /\ place' = [place EXCEPT ![c] = "connected"]
    /\ UNCHANGED <<attempt, updates, merged, outcome, haVars, deviceVars, history>>

Teardown(c, result) ==
    /\ place' = [place EXCEPT ![c] = "closing"]
    /\ outcome' = [outcome EXCEPT ![c] = result]

\* What a GET of the device's program decodes to.
ProgramRead == UnpackHomeProgram(PackHomeProgram(device))

\* The hardware notes leave open whether a SET is applied at the disconnect or
\* within about a second: before the next handshake is over, in either case.
ReadReturns(c) == place[c] = "connected" /\ staged = {}

GetReads(c) ==
    /\ ReadReturns(c) /\ updates[c] = NoUpdates
    /\ response' = ProgramToResponse(ProgramRead)
    /\ Teardown(c, "ok")
    /\ UNCHANGED <<attempt, updates, merged, slotVars, settleDue, deviceVars, history>>

\* The program goes out, unless it is not one the device accepts.
SendProgram(c, program) ==
    /\ merged' = [merged EXCEPT ![c] = program]
    /\ \/ /\ ValidHomeProgram(program)
          /\ wire' = {[by |-> c, program |-> PackHomeProgram(program)]}
          /\ place' = [place EXCEPT ![c] = "writing"]
          /\ UNCHANGED outcome
       \/ /\ ~ValidHomeProgram(program)
          /\ Teardown(c, "refused after connecting")
          /\ UNCHANGED wire
    /\ UNCHANGED <<attempt, updates, slotVars, haVars, staged, device, menuEdits, history>>

\* Mutant: a retry sends again what an earlier attempt has merged.
SetReadsOnce(c) ==
    /\ ReadReturns(c) /\ updates[c] # NoUpdates
    /\ SendProgram(c, IF merged[c] # NoUpdates THEN merged[c]
                      ELSE MergeHomeProgram(ProgramRead, updates[c]))

\* The program read is merged and sent, with no await in between.
SetReads(c) ==
    /\ ReadReturns(c) /\ updates[c] # NoUpdates
    /\ SendProgram(c, MergeHomeProgram(ProgramRead, updates[c]))

\* What the days of call c must hold from now on.
OwedTo(c) == [d \in Days |-> IF d \in DOMAIN updates[c] THEN {updates[c][d]} ELSE owed[d]]

\* The SET is answered and the program read back.  Only an equal one counts.
Readback(c) ==
    /\ place[c] = "writing" /\ wire = {}
    /\ \/ ProgramRead = merged[c] /\ Teardown(c, "ok") /\ owed' = OwedTo(c)
       \/ ProgramRead # merged[c] /\ Teardown(c, "failed") /\ UNCHANGED owed
    /\ UNCHANGED <<attempt, updates, merged, slotVars, haVars, deviceVars, author>>

\* The link is lost, the device refuses, or BLE_OPERATION_TIMEOUT is over.
AttemptFails(c) ==
    /\ place[c] \in {"connected", "writing"}
    /\ Teardown(c, "failed")
    /\ UNCHANGED <<attempt, updates, merged, slotVars, haVars, deviceVars, history>>

\* Mutant: the attempts are not counted.
ClosedRetrying(c) ==
    /\ place[c] = "closing"
    /\ wire' = {}
    /\ attempt' = [attempt EXCEPT ![c] = @ + 1]
    /\ place' = [place EXCEPT ![c] = "asking"]
    /\ outcome' = [outcome EXCEPT ![c] = "none"]
    /\ Slot!LineUpAgain(c)
    /\ UNCHANGED <<updates, merged, haVars, staged, device, menuEdits, history>>

\* The disconnect returns.  A ValidationError is an EB300Error, so a merge that
\* is refused is tried again like the rest; the error of the last attempt is
\* the call's.  A verified write schedules the settle poll.
Closed(c) ==
    /\ place[c] = "closing"
    /\ wire' = {}
    /\ \/ /\ outcome[c] # "ok" /\ attempt[c] < MaxAttempts
          /\ NextAttempt(c, attempt[c] + 1)
          /\ UNCHANGED settleDue
       \/ /\ outcome[c] = "ok" \/ attempt[c] = MaxAttempts
          /\ Slot!Leave(c)
          /\ place' = [place EXCEPT ![c] = "idle"]
          /\ settleDue' = (settleDue \/ (outcome[c] = "ok" /\ updates[c] # NoUpdates))
          /\ UNCHANGED <<attempt, outcome>>
    /\ UNCHANGED <<updates, merged, response, staged, device, menuEdits, history>>

\* POST_WRITE_SETTLE_SECONDS are over; the poll itself is SetpointWrite's.
SettlePoll ==
    /\ settleDue
    /\ settleDue' = FALSE
    /\ UNCHANGED <<callVars, slotVars, response, deviceVars, history>>

-----------------------------------------------------------------------------
(* The thermostat and its user.                                            *)

\* The device stores a SET; what its days owe is open until it is verified.
Store(set) ==
    /\ device' = UnpackHomeProgram(set.program)
    /\ author' = {set.by}
    /\ owed' = [d \in Days |-> IF d \in DOMAIN updates[set.by] THEN {} ELSE owed[d]]

DeviceTakesSet ==
    /\ wire # {}
    /\ wire' = {}
    /\ \/ \E set \in wire : Store(set) /\ staged' = {}         \* applied
       \/ staged' = wire /\ UNCHANGED <<device, history>>      \* applied later
       \/ UNCHANGED <<staged, device, history>>                \* answered for nothing
    /\ UNCHANGED <<callVars, slotVars, haVars, menuEdits>>

DeviceApplies ==
    /\ \E set \in staged : Store(set)
    /\ staged' = {}
    /\ UNCHANGED <<callVars, slotVars, haVars, wire, menuEdits>>

\* The user edits a day on the device.
MenuEdit ==
    /\ menuEdits < MaxMenuEdits
    /\ menuEdits' = menuEdits + 1
    /\ \E d \in Days, m \in MenuDays :
          /\ device' = [device EXCEPT ![d] = m]
          /\ owed' = [owed EXCEPT ![d] = {}]
    /\ author' = {}
    /\ UNCHANGED <<callVars, slotVars, haVars, wire, staged>>

AttemptStep(c) == GetReads(c) \/ SetReads(c) \/ Readback(c) \/ AttemptFails(c)

Next == \/ \E c \in Calls : \/ SetProgram(c) \/ RefuseRequest(c) \/ GetProgram(c)
                            \/ Connect(c) \/ AttemptStep(c) \/ Closed(c)
        \/ SettlePoll \/ DeviceTakesSet \/ DeviceApplies \/ MenuEdit

Spec == Init /\ [][Next]_vars

-----------------------------------------------------------------------------
(* Properties.                                                             *)

Written == [Days -> Seq(HomeProgramEvent)]

TypeOK ==
    /\ place \in [Calls -> {"idle", "asking", "connected", "writing", "closing"}]
    /\ attempt \in [Calls -> 0..MaxAttempts]
    /\ \A c \in Calls : DOMAIN updates[c] \subseteq Days /\ merged[c] \in {NoUpdates} \cup Written
    /\ outcome \in [Calls -> {"none", "ok", "failed", "refused by the service",
                              "refused after connecting"}]
    /\ asking \subseteq Calls /\ holding \subseteq Calls
    /\ DOMAIN response \subseteq Days /\ settleDue \in BOOLEAN
    /\ {set.by : set \in wire \cup staged} \cup author \subseteq Calls
    /\ device \in Written /\ menuEdits \in 0..MaxMenuEdits

\* The events given are in their slots, and the slots nobody wrote are off.
Holds(day, given) ==
    \A i \in 1..EventsPerDay : IF i <= Len(given) THEN day[i] = ParsedEvent(given[i])
                               ELSE ~day[i].active

\* No lost update: a day that a call was told it had written holds what that
\* call gave, until another call or the user writes that very day.  Every call
\* rewrites all seven days from what it has read, and may do so again after a
\* failure (async_set_home_program, async_with_retries).
AcknowledgedDaysSurvive == \A d \in Days : \A given \in owed[d] : Holds(device[d], given)

\* A write changes what it is asked to and nothing more.  A call changes no day it
\* does not name, as long as the user stays away (merge_home_program: absent days are
\* left byte-for-byte unchanged), and a retry of a call whose SET the device had
\* applied already changes nothing: merging twice is merging once, though
\* async_with_retries repeats the whole of _op.
WritesOnlyWhatIsAsked ==
    [][/\ menuEdits' = 0 => \A d \in Days : device'[d] # device[d] =>
                                \E c \in author' : d \in DOMAIN updates[c]
       /\ author # {} /\ author' = author => device' = device]_vars

\* What passes the service's own check is not refused later over slots the
\* caller never wrote (services.py, async_set_home_program's handler).
ValidEditIsNotRefused == \A c \in Calls : outcome[c] # "refused after connecting"

\* The answer of get_home_program is an accepted set_home_program call that
\* changes nothing, whatever program calls and menu edits have led to.
ResponseCanBePastedBack ==
    LET data == ProgramToResponse(ProgramRead) IN
    /\ ServiceAccepts(data)
    /\ MergeHomeProgram(ProgramRead, CollectUpdates(data)) = device
=============================================================================
