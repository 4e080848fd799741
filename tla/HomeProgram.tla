---------------------------- MODULE HomeProgram ----------------------------
(***************************************************************************)
(* The weekly schedule: what the service accepts, what the device accepts, *)
(* and how an edit of some days is merged onto the program read from the   *)
(* device.  Pure functions; HomeProgramWrite carries them out.             *)
(*                                                                         *)
(* A program is a function from Days to sequences of EventsPerDay events.  *)
(* A given event is one of a service call: its time is a clock triple      *)
(* <<hour, minute, second>>, its temperature is in hundredths of a degree. *)
(***************************************************************************)
EXTENDS Integers, Sequences

CONSTANTS Days,             \* WEEKDAYS
          EventsPerDay      \* HOME_PROGRAM_EVENTS_PER_DAY

ASSUME EventsPerDayAssumption == EventsPerDay \in Nat \ {0}
\* The other fields of a call are no weekdays.
ASSUME DaysAssumption == Days # {} /\ Days \cap {"days", "events"} = {}

EventTempMin == 50          \* EVENT_TEMP_DECIDEG_MIN
EventTempMax == 350         \* EVENT_TEMP_DECIDEG_MAX

HomeProgramEvent ==
    [active : BOOLEAN, hour : Int, minute : Int, temperature : Int]

\* _EVENT_SCHEMA: the types the service coerces a given event to.
GivenEvent == [time : Int \X Int \X Int, temperature : Int, active : BOOLEAN]

-----------------------------------------------------------------------------
(* What the device and protocol.py accept.                                 *)

\* Minutes since daybreak (02:00), the axis events are ordered on.
HomeProgramEventMinutes(e) == ((e.hour - 2) % 24) * 60 + e.minute

\* One unit of the device is 5 decidegrees; struct.pack wants a signed byte.
ValidTemperature(decideg) ==
    decideg \in EventTempMin..EventTempMax /\ decideg % 5 = 0

InOrder(events) ==
    \A i \in 1..(Len(events) - 1) :
        HomeProgramEventMinutes(events[i]) <= HomeProgramEventMinutes(events[i + 1])

\* validate_home_program_day: any number of events, the inactive ones too.
ValidDay(events) ==
    /\ \A i \in 1..Len(events) : /\ events[i].hour \in 0..23
                                 /\ events[i].minute \in 0..59
                                 /\ ValidTemperature(events[i].temperature)
    /\ InOrder(events)

\* _validate_home_program, on every day, whether edited or not.
ValidHomeProgram(program) ==
    /\ DOMAIN program = Days
    /\ \A d \in Days : Len(program[d]) = EventsPerDay /\ ValidDay(program[d])

-----------------------------------------------------------------------------
(* What crosses the wire: temperatures go through the device's unit.       *)

\* decideg_to_s8 and s8_to_decideg.
PackEvent(e) == [e EXCEPT !.temperature = @ \div 5]
UnpackEvent(e) == [e EXCEPT !.temperature = @ * 5]

PackHomeProgram(program) ==
    [d \in Days |-> [i \in 1..EventsPerDay |-> PackEvent(program[d][i])]]
UnpackHomeProgram(bytes) ==
    [d \in Days |-> [i \in 1..EventsPerDay |-> UnpackEvent(bytes[d][i])]]

-----------------------------------------------------------------------------
(* The service call.                                                       *)

\* round(): to the nearest, a tie to the even one.
RoundedTenths(hundredths) ==
    LET low == hundredths \div 10 IN
    CASE hundredths % 10 < 5 -> low
      [] hundredths % 10 > 5 -> low + 1
      [] OTHER -> low + (low % 2)

\* _EVENT_SCHEMA and _valid_time: a well-formed time, whose seconds are dropped.
ValidTime(time) == time[1] \in 0..23 /\ time[2] \in 0..59 /\ time[3] \in 0..59

ValidGivenDay(given) ==
    Len(given) <= EventsPerDay /\ \A i \in 1..Len(given) : ValidTime(given[i].time)

\* parse_home_program_events, of one event.
ParsedEvent(g) ==
    [active |-> g.active, hour |-> g.time[1], minute |-> g.time[2],
     temperature |-> RoundedTenths(g.temperature)]

Parsed(given) == [i \in 1..Len(given) |-> ParsedEvent(given[i])]

NamedOnce(data) == DOMAIN data \cap Days
NamedTogether(data) == IF "days" \in DOMAIN data THEN data.days ELSE {}

\* SET_HOME_PROGRAM_SCHEMA and the refusals of _collect_updates.  `data` is a
\* record with some of the fields days, events and the weekdays.
WellFormed(data) ==
    /\ "events" \in DOMAIN data => ValidGivenDay(data.events)
    /\ \A d \in NamedOnce(data) : ValidGivenDay(data[d])
    /\ "days" \in DOMAIN data => data.days # {}
    /\ ("days" \in DOMAIN data) = ("events" \in DOMAIN data)
    /\ NamedOnce(data) \cap NamedTogether(data) = {}
    /\ NamedOnce(data) \cup NamedTogether(data) # {}

\* _collect_updates: what each named day is to become.
CollectUpdates(data) ==
    [d \in NamedOnce(data) \cup NamedTogether(data) |->
        IF d \in DOMAIN data THEN data[d] ELSE data.events]

\* The set service's own check, before any connection.
ServiceAccepts(data) ==
    /\ WellFormed(data)
    /\ \A d \in DOMAIN CollectUpdates(data) : ValidDay(Parsed(CollectUpdates(data)[d]))

\* Mutant: the answer says nothing of a slot being off, and on is the default.
ResponseAllActive(program) ==
    [d \in Days |-> [i \in 1..EventsPerDay |->
        [time |-> <<program[d][i].hour, program[d][i].minute, 0>>,
         temperature |-> program[d][i].temperature * 10,
         active |-> TRUE]]]

\* _program_to_response: the get service's answer, in the set service's form.
ProgramToResponse(program) ==
    [d \in Days |-> [i \in 1..EventsPerDay |->
        [time |-> <<program[d][i].hour, program[d][i].minute, 0>>,
         temperature |-> program[d][i].temperature * 10,
         active |-> program[d][i].active]]]

-----------------------------------------------------------------------------
(* merge_home_program.                                                     *)

\* Mutant: a padding slot keeps its own time.
PaddingKeepsTime(source, previous) == [source EXCEPT !.active = FALSE]

\* A slot nobody wrote: off, with its temperature, and with its time unless
\* that precedes the slot before it.
Padding(source, previous) ==
    IF HomeProgramEventMinutes(source) < HomeProgramEventMinutes(previous)
    THEN [source EXCEPT !.active = FALSE,
                        !.hour = previous.hour, !.minute = previous.minute]
    ELSE [source EXCEPT !.active = FALSE]

Midnight == [active |-> FALSE, hour |-> 0, minute |-> 0, temperature |-> 0]

\* Mutant: the day's slots move up behind the given events.
MergedDayShifting(existing, given) ==
    LET new[i \in 1..EventsPerDay] ==
            IF i <= Len(given) THEN ParsedEvent(given[i])
            ELSE Padding(existing[i - Len(given)],
                         IF i > 1 THEN new[i - 1] ELSE existing[1])
    IN  new

\* Slots beyond the given events come from the device's day or, if that is
\* short, from the slot before.
MergedDay(existing, given) ==
    LET new[i \in 1..EventsPerDay] ==
            LET source == IF i <= Len(existing) THEN existing[i]
                          ELSE IF i > 1 THEN new[i - 1] ELSE Midnight
            IN  IF i <= Len(given) THEN ParsedEvent(given[i])
                ELSE Padding(source, IF i > 1 THEN new[i - 1] ELSE source)
    IN  new

MergeHomeProgram(current, updates) ==
    [d \in Days |-> IF d \in DOMAIN updates
                    THEN MergedDay(current[d], updates[d]) ELSE current[d]]
=============================================================================
