------------------------ MODULE HomeProgramWriteProofs ------------------------
(***************************************************************************)
(* What callers of the schedule services can rely on, for any number of    *)
(* calls, attempts and menu edits, any weekdays, slots, programs and       *)
(* requests.                                                               *)
(***************************************************************************)
EXTENDS HomeProgramWrite, WellFoundedInduction, TLAPS

-----------------------------------------------------------------------------
(* Induction on the slots of a day: a set of numbers has a least one.      *)

\* The order of the natural numbers, as a relation.
LEMMA NatOrder ==
  \E R : IsWellFoundedOn(R, Nat) /\ \A x, y \in Nat : y < x => <<y, x>> \in R
<1>1. \A x, y \in Nat : y < x => <<y, x>> \in OpToRel(<, Nat)
  BY DEF OpToRel
<1> QED
  BY <1>1, NatLessThanWellFounded

\* What fails for a number fails for a least one.
LEMMA LeastNumber ==
  ASSUME NEW T, T \subseteq Nat, T # {}
  PROVE  \E x \in T : \A y \in T : x <= y
<1>1. PICK R : IsWellFoundedOn(R, Nat) /\ \A x, y \in Nat : y < x => <<y, x>> \in R
  BY NatOrder
<1>2. PICK x \in T : \A y \in T : ~(<<y, x>> \in R)
  BY <1>1, WFMin
<1>3. \A y \in T : ~(y < x)
  BY <1>1, <1>2
<1> QED
  BY <1>3

-----------------------------------------------------------------------------
(* Days and programs that the device accepts.                              *)

GoodEvent(e) ==
    /\ e \in HomeProgramEvent
    /\ e.hour \in 0..23 /\ e.minute \in 0..59 /\ ValidTemperature(e.temperature)

GoodDay(day) ==
    /\ day \in [1..EventsPerDay -> HomeProgramEvent]
    /\ \A i \in 1..EventsPerDay : GoodEvent(day[i])
    /\ \A i \in 1..(EventsPerDay - 1) :
          HomeProgramEventMinutes(day[i]) <= HomeProgramEventMinutes(day[i + 1])

Good(program) ==
    /\ program = [d \in Days |-> program[d]]
    /\ \A d \in Days : GoodDay(program[d])

\* A good day is a day of the device's that is valid.
LEMMA GoodDays ==
  ASSUME NEW day
  PROVE  GoodDay(day) <=> /\ day \in Seq(HomeProgramEvent)
                          /\ Len(day) = EventsPerDay /\ ValidDay(day)
<1>1. ASSUME GoodDay(day)
      PROVE  day \in Seq(HomeProgramEvent) /\ Len(day) = EventsPerDay /\ ValidDay(day)
  <2>1. day \in Seq(HomeProgramEvent) /\ Len(day) = EventsPerDay
    BY <1>1, EventsPerDayAssumption DEF GoodDay
  <2> QED
    BY <1>1, <2>1, EventsPerDayAssumption DEF GoodDay, GoodEvent, ValidDay, InOrder
<1>2. ASSUME day \in Seq(HomeProgramEvent), Len(day) = EventsPerDay, ValidDay(day)
      PROVE  GoodDay(day)
  <2>1. day \in [1..EventsPerDay -> HomeProgramEvent]
    BY <1>2
  <2> QED
    BY <1>2, <2>1, EventsPerDayAssumption DEF GoodDay, GoodEvent, ValidDay, InOrder
<1> QED
  BY <1>1, <1>2

\* A good program is one of the device's that is valid.
LEMMA GoodPrograms ==
  ASSUME NEW p
  PROVE  Good(p) <=> p \in [Days -> Seq(HomeProgramEvent)] /\ ValidHomeProgram(p)
  BY GoodDays DEF Good, ValidHomeProgram

\* A valid temperature goes through the device's unit and back unchanged.
LEMMA UnitRoundTrip ==
  ASSUME NEW t, ValidTemperature(t)
  PROVE  t \in Int /\ (t \div 5) * 5 = t
  BY DEF ValidTemperature, EventTempMin, EventTempMax

\* An event the device accepts goes into its bytes and back unchanged.
LEMMA EventRoundTrip ==
  ASSUME NEW e, GoodEvent(e)
  PROVE  UnpackEvent(PackEvent(e)) = e
  BY UnitRoundTrip DEF GoodEvent, HomeProgramEvent, UnpackEvent, PackEvent

\* A good program is read back as it was sent.
LEMMA ProgramRoundTrip ==
  ASSUME NEW p, Good(p)
  PROVE  UnpackHomeProgram(PackHomeProgram(p)) = p
<1>1. ASSUME NEW d \in Days
      PROVE  [i \in 1..EventsPerDay |-> UnpackEvent(PackHomeProgram(p)[d][i])] = p[d]
  BY EventRoundTrip DEF PackHomeProgram, Good, GoodDay
<1> QED
  BY <1>1 DEF UnpackHomeProgram, Good

-----------------------------------------------------------------------------
(* merge_home_program, of one day.                                         *)

\* What slot i becomes, by what the slots before it in f have become.
SlotOf(existing, given, f, i) ==
    LET source == IF i <= Len(existing) THEN existing[i]
                  ELSE IF i > 1 THEN f[i - 1] ELSE Midnight
    IN  IF i <= Len(given) THEN ParsedEvent(given[i])
        ELSE Padding(source, IF i > 1 THEN f[i - 1] ELSE source)

\* SlotOf looks at the slot before, if there is one, and nowhere else.
LEMMA SlotOfLocal ==
  ASSUME NEW existing, NEW given, NEW f, NEW g, NEW i \in Nat,
         i > 1 => f[i - 1] = g[i - 1]
  PROVE  SlotOf(existing, given, f, i) = SlotOf(existing, given, g, i)
  BY DEF SlotOf

\* So the first n slots are determined, one after the other.
LEMMA SlotsExist ==
  ASSUME NEW existing, NEW given, NEW n \in Nat
  PROVE  \E f : f = [i \in 1..n |-> SlotOf(existing, given, f, i)]
<1> DEFINE Exists(k) == \E f : f = [i \in 1..k |-> SlotOf(existing, given, f, i)]
           T == {k \in Nat : ~Exists(k)}
<1>1. ASSUME T # {} PROVE FALSE
  <2>1. PICK m \in T : \A k \in T : m <= k
    BY <1>1, LeastNumber
  <2>2. CASE m = 0
    <3> DEFINE f == [i \in 1..0 |-> Midnight]
    <3>1. f = [i \in 1..m |-> SlotOf(existing, given, f, i)]
      BY <2>2
    <3> QED
      BY <2>1, <3>1
  <2>3. CASE m # 0
    <3>1. m - 1 \in Nat /\ m - 1 \notin T
      BY <2>1, <2>3
    <3>2. PICK f : f = [i \in 1..(m - 1) |-> SlotOf(existing, given, f, i)]
      BY <3>1
    <3> DEFINE g == [i \in 1..m |-> IF i < m THEN f[i] ELSE SlotOf(existing, given, f, i)]
    <3>3. ASSUME NEW i \in 1..m PROVE g[i] = SlotOf(existing, given, g, i)
      <4>1. i > 1 => f[i - 1] = g[i - 1]
        OBVIOUS
      <4>2. SlotOf(existing, given, f, i) = SlotOf(existing, given, g, i)
        BY <4>1, SlotOfLocal
      <4>3. g[i] = SlotOf(existing, given, f, i)
        BY <3>2
      <4> QED
        BY <4>2, <4>3
    <3>4. g = [i \in 1..m |-> SlotOf(existing, given, g, i)]
      BY <3>3
    <3> HIDE DEF g
    <3> QED
      BY <2>1, <3>4
  <2> QED
    BY <2>2, <2>3
<1> QED
  BY <1>1

\* The merged day has EventsPerDay slots, each of them made as SlotOf says.
LEMMA MergedSlots ==
  ASSUME NEW existing, NEW given
  PROVE  /\ DOMAIN MergedDay(existing, given) = 1..EventsPerDay
         /\ MergedDay(existing, given) =
              [i \in 1..EventsPerDay |-> MergedDay(existing, given)[i]]
         /\ \A i \in 1..EventsPerDay :
               MergedDay(existing, given)[i] =
                  SlotOf(existing, given, MergedDay(existing, given), i)
<1> DEFINE m == MergedDay(existing, given)
<1>1. m = CHOOSE f : f = [i \in 1..EventsPerDay |-> SlotOf(existing, given, f, i)]
  BY DEF MergedDay, SlotOf
<1>2. m = [i \in 1..EventsPerDay |-> SlotOf(existing, given, m, i)]
  BY <1>1, SlotsExist, EventsPerDayAssumption
<1> QED
  BY <1>2

\* A day as a call may give it: typed by the schema, and accepted by the service.
AcceptedDay(given) ==
    given \in Seq(GivenEvent) /\ Len(given) <= EventsPerDay /\ ValidDay(Parsed(given))

\* The events given are ones of the device's, and in order.
LEMMA ParsedEvents ==
  ASSUME NEW given, AcceptedDay(given)
  PROVE  /\ Len(given) \in 0..EventsPerDay
         /\ \A i \in 1..Len(given) : GoodEvent(ParsedEvent(given[i]))
         /\ \A i \in 1..(Len(given) - 1) :
               HomeProgramEventMinutes(ParsedEvent(given[i]))
                  <= HomeProgramEventMinutes(ParsedEvent(given[i + 1]))
<1>1. Len(given) \in 0..EventsPerDay
  BY EventsPerDayAssumption DEF AcceptedDay
<1>2. ASSUME NEW i \in 1..Len(given) PROVE ParsedEvent(given[i]) \in HomeProgramEvent
  <2>1. given[i] \in GivenEvent
    BY <1>2 DEF AcceptedDay
  <2>2. \A t \in Int : RoundedTenths(t) \in Int
    BY DEF RoundedTenths
  <2> QED
    BY <2>1, <2>2 DEF GivenEvent, ParsedEvent, HomeProgramEvent
<1>3. /\ Len(Parsed(given)) = Len(given)
      /\ \A i \in 1..Len(given) : Parsed(given)[i] = ParsedEvent(given[i])
  <2>1. Parsed(given) \in Seq(HomeProgramEvent)
    BY <1>1, <1>2 DEF Parsed
  <2> QED
    BY <1>1, <2>1 DEF Parsed
<1>4. ValidDay(Parsed(given))
  BY DEF AcceptedDay
<1>5. ASSUME NEW i \in 1..(Len(given) - 1)
      PROVE  HomeProgramEventMinutes(ParsedEvent(given[i]))
                <= HomeProgramEventMinutes(ParsedEvent(given[i + 1]))
  <2>1. i \in 1..Len(given) /\ i + 1 \in 1..Len(given)
    BY <1>1
  <2> QED
    BY <1>3, <1>4, <2>1 DEF ValidDay, InOrder
<1>6. \A i \in 1..Len(given) : GoodEvent(ParsedEvent(given[i]))
  BY <1>2, <1>3, <1>4 DEF ValidDay, GoodEvent
<1> QED
  BY <1>1, <1>5, <1>6

\* The minutes of a good event, counted from daybreak.
LEMMA MinutesAreNumbers ==
  ASSUME NEW e, GoodEvent(e)
  PROVE  HomeProgramEventMinutes(e) \in Nat
  BY DEF GoodEvent, HomeProgramEvent, HomeProgramEventMinutes

\* A padding slot is off, is one of the device's and does not precede the slot before.
LEMMA PaddingFits ==
  ASSUME NEW source, NEW previous, GoodEvent(source), GoodEvent(previous)
  PROVE  /\ GoodEvent(Padding(source, previous)) /\ ~Padding(source, previous).active
         /\ HomeProgramEventMinutes(previous)
               <= HomeProgramEventMinutes(Padding(source, previous))
<1>1. CASE HomeProgramEventMinutes(source) < HomeProgramEventMinutes(previous)
  <2>1. Padding(source, previous) = [source EXCEPT !.active = FALSE,
                               !.hour = previous.hour, !.minute = previous.minute]
    BY <1>1 DEF Padding
  <2>2. HomeProgramEventMinutes(Padding(source, previous)) = HomeProgramEventMinutes(previous)
    BY <2>1 DEF GoodEvent, HomeProgramEvent, HomeProgramEventMinutes
  <2>3. GoodEvent(Padding(source, previous)) /\ ~Padding(source, previous).active
    BY <2>1 DEF GoodEvent, HomeProgramEvent
  <2> QED
    BY <2>2, <2>3, MinutesAreNumbers
<1>2. CASE ~(HomeProgramEventMinutes(source) < HomeProgramEventMinutes(previous))
  <2>1. Padding(source, previous) = [source EXCEPT !.active = FALSE]
    BY <1>2 DEF Padding
  <2>2. HomeProgramEventMinutes(Padding(source, previous)) = HomeProgramEventMinutes(source)
    BY <2>1 DEF GoodEvent, HomeProgramEvent, HomeProgramEventMinutes
  <2>3. GoodEvent(Padding(source, previous)) /\ ~Padding(source, previous).active
    BY <2>1 DEF GoodEvent, HomeProgramEvent
  <2> QED
    BY <1>2, <2>2, <2>3, MinutesAreNumbers
<1> QED
  BY <1>1, <1>2

\* What SlotOf makes of a good day.
LEMMA SlotCases ==
  ASSUME NEW existing, GoodDay(existing), NEW given, NEW f, NEW i \in 1..EventsPerDay
  PROVE  SlotOf(existing, given, f, i) =
            IF i <= Len(given) THEN ParsedEvent(given[i])
            ELSE Padding(existing[i], IF i > 1 THEN f[i - 1] ELSE existing[i])
<1>1. Len(existing) = EventsPerDay
  BY GoodDays
<1> QED
  BY <1>1 DEF SlotOf

\* Every slot of the merged day is one of the device's, by induction on its place.
LEMMA MergedEvents ==
  ASSUME NEW existing, GoodDay(existing), NEW given, AcceptedDay(given)
  PROVE  \A i \in 1..EventsPerDay : GoodEvent(MergedDay(existing, given)[i])
<1> DEFINE m == MergedDay(existing, given)
           T == {i \in 1..EventsPerDay : ~GoodEvent(m[i])}
<1>1. T \subseteq Nat
  BY EventsPerDayAssumption
<1>2. ASSUME NEW i \in T, \A j \in T : i <= j PROVE FALSE
  <2>1. i > 1 => GoodEvent(m[i - 1])
    BY <1>2, EventsPerDayAssumption
  <2>2. m[i] = SlotOf(existing, given, m, i)
    BY MergedSlots
  <2>3. i <= Len(given) => GoodEvent(ParsedEvent(given[i]))
    BY ParsedEvents, EventsPerDayAssumption
  <2>4. GoodEvent(existing[i])
    BY DEF GoodDay
  <2> HIDE DEF m
  <2>5. GoodEvent(SlotOf(existing, given, m, i))
    BY <2>1, <2>3, <2>4, SlotCases, PaddingFits
  <2> QED
    BY <2>2, <2>5
<1> QED
  BY <1>1, <1>2, LeastNumber

\* The merged day is one the device accepts, and holds what was given.
LEMMA MergedDayIsGood ==
  ASSUME NEW existing, GoodDay(existing), NEW given, AcceptedDay(given)
  PROVE  GoodDay(MergedDay(existing, given)) /\ Holds(MergedDay(existing, given), given)
<1> DEFINE m == MergedDay(existing, given)
<1>1. \A i \in 1..EventsPerDay : GoodEvent(m[i])
  BY MergedEvents
<1>2. m = [i \in 1..EventsPerDay |-> m[i]]
  BY MergedSlots
<1>3. m \in [1..EventsPerDay -> HomeProgramEvent]
  BY <1>1, <1>2, Zenon DEF GoodEvent
<1>4. \A i \in 1..EventsPerDay : m[i] = SlotOf(existing, given, m, i)
  BY MergedSlots
<1> HIDE DEF m
<1>5. \A i \in 1..EventsPerDay :
         m[i] = IF i <= Len(given) THEN ParsedEvent(given[i])
                ELSE Padding(existing[i], IF i > 1 THEN m[i - 1] ELSE existing[i])
  BY <1>4, SlotCases
<1>6. ASSUME NEW i \in 1..(EventsPerDay - 1)
      PROVE  HomeProgramEventMinutes(m[i]) <= HomeProgramEventMinutes(m[i + 1])
  <2>1. i \in 1..EventsPerDay /\ i + 1 \in 1..EventsPerDay /\ i + 1 > 1 /\ (i + 1) - 1 = i
    BY EventsPerDayAssumption
  <2>2. CASE i + 1 <= Len(given)
    <3>1. i \in 1..(Len(given) - 1) /\ i <= Len(given)
      BY <2>1, <2>2, ParsedEvents
    <3> QED
      BY <1>5, <2>1, <2>2, <3>1, ParsedEvents
  <2>3. CASE ~(i + 1 <= Len(given))
    <3>1. m[i + 1] = Padding(existing[i + 1], m[i])
      BY <1>5, <2>1, <2>3
    <3> QED
      BY <1>1, <2>1, <3>1, PaddingFits DEF GoodDay
  <2> QED
    BY <2>2, <2>3
<1>7. Holds(m, given)
  <2>1. ASSUME NEW i \in 1..EventsPerDay, ~(i <= Len(given)) PROVE ~m[i].active
    <3>1. i > 1 => GoodEvent(m[i - 1])
      BY <1>1, EventsPerDayAssumption
    <3>2. m[i] = Padding(existing[i], IF i > 1 THEN m[i - 1] ELSE existing[i])
      BY <1>5, <2>1
    <3> QED
      BY <3>1, <3>2, PaddingFits DEF GoodDay
  <2> QED
    BY <1>5, <2>1 DEF Holds
<1> QED
  BY <1>1, <1>3, <1>6, <1>7 DEF GoodDay, m

\* A slot that is off already and not too early stays as it is.
LEMMA PaddingKeeps ==
  ASSUME NEW e, GoodEvent(e), ~e.active, NEW previous, GoodEvent(previous),
         HomeProgramEventMinutes(previous) <= HomeProgramEventMinutes(e)
  PROVE  Padding(e, previous) = e
<1>1. Padding(e, previous) = [e EXCEPT !.active = FALSE]
  BY MinutesAreNumbers DEF Padding
<1> QED
  BY <1>1 DEF GoodEvent, HomeProgramEvent

\* Merging twice is merging once, by induction on the slots.
LEMMA MergedDayTwice ==
  ASSUME NEW existing, GoodDay(existing), NEW given, AcceptedDay(given)
  PROVE  MergedDay(MergedDay(existing, given), given) = MergedDay(existing, given)
<1> DEFINE m == MergedDay(existing, given)
           n == MergedDay(m, given)
           T == {i \in 1..EventsPerDay : n[i] # m[i]}
<1>1. GoodDay(m) /\ Holds(m, given)
  BY MergedDayIsGood
<1>2. m = [i \in 1..EventsPerDay |-> m[i]] /\ n = [i \in 1..EventsPerDay |-> n[i]]
  BY MergedSlots
<1>3. \A i \in 1..EventsPerDay : n[i] = SlotOf(m, given, n, i)
  BY MergedSlots
<1> HIDE DEF m, n
<1>4. T \subseteq Nat
  BY EventsPerDayAssumption
<1>5. ASSUME NEW i \in T, \A j \in T : i <= j PROVE FALSE
  <2>1. i > 1 => i - 1 \in 1..EventsPerDay /\ n[i - 1] = m[i - 1]
    BY <1>5, EventsPerDayAssumption
  <2>2. n[i] = IF i <= Len(given) THEN ParsedEvent(given[i])
               ELSE Padding(m[i], IF i > 1 THEN n[i - 1] ELSE m[i])
    BY <1>1, <1>3, SlotCases
  <2>3. CASE i <= Len(given)
    BY <1>1, <2>2, <2>3 DEF Holds
  <2>4. CASE ~(i <= Len(given)) /\ i > 1
    <3>1. HomeProgramEventMinutes(m[i - 1]) <= HomeProgramEventMinutes(m[i])
      BY <1>1, <2>4, EventsPerDayAssumption DEF GoodDay
    <3> QED
      BY <1>1, <2>1, <2>2, <2>4, <3>1, PaddingKeeps DEF Holds, GoodDay
  <2>5. CASE ~(i <= Len(given)) /\ ~(i > 1)
    <3>1. HomeProgramEventMinutes(m[i]) <= HomeProgramEventMinutes(m[i])
      BY <1>1, MinutesAreNumbers DEF GoodDay
    <3> QED
      BY <1>1, <2>2, <2>5, <3>1, PaddingKeeps DEF Holds, GoodDay
  <2> QED
    BY <2>3, <2>4, <2>5
<1>6. T = {}
  BY <1>4, <1>5, LeastNumber
<1> QED
  BY <1>2, <1>6 DEF m, n

-----------------------------------------------------------------------------
(* merge_home_program, of a program.                                       *)

\* The days a call is to write, as _collect_updates gives them.
Accepted(u) == DOMAIN u \subseteq Days /\ \A d \in DOMAIN u : AcceptedDay(u[d])

\* Program p is what updates u lead to: it holds them, and they change nothing in it.
Settled(p, u) ==
    /\ Good(p) /\ MergeHomeProgram(p, u) = p
    /\ \A d \in DOMAIN u : Holds(p[d], u[d])

\* The merged program is accepted by the device, settled, and the old one elsewhere.
LEMMA MergeSettles ==
  ASSUME NEW p, Good(p), NEW u, Accepted(u)
  PROVE  /\ Settled(MergeHomeProgram(p, u), u)
         /\ \A d \in Days \ DOMAIN u : MergeHomeProgram(p, u)[d] = p[d]
<1> DEFINE q == MergeHomeProgram(p, u)
<1>1. /\ q = [d \in Days |-> q[d]]
      /\ \A d \in Days : q[d] = IF d \in DOMAIN u THEN MergedDay(p[d], u[d]) ELSE p[d]
  BY DEF MergeHomeProgram
<1>2. MergeHomeProgram(q, u) =
         [d \in Days |-> IF d \in DOMAIN u THEN MergedDay(q[d], u[d]) ELSE q[d]]
  BY DEF MergeHomeProgram
<1> HIDE DEF q
<1>3. ASSUME NEW d \in DOMAIN u
      PROVE  /\ d \in Days /\ GoodDay(q[d]) /\ Holds(q[d], u[d])
             /\ MergedDay(q[d], u[d]) = q[d]
  <2>1. d \in Days /\ GoodDay(p[d]) /\ AcceptedDay(u[d])
    BY DEF Accepted, Good
  <2> QED
    BY <1>1, <2>1, MergedDayIsGood, MergedDayTwice
<1>4. Good(q)
  BY <1>1, <1>3 DEF Good
<1>5. MergeHomeProgram(q, u) = q
  BY <1>1, <1>2, <1>3
<1> QED
  BY <1>1, <1>3, <1>4, <1>5 DEF Settled, q

-----------------------------------------------------------------------------
(* The service call.                                                       *)

\* The answer of get_home_program gives a day back event by event.
LEMMA ResponseDay ==
  ASSUME NEW p, Good(p), NEW d \in Days
  PROVE  /\ ProgramToResponse(p)[d] \in Seq(GivenEvent)
         /\ Len(ProgramToResponse(p)[d]) = EventsPerDay
         /\ \A i \in 1..EventsPerDay : ValidTime(ProgramToResponse(p)[d][i].time)
         /\ \A i \in 1..EventsPerDay : ParsedEvent(ProgramToResponse(p)[d][i]) = p[d][i]
<1> DEFINE Back(i) == [time |-> <<p[d][i].hour, p[d][i].minute, 0>>,
                       temperature |-> p[d][i].temperature * 10,
                       active |-> p[d][i].active]
<1>1. ProgramToResponse(p)[d] = [i \in 1..EventsPerDay |-> Back(i)]
  BY DEF ProgramToResponse
<1>2. ASSUME NEW i \in 1..EventsPerDay
      PROVE  /\ Back(i) \in GivenEvent /\ ValidTime(Back(i).time)
             /\ ParsedEvent(Back(i)) = p[d][i]
  <2>1. GoodEvent(p[d][i])
    BY DEF Good, GoodDay
  <2>2. \A t \in Int : RoundedTenths(t * 10) = t
    BY DEF RoundedTenths
  <2>3. Back(i) \in GivenEvent /\ ValidTime(Back(i).time)
    BY <2>1 DEF GoodEvent, HomeProgramEvent, GivenEvent, ValidTime
  <2>4. ParsedEvent(Back(i)) = p[d][i]
    BY <2>1, <2>2 DEF GoodEvent, HomeProgramEvent, ParsedEvent
  <2> QED
    BY <2>3, <2>4
<1> HIDE DEF Back
<1>3. [i \in 1..EventsPerDay |-> Back(i)] \in Seq(GivenEvent)
  BY <1>2, EventsPerDayAssumption
<1> QED
  BY <1>1, <1>2, <1>3, EventsPerDayAssumption

\* It is accepted by set_home_program, as updates that hold in the program.
LEMMA ResponseIsAccepted ==
  ASSUME NEW p, Good(p)
  PROVE  LET data == ProgramToResponse(p) IN
         /\ DOMAIN data = Days /\ CollectUpdates(data) = data
         /\ ServiceAccepts(data) /\ Accepted(data)
         /\ \A d \in Days : \A i \in 1..EventsPerDay : ParsedEvent(data[d][i]) = p[d][i]
<1> DEFINE data == ProgramToResponse(p)
<1>1. DOMAIN data = Days /\ data = [d \in Days |-> data[d]]
  BY DEF ProgramToResponse
<1>2. ASSUME NEW d \in Days
      PROVE  /\ ValidGivenDay(data[d]) /\ AcceptedDay(data[d]) /\ ValidDay(Parsed(data[d]))
             /\ \A i \in 1..EventsPerDay : ParsedEvent(data[d][i]) = p[d][i]
  <2>1. /\ data[d] \in Seq(GivenEvent) /\ Len(data[d]) = EventsPerDay
        /\ \A i \in 1..EventsPerDay : ValidTime(data[d][i].time)
        /\ \A i \in 1..EventsPerDay : ParsedEvent(data[d][i]) = p[d][i]
    BY ResponseDay
  <2>2. p[d] = [i \in 1..EventsPerDay |-> p[d][i]] /\ ValidDay(p[d])
    BY GoodDays DEF Good, GoodDay
  <2> HIDE DEF data
  <2>3. Parsed(data[d]) = p[d]
    BY <2>1, <2>2 DEF Parsed
  <2>4. ValidGivenDay(data[d])
    BY <2>1, EventsPerDayAssumption DEF ValidGivenDay
  <2> QED
    BY <2>1, <2>2, <2>3, <2>4, EventsPerDayAssumption DEF AcceptedDay
<1> HIDE DEF data
<1>3. NamedOnce(data) = Days /\ NamedTogether(data) = {}
      /\ "days" \notin DOMAIN data /\ "events" \notin DOMAIN data
  BY <1>1, DaysAssumption DEF NamedOnce, NamedTogether
<1>4. CollectUpdates(data) = data
  BY <1>1, <1>3 DEF CollectUpdates
<1>5. WellFormed(data)
  <2>1. ("days" \in DOMAIN data) = ("events" \in DOMAIN data)
    BY <1>3
  <2>2. \A d \in NamedOnce(data) : ValidGivenDay(data[d])
    BY <1>2, <1>3
  <2>3. NamedOnce(data) \cap NamedTogether(data) = {}
        /\ NamedOnce(data) \cup NamedTogether(data) # {}
    BY <1>3, DaysAssumption
  <2> QED
    BY <1>3, <2>1, <2>2, <2>3 DEF WellFormed
<1>6. ServiceAccepts(data)
  BY <1>1, <1>2, <1>4, <1>5 DEF ServiceAccepts
<1> QED
  BY <1>1, <1>2, <1>4, <1>6 DEF Accepted, data

\* So that pasting it back changes nothing.
LEMMA ResponseChangesNothing ==
  ASSUME NEW p, Good(p)
  PROVE  MergeHomeProgram(p, CollectUpdates(ProgramToResponse(p))) = p
<1> DEFINE data == ProgramToResponse(p)
           q == MergeHomeProgram(p, data)
<1>1. /\ DOMAIN data = Days /\ CollectUpdates(data) = data /\ Accepted(data)
      /\ \A d \in Days : \A i \in 1..EventsPerDay : ParsedEvent(data[d][i]) = p[d][i]
  BY ResponseIsAccepted
<1>2. \A d \in Days : Len(data[d]) = EventsPerDay
  BY ResponseDay
<1> HIDE DEF data
<1>3. Settled(q, data)
  BY <1>1, MergeSettles
<1> HIDE DEF q
<1>4. ASSUME NEW d \in Days PROVE q[d] = p[d]
  <2>1. \A i \in 1..EventsPerDay : q[d][i] = p[d][i]
    BY <1>1, <1>2, <1>3, EventsPerDayAssumption DEF Settled, Holds
  <2>2. /\ q[d] = [i \in 1..EventsPerDay |-> q[d][i]]
        /\ p[d] = [i \in 1..EventsPerDay |-> p[d][i]]
    BY <1>3 DEF Settled, Good, GoodDay
  <2> QED
    BY <2>1, <2>2
<1>5. q = p
  BY <1>3, <1>4 DEF Settled, Good
<1> QED
  BY <1>1, <1>5 DEF q, data

\* What the service accepts is what a call may write.
LEMMA RequestIsAccepted ==
  ASSUME NEW data \in Requests, ServiceAccepts(data)
  PROVE  Accepted(CollectUpdates(data))
<1> DEFINE u == CollectUpdates(data)
<1>1. WellFormed(data) /\ \A d \in DOMAIN u : ValidDay(Parsed(u[d]))
  BY DEF ServiceAccepts
<1>2. /\ DOMAIN u = NamedOnce(data) \cup NamedTogether(data)
      /\ \A d \in DOMAIN u : u[d] = IF d \in DOMAIN data THEN data[d] ELSE data.events
  BY DEF CollectUpdates
<1>3. /\ \A f \in DOMAIN data \ {"days"} : data[f] \in Seq(GivenEvent)
      /\ "days" \in DOMAIN data => data.days \subseteq Days
  BY RequestsAssumption
<1> HIDE DEF u
<1>4. ASSUME NEW d \in DOMAIN u
      PROVE  d \in Days /\ u[d] \in Seq(GivenEvent) /\ Len(u[d]) <= EventsPerDay
  <2>1. CASE d \in NamedOnce(data)
    <3>1. d \in Days /\ d \in DOMAIN data /\ d # "days" /\ ValidGivenDay(data[d])
      BY <1>1, <2>1, DaysAssumption DEF NamedOnce, WellFormed
    <3> QED
      BY <1>2, <1>3, <3>1 DEF ValidGivenDay
  <2>2. CASE d \in NamedTogether(data) /\ d \notin NamedOnce(data)
    <3>1. "days" \in DOMAIN data /\ d \in data.days
      BY <2>2 DEF NamedTogether
    <3>2. d \in Days /\ d \notin DOMAIN data
      BY <1>3, <2>2, <3>1 DEF NamedOnce
    <3>3. "events" \in DOMAIN data /\ ValidGivenDay(data.events)
      BY <1>1, <3>1 DEF WellFormed
    <3>4. data.events \in Seq(GivenEvent)
      BY <1>3, <3>3
    <3> QED
      BY <1>2, <3>2, <3>3, <3>4 DEF ValidGivenDay
  <2> QED
    BY <1>2, <2>1, <2>2
<1> QED
  BY <1>1, <1>4 DEF Accepted, AcceptedDay, u

-----------------------------------------------------------------------------
(* The inductive invariant. *)

\* The connection is asked for and held exactly where the calls are suspended, and an
\* attempt that is over has an outcome.
SlotInv ==
    /\ \A c \in Calls : c \in asking <=> place[c] = "asking"
    /\ \A c \in Calls : c \in holding <=> place[c] \in {"connected", "writing", "closing"}
    /\ \A c, d \in holding : c = d
    /\ \A c \in Calls : place[c] = "closing" => outcome[c] # "none"

\* The calls' variables have their types, and what a call is to write and a response
\* gives back has passed the service's check; no call is refused after that.
CallInv ==
    /\ place \in [Calls -> {"idle", "asking", "connected", "writing", "closing"}]
    /\ attempt \in [Calls -> 0..MaxAttempts]
    /\ outcome \in [Calls -> {"none", "ok", "failed", "refused by the service"}]
    /\ updates = [c \in Calls |-> updates[c]] /\ \A c \in Calls : Accepted(updates[c])
    /\ asking \subseteq Calls /\ holding \subseteq Calls
    /\ response = NoUpdates \/ (\E p : Good(p) /\ response = ProgramToResponse(p))
    /\ settleDue \in BOOLEAN /\ menuEdits \in 0..MaxMenuEdits

\* What a call has sent is a program, and holds its updates, which would change nothing.
MergedInv ==
    /\ merged = [c \in Calls |-> merged[c]]
    /\ \A c \in Calls : merged[c] = NoUpdates \/ Good(merged[c])
    /\ \A c \in Calls : place[c] = "writing" => Settled(merged[c], updates[c])

\* The SETs the device has not applied.
InFlight == wire \cup staged

\* There is one SET at a time, of a call that has been made: what the call merged.
FlightInv ==
    /\ wire = {} \/ staged = {}
    /\ \A s \in InFlight : /\ s.by \in Calls /\ ~New(s.by)
                           /\ Settled(UnpackHomeProgram(s.program), updates[s.by])
    /\ \A s \in wire : place[s.by] \in {"writing", "closing"}
    /\ \A c \in Calls : place[c] = "writing" => \A s \in InFlight :
          s.by = c /\ UnpackHomeProgram(s.program) = merged[c]

\* A SET carries the days its call does not name as the device has them, as long as
\* the user stays away or the day is owed to somebody; and all of them, if the program
\* is the call's already.
ApartInv ==
    \A s \in InFlight :
       /\ \A d \in Days \ DOMAIN updates[s.by] : menuEdits = 0 \/ owed[d] # {} =>
             UnpackHomeProgram(s.program)[d] = device[d]
       /\ s.by \in author => UnpackHomeProgram(s.program) = device

\* The device's program is one it accepts; its author's updates change nothing in it,
\* and it holds what is owed.
DeviceInv ==
    /\ Good(device)
    /\ author \subseteq Calls
    /\ \A c \in author : ~New(c) /\ MergeHomeProgram(device, updates[c]) = device
    /\ owed = [d \in Days |-> owed[d]]
    /\ AcknowledgedDaysSurvive

ProgramInv == SlotInv /\ CallInv /\ MergedInv /\ FlightInv /\ ApartInv /\ DeviceInv

-----------------------------------------------------------------------------
(* What the steps do. *)

\* A read gives the device's program as it is.
LEMMA ReadsDevice == ASSUME DeviceInv PROVE ProgramRead = device
  BY ProgramRoundTrip DEF DeviceInv, ProgramRead

\* A set call begins with updates the service has accepted, a get call with none.
LEMMA BeginsAccepted ==
  ASSUME CallInv, NEW c \in Calls, SetProgram(c) \/ GetProgram(c)
  PROVE  \E u : Accepted(u) /\ BeginCall(c, u)
<1>1. CASE SetProgram(c)
  <2>1. PICK data \in Requests \cup (IF response = NoUpdates THEN {} ELSE {response}) :
           ServiceAccepts(data) /\ BeginCall(c, CollectUpdates(data))
    BY <1>1 DEF SetProgram
  <2>2. CASE data \in Requests
    BY <2>1, <2>2, RequestIsAccepted
  <2>3. CASE data = response /\ response # NoUpdates
    <3>1. PICK p : Good(p) /\ response = ProgramToResponse(p)
      BY <2>3 DEF CallInv
    <3>2. Accepted(CollectUpdates(data))
      BY <2>3, <3>1, ResponseIsAccepted
    <3> QED
      BY <2>1, <3>2
  <2> QED
    BY <2>1, <2>2, <2>3
<1>2. CASE GetProgram(c)
  <2>1. Accepted(NoUpdates)
    BY DEF Accepted, NoUpdates
  <2> QED
    BY <1>2, <2>1 DEF GetProgram
<1> QED
  BY <1>1, <1>2

\* The program merged from the device's goes out, whatever was merged before.
Sends(c) ==
    LET q == MergeHomeProgram(device, updates[c]) IN
    /\ ReadReturns(c)
    /\ merged' = [merged EXCEPT ![c] = q]
    /\ wire' = {[by |-> c, program |-> PackHomeProgram(q)]}
    /\ place' = [place EXCEPT ![c] = "writing"]
    /\ UNCHANGED <<attempt, updates, outcome, slotVars, haVars, staged, device, menuEdits,
                   history>>

\* The device accepts the merged program, so that it is sent.
LEMMA SetReadsSends ==
  ASSUME CallInv, DeviceInv, NEW c \in Calls, SetReads(c)
  PROVE  Sends(c)
<1> DEFINE q == MergeHomeProgram(device, updates[c])
<1>1. ReadReturns(c) /\ SendProgram(c, q)
  BY ReadsDevice DEF SetReads
<1>2. Good(q)
  BY MergeSettles DEF CallInv, DeviceInv, Settled
<1>3. ValidHomeProgram(q)
  BY <1>2, GoodPrograms
<1> HIDE DEF q
<1> QED
  BY <1>1, <1>3 DEF SendProgram, Sends, q

\* The device applies a SET, and no other is on its way ...
Applies ==
    /\ \E s \in InFlight : Store(s)
    /\ wire' = {} /\ staged' = {}
    /\ UNCHANGED <<callVars, slotVars, haVars, menuEdits>>

\* ... or takes it without applying it.
Takes ==
    /\ wire' = {} /\ staged' \subseteq InFlight
    /\ UNCHANGED <<callVars, slotVars, haVars, device, menuEdits, history>>

\* The device does one or the other.
LEMMA DeviceSteps ==
  ASSUME FlightInv, DeviceTakesSet \/ DeviceApplies
  PROVE  Applies \/ Takes
  BY DEF FlightInv, DeviceTakesSet, DeviceApplies, Applies, Takes, InFlight

\* Every step is one of these.
CallSteps(c) ==
    \/ \E u : Accepted(u) /\ BeginCall(c, u)
    \/ RefuseRequest(c) \/ Connect(c) \/ GetReads(c) \/ Sends(c) \/ Readback(c)
    \/ AttemptFails(c) \/ Closed(c)

\* For what is on its way, every step is one of four kinds: quiet, clearing, a call that
\* draws its counters, or the device taking a frame.
LEMMA StepKinds ==
  ASSUME ProgramInv, Next
  PROVE  (\E c \in Calls : CallSteps(c)) \/ SettlePoll \/ Applies \/ Takes \/ MenuEdit
<1> USE DEF ProgramInv
<1>1. ASSUME NEW c \in Calls, SetProgram(c) \/ GetProgram(c) PROVE CallSteps(c)
  BY <1>1, BeginsAccepted DEF CallSteps
<1>2. ASSUME NEW c \in Calls, AttemptStep(c) PROVE CallSteps(c)
  BY <1>2, SetReadsSends DEF CallSteps, AttemptStep
<1>3. ASSUME NEW c \in Calls, RefuseRequest(c) \/ Connect(c) \/ Closed(c) PROVE CallSteps(c)
  BY <1>3 DEF CallSteps
<1>4. CASE DeviceTakesSet \/ DeviceApplies
  BY <1>4, DeviceSteps
<1> QED
  BY <1>1, <1>2, <1>3, <1>4 DEF Next

\* A call asks for the connection, or for the next one ...
Asks(c) ==
    /\ place' = [place EXCEPT ![c] = "asking"]
    /\ outcome' = [outcome EXCEPT ![c] = "none"]
    /\ asking' = asking \cup {c} /\ holding' = holding \ {c}

\* ... or returns.
Returns(c) ==
    /\ place' = [place EXCEPT ![c] = "idle"]
    /\ outcome' = [outcome EXCEPT ![c] = "failed"] \/ outcome' = outcome
    /\ asking' = asking /\ holding' = holding \ {c}

AsksOrReturns(c) == Asks(c) \/ Returns(c)

\* What NextAttempt does to the call and the slot.
LEMMA NextAttemptEffect ==
  ASSUME CallInv, SlotInv, NEW c \in Calls, NEW first \in Nat, NextAttempt(c, first)
  PROVE  /\ attempt' \in [Calls -> 0..MaxAttempts]
         /\ AsksOrReturns(c)
<1>1. attempt \in [Calls -> 0..MaxAttempts] /\ MaxAttempts \in Nat
  BY MaxAttemptsAssumption DEF CallInv
<1>2. ASSUME NEW n \in first..MaxAttempts,
             /\ attempt' = [attempt EXCEPT ![c] = n]
             /\ place' = [place EXCEPT ![c] = "asking"]
             /\ outcome' = [outcome EXCEPT ![c] = "none"]
             /\ IF c \in holding THEN Slot!LineUpAgain(c) ELSE Slot!Ask(c)
      PROVE  attempt' \in [Calls -> 0..MaxAttempts] /\ Asks(c)
  <2>1. n \in 0..MaxAttempts
    BY <1>1
  <2> QED
    BY <1>1, <1>2, <2>1 DEF Slot!LineUpAgain, Slot!Ask, Asks
<1>3. CASE /\ attempt' = [attempt EXCEPT ![c] = MaxAttempts]
           /\ place' = [place EXCEPT ![c] = "idle"]
           /\ outcome' = [outcome EXCEPT ![c] = "failed"]
           /\ IF c \in holding THEN Slot!Leave(c) ELSE UNCHANGED slotVars
  <2>1. MaxAttempts \in 0..MaxAttempts
    BY <1>1
  <2>2. asking' = asking /\ holding' = holding \ {c}
    BY <1>3 DEF Slot!Leave, slotVars
  <2> QED
    BY <1>1, <1>3, <2>1, <2>2 DEF AsksOrReturns, Returns
<1> QED
  BY <1>2, <1>3 DEF NextAttempt, AsksOrReturns

\* So that a closing call asks again, or is over with an outcome; its SET, if it was
\* not taken, is lost.
LEMMA ClosedEffect ==
  ASSUME CallInv, SlotInv, NEW c \in Calls, Closed(c)
  PROVE  /\ place[c] = "closing" /\ wire' = {}
         /\ UNCHANGED <<updates, merged, response, staged, device, menuEdits, history>>
         /\ settleDue' \in BOOLEAN /\ attempt' \in [Calls -> 0..MaxAttempts]
         /\ AsksOrReturns(c)
<1>1. attempt[c] + 1 \in Nat
  <2>1. attempt[c] \in 0..MaxAttempts /\ MaxAttempts \in Nat
    BY MaxAttemptsAssumption DEF CallInv
  <2> QED
    BY <2>1
<1>2. CASE NextAttempt(c, attempt[c] + 1) /\ UNCHANGED settleDue
  <2>1. settleDue' \in BOOLEAN
    BY <1>2 DEF CallInv
  <2>2. /\ place[c] = "closing" /\ wire' = {}
        /\ UNCHANGED <<updates, merged, response, staged, device, menuEdits, history>>
    BY DEF Closed
  <2>3. NextAttempt(c, attempt[c] + 1)
    BY <1>2
  <2> QED
    BY <1>1, <2>1, <2>2, <2>3, NextAttemptEffect
<1>3. CASE /\ Slot!Leave(c)
           /\ place' = [place EXCEPT ![c] = "idle"]
           /\ settleDue' = (settleDue \/ (outcome[c] = "ok" /\ updates[c] # NoUpdates))
           /\ UNCHANGED <<attempt, outcome>>
  <2>1. settleDue' \in BOOLEAN
    BY <1>3
  <2> QED
    BY <1>3, <2>1 DEF Closed, CallInv, Slot!Leave, AsksOrReturns, Returns
<1> QED
  BY <1>2, <1>3 DEF Closed

\* The other calls stay where they are, and the slot invariant holds.
LEMMA AskOrReturnEffect ==
  ASSUME CallInv, SlotInv, NEW c \in Calls, AsksOrReturns(c),
         New(c) \/ place[c] = "closing"
  PROVE  /\ SlotInv'
         /\ place' \in [Calls -> {"idle", "asking", "connected", "writing", "closing"}]
         /\ outcome' \in [Calls -> {"none", "ok", "failed", "refused by the service"}]
         /\ asking' \subseteq Calls /\ holding' \subseteq Calls
         /\ place'[c] \in {"asking", "idle"}
         /\ \A d \in Calls : d # c => place'[d] = place[d] /\ outcome'[d] = outcome[d]
         /\ place[c] = "closing" => ~New(c)'
<1>1. CASE Asks(c)
  BY <1>1 DEF Asks, SlotInv, CallInv, New
<1>2. CASE Returns(c) /\ outcome' = outcome /\ place[c] = "closing"
  BY <1>2 DEF Returns, SlotInv, CallInv, New
<1>3. CASE Returns(c) /\ outcome' = outcome /\ New(c)
  BY <1>3 DEF Returns, SlotInv, CallInv, New
<1>4. CASE Returns(c) /\ outcome' = [outcome EXCEPT ![c] = "failed"]
  BY <1>4 DEF Returns, SlotInv, CallInv, New
<1> QED
  BY <1>1, <1>2, <1>3, <1>4 DEF AsksOrReturns, Returns

\* A call that has been made is not new again.
LEMMA MadeStaysMade ==
  ASSUME ProgramInv, Next, NEW c \in Calls, ~New(c)
  PROVE  ~New(c)' /\ updates'[c] = updates[c]
<1> USE DEF ProgramInv
<1>1. ASSUME NEW d \in Calls, NEW u, BeginCall(d, u) PROVE ~New(c)' /\ updates'[c] = updates[c]
  <2>1. c # d
    BY <1>1 DEF BeginCall
  <2>2. NextAttempt(d, 1) /\ New(d) /\ updates' = [updates EXCEPT ![d] = u]
    BY <1>1 DEF BeginCall
  <2>3. AsksOrReturns(d)
    BY <2>2, NextAttemptEffect
  <2> QED
    BY <2>1, <2>2, <2>3, AskOrReturnEffect DEF New, CallInv
<1>2. ASSUME NEW d \in Calls, Closed(d) PROVE ~New(c)' /\ updates'[c] = updates[c]
  <2>1. place[d] = "closing" /\ AsksOrReturns(d) /\ updates' = updates
    BY <1>2, ClosedEffect
  <2> QED
    BY <2>1, AskOrReturnEffect DEF New
<1>3. ASSUME NEW d \in Calls,
             RefuseRequest(d) \/ Connect(d) \/ GetReads(d) \/ Sends(d) \/ Readback(d)
                \/ AttemptFails(d)
      PROVE  ~New(c)' /\ updates'[c] = updates[c]
  BY <1>3
  DEF RefuseRequest, Connect, GetReads, Sends, Readback, AttemptFails, Teardown, New,
      CallInv
<1>4. CASE SettlePoll \/ Applies \/ Takes \/ MenuEdit
  BY <1>4 DEF SettlePoll, Applies, Takes, MenuEdit, New, callVars
<1> QED
  BY <1>1, <1>2, <1>3, <1>4, StepKinds DEF CallSteps

\* A call that begins was new, and asks for the connection or finds no scanner at all.
LEMMA BeginEffect ==
  ASSUME CallInv, SlotInv, NEW c \in Calls, NEW u, BeginCall(c, u)
  PROVE  /\ New(c) /\ updates' = [updates EXCEPT ![c] = u]
         /\ UNCHANGED <<merged, haVars, deviceVars, history>>
         /\ attempt' \in [Calls -> 0..MaxAttempts]
         /\ AsksOrReturns(c)
<1>1. /\ New(c) /\ updates' = [updates EXCEPT ![c] = u] /\ NextAttempt(c, 1)
      /\ UNCHANGED <<merged, haVars, deviceVars, history>>
  BY DEF BeginCall
<1> QED
  BY <1>1, NextAttemptEffect

-----------------------------------------------------------------------------
(* Init, and a step that changes nothing.                                  *)

\* The initial states satisfy the invariant.
LEMMA InitProgramInv == ASSUME Init PROVE ProgramInv
<1> USE DEF Init
<1>1. SlotInv
  BY DEF SlotInv, Slot!SlotInit
<1>2. CallInv
  <2>1. Accepted(NoUpdates)
    BY DEF Accepted, NoUpdates
  <2>2. 0 \in 0..MaxMenuEdits /\ 0 \in 0..MaxAttempts
    BY MaxMenuEditsAssumption, MaxAttemptsAssumption
  <2> QED
    BY <2>1, <2>2 DEF CallInv, Slot!SlotInit
<1>3. MergedInv
  BY DEF MergedInv
<1>4. FlightInv /\ ApartInv
  BY DEF FlightInv, ApartInv, InFlight
<1>5. Good(device)
  BY ProgramsAssumption, GoodPrograms
<1>6. DeviceInv
  BY <1>5 DEF DeviceInv, AcknowledgedDaysSurvive
<1> QED
  BY <1>1, <1>2, <1>3, <1>4, <1>6 DEF ProgramInv

\* A step that changes nothing keeps the invariant.
LEMMA StutterProgramInv == ASSUME ProgramInv, UNCHANGED vars PROVE ProgramInv'
<1> USE DEF ProgramInv, vars, callVars, slotVars, haVars, deviceVars, history
<1>1. SlotInv' /\ CallInv' /\ MergedInv'
  BY DEF SlotInv, CallInv, MergedInv
<1>2. FlightInv' /\ ApartInv'
  BY DEF FlightInv, ApartInv, InFlight, New
<1>3. DeviceInv'
  BY DEF DeviceInv, AcknowledgedDaysSurvive, New
<1> QED
  BY <1>1, <1>2, <1>3

-----------------------------------------------------------------------------
(* Every step keeps the invariant, conjunct by conjunct.                   *)

\* A call moves with the slot it asks for, takes and gives back.
LEMMA SlotStep == ASSUME ProgramInv, Next PROVE SlotInv'
<1> USE DEF ProgramInv
<1>1. ASSUME NEW c \in Calls, NEW u, BeginCall(c, u) PROVE SlotInv'
  BY <1>1, BeginEffect, AskOrReturnEffect
<1>2. ASSUME NEW c \in Calls, Closed(c) PROVE SlotInv'
  BY <1>2, ClosedEffect, AskOrReturnEffect
<1>3. ASSUME NEW c \in Calls, Connect(c) PROVE SlotInv'
  BY <1>3 DEF Connect, Slot!Enter, SlotInv, CallInv
<1>4. ASSUME NEW c \in Calls, RefuseRequest(c) PROVE SlotInv'
  BY <1>4 DEF RefuseRequest, New, SlotInv, CallInv, slotVars
<1>5. ASSUME NEW c \in Calls, GetReads(c) \/ Sends(c) \/ Readback(c) \/ AttemptFails(c)
      PROVE  SlotInv'
  BY <1>5
  DEF GetReads, Sends, Readback, AttemptFails, Teardown, ReadReturns, SlotInv, CallInv,
      slotVars
<1>6. CASE SettlePoll \/ Applies \/ Takes \/ MenuEdit
  BY <1>6 DEF SettlePoll, Applies, Takes, MenuEdit, SlotInv, callVars, slotVars
<1> QED
  BY <1>1, <1>2, <1>3, <1>4, <1>5, <1>6, StepKinds DEF CallSteps

\* The calls' variables keep their types, and no call is refused after connecting.
LEMMA CallStep == ASSUME ProgramInv, Next PROVE CallInv'
<1> USE DEF ProgramInv
<1>1. ASSUME NEW c \in Calls, NEW u, Accepted(u), BeginCall(c, u) PROVE CallInv'
  <2>1. /\ New(c) /\ AsksOrReturns(c) /\ updates' = [updates EXCEPT ![c] = u]
        /\ attempt' \in [Calls -> 0..MaxAttempts] /\ UNCHANGED <<haVars, deviceVars>>
    BY <1>1, BeginEffect
  <2> QED
    BY <1>1, <2>1, AskOrReturnEffect DEF CallInv, haVars, deviceVars
<1>2. ASSUME NEW c \in Calls, Closed(c) PROVE CallInv'
  <2>1. /\ place[c] = "closing" /\ AsksOrReturns(c) /\ settleDue' \in BOOLEAN
        /\ attempt' \in [Calls -> 0..MaxAttempts] /\ UNCHANGED <<updates, response, menuEdits>>
    BY <1>2, ClosedEffect
  <2> QED
    BY <2>1, AskOrReturnEffect DEF CallInv
<1>3. ASSUME NEW c \in Calls, Connect(c) PROVE CallInv'
  BY <1>3 DEF Connect, Slot!Enter, CallInv, haVars, deviceVars
<1>4. ASSUME NEW c \in Calls, GetReads(c) PROVE CallInv'
  <2>1. response' = ProgramToResponse(device) /\ Good(device)
    BY <1>4, ReadsDevice DEF GetReads, DeviceInv
  <2> HIDE DEF ProgramInv
  <2> QED
    BY <1>4, <2>1 DEF ProgramInv, GetReads, Teardown, CallInv, slotVars, deviceVars
<1>5. ASSUME NEW c \in Calls, RefuseRequest(c) \/ Sends(c) \/ Readback(c) \/ AttemptFails(c)
      PROVE  CallInv'
  BY <1>5
  DEF RefuseRequest, Sends, Readback, AttemptFails, Teardown, CallInv, slotVars, haVars,
      deviceVars
<1>6. CASE SettlePoll \/ Applies \/ Takes
  BY <1>6
  DEF SettlePoll, Applies, Takes, CallInv, callVars, slotVars, haVars, deviceVars
<1>7. CASE MenuEdit
  <2>1. menuEdits' \in 0..MaxMenuEdits
    <3>1. menuEdits \in 0..MaxMenuEdits
      BY DEF CallInv
    <3> QED
      BY <1>7, <3>1, MaxMenuEditsAssumption DEF MenuEdit
  <2> QED
    BY <1>7, <2>1 DEF MenuEdit, CallInv, callVars, slotVars, haVars
<1> QED
  BY <1>1, <1>2, <1>3, <1>4, <1>5, <1>6, <1>7, StepKinds DEF CallSteps

\* What a call sends holds its updates.
LEMMA MergedStep == ASSUME ProgramInv, Next PROVE MergedInv'
<1> USE DEF ProgramInv
<1>1. ASSUME NEW c \in Calls, NEW u, BeginCall(c, u) PROVE MergedInv'
  <2>1. New(c) /\ AsksOrReturns(c) /\ updates' = [updates EXCEPT ![c] = u] /\ merged' = merged
    BY <1>1, BeginEffect
  <2> QED
    BY <2>1, AskOrReturnEffect DEF MergedInv, CallInv
<1>2. ASSUME NEW c \in Calls, Closed(c) PROVE MergedInv'
  <2>1. place[c] = "closing" /\ AsksOrReturns(c) /\ UNCHANGED <<merged, updates>>
    BY <1>2, ClosedEffect
  <2> QED
    BY <2>1, AskOrReturnEffect DEF MergedInv
<1>3. ASSUME NEW c \in Calls, Sends(c) PROVE MergedInv'
  <2> DEFINE q == MergeHomeProgram(device, updates[c])
  <2>1. Settled(q, updates[c])
    BY MergeSettles DEF CallInv, DeviceInv
  <2>2. merged' = [merged EXCEPT ![c] = q] /\ updates' = updates
        /\ place' = [place EXCEPT ![c] = "writing"]
    BY <1>3 DEF Sends
  <2>3. Good(q)
    BY <2>1 DEF Settled
  <2> HIDE DEF q
  <2> QED
    BY <2>1, <2>2, <2>3 DEF MergedInv, CallInv
<1>4. ASSUME NEW c \in Calls,
             RefuseRequest(c) \/ Connect(c) \/ GetReads(c) \/ Readback(c) \/ AttemptFails(c)
      PROVE  MergedInv'
  BY <1>4
  DEF RefuseRequest, Connect, GetReads, Readback, AttemptFails, Teardown, MergedInv,
      CallInv
<1>5. CASE SettlePoll \/ Applies \/ Takes \/ MenuEdit
  BY <1>5 DEF SettlePoll, Applies, Takes, MenuEdit, MergedInv, callVars
<1> QED
  BY <1>1, <1>2, <1>3, <1>4, <1>5, StepKinds DEF CallSteps

\* There is one SET in flight at most, and it is what its call merged.
LEMMA FlightStep == ASSUME ProgramInv, Next PROVE FlightInv'
<1> USE DEF ProgramInv
<1>0. \A s \in InFlight : s.by \in Calls /\ ~New(s.by)' /\ updates'[s.by] = updates[s.by]
  BY MadeStaysMade DEF FlightInv
<1>1. ASSUME NEW c \in Calls, NEW u, BeginCall(c, u) PROVE FlightInv'
  <2>1. New(c) /\ AsksOrReturns(c) /\ UNCHANGED <<merged, wire, staged>>
    BY <1>1, BeginEffect DEF deviceVars
  <2>2. InFlight' = InFlight
    BY <2>1 DEF InFlight
  <2>3. \A d \in Calls : place'[d] = "writing" => place[d] = "writing"
    BY <2>1, AskOrReturnEffect
  <2>4. \A s \in wire : place'[s.by] \in {"writing", "closing"}
    <3> SUFFICES ASSUME NEW s \in wire PROVE place'[s.by] \in {"writing", "closing"}
      OBVIOUS
    <3>1. s.by \in Calls /\ s.by # c /\ place[s.by] \in {"writing", "closing"}
      BY <2>1 DEF FlightInv, InFlight
    <3> QED
      BY <2>1, <3>1, AskOrReturnEffect
  <2> QED
    BY <1>0, <2>1, <2>2, <2>3, <2>4 DEF FlightInv
<1>2. ASSUME NEW c \in Calls, Closed(c) PROVE FlightInv'
  <2>1. place[c] = "closing" /\ AsksOrReturns(c) /\ wire' = {} /\ UNCHANGED <<merged, staged>>
    BY <1>2, ClosedEffect
  <2>2. InFlight' \subseteq InFlight
    BY <2>1 DEF InFlight
  <2>3. \A d \in Calls : place'[d] = "writing" => place[d] = "writing"
    BY <2>1, AskOrReturnEffect
  <2> QED
    BY <1>0, <2>1, <2>2, <2>3 DEF FlightInv
<1>3. ASSUME NEW c \in Calls, Sends(c) PROVE FlightInv'
  <2> DEFINE q == MergeHomeProgram(device, updates[c])
             s == [by |-> c, program |-> PackHomeProgram(q)]
  <2>1. Settled(q, updates[c])
    BY MergeSettles DEF CallInv, DeviceInv
  <2>2. UnpackHomeProgram(PackHomeProgram(q)) = q
    BY <2>1, ProgramRoundTrip DEF Settled
  <2>3. /\ ReadReturns(c) /\ wire' = {s} /\ place' = [place EXCEPT ![c] = "writing"]
        /\ merged' = [merged EXCEPT ![c] = q]
        /\ UNCHANGED <<updates, outcome, staged>>
    BY <1>3 DEF Sends
  <2>4. s.by = c /\ UnpackHomeProgram(s.program) = q
    BY <2>2
  <2> HIDE DEF q, s
  <2>5. InFlight' = {s} /\ staged' = {}
    BY <2>3 DEF InFlight, ReadReturns
  <2>6. ~New(c)' /\ updates'[c] = updates[c]
    BY <2>3 DEF New, CallInv
  <2>7. \A d \in Calls : place'[d] = "writing" => d = c
    BY <2>3 DEF SlotInv, CallInv, ReadReturns
  <2>8. merged'[c] = q /\ place'[c] = "writing"
    BY <2>3 DEF MergedInv, CallInv
  <2> QED
    BY <2>1, <2>3, <2>4, <2>5, <2>6, <2>7, <2>8 DEF FlightInv
<1>4. ASSUME NEW c \in Calls,
             RefuseRequest(c) \/ Connect(c) \/ GetReads(c) \/ Readback(c) \/ AttemptFails(c)
      PROVE  FlightInv'
  <2>1. UNCHANGED <<merged, wire, staged>>
    BY <1>4 DEF RefuseRequest, Connect, GetReads, Readback, AttemptFails, deviceVars
  <2>2. InFlight' = InFlight
    BY <2>1 DEF InFlight
  <2>3. \A d \in Calls :
           /\ place'[d] = "writing" => place[d] = "writing"
           /\ place[d] \in {"writing", "closing"} => place'[d] \in {"writing", "closing"}
    BY <1>4
    DEF RefuseRequest, Connect, GetReads, Readback, AttemptFails, Teardown, CallInv,
        ReadReturns
  <2>4. \A s \in wire : place'[s.by] \in {"writing", "closing"}
    BY <2>3 DEF FlightInv, InFlight
  <2> QED
    BY <1>0, <2>1, <2>2, <2>3, <2>4 DEF FlightInv
<1>5. CASE Applies
  BY <1>5 DEF Applies, FlightInv, InFlight
<1>6. CASE SettlePoll \/ Takes \/ MenuEdit
  BY <1>6, <1>0
  DEF SettlePoll, Takes, MenuEdit, FlightInv, InFlight, callVars, deviceVars
<1> QED
  BY <1>1, <1>2, <1>3, <1>4, <1>5, <1>6, StepKinds DEF CallSteps

\* A SET in flight stays what the device has, where its call does not write.
LEMMA ApartStep == ASSUME ProgramInv, Next PROVE ApartInv'
<1> USE DEF ProgramInv
<1>0. \A s \in InFlight : s.by \in Calls /\ ~New(s.by) /\ updates'[s.by] = updates[s.by]
  BY MadeStaysMade DEF FlightInv
<1>1. ASSUME NEW c \in Calls, NEW u, BeginCall(c, u) PROVE ApartInv'
  <2>1. UNCHANGED <<deviceVars, history>>
    BY <1>1, BeginEffect
  <2> QED
    BY <1>0, <2>1 DEF ApartInv, InFlight, deviceVars, history
<1>2. ASSUME NEW c \in Calls, Closed(c) PROVE ApartInv'
  <2>1. wire' = {} /\ UNCHANGED <<staged, device, menuEdits, history>>
    BY <1>2, ClosedEffect
  <2>2. InFlight' \subseteq InFlight
    BY <2>1 DEF InFlight
  <2> QED
    BY <1>0, <2>1, <2>2 DEF ApartInv, history
<1>3. ASSUME NEW c \in Calls, Sends(c) PROVE ApartInv'
  <2> DEFINE q == MergeHomeProgram(device, updates[c])
             s == [by |-> c, program |-> PackHomeProgram(q)]
  <2>1. Good(q) /\ \A d \in Days \ DOMAIN updates[c] : q[d] = device[d]
    BY MergeSettles DEF CallInv, DeviceInv, Settled
  <2>2. UnpackHomeProgram(PackHomeProgram(q)) = q
    BY <2>1, ProgramRoundTrip
  <2>3. c \in author => q = device
    BY DEF DeviceInv
  <2>4. /\ ReadReturns(c) /\ wire' = {s}
        /\ UNCHANGED <<updates, staged, device, menuEdits, history>>
    BY <1>3 DEF Sends
  <2>5. s.by = c /\ UnpackHomeProgram(s.program) = q
    BY <2>2
  <2> HIDE DEF q, s
  <2>6. InFlight' = {s}
    BY <2>4 DEF InFlight, ReadReturns
  <2> QED
    BY <2>1, <2>3, <2>4, <2>5, <2>6 DEF ApartInv, history
<1>4. ASSUME NEW c \in Calls, Readback(c) PROVE ApartInv'
  <2>1. UNCHANGED <<updates, deviceVars, author>> /\ place[c] = "writing"
    BY <1>4 DEF Readback
  <2>2. owed' = owed \/ owed' = OwedTo(c)
    BY <1>4 DEF Readback
  <2>3. InFlight' = InFlight /\ \A s \in InFlight : s.by = c
    BY <2>1 DEF InFlight, FlightInv, deviceVars
  <2>4. \A d \in Days \ DOMAIN updates[c] : owed'[d] = owed[d]
    BY <2>2 DEF OwedTo
  <2> QED
    BY <2>1, <2>3, <2>4 DEF ApartInv, deviceVars
<1>5. ASSUME NEW c \in Calls, RefuseRequest(c) \/ Connect(c) \/ GetReads(c) \/ AttemptFails(c)
      PROVE  ApartInv'
  <2>1. UNCHANGED <<updates, deviceVars, history>>
    BY <1>5 DEF RefuseRequest, Connect, GetReads, AttemptFails
  <2> QED
    BY <2>1 DEF ApartInv, InFlight, deviceVars, history
<1>6. CASE Applies
  BY <1>6 DEF Applies, ApartInv, InFlight
<1>7. CASE SettlePoll \/ Takes
  <2>1. InFlight' \subseteq InFlight /\ UNCHANGED <<updates, device, menuEdits, history>>
    BY <1>7 DEF SettlePoll, Takes, InFlight, callVars, deviceVars
  <2> QED
    BY <2>1 DEF ApartInv, history
<1>8. CASE MenuEdit
  <2>1. menuEdits' # 0
    <3>1. menuEdits \in 0..MaxMenuEdits /\ menuEdits' = menuEdits + 1
      BY <1>8 DEF CallInv, MenuEdit
    <3> QED
      BY <3>1, MaxMenuEditsAssumption
  <2>2. PICK d \in Days, m \in MenuDays :
           device' = [device EXCEPT ![d] = m] /\ owed' = [owed EXCEPT ![d] = {}]
    BY <1>8 DEF MenuEdit
  <2>3. author' = {} /\ InFlight' = InFlight /\ updates' = updates
    BY <1>8 DEF MenuEdit, InFlight, callVars
  <2>4. \A e \in Days : owed'[e] # {} => device'[e] = device[e] /\ owed'[e] = owed[e]
    BY <2>2 DEF DeviceInv, Good
  <2> QED
    BY <2>1, <2>3, <2>4 DEF ApartInv
<1> QED
  BY <1>1, <1>2, <1>3, <1>4, <1>5, <1>6, <1>7, <1>8, StepKinds DEF CallSteps

\* What the device applies it accepts, what it is owed by others it keeps, and what is
\* read back it holds.
LEMMA DeviceStep == ASSUME ProgramInv, Next PROVE DeviceInv'
<1> USE DEF ProgramInv
<1>0. \A c \in author : c \in Calls /\ ~New(c)' /\ updates'[c] = updates[c]
  BY MadeStaysMade DEF DeviceInv
<1>1. ASSUME UNCHANGED <<device, history>> PROVE DeviceInv'
  BY <1>1, <1>0 DEF DeviceInv, AcknowledgedDaysSurvive, history
<1>2. ASSUME NEW c \in Calls, NEW u, BeginCall(c, u) PROVE DeviceInv'
  BY <1>1, <1>2, BeginEffect DEF deviceVars
<1>3. ASSUME NEW c \in Calls, Closed(c) PROVE DeviceInv'
  BY <1>1, <1>3, ClosedEffect
<1>4. ASSUME NEW c \in Calls, Readback(c) PROVE DeviceInv'
  <2>1. UNCHANGED <<updates, device, author>> /\ place[c] = "writing"
    BY <1>4 DEF Readback, deviceVars
  <2>2. CASE owed' = owed
    BY <1>1, <2>1, <2>2 DEF history
  <2>3. CASE ProgramRead = merged[c] /\ owed' = OwedTo(c)
    <3>1. Settled(device, updates[c])
      BY <2>1, <2>3, ReadsDevice DEF MergedInv
    <3>2. \A d \in DOMAIN updates[c] : Holds(device[d], updates[c][d])
      BY <3>1 DEF Settled
    <3>3. \A d \in Days : owed'[d] = IF d \in DOMAIN updates[c] THEN {updates[c][d]} ELSE owed[d]
      BY <2>3 DEF OwedTo
    <3>4. AcknowledgedDaysSurvive'
      BY <2>1, <3>2, <3>3 DEF DeviceInv, AcknowledgedDaysSurvive
    <3>5. owed' = [d \in Days |-> owed'[d]]
      BY <2>3 DEF OwedTo
    <3> QED
      BY <1>0, <2>1, <3>4, <3>5 DEF DeviceInv
  <2> QED
    BY <1>4, <2>2, <2>3 DEF Readback
<1>5. ASSUME NEW c \in Calls,
             RefuseRequest(c) \/ Connect(c) \/ GetReads(c) \/ Sends(c) \/ AttemptFails(c)
      PROVE  DeviceInv'
  BY <1>1, <1>5
  DEF RefuseRequest, Connect, GetReads, Sends, AttemptFails, deviceVars, history
<1>6. CASE SettlePoll \/ Takes
  BY <1>1, <1>6 DEF SettlePoll, Takes, deviceVars, history
<1>7. CASE Applies
  <2>1. PICK s \in InFlight : Store(s)
    BY <1>7 DEF Applies
  <2> DEFINE q == UnpackHomeProgram(s.program)
  <2>2. /\ s.by \in Calls /\ ~New(s.by) /\ Settled(q, updates[s.by])
    BY <2>1 DEF FlightInv
  <2>3. /\ device' = q /\ author' = {s.by}
        /\ owed' = [d \in Days |-> IF d \in DOMAIN updates[s.by] THEN {} ELSE owed[d]]
    BY <2>1 DEF Store
  <2>4. \A d \in Days \ DOMAIN updates[s.by] : owed[d] # {} => q[d] = device[d]
    BY <2>1 DEF ApartInv
  <2>5. updates' = updates /\ ~New(s.by)'
    BY <1>7, <2>2, MadeStaysMade DEF Applies, callVars, New
  <2> HIDE DEF q
  <2>6. AcknowledgedDaysSurvive'
    BY <2>3, <2>4 DEF DeviceInv, AcknowledgedDaysSurvive
  <2>7. owed' = [d \in Days |-> owed'[d]]
    BY <2>3
  <2> QED
    BY <2>2, <2>3, <2>5, <2>6, <2>7 DEF DeviceInv, Settled
<1>8. CASE MenuEdit
  <2>2. PICK d \in Days, m \in MenuDays :
           device' = [device EXCEPT ![d] = m] /\ owed' = [owed EXCEPT ![d] = {}]
    BY <1>8 DEF MenuEdit
  <2>3. author' = {}
    BY <1>8 DEF MenuEdit
  <2>4. GoodDay(m)
    BY MenuDaysAssumption, GoodDays
  <2>5. Good(device')
    BY <2>2, <2>4 DEF DeviceInv, Good
  <2>6. \A e \in Days : owed'[e] # {} => device'[e] = device[e] /\ owed'[e] = owed[e]
    BY <2>2 DEF DeviceInv, Good
  <2>7. AcknowledgedDaysSurvive'
    BY <2>6 DEF DeviceInv, AcknowledgedDaysSurvive
  <2>8. owed' = [e \in Days |-> owed'[e]]
    BY <2>2 DEF DeviceInv
  <2> QED
    BY <2>3, <2>5, <2>7, <2>8 DEF DeviceInv
<1> QED
  BY <1>2, <1>3, <1>4, <1>5, <1>6, <1>7, <1>8, StepKinds DEF CallSteps

-----------------------------------------------------------------------------
(* The theorems.                                                           *)

\* The invariant holds in every state.
THEOREM ProgramInvHolds == Spec => []ProgramInv
<1>1. ProgramInv /\ [Next]_vars => ProgramInv'
  BY SlotStep, CallStep, MergedStep, FlightStep, ApartStep, DeviceStep,
     StutterProgramInv
  DEF ProgramInv
<1> QED
  BY <1>1, InitProgramInv, PTL DEF Spec

\* The variables have their types: in particular, what is in the device, and what a call
\* last sent, is a program.
THEOREM ProgramTypeOK == Spec => []TypeOK
<1>1. ProgramInv => TypeOK
  <2> SUFFICES ASSUME ProgramInv PROVE TypeOK
    OBVIOUS
  <2> USE DEF ProgramInv
  <2>1. \A p : Good(p) => p \in Written
    BY GoodPrograms DEF Written
  <2>2. \A c \in Calls : DOMAIN updates[c] \subseteq Days /\ merged[c] \in {NoUpdates} \cup Written
    BY <2>1 DEF CallInv, MergedInv, Accepted
  <2>3. DOMAIN response \subseteq Days
    <3>1. CASE response = NoUpdates
      BY <3>1 DEF NoUpdates
    <3>2. CASE \E p : Good(p) /\ response = ProgramToResponse(p)
      BY <3>2, ResponseIsAccepted
    <3> QED
      BY <3>1, <3>2 DEF CallInv
  <2>4. device \in Written /\ author \subseteq Calls
    BY <2>1 DEF DeviceInv
  <2>5. {set.by : set \in wire \cup staged} \cup author \subseteq Calls
    BY <2>4 DEF FlightInv, InFlight
  <2> HIDE DEF ProgramInv
  <2>6. CallInv
    BY DEF ProgramInv
  <2>7. outcome \in [Calls -> {"none", "ok", "failed", "refused by the service",
                               "refused after connecting"}]
    BY <2>6 DEF CallInv
  <2> QED
    BY <2>2, <2>3, <2>4, <2>5, <2>6, <2>7 DEF TypeOK, CallInv
<1> QED
  BY <1>1, ProgramInvHolds, PTL

\* No lost update (async_set_home_program): a day that a call was told it had written
\* holds what the call gave, until another call or the user writes that day.
THEOREM AcknowledgedDaysStay == Spec => []AcknowledgedDaysSurvive
<1>1. ProgramInv => AcknowledgedDaysSurvive
  BY DEF ProgramInv, DeviceInv
<1> QED
  BY <1>1, ProgramInvHolds, PTL

\* What the service's handler accepts no merge refuses later, whatever is in the slots
\* the caller did not write.
THEOREM ValidEditsAreTaken == Spec => []ValidEditIsNotRefused
<1>1. ProgramInv => ValidEditIsNotRefused
  BY DEF ProgramInv, CallInv, ValidEditIsNotRefused
<1> QED
  BY <1>1, ProgramInvHolds, PTL

\* What get_home_program answers may be given to set_home_program, and changes nothing.
THEOREM ResponsesPasteBack == Spec => []ResponseCanBePastedBack
<1>1. ProgramInv => ResponseCanBePastedBack
  BY ReadsDevice, ResponseIsAccepted, ResponseChangesNothing
  DEF ProgramInv, DeviceInv, ResponseCanBePastedBack
<1> QED
  BY <1>1, ProgramInvHolds, PTL

\* While the user stays away no day changes but those a call names, and a SET of the
\* call that wrote last changes nothing: merging twice is merging once.
THEOREM OnlyWhatIsAskedIsWritten == Spec => WritesOnlyWhatIsAsked
<1>1. ASSUME ProgramInv, Next
      PROVE  /\ menuEdits' = 0 => \A d \in Days : device'[d] # device[d] =>
                                      \E c \in author' : d \in DOMAIN updates[c]
             /\ author # {} /\ author' = author => device' = device
  <2>1. CASE UNCHANGED device
    BY <2>1
  <2>2. CASE Applies
    <3>1. PICK s \in InFlight : Store(s)
      BY <2>2 DEF Applies
    <3>2. /\ device' = UnpackHomeProgram(s.program) /\ author' = {s.by}
          /\ menuEdits' = menuEdits
      BY <2>2, <3>1 DEF Applies, Store
    <3>3. /\ \A d \in Days \ DOMAIN updates[s.by] : menuEdits = 0 =>
                UnpackHomeProgram(s.program)[d] = device[d]
          /\ s.by \in author => UnpackHomeProgram(s.program) = device
      BY <1>1, <3>1 DEF ProgramInv, ApartInv
    <3> QED
      BY <3>2, <3>3
  <2>3. CASE MenuEdit
    <3>1. menuEdits \in 0..MaxMenuEdits /\ menuEdits' = menuEdits + 1 /\ author' = {}
      BY <1>1, <2>3 DEF ProgramInv, CallInv, MenuEdit
    <3> QED
      BY <3>1, MaxMenuEditsAssumption
  <2>4. ASSUME NEW c \in Calls, CallSteps(c) PROVE UNCHANGED device
    <3>1. CASE Closed(c)
      BY <1>1, <3>1, ClosedEffect DEF ProgramInv
    <3>2. ASSUME NEW u, BeginCall(c, u) PROVE UNCHANGED device
      BY <3>2 DEF BeginCall, deviceVars
    <3> QED
      BY <2>4, <3>1, <3>2
      DEF CallSteps, RefuseRequest, Connect, GetReads, Sends, Readback, AttemptFails,
          deviceVars
  <2>5. CASE SettlePoll \/ Takes
    BY <2>1, <2>5 DEF SettlePoll, Takes, deviceVars
  <2> QED
    BY <1>1, <2>1, <2>2, <2>3, <2>4, <2>5, StepKinds
<1>2. ProgramInv /\ [Next]_vars =>
         [/\ menuEdits' = 0 => \A d \in Days : device'[d] # device[d] =>
                                   \E c \in author' : d \in DOMAIN updates[c]
          /\ author # {} /\ author' = author => device' = device]_vars
  BY <1>1
<1> QED
  BY <1>2, ProgramInvHolds, PTL DEF Spec, WritesOnlyWhatIsAsked
=============================================================================
