---------------------------- MODULE SlotSearchProofs ---------------------------
(***************************************************************************)
(* What a search for open slots answers, whatever the calendar, the        *)
(* resources and the commits between its two queries: no slot is missed,   *)
(* none is invented, and nothing else than what `book` would accept is     *)
(* offered when nothing commits.                                           *)
(***************************************************************************)
EXTENDS SlotSearch, CalendarProofs

USE SearchAssumption

-----------------------------------------------------------------------------
(* The inductive invariant                                                 *)

Appointment ==
  [dealership : Dealerships, service : Services, bay : Bays, tech : Techs,
   start : Int, end : Int, status : {"CONFIRMED", "CANCELLED"}]

Books == [Ids -> Appointment \cup {NoAppt}]

(* The maps hold what the queries saw. *)
TechsSeen ==
  busyByTech = [k \in QualifiedTechnicians(dealership, service) |->
                  Intervals({a \in RowsOf(atTechs) : a.tech = k /\ Queried(a)})]

BaysSeen ==
  busyByBay = [b \in CapableBays(dealership, service) |->
                 Intervals({a \in RowsOf(atBays) : a.bay = b /\ Queried(a)})]

(* The start times that the loop should find. *)
Found == {u \in Grid : BookableTechs(atTechs, u) # {} /\ BaysFree(atBays, u) # {}}

(* What stayed open was open when each of the queries ran. *)
SteadyInv ==
  /\ pc \in {"idle", "techs"} => steady = {}
  /\ pc = "bays" => steady \subseteq OpenSlots(atTechs) \cap OpenSlots(appts)
  /\ pc \in {"loop", "done"} => steady \subseteq OpenSlots(atTechs) \cap OpenSlots(atBays)

SInv ==
  /\ SearchTypeOK
  /\ appts \in Books /\ atTechs \in Books /\ atBays \in Books
  /\ pc \in {"bays", "loop"} => TechsSeen
  /\ pc = "loop" => BaysSeen
  /\ pc \in {"idle", "techs", "bays"} => t = From /\ slots = {}
  /\ pc = "loop" => slots = {u \in Found : u < t}
  /\ pc = "done" => slots = Found
  /\ SteadyInv

-----------------------------------------------------------------------------
(* The busy intervals                                                      *)

LEMMA SlotWindow ==
  ASSUME service \in Services, NEW u \in Grid
  PROVE  /\ u \in Int /\ From =< u /\ u < To
         /\ EndOf(service, u) \in Int /\ EndOf(service, To) \in Int
         /\ u < EndOf(service, u) /\ EndOf(service, u) < EndOf(service, To)
<1>1. ServiceRow[service].minutes * TicksPerMinute \in Nat \ {0}
  BY ServicesAssumption, ClockAssumption
<1>2. u \in Int /\ From =< u /\ u < To
  BY DEF Grid
<1> QED
  BY <1>1, <1>2 DEF EndOf

(* What is in the way of a slot meets the window of the queries. *)
LEMMA InTheWay ==
  ASSUME service \in Services, NEW u \in Grid, NEW a \in Appointment,
         Occupies(a, u, EndOf(service, u))
  PROVE  Queried(a)
BY SlotWindow DEF Queried, Occupies, IntervalsOverlap, Appointment

LEMMA RowsAreAppointments ==
  ASSUME NEW as \in Books, NEW a \in RowsOf(as)
  PROVE  a \in Appointment
BY DEF Books, RowsOf

(* A test of the intervals is a test of the appointments they came from.   *)
LEMMA IntervalsTell ==
  ASSUME NEW S, NEW start, NEW end
  PROVE  IsFree(Intervals(S), start, end)
           <=> \A a \in S : ~IntervalsOverlap(start, end, a.start, a.end)
<1> DEFINE iv(a) == [start |-> a.start, end |-> a.end]
<1>1. \A a : iv(a).start = a.start /\ iv(a).end = a.end
  OBVIOUS
<1> HIDE DEF iv
<1>2. Intervals(S) = {iv(a) : a \in S}
  BY DEF Intervals, iv
<1> QED
  BY <1>1, <1>2 DEF IsFree

LEMMA TechIntervals ==
  ASSUME service \in Services, NEW u \in Grid, NEW as \in Books, NEW k
  PROVE  IsFree(Intervals({a \in RowsOf(as) : a.tech = k /\ Queried(a)}), u, EndOf(service, u))
           <=> k \notin BusyTechs(RowsOf(as), u, EndOf(service, u))
<1> DEFINE end == EndOf(service, u)
           S == {a \in RowsOf(as) : a.tech = k /\ Queried(a)}
<1>1. IsFree(Intervals(S), u, end) <=> \A a \in S : ~IntervalsOverlap(u, end, a.start, a.end)
  BY IntervalsTell
<1>2. \A a \in RowsOf(as) :
        (Queried(a) /\ IntervalsOverlap(u, end, a.start, a.end)) <=> Occupies(a, u, end)
  BY InTheWay, RowsAreAppointments DEF Occupies, IntervalsOverlap, Queried
<1>3. k \in BusyTechs(RowsOf(as), u, end) <=> \E a \in RowsOf(as) : a.tech = k /\ Occupies(a, u, end)
  BY DEF BusyTechs
<1> QED
  BY <1>1, <1>2, <1>3

LEMMA BayIntervals ==
  ASSUME service \in Services, NEW u \in Grid, NEW as \in Books, NEW b
  PROVE  IsFree(Intervals({a \in RowsOf(as) : a.bay = b /\ Queried(a)}), u, EndOf(service, u))
           <=> b \notin BusyBays(RowsOf(as), u, EndOf(service, u))
<1> DEFINE end == EndOf(service, u)
           S == {a \in RowsOf(as) : a.bay = b /\ Queried(a)}
<1>1. IsFree(Intervals(S), u, end) <=> \A a \in S : ~IntervalsOverlap(u, end, a.start, a.end)
  BY IntervalsTell
<1>2. \A a \in RowsOf(as) :
        (Queried(a) /\ IntervalsOverlap(u, end, a.start, a.end)) <=> Occupies(a, u, end)
  BY InTheWay, RowsAreAppointments DEF Occupies, IntervalsOverlap, Queried
<1>3. b \in BusyBays(RowsOf(as), u, end) <=> \E a \in RowsOf(as) : a.bay = b /\ Occupies(a, u, end)
  BY DEF BusyBays
<1> QED
  BY <1>1, <1>2, <1>3

(* One turn of the loop finds what `book` would have found. *)
LEMMA LoopIsExact ==
  ASSUME SInv, pc = "loop", NEW u \in Grid
  PROVE  TechFree(u) /\ BayFree(u) <=> u \in Found
<1> DEFINE end == EndOf(service, u)
<1>0. service \in Services /\ atTechs \in Books /\ atBays \in Books /\ TechsSeen /\ BaysSeen
  BY DEF SInv, SearchTypeOK
<1>1. TechFree(u) <=> BookableTechs(atTechs, u) # {}
  <2>1. ASSUME NEW k \in QualifiedTechnicians(dealership, service)
        PROVE  IsFree(busyByTech[k], u, end) <=> k \in TechsFree(atTechs, u)
    BY <1>0, <2>1, TechIntervals DEF TechsSeen, TechsFree
  <2> QED
    BY <1>0, <2>1 DEF TechFree, BookableTechs, TechsSeen, TechsFree, EligibleTechnicians
<1>2. BayFree(u) <=> BaysFree(atBays, u) # {}
  <2>1. ASSUME NEW b \in CapableBays(dealership, service)
        PROVE  IsFree(busyByBay[b], u, end) <=> b \in BaysFree(atBays, u)
    BY <1>0, <2>1, BayIntervals DEF BaysSeen, BaysFree
  <2> QED
    BY <1>0, <2>1 DEF BayFree, BaysSeen, BaysFree
<1> QED
  BY <1>1, <1>2 DEF Found

-----------------------------------------------------------------------------
(* The grid                                                                *)

LEMMA Multiples ==
  ASSUME NEW n \in Int, n > 0, NEW p \in Int, NEW q \in Int, p * n =< q * n, q * n < p * n + n
  PROVE  q = p
<1>1. CASE q =< p - 1
  <2>1. n * q =< n * (p - 1)
    BY <1>1, Scaled
  <2> QED
    BY <2>1
<1>2. CASE q >= p + 1
  <2>1. n * (p + 1) =< n * q
    BY <1>2, Scaled
  <2> QED
    BY <2>1
<1> QED
  BY <1>1, <1>2

LEMMA StepStays ==
  ASSUME NEW x \in Int, NEW n \in Int, n > 0, x % n = 0
  PROVE  (x + n) % n = 0
<1>1. PICK q, m \in Int : x = q * n + m /\ m = x % n
  BY Divided
<1>2. PICK p, k \in Int : k = (x + n) % n /\ x + n = p * n + k /\ 0 =< k /\ k < n
  <2> DEFINE y == x + n
  <2>1. y \in Int
    OBVIOUS
  <2> HIDE DEF y
  <2>2. \E p, k \in Int : p = y \div n /\ k = y % n /\ y = p * n + k /\ 0 =< k /\ k < n
    BY <2>1, Divided
  <2> QED
    BY <2>2 DEF y
<1>3. (q + 1) * n = p * n + k
  BY <1>1, <1>2
<1>4. p * n =< (q + 1) * n /\ (q + 1) * n < p * n + n
  BY <1>1, <1>2, <1>3
<1>5. q + 1 = p
  BY <1>1, <1>2, <1>4, Multiples
<1> QED
  BY <1>1, <1>2, <1>3, <1>5

(* Between two start times of the loop there is none of the grid. *)
LEMMA NoneBetween ==
  ASSUME NEW u \in Grid, t \in Nat, t >= From, (t - From) % Step = 0, t =< u, u < t + Step
  PROVE  u = t
<1>1. u \in Int /\ (u - From) % Step = 0 /\ From \in Int /\ Step \in Int /\ Step > 0
  BY DEF Grid
<1>2. PICK q, m \in Int : u - From = q * Step + m /\ m = (u - From) % Step
  <2> DEFINE x == u - From
  <2>1. x \in Int
    BY <1>1
  <2> HIDE DEF x
  <2>2. \E q, m \in Int : q = x \div Step /\ m = x % Step /\ x = q * Step + m
    BY <1>1, <2>1, Divided
  <2> QED
    BY <2>2 DEF x
<1>3. PICK p, k \in Int : t - From = p * Step + k /\ k = (t - From) % Step
  <2> DEFINE x == t - From
  <2>1. x \in Int
    BY <1>1
  <2> HIDE DEF x
  <2>2. \E p, k \in Int : p = x \div Step /\ k = x % Step /\ x = p * Step + k
    BY <1>1, <2>1, Divided
  <2> QED
    BY <2>2 DEF x
<1>4. u - From = q * Step /\ t - From = p * Step
  BY <1>1, <1>2, <1>3
<1>5. p * Step =< q * Step /\ q * Step < p * Step + Step
  BY <1>1, <1>2, <1>3, <1>4
<1>6. q = p
  BY <1>1, <1>2, <1>3, <1>5, Multiples
<1> QED
  BY <1>1, <1>4, <1>6

-----------------------------------------------------------------------------
(* The steps                                                               *)

LEMMA SearchInitInv == SearchInit => SInv
<1> SUFFICES ASSUME SearchInit PROVE SInv
  OBVIOUS
<1>1. appts \in Books
  BY DEF SearchInit, Init, Books
<1>2. From - From = 0 /\ 0 % Step = 0
  OBVIOUS
<1> QED
  BY <1>1, <1>2 DEF SearchInit, SInv, SearchTypeOK, SteadyInv

LEMMA EntriesTyped == Entries \subseteq Appointment
<1> SUFFICES ASSUME NEW d \in Dealerships, NEW s \in Services, NEW start \in BookedStarts,
                    NEW b \in CapableBays(d, s), NEW k \in EligibleTechnicians(d, s, start)
             PROVE  Entry(d, s, b, k, start) \in Appointment
  BY DEF Entries
<1>1. start \in Int /\ EndOf(s, start) \in Int
  BY ServicesAssumption, ClockAssumption DEF EndOf
<1>2. b \in Bays /\ k \in Techs
  BY DEF CapableBays, EligibleTechnicians, QualifiedTechnicians
<1> QED
  BY <1>1, <1>2 DEF Entry, Appointment

LEMMA CommitKeepsBooks ==
  ASSUME appts \in Books, CommitElsewhere
  PROVE  appts' \in Books
<1>1. ASSUME NEW i \in Ids, appts[i] # NoAppt PROVE Freeing(i) \in Books
  <2>1. appts[i] \in Appointment
    BY <1>1 DEF Books
  <2>2. [appts[i] EXCEPT !.status = "CANCELLED"] \in Appointment
    BY <2>1 DEF Appointment
  <2> QED
    BY <2>2 DEF Freeing, Books
<1>2. ASSUME NEW as \in Books, NEW j \in Ids, NEW a \in Entries
      PROVE  [as EXCEPT ![j] = a] \in Books
  BY <1>2, EntriesTyped DEF Books
<1> QED
  BY <1>1, <1>2 DEF CommitElsewhere

LEMMA FindOpenSlotsStep ==
  ASSUME SInv, FindOpenSlots
  PROVE  SInv'
<1>1. UNCHANGED <<appts, dealership, service, busyByTech, busyByBay, t, slots, atTechs, atBays, steady>>
  BY DEF FindOpenSlots, history
<1>2. pc = "idle" /\ pc' \in {"techs", "done"}
  BY DEF FindOpenSlots
<1>3. pc' = "done" => Found = {}
  BY DEF FindOpenSlots, Found, BookableTechs, TechsFree, BaysFree
<1>4. slots = {} /\ steady = {} /\ t = From
  BY <1>2 DEF SInv, SteadyInv
<1>5. Found' = Found
  BY <1>1 DEF Found, BookableTechs, TechsFree, BaysFree
<1> QED
  BY <1>1, <1>2, <1>3, <1>4, <1>5 DEF SInv, SearchTypeOK, SteadyInv

LEMMA QueryTechsStep ==
  ASSUME SInv, QueryTechs
  PROVE  SInv'
<1>1. /\ pc = "techs" /\ pc' = "bays"
      /\ UNCHANGED <<appts, dealership, service, t, slots, atBays>>
      /\ atTechs' = appts
      /\ steady' = OpenSlots(appts)
  BY DEF QueryTechs
<1>2. TechsSeen'
  BY DEF QueryTechs, TechsSeen, Queried
<1>3. OpenSlots(appts)' = OpenSlots(appts) /\ OpenSlots(atTechs)' = OpenSlots(appts)
  BY <1>1 DEF OpenSlots, SomeTechOpen, TechsFree, BaysFree
<1>4. OpenSlots(appts) \subseteq Grid
  BY DEF OpenSlots
<1> QED
  BY <1>1, <1>2, <1>3, <1>4 DEF SInv, SearchTypeOK, SteadyInv

LEMMA QueryBaysStep ==
  ASSUME SInv, QueryBays
  PROVE  SInv'
<1>1. /\ pc = "bays" /\ pc' = "loop"
      /\ UNCHANGED <<appts, dealership, service, busyByTech, t, slots, atTechs, steady>>
      /\ atBays' = appts
  BY DEF QueryBays
<1>2. TechsSeen' /\ BaysSeen'
  BY <1>1 DEF SInv, QueryBays, TechsSeen, BaysSeen, Queried
<1>3. OpenSlots(atTechs)' = OpenSlots(atTechs) /\ OpenSlots(atBays)' = OpenSlots(appts)
  BY <1>1 DEF OpenSlots, SomeTechOpen, TechsFree, BaysFree
<1>4. slots' = {u \in Found : u < t}'
  BY <1>1 DEF SInv, Found, Grid
<1>5. /\ DOMAIN busyByTech' = QualifiedTechnicians(dealership, service)
      /\ DOMAIN busyByBay' = CapableBays(dealership, service)
  BY <1>1, <1>2 DEF TechsSeen, BaysSeen
<1> QED
  BY <1>1, <1>2, <1>3, <1>4, <1>5 DEF SInv, SearchTypeOK, SteadyInv

LEMMA TrySlotStep ==
  ASSUME SInv, TrySlot
  PROVE  SInv'
<1>1. /\ pc = "loop"
      /\ UNCHANGED <<appts, dealership, service, busyByTech, busyByBay, atTechs, atBays, steady>>
  BY DEF TrySlot, history
<1>2. /\ Found' = Found
      /\ TechsSeen' /\ BaysSeen'
      /\ OpenSlots(atTechs)' = OpenSlots(atTechs)
      /\ OpenSlots(atBays)' = OpenSlots(atBays)
  BY <1>1 DEF SInv, Found, BookableTechs, TechsSeen, BaysSeen, Queried, OpenSlots, SomeTechOpen,
              TechsFree, BaysFree
<1>3. /\ t \in Nat /\ t >= From /\ (t - From) % Step = 0
      /\ slots = {u \in Found : u < t}
      /\ Found \subseteq Grid
  BY <1>1 DEF SInv, SearchTypeOK, Found
<1>4. CASE t < To
  <2>1. /\ t' = t + Step /\ pc' = pc
        /\ slots' = IF TechFree(t) /\ BayFree(t) THEN slots \cup {t} ELSE slots
    BY <1>4 DEF TrySlot
  <2>2. t \in Grid
    BY <1>3, <1>4 DEF Grid
  <2>3. TechFree(t) /\ BayFree(t) <=> t \in Found
    BY <1>1, <2>2, LoopIsExact
  <2>4. slots' = {u \in Found : u < t + Step}
    <3>1. \A u \in Found : u < t + Step <=> u < t \/ u = t
      BY <1>3, NoneBetween DEF Grid
    <3> QED
      BY <1>3, <2>1, <2>3, <3>1
  <2>5. (t + Step - From) % Step = 0
    <3>1. (t - From) + Step = t + Step - From /\ t - From \in Int
      BY <1>3
    <3> QED
      BY <1>3, <3>1, StepStays
  <2>6. t' \in Nat /\ t' >= From /\ t' < To + Step
    BY <1>3, <1>4, <2>1
  <2> QED
    BY <1>1, <1>2, <1>3, <2>1, <2>4, <2>5, <2>6 DEF SInv, SearchTypeOK, SteadyInv
<1>5. CASE ~(t < To)
  <2>1. pc' = "done" /\ t' = t /\ slots' = slots
    BY <1>5 DEF TrySlot
  <2>2. slots = Found
    <3>1. \A u \in Found : u < t
      BY <1>3, <1>5, SlotWindow DEF SInv, SearchTypeOK
    <3> QED
      BY <1>3, <3>1
  <2> QED
    BY <1>1, <1>2, <2>1, <2>2 DEF SInv, SearchTypeOK, SteadyInv
<1> QED
  BY <1>4, <1>5

LEMMA CommitElsewhereStep ==
  ASSUME SInv, CommitElsewhere
  PROVE  SInv'
<1>1. /\ pc # "done"
      /\ UNCHANGED <<pc, dealership, service, busyByTech, busyByBay, t, slots, atTechs, atBays>>
      /\ steady' = IF pc = "bays" THEN steady \cap OpenSlots(appts') ELSE steady
  BY DEF CommitElsewhere, search
<1>2. appts' \in Books
  BY CommitKeepsBooks DEF SInv
<1>3. /\ Found' = Found
      /\ TechsSeen' <=> TechsSeen
      /\ BaysSeen' <=> BaysSeen
      /\ OpenSlots(atTechs)' = OpenSlots(atTechs)
      /\ OpenSlots(atBays)' = OpenSlots(atBays)
      /\ OpenSlots(appts)' = OpenSlots(appts')
  BY <1>1 DEF Found, BookableTechs, TechsSeen, BaysSeen, Queried, OpenSlots, SomeTechOpen,
              TechsFree, BaysFree
<1> QED
  BY <1>1, <1>2, <1>3 DEF SInv, SearchTypeOK, SteadyInv

LEMMA SearchStutter ==
  ASSUME SInv, UNCHANGED vars
  PROVE  SInv'
BY DEF SInv, vars, search, history, SearchTypeOK, SteadyInv, Found, BookableTechs, TechsSeen,
       BaysSeen, Queried, OpenSlots, SomeTechOpen, TechsFree, BaysFree

(* The invariant holds in every state of every search. *)
THEOREM SearchInvariance == SearchSpec => []SInv
<1>1. SInv /\ [SearchNext]_vars => SInv'
  BY FindOpenSlotsStep, QueryTechsStep, QueryBaysStep, TrySlotStep, CommitElsewhereStep,
     SearchStutter DEF SearchNext, SearchStep
<1> QED
  BY <1>1, SearchInitInv, PTL DEF SearchSpec

-----------------------------------------------------------------------------
(* What the answer says                                                    *)

(* The types of the search, whose loop tries the start times of the grid   *)
(* and no others.                                                          *)
THEOREM SearchTypes == SearchSpec => []SearchTypeOK
<1>1. SInv => SearchTypeOK
  BY DEF SInv
<1> QED
  BY <1>1, SearchInvariance, PTL

(* The search and `book` agree: the slots offered are the start times that *)
(* a booking would be accepted at, if nothing commits between the queries. *)
THEOREM SearchAgreesWithBook == SearchSpec => []ExactWhenQuiet
<1>1. SInv => ExactWhenQuiet
  BY DEF SInv, ExactWhenQuiet, Found, Bookable
<1> QED
  BY <1>1, SearchInvariance, PTL

(* A bound that whole minutes keep is kept but for less than a minute.     *)
LEMMA WithGrace ==
  ASSUME service \in Services, NEW u \in Grid, NEW k \in Techs,
         TechnicianOnShift(k, u, EndOf(service, u))
  PROVE  ShiftContains(k, u, EndOf(service, u), TicksPerMinute - 1)
<1> DEFINE d == DayOf(u) * MinutesPerDay
           to == TechRow[k].shiftEnd
           end == EndOf(service, u)
<1>1. u \in Int /\ end \in Int /\ TicksPerMinute \in Int
  BY SlotWindow, ClockAssumption
<1>2. /\ d \in Int /\ to \in Int
      /\ u >= (d + TechRow[k].shiftStart) * TicksPerMinute
      /\ end < (d + to + 1) * TicksPerMinute
  BY <1>1, OnShift
<1> HIDE DEF d, to, end
<1>3. end =< (d + to) * TicksPerMinute + (TicksPerMinute - 1)
  BY <1>1, <1>2
<1>4. (d + TechRow[k].shiftStart) * TicksPerMinute =< u
  <2>1. TechRow[k].shiftStart \in Int
    BY ShiftsAssumption
  <2> QED
    BY <1>1, <1>2, <2>1
<1> QED
  BY <1>3, <1>4 DEF ShiftContains, d, to, end

(* Every slot offered had a technician and a bay, each when it was read.   *)
THEOREM NoSlotInvented == SearchSpec => []NothingInvented
<1>1. ASSUME SInv PROVE NothingInvented
  <2> SUFFICES ASSUME NEW u \in slots
               PROVE  u \in Grid /\ SomeTechOpen(atTechs, u, TicksPerMinute - 1)
                      /\ BaysFree(atBays, u) # {}
    BY DEF NothingInvented
  <2>1. u \in Found /\ service \in Services
    BY <1>1 DEF SInv, SearchTypeOK
  <2>2. u \in Grid /\ BaysFree(atBays, u) # {}
    BY <2>1 DEF Found
  <2>3. PICK k \in TechsFree(atTechs, u) :
          k \in Techs /\ TechnicianOnShift(k, u, EndOf(service, u))
    BY <2>1 DEF Found, BookableTechs, EligibleTechnicians, QualifiedTechnicians
  <2> QED
    BY <2>1, <2>2, <2>3, WithGrace DEF SomeTechOpen
<1> QED
  BY <1>1, SearchInvariance, PTL

(* Where no shift lasts until midnight, the comparison of minutes refuses  *)
(* no window that the shift contains.                                      *)
NoLateShift == \A k \in Techs : TechRow[k].shiftEnd < MinutesPerDay

LEMMA ContainedIsOnShift ==
  ASSUME NoLateShift, NEW k \in Techs, NEW start \in Int, NEW end \in Int, start < end,
         ShiftContains(k, start, end, 0)
  PROVE  TechnicianOnShift(k, start, end)
<1> DEFINE day == DayOf(start)
           dayEnd == DayOf(end)
           n == MinutesPerDay
           m == TicksPerMinute
           from == TechRow[k].shiftStart
           to == TechRow[k].shiftEnd
           first == MinuteOfDay(start)
           last == MinuteOfDay(end)
<1>0. m \in Int /\ m > 0 /\ n \in Int /\ n > 0
  BY ClockAssumption
<1>1. from \in Int /\ to \in Int /\ to < n
  BY ShiftsAssumption DEF NoLateShift
<1>2. /\ day \in Int /\ first \in Int /\ 0 =< first /\ first < n
      /\ (day * n + first) * m =< start /\ start < (day * n + first + 1) * m
  BY Moment
<1>3. /\ dayEnd \in Int /\ last \in Int /\ 0 =< last /\ last < n
      /\ (dayEnd * n + last) * m =< end /\ end < (dayEnd * n + last + 1) * m
  BY Moment
<1>4. (day * n + from) * m =< start /\ end =< (day * n + to) * m
  <2>1. end =< (day * n + to) * m + 0
    BY DEF ShiftContains
  <2>2. (day * n + to) * m \in Int
    BY <1>0, <1>1, <1>2
  <2> QED
    BY <2>1, <2>2 DEF ShiftContains
<1> HIDE DEF day, dayEnd, n, m, from, to, first, last
(* Of two minutes the one that begins earlier is the earlier one. *)
<1>5. ASSUME NEW x \in Int, NEW y \in Int, x * m < y * m PROVE x < y
  <2> SUFFICES ASSUME y =< x PROVE FALSE
    BY <1>5
  <2>1. m * y =< m * x
    BY <1>0, <1>5, Scaled
  <2> QED
    BY <1>0, <1>5, <2>1
<1> DEFINE d == day * n
           e == dayEnd * n
<1>6. d \in Int /\ e \in Int
  BY <1>0, <1>2, <1>3
<1>7. d + from < d + first + 1
  BY <1>0, <1>1, <1>2, <1>4, <1>5, <1>6
<1>8. e + last < d + to + 1
  <2>1. (d + to) * m < (d + to + 1) * m
    BY <1>0, <1>1, <1>6
  <2>2. (e + last) * m < (d + to + 1) * m
    BY <1>0, <1>1, <1>3, <1>4, <1>6, <2>1
  <2> QED
    BY <1>1, <1>3, <1>5, <1>6, <2>2
<1>9. d + first < e + last + 1
  <2>1. (d + first) * m < (e + last + 1) * m
    BY <1>0, <1>2, <1>3, <1>6
  <2> QED
    BY <1>2, <1>3, <1>5, <1>6, <2>1
<1>10. dayEnd = day
  <2>1. e < d + n /\ d < e + n
    BY <1>0, <1>1, <1>2, <1>3, <1>6, <1>8, <1>9
  <2>2. ASSUME NEW p \in Int, NEW q \in Int, p * n < q * n + n PROVE p =< q
    <3> SUFFICES ASSUME q + 1 =< p PROVE FALSE
      BY <2>2
    <3>1. n * (q + 1) =< n * p
      BY <1>0, <2>2, Scaled
    <3> QED
      BY <1>0, <2>2, <3>1
  <2>3. dayEnd =< day /\ day =< dayEnd
    BY <1>2, <1>3, <2>1, <2>2
  <2> QED
    BY <1>2, <1>3, <2>3
<1>11. first >= from /\ last =< to
  BY <1>1, <1>2, <1>3, <1>6, <1>7, <1>8, <1>10
<1> QED
  BY <1>10, <1>11 DEF TechnicianOnShift, day, dayEnd, from, to, first, last

(* Whatever commits while the search runs, a slot that stays open from the *)
(* first query to the second is offered, unless shifts last until midnight *)
(* (then the last slot of the day is lost).                                *)
THEOREM NoSlotMissed ==
  ASSUME NoLateShift
  PROVE  SearchSpec => []NothingMissed
<1>1. ASSUME SInv PROVE NothingMissed
  <2> SUFFICES ASSUME pc = "done", NEW u \in steady PROVE u \in slots
    BY DEF NothingMissed
  <2>1. u \in OpenSlots(atTechs) /\ u \in OpenSlots(atBays) /\ service \in Services
    BY <1>1 DEF SInv, SteadyInv, SearchTypeOK
  <2>2. u \in Grid /\ BaysFree(atBays, u) # {}
    BY <2>1 DEF OpenSlots
  <2>3. PICK k \in TechsFree(atTechs, u) : ShiftContains(k, u, EndOf(service, u), 0)
    BY <2>1 DEF OpenSlots, SomeTechOpen
  <2>4. k \in QualifiedTechnicians(dealership, service) /\ k \in Techs
    BY DEF TechsFree, QualifiedTechnicians
  <2>5. TechnicianOnShift(k, u, EndOf(service, u))
    BY <2>1, <2>2, <2>3, <2>4, SlotWindow, ContainedIsOnShift
  <2>6. u \in Found
    BY <2>2, <2>4, <2>5 DEF Found, BookableTechs, EligibleTechnicians
  <2> QED
    BY <1>1, <2>6 DEF SInv
<1> QED
  BY <1>1, SearchInvariance, PTL

===============================================================================
