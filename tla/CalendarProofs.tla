---------------------------- MODULE CalendarProofs ----------------------------
(***************************************************************************)
(* The calendar never holds two overlapping confirmed appointments of one  *)
(* bay or one technician, and its windows keep to the shifts; with the     *)
(* lemmas about the clock that this takes.                                 *)
(***************************************************************************)
EXTENDS Calendar, TLAPS

IsCalendar == appts = [i \in Ids |-> appts[i]]

(* Appointments i and j do not get in each other's way. *)
Compatible(i, j) ==
  ( /\ appts[i] # NoAppt
    /\ appts[j] # NoAppt
    /\ appts[i].status = "CONFIRMED"
    /\ appts[j].status = "CONFIRMED"
    /\ IntervalsOverlap(appts[i].start, appts[i].end, appts[j].start, appts[j].end) )
  => appts[i].bay # appts[j].bay /\ appts[i].tech # appts[j].tech

LEMMA NoOverlapPairs == NoOverlap <=> \A i, j \in Ids : i # j => Compatible(i, j)
BY DEF NoOverlap, Compatible

LEMMA CompatibleSymmetric ==
  ASSUME NEW i \in Ids, NEW j \in Ids
  PROVE  Compatible(i, j)' => Compatible(j, i)'
BY DEF Compatible, IntervalsOverlap

(* A new entry that fits is compatible with every entry that stays. *)
LEMMA FitsCompatible ==
  ASSUME NEW moved \in SUBSET Ids, NEW i \in Ids, NEW j \in Ids \ moved,
         Fits(appts'[i], moved), appts'[j] = appts[j]
  PROVE  Compatible(i, j)'
BY DEF Fits, Occupies, Compatible, IntervalsOverlap

LEMMA StepKeepsNoOverlap ==
  ASSUME IsCalendar, NoOverlap, Next
  PROVE  IsCalendar' /\ NoOverlap'
<1>1. \A i, j \in Ids : i # j => Compatible(i, j)
  BY NoOverlapPairs
<1>2. ASSUME NEW i \in Ids, NEW j \in Ids, Compatible(i, j),
             appts'[i] = appts[i], appts'[j] = appts[j]
      PROVE  Compatible(i, j)'
  BY <1>2 DEF Compatible
<1>3. ASSUME NEW i \in Ids, appts'[i].status = "CANCELLED", NEW j \in Ids
      PROVE  Compatible(i, j)' /\ Compatible(j, i)'
  BY <1>3 DEF Compatible
<1>4. ASSUME NEW i \in Ids, Reserve(i) PROVE IsCalendar' /\ NoOverlap'
  <2>1. IsCalendar' /\ \A j \in Ids \ {i} : appts'[j] = appts[j]
    BY <1>4 DEF Reserve, IsCalendar
  <2>2. \A j \in Ids \ {i} : Compatible(i, j)'
    BY <1>4, <2>1, FitsCompatible DEF Reserve
  <2>3. ASSUME NEW j \in Ids, NEW k \in Ids, j # k PROVE Compatible(j, k)'
    BY <1>1, <1>2, <2>1, <2>2, <2>3, CompatibleSymmetric
  <2> QED
    BY <2>1, <2>3 DEF NoOverlap, Compatible
<1>5. ASSUME NEW i \in Ids, Release(i) PROVE IsCalendar' /\ NoOverlap'
  <2>1. IsCalendar' /\ \A j \in Ids \ {i} : appts'[j] = appts[j]
    BY <1>5 DEF Release, IsCalendar
  <2>2. ASSUME NEW j \in Ids, NEW k \in Ids, j # k PROVE Compatible(j, k)'
    BY <1>1, <1>2, <1>3, <1>5, <2>1, <2>2 DEF Release
  <2> QED
    BY <2>1, <2>2 DEF NoOverlap, Compatible
<1>6. ASSUME NEW i \in Ids, NEW j \in Ids, Move(i, j) PROVE IsCalendar' /\ NoOverlap'
  <2>1. IsCalendar' /\ \A k \in Ids \ {i, j} : appts'[k] = appts[k]
    BY <1>6 DEF Move, IsCalendar
  <2>2. i # j /\ appts'[i].status = "CANCELLED"
    BY <1>6 DEF Move
  <2>3. \A k \in Ids \ {i, j} : Compatible(j, k)'
    BY <1>6, <2>1, FitsCompatible DEF Move
  <2>4. ASSUME NEW k \in Ids, NEW l \in Ids, k # l PROVE Compatible(k, l)'
    BY <1>1, <1>2, <1>3, <2>1, <2>2, <2>3, <2>4, CompatibleSymmetric
  <2> QED
    BY <2>1, <2>4 DEF NoOverlap, Compatible
<1> QED
  BY <1>4, <1>5, <1>6 DEF Next

(* A calendar that starts empty and changes by its three steps only never  *)
(* books a bay or a technician twice for overlapping windows.              *)
THEOREM CalendarNoOverlap == Spec => []NoOverlap
<1>1. Init => IsCalendar /\ NoOverlap
  BY DEF Init, IsCalendar, NoOverlap
<1>2. IsCalendar /\ NoOverlap /\ [Next]_appts => IsCalendar' /\ NoOverlap'
  <2>1. CASE UNCHANGED appts
    BY <2>1 DEF IsCalendar, NoOverlap
  <2> QED
    BY <2>1, StepKeepsNoOverlap
<1> QED
  BY <1>1, <1>2, PTL DEF Spec

-----------------------------------------------------------------------------
(* The clock, whatever its units: a moment, its minute and its day         *)

LEMMA Quotient ==
  ASSUME NEW x \in Int, NEW n \in Int, n > 0, NEW q \in Int, q = x \div n
  PROVE  n * q =< x /\ x < n * (q + 1)
BY SMTT(30)

LEMMA Remainder ==
  ASSUME NEW x \in Int, NEW n \in Int, n > 0, NEW q \in Int, q = x \div n,
         NEW m \in Int, m = x % n
  PROVE  x = n * q + m
BY SMTT(30)

LEMMA Divided ==
  ASSUME NEW x \in Int, NEW n \in Int, n > 0
  PROVE  \E q, m \in Int : /\ q = x \div n /\ m = x % n
                          /\ x = q * n + m
                          /\ 0 =< m /\ m < n
<1> DEFINE q == x \div n
           m == x % n
<1>1. q \in Int /\ m \in Int
  OBVIOUS
<1>2. q = x \div n /\ m = x % n /\ 0 =< m /\ m < n
  OBVIOUS
<1> HIDE DEF q, m
<1>3. x = n * q + m
  BY <1>1, <1>2, Remainder
<1>4. x = q * n + m
  BY <1>1, <1>3
<1> QED
  BY <1>1, <1>2, <1>4

LEMMA Scaled ==
  ASSUME NEW a \in Int, NEW b \in Int, NEW n \in Int, n > 0, a =< b
  PROVE  n * a =< n * b
OBVIOUS

(* A moment lies in the minute of the day, and on the day, that it has.    *)
LEMMA Moment ==
  ASSUME NEW x \in Int
  PROVE  /\ DayOf(x) \in Int /\ MinuteOfDay(x) \in Int
         /\ 0 =< MinuteOfDay(x) /\ MinuteOfDay(x) < MinutesPerDay
         /\ (DayOf(x) * MinutesPerDay + MinuteOfDay(x)) * TicksPerMinute =< x
         /\ x < (DayOf(x) * MinutesPerDay + MinuteOfDay(x) + 1) * TicksPerMinute
<1> DEFINE m == x \div TicksPerMinute
<1>0. TicksPerMinute \in Int /\ TicksPerMinute > 0 /\ MinutesPerDay \in Int /\ MinutesPerDay > 0
  BY ClockAssumption
<1>1. m \in Int
  BY <1>0
<1>2. TicksPerMinute * m =< x /\ x < TicksPerMinute * (m + 1)
  BY <1>0, <1>1, Quotient
<1>3. DayOf(x) = m \div MinutesPerDay /\ MinuteOfDay(x) = m % MinutesPerDay
  BY DEF DayOf, MinuteOfDay
<1> HIDE DEF m
<1>4. PICK q, k \in Int : /\ q = m \div MinutesPerDay /\ k = m % MinutesPerDay
                          /\ m = q * MinutesPerDay + k
                          /\ 0 =< k /\ k < MinutesPerDay
  BY <1>0, <1>1, Divided
<1>5. DayOf(x) = q /\ MinuteOfDay(x) = k
  BY <1>3, <1>4
<1>6. m = DayOf(x) * MinutesPerDay + MinuteOfDay(x)
  BY <1>4, <1>5
<1>7. m * TicksPerMinute =< x /\ x < (m + 1) * TicksPerMinute
  BY <1>0, <1>1, <1>2
<1> QED
  BY <1>4, <1>5, <1>6, <1>7

(* What the comparison of whole minutes lets through: windows that end     *)
(* less than a minute after the shift.                                     *)
LEMMA OnShift ==
  ASSUME NEW k \in Techs, NEW start \in Int, NEW end \in Int,
         TechnicianOnShift(k, start, end)
  PROVE  LET midnight == DayOf(start) * MinutesPerDay
         IN  /\ midnight \in Int
             /\ TechRow[k].shiftStart \in Int /\ TechRow[k].shiftEnd \in Int
             /\ start >= (midnight + TechRow[k].shiftStart) * TicksPerMinute
             /\ end < (midnight + TechRow[k].shiftEnd + 1) * TicksPerMinute
<1> DEFINE d == DayOf(start) * MinutesPerDay
           from == TechRow[k].shiftStart
           to == TechRow[k].shiftEnd
           first == MinuteOfDay(start)
           last == MinuteOfDay(end)
<1>0. TicksPerMinute \in Int /\ TicksPerMinute > 0 /\ MinutesPerDay \in Int
  BY ClockAssumption
<1>1. from \in Int /\ to \in Int
  BY ShiftsAssumption
<1>2. /\ d \in Int /\ first \in Int
      /\ (d + first) * TicksPerMinute =< start
  BY <1>0, Moment
<1>3. DayOf(end) = DayOf(start) /\ first >= from /\ last =< to
  BY DEF TechnicianOnShift
<1>4. /\ last \in Int
      /\ end < (d + last + 1) * TicksPerMinute
  BY <1>0, <1>3, Moment
<1> HIDE DEF d, from, to, first, last
<1>5. TicksPerMinute * (d + from) =< TicksPerMinute * (d + first)
  BY <1>0, <1>1, <1>2, <1>3, Scaled
<1>6. TicksPerMinute * (d + last + 1) =< TicksPerMinute * (d + to + 1)
  BY <1>0, <1>1, <1>2, <1>3, <1>4, Scaled
<1>7. start >= (d + from) * TicksPerMinute
  BY <1>0, <1>1, <1>2, <1>5
<1>8. end < (d + to + 1) * TicksPerMinute
  BY <1>0, <1>1, <1>2, <1>4, <1>6
<1> QED
  BY <1>1, <1>2, <1>7, <1>8 DEF d, from, to

-----------------------------------------------------------------------------
(* The shifts                                                              *)

LEMMA AssignedInShift ==
  ASSUME NEW a, Assigned(a)
  PROVE  InShift(a)
<1>1. a.tech \in Techs /\ TechnicianOnShift(a.tech, a.start, a.end)
  BY DEF Assigned, EligibleTechnicians, QualifiedTechnicians
<1>2. a.start \in Int /\ a.end \in Int
  BY ServicesAssumption, ClockAssumption DEF Assigned, EndOf
<1> QED
  BY <1>1, <1>2, OnShift DEF InShift

LEMMA MovedInShift ==
  ASSUME NEW a, NEW b, SamePlace(a, b), InShift(a)
  PROVE  InShift(b)
BY DEF SamePlace, InShift

(* No window of the calendar starts before the shift of its technician,    *)
(* and none ends a whole minute after it, however the clock is divided.    *)
THEOREM CalendarInShift == Spec => []WithinShift
<1> DEFINE Good(i) == appts[i] # NoAppt => InShift(appts[i])
<1>1. Init => IsCalendar /\ WithinShift
  BY DEF Init, IsCalendar, WithinShift
<1>2. ASSUME IsCalendar, WithinShift, Next PROVE IsCalendar' /\ WithinShift'
  <2>0. \A i \in Ids : Good(i)
    BY <1>2 DEF WithinShift
  <2>1. ASSUME NEW i \in Ids, Reserve(i) PROVE IsCalendar' /\ \A j \in Ids : Good(j)'
    <3>1. IsCalendar' /\ \A j \in Ids \ {i} : appts'[j] = appts[j]
      BY <1>2, <2>1 DEF Reserve, IsCalendar
    <3>2. InShift(appts'[i])
      BY <2>1, AssignedInShift DEF Reserve
    <3>3. Good(i)'
      BY <3>2 DEF InShift
    <3> QED
      BY <2>0, <3>1, <3>3 DEF InShift
  <2>2. ASSUME NEW i \in Ids, Release(i) PROVE IsCalendar' /\ \A j \in Ids : Good(j)'
    <3>1. IsCalendar' /\ \A j \in Ids \ {i} : appts'[j] = appts[j]
      BY <1>2, <2>2 DEF Release, IsCalendar
    <3>2. InShift(appts'[i])
      BY <2>0, <2>2, MovedInShift DEF Release
    <3>3. Good(i)'
      BY <3>2 DEF InShift
    <3> QED
      BY <2>0, <3>1, <3>3 DEF InShift
  <2>3. ASSUME NEW i \in Ids, NEW j \in Ids, Move(i, j)
        PROVE  IsCalendar' /\ \A k \in Ids : Good(k)'
    <3>1. IsCalendar' /\ \A k \in Ids \ {i, j} : appts'[k] = appts[k]
      BY <1>2, <2>3 DEF Move, IsCalendar
    <3>2. InShift(appts'[i]) /\ InShift(appts'[j])
      BY <2>0, <2>3, MovedInShift, AssignedInShift DEF Move
    <3>3. Good(i)' /\ Good(j)'
      BY <3>2 DEF InShift
    <3> QED
      BY <2>0, <3>1, <3>3 DEF InShift
  <2> QED
    BY <1>2, <2>1, <2>2, <2>3 DEF Next, WithinShift
<1>3. ASSUME IsCalendar, WithinShift, UNCHANGED appts PROVE IsCalendar' /\ WithinShift'
  BY <1>3 DEF IsCalendar, WithinShift, InShift
<1> QED
  BY <1>1, <1>2, <1>3, PTL DEF Spec

===============================================================================
