----------------------------- MODULE Availability -----------------------------
(***************************************************************************)
(* The "real-time availability" rules of AvailabilityService: which bays   *)
(* and technicians may serve a request, and which of them an already       *)
(* CONFIRMED appointment keeps busy.  Pure operators over the reference    *)
(* data of the dealerships; the modules that act on appointments extend    *)
(* this one.                                                               *)
(*                                                                         *)
(* Time is an absolute number of ticks.  A minute has TicksPerMinute       *)
(* ticks, so that the truncation to whole minutes of technicianOnShift is  *)
(* visible, and a UTC day has MinutesPerDay minutes.                       *)
(***************************************************************************)
EXTENDS Integers

CONSTANTS
  Dealerships,      \* ids of dealerships
  Services,         \* ids of service types
  Bays,             \* ids of service bays; locked and picked in ascending order
  Techs,            \* ids of technicians; likewise
  BayRow,           \* bay -> [dealership, capabilities]
  TechRow,          \* technician -> [dealership, skills, shiftStart, shiftEnd]
  ServiceRow,       \* service type -> [minutes, capabilities, skills]
  TicksPerMinute,   \* 60 000 in the code, whose tick is the millisecond
  MinutesPerDay     \* 1440 in the code

ASSUME ResourcesAssumption ==
  /\ Bays \subseteq Nat
  /\ Techs \subseteq Nat

(* Minutes of the day, 0 to 1440 in the database. *)
ASSUME ShiftsAssumption ==
  \A t \in Techs : TechRow[t].shiftStart \in Nat /\ TechRow[t].shiftEnd \in Nat

ASSUME ServicesAssumption ==
  \A s \in Services : ServiceRow[s].minutes \in Nat \ {0}

ASSUME ClockAssumption ==
  /\ TicksPerMinute \in Nat \ {0}
  /\ MinutesPerDay \in Nat \ {0}

-----------------------------------------------------------------------------
(* OverlapByStartOnly and, below, StartsOnShift are variants of            *)
(* IntervalsOverlap and TechnicianOnShift with a plausible slip in them.   *)

OverlapByStartOnly(aStart, aEnd, bStart, bEnd) == bStart =< aStart /\ aStart < bEnd

-----------------------------------------------------------------------------
(* Half-open intervals [aStart, aEnd) and [bStart, bEnd). *)
IntervalsOverlap(aStart, aEnd, bStart, bEnd) == aStart < bEnd /\ bStart < aEnd

(* start.getTime() + durationMinutes * 60_000 *)
EndOf(s, start) == start + ServiceRow[s].minutes * TicksPerMinute

(* getUTCHours() * 60 + getUTCMinutes(): seconds are dropped. *)
MinuteOfDay(tick) == (tick \div TicksPerMinute) % MinutesPerDay
DayOf(tick)       == (tick \div TicksPerMinute) \div MinutesPerDay

BayIsCapable(b, s) == ServiceRow[s].capabilities \subseteq BayRow[b].capabilities

TechnicianIsQualified(t, s) == ServiceRow[s].skills \subseteq TechRow[t].skills

StartsOnShift(t, start, end) ==
  /\ MinuteOfDay(start) >= TechRow[t].shiftStart
  /\ MinuteOfDay(start) =< TechRow[t].shiftEnd

TechnicianOnShift(t, start, end) ==
  /\ DayOf(start) = DayOf(end)
  /\ MinuteOfDay(start) >= TechRow[t].shiftStart
  /\ MinuteOfDay(end) =< TechRow[t].shiftEnd

(* The candidate rows of findAvailableBays and findAvailableTechnicians,   *)
(* before the busy ones are taken out.                                     *)
CapableBays(d, s) == {b \in Bays : BayRow[b].dealership = d /\ BayIsCapable(b, s)}

QualifiedTechnicians(d, s) ==
  {t \in Techs : TechRow[t].dealership = d /\ TechnicianIsQualified(t, s)}

EligibleTechnicians(d, s, start) ==
  {t \in QualifiedTechnicians(d, s) : TechnicianOnShift(t, start, EndOf(s, start))}

(* busyResourceIds: the ids that a CONFIRMED appointment of the set as     *)
(* holds during some part of [start, end).                                 *)
Occupies(a, start, end) ==
  a.status = "CONFIRMED" /\ IntervalsOverlap(a.start, a.end, start, end)

BusyBays(as, start, end)  == {a.bay : a \in {x \in as : Occupies(x, start, end)}}
BusyTechs(as, start, end) == {a.tech : a \in {x \in as : Occupies(x, start, end)}}

===============================================================================
