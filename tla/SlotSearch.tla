------------------------------ MODULE SlotSearch ------------------------------
(***************************************************************************)
(* findOpenSlots of AvailabilityService, which the slots API and the watch *)
(* worker call: two busy queries outside any transaction, then a loop over *)
(* the grid of start times in memory.  Bookings, cancellations and moves   *)
(* commit at any time, between the two queries too; Calendar says what     *)
(* they can do.                                                            *)
(***************************************************************************)
EXTENDS Calendar

CONSTANTS
  BookedStarts,   \* start times of the appointments on the calendar
  From, To,       \* windowStart and windowEnd: the slots are in [From, To)
  Step            \* stepMinutes, in ticks

ASSUME SearchAssumption ==
  /\ BookedStarts \subseteq Nat
  /\ From \in Nat /\ To \in Nat
  /\ Step \in Nat \ {0}

VARIABLES
  pc,          \* "idle", "techs", "bays", "loop" or "done"
  dealership,  \* where the search looks
  service,     \* what for
  busyByTech,  \* technician -> its booked intervals, as the first query saw them
  busyByBay,   \* bay -> its booked intervals, as the second query saw them
  t,           \* the loop variable
  slots,       \* the start times found so far
  atTechs,     \* history: the calendar when the first query ran
  atBays,      \* history: the calendar when the second query ran
  steady       \* history: the slots open from the first query to the second

search  == <<pc, dealership, service, busyByTech, busyByBay, t, slots>>
history == <<atTechs, atBays, steady>>
vars    == <<appts, search, history>>

Grid == {u \in From..(To - 1) : (u - From) % Step = 0}

-----------------------------------------------------------------------------
(* What it means for a slot to be open, whatever way it is computed.       *)

RowsOf(as) == {as[i] : i \in {j \in Ids : as[j] # NoAppt}}

TechsFree(as, u) ==
  QualifiedTechnicians(dealership, service) \ BusyTechs(RowsOf(as), u, EndOf(service, u))

BaysFree(as, u) ==
  CapableBays(dealership, service) \ BusyBays(RowsOf(as), u, EndOf(service, u))

(* The shift [shiftStart, shiftEnd) of the day contains [start, end), but  *)
(* for its last ticks if there is grace.                                   *)
ShiftContains(k, start, end, grace) ==
  LET midnight == DayOf(start) * MinutesPerDay
  IN  /\ (midnight + TechRow[k].shiftStart) * TicksPerMinute =< start
      /\ end =< (midnight + TechRow[k].shiftEnd) * TicksPerMinute + grace

SomeTechOpen(as, u, grace) ==
  \E k \in TechsFree(as, u) : ShiftContains(k, u, EndOf(service, u), grace)

OpenSlots(as) == {u \in Grid : SomeTechOpen(as, u, 0) /\ BaysFree(as, u) # {}}

(* What `book` would find for a request of this service, if it ran while   *)
(* the calendar is as: the same candidates, less the busy ones.            *)
BookableTechs(as, u) == TechsFree(as, u) \cap EligibleTechnicians(dealership, service, u)

Bookable(as) == {u \in Grid : BookableTechs(as, u) # {} /\ BaysFree(as, u) # {}}

-----------------------------------------------------------------------------
(* The search                                                              *)

FindOpenSlots ==
  /\ pc = "idle"
  /\ pc' = IF \/ CapableBays(dealership, service) = {}
              \/ QualifiedTechnicians(dealership, service) = {}
           THEN "done" ELSE "techs"
  /\ UNCHANGED <<appts, dealership, service, busyByTech, busyByBay, t, slots, history>>

(* busyIntervalsByResource keeps the confirmed appointments that meet      *)
(* [windowStart, windowEnd + duration): the last slot can end after the    *)
(* window, which QueriedToWindowEnd forgets.                               *)
QueriedToWindowEnd(a) == Occupies(a, From, To)
Queried(a) == Occupies(a, From, EndOf(service, To))

Intervals(as) == {[start |-> a.start, end |-> a.end] : a \in as}

QueryTechs ==
  /\ pc = "techs"
  /\ pc' = "bays"
  /\ busyByTech' = [k \in QualifiedTechnicians(dealership, service) |->
                      Intervals({a \in RowsOf(appts) : a.tech = k /\ Queried(a)})]
  /\ atTechs' = appts
  /\ steady' = OpenSlots(appts)
  /\ UNCHANGED <<appts, dealership, service, busyByBay, t, slots, atBays>>

QueryBays ==
  /\ pc = "bays"
  /\ pc' = "loop"
  /\ busyByBay' = [b \in CapableBays(dealership, service) |->
                     Intervals({a \in RowsOf(appts) : a.bay = b /\ Queried(a)})]
  /\ atBays' = appts
  /\ UNCHANGED <<appts, dealership, service, busyByTech, t, slots, atTechs, steady>>

IsFree(intervals, start, end) ==
  \A iv \in intervals : ~IntervalsOverlap(start, end, iv.start, iv.end)

TechFree(u) ==
  \E k \in DOMAIN busyByTech :
    TechnicianOnShift(k, u, EndOf(service, u)) /\ IsFree(busyByTech[k], u, EndOf(service, u))

BayFree(u) == \E b \in DOMAIN busyByBay : IsFree(busyByBay[b], u, EndOf(service, u))

(* Three slips in the loop: it ends at the first slot that is taken, it     *)
(* steps by one tick, or it does not step past a slot that is taken.       *)
TryStopsEarly ==
  /\ pc = "loop"
  /\ IF t < To /\ TechFree(t) /\ BayFree(t)
     THEN t' = t + Step /\ slots' = slots \cup {t} /\ UNCHANGED pc
     ELSE pc' = "done" /\ UNCHANGED <<t, slots>>
  /\ UNCHANGED <<appts, dealership, service, busyByTech, busyByBay, history>>

TryEveryTick ==
  /\ pc = "loop"
  /\ IF t < To
     THEN /\ t' = t + 1
          /\ slots' = IF TechFree(t) /\ BayFree(t) THEN slots \cup {t} ELSE slots
          /\ UNCHANGED pc
     ELSE pc' = "done" /\ UNCHANGED <<t, slots>>
  /\ UNCHANGED <<appts, dealership, service, busyByTech, busyByBay, history>>

TryStepsWhenFree ==
  /\ pc = "loop"
  /\ IF t < To
     THEN /\ TechFree(t) /\ BayFree(t)
          /\ t' = t + Step
          /\ slots' = slots \cup {t}
          /\ UNCHANGED pc
     ELSE pc' = "done" /\ UNCHANGED <<t, slots>>
  /\ UNCHANGED <<appts, dealership, service, busyByTech, busyByBay, history>>

(* One turn of the loop of openSlotsFrom, or its end. *)
TrySlot ==
  /\ pc = "loop"
  /\ IF t < To
     THEN /\ t' = t + Step
          /\ slots' = IF TechFree(t) /\ BayFree(t) THEN slots \cup {t} ELSE slots
          /\ UNCHANGED pc
     ELSE pc' = "done" /\ UNCHANGED <<t, slots>>
  /\ UNCHANGED <<appts, dealership, service, busyByTech, busyByBay, history>>

-----------------------------------------------------------------------------
(* Commits of the booking core while the search is under way.              *)

Entry(d, s, b, k, start) ==
  [dealership |-> d, service |-> s, bay |-> b, tech |-> k,
   start |-> start, end |-> EndOf(s, start), status |-> "CONFIRMED"]

Entries ==
  UNION {{Entry(d, s, b, k, start) : b \in CapableBays(d, s), k \in EligibleTechnicians(d, s, start)} :
           d \in Dealerships, s \in Services, start \in BookedStarts}

Freeing(i) == [appts EXCEPT ![i].status = "CANCELLED"]

CommitElsewhere ==
  /\ \E i \in Ids :
       \/ /\ appts[i] = NoAppt
          /\ \E a \in Entries : Fits(a, {}) /\ appts' = [appts EXCEPT ![i] = a]
       \/ /\ appts[i] # NoAppt
          /\ appts[i].status = "CONFIRMED"
          /\ \/ appts' = Freeing(i)
             \/ \E j \in Ids, a \in Entries :
                  /\ appts[j] = NoAppt
                  /\ Fits(a, {i})
                  /\ appts' = [Freeing(i) EXCEPT ![j] = a]
  /\ pc # "done"
  /\ steady' = IF pc = "bays" THEN steady \cap OpenSlots(appts') ELSE steady
  /\ UNCHANGED <<search, atTechs, atBays>>

-----------------------------------------------------------------------------
SearchInit ==
  /\ Init
  /\ pc = "idle"
  /\ dealership \in Dealerships
  /\ service \in Services
  /\ busyByTech = <<>>
  /\ busyByBay = <<>>
  /\ t = From
  /\ slots = {}
  /\ atTechs = appts
  /\ atBays = appts
  /\ steady = {}

SearchStep == FindOpenSlots \/ QueryTechs \/ QueryBays \/ TrySlot

SearchNext == SearchStep \/ CommitElsewhere

SearchSpec == SearchInit /\ [][SearchNext]_vars

FairSearchSpec == SearchSpec /\ WF_vars(SearchStep)

-----------------------------------------------------------------------------
(* Properties                                                              *)

SearchTypeOK ==
  /\ pc \in {"idle", "techs", "bays", "loop", "done"}
  /\ dealership \in Dealerships
  /\ service \in Services
  /\ pc = "loop" =>
       /\ DOMAIN busyByTech = QualifiedTechnicians(dealership, service)
       /\ DOMAIN busyByBay = CapableBays(dealership, service)
  /\ t \in Nat /\ t >= From /\ (t - From) % Step = 0
  /\ t = From \/ t < To + Step
  /\ slots \subseteq Grid
  /\ steady \subseteq Grid

(* No open slot is missed: a start time of the grid at which a technician, *)
(* for its whole shift, and a bay were free at every moment from the first *)
(* query to the second is in the answer, whatever commits in between.      *)
NothingMissed == pc = "done" => steady \subseteq slots

(* No slot is invented: each one in the answer had a technician free when  *)
(* the technicians were read and a bay free when the bays were read, and   *)
(* ends less than a minute after the shift, whose seconds are cut off.     *)
NothingInvented ==
  \A u \in slots :
    u \in Grid /\ SomeTechOpen(atTechs, u, TicksPerMinute - 1) /\ BaysFree(atBays, u) # {}

(* With no commit between the queries the answer is the set of start times *)
(* that `book` would accept then, although one loops over intervals it has *)
(* fetched for the whole window and the other asks for one start time; so  *)
(* it is when the search returns early for want of resources.              *)
ExactWhenQuiet == (pc = "done" /\ atTechs = atBays) => slots = Bookable(atBays)

(* The search ends. *)
SearchEnds == <>(pc = "done")

===============================================================================
