------------------------------- MODULE Calendar -------------------------------
(***************************************************************************)
(* What the booking core promises, without transactions, locks or          *)
(* requests in flight: a calendar of appointments in which a new entry     *)
(* always gets a capable bay and an eligible technician that are free for  *)
(* the whole window, and in which an entry is moved in one step.           *)
(* Booking is shown to implement this module.                              *)
(***************************************************************************)
EXTENDS Availability

CONSTANTS
  Ids,      \* identities of appointments
  NoAppt    \* an identity not in use yet

VARIABLE appts   \* identity -> appointment, or NoAppt

-----------------------------------------------------------------------------
(* The appointments on the calendar, except those of moved, leave the bay  *)
(* and the technician of a free for its window.                            *)
Fits(a, moved) ==
  \A i \in Ids \ moved :
    (appts[i] # NoAppt /\ Occupies(appts[i], a.start, a.end)) =>
      appts[i].bay # a.bay /\ appts[i].tech # a.tech

(* The resources of a can serve it: right dealership, capabilities and     *)
(* skills, on shift, and the window is the fixed duration of the service.  *)
Assigned(a) ==
  /\ a.status = "CONFIRMED"
  /\ a.service \in Services
  /\ a.start \in Int
  /\ a.end = EndOf(a.service, a.start)
  /\ a.bay \in CapableBays(a.dealership, a.service)
  /\ a.tech \in EligibleTechnicians(a.dealership, a.service, a.start)

(* A status change that leaves where and when the appointment is. *)
SamePlace(a, b) ==
  b # NoAppt /\ b.bay = a.bay /\ b.tech = a.tech /\ b.start = a.start /\ b.end = a.end

-----------------------------------------------------------------------------
Init == appts = [i \in Ids |-> NoAppt]

Reserve(i) ==
  /\ appts[i] = NoAppt
  /\ appts'[i] # NoAppt
  /\ Assigned(appts'[i])
  /\ Fits(appts'[i], {})
  /\ appts' = [appts EXCEPT ![i] = appts'[i]]

Release(i) ==
  /\ appts[i] # NoAppt
  /\ SamePlace(appts[i], appts'[i])
  /\ appts'[i].status = "CANCELLED"
  /\ appts' = [appts EXCEPT ![i] = appts'[i]]

(* The old entry is released, unless it was already, and the new one is    *)
(* reserved, both in this step.                                            *)
Move(i, j) ==
  /\ appts[i] # NoAppt
  /\ appts[j] = NoAppt
  /\ appts'[j] # NoAppt
  /\ SamePlace(appts[i], appts'[i])
  /\ appts'[i].status = "CANCELLED"
  /\ Assigned(appts'[j])
  /\ Fits(appts'[j], {i})
  /\ appts' = [appts EXCEPT ![i] = appts'[i], ![j] = appts'[j]]

Next ==
  \/ \E i \in Ids : Reserve(i) \/ Release(i)
  \/ \E i, j \in Ids : Move(i, j)

Spec == Init /\ [][Next]_appts

-----------------------------------------------------------------------------
(* No two confirmed appointments use one bay, or one technician, during    *)
(* overlapping windows.                                                    *)
NoOverlap ==
  \A i, j \in Ids :
    ( /\ i # j
      /\ appts[i] # NoAppt
      /\ appts[j] # NoAppt
      /\ appts[i].status = "CONFIRMED"
      /\ appts[j].status = "CONFIRMED"
      /\ IntervalsOverlap(appts[i].start, appts[i].end, appts[j].start, appts[j].end) )
    => appts[i].bay # appts[j].bay /\ appts[i].tech # appts[j].tech

(* The window of an entry keeps to the shift of its technician, whose      *)
(* seconds are cut off: Booking says more about it.                        *)
InShift(a) ==
  LET midnight == DayOf(a.start) * MinutesPerDay
  IN  /\ a.start >= (midnight + TechRow[a.tech].shiftStart) * TicksPerMinute
      /\ a.end < (midnight + TechRow[a.tech].shiftEnd + 1) * TicksPerMinute

WithinShift == \A i \in Ids : appts[i] # NoAppt => InShift(appts[i])

===============================================================================
