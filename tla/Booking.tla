-------------------------------- MODULE Booking -------------------------------
(***************************************************************************)
(* The booking core: book, cancel and reschedule of AppointmentsService,   *)
(* each an HTTP request that runs one MySQL transaction and, after it has  *)
(* committed, its side effects.  Requests interleave between any two of    *)
(* their database calls; row locks are taken one row at a time; a request  *)
(* can fail at any point, which rolls its transaction back.                *)
(*                                                                         *)
(* An appointment is identified by the request that inserts it, since a    *)
(* request inserts at most one.  What a transaction has written and not    *)
(* committed is not in appts: it is applied by the Commit actions, and     *)
(* Visible says what the transaction itself reads.                         *)
(***************************************************************************)
EXTENDS Availability, FiniteSets

CONSTANTS
  Requests,      \* the HTTP requests of a behaviour
  Customers,
  Vehicles,
  VehicleOwner,  \* vehicle -> customer
  Starts,        \* the start times clients ask for
  Admin,         \* the caller that may act on any appointment
  Missing,       \* an id no row has
  NoAppt,        \* no appointment yet
  NoOwner,       \* a row no transaction has locked
  NoWork,        \* a request whose input is not resolved (yet)
  MaxTime        \* bound: the clock stops there

ASSUME RequestsAssumption ==
  /\ NoOwner \notin Requests
  /\ NoAppt \notin Requests

(* The rows of a table. *)
ASSUME TablesAssumption == IsFiniteSet(Bays) /\ IsFiniteSet(Techs)

ASSUME StartsAssumption == Starts \subseteq Nat /\ MaxTime \in Nat

VARIABLES
  appts,      \* committed rows of `appointments`: request -> row, or NoAppt
  apptLock,   \* row locks: appointment -> request that holds it, or NoOwner
  bayLock,    \*            service bay -> likewise
  techLock,   \*            technician -> likewise
  stage,      \* where each request is in its handler
  work,       \* what it resolved: operation, old appointment, place and window
  freeBays,   \* result of findAvailableBays in its transaction
  freeTechs,  \* result of findAvailableTechnicians
  answer,     \* what the client was told
  jobs,       \* <<request, queue>>: the jobs that reached a BullMQ queue
  now         \* the clock

database == <<appts, apptLock, bayLock, techLock>>
handler  == <<stage, work, freeBays, freeTechs, answer>>
vars     == <<appts, apptLock, bayLock, techLock,
              stage, work, freeBays, freeTechs, answer, jobs, now>>

Stages   == {"new", "save", "row", "bays", "techs", "commit", "mail", "watch", "done"}
Refusals == {"notFound", "notOwner", "past", "cancelled", "full"}
Answers  == {"none", "ok", "error"} \cup Refusals
Callers  == Customers \cup {Admin}

Work == [op : {"book", "cancel", "reschedule"}, old : Requests \cup {NoAppt},
         customer : Customers, dealership : Dealerships, service : Services, start : Int]

(* from and closedBy are history: the appointment this one replaced, and   *)
(* the request whose UPDATE cancelled it.                                  *)
Appointment ==
  [customer : Customers, dealership : Dealerships, service : Services,
   bay : Bays, tech : Techs, start : Int, end : Int,
   status : {"CONFIRMED", "CANCELLED"},
   from : Requests \cup {NoAppt}, closedBy : Requests \cup {NoAppt}]

ASSUME MarkersAssumption == NoAppt \notin Appointment /\ NoWork \notin Work

-----------------------------------------------------------------------------
(* The definitions whose name says what is wrong with them are variants of *)
(* the one that follows, with a plausible slip of the code.                *)

-----------------------------------------------------------------------------
(* The request r, once its input is resolved. *)
Start(r)     == work[r].start
End(r)       == EndOf(work[r].service, work[r].start)
CandBaysAnywhere(r) == {b \in Bays : BayIsCapable(b, work[r].service)}
CandBays(r)  == CapableBays(work[r].dealership, work[r].service)
CandTechs(r) == EligibleTechnicians(work[r].dealership, work[r].service, work[r].start)

InAnyOrder(x, S) == x \in S
Least(x, S) == x \in S /\ \A y \in S : x =< y

(* What r's transaction reads under READ COMMITTED: the committed rows and *)
(* its own cancellation of the appointment it moves.                       *)
Visible(r) ==
  {appts[i] : i \in {j \in Requests : appts[j] # NoAppt /\ j # work[r].old}}

(* The rows that SELECT ... FOR UPDATE ORDER BY id still has to lock.      *)
NoBaysToLock(r) == {}
BaysToLock(r)  == {b \in CandBays(r) : bayLock[b] # r}
TechsToLock(r) == {t \in CandTechs(r) : techLock[t] # r}

FreedNever(table, r) == table
FreedRowsDropped(table, r) == [row \in {x \in DOMAIN table : table[x] # r} |-> table[row]]
Freed(table, r) == [row \in DOMAIN table |-> IF table[row] = r THEN NoOwner ELSE table[row]]

Goto(r, s) == stage' = [stage EXCEPT ![r] = s]

Respond(r, a) ==
  /\ Goto(r, "done")
  /\ answer' = [answer EXCEPT ![r] = a]

(* The request is refused before its transaction writes or locks anything. *)
Refuse(r, a) ==
  /\ Respond(r, a)
  /\ UNCHANGED <<database, work, freeBays, freeTechs, jobs, now>>

Enter(r, w, s) ==
  /\ Goto(r, s)
  /\ work' = [work EXCEPT ![r] = w]
  /\ UNCHANGED <<database, freeBays, freeTechs, answer, jobs, now>>

(* The end of a transaction gives its locks back. *)
ReleaseLocks(r) ==
  /\ apptLock' = Freed(apptLock, r)
  /\ bayLock' = Freed(bayLock, r)
  /\ techLock' = Freed(techLock, r)
  /\ freeBays' = [freeBays EXCEPT ![r] = {}]
  /\ freeTechs' = [freeTechs EXCEPT ![r] = {}]

Rollback(r, a) ==
  /\ ReleaseLocks(r)
  /\ Respond(r, a)
  /\ UNCHANGED <<appts, work, jobs, now>>

-----------------------------------------------------------------------------
(* book                                                                    *)

(* resolveRequest: the four rows are looked up, then the checks are made   *)
(* in this order.                                                          *)
ResolveRequest(c, v, d, s, start) ==
  IF Missing \in {c, v, d, s} THEN "notFound"
  ELSE IF VehicleOwner[v] # c THEN "notOwner"
  ELSE IF start =< now THEN "past"
  ELSE "ok"

Book(r) ==
  /\ stage[r] = "new"
  /\ \E c \in Customers \cup {Missing}, v \in Vehicles \cup {Missing},
        d \in Dealerships \cup {Missing}, s \in Services \cup {Missing}, start \in Starts :
       LET verdict == ResolveRequest(c, v, d, s, start)
       IN  IF verdict = "ok"
           THEN Enter(r, [op |-> "book", old |-> NoAppt, customer |-> c,
                          dealership |-> d, service |-> s, start |-> start], "bays")
           ELSE Refuse(r, verdict)

(* lockRows: InnoDB grants the rows of the SELECT one after the other, in  *)
(* the order of the id, and the transaction waits for one that is taken.   *)
LockBay(r) ==
  /\ stage[r] = "bays"
  /\ \E b \in BaysToLock(r) :
       /\ Least(b, BaysToLock(r))
       /\ bayLock[b] = NoOwner
       /\ bayLock' = [bayLock EXCEPT ![b] = r]
  /\ UNCHANGED <<appts, apptLock, techLock, handler, jobs, now>>

LockTech(r) ==
  /\ stage[r] = "techs"
  /\ \E t \in TechsToLock(r) :
       /\ Least(t, TechsToLock(r))
       /\ techLock[t] = NoOwner
       /\ techLock' = [techLock EXCEPT ![t] = r]
  /\ UNCHANGED <<appts, apptLock, bayLock, handler, jobs, now>>

FindAvailableBaysSkippingLocked(r) ==
  /\ stage[r] = "bays"
  /\ freeBays' = [freeBays EXCEPT ![r] =
                    {b \in CandBays(r) : bayLock[b] = r} \ BusyBays(Visible(r), Start(r), End(r))]
  /\ Goto(r, "techs")
  /\ UNCHANGED <<database, work, freeTechs, answer, jobs, now>>

(* The busy query of findAvailableBays, once every candidate is locked. *)
FindAvailableBays(r) ==
  /\ stage[r] = "bays"
  /\ BaysToLock(r) = {}
  /\ freeBays' = [freeBays EXCEPT ![r] =
                    CandBays(r) \ BusyBays(Visible(r), Start(r), End(r))]
  /\ Goto(r, "techs")
  /\ UNCHANGED <<database, work, freeTechs, answer, jobs, now>>

(* The same for the technicians; 409 and a rollback when a list is empty.  *)
FindAvailableTechnicians(r) ==
  /\ stage[r] = "techs"
  /\ TechsToLock(r) = {}
  /\ LET free == CandTechs(r) \ BusyTechs(Visible(r), Start(r), End(r))
     IN  IF freeBays[r] = {} \/ free = {}
         THEN Rollback(r, "full")
         ELSE /\ freeTechs' = [freeTechs EXCEPT ![r] = free]
              /\ Goto(r, "commit")
              /\ UNCHANGED <<database, work, freeBays, answer, jobs, now>>

(* technicians[0] and bays[0], for the window that was asked for. *)
NewAppointment(r, b, t) ==
  [customer |-> work[r].customer, dealership |-> work[r].dealership,
   service |-> work[r].service, bay |-> b, tech |-> t,
   start |-> Start(r), end |-> End(r),
   status |-> "CONFIRMED", from |-> work[r].old, closedBy |-> NoAppt]

CommitBook(r) ==
  /\ stage[r] = "commit"
  /\ work[r].op = "book"
  /\ \E b \in freeBays[r], t \in freeTechs[r] :
       /\ Least(b, freeBays[r])
       /\ Least(t, freeTechs[r])
       /\ appts' = [appts EXCEPT ![r] = NewAppointment(r, b, t)]
  /\ ReleaseLocks(r)
  /\ Goto(r, "mail")
  /\ UNCHANGED <<work, answer, jobs, now>>

-----------------------------------------------------------------------------
(* cancel and cancelForCustomer                                            *)

(* An appointment the caller may act on; anything else is a 404. *)
Owned(by, id) == appts[id] # NoAppt /\ (by = Admin \/ appts[id].customer = by)

WorkOn(op, id, start) ==
  [op |-> op, old |-> id, customer |-> appts[id].customer,
   dealership |-> appts[id].dealership, service |-> appts[id].service, start |-> start]

(* The status is read here, without a lock; an appointment already         *)
(* cancelled is returned as it is, with no side effect.                    *)
Cancel(r) ==
  /\ stage[r] = "new"
  /\ \E by \in Callers, id \in Requests :
       IF ~Owned(by, id)
       THEN Refuse(r, "notFound")
       ELSE IF appts[id].status = "CANCELLED"
            THEN Refuse(r, "ok")
            ELSE Enter(r, WorkOn("cancel", id, appts[id].start), "row")

LockRowOutsideTransaction(r) ==
  /\ stage[r] = "row"
  /\ apptLock[work[r].old] = NoOwner
  /\ appts' = [appts EXCEPT ![work[r].old].status = "CANCELLED", ![work[r].old].closedBy = r]
  /\ Goto(r, IF work[r].op = "cancel" THEN "commit" ELSE "bays")
  /\ UNCHANGED <<apptLock, bayLock, techLock, work, freeBays, freeTechs, answer, jobs, now>>

(* UPDATE appointments ... WHERE id = old takes the lock of the row. *)
LockRow(r) ==
  /\ stage[r] = "row"
  /\ apptLock[work[r].old] = NoOwner
  /\ apptLock' = [apptLock EXCEPT ![work[r].old] = r]
  /\ Goto(r, IF work[r].op = "cancel" THEN "commit" ELSE "bays")
  /\ UNCHANGED <<appts, bayLock, techLock, work, freeBays, freeTechs, answer, jobs, now>>

Cancelled(a, r) == [a EXCEPT !.status = "CANCELLED", !.closedBy = r]

CommitCancel(r) ==
  /\ stage[r] = "commit"
  /\ work[r].op = "cancel"
  /\ appts' = [appts EXCEPT ![work[r].old] = Cancelled(@, r)]
  /\ ReleaseLocks(r)
  /\ Goto(r, "mail")
  /\ UNCHANGED <<work, answer, jobs, now>>

-----------------------------------------------------------------------------
(* reschedule and rescheduleForCustomer                                    *)

(* Ownership of a customer is checked first, then the new time, then the   *)
(* appointment is read again, without a lock, in the transaction.          *)
RescheduleVerdict(by, id, start) ==
  IF by # Admin /\ ~Owned(by, id) THEN "notFound"
  ELSE IF start =< now THEN "past"
  ELSE IF appts[id] = NoAppt THEN "notFound"
  ELSE IF appts[id].status = "CANCELLED" THEN "cancelled"
  ELSE "ok"

Reschedule(r) ==
  /\ stage[r] = "new"
  /\ \E by \in Callers, id \in Requests, start \in Starts :
       LET verdict == RescheduleVerdict(by, id, start)
       IN  IF verdict = "ok"
           THEN Enter(r, WorkOn("reschedule", id, start), "save")
           ELSE Refuse(r, verdict)

(* save reads the row again and sends an UPDATE, which locks the row, only *)
(* if something differs: none when the row was cancelled in the meantime.  *)
SaveOld(r) ==
  /\ stage[r] = "save"
  /\ Goto(r, IF appts[work[r].old].status = "CANCELLED" THEN "bays" ELSE "row")
  /\ UNCHANGED <<database, work, freeBays, freeTechs, answer, jobs, now>>

(* The old row, cancelled by r if r's UPDATE was sent. *)
OldRow(r) ==
  IF apptLock[work[r].old] = r
  THEN Cancelled(appts[work[r].old], r)
  ELSE appts[work[r].old]

CommitReschedule(r) ==
  /\ stage[r] = "commit"
  /\ work[r].op = "reschedule"
  /\ \E b \in freeBays[r], t \in freeTechs[r] :
       /\ Least(b, freeBays[r])
       /\ Least(t, freeTechs[r])
       /\ appts' = [appts EXCEPT ![work[r].old] = OldRow(r),
                                 ![r] = NewAppointment(r, b, t)]
  /\ ReleaseLocks(r)
  /\ Goto(r, "mail")
  /\ UNCHANGED <<work, answer, jobs, now>>

-----------------------------------------------------------------------------
(* Side effects after the commit, and failures                             *)

SendMailInTransaction(r) ==
  \/ /\ stage[r] = "commit"
     /\ jobs' = jobs \cup {<<r, "mail">>}
     /\ UNCHANGED <<database, handler, now>>
  \/ /\ stage[r] = "mail"
     /\ IF work[r].op = "book" THEN Respond(r, "ok")
        ELSE Goto(r, "watch") /\ UNCHANGED answer
     /\ UNCHANGED <<database, work, freeBays, freeTechs, jobs, now>>

(* enqueueMail: the job reaches the queue, or the 500 ms are over first;   *)
(* the request goes on either way.                                         *)
SendMail(r) ==
  /\ stage[r] = "mail"
  /\ jobs' \in {jobs, jobs \cup {<<r, "mail">>}}
  /\ IF work[r].op = "book" THEN Respond(r, "ok")
     ELSE Goto(r, "watch") /\ UNCHANGED answer
  /\ UNCHANGED <<database, work, freeBays, freeTechs, now>>

TriggerWatchCheck(r) ==
  /\ stage[r] = "watch"
  /\ jobs' \in {jobs, jobs \cup {<<r, "watch">>}}
  /\ Respond(r, "ok")
  /\ UNCHANGED <<database, work, freeBays, freeTechs, now>>

FailSwallowed(r) ==
  /\ stage[r] \notin {"new", "done"}
  /\ Rollback(r, "ok")

(* A database error, a lock wait timeout or the end of the process: before *)
(* the commit the transaction is rolled back; after it, customerEmail can  *)
(* still fail the request.                                                 *)
Fail(r) ==
  /\ stage[r] \notin {"new", "done"}
  /\ Rollback(r, "error")

Tick ==
  /\ now < MaxTime
  /\ now' = now + 1
  /\ UNCHANGED <<database, handler, jobs>>

-----------------------------------------------------------------------------
Init ==
  /\ appts = [r \in Requests |-> NoAppt]
  /\ apptLock = [r \in Requests |-> NoOwner]
  /\ bayLock = [b \in Bays |-> NoOwner]
  /\ techLock = [t \in Techs |-> NoOwner]
  /\ stage = [r \in Requests |-> "new"]
  /\ work = [r \in Requests |-> NoWork]
  /\ freeBays = [r \in Requests |-> {}]
  /\ freeTechs = [r \in Requests |-> {}]
  /\ answer = [r \in Requests |-> "none"]
  /\ jobs = {}
  /\ now = 0

Arrive(r) == Book(r) \/ Cancel(r) \/ Reschedule(r)

(* What a request that has arrived does next, unless it fails. *)
Proceed(r) ==
  \/ SaveOld(r) \/ LockRow(r)
  \/ LockBay(r) \/ FindAvailableBays(r)
  \/ LockTech(r) \/ FindAvailableTechnicians(r)
  \/ CommitBook(r) \/ CommitCancel(r) \/ CommitReschedule(r)
  \/ SendMail(r) \/ TriggerWatchCheck(r)

Next ==
  \/ \E r \in Requests : Arrive(r) \/ Proceed(r) \/ Fail(r)
  \/ Tick

Spec == Init /\ [][Next]_vars

FairSpec == Spec /\ \A r \in Requests : WF_vars(Proceed(r))

-----------------------------------------------------------------------------
(* Properties                                                              *)

(* The variables hold what the code stores in them; the clock of a bounded *)
(* behaviour stays in Nat.                                                 *)
TypeOK ==
  /\ appts \in [Requests -> Appointment \cup {NoAppt}]
  /\ apptLock \in [Requests -> Requests \cup {NoOwner}]
  /\ bayLock \in [Bays -> Requests \cup {NoOwner}]
  /\ techLock \in [Techs -> Requests \cup {NoOwner}]
  /\ stage \in [Requests -> Stages]
  /\ work \in [Requests -> Work \cup {NoWork}]
  /\ freeBays \in [Requests -> SUBSET Bays]
  /\ freeTechs \in [Requests -> SUBSET Techs]
  /\ answer \in [Requests -> Answers]
  /\ jobs \subseteq Requests \X {"mail", "watch"}
  /\ now \in Nat

Committed(i) == appts[i] # NoAppt
Confirmed(i) == Committed(i) /\ appts[i].status = "CONFIRMED"

(* No bay and no technician is double-booked: two confirmed appointments   *)
(* whose windows overlap share neither, whatever book, cancel and          *)
(* reschedule interleave and fail.  This is what the row locks are for.    *)
NoDoubleBooking ==
  \A i, j \in Requests :
    ( /\ i # j
      /\ Confirmed(i)
      /\ Confirmed(j)
      /\ IntervalsOverlap(appts[i].start, appts[i].end, appts[j].start, appts[j].end) )
    => appts[i].bay # appts[j].bay /\ appts[i].tech # appts[j].tech

(* Rows are locked in one global order, appointments, then bays, then      *)
(* technicians, each by id: the row a transaction locks next comes after   *)
(* all those it holds.                                                     *)
LockOrder ==
  \A r \in Requests :
    /\ stage[r] = "row" =>
         /\ \A i \in Requests : apptLock[i] # r
         /\ \A b \in Bays : bayLock[b] # r
         /\ \A t \in Techs : techLock[t] # r
    /\ stage[r] = "bays" =>
         /\ \A t \in Techs : techLock[t] # r
         /\ \A b \in Bays, c \in BaysToLock(r) : bayLock[b] = r => b < c
    /\ stage[r] = "techs" =>
         \A t \in Techs, c \in TechsToLock(r) : techLock[t] = r => t < c

WaitsFor(r, q) ==
  \/ stage[r] = "row" /\ apptLock[work[r].old] = q
  \/ stage[r] = "bays" /\ \E b \in BaysToLock(r) : Least(b, BaysToLock(r)) /\ bayLock[b] = q
  \/ stage[r] = "techs" /\ \E t \in TechsToLock(r) : Least(t, TechsToLock(r)) /\ techLock[t] = q

(* No deadlock: in every set of requests one waits for none of the set.    *)
NoWaitCycle ==
  \A S \in (SUBSET Requests) \ {{}} : \E r \in S : \A q \in S : ~WaitsFor(r, q)

(* What a client is told is what happened: "ok" only after the commit, and *)
(* a refusal only if the request has booked nothing.                       *)
AnswerHonest ==
  \A r \in Requests :
    /\ (answer[r] = "ok" /\ work[r] # NoWork) =>
         /\ work[r].op # "cancel" => Committed(r)
         /\ work[r].op # "book" => appts[work[r].old].status = "CANCELLED"
    /\ answer[r] \in Refusals => ~Committed(r)

(* "The move either fully succeeds or leaves the original intact": the     *)
(* original is never cancelled by a reschedule that booked no successor.   *)
MoveAllOrNothing ==
  \A i, r \in Requests :
    (Committed(i) /\ appts[i].closedBy = r /\ work[r].op = "reschedule") =>
      Committed(r) /\ appts[r].from = i

(* Jobs speak of committed changes only: no mail or watch check is queued  *)
(* for a booking or a cancellation that can still be rolled back.          *)
JobsFollowCommit ==
  \A r \in Requests :
    (<<r, "mail">> \in jobs \/ <<r, "watch">> \in jobs) =>
      IF work[r].op = "cancel" THEN appts[work[r].old].status = "CANCELLED" ELSE Committed(r)

(* "Exactly one wins": as long as nothing has been cancelled, a request is *)
(* told 409 only if all its candidate bays, or all its candidate           *)
(* technicians, are taken by confirmed appointments; never because the     *)
(* competitor it waited for was rolled back.                               *)
RejectedOnlyWhenFull ==
  (\A i \in Requests : Committed(i) => Confirmed(i)) =>
    \A r \in Requests :
      answer[r] = "full" =>
        \/ CandBays(r) \subseteq BusyBays(Visible(r), Start(r), End(r))
        \/ CandTechs(r) \subseteq BusyTechs(Visible(r), Start(r), End(r))

(* Every request that arrives is answered, even if none ever fails: locks  *)
(* are always given back and nobody waits for ever.                        *)
Answered == \A r \in Requests : stage[r] # "new" ~> stage[r] = "done"

(* The move is atomic, "cancels the existing record and books the new      *)
(* window": an appointment is succeeded by one other at most.              *)
OneSuccessor ==
  \A i, j \in Requests :
    (Committed(i) /\ Committed(j) /\ appts[i].from = appts[j].from) =>
      i = j \/ appts[i].from = NoAppt

(* "Booking must fit entirely within shift": no window starts before the   *)
(* shift of its technician or on another day, and none ends a minute or    *)
(* more after it; less than a minute it can, for its seconds are dropped.  *)
WithinShift ==
  \A i \in Requests :
    Confirmed(i) =>
      LET a == appts[i]
          midnight == DayOf(a.start) * MinutesPerDay
      IN  /\ a.start >= (midnight + TechRow[a.tech].shiftStart) * TicksPerMinute
          /\ a.end < (midnight + TechRow[a.tech].shiftEnd + 1) * TicksPerMinute

(* Every step of the booking core is one step of the calendar, or none.    *)
Abstract == INSTANCE Calendar WITH Ids <- Requests
ImplementsCalendar == Abstract!Spec

===============================================================================
