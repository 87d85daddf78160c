----------------------------- MODULE BookingProofs ----------------------------
(***************************************************************************)
(* What Booking guarantees for every set of requests, resources and        *)
(* services: its types, the global lock order, no double booking, and that *)
(* it implements Calendar.                                                 *)
(***************************************************************************)
EXTENDS Booking, FiniteSetTheorems, WellFoundedInduction, TLAPS

USE RequestsAssumption, MarkersAssumption

-----------------------------------------------------------------------------
(* Windows, candidates and records                                         *)

LEMMA EndOfInt ==
  ASSUME NEW s \in Services, NEW start \in Int
  PROVE  EndOf(s, start) \in Int
BY ServicesAssumption, ClockAssumption DEF EndOf

LEMMA CandidateRows ==
  ASSUME NEW r \in Requests
  PROVE  CandBays(r) \subseteq Bays /\ CandTechs(r) \subseteq Techs
BY DEF CandBays, CandTechs, CapableBays, EligibleTechnicians, QualifiedTechnicians

LEMMA FreedType ==
  ASSUME NEW S, NEW table \in [S -> Requests \cup {NoOwner}], NEW r \in Requests
  PROVE  /\ Freed(table, r) \in [S -> Requests \cup {NoOwner}]
         /\ \A x \in S : Freed(table, r)[x] # r
         /\ \A x \in S, q \in Requests \ {r} : Freed(table, r)[x] = q <=> table[x] = q
BY DEF Freed

LEMMA NewAppointmentType ==
  ASSUME NEW r \in Requests, work[r] \in Work, NEW b \in Bays, NEW t \in Techs
  PROVE  NewAppointment(r, b, t) \in Appointment
<1>1. Start(r) \in Int /\ End(r) \in Int
  BY EndOfInt DEF Work, Start, End
<1> QED
  BY <1>1 DEF NewAppointment, Appointment, Work

LEMMA CancelledType ==
  ASSUME NEW a \in Appointment, NEW r \in Requests
  PROVE  /\ Cancelled(a, r) \in Appointment
         /\ Cancelled(a, r).status = "CANCELLED"
         /\ Cancelled(a, r).bay = a.bay
         /\ Cancelled(a, r).tech = a.tech
         /\ Cancelled(a, r).start = a.start
         /\ Cancelled(a, r).end = a.end
BY DEF Cancelled, Appointment

-----------------------------------------------------------------------------
(* The inductive invariant.  Beside the types it says, of each request,    *)
(* what its locks and the lists it has computed are worth.                 *)

InTransaction(r) == stage[r] \in {"bays", "techs", "commit"}

WorkInv(r) ==
  /\ stage[r] \notin {"new", "done"} => work[r] \in Work
  /\ stage[r] \in {"save", "row"} => work[r].op # "book"
  /\ stage[r] \in {"save", "bays", "techs"} => work[r].op # "cancel"
  /\ stage[r] \in {"new", "save", "row", "bays", "techs", "commit"} => appts[r] = NoAppt
  /\ stage[r] \notin {"new", "done"} /\ work[r].op # "book" =>
       work[r].old \in Requests /\ appts[work[r].old] # NoAppt
  /\ stage[r] \notin {"new", "done"} /\ work[r].op = "book" => work[r].old = NoAppt

(* A lock is held only by a transaction for which the row is a candidate.  *)
LocksInv(r) ==
  /\ \A i \in Requests : apptLock[i] = r => InTransaction(r) /\ work[r].old = i
  /\ \A b \in Bays : bayLock[b] = r =>
       InTransaction(r) /\ work[r].op # "cancel" /\ b \in CandBays(r)
  /\ \A t \in Techs : techLock[t] = r =>
       stage[r] \in {"techs", "commit"} /\ work[r].op # "cancel" /\ t \in CandTechs(r)

(* The appointment r moves is cancelled, or only r can cancel it.          *)
OldInv(r) ==
  InTransaction(r) /\ work[r].op = "reschedule" =>
    apptLock[work[r].old] = r \/ appts[work[r].old].status = "CANCELLED"

(* The bays r found free are still free, and locked. *)
BaysInv(r) ==
  stage[r] \in {"techs", "commit"} /\ work[r].op # "cancel" =>
    /\ \A b \in CandBays(r) : bayLock[b] = r
    /\ freeBays[r] \subseteq CandBays(r)
    /\ \A i \in Requests \ {work[r].old} :
         appts[i] # NoAppt /\ Occupies(appts[i], Start(r), End(r)) => appts[i].bay \notin freeBays[r]

TechsInv(r) ==
  stage[r] = "commit" /\ work[r].op # "cancel" =>
    /\ \A t \in CandTechs(r) : techLock[t] = r
    /\ freeTechs[r] \subseteq CandTechs(r)
    /\ \A i \in Requests \ {work[r].old} :
         appts[i] # NoAppt /\ Occupies(appts[i], Start(r), End(r)) => appts[i].tech \notin freeTechs[r]

(* Rows are locked in ascending order. *)
OrderInv(r) ==
  /\ stage[r] = "bays" => \A b \in Bays, c \in BaysToLock(r) : bayLock[b] = r => b < c
  /\ stage[r] = "techs" => \A t \in Techs, c \in TechsToLock(r) : techLock[t] = r => t < c

RequestInv(r) ==
  /\ WorkInv(r)
  /\ LocksInv(r)
  /\ OldInv(r)
  /\ BaysInv(r)
  /\ TechsInv(r)
  /\ OrderInv(r)

IInv == TypeOK /\ \A r \in Requests : RequestInv(r)

(* The steps of a request. *)
Act(r) == Arrive(r) \/ Proceed(r) \/ Fail(r)

-----------------------------------------------------------------------------
LEMMA InitInv == Init => IInv
<1> SUFFICES ASSUME Init PROVE IInv
  OBVIOUS
<1> USE DEF Init
<1>1. TypeOK
  BY DEF TypeOK, Stages, Answers, Refusals
<1>2. ASSUME NEW r \in Requests PROVE RequestInv(r)
  BY <1>2 DEF RequestInv, WorkInv, LocksInv, OldInv, BaysInv, TechsInv, OrderInv, InTransaction
<1> QED
  BY <1>1, <1>2 DEF IInv

-----------------------------------------------------------------------------
(* The types are kept.                                                     *)

LEMMA TypeArrive ==
  ASSUME TypeOK, NEW r \in Requests, Arrive(r)
  PROVE  TypeOK'
<1> USE DEF TypeOK
<1>1. ASSUME NEW a \in Answers, Refuse(r, a) PROVE TypeOK'
  BY <1>1 DEF Refuse, Respond, Goto, database, Stages
<1>2. ASSUME NEW w \in Work, NEW s \in Stages, Enter(r, w, s) PROVE TypeOK'
  BY <1>2 DEF Enter, Goto, database
<1>3. CASE Book(r)
  <2>1. PICK c \in Customers \cup {Missing}, v \in Vehicles \cup {Missing},
             d \in Dealerships \cup {Missing}, s \in Services \cup {Missing}, start \in Starts :
          LET verdict == ResolveRequest(c, v, d, s, start)
          IN  IF verdict = "ok"
              THEN Enter(r, [op |-> "book", old |-> NoAppt, customer |-> c,
                             dealership |-> d, service |-> s, start |-> start], "bays")
              ELSE Refuse(r, verdict)
    BY <1>3 DEF Book
  <2>2. ResolveRequest(c, v, d, s, start) \in Answers
    BY DEF ResolveRequest, Answers, Refusals
  <2>3. CASE ResolveRequest(c, v, d, s, start) = "ok"
    <3>1. c \in Customers /\ d \in Dealerships /\ s \in Services
      BY <2>3 DEF ResolveRequest
    <3>2. [op |-> "book", old |-> NoAppt, customer |-> c,
           dealership |-> d, service |-> s, start |-> start] \in Work
      BY <3>1, StartsAssumption DEF Work
    <3> QED
      BY <1>2, <2>1, <2>3, <3>2 DEF Stages
  <2>4. CASE ResolveRequest(c, v, d, s, start) # "ok"
    BY <1>1, <2>1, <2>2, <2>4
  <2> QED
    BY <2>3, <2>4
<1>4. ASSUME NEW op \in {"cancel", "reschedule"}, NEW id \in Requests, NEW start \in Int,
             appts[id] # NoAppt
      PROVE  WorkOn(op, id, start) \in Work
  BY <1>4 DEF WorkOn, Work, Appointment
<1>5. CASE Cancel(r)
  <2>1. PICK by \in Callers, id \in Requests :
          IF ~Owned(by, id)
          THEN Refuse(r, "notFound")
          ELSE IF appts[id].status = "CANCELLED"
               THEN Refuse(r, "ok")
               ELSE Enter(r, WorkOn("cancel", id, appts[id].start), "row")
    BY <1>5 DEF Cancel
  <2>2. "notFound" \in Answers /\ "ok" \in Answers /\ "row" \in Stages
    BY DEF Answers, Refusals, Stages
  <2>3. CASE Owned(by, id) /\ appts[id].status # "CANCELLED"
    <3>1. appts[id] # NoAppt /\ appts[id].start \in Int
      BY <2>3 DEF Owned, Appointment
    <3> QED
      BY <1>2, <1>4, <2>1, <2>2, <2>3, <3>1
  <2> QED
    BY <1>1, <2>1, <2>2, <2>3
<1>6. CASE Reschedule(r)
  <2>1. PICK by \in Callers, id \in Requests, start \in Starts :
          LET verdict == RescheduleVerdict(by, id, start)
          IN  IF verdict = "ok"
              THEN Enter(r, WorkOn("reschedule", id, start), "save")
              ELSE Refuse(r, verdict)
    BY <1>6 DEF Reschedule
  <2>2. RescheduleVerdict(by, id, start) \in Answers
    BY DEF RescheduleVerdict, Answers, Refusals
  <2>3. CASE RescheduleVerdict(by, id, start) = "ok"
    <3>1. appts[id] # NoAppt
      BY <2>3 DEF RescheduleVerdict
    <3> QED
      BY <1>2, <1>4, <2>1, <2>3, <3>1, StartsAssumption DEF Stages
  <2>4. CASE RescheduleVerdict(by, id, start) # "ok"
    BY <1>1, <2>1, <2>2, <2>4
  <2> QED
    BY <2>3, <2>4
<1> QED
  BY <1>3, <1>5, <1>6 DEF Arrive

LEMMA TypeReleaseLocks ==
  ASSUME TypeOK, NEW r \in Requests, ReleaseLocks(r)
  PROVE  /\ apptLock' \in [Requests -> Requests \cup {NoOwner}]
         /\ bayLock' \in [Bays -> Requests \cup {NoOwner}]
         /\ techLock' \in [Techs -> Requests \cup {NoOwner}]
         /\ freeBays' \in [Requests -> SUBSET Bays]
         /\ freeTechs' \in [Requests -> SUBSET Techs]
BY FreedType DEF TypeOK, ReleaseLocks

LEMMA TypeRollback ==
  ASSUME TypeOK, NEW r \in Requests, NEW a \in Answers, Rollback(r, a)
  PROVE  TypeOK'
BY TypeReleaseLocks DEF TypeOK, Rollback, Respond, Goto, Stages

(* The place of a request that is being worked on. *)
LEMMA WorkFacts ==
  ASSUME IInv, NEW r \in Requests, stage[r] \notin {"new", "done"}
  PROVE  /\ work[r] \in Work
         /\ work[r].op # "book" =>
              /\ work[r].old \in Requests
              /\ appts[work[r].old] \in Appointment
              /\ appts[work[r].old] # NoAppt
         /\ work[r].op = "book" => work[r].old = NoAppt
BY DEF IInv, TypeOK, RequestInv, WorkInv

(* What the two committing steps of a new appointment write. *)
LEMMA OldRowType ==
  ASSUME IInv, NEW r \in Requests, stage[r] = "commit", work[r].op = "reschedule"
  PROVE  /\ OldRow(r) \in Appointment
         /\ OldRow(r).status = "CANCELLED"
         /\ OldRow(r).bay = appts[work[r].old].bay
         /\ OldRow(r).tech = appts[work[r].old].tech
         /\ OldRow(r).start = appts[work[r].old].start
         /\ OldRow(r).end = appts[work[r].old].end
<1>1. work[r].old \in Requests /\ appts[work[r].old] \in Appointment
  BY WorkFacts
<1>2. apptLock[work[r].old] = r \/ appts[work[r].old].status = "CANCELLED"
  BY DEF IInv, RequestInv, OldInv, InTransaction
<1> QED
  BY <1>1, <1>2, CancelledType DEF OldRow

LEMMA TypeProceed ==
  ASSUME IInv, NEW r \in Requests, Proceed(r)
  PROVE  TypeOK'
<1>0. TypeOK
  BY DEF IInv
<1>1. CASE SaveOld(r)
  BY <1>0, <1>1 DEF SaveOld, Goto, TypeOK, database, Stages
<1>2. CASE LockRow(r)
  BY <1>0, <1>2, WorkFacts DEF LockRow, Goto, TypeOK, Stages
<1>3. CASE LockBay(r)
  <2>1. BaysToLock(r) \subseteq Bays
    BY CandidateRows DEF BaysToLock
  <2> QED
    BY <1>0, <1>3, <2>1 DEF LockBay, TypeOK, handler
<1>4. CASE LockTech(r)
  <2>1. TechsToLock(r) \subseteq Techs
    BY CandidateRows DEF TechsToLock
  <2> QED
    BY <1>0, <1>4, <2>1 DEF LockTech, TypeOK, handler
<1>5. CASE FindAvailableBays(r)
  BY <1>0, <1>5, CandidateRows DEF FindAvailableBays, Goto, TypeOK, database, Stages
<1>6. CASE FindAvailableTechnicians(r)
  <2> DEFINE free == CandTechs(r) \ BusyTechs(Visible(r), Start(r), End(r))
  <2>1. CASE freeBays[r] = {} \/ free = {}
    <3>1. Rollback(r, "full")
      BY <1>6, <2>1 DEF FindAvailableTechnicians
    <3> QED
      BY <1>0, <3>1, TypeRollback DEF Answers, Refusals
  <2>2. CASE ~(freeBays[r] = {} \/ free = {})
    <3>1. /\ freeTechs' = [freeTechs EXCEPT ![r] = free]
          /\ Goto(r, "commit")
          /\ UNCHANGED <<database, work, freeBays, answer, jobs, now>>
      BY <1>6, <2>2 DEF FindAvailableTechnicians
    <3>2. free \subseteq Techs
      BY CandidateRows
    <3> QED
      BY <1>0, <3>1, <3>2 DEF Goto, TypeOK, database, Stages
  <2> QED
    BY <2>1, <2>2
<1>7. ASSUME NEW a \in [Requests -> Appointment \cup {NoAppt}], appts' = a, ReleaseLocks(r),
             Goto(r, "mail"), UNCHANGED <<work, answer, jobs, now>>
      PROVE  TypeOK'
  BY <1>0, <1>7, TypeReleaseLocks DEF TypeOK, Goto, Stages
<1>8. CASE CommitBook(r)
  <2>1. PICK b \in freeBays[r], t \in freeTechs[r] :
          appts' = [appts EXCEPT ![r] = NewAppointment(r, b, t)]
    BY <1>8 DEF CommitBook
  <2>2. NewAppointment(r, b, t) \in Appointment
    BY <1>0, <1>8, NewAppointmentType, WorkFacts DEF CommitBook, TypeOK
  <2>3. [appts EXCEPT ![r] = NewAppointment(r, b, t)] \in [Requests -> Appointment \cup {NoAppt}]
    BY <1>0, <2>2 DEF TypeOK
  <2> QED
    BY <1>7, <1>8, <2>1, <2>3 DEF CommitBook
<1>9. CASE CommitCancel(r)
  <2>1. Cancelled(appts[work[r].old], r) \in Appointment
    BY <1>9, CancelledType, WorkFacts DEF CommitCancel
  <2>2. [appts EXCEPT ![work[r].old] = Cancelled(@, r)] \in [Requests -> Appointment \cup {NoAppt}]
    BY <1>0, <2>1 DEF TypeOK
  <2> QED
    BY <1>7, <1>9, <2>2 DEF CommitCancel
<1>10. CASE CommitReschedule(r)
  <2>1. PICK b \in freeBays[r], t \in freeTechs[r] :
          appts' = [appts EXCEPT ![work[r].old] = OldRow(r), ![r] = NewAppointment(r, b, t)]
    BY <1>10 DEF CommitReschedule
  <2>2. NewAppointment(r, b, t) \in Appointment /\ OldRow(r) \in Appointment
    BY <1>0, <1>10, NewAppointmentType, OldRowType, WorkFacts DEF CommitReschedule, TypeOK
  <2>3. [appts EXCEPT ![work[r].old] = OldRow(r), ![r] = NewAppointment(r, b, t)]
          \in [Requests -> Appointment \cup {NoAppt}]
    BY <1>0, <2>2 DEF TypeOK
  <2> QED
    BY <1>7, <1>10, <2>1, <2>3 DEF CommitReschedule
<1>11. CASE SendMail(r)
  BY <1>0, <1>11 DEF SendMail, Respond, Goto, TypeOK, database, Stages, Answers
<1>12. CASE TriggerWatchCheck(r)
  BY <1>0, <1>12 DEF TriggerWatchCheck, Respond, Goto, TypeOK, database, Stages, Answers
<1> QED
  BY <1>1, <1>2, <1>3, <1>4, <1>5, <1>6, <1>8, <1>9, <1>10, <1>11, <1>12 DEF Proceed

-----------------------------------------------------------------------------
(* What a step of one request leaves alone.                                *)

(* The step does not touch the handler of q, nor the locks q holds. *)
Untouched(q) ==
  /\ stage'[q] = stage[q]
  /\ work'[q] = work[q]
  /\ freeBays'[q] = freeBays[q]
  /\ freeTechs'[q] = freeTechs[q]
  /\ \A i \in Requests : apptLock'[i] = q <=> apptLock[i] = q
  /\ \A b \in Bays : bayLock'[b] = q <=> bayLock[b] = q
  /\ \A t \in Techs : techLock'[t] = q <=> techLock[t] = q

(* An appointment stays, where it is, and a cancelled one stays cancelled. *)
Kept(i) ==
  appts[i] # NoAppt =>
    /\ appts'[i] # NoAppt
    /\ appts'[i].bay = appts[i].bay
    /\ appts'[i].tech = appts[i].tech
    /\ appts'[i].start = appts[i].start
    /\ appts'[i].end = appts[i].end
    /\ appts[i].status = "CANCELLED" => appts'[i].status = "CANCELLED"

(* A new appointment comes from a commit, with resources found free. *)
Fresh(i, r) ==
  appts[i] = NoAppt /\ appts'[i] # NoAppt =>
    /\ i = r
    /\ stage[r] = "commit"
    /\ work[r].op # "cancel"
    /\ appts'[r].bay \in freeBays[r]
    /\ appts'[r].tech \in freeTechs[r]

LEMMA UntouchedByRelease ==
  ASSUME TypeOK, NEW r \in Requests, NEW q \in Requests \ {r}, ReleaseLocks(r),
         stage'[q] = stage[q], work'[q] = work[q]
  PROVE  Untouched(q)
<1>1. /\ \A i \in Requests : apptLock'[i] = q <=> apptLock[i] = q
      /\ \A b \in Bays : bayLock'[b] = q <=> bayLock[b] = q
      /\ \A t \in Techs : techLock'[t] = q <=> techLock[t] = q
  <2>1. \A i \in Requests : Freed(apptLock, r)[i] = q <=> apptLock[i] = q
    BY DEF Freed, TypeOK
  <2>2. \A b \in Bays : Freed(bayLock, r)[b] = q <=> bayLock[b] = q
    BY DEF Freed, TypeOK
  <2>3. \A t \in Techs : Freed(techLock, r)[t] = q <=> techLock[t] = q
    BY DEF Freed, TypeOK
  <2> QED
    BY <2>1, <2>2, <2>3 DEF ReleaseLocks
<1>2. freeBays'[q] = freeBays[q] /\ freeTechs'[q] = freeTechs[q]
  BY DEF TypeOK, ReleaseLocks
<1> QED
  BY <1>1, <1>2 DEF Untouched

LEMMA UntouchedByRollback ==
  ASSUME TypeOK, NEW r \in Requests, NEW q \in Requests \ {r}, NEW a, Rollback(r, a)
  PROVE  Untouched(q)
<1>1. ReleaseLocks(r) /\ stage'[q] = stage[q] /\ work'[q] = work[q]
  BY DEF Rollback, Respond, Goto, TypeOK
<1> QED
  BY <1>1, UntouchedByRelease

LEMMA UntouchedByArrive ==
  ASSUME TypeOK, NEW r \in Requests, NEW q \in Requests \ {r}, Arrive(r)
  PROVE  Untouched(q)
<1>1. ASSUME NEW a, Refuse(r, a) PROVE Untouched(q)
  BY <1>1 DEF Refuse, Respond, Goto, database, TypeOK, Untouched
<1>2. ASSUME NEW w, NEW s, Enter(r, w, s) PROVE Untouched(q)
  BY <1>2 DEF Enter, Goto, database, TypeOK, Untouched
<1>3. CASE Book(r)
  BY <1>1, <1>2, <1>3 DEF Book
<1>4. CASE Cancel(r)
  BY <1>1, <1>2, <1>4 DEF Cancel
<1>5. CASE Reschedule(r)
  BY <1>1, <1>2, <1>5 DEF Reschedule
<1> QED
  BY <1>3, <1>4, <1>5 DEF Arrive

LEMMA UntouchedByOthers ==
  ASSUME IInv, NEW r \in Requests, NEW q \in Requests \ {r}, Act(r)
  PROVE  Untouched(q)
<1>0. TypeOK
  BY DEF IInv
<1>1. CASE Arrive(r)
  BY <1>0, <1>1, UntouchedByArrive
<1>2. CASE Fail(r)
  BY <1>0, <1>2, UntouchedByRollback DEF Fail
<1>3. CASE SaveOld(r)
  BY <1>0, <1>3 DEF SaveOld, Goto, database, TypeOK, Untouched
<1>4. CASE LockRow(r)
  BY <1>0, <1>4 DEF LockRow, Goto, TypeOK, Untouched
<1>5. CASE LockBay(r)
  BY <1>0, <1>5 DEF LockBay, handler, TypeOK, Untouched
<1>6. CASE LockTech(r)
  BY <1>0, <1>6 DEF LockTech, handler, TypeOK, Untouched
<1>7. CASE FindAvailableBays(r)
  BY <1>0, <1>7 DEF FindAvailableBays, Goto, database, TypeOK, Untouched
<1>8. CASE FindAvailableTechnicians(r)
  <2>1. CASE Rollback(r, "full")
    BY <1>0, <2>1, UntouchedByRollback
  <2>2. CASE /\ freeTechs' = [freeTechs EXCEPT ![r] =
                                CandTechs(r) \ BusyTechs(Visible(r), Start(r), End(r))]
             /\ Goto(r, "commit")
             /\ UNCHANGED <<database, work, freeBays, answer, jobs, now>>
    BY <1>0, <2>2 DEF Goto, database, TypeOK, Untouched
  <2> QED
    BY <1>8, <2>1, <2>2 DEF FindAvailableTechnicians
<1>9. CASE CommitBook(r) \/ CommitCancel(r) \/ CommitReschedule(r)
  <2>1. ReleaseLocks(r) /\ stage'[q] = stage[q] /\ work'[q] = work[q]
    BY <1>0, <1>9 DEF CommitBook, CommitCancel, CommitReschedule, Goto, TypeOK
  <2> QED
    BY <1>0, <2>1, UntouchedByRelease
<1>10. CASE SendMail(r)
  BY <1>0, <1>10 DEF SendMail, Respond, Goto, database, TypeOK, Untouched
<1>11. CASE TriggerWatchCheck(r)
  BY <1>0, <1>11 DEF TriggerWatchCheck, Respond, Goto, database, TypeOK, Untouched
<1> QED
  BY <1>1, <1>2, <1>3, <1>4, <1>5, <1>6, <1>7, <1>8, <1>9, <1>10, <1>11 DEF Act, Proceed

(* The three ways in which the table of appointments changes. *)
LEMMA ApptsChange ==
  ASSUME NEW r \in Requests, Act(r)
  PROVE  UNCHANGED appts \/ CommitBook(r) \/ CommitCancel(r) \/ CommitReschedule(r)
<1>1. CASE Arrive(r)
  BY <1>1 DEF Arrive, Book, Cancel, Reschedule, Refuse, Enter, database
<1>2. CASE Fail(r)
  BY <1>2 DEF Fail, Rollback
<1>3. CASE FindAvailableTechnicians(r)
  BY <1>3 DEF FindAvailableTechnicians, Rollback, database
<1>4. CASE SaveOld(r) \/ LockRow(r) \/ LockBay(r) \/ LockTech(r) \/ FindAvailableBays(r)
  BY <1>4 DEF SaveOld, LockRow, LockBay, LockTech, FindAvailableBays, database
<1>5. CASE SendMail(r) \/ TriggerWatchCheck(r)
  BY <1>5 DEF SendMail, TriggerWatchCheck, database
<1> QED
  BY <1>1, <1>2, <1>3, <1>4, <1>5 DEF Act, Proceed

LEMMA CommitBookAppts ==
  ASSUME IInv, NEW r \in Requests, CommitBook(r)
  PROVE  \E b \in freeBays[r], t \in freeTechs[r] :
           /\ NewAppointment(r, b, t) \in Appointment
           /\ appts[r] = NoAppt
           /\ appts' = [appts EXCEPT ![r] = NewAppointment(r, b, t)]
<1>1. stage[r] = "commit" /\ appts[r] = NoAppt /\ TypeOK
  BY DEF CommitBook, IInv, RequestInv, WorkInv
<1>2. PICK b \in freeBays[r], t \in freeTechs[r] :
        appts' = [appts EXCEPT ![r] = NewAppointment(r, b, t)]
  BY DEF CommitBook
<1>3. b \in Bays /\ t \in Techs
  BY <1>1 DEF TypeOK
<1> QED
  BY <1>1, <1>2, <1>3, NewAppointmentType, WorkFacts

LEMMA CommitRescheduleAppts ==
  ASSUME IInv, NEW r \in Requests, CommitReschedule(r)
  PROVE  \E b \in freeBays[r], t \in freeTechs[r] :
           /\ NewAppointment(r, b, t) \in Appointment
           /\ appts[r] = NoAppt
           /\ work[r].old \in Requests
           /\ work[r].old # r
           /\ appts[work[r].old] # NoAppt
           /\ appts' = [appts EXCEPT ![work[r].old] = OldRow(r), ![r] = NewAppointment(r, b, t)]
<1>1. stage[r] = "commit" /\ work[r].op = "reschedule" /\ appts[r] = NoAppt /\ TypeOK
  BY DEF CommitReschedule, IInv, RequestInv, WorkInv
<1>2. PICK b \in freeBays[r], t \in freeTechs[r] :
        appts' = [appts EXCEPT ![work[r].old] = OldRow(r), ![r] = NewAppointment(r, b, t)]
  BY DEF CommitReschedule
<1>3. b \in Bays /\ t \in Techs
  BY <1>1 DEF TypeOK
<1>4. work[r].old \in Requests /\ work[r].old # r /\ appts[work[r].old] # NoAppt
  BY <1>1, WorkFacts
<1> QED
  BY <1>1, <1>2, <1>3, <1>4, NewAppointmentType, WorkFacts

LEMMA ApptsStep ==
  ASSUME IInv, NEW r \in Requests, Act(r), NEW i \in Requests
  PROVE  Kept(i) /\ Fresh(i, r)
<1>0. TypeOK
  BY DEF IInv
<1>1. CASE UNCHANGED appts
  BY <1>1 DEF Kept, Fresh
<1>2. CASE CommitBook(r)
  <2>1. PICK b \in freeBays[r], t \in freeTechs[r] :
           /\ NewAppointment(r, b, t) \in Appointment
           /\ appts[r] = NoAppt
           /\ appts' = [appts EXCEPT ![r] = NewAppointment(r, b, t)]
    BY <1>2, CommitBookAppts
  <2>2. CASE i # r
    BY <1>0, <2>1, <2>2 DEF Kept, Fresh, TypeOK
  <2>3. CASE i = r
    <3>1. appts'[r] = NewAppointment(r, b, t)
      BY <1>0, <2>1 DEF TypeOK
    <3> QED
      BY <1>2, <2>1, <2>3, <3>1 DEF Kept, Fresh, NewAppointment, CommitBook
  <2> QED
    BY <2>2, <2>3
<1>3. CASE CommitCancel(r)
  <2>1. /\ work[r].old \in Requests
        /\ appts[work[r].old] \in Appointment
        /\ appts[work[r].old] # NoAppt
    BY <1>3, WorkFacts DEF CommitCancel
  <2>2. appts' = [appts EXCEPT ![work[r].old] = Cancelled(appts[work[r].old], r)]
    BY <1>3 DEF CommitCancel
  <2>3. CASE i # work[r].old
    BY <1>0, <2>1, <2>2, <2>3 DEF Kept, Fresh, TypeOK
  <2>4. CASE i = work[r].old
    <3>1. appts'[i] = Cancelled(appts[i], r)
      BY <1>0, <2>1, <2>2, <2>4 DEF TypeOK
    <3>2. appts'[i] # NoAppt
      BY <2>1, <2>4, <3>1, CancelledType
    <3> QED
      BY <2>1, <2>4, <3>1, <3>2, CancelledType DEF Kept, Fresh
  <2> QED
    BY <2>3, <2>4
<1>4. CASE CommitReschedule(r)
  <2>1. PICK b \in freeBays[r], t \in freeTechs[r] :
           /\ NewAppointment(r, b, t) \in Appointment
           /\ appts[r] = NoAppt
           /\ work[r].old \in Requests
           /\ work[r].old # r
           /\ appts[work[r].old] # NoAppt
           /\ appts' = [appts EXCEPT ![work[r].old] = OldRow(r), ![r] = NewAppointment(r, b, t)]
    BY <1>4, CommitRescheduleAppts
  <2>2. CASE i = r
    <3>1. appts'[r] = NewAppointment(r, b, t)
      BY <1>0, <2>1 DEF TypeOK
    <3> QED
      BY <1>4, <2>1, <2>2, <3>1 DEF Kept, Fresh, NewAppointment, CommitReschedule
  <2>3. CASE i = work[r].old
    <3>1. appts'[i] = OldRow(r)
      BY <1>0, <2>1, <2>3 DEF TypeOK
    <3>2. stage[r] = "commit" /\ work[r].op = "reschedule"
      BY <1>4 DEF CommitReschedule
    <3>3. appts'[i] # NoAppt
      BY <3>1, <3>2, OldRowType
    <3> QED
      BY <2>1, <2>3, <3>1, <3>2, <3>3, OldRowType DEF Kept, Fresh
  <2>4. CASE i # r /\ i # work[r].old
    BY <1>0, <2>1, <2>4 DEF Kept, Fresh, TypeOK
  <2> QED
    BY <2>2, <2>3, <2>4
<1> QED
  BY <1>1, <1>2, <1>3, <1>4, ApptsChange

-----------------------------------------------------------------------------
(* The invariant of the requests that do not take the step.                *)

LEMMA SameCandidates ==
  ASSUME NEW q \in Requests, work'[q] = work[q]
  PROVE  /\ CandBays(q)' = CandBays(q)
         /\ CandTechs(q)' = CandTechs(q)
         /\ Start(q)' = Start(q)
         /\ End(q)' = End(q)
BY DEF CandBays, CandTechs, Start, End

LEMMA OthersInv ==
  ASSUME IInv, TypeOK', NEW r \in Requests, NEW q \in Requests \ {r}, Act(r)
  PROVE  RequestInv(q)'
<1>0. TypeOK /\ RequestInv(q) /\ RequestInv(r)
  BY DEF IInv
<1>1. Untouched(q)
  BY UntouchedByOthers
<1>2. \A i \in Requests : Kept(i) /\ Fresh(i, r)
  BY ApptsStep
<1>3. /\ CandBays(q)' = CandBays(q)
      /\ CandTechs(q)' = CandTechs(q)
      /\ Start(q)' = Start(q)
      /\ End(q)' = End(q)
  BY <1>1, SameCandidates DEF Untouched
<1>4. WorkInv(q)'
  <2>1. appts[q] = NoAppt => appts'[q] = NoAppt
    BY <1>2 DEF Fresh
  <2>2. \A i \in Requests : appts[i] # NoAppt => appts'[i] # NoAppt
    BY <1>2 DEF Kept
  <2> QED
    BY <1>0, <1>1, <2>1, <2>2 DEF RequestInv, WorkInv, Untouched
<1>5. LocksInv(q)'
  BY <1>0, <1>1, <1>3 DEF RequestInv, LocksInv, InTransaction, Untouched
<1>6. OldInv(q)'
  <2>1. InTransaction(q) /\ work[q].op = "reschedule" =>
          work[q].old \in Requests /\ appts[work[q].old] # NoAppt
    BY <1>0 DEF RequestInv, WorkInv, InTransaction
  <2> QED
    BY <1>0, <1>1, <1>2, <2>1 DEF RequestInv, OldInv, InTransaction, Untouched, Kept
<1>7. ASSUME NEW i \in Requests, appts'[i] # NoAppt, Occupies(appts'[i], Start(q), End(q)),
             appts[i] # NoAppt
      PROVE  /\ Occupies(appts[i], Start(q), End(q))
             /\ appts'[i].bay = appts[i].bay
             /\ appts'[i].tech = appts[i].tech
  <2>1. appts[i].status \in {"CONFIRMED", "CANCELLED"}
    BY <1>0, <1>7 DEF TypeOK, Appointment
  <2> QED
    BY <1>2, <1>7, <2>1 DEF Kept, Occupies
<1>8. BaysInv(q)'
  <2> SUFFICES ASSUME stage[q] \in {"techs", "commit"}, work[q].op # "cancel"
               PROVE  /\ \A b \in CandBays(q) : bayLock'[b] = q
                      /\ freeBays[q] \subseteq CandBays(q)
                      /\ \A i \in Requests \ {work[q].old} :
                           appts'[i] # NoAppt /\ Occupies(appts'[i], Start(q), End(q)) =>
                             appts'[i].bay \notin freeBays[q]
    BY <1>1, <1>3 DEF BaysInv, Untouched
  <2>1. /\ \A b \in CandBays(q) : bayLock[b] = q
        /\ freeBays[q] \subseteq CandBays(q)
        /\ \A i \in Requests \ {work[q].old} :
             appts[i] # NoAppt /\ Occupies(appts[i], Start(q), End(q)) =>
               appts[i].bay \notin freeBays[q]
    BY <1>0 DEF RequestInv, BaysInv
  <2>2. \A b \in CandBays(q) : bayLock'[b] = q
    BY <1>1, <2>1, CandidateRows DEF Untouched
  <2>3. ASSUME NEW i \in Requests \ {work[q].old},
               appts'[i] # NoAppt, Occupies(appts'[i], Start(q), End(q))
        PROVE  appts'[i].bay \notin freeBays[q]
    <3>1. CASE appts[i] # NoAppt
      BY <1>7, <2>1, <2>3, <3>1
    <3>2. CASE appts[i] = NoAppt
      <4>1. /\ i = r
            /\ stage[r] = "commit"
            /\ work[r].op # "cancel"
            /\ appts'[r].bay \in freeBays[r]
        BY <1>2, <2>3, <3>2 DEF Fresh
      <4>2. bayLock[appts'[r].bay] = r
        BY <1>0, <4>1 DEF RequestInv, BaysInv
      <4> QED
        BY <2>1, <4>1, <4>2
    <3> QED
      BY <3>1, <3>2
  <2> QED
    BY <2>1, <2>2, <2>3
<1>9. TechsInv(q)'
  <2> SUFFICES ASSUME stage[q] = "commit", work[q].op # "cancel"
               PROVE  /\ \A t \in CandTechs(q) : techLock'[t] = q
                      /\ freeTechs[q] \subseteq CandTechs(q)
                      /\ \A i \in Requests \ {work[q].old} :
                           appts'[i] # NoAppt /\ Occupies(appts'[i], Start(q), End(q)) =>
                             appts'[i].tech \notin freeTechs[q]
    BY <1>1, <1>3 DEF TechsInv, Untouched
  <2>1. /\ \A t \in CandTechs(q) : techLock[t] = q
        /\ freeTechs[q] \subseteq CandTechs(q)
        /\ \A i \in Requests \ {work[q].old} :
             appts[i] # NoAppt /\ Occupies(appts[i], Start(q), End(q)) =>
               appts[i].tech \notin freeTechs[q]
    BY <1>0 DEF RequestInv, TechsInv
  <2>2. \A t \in CandTechs(q) : techLock'[t] = q
    BY <1>1, <2>1, CandidateRows DEF Untouched
  <2>3. ASSUME NEW i \in Requests \ {work[q].old},
               appts'[i] # NoAppt, Occupies(appts'[i], Start(q), End(q))
        PROVE  appts'[i].tech \notin freeTechs[q]
    <3>1. CASE appts[i] # NoAppt
      BY <1>7, <2>1, <2>3, <3>1
    <3>2. CASE appts[i] = NoAppt
      <4>1. /\ i = r
            /\ stage[r] = "commit"
            /\ work[r].op # "cancel"
            /\ appts'[r].tech \in freeTechs[r]
        BY <1>2, <2>3, <3>2 DEF Fresh
      <4>2. techLock[appts'[r].tech] = r
        BY <1>0, <4>1 DEF RequestInv, TechsInv
      <4> QED
        BY <2>1, <4>1, <4>2
    <3> QED
      BY <3>1, <3>2
  <2> QED
    BY <2>1, <2>2, <2>3
<1>10. OrderInv(q)'
  BY <1>0, <1>1, <1>3, CandidateRows DEF RequestInv, OrderInv, BaysToLock, TechsToLock, Untouched
<1> QED
  BY <1>4, <1>5, <1>6, <1>8, <1>9, <1>10 DEF RequestInv

-----------------------------------------------------------------------------
(* The invariant of the request that takes the step.                       *)

NoLocks(r) ==
  /\ \A i \in Requests : apptLock[i] # r
  /\ \A b \in Bays : bayLock[b] # r
  /\ \A t \in Techs : techLock[t] # r

LEMMA NoLocksOutsideTransaction ==
  ASSUME IInv, NEW r \in Requests, ~InTransaction(r)
  PROVE  NoLocks(r)
BY DEF IInv, RequestInv, LocksInv, NoLocks, InTransaction

LEMMA NoLocksAfterRelease ==
  ASSUME TypeOK, NEW r \in Requests, ReleaseLocks(r)
  PROVE  NoLocks(r)'
<1>1. \A i \in Requests : Freed(apptLock, r)[i] # r
  BY DEF Freed, TypeOK
<1>2. \A b \in Bays : Freed(bayLock, r)[b] # r
  BY DEF Freed, TypeOK
<1>3. \A t \in Techs : Freed(techLock, r)[t] # r
  BY DEF Freed, TypeOK
<1> QED
  BY <1>1, <1>2, <1>3 DEF ReleaseLocks, NoLocks

LEMMA DoneInv ==
  ASSUME NEW r \in Requests, stage'[r] = "done", NoLocks(r)'
  PROVE  RequestInv(r)'
BY DEF RequestInv, WorkInv, LocksInv, OldInv, BaysInv, TechsInv, OrderInv, NoLocks, InTransaction

LEMMA RollbackInv ==
  ASSUME TypeOK, NEW r \in Requests, NEW a, Rollback(r, a)
  PROVE  RequestInv(r)'
<1>1. NoLocks(r)'
  BY NoLocksAfterRelease DEF Rollback
<1>2. stage'[r] = "done"
  BY DEF Rollback, Respond, Goto, TypeOK
<1> QED
  BY <1>1, <1>2, DoneInv

LEMMA ArriveInv ==
  ASSUME IInv, NEW r \in Requests, Arrive(r)
  PROVE  RequestInv(r)'
<1>0. /\ TypeOK
      /\ stage[r] = "new"
      /\ appts[r] = NoAppt
  BY DEF IInv, RequestInv, WorkInv, Arrive, Book, Cancel, Reschedule
<1>1. NoLocks(r)
  BY <1>0, NoLocksOutsideTransaction DEF InTransaction
<1>2. ASSUME NEW a, Refuse(r, a) PROVE RequestInv(r)'
  <2>1. NoLocks(r)' /\ stage'[r] = "done"
    BY <1>0, <1>1, <1>2 DEF Refuse, Respond, Goto, database, NoLocks, TypeOK
  <2> QED
    BY <2>1, DoneInv
<1>3. ASSUME NEW w \in Work, NEW s \in {"save", "row", "bays"}, Enter(r, w, s),
             s = "bays" <=> w.op = "book",
             s = "save" <=> w.op = "reschedule",
             w.op = "book" => w.old = NoAppt,
             w.op # "book" => w.old \in Requests /\ appts[w.old] # NoAppt
      PROVE  RequestInv(r)'
  <2>1. /\ NoLocks(r)'
        /\ stage'[r] = s
        /\ work'[r] = w
        /\ UNCHANGED appts
    BY <1>0, <1>1, <1>3 DEF Enter, Goto, database, NoLocks, TypeOK
  <2>2. w.op \in {"book", "cancel", "reschedule"}
    BY DEF Work
  <2> QED
    BY <1>0, <1>3, <2>1, <2>2
       DEF RequestInv, WorkInv, LocksInv, OldInv, BaysInv, TechsInv, OrderInv, NoLocks, InTransaction
<1>4. CASE Book(r)
  <2>1. PICK c \in Customers \cup {Missing}, v \in Vehicles \cup {Missing},
             d \in Dealerships \cup {Missing}, s \in Services \cup {Missing}, start \in Starts :
          LET verdict == ResolveRequest(c, v, d, s, start)
          IN  IF verdict = "ok"
              THEN Enter(r, [op |-> "book", old |-> NoAppt, customer |-> c,
                             dealership |-> d, service |-> s, start |-> start], "bays")
              ELSE Refuse(r, verdict)
    BY <1>4 DEF Book
  <2> DEFINE w == [op |-> "book", old |-> NoAppt, customer |-> c,
                   dealership |-> d, service |-> s, start |-> start]
  <2>2. CASE ResolveRequest(c, v, d, s, start) = "ok"
    <3>1. c \in Customers /\ d \in Dealerships /\ s \in Services
      BY <2>2 DEF ResolveRequest
    <3>2. w \in Work /\ w.op = "book" /\ w.old = NoAppt
      BY <3>1, StartsAssumption DEF Work
    <3>3. Enter(r, w, "bays")
      BY <2>1, <2>2
    <3> HIDE DEF w
    <3> QED
      BY <1>3, <3>2, <3>3
  <2> QED
    BY <1>2, <2>1, <2>2
<1>5. ASSUME NEW op \in {"cancel", "reschedule"}, NEW id \in Requests, NEW start \in Int,
             appts[id] # NoAppt, NEW s \in {"save", "row"}, s = "save" <=> op = "reschedule",
             Enter(r, WorkOn(op, id, start), s)
      PROVE  RequestInv(r)'
  <2>1. /\ WorkOn(op, id, start) \in Work
        /\ WorkOn(op, id, start).op = op
        /\ WorkOn(op, id, start).old = id
    BY <1>0, <1>5 DEF WorkOn, Work, Appointment, TypeOK
  <2> QED
    BY <1>3, <1>5, <2>1
<1>6. CASE Cancel(r)
  <2>1. PICK by \in Callers, id \in Requests :
          IF ~Owned(by, id)
          THEN Refuse(r, "notFound")
          ELSE IF appts[id].status = "CANCELLED"
               THEN Refuse(r, "ok")
               ELSE Enter(r, WorkOn("cancel", id, appts[id].start), "row")
    BY <1>6 DEF Cancel
  <2>2. CASE Owned(by, id) /\ appts[id].status # "CANCELLED"
    <3>1. appts[id] # NoAppt /\ appts[id].start \in Int
      BY <1>0, <2>2 DEF Owned, Appointment, TypeOK
    <3> QED
      BY <1>5, <2>1, <2>2, <3>1
  <2> QED
    BY <1>2, <2>1, <2>2
<1>7. CASE Reschedule(r)
  <2>1. PICK by \in Callers, id \in Requests, start \in Starts :
          LET verdict == RescheduleVerdict(by, id, start)
          IN  IF verdict = "ok"
              THEN Enter(r, WorkOn("reschedule", id, start), "save")
              ELSE Refuse(r, verdict)
    BY <1>7 DEF Reschedule
  <2>2. CASE RescheduleVerdict(by, id, start) = "ok"
    <3>1. appts[id] # NoAppt /\ start \in Int
      BY <2>2, StartsAssumption DEF RescheduleVerdict
    <3> QED
      BY <1>5, <2>1, <2>2, <3>1
  <2> QED
    BY <1>2, <2>1, <2>2
<1> QED
  BY <1>4, <1>6, <1>7 DEF Arrive

LEMMA SaveOldInv ==
  ASSUME IInv, NEW r \in Requests, SaveOld(r)
  PROVE  RequestInv(r)'
<1>1. /\ TypeOK /\ WorkInv(r) /\ stage[r] = "save"
      /\ work[r] \in Work
  BY DEF IInv, RequestInv, WorkInv, SaveOld
<1>2. NoLocks(r)
  BY <1>1, NoLocksOutsideTransaction DEF InTransaction
<1>3. /\ NoLocks(r)'
      /\ UNCHANGED <<appts, work>>
      /\ stage'[r] = IF appts[work[r].old].status = "CANCELLED" THEN "bays" ELSE "row"
  BY <1>1, <1>2 DEF SaveOld, Goto, database, NoLocks, TypeOK
<1> QED
  BY <1>1, <1>3
     DEF RequestInv, WorkInv, LocksInv, OldInv, BaysInv, TechsInv, OrderInv, NoLocks, InTransaction

LEMMA LockRowInv ==
  ASSUME IInv, NEW r \in Requests, LockRow(r)
  PROVE  RequestInv(r)'
<1>1. /\ TypeOK /\ WorkInv(r) /\ stage[r] = "row"
      /\ work[r] \in Work
      /\ work[r].old \in Requests
  BY DEF IInv, RequestInv, WorkInv, LockRow
<1>2. NoLocks(r)
  BY <1>1, NoLocksOutsideTransaction DEF InTransaction
<1>3. /\ apptLock' = [apptLock EXCEPT ![work[r].old] = r]
      /\ UNCHANGED <<appts, bayLock, techLock, work>>
      /\ stage'[r] = IF work[r].op = "cancel" THEN "commit" ELSE "bays"
  BY <1>1 DEF LockRow, Goto, TypeOK
<1>4. \A i \in Requests : apptLock'[i] = r <=> i = work[r].old
  BY <1>1, <1>2, <1>3 DEF NoLocks, TypeOK
<1> QED
  BY <1>1, <1>2, <1>3, <1>4
     DEF RequestInv, WorkInv, LocksInv, OldInv, BaysInv, TechsInv, OrderInv, NoLocks, InTransaction, Work

LEMMA LockBayInv ==
  ASSUME IInv, NEW r \in Requests, LockBay(r)
  PROVE  RequestInv(r)'
<1>1. TypeOK /\ RequestInv(r) /\ stage[r] = "bays"
  BY DEF IInv, LockBay
<1>2. PICK b \in BaysToLock(r) :
        /\ Least(b, BaysToLock(r))
        /\ bayLock' = [bayLock EXCEPT ![b] = r]
  BY DEF LockBay
<1>3. /\ UNCHANGED <<appts, apptLock, techLock, stage, work, freeBays, freeTechs>>
      /\ CandBays(r)' = CandBays(r)
      /\ CandTechs(r)' = CandTechs(r)
      /\ CandBays(r) \subseteq Bays
  BY SameCandidates, CandidateRows DEF LockBay, handler
<1>4. b \in CandBays(r) /\ \A c \in Bays : bayLock'[c] = IF c = b THEN r ELSE bayLock[c]
  BY <1>1, <1>2, <1>3 DEF TypeOK, BaysToLock
<1>5. WorkInv(r)' /\ OldInv(r)' /\ BaysInv(r)' /\ TechsInv(r)'
  BY <1>1, <1>3 DEF RequestInv, WorkInv, OldInv, BaysInv, TechsInv, InTransaction
<1>6. LocksInv(r)'
  BY <1>1, <1>3, <1>4 DEF RequestInv, WorkInv, LocksInv, InTransaction
<1>7. OrderInv(r)'
  <2> SUFFICES ASSUME NEW x \in Bays, NEW c \in BaysToLock(r)', bayLock'[x] = r
               PROVE  x < c
    BY <1>1, <1>3 DEF OrderInv
  <2>1. c \in BaysToLock(r) /\ c # b
    BY <1>3, <1>4 DEF BaysToLock
  <2>2. b \in Nat /\ c \in Nat /\ b =< c
    BY <1>2, <1>3, <2>1, ResourcesAssumption DEF Least, BaysToLock
  <2>3. CASE x = b
    BY <2>1, <2>2, <2>3
  <2>4. CASE x # b
    BY <1>1, <1>4, <2>1, <2>4 DEF RequestInv, OrderInv
  <2> QED
    BY <2>3, <2>4
<1> QED
  BY <1>5, <1>6, <1>7 DEF RequestInv

LEMMA LockTechInv ==
  ASSUME IInv, NEW r \in Requests, LockTech(r)
  PROVE  RequestInv(r)'
<1>1. TypeOK /\ RequestInv(r) /\ stage[r] = "techs"
  BY DEF IInv, LockTech
<1>2. PICK t \in TechsToLock(r) :
        /\ Least(t, TechsToLock(r))
        /\ techLock' = [techLock EXCEPT ![t] = r]
  BY DEF LockTech
<1>3. /\ UNCHANGED <<appts, apptLock, bayLock, stage, work, freeBays, freeTechs>>
      /\ CandBays(r)' = CandBays(r)
      /\ CandTechs(r)' = CandTechs(r)
      /\ Start(r)' = Start(r)
      /\ End(r)' = End(r)
      /\ CandTechs(r) \subseteq Techs
  BY SameCandidates, CandidateRows DEF LockTech, handler
<1>4. t \in CandTechs(r) /\ \A c \in Techs : techLock'[c] = IF c = t THEN r ELSE techLock[c]
  BY <1>1, <1>2, <1>3 DEF TypeOK, TechsToLock
<1>5. WorkInv(r)' /\ OldInv(r)' /\ BaysInv(r)' /\ TechsInv(r)'
  BY <1>1, <1>3 DEF RequestInv, WorkInv, OldInv, BaysInv, TechsInv, InTransaction
<1>6. LocksInv(r)'
  BY <1>1, <1>3, <1>4 DEF RequestInv, WorkInv, LocksInv, InTransaction
<1>7. OrderInv(r)'
  <2> SUFFICES ASSUME NEW x \in Techs, NEW c \in TechsToLock(r)', techLock'[x] = r
               PROVE  x < c
    BY <1>1, <1>3 DEF OrderInv
  <2>1. c \in TechsToLock(r) /\ c # t
    BY <1>3, <1>4 DEF TechsToLock
  <2>2. t \in Nat /\ c \in Nat /\ t =< c
    BY <1>2, <1>3, <2>1, ResourcesAssumption DEF Least, TechsToLock
  <2>3. CASE x = t
    BY <2>1, <2>2, <2>3
  <2>4. CASE x # t
    BY <1>1, <1>4, <2>1, <2>4 DEF RequestInv, OrderInv
  <2> QED
    BY <2>3, <2>4
<1> QED
  BY <1>5, <1>6, <1>7 DEF RequestInv

(* The busy queries see every committed appointment but the one r moves. *)
LEMMA BusyQueries ==
  ASSUME NEW r \in Requests, NEW i \in Requests \ {work[r].old},
         appts[i] # NoAppt, Occupies(appts[i], Start(r), End(r))
  PROVE  /\ appts[i].bay \in BusyBays(Visible(r), Start(r), End(r))
         /\ appts[i].tech \in BusyTechs(Visible(r), Start(r), End(r))
<1>1. appts[i] \in Visible(r)
  BY DEF Visible
<1> QED
  BY <1>1 DEF BusyBays, BusyTechs

LEMMA FindAvailableBaysInv ==
  ASSUME IInv, NEW r \in Requests, FindAvailableBays(r)
  PROVE  RequestInv(r)'
<1>1. TypeOK /\ RequestInv(r) /\ stage[r] = "bays"
  BY DEF IInv, FindAvailableBays
<1>2. /\ UNCHANGED <<appts, apptLock, bayLock, techLock, work, freeTechs>>
      /\ CandBays(r)' = CandBays(r)
      /\ CandTechs(r)' = CandTechs(r)
      /\ Start(r)' = Start(r)
      /\ End(r)' = End(r)
  BY SameCandidates DEF FindAvailableBays, database
<1>3. /\ stage'[r] = "techs"
      /\ freeBays'[r] = CandBays(r) \ BusyBays(Visible(r), Start(r), End(r))
      /\ \A b \in CandBays(r) : bayLock[b] = r
  BY <1>1 DEF FindAvailableBays, Goto, TypeOK, BaysToLock
<1>4. WorkInv(r)' /\ OldInv(r)' /\ LocksInv(r)' /\ TechsInv(r)'
  BY <1>1, <1>2, <1>3 DEF RequestInv, WorkInv, LocksInv, OldInv, TechsInv, InTransaction
<1>5. BaysInv(r)'
  BY <1>2, <1>3, BusyQueries DEF BaysInv
<1>6. OrderInv(r)'
  BY <1>1, <1>2, <1>3 DEF RequestInv, LocksInv, OrderInv
<1> QED
  BY <1>4, <1>5, <1>6 DEF RequestInv

LEMMA FindAvailableTechniciansInv ==
  ASSUME IInv, NEW r \in Requests, FindAvailableTechnicians(r)
  PROVE  RequestInv(r)'
<1> DEFINE free == CandTechs(r) \ BusyTechs(Visible(r), Start(r), End(r))
<1>1. TypeOK /\ RequestInv(r) /\ stage[r] = "techs"
  BY DEF IInv, FindAvailableTechnicians
<1>2. CASE freeBays[r] = {} \/ free = {}
  <2>1. Rollback(r, "full")
    BY <1>2 DEF FindAvailableTechnicians
  <2> QED
    BY <1>1, <2>1, RollbackInv
<1>3. CASE ~(freeBays[r] = {} \/ free = {})
  <2>1. /\ freeTechs' = [freeTechs EXCEPT ![r] = free]
        /\ Goto(r, "commit")
        /\ UNCHANGED <<database, work, freeBays, answer, jobs, now>>
    BY <1>3 DEF FindAvailableTechnicians
  <2>2. /\ UNCHANGED <<appts, apptLock, bayLock, techLock, work, freeBays>>
        /\ CandBays(r)' = CandBays(r)
        /\ CandTechs(r)' = CandTechs(r)
        /\ Start(r)' = Start(r)
        /\ End(r)' = End(r)
    BY <2>1, SameCandidates DEF database
  <2>3. /\ stage'[r] = "commit"
        /\ freeTechs'[r] = free
        /\ \A t \in CandTechs(r) : techLock[t] = r
    BY <1>1, <2>1 DEF FindAvailableTechnicians, Goto, TypeOK, TechsToLock
  <2>4. WorkInv(r)' /\ OldInv(r)' /\ LocksInv(r)' /\ BaysInv(r)' /\ OrderInv(r)'
    BY <1>1, <2>2, <2>3
       DEF RequestInv, WorkInv, LocksInv, OldInv, BaysInv, OrderInv, InTransaction
  <2>5. TechsInv(r)'
    BY <2>2, <2>3, BusyQueries DEF TechsInv
  <2> QED
    BY <2>4, <2>5 DEF RequestInv
<1> QED
  BY <1>2, <1>3

LEMMA CommitInv ==
  ASSUME IInv, NEW r \in Requests, CommitBook(r) \/ CommitCancel(r) \/ CommitReschedule(r)
  PROVE  RequestInv(r)'
<1>1. TypeOK /\ WorkInv(r) /\ stage[r] = "commit"
  BY DEF IInv, RequestInv, CommitBook, CommitCancel, CommitReschedule
<1>2. ReleaseLocks(r) /\ Goto(r, "mail") /\ UNCHANGED work
  BY DEF CommitBook, CommitCancel, CommitReschedule
<1>3. NoLocks(r)' /\ stage'[r] = "mail"
  BY <1>1, <1>2, NoLocksAfterRelease DEF Goto, TypeOK
<1>4. \A i \in Requests : appts[i] # NoAppt => appts'[i] # NoAppt
  <2>1. Act(r)
    BY DEF Act, Proceed
  <2> QED
    BY <2>1, ApptsStep DEF Kept
<1> QED
  BY <1>1, <1>2, <1>3, <1>4
     DEF RequestInv, WorkInv, LocksInv, OldInv, BaysInv, TechsInv, OrderInv, NoLocks, InTransaction

LEMMA SideEffectInv ==
  ASSUME IInv, NEW r \in Requests, SendMail(r) \/ TriggerWatchCheck(r)
  PROVE  RequestInv(r)'
<1>1. TypeOK /\ WorkInv(r) /\ stage[r] \in {"mail", "watch"}
  BY DEF IInv, RequestInv, SendMail, TriggerWatchCheck
<1>2. NoLocks(r)
  BY <1>1, NoLocksOutsideTransaction DEF InTransaction
<1>3. NoLocks(r)' /\ UNCHANGED <<appts, work>> /\ stage'[r] \in {"watch", "done"}
  BY <1>1, <1>2 DEF SendMail, TriggerWatchCheck, Respond, Goto, database, NoLocks, TypeOK
<1> QED
  BY <1>1, <1>3
     DEF RequestInv, WorkInv, LocksInv, OldInv, BaysInv, TechsInv, OrderInv, NoLocks, InTransaction

LEMMA OwnInv ==
  ASSUME IInv, NEW r \in Requests, Act(r)
  PROVE  RequestInv(r)'
<1>1. CASE Fail(r)
  BY <1>1, RollbackInv DEF Fail, IInv
<1> QED
  BY <1>1, ArriveInv, SaveOldInv, LockRowInv, LockBayInv, LockTechInv, FindAvailableBaysInv,
     FindAvailableTechniciansInv, CommitInv, SideEffectInv
     DEF Act, Proceed

-----------------------------------------------------------------------------
LEMMA ActInv ==
  ASSUME IInv, NEW r \in Requests, Act(r)
  PROVE  IInv'
<1>1. TypeOK'
  <2>1. CASE Fail(r)
    BY <2>1, TypeRollback DEF Fail, Answers, IInv
  <2> QED
    BY <2>1, TypeArrive, TypeProceed DEF Act, IInv
<1>2. ASSUME NEW q \in Requests PROVE RequestInv(q)'
  BY <1>1, OwnInv, OthersInv
<1> QED
  BY <1>1, <1>2 DEF IInv

LEMMA IdleInv ==
  ASSUME IInv, Tick \/ UNCHANGED vars
  PROVE  IInv'
<1>1. TypeOK'
  BY DEF IInv, TypeOK, Tick, vars, database, handler
<1>2. UNCHANGED <<database, handler>>
  BY DEF Tick, vars, database, handler
<1>3. ASSUME NEW q \in Requests PROVE RequestInv(q)'
  <2>1. RequestInv(q)
    BY DEF IInv
  <2>2. /\ UNCHANGED <<appts, apptLock, bayLock, techLock, stage, work, freeBays, freeTechs>>
        /\ CandBays(q)' = CandBays(q)
        /\ CandTechs(q)' = CandTechs(q)
        /\ Start(q)' = Start(q)
        /\ End(q)' = End(q)
    BY <1>2, SameCandidates DEF database, handler
  <2> QED
    BY <2>1, <2>2
       DEF RequestInv, WorkInv, LocksInv, OldInv, BaysInv, TechsInv, OrderInv, InTransaction,
           BaysToLock, TechsToLock
<1> QED
  BY <1>1, <1>3 DEF IInv

(* The inductive invariant holds in every reachable state. *)
THEOREM Invariance == Spec => []IInv
<1>1. Init => IInv
  BY InitInv
<1>2. IInv /\ [Next]_vars => IInv'
  BY ActInv, IdleInv DEF Next, Act
<1> QED
  BY <1>1, <1>2, PTL DEF Spec

(* Whatever requests interleave and fail, the variables keep their types.  *)
THEOREM TypeCorrect == Spec => []TypeOK
<1>1. IInv => TypeOK
  BY DEF IInv
<1> QED
  BY <1>1, Invariance, PTL

-----------------------------------------------------------------------------
(* The global lock order.                                                  *)

(* A transaction only ever waits for a row that comes after every row it   *)
(* holds: appointments, then bays, then technicians, each by id.           *)
THEOREM GlobalLockOrder == Spec => []LockOrder
<1>1. ASSUME IInv PROVE LockOrder
  <2> SUFFICES ASSUME NEW r \in Requests
               PROVE  /\ stage[r] = "row" => NoLocks(r)
                      /\ stage[r] = "bays" =>
                           /\ \A t \in Techs : techLock[t] # r
                           /\ \A b \in Bays, c \in BaysToLock(r) : bayLock[b] = r => b < c
                      /\ stage[r] = "techs" =>
                           \A t \in Techs, c \in TechsToLock(r) : techLock[t] = r => t < c
    BY DEF LockOrder, NoLocks
  <2>1. LocksInv(r) /\ OrderInv(r)
    BY <1>1 DEF IInv, RequestInv
  <2> QED
    BY <1>1, <2>1, NoLocksOutsideTransaction DEF LocksInv, OrderInv, InTransaction
<1> QED
  BY <1>1, Invariance, PTL

(* Among finitely many ids there is a last one. *)
LEMMA GreatestId ==
  ASSUME NEW T, T \subseteq Nat, IsFiniteSet(T), T # {}
  PROVE  \E m \in T : \A x \in T : x =< m
<1> DEFINE Above(x) == {y \in T : x =< y}
           U == {Above(x) : x \in T}
<1>1. U \subseteq FiniteSubsetsOf(T) /\ U # {}
  <2>1. U \subseteq SUBSET T /\ U # {}
    OBVIOUS
  <2> HIDE DEF U
  <2> QED
    BY <2>1, FS_FiniteSubsetsOfFinite, Zenon
<1>2. IsWellFoundedOn(StrictSubsetOrdering(T), FiniteSubsetsOf(T))
  BY FS_StrictSubsetOrderingWellFounded
<1>3. PICK A \in U : \A B \in U : <<B, A>> \notin StrictSubsetOrdering(T)
  <2> HIDE DEF U
  <2> QED
    BY <1>1, <1>2, WFMin, Zenon
<1>4. PICK m \in T : A = Above(m)
  OBVIOUS
<1>5. ASSUME NEW x \in T, m < x PROVE FALSE
  <2>0. x \in Nat /\ m \in Nat /\ \A y \in T : y \in Nat
    OBVIOUS
  <2>1. \A y \in T : x =< y => m =< y
    BY <1>5, <2>0
  <2>2. m =< m /\ ~(x =< m)
    BY <1>5, <2>0
  <2>3. Above(x) \subseteq Above(m) /\ m \in Above(m) /\ m \notin Above(x)
    BY <2>1, <2>2, Zenon
  <2>4. Above(x) \in U /\ Above(x) \in SUBSET T /\ Above(m) \in SUBSET T
    OBVIOUS
  <2> HIDE DEF Above, U
  <2>5. <<Above(x), Above(m)>> \in StrictSubsetOrdering(T)
    BY <2>3, <2>4 DEF StrictSubsetOrdering
  <2> QED
    BY <1>3, <1>4, <2>4, <2>5
<1> QED
  BY <1>5

(* Those who wait for a technician would wait in a circle only if someone  *)
(* waited for the last technician that any of them waits for, and was held *)
(* by one who waits for an earlier one, against the order of its locks.    *)
LEMMA NobodyWaitsForTechs ==
  ASSUME IInv, NEW S \in SUBSET Requests, \A r \in S : \E q \in S : WaitsFor(r, q),
         NEW r \in S
  PROVE  stage[r] # "techs"
<1> DEFINE Awaited == {t \in Techs : \E p \in S : stage[p] = "techs" /\ t \in TechsToLock(p)
                                                /\ techLock[t] \in S}
<1>1. \A p \in S : stage[p] = "techs" => \E t \in Awaited : t \in TechsToLock(p)
  BY CandidateRows DEF WaitsFor, TechsToLock
<1> SUFFICES ASSUME Awaited # {} PROVE FALSE
  BY <1>1
<1>2. Awaited \subseteq Nat /\ IsFiniteSet(Awaited)
  BY ResourcesAssumption, TablesAssumption, FS_Subset
<1>3. PICK m \in Awaited : \A t \in Awaited : t =< m
  <2> HIDE DEF Awaited
  <2> QED
    BY <1>2, GreatestId
<1>4. PICK q \in S : techLock[m] = q
  OBVIOUS
<1>5. stage[q] = "techs"
  <2>1. LocksInv(q)
    BY DEF IInv, RequestInv
  <2> QED
    BY <1>4, <2>1 DEF LocksInv, WaitsFor
<1>6. PICK t \in Awaited : t \in TechsToLock(q)
  BY <1>1, <1>5
<1>7. m < t
  BY <1>4, <1>5, <1>6 DEF IInv, RequestInv, OrderInv
<1> QED
  BY <1>2, <1>3, <1>6, <1>7

(* The same for bays, since the owner of one waits for a later one or for  *)
(* a technician.                                                           *)
LEMMA NobodyWaitsForBays ==
  ASSUME IInv, NEW S \in SUBSET Requests, \A r \in S : \E q \in S : WaitsFor(r, q),
         NEW r \in S
  PROVE  stage[r] # "bays"
<1> DEFINE Awaited == {b \in Bays : \E p \in S : stage[p] = "bays" /\ b \in BaysToLock(p)
                                               /\ bayLock[b] \in S}
<1>1. \A p \in S : stage[p] = "bays" => \E b \in Awaited : b \in BaysToLock(p)
  BY CandidateRows DEF WaitsFor, BaysToLock
<1> SUFFICES ASSUME Awaited # {} PROVE FALSE
  BY <1>1
<1>2. Awaited \subseteq Nat /\ IsFiniteSet(Awaited)
  BY ResourcesAssumption, TablesAssumption, FS_Subset
<1>3. PICK m \in Awaited : \A b \in Awaited : b =< m
  <2> HIDE DEF Awaited
  <2> QED
    BY <1>2, GreatestId
<1>4. PICK q \in S : bayLock[m] = q
  OBVIOUS
<1>5. stage[q] = "bays"
  <2>1. LocksInv(q)
    BY DEF IInv, RequestInv
  <2>2. stage[q] # "techs"
    BY NobodyWaitsForTechs
  <2> QED
    BY <1>4, <2>1, <2>2 DEF LocksInv, InTransaction, WaitsFor
<1>6. PICK b \in Awaited : b \in BaysToLock(q)
  BY <1>1, <1>5
<1>7. m < b
  BY <1>4, <1>5, <1>6 DEF IInv, RequestInv, OrderInv
<1> QED
  BY <1>2, <1>3, <1>6, <1>7

(* No set of transactions, however large, waits in a circle for each       *)
(* other's locks: MySQL never has to roll one of them back.                *)
THEOREM NoDeadlock == Spec => []NoWaitCycle
<1>1. ASSUME IInv PROVE NoWaitCycle
  <2> SUFFICES \A S \in (SUBSET Requests) \ {{}} :
                 ~(\A r \in S : \E q \in S : WaitsFor(r, q))
    BY DEF NoWaitCycle
  <2> SUFFICES ASSUME NEW S \in SUBSET Requests, NEW r \in S,
                      \A p \in S : \E q \in S : WaitsFor(p, q)
               PROVE  FALSE
    OBVIOUS
  <2>1. ASSUME NEW p \in S PROVE stage[p] = "row"
    <3>1. stage[p] # "techs" /\ stage[p] # "bays"
      BY <1>1, NobodyWaitsForBays, NobodyWaitsForTechs
    <3> QED
      BY <3>1 DEF WaitsFor
  <2>2. PICK q \in S : apptLock[work[r].old] = q
    BY <2>1 DEF WaitsFor
  <2>3. work[r].old \in Requests
    BY <1>1, <2>1, WorkFacts DEF IInv, RequestInv, WorkInv
  <2>4. InTransaction(q)
    BY <1>1, <2>2, <2>3 DEF IInv, RequestInv, LocksInv
  <2> QED
    BY <2>1, <2>4 DEF InTransaction
<1> QED
  BY <1>1, Invariance, PTL

-----------------------------------------------------------------------------
(* Booking implements Calendar.                                            *)

(* The appointment a commit adds has eligible resources, and fits beside   *)
(* all those that are not being moved.                                     *)
LEMMA NewAppointmentFits ==
  ASSUME IInv, NEW r \in Requests, stage[r] = "commit", work[r].op # "cancel",
         NEW b \in freeBays[r], NEW t \in freeTechs[r]
  PROVE  /\ Abstract!Assigned(NewAppointment(r, b, t))
         /\ Abstract!Fits(NewAppointment(r, b, t), {work[r].old})
<1>1. BaysInv(r) /\ TechsInv(r)
  BY DEF IInv, RequestInv
<1>2. b \in CandBays(r) /\ t \in CandTechs(r)
  BY <1>1 DEF BaysInv, TechsInv
<1>3. Abstract!Assigned(NewAppointment(r, b, t))
  <2>1. work[r].service \in Services /\ work[r].start \in Int
    BY WorkFacts DEF Work
  <2> QED
    BY <1>2, <2>1
       DEF Abstract!Assigned, NewAppointment, Start, End, CandBays, CandTechs,
           EndOf, Abstract!EndOf, CapableBays, Abstract!CapableBays,
           BayIsCapable, Abstract!BayIsCapable,
           EligibleTechnicians, Abstract!EligibleTechnicians,
           QualifiedTechnicians, Abstract!QualifiedTechnicians,
           TechnicianIsQualified, Abstract!TechnicianIsQualified,
           TechnicianOnShift, Abstract!TechnicianOnShift,
           DayOf, Abstract!DayOf, MinuteOfDay, Abstract!MinuteOfDay
<1>4. ASSUME NEW i \in Requests \ {work[r].old}, appts[i] # NoAppt,
             Occupies(appts[i], Start(r), End(r))
      PROVE  appts[i].bay # b /\ appts[i].tech # t
  BY <1>1, <1>4 DEF BaysInv, TechsInv
<1>5. /\ NewAppointment(r, b, t).bay = b
      /\ NewAppointment(r, b, t).tech = t
      /\ NewAppointment(r, b, t).start = Start(r)
      /\ NewAppointment(r, b, t).end = End(r)
  BY DEF NewAppointment
<1> HIDE DEF NewAppointment
<1>6. Abstract!Fits(NewAppointment(r, b, t), {work[r].old})
  BY <1>4, <1>5
     DEF Abstract!Fits, Occupies, Abstract!Occupies, IntervalsOverlap, Abstract!IntervalsOverlap
<1> QED
  BY <1>3, <1>6

LEMMA StepRefines ==
  ASSUME IInv, NEW r \in Requests, Act(r)
  PROVE  [Abstract!Next]_appts
<1>0. TypeOK
  BY DEF IInv
<1>1. CASE CommitBook(r)
  <2>1. PICK b \in freeBays[r], t \in freeTechs[r] :
           /\ NewAppointment(r, b, t) \in Appointment
           /\ appts[r] = NoAppt
           /\ appts' = [appts EXCEPT ![r] = NewAppointment(r, b, t)]
    BY <1>1, CommitBookAppts
  <2>2. stage[r] = "commit" /\ work[r].op = "book" /\ work[r].old = NoAppt
    BY <1>1, WorkFacts DEF CommitBook
  <2>3. appts'[r] = NewAppointment(r, b, t)
    BY <1>0, <2>1 DEF TypeOK
  <2>4. /\ Abstract!Assigned(NewAppointment(r, b, t))
        /\ Abstract!Fits(NewAppointment(r, b, t), {NoAppt})
    BY <2>2, NewAppointmentFits
  <2>5. Abstract!Fits(NewAppointment(r, b, t), {})
    BY <2>4 DEF Abstract!Fits
  <2>6. Abstract!Reserve(r)
    BY <2>1, <2>3, <2>4, <2>5 DEF Abstract!Reserve
  <2> QED
    BY <2>6 DEF Abstract!Next
<1>2. CASE CommitCancel(r)
  <2>1. /\ work[r].old \in Requests
        /\ appts[work[r].old] \in Appointment
        /\ appts[work[r].old] # NoAppt
    BY <1>2, WorkFacts DEF CommitCancel
  <2>2. appts' = [appts EXCEPT ![work[r].old] = Cancelled(appts[work[r].old], r)]
    BY <1>2 DEF CommitCancel
  <2>3. appts'[work[r].old] = Cancelled(appts[work[r].old], r)
    BY <1>0, <2>1, <2>2 DEF TypeOK
  <2>4. appts'[work[r].old] # NoAppt
    BY <2>1, <2>3, CancelledType
  <2>5. /\ Abstract!SamePlace(appts[work[r].old], appts'[work[r].old])
        /\ appts'[work[r].old].status = "CANCELLED"
    BY <2>1, <2>3, <2>4, CancelledType DEF Abstract!SamePlace
  <2>6. appts' = [appts EXCEPT ![work[r].old] = appts'[work[r].old]]
    BY <2>2, <2>3
  <2>7. Abstract!Release(work[r].old)
    BY <2>1, <2>5, <2>6 DEF Abstract!Release
  <2> QED
    BY <2>1, <2>7 DEF Abstract!Next
<1>3. CASE CommitReschedule(r)
  <2>1. PICK b \in freeBays[r], t \in freeTechs[r] :
           /\ NewAppointment(r, b, t) \in Appointment
           /\ appts[r] = NoAppt
           /\ work[r].old \in Requests
           /\ work[r].old # r
           /\ appts[work[r].old] # NoAppt
           /\ appts' = [appts EXCEPT ![work[r].old] = OldRow(r), ![r] = NewAppointment(r, b, t)]
    BY <1>3, CommitRescheduleAppts
  <2>2. stage[r] = "commit" /\ work[r].op = "reschedule"
    BY <1>3 DEF CommitReschedule
  <2>3. appts'[r] = NewAppointment(r, b, t) /\ appts'[work[r].old] = OldRow(r)
    BY <1>0, <2>1 DEF TypeOK
  <2>4. OldRow(r) # NoAppt
    BY <2>2, OldRowType
  <2>5. /\ Abstract!Assigned(NewAppointment(r, b, t))
        /\ Abstract!Fits(NewAppointment(r, b, t), {work[r].old})
    BY <2>2, NewAppointmentFits
  <2>6. Abstract!SamePlace(appts[work[r].old], OldRow(r)) /\ OldRow(r).status = "CANCELLED"
    BY <2>2, <2>4, OldRowType DEF Abstract!SamePlace
  <2>7. NewAppointment(r, b, t) # NoAppt
    BY <2>1
  <2>8. Abstract!Move(work[r].old, r)
    BY <2>1, <2>3, <2>4, <2>5, <2>6, <2>7 DEF Abstract!Move
  <2> QED
    BY <2>1, <2>8 DEF Abstract!Next
<1> QED
  BY <1>1, <1>2, <1>3, ApptsChange

(* Every behaviour of the booking core, whatever its requests, is one of   *)
(* the calendar: commits are its atomic steps.                             *)
THEOREM Refinement == Spec => ImplementsCalendar
<1>1. Init => Abstract!Init
  BY DEF Init, Abstract!Init
<1>2. IInv /\ [Next]_vars => [Abstract!Next]_appts
  BY StepRefines DEF Next, Act, Tick, vars, database
<1> QED
  BY <1>1, <1>2, Invariance, PTL DEF Spec, ImplementsCalendar, Abstract!Spec

CalendarFacts == INSTANCE CalendarProofs WITH Ids <- Requests

(* The instance that the theorems about the calendar come with is the one  *)
(* that Booking implements.                                                *)
LEMMA SameCalendar == Abstract!Spec => CalendarFacts!Spec
<1>1. Abstract!Init => CalendarFacts!Init
  BY DEF Abstract!Init, CalendarFacts!Init
<1>2. [Abstract!Next]_appts => [CalendarFacts!Next]_appts
  <2>1. ASSUME NEW a PROVE Abstract!Assigned(a) => CalendarFacts!Assigned(a)
    BY DEF Abstract!Assigned, CalendarFacts!Assigned,
           Abstract!EndOf, CalendarFacts!EndOf,
           Abstract!CapableBays, CalendarFacts!CapableBays,
           Abstract!BayIsCapable, CalendarFacts!BayIsCapable,
           Abstract!EligibleTechnicians, CalendarFacts!EligibleTechnicians,
           Abstract!QualifiedTechnicians, CalendarFacts!QualifiedTechnicians,
           Abstract!TechnicianIsQualified, CalendarFacts!TechnicianIsQualified,
           Abstract!TechnicianOnShift, CalendarFacts!TechnicianOnShift,
           Abstract!DayOf, CalendarFacts!DayOf, Abstract!MinuteOfDay, CalendarFacts!MinuteOfDay
  <2>2. ASSUME NEW a, NEW moved PROVE Abstract!Fits(a, moved) => CalendarFacts!Fits(a, moved)
    BY DEF Abstract!Fits, CalendarFacts!Fits, Abstract!Occupies, CalendarFacts!Occupies,
           Abstract!IntervalsOverlap, CalendarFacts!IntervalsOverlap
  <2>3. ASSUME NEW a, NEW b PROVE Abstract!SamePlace(a, b) => CalendarFacts!SamePlace(a, b)
    BY DEF Abstract!SamePlace, CalendarFacts!SamePlace
  <2>4. ASSUME NEW i PROVE Abstract!Reserve(i) => CalendarFacts!Reserve(i)
    BY <2>1, <2>2 DEF Abstract!Reserve, CalendarFacts!Reserve
  <2>5. ASSUME NEW i PROVE Abstract!Release(i) => CalendarFacts!Release(i)
    BY <2>3 DEF Abstract!Release, CalendarFacts!Release
  <2>6. ASSUME NEW i, NEW j PROVE Abstract!Move(i, j) => CalendarFacts!Move(i, j)
    BY <2>1, <2>2, <2>3 DEF Abstract!Move, CalendarFacts!Move
  <2> QED
    BY <2>4, <2>5, <2>6 DEF Abstract!Next, CalendarFacts!Next
<1> QED
  BY <1>1, <1>2, PTL DEF Abstract!Spec, CalendarFacts!Spec

(* No bay and no technician is ever double-booked, for any number of       *)
(* concurrent requests: the calendar forbids it and Booking implements it. *)
THEOREM NeverDoubleBooked == Spec => []NoDoubleBooking
<1>1. CalendarFacts!Spec => []CalendarFacts!NoOverlap
  BY CalendarFacts!CalendarNoOverlap, ResourcesAssumption, ShiftsAssumption,
     ServicesAssumption, ClockAssumption, PTL
<1>2. CalendarFacts!NoOverlap => NoDoubleBooking
  BY DEF CalendarFacts!NoOverlap, NoDoubleBooking, Confirmed, Committed,
         CalendarFacts!IntervalsOverlap, IntervalsOverlap
<1> QED
  BY <1>1, <1>2, Refinement, SameCalendar, PTL DEF ImplementsCalendar

(* No window starts before the shift of its technician, and none ends a    *)
(* whole minute after it: the calendar has no other, either.               *)
THEOREM WindowsInShift == Spec => []WithinShift
<1>1. CalendarFacts!Spec => []CalendarFacts!WithinShift
  BY CalendarFacts!CalendarInShift, ResourcesAssumption, ShiftsAssumption,
     ServicesAssumption, ClockAssumption, PTL
<1>2. CalendarFacts!WithinShift => WithinShift
  BY DEF CalendarFacts!WithinShift, CalendarFacts!InShift, CalendarFacts!DayOf,
         WithinShift, DayOf, Confirmed, Committed
<1> QED
  BY <1>1, <1>2, Refinement, SameCalendar, PTL DEF ImplementsCalendar

===============================================================================
