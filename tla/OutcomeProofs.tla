----------------------------- MODULE OutcomeProofs -----------------------------
(***************************************************************************)
(* What the requests of Booking come to, for every set of them: what the   *)
(* clients and the queues are told is what happened, a move is all or      *)
(* nothing, and nobody is refused but for want of room.                    *)
(***************************************************************************)
EXTENDS BookingProofs

USE RequestsAssumption, MarkersAssumption

-----------------------------------------------------------------------------
(* Answers and jobs                                                        *)

(* The change that request r was sent for is committed. *)
Effect(r) ==
  /\ work[r] \in Work
  /\ work[r].op # "cancel" => appts[r] # NoAppt
  /\ work[r].op # "book" =>
       /\ work[r].old \in Requests
       /\ appts[work[r].old] # NoAppt
       /\ appts[work[r].old].status = "CANCELLED"

(* Where a request is tells what it has answered and queued. *)
ToldInv(r) ==
  /\ stage[r] \in {"mail", "watch"} => Effect(r)
  /\ answer[r] = "ok" => work[r] = NoWork \/ Effect(r)
  /\ stage[r] # "done" => answer[r] = "none"
  /\ answer[r] \in Refusals => appts[r] = NoAppt
  /\ stage[r] = "new" => work[r] = NoWork
  /\ \A k \in {"mail", "watch"} : <<r, k>> \in jobs => Effect(r)

(* A request that has cancelled an appointment has committed. *)
ClosedInv(i, r) ==
  appts[i] # NoAppt /\ appts[i].closedBy = r =>
    /\ stage[r] \in {"mail", "watch", "done"}
    /\ work[r].op = "reschedule" => appts[r] # NoAppt /\ appts[r].from = i

HInv ==
  /\ \A r \in Requests : ToldInv(r)
  /\ \A i, r \in Requests : ClosedInv(i, r)

-----------------------------------------------------------------------------
LEMMA HonestInit == Init => HInv
<1> SUFFICES ASSUME Init PROVE HInv
  OBVIOUS
<1>1. ASSUME NEW r \in Requests PROVE ToldInv(r)
  BY <1>1 DEF Init, ToldInv, Refusals
<1>2. ASSUME NEW i \in Requests, NEW r \in Requests PROVE ClosedInv(i, r)
  BY <1>2 DEF Init, ClosedInv
<1> QED
  BY <1>1, <1>2 DEF HInv

(* Nothing undoes a committed change. *)
LEMMA EffectStays ==
  ASSUME IInv, NEW r \in Requests, Act(r), NEW q \in Requests, work'[q] = work[q], Effect(q)
  PROVE  Effect(q)'
<1>1. Kept(q)
  BY ApptsStep
<1>2. CASE work[q].op = "book"
  BY <1>1, <1>2 DEF Effect, Kept
<1>3. CASE work[q].op # "book"
  <2>1. Kept(work[q].old)
    BY <1>3, ApptsStep DEF Effect
  <2> QED
    BY <1>1, <1>3, <2>1 DEF Effect, Kept
<1> QED
  BY <1>2, <1>3

(* A step of r answers r's client and queues r's jobs. *)
LEMMA ToldByOthers ==
  ASSUME TypeOK, NEW r \in Requests, NEW q \in Requests \ {r}, Act(r)
  PROVE  /\ answer'[q] = answer[q]
         /\ \A k \in {"mail", "watch"} : <<q, k>> \in jobs' <=> <<q, k>> \in jobs
<1>1. ASSUME NEW a, Rollback(r, a) \/ Refuse(r, a)
      PROVE  answer'[q] = answer[q] /\ jobs' = jobs
  BY <1>1 DEF Rollback, Refuse, Respond, TypeOK
<1>2. ASSUME NEW w, NEW s, Enter(r, w, s) PROVE answer'[q] = answer[q] /\ jobs' = jobs
  BY <1>2 DEF Enter
<1>3. CASE Book(r)
  BY <1>1, <1>2, <1>3 DEF Book
<1>4. CASE Cancel(r)
  BY <1>1, <1>2, <1>4 DEF Cancel
<1>5. CASE Reschedule(r)
  BY <1>1, <1>2, <1>5 DEF Reschedule
<1>6. CASE Fail(r)
  BY <1>1, <1>6 DEF Fail
<1>7. CASE FindAvailableTechnicians(r)
  BY <1>1, <1>7 DEF FindAvailableTechnicians
<1>8. CASE SaveOld(r) \/ LockRow(r) \/ LockBay(r) \/ LockTech(r) \/ FindAvailableBays(r)
  BY <1>8 DEF SaveOld, LockRow, LockBay, LockTech, FindAvailableBays, handler
<1>9. CASE CommitBook(r) \/ CommitCancel(r) \/ CommitReschedule(r)
  BY <1>9 DEF CommitBook, CommitCancel, CommitReschedule
<1>10. CASE SendMail(r)
  BY <1>10 DEF SendMail, Respond, TypeOK
<1>11. CASE TriggerWatchCheck(r)
  BY <1>11 DEF TriggerWatchCheck, Respond, TypeOK
<1> QED
  BY <1>3, <1>4, <1>5, <1>6, <1>7, <1>8, <1>9, <1>10, <1>11 DEF Act, Arrive, Proceed

LEMMA OthersTold ==
  ASSUME IInv, NEW r \in Requests, NEW q \in Requests \ {r}, Act(r), ToldInv(q)
  PROVE  ToldInv(q)'
<1>1. /\ answer'[q] = answer[q]
      /\ \A k \in {"mail", "watch"} : <<q, k>> \in jobs' <=> <<q, k>> \in jobs
  BY ToldByOthers DEF IInv
<1>2. stage'[q] = stage[q] /\ work'[q] = work[q]
  BY UntouchedByOthers DEF Untouched
<1>3. Effect(q) => Effect(q)'
  BY <1>2, EffectStays
<1>4. appts[q] = NoAppt => appts'[q] = NoAppt
  BY ApptsStep DEF Fresh
<1> QED
  BY <1>1, <1>2, <1>3, <1>4 DEF ToldInv

-----------------------------------------------------------------------------
(* The request that takes the step.                                        *)

LEMMA ArriveTold ==
  ASSUME IInv, NEW r \in Requests, Arrive(r), ToldInv(r)
  PROVE  ToldInv(r)'
<1>1. /\ TypeOK
      /\ stage[r] = "new"
      /\ appts[r] = NoAppt
      /\ UNCHANGED <<appts, jobs>>
  BY DEF IInv, RequestInv, WorkInv, Arrive, Book, Cancel, Reschedule, Refuse, Enter, database
<1>2. /\ work[r] = NoWork
      /\ answer[r] = "none"
      /\ \A k \in {"mail", "watch"} : <<r, k>> \notin jobs
  BY <1>1 DEF ToldInv, Effect
<1>3. ASSUME NEW a, Refuse(r, a) PROVE ToldInv(r)'
  BY <1>1, <1>2, <1>3 DEF Refuse, Respond, Goto, TypeOK, ToldInv
<1>4. ASSUME NEW w, NEW s \in {"save", "row", "bays"}, Enter(r, w, s) PROVE ToldInv(r)'
  BY <1>1, <1>2, <1>4 DEF Enter, Goto, TypeOK, ToldInv, Refusals
<1>5. CASE Book(r)
  BY <1>3, <1>4, <1>5 DEF Book
<1>6. CASE Cancel(r)
  BY <1>3, <1>4, <1>6 DEF Cancel
<1>7. CASE Reschedule(r)
  BY <1>3, <1>4, <1>7 DEF Reschedule
<1> QED
  BY <1>5, <1>6, <1>7 DEF Arrive

(* A rollback, with an answer other than "ok", of a request that a refusal *)
(* leaves without appointment.                                             *)
LEMMA RollbackTold ==
  ASSUME TypeOK, NEW r \in Requests, NEW a, Rollback(r, a), a # "ok",
         a \in Refusals => appts[r] = NoAppt, Effect(r) => Effect(r)', ToldInv(r)
  PROVE  ToldInv(r)'
BY DEF Rollback, Respond, Goto, TypeOK, ToldInv

LEMMA CommitEffect ==
  ASSUME IInv, NEW r \in Requests, CommitBook(r) \/ CommitCancel(r) \/ CommitReschedule(r)
  PROVE  Effect(r)'
<1>0. TypeOK /\ stage[r] = "commit" /\ work' = work /\ work[r] \in Work
  BY WorkFacts DEF IInv, CommitBook, CommitCancel, CommitReschedule
<1>1. CASE CommitBook(r)
  <2>1. PICK b \in freeBays[r], t \in freeTechs[r] :
           /\ NewAppointment(r, b, t) \in Appointment
           /\ appts' = [appts EXCEPT ![r] = NewAppointment(r, b, t)]
    BY <1>1, CommitBookAppts
  <2>2. appts'[r] # NoAppt /\ work[r].op = "book"
    BY <1>0, <1>1, <2>1 DEF TypeOK, CommitBook
  <2> QED
    BY <1>0, <2>2 DEF Effect
<1>2. CASE CommitCancel(r)
  <2>1. /\ work[r].op = "cancel"
        /\ work[r].old \in Requests
        /\ appts[work[r].old] \in Appointment
    BY <1>0, <1>2, WorkFacts DEF CommitCancel
  <2>2. appts'[work[r].old] = Cancelled(appts[work[r].old], r)
    BY <1>0, <1>2, <2>1 DEF CommitCancel, TypeOK
  <2> QED
    BY <1>0, <2>1, <2>2, CancelledType DEF Effect
<1>3. CASE CommitReschedule(r)
  <2>1. PICK b \in freeBays[r], t \in freeTechs[r] :
           /\ NewAppointment(r, b, t) \in Appointment
           /\ work[r].old \in Requests
           /\ work[r].old # r
           /\ appts' = [appts EXCEPT ![work[r].old] = OldRow(r), ![r] = NewAppointment(r, b, t)]
    BY <1>3, CommitRescheduleAppts
  <2>2. appts'[r] = NewAppointment(r, b, t) /\ appts'[work[r].old] = OldRow(r)
    BY <1>0, <2>1 DEF TypeOK
  <2>3. OldRow(r) \in Appointment /\ OldRow(r).status = "CANCELLED"
    BY <1>0, <1>3, OldRowType DEF CommitReschedule
  <2> QED
    BY <1>0, <2>1, <2>2, <2>3 DEF Effect
<1> QED
  BY <1>1, <1>2, <1>3

LEMMA ProceedTold ==
  ASSUME IInv, NEW r \in Requests, Proceed(r) \/ Fail(r), ToldInv(r)
  PROVE  ToldInv(r)'
<1>0. TypeOK /\ Act(r) /\ work' = work
  BY DEF IInv, Act, Proceed, Fail, Rollback, SaveOld, LockRow, LockBay, LockTech,
         FindAvailableBays, FindAvailableTechnicians, CommitBook, CommitCancel,
         CommitReschedule, SendMail, TriggerWatchCheck, handler
<1>1. Effect(r) => Effect(r)'
  BY <1>0, EffectStays
<1>2. CASE Fail(r)
  BY <1>0, <1>1, <1>2, RollbackTold DEF Fail, Refusals
<1>3. CASE FindAvailableTechnicians(r)
  <2>1. appts[r] = NoAppt
    BY <1>3 DEF FindAvailableTechnicians, IInv, RequestInv, WorkInv
  <2>2. CASE Rollback(r, "full")
    BY <1>0, <1>1, <2>1, <2>2, RollbackTold
  <2>3. CASE Goto(r, "commit") /\ UNCHANGED <<database, work, freeBays, answer, jobs, now>>
    BY <1>0, <1>1, <1>3, <2>1, <2>3
       DEF FindAvailableTechnicians, Goto, database, TypeOK, ToldInv
  <2> QED
    BY <1>3, <2>2, <2>3 DEF FindAvailableTechnicians
<1>4. ASSUME NEW s \in {"row", "bays", "techs", "commit"}, Goto(r, s) \/ stage' = stage,
             stage[r] \in {"save", "row", "bays", "techs"}, UNCHANGED <<appts, answer, jobs>>
      PROVE  ToldInv(r)'
  BY <1>0, <1>1, <1>4 DEF Goto, TypeOK, ToldInv
<1>5. CASE SaveOld(r) \/ LockRow(r) \/ LockBay(r) \/ LockTech(r) \/ FindAvailableBays(r)
  BY <1>4, <1>5 DEF SaveOld, LockRow, LockBay, LockTech, FindAvailableBays, database, handler
<1>6. CASE CommitBook(r) \/ CommitCancel(r) \/ CommitReschedule(r)
  <2>1. stage[r] = "commit" /\ stage'[r] = "mail" /\ UNCHANGED <<answer, jobs>>
    BY <1>0, <1>6 DEF CommitBook, CommitCancel, CommitReschedule, Goto, TypeOK
  <2>2. answer[r] = "none"
    BY <2>1 DEF ToldInv
  <2> QED
    BY <1>6, <2>1, <2>2, CommitEffect DEF ToldInv, Refusals
<1>7. CASE SendMail(r) \/ TriggerWatchCheck(r)
  <2>1. Effect(r)'
    BY <1>1, <1>7 DEF SendMail, TriggerWatchCheck, ToldInv
  <2>2. \/ stage'[r] = "watch" /\ stage[r] = "mail" /\ answer' = answer
        \/ stage'[r] = "done" /\ answer'[r] = "ok"
    BY <1>0, <1>7 DEF SendMail, TriggerWatchCheck, Respond, Goto, TypeOK
  <2> QED
    BY <2>1, <2>2 DEF ToldInv, Refusals
<1> QED
  BY <1>2, <1>3, <1>5, <1>6, <1>7 DEF Proceed

-----------------------------------------------------------------------------
(* Who closed an appointment, and which one it replaced.                   *)

Committing(r) == CommitBook(r) \/ CommitCancel(r) \/ CommitReschedule(r)

(* The record of an appointment stays what it was, or says that r closed   *)
(* the one it worked on.                                                   *)
Recorded(i, r) ==
  appts'[i] # NoAppt =>
    \/ /\ appts[i] # NoAppt
       /\ appts'[i].from = appts[i].from
       /\ \/ appts'[i].closedBy = appts[i].closedBy
          \/ /\ appts'[i].closedBy = r
             /\ i = work[r].old
             /\ CommitCancel(r) \/ CommitReschedule(r)
    \/ /\ i = r
       /\ appts'[i].from = work[r].old
       /\ appts'[i].closedBy = NoAppt
       /\ CommitBook(r) \/ CommitReschedule(r)

LEMMA CancelledRecord ==
  ASSUME NEW a \in Appointment, NEW r \in Requests
  PROVE  Cancelled(a, r).from = a.from /\ Cancelled(a, r).closedBy = r
BY DEF Cancelled, Appointment

LEMMA RecordStep ==
  ASSUME IInv, NEW r \in Requests, Act(r), NEW i \in Requests
  PROVE  Recorded(i, r)
<1>0. TypeOK
  BY DEF IInv
<1>1. CASE UNCHANGED appts
  BY <1>1 DEF Recorded
<1>2. CASE CommitBook(r)
  <2>1. PICK b \in freeBays[r], t \in freeTechs[r] :
           appts' = [appts EXCEPT ![r] = NewAppointment(r, b, t)]
    BY <1>2, CommitBookAppts
  <2>2. CASE i # r
    BY <1>0, <2>1, <2>2 DEF Recorded, TypeOK
  <2>3. CASE i = r
    <3>1. appts'[i] = NewAppointment(r, b, t)
      BY <1>0, <2>1, <2>3 DEF TypeOK
    <3> QED
      BY <1>2, <2>3, <3>1 DEF Recorded, NewAppointment
  <2> QED
    BY <2>2, <2>3
<1>3. CASE CommitCancel(r)
  <2>1. work[r].old \in Requests /\ appts[work[r].old] \in Appointment
    BY <1>3, WorkFacts DEF CommitCancel
  <2>2. appts' = [appts EXCEPT ![work[r].old] = Cancelled(appts[work[r].old], r)]
    BY <1>3 DEF CommitCancel
  <2>3. CASE i # work[r].old
    BY <1>0, <2>2, <2>3 DEF Recorded, TypeOK
  <2>4. CASE i = work[r].old
    <3>1. appts'[i] = Cancelled(appts[i], r) /\ appts[i] # NoAppt
      BY <1>0, <2>1, <2>2, <2>4 DEF TypeOK
    <3> QED
      BY <1>3, <2>1, <2>4, <3>1, CancelledRecord DEF Recorded
  <2> QED
    BY <2>3, <2>4
<1>4. CASE CommitReschedule(r)
  <2>1. PICK b \in freeBays[r], t \in freeTechs[r] :
           /\ work[r].old \in Requests
           /\ work[r].old # r
           /\ appts[work[r].old] # NoAppt
           /\ appts' = [appts EXCEPT ![work[r].old] = OldRow(r), ![r] = NewAppointment(r, b, t)]
    BY <1>4, CommitRescheduleAppts
  <2>2. CASE i = r
    <3>1. appts'[i] = NewAppointment(r, b, t)
      BY <1>0, <2>1, <2>2 DEF TypeOK
    <3> QED
      BY <1>4, <2>2, <3>1 DEF Recorded, NewAppointment
  <2>3. CASE i = work[r].old
    <3>1. appts'[i] = OldRow(r) /\ appts[i] \in Appointment /\ appts[i] # NoAppt
      BY <1>0, <2>1, <2>3 DEF TypeOK
    <3>2. \/ appts'[i].closedBy = appts[i].closedBy /\ appts'[i].from = appts[i].from
          \/ appts'[i].closedBy = r /\ appts'[i].from = appts[i].from
      BY <2>3, <3>1, CancelledRecord DEF OldRow
    <3> QED
      BY <1>4, <2>3, <3>1, <3>2 DEF Recorded
  <2>4. CASE i # r /\ i # work[r].old
    BY <1>0, <2>1, <2>4 DEF Recorded, TypeOK
  <2> QED
    BY <2>2, <2>3, <2>4
<1> QED
  BY <1>1, <1>2, <1>3, <1>4, ApptsChange

(* A commit of a move leaves a successor that names what it replaced.      *)
LEMMA SuccessorNamed ==
  ASSUME IInv, NEW r \in Requests, CommitReschedule(r)
  PROVE  appts'[r] # NoAppt /\ appts'[r].from = work[r].old
<1>1. PICK b \in freeBays[r], t \in freeTechs[r] :
         /\ NewAppointment(r, b, t) \in Appointment
         /\ appts' = [appts EXCEPT ![work[r].old] = OldRow(r), ![r] = NewAppointment(r, b, t)]
  BY CommitRescheduleAppts
<1>2. appts'[r] = NewAppointment(r, b, t)
  BY <1>1 DEF IInv, TypeOK
<1> QED
  BY <1>1, <1>2 DEF NewAppointment

LEMMA OthersClosed ==
  ASSUME IInv, NEW r \in Requests, NEW q \in Requests \ {r}, Act(r), NEW i \in Requests,
         ClosedInv(i, q)
  PROVE  ClosedInv(i, q)'
<1>1. stage'[q] = stage[q] /\ work'[q] = work[q]
  BY UntouchedByOthers DEF Untouched
<1>2. Recorded(i, r) /\ Recorded(q, r) /\ Kept(q)
  BY RecordStep, ApptsStep
<1> QED
  BY <1>1, <1>2 DEF ClosedInv, Recorded, Kept

LEMMA OwnClosed ==
  ASSUME IInv, NEW r \in Requests, Act(r), NEW i \in Requests, ClosedInv(i, r)
  PROVE  ClosedInv(i, r)'
<1>0. TypeOK
  BY DEF IInv
<1> SUFFICES ASSUME appts'[i] # NoAppt, appts'[i].closedBy = r
             PROVE  /\ stage'[r] \in {"mail", "watch", "done"}
                    /\ work'[r].op = "reschedule" => appts'[r] # NoAppt /\ appts'[r].from = i
  BY DEF ClosedInv
<1>1. CASE i = work[r].old /\ (CommitCancel(r) \/ CommitReschedule(r))
  <2>1. stage'[r] = "mail" /\ work' = work
    BY <1>0, <1>1 DEF CommitCancel, CommitReschedule, Goto, TypeOK
  <2>2. CASE CommitCancel(r)
    BY <2>1, <2>2 DEF CommitCancel
  <2>3. CASE CommitReschedule(r)
    BY <1>1, <2>1, <2>3, SuccessorNamed
  <2> QED
    BY <1>1, <2>2, <2>3
<1>2. CASE ~(i = work[r].old /\ (CommitCancel(r) \/ CommitReschedule(r)))
  <2>1. appts[i] # NoAppt /\ appts[i].closedBy = r
    BY <1>2, RecordStep DEF Recorded
  <2>2. stage[r] \in {"mail", "watch", "done"}
    BY <2>1 DEF ClosedInv
  <2>3. SendMail(r) \/ TriggerWatchCheck(r) \/ Fail(r)
    BY <2>2 DEF Act, Arrive, Proceed, Book, Cancel, Reschedule, SaveOld, LockRow, LockBay, LockTech,
                FindAvailableBays, FindAvailableTechnicians, CommitBook, CommitCancel,
                CommitReschedule
  <2>4. appts' = appts /\ work' = work /\ stage'[r] \in {"watch", "done"}
    BY <1>0, <2>3 DEF SendMail, TriggerWatchCheck, Fail, Rollback, Respond, Goto, database, TypeOK
  <2> QED
    BY <2>1, <2>4 DEF ClosedInv
<1> QED
  BY <1>1, <1>2

-----------------------------------------------------------------------------
LEMMA HonestNext ==
  ASSUME IInv, HInv, [Next]_vars
  PROVE  HInv'
<1>1. ASSUME NEW r \in Requests, Act(r) PROVE HInv'
  <2>1. ASSUME NEW q \in Requests PROVE ToldInv(q)'
    <3>1. ToldInv(q)
      BY DEF HInv
    <3> QED
      BY <1>1, <3>1, OthersTold, ArriveTold, ProceedTold DEF Act
  <2>2. ASSUME NEW i \in Requests, NEW q \in Requests PROVE ClosedInv(i, q)'
    <3>1. ClosedInv(i, q)
      BY DEF HInv
    <3> QED
      BY <1>1, <3>1, OthersClosed, OwnClosed
  <2> QED
    BY <2>1, <2>2 DEF HInv
<1>2. CASE Tick \/ UNCHANGED vars
  <2>1. UNCHANGED <<appts, stage, work, answer, jobs>>
    BY <1>2 DEF Tick, vars, database, handler
  <2> QED
    BY <2>1 DEF HInv, ToldInv, ClosedInv, Effect
<1> QED
  BY <1>1, <1>2 DEF Next, Act

(* In every reachable state, what a request has answered and queued is     *)
(* committed, and what it has closed it has replaced.                      *)
THEOREM Honesty == Spec => [](IInv /\ HInv)
<1>1. Init => HInv
  BY HonestInit
<1>2. IInv /\ HInv /\ [Next]_vars => HInv'
  BY HonestNext
<1> QED
  BY <1>1, <1>2, Invariance, PTL DEF Spec

(* A client is told "ok" only after the commit, and refused only if it has *)
(* booked nothing, whatever other requests do in between.                  *)
THEOREM HonestAnswers == Spec => []AnswerHonest
<1>1. HInv => AnswerHonest
  BY DEF HInv, ToldInv, Effect, AnswerHonest, Committed
<1> QED
  BY <1>1, Honesty, PTL

(* No job reaches a queue for a change that can still be rolled back.      *)
THEOREM JobsAfterCommit == Spec => []JobsFollowCommit
<1>1. HInv => JobsFollowCommit
  BY DEF HInv, ToldInv, Effect, JobsFollowCommit, Committed, Work
<1> QED
  BY <1>1, Honesty, PTL

(* A reschedule that cancelled an appointment has booked its successor.    *)
THEOREM MovesAreAtomic == Spec => []MoveAllOrNothing
<1>1. HInv => MoveAllOrNothing
  BY DEF HInv, ClosedInv, MoveAllOrNothing, Committed
<1> QED
  BY <1>1, Honesty, PTL

-----------------------------------------------------------------------------
(* Refusals for want of room                                               *)

AllConfirmed == \A i \in Requests : Committed(i) => Confirmed(i)

BaysTaken(r)  == CandBays(r) \subseteq BusyBays(Visible(r), Start(r), End(r))
TechsTaken(r) == CandTechs(r) \subseteq BusyTechs(Visible(r), Start(r), End(r))

(* While nothing has been cancelled, what was taken stays taken: for the   *)
(* request that was told so, and for the one that will be.                 *)
RoomInv ==
  AllConfirmed =>
    \A r \in Requests :
      /\ answer[r] = "full" => BaysTaken(r) \/ TechsTaken(r)
      /\ stage[r] = "techs" /\ freeBays[r] = {} => BaysTaken(r)

LEMMA NothingCancelled ==
  ASSUME IInv, NEW r \in Requests, Act(r), AllConfirmed', NEW i \in Requests, appts[i] # NoAppt
  PROVE  appts'[i] = appts[i]
<1>0. TypeOK
  BY DEF IInv
<1>1. CASE UNCHANGED appts
  BY <1>1
<1>2. CASE CommitBook(r)
  BY <1>0, <1>2, CommitBookAppts DEF TypeOK
<1>3. CASE CommitCancel(r)
  <2>1. /\ work[r].old \in Requests
        /\ appts[work[r].old] \in Appointment
    BY <1>3, WorkFacts DEF CommitCancel
  <2>2. appts'[work[r].old] = Cancelled(appts[work[r].old], r)
    BY <1>0, <1>3, <2>1 DEF CommitCancel, TypeOK
  <2>3. Cancelled(appts[work[r].old], r) \in Appointment
    BY <2>1, CancelledType
  <2> QED
    BY <2>1, <2>2, <2>3, CancelledType DEF AllConfirmed, Committed, Confirmed
<1>4. CASE CommitReschedule(r)
  <2>1. PICK b \in freeBays[r], t \in freeTechs[r] :
           /\ work[r].old \in Requests
           /\ work[r].old # r
           /\ appts' = [appts EXCEPT ![work[r].old] = OldRow(r), ![r] = NewAppointment(r, b, t)]
    BY <1>4, CommitRescheduleAppts
  <2>2. appts'[work[r].old] = OldRow(r)
    BY <1>0, <2>1 DEF TypeOK
  <2>3. OldRow(r) \in Appointment /\ OldRow(r).status = "CANCELLED"
    BY <1>4, OldRowType DEF CommitReschedule
  <2> QED
    BY <2>1, <2>2, <2>3 DEF AllConfirmed, Committed, Confirmed
<1> QED
  BY <1>1, <1>2, <1>3, <1>4, ApptsChange

LEMMA TakenStays ==
  ASSUME NEW q \in Requests, work'[q] = work[q],
         \A i \in Requests : appts[i] # NoAppt => appts'[i] = appts[i]
  PROVE  /\ BaysTaken(q) => BaysTaken(q)'
         /\ TechsTaken(q) => TechsTaken(q)'
<1>1. Visible(q) \subseteq Visible(q)'
  BY DEF Visible
<1>2. /\ CandBays(q)' = CandBays(q)
      /\ CandTechs(q)' = CandTechs(q)
      /\ Start(q)' = Start(q)
      /\ End(q)' = End(q)
  BY SameCandidates
<1>3. /\ BusyBays(Visible(q), Start(q), End(q)) \subseteq BusyBays(Visible(q)', Start(q), End(q))
      /\ BusyTechs(Visible(q), Start(q), End(q)) \subseteq BusyTechs(Visible(q)', Start(q), End(q))
  BY <1>1 DEF BusyBays, BusyTechs
<1> QED
  BY <1>2, <1>3 DEF BaysTaken, TechsTaken

LEMMA RoomStep ==
  ASSUME IInv, HInv, RoomInv, NEW r \in Requests, Act(r)
  PROVE  RoomInv'
<1> SUFFICES ASSUME AllConfirmed', NEW q \in Requests
             PROVE  /\ answer'[q] = "full" => BaysTaken(q)' \/ TechsTaken(q)'
                    /\ stage'[q] = "techs" /\ freeBays'[q] = {} => BaysTaken(q)'
  BY DEF RoomInv
<1>0. TypeOK /\ ToldInv(q)
  BY DEF IInv, HInv
<1>1. \A i \in Requests : appts[i] # NoAppt => appts'[i] = appts[i]
  BY NothingCancelled
<1>2. /\ answer[q] = "full" => BaysTaken(q) \/ TechsTaken(q)
      /\ stage[q] = "techs" /\ freeBays[q] = {} => BaysTaken(q)
  BY <1>1 DEF RoomInv, AllConfirmed, Committed, Confirmed
<1>3. CASE q # r
  <2>1. stage'[q] = stage[q] /\ work'[q] = work[q] /\ freeBays'[q] = freeBays[q]
    BY <1>3, UntouchedByOthers DEF Untouched
  <2>2. answer'[q] = answer[q]
    BY <1>0, <1>3, ToldByOthers
  <2> QED
    BY <1>1, <1>2, <2>1, <2>2, TakenStays
<1>4. CASE q = r
  <2>1. CASE FindAvailableTechnicians(r)
    <3>1. work' = work /\ stage[r] = "techs" /\ answer[r] = "none"
      BY <1>0, <1>4, <2>1 DEF FindAvailableTechnicians, Rollback, ToldInv
    <3>2. CASE Rollback(r, "full")
      <4>1. stage'[r] = "done"
        BY <1>0, <3>2 DEF Rollback, Respond, Goto, TypeOK
      <4>2. freeBays[r] = {} \/ TechsTaken(r)
        BY <2>1, <3>2, <4>1, <1>0 DEF FindAvailableTechnicians, Goto, TypeOK, TechsTaken
      <4> QED
        BY <1>1, <1>2, <1>4, <3>1, <4>1, <4>2, TakenStays
    <3>3. CASE Goto(r, "commit") /\ answer' = answer
      BY <1>0, <1>4, <3>1, <3>3 DEF Goto, TypeOK
    <3> QED
      BY <2>1, <3>2, <3>3 DEF FindAvailableTechnicians
  <2>2. CASE FindAvailableBays(r)
    <3>1. work' = work /\ answer' = answer /\ answer[r] = "none"
      BY <1>0, <1>4, <2>2 DEF FindAvailableBays, ToldInv
    <3>2. freeBays'[r] = {} => BaysTaken(r)
      BY <1>0, <2>2 DEF FindAvailableBays, TypeOK, BaysTaken
    <3> QED
      BY <1>1, <1>4, <3>1, <3>2, TakenStays
  <2>3. CASE LockTech(r)
    BY <1>1, <1>2, <1>4, <2>3, TakenStays DEF LockTech, handler
  <2>4. CASE ~FindAvailableTechnicians(r) /\ ~FindAvailableBays(r) /\ ~LockTech(r)
    <3>1. stage'[r] # "techs" /\ answer'[r] # "full"
      <4>1. answer[r] = "none" \/ stage[r] = "done"
        BY <1>0, <1>4 DEF ToldInv
      <4>2. ASSUME NEW a \in {"ok", "error", "notFound", "notOwner", "past", "cancelled"},
                   Refuse(r, a) \/ Rollback(r, a) \/ Respond(r, a)
            PROVE  stage'[r] = "done" /\ answer'[r] = a
        BY <1>0, <4>2 DEF Refuse, Rollback, Respond, Goto, TypeOK
      <4>3. ASSUME NEW s \in {"save", "row", "bays", "commit", "mail", "watch"},
                   Goto(r, s), answer' = answer
            PROVE  stage'[r] = s
        BY <1>0, <4>3 DEF Goto, TypeOK
      <4> USE <4>1, <4>2, <4>3
      <4>4. CASE Fail(r)
        BY <4>4 DEF Fail
      <4>5. CASE Book(r)
        <5>1. PICK c \in Customers \cup {Missing}, v \in Vehicles \cup {Missing},
                   d \in Dealerships \cup {Missing}, s \in Services \cup {Missing},
                   start \in Starts :
                \E w : LET verdict == ResolveRequest(c, v, d, s, start)
                       IN  IF verdict = "ok" THEN Enter(r, w, "bays") ELSE Refuse(r, verdict)
          BY <4>5 DEF Book
        <5> QED
          BY <4>5, <5>1 DEF ResolveRequest, Enter, Book
      <4>6. CASE Cancel(r)
        BY <4>6 DEF Cancel, Enter
      <4>7. CASE Reschedule(r)
        BY <4>7 DEF Reschedule, RescheduleVerdict, Enter
      <4>8. CASE SaveOld(r) \/ LockRow(r)
        BY <4>8 DEF SaveOld, LockRow
      <4>9. CASE LockBay(r)
        BY <4>9 DEF LockBay, handler
      <4>10. CASE CommitBook(r) \/ CommitCancel(r) \/ CommitReschedule(r)
        BY <4>10 DEF CommitBook, CommitCancel, CommitReschedule
      <4>11. CASE SendMail(r) \/ TriggerWatchCheck(r)
        BY <4>11 DEF SendMail, TriggerWatchCheck
      <4> QED
        BY <2>4, <4>4, <4>5, <4>6, <4>7, <4>8, <4>9, <4>10, <4>11 DEF Act, Arrive, Proceed
    <3> QED
      BY <1>4, <3>1
  <2> QED
    BY <2>1, <2>2, <2>3, <2>4
<1> QED
  BY <1>3, <1>4

(* While nothing has been cancelled, a request is told that there is no    *)
(* room only if bookings that have committed take all of it: not because   *)
(* others held the locks, and not for those that were rolled back.         *)
THEOREM RefusedForWantOfRoom == Spec => []RejectedOnlyWhenFull
<1>1. Init => RoomInv
  BY DEF Init, RoomInv
<1>2. IInv /\ HInv /\ RoomInv /\ [Next]_vars => RoomInv'
  <2>1. ASSUME RoomInv, Tick \/ UNCHANGED vars PROVE RoomInv'
    <3>1. UNCHANGED <<appts, stage, work, freeBays, answer>>
      BY <2>1 DEF Tick, vars, database, handler
    <3> QED
      BY <2>1, <3>1 DEF RoomInv, AllConfirmed, Committed, Confirmed, BaysTaken, TechsTaken,
           CandBays, CandTechs, Visible, Start, End
  <2> QED
    BY <2>1, RoomStep DEF Next, Act
<1>3. RoomInv => RejectedOnlyWhenFull
  BY DEF RoomInv, AllConfirmed, BaysTaken, TechsTaken, RejectedOnlyWhenFull
<1> QED
  BY <1>1, <1>2, <1>3, Honesty, PTL DEF Spec

===============================================================================
