----------------------------- MODULE WatchesProofs -----------------------------
(***************************************************************************)
(* A customer is told once, and no watch is closed in silence: for any     *)
(* number of watches, jobs, cancellations, failures and ends of the        *)
(* process.                                                                *)
(***************************************************************************)
EXTENDS Watches, TLAPS

(* The worker holds at most one watch beside those it has to look at.      *)
WorkerInv ==
  /\ DOMAIN status = Watches
  /\ queued \in [Watches -> Nat] /\ repeats \in [Watches -> Nat]
  /\ workerAt \in {"mail", "mark"} => current \in Watches \ todo

(* The worker has queued the email of w and not marked it yet. *)
BetweenMailAndMark(w) == workerAt = "mark" /\ current = w

(* A watch that may still be emailed has had an email only from jobs that  *)
(* broke off.                                                              *)
MayBeMailed(w) ==
  \/ status[w] \in {"none", "ACTIVE"}
  \/ w \in todo
  \/ workerAt = "mail" /\ current = w

MailInv(w) ==
  /\ MayBeMailed(w) /\ ~BetweenMailAndMark(w) => queued[w] =< repeats[w]
  /\ queued[w] =< 1 + repeats[w]
  /\ status[w] = "NOTIFIED" \/ BetweenMailAndMark(w) => queued[w] > 0

NInv == WorkerInv /\ \A w \in Watches : MailInv(w)

-----------------------------------------------------------------------------
LEMMA InitNInv == Init => NInv
BY DEF Init, NInv, WorkerInv, MailInv, MayBeMailed, BetweenMailAndMark

LEMMA CustomerStep ==
  ASSUME NInv, NEW w \in Watches,
         Create(w) \/ Cancel(w) \/ Extend(w) \/ Take(w) \/ Send(w) \/ SendFails(w)
  PROVE  NInv'
<1>1. UNCHANGED <<workerAt, todo, current, queued, repeats>>
  BY DEF Create, Cancel, Extend, Take, Send, SendFails, worker, post
<1>2. /\ DOMAIN status' = Watches
      /\ \A v \in Watches : \/ status'[v] = status[v]
                            \/ status[v] = "none" /\ status'[v] = "ACTIVE"
                            \/ status'[v] = "CANCELLED"
  BY DEF NInv, WorkerInv, Create, Cancel, Extend, Take, Send, SendFails, world
<1>3. ASSUME NEW v \in Watches PROVE MailInv(v)'
  <2>1. MailInv(v)
    BY DEF NInv
  <2> QED
    BY <1>1, <1>2, <2>1 DEF MailInv, MayBeMailed, BetweenMailAndMark
<1> QED
  BY <1>1, <1>2, <1>3 DEF NInv, WorkerInv

LEMMA QueueStep ==
  ASSUME NInv, SweepAll \/ \E x \in Targets : Free(x) \/ Trigger(x)
  PROVE  NInv'
<1>1. UNCHANGED <<status, workerAt, todo, current, queued, repeats>>
  BY DEF Free, Trigger, SweepAll, worker, post, world
<1> QED
  BY <1>1 DEF NInv, WorkerInv, MailInv, MayBeMailed, BetweenMailAndMark

LEMMA WorkStep ==
  ASSUME NInv, Work
  PROVE  NInv'
<1>1. CASE TakeJob \/ EndJob
  <2>1. UNCHANGED <<status, todo, current, queued, repeats>> /\ workerAt \in {"idle", "find"}
        /\ workerAt' \in {"list", "idle"}
    BY <1>1 DEF TakeJob, EndJob, world, post
  <2> QED
    BY <2>1 DEF NInv, WorkerInv, MailInv, MayBeMailed, BetweenMailAndMark
<1>2. CASE FindActive
  <2>1. /\ UNCHANGED <<status, current, queued, repeats>>
        /\ workerAt = "list" /\ workerAt' = "find"
        /\ \A w \in todo' : status[w] = "ACTIVE"
    BY <1>2 DEF FindActive, world, post
  <2> QED
    BY <2>1 DEF NInv, WorkerInv, MailInv, MayBeMailed, BetweenMailAndMark
<1>3. ASSUME NEW w \in Watches, FindOpenSlotForWatch(w) PROVE NInv'
  <2>1. /\ UNCHANGED <<status, queued, repeats>>
        /\ workerAt = "find" /\ w \in todo /\ todo' = todo \ {w}
        /\ \/ current' = w /\ workerAt' = "mail"
           \/ UNCHANGED <<current, workerAt>>
    BY <1>3 DEF FindOpenSlotForWatch, world, post
  <2> QED
    BY <2>1 DEF NInv, WorkerInv, MailInv, MayBeMailed, BetweenMailAndMark
<1>4. CASE AddMail
  <2>1. /\ UNCHANGED <<status, todo, current, repeats>>
        /\ workerAt = "mail" /\ workerAt' = "mark" /\ current \in Watches \ todo
        /\ queued' = [queued EXCEPT ![current] = @ + 1]
    BY <1>4 DEF AddMail, world, NInv, WorkerInv
  <2>2. ASSUME NEW w \in Watches PROVE MailInv(w)'
    <3>1. MailInv(w) /\ queued[w] \in Nat /\ repeats[w] \in Nat
      BY DEF NInv, WorkerInv
    <3>2. CASE w = current
      BY <2>1, <3>1, <3>2 DEF NInv, WorkerInv, MailInv, MayBeMailed, BetweenMailAndMark
    <3>3. CASE w # current
      BY <2>1, <3>1, <3>3 DEF NInv, WorkerInv, MailInv, MayBeMailed, BetweenMailAndMark
    <3> QED
      BY <3>2, <3>3
  <2> QED
    BY <2>1, <2>2 DEF NInv, WorkerInv
<1>5. CASE MarkNotified
  <2>1. /\ UNCHANGED <<todo, queued, repeats>>
        /\ workerAt = "mark" /\ workerAt' = "find" /\ current \in Watches \ todo
        /\ status' = [status EXCEPT ![current] = "NOTIFIED"]
    BY <1>5 DEF MarkNotified, post, NInv, WorkerInv
  <2> QED
    BY <2>1 DEF NInv, WorkerInv, MailInv, MayBeMailed, BetweenMailAndMark
<1> QED
  BY <1>1, <1>2, <1>3, <1>4, <1>5 DEF Work

LEMMA InterruptStep ==
  ASSUME NInv, JobFails \/ Crash
  PROVE  NInv'
<1>1. /\ UNCHANGED <<status, queued>>
      /\ workerAt' = "idle" /\ todo' = {}
      /\ repeats' = IF workerAt = "mark" THEN [repeats EXCEPT ![current] = @ + 1] ELSE repeats
  BY DEF JobFails, Crash, Interrupt, world, post
<1>2. ASSUME NEW w \in Watches PROVE MailInv(w)'
  <2>1. MailInv(w) /\ queued[w] \in Nat /\ repeats[w] \in Nat
    BY DEF NInv, WorkerInv
  <2>2. CASE BetweenMailAndMark(w)
    <3>1. repeats'[w] = repeats[w] + 1
      BY <1>1, <2>2 DEF BetweenMailAndMark, NInv, WorkerInv
    <3> QED
      BY <1>1, <2>1, <2>2, <3>1 DEF MailInv, MayBeMailed, BetweenMailAndMark
  <2>3. CASE ~BetweenMailAndMark(w)
    <3>1. repeats'[w] = repeats[w]
      BY <1>1, <2>3 DEF BetweenMailAndMark, NInv, WorkerInv
    <3> QED
      BY <1>1, <2>1, <2>3, <3>1 DEF MailInv, MayBeMailed, BetweenMailAndMark
  <2> QED
    BY <2>2, <2>3
<1> QED
  BY <1>1, <1>2 DEF NInv, WorkerInv

LEMMA NextNInv ==
  ASSUME NInv, [Next]_vars
  PROVE  NInv'
<1>1. CASE UNCHANGED vars
  BY <1>1 DEF vars, NInv, WorkerInv, MailInv, MayBeMailed, BetweenMailAndMark
<1> QED
  BY <1>1, CustomerStep, QueueStep, WorkStep, InterruptStep DEF Next

(* What has been emailed, and who may still be: in every reachable state.  *)
THEOREM Notices == Spec => []NInv
<1>1. Init => NInv
  BY InitNInv
<1>2. NInv /\ [Next]_vars => NInv'
  BY NextNInv
<1> QED
  BY <1>1, <1>2, PTL DEF Spec

(* An email is repeated only for a job that broke off between the email    *)
(* and the mark.                                                           *)
THEOREM OneNotice == Spec => []ToldOnce
<1>1. NInv => ToldOnce
  BY DEF NInv, MailInv, ToldOnce
<1> QED
  BY <1>1, Notices, PTL

(* A watch is NOTIFIED only if an email was queued for it. *)
THEOREM NoSilentClose == Spec => []NotifiedAfterMail
<1>1. NInv => NotifiedAfterMail
  BY DEF NInv, MailInv, NotifiedAfterMail
<1> QED
  BY <1>1, Notices, PTL

-----------------------------------------------------------------------------
LEMMA StepLeavesAlone ==
  ASSUME NInv, Next, NEW w \in Watches, LeftAlone(w)
  PROVE  LeftAlone(w)' /\ queued'[w] = queued[w]
<1>0. status[w] = "CANCELLED" /\ w \notin todo /\ w # current /\ DOMAIN status = Watches
  BY DEF LeftAlone, NInv, WorkerInv
<1>1. ASSUME NEW v \in Watches,
             Create(v) \/ Cancel(v) \/ Extend(v) \/ Take(v) \/ Send(v) \/ SendFails(v)
      PROVE  LeftAlone(w)' /\ queued'[w] = queued[w]
  <2>1. UNCHANGED <<todo, current, queued>>
    BY <1>1 DEF Create, Cancel, Extend, Take, Send, SendFails, worker, post
  <2>2. status'[w] = "CANCELLED"
    BY <1>0, <1>1 DEF Create, Cancel, Extend, Take, Send, SendFails, world
  <2> QED
    BY <1>0, <2>1, <2>2 DEF LeftAlone
<1>2. CASE SweepAll \/ \E x \in Targets : Free(x) \/ Trigger(x)
  <2>1. UNCHANGED <<status, todo, current, queued>>
    BY <1>2 DEF Free, Trigger, SweepAll, worker, post, world
  <2> QED
    BY <1>0, <2>1 DEF LeftAlone
<1>3. CASE Work
  <2>1. CASE TakeJob \/ EndJob
    BY <1>0, <2>1 DEF TakeJob, EndJob, world, post, LeftAlone
  <2>2. CASE FindActive
    BY <1>0, <2>2 DEF FindActive, world, post, LeftAlone
  <2>3. ASSUME NEW v \in Watches, FindOpenSlotForWatch(v)
        PROVE  LeftAlone(w)' /\ queued'[w] = queued[w]
    BY <1>0, <2>3 DEF FindOpenSlotForWatch, world, post, LeftAlone
  <2>4. CASE AddMail
    <3>1. UNCHANGED <<status, todo, current>> /\ queued'[w] = queued[w]
      BY <1>0, <2>4 DEF AddMail, world, NInv, WorkerInv
    <3> QED
      BY <1>0, <3>1 DEF LeftAlone
  <2>5. CASE MarkNotified
    BY <1>0, <2>5, NoWatchAssumption DEF MarkNotified, post, LeftAlone
  <2> QED
    BY <1>3, <2>1, <2>2, <2>3, <2>4, <2>5 DEF Work
<1>4. CASE JobFails \/ Crash
  <2>1. UNCHANGED <<status, queued>> /\ todo' = {} /\ current' = NoWatch
    BY <1>4 DEF JobFails, Crash, Interrupt, world, post
  <2> QED
    BY <1>0, <2>1, NoWatchAssumption DEF LeftAlone
<1> QED
  BY <1>1, <1>2, <1>3, <1>4 DEF Next

(* A watch that is cancelled while the worker does not hold it is neither  *)
(* emailed nor marked any more, by whatever jobs are still in the queue.   *)
THEOREM CancelledStays == Spec => CancelledIsLeftAlone
<1>1. NInv /\ [Next]_vars =>
        [\A w \in Watches : LeftAlone(w) => LeftAlone(w)' /\ queued'[w] = queued[w]]_vars
  BY StepLeavesAlone
<1> QED
  BY <1>1, Notices, PTL DEF Spec, CancelledIsLeftAlone

-----------------------------------------------------------------------------
(* The types                                                               *)

(* A failure puts one job back at most, beside those that fit.             *)
CountInv ==
  /\ triggers \in 0..MaxTriggers /\ failures \in 0..MaxFailures
  /\ owed \in [Targets -> Nat] /\ \A x \in Targets : owed[x] =< triggers
  /\ queue \in Seq(Jobs) /\ job \in Jobs
  /\ Len(queue) =< MaxQueue + failures

(* What the worker still looks at is about its job, while it has one.      *)
HoldInv ==
  /\ status \in [Watches -> {"none", "ACTIVE", "NOTIFIED", "CANCELLED"}]
  /\ workerAt \in {"idle", "list", "find", "mail", "mark"}
  /\ workerAt \in {"idle", "list"} => todo = {}
  /\ todo \subseteq {w \in Watches : status[w] # "none" /\ Matches(w)}
  /\ current \in IF workerAt \in {"mail", "mark"} THEN Watches \ todo ELSE {NoWatch}

PostInv ==
  /\ open \subseteq Watches
  /\ mails \in [Watches -> Nat] /\ sent \in [Watches -> Nat]

LEMMA InitTypes == Init => CountInv /\ HoldInv /\ PostInv
<1> SUFFICES ASSUME Init PROVE CountInv /\ HoldInv /\ PostInv
  OBVIOUS
<1>1. Job(Sweep) \in Jobs /\ << >> \in Seq(Jobs) /\ Len(<< >>) = 0
  BY DEF Job, Jobs
<1> QED
  BY <1>1, BoundsAssumption DEF Init, CountInv, HoldInv, PostInv

LEMMA CountStep ==
  ASSUME CountInv, [Next]_vars
  PROVE  CountInv'
<1>0. MaxQueue \in Nat /\ MaxTriggers \in Nat /\ MaxFailures \in Nat
  BY BoundsAssumption
<1>1. CASE UNCHANGED <<owed, queue, job, triggers, failures>>
  BY <1>1 DEF CountInv
<1>2. ASSUME NEW x \in Targets, Free(x) PROVE CountInv'
  <2>1. /\ UNCHANGED <<queue, job, failures>> /\ triggers < MaxTriggers /\ triggers' = triggers + 1
        /\ owed' = [owed EXCEPT ![x] = @ + 1]
    BY <1>2 DEF Free, worker
  <2>2. owed' \in [Targets -> Nat] /\ \A y \in Targets : owed'[y] =< triggers + 1
    BY <2>1 DEF CountInv
  <2> QED
    BY <1>0, <2>1, <2>2 DEF CountInv
<1>3. ASSUME NEW x \in Targets, Trigger(x) PROVE CountInv'
  <2>1. /\ UNCHANGED <<job, triggers, failures>> /\ owed[x] > 0 /\ Len(queue) < MaxQueue
        /\ owed' = [owed EXCEPT ![x] = @ - 1]
        /\ queue' \in {queue, Append(queue, Job(x))}
    BY <1>3 DEF Trigger, worker, bounds
  <2>2. owed' \in [Targets -> Nat] /\ \A y \in Targets : owed'[y] =< triggers
    BY <2>1 DEF CountInv
  <2>3. Job(x) \in Jobs
    BY DEF Job, Jobs
  <2>4. queue' \in Seq(Jobs) /\ Len(queue') =< MaxQueue + failures
    <3>1. queue \in Seq(Jobs) /\ Len(queue) =< MaxQueue + failures /\ failures \in Nat
      BY DEF CountInv
    <3>2. Append(queue, Job(x)) \in Seq(Jobs) /\ Len(Append(queue, Job(x))) = Len(queue) + 1
      BY <2>3, <3>1
    <3>3. Len(queue) \in Nat /\ Len(queue) + 1 =< MaxQueue + failures
      BY <1>0, <2>1, <3>1
    <3> QED
      BY <2>1, <3>1, <3>2, <3>3
  <2> QED
    BY <2>1, <2>2, <2>4 DEF CountInv
<1>4. CASE SweepAll
  <2>1. /\ UNCHANGED <<owed, job, triggers, failures>> /\ Len(queue) < MaxQueue
        /\ queue' = Append(queue, Job(Sweep))
    BY <1>4 DEF SweepAll, worker, bounds
  <2>2. Job(Sweep) \in Jobs
    BY DEF Job, Jobs
  <2>3. queue' \in Seq(Jobs) /\ Len(queue') =< MaxQueue + failures
    BY <1>0, <2>1, <2>2 DEF CountInv
  <2> QED
    BY <2>1, <2>3 DEF CountInv
<1>5. CASE TakeJob
  <2>1. /\ UNCHANGED <<owed, triggers, failures>> /\ queue # << >>
        /\ job' = Head(queue) /\ queue' = Tail(queue)
    BY <1>5 DEF TakeJob, bounds
  <2>2. job' \in Jobs /\ queue' \in Seq(Jobs) /\ Len(queue') =< Len(queue)
    BY <2>1 DEF CountInv
  <2> QED
    BY <1>0, <2>1, <2>2 DEF CountInv
<1>6. CASE JobFails
  <2>1. UNCHANGED <<owed, queue, job, triggers>> /\ failures < MaxFailures /\ failures' = failures + 1
    BY <1>6 DEF JobFails, Interrupt
  <2> QED
    BY <1>0, <2>1 DEF CountInv
<1>7. CASE Crash
  <2>1. /\ UNCHANGED <<job, triggers>> /\ failures < MaxFailures /\ failures' = failures + 1
        /\ owed' = [x \in Targets |-> 0]
    BY <1>7 DEF Crash, Interrupt
  <2> DEFINE again == [job EXCEPT !.stalled = TRUE]
  <2>2. again \in Jobs
    BY DEF CountInv, Jobs
  <2>3. queue' = queue \/ queue' = <<again>> \o queue \/ queue' = Append(queue, again)
    BY <1>7 DEF Crash
  <2> HIDE DEF again
  <2>4. queue' \in Seq(Jobs) /\ Len(queue') =< Len(queue) + 1
    <3>1. <<again>> \in Seq(Jobs) /\ Len(<<again>>) = 1
      BY <2>2
    <3>2. <<again>> \o queue \in Seq(Jobs) /\ Len(<<again>> \o queue) = 1 + Len(queue)
      BY <3>1 DEF CountInv
    <3>3. Append(queue, again) \in Seq(Jobs) /\ Len(Append(queue, again)) = Len(queue) + 1
      BY <2>2 DEF CountInv
    <3>4. queue \in Seq(Jobs) /\ Len(queue) \in Nat
      BY DEF CountInv
    <3>5. ASSUME NEW q, q = queue', q \in Seq(Jobs), Len(q) \in Nat, Len(q) =< Len(queue) + 1
          PROVE  queue' \in Seq(Jobs) /\ Len(queue') =< Len(queue) + 1
      BY <3>5
    <3>6. CASE queue' = queue
      BY <3>4, <3>6
    <3>7. CASE queue' = <<again>> \o queue
      <4> DEFINE q == <<again>> \o queue
      <4>1. q = queue' /\ q \in Seq(Jobs) /\ Len(q) = 1 + Len(queue)
        BY <3>2, <3>7
      <4> HIDE DEF q
      <4> QED
        BY <3>4, <3>5, <4>1
    <3>8. CASE queue' = Append(queue, again)
      <4> DEFINE q == Append(queue, again)
      <4>1. q = queue' /\ q \in Seq(Jobs) /\ Len(q) = 1 + Len(queue)
        BY <3>3, <3>8, <3>4
      <4> HIDE DEF q
      <4> QED
        BY <3>4, <3>5, <4>1
    <3> QED
      BY <2>3, <3>6, <3>7, <3>8
  <2> QED
    BY <1>0, <2>1, <2>4 DEF CountInv
<1>8. ASSUME NEW w \in Watches, SendFails(w) PROVE CountInv'
  <2>1. UNCHANGED <<owed, queue, job, triggers>> /\ failures < MaxFailures /\ failures' = failures + 1
    BY <1>8 DEF SendFails, worker
  <2> QED
    BY <1>0, <2>1 DEF CountInv
<1> QED
  BY <1>1, <1>2, <1>3, <1>4, <1>5, <1>6, <1>7, <1>8
     DEF Next, Work, Create, Cancel, Extend, Take, Send, FindActive, FindOpenSlotForWatch, AddMail,
         MarkNotified, EndJob, vars, worker, bounds

LEMMA HoldStep ==
  ASSUME HoldInv, [Next]_vars
  PROVE  HoldInv'
<1>1. ASSUME NEW w \in Watches, Create(w) \/ Cancel(w) PROVE HoldInv'
  <2>1. UNCHANGED <<workerAt, job, todo, current>>
    BY <1>1 DEF Create, Cancel, worker
  <2>2. /\ status' \in [Watches -> {"none", "ACTIVE", "NOTIFIED", "CANCELLED"}]
        /\ \A v \in Watches : status[v] # "none" => status'[v] # "none"
    BY <1>1 DEF Create, Cancel, HoldInv
  <2> QED
    BY <2>1, <2>2 DEF HoldInv, Matches
<1>2. CASE UNCHANGED <<status, workerAt, job, todo, current>>
  BY <1>2 DEF HoldInv, Matches
<1>3. CASE TakeJob
  BY <1>3 DEF TakeJob, world, HoldInv, Matches
<1>4. CASE FindActive
  BY <1>4 DEF FindActive, world, HoldInv, Matches
<1>5. ASSUME NEW w \in Watches, FindOpenSlotForWatch(w) PROVE HoldInv'
  BY <1>5 DEF FindOpenSlotForWatch, world, HoldInv, Matches
<1>6. CASE AddMail
  BY <1>6 DEF AddMail, world, HoldInv, Matches
<1>7. CASE MarkNotified
  <2>1. /\ UNCHANGED <<job, todo>> /\ workerAt = "mark" /\ workerAt' = "find" /\ current' = NoWatch
        /\ status' = [status EXCEPT ![current] = "NOTIFIED"]
    BY <1>7 DEF MarkNotified
  <2>2. /\ status' \in [Watches -> {"none", "ACTIVE", "NOTIFIED", "CANCELLED"}]
        /\ \A v \in Watches : status[v] # "none" => status'[v] # "none"
    BY <2>1 DEF HoldInv
  <2> QED
    BY <2>1, <2>2 DEF HoldInv, Matches
<1>8. CASE EndJob
  BY <1>8 DEF EndJob, world, HoldInv, Matches
<1>9. CASE JobFails \/ Crash
  BY <1>9 DEF JobFails, Crash, Interrupt, world, HoldInv, Matches
<1> QED
  BY <1>1, <1>2, <1>3, <1>4, <1>5, <1>6, <1>7, <1>8, <1>9
     DEF Next, Work, Extend, Take, Send, SendFails, Free, Trigger, SweepAll, vars, worker, world

LEMMA PostStep ==
  ASSUME PostInv, HoldInv, [Next]_vars
  PROVE  PostInv'
<1>1. ASSUME NEW w \in Watches, Send(w) \/ SendFails(w) PROVE PostInv'
  BY <1>1 DEF Send, SendFails, world, PostInv
<1>2. CASE AddMail
  BY <1>2 DEF AddMail, world, PostInv, HoldInv
<1>3. CASE Crash
  BY <1>3 DEF Crash, world, PostInv
<1>4. ASSUME UNCHANGED <<mails, sent>>, open' \subseteq Watches PROVE PostInv'
  BY <1>4 DEF PostInv
<1> QED
  BY <1>1, <1>2, <1>3, <1>4
     DEF PostInv, Next, Work, Create, Cancel, Extend, Take, Free, Trigger, SweepAll, TakeJob, FindActive,
         FindOpenSlotForWatch, MarkNotified, EndJob, JobFails, vars, world, post

(* The worker holds watches of its job only, one at a time, and the queue  *)
(* outgrows its bound by the jobs put back after an end of the process.    *)
THEOREM WatchTypes == Spec => []WatchTypeOK
<1>1. CountInv /\ HoldInv /\ PostInv /\ [Next]_vars => CountInv' /\ HoldInv' /\ PostInv'
  BY CountStep, HoldStep, PostStep
<1>2. ASSUME CountInv, HoldInv, PostInv PROVE WatchTypeOK
  <2>1. owed \in [Targets -> 0..MaxTriggers] /\ Len(queue) =< MaxQueue + MaxFailures
    BY <1>2, BoundsAssumption DEF CountInv
  <2> QED
    BY <1>2, <2>1 DEF CountInv, HoldInv, PostInv, WatchTypeOK
<1> QED
  BY <1>1, <1>2, InitTypes, PTL DEF Spec

===============================================================================
