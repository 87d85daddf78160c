-------------------------------- MODULE Watches -------------------------------
(***************************************************************************)
(* Availability watches: a customer asks to be emailed when a slot opens.  *)
(* A cancellation or a move queues a targeted check, a cron queues a sweep *)
(* of all watches, and one worker takes the jobs of the queue in order: it *)
(* lists the active watches, looks for a slot for each one, queues an      *)
(* email and marks the watch NOTIFIED.  A second worker sends the emails.  *)
(* The queues are in Redis and outlive the process; a job that was being   *)
(* processed when it ended is taken again.                                 *)
(*                                                                         *)
(* Whether a watch has an open slot in its window is what SlotSearch       *)
(* computes; here it is a set that bookings and cancellations change.      *)
(***************************************************************************)
EXTENDS Integers, Sequences, FiniteSets

CONSTANTS
  Watches,       \* ids of availability watches
  Target,        \* watch -> [dealership, service], what it is for
  Sweep,         \* the job without dealership and service
  NoWatch,       \* the worker is between two watches
  MaxQueue,      \* bound: jobs that wait
  MaxTriggers,   \* bound: cancellations and moves
  MaxFailures    \* bound: failed jobs and ends of the process

ASSUME SweepAssumption == \A w \in Watches : Target[w] # Sweep
ASSUME NoWatchAssumption == NoWatch \notin Watches
ASSUME BoundsAssumption == {MaxQueue, MaxTriggers, MaxFailures} \subseteq Nat

VARIABLES
  status,    \* watch -> "none", "ACTIVE", "NOTIFIED" or "CANCELLED"
  open,      \* the watches with an open slot in their window
  owed,      \* target -> cancellations that committed and owe a check
  queue,     \* jobs of the queue availability-watch that wait
  workerAt,  \* "idle", "list", "find", "mail" or "mark"
  job,       \* the job that the worker has taken
  todo,      \* the candidates it has still to look at
  current,   \* the watch it has found a slot for, or NoWatch
  mails,     \* watch -> emails that wait in the queue mail
  sent,      \* watch -> emails that SMTP has accepted
  queued,    \* history: watch -> emails queued so far
  repeats,   \* history: watch -> times the job broke off between email and mark
  triggers,  \* how many cancellations and moves there were
  failures   \* how many failures

world   == <<status, open>>
worker  == <<workerAt, job, todo, current>>
post    == <<mails, sent, queued>>
bounds  == <<triggers, failures>>
vars    == <<status, open, owed, queue, workerAt, job, todo, current,
             mails, sent, queued, repeats, triggers, failures>>

Targets == {Target[w] : w \in Watches}

(* The data of a job, and whether the job has been stalled before. *)
Jobs == [of : Targets \cup {Sweep}, stalled : BOOLEAN]
Job(x) == [of |-> x, stalled |-> FALSE]

-----------------------------------------------------------------------------
(* Customers and the calendar                                              *)

Create(w) ==
  /\ status[w] = "none"
  /\ status' = [status EXCEPT ![w] = "ACTIVE"]
  /\ UNCHANGED <<open, owed, queue, worker, post, repeats, bounds>>

(* The status is overwritten whatever it was. *)
Cancel(w) ==
  /\ status[w] # "none"
  /\ status' = [status EXCEPT ![w] = "CANCELLED"]
  /\ UNCHANGED <<open, owed, queue, worker, post, repeats, bounds>>

(* A cancellation or a move frees a bay and a technician, which may open   *)
(* slots for any watch of the dealership, and will trigger a check of the  *)
(* service of the appointment only.                                        *)
Free(x) ==
  /\ triggers < MaxTriggers
  /\ \E ws \in SUBSET {w \in Watches : Target[w].dealership = x.dealership} :
       open' = open \cup ws
  /\ owed' = [owed EXCEPT ![x] = @ + 1]
  /\ triggers' = triggers + 1
  /\ UNCHANGED <<status, queue, worker, post, repeats, failures>>

(* A new bay, technician or skill opens slots, and triggers nothing. *)
Extend(w) ==
  /\ w \notin open
  /\ open' = open \cup {w}
  /\ UNCHANGED <<status, owed, queue, worker, post, repeats, bounds>>

(* A booking takes slots. *)
Take(w) ==
  /\ w \in open
  /\ open' = open \ {w}
  /\ UNCHANGED <<status, owed, queue, worker, post, repeats, bounds>>

(* triggerWatchCheck: queued, or lost when the 500 ms are over first. *)
Trigger(x) ==
  /\ owed[x] > 0
  /\ Len(queue) < MaxQueue
  /\ owed' = [owed EXCEPT ![x] = @ - 1]
  /\ queue' \in {queue, Append(queue, Job(x))}
  /\ UNCHANGED <<world, worker, post, repeats, bounds>>

(* The cron of WatchScheduler. *)
SweepAll ==
  /\ Len(queue) < MaxQueue
  /\ queue' = Append(queue, Job(Sweep))
  /\ UNCHANGED <<world, owed, worker, post, repeats, bounds>>

-----------------------------------------------------------------------------
(* WatchProcessor                                                          *)

TakeJob ==
  /\ workerAt = "idle"
  /\ queue # <<>>
  /\ job' = Head(queue)
  /\ queue' = Tail(queue)
  /\ workerAt' = "list"
  /\ UNCHANGED <<world, owed, todo, current, post, repeats, bounds>>

(* Here and below, the definitions whose name says what is wrong with them *)
(* are variants of the one that follows.                                   *)
MatchesOnlyItsTarget(w) == Target[w] = job.of
Matches(w) == job.of \in {Sweep, Target[w]}

FindAnyActive ==
  /\ workerAt = "list"
  /\ todo' = {w \in Watches : status[w] = "ACTIVE"}
  /\ workerAt' = "find"
  /\ UNCHANGED <<world, owed, queue, job, current, post, repeats, bounds>>

FindAllButCancelled ==
  /\ workerAt = "list"
  /\ todo' = {w \in Watches : status[w] \in {"ACTIVE", "NOTIFIED"} /\ Matches(w)}
  /\ workerAt' = "find"
  /\ UNCHANGED <<world, owed, queue, job, current, post, repeats, bounds>>

FindWhateverStatus ==
  /\ workerAt = "list"
  /\ todo' = {w \in Watches : status[w] # "none" /\ Matches(w)}
  /\ workerAt' = "find"
  /\ UNCHANGED <<world, owed, queue, job, current, post, repeats, bounds>>

FindActive ==
  /\ workerAt = "list"
  /\ todo' = {w \in Watches : status[w] = "ACTIVE" /\ Matches(w)}
  /\ workerAt' = "find"
  /\ UNCHANGED <<world, owed, queue, job, current, post, repeats, bounds>>

(* findOpenSlotForWatch: with no slot the loop goes on to the next one. *)
FindOpenSlotForWatch(w) ==
  /\ workerAt = "find"
  /\ w \in todo
  /\ todo' = todo \ {w}
  /\ IF w \in open
     THEN current' = w /\ workerAt' = "mail"
     ELSE UNCHANGED <<current, workerAt>>
  /\ UNCHANGED <<world, owed, queue, job, post, repeats, bounds>>

MarkFirst ==
  /\ workerAt = "mail"
  /\ status' = [status EXCEPT ![current] = "NOTIFIED"]
  /\ workerAt' = "mark"
  /\ UNCHANGED <<open, owed, queue, job, todo, current, post, repeats, bounds>>

AddMail ==
  /\ workerAt = "mail"
  /\ mails' = [mails EXCEPT ![current] = @ + 1]
  /\ queued' = [queued EXCEPT ![current] = @ + 1]
  /\ workerAt' = "mark"
  /\ UNCHANGED <<world, owed, queue, job, todo, current, sent, repeats, bounds>>

(* An UPDATE by id: the status is overwritten whatever it was. *)
MarkNotified ==
  /\ workerAt = "mark"
  /\ status' = [status EXCEPT ![current] = "NOTIFIED"]
  /\ current' = NoWatch
  /\ workerAt' = "find"
  /\ UNCHANGED <<open, owed, queue, job, todo, post, repeats, bounds>>

EndJob ==
  /\ workerAt = "find"
  /\ todo = {}
  /\ workerAt' = "idle"
  /\ UNCHANGED <<world, owed, queue, job, todo, current, post, repeats, bounds>>

Interrupt ==
  /\ failures < MaxFailures
  /\ failures' = failures + 1
  /\ workerAt' = "idle"
  /\ todo' = {}
  /\ current' = NoWatch
  /\ repeats' = IF workerAt = "mark" THEN [repeats EXCEPT ![current] = @ + 1] ELSE repeats

(* A query or a queue fails: the job is not tried again, since its options *)
(* name no attempts, and the rest of its watches is not looked at.         *)
JobFails ==
  /\ workerAt # "idle"
  /\ Interrupt
  /\ UNCHANGED <<world, owed, queue, job, post, triggers>>

(* The process ends: the checks still owed are lost.  The job that was     *)
(* taken is found to be stalled and goes back to the queue, once, before   *)
(* or after the jobs that wait; so does an email that SMTP may already     *)
(* have accepted.                                                          *)
Crash ==
  /\ Interrupt
  /\ owed' = [x \in Targets |-> 0]
  /\ LET again == [job EXCEPT !.stalled = TRUE]
     IN  queue' \in IF workerAt = "idle" \/ job.stalled THEN {queue}
                    ELSE {<<again>> \o queue, Append(queue, again)}
  /\ sent' \in {sent} \cup {[sent EXCEPT ![w] = @ + 1] : w \in {x \in Watches : mails[x] > 0}}
  /\ UNCHANGED <<world, job, mails, queued, triggers>>

-----------------------------------------------------------------------------
(* MailProcessor                                                           *)

Send(w) ==
  /\ mails[w] > 0
  /\ mails' = [mails EXCEPT ![w] = @ - 1]
  /\ sent' = [sent EXCEPT ![w] = @ + 1]
  /\ UNCHANGED <<world, owed, queue, worker, queued, repeats, bounds>>

(* SMTP refuses: the job names no attempts, so that was its only one. *)
SendFails(w) ==
  /\ failures < MaxFailures
  /\ mails[w] > 0
  /\ mails' = [mails EXCEPT ![w] = @ - 1]
  /\ failures' = failures + 1
  /\ UNCHANGED <<world, owed, queue, worker, sent, queued, repeats, triggers>>

-----------------------------------------------------------------------------
Init ==
  /\ status = [w \in Watches |-> "none"]
  /\ open \in SUBSET Watches
  /\ owed = [x \in Targets |-> 0]
  /\ queue = <<>>
  /\ workerAt = "idle"
  /\ job = Job(Sweep)
  /\ todo = {}
  /\ current = NoWatch
  /\ mails = [w \in Watches |-> 0]
  /\ sent = [w \in Watches |-> 0]
  /\ queued = [w \in Watches |-> 0]
  /\ repeats = [w \in Watches |-> 0]
  /\ triggers = 0
  /\ failures = 0

Work ==
  \/ TakeJob \/ FindActive \/ AddMail \/ MarkNotified \/ EndJob
  \/ \E w \in Watches : FindOpenSlotForWatch(w)

Next ==
  \/ \E w \in Watches : Create(w) \/ Cancel(w) \/ Extend(w) \/ Take(w)
                         \/ Send(w) \/ SendFails(w)
  \/ \E x \in Targets : Free(x) \/ Trigger(x)
  \/ SweepAll \/ Work \/ JobFails \/ Crash

Spec == Init /\ [][Next]_vars

(* The cron keeps firing, and both workers keep working. *)
FairSpec ==
  /\ Spec
  /\ WF_vars(Work)
  /\ SF_vars(SweepAll)
  /\ \A w \in Watches : WF_vars(Send(w))

-----------------------------------------------------------------------------
(* Properties                                                              *)

(* The worker looks at existing watches that its job is about, one at a    *)
(* time.                                                                   *)
WatchTypeOK ==
  /\ status \in [Watches -> {"none", "ACTIVE", "NOTIFIED", "CANCELLED"}]
  /\ open \subseteq Watches /\ owed \in [Targets -> 0..MaxTriggers]
  /\ queue \in Seq(Jobs) /\ Len(queue) =< MaxQueue + MaxFailures
  /\ workerAt \in {"idle", "list", "find", "mail", "mark"}
  /\ job \in Jobs
  /\ todo \subseteq {w \in Watches : status[w] # "none" /\ Matches(w)}
  /\ current \in IF workerAt \in {"mail", "mark"} THEN Watches \ todo ELSE {NoWatch}
  /\ \A w \in Watches : mails[w] \in Nat /\ sent[w] \in Nat

(* A customer is told once: a watch is emailed a second time only if a job *)
(* broke off after the first email and before the mark.                    *)
ToldOnce == \A w \in Watches : queued[w] =< 1 + repeats[w]

(* A cancelled watch that the worker does not hold is left alone for ever: *)
(* a cancellation is overtaken by no job but the one that runs already.    *)
LeftAlone(w) == status[w] = "CANCELLED" /\ w \notin todo /\ w # current

CancelledIsLeftAlone ==
  [][\A w \in Watches : LeftAlone(w) => LeftAlone(w)' /\ queued'[w] = queued[w]]_vars

(* No watch is closed in silence: one that is NOTIFIED has had an email    *)
(* queued, whatever failed meanwhile.                                      *)
NotifiedAfterMail == \A w \in Watches : status[w] = "NOTIFIED" => queued[w] > 0

(* "This guarantees eventual delivery": an active watch whose slot stays   *)
(* open is notified in the end, although checks are lost, are for another  *)
(* service, or fail.                                                       *)
EventuallyNotified ==
  \A w \in Watches :
    (status[w] = "ACTIVE" /\ w \in open) ~> (status[w] # "ACTIVE" \/ w \notin open)

(* "Email user, mark watch NOTIFIED": the email of a notified watch gets   *)
(* to SMTP in the end.                                                     *)
EventuallySent == \A w \in Watches : status[w] = "NOTIFIED" ~> sent[w] > 0

===============================================================================
