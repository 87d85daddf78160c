# Keyloop scenario A: the appointment service in TLA+

The repository is a NestJS API for car dealerships: customers book service
appointments, and an appointment takes one service bay and one technician for
its whole window. MySQL is the source of truth, Redis holds a cache and the
BullMQ queues, and two workers in the same process send emails and tell
customers of slots that open. These modules model the parts in which the order
of steps matters. TLC checks them on small instances. TLAPS proves every safety
property that the passing runs check, of the booking core and of all the modules
around it, for any number of requests, rows and jobs; liveness is model-checked.

Paths below are relative to the repository; `AS`, `AV` and `AW` stand for
`appointments.service.ts`, `availability.service.ts` and
`availability-watch.service.ts` in `src/modules/appointments/application/`.

## 1. The system

| Component | State | Operations | Hard behaviours | What makes it correct |
|---|---|---|---|---|
| Booking core (`AS`) | rows of `appointments`, InnoDB row locks | `book`, `cancel`, `reschedule`, the customer variants that check the owner first | transactions interleave at every query; locks are taken row by row; any call can fail; side effects run after the commit | no double booking; no deadlock; a move is all or nothing; the answer is true; nothing is announced that was rolled back |
| Availability rules (`AV`) | none | overlap, capability, skill and shift tests; candidate and busy queries | minute granularity, midnight, half-open windows | a chosen bay and technician are able, on shift and free |
| Slot search (`AV` `findOpenSlots`) | two maps of busy intervals in memory | two queries, one loop | commits between the queries; appointments that stick out of the window | no open slot missed, none invented |
| Availability cache (`cache.service.ts`, `cache-keys.ts`, `redis.module.ts`) | Redis keys with a time to live | `wrap`, `set`, `delByPrefix` | a fill races an invalidation; SCAN and DEL in batches; Redis fails or is away | bounded staleness; the API works without Redis |
| Availability watches (`AW`, `watch.processor.ts`, `watch.scheduler.ts`) | rows of `availability_watches`, the queue `availability-watch` | create, cancel, triggered check, a sweep every five minutes, the worker's loop | lost triggers, failed and stalled jobs, crash between email and mark | told once; never closed in silence; told in the end |
| Emails (`mail.processor.ts`, `mail.service.ts`) | the queue `mail` | add, process, SMTP | SMTP refuses, attempts run out | an email that was promised is sent |
| Resource administration (dealerships, bays, technicians, service types, skills, capabilities) | six tables and their join tables | create, update, delete; reads change nothing | edits in several statements without a transaction race each other and bookings; `save` reads the row again, and inserts one that is gone; deletes cascade | no appointment rests on a row that is gone; what is booked fits unless an edit raced it; an edit undoes only what raced it |
| Privileges (`admin-privileges`, `admin-groups`, `admins`, guards, JWT strategy) | administrators, groups, privileges, the cache `privileges:` | create, update, delete; the guards of every route | a cached privilege after a revocation; a load that races a change; an invalidation that fails | the guard follows the rows but for pending, failed and overtaken invalidations |
| Customers and authentication | `customers`, the tokens signed | register, login | two registrations of one email | one account per email, and no token without one |
| HTTP layer, configuration, health, seed | none that changes | - | - | - |

How they meet: `book`, `cancel` and `reschedule` call the availability rules
inside their transaction, drop the namespace `availability:` of the cache, and
add jobs to both queues. The probe and the slots endpoint read through the
cache and compute with the rules, without locks. The watch worker calls
`findOpenSlots` for every active watch and adds emails. The administration
services write the rows that the rules read and drop the same namespace. The
guards stand before all of them and read privileges through the cache too. Every
query is a suspension point of Node, so that two requests interleave between
any two of their queries; between two `await`s nothing else of the process runs.

The hazards, with the lines where they bite and the properties about them, are
listed in `PROJECT.json`.

## 2. The modules

| Module | Models | Composed with |
|---|---|---|
| `Availability` | the pure rules of `AV` over CONSTANT bays, technicians and services | used by all below that need them |
| `Calendar` | abstract: a set of appointments with atomic `Reserve`, `Release`, `Move` | `Availability` |
| `Booking` | `book`, `cancel`, `reschedule`, one action per database call | implements `Calendar` |
| `SlotSearch` | `findOpenSlots`, its two queries and its loop, against commits of the calendar | uses `Calendar`'s state and `Fits` |
| `AvailabilityCache` | `wrap` and `delByPrefix` over Redis, and the changes that invalidate | - |
| `Watches` | watches, their queue and worker, the sweep, the emails | - |
| `Repository` | what TypeORM's `save` and the foreign keys do to rows (external) | used by the next two |
| `Resources` | create, update and delete of all six tables of reference data, beside `book` | `Repository`, and `Availability` over the rows of now |
| `Routes` | every route of the controllers with its guards | used by `Accounts` |
| `Accounts` | guards, cached privileges, registration, login, administrators, groups and privileges | `Repository`, `Routes` |
| `CalendarProofs`, `BookingProofs`, `OutcomeProofs`, `SlotSearchProofs`, `CacheProofs`, `WatchesProofs`, `ResourcesProofs`, `AccountsProofs` | the theorems | each extends the module it is about; `OutcomeProofs` extends `BookingProofs`, and `SlotSearchProofs` extends `CalendarProofs` |
| `MCBooking`, `MCSlotSearch`, `MCAvailabilityCache`, `MCWatches`, `MCResources`, `MCAccounts` | instances for TLC | |

### Availability

Time is counted in ticks, `TicksPerMinute` to a minute and `MinutesPerDay` to a
day, so that what the code cuts off (`getUTCMinutes` drops seconds) is cut off
here too. `TechnicianOnShift` compares whole minutes and days as the code does;
`Occupies` is the WHERE clause of `busyResourceIds`.

### Booking

A request is a process. `stage[r]` is the next database call of its handler:

| stage | code | action |
|---|---|---|
| `new` | the request arrives: lookups and early returns of `resolveRequest`, of the owner check, of the reads at the head of `reschedule` | `Arrive` = `Book`, `Cancel` or `Reschedule` |
| `save` | the `save` of the old appointment, `AS` 490-493 | `SaveOld` |
| `row` | its UPDATE waits for the row lock of the appointment | `LockRow` |
| `bays` | `SELECT ... FOR UPDATE ORDER BY id` on the capable bays, then the busy query | `LockBay` for each row, then `FindAvailableBays` |
| `techs` | the same for technicians | `LockTech`, `FindAvailableTechnicians` |
| `commit` | the INSERT and COMMIT | `CommitBook`, `CommitCancel`, `CommitReschedule` |
| `mail`, `watch` | the side effects after the commit | `SendMail`, `TriggerWatchCheck` |
| `done` | the answer is with the client | |

`Fail` is a query, a connection or the process that fails at any stage: before
the commit it rolls back. A request inserts at most one appointment, so the
request is also the appointment's id. Uncommitted writes are not in `appts`;
`Visible(r)` is what the transaction reads under READ COMMITTED, the isolation
level the code asks for, which is what makes a transaction that has waited for a
lock see what the winner wrote. `cancel` runs at the default level; it reads one
row and updates it, and the two levels differ in nothing the model shows.

The row of the vehicle is checked on entry and not kept. Reference data does not
change during a behaviour of `Booking`; in `Resources` it does, beside bookings. Invalidating the cache inside the
transaction changes no row and is modelled in `AvailabilityCache`.

### Calendar

The promise of the booking core to its clients: an appointment is entered, closed
or replaced in one step, and only where it fits. `ImplementsCalendar` instantiates
it with `appts` itself, so that every step of the detailed model has to be one of
these or leave `appts` alone. `InShift` bounds the window of an entry by the shift of
its technician.

### SlotSearch

`QueryTechs`, `QueryBays` and `TrySlot` are the two queries and one turn of the
loop, with `CommitElsewhere` between any two of them: an appointment that fits is
entered, closed or moved. `steady` is history: the slots that were open at every
moment from the first query to the second. `OpenSlots` says what an open slot is in
moments of time, and `Bookable` what `book` would take, which compares minutes as the
code does: the two differ by the grace of `ShiftContains`, less than a minute, and at
midnight. The properties relate the loop to one or the other.

### AvailabilityCache

What a loader computes depends on the changes it could read, so a cached value is
the set of changes that both of its queries saw. `Kinds` are the two orders found
in the code: commit, then invalidate (`book`, and every edit of a resource), and
invalidate, then commit (`cancel`, `reschedule`). A Redis call that fails is
swallowed, as in the code; one that is made while Redis is away waits, because
`maxRetriesPerRequest` is null and the offline queue is on.

### Watches

`Free`, `Extend` and `Take` are what the rest of the system does to the set of
open slots. A cancellation frees a bay and a technician, hence slots of any
service at the dealership, and triggers a check for its own service only. The
worker's job is `list`, then per candidate `find`, `mail`, `mark`. BullMQ is
modelled from how it is used: concurrency one, no attempts, and a job of a process
that ended is stalled and processed once more. `CancelWatch` can come between any
two of the worker's steps, as `AW` saves whatever row it has read.

### Repository

A database is a record of tables, a table a function from ids to rows, and a field
that refers to a table is named after it. `save` of an entity that was read earlier
reads its row again, writes the columns and the join rows that differ, and inserts a
row that is gone under its old id. DELETE takes the join rows of either end with it.
`IsRow` says that a row has the columns of its table, with values of their types. Of
this only the columns are in the repository; the rest is TypeORM and MySQL as the
code uses them.

### Resources

A request is an edit or a booking, and `at[r]` is its next statement:

| `at` | code | action |
|---|---|---|
| `new` | `create`, `update`, `remove` of a service, or `book`: `requireOne` and the checks before the first suspension | `Arrive`, one disjunct per operation and table |
| `capabilities`, `skills` | `resolveByIds` | `ResolveByIds` |
| `insert`, `find`, `write` | the parts of `save` | `Insert`, `Find`, `Write` |
| `count` | the count of appointments before a delete | `Count` |
| `remove`, `cascade` | DELETE; the rows of a dealership go with it | `Remove`, `Cascade` |
| `readBays`, `lockBays`, `readTechs`, `lockTechs`, `book` | the transaction of `book`: candidates, row locks, busy query, INSERT | `ReadBays`, `LockRow`, `FindAvailableBays`, ..., `InsertAppointment` |

Only `book` has a transaction, so that only its locks, and those of the cascade,
last longer than a statement. `Wanted` is the set of rows a statement has to lock,
foreign keys included. `book` is coarser here than in `Booking` (no cancellation, no
side effects, no clock) and finer in that candidates are a list that can be stale.
`raced` and `revived` are history: an edit was committed while the request ran, and
the rows that were deleted and inserted again. What a client may send is a constant,
and `BodiesAssumption` says what the DTOs let through: a body that creates has the
columns of the table, one that updates has some of them and never `dealershipId`, so
that no row moves to another dealership.

### Accounts

`Arrive` is the JWT strategy and the guards by kind of account, `CacheHit`,
`CacheMiss`, `Load` and `Store` are `effectivePrivileges` through the cache, and
`handler` is where the handler of the route begins. Then come the statements, as in
`Resources`, and `Scan`, `DropKey` and `Dropped` are the invalidations. `excused` is
history: the keys that may be stale until they expire, because a load was overtaken
by the change or the invalidation failed. A route of another component is answered at
once (`Elsewhere`). A code of a privilege is any string, as in `CreatePrivilegeDto`;
`CodesAssumption` in `Routes` says that the routes ask for the codes of
`privilege-codes.ts` and no others.

## 3. What TLC checks

| Run | Instance and bounds | Shows |
|---|---|---|
| `booking_safety` | 3 requests of any kind, 2 dealerships, 3 bays, 2 technicians, 2 services, starts {1, 3}, two ticks to a minute, a shift that ends early, one tick of the clock, symmetric requests | `NoDoubleBooking`, `LockOrder`, `NoWaitCycle`, `AnswerHonest`, `MoveAllOrNothing`, `JobsFollowCommit`, `RejectedOnlyWhenFull`, `WithinShift`, `ImplementsCalendar`, `TypeOK`, and `IInv`, the invariant of the proofs |
| `booking_answered` | 3 requests, one service, `FairSpec` | every request is answered |
| `slot_search` | 3 appointments starting at ticks 18 or 26, a window from tick 19 to 26, 2 services, overlapping shifts, `FairSearchSpec` | `NothingMissed`, `NothingInvented`, `ExactWhenQuiet`, `SearchEnds` |
| `cache` | 2 readers, 1 change, 2 keys, `FairSpec` | `InvalidatedAfterBooking`, `CoherentInTheEnd`, `Served` |
| `watches` | 2 watches of one dealership and two services, 1 trigger, 1 failure, a queue of one, `FairSpec` | `ToldOnce`, `NotifiedAfterMail`, `CancelledIsLeftAlone`, `EventuallyNotified` |
| `resources` | 2 requests that edit (one of 14 or 20 edits) or book, and 1 that books; 2 dealerships, 3 bays, 2 technicians, 2 services, 2 capabilities, 1 skill, `FairSpec` | `NothingDangles`, `NoDoubleBookingUnlessRevived`, `FitUnlessRaced`, `OnlyTheRacedIsUndone`, `TagRemovalOnlyWidens`, `Answered` |
| `accounts` | 2 requests with one of 13 edits of accounts, or a probe, and 1 that probes the guards or logs in; 2 administrators, 3 groups, 3 privileges | `NothingDangles`, `OneAccountPerEmail`, `GuardFollowsTheRows` |

and the runs in which TLC finds that the code does not do what a comment or a
document says; section 4 tells what they show.

Why these bounds are enough to be interesting:

* Three requests are what a booking needs to race a reschedule of an appointment
  that a third one booked, and what a wait cycle of three needs. The windows of
  starts 1 and 3 overlap for the longer service (4 ticks) and touch for the shorter one
  (2 ticks), and both begin in the middle of a minute, so that cutting off seconds shows.
  Bay 1 belongs to a dealership without technicians, so that a request can pass
  the bays and fail at the technicians. Service `tyre` needs bay 3 and technician
  2, which `oil` can also take: the competition is asymmetric.
* `MaxTime` bounds the clock; one tick is enough to make a start past.
* In `slot_search`, an appointment at 26 starts after the window (19 to 25) and
  overlaps its last slot, from 23 to 27: it is seen only if the query looks beyond the
  window. Slots are tried every 4 ticks from the middle of a minute on, so that seconds
  are cut off at the end of a shift, and an appointment at 18 begins between them.
  Commits stop when the search is done, since they can change nothing it returned.
* In `cache`, two keys let a SCAN take two batches and a DEL fail between them;
  `TTL` is one tick, and a tick can fall anywhere.
* In `resources`, bay 2 alone has what a tyre change needs, and all bays what an oil
  change needs, so that an edit of a capability changes who is able in both
  directions. The edits of one request include two fields of one row, so that two
  updates can undo each other, and the creation of rows that refer to a row another
  request deletes. Two editing requests and a booking are what it takes to find a row
  gone, revived or changed between two statements; ids 11 to 13 are those of new rows.
* In `accounts`, administrator 2 manages bays through group 2. Each way to change that
  is an edit: the group's privileges, the administrator's group, the deletion of the
  administrator or the privilege. Request 22 can pass the guard itself, to load
  and store beside request 23. Two of the requests can register the same email.
* `MaxQueue`, `MaxTriggers` and `MaxFailures` bound `Watches`. One failure is
  enough to lose a check, a job or an email or to end the process; the sweep then
  has to make up for it.

Each property of a passing run is listed with a mutant of a mapped definition
that breaks it: a dropped guard, a missing release, a wrong order. These variants
stand beside the definition they spoil, under a name that says what is wrong.

CHECK_DEADLOCK is off where the system may stop: every request of `Booking`,
`Resources` or `Accounts` is answered, or the slot search is done. `AvailabilityCache` and `Watches` never stop.

### Fairness

* `Booking!FairSpec`: weak fairness of each request's `Proceed`, i.e. every query
  and every queue call that can return does, and InnoDB grants a free lock.
  Nothing is assumed of arrivals, failures or the clock.
* `SlotSearch!FairSearchSpec`: weak fairness of the search's own steps.
* `AvailabilityCache!FairSpec`: the readers' and changes' calls are strongly fair,
  because ioredis keeps a command and sends it again when the connection is back,
  so a command is not starved by a Redis that comes and goes. The clock is weakly
  fair. That Redis comes back is an assumption about operations, stated only in
  `FairSpec`: without it `Served` is false, since commands wait for the connection.
* `Watches!FairSpec`: the worker and the mailer keep working (weak). The sweep is
  strongly fair, as a cron fires for ever and the real queue has no bound: the
  guard on `MaxQueue` is ours. Failures are finitely many by `MaxFailures`;
  with unbounded failures nothing could be promised.
* `Resources!FairSpec`: weak fairness of each request's `Proceed`, which includes that
  InnoDB rolls back a victim when transactions wait in a circle. A dealership's
  deletion and a booking can wait for each other, and `Answered` is about that.
* `Accounts` states safety only, and no fairness.

## 4. Where the code and its documents disagree

Each is the counterexample of a run; the entries in `PROJECT.json` quote the line.

1. `booking_two_moves`: `reschedule` tests the status of an appointment it has read
   without a lock. Two reschedules that both read it before either commits both
   succeed, and one appointment has two successors. No resource is double-booked.
2. `slot_midnight`: a window that ends at midnight exactly ends "on another day",
   and the last slot of a shift until minute 1440 is refused, although 1440 is
   accepted as the end of a shift.
3. `cache_cancel`: `cancel` and `reschedule` invalidate before they commit, so that
   a probe in between stores the old availability again.
4. `watches_sent`: the email of a watch has a single attempt; if SMTP refuses it,
   the watch is NOTIFIED and nobody tells the customer.
5. `resources_revived`: a bay is deleted, and inserted again by the `save` of an update
   that had read it before. A booking that locks its candidates in between has locked
   no row for it, and the bay is double-booked.

Others that the models have as behaviours and no run is spent on:

* a reschedule can follow a cancellation that committed after its status test, and
  book again what the customer has given up (the cause is that of 1);
* a window may end up to a minute after the shift, since seconds are cut off
  (`WithinShift` says how far it can go);
* cache calls wait while Redis is away, where the service means to fall back on the
  database (the assumption on Redis in `FairSpec` is about that);
* a request that waits for locks may commit an appointment whose start has passed;
* a watch that is cancelled while the worker holds it becomes NOTIFIED;
* two updates of one row, each from what it read first, undo each other, and an update
  undoes a delete (`OnlyTheRacedIsUndone` says that nothing else is undone);
* a privilege that a group is given between the check and the delete is silently lost
  to the group.

## 5. What is proved

`tlapm` checks all of the following, with no step left open. The sets of requests,
bays, technicians, services, readers, changes, keys and watches are arbitrary and,
but for the tables of bays and technicians, may be infinite. The assumptions are named
in the modules and TLC evaluates them in the runs:

* `Availability`: ids of bays and technicians are naturals (`ResourcesAssumption`),
  shifts are given in naturals (`ShiftsAssumption`), services have a positive natural
  duration (`ServicesAssumption`), the units of the clock are positive
  (`ClockAssumption`);
* `Booking`: `NoOwner`, `NoAppt` and `NoWork` are none of the values they stand in for
  (`RequestsAssumption`, `MarkersAssumption`), starts are naturals (`StartsAssumption`);
  a table has finitely many rows (`TablesAssumption`, for `NoDeadlock` alone);
* `SlotSearch`: starts and the window are naturals and the step is positive
  (`SearchAssumption`); `NoSlotMissed` has the hypothesis `NoLateShift`, that no shift
  lasts until midnight, and is false without it: that is the run `slot_midnight`;
* `AvailabilityCache`: the time to live is positive (`TTLAssumption`);
* `Watches`: `NoWatch` is none of the watches (`NoWatchAssumption`), the bounds are
  naturals (`BoundsAssumption`); `SweepAssumption` is used by no proof;
* `Resources` and `Accounts`: ids of new rows are new and `NoOrder` is no order
  (`IdsAssumption`); at first rows have the columns of their tables, refer to rows that
  are there, and the emails of the customers are unique (`InitialAssumption`); bodies are
  validated, with `whitelist` and `forbidNonWhitelisted`, before a handler runs, and
  every order is of some route (`BodiesAssumption`);
* `Routes`: `CodesAssumption`, which no proof uses.

| Theorem | Says |
|---|---|
| `BookingProofs!Invariance` | `IInv` holds in every reachable state |
| `BookingProofs!TypeCorrect` | `TypeOK` |
| `BookingProofs!GlobalLockOrder` | `LockOrder`: appointment, bays, technicians, each by id |
| `BookingProofs!Refinement` | `Booking` implements `Calendar` |
| `BookingProofs!NeverDoubleBooked` | `NoDoubleBooking` |
| `CalendarProofs!CalendarNoOverlap` | the calendar holds no two overlapping entries on one bay or technician |
| `CalendarProofs!CalendarInShift` | `WithinShift` of the calendar, for any units of the clock |
| `BookingProofs!WindowsInShift` | `WithinShift` of `Booking`, through the refinement |
| `BookingProofs!NoDeadlock` | `NoWaitCycle`: no circle of waiting transactions, of any length |
| `OutcomeProofs!HonestAnswers` | `AnswerHonest`: what a client is told is what happened |
| `OutcomeProofs!JobsAfterCommit` | `JobsFollowCommit`: no job speaks of what can be rolled back |
| `OutcomeProofs!MovesAreAtomic` | `MoveAllOrNothing` |
| `OutcomeProofs!RefusedForWantOfRoom` | `RejectedOnlyWhenFull` |
| `SlotSearchProofs!SearchInvariance`, `SearchTypes` | `SInv`, `SearchTypeOK` |
| `SlotSearchProofs!SearchAgreesWithBook` | `ExactWhenQuiet` |
| `SlotSearchProofs!NoSlotInvented` | `NothingInvented` |
| `SlotSearchProofs!NoSlotMissed` | `NothingMissed`, where no shift lasts until midnight |
| `CacheProofs!BookingsInvalidate` | `InvalidatedAfterBooking` |
| `CacheProofs!CacheTypes` | `CacheTypeOK` |
| `WatchesProofs!OneNotice` | `ToldOnce` |
| `WatchesProofs!NoSilentClose` | `NotifiedAfterMail` |
| `WatchesProofs!CancelledStays` | `CancelledIsLeftAlone`, an action property |
| `WatchesProofs!WatchTypes` | `WatchTypeOK`, with the bound on the queue |
| `ResourcesProofs!ResourcesRefer` | `NothingDangles` of `Resources` |
| `ResourcesProofs!ResourcesTypes` | `ResourcesTypeOK`, with what locks say of rows |
| `ResourcesProofs!NoDoubleBookingBesideEdits` | `NoDoubleBookingUnlessRevived` |
| `ResourcesProofs!AppointmentsFit` | `FitUnlessRaced`, an action property |
| `ResourcesProofs!OnlyTheRacedAreUndone` | `OnlyTheRacedIsUndone`, an action property |
| `ResourcesProofs!TagsOnlyWiden` | `TagRemovalOnlyWidens`, an action property |
| `AccountsProofs!OneAccount` | `OneAccountPerEmail` |
| `AccountsProofs!ReferencesHold` | `NothingDangles` of `Accounts` |
| `AccountsProofs!AccountsTypes` | `AccountsTypeOK` |
| `AccountsProofs!GuardsFollowTheRows` | `GuardFollowsTheRows`, an action property |

The argument. `NoDoubleBooking` is not inductive: nothing in it says why the bay
that a request found free a few steps ago is free when it commits. `IInv` adds what
each stage of a request entails. The heart is `BaysInv` (and `TechsInv`): from the
moment its busy query returns until it commits, a request holds the lock of every
candidate bay, and no committed appointment in its window is in a bay of
`freeBays`. Another request's commit preserves this, because it too holds the
locks of the bays it chooses from, and two requests cannot hold one lock.
`OldInv` says that the appointment a reschedule leaves is already cancelled or
locked by it, which is what makes ignoring that appointment in the busy query
sound. `LocksInv` and `OrderInv` tie locks to stages, and give the lock order.

`Refinement` then takes each commit to a step of the calendar: the assigned bay
and technician are capable, qualified and on shift, and `Fits` is `BaysInv` and
`TechsInv` at that moment. `NeverDoubleBooked` follows from `Refinement` and
`CalendarNoOverlap`, whose own invariant is the property itself.

`NoDeadlock`. Every row has a place in one order: the appointment, then the bays, then
the technicians, each by id. `OrderInv` says that a request which waits for a row holds
none at or after it. In a circle, every member waits for a row that another member
holds; the member that waits for the last of these rows in the order would have to hold
a still later one. That there is a last one needs the tables to be finite, and no
induction on the length of the circle.

The other invariants, each inductive (`HInv`, `RoomInv` together with `IInv`):

* `HInv` (`OutcomeProofs`). `ToldInv` says that a request past its commit has its effect
  in the database, that "ok" is answered only there, that a refused request has no row,
  and that its jobs come with the effect. Effects stay, because a row is never deleted
  and never confirmed again. `ClosedInv` says who cancelled an appointment: a request
  that has committed, and that has a successor for it if it moved it. The property alone
  does not say that nobody else writes `closedBy` for it.
* `RoomInv` (`OutcomeProofs`). A refusal for want of room stays true as long as nothing
  is cancelled. It is decided one stage before it is told: a request that has found no
  bay reads and locks the technicians all the same, and by then its bays must still be
  taken.
* Shifts. The code compares whole minutes of the day, and `InShift` is about moments.
  `Moment` gives the bounds of a moment from its day and minute by the rules of integer
  division. The proof is of the calendar, and `Booking` inherits it by refinement.
* `SInv` (`SlotSearchProofs`). The maps hold what the queries saw (`TechsSeen`,
  `BaysSeen`), and after each turn `slots` is what the loop should have found up to `t`,
  a set defined at once. The rest is that busy intervals fetched for the whole window,
  with the duration added to its end, tell for each start time what the query of `book`
  for that start time would, and that `steady` only shrinks between the queries.
* `CInv` (`CacheProofs`). `RacersKnown`: a reader whose load missed a committed change
  is one the change has raced. `BookInv`: while a booking scans and deletes, a stale
  entry that no racer stored is under a key it has still to drop. Only with both does
  "done" mean that none is left. `EInv` adds that a loader has seen nothing that is not
  committed, so that an entry holds no change that was rolled back.
* `NInv` (`WatchesProofs`). A watch that may still be emailed has had an email only
  from runs of jobs that broke off, and the run in progress adds one at most. The heart
  is that a watch in `todo` or at `mail` counts as one that may be emailed whatever its
  status, since the worker does not look at the status again. `CountInv` bounds the queue
  by the jobs that failures put back, `HoldInv` says which watches the worker holds.
* `RInv` and `DInv` (`ResourcesProofs`). The deletion of a dealership takes its bays and
  technicians along, and looks for appointments of that dealership only. That no
  appointment refers to a row that went this way needs `HomeInv`: a bay or technician is
  of one dealership for ever, in the tables, in the memory of requests and in
  appointments, even if it is deleted and inserted again. `FreshInv` says that the id of
  a row still to be inserted is nobody's.
* `LocksInv` (`ResourcesProofs`). A lock is of a row that is there, and of one request:
  a DELETE waits for whoever holds the row or one that refers to it.
* `BInv` (`ResourcesProofs`). Here the candidates of a booking are a list that can be
  stale when they are locked. `Secured`: a candidate whose lock has been passed is held
  by the request or is gone. `Reserved`: one that was found free has no appointment in the
  window, or is gone. A row that is gone cannot be booked, by the foreign key of the
  INSERT; a row that comes back can, which is finding 5 and the reason for
  `revived = {}` in the property.
* `UInv` (`ResourcesProofs`). What an unraced request has in memory is what the rows say:
  the row it will save is the stored row with the fields of its body, and the candidates
  a booking still holds fit by the rows of now.
* `AInv` (`AccountsProofs`). A request gets to the INSERT of a customer through
  `Register` only, with a body that is a customer, and nothing updates or deletes one.
  The INSERT tests the unique index in the step that writes; the check of `Register`,
  which another registration can overtake, is not used by the proof.
* `DInv` (`AccountsProofs`). That nothing dangles would be inductive but for the rows
  that are deleted: `Remove` counts the members of a group among the administrators, so
  that the proof needs that no other row is in a group, in the tables (`RowsInv`) and in
  the memory of the requests about to write (`MemInv`). Again the checks of the handlers
  are not used: `CountMembers` and `DeletePrivilege` can be overtaken.
* `GInv` (`AccountsProofs`, with `DInv` and `TInv`). A request between the load and the
  store has the codes of now unless it is raced (`GuardOf`). A key of the cache is of
  now, or about to be dropped, or excused, or of an administrator who is gone
  (`KeyOf`). The last is there since the deletion of an administrator drops no key. It
  is sound because every request of his that is still at the guard is raced then, and
  no later one gets so far; and should an overtaken update insert him again, that very
  update drops his key. `Unused` keeps a new administrator from finding a key under his
  id. `EffectiveSame` is where `DInv` is needed: the row of another group or a new
  privilege changes nobody's codes, since nobody refers to it.

Only model-checked: liveness (`Answered` of `Booking` and of `Resources`, `SearchEnds`,
`Served`, `CoherentInTheEnd`, `EventuallyNotified`), which is out of this prover's
reach, and the five runs that find a counterexample.

## 6. Running

    tlc -config MCBookingSafety.cfg MCBooking
    tlapm BookingProofs.tla

Every run and its cfg are listed in `PROJECT.json`. The longest, `resources`,
`accounts`, `cache` and `watches`, take about a minute each.

## 7. Not modelled, and the plan

Left out for good: password hashing and token signing, HTTP formatting, Swagger, the
seed, configuration, the health check, logging, pagination, and the lists and reads that
only return rows. They keep no state whose order of change matters. Vehicles are
created by the seed only.

What is taken from outside, as the code uses it, and is not proved of it:

* InnoDB: row locks in the order of the primary key, READ COMMITTED without gap locks,
  foreign keys that lock the row they refer to, cascades, a victim for each circle of
  waiting transactions;
* TypeORM: `save` as in `Repository`. Where an update has loaded the relation `group`
  and set the column as well, which of the two is written is left open in `UpdateAdmin`;
* BullMQ: one worker per queue, no attempts unless asked for, a job of a process that
  ended is processed once more;
* ioredis: an offline queue without a limit of retries.

Abstractions to know:

* reference data does not change in `Booking`, and appointments are not cancelled in
  `Resources`; the cache invalidations that end an edit are those of
  `AvailabilityCache`, where a change is any of them;
* bodies are enumerated, so that ids given twice (`resolveByIds` of duplicates) and
  the patched description of a privilege do not occur;
* a token does not expire; a hash is the password;
* watches that go with the row of a customer or dealership (ON DELETE CASCADE) do not
  occur in `Watches`;
* emails are numbers of copies in a queue; the three attempts of the emails of bookings
  are not modelled, as nothing depends on whether they arrive;
* the sweep is one action that can come at any time; the process is one, as design
  assumption A11 says, except that nothing in `Booking`, `Resources` or `Accounts`
  relies on it, since their requests share only the database and Redis.

Next, in order:

1. Proofs: that `book` of `Resources` implements `Calendar` over the rows of the moment,
   as long as no edit races it; the safety half of the liveness properties, e.g. that a
   watch with an open slot has a job, a sweep or an email before it.
2. Emails of bookings: three attempts with backoff, duplicates after a crash.
3. A clock in `SlotSearch`: slots that are past when they are offered.
4. Cancellations in `Resources`, to delete a bay once its appointments are closed (the
   count of the code looks at all appointments, closed ones too).
