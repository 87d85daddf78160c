------------------------------- MODULE Resources ------------------------------
(***************************************************************************)
(* The reference data that bookings read, while administrators edit it:    *)
(* create, update and delete of dealerships, capabilities, skills, service *)
(* types, bays and technicians, in no transaction of their own, beside the *)
(* transaction of AppointmentsService.book.                                *)
(*                                                                         *)
(* A row is a record; a field that refers to other rows has the name of    *)
(* their table, so that `capabilities` and `skills`, the tags, are sets of *)
(* ids, and `dealership` is an id.  The row that a request inserts has the *)
(* request for id, since an id is never given twice.  The caches that an   *)
(* edit invalidates are those of AvailabilityCache; cancellations, which   *)
(* take no row away, are in Booking.                                       *)
(***************************************************************************)
EXTENDS Integers

CONSTANTS
  Requests,        \* the HTTP requests, naturals
  Sends,           \* request -> what its client may ask for
  InitialRows,     \* table -> (id -> row)
  DefaultShift,    \* the shift of a technician created without one
  TicksPerMinute,
  MinutesPerDay,
  NoOrder,         \* a request that has not arrived, or is answered
  NoRow            \* no row was found

TagTables == {"capabilities", "skills"}
Tables    == {"dealership", "service", "bay", "tech"} \cup TagTables

(* The columns of the tables, whose ids are the domain, and their types.   *)
Dealership  == {"name"}
Capability  == {"name"}
Skill       == {"name"}
ServiceBay  == {"name", "dealership", "capabilities"}
Technician  == {"name", "dealership", "skills", "shiftStart", "shiftEnd"}
ServiceType == {"name", "minutes", "capabilities", "skills"}

Columns ==
  [dealership |-> Dealership, capabilities |-> Capability, skills |-> Skill,
   service |-> ServiceType, bay |-> ServiceBay, tech |-> Technician]

ColumnType ==
  [name |-> STRING, dealership |-> Nat, minutes |-> Nat, shiftStart |-> Nat, shiftEnd |-> Nat,
   capabilities |-> SUBSET Nat, skills |-> SUBSET Nat]

INSTANCE Repository WITH SetFields <- TagTables, IdFields <- {"dealership"}

ASSUME IdsAssumption ==
  /\ Requests \subseteq Nat
  /\ \A t \in Tables : DOMAIN InitialRows[t] \subseteq Nat \ Requests
  /\ \A r \in Requests : NoOrder \notin Sends[r]

(* What the columns and the foreign keys of the database are built on. *)
ASSUME InitialAssumption ==
  /\ DOMAIN InitialRows = Tables
  /\ \A t \in Tables : \A i \in DOMAIN InitialRows[t] :
       IsRow(t, InitialRows[t][i]) /\ RefersTo(InitialRows, InitialRows[t][i])

(* Bodies are validated before their handler runs: those that create a row *)
(* have its columns, and none moves a row to another dealership.           *)
ASSUME BodiesAssumption ==
  \A r \in Requests : \A o \in Sends[r] :
    /\ o.op = "create" =>
         /\ o.table \in Tables
         /\ IsRow(o.table, IF o.table = "tech" THEN Patched(DefaultShift, o.set) ELSE o.set)
    /\ o.op = "update" =>
         /\ o.table \in Tables
         /\ DOMAIN o.set \subseteq Columns[o.table] \ {"dealership"}
         /\ Typed(o.set)
    /\ o.op = "book" => o.start \in Nat

VARIABLES
  db,       \* table -> (id -> row): what is committed
  appts,    \* the committed appointments
  locks,    \* <<table, id, request>>: rows locked by a transaction
  at,       \* where each request is in its handler, or its answer
  order,    \* what each request asks for
  mem,      \* what its handler has in memory
  raced,    \* history: an edit was committed since the request arrived
  revived   \* history: <<table, id>> that were inserted again

vars == <<db, appts, locks, at, order, mem, raced, revived>>

Answers == {"ok", "notFound", "conflict", "full", "error"}
Idle    == {"new"} \cup Answers

(* row: the row being edited or created, or the service type to book;      *)
(* found: what `save` has read of it; bay and tech: candidates, then those *)
(* that are free; scan: the candidates that are still to be locked.        *)
NoMemory == [row |-> NoRow, found |-> NoRow, bay |-> {}, tech |-> {}, scan |-> {}]

(* Definitions with a name that finds fault are variants of the next one.  *)

(* The rules of AvailabilityService over the rows of now, for a service    *)
(* type as it is now or as a booking has read it.                          *)
Rules(services) ==
  INSTANCE Availability WITH
    Dealerships <- DOMAIN db.dealership, Services <- DOMAIN services,
    Bays <- DOMAIN db.bay, Techs <- DOMAIN db.tech,
    BayRow <- db.bay, TechRow <- db.tech, ServiceRow <- services

Seen(r) == [s \in {order[r].service} |-> mem[r].row]

Goto(r, s) == at' = [at EXCEPT ![r] = s]

(* The answer; a transaction that is open ends. *)
Answer(r, a) ==
  /\ Goto(r, a)
  /\ locks' = {l \in locks : l[3] # r}
  /\ order' = [order EXCEPT ![r] = NoOrder]
  /\ mem' = [mem EXCEPT ![r] = NoMemory]

RespondWithoutRollback(r, a) ==
  /\ Goto(r, a)
  /\ order' = [order EXCEPT ![r] = NoOrder]
  /\ mem' = [mem EXCEPT ![r] = NoMemory]
  /\ raced' = [raced EXCEPT ![r] = FALSE]
  /\ UNCHANGED <<db, appts, locks, revived>>

Respond(r, a) ==
  /\ Answer(r, a)
  /\ raced' = [raced EXCEPT ![r] = FALSE]
  /\ UNCHANGED <<db, appts, revived>>

(* An edit is committed and answered; the other requests are raced by it.  *)
Edit(r, rows) ==
  /\ db' = rows
  /\ Answer(r, "ok")
  /\ raced' = [q \in Requests |-> q # r /\ (raced[q] \/ at[q] \notin Idle)]
  /\ UNCHANGED appts

-----------------------------------------------------------------------------
(* Locks                                                                   *)

Rows(rs, t) == {<<t, i>> : i \in DOMAIN rs[t]}

(* The rows that DELETE takes away with the row id of the table t. *)
DeletedAlone(t, id) == {<<t, id>>}
Deleted(t, id) ==
  {<<t, id>>} \cup
  (IF t # "dealership" THEN {} ELSE
   UNION {{x \in Rows(db, c) : db[c][x[2]].dealership = id} : c \in {"bay", "tech"}})

Earliest(S) == {x \in S : \A y \in S : x =< y}

(* The rows that the statement of r has to lock, with its foreign keys.    *)
(* Only an UPDATE of columns and a new tag touch the row itself.           *)
Wanted(r) ==
  CASE at[r] = "lockBays"  -> {<<"bay", i>> : i \in Earliest(mem[r].scan)}
    [] at[r] = "lockTechs" -> {<<"tech", i>> : i \in Earliest(mem[r].scan)}
    [] at[r] = "book" ->
         {<<"dealership", order[r].dealership>>}
         \cup {<<"bay", i>> : i \in Earliest(mem[r].bay)}
         \cup {<<"tech", i>> : i \in Earliest(mem[r].tech)}
    [] at[r] = "insert" ->
         {<<"dealership", d>> : d \in {mem[r].row[f] : f \in {"dealership"} \cap DOMAIN mem[r].row}}
    [] at[r] = "write" ->
         IF Changed(mem[r].row, mem[r].found) = {} /\ ~AnyAdded(mem[r].row, mem[r].found) THEN {}
         ELSE {<<order[r].table, order[r].id>>}
    [] at[r] = "remove"  -> {<<order[r].table, order[r].id>>}
    [] at[r] = "cascade" -> Deleted("dealership", order[r].id)
    [] OTHER -> {}

WaitsFor(r, q) == q # r /\ \E w \in Wanted(r) : <<w[1], w[2], q>> \in locks

Granted(r) == \A q \in Requests : ~WaitsFor(r, q)

-----------------------------------------------------------------------------
(* create, update, delete                                                  *)

(* resolveByIds comes before the row is saved, for the tags of the body.   *)
ToResolve(o) == TagTables \cap DOMAIN o.set
Stage(o, tags) ==
  IF "capabilities" \in tags THEN "capabilities"
  ELSE IF "skills" \in tags THEN "skills"
  ELSE IF o.op = "create" THEN "insert" ELSE "find"

Enter(r, o, s, m) ==
  /\ Goto(r, s)
  /\ order' = [order EXCEPT ![r] = o]
  /\ mem' = [mem EXCEPT ![r] = m]
  /\ UNCHANGED <<db, appts, locks, raced, revived>>

Exists(o) == o.id \in DOMAIN db[o.table]

CreateRow(r, o, row) == Enter(r, o, Stage(o, ToResolve(o)), [NoMemory EXCEPT !.row = row])

CreateAtDealership(r, o, row) ==
  IF row.dealership \notin DOMAIN db.dealership THEN Respond(r, "notFound")
  ELSE CreateRow(r, o, row)

UpdateDroppingTags(r, o) ==
  IF ~Exists(o) THEN Respond(r, "notFound")
  ELSE LET row == db[o.table][o.id]
       IN  CreateRow(r, o, Patched([f \in DOMAIN row |-> IF f \in Sets(row) THEN {} ELSE row[f]], o.set))

(* requireOne reads the row; the fields of the body are set in memory. *)
UpdateRow(r, o) ==
  IF ~Exists(o) THEN Respond(r, "notFound")
  ELSE CreateRow(r, o, Patched(db[o.table][o.id], o.set))

DeleteOne(r, o, next) ==
  IF ~Exists(o) THEN Respond(r, "notFound") ELSE Enter(r, o, next, NoMemory)

Asks(o, op, t) == o.op = op /\ o.table = t

CreateDealership(r, o)  == Asks(o, "create", "dealership") /\ CreateRow(r, o, o.set)
CreateCapability(r, o)  == Asks(o, "create", "capabilities") /\ CreateRow(r, o, o.set)
CreateSkill(r, o)       == Asks(o, "create", "skills") /\ CreateRow(r, o, o.set)
CreateServiceType(r, o) == Asks(o, "create", "service") /\ CreateRow(r, o, o.set)
CreateServiceBay(r, o)  == Asks(o, "create", "bay") /\ CreateAtDealership(r, o, o.set)
CreateTechnician(r, o)  ==
  Asks(o, "create", "tech") /\ CreateAtDealership(r, o, Patched(DefaultShift, o.set))

UpdateDealership(r, o)  == Asks(o, "update", "dealership") /\ UpdateRow(r, o)
UpdateCapability(r, o)  == Asks(o, "update", "capabilities") /\ UpdateRow(r, o)
UpdateSkill(r, o)       == Asks(o, "update", "skills") /\ UpdateRow(r, o)
UpdateServiceType(r, o) == Asks(o, "update", "service") /\ UpdateRow(r, o)
UpdateServiceBay(r, o)  == Asks(o, "update", "bay") /\ UpdateRow(r, o)
UpdateTechnician(r, o)  == Asks(o, "update", "tech") /\ UpdateRow(r, o)

(* Only what appointments refer to is looked for in them. *)
DeleteDealership(r, o)  == Asks(o, "delete", "dealership") /\ DeleteOne(r, o, "count")
DeleteServiceType(r, o) == Asks(o, "delete", "service") /\ DeleteOne(r, o, "count")
DeleteServiceBay(r, o)  == Asks(o, "delete", "bay") /\ DeleteOne(r, o, "count")
DeleteTechnician(r, o)  == Asks(o, "delete", "tech") /\ DeleteOne(r, o, "count")
DeleteCapability(r, o)  == Asks(o, "delete", "capabilities") /\ DeleteOne(r, o, "remove")
DeleteSkill(r, o)       == Asks(o, "delete", "skills") /\ DeleteOne(r, o, "remove")

ResolveByIds(r) ==
  \E tags \in TagTables :
    /\ at[r] = tags
    /\ IF order[r].set[tags] \subseteq DOMAIN db[tags]
       THEN /\ Goto(r, Stage(order[r], ToResolve(order[r]) \ {"capabilities", tags}))
            /\ UNCHANGED <<db, appts, locks, order, mem, raced, revived>>
       ELSE Respond(r, "notFound")

InsertColumnsOnly(r, t, id) ==
  IF id \in DOMAIN db[t] \/ ~RefersTo(db, mem[r].row)
  THEN Respond(r, "error")
  ELSE /\ Edit(r, Inserted(db, t, id, [f \in DOMAIN mem[r].row \ TagTables |-> mem[r].row[f]]))
       /\ revived' = IF id = r THEN revived ELSE revived \cup {<<t, id>>}

(* INSERT; a foreign key that is not there fails the request, and so does  *)
(* an id that is.                                                          *)
InsertRow(r, t, id) ==
  IF id \in DOMAIN db[t] \/ ~RefersTo(db, mem[r].row)
  THEN Respond(r, "error")
  ELSE /\ Edit(r, Inserted(db, t, id, mem[r].row))
       /\ revived' = IF id = r THEN revived ELSE revived \cup {<<t, id>>}

Insert(r) ==
  /\ at[r] = "insert"
  /\ Granted(r)
  /\ InsertRow(r, order[r].table, IF order[r].op = "create" THEN r ELSE order[r].id)

(* `save` looks the row up again to see what differs; if it is gone, it    *)
(* is inserted with its old id.                                            *)
Find(r) ==
  /\ at[r] = "find"
  /\ IF Exists(order[r])
     THEN /\ mem' = [mem EXCEPT ![r].found = db[order[r].table][order[r].id]]
          /\ Goto(r, "write")
     ELSE /\ Goto(r, "insert")
          /\ UNCHANGED mem
  /\ UNCHANGED <<db, appts, locks, order, raced, revived>>

(* UPDATE of the columns that differ, INSERT and DELETE of the tags.  An   *)
(* UPDATE of a row that is gone does nothing; a new tag of it fails.       *)
Write(r) ==
  /\ at[r] = "write"
  /\ Granted(r)
  /\ LET t == order[r].table
         id == order[r].id
     IN  IF ~MayAdd(db, t, id, mem[r].row, mem[r].found)
         THEN Respond(r, "error")
         ELSE Edit(r, Saved(db, t, id, mem[r].row, mem[r].found)) /\ UNCHANGED revived

Referenced(t, id) == \E a \in appts : t \in DOMAIN a /\ a[t] = id

Count(r) ==
  /\ at[r] = "count"
  /\ IF Referenced(order[r].table, order[r].id)
     THEN Respond(r, "conflict")
     ELSE Goto(r, "remove") /\ UNCHANGED <<db, appts, locks, order, mem, raced, revived>>

(* DELETE, which the foreign keys of an appointment refuse. *)
DeleteRow(r) ==
  IF Referenced(order[r].table, order[r].id)
  THEN Respond(r, "error")
  ELSE Edit(r, Kept(db, Deleted(order[r].table, order[r].id), order[r].table, order[r].id))
       /\ UNCHANGED revived

(* The row of a dealership is locked while its bays are waited for. *)
Remove(r) ==
  /\ at[r] = "remove"
  /\ Granted(r)
  /\ IF order[r].table = "dealership" /\ Exists(order[r])
     THEN /\ locks' = locks \cup {<<"dealership", order[r].id, r>>}
          /\ Goto(r, "cascade")
          /\ UNCHANGED <<db, appts, order, mem, raced, revived>>
     ELSE DeleteRow(r)

Cascade(r) ==
  /\ at[r] = "cascade"
  /\ Granted(r)
  /\ DeleteRow(r)

-----------------------------------------------------------------------------
(* book                                                                    *)

Book(r, o) ==
  /\ o.op = "book"
  /\ IF o.dealership \notin DOMAIN db.dealership \/ o.service \notin DOMAIN db.service
     THEN Respond(r, "notFound")
     ELSE Enter(r, o, "readBays", [NoMemory EXCEPT !.row = db.service[o.service]])

(* The query of the candidates, which locks nothing. *)
ReadCandidates(r, t, cands, next) ==
  /\ mem' = [mem EXCEPT ![r] = [@ EXCEPT ![t] = cands, !.scan = cands]]
  /\ Goto(r, next)
  /\ UNCHANGED <<db, appts, locks, order, raced, revived>>

ReadBaysOfAll(r) ==
  /\ at[r] = "readBays"
  /\ ReadCandidates(r, "bay",
       {b \in DOMAIN db.bay : Rules(Seen(r))!BayIsCapable(b, order[r].service)}, "lockBays")

ReadBays(r) ==
  /\ at[r] = "readBays"
  /\ ReadCandidates(r, "bay",
       Rules(Seen(r))!CapableBays(order[r].dealership, order[r].service), "lockBays")

ReadTechs(r) ==
  /\ at[r] = "readTechs"
  /\ ReadCandidates(r, "tech",
       Rules(Seen(r))!EligibleTechnicians(order[r].dealership, order[r].service, order[r].start),
       "lockTechs")

LockNothing(r) ==
  /\ at[r] \in {"lockBays", "lockTechs"}
  /\ mem[r].scan # {}
  /\ mem' = [mem EXCEPT ![r].scan = {}]
  /\ UNCHANGED <<db, appts, locks, at, order, raced, revived>>

(* SELECT ... FOR UPDATE goes through the ids in order; one without a row  *)
(* locks nothing.                                                          *)
LockRow(r) ==
  /\ at[r] \in {"lockBays", "lockTechs"}
  /\ mem[r].scan # {}
  /\ Granted(r)
  /\ locks' = locks \cup {<<w[1], w[2], r>> : w \in {x \in Wanted(r) : x[2] \in DOMAIN db[x[1]]}}
  /\ mem' = [mem EXCEPT ![r].scan = @ \ Earliest(@)]
  /\ UNCHANGED <<db, appts, at, order, raced, revived>>

End(r) == Rules(Seen(r))!EndOf(order[r].service, order[r].start)

FindAvailableBays(r) ==
  /\ at[r] = "lockBays"
  /\ mem[r].scan = {}
  /\ mem' = [mem EXCEPT ![r].bay = @ \ Rules(Seen(r))!BusyBays(appts, order[r].start, End(r))]
  /\ Goto(r, "readTechs")
  /\ UNCHANGED <<db, appts, locks, order, raced, revived>>

FindAvailableTechnicians(r) ==
  /\ at[r] = "lockTechs"
  /\ mem[r].scan = {}
  /\ LET free == mem[r].tech \ Rules(Seen(r))!BusyTechs(appts, order[r].start, End(r))
     IN  IF mem[r].bay = {} \/ free = {}
         THEN Respond(r, "full")
         ELSE /\ mem' = [mem EXCEPT ![r].tech = free]
              /\ Goto(r, "book")
              /\ UNCHANGED <<db, appts, locks, order, raced, revived>>

Appointment(r, b, t) ==
  [by |-> r, dealership |-> order[r].dealership, service |-> order[r].service,
   bay |-> b, tech |-> t, start |-> order[r].start, end |-> End(r), status |-> "CONFIRMED"]

(* The INSERT of the appointment, whose foreign keys must be there, and    *)
(* COMMIT.                                                                 *)
InsertAppointment(r) ==
  /\ at[r] = "book"
  /\ Granted(r)
  /\ \E b \in Earliest(mem[r].bay), t \in Earliest(mem[r].tech) :
       LET a == Appointment(r, b, t)
       IN  IF \E f \in Tables \cap DOMAIN a : a[f] \notin DOMAIN db[f]
           THEN Respond(r, "error")
           ELSE /\ appts' = appts \cup {a}
                /\ Answer(r, "ok")
                /\ raced' = [raced EXCEPT ![r] = FALSE]
                /\ UNCHANGED <<db, revived>>

-----------------------------------------------------------------------------
(* A database error, or the end of the process. *)
Fail(r) == at[r] \notin Idle /\ Respond(r, "error")

(* InnoDB finds transactions that wait in a circle and rolls one back. *)
DeadlockVictim(r) ==
  /\ ~Granted(r)
  /\ \E S \in SUBSET Requests :
       /\ r \in S
       /\ \A p \in S : (\E q \in S : WaitsFor(p, q)) /\ (\E q \in S : WaitsFor(q, p))
  /\ Respond(r, "error")

Handle(r, o) ==
  \/ CreateDealership(r, o)  \/ UpdateDealership(r, o)  \/ DeleteDealership(r, o)
  \/ CreateCapability(r, o)  \/ UpdateCapability(r, o)  \/ DeleteCapability(r, o)
  \/ CreateSkill(r, o)       \/ UpdateSkill(r, o)       \/ DeleteSkill(r, o)
  \/ CreateServiceType(r, o) \/ UpdateServiceType(r, o) \/ DeleteServiceType(r, o)
  \/ CreateServiceBay(r, o)  \/ UpdateServiceBay(r, o)  \/ DeleteServiceBay(r, o)
  \/ CreateTechnician(r, o)  \/ UpdateTechnician(r, o)  \/ DeleteTechnician(r, o)
  \/ Book(r, o)

Arrive(r) == at[r] = "new" /\ \E o \in Sends[r] : Handle(r, o)

Proceed(r) ==
  \/ ResolveByIds(r) \/ Insert(r) \/ Find(r) \/ Write(r)
  \/ Count(r) \/ Remove(r) \/ Cascade(r)
  \/ ReadBays(r) \/ ReadTechs(r) \/ LockRow(r)
  \/ FindAvailableBays(r) \/ FindAvailableTechnicians(r) \/ InsertAppointment(r)
  \/ DeadlockVictim(r)

Init ==
  /\ db = InitialRows
  /\ appts = {}
  /\ locks = {}
  /\ at = [r \in Requests |-> "new"]
  /\ order = [r \in Requests |-> NoOrder]
  /\ mem = [r \in Requests |-> NoMemory]
  /\ raced = [r \in Requests |-> FALSE]
  /\ revived = {}

Next == \E r \in Requests : Arrive(r) \/ Proceed(r) \/ Fail(r)

Spec == Init /\ [][Next]_vars

(* A request whose statement can go on goes on. *)
FairSpec == Spec /\ \A r \in Requests : WF_vars(Proceed(r))

-----------------------------------------------------------------------------
(* Properties                                                              *)

(* Rows keep the columns of their table, and a locked row is there.        *)
ResourcesTypeOK ==
  /\ \A t \in Tables :
       DOMAIN db[t] \subseteq Nat /\ \A i \in DOMAIN db[t] : IsRow(t, db[t][i])
  /\ at \in [Requests -> Idle \cup TagTables \cup
             {"insert", "find", "write", "count", "remove", "cascade",
              "readBays", "lockBays", "readTechs", "lockTechs", "book"}]
  /\ \A l \in locks : l[2] \in DOMAIN db[l[1]]
  /\ \A r \in Requests : order[r] = NoOrder <=> at[r] \in Idle

(* Nothing refers to a row that is gone: no appointment, bay, technician   *)
(* or service type, whatever deletes and edits interleave.                 *)
NothingDangles ==
  /\ \A t \in Tables : \A i \in DOMAIN db[t] : RefersTo(db, db[t][i])
  /\ \A a \in appts : \A f \in Tables \cap DOMAIN a : a[f] \in DOMAIN db[f]

(* "So concurrent requests for the same resource serialize and cannot      *)
(* double-book": of two appointments that overlap, none shares a bay or a  *)
(* technician.                                                             *)
NoDoubleBooking ==
  \A a, b \in appts :
    (a # b /\ Rules(db.service)!IntervalsOverlap(a.start, a.end, b.start, b.end)) =>
      a.bay # b.bay /\ a.tech # b.tech

(* The same, as long as no edit has inserted a deleted row again: locking  *)
(* the candidates is enough although the list of them may be stale.        *)
NoDoubleBookingUnlessRevived == revived = {} => NoDoubleBooking

(* An appointment fits the rows of the moment it is committed: its bay has *)
(* the capabilities, its technician the skills and the shift, both are of  *)
(* the dealership, and the window is as long as the service takes, unless  *)
(* an edit was committed since the request arrived.                        *)
Fits(a) ==
  /\ a.bay \in Rules(db.service)!CapableBays(a.dealership, a.service)
  /\ a.tech \in Rules(db.service)!EligibleTechnicians(a.dealership, a.service, a.start)
  /\ a.end = Rules(db.service)!EndOf(a.service, a.start)

FitUnlessRaced == [][\A a \in appts' \ appts : raced[a.by] \/ Fits(a)]_vars

(* An edit undoes another one only if the two were handled at the same     *)
(* time: otherwise it changes nothing but the fields of its body, and      *)
(* never brings a deleted row back.                                        *)
Touched(t) ==
  {i \in DOMAIN db[t] \cup DOMAIN db'[t] :
     i \notin DOMAIN db[t] \/ i \notin DOMAIN db'[t] \/ db[t][i] # db'[t][i]}

OnlyTheRacedIsUndone ==
  [][\A r \in Requests :
       (order[r] # NoOrder /\ order[r].op = "update" /\ at'[r] = "ok" /\ at[r] # "ok" /\ ~raced[r]) =>
         \A t \in Tables : \A i \in Touched(t) :
           /\ t = order[r].table /\ i = order[r].id
           /\ i \in DOMAIN db[t]
           /\ \A f \in DOMAIN db[t][i] \ DOMAIN order[r].set : db'[t][i][f] = db[t][i][f]]_vars

(* Deleting a capability or a skill takes the requirement away with it: a  *)
(* bay or a technician that could serve a service type still can.          *)
Able(rs) ==
  {x \in (DOMAIN rs.service) \X (Rows(rs, "bay") \cup Rows(rs, "tech")) :
     LET row == rs[x[2][1]][x[2][2]]
     IN  \A f \in Sets(row) : rs.service[x[1]][f] \subseteq row[f]}

TagRemovalOnlyWidens ==
  [][(\E f \in TagTables : DOMAIN db[f] \ DOMAIN db'[f] # {}) => Able(db) \subseteq Able(db')]_vars

(* Every request is answered: whoever waits for a lock gets it, or is the  *)
(* victim of a deadlock that the deletion of a dealership can cause.       *)
Answered == \A r \in Requests : at[r] # "new" ~> at[r] \in Answers

===============================================================================
