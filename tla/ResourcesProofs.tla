---------------------------- MODULE ResourcesProofs ---------------------------
(***************************************************************************)
(* What holds of the reference data for any set of requests, rows and      *)
(* edits: rows keep their columns, nothing refers to a row that is gone,   *)
(* and bookings beside edits neither double-book, unless an edit brings a  *)
(* deleted row back, nor misfit, unless an edit races them.                *)
(***************************************************************************)
EXTENDS Resources, TLAPS

USE IdsAssumption

SaveStages == TagTables \cup {"insert", "find", "write"}
EditStages == {"count", "remove", "cascade"}
BookStages == {"readBays", "lockBays", "readTechs", "lockTechs", "book"}

(* A request gets to a statement only through a handler of its table, with *)
(* a row that has the columns of the table.                                *)
Memory == {"row", "found", "bay", "tech", "scan"}

RequestInv(r) ==
  /\ DOMAIN mem[r] = Memory
  /\ at[r] \in Idle \cup SaveStages \cup EditStages \cup BookStages
  /\ at[r] \notin Idle => order[r] \in Sends[r]
  /\ order[r] = NoOrder <=> at[r] \in Idle
  /\ at[r] \in SaveStages =>
       /\ order[r].op \in {"create", "update"}
       /\ order[r].table \in Tables
       /\ order[r].op = "update" => order[r].id \in Nat
       /\ IsRow(order[r].table, mem[r].row)
  /\ at[r] \in {"find", "write"} => order[r].op = "update"
  /\ at[r] = "write" => IsRow(order[r].table, mem[r].found)
  /\ at[r] \in EditStages => order[r].op = "delete" /\ order[r].table \in Tables
  /\ at[r] = "cascade" => order[r].table = "dealership"
  /\ at[r] \in BookStages => order[r].op = "book" /\ IsRow("service", mem[r].row)

RowsInv ==
  /\ DOMAIN db = Tables
  /\ \A t \in Tables :
       DOMAIN db[t] \subseteq Nat /\ \A i \in DOMAIN db[t] : IsRow(t, db[t][i])

RInv ==
  /\ DOMAIN at = Requests /\ at = [r \in Requests |-> at[r]]
  /\ DOMAIN order = Requests
  /\ DOMAIN mem = Requests
  /\ \A r \in Requests : RequestInv(r)
  /\ RowsInv

-----------------------------------------------------------------------------
(* Rows                                                                    *)

LEMMA TableNames ==
  /\ "dealership" \in Tables /\ "service" \in Tables /\ "bay" \in Tables /\ "tech" \in Tables
  /\ "capabilities" \in Tables /\ "skills" \in Tables
BY DEF Tables, TagTables

(* The fields of a body are set in a row of the same table. *)
LEMMA PatchedRow ==
  ASSUME NEW t, NEW row, NEW body, IsRow(t, row), Typed(body), DOMAIN body \subseteq Columns[t]
  PROVE  IsRow(t, Patched(row, body))
BY DEF IsRow, Typed, Patched

(* The row id of t is there, and is row. *)
RowSet(t, id, row) ==
  /\ DOMAIN db' = Tables
  /\ \A u \in Tables : DOMAIN db'[u] = IF u = t THEN DOMAIN db[t] \cup {id} ELSE DOMAIN db[u]
  /\ \A u \in Tables : \A i \in DOMAIN db'[u] :
       db'[u][i] = IF u = t /\ i = id THEN row ELSE db[u][i]

LEMMA InsertedRow ==
  ASSUME DOMAIN db = Tables, NEW t \in Tables, NEW id, NEW row, db' = Inserted(db, t, id, row)
  PROVE  RowSet(t, id, row)
<1> DEFINE table == [i \in DOMAIN db[t] \cup {id} |-> IF i = id THEN row ELSE db[t][i]]
<1>1. db' = [db EXCEPT ![t] = table]
  BY DEF Inserted
<1>2. DOMAIN db' = Tables /\ db'[t] = table /\ \A u \in Tables \ {t} : db'[u] = db[u]
  <2> HIDE DEF table
  <2> QED
    BY <1>1
<1> QED
  BY <1>2 DEF RowSet

LEMMA SavedRow ==
  ASSUME DOMAIN db = Tables, NEW t \in Tables, NEW id, NEW row, NEW found,
         db' = Saved(db, t, id, row, found)
  PROVE  \/ db' = db
         \/ id \in DOMAIN db[t] /\ RowSet(t, id, Merged(row, found, db[t][id]))
<1>1. CASE id \notin DOMAIN db[t]
  BY <1>1 DEF Saved
<1>2. CASE id \in DOMAIN db[t]
  <2>1. db' = [db EXCEPT ![t][id] = Merged(row, found, @)]
    BY <1>2 DEF Saved
  <2> QED
    BY ZenonT(60), <1>2, <2>1 DEF RowSet
<1> QED
  BY <1>1, <1>2

LEMMA RowSetInv ==
  ASSUME RowsInv, NEW t \in Tables, NEW id \in Nat, NEW row, IsRow(t, row), RowSet(t, id, row)
  PROVE  RowsInv'
<1>1. ASSUME NEW u \in Tables
      PROVE  DOMAIN db'[u] \subseteq Nat /\ \A i \in DOMAIN db'[u] : IsRow(u, db'[u][i])
  BY <1>1 DEF RowsInv, RowSet
<1> QED
  BY <1>1 DEF RowsInv, RowSet

LEMMA MergedRow ==
  ASSUME NEW t \in Tables, NEW row, NEW found, NEW now,
         IsRow(t, row), IsRow(t, found), IsRow(t, now)
  PROVE  IsRow(t, Merged(row, found, now))
<1>1. DOMAIN Merged(row, found, now) = Columns[t]
  BY DEF IsRow, Merged
<1>2. ASSUME NEW f \in Columns[t]
      PROVE  Merged(row, found, now)[f] \in ColumnType[f]
  <2>1. row[f] \in ColumnType[f] /\ found[f] \in ColumnType[f] /\ now[f] \in ColumnType[f]
    BY <1>2 DEF IsRow, Typed
  <2>2. CASE f \in TagTables
    <3>1. ColumnType[f] = SUBSET Nat
      BY <2>2 DEF ColumnType, TagTables
    <3>2. Merged(row, found, now)[f] = (now[f] \cup (row[f] \ found[f])) \ (found[f] \ row[f])
      BY <1>2, <2>2 DEF IsRow, Merged
    <3> QED
      BY <2>1, <3>1, <3>2
  <2>3. CASE f \notin TagTables
    BY <1>2, <2>1, <2>3 DEF IsRow, Merged
  <2> QED
    BY <2>2, <2>3
<1> QED
  BY <1>1, <1>2 DEF IsRow, Typed

(* A deletion takes rows away, and an id out of the sets that held it.     *)
RowsGone(gone, t, id) ==
  /\ DOMAIN db' = Tables
  /\ \A u \in Tables : DOMAIN db'[u] = {i \in DOMAIN db[u] : <<u, i>> \notin gone}
  /\ \A u \in Tables : \A i \in DOMAIN db'[u] :
       /\ DOMAIN db'[u][i] = DOMAIN db[u][i]
       /\ \A f \in DOMAIN db[u][i] :
            db'[u][i][f] = IF f = t /\ t \in TagTables THEN db[u][i][f] \ {id} ELSE db[u][i][f]

LEMMA KeptRow ==
  ASSUME DOMAIN db = Tables, NEW gone, NEW t \in Tables, NEW id, db' = Kept(db, gone, t, id)
  PROVE  RowsGone(gone, t, id)
<1> DEFINE left(u) == {i \in DOMAIN db[u] : <<u, i>> \notin gone}
           row(u, i) == IF t \in Sets(db[u][i]) THEN [db[u][i] EXCEPT ![t] = @ \ {id}] ELSE db[u][i]
<1>1. db' = [u \in Tables |-> [i \in left(u) |-> row(u, i)]]
  BY DEF Kept
<1>2. ASSUME NEW u \in Tables, NEW i \in left(u)
      PROVE  /\ DOMAIN row(u, i) = DOMAIN db[u][i]
             /\ \A f \in DOMAIN db[u][i] :
                  row(u, i)[f] = IF f = t /\ t \in TagTables THEN db[u][i][f] \ {id} ELSE db[u][i][f]
  BY DEF Sets
<1> HIDE DEF row
<1>3. DOMAIN db' = Tables /\ \A u \in Tables : db'[u] = [i \in left(u) |-> row(u, i)]
  BY <1>1
<1>4. \A u \in Tables : DOMAIN db'[u] = left(u) /\ \A i \in left(u) : db'[u][i] = row(u, i)
  BY <1>3
<1> HIDE DEF left
<1>5. ASSUME NEW u \in Tables, NEW i \in DOMAIN db'[u]
      PROVE  /\ DOMAIN db'[u][i] = DOMAIN db[u][i]
             /\ \A f \in DOMAIN db[u][i] :
                  db'[u][i][f] = IF f = t /\ t \in TagTables THEN db[u][i][f] \ {id} ELSE db[u][i][f]
  <2>1. i \in left(u) /\ db'[u][i] = row(u, i)
    BY <1>4, <1>5
  <2> QED
    BY <1>2, <2>1
<1> QED
  BY <1>3, <1>4, <1>5 DEF left, RowsGone

LEMMA RowsGoneInv ==
  ASSUME RowsInv, NEW gone, NEW t, NEW id, RowsGone(gone, t, id)
  PROVE  RowsInv'
<1>1. ASSUME NEW u \in Tables, NEW i \in DOMAIN db'[u] PROVE IsRow(u, db'[u][i])
  <2>1. IsRow(u, db[u][i])
    BY <1>1 DEF RowsInv, RowsGone
  <2>2. \A f \in TagTables : ColumnType[f] = SUBSET Nat
    BY DEF ColumnType, TagTables
  <2>3. ASSUME NEW f \in DOMAIN db[u][i] PROVE db'[u][i][f] \in ColumnType[f]
    <3>1. db[u][i][f] \in ColumnType[f]
      BY <2>1, <2>3 DEF IsRow, Typed
    <3>2. CASE f = t /\ t \in TagTables
      <4>1. ColumnType[f] = SUBSET Nat /\ db'[u][i][f] = db[u][i][f] \ {id}
        <5>1. ColumnType[f] = SUBSET Nat
          BY <2>2, <3>2
        <5>2. db'[u][i][f] = db[u][i][f] \ {id}
          <6>1. \A g \in DOMAIN db[u][i] :
                  db'[u][i][g] = IF g = t /\ t \in TagTables THEN db[u][i][g] \ {id} ELSE db[u][i][g]
            BY <1>1 DEF RowsGone
          <6>2. db'[u][i][f] = IF f = t /\ t \in TagTables THEN db[u][i][f] \ {id} ELSE db[u][i][f]
            BY <2>3, <6>1
          <6> QED
            BY <3>2, <6>2
        <5> QED
          BY <5>1, <5>2
      <4> QED
        BY <3>1, <4>1
    <3>3. CASE ~(f = t /\ t \in TagTables)
      BY <1>1, <2>3, <3>1, <3>3 DEF RowsGone
    <3> QED
      BY <3>2, <3>3
  <2> QED
    BY <1>1, <2>1, <2>3 DEF IsRow, Typed, RowsGone
<1> QED
  BY <1>1 DEF RowsInv, RowsGone

-----------------------------------------------------------------------------
(* Steps                                                                   *)

Creates(r, o) ==
  /\ o.op = "create" /\ o.table \in Tables
  /\ \E row : IsRow(o.table, row) /\ CreateRow(r, o, row)

Updates(r, o) ==
  /\ o.op = "update" /\ o.table \in Tables
  /\ Exists(o) /\ CreateRow(r, o, Patched(db[o.table][o.id], o.set))

Deletes(r, o) ==
  /\ o.op = "delete" /\ o.table \in Tables
  /\ \E s \in {"count", "remove"} : Enter(r, o, s, NoMemory)

Books(r, o) ==
  /\ o.op = "book" /\ o.service \in DOMAIN db.service
  /\ Enter(r, o, "readBays", [NoMemory EXCEPT !.row = db.service[o.service]])

(* What the handlers do at first. *)
LEMMA Arrivals ==
  ASSUME NEW r \in Requests, Arrive(r)
  PROVE  /\ at[r] = "new"
         /\ \/ Respond(r, "notFound")
            \/ \E o \in Sends[r] : Creates(r, o) \/ Updates(r, o) \/ Deletes(r, o) \/ Books(r, o)
<1>1. PICK o \in Sends[r] : Handle(r, o)
  BY DEF Arrive
<1>2. ASSUME Asks(o, "create", o.table), o.table \in Tables, o.table # "tech", CreateRow(r, o, o.set)
      PROVE  Creates(r, o)
  BY <1>2, BodiesAssumption DEF Creates, Asks
<1>3. CASE CreateDealership(r, o) \/ CreateCapability(r, o) \/ CreateSkill(r, o) \/ CreateServiceType(r, o)
  <2>1. Asks(o, "create", o.table) /\ o.table \in Tables /\ o.table # "tech" /\ CreateRow(r, o, o.set)
    BY <1>3, TableNames DEF CreateDealership, CreateCapability, CreateSkill, CreateServiceType, Asks
  <2> QED
    BY <1>2, <2>1 DEF Arrive
<1>4. CASE CreateServiceBay(r, o)
  <2>1. CASE CreateRow(r, o, o.set)
    <3>1. Asks(o, "create", o.table) /\ o.table \in Tables /\ o.table # "tech"
      BY <1>4, TableNames DEF CreateServiceBay, Asks
    <3> QED
      BY <1>2, <2>1, <3>1 DEF Arrive
  <2> QED
    BY <1>4, <2>1 DEF CreateServiceBay, CreateAtDealership, Arrive
<1>5. CASE CreateTechnician(r, o)
  <2> DEFINE row == Patched(DefaultShift, o.set)
  <2>1. CASE CreateRow(r, o, row)
    <3>1. o.op = "create" /\ o.table = "tech" /\ o.table \in Tables
      BY <1>5, TableNames DEF CreateTechnician, Asks
    <3>2. IsRow(o.table, row)
      BY <3>1, BodiesAssumption
    <3>3. Creates(r, o)
      BY <2>1, <3>1, <3>2 DEF Creates
    <3> QED
      BY <3>3 DEF Arrive
  <2> QED
    BY <1>5, <2>1 DEF CreateTechnician, CreateAtDealership, Arrive
<1>6. CASE UpdateDealership(r, o) \/ UpdateCapability(r, o) \/ UpdateSkill(r, o)
           \/ UpdateServiceType(r, o) \/ UpdateServiceBay(r, o) \/ UpdateTechnician(r, o)
  <2>1. o.op = "update" /\ o.table \in Tables /\ UpdateRow(r, o)
    BY <1>6, TableNames DEF UpdateDealership, UpdateCapability, UpdateSkill, UpdateServiceType,
                            UpdateServiceBay, UpdateTechnician, Asks
  <2> QED
    BY <2>1 DEF UpdateRow, Updates, Arrive
<1>7. CASE DeleteDealership(r, o) \/ DeleteCapability(r, o) \/ DeleteSkill(r, o)
           \/ DeleteServiceType(r, o) \/ DeleteServiceBay(r, o) \/ DeleteTechnician(r, o)
  <2>1. o.op = "delete" /\ o.table \in Tables /\ \E s \in {"count", "remove"} : DeleteOne(r, o, s)
    BY <1>7, TableNames DEF DeleteDealership, DeleteCapability, DeleteSkill, DeleteServiceType,
                            DeleteServiceBay, DeleteTechnician, Asks
  <2> QED
    BY <2>1 DEF DeleteOne, Deletes, Arrive
<1>8. CASE Book(r, o)
  BY <1>8 DEF Book, Books, Arrive
<1> QED
  BY <1>1, <1>3, <1>4, <1>5, <1>6, <1>7, <1>8 DEF Handle

(* Other requests are where they were. *)
LEMMA OthersR ==
  ASSUME RInv, NEW r \in Requests, NEW s, NEW o,
         at' = at \/ at' = [at EXCEPT ![r] = s],
         order' = order \/ order' = [order EXCEPT ![r] = o],
         mem' = mem \/ \E m : mem' = [mem EXCEPT ![r] = m],
         RequestInv(r)', RowsInv'
  PROVE  RInv'
<1>1. ASSUME NEW q \in Requests \ {r} PROVE RequestInv(q)'
  <2>1. at'[q] = at[q] /\ order'[q] = order[q] /\ mem'[q] = mem[q]
    BY DEF RInv
  <2>2. RequestInv(q)
    BY DEF RInv
  <2> QED
    BY <2>1, <2>2 DEF RequestInv
<1> QED
  BY <1>1 DEF RInv

LEMMA AnswerR ==
  ASSUME RInv, NEW r \in Requests, NEW a \in Answers, Answer(r, a), RowsInv'
  PROVE  RInv'
<1>1. at'[r] = a /\ order'[r] = NoOrder /\ a \in Idle
  BY DEF RInv, Answer, Goto, Idle
<1>2. a \notin SaveStages \cup EditStages \cup BookStages
  BY DEF Answers, SaveStages, TagTables, EditStages, BookStages
<1>3. a \notin {"find", "write", "cascade"}
  BY DEF Answers
<1>4. RequestInv(r)'
  <2>1. mem'[r] = NoMemory
    BY DEF RInv, Answer
  <2> QED
    BY <1>1, <1>2, <1>3, <2>1 DEF RequestInv, NoMemory, Memory
<1> QED
  BY <1>4, OthersR DEF Answer, Goto

LEMMA StayR ==
  ASSUME RowsInv, db' = db
  PROVE  RowsInv'
BY DEF RowsInv

LEMMA RespondR ==
  ASSUME RInv, NEW r \in Requests, NEW a \in Answers, Respond(r, a)
  PROVE  RInv'
BY AnswerR, StayR DEF RInv, Respond

LEMMA StageAfter ==
  ASSUME NEW o, NEW tags
  PROVE  \/ Stage(o, tags) \in TagTables
         \/ Stage(o, tags) = "insert" /\ o.op = "create"
         \/ Stage(o, tags) = "find" /\ o.op # "create"
BY DEF Stage, TagTables

LEMMA StageNames ==
  /\ TagTables \subseteq SaveStages
  /\ {"insert", "find", "write"} \subseteq SaveStages
  /\ \A s \in SaveStages : s \notin Idle \cup EditStages \cup BookStages
  /\ \A s \in EditStages : s \notin Idle \cup SaveStages \cup BookStages
  /\ \A s \in BookStages : s \notin Idle \cup SaveStages \cup EditStages
  /\ \A s \in TagTables : s \notin {"insert", "find", "write"}
  /\ {"count", "remove", "cascade"} = EditStages
  /\ Answers \subseteq Idle /\ "new" \in Idle /\ "new" \notin Answers
BY DEF SaveStages, EditStages, BookStages, TagTables, Idle, Answers

(* A request arrives, or goes on with what it asks for. *)
LEMMA EnterR ==
  ASSUME RInv, NEW r \in Requests, NEW o \in Sends[r], NEW s, NEW m, Enter(r, o, s, m),
         DOMAIN m = Memory,
         \/ /\ s \in SaveStages /\ s # "write"
            /\ o.table \in Tables /\ IsRow(o.table, m.row)
            /\ \/ o.op = "create" /\ s # "find"
               \/ o.op = "update" /\ o.id \in Nat
         \/ s \in {"count", "remove"} /\ o.op = "delete" /\ o.table \in Tables
         \/ s = "readBays" /\ o.op = "book" /\ IsRow("service", m.row)
  PROVE  RInv'
<1>1. at'[r] = s /\ order'[r] = o /\ mem'[r] = m
  BY DEF RInv, Enter, Goto
<1>2. o # NoOrder
  OBVIOUS
<1>3. RequestInv(r)'
  <2>1. CASE s \in SaveStages
    <3>1. s # "write" /\ o.table \in Tables /\ IsRow(o.table, m.row)
      BY <2>1 DEF SaveStages, TagTables
    <3>2. (o.op = "create" /\ s # "find") \/ (o.op = "update" /\ o.id \in Nat)
      BY <2>1 DEF SaveStages, TagTables
    <3>3. s \notin Idle \cup EditStages \cup BookStages /\ s # "cascade"
      BY <2>1, StageNames
    <3> QED
      BY <1>1, <1>2, <2>1, <3>1, <3>2, <3>3 DEF RequestInv
  <2>2. CASE s \in {"count", "remove"}
    <3>1. s \in EditStages /\ s \notin Idle \cup SaveStages \cup BookStages
      BY <2>2, StageNames
    <3>2. o.op = "delete" /\ o.table \in Tables
      BY <2>2, <3>1, StageNames
    <3> QED
      BY <1>1, <1>2, <2>2, <3>1, <3>2, StageNames DEF RequestInv
  <2>3. CASE s = "readBays"
    <3>1. s \in BookStages /\ s \notin Idle \cup SaveStages \cup EditStages
      BY <2>3, StageNames DEF BookStages
    <3>2. o.op = "book" /\ IsRow("service", m.row)
      BY <2>3, <3>1, StageNames
    <3> QED
      BY <1>1, <1>2, <2>3, <3>1, <3>2, StageNames DEF RequestInv
  <2> QED
    BY <2>1, <2>2, <2>3
<1>4. RowsInv'
  BY StayR DEF RInv, Enter
<1> QED
  BY <1>1, <1>3, <1>4, OthersR DEF Enter, Goto

LEMMA ArriveR ==
  ASSUME RInv, NEW r \in Requests, Arrive(r)
  PROVE  RInv'
<1>1. CASE Respond(r, "notFound")
  BY <1>1, RespondR DEF Answers
<1>2. ASSUME NEW o \in Sends[r], NEW row, o.table \in Tables, IsRow(o.table, row),
             CreateRow(r, o, row), o.op = "create" \/ (o.op = "update" /\ o.id \in Nat)
      PROVE  RInv'
  <2> DEFINE s == Stage(o, ToResolve(o))
             m == [NoMemory EXCEPT !.row = row]
  <2>1. m.row = row /\ DOMAIN m = Memory
    BY DEF NoMemory, Memory
  <2>2. s \in SaveStages /\ s # "write" /\ (o.op = "create" => s # "find")
    BY StageAfter, StageNames
  <2>3. Enter(r, o, s, m)
    BY <1>2 DEF CreateRow
  <2> HIDE DEF s, m
  <2> QED
    BY <1>2, <2>1, <2>2, <2>3, EnterR
<1>3. ASSUME NEW o \in Sends[r], Creates(r, o) PROVE RInv'
  BY <1>2, <1>3 DEF Creates
<1>4. ASSUME NEW o \in Sends[r], Updates(r, o) PROVE RInv'
  <2>1. /\ o.op = "update" /\ o.table \in Tables /\ o.id \in DOMAIN db[o.table]
        /\ CreateRow(r, o, Patched(db[o.table][o.id], o.set))
    BY <1>4 DEF Updates, Exists
  <2>2. IsRow(o.table, db[o.table][o.id]) /\ o.id \in Nat
    BY <2>1 DEF RInv, RowsInv
  <2>3. Typed(o.set) /\ DOMAIN o.set \subseteq Columns[o.table]
    BY <2>1, BodiesAssumption
  <2>4. IsRow(o.table, Patched(db[o.table][o.id], o.set))
    BY <2>2, <2>3, PatchedRow
  <2> QED
    BY <1>2, <2>1, <2>2, <2>4
<1>5. ASSUME NEW o \in Sends[r], Deletes(r, o) PROVE RInv'
  BY <1>5, EnterR DEF Deletes, NoMemory, Memory
<1>6. ASSUME NEW o \in Sends[r], Books(r, o) PROVE RInv'
  <2>1. IsRow("service", db["service"][o.service])
    BY <1>6, TableNames DEF Books, RInv, RowsInv
  <2> DEFINE m == [NoMemory EXCEPT !.row = db.service[o.service]]
  <2>2. m.row = db["service"][o.service] /\ DOMAIN m = Memory
    BY DEF NoMemory, Memory
  <2>3. o.op = "book" /\ Enter(r, o, "readBays", m)
    BY <1>6 DEF Books
  <2> HIDE DEF m
  <2> QED
    BY <2>1, <2>2, <2>3, EnterR
<1> QED
  BY <1>1, <1>3, <1>4, <1>5, <1>6, Arrivals

(* A step of a handler that writes nothing and answers nothing.            *)
LEMMA MoveR ==
  ASSUME RInv, NEW r \in Requests, NEW s, Goto(r, s) \/ (s = at[r] /\ at' = at),
         mem' = mem \/ \E m : mem' = [mem EXCEPT ![r] = m],
         UNCHANGED <<db, order>>, DOMAIN mem'[r] = Memory,
         \/ /\ at[r] \in BookStages /\ s \in BookStages
            /\ mem'[r].row = mem[r].row
         \/ /\ at[r] \in TagTables \cup {"find"} /\ mem'[r].row = mem[r].row
            /\ s \in SaveStages
            /\ s = "find" => order[r].op # "create"
            /\ s = "write" => /\ at[r] = "find"
                              /\ IsRow(order[r].table, mem'[r].found)
         \/ at[r] \in {"count", "remove"} /\ s \in EditStages
            /\ (s = "cascade" => order[r].table = "dealership")
  PROVE  RInv'
<1>1. at'[r] = s /\ order'[r] = order[r]
  BY DEF RInv, Goto
<1>2. RequestInv(r)
  BY DEF RInv
<1>3. RequestInv(r)'
  <2>1. CASE at[r] \in BookStages
    <3>1. s \in BookStages /\ mem'[r].row = mem[r].row
      BY <2>1, StageNames
    <3> QED
      BY <1>1, <1>2, <2>1, <3>1, StageNames DEF RequestInv
  <2>2. CASE at[r] \in TagTables \cup {"find"}
    <3>1. /\ mem'[r].row = mem[r].row /\ s \in SaveStages
          /\ s = "find" => order[r].op # "create"
          /\ s = "write" => at[r] = "find" /\ IsRow(order[r].table, mem'[r].found)
      BY <2>2, StageNames
    <3>2. at[r] \in SaveStages /\ at[r] \notin Idle
      BY <2>2, StageNames
    <3> QED
      BY <1>1, <1>2, <3>1, <3>2, StageNames DEF RequestInv
  <2>3. CASE at[r] \in {"count", "remove"}
    <3>1. s \in EditStages /\ (s = "cascade" => order[r].table = "dealership")
      BY <2>3, StageNames
    <3> QED
      BY <1>1, <1>2, <2>3, <3>1, StageNames DEF RequestInv
  <2> QED
    BY <2>1, <2>2, <2>3
<1>4. RowsInv'
  BY StayR DEF RInv
<1> QED
  BY <1>3, <1>4, OthersR DEF Goto

LEMMA InsertR ==
  ASSUME RInv, NEW r \in Requests, Insert(r)
  PROVE  RInv'
<1> DEFINE t == order[r].table
           id == IF order[r].op = "create" THEN r ELSE order[r].id
<1>1. CASE Respond(r, "error")
  BY <1>1, RespondR DEF Answers
<1>2. CASE ~Respond(r, "error")
  <2>1. at[r] = "insert" /\ Edit(r, Inserted(db, t, id, mem[r].row))
    BY <1>2 DEF Insert, InsertRow
  <2>2. t \in Tables /\ id \in Nat /\ IsRow(t, mem[r].row) /\ RowsInv
    BY <2>1, StageNames DEF RInv, RequestInv
  <2>3. RowSet(t, id, mem[r].row)
    BY <2>1, <2>2, InsertedRow DEF Edit, RowsInv
  <2>4. RowsInv'
    BY <2>2, <2>3, RowSetInv
  <2> QED
    BY <2>1, <2>4, AnswerR DEF Edit, Answers
<1> QED
  BY <1>1, <1>2

LEMMA WriteR ==
  ASSUME RInv, NEW r \in Requests, Write(r)
  PROVE  RInv'
<1> DEFINE t == order[r].table
           id == order[r].id
<1>1. CASE Respond(r, "error")
  BY <1>1, RespondR DEF Answers
<1>2. CASE ~Respond(r, "error")
  <2>1. at[r] = "write" /\ Edit(r, Saved(db, t, id, mem[r].row, mem[r].found))
    BY <1>2 DEF Write
  <2>2. t \in Tables /\ id \in Nat /\ IsRow(t, mem[r].row) /\ IsRow(t, mem[r].found) /\ RowsInv
    BY <2>1, StageNames DEF RInv, RequestInv
  <2>3. \/ db' = db
        \/ id \in DOMAIN db[t] /\ RowSet(t, id, Merged(mem[r].row, mem[r].found, db[t][id]))
    BY <2>1, <2>2, SavedRow DEF Edit, RowsInv
  <2>4. id \in DOMAIN db[t] => IsRow(t, Merged(mem[r].row, mem[r].found, db[t][id]))
    BY <2>2, MergedRow DEF RowsInv
  <2>5. RowsInv'
    BY <2>2, <2>3, <2>4, RowSetInv, StayR
  <2> QED
    BY <2>1, <2>5, AnswerR DEF Edit, Answers
<1> QED
  BY <1>1, <1>2

(* Deletion, by its own statement or with the dealership. *)
LEMMA DeleteRowR ==
  ASSUME RInv, NEW r \in Requests, at[r] \in EditStages, DeleteRow(r)
  PROVE  RInv'
<1> DEFINE t == order[r].table
           id == order[r].id
<1>1. CASE Respond(r, "error")
  BY <1>1, RespondR DEF Answers
<1>2. CASE ~Respond(r, "error")
  <2>1. Edit(r, Kept(db, Deleted(t, id), t, id))
    BY <1>2 DEF DeleteRow
  <2>2. t \in Tables /\ RowsInv
    BY DEF RInv, RequestInv
  <2>3. RowsGone(Deleted(t, id), t, id)
    BY <2>1, <2>2, KeptRow DEF Edit, RowsInv
  <2>4. RowsInv'
    BY <2>2, <2>3, RowsGoneInv
  <2> QED
    BY <2>1, <2>4, AnswerR DEF Edit, Answers
<1> QED
  BY <1>1, <1>2

LEMMA ProceedR ==
  ASSUME RInv, NEW r \in Requests, Proceed(r)
  PROVE  RInv'
<1>0. DOMAIN mem[r] = Memory
  BY DEF RInv, RequestInv
<1>1. CASE ResolveByIds(r)
  <2>1. at[r] \in TagTables
    BY <1>1 DEF ResolveByIds
  <2>2. \/ Respond(r, "notFound")
        \/ \E tags : Goto(r, Stage(order[r], tags)) /\ UNCHANGED <<db, order, mem>>
    BY <1>1 DEF ResolveByIds
  <2>3. ASSUME NEW tags, Goto(r, Stage(order[r], tags)), UNCHANGED <<db, order, mem>>
        PROVE  RInv'
    <3> DEFINE s == Stage(order[r], tags)
    <3>1. s \in SaveStages /\ s # "write" /\ (s = "find" => order[r].op # "create")
      BY StageAfter, StageNames
    <3>2. Goto(r, s)
      BY <2>3
    <3> HIDE DEF s
    <3> QED
      BY <1>0, <2>1, <2>3, <3>1, <3>2, MoveR
  <2> QED
    BY <2>2, <2>3, RespondR DEF Answers
<1>2. CASE Find(r)
  <2>1. at[r] = "find" /\ UNCHANGED <<db, order>> /\ order[r].table \in Tables /\ order[r].op # "create"
    BY <1>2, StageNames DEF Find, RInv, RequestInv
  <2>2. CASE Exists(order[r])
    <3>1. /\ mem' = [mem EXCEPT ![r].found = db[order[r].table][order[r].id]]
          /\ Goto(r, "write")
      BY <1>2, <2>2 DEF Find
    <3>2. IsRow(order[r].table, db[order[r].table][order[r].id])
      BY <2>1, <2>2 DEF Exists, RInv, RowsInv
    <3>3. /\ mem' = [mem EXCEPT ![r] = [mem[r] EXCEPT !.found = db[order[r].table][order[r].id]]]
          /\ mem'[r] = [mem[r] EXCEPT !.found = db[order[r].table][order[r].id]]
      BY <3>1 DEF RInv
    <3>4. PICK m : mem' = [mem EXCEPT ![r] = m]
      BY <3>3
    <3>5. mem'[r].row = mem[r].row /\ DOMAIN mem'[r] = Memory
      BY <1>0, <3>3
    <3>6. IsRow(order[r].table, mem'[r].found)
      BY <1>0, <3>2, <3>3 DEF Memory
    <3>7. "write" \in SaveStages /\ at[r] \in TagTables \cup {"find"}
      BY <2>1, StageNames
    <3> QED
      BY <2>1, <3>1, <3>4, <3>5, <3>6, <3>7, MoveR
  <2>3. CASE ~Exists(order[r])
    BY <1>0, <1>2, <2>1, <2>3, StageNames, MoveR DEF Find
  <2> QED
    BY <2>2, <2>3
<1>3. CASE Count(r)
  <2>1. at[r] = "count" /\ (Respond(r, "conflict") \/ (Goto(r, "remove") /\ UNCHANGED <<db, order, mem>>))
    BY <1>3 DEF Count
  <2> QED
    BY <1>0, <2>1, StageNames, MoveR, RespondR DEF Answers
<1>4. CASE Remove(r)
  <2>1. CASE DeleteRow(r)
    BY <1>4, <2>1, StageNames, DeleteRowR DEF Remove
  <2>2. CASE ~DeleteRow(r)
    <3>1. /\ at[r] = "remove" /\ order[r].table = "dealership"
          /\ Goto(r, "cascade") /\ UNCHANGED <<db, order, mem>>
      BY <1>4, <2>2 DEF Remove
    <3> QED
      BY <1>0, <3>1, StageNames, MoveR
  <2> QED
    BY <2>1, <2>2
<1>5. CASE Cascade(r)
  BY <1>5, StageNames, DeleteRowR DEF Cascade
<1>6. ASSUME NEW f \in {"bay", "tech"}, NEW cands, NEW s \in {"lockBays", "lockTechs"},
             at[r] \in BookStages, ReadCandidates(r, f, cands, s)
      PROVE  RInv'
  <2> DEFINE m == [mem[r] EXCEPT ![f] = cands, !.scan = cands]
  <2>1. mem' = [mem EXCEPT ![r] = m] /\ mem'[r] = m
    BY <1>6 DEF ReadCandidates, RInv
  <2>2. mem'[r].row = mem[r].row /\ DOMAIN mem'[r] = Memory
    BY ZenonT(60), <1>0, <2>1 DEF Memory
  <2>3. s \in BookStages /\ Goto(r, s) /\ UNCHANGED <<db, order>>
    BY <1>6 DEF ReadCandidates, BookStages
  <2> HIDE DEF m
  <2> QED
    BY <1>6, <2>1, <2>2, <2>3, MoveR
<1>7. CASE ReadBays(r) \/ ReadTechs(r)
  <2>1. at[r] \in BookStages
    BY <1>7 DEF ReadBays, ReadTechs, BookStages
  <2> QED
    BY <1>6, <1>7, <2>1 DEF ReadBays, ReadTechs
<1>8. CASE LockRow(r)
  <2> DEFINE m == [mem[r] EXCEPT !.scan = @ \ Earliest(@)]
  <2>1. mem' = [mem EXCEPT ![r] = m] /\ mem'[r] = m
    BY <1>8 DEF LockRow, RInv
  <2>2. mem'[r].row = mem[r].row /\ DOMAIN mem'[r] = Memory
    BY <1>0, <2>1 DEF Memory
  <2>3. at[r] \in BookStages /\ at' = at /\ UNCHANGED <<db, order>>
    BY <1>8 DEF LockRow, BookStages
  <2> HIDE DEF m
  <2> QED
    BY <2>1, <2>2, <2>3, MoveR
<1>9. CASE FindAvailableBays(r)
  <2> DEFINE m == [mem[r] EXCEPT !.bay = @ \ Rules(Seen(r))!BusyBays(appts, order[r].start, End(r))]
  <2>1. mem' = [mem EXCEPT ![r] = m] /\ mem'[r] = m
    BY <1>9 DEF FindAvailableBays, RInv
  <2>2. mem'[r].row = mem[r].row /\ DOMAIN mem'[r] = Memory
    BY <1>0, <2>1 DEF Memory
  <2>3. /\ at[r] \in BookStages /\ "readTechs" \in BookStages
        /\ Goto(r, "readTechs") /\ UNCHANGED <<db, order>>
    BY <1>9 DEF FindAvailableBays, BookStages
  <2> HIDE DEF m
  <2> QED
    BY <2>1, <2>2, <2>3, MoveR
<1>10. CASE FindAvailableTechnicians(r)
  <2>1. CASE Respond(r, "full")
    BY <2>1, RespondR DEF Answers
  <2>2. CASE ~Respond(r, "full")
    <3> DEFINE m == [mem[r] EXCEPT !.tech = mem[r].tech \ Rules(Seen(r))!BusyTechs(appts, order[r].start, End(r))]
    <3>1. mem' = [mem EXCEPT ![r] = m] /\ mem'[r] = m
      BY <1>10, <2>2 DEF FindAvailableTechnicians, RInv
    <3>2. mem'[r].row = mem[r].row /\ DOMAIN mem'[r] = Memory
      BY <1>0, <3>1 DEF Memory
    <3>3. /\ at[r] \in BookStages /\ "book" \in BookStages
          /\ Goto(r, "book") /\ UNCHANGED <<db, order>>
      BY <1>10, <2>2 DEF FindAvailableTechnicians, BookStages
    <3> HIDE DEF m
    <3> QED
      BY <3>1, <3>2, <3>3, MoveR
  <2> QED
    BY <2>1, <2>2
<1>11. CASE InsertAppointment(r)
  <2>1. CASE Respond(r, "error")
    BY <2>1, RespondR DEF Answers
  <2>2. CASE ~Respond(r, "error")
    <3>1. Answer(r, "ok") /\ db' = db
      BY <1>11, <2>2 DEF InsertAppointment
    <3> QED
      BY <3>1, StayR, AnswerR DEF RInv, Answers
  <2> QED
    BY <2>1, <2>2
<1>12. CASE DeadlockVictim(r)
  BY <1>12, RespondR DEF DeadlockVictim, Answers
<1> QED
  BY <1>1, <1>2, <1>3, <1>4, <1>5, <1>7, <1>8, <1>9, <1>10, <1>11, <1>12, InsertR, WriteR DEF Proceed

LEMMA NextR ==
  ASSUME RInv, [Next]_vars
  PROVE  RInv'
<1>1. ASSUME NEW r \in Requests, Fail(r) PROVE RInv'
  BY <1>1, RespondR DEF Fail, Answers
<1>2. CASE UNCHANGED vars
  BY <1>2, StayR DEF vars, RInv, RequestInv
<1> QED
  BY <1>1, <1>2, ArriveR, ProceedR DEF Next

LEMMA InitR == Init => RInv
<1> SUFFICES ASSUME Init PROVE RInv
  OBVIOUS
<1>1. RowsInv
  BY InitialAssumption DEF Init, RowsInv
<1>2. ASSUME NEW r \in Requests PROVE RequestInv(r)
  BY <1>2, StageNames DEF Init, RequestInv, NoMemory, Memory
<1> QED
  BY <1>1, <1>2 DEF Init, RInv

-----------------------------------------------------------------------------
(* References.  A bay or a technician is of one dealership for ever: even  *)
(* the row that an edit inserts again has the dealership it had, which is  *)
(* that of the appointments that refer to it.                              *)

Housed == {"bay", "tech"}

Target(r) == IF order[r].op = "create" THEN r ELSE order[r].id

(* What says that the row i of t is of the dealership d: the row itself,   *)
(* an appointment, and what a request has in memory.                       *)
RowClaim(t, i, d) == i \in DOMAIN db[t] /\ db[t][i]["dealership"] = d

AppointmentClaim(t, i, d) == \E a \in appts : a[t] = i /\ a.dealership = d

RequestClaim(r, t, i, d) ==
  \/ /\ at[r] \in SaveStages /\ order[r].table = t
     /\ i = Target(r) /\ mem[r].row["dealership"] = d
  \/ /\ at[r] = "write" /\ order[r].table = t
     /\ i = order[r].id /\ mem[r].found["dealership"] = d
  \/ i \in mem[r][t] /\ order[r].dealership = d

Claimed(t, i, d) ==
  \/ RowClaim(t, i, d)
  \/ AppointmentClaim(t, i, d)
  \/ \E r \in Requests : RequestClaim(r, t, i, d)

HomeInv == \A t \in Housed : \A i, d, e : Claimed(t, i, d) /\ Claimed(t, i, e) => d = e

(* The id that a request will insert is not used before. *)
Unused(i) ==
  /\ \A t \in Tables : i \notin DOMAIN db[t]
  /\ \A t \in Housed : \A r \in Requests : i \notin mem[r][t]
  /\ \A t \in Housed : \A a \in appts : a[t] # i
  /\ \A r \in Requests : at[r] \in SaveStages /\ order[r].op = "update" => order[r].id # i

FreshInv == \A r \in Requests : at[r] \notin Answers => Unused(r)

ReferringInv == \A a \in appts : {"dealership", "service", "bay", "tech"} \subseteq DOMAIN a

DInv == HomeInv /\ FreshInv /\ ReferringInv /\ NothingDangles

(* Each claim after a step was one before it. *)
OldClaims(r) ==
  \A t \in Housed : \A i, d :
    (RowClaim(t, i, d)' \/ AppointmentClaim(t, i, d)' \/ RequestClaim(r, t, i, d)') =>
      Claimed(t, i, d)

LEMMA HomeStep ==
  ASSUME RInv, HomeInv, NEW r \in Requests, NEW s, NEW o,
         at' = at \/ at' = [at EXCEPT ![r] = s],
         order' = order \/ order' = [order EXCEPT ![r] = o],
         mem' = mem \/ \E m : mem' = [mem EXCEPT ![r] = m],
         OldClaims(r)
  PROVE  HomeInv'
<1>1. ASSUME NEW t \in Housed, NEW i, NEW d, Claimed(t, i, d)' PROVE Claimed(t, i, d)
  <2>1. CASE RowClaim(t, i, d)' \/ AppointmentClaim(t, i, d)' \/ RequestClaim(r, t, i, d)'
    BY <2>1 DEF OldClaims
  <2>2. CASE \E q \in Requests \ {r} : RequestClaim(q, t, i, d)'
    <3>1. PICK q \in Requests \ {r} : RequestClaim(q, t, i, d)'
      BY <2>2
    <3>2. at'[q] = at[q] /\ order'[q] = order[q] /\ mem'[q] = mem[q]
      BY DEF RInv
    <3>3. RequestClaim(q, t, i, d)
      BY <3>1, <3>2 DEF RequestClaim, Target
    <3> QED
      BY <3>3 DEF Claimed
  <2> QED
    BY <1>1, <2>1, <2>2 DEF Claimed
<1> QED
  BY <1>1 DEF HomeInv

LEMMA FreshStep ==
  ASSUME RInv, FreshInv, NEW r \in Requests, NEW s, NEW o,
         at' = at \/ at' = [at EXCEPT ![r] = s],
         order' = order \/ order' = [order EXCEPT ![r] = o],
         mem' = mem \/ \E m : mem' = [mem EXCEPT ![r] = m],
         at'[r] \notin Answers => at[r] \notin Answers,
         \A t \in Tables : \A i \in DOMAIN db'[t] \ DOMAIN db[t] :
           \A q \in Requests : i = q => at'[q] \in Answers,
         \A t \in Housed : mem'[r][t] \subseteq mem[r][t] \cup DOMAIN db[t],
         \A t \in Housed : \A a \in appts' \ appts : a[t] \in mem[r][t],
         at'[r] \in SaveStages /\ order'[r].op = "update" =>
           \/ at[r] \in SaveStages /\ order'[r] = order[r]
           \/ \E t \in Tables : order'[r].id \in DOMAIN db[t]
  PROVE  FreshInv'
<1> SUFFICES ASSUME NEW i \in Requests, at'[i] \notin Answers PROVE Unused(i)'
  BY DEF FreshInv
<1>1. Unused(i)
  BY DEF RInv, FreshInv
<1>2. Housed \subseteq Tables
  BY TableNames DEF Housed
<1>3. \A t \in Tables : i \notin DOMAIN db'[t]
  BY <1>1 DEF Unused
<1>4. ASSUME NEW t \in Housed, NEW q \in Requests PROVE i \notin mem'[q][t]
  BY <1>1, <1>2 DEF Unused, RInv
<1>5. ASSUME NEW t \in Housed, NEW a \in appts' PROVE a[t] # i
  BY <1>1 DEF Unused
<1>6. ASSUME NEW q \in Requests, at'[q] \in SaveStages, order'[q].op = "update"
      PROVE  order'[q].id # i
  <2>1. CASE q # r
    BY <1>1, <1>6, <2>1 DEF Unused, RInv
  <2>2. CASE q = r
    BY <1>1, <1>6, <2>2 DEF Unused
  <2> QED
    BY <2>1, <2>2
<1> QED
  BY <1>3, <1>4, <1>5, <1>6 DEF Unused

(* A request that is answered claims nothing. *)
LEMMA AnswerClaims ==
  ASSUME RInv, NEW r \in Requests, NEW a \in Answers, Answer(r, a),
         NEW t \in Housed, NEW i, NEW d
  PROVE  ~RequestClaim(r, t, i, d)'
<1>1. at'[r] = a /\ mem'[r] = NoMemory
  BY DEF RInv, Answer, Goto
<1>2. a \notin SaveStages /\ a # "write"
  BY StageNames
<1>3. mem'[r][t] = {}
  BY <1>1 DEF NoMemory, Housed
<1> QED
  BY <1>1, <1>2, <1>3 DEF RequestClaim

(* An answer, with what the statement before it did to rows and            *)
(* appointments.                                                           *)
LEMMA AnswerD ==
  ASSUME RInv, DInv, NEW r \in Requests, NEW a \in Answers, Answer(r, a),
         \A t \in Housed : \A i, d :
           RowClaim(t, i, d)' \/ AppointmentClaim(t, i, d)' => Claimed(t, i, d),
         \A t \in Tables : \A i \in DOMAIN db'[t] \ DOMAIN db[t] :
           \A q \in Requests : i = q => at'[q] \in Answers,
         \A t \in Housed : \A x \in appts' \ appts : x[t] \in mem[r][t],
         ReferringInv', NothingDangles'
  PROVE  DInv'
<1>1. /\ at' = [at EXCEPT ![r] = a] /\ order' = [order EXCEPT ![r] = NoOrder]
      /\ mem' = [mem EXCEPT ![r] = NoMemory]
  BY DEF Answer, Goto
<1>2. at'[r] = a /\ mem'[r] = NoMemory /\ a \notin SaveStages
  BY <1>1, StageNames DEF RInv
<1>3. \A t \in Housed : mem'[r][t] = {}
  BY <1>2 DEF NoMemory, Housed
<1>4. OldClaims(r)
  BY AnswerClaims DEF OldClaims
<1>5. HomeInv'
  BY <1>1, <1>4, HomeStep DEF DInv
<1>6. FreshInv'
  BY <1>1, <1>2, <1>3, FreshStep DEF DInv
<1> QED
  BY <1>5, <1>6 DEF DInv

LEMMA StayD ==
  ASSUME DInv, UNCHANGED <<db, appts>>
  PROVE  /\ ReferringInv' /\ NothingDangles'
         /\ \A t \in Housed : \A i, d :
              RowClaim(t, i, d)' \/ AppointmentClaim(t, i, d)' => Claimed(t, i, d)
BY DEF DInv, ReferringInv, NothingDangles, RowClaim, AppointmentClaim, Claimed

LEMMA RespondD ==
  ASSUME RInv, DInv, NEW r \in Requests, NEW a \in Answers, Respond(r, a)
  PROVE  DInv'
BY StayD, AnswerD DEF Respond

LEMMA EnterD ==
  ASSUME RInv, DInv, NEW r \in Requests, NEW o, NEW s, NEW m, at[r] \notin Answers,
         Enter(r, o, s, m), m.bay = {}, m.tech = {}, s # "write",
         s \in SaveStages =>
           \/ /\ o.op = "create"
              /\ Unused(r) /\ at[r] \notin SaveStages
           \/ /\ o.op = "update"
              /\ o.table \in Tables /\ o.id \in DOMAIN db[o.table]
              /\ o.table \in Housed => m.row["dealership"] = db[o.table][o.id]["dealership"]
  PROVE  DInv'
<1>1. /\ at' = [at EXCEPT ![r] = s] /\ order' = [order EXCEPT ![r] = o]
      /\ mem' = [mem EXCEPT ![r] = m] /\ UNCHANGED <<db, appts>>
  BY DEF Enter, Goto
<1>2. at'[r] = s /\ order'[r] = o /\ mem'[r] = m
  BY <1>1 DEF RInv
<1>3. \A t \in Housed : mem'[r][t] = {}
  BY <1>2 DEF Housed
<1>4. FreshInv'
  <2>1. at'[r] \in SaveStages /\ order'[r].op = "update" =>
          \E t \in Tables : order'[r].id \in DOMAIN db[t]
    BY <1>2
  <2>2. \A t \in Housed : mem'[r][t] \subseteq mem[r][t] \cup DOMAIN db[t]
    BY <1>3
  <2>3. appts' \ appts = {} /\ \A t \in Tables : DOMAIN db'[t] \ DOMAIN db[t] = {}
    BY <1>1
  <2> QED
    BY <1>1, <2>1, <2>2, <2>3, FreshStep DEF DInv
<1>5. ASSUME NEW t \in Housed, NEW i, NEW d,
             RowClaim(t, i, d)' \/ AppointmentClaim(t, i, d)'
      PROVE  Claimed(t, i, d)
  BY <1>1, <1>5 DEF RowClaim, AppointmentClaim, Claimed
<1>6. CASE s \in SaveStages /\ o.op = "create"
  <2>1. Unused(r) /\ at[r] \notin SaveStages
    BY <1>6
  <2>2. ASSUME NEW t \in Housed, NEW d PROVE ~Claimed(t, r, d)
    <3>1. t \in Tables
      BY TableNames DEF Housed
    <3>2. ~RowClaim(t, r, d) /\ ~AppointmentClaim(t, r, d)
      BY <2>1, <3>1 DEF Unused, RowClaim, AppointmentClaim
    <3>3. ASSUME NEW q \in Requests PROVE ~RequestClaim(q, t, r, d)
      <4>1. r \notin mem[q][t]
        BY <2>1 DEF Unused
      <4>2. at[q] \in SaveStages => order[q].op \in {"create", "update"}
        BY DEF RInv, RequestInv
      <4>3. at[q] \in SaveStages => r # Target(q)
        BY <2>1, <4>2 DEF Unused, Target
      <4>4. at[q] = "write" => order[q].op = "update" /\ at[q] \in SaveStages
        BY StageNames DEF RInv, RequestInv
      <4> QED
        BY <2>1, <4>1, <4>3, <4>4 DEF RequestClaim, Unused
    <3> QED
      BY <3>2, <3>3 DEF Claimed
  <2>3. ASSUME NEW t \in Housed, NEW i, NEW d, Claimed(t, i, d)'
        PROVE  Claimed(t, i, d) \/ (i = r /\ d = m.row["dealership"])
    <3>1. CASE RequestClaim(r, t, i, d)'
      BY <1>2, <1>3, <1>6, <3>1 DEF RequestClaim, Target
    <3>2. CASE \E q \in Requests \ {r} : RequestClaim(q, t, i, d)'
      <4>1. PICK q \in Requests \ {r} : RequestClaim(q, t, i, d)'
        BY <3>2
      <4>2. at'[q] = at[q] /\ order'[q] = order[q] /\ mem'[q] = mem[q]
        BY <1>1 DEF RInv
      <4>3. RequestClaim(q, t, i, d)
        BY <4>1, <4>2 DEF RequestClaim, Target
      <4> QED
        BY <4>3 DEF Claimed
    <3> QED
      BY <1>5, <2>3, <3>1, <3>2 DEF Claimed
  <2>4. ASSUME NEW t \in Housed, NEW i, NEW d, NEW e, Claimed(t, i, d)', Claimed(t, i, e)'
        PROVE  d = e
    <3>1. Claimed(t, i, d) \/ (i = r /\ d = m.row["dealership"])
      BY <2>3, <2>4
    <3>2. Claimed(t, i, e) \/ (i = r /\ e = m.row["dealership"])
      BY <2>3, <2>4
    <3> QED
      BY <2>2, <3>1, <3>2 DEF DInv, HomeInv
  <2>5. HomeInv'
    BY <2>4 DEF HomeInv
  <2> QED
    BY <1>1, <1>4, <2>5, StayD DEF DInv
<1>7. CASE ~(s \in SaveStages /\ o.op = "create")
  <2>1. ASSUME NEW t \in Housed, NEW i, NEW d, RequestClaim(r, t, i, d)'
        PROVE  Claimed(t, i, d)
    <3>1. /\ s \in SaveStages /\ o.table = t /\ m.row["dealership"] = d
          /\ i = IF o.op = "create" THEN r ELSE o.id
      BY <1>2, <1>3, <2>1 DEF RequestClaim, Target
    <3>2. /\ i = o.id /\ i \in DOMAIN db[t]
          /\ m.row["dealership"] = db[t][i]["dealership"]
      BY <1>7, <3>1
    <3> QED
      BY <3>1, <3>2 DEF Claimed, RowClaim
  <2>2. OldClaims(r)
    BY <1>5, <2>1 DEF OldClaims
  <2>3. HomeInv'
    BY <1>1, <2>2, HomeStep DEF DInv
  <2> QED
    BY <1>1, <1>4, <2>3, StayD DEF DInv
<1> QED
  BY <1>6, <1>7

LEMMA ArriveD ==
  ASSUME RInv, DInv, NEW r \in Requests, Arrive(r)
  PROVE  DInv'
<1>0. at[r] = "new" /\ at[r] \notin Answers /\ at[r] \notin SaveStages /\ Unused(r)
  BY Arrivals, StageNames DEF DInv, FreshInv
<1>1. CASE Respond(r, "notFound")
  BY <1>1, RespondD DEF Answers
<1>2. ASSUME NEW o, NEW row, CreateRow(r, o, row),
             \/ o.op = "create"
             \/ /\ o.op = "update" /\ o.table \in Tables /\ o.id \in DOMAIN db[o.table]
                /\ o.table \in Housed => row["dealership"] = db[o.table][o.id]["dealership"]
      PROVE  DInv'
  <2> DEFINE s == Stage(o, ToResolve(o))
             m == [NoMemory EXCEPT !.row = row]
  <2>1. m.row = row /\ m.bay = {} /\ m.tech = {}
    BY DEF NoMemory
  <2>2. s # "write"
    BY StageAfter, StageNames
  <2>3. Enter(r, o, s, m)
    BY <1>2 DEF CreateRow
  <2> HIDE DEF s, m
  <2> QED
    BY <1>0, <1>2, <2>1, <2>2, <2>3, EnterD
<1>3. ASSUME NEW o \in Sends[r], Creates(r, o) PROVE DInv'
  BY <1>2, <1>3 DEF Creates
<1>4. ASSUME NEW o \in Sends[r], Updates(r, o) PROVE DInv'
  <2>1. /\ o.op = "update" /\ o.table \in Tables /\ o.id \in DOMAIN db[o.table]
        /\ CreateRow(r, o, Patched(db[o.table][o.id], o.set))
    BY <1>4 DEF Updates, Exists
  <2>2. "dealership" \notin DOMAIN o.set
    BY <2>1, BodiesAssumption
  <2>3. o.table \in Housed => "dealership" \in DOMAIN db[o.table][o.id]
    BY <2>1 DEF RInv, RowsInv, IsRow, Columns, Housed, ServiceBay, Technician
  <2>4. o.table \in Housed =>
          Patched(db[o.table][o.id], o.set)["dealership"] = db[o.table][o.id]["dealership"]
    BY <2>2, <2>3 DEF Patched
  <2> QED
    BY <1>2, <2>1, <2>4
<1>5. ASSUME NEW o, NEW s \in EditStages \cup BookStages, NEW m, m.bay = {}, m.tech = {}, Enter(r, o, s, m)
      PROVE  DInv'
  <2>1. s \notin SaveStages /\ s # "write"
    BY <1>5, StageNames
  <2> QED
    BY <1>0, <1>5, <2>1, EnterD
<1>6. ASSUME NEW o \in Sends[r], Deletes(r, o) PROVE DInv'
  BY <1>5, <1>6, StageNames DEF Deletes, NoMemory
<1>7. ASSUME NEW o \in Sends[r], Books(r, o) PROVE DInv'
  BY <1>5, <1>7 DEF Books, NoMemory, BookStages
<1> QED
  BY <1>1, <1>3, <1>4, <1>6, <1>7, Arrivals

LEMMA MoveD ==
  ASSUME RInv, DInv, NEW r \in Requests, NEW s, Goto(r, s) \/ (s = at[r] /\ at' = at),
         mem' = mem \/ \E m : mem' = [mem EXCEPT ![r] = m],
         UNCHANGED <<db, appts, order>>, at[r] \notin Answers,
         s \in SaveStages => at[r] \in SaveStages /\ mem'[r].row = mem[r].row,
         s = "write" =>
           /\ order[r].id \in DOMAIN db[order[r].table]
           /\ mem'[r].found = db[order[r].table][order[r].id],
         \A t \in Housed : \A i \in mem'[r][t] :
           i \in mem[r][t] \/ RowClaim(t, i, order[r].dealership)
  PROVE  DInv'
<1>1. at'[r] = s /\ order'[r] = order[r]
  BY DEF RInv, Goto
<1>2. at' = at \/ at' = [at EXCEPT ![r] = s]
  BY DEF Goto
<1>3. ASSUME NEW t \in Housed, NEW i, NEW d, RequestClaim(r, t, i, d)'
      PROVE  Claimed(t, i, d)
  <2>1. CASE /\ at'[r] \in SaveStages /\ order'[r].table = t
             /\ i = Target(r)' /\ mem'[r].row["dealership"] = d
    <3>1. RequestClaim(r, t, i, d)
      BY <1>1, <2>1 DEF RequestClaim, Target
    <3> QED
      BY <3>1 DEF Claimed
  <2>2. CASE /\ at'[r] = "write" /\ order'[r].table = t
             /\ i = order'[r].id /\ mem'[r].found["dealership"] = d
    <3>1. RowClaim(t, i, d)
      BY <1>1, <2>2 DEF RowClaim
    <3> QED
      BY <3>1 DEF Claimed
  <2>3. CASE i \in mem'[r][t] /\ order'[r].dealership = d
    <3>1. RequestClaim(r, t, i, d) \/ RowClaim(t, i, d)
      BY <1>1, <2>3 DEF RequestClaim
    <3> QED
      BY <3>1 DEF Claimed
  <2> QED
    BY <1>3, <2>1, <2>2, <2>3 DEF RequestClaim
<1>4. OldClaims(r)
  BY <1>3, StayD DEF OldClaims
<1>5. HomeInv'
  BY <1>2, <1>4, HomeStep DEF DInv
<1>6. FreshInv'
  <2>1. \A t \in Housed : mem'[r][t] \subseteq mem[r][t] \cup DOMAIN db[t]
    BY DEF RowClaim
  <2>2. appts' \ appts = {} /\ \A t \in Tables : DOMAIN db'[t] \ DOMAIN db[t] = {}
    OBVIOUS
  <2>3. at'[r] \in SaveStages => at[r] \in SaveStages /\ order'[r] = order[r]
    BY <1>1
  <2> QED
    BY <1>2, <2>1, <2>2, <2>3, FreshStep DEF DInv
<1> QED
  BY <1>5, <1>6, StayD DEF DInv

LEMMA Refers ==
  ASSUME NEW rs, NEW row
  PROVE  RefersTo(rs, row) <=>
           /\ "dealership" \in DOMAIN row => row["dealership"] \in DOMAIN rs["dealership"]
           /\ \A f \in TagTables : f \in DOMAIN row => row[f] \subseteq DOMAIN rs[f]
BY DEF RefersTo, Sets

(* More rows to refer to do no harm. *)
LEMMA RowSetRefs ==
  ASSUME NothingDangles, DOMAIN db = Tables, appts' = appts, NEW t \in Tables, NEW id, NEW row,
         RowSet(t, id, row), RefersTo(db, row)
  PROVE  NothingDangles'
<1>1. \A u \in Tables : DOMAIN db[u] \subseteq DOMAIN db'[u]
  BY DEF RowSet
<1>2. ASSUME NEW x, RefersTo(db, x) PROVE RefersTo(db', x)
  <2>1. TagTables \subseteq Tables
    BY DEF Tables
  <2> QED
    BY <1>1, <1>2, <2>1, Refers, TableNames
<1>3. ASSUME NEW u \in Tables, NEW i \in DOMAIN db'[u] PROVE RefersTo(db', db'[u][i])
  BY <1>2, <1>3 DEF RowSet, NothingDangles
<1>4. ASSUME NEW a \in appts, NEW f \in Tables \cap DOMAIN a PROVE a[f] \in DOMAIN db'[f]
  BY <1>1 DEF NothingDangles
<1> QED
  BY <1>3, <1>4 DEF NothingDangles

(* An UPDATE keeps the dealership, and the ids it adds are there. *)
LEMMA MergedRefs ==
  ASSUME NEW t \in Tables, NEW row, NEW found, NEW now,
         IsRow(t, row), IsRow(t, found), IsRow(t, now),
         RefersTo(db, now), RefersTo(db, Added(row, found)),
         "dealership" \in DOMAIN now => row["dealership"] = found["dealership"]
  PROVE  RefersTo(db, Merged(row, found, now))
<1> DEFINE merged == Merged(row, found, now)
<1>1. DOMAIN merged = Columns[t]
  BY DEF IsRow, Merged
<1>2. "dealership" \in Columns[t] => merged["dealership"] = now["dealership"]
  BY DEF IsRow, Merged, Changed, TagTables
<1>3. ASSUME NEW f \in TagTables, f \in Columns[t] PROVE merged[f] \subseteq DOMAIN db[f]
  <2>1. merged[f] = (now[f] \cup (row[f] \ found[f])) \ (found[f] \ row[f])
    BY <1>3 DEF IsRow, Merged
  <2>2. now[f] \subseteq DOMAIN db[f]
    BY <1>3, Refers DEF IsRow
  <2>3. f \in DOMAIN Added(row, found) /\ Added(row, found)[f] = row[f] \ found[f]
    BY <1>3 DEF IsRow, Added, Sets
  <2>4. row[f] \ found[f] \subseteq DOMAIN db[f]
    BY <2>3, Refers
  <2> QED
    BY <2>1, <2>2, <2>4
<1>4. "dealership" \in Columns[t] => now["dealership"] \in DOMAIN db["dealership"]
  BY Refers DEF IsRow
<1> HIDE DEF merged
<1>5. RefersTo(db, merged)
  BY <1>1, <1>2, <1>3, <1>4, Refers
<1> QED
  BY <1>5 DEF merged

(* DELETE takes nothing away that is referred to: the rows of a dealership *)
(* go with it, those whose appointments would refer to them have its       *)
(* appointments, and it is not deleted when it has any.                    *)
LEMMA DeleteRefs ==
  ASSUME RInv, DInv, appts' = appts, NEW t \in Tables, NEW id,
         ~Referenced(t, id), RowsGone(Deleted(t, id), t, id)
  PROVE  NothingDangles'
<1>1. ASSUME NEW u, NEW i, <<u, i>> \in Deleted(t, id)
      PROVE  \/ u = t /\ i = id
             \/ t = "dealership" /\ u \in Housed /\ RowClaim(u, i, id)
  BY <1>1 DEF Deleted, Rows, Housed, RowClaim
<1>2. <<t, id>> \in Deleted(t, id)
  BY DEF Deleted
<1>3. ASSUME t = "dealership", NEW u \in Housed, NEW i, RowClaim(u, i, id)
      PROVE  <<u, i>> \in Deleted(t, id)
  BY <1>3 DEF Deleted, Rows, Housed, RowClaim
<1>4. ASSUME NEW u \in Tables, NEW i \in DOMAIN db'[u] PROVE RefersTo(db', db'[u][i])
  <2> DEFINE row == db[u][i]
             left == db'[u][i]
  <2>1. i \in DOMAIN db[u] /\ <<u, i>> \notin Deleted(t, id)
    BY <1>4 DEF RowsGone
  <2>2. RefersTo(db, row) /\ DOMAIN row = Columns[u]
    BY <2>1 DEF RInv, RowsInv, IsRow, DInv, NothingDangles
  <2>3. /\ DOMAIN left = DOMAIN row
        /\ \A f \in DOMAIN row : left[f] = IF f = t /\ t \in TagTables THEN row[f] \ {id} ELSE row[f]
    BY <1>4 DEF RowsGone
  <2>4. ASSUME "dealership" \in DOMAIN row PROVE left["dealership"] \in DOMAIN db'["dealership"]
    <3>1. u \in Housed
      BY <2>2, <2>4 DEF Columns, Tables, TagTables, Housed, Dealership, Capability, Skill, ServiceType
    <3>2. left["dealership"] = row["dealership"] /\ row["dealership"] \in DOMAIN db["dealership"]
      BY <2>2, <2>3, <2>4, Refers DEF TagTables
    <3>3. RowClaim(u, i, row["dealership"])
      BY <2>1 DEF RowClaim
    <3>4. <<"dealership", row["dealership"]>> \notin Deleted(t, id)
      BY <1>1, <1>3, <2>1, <3>1, <3>3 DEF Housed
    <3> QED
      BY <3>2, <3>4, TableNames DEF RowsGone
  <2>5. ASSUME NEW f \in TagTables, f \in DOMAIN row PROVE left[f] \subseteq DOMAIN db'[f]
    <3>1. row[f] \subseteq DOMAIN db[f]
      BY <2>2, <2>5, Refers
    <3>2. f \in Tables /\ f \notin Housed
      BY DEF Tables, TagTables, Housed
    <3>3. DOMAIN db'[f] = {j \in DOMAIN db[f] : <<f, j>> \notin Deleted(t, id)}
      BY <3>2 DEF RowsGone
    <3>4. CASE f = t
      <4>1. left[f] = row[f] \ {id}
        BY <2>3, <2>5, <3>4
      <4>2. \A j \in row[f] \ {id} : <<f, j>> \notin Deleted(t, id)
        BY <1>1, <3>2
      <4> QED
        BY <3>1, <3>3, <4>1, <4>2
    <3>5. CASE f # t
      <4>1. left[f] = row[f]
        BY <2>3, <2>5, <3>5
      <4>2. \A j \in row[f] : <<f, j>> \notin Deleted(t, id)
        BY <1>1, <3>2, <3>5
      <4> QED
        BY <3>1, <3>3, <4>1, <4>2
    <3> QED
      BY <3>4, <3>5
  <2> HIDE DEF left
  <2>6. RefersTo(db', left)
    BY <2>3, <2>4, <2>5, Refers
  <2> QED
    BY <2>6 DEF left
<1>5. ASSUME NEW a \in appts, NEW f \in Tables \cap DOMAIN a PROVE a[f] \in DOMAIN db'[f]
  <2>1. a[f] \in DOMAIN db[f]
    BY DEF DInv, NothingDangles
  <2>2. ~(f = t /\ a[f] = id)
    BY DEF Referenced
  <2>3. ASSUME t = "dealership", f \in Housed, RowClaim(f, a[f], id) PROVE FALSE
    <3>1. Claimed(f, a[f], id) /\ Claimed(f, a[f], a.dealership)
      BY <2>3 DEF Claimed, AppointmentClaim
    <3>2. a.dealership = id
      BY <2>3, <3>1 DEF DInv, HomeInv
    <3>3. "dealership" \in DOMAIN a
      BY DEF DInv, ReferringInv
    <3> QED
      BY <2>3, <3>2, <3>3 DEF Referenced
  <2>4. <<f, a[f]>> \notin Deleted(t, id)
    BY <1>1, <2>2, <2>3
  <2> QED
    BY <2>1, <2>4 DEF RowsGone
<1> QED
  BY <1>4, <1>5 DEF NothingDangles

LEMMA InsertD ==
  ASSUME RInv, DInv, NEW r \in Requests, Insert(r)
  PROVE  DInv'
<1> DEFINE t == order[r].table
           id == Target(r)
           row == mem[r].row
<1>1. CASE Respond(r, "error")
  BY <1>1, RespondD DEF Answers
<1>2. CASE ~Respond(r, "error")
  <2>1. at[r] = "insert" /\ RefersTo(db, row) /\ Edit(r, Inserted(db, t, id, row))
    BY <1>2 DEF Insert, InsertRow, Target
  <2>2. t \in Tables /\ DOMAIN db = Tables /\ at[r] \in SaveStages /\ at[r] \notin Answers
    BY <2>1, StageNames DEF RInv, RequestInv, RowsInv
  <2>3. RowSet(t, id, row) /\ appts' = appts /\ Answer(r, "ok")
    BY <2>1, <2>2, InsertedRow DEF Edit
  <2>4. NothingDangles' /\ ReferringInv'
    BY <2>1, <2>2, <2>3, RowSetRefs DEF DInv, ReferringInv
  <2>5. ASSUME NEW u \in Housed, NEW i, NEW d, RowClaim(u, i, d)' \/ AppointmentClaim(u, i, d)'
        PROVE  Claimed(u, i, d)
    <3>1. CASE AppointmentClaim(u, i, d)'
      BY <2>3, <3>1 DEF AppointmentClaim, Claimed
    <3>2. CASE RowClaim(u, i, d)'
      <4>1. u \in Tables
        BY TableNames DEF Housed
      <4>2. CASE u = t /\ i = id
        <5>1. row["dealership"] = d
          BY <2>3, <3>2, <4>1, <4>2 DEF RowClaim, RowSet
        <5>2. RequestClaim(r, u, i, d)
          BY <2>2, <4>2, <5>1 DEF RequestClaim
        <5> QED
          BY <5>2 DEF Claimed
      <4>3. CASE ~(u = t /\ i = id)
        <5>1. RowClaim(u, i, d)
          BY <2>3, <3>2, <4>1, <4>3 DEF RowClaim, RowSet
        <5> QED
          BY <5>1 DEF Claimed
      <4> QED
        BY <4>2, <4>3
    <3> QED
      BY <2>5, <3>1, <3>2
  <2>6. ASSUME NEW u \in Tables, NEW i \in DOMAIN db'[u] \ DOMAIN db[u], NEW q \in Requests, i = q
        PROVE  at'[q] \in Answers
    <3>1. u = t /\ i = id
      BY <2>3, <2>6 DEF RowSet
    <3>2. CASE order[r].op = "create"
      <4>1. q = r /\ at'[r] = "ok"
        BY <2>3, <2>6, <3>1, <3>2 DEF Target, Answer, Goto, RInv
      <4> QED
        BY <4>1 DEF Answers
    <3>3. CASE order[r].op # "create"
      <4>1. order[r].op = "update" /\ order[r].id = q
        BY <2>2, <2>6, <3>1, <3>3 DEF Target, RInv, RequestInv
      <4>2. at[q] \in Answers
        BY <2>2, <4>1 DEF DInv, FreshInv, Unused
      <4>3. q # r
        BY <2>2, <4>2
      <4> QED
        BY <2>3, <4>2, <4>3 DEF Answer, Goto, RInv
    <3> QED
      BY <3>2, <3>3
  <2>7. appts' \ appts = {}
    BY <2>3
  <2> QED
    BY <2>3, <2>4, <2>5, <2>6, <2>7, AnswerD DEF Answers
<1> QED
  BY <1>1, <1>2

LEMMA WriteD ==
  ASSUME RInv, DInv, NEW r \in Requests, Write(r)
  PROVE  DInv'
<1> DEFINE t == order[r].table
           id == order[r].id
           row == mem[r].row
           found == mem[r].found
           now == db[t][id]
<1>1. CASE Respond(r, "error")
  BY <1>1, RespondD DEF Answers
<1>2. CASE ~Respond(r, "error")
  <2>1. /\ at[r] = "write" /\ RefersTo(db, Added(row, found))
        /\ Edit(r, Saved(db, t, id, row, found))
    BY <1>2 DEF Write, MayAdd
  <2>2. /\ t \in Tables /\ DOMAIN db = Tables /\ IsRow(t, row) /\ IsRow(t, found)
        /\ at[r] \in SaveStages /\ order[r].op = "update"
    BY <2>1, StageNames DEF RInv, RequestInv, RowsInv
  <2>3. Answer(r, "ok") /\ appts' = appts
    BY <2>1 DEF Edit
  <2>4. CASE db' = db
    BY <2>3, <2>4, StayD, AnswerD DEF Answers
  <2>5. CASE id \in DOMAIN db[t] /\ RowSet(t, id, Merged(row, found, now))
    <3>1. IsRow(t, now) /\ RefersTo(db, now)
      BY <2>2, <2>5 DEF RInv, RowsInv, DInv, NothingDangles
    <3>2. "dealership" \in DOMAIN now => row["dealership"] = found["dealership"]
      <4>1. SUFFICES ASSUME "dealership" \in DOMAIN now PROVE row["dealership"] = found["dealership"]
        OBVIOUS
      <4>2. t \in Housed
        BY <2>2, <3>1, <4>1 DEF IsRow, Columns, Tables, TagTables, Housed, Dealership, Capability,
                                Skill, ServiceType
      <4>3. RequestClaim(r, t, id, row["dealership"]) /\ RequestClaim(r, t, id, found["dealership"])
        BY <2>1, <2>2 DEF RequestClaim, Target
      <4>4. Claimed(t, id, row["dealership"]) /\ Claimed(t, id, found["dealership"])
        BY <4>3 DEF Claimed
      <4> QED
        BY <4>2, <4>4 DEF DInv, HomeInv
    <3>3. RefersTo(db, Merged(row, found, now))
      BY <2>1, <2>2, <3>1, <3>2, MergedRefs
    <3>4. NothingDangles' /\ ReferringInv'
      BY <2>2, <2>3, <2>5, <3>3, RowSetRefs DEF DInv, ReferringInv
    <3>5. t \in Housed => Merged(row, found, now)["dealership"] = now["dealership"]
      <4>1. t \in Housed => "dealership" \in DOMAIN now
        BY <3>1 DEF IsRow, Columns, Housed, ServiceBay, Technician
      <4> QED
        BY <2>2, <3>1, <3>2, <4>1 DEF IsRow, Merged, Changed, TagTables
    <3>6. ASSUME NEW u \in Housed, NEW i, NEW d, RowClaim(u, i, d)' \/ AppointmentClaim(u, i, d)'
          PROVE  Claimed(u, i, d)
      <4>1. CASE AppointmentClaim(u, i, d)'
        BY <2>3, <4>1 DEF AppointmentClaim, Claimed
      <4>2. CASE RowClaim(u, i, d)'
        <5>1. u \in Tables
          BY TableNames DEF Housed
        <5>2. RowClaim(u, i, d)
          BY <2>5, <3>5, <4>2, <5>1 DEF RowClaim, RowSet
        <5> QED
          BY <5>2 DEF Claimed
      <4> QED
        BY <3>6, <4>1, <4>2
    <3>7. appts' \ appts = {} /\ \A u \in Tables : DOMAIN db'[u] \ DOMAIN db[u] = {}
      BY <2>3, <2>5 DEF RowSet
    <3> QED
      BY <2>3, <3>4, <3>6, <3>7, AnswerD DEF Answers
  <2> QED
    BY <2>1, <2>2, <2>4, <2>5, SavedRow DEF Edit
<1> QED
  BY <1>1, <1>2

LEMMA DeleteRowD ==
  ASSUME RInv, DInv, NEW r \in Requests, at[r] \in EditStages, DeleteRow(r)
  PROVE  DInv'
<1> DEFINE t == order[r].table
           id == order[r].id
<1>1. CASE Respond(r, "error")
  BY <1>1, RespondD DEF Answers
<1>2. CASE ~Respond(r, "error")
  <2>1. ~Referenced(t, id) /\ Edit(r, Kept(db, Deleted(t, id), t, id))
    BY <1>2 DEF DeleteRow
  <2>2. t \in Tables /\ DOMAIN db = Tables
    BY DEF RInv, RequestInv, RowsInv
  <2>3. RowsGone(Deleted(t, id), t, id) /\ appts' = appts /\ Answer(r, "ok")
    BY <2>1, <2>2, KeptRow DEF Edit
  <2>4. NothingDangles' /\ ReferringInv'
    BY <2>1, <2>2, <2>3, DeleteRefs DEF DInv, ReferringInv
  <2>5. ASSUME NEW u \in Housed, NEW i, NEW d, RowClaim(u, i, d)' \/ AppointmentClaim(u, i, d)'
        PROVE  Claimed(u, i, d)
    <3>1. CASE AppointmentClaim(u, i, d)'
      BY <2>3, <3>1 DEF AppointmentClaim, Claimed
    <3>2. CASE RowClaim(u, i, d)'
      <4>1. u \in Tables
        BY TableNames DEF Housed
      <4>2. i \in DOMAIN db'[u] /\ db'[u][i]["dealership"] = d
        BY <3>2 DEF RowClaim
      <4>3. i \in DOMAIN db[u] /\ DOMAIN db[u][i] = Columns[u]
        <5>1. i \in DOMAIN db[u]
          BY <2>3, <4>2, <4>1 DEF RowsGone
        <5> QED
          BY <4>1, <5>1 DEF RInv, RowsInv, IsRow
      <4>4. "dealership" \in DOMAIN db[u][i]
        BY <4>3 DEF Columns, Housed, ServiceBay, Technician
      <4>5. db'[u][i]["dealership"] = db[u][i]["dealership"]
        <5>1. \A f \in DOMAIN db[u][i] :
                db'[u][i][f] = IF f = t /\ t \in TagTables THEN db[u][i][f] \ {id} ELSE db[u][i][f]
          BY <2>3, <4>2, <4>1 DEF RowsGone
        <5>2. "dealership" \notin TagTables
          BY DEF TagTables
        <5> QED
          BY <4>4, <5>1, <5>2
      <4>6. RowClaim(u, i, d)
        BY <4>2, <4>3, <4>5 DEF RowClaim
      <4> QED
        BY <4>6 DEF Claimed
    <3> QED
      BY <2>5, <3>1, <3>2
  <2>6. appts' \ appts = {} /\ \A u \in Tables : DOMAIN db'[u] \ DOMAIN db[u] = {}
    BY <2>3 DEF RowsGone
  <2> QED
    BY <2>3, <2>4, <2>5, <2>6, AnswerD DEF Answers
<1> QED
  BY <1>1, <1>2

(* The foreign keys of an appointment are tested when it is inserted.      *)
LEMMA AppointmentD ==
  ASSUME RInv, DInv, NEW r \in Requests, InsertAppointment(r)
  PROVE  DInv'
<1>1. CASE Respond(r, "error")
  BY <1>1, RespondD DEF Answers
<1>2. CASE ~Respond(r, "error")
  <2>1. PICK b \in mem[r].bay, c \in mem[r].tech :
          LET a == Appointment(r, b, c)
          IN  /\ \A f \in Tables \cap DOMAIN a : a[f] \in DOMAIN db[f]
              /\ appts' = appts \cup {a} /\ Answer(r, "ok") /\ db' = db
    BY <1>2 DEF InsertAppointment, Earliest
  <2> DEFINE a == Appointment(r, b, c)
  <2>2. /\ {"dealership", "service", "bay", "tech"} \subseteq DOMAIN a
        /\ a["bay"] = b /\ a["tech"] = c /\ a.dealership = order[r].dealership
    BY DEF Appointment
  <2>3. \A t \in Housed : a[t] \in mem[r][t]
    BY <2>2 DEF Housed
  <2> HIDE DEF a
  <2>4. NothingDangles' /\ ReferringInv'
    BY <2>1, <2>2 DEF DInv, NothingDangles, ReferringInv, a
  <2>5. ASSUME NEW u \in Housed, NEW i, NEW d, RowClaim(u, i, d)' \/ AppointmentClaim(u, i, d)'
        PROVE  Claimed(u, i, d)
    <3>1. CASE RowClaim(u, i, d)'
      BY <2>1, <3>1 DEF RowClaim, Claimed
    <3>2. CASE AppointmentClaim(u, i, d)'
      <4>1. PICK x \in appts' : x[u] = i /\ x.dealership = d
        BY <3>2 DEF AppointmentClaim
      <4>2. CASE x \in appts
        BY <4>1, <4>2 DEF AppointmentClaim, Claimed
      <4>3. CASE x = a
        <5>1. RequestClaim(r, u, i, d)
          BY <2>2, <2>3, <4>1, <4>3 DEF RequestClaim
        <5> QED
          BY <5>1 DEF Claimed
      <4> QED
        BY <2>1, <4>1, <4>2, <4>3 DEF a
    <3> QED
      BY <2>5, <3>1, <3>2
  <2>6. \A t \in Housed : \A x \in appts' \ appts : x[t] \in mem[r][t]
    BY <2>1, <2>3 DEF a
  <2> QED
    BY <2>1, <2>4, <2>5, <2>6, AnswerD DEF Answers
<1> QED
  BY <1>1, <1>2

LEMMA ProceedD ==
  ASSUME RInv, DInv, NEW r \in Requests, Proceed(r)
  PROVE  DInv'
<1>0. DOMAIN mem[r] = Memory
  BY DEF RInv, RequestInv
<1>1. CASE ResolveByIds(r) \/ Count(r)
  <2>1. at[r] \notin Answers
    BY <1>1, StageNames DEF ResolveByIds, Count
  <2>2. \/ \E a \in {"notFound", "conflict"} : Respond(r, a)
        \/ /\ at[r] \in TagTables /\ \E tags : Goto(r, Stage(order[r], tags))
           /\ UNCHANGED <<db, appts, order, mem>>
        \/ Goto(r, "remove") /\ UNCHANGED <<db, appts, order, mem>>
    BY <1>1 DEF ResolveByIds, Count
  <2>3. ASSUME NEW tags, at[r] \in TagTables, Goto(r, Stage(order[r], tags)),
               UNCHANGED <<db, appts, order, mem>>
        PROVE  DInv'
    <3> DEFINE s == Stage(order[r], tags)
    <3>1. s # "write" /\ at[r] \in SaveStages
      BY <2>3, StageAfter, StageNames
    <3>2. Goto(r, s)
      BY <2>3
    <3> HIDE DEF s
    <3> QED
      BY <2>1, <2>3, <3>1, <3>2, MoveD
  <2>4. "remove" \notin SaveStages
    BY StageNames
  <2> QED
    BY <2>1, <2>2, <2>3, <2>4, RespondD, MoveD DEF Answers
<1>2. CASE Find(r)
  <2>1. /\ at[r] = "find" /\ at[r] \in SaveStages /\ at[r] \notin Answers
        /\ UNCHANGED <<db, appts, order>>
    BY <1>2, StageNames DEF Find
  <2>2. CASE Exists(order[r])
    <3> DEFINE m == [mem[r] EXCEPT !.found = db[order[r].table][order[r].id]]
    <3>1. mem' = [mem EXCEPT ![r] = m] /\ mem'[r] = m /\ Goto(r, "write")
      BY <1>2, <2>2 DEF Find, RInv
    <3>2. mem'[r].row = mem[r].row /\ mem'[r].found = db[order[r].table][order[r].id]
      BY <1>0, <3>1 DEF Memory
    <3>3. \A t \in Housed : mem'[r][t] = mem[r][t]
      BY <1>0, <3>1 DEF Memory, Housed
    <3> HIDE DEF m
    <3> QED
      BY <2>1, <2>2, <3>1, <3>2, <3>3, MoveD DEF Exists
  <2>3. CASE ~Exists(order[r])
    BY <1>2, <2>1, <2>3, MoveD DEF Find
  <2> QED
    BY <2>2, <2>3
<1>3. CASE Remove(r)
  <2>1. CASE DeleteRow(r)
    BY <1>3, <2>1, StageNames, DeleteRowD DEF Remove
  <2>2. CASE ~DeleteRow(r)
    <3>1. at[r] = "remove" /\ Goto(r, "cascade") /\ UNCHANGED <<db, appts, order, mem>>
      BY <1>3, <2>2 DEF Remove
    <3>2. at[r] \notin Answers /\ "cascade" \notin SaveStages
      BY <3>1, StageNames
    <3> QED
      BY <3>1, <3>2, MoveD
  <2> QED
    BY <2>1, <2>2
<1>4. CASE Cascade(r)
  BY <1>4, StageNames, DeleteRowD DEF Cascade
<1>5. ASSUME NEW m, NEW s \in BookStages, at[r] \in BookStages, mem' = [mem EXCEPT ![r] = m],
             Goto(r, s) \/ (s = at[r] /\ at' = at), UNCHANGED <<db, appts, order>>,
             \A t \in Housed : \A i \in m[t] : i \in mem[r][t] \/ RowClaim(t, i, order[r].dealership)
      PROVE  DInv'
  <2>1. mem'[r] = m
    BY <1>5 DEF RInv
  <2>2. s \notin SaveStages /\ s # "write" /\ at[r] \notin Answers
    BY <1>5, StageNames
  <2> QED
    BY <1>5, <2>1, <2>2, MoveD
<1>6. CASE ReadBays(r)
  <2> DEFINE cands == Rules(Seen(r))!CapableBays(order[r].dealership, order[r].service)
             m == [mem[r] EXCEPT !["bay"] = cands, !.scan = cands]
  <2>1. \A i \in cands : RowClaim("bay", i, order[r].dealership)
    BY DEF Rules!CapableBays, RowClaim
  <2>2. m["bay"] = cands /\ m["tech"] = mem[r]["tech"]
    BY <1>0 DEF Memory
  <2>3. at[r] \in BookStages /\ "lockBays" \in BookStages
    BY <1>6 DEF ReadBays, BookStages
  <2>4. mem' = [mem EXCEPT ![r] = m] /\ Goto(r, "lockBays") /\ UNCHANGED <<db, appts, order>>
    BY <1>6 DEF ReadBays, ReadCandidates
  <2> HIDE DEF m, cands
  <2> QED
    BY <1>5, <2>1, <2>2, <2>3, <2>4 DEF Housed
<1>7. CASE ReadTechs(r)
  <2> DEFINE cands == Rules(Seen(r))!EligibleTechnicians(order[r].dealership, order[r].service, order[r].start)
             m == [mem[r] EXCEPT !["tech"] = cands, !.scan = cands]
  <2>1. \A i \in cands : RowClaim("tech", i, order[r].dealership)
    BY DEF Rules!EligibleTechnicians, Rules!QualifiedTechnicians, RowClaim
  <2>2. m["tech"] = cands /\ m["bay"] = mem[r]["bay"]
    BY <1>0 DEF Memory
  <2>3. at[r] \in BookStages /\ "lockTechs" \in BookStages
    BY <1>7 DEF ReadTechs, BookStages
  <2>4. mem' = [mem EXCEPT ![r] = m] /\ Goto(r, "lockTechs") /\ UNCHANGED <<db, appts, order>>
    BY <1>7 DEF ReadTechs, ReadCandidates
  <2> HIDE DEF m, cands
  <2> QED
    BY <1>5, <2>1, <2>2, <2>3, <2>4 DEF Housed
<1>8. CASE LockRow(r)
  <2> DEFINE m == [mem[r] EXCEPT !.scan = @ \ Earliest(@)]
  <2>1. m["tech"] = mem[r]["tech"] /\ m["bay"] = mem[r]["bay"]
    BY <1>0 DEF Memory
  <2>2. at[r] \in BookStages /\ mem' = [mem EXCEPT ![r] = m] /\ at' = at /\ UNCHANGED <<db, appts, order>>
    BY <1>8 DEF LockRow, BookStages
  <2> HIDE DEF m
  <2> QED
    BY <1>5, <2>1, <2>2 DEF Housed
<1>9. CASE FindAvailableBays(r)
  <2> DEFINE m == [mem[r] EXCEPT !.bay = @ \ Rules(Seen(r))!BusyBays(appts, order[r].start, End(r))]
  <2>1. m["tech"] = mem[r]["tech"] /\ m["bay"] \subseteq mem[r]["bay"]
    BY <1>0 DEF Memory
  <2>2. /\ at[r] \in BookStages /\ "readTechs" \in BookStages
        /\ mem' = [mem EXCEPT ![r] = m] /\ Goto(r, "readTechs") /\ UNCHANGED <<db, appts, order>>
    BY <1>9 DEF FindAvailableBays, BookStages
  <2> HIDE DEF m
  <2> QED
    BY <1>5, <2>1, <2>2 DEF Housed
<1>10. CASE FindAvailableTechnicians(r)
  <2>1. CASE Respond(r, "full")
    BY <2>1, RespondD DEF Answers
  <2>2. CASE ~Respond(r, "full")
    <3> DEFINE m == [mem[r] EXCEPT !.tech = mem[r].tech \ Rules(Seen(r))!BusyTechs(appts, order[r].start, End(r))]
    <3>1. m["bay"] = mem[r]["bay"] /\ m["tech"] \subseteq mem[r]["tech"]
      BY <1>0 DEF Memory
    <3>2. /\ at[r] \in BookStages /\ "book" \in BookStages
          /\ mem' = [mem EXCEPT ![r] = m] /\ Goto(r, "book") /\ UNCHANGED <<db, appts, order>>
      BY <1>10, <2>2 DEF FindAvailableTechnicians, BookStages
    <3> HIDE DEF m
    <3> QED
      BY <1>5, <3>1, <3>2 DEF Housed
  <2> QED
    BY <2>1, <2>2
<1>11. CASE DeadlockVictim(r)
  BY <1>11, RespondD DEF DeadlockVictim, Answers
<1> QED
  BY <1>1, <1>2, <1>3, <1>4, <1>6, <1>7, <1>8, <1>9, <1>10, <1>11, InsertD, WriteD, AppointmentD DEF Proceed

LEMMA NextD ==
  ASSUME RInv, DInv, [Next]_vars
  PROVE  DInv'
<1>1. ASSUME NEW r \in Requests, Fail(r) PROVE DInv'
  BY <1>1, RespondD DEF Fail, Answers
<1>2. CASE UNCHANGED vars
  BY <1>2 DEF vars, DInv, HomeInv, FreshInv, ReferringInv, NothingDangles, Unused, Claimed, RowClaim,
              AppointmentClaim, RequestClaim, Target
<1> QED
  BY <1>1, <1>2, ArriveD, ProceedD DEF Next

LEMMA InitD == Init => DInv
<1> SUFFICES ASSUME Init PROVE DInv
  OBVIOUS
<1>1. ASSUME NEW t \in Housed, NEW i, NEW d, Claimed(t, i, d) PROVE d = db[t][i]["dealership"]
  BY <1>1, StageNames DEF Init, Claimed, RowClaim, AppointmentClaim, RequestClaim, NoMemory, Housed
<1>2. FreshInv
  BY StageNames DEF Init, FreshInv, Unused, NoMemory, Housed
<1>3. ReferringInv /\ NothingDangles
  BY InitialAssumption DEF Init, ReferringInv, NothingDangles
<1> QED
  BY <1>1, <1>2, <1>3 DEF DInv, HomeInv

(* A dealership can be deleted while a bay is created or a booking picks   *)
(* one, a tag while an edit gives it to a row, and an edit can insert a    *)
(* deleted row again: nothing is left that refers to a row that is gone.   *)
THEOREM ResourcesRefer == Spec => []NothingDangles
<1>1. Init => RInv /\ DInv
  BY InitR, InitD
<1>2. RInv /\ DInv /\ [Next]_vars => RInv' /\ DInv'
  BY NextR, NextD
<1>3. DInv => NothingDangles
  BY DEF DInv
<1> QED
  BY <1>1, <1>2, <1>3, PTL DEF Spec

-----------------------------------------------------------------------------
(* Locks.  A row that is locked is there and stays there, since whoever    *)
(* deletes it waits for the lock; and one transaction has it.              *)

Held(t, i, r) == <<t, i, r>> \in locks

LocksInv ==
  /\ locks \subseteq Tables \X Nat \X Requests
  /\ \A t \in Tables, i \in Nat, r \in Requests : Held(t, i, r) => i \in DOMAIN db[t]
  /\ \A t \in Tables, i \in Nat, r \in Requests, q \in Requests :
       Held(t, i, r) /\ Held(t, i, q) => r = q

LEMMA AnswerL ==
  ASSUME LocksInv, NEW r \in Requests, NEW a, Answer(r, a),
         \A t \in Tables : \A i \in DOMAIN db[t] \ DOMAIN db'[t] :
           \A q \in Requests \ {r} : ~Held(t, i, q)
  PROVE  LocksInv'
<1>1. locks' = {l \in locks : l[3] # r}
  BY DEF Answer
<1>2. ASSUME NEW t \in Tables, NEW i \in Nat, NEW q \in Requests, Held(t, i, q)'
      PROVE  Held(t, i, q) /\ q # r
  BY <1>1, <1>2 DEF Held
<1>3. ASSUME NEW t \in Tables, NEW i \in Nat, NEW q \in Requests, Held(t, i, q)'
      PROVE  i \in DOMAIN db'[t]
  BY <1>2, <1>3 DEF LocksInv
<1>4. ASSUME NEW t \in Tables, NEW i \in Nat, NEW p \in Requests, NEW q \in Requests,
             Held(t, i, p)', Held(t, i, q)'
      PROVE  p = q
  BY <1>2, <1>4 DEF LocksInv
<1>5. locks' \subseteq Tables \X Nat \X Requests
  BY <1>1 DEF LocksInv
<1> QED
  BY <1>3, <1>4, <1>5 DEF LocksInv

LEMMA StayL ==
  ASSUME LocksInv, UNCHANGED <<db, locks>>
  PROVE  LocksInv'
BY DEF LocksInv, Held

LEMMA RespondL ==
  ASSUME LocksInv, NEW r \in Requests, NEW a, Respond(r, a)
  PROVE  LocksInv'
BY AnswerL DEF Respond

(* What a statement wants is locked when nobody else has it. *)
LEMMA GrantL ==
  ASSUME RInv, LocksInv, NEW r \in Requests, Granted(r), db' = db, NEW t \in Tables, NEW S,
         S \subseteq DOMAIN db[t],
         \A i \in S : <<t, i>> \in Wanted(r),
         locks' = locks \cup {<<t, i, r>> : i \in S}
  PROVE  LocksInv'
<1>1. S \subseteq Nat
  BY DEF RInv, RowsInv
<1>2. ASSUME NEW i \in S, NEW q \in Requests, Held(t, i, q) PROVE q = r
  <2>1. <<t, i>>[1] = t /\ <<t, i>>[2] = i
    OBVIOUS
  <2> QED
    BY <1>2, <2>1 DEF Granted, WaitsFor, Held
<1>3. ASSUME NEW u \in Tables, NEW i \in Nat, NEW q \in Requests, Held(u, i, q)'
      PROVE  Held(u, i, q) \/ (u = t /\ i \in S /\ q = r)
  BY <1>3 DEF Held
<1>4. ASSUME NEW u \in Tables, NEW i \in Nat, NEW q \in Requests, Held(u, i, q)'
      PROVE  i \in DOMAIN db'[u]
  BY <1>3, <1>4 DEF LocksInv
<1>5. ASSUME NEW u \in Tables, NEW i \in Nat, NEW p \in Requests, NEW q \in Requests,
             Held(u, i, p)', Held(u, i, q)'
      PROVE  p = q
  BY <1>2, <1>3, <1>5 DEF LocksInv
<1>6. locks' \subseteq Tables \X Nat \X Requests
  BY <1>1 DEF LocksInv
<1> QED
  BY <1>4, <1>5, <1>6 DEF LocksInv

LEMMA LockRowL ==
  ASSUME RInv, LocksInv, NEW r \in Requests, LockRow(r)
  PROVE  LocksInv'
<1> DEFINE t == IF at[r] = "lockBays" THEN "bay" ELSE "tech"
           S == {i \in Earliest(mem[r].scan) : i \in DOMAIN db[t]}
<1>1. Wanted(r) = {<<t, i>> : i \in Earliest(mem[r].scan)}
  BY DEF LockRow, Wanted
<1>2. {<<w[1], w[2], r>> : w \in {x \in Wanted(r) : x[2] \in DOMAIN db[x[1]]}} = {<<t, i, r>> : i \in S}
  <2>1. ASSUME NEW w, NEW i, w = <<t, i>> PROVE w[1] = t /\ w[2] = i
    BY <2>1
  <2>2. ASSUME NEW w \in Wanted(r), w[2] \in DOMAIN db[w[1]]
        PROVE  \E i \in S : <<w[1], w[2], r>> = <<t, i, r>>
    BY <1>1, <2>1, <2>2
  <2>3. ASSUME NEW i \in S
        PROVE  <<t, i>> \in {x \in Wanted(r) : x[2] \in DOMAIN db[x[1]]}
    BY <1>1, <2>1, <2>3
  <2>4. ASSUME NEW i \in S
        PROVE  <<t, i, r>> \in {<<w[1], w[2], r>> : w \in {x \in Wanted(r) : x[2] \in DOMAIN db[x[1]]}}
    <3> DEFINE w == <<t, i>>
    <3>1. w \in {x \in Wanted(r) : x[2] \in DOMAIN db[x[1]]}
      BY <2>3, <2>4
    <3>2. <<t, i, r>> = <<w[1], w[2], r>>
      BY <2>1
    <3> HIDE DEF w, t
    <3> QED
      BY <3>1, <3>2
  <2> HIDE DEF S
  <2> QED
    BY <2>2, <2>4
<1>3. t \in Tables
  BY TableNames
<1>4. Granted(r) /\ db' = db /\ locks' = locks \cup {<<t, i, r>> : i \in S}
  BY <1>2 DEF LockRow
<1>5. \A i \in S : <<t, i>> \in Wanted(r)
  BY <1>1
<1> HIDE DEF t
<1> QED
  BY <1>3, <1>4, <1>5, GrantL

(* DELETE waits for the locks of all rows that it takes away. *)
LEMMA DeleteRowL ==
  ASSUME RInv, DInv, LocksInv, NEW r \in Requests, at[r] \in {"remove", "cascade"}, Granted(r),
         at[r] = "remove" => ~(order[r].table = "dealership" /\ Exists(order[r])),
         DeleteRow(r)
  PROVE  LocksInv'
<1> DEFINE t == order[r].table
           id == order[r].id
<1>1. CASE Respond(r, "error")
  BY <1>1, RespondL
<1>2. CASE ~Respond(r, "error")
  <2>1. Edit(r, Kept(db, Deleted(t, id), t, id))
    BY <1>2 DEF DeleteRow
  <2>2. t \in Tables /\ DOMAIN db = Tables /\ at[r] \in EditStages
    BY StageNames DEF RInv, RequestInv, RowsInv
  <2>3. RowsGone(Deleted(t, id), t, id) /\ Answer(r, "ok")
    BY <2>1, <2>2, KeptRow DEF Edit
  <2>4. ASSUME NEW u \in Tables, NEW i \in DOMAIN db[u], <<u, i>> \in Deleted(t, id)
        PROVE  <<u, i>> \in Wanted(r)
    <3>1. CASE at[r] = "cascade"
      <4>1. t = "dealership"
        BY <3>1 DEF RInv, RequestInv
      <4> QED
        BY <2>4, <3>1, <4>1 DEF Wanted
    <3>2. CASE at[r] = "remove"
      <4>1. Wanted(r) = {<<t, id>>}
        BY <3>2 DEF Wanted
      <4>2. CASE t # "dealership"
        BY <2>4, <4>1, <4>2 DEF Deleted
      <4>3. CASE t = "dealership"
        <5>1. id \notin DOMAIN db["dealership"]
          BY <3>2, <4>3 DEF Exists
        <5>2. <<u, i>> = <<t, id>> \/ (u \in Housed /\ db[u][i]["dealership"] = id)
          BY <2>4, <4>3 DEF Deleted, Rows, Housed
        <5>3. u \in Housed => "dealership" \in DOMAIN db[u][i]
          BY DEF RInv, RowsInv, IsRow, Columns, Housed, ServiceBay, Technician
        <5>4. u \in Housed => db[u][i]["dealership"] \in DOMAIN db["dealership"]
          BY <5>3, Refers DEF DInv, NothingDangles
        <5> QED
          BY <4>1, <5>1, <5>2, <5>4
      <4> QED
        BY <4>2, <4>3
    <3> QED
      BY <3>1, <3>2
  <2>5. ASSUME NEW u \in Tables, NEW i \in DOMAIN db[u] \ DOMAIN db'[u], NEW q \in Requests \ {r}
        PROVE  ~Held(u, i, q)
    <3>1. i \in DOMAIN db[u] /\ <<u, i>> \in Deleted(t, id)
      BY <2>3 DEF RowsGone
    <3>2. <<u, i>> \in Wanted(r) /\ <<u, i>>[1] = u /\ <<u, i>>[2] = i
      BY <2>4, <3>1
    <3> QED
      BY <3>2 DEF Granted, WaitsFor, Held
  <2> QED
    BY <2>3, <2>5, AnswerL
<1> QED
  BY <1>1, <1>2

LEMMA ProceedL ==
  ASSUME RInv, DInv, LocksInv, NEW r \in Requests, Proceed(r)
  PROVE  LocksInv'
<1>1. CASE ResolveByIds(r) \/ Find(r) \/ Count(r) \/ ReadBays(r) \/ ReadTechs(r)
           \/ FindAvailableBays(r) \/ FindAvailableTechnicians(r) \/ DeadlockVictim(r)
  <2>1. (\E a \in Answers : Respond(r, a)) \/ UNCHANGED <<db, locks>>
    BY <1>1 DEF ResolveByIds, Find, Count, ReadBays, ReadTechs, ReadCandidates, FindAvailableBays,
                FindAvailableTechnicians, DeadlockVictim, Answers
  <2> QED
    BY <2>1, RespondL, StayL
<1>2. CASE Insert(r)
  <2> DEFINE t == order[r].table
             id == Target(r)
  <2>1. CASE Respond(r, "error")
    BY <2>1, RespondL
  <2>2. CASE ~Respond(r, "error")
    <3>1. Edit(r, Inserted(db, t, id, mem[r].row)) /\ at[r] = "insert"
      BY <1>2, <2>2 DEF Insert, InsertRow, Target
    <3>2. RowSet(t, id, mem[r].row) /\ Answer(r, "ok")
      BY <3>1, StageNames, InsertedRow DEF Edit, RInv, RequestInv, RowsInv
    <3>3. \A u \in Tables : DOMAIN db[u] \ DOMAIN db'[u] = {}
      BY <3>2 DEF RowSet
    <3> QED
      BY <3>2, <3>3, AnswerL
  <2> QED
    BY <2>1, <2>2
<1>3. CASE Write(r)
  <2> DEFINE t == order[r].table
             id == order[r].id
  <2>1. CASE Respond(r, "error")
    BY <2>1, RespondL
  <2>2. CASE ~Respond(r, "error")
    <3>1. Edit(r, Saved(db, t, id, mem[r].row, mem[r].found)) /\ at[r] = "write"
      BY <1>3, <2>2 DEF Write
    <3>2. db' = db \/ \E row : id \in DOMAIN db[t] /\ RowSet(t, id, row)
      BY <3>1, StageNames, SavedRow DEF Edit, RInv, RequestInv, RowsInv
    <3>3. \A u \in Tables : DOMAIN db[u] \ DOMAIN db'[u] = {}
      BY <3>2 DEF RowSet
    <3> QED
      BY <3>1, <3>3, AnswerL DEF Edit
  <2> QED
    BY <2>1, <2>2
<1>4. CASE Remove(r)
  <2>1. CASE order[r].table = "dealership" /\ Exists(order[r])
    <3>1. /\ at[r] = "remove" /\ Granted(r) /\ db' = db
          /\ locks' = locks \cup {<<"dealership", i, r>> : i \in {order[r].id}}
      BY <1>4, <2>1 DEF Remove
    <3> DEFINE S == {order[r].id}
    <3>2. S \subseteq DOMAIN db["dealership"]
      BY <2>1 DEF Exists
    <3>3. \A i \in S : <<"dealership", i>> \in Wanted(r)
      BY <2>1, <3>1 DEF Wanted
    <3>4. locks' = locks \cup {<<"dealership", i, r>> : i \in S}
      BY <3>1
    <3> HIDE DEF S
    <3> QED
      BY <3>1, <3>2, <3>3, <3>4, TableNames, GrantL
  <2>2. CASE ~(order[r].table = "dealership" /\ Exists(order[r]))
    BY <1>4, <2>2, DeleteRowL DEF Remove
  <2> QED
    BY <2>1, <2>2
<1>5. CASE Cascade(r)
  BY <1>5, DeleteRowL DEF Cascade
<1>6. CASE InsertAppointment(r)
  <2>1. (\E a \in Answers : Respond(r, a)) \/ (Answer(r, "ok") /\ db' = db)
    BY <1>6 DEF InsertAppointment, Answers
  <2> QED
    BY <2>1, RespondL, AnswerL
<1> QED
  BY <1>1, <1>2, <1>3, <1>4, <1>5, <1>6, LockRowL DEF Proceed

LEMMA NextL ==
  ASSUME RInv, DInv, LocksInv, [Next]_vars
  PROVE  LocksInv'
<1>1. ASSUME NEW r \in Requests, Arrive(r) PROVE LocksInv'
  <2>1. Respond(r, "notFound") \/ UNCHANGED <<db, locks>>
    BY <1>1, Arrivals DEF Creates, Updates, Deletes, Books, CreateRow, Enter
  <2> QED
    BY <2>1, RespondL, StayL
<1>2. ASSUME NEW r \in Requests, Fail(r) PROVE LocksInv'
  BY <1>2, RespondL DEF Fail
<1>3. CASE UNCHANGED vars
  BY <1>3, StayL DEF vars
<1> QED
  BY <1>1, <1>2, <1>3, ProceedL DEF Next

(* Rows keep the columns of their table whatever bodies are merged into    *)
(* them, and a row that a transaction has locked is not deleted.           *)
THEOREM ResourcesTypes == Spec => []ResourcesTypeOK
<1>1. Init => RInv /\ DInv /\ LocksInv
  <2>1. Init => LocksInv
    BY DEF Init, LocksInv, Held
  <2> QED
    BY <2>1, InitR, InitD
<1>2. RInv /\ DInv /\ LocksInv /\ [Next]_vars => RInv' /\ DInv' /\ LocksInv'
  BY NextR, NextD, NextL
<1>3. RInv /\ LocksInv => ResourcesTypeOK
  <2> SUFFICES ASSUME RInv, LocksInv PROVE ResourcesTypeOK
    OBVIOUS
  <2>1. ASSUME NEW l \in locks PROVE l[2] \in DOMAIN db[l[1]]
    <3>1. l \in Tables \X Nat \X Requests
      BY DEF LocksInv
    <3>2. l = <<l[1], l[2], l[3]>> /\ l[1] \in Tables /\ l[2] \in Nat /\ l[3] \in Requests
      BY <3>1
    <3> QED
      BY <3>2 DEF LocksInv, Held
  <2>2. ASSUME NEW r \in Requests
        PROVE  at[r] \in Idle \cup TagTables \cup
                 {"insert", "find", "write", "count", "remove", "cascade",
                  "readBays", "lockBays", "readTechs", "lockTechs", "book"}
    BY DEF RInv, RequestInv, SaveStages, EditStages, BookStages
  <2>3. at = [r \in Requests |-> at[r]]
    BY DEF RInv
  <2> QED
    BY <2>1, <2>2, <2>3 DEF RInv, RowsInv, RequestInv, ResourcesTypeOK
<1> QED
  BY <1>1, <1>2, <1>3, PTL DEF Spec

-----------------------------------------------------------------------------
(* Bookings.  Of the candidates that a booking has gone through, each that *)
(* still has a row is locked by it; nobody else can commit an appointment  *)
(* for that row, so that one found to be free stays free.                  *)

Until(r) == order[r].start + mem[r].row.minutes * TicksPerMinute

Overlaps(a, start, end) == a.start < end /\ start < a.end

Secured(t, i, r) == i \in DOMAIN db[t] => Held(t, i, r)

Reserved(t, i, r) ==
  i \in DOMAIN db[t] =>
    /\ Held(t, i, r)
    /\ \A a \in appts : a[t] = i => ~Overlaps(a, order[r].start, Until(r))

BookInv(r) ==
  /\ at[r] = "lockBays" => \A i \in mem[r].bay \ mem[r].scan : Secured("bay", i, r)
  /\ at[r] \in {"readTechs", "lockTechs", "book"} => \A i \in mem[r].bay : Reserved("bay", i, r)
  /\ at[r] = "lockTechs" => \A i \in mem[r].tech \ mem[r].scan : Secured("tech", i, r)
  /\ at[r] = "book" => \A i \in mem[r].tech : Reserved("tech", i, r)

Disjoint ==
  \A a, b \in appts :
    (a # b /\ Overlaps(a, b.start, b.end)) => a["bay"] # b["bay"] /\ a["tech"] # b["tech"]

BInv ==
  /\ \A a \in appts : a.status = "CONFIRMED"
  /\ revived = {} => Disjoint /\ \A r \in Requests : BookInv(r)

LEMMA EndIs ==
  ASSUME NEW r
  PROVE  End(r) = Until(r)
BY DEF End, Until, Seen, Rules!EndOf

(* The others keep what they have locked, and no row that they looked for  *)
(* in vain appears.                                                        *)
LEMMA OthersB ==
  ASSUME RInv, LocksInv, BInv, NEW r \in Requests, NEW s, NEW o,
         at' = at \/ at' = [at EXCEPT ![r] = s],
         order' = order \/ order' = [order EXCEPT ![r] = o],
         mem' = mem \/ \E m : mem' = [mem EXCEPT ![r] = m],
         revived = {},
         \A t \in Tables, i \in Nat, q \in Requests \ {r} : Held(t, i, q) => Held(t, i, q)',
         \A t \in Housed : \A q \in Requests \ {r} : \A i \in mem[q][t] :
           i \in DOMAIN db'[t] => i \in DOMAIN db[t],
         \A a \in appts' \ appts : \A t \in Housed :
           a[t] \in DOMAIN db[t] => Held(t, a[t], r),
         NEW q \in Requests \ {r}
  PROVE  BookInv(q)'
<1>1. at'[q] = at[q] /\ order'[q] = order[q] /\ mem'[q] = mem[q]
  BY DEF RInv
<1>2. BookInv(q)
  BY DEF BInv
<1>3. Housed \subseteq Tables /\ \A t \in Tables : DOMAIN db[t] \subseteq Nat
  BY TableNames DEF Housed, RInv, RowsInv
<1>4. ASSUME NEW t \in Housed, NEW i \in mem[q][t], Secured(t, i, q) PROVE Secured(t, i, q)'
  BY <1>3, <1>4 DEF Secured
<1>5. ASSUME NEW t \in Housed, NEW i \in mem[q][t], Reserved(t, i, q) PROVE Reserved(t, i, q)'
  <2>1. SUFFICES ASSUME i \in DOMAIN db'[t]
                 PROVE  /\ Held(t, i, q)'
                        /\ \A a \in appts' : a[t] = i => ~Overlaps(a, order[q].start, Until(q))
    BY <1>1 DEF Reserved, Until, Overlaps
  <2>2. i \in DOMAIN db[t] /\ Held(t, i, q) /\ i \in Nat /\ t \in Tables
    BY <1>3, <1>5, <2>1 DEF Reserved
  <2>3. ASSUME NEW a \in appts', a[t] = i PROVE ~Overlaps(a, order[q].start, Until(q))
    <3>1. CASE a \in appts
      BY <1>5, <2>2, <2>3, <3>1 DEF Reserved
    <3>2. CASE a \notin appts
      <4>1. Held(t, i, r)
        BY <2>2, <2>3, <3>2
      <4>2. r = q
        BY <2>2, <4>1 DEF LocksInv
      <4> QED
        BY <4>2
    <3> QED
      BY <3>1, <3>2
  <2> QED
    BY <2>2, <2>3
<1>6. "bay" \in Housed /\ "tech" \in Housed /\ mem[q].bay = mem[q]["bay"] /\ mem[q].tech = mem[q]["tech"]
  BY DEF Housed
<1>7. BookInv(q)' <=>
        /\ at[q] = "lockBays" => \A i \in mem[q].bay \ mem[q].scan : Secured("bay", i, q)'
        /\ at[q] \in {"readTechs", "lockTechs", "book"} => \A i \in mem[q].bay : Reserved("bay", i, q)'
        /\ at[q] = "lockTechs" => \A i \in mem[q].tech \ mem[q].scan : Secured("tech", i, q)'
        /\ at[q] = "book" => \A i \in mem[q].tech : Reserved("tech", i, q)'
  BY <1>1 DEF BookInv
<1> QED
  BY <1>2, <1>4, <1>5, <1>6, <1>7 DEF BookInv

(* A request that is answered has no candidates left. *)
LEMMA AnswerB ==
  ASSUME RInv, LocksInv, BInv, NEW r \in Requests, NEW a \in Answers, Answer(r, a),
         appts' = appts, revived' = {} => revived = {},
         revived' = {} =>
           \A t \in Housed : \A q \in Requests : \A i \in mem[q][t] :
             i \in DOMAIN db'[t] => i \in DOMAIN db[t]
  PROVE  BInv'
<1>1. \A x \in appts' : x.status = "CONFIRMED"
  BY DEF BInv
<1> SUFFICES ASSUME revived' = {} PROVE Disjoint' /\ \A q \in Requests : BookInv(q)'
  BY <1>1 DEF BInv
<1>2. Disjoint'
  BY DEF BInv, Disjoint, Overlaps
<1>3. BookInv(r)'
  <2>1. at'[r] = a
    BY DEF RInv, Answer, Goto
  <2> QED
    BY <2>1 DEF BookInv, Answers
<1>4. ASSUME NEW t \in Tables, NEW i \in Nat, NEW q \in Requests \ {r}, Held(t, i, q)
      PROVE  Held(t, i, q)'
  <2>1. <<t, i, q>>[3] # r
    OBVIOUS
  <2> QED
    BY <1>4, <2>1 DEF Answer, Held
<1>5. /\ at' = [at EXCEPT ![r] = a] /\ order' = [order EXCEPT ![r] = NoOrder]
      /\ mem' = [mem EXCEPT ![r] = NoMemory]
  BY DEF Answer, Goto
<1>6. ASSUME NEW q \in Requests \ {r} PROVE BookInv(q)'
  BY <1>4, <1>5, OthersB
<1> QED
  BY <1>2, <1>3, <1>6

LEMMA RespondB ==
  ASSUME RInv, LocksInv, BInv, NEW r \in Requests, NEW a \in Answers, Respond(r, a)
  PROVE  BInv'
BY AnswerB DEF Respond

LEMMA MoveB ==
  ASSUME RInv, LocksInv, BInv, NEW r \in Requests, NEW s, NEW o,
         at' = at \/ at' = [at EXCEPT ![r] = s],
         order' = order \/ order' = [order EXCEPT ![r] = o],
         mem' = mem \/ \E m : mem' = [mem EXCEPT ![r] = m],
         UNCHANGED <<db, appts, revived>>, locks \subseteq locks',
         revived = {} => BookInv(r)'
  PROVE  BInv'
<1>1. \A x \in appts' : x.status = "CONFIRMED"
  BY DEF BInv
<1> SUFFICES ASSUME revived = {} PROVE Disjoint' /\ \A q \in Requests : BookInv(q)'
  BY <1>1 DEF BInv
<1>2. Disjoint'
  BY DEF BInv, Disjoint, Overlaps
<1>3. ASSUME NEW q \in Requests \ {r} PROVE BookInv(q)'
  <2>1. \A t \in Tables, i \in Nat, p \in Requests \ {r} : Held(t, i, p) => Held(t, i, p)'
    BY DEF Held
  <2> QED
    BY <2>1, OthersB
<1> QED
  BY <1>2, <1>3

(* A row that appears is the new one of a creation, which nobody has for   *)
(* a candidate, or one that is inserted again.                             *)
LEMMA InsertB ==
  ASSUME RInv, DInv, LocksInv, BInv, NEW r \in Requests, Insert(r)
  PROVE  BInv'
<1> DEFINE t == order[r].table
           id == Target(r)
           row == mem[r].row
<1>1. CASE Respond(r, "error")
  BY <1>1, RespondB DEF Answers
<1>2. CASE ~Respond(r, "error")
  <2>1. /\ at[r] = "insert" /\ Edit(r, Inserted(db, t, id, row))
        /\ revived' = IF id = r THEN revived ELSE revived \cup {<<t, id>>}
    BY <1>2 DEF Insert, InsertRow, Target
  <2>2. RowSet(t, id, row) /\ Answer(r, "ok") /\ appts' = appts /\ at[r] \notin Answers
    BY <2>1, StageNames, InsertedRow DEF Edit, RInv, RequestInv, RowsInv
  <2>3. ASSUME revived' = {} PROVE revived = {} /\ id = r
    BY <2>1, <2>3
  <2>4. ASSUME revived' = {}, NEW u \in Housed, NEW q \in Requests, NEW i \in mem[q][u], i \in DOMAIN db'[u]
        PROVE  i \in DOMAIN db[u]
    <3>1. i # r
      BY <2>2 DEF DInv, FreshInv, Unused
    <3>2. u \in Tables
      BY TableNames DEF Housed
    <3> QED
      BY <2>2, <2>3, <2>4, <3>1, <3>2 DEF RowSet
  <2> QED
    BY <2>2, <2>3, <2>4, AnswerB DEF Answers
<1> QED
  BY <1>1, <1>2

LEMMA WriteB ==
  ASSUME RInv, LocksInv, BInv, NEW r \in Requests, Write(r)
  PROVE  BInv'
<1> DEFINE t == order[r].table
           id == order[r].id
<1>1. CASE Respond(r, "error")
  BY <1>1, RespondB DEF Answers
<1>2. CASE ~Respond(r, "error")
  <2>1. /\ Edit(r, Saved(db, t, id, mem[r].row, mem[r].found)) /\ at[r] = "write"
        /\ revived' = revived
    BY <1>2 DEF Write
  <2>2. db' = db \/ \E row : id \in DOMAIN db[t] /\ RowSet(t, id, row)
    BY <2>1, StageNames, SavedRow DEF Edit, RInv, RequestInv, RowsInv
  <2>3. \A u \in Housed : DOMAIN db'[u] \subseteq DOMAIN db[u]
    <3>1. CASE db' = db
      BY <3>1
    <3>2. ASSUME NEW now, id \in DOMAIN db[t], RowSet(t, id, now), NEW u \in Housed
          PROVE  DOMAIN db'[u] \subseteq DOMAIN db[u]
      <4>1. DOMAIN db'[u] = IF u = t THEN DOMAIN db[t] \cup {id} ELSE DOMAIN db[u]
        BY ZenonT(60), <3>2, TableNames DEF RowSet, Housed
      <4> QED
        BY <3>2, <4>1
    <3> QED
      BY <2>2, <3>1, <3>2
  <2>4. Answer(r, "ok") /\ appts' = appts
    BY <2>1 DEF Edit
  <2> QED
    BY <2>1, <2>3, <2>4, AnswerB DEF Answers
<1> QED
  BY <1>1, <1>2

LEMMA DeleteRowB ==
  ASSUME RInv, LocksInv, BInv, NEW r \in Requests, at[r] \in EditStages, DeleteRow(r)
  PROVE  BInv'
<1> DEFINE t == order[r].table
           id == order[r].id
<1>1. CASE Respond(r, "error")
  BY <1>1, RespondB DEF Answers
<1>2. CASE ~Respond(r, "error")
  <2>1. Edit(r, Kept(db, Deleted(t, id), t, id)) /\ revived' = revived
    BY <1>2 DEF DeleteRow
  <2>2. RowsGone(Deleted(t, id), t, id)
    BY <2>1, KeptRow DEF Edit, RInv, RequestInv, RowsInv
  <2>3. ASSUME NEW u \in Housed PROVE DOMAIN db'[u] \subseteq DOMAIN db[u]
    <3>1. u \in Tables
      BY TableNames DEF Housed
    <3>2. DOMAIN db'[u] = {i \in DOMAIN db[u] : <<u, i>> \notin Deleted(t, id)}
      BY <2>2, <3>1 DEF RowsGone
    <3> QED
      BY <3>2
  <2>4. Answer(r, "ok") /\ appts' = appts
    BY <2>1 DEF Edit
  <2> QED
    BY <2>1, <2>3, <2>4, AnswerB DEF Answers
<1> QED
  BY <1>1, <1>2

LEMMA StaySecured ==
  ASSUME NEW r, NEW t, NEW i, UNCHANGED <<db, appts, order>>, locks \subseteq locks',
         mem'[r].row = mem[r].row
  PROVE  /\ Secured(t, i, r) => Secured(t, i, r)'
         /\ Reserved(t, i, r) => Reserved(t, i, r)'
BY DEF Secured, Reserved, Held, Until, Overlaps

LEMMA LockRowB ==
  ASSUME RInv, LocksInv, BInv, NEW r \in Requests, LockRow(r)
  PROVE  BInv'
<1> DEFINE m == [mem[r] EXCEPT !.scan = @ \ Earliest(@)]
<1>1. /\ at[r] \in {"lockBays", "lockTechs"} /\ at' = at /\ UNCHANGED <<db, appts, order, revived>>
      /\ mem' = [mem EXCEPT ![r] = m] /\ mem'[r] = m
      /\ locks' = locks \cup {<<w[1], w[2], r>> : w \in {x \in Wanted(r) : x[2] \in DOMAIN db[x[1]]}}
  BY DEF LockRow, RInv
<1>2. /\ mem'[r].row = mem[r].row /\ mem'[r].bay = mem[r].bay /\ mem'[r].tech = mem[r].tech
      /\ mem'[r].scan = mem[r].scan \ Earliest(mem[r].scan)
  BY <1>1 DEF RInv, RequestInv, Memory
<1>3. locks \subseteq locks'
  BY <1>1
<1>4. PICK t : t = IF at[r] = "lockBays" THEN "bay" ELSE "tech"
  OBVIOUS
<1>5. ASSUME NEW i \in Earliest(mem[r].scan) PROVE Secured(t, i, r)'
  <2>1. Wanted(r) = {<<t, j>> : j \in Earliest(mem[r].scan)}
    BY <1>1, <1>4 DEF Wanted
  <2>2. <<t, i>> \in Wanted(r) /\ <<t, i>>[1] = t /\ <<t, i>>[2] = i
    BY <2>1
  <2>3. i \in DOMAIN db[t] => <<t, i, r>> \in locks'
    <3>1. SUFFICES ASSUME i \in DOMAIN db[t] PROVE <<t, i, r>> \in locks'
      OBVIOUS
    <3> DEFINE w == <<t, i>>
    <3>2. w \in {x \in Wanted(r) : x[2] \in DOMAIN db[x[1]]} /\ <<t, i, r>> = <<w[1], w[2], r>>
      BY <2>2, <3>1
    <3> HIDE DEF w
    <3> QED
      BY <1>1, <3>2
  <2> QED
    BY <1>1, <2>3 DEF Secured, Held
<1> HIDE DEF m
<1>6. ASSUME revived = {} PROVE BookInv(r)'
  <2>1. BookInv(r)
    BY <1>6 DEF BInv
  <2>2. at'[r] = "lockBays" => \A i \in mem'[r].bay \ mem'[r].scan : Secured("bay", i, r)'
    BY <1>1, <1>2, <1>3, <1>4, <1>5, <2>1, StaySecured DEF BookInv
  <2>3. at'[r] = "lockTechs" => \A i \in mem'[r].tech \ mem'[r].scan : Secured("tech", i, r)'
    BY <1>1, <1>2, <1>3, <1>4, <1>5, <2>1, StaySecured DEF BookInv
  <2>4. at'[r] = "lockTechs" => \A i \in mem'[r].bay : Reserved("bay", i, r)'
    BY <1>1, <1>2, <1>3, <2>1, StaySecured DEF BookInv
  <2> QED
    BY <1>1, <2>2, <2>3, <2>4 DEF BookInv
<1> QED
  BY <1>1, <1>3, <1>6, MoveB

(* Busy are the bays of confirmed appointments that overlap. *)
LEMMA FreeIsReserved ==
  ASSUME BInv, NEW r, NEW i, NEW t \in Housed, Secured(t, i, r),
         i \notin (IF t = "bay" THEN Rules(Seen(r))!BusyBays(appts, order[r].start, End(r))
                                ELSE Rules(Seen(r))!BusyTechs(appts, order[r].start, End(r)))
  PROVE  Reserved(t, i, r)
<1>1. ASSUME NEW a \in appts, a[t] = i, Overlaps(a, order[r].start, Until(r)) PROVE FALSE
  <2>1. Rules(Seen(r))!Occupies(a, order[r].start, End(r))
    BY <1>1, EndIs DEF BInv, Rules!Occupies, Rules!IntervalsOverlap, Overlaps
  <2> QED
    BY <1>1, <2>1 DEF Housed, Rules!BusyBays, Rules!BusyTechs
<1> QED
  BY <1>1 DEF Secured, Reserved

LEMMA FindB ==
  ASSUME RInv, LocksInv, BInv, NEW r \in Requests,
         FindAvailableBays(r) \/ FindAvailableTechnicians(r)
  PROVE  BInv'
<1>1. CASE FindAvailableBays(r)
  <2> DEFINE m == [mem[r] EXCEPT !.bay = @ \ Rules(Seen(r))!BusyBays(appts, order[r].start, End(r))]
  <2>1. /\ at[r] = "lockBays" /\ mem[r].scan = {} /\ Goto(r, "readTechs")
        /\ UNCHANGED <<db, appts, order, locks, revived>>
        /\ mem' = [mem EXCEPT ![r] = m] /\ mem'[r] = m
    BY <1>1 DEF FindAvailableBays, RInv
  <2>2. /\ mem'[r].row = mem[r].row
        /\ mem'[r].bay = mem[r].bay \ Rules(Seen(r))!BusyBays(appts, order[r].start, End(r))
    BY <2>1 DEF RInv, RequestInv, Memory
  <2> HIDE DEF m
  <2>3. ASSUME revived = {} PROVE BookInv(r)'
    <3>1. BookInv(r)
      BY <2>3 DEF BInv
    <3>2. at'[r] = "readTechs"
      BY <2>1 DEF Goto, RInv
    <3>3. ASSUME NEW i \in mem'[r].bay PROVE Reserved("bay", i, r)'
      <4>1. Secured("bay", i, r)
        BY <2>1, <2>2, <3>1, <3>3 DEF BookInv
      <4>2. Reserved("bay", i, r)
        BY <2>2, <3>3, <4>1, FreeIsReserved DEF Housed
      <4> QED
        BY <2>1, <2>2, <4>2, StaySecured
    <3> QED
      BY <3>2, <3>3 DEF BookInv
  <2> QED
    BY <2>1, <2>3, MoveB DEF Goto
<1>2. CASE FindAvailableTechnicians(r)
  <2>1. CASE Respond(r, "full")
    BY <2>1, RespondB DEF Answers
  <2>2. CASE ~Respond(r, "full")
    <3> DEFINE m == [mem[r] EXCEPT !.tech = mem[r].tech \ Rules(Seen(r))!BusyTechs(appts, order[r].start, End(r))]
    <3>1. /\ at[r] = "lockTechs" /\ mem[r].scan = {} /\ Goto(r, "book")
          /\ UNCHANGED <<db, appts, order, locks, revived>>
          /\ mem' = [mem EXCEPT ![r] = m] /\ mem'[r] = m
      BY <1>2, <2>2 DEF FindAvailableTechnicians, RInv
    <3>2. /\ mem'[r].row = mem[r].row /\ mem'[r].bay = mem[r].bay
          /\ mem'[r].tech = mem[r].tech \ Rules(Seen(r))!BusyTechs(appts, order[r].start, End(r))
      BY <3>1 DEF RInv, RequestInv, Memory
    <3> HIDE DEF m
    <3>3. ASSUME revived = {} PROVE BookInv(r)'
      <4>1. BookInv(r)
        BY <3>3 DEF BInv
      <4>2. at'[r] = "book"
        BY <3>1 DEF Goto, RInv
      <4>3. ASSUME NEW i \in mem'[r].tech PROVE Reserved("tech", i, r)'
        <5>1. Secured("tech", i, r)
          BY <3>1, <3>2, <4>1, <4>3 DEF BookInv
        <5>2. Reserved("tech", i, r)
          BY <3>2, <4>3, <5>1, FreeIsReserved DEF Housed
        <5> QED
          BY <3>1, <3>2, <5>2, StaySecured
      <4>4. ASSUME NEW i \in mem'[r].bay PROVE Reserved("bay", i, r)'
        <5>1. Reserved("bay", i, r)
          BY <3>1, <3>2, <4>1, <4>4 DEF BookInv
        <5> QED
          BY <3>1, <3>2, <5>1, StaySecured
      <4> QED
        BY <4>2, <4>3, <4>4 DEF BookInv
    <3> QED
      BY <3>1, <3>3, MoveB DEF Goto
  <2> QED
    BY <2>1, <2>2
<1> QED
  BY <1>1, <1>2

LEMMA ReadB ==
  ASSUME RInv, LocksInv, BInv, NEW r \in Requests, ReadBays(r) \/ ReadTechs(r)
  PROVE  BInv'
<1>1. CASE ReadBays(r)
  <2>1. PICK cands : ReadCandidates(r, "bay", cands, "lockBays")
    BY <1>1 DEF ReadBays
  <2> DEFINE m == [mem[r] EXCEPT !["bay"] = cands, !.scan = cands]
  <2>2. /\ Goto(r, "lockBays") /\ UNCHANGED <<db, appts, order, locks, revived>>
        /\ mem' = [mem EXCEPT ![r] = m] /\ mem'[r] = m
    BY <2>1 DEF ReadCandidates, RInv
  <2>3. mem'[r].bay \ mem'[r].scan = {}
    BY ZenonT(60), <2>2 DEF RInv, RequestInv, Memory
  <2> HIDE DEF m
  <2>4. BookInv(r)'
    BY <2>2, <2>3 DEF BookInv, Goto, RInv
  <2> QED
    BY <2>2, <2>4, MoveB DEF Goto
<1>2. CASE ReadTechs(r)
  <2>1. at[r] = "readTechs" /\ \E cands : ReadCandidates(r, "tech", cands, "lockTechs")
    BY <1>2 DEF ReadTechs
  <2>2. PICK cands : ReadCandidates(r, "tech", cands, "lockTechs")
    BY <2>1
  <2> DEFINE m == [mem[r] EXCEPT !["tech"] = cands, !.scan = cands]
  <2>3. /\ Goto(r, "lockTechs") /\ UNCHANGED <<db, appts, order, locks, revived>>
        /\ mem' = [mem EXCEPT ![r] = m] /\ mem'[r] = m
    BY <2>2 DEF ReadCandidates, RInv
  <2>4. mem'[r].tech \ mem'[r].scan = {} /\ mem'[r].row = mem[r].row /\ mem'[r].bay = mem[r].bay
    BY ZenonT(60), <2>3 DEF RInv, RequestInv, Memory
  <2> HIDE DEF m
  <2>5. ASSUME revived = {} PROVE BookInv(r)'
    <3>1. at'[r] = "lockTechs"
      BY <2>3 DEF Goto, RInv
    <3>2. ASSUME NEW i \in mem'[r].bay PROVE Reserved("bay", i, r)'
      <4>1. Reserved("bay", i, r)
        BY <2>1, <2>4, <2>5, <3>2 DEF BInv, BookInv
      <4> QED
        BY <2>3, <2>4, <4>1, StaySecured
    <3> QED
      BY <2>4, <3>1, <3>2 DEF BookInv
  <2> QED
    BY <2>3, <2>5, MoveB DEF Goto
<1> QED
  BY <1>1, <1>2

(* A committed appointment has its bay and its technician to itself: both  *)
(* have rows, so that they are locked and were found to be free.           *)
LEMMA AppointmentB ==
  ASSUME RInv, LocksInv, BInv, NEW r \in Requests, InsertAppointment(r)
  PROVE  BInv'
<1>1. CASE Respond(r, "error")
  BY <1>1, RespondB DEF Answers
<1>2. CASE ~Respond(r, "error")
  <2>1. PICK b \in mem[r].bay, c \in mem[r].tech :
          LET a == Appointment(r, b, c)
          IN  /\ \A f \in Tables \cap DOMAIN a : a[f] \in DOMAIN db[f]
              /\ appts' = appts \cup {a} /\ Answer(r, "ok") /\ db' = db /\ revived' = revived
    BY <1>2 DEF InsertAppointment, Earliest
  <2> DEFINE a == Appointment(r, b, c)
  <2>2. /\ "bay" \in DOMAIN a /\ "tech" \in DOMAIN a
        /\ a["bay"] = b /\ a["tech"] = c /\ a.start = order[r].start /\ a.end = Until(r)
        /\ a.status = "CONFIRMED"
    BY EndIs DEF Appointment
  <2>3. /\ b \in DOMAIN db["bay"] /\ c \in DOMAIN db["tech"]
        /\ appts' = appts \cup {a} /\ Answer(r, "ok") /\ db' = db /\ revived' = revived
    BY <2>1, <2>2, TableNames
  <2> HIDE DEF a
  <2>4. \A x \in appts' : x.status = "CONFIRMED"
    BY <2>2, <2>3 DEF BInv
  <2> SUFFICES ASSUME revived = {} PROVE Disjoint' /\ \A q \in Requests : BookInv(q)'
    BY <2>3, <2>4 DEF BInv
  <2>5. at[r] = "book" /\ BookInv(r)
    BY <1>2 DEF InsertAppointment, BInv
  <2>6. Reserved("bay", b, r) /\ Reserved("tech", c, r)
    BY <2>1, <2>5 DEF BookInv
  <2>7. /\ Held("bay", b, r) /\ Held("tech", c, r)
        /\ \A x \in appts : x["bay"] = b \/ x["tech"] = c => ~Overlaps(x, a.start, a.end)
    BY <2>2, <2>3, <2>6 DEF Reserved
  <2>8. Disjoint'
    <3>1. ASSUME NEW x \in appts, x["bay"] = a["bay"] \/ x["tech"] = a["tech"]
          PROVE  ~Overlaps(x, a.start, a.end) /\ ~Overlaps(a, x.start, x.end)
      BY <2>2, <2>7, <3>1 DEF Overlaps
    <3> QED
      BY <2>3, <3>1 DEF BInv, Disjoint, Overlaps
  <2>9. BookInv(r)'
    BY <2>3 DEF Answer, Goto, RInv, BookInv
  <2>10. ASSUME NEW q \in Requests \ {r} PROVE BookInv(q)'
    <3>1. /\ at' = [at EXCEPT ![r] = "ok"] /\ order' = [order EXCEPT ![r] = NoOrder]
          /\ mem' = [mem EXCEPT ![r] = NoMemory]
      BY <2>3 DEF Answer, Goto
    <3>2. ASSUME NEW t \in Tables, NEW i \in Nat, NEW p \in Requests \ {r}, Held(t, i, p)
          PROVE  Held(t, i, p)'
      <4>1. <<t, i, p>>[3] # r
        OBVIOUS
      <4> QED
        BY <2>3, <3>2, <4>1 DEF Answer, Held
    <3>3. \A x \in appts' \ appts : \A t \in Housed : x[t] \in DOMAIN db[t] => Held(t, x[t], r)
      BY <2>2, <2>3, <2>7 DEF Housed
    <3> QED
      BY <2>3, <3>1, <3>2, <3>3, OthersB
  <2> QED
    BY <2>8, <2>9, <2>10
<1> QED
  BY <1>1, <1>2

LEMMA NextB ==
  ASSUME RInv, DInv, LocksInv, BInv, [Next]_vars
  PROVE  BInv'
<1>1. ASSUME NEW r \in Requests, NEW s, NEW o, NEW m, at' = [at EXCEPT ![r] = s],
             order' = order \/ order' = [order EXCEPT ![r] = o],
             mem' = mem \/ mem' = [mem EXCEPT ![r] = m],
             UNCHANGED <<db, appts, locks, revived>>,
             s \notin {"lockBays", "readTechs", "lockTechs", "book"}
      PROVE  BInv'
  <2>1. at'[r] = s
    BY <1>1 DEF RInv
  <2>2. BookInv(r)'
    BY <1>1, <2>1 DEF BookInv
  <2> QED
    BY <1>1, <2>2, MoveB
<1>2. ASSUME NEW r \in Requests, Arrive(r) PROVE BInv'
  <2>1. Respond(r, "notFound")
        \/ \E o, m, s : /\ s \in SaveStages \cup EditStages \cup {"readBays"}
                        /\ Enter(r, o, s, m)
    BY <1>2, Arrivals, StageAfter, StageNames DEF Creates, Updates, Deletes, Books, CreateRow
  <2>2. \A s \in SaveStages \cup EditStages \cup {"readBays"} :
          s \notin {"lockBays", "readTechs", "lockTechs", "book"}
    BY DEF SaveStages, TagTables, EditStages
  <2> QED
    BY <1>1, <2>1, <2>2, RespondB DEF Enter, Goto, Answers
<1>3. ASSUME NEW r \in Requests, ResolveByIds(r) \/ Find(r) \/ Count(r) PROVE BInv'
  <2>1. \/ \E a \in Answers : Respond(r, a)
        \/ \E s, m : /\ s \in SaveStages \cup EditStages
                     /\ Goto(r, s) /\ UNCHANGED <<db, appts, order, locks, revived>>
                     /\ mem' = mem \/ mem' = [mem EXCEPT ![r] = m]
    <3>1. CASE ResolveByIds(r)
      BY <3>1, StageAfter, StageNames DEF ResolveByIds, Answers
    <3>2. CASE Count(r)
      BY <3>2, StageNames DEF Count, Answers
    <3>3. CASE Find(r)
      <4>1. Exists(order[r]) => \E m : mem' = [mem EXCEPT ![r] = m]
        BY <3>3 DEF Find
      <4> QED
        BY <3>3, <4>1, StageNames DEF Find
    <3> QED
      BY <1>3, <3>1, <3>2, <3>3
  <2>2. \A s \in SaveStages \cup EditStages : s \notin {"lockBays", "readTechs", "lockTechs", "book"}
    BY DEF SaveStages, TagTables, EditStages
  <2> QED
    BY <1>1, <2>1, <2>2, RespondB DEF Goto
<1>4. ASSUME NEW r \in Requests, Remove(r) \/ Cascade(r) PROVE BInv'
  <2>1. at[r] \in EditStages
    BY <1>4, StageNames DEF Remove, Cascade
  <2>2. CASE DeleteRow(r)
    BY <2>1, <2>2, DeleteRowB
  <2>3. CASE ~DeleteRow(r)
    <3>1. /\ at' = [at EXCEPT ![r] = "cascade"] /\ locks \subseteq locks'
          /\ UNCHANGED <<db, appts, order, mem, revived>>
      BY <1>4, <2>3 DEF Remove, Cascade, Goto
    <3>2. at'[r] = "cascade"
      BY <3>1 DEF RInv
    <3>3. BookInv(r)'
      BY <3>2 DEF BookInv
    <3> QED
      BY <3>1, <3>3, MoveB
  <2> QED
    BY <2>2, <2>3
<1>5. ASSUME NEW r \in Requests, DeadlockVictim(r) \/ Fail(r) PROVE BInv'
  BY <1>5, RespondB DEF DeadlockVictim, Fail, Answers
<1>6. CASE UNCHANGED vars
  BY <1>6 DEF vars, BInv, Disjoint, BookInv, Secured, Reserved, Held, Until, Overlaps
<1>7. ASSUME NEW r \in Requests, Proceed(r) PROVE BInv'
  BY <1>3, <1>4, <1>5, <1>7, InsertB, WriteB, LockRowB, FindB, ReadB, AppointmentB DEF Proceed
<1> QED
  BY <1>2, <1>5, <1>6, <1>7 DEF Next

(* Locking the candidates is enough although the list of them is read      *)
(* before, as long as no edit brings a row back that a booking has looked  *)
(* for in vain.                                                            *)
THEOREM NoDoubleBookingBesideEdits == Spec => []NoDoubleBookingUnlessRevived
<1>1. Init => RInv /\ DInv /\ LocksInv /\ BInv
  <2>1. Init => LocksInv
    BY DEF Init, LocksInv, Held
  <2>2. Init => BInv
    BY DEF Init, BInv, Disjoint, BookInv
  <2> QED
    BY <2>1, <2>2, InitR, InitD
<1>2. RInv /\ DInv /\ LocksInv /\ BInv /\ [Next]_vars => RInv' /\ DInv' /\ LocksInv' /\ BInv'
  BY NextR, NextD, NextL, NextB
<1>3. BInv => NoDoubleBookingUnlessRevived
  BY DEF BInv, Disjoint, Overlaps, NoDoubleBookingUnlessRevived, NoDoubleBooking, Rules!IntervalsOverlap
<1> QED
  BY <1>1, <1>2, <1>3, PTL DEF Spec

-----------------------------------------------------------------------------
(* Requests that no edit races                                             *)

(* What such a request has in memory is what the rows say: a booking knows *)
(* its service type and candidates that fit it, an update its row.         *)
FittingBays(r) == Rules(db.service)!CapableBays(order[r].dealership, order[r].service)

FittingTechs(r) ==
  Rules(db.service)!EligibleTechnicians(order[r].dealership, order[r].service, order[r].start)

CurrentBooking(r) ==
  /\ order[r].service \in DOMAIN db.service
  /\ mem[r].row = db.service[order[r].service]
  /\ mem[r].bay \subseteq FittingBays(r)
  /\ mem[r].tech \subseteq FittingTechs(r)

CurrentUpdate(r) ==
  /\ Exists(order[r])
  /\ at[r] # "insert"
  /\ mem[r].row = Patched(db[order[r].table][order[r].id], order[r].set)
  /\ at[r] = "write" => mem[r].found = db[order[r].table][order[r].id]

Current(r) ==
  /\ at[r] \in BookStages => CurrentBooking(r)
  /\ at[r] \in SaveStages /\ order[r].op = "update" => CurrentUpdate(r)

UInv ==
  /\ DOMAIN raced = Requests
  /\ \A r \in Requests : ~raced[r] => Current(r)

LEMMA FittingStays ==
  ASSUME NEW r, db' = db, order'[r] = order[r]
  PROVE  FittingBays(r)' = FittingBays(r) /\ FittingTechs(r)' = FittingTechs(r)
BY DEF FittingBays, FittingTechs, Rules!CapableBays, Rules!EligibleTechnicians,
       Rules!QualifiedTechnicians, Rules!TechnicianOnShift, Rules!TechnicianIsQualified,
       Rules!BayIsCapable, Rules!EndOf, Rules!MinuteOfDay, Rules!DayOf

LEMMA CurrentStays ==
  ASSUME NEW r, db' = db, order'[r] = order[r], mem'[r] = mem[r], at'[r] = at[r], Current(r)
  PROVE  Current(r)'
<1>1. CurrentBooking(r) => CurrentBooking(r)'
  BY FittingStays DEF CurrentBooking
<1>2. CurrentUpdate(r) => CurrentUpdate(r)'
  BY DEF CurrentUpdate, Exists
<1> QED
  BY <1>1, <1>2 DEF Current

(* The rules read the service type that the booking has read. *)
LEMMA SeenIsCurrent ==
  ASSUME NEW r, order[r].service \in DOMAIN db.service, mem[r].row = db.service[order[r].service]
  PROVE  /\ Rules(Seen(r))!CapableBays(order[r].dealership, order[r].service) = FittingBays(r)
         /\ Rules(Seen(r))!EligibleTechnicians(order[r].dealership, order[r].service, order[r].start)
              = FittingTechs(r)
         /\ End(r) = Rules(db.service)!EndOf(order[r].service, order[r].start)
<1>1. Seen(r)[order[r].service] = db.service[order[r].service]
  BY DEF Seen
<1> HIDE DEF Seen
<1> QED
  BY <1>1 DEF FittingBays, FittingTechs, End, Rules!CapableBays, Rules!EligibleTechnicians,
              Rules!QualifiedTechnicians, Rules!TechnicianOnShift, Rules!TechnicianIsQualified,
              Rules!BayIsCapable, Rules!EndOf, Rules!MinuteOfDay, Rules!DayOf

(* Other requests see the rows that they saw. *)
LEMMA OthersU ==
  ASSUME RInv, UInv, NEW r \in Requests, NEW s, NEW o, NEW m, db' = db,
         at' = at \/ at' = [at EXCEPT ![r] = s],
         order' = order \/ order' = [order EXCEPT ![r] = o],
         mem' = mem \/ mem' = [mem EXCEPT ![r] = m],
         raced' = raced \/ raced' = [raced EXCEPT ![r] = FALSE],
         ~raced'[r] => Current(r)'
  PROVE  UInv'
<1>1. DOMAIN raced' = Requests
  BY DEF UInv
<1>2. ASSUME NEW q \in Requests \ {r}, ~raced'[q] PROVE Current(q)'
  <2>1. at'[q] = at[q] /\ order'[q] = order[q] /\ mem'[q] = mem[q] /\ raced'[q] = raced[q]
    BY DEF RInv, UInv
  <2>2. Current(q)
    BY <1>2, <2>1 DEF UInv
  <2> QED
    BY <2>1, <2>2, CurrentStays
<1> QED
  BY <1>1, <1>2 DEF UInv

LEMMA AnswerU ==
  ASSUME RInv, UInv, NEW r \in Requests, NEW a \in Answers, Answer(r, a), db' = db,
         raced' = [raced EXCEPT ![r] = FALSE]
  PROVE  UInv'
<1>1. at'[r] = a /\ a \in Idle
  BY DEF Answer, Goto, RInv, Idle
<1>2. Current(r)'
  BY <1>1, StageNames DEF Current
<1> QED
  BY <1>2, OthersU DEF Answer, Goto

LEMMA RespondU ==
  ASSUME RInv, UInv, NEW r \in Requests, NEW a \in Answers, Respond(r, a)
  PROVE  UInv'
BY AnswerU DEF Respond

(* An edit races every other request that is not idle. *)
LEMMA EditU ==
  ASSUME RInv, UInv, NEW r \in Requests, NEW rows, Edit(r, rows)
  PROVE  UInv'
<1>1. at' = [at EXCEPT ![r] = "ok"] /\ raced' = [q \in Requests |-> q # r /\ (raced[q] \/ at[q] \notin Idle)]
  BY DEF Edit, Answer, Goto
<1>2. ASSUME NEW q \in Requests, ~raced'[q] PROVE Current(q)'
  <2>1. at'[q] \in Idle
    BY <1>1, <1>2 DEF RInv, Idle, Answers
  <2> QED
    BY <2>1, StageNames DEF Current
<1> QED
  BY <1>1, <1>2 DEF UInv

LEMMA ArriveU ==
  ASSUME RInv, UInv, NEW r \in Requests, Arrive(r)
  PROVE  UInv'
<1>1. ASSUME NEW o, NEW s, NEW m, Enter(r, o, s, m), Current(r)' PROVE UInv'
  BY <1>1, OthersU DEF Enter, Goto
<1>2. ASSUME NEW o, NEW s, NEW m, Enter(r, o, s, m)
      PROVE  at'[r] = s /\ order'[r] = o /\ mem'[r] = m /\ db' = db
  BY <1>2 DEF Enter, Goto, RInv
<1>3. ASSUME NEW o, Creates(r, o) PROVE UInv'
  <2>1. PICK row : CreateRow(r, o, row)
    BY <1>3 DEF Creates
  <2> DEFINE m == [NoMemory EXCEPT !.row = row]
             s == Stage(o, ToResolve(o))
  <2>2. Enter(r, o, s, m) /\ s \in SaveStages
    BY <2>1, StageAfter DEF CreateRow, SaveStages
  <2> HIDE DEF m, s
  <2>3. Current(r)'
    BY <1>2, <1>3, <2>2, StageNames DEF Current, Creates
  <2> QED
    BY <1>1, <2>2, <2>3
<1>4. ASSUME NEW o, Updates(r, o) PROVE UInv'
  <2> DEFINE row == Patched(db[o.table][o.id], o.set)
             m == [NoMemory EXCEPT !.row = row]
             s == Stage(o, ToResolve(o))
  <2>1. Enter(r, o, s, m) /\ o.op = "update" /\ Exists(o) /\ m.row = row
    BY <1>4 DEF Updates, CreateRow, NoMemory
  <2>2. s \in SaveStages /\ s # "insert" /\ s # "write"
    BY <2>1, StageAfter DEF SaveStages, TagTables
  <2> HIDE DEF m, s
  <2>3. at'[r] = s /\ order'[r] = o /\ mem'[r] = m /\ db' = db
    BY <1>2, <2>1
  <2>4. CurrentUpdate(r)'
    BY <2>1, <2>2, <2>3 DEF CurrentUpdate, Exists
  <2>5. Current(r)'
    BY <2>2, <2>3, <2>4, StageNames DEF Current
  <2> QED
    BY <1>1, <2>1, <2>5
<1>5. ASSUME NEW o, Deletes(r, o) PROVE UInv'
  <2>1. PICK s \in {"count", "remove"} : Enter(r, o, s, NoMemory)
    BY <1>5 DEF Deletes
  <2>2. s \notin SaveStages \cup BookStages
    BY StageNames DEF EditStages
  <2>3. Current(r)'
    BY <1>2, <2>1, <2>2 DEF Current
  <2> QED
    BY <1>1, <2>1, <2>3
<1>6. ASSUME NEW o, Books(r, o) PROVE UInv'
  <2> DEFINE m == [NoMemory EXCEPT !.row = db.service[o.service]]
  <2>1. /\ Enter(r, o, "readBays", m) /\ o.service \in DOMAIN db.service
        /\ m.row = db.service[o.service] /\ m.bay = {} /\ m.tech = {}
    BY <1>6 DEF Books, NoMemory
  <2> HIDE DEF m
  <2>2. at'[r] = "readBays" /\ order'[r] = o /\ mem'[r] = m /\ db' = db
    BY <1>2, <2>1
  <2>3. CurrentBooking(r)'
    BY <2>1, <2>2 DEF CurrentBooking
  <2>4. "readBays" \in BookStages
    BY DEF BookStages
  <2>5. Current(r)'
    BY <2>2, <2>3, <2>4, StageNames DEF Current
  <2> QED
    BY <1>1, <2>1, <2>5
<1> QED
  BY <1>3, <1>4, <1>5, <1>6, Arrivals, RespondU DEF Answers

(* A booking goes on with no other row, and no new candidate that does not *)
(* fit.                                                                    *)
LEMMA BookingU ==
  ASSUME RInv, UInv, NEW r \in Requests, NEW m, NEW s,
         at[r] \in BookStages, s \in BookStages,
         at' = at \/ at' = [at EXCEPT ![r] = s],
         mem' = [mem EXCEPT ![r] = m], UNCHANGED <<db, order, raced>>,
         m.row = mem[r].row,
         CurrentBooking(r) => m.bay \subseteq FittingBays(r) /\ m.tech \subseteq FittingTechs(r)
  PROVE  UInv'
<1>1. at'[r] \in BookStages /\ mem'[r] = m /\ order'[r] = order[r] /\ raced'[r] = raced[r]
  BY DEF RInv
<1>2. ASSUME ~raced'[r] PROVE Current(r)'
  <2>1. CurrentBooking(r)
    BY <1>1, <1>2 DEF UInv, Current
  <2>2. CurrentBooking(r)'
    BY <1>1, <2>1, FittingStays DEF CurrentBooking
  <2> QED
    BY <1>1, <2>2, StageNames DEF Current
<1> QED
  BY <1>2, OthersU

LEMMA ProceedU ==
  ASSUME RInv, UInv, NEW r \in Requests, Proceed(r)
  PROVE  UInv'
<1>1. DOMAIN mem[r] = Memory
  BY DEF RInv, RequestInv
<1>2. CASE ResolveByIds(r)
  <2>1. CASE Respond(r, "notFound")
    BY <2>1, RespondU DEF Answers
  <2>2. CASE ~Respond(r, "notFound")
    <3>1. PICK tags : /\ Goto(r, Stage(order[r], tags))
                      /\ at[r] \in TagTables /\ UNCHANGED <<db, order, mem, raced>>
      BY <1>2, <2>2 DEF ResolveByIds
    <3> DEFINE s == Stage(order[r], tags)
    <3>2. /\ s \in SaveStages /\ s # "write" /\ (s = "insert" => order[r].op = "create")
          /\ at' = [at EXCEPT ![r] = s]
      BY <3>1, StageAfter, StageNames DEF Goto
    <3> HIDE DEF s
    <3>3. at'[r] = s /\ order'[r] = order[r] /\ mem'[r] = mem[r]
      BY <3>1, <3>2 DEF RInv
    <3>4. ASSUME ~raced'[r], order[r].op = "update" PROVE CurrentUpdate(r)'
      <4>1. CurrentUpdate(r)
        BY <3>1, <3>4, StageNames DEF UInv, Current
      <4> QED
        BY <3>1, <3>2, <3>3, <3>4, <4>1 DEF CurrentUpdate, Exists
    <3>5. ~raced'[r] => Current(r)'
      BY <3>2, <3>3, <3>4, StageNames DEF Current
    <3> QED
      BY <3>1, <3>2, <3>5, OthersU
  <2> QED
    BY <2>1, <2>2
<1>3. CASE Find(r)
  <2>1. at[r] = "find" /\ UNCHANGED <<db, order, raced>>
    BY <1>3 DEF Find
  <2>2. CASE Exists(order[r])
    <3> DEFINE m == [mem[r] EXCEPT !.found = db[order[r].table][order[r].id]]
    <3>1. /\ mem' = [mem EXCEPT ![r] = m] /\ mem'[r] = m
          /\ at' = [at EXCEPT ![r] = "write"] /\ at'[r] = "write" /\ order'[r] = order[r]
      BY <1>3, <2>2 DEF Find, Goto, RInv
    <3>2. m.row = mem[r].row /\ m.found = db[order[r].table][order[r].id]
      BY <1>1 DEF Memory
    <3> HIDE DEF m
    <3>3. ASSUME ~raced'[r], order[r].op = "update" PROVE CurrentUpdate(r)'
      <4>1. CurrentUpdate(r)
        BY <2>1, <3>3, StageNames DEF UInv, Current
      <4> QED
        BY <2>1, <3>1, <3>2, <4>1 DEF CurrentUpdate, Exists
    <3>4. ~raced'[r] => Current(r)'
      BY <3>1, <3>3, StageNames DEF Current
    <3> QED
      BY <2>1, <3>1, <3>4, OthersU
  <2>3. CASE ~Exists(order[r])
    <3>1. order[r].op = "update" /\ raced[r]
      <4>1. order[r].op = "update"
        BY <2>1 DEF RInv, RequestInv
      <4> QED
        BY <2>1, <2>3, <4>1, StageNames DEF UInv, Current, CurrentUpdate
    <3>2. at' = [at EXCEPT ![r] = "insert"] /\ mem' = mem /\ raced'[r]
      BY <1>3, <2>1, <2>3, <3>1 DEF Find, Goto
    <3> QED
      BY <2>1, <3>2, OthersU
  <2> QED
    BY <2>2, <2>3
<1>4. CASE Insert(r)
  BY <1>4, EditU, RespondU DEF Insert, InsertRow, Answers
<1>5. CASE Write(r)
  BY <1>5, EditU, RespondU DEF Write, Answers
<1>6. CASE Count(r) \/ Remove(r) \/ Cascade(r)
  <2>1. CASE Respond(r, "conflict") \/ Respond(r, "error")
    BY <2>1, RespondU DEF Answers
  <2>2. CASE \E rows : Edit(r, rows)
    BY <2>2, EditU
  <2>3. CASE \E s \in {"remove", "cascade"} : Goto(r, s) /\ UNCHANGED <<db, order, mem, raced>>
    <3>1. PICK s \in {"remove", "cascade"} : Goto(r, s) /\ UNCHANGED <<db, order, mem, raced>>
      BY <2>3
    <3>2. at' = [at EXCEPT ![r] = s] /\ at'[r] = s /\ s \in EditStages
      BY <3>1, StageNames DEF Goto, RInv
    <3>3. Current(r)'
      BY <3>2, StageNames DEF Current
    <3> QED
      BY <3>1, <3>2, <3>3, OthersU
  <2>4. \/ Respond(r, "conflict") \/ Respond(r, "error")
        \/ \E rows : Edit(r, rows)
        \/ \E s \in {"remove", "cascade"} : Goto(r, s) /\ UNCHANGED <<db, order, mem, raced>>
    BY <1>6 DEF Count, Remove, Cascade, DeleteRow
  <2> QED
    BY <2>1, <2>2, <2>3, <2>4
<1>7. CASE ReadBays(r)
  <2> DEFINE cands == Rules(Seen(r))!CapableBays(order[r].dealership, order[r].service)
             m == [mem[r] EXCEPT !["bay"] = cands, !.scan = cands]
  <2>1. /\ at[r] = "readBays" /\ at' = [at EXCEPT ![r] = "lockBays"]
        /\ mem' = [mem EXCEPT ![r] = m] /\ UNCHANGED <<db, order, raced>>
    BY <1>7 DEF ReadBays, ReadCandidates, Goto
  <2> HIDE DEF cands
  <2>2. m.row = mem[r].row /\ m.bay = cands /\ m.tech = mem[r].tech
    BY <1>1 DEF Memory
  <2> HIDE DEF m
  <2>3. CurrentBooking(r) => cands \subseteq FittingBays(r) /\ mem[r].tech \subseteq FittingTechs(r)
    BY SeenIsCurrent DEF CurrentBooking, cands
  <2>4. at[r] \in BookStages /\ "lockBays" \in BookStages
    BY <2>1 DEF BookStages
  <2> QED
    BY <2>1, <2>2, <2>3, <2>4, BookingU
<1>8. CASE ReadTechs(r)
  <2> DEFINE cands == Rules(Seen(r))!EligibleTechnicians(order[r].dealership, order[r].service, order[r].start)
             m == [mem[r] EXCEPT !["tech"] = cands, !.scan = cands]
  <2>1. /\ at[r] = "readTechs" /\ at' = [at EXCEPT ![r] = "lockTechs"]
        /\ mem' = [mem EXCEPT ![r] = m] /\ UNCHANGED <<db, order, raced>>
    BY <1>8 DEF ReadTechs, ReadCandidates, Goto
  <2> HIDE DEF cands
  <2>2. m.row = mem[r].row /\ m.tech = cands /\ m.bay = mem[r].bay
    BY <1>1 DEF Memory
  <2> HIDE DEF m
  <2>3. CurrentBooking(r) => mem[r].bay \subseteq FittingBays(r) /\ cands \subseteq FittingTechs(r)
    BY SeenIsCurrent DEF CurrentBooking, cands
  <2>4. at[r] \in BookStages /\ "lockTechs" \in BookStages
    BY <2>1 DEF BookStages
  <2> QED
    BY <2>1, <2>2, <2>3, <2>4, BookingU
<1>9. CASE LockRow(r)
  <2> DEFINE m == [mem[r] EXCEPT !.scan = @ \ Earliest(@)]
  <2>1. /\ at[r] \in {"lockBays", "lockTechs"} /\ at' = at
        /\ mem' = [mem EXCEPT ![r] = m] /\ UNCHANGED <<db, order, raced>>
    BY <1>9 DEF LockRow
  <2>2. m.row = mem[r].row /\ m.bay = mem[r].bay /\ m.tech = mem[r].tech
    BY <1>1 DEF Memory
  <2> HIDE DEF m
  <2>3. at[r] \in BookStages
    BY <2>1 DEF BookStages
  <2> QED
    BY <2>1, <2>2, <2>3, BookingU DEF CurrentBooking
<1>10. CASE FindAvailableBays(r)
  <2> DEFINE free == mem[r].bay \ Rules(Seen(r))!BusyBays(appts, order[r].start, End(r))
             m == [mem[r] EXCEPT !.bay = free]
  <2>1. /\ at[r] = "lockBays" /\ at' = [at EXCEPT ![r] = "readTechs"]
        /\ mem' = [mem EXCEPT ![r] = m] /\ UNCHANGED <<db, order, raced>>
    BY <1>10 DEF FindAvailableBays, Goto
  <2>2. m.row = mem[r].row /\ m.bay \subseteq mem[r].bay /\ m.tech = mem[r].tech
    BY <1>1 DEF Memory
  <2> HIDE DEF m
  <2>3. at[r] \in BookStages /\ "readTechs" \in BookStages
    BY <2>1 DEF BookStages
  <2> QED
    BY <2>1, <2>2, <2>3, BookingU DEF CurrentBooking
<1>11. CASE FindAvailableTechnicians(r)
  <2>1. CASE Respond(r, "full")
    BY <2>1, RespondU DEF Answers
  <2>2. CASE ~Respond(r, "full")
    <3> DEFINE free == mem[r].tech \ Rules(Seen(r))!BusyTechs(appts, order[r].start, End(r))
               m == [mem[r] EXCEPT !.tech = free]
    <3>1. /\ at[r] = "lockTechs" /\ at' = [at EXCEPT ![r] = "book"]
          /\ mem' = [mem EXCEPT ![r] = m] /\ UNCHANGED <<db, order, raced>>
      BY <1>11, <2>2 DEF FindAvailableTechnicians, Goto
    <3>2. m.row = mem[r].row /\ m.tech \subseteq mem[r].tech /\ m.bay = mem[r].bay
      BY <1>1 DEF Memory
    <3> HIDE DEF m
    <3>3. at[r] \in BookStages /\ "book" \in BookStages
      BY <3>1 DEF BookStages
    <3> QED
      BY <3>1, <3>2, <3>3, BookingU DEF CurrentBooking
  <2> QED
    BY <2>1, <2>2
<1>12. CASE InsertAppointment(r)
  BY <1>12, AnswerU, RespondU DEF InsertAppointment, Answers
<1>13. CASE DeadlockVictim(r)
  BY <1>13, RespondU DEF DeadlockVictim, Answers
<1> QED
  BY <1>2, <1>3, <1>4, <1>5, <1>6, <1>7, <1>8, <1>9, <1>10, <1>11, <1>12, <1>13 DEF Proceed

LEMMA NextU ==
  ASSUME RInv, UInv, [Next]_vars
  PROVE  UInv'
<1>1. CASE UNCHANGED vars
  <2>1. ASSUME NEW r \in Requests, ~raced'[r] PROVE Current(r)'
    <3>1. Current(r)
      BY <1>1, <2>1 DEF UInv, vars
    <3> QED
      BY <1>1, <3>1, CurrentStays DEF vars
  <2> QED
    BY <1>1, <2>1 DEF UInv, vars
<1>2. ASSUME NEW r \in Requests, Fail(r) PROVE UInv'
  BY <1>2, RespondU DEF Fail, Answers
<1> QED
  BY <1>1, <1>2, ArriveU, ProceedU DEF Next

(* An appointment is committed only by the booking that it is of, and for  *)
(* candidates of it.                                                       *)
LEMMA AppointmentsOf ==
  ASSUME NEW a \in appts' \ appts, [Next]_vars
  PROVE  \E r \in Requests : /\ InsertAppointment(r)
                             /\ \E b \in mem[r].bay, t \in mem[r].tech : a = Appointment(r, b, t)
<1>1. ASSUME NEW r \in Requests, Arrive(r) PROVE FALSE
  BY <1>1, Arrivals DEF Respond, Creates, Updates, Deletes, Books, CreateRow, Enter
<1>2. ASSUME NEW r \in Requests, Proceed(r), ~InsertAppointment(r) PROVE FALSE
  BY <1>2 DEF Proceed, ResolveByIds, Insert, InsertRow, Find, Write, Count, Remove, Cascade, DeleteRow,
              ReadBays, ReadTechs, ReadCandidates, LockRow, FindAvailableBays,
              FindAvailableTechnicians, DeadlockVictim, Respond, Edit
<1>3. ASSUME NEW r \in Requests, Fail(r) PROVE FALSE
  BY <1>3 DEF Fail, Respond
<1>4. PICK r \in Requests : InsertAppointment(r)
  BY <1>1, <1>2, <1>3 DEF Next, vars
<1>5. PICK b \in mem[r].bay, t \in mem[r].tech : appts' = appts \cup {Appointment(r, b, t)}
  BY <1>4 DEF InsertAppointment, Respond, Earliest
<1>6. a = Appointment(r, b, t)
  BY <1>5
<1> QED
  BY <1>4, <1>6

(* Without an edit beside it, a booking commits an appointment that fits   *)
(* the rows as they are then.                                              *)
THEOREM AppointmentsFit == Spec => FitUnlessRaced
<1>1. Init => RInv /\ UInv
  <2>1. Init => UInv
    BY StageNames DEF Init, UInv, Current
  <2> QED
    BY <2>1, InitR
<1>2. RInv /\ UInv /\ [Next]_vars => RInv' /\ UInv'
  BY NextR, NextU
<1>3. ASSUME RInv, UInv, [Next]_vars, NEW a \in appts' \ appts, ~raced[a.by]
      PROVE  Fits(a)
  <2>1. PICK r \in Requests :
          InsertAppointment(r) /\ \E b \in mem[r].bay, t \in mem[r].tech : a = Appointment(r, b, t)
    BY <1>3, AppointmentsOf
  <2>2. PICK b \in mem[r].bay, t \in mem[r].tech : a = Appointment(r, b, t)
    BY <2>1
  <2>3. /\ a.by = r /\ a.dealership = order[r].dealership /\ a.service = order[r].service
        /\ a.bay = b /\ a.tech = t /\ a.start = order[r].start /\ a.end = End(r)
    BY <2>2 DEF Appointment
  <2>4. CurrentBooking(r)
    BY <1>3, <2>1, <2>3 DEF UInv, Current, InsertAppointment, BookStages
  <2>5. End(r) = Rules(db.service)!EndOf(order[r].service, order[r].start)
    BY <2>4, SeenIsCurrent DEF CurrentBooking
  <2>6. b \in FittingBays(r) /\ t \in FittingTechs(r)
    BY <2>2, <2>4 DEF CurrentBooking
  <2> QED
    BY <2>3, <2>5, <2>6 DEF Fits, FittingBays, FittingTechs
<1>4. RInv /\ UInv /\ [Next]_vars => [\A a \in appts' \ appts : raced[a.by] \/ Fits(a)]_vars
  BY <1>3
<1> QED
  BY <1>1, <1>2, <1>4, PTL DEF Spec, FitUnlessRaced

(* An update that no other edit races writes the fields of its body and    *)
(* nothing else: what it has read is still there.                          *)
LEMMA WriteTouches ==
  ASSUME RInv, UInv, NEW r \in Requests, Write(r), ~raced[r], at'[r] = "ok",
         NEW t \in Tables, NEW i \in Touched(t)
  PROVE  /\ t = order[r].table /\ i = order[r].id
         /\ i \in DOMAIN db[t]
         /\ \A f \in DOMAIN db[t][i] \ DOMAIN order[r].set : db'[t][i][f] = db[t][i][f]
<1> DEFINE u == order[r].table
           id == order[r].id
<1>1. at[r] = "write" /\ u \in Tables /\ DOMAIN db = Tables
  BY StageNames DEF Write, RInv, RequestInv, RowsInv
<1>2. CurrentUpdate(r)
  BY <1>1, StageNames DEF RInv, RequestInv, UInv, Current
<1>3. id \in DOMAIN db[u] /\ mem[r].row = Patched(db[u][id], order[r].set) /\ mem[r].found = db[u][id]
  BY <1>1, <1>2 DEF CurrentUpdate, Exists
<1>4. db' = Saved(db, u, id, mem[r].row, mem[r].found)
  BY DEF Write, Respond, Answer, Goto, RInv, Edit
<1>5. db' = db \/ RowSet(u, id, Merged(mem[r].row, mem[r].found, db[u][id]))
  BY <1>1, <1>4, SavedRow
<1> DEFINE now == Merged(mem[r].row, mem[r].found, db[u][id])
<1>6. ASSUME NEW f \in DOMAIN db[u][id] \ DOMAIN order[r].set PROVE now[f] = db[u][id][f]
  <2>1. mem[r].row[f] = db[u][id][f] /\ f \in DOMAIN mem[r].row
    BY <1>3 DEF Patched
  <2> QED
    BY <1>3, <2>1 DEF Merged, Changed
<1>7. RowSet(u, id, now)
  BY <1>5 DEF Touched
<1> HIDE DEF now
<1>8. t = u /\ i = id
  BY <1>3, <1>7 DEF Touched, RowSet
<1> QED
  BY <1>3, <1>6, <1>7, <1>8 DEF RowSet

(* One request moves at a time. *)
LEMMA OneMoves ==
  ASSUME RInv, NEW q \in Requests, NEW r \in Requests \ {q}, Arrive(q) \/ Proceed(q) \/ Fail(q)
  PROVE  at'[r] = at[r]
<1>1. at' = at \/ \E s : at' = [at EXCEPT ![q] = s]
  <2>1. CASE Arrive(q)
    BY <2>1, Arrivals DEF Respond, Answer, Creates, Updates, Deletes, Books, CreateRow, Enter, Goto
  <2>2. CASE Proceed(q)
    BY <2>2 DEF Proceed, ResolveByIds, Insert, InsertRow, Find, Write, Count, Remove, Cascade, DeleteRow,
                ReadBays, ReadTechs, ReadCandidates, LockRow, FindAvailableBays,
                FindAvailableTechnicians, InsertAppointment, DeadlockVictim, Respond, Edit, Answer, Goto
  <2>3. CASE Fail(q)
    BY <2>3 DEF Fail, Respond, Answer, Goto
  <2> QED
    BY <2>1, <2>2, <2>3
<1> QED
  BY <1>1 DEF RInv

(* The handler of an update that ends well without a race ends in Write.   *)
LEMMA UpdatesWrite ==
  ASSUME RInv, UInv, Next, NEW r \in Requests, order[r] # NoOrder, order[r].op = "update",
         at'[r] = "ok", at[r] # "ok", ~raced[r]
  PROVE  Write(r)
<1>1. at[r] \in SaveStages /\ at[r] # "insert"
  BY StageNames DEF RInv, RequestInv, UInv, Current, CurrentUpdate
<1>2. PICK q \in Requests : Arrive(q) \/ Proceed(q) \/ Fail(q)
  BY DEF Next
<1>3. q = r
  BY <1>2, OneMoves
<1>4. ASSUME NEW a \in Answers \ {"ok"} PROVE ~Respond(r, a)
  BY <1>4 DEF Respond, Answer, Goto, RInv
<1>5. at[r] # "new" /\ at[r] \notin EditStages \cup BookStages
  BY <1>1, StageNames
<1>6. ~Fail(r) /\ ~DeadlockVictim(r) /\ ~Arrive(r)
  BY <1>4, <1>5 DEF Fail, DeadlockVictim, Answers, Arrive
<1>7. ~ResolveByIds(r)
  <2>1. ASSUME NEW tags PROVE ~Goto(r, Stage(order[r], tags))
    BY StageAfter DEF Goto, RInv, TagTables
  <2> QED
    BY <1>4, <2>1 DEF ResolveByIds, Answers
<1>8. ~Find(r)
  BY DEF Find, Goto, RInv
<1> QED
  BY <1>1, <1>2, <1>3, <1>5, <1>6, <1>7, <1>8
     DEF Proceed, Insert, Count, Remove, Cascade, ReadBays, ReadTechs, LockRow, FindAvailableBays,
         FindAvailableTechnicians, InsertAppointment, EditStages, BookStages

(* An update overwrites what another edit did, or brings a row back that   *)
(* another one deleted, only if that edit was handled at the same time.    *)
THEOREM OnlyTheRacedAreUndone == Spec => OnlyTheRacedIsUndone
<1>1. Init => RInv /\ UInv
  <2>1. Init => UInv
    BY StageNames DEF Init, UInv, Current
  <2> QED
    BY <2>1, InitR
<1>2. RInv /\ UInv /\ [Next]_vars => RInv' /\ UInv'
  BY NextR, NextU
<1>3. RInv /\ UInv /\ [Next]_vars =>
        [\A r \in Requests :
           (order[r] # NoOrder /\ order[r].op = "update" /\ at'[r] = "ok" /\ at[r] # "ok" /\ ~raced[r]) =>
             \A t \in Tables : \A i \in Touched(t) :
               /\ t = order[r].table /\ i = order[r].id
               /\ i \in DOMAIN db[t]
               /\ \A f \in DOMAIN db[t][i] \ DOMAIN order[r].set : db'[t][i][f] = db[t][i][f]]_vars
  BY UpdatesWrite, WriteTouches
<1> QED
  BY <1>1, <1>2, <1>3, PTL DEF Spec, OnlyTheRacedIsUndone

(* Only a deletion takes rows away. *)
LEMMA RowsGoByDeletion ==
  ASSUME RInv, [Next]_vars, NEW f \in TagTables, DOMAIN db[f] \ DOMAIN db'[f] # {}
  PROVE  \E r \in Requests : /\ at[r] \in EditStages
                             /\ DeleteRow(r) /\ ~Respond(r, "error")
<1>1. ASSUME NEW u \in Tables, NEW id, NEW row, RowSet(u, id, row) PROVE FALSE
  <2>1. f \in Tables
    BY DEF Tables
  <2> QED
    BY <1>1, <2>1 DEF RowSet
<1>2. ASSUME NEW r \in Requests, Arrive(r) PROVE FALSE
  BY <1>2, Arrivals DEF Respond, Creates, Updates, Deletes, Books, CreateRow, Enter
<1>3. ASSUME NEW r \in Requests, Insert(r) PROVE FALSE
  <2>1. order[r].table \in Tables /\ DOMAIN db = Tables
    BY <1>3, StageNames DEF Insert, RInv, RequestInv, RowsInv
  <2>2. db' = db \/ \E id, row : db' = Inserted(db, order[r].table, id, row)
    BY <1>3 DEF Insert, InsertRow, Respond, Edit
  <2> QED
    BY <1>1, <2>1, <2>2, InsertedRow
<1>4. ASSUME NEW r \in Requests, Write(r) PROVE FALSE
  <2>1. order[r].table \in Tables /\ DOMAIN db = Tables
    BY <1>4, StageNames DEF Write, RInv, RequestInv, RowsInv
  <2>2. db' = db \/ db' = Saved(db, order[r].table, order[r].id, mem[r].row, mem[r].found)
    BY <1>4 DEF Write, Respond, Edit
  <2> QED
    BY <1>1, <2>1, <2>2, SavedRow
<1>5. ASSUME NEW r \in Requests, Remove(r) \/ Cascade(r), ~DeleteRow(r) PROVE FALSE
  BY <1>5 DEF Remove, Cascade
<1>6. ASSUME NEW r \in Requests, Proceed(r), ~Insert(r), ~Write(r), ~Remove(r), ~Cascade(r) PROVE FALSE
  BY <1>6 DEF Proceed, ResolveByIds, Find, Count, ReadBays, ReadTechs, ReadCandidates, LockRow,
              FindAvailableBays, FindAvailableTechnicians, InsertAppointment, DeadlockVictim, Respond
<1>7. ASSUME NEW r \in Requests, Fail(r) PROVE FALSE
  BY <1>7 DEF Fail, Respond
<1>8. PICK r \in Requests : Remove(r) \/ Cascade(r)
  BY <1>2, <1>3, <1>4, <1>6, <1>7 DEF Next, vars
<1>9. DeleteRow(r) /\ at[r] \in EditStages
  BY <1>5, <1>8, StageNames DEF Remove, Cascade
<1> QED
  BY <1>9 DEF Respond

(* Whether the row i of u, a bay or a technician, can serve s. *)
AbleRow(rs, s, u, i) == \A g \in Sets(rs[u][i]) : rs["service"][s][g] \subseteq rs[u][i][g]

LEMMA AbleRows ==
  ASSUME NEW rs, NEW x
  PROVE  x \in Able(rs) <=>
           /\ x \in (DOMAIN rs["service"]) \X (Rows(rs, "bay") \cup Rows(rs, "tech"))
           /\ AbleRow(rs, x[1], x[2][1], x[2][2])
BY DEF Able, AbleRow

(* Without a capability or a skill, a service type asks for less, and no   *)
(* bay or technician is left behind: the tag goes from both ends at once.  *)
LEMMA DeletionWidens ==
  ASSUME RInv, NEW f \in TagTables, NEW r \in Requests, at[r] \in EditStages, DeleteRow(r),
         DOMAIN db[f] \ DOMAIN db'[f] # {}
  PROVE  Able(db) \subseteq Able(db')
<1> DEFINE t == order[r].table
           id == order[r].id
<1>1. db' = Kept(db, Deleted(t, id), t, id)
  BY DEF DeleteRow, Edit, Respond
<1>2. t \in Tables /\ DOMAIN db = Tables /\ f \in Tables
  BY StageNames DEF RInv, RequestInv, RowsInv, Tables
<1>3. RowsGone(Deleted(t, id), t, id)
  BY <1>1, <1>2, KeptRow
<1> HIDE DEF t, id
<1>4. \E i : <<f, i>> \in Deleted(t, id)
  BY <1>2, <1>3 DEF RowsGone
<1>5. t = f /\ Deleted(t, id) = {<<t, id>>}
  BY <1>4 DEF Deleted, Rows, TagTables
<1>6. \A u \in Tables \ TagTables : DOMAIN db'[u] = DOMAIN db[u]
  BY <1>3, <1>5 DEF RowsGone
<1>7. {"service", "bay", "tech"} \subseteq Tables \ TagTables
  BY DEF Tables, TagTables
<1>8. ASSUME NEW u \in Tables \ TagTables, NEW i \in DOMAIN db[u]
      PROVE  DOMAIN db'[u][i] = DOMAIN db[u][i]
  BY <1>3, <1>6 DEF RowsGone
<1>9. ASSUME NEW u \in Tables \ TagTables, NEW i \in DOMAIN db[u], NEW g \in DOMAIN db[u][i]
      PROVE  db'[u][i][g] = IF g = t THEN db[u][i][g] \ {id} ELSE db[u][i][g]
  <2>1. u \in Tables /\ i \in DOMAIN db'[u] /\ t \in TagTables
    BY <1>5, <1>6
  <2>2. \A h \in DOMAIN db[u][i] :
          db'[u][i][h] = IF h = t /\ t \in TagTables THEN db[u][i][h] \ {id} ELSE db[u][i][h]
    BY <1>3, <2>1 DEF RowsGone
  <2>3. db'[u][i][g] = IF g = t /\ t \in TagTables THEN db[u][i][g] \ {id} ELSE db[u][i][g]
    BY <1>9, <2>2
  <2> QED
    BY <2>1, <2>3
<1>10. ASSUME NEW s \in DOMAIN db["service"], NEW u \in {"bay", "tech"}, NEW i \in DOMAIN db[u],
             AbleRow(db, s, u, i)
      PROVE  AbleRow(db', s, u, i)
  <2>1. ASSUME NEW g \in Sets(db'[u][i]) PROVE db'["service"][s][g] \subseteq db'[u][i][g]
    <3>1. u \in Tables \ TagTables /\ "service" \in Tables \ TagTables /\ "service" \in Tables
      BY <1>7
    <3>2. g \in TagTables /\ g \in DOMAIN db'[u][i] /\ DOMAIN db'[u][i] = DOMAIN db[u][i]
      BY <1>8, <2>1, <3>1 DEF Sets
    <3>3. db["service"][s][g] \subseteq db[u][i][g]
      BY <1>10, <3>2 DEF AbleRow, Sets
    <3>4. DOMAIN db["service"][s] = Columns["service"]
      BY <3>1 DEF RInv, RowsInv, IsRow
    <3>5. g \in DOMAIN db["service"][s]
      BY <3>2, <3>4 DEF Columns, ServiceType, TagTables
    <3>6. db'["service"][s][g] = IF g = t THEN db["service"][s][g] \ {id} ELSE db["service"][s][g]
      BY ZenonT(60), <1>9, <3>1, <3>5
    <3>7. db'[u][i][g] = IF g = t THEN db[u][i][g] \ {id} ELSE db[u][i][g]
      <4>1. u \in Tables \ TagTables /\ i \in DOMAIN db[u] /\ g \in DOMAIN db[u][i]
        BY <3>1, <3>2
      <4> QED
        BY ZenonT(60), <1>9, <4>1
    <3> QED
      BY <3>3, <3>6, <3>7
  <2> QED
    BY <2>1 DEF AbleRow
<1>11. ASSUME NEW x \in Able(db) PROVE x \in Able(db')
  <2>1. /\ x \in (DOMAIN db["service"]) \X (Rows(db, "bay") \cup Rows(db, "tech"))
        /\ AbleRow(db, x[1], x[2][1], x[2][2])
    BY AbleRows
  <2>2. x \in (DOMAIN db'["service"]) \X (Rows(db', "bay") \cup Rows(db', "tech"))
    BY <1>6, <1>7, <2>1 DEF Rows
  <2>3. /\ x[1] \in DOMAIN db["service"]
        /\ x[2][1] \in {"bay", "tech"} /\ x[2][2] \in DOMAIN db[x[2][1]]
    BY <2>1 DEF Rows
  <2>4. AbleRow(db', x[1], x[2][1], x[2][2])
    BY <1>10, <2>1, <2>3
  <2> QED
    BY <2>2, <2>4, AbleRows
<1> QED
  BY <1>11

(* A capability or a skill goes by the DELETE of its row only, which takes  *)
(* it out of services and of bays and technicians alike, so that who was   *)
(* able to serve before still is.                                          *)
THEOREM TagsOnlyWiden == Spec => TagRemovalOnlyWidens
<1>1. RInv /\ [Next]_vars =>
        [(\E f \in TagTables : DOMAIN db[f] \ DOMAIN db'[f] # {}) => Able(db) \subseteq Able(db')]_vars
  BY RowsGoByDeletion, DeletionWidens
<1>2. RInv /\ [Next]_vars => RInv'
  BY NextR
<1> QED
  BY <1>1, <1>2, InitR, PTL DEF Spec, TagRemovalOnlyWidens

===============================================================================
