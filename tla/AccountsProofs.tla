----------------------------- MODULE AccountsProofs ----------------------------
(***************************************************************************)
(* However registrations race, an email has one customer, and no token is  *)
(* signed for a customer who is not there: for any set of requests.  And   *)
(* nothing refers to a row that is gone: an administrator has a group and  *)
(* a group the privileges it names, however the changes of accounts        *)
(* interleave, since every INSERT, UPDATE and DELETE tests the foreign     *)
(* keys in the statement that writes.                                      *)
(***************************************************************************)
EXTENDS Accounts, TLAPS

USE IdsAssumption

Memory == {"row", "found", "codes", "keys"}

(* Requests get to a statement only through a handler of their table.      *)
RequestInv(r) ==
  /\ DOMAIN mem[r] = Memory
  /\ at[r] \notin Idle => order[r] \in Sends[r]
  /\ at[r] \in {"resolve", "find", "write", "count", "remove"} =>
       order[r].on # "customer" /\ order[r].op # "register"
  /\ at[r] = "insert" /\ order[r].on = "customer" =>
       order[r].op = "register" /\ IsRow("customer", mem[r].row)
  /\ at[r] = "insert" /\ order[r].op = "register" => order[r].on = "customer"

CustomersInv ==
  /\ DOMAIN db = Tables
  /\ \A c \in DOMAIN db.customer : IsRow("customer", db.customer[c])
  /\ OneAccountPerEmail

AInv ==
  /\ DOMAIN at = Requests
  /\ DOMAIN order = Requests
  /\ DOMAIN mem = Requests
  /\ \A r \in Requests : RequestInv(r)
  /\ CustomersInv

LEMMA InitAInv == Init => AInv
<1> SUFFICES ASSUME Init PROVE AInv
  OBVIOUS
<1>1. CustomersInv
  BY InitialAssumption DEF Init, CustomersInv, OneAccountPerEmail, Tables
<1>2. ASSUME NEW r \in Requests PROVE RequestInv(r)
  BY <1>2 DEF Init, RequestInv, Idle, NoMemory, Memory
<1> QED
  BY <1>1, <1>2 DEF Init, AInv

(* The customers stay what they are, and tokens are as before. *)
CustomersStay == db' = db \/ (DOMAIN db' = Tables /\ db'.customer = db.customer)

LEMMA StayInv ==
  ASSUME CustomersInv, CustomersStay, tokens' = tokens
  PROVE  CustomersInv'
BY DEF CustomersInv, CustomersStay, OneAccountPerEmail

(* A new customer: the unique index has refused a second one of the email. *)
LEMMA NewCustomer ==
  ASSUME CustomersInv, NEW r \in Requests, NEW row, IsRow("customer", row),
         r \notin DOMAIN db.customer, ~Taken("customer", r, row),
         db' = Inserted(db, "customer", r, row), tokens' = tokens \cup {<<"CUSTOMER", r>>}
  PROVE  CustomersInv'
<1>1. DOMAIN db' = Tables /\ db'.customer = [c \in DOMAIN db.customer \cup {r} |->
                                              IF c = r THEN row ELSE db.customer[c]]
  BY DEF Inserted, CustomersInv, Tables
<1>2. /\ DOMAIN db'.customer = DOMAIN db.customer \cup {r}
      /\ db'.customer[r] = row
      /\ \A c \in DOMAIN db.customer : db'.customer[c] = db.customer[c]
  BY <1>1
<1>3. \A c \in DOMAIN db.customer : db.customer[c].email # row.email
  BY DEF Taken, UniqueColumn
<1> QED
  BY <1>1, <1>2, <1>3 DEF CustomersInv, OneAccountPerEmail

-----------------------------------------------------------------------------
(* The steps                                                               *)

(* Other requests are where they were. *)
LEMMA OthersInv ==
  ASSUME AInv, NEW r \in Requests, NEW s, NEW o,
         at' = at \/ at' = [at EXCEPT ![r] = s],
         order' = order \/ order' = [order EXCEPT ![r] = o],
         mem' = mem \/ \E m : mem' = [mem EXCEPT ![r] = m],
         RequestInv(r)', CustomersInv'
  PROVE  AInv'
<1>1. ASSUME NEW q \in Requests \ {r} PROVE RequestInv(q)'
  <2>1. at'[q] = at[q] /\ order'[q] = order[q] /\ mem'[q] = mem[q]
    BY DEF AInv
  <2> QED
    BY <2>1 DEF AInv, RequestInv
<1> QED
  BY <1>1 DEF AInv

(* An answer ends a request. *)
LEMMA AnswerInv ==
  ASSUME AInv, NEW r \in Requests, NEW a \in Answers, Answer(r, a), CustomersInv'
  PROVE  AInv'
<1>1. RequestInv(r)'
  BY DEF AInv, Answer, Goto, RequestInv, Answers, Idle, NoMemory, Memory
<1> QED
  BY <1>1, OthersInv DEF Answer, Goto

LEMMA RespondInv ==
  ASSUME AInv, NEW r \in Requests, NEW a \in Answers, Respond(r, a)
  PROVE  AInv'
<1>1. CustomersInv'
  BY StayInv DEF AInv, Respond, CustomersStay
<1> QED
  BY <1>1, AnswerInv DEF Respond

LEMMA StepInv ==
  ASSUME AInv, NEW r \in Requests, NEW s, NEW m, Step(r, s, m), at[r] \notin Idle,
         DOMAIN m = Memory,
         s \in {"resolve", "find", "write", "count", "remove"} =>
           order[r].on # "customer" /\ order[r].op # "register",
         s = "insert" => /\ order[r].on = "customer" => order[r].op = "register" /\ IsRow("customer", m.row)
                         /\ order[r].op = "register" => order[r].on = "customer"
  PROVE  AInv'
<1>1. CustomersInv'
  BY StayInv DEF AInv, Step, CustomersStay
<1>2. at'[r] = s /\ order'[r] = order[r] /\ mem'[r] = m
  BY DEF AInv, Step, Goto
<1>3. RequestInv(r)'
  BY <1>2 DEF AInv, RequestInv
<1> QED
  BY <1>1, <1>3, OthersInv DEF Step, Goto

LEMMA ArriveInv ==
  ASSUME AInv, NEW r \in Requests, Arrive(r)
  PROVE  AInv'
<1>1. ASSUME NEW o \in Sends[r], NEW s \in {"handler", "guard"}, Enter(r, o, s) PROVE AInv'
  <2>1. CustomersInv'
    BY <1>1, StayInv DEF AInv, Enter, CustomersStay
  <2>2. at'[r] = s /\ order'[r] = o /\ mem'[r] = mem[r]
    BY <1>1 DEF AInv, Enter, Goto
  <2>3. RequestInv(r)'
    BY <1>1, <2>2 DEF AInv, RequestInv
  <2> QED
    BY <1>1, <2>1, <2>3, OthersInv DEF Enter, Goto
<1>2. ASSUME NEW a \in {"unauthorized", "forbidden"}, Respond(r, a) PROVE AInv'
  BY <1>2, RespondInv DEF Answers
<1>3. PICK o \in Sends[r] :
        LET route == RouteOf(o)
        IN  IF route.guard = "none" THEN Enter(r, o, "handler")
            ELSE /\ o.by \in tokens
                 /\ IF ~Known(o.by) THEN Respond(r, "unauthorized")
                    ELSE IF ~Passes(route.guard, o.by) THEN Respond(r, "forbidden")
                    ELSE IF route.needs = {} \/ o.by[1] # "ADMIN" THEN Enter(r, o, "handler")
                    ELSE Enter(r, o, "guard")
  BY DEF Arrive
<1> QED
  BY <1>1, <1>2, <1>3

(* The guard lets a request go on to its handler or answers it.            *)
LEMMA DecideInv ==
  ASSUME AInv, NEW r \in Requests, NEW codes, Decide(r, codes), at[r] \notin Idle,
         UNCHANGED <<db, tokens>>
  PROVE  AInv'
<1>1. CustomersInv'
  BY StayInv DEF AInv, CustomersStay
<1>2. CASE Answer(r, "forbidden")
  BY <1>1, <1>2, AnswerInv DEF Answers
<1>3. CASE /\ Goto(r, "handler")
           /\ mem' = [mem EXCEPT ![r] = NoMemory]
           /\ UNCHANGED <<order, raced>>
  <2>1. at'[r] = "handler" /\ order'[r] = order[r] /\ mem'[r] = NoMemory
    BY <1>3 DEF AInv, Goto
  <2>2. RequestInv(r)'
    BY <2>1 DEF AInv, RequestInv, NoMemory, Memory
  <2> QED
    BY <1>1, <1>3, <2>2, OthersInv DEF Goto
<1> QED
  BY <1>2, <1>3 DEF Decide

(* What a handler does that writes and goes on, or answers.                *)
LEMMA CommitInv ==
  ASSUME AInv, NEW r \in Requests, NEW rows, Commit(r, rows), at[r] \notin Idle, CustomersInv'
  PROVE  AInv'
<1>1. CASE Answer(r, "ok")
  BY <1>1, AnswerInv DEF Answers
<1>2. CASE ~Answer(r, "ok")
  <2>1. /\ AfterSave(order[r]) \in {"scan", "drop"}
        /\ Goto(r, AfterSave(order[r]))
        /\ mem' = [mem EXCEPT ![r] = [NoMemory EXCEPT !.keys = {order[r].id}]]
        /\ UNCHANGED order
    BY <1>2 DEF Commit, AfterSave
  <2>2. at'[r] \in {"scan", "drop"} /\ order'[r] = order[r] /\ DOMAIN mem'[r] = Memory
    BY <2>1 DEF AInv, Goto, NoMemory, Memory
  <2>3. RequestInv(r)'
    BY <2>2 DEF AInv, RequestInv
  <2> QED
    BY <2>1, <2>3, OthersInv DEF Goto
<1> QED
  BY <1>1, <1>2

(* The statement that inserts: the one by which a customer comes to be.    *)
LEMMA InsertInv ==
  ASSUME AInv, NEW r \in Requests, Insert(r)
  PROVE  AInv'
<1> DEFINE t == order[r].on
           id == IF order[r].op = "update" THEN order[r].id ELSE r
<1>1. CASE Respond(r, "error")
  BY <1>1, RespondInv DEF Answers
<1>2. CASE ~Respond(r, "error")
  <2>1. /\ at[r] = "insert"
        /\ id \notin DOMAIN db[t] /\ ~Taken(t, id, mem[r].row)
        /\ Commit(r, Inserted(db, t, id, mem[r].row))
        /\ tokens' = tokens \cup Signed(r)
    BY <1>2 DEF Insert
  <2>2. at[r] \notin Idle /\ CustomersInv /\ RequestInv(r)
    BY <2>1 DEF AInv, Idle, Answers
  <2>3. db' = Inserted(db, t, id, mem[r].row)
    BY <2>1 DEF Commit
  <2>4. CASE t = "customer"
    <3>1. order[r].op = "register" /\ IsRow("customer", mem[r].row)
      BY <2>1, <2>2, <2>4 DEF RequestInv
    <3>2. id = r /\ tokens' = tokens \cup {<<"CUSTOMER", r>>}
      BY <2>1, <3>1 DEF Signed
    <3>3. CustomersInv'
      BY <2>1, <2>2, <2>3, <2>4, <3>1, <3>2, NewCustomer
    <3> QED
      BY <2>1, <2>2, <3>3, CommitInv
  <2>5. CASE t # "customer"
    <3>1. tokens' = tokens
      BY <2>1, <2>2, <2>5 DEF RequestInv, Signed
    <3>2. DOMAIN db' = Tables /\ db'.customer = db.customer
      BY <2>2, <2>3, <2>5 DEF Inserted, CustomersInv, Tables
    <3>3. CustomersInv'
      BY <2>2, <3>1, <3>2, StayInv DEF CustomersStay
    <3> QED
      BY <2>1, <2>2, <3>3, CommitInv
  <2> QED
    BY <2>4, <2>5
<1> QED
  BY <1>1, <1>2

LEMMA WriteInv ==
  ASSUME AInv, NEW r \in Requests, Write(r)
  PROVE  AInv'
<1> DEFINE rows == Saved(db, order[r].on, order[r].id, mem[r].row, mem[r].found)
<1>1. CASE Respond(r, "error")
  BY <1>1, RespondInv DEF Answers
<1>2. CASE ~Respond(r, "error")
  <2>1. at[r] = "write" /\ Commit(r, rows) /\ UNCHANGED tokens
    BY <1>2 DEF Write
  <2>2. at[r] \notin Idle /\ CustomersInv /\ order[r].on # "customer"
    BY <2>1 DEF AInv, Idle, Answers, RequestInv
  <2>3. DOMAIN rows = Tables /\ rows.customer = db.customer
    BY <2>2 DEF Saved, CustomersInv, Tables
  <2>4. db' = rows
    BY <2>1 DEF Commit
  <2>5. CustomersInv'
    BY <2>1, <2>2, <2>3, <2>4, StayInv DEF CustomersStay
  <2> QED
    BY <2>1, <2>2, <2>5, CommitInv
<1> QED
  BY <1>1, <1>2

LEMMA RemoveInv ==
  ASSUME AInv, NEW r \in Requests, Remove(r)
  PROVE  AInv'
<1> DEFINE t == order[r].on
           rows == Kept(db, {<<t, order[r].id>>}, t, order[r].id)
<1>1. CASE Respond(r, "error")
  BY <1>1, RespondInv DEF Answers
<1>2. CASE ~Respond(r, "error")
  <2>1. at[r] = "remove" /\ Commit(r, rows) /\ UNCHANGED tokens
    BY <1>2 DEF Remove
  <2>2. at[r] \notin Idle /\ CustomersInv /\ t # "customer"
    BY <2>1 DEF AInv, Idle, Answers, RequestInv
  <2>3. /\ DOMAIN rows = Tables
        /\ DOMAIN rows.customer = DOMAIN db.customer
        /\ \A c \in DOMAIN db.customer : rows.customer[c] = db.customer[c]
    <3>1. \A c \in DOMAIN db.customer : Sets(db.customer[c]) = {}
      BY <2>2 DEF CustomersInv, IsRow, Columns, Customer, Sets
    <3> QED
      BY <2>2, <3>1 DEF Kept, CustomersInv, Tables
  <2>4. db' = rows
    BY <2>1 DEF Commit
  <2>5. CustomersInv'
    BY ZenonT(60), <2>1, <2>2, <2>3, <2>4 DEF CustomersInv, OneAccountPerEmail
  <2> QED
    BY <2>1, <2>2, <2>5, CommitInv
<1> QED
  BY <1>1, <1>2

(* A login signs a token for an account it has found. *)
LEMMA LoginInv ==
  ASSUME AInv, NEW r \in Requests, LoginCustomer(r) \/ LoginAdmin(r)
  PROVE  AInv'
<1>1. ASSUME NEW kind, Login(r, kind), kind = "CUSTOMER" => order[r].on = "customer"
      PROVE  AInv'
  <2> DEFINE who == {i \in DOMAIN db[order[r].on] :
                       /\ db[order[r].on][i].email = order[r].set.email
                       /\ db[order[r].on][i].password = order[r].set.password}
  <2>1. CASE Respond(r, "unauthorized")
    BY <2>1, RespondInv DEF Answers
  <2>2. CASE ~Respond(r, "unauthorized")
    <3>1. /\ Answer(r, "ok")
          /\ tokens' = tokens \cup {<<kind, i>> : i \in who}
          /\ UNCHANGED db
      BY <1>1, <2>2 DEF Login
    <3>2. CustomersInv'
      BY <1>1, <3>1 DEF AInv, CustomersInv, OneAccountPerEmail
    <3> QED
      BY <3>1, <3>2, AnswerInv DEF Answers
  <2> QED
    BY <2>1, <2>2
<1> QED
  BY <1>1 DEF LoginCustomer, LoginAdmin, Handles

LEMMA HandlerInv ==
  ASSUME AInv, NEW r \in Requests,
         \/ Register(r) \/ CreatePrivilege(r) \/ DeletePrivilege(r)
         \/ CreateGroup(r) \/ UpdateGroup(r) \/ DeleteGroup(r) \/ CreateAdmin(r)
         \/ UpdateAdmin(r) \/ DeleteAdmin(r) \/ Elsewhere(r)
  PROVE  AInv'
<1>1. at[r] = "handler" /\ at[r] \notin Idle /\ order[r] \in Sends[r]
  BY DEF AInv, RequestInv, Register, CreatePrivilege, DeletePrivilege, CreateGroup, UpdateGroup,
         DeleteGroup, CreateAdmin, UpdateAdmin, DeleteAdmin, Elsewhere, Handles, Idle, Answers
<1>2. ASSUME NEW a \in Answers, Respond(r, a) PROVE AInv'
  BY <1>2, RespondInv
<1>3. {"ok", "notFound", "conflict"} \subseteq Answers
  BY DEF Answers
<1>4. ASSUME NEW s \in {"resolve", "find", "insert", "count", "remove"}, NEW row,
             Step(r, s, NoMemory) \/ Step(r, s, [NoMemory EXCEPT !.row = row]),
             order[r].on # "customer", order[r].op # "register"
      PROVE  AInv'
  <2>1. DOMAIN NoMemory = Memory /\ DOMAIN [NoMemory EXCEPT !.row = row] = Memory
    BY DEF NoMemory, Memory
  <2> QED
    BY <1>1, <1>4, <2>1, StepInv
<1>5. CASE Register(r)
  <2>1. order[r].on = "customer" /\ order[r].op = "register" /\ IsRow("customer", order[r].set)
    BY <1>1, <1>5, BodiesAssumption DEF Register, Handles, Tables
  <2>2. CASE Respond(r, "conflict")
    BY <1>2, <1>3, <2>2
  <2>3. CASE Step(r, "insert", [NoMemory EXCEPT !.row = order[r].set])
    <3>1. /\ [NoMemory EXCEPT !.row = order[r].set].row = order[r].set
          /\ DOMAIN [NoMemory EXCEPT !.row = order[r].set] = Memory
      BY DEF NoMemory, Memory
    <3> QED
      BY <1>1, <2>1, <2>3, <3>1, StepInv
  <2> QED
    BY <1>5, <2>2, <2>3 DEF Register
<1>6. CASE CreatePrivilege(r) \/ DeletePrivilege(r)
  BY <1>2, <1>3, <1>4, <1>6 DEF CreatePrivilege, DeletePrivilege, Handles
<1>7. CASE CreateGroup(r) \/ DeleteGroup(r)
  BY <1>2, <1>3, <1>4, <1>7 DEF CreateGroup, DeleteGroup, Handles
<1>8. CASE UpdateGroup(r)
  BY <1>2, <1>3, <1>4, <1>8 DEF UpdateGroup, Handles
<1>9. CASE CreateAdmin(r) \/ DeleteAdmin(r)
  BY <1>2, <1>3, <1>4, <1>9 DEF CreateAdmin, DeleteAdmin, Handles
<1>10. CASE UpdateAdmin(r)
  BY <1>2, <1>3, <1>4, <1>10 DEF UpdateAdmin, Handles
<1>11. CASE Elsewhere(r)
  BY <1>2, <1>3, <1>11 DEF Elsewhere
<1> QED
  BY <1>5, <1>6, <1>7, <1>8, <1>9, <1>10, <1>11

LEMMA ProceedInv ==
  ASSUME AInv, NEW r \in Requests, Proceed(r)
  PROVE  AInv'
<1>1. CASE CacheHit(r) \/ Store(r)
  <2>1. at[r] \notin Idle /\ UNCHANGED <<db, tokens>> /\ \E codes : Decide(r, codes)
    BY <1>1 DEF CacheHit, Store, Idle, Answers
  <2> QED
    BY <2>1, DecideInv
<1>2. CASE CacheMiss(r) \/ Load(r) \/ Scan(r)
  <2>1. /\ at[r] \in {"guard", "load", "scan"}
        /\ \E s \in {"load", "store", "drop"} : \E m : Step(r, s, m) /\ DOMAIN m = Memory
    BY <1>2 DEF CacheMiss, Load, Scan, AInv, RequestInv
  <2> QED
    BY <2>1, StepInv DEF Idle, Answers
<1>3. CASE CountMembers(r) \/ Resolve(r) \/ Find(r)
  <2>1. /\ at[r] \in {"count", "resolve", "find"} /\ at[r] \notin Idle
        /\ order[r].on # "customer" /\ order[r].op # "register"
    BY <1>3 DEF CountMembers, Resolve, Find, AInv, RequestInv, Idle, Answers
  <2>2. \/ \E a \in {"conflict", "notFound"} : Respond(r, a)
        \/ \E s \in {"remove", "find", "write", "insert"} : \E m : Step(r, s, m) /\ DOMAIN m = Memory
    BY <1>3 DEF CountMembers, Resolve, Find, AInv, RequestInv, NoMemory, Memory
  <2>3. {"conflict", "notFound"} \subseteq Answers
    BY DEF Answers
  <2> QED
    BY <2>1, <2>2, <2>3, RespondInv, StepInv
<1>4. CASE DropKey(r)
  <2>1. at' = at /\ order' = order /\ at[r] = "drop"
    BY <1>4 DEF DropKey
  <2>2. PICK m : mem' = [mem EXCEPT ![r] = m] /\ DOMAIN m = DOMAIN mem[r]
    <3>1. PICK a : mem' = [mem EXCEPT ![r].keys = @ \ {a}]
      BY <1>4 DEF DropKey
    <3> DEFINE m == [mem[r] EXCEPT !.keys = @ \ {a}]
    <3>2. mem' = [mem EXCEPT ![r] = m] /\ DOMAIN m = DOMAIN mem[r]
      BY <3>1
    <3> QED
      BY <3>2
  <2>3. DOMAIN mem'[r] = Memory
    BY <2>2 DEF AInv, RequestInv
  <2>4. CustomersInv' /\ RequestInv(r)'
    BY <1>4, <2>1, <2>3, StayInv DEF AInv, DropKey, CustomersStay, RequestInv
  <2> QED
    BY <2>1, <2>2, <2>4, OthersInv
<1>5. CASE Dropped(r)
  BY <1>5, RespondInv DEF Dropped, Answers
<1> QED
  BY <1>1, <1>2, <1>3, <1>4, <1>5, InsertInv, WriteInv, RemoveInv, LoginInv, HandlerInv DEF Proceed

LEMMA NextInv ==
  ASSUME AInv, [Next]_vars
  PROVE  AInv'
<1>1. ASSUME NEW r \in Requests, Fail(r) PROVE AInv'
  <2>1. CustomersInv'
    BY <1>1, StayInv DEF AInv, Fail, CustomersStay
  <2>2. \E a \in {"error", "ok"} : Answer(r, a)
    BY <1>1 DEF Fail
  <2> QED
    BY <2>1, <2>2, AnswerInv DEF Answers
<1>2. CASE (\E a \in DOMAIN cache : Expire(a)) \/ UNCHANGED vars
  <2>1. UNCHANGED <<db, tokens, at, order, mem>>
    BY <1>2 DEF Expire, vars
  <2> QED
    BY <2>1, StayInv DEF AInv, CustomersStay, RequestInv
<1> QED
  BY <1>1, <1>2, ArriveInv, ProceedInv DEF Next

(* Registrations may interleave as they like, each finding its email free: *)
(* one row is inserted, and tokens are signed for customers who are there. *)
THEOREM OneAccount == Spec => []OneAccountPerEmail
<1>1. Init => AInv
  BY InitAInv
<1>2. AInv /\ [Next]_vars => AInv'
  BY NextInv
<1>3. AInv => OneAccountPerEmail
  BY DEF AInv, CustomersInv
<1> QED
  BY <1>1, <1>2, <1>3, PTL DEF Spec

-----------------------------------------------------------------------------
(* Rows and what they refer to                                             *)

RowsInv ==
  /\ \A t \in Tables :
       DOMAIN db[t] \subseteq Nat /\ \A i \in DOMAIN db[t] : IsRow(t, db[t][i])
  /\ NothingDangles

(* A request that is about to write has come from a handler of its table,  *)
(* and has a row with the columns of that table.                           *)
SaveStages == {"resolve", "find", "write", "insert"}

MemInv(r) ==
  /\ at[r] \in SaveStages =>
       /\ order[r].on \in Tables /\ order[r].op \in {"create", "register", "update"}
       /\ IsRow(order[r].on, mem[r].row)
       /\ order[r].op = "update" => order[r].on \in {"group", "admin"} /\ order[r].id \in Nat
  /\ at[r] \in {"resolve", "find", "write"} => order[r].op = "update"
  /\ at[r] = "write" => IsRow(order[r].on, mem[r].found)
  /\ at[r] = "count" => order[r].on = "group"
  /\ at[r] \in {"count", "remove"} =>
       order[r].op = "delete" /\ order[r].on \in {"group", "admin", "privileges"}

DInv == RowsInv /\ \A r \in Requests : MemInv(r)

-----------------------------------------------------------------------------
(* Rows                                                                    *)

LEMMA Refers ==
  ASSUME NEW rs, NEW row
  PROVE  RefersTo(rs, row) <=>
           /\ "group" \in DOMAIN row => row["group"] \in DOMAIN rs["group"]
           /\ "privileges" \in DOMAIN row => row["privileges"] \subseteq DOMAIN rs["privileges"]
BY DEF RefersTo, Sets

(* More rows to refer to do no harm. *)
LEMMA RefersToMore ==
  ASSUME NEW rs, NEW more, NEW row, RefersTo(rs, row),
         DOMAIN rs["group"] \subseteq DOMAIN more["group"],
         DOMAIN rs["privileges"] \subseteq DOMAIN more["privileges"]
  PROVE  RefersTo(more, row)
BY Refers

(* The fields of a body are set in a row of the same table. *)
LEMMA PatchedRow ==
  ASSUME NEW t, NEW row, NEW body, IsRow(t, row), Typed(body), DOMAIN body \subseteq Columns[t]
  PROVE  IsRow(t, Patched(row, body))
BY DEF IsRow, Typed, Patched

LEMMA MergedRow ==
  ASSUME NEW t, NEW row, NEW found, NEW now, IsRow(t, row), IsRow(t, found), IsRow(t, now)
  PROVE  IsRow(t, Merged(row, found, now))
<1>1. DOMAIN Merged(row, found, now) = Columns[t]
  BY DEF IsRow, Merged
<1>2. ASSUME NEW f \in Columns[t]
      PROVE  Merged(row, found, now)[f] \in ColumnType[f]
  <2>1. row[f] \in ColumnType[f] /\ found[f] \in ColumnType[f] /\ now[f] \in ColumnType[f]
    BY <1>2 DEF IsRow, Typed
  <2>2. CASE f = "privileges"
    <3>1. ColumnType[f] = SUBSET Nat
      BY <2>2 DEF ColumnType
    <3>2. Merged(row, found, now)[f] = (now[f] \cup (row[f] \ found[f])) \ (found[f] \ row[f])
      BY <1>2, <2>2 DEF IsRow, Merged
    <3> QED
      BY <2>1, <3>1, <3>2
  <2>3. CASE f # "privileges"
    BY <1>2, <2>1, <2>3 DEF IsRow, Merged
  <2> QED
    BY <2>2, <2>3
<1> QED
  BY <1>1, <1>2 DEF IsRow, Typed

LEMMA InsertRows ==
  ASSUME RowsInv, CustomersInv, NEW t \in Tables, NEW id \in Nat, NEW row,
         RefersTo(db, row), IsRow(t, row), db' = Inserted(db, t, id, row)
  PROVE  RowsInv'
<1>1. DOMAIN db = Tables
  BY DEF CustomersInv
<1> DEFINE table == [i \in DOMAIN db[t] \cup {id} |-> IF i = id THEN row ELSE db[t][i]]
<1>0. db' = [db EXCEPT ![t] = table]
  BY DEF Inserted
<1>2. /\ DOMAIN db' = Tables
      /\ db'[t] = table
      /\ \A u \in Tables \ {t} : db'[u] = db[u]
  <2> HIDE DEF table
  <2> QED
    BY <1>0, <1>1
<1>3. ASSUME NEW u \in Tables
      PROVE  /\ DOMAIN db[u] \subseteq DOMAIN db'[u]
             /\ \A i \in DOMAIN db'[u] : \/ i \in DOMAIN db[u] /\ db'[u][i] = db[u][i]
                                         \/ u = t /\ db'[u][i] = row
  BY <1>2
<1>4. ASSUME NEW x, RefersTo(db, x) PROVE RefersTo(db', x)
  <2>1. {"group", "privileges"} \subseteq Tables
    BY DEF Tables
  <2> QED
    BY <1>3, <1>4, <2>1, RefersToMore
<1>5. ASSUME NEW u \in Tables, NEW i \in DOMAIN db'[u]
      PROVE  i \in Nat /\ IsRow(u, db'[u][i]) /\ RefersTo(db', db'[u][i])
  <2>1. i \in Nat
    BY <1>2, <1>5 DEF RowsInv
  <2> QED
    BY <1>3, <1>4, <2>1 DEF RowsInv, NothingDangles
<1> QED
  BY <1>5 DEF RowsInv, NothingDangles

LEMMA SaveRows ==
  ASSUME RowsInv, CustomersInv, NEW t \in Tables, NEW id, NEW row, NEW found,
         IsRow(t, row), IsRow(t, found), db' = Saved(db, t, id, row, found),
         id \in DOMAIN db[t] => RefersTo(db', db'[t][id])
  PROVE  RowsInv'
<1>1. DOMAIN db = Tables
  BY DEF CustomersInv
<1>2. CASE id \notin DOMAIN db[t]
  <2>1. db' = db
    BY <1>2 DEF Saved
  <2> QED
    BY <2>1 DEF RowsInv, NothingDangles
<1>3. CASE id \in DOMAIN db[t]
  <2>1. /\ DOMAIN db' = Tables
        /\ \A u \in Tables : DOMAIN db'[u] = DOMAIN db[u]
        /\ \A u \in Tables : \A i \in DOMAIN db[u] : u # t \/ i # id => db'[u][i] = db[u][i]
        /\ db'[t][id] = Merged(row, found, db[t][id])
    BY <1>1, <1>3 DEF Saved
  <2>2. IsRow(t, db'[t][id])
    BY <1>3, <2>1, MergedRow DEF RowsInv
  <2>3. {"group", "privileges"} \subseteq Tables
    BY DEF Tables
  <2>4. ASSUME NEW u \in Tables, NEW i \in DOMAIN db'[u]
        PROVE  IsRow(u, db'[u][i]) /\ RefersTo(db', db'[u][i])
    <3>1. CASE u = t /\ i = id
      BY <1>3, <2>2, <3>1
    <3>2. CASE ~(u = t /\ i = id)
      <4>1. i \in DOMAIN db[u] /\ db'[u][i] = db[u][i]
        BY <2>1, <2>4, <3>2
      <4>2. IsRow(u, db[u][i]) /\ RefersTo(db, db[u][i])
        BY <4>1 DEF RowsInv, NothingDangles
      <4> QED
        BY <2>1, <2>3, <4>1, <4>2, RefersToMore
    <3> QED
      BY <3>1, <3>2
  <2> QED
    BY <2>1, <2>4 DEF RowsInv, NothingDangles
<1> QED
  BY <1>2, <1>3

(* The row of a group goes only without members, and a privilege out of    *)
(* the groups that have it.                                                *)
LEMMA DeleteRows ==
  ASSUME RowsInv, CustomersInv, NEW t \in Tables, NEW id,
         t = "group" => Members(id) = {},
         db' = Kept(db, {<<t, id>>}, t, id)
  PROVE  RowsInv'
<1>1. DOMAIN db = Tables /\ {"group", "privileges", "admin"} \subseteq Tables
  BY DEF CustomersInv, Tables
<1>2. /\ DOMAIN db' = Tables
      /\ \A u \in Tables : DOMAIN db'[u] = {i \in DOMAIN db[u] : <<u, i>> # <<t, id>>}
  BY <1>1 DEF Kept
<1>3. ASSUME NEW u \in Tables, NEW i \in DOMAIN db'[u]
      PROVE  i \in Nat /\ IsRow(u, db'[u][i]) /\ RefersTo(db', db'[u][i])
  <2> DEFINE row == db[u][i]
  <2>1. i \in DOMAIN db[u] /\ <<u, i>> # <<t, id>>
    BY <1>2, <1>3
  <2>2. i \in Nat /\ IsRow(u, row) /\ RefersTo(db, row)
    BY <2>1 DEF RowsInv, NothingDangles
  <2>3. db'[u][i] = IF t \in Sets(row) THEN [row EXCEPT ![t] = @ \ {id}] ELSE row
    BY <1>1, <2>1 DEF Kept
  <2>4. "group" \in DOMAIN row => row["group"] \in DOMAIN db'["group"]
    <3>1. SUFFICES ASSUME "group" \in DOMAIN row PROVE row["group"] \in DOMAIN db'["group"]
      OBVIOUS
    <3>2. u = "admin" /\ row["group"] \in DOMAIN db["group"]
      BY <2>2, <3>1, Refers DEF IsRow, Columns, Tables, Privilege, AdminGroup, Customer
    <3>3. t = "group" => row["group"] # id
      BY <2>1, <3>2 DEF Members
    <3> QED
      BY <1>1, <1>2, <3>2, <3>3
  <2>5. CASE t = "privileges" /\ "privileges" \in DOMAIN row
    <3>1. db'[u][i] = [row EXCEPT !["privileges"] = @ \ {id}]
      BY <2>3, <2>5 DEF Sets
    <3>2. DOMAIN db'[u][i] = DOMAIN row /\ db'[u][i]["privileges"] = row["privileges"] \ {id}
          /\ ("group" \in DOMAIN row => db'[u][i]["group"] = row["group"])
      BY <2>5, <3>1
    <3>3. row["privileges"] \subseteq DOMAIN db["privileges"]
      BY <2>2, <2>5, Refers
    <3>4. row["privileges"] \ {id} \subseteq DOMAIN db'["privileges"]
      BY <1>1, <1>2, <3>3
    <3>5. IsRow(u, db'[u][i])
      <4>1. ColumnType["privileges"] = SUBSET Nat
        BY DEF ColumnType
      <4>2. \A f \in DOMAIN row : f # "privileges" => db'[u][i][f] = row[f]
        BY <2>5, <3>1
      <4> QED
        BY <2>2, <2>5, <3>2, <4>1, <4>2 DEF IsRow, Typed
    <3> QED
      BY <2>2, <2>4, <3>2, <3>4, <3>5, Refers
  <2>6. CASE ~(t = "privileges" /\ "privileges" \in DOMAIN row)
    <3>1. db'[u][i] = row
      BY <2>3, <2>6 DEF Sets
    <3>2. "privileges" \in DOMAIN row => row["privileges"] \subseteq DOMAIN db'["privileges"]
      BY <1>1, <1>2, <2>2, <2>6, Refers
    <3> QED
      BY <2>2, <2>4, <3>1, <3>2, Refers
  <2> QED
    BY <2>5, <2>6
<1> QED
  BY <1>3 DEF RowsInv, NothingDangles

-----------------------------------------------------------------------------
(* The steps                                                               *)

LEMMA StayRows ==
  ASSUME RowsInv, db' = db
  PROVE  RowsInv'
BY DEF RowsInv, NothingDangles

LEMMA OthersD ==
  ASSUME AInv, DInv, NEW r \in Requests, NEW s, NEW o,
         at' = at \/ at' = [at EXCEPT ![r] = s],
         order' = order \/ order' = [order EXCEPT ![r] = o],
         mem' = mem \/ \E m : mem' = [mem EXCEPT ![r] = m],
         MemInv(r)', RowsInv'
  PROVE  DInv'
<1>1. ASSUME NEW q \in Requests \ {r} PROVE MemInv(q)'
  <2>1. at'[q] = at[q] /\ order'[q] = order[q] /\ mem'[q] = mem[q]
    BY DEF AInv
  <2> QED
    BY <2>1 DEF DInv, MemInv
<1> QED
  BY <1>1 DEF DInv

LEMMA AnswerD ==
  ASSUME AInv, DInv, NEW r \in Requests, NEW a \in Answers, Answer(r, a), RowsInv'
  PROVE  DInv'
<1>1. at'[r] = a
  BY DEF AInv, Answer, Goto
<1>2. MemInv(r)'
  BY <1>1 DEF MemInv, Answers, SaveStages
<1> QED
  BY <1>2, OthersD DEF Answer, Goto

LEMMA RespondD ==
  ASSUME AInv, DInv, NEW r \in Requests, NEW a \in Answers, Respond(r, a)
  PROVE  DInv'
<1>1. RowsInv'
  BY StayRows DEF DInv, Respond
<1> QED
  BY <1>1, AnswerD DEF Respond

(* What a request may go on with. *)
Writable(r, s, m) ==
  /\ s \in SaveStages =>
       /\ order[r].on \in Tables /\ order[r].op \in {"create", "register", "update"}
       /\ IsRow(order[r].on, m.row)
       /\ order[r].op = "update" => order[r].on \in {"group", "admin"} /\ order[r].id \in Nat
  /\ s \in {"resolve", "find", "write"} => order[r].op = "update"
  /\ s = "write" => IsRow(order[r].on, m.found)
  /\ s = "count" => order[r].on = "group"
  /\ s \in {"count", "remove"} =>
       order[r].op = "delete" /\ order[r].on \in {"group", "admin", "privileges"}

LEMMA StepD ==
  ASSUME AInv, DInv, NEW r \in Requests, NEW s, NEW m, Step(r, s, m), Writable(r, s, m)
  PROVE  DInv'
<1>1. RowsInv'
  BY StayRows DEF DInv, Step
<1>2. at'[r] = s /\ order'[r] = order[r] /\ mem'[r] = m
  BY DEF AInv, Step, Goto
<1>3. MemInv(r)'
  BY <1>2 DEF MemInv, Writable
<1> QED
  BY <1>1, <1>3, OthersD DEF Step, Goto

LEMMA ArriveD ==
  ASSUME AInv, DInv, NEW r \in Requests, Arrive(r)
  PROVE  DInv'
<1>1. ASSUME NEW o, NEW s \in {"handler", "guard"}, Enter(r, o, s) PROVE DInv'
  <2>1. RowsInv'
    BY <1>1, StayRows DEF DInv, Enter
  <2>2. at'[r] = s
    BY <1>1 DEF AInv, Enter, Goto
  <2>3. MemInv(r)'
    BY <2>2 DEF MemInv, SaveStages
  <2> QED
    BY <1>1, <2>1, <2>3, OthersD DEF Enter, Goto
<1>2. ASSUME NEW a \in {"unauthorized", "forbidden"}, Respond(r, a) PROVE DInv'
  BY <1>2, RespondD DEF Answers
<1>3. PICK o \in Sends[r] :
        LET route == RouteOf(o)
        IN  IF route.guard = "none" THEN Enter(r, o, "handler")
            ELSE /\ o.by \in tokens
                 /\ IF ~Known(o.by) THEN Respond(r, "unauthorized")
                    ELSE IF ~Passes(route.guard, o.by) THEN Respond(r, "forbidden")
                    ELSE IF route.needs = {} \/ o.by[1] # "ADMIN" THEN Enter(r, o, "handler")
                    ELSE Enter(r, o, "guard")
  BY DEF Arrive
<1> QED
  BY <1>1, <1>2, <1>3

LEMMA DecideD ==
  ASSUME AInv, DInv, NEW r \in Requests, NEW codes, Decide(r, codes), UNCHANGED db
  PROVE  DInv'
<1>1. RowsInv'
  BY StayRows DEF DInv
<1>2. CASE Answer(r, "forbidden")
  BY <1>1, <1>2, AnswerD DEF Answers
<1>3. CASE /\ Goto(r, "handler")
           /\ mem' = [mem EXCEPT ![r] = NoMemory]
           /\ UNCHANGED <<order, raced>>
  <2>1. at'[r] = "handler"
    BY <1>3 DEF AInv, Goto
  <2>2. MemInv(r)'
    BY <2>1 DEF MemInv, SaveStages
  <2> QED
    BY <1>1, <1>3, <2>2, OthersD DEF Goto
<1> QED
  BY <1>2, <1>3 DEF Decide

LEMMA CommitD ==
  ASSUME AInv, DInv, NEW r \in Requests, NEW rows, Commit(r, rows), RowsInv'
  PROVE  DInv'
<1>1. CASE Answer(r, "ok")
  BY <1>1, AnswerD DEF Answers
<1>2. CASE ~Answer(r, "ok")
  <2>1. /\ AfterSave(order[r]) \in {"scan", "drop"}
        /\ Goto(r, AfterSave(order[r]))
        /\ \E m : mem' = [mem EXCEPT ![r] = m]
        /\ UNCHANGED order
    BY <1>2 DEF Commit, AfterSave
  <2>2. at'[r] \in {"scan", "drop"}
    BY <2>1 DEF AInv, Goto
  <2>3. MemInv(r)'
    BY <2>2 DEF MemInv, SaveStages
  <2> QED
    BY <2>1, <2>3, OthersD DEF Goto
<1> QED
  BY <1>1, <1>2

LEMMA InsertD ==
  ASSUME AInv, DInv, NEW r \in Requests, Insert(r)
  PROVE  DInv'
<1> DEFINE t == order[r].on
           id == IF order[r].op = "update" THEN order[r].id ELSE r
<1>1. CASE Respond(r, "error")
  BY <1>1, RespondD DEF Answers
<1>2. CASE ~Respond(r, "error")
  <2>1. /\ at[r] = "insert" /\ RefersTo(db, mem[r].row)
        /\ Commit(r, Inserted(db, t, id, mem[r].row))
    BY <1>2 DEF Insert
  <2>2. RowsInv /\ CustomersInv /\ t \in Tables /\ IsRow(t, mem[r].row) /\ id \in Nat
    BY <2>1 DEF AInv, DInv, MemInv, SaveStages
  <2>3. db' = Inserted(db, t, id, mem[r].row)
    BY <2>1 DEF Commit
  <2>4. RowsInv'
    BY <2>1, <2>2, <2>3, InsertRows
  <2> QED
    BY <2>1, <2>4, CommitD
<1> QED
  BY <1>1, <1>2

LEMMA WriteD ==
  ASSUME AInv, DInv, NEW r \in Requests, Write(r)
  PROVE  DInv'
<1> DEFINE t == order[r].on
           id == order[r].id
           rows == Saved(db, t, id, mem[r].row, mem[r].found)
<1>1. CASE Respond(r, "error")
  BY <1>1, RespondD DEF Answers
<1>2. CASE ~Respond(r, "error")
  <2>1. /\ at[r] = "write" /\ Commit(r, rows)
        /\ id \in DOMAIN db[t] => RefersTo(rows, rows[t][id])
    BY <1>2 DEF Write
  <2>2. /\ RowsInv /\ CustomersInv /\ t \in Tables
        /\ IsRow(t, mem[r].row) /\ IsRow(t, mem[r].found)
    BY <2>1 DEF AInv, DInv, MemInv, SaveStages
  <2>3. db' = rows
    BY <2>1 DEF Commit
  <2>4. RowsInv'
    BY <2>1, <2>2, <2>3, SaveRows
  <2> QED
    BY <2>1, <2>4, CommitD
<1> QED
  BY <1>1, <1>2

LEMMA RemoveD ==
  ASSUME AInv, DInv, NEW r \in Requests, Remove(r)
  PROVE  DInv'
<1> DEFINE t == order[r].on
           id == order[r].id
<1>1. CASE Respond(r, "error")
  BY <1>1, RespondD DEF Answers
<1>2. CASE ~Respond(r, "error")
  <2>1. /\ at[r] = "remove" /\ Commit(r, Kept(db, {<<t, id>>}, t, id))
        /\ t = "group" => Members(id) = {}
    BY <1>2 DEF Remove, Refused
  <2>2. RowsInv /\ CustomersInv /\ t \in Tables
    BY <2>1 DEF AInv, DInv, MemInv, Tables
  <2>3. db' = Kept(db, {<<t, id>>}, t, id)
    BY <2>1 DEF Commit
  <2>4. RowsInv'
    BY <2>1, <2>2, <2>3, DeleteRows
  <2> QED
    BY <2>1, <2>4, CommitD
<1> QED
  BY <1>1, <1>2

LEMMA LoginD ==
  ASSUME AInv, DInv, NEW r \in Requests, LoginCustomer(r) \/ LoginAdmin(r)
  PROVE  DInv'
<1>1. UNCHANGED db /\ \E a \in {"unauthorized", "ok"} : Answer(r, a)
  BY DEF LoginCustomer, LoginAdmin, Login, Respond
<1> QED
  BY <1>1, StayRows, AnswerD DEF DInv, Answers

(* A body has no field that its table has not. *)
LEMMA HandlerD ==
  ASSUME AInv, DInv, NEW r \in Requests,
         \/ Register(r) \/ CreatePrivilege(r) \/ DeletePrivilege(r)
         \/ CreateGroup(r) \/ UpdateGroup(r) \/ DeleteGroup(r) \/ CreateAdmin(r)
         \/ UpdateAdmin(r) \/ DeleteAdmin(r) \/ Elsewhere(r)
  PROVE  DInv'
<1>1. at[r] = "handler" /\ at[r] \notin Idle /\ order[r] \in Sends[r]
  BY DEF AInv, RequestInv, Register, CreatePrivilege, DeletePrivilege, CreateGroup, UpdateGroup,
         DeleteGroup, CreateAdmin, UpdateAdmin, DeleteAdmin, Elsewhere, Handles, Idle, Answers
<1>2. ASSUME NEW a \in {"ok", "notFound", "conflict"}, Respond(r, a) PROVE DInv'
  BY <1>2, RespondD DEF Answers
<1>3. {"privileges", "group", "admin", "customer"} \subseteq Tables
  BY DEF Tables
<1>4. ASSUME NEW row PROVE [NoMemory EXCEPT !.row = row].row = row
  BY DEF NoMemory
<1>5. CASE Register(r) \/ CreatePrivilege(r) \/ CreateGroup(r) \/ CreateAdmin(r)
  <2> DEFINE m == [NoMemory EXCEPT !.row = order[r].set]
  <2>1. order[r].on \in Tables /\ order[r].op \in {"create", "register"}
    BY <1>3, <1>5 DEF Register, CreatePrivilege, CreateGroup, CreateAdmin, Handles
  <2>2. \/ \E a \in {"notFound", "conflict"} : Respond(r, a)
        \/ Step(r, "insert", m)
    BY <1>5 DEF Register, CreatePrivilege, CreateGroup, CreateAdmin
  <2>3. m.row = order[r].set
    BY <1>4
  <2> HIDE DEF m
  <2>4. IsRow(order[r].on, m.row)
    BY <1>1, <2>1, <2>3, BodiesAssumption
  <2>5. Writable(r, "insert", m)
    BY <2>1, <2>4 DEF Writable
  <2> QED
    BY <1>2, <2>2, <2>5, StepD
<1>6. CASE DeletePrivilege(r) \/ DeleteGroup(r) \/ DeleteAdmin(r)
  <2>1. /\ order[r].op = "delete" /\ order[r].on \in {"group", "admin", "privileges"}
        /\ \/ \E a \in {"notFound", "conflict"} : Respond(r, a)
           \/ Step(r, "remove", NoMemory)
           \/ Step(r, "count", NoMemory) /\ order[r].on = "group"
    BY <1>6 DEF DeletePrivilege, DeleteGroup, DeleteAdmin, Handles
  <2> QED
    BY <1>2, <2>1, StepD DEF Writable, SaveStages
<1>7. CASE UpdateGroup(r) \/ UpdateAdmin(r)
  <2>1. order[r].on \in {"group", "admin"} /\ order[r].on \in Tables /\ order[r].op = "update"
    BY <1>3, <1>7 DEF UpdateGroup, UpdateAdmin, Handles
  <2>2. DOMAIN order[r].set \subseteq Columns[order[r].on] /\ Typed(order[r].set)
    BY <1>1, <2>1, BodiesAssumption
  <2>3. CASE Respond(r, "notFound")
    BY <1>2, <2>3
  <2>4. CASE ~Respond(r, "notFound")
    <3> DEFINE old == db[order[r].on][order[r].id]
    <3>1. /\ Exists(order[r])
          /\ \E s \in {"resolve", "find"}, fields \in SUBSET DOMAIN order[r].set :
               Step(r, s, [NoMemory EXCEPT !.row = Patched(old, [f \in fields |-> order[r].set[f]])])
      <4>1. CASE UpdateGroup(r)
        <5>1. Patched(old, order[r].set) =
                Patched(old, [f \in DOMAIN order[r].set |-> order[r].set[f]])
          BY DEF Patched
        <5>2. /\ order[r].on = "group" /\ Exists(order[r])
              /\ \E s \in {"resolve", "find"} :
                   Step(r, s, [NoMemory EXCEPT !.row = Patched(old, order[r].set)])
          BY <2>4, <4>1 DEF UpdateGroup, Handles
        <5> HIDE DEF old
        <5> QED
          BY <5>1, <5>2
      <4>2. CASE UpdateAdmin(r)
        BY <2>4, <4>2 DEF UpdateAdmin, Handles
      <4> QED
        BY <1>7, <4>1, <4>2
    <3>2. PICK s \in {"resolve", "find"}, fields \in SUBSET DOMAIN order[r].set :
            Step(r, s, [NoMemory EXCEPT !.row = Patched(old, [f \in fields |-> order[r].set[f]])])
      BY <3>1
    <3>3. order[r].id \in Nat /\ IsRow(order[r].on, old)
      BY <2>1, <3>1 DEF Exists, DInv, RowsInv
    <3> DEFINE row == Patched(old, [f \in fields |-> order[r].set[f]])
    <3>4. IsRow(order[r].on, row)
      <4>1. Typed([f \in fields |-> order[r].set[f]])
        BY <2>2 DEF Typed
      <4> HIDE DEF old
      <4> QED
        BY <2>2, <3>3, <4>1, PatchedRow
    <3> HIDE DEF row
    <3>5. Writable(r, s, [NoMemory EXCEPT !.row = row])
      BY <1>4, <2>1, <3>3, <3>4 DEF Writable
    <3> QED
      BY <3>2, <3>5, StepD DEF row
  <2> QED
    BY <2>3, <2>4
<1>8. CASE Elsewhere(r)
  BY <1>2, <1>8 DEF Elsewhere
<1> QED
  BY <1>5, <1>6, <1>7, <1>8

LEMMA ProceedD ==
  ASSUME AInv, DInv, NEW r \in Requests, Proceed(r)
  PROVE  DInv'
<1>1. CASE CacheHit(r) \/ Store(r)
  <2>1. UNCHANGED db /\ \E codes : Decide(r, codes)
    BY <1>1 DEF CacheHit, Store
  <2> QED
    BY <2>1, DecideD
<1>2. CASE CacheMiss(r) \/ Load(r) \/ Scan(r)
  <2>1. \E s \in {"load", "store", "drop"} : \E m : Step(r, s, m)
    BY <1>2 DEF CacheMiss, Load, Scan
  <2> QED
    BY <2>1, StepD DEF Writable, SaveStages
<1>3. CASE CountMembers(r)
  <2>1. order[r].op = "delete" /\ order[r].on = "group"
    BY <1>3 DEF CountMembers, DInv, MemInv
  <2>2. Respond(r, "conflict") \/ Step(r, "remove", NoMemory)
    BY <1>3 DEF CountMembers
  <2> QED
    BY <2>1, <2>2, RespondD, StepD DEF Answers, Writable, SaveStages
<1>4. CASE Resolve(r) \/ Find(r)
  <2> DEFINE old == db[order[r].on][order[r].id]
  <2>1. /\ at[r] \in {"resolve", "find"} /\ MemInv(r)
        /\ \/ Respond(r, "notFound")
           \/ \E s \in {"find", "insert"} : Step(r, s, mem[r])
           \/ Step(r, "write", [mem[r] EXCEPT !.found = old]) /\ Exists(order[r])
    BY <1>4 DEF Resolve, Find, DInv
  <2>2. \A s \in {"find", "insert"} : Writable(r, s, mem[r])
    BY <2>1 DEF MemInv, Writable, SaveStages
  <2>3. ASSUME Exists(order[r]) PROVE Writable(r, "write", [mem[r] EXCEPT !.found = old])
    <3>1. IsRow(order[r].on, old)
      BY <2>1, <2>3 DEF MemInv, SaveStages, Exists, DInv, RowsInv
    <3> HIDE DEF old
    <3>2. [mem[r] EXCEPT !.found = old].row = mem[r].row
      OBVIOUS
    <3>3. [mem[r] EXCEPT !.found = old].found = old
      BY DEF AInv, RequestInv, Memory
    <3> QED
      BY <2>1, <3>1, <3>2, <3>3 DEF MemInv, Writable, SaveStages
  <2> QED
    BY <2>1, <2>2, <2>3, RespondD, StepD DEF Answers
<1>5. CASE DropKey(r)
  <2>1. at' = at /\ order' = order /\ db' = db /\ at[r] = "drop" /\ \E m : mem' = [mem EXCEPT ![r] = m]
    BY <1>5 DEF DropKey
  <2>2. RowsInv' /\ MemInv(r)'
    BY <2>1, StayRows DEF DInv, MemInv, SaveStages
  <2> QED
    BY <2>1, <2>2, OthersD
<1>6. CASE Dropped(r)
  BY <1>6, RespondD DEF Dropped, Answers
<1> QED
  BY <1>1, <1>2, <1>3, <1>4, <1>5, <1>6, InsertD, WriteD, RemoveD, LoginD, HandlerD DEF Proceed

LEMMA NextD ==
  ASSUME AInv, DInv, [Next]_vars
  PROVE  DInv'
<1>1. ASSUME NEW r \in Requests, Fail(r) PROVE DInv'
  <2>1. RowsInv'
    BY <1>1, StayRows DEF DInv, Fail
  <2>2. \E a \in {"error", "ok"} : Answer(r, a)
    BY <1>1 DEF Fail
  <2> QED
    BY <2>1, <2>2, AnswerD DEF Answers
<1>2. CASE (\E a \in DOMAIN cache : Expire(a)) \/ UNCHANGED vars
  <2>1. UNCHANGED <<db, at, order, mem>>
    BY <1>2 DEF Expire, vars
  <2> QED
    BY <2>1, StayRows DEF DInv, MemInv, SaveStages
<1> QED
  BY <1>1, <1>2, ArriveD, ProceedD DEF Next

LEMMA InitDInv == Init => DInv
BY InitialAssumption DEF Init, DInv, RowsInv, MemInv, SaveStages, NothingDangles

(* A group can gain a member after its members were counted, and a         *)
(* privilege be given to a group while it is deleted: nothing dangles.     *)
THEOREM ReferencesHold == Spec => []NothingDangles
<1>1. Init => AInv /\ DInv
  BY InitAInv, InitDInv
<1>2. AInv /\ DInv /\ [Next]_vars => AInv' /\ DInv'
  BY NextInv, NextD
<1>3. DInv => NothingDangles
  BY DEF DInv, RowsInv
<1> QED
  BY <1>1, <1>2, <1>3, PTL DEF Spec

-----------------------------------------------------------------------------
(* Types                                                                   *)

Stages ==
  Idle \cup {"guard", "load", "store", "handler", "resolve", "find",
             "write", "insert", "count", "remove", "scan", "drop"}

Principals == {"ADMIN", "CUSTOMER"} \X Nat

(* A request has an order until it is answered, and what a guard is about  *)
(* to store has been loaded.                                               *)
TypeOf(r) ==
  /\ order[r] = NoOrder <=> at[r] \in Idle
  /\ at[r] = "store" => mem[r].codes \subseteq STRING

KeysInv ==
  /\ \A a \in DOMAIN cache : cache[a] \subseteq STRING
  /\ excused \subseteq DOMAIN cache

TInv ==
  /\ at \in [Requests -> Stages]
  /\ tokens \subseteq Principals
  /\ KeysInv
  /\ \A r \in Requests : TypeOf(r)

(* What a row refers to is there, so its codes are. *)
LEMMA EffectiveCodes ==
  ASSUME AInv, DInv, NEW a
  PROVE  Effective(db, a) \subseteq STRING
<1>1. {"admin", "group", "privileges"} \subseteq Tables
  BY DEF Tables
<1>2. ASSUME a \in DOMAIN db.admin, NEW p \in db.group[db.admin[a].group].privileges
      PROVE  db.privileges[p].code \in STRING
  <2>1. IsRow("admin", db["admin"][a]) /\ RefersTo(db, db["admin"][a])
    BY <1>1, <1>2 DEF DInv, RowsInv, NothingDangles
  <2>2. db["admin"][a]["group"] \in DOMAIN db["group"]
    BY <2>1, Refers DEF IsRow, Columns, Admin
  <2>3. IsRow("group", db["group"][db["admin"][a]["group"]])
        /\ RefersTo(db, db["group"][db["admin"][a]["group"]])
    BY <1>1, <2>2 DEF DInv, RowsInv, NothingDangles
  <2>4. p \in DOMAIN db["privileges"]
    BY <1>2, <2>3, Refers DEF IsRow, Columns, AdminGroup
  <2>5. IsRow("privileges", db["privileges"][p])
    BY <1>1, <2>4 DEF DInv, RowsInv
  <2> QED
    BY <2>5 DEF IsRow, Typed, Columns, Privilege, ColumnType
<1> QED
  BY <1>2 DEF Effective

(* Other requests are where they were. *)
LEMMA OthersT ==
  ASSUME AInv, TInv, NEW r \in Requests, NEW s \in Stages, NEW o, NEW m,
         at' = at \/ at' = [at EXCEPT ![r] = s],
         order' = order \/ order' = [order EXCEPT ![r] = o],
         mem' = mem \/ mem' = [mem EXCEPT ![r] = m],
         tokens' \subseteq Principals, KeysInv', TypeOf(r)'
  PROVE  TInv'
<1>1. ASSUME NEW q \in Requests \ {r} PROVE TypeOf(q)'
  <2>1. at'[q] = at[q] /\ order'[q] = order[q] /\ mem'[q] = mem[q]
    BY DEF AInv
  <2> QED
    BY <2>1 DEF TInv, TypeOf
<1>2. at' \in [Requests -> Stages]
  BY DEF TInv
<1> QED
  BY <1>1, <1>2 DEF TInv

LEMMA AnswerT ==
  ASSUME AInv, TInv, NEW r \in Requests, NEW a \in Answers, Answer(r, a),
         tokens' \subseteq Principals, KeysInv'
  PROVE  TInv'
<1>1. at'[r] = a /\ order'[r] = NoOrder /\ a \in Stages /\ a \in Idle /\ a # "store"
  BY DEF AInv, Answer, Goto, Stages, Idle, Answers
<1>2. TypeOf(r)'
  BY <1>1 DEF TypeOf
<1> QED
  BY <1>1, <1>2, OthersT DEF Answer, Goto

(* The keys are as before, or some are dropped. *)
LEMMA ForgetT ==
  ASSUME KeysInv, NEW keys, Forget(keys)
  PROVE  KeysInv'
BY DEF KeysInv, Forget

LEMMA SameKeys ==
  ASSUME KeysInv, UNCHANGED <<cache, excused>>
  PROVE  KeysInv'
BY DEF KeysInv

LEMMA RespondT ==
  ASSUME AInv, TInv, NEW r \in Requests, NEW a \in Answers, Respond(r, a)
  PROVE  TInv'
BY AnswerT, SameKeys DEF TInv, Respond

LEMMA StepT ==
  ASSUME AInv, TInv, NEW r \in Requests, NEW s \in Stages \ Idle, NEW m, Step(r, s, m),
         at[r] \notin Idle, s = "store" => m.codes \subseteq STRING
  PROVE  TInv'
<1>1. at'[r] = s /\ order'[r] = order[r] /\ mem'[r] = m
  BY DEF AInv, Step, Goto
<1>2. TypeOf(r)'
  BY <1>1 DEF TInv, TypeOf
<1> QED
  BY <1>2, OthersT, SameKeys DEF TInv, Step, Goto

LEMMA ArriveT ==
  ASSUME AInv, TInv, NEW r \in Requests, Arrive(r)
  PROVE  TInv'
<1>1. ASSUME NEW o \in Sends[r], NEW s \in {"handler", "guard"}, Enter(r, o, s) PROVE TInv'
  <2>1. at'[r] = s /\ order'[r] = o /\ o # NoOrder /\ s \notin Idle /\ s \in Stages
    BY <1>1 DEF AInv, Enter, Goto, Idle, Answers, Stages
  <2>2. TypeOf(r)'
    BY <2>1 DEF TypeOf
  <2> QED
    BY <1>1, <2>1, <2>2, OthersT, SameKeys DEF TInv, Enter, Goto
<1>2. ASSUME NEW a \in {"unauthorized", "forbidden"}, Respond(r, a) PROVE TInv'
  BY <1>2, RespondT DEF Answers
<1>3. PICK o \in Sends[r] :
        LET route == RouteOf(o)
        IN  IF route.guard = "none" THEN Enter(r, o, "handler")
            ELSE /\ o.by \in tokens
                 /\ IF ~Known(o.by) THEN Respond(r, "unauthorized")
                    ELSE IF ~Passes(route.guard, o.by) THEN Respond(r, "forbidden")
                    ELSE IF route.needs = {} \/ o.by[1] # "ADMIN" THEN Enter(r, o, "handler")
                    ELSE Enter(r, o, "guard")
  BY DEF Arrive
<1> QED
  BY <1>1, <1>2, <1>3

LEMMA DecideT ==
  ASSUME AInv, TInv, NEW r \in Requests, NEW codes, Decide(r, codes), at[r] \notin Idle,
         tokens' = tokens, KeysInv'
  PROVE  TInv'
<1>1. CASE Answer(r, "forbidden")
  BY <1>1, AnswerT DEF Answers, TInv
<1>2. CASE /\ Goto(r, "handler")
           /\ mem' = [mem EXCEPT ![r] = NoMemory]
           /\ UNCHANGED <<order, raced>>
  <2>1. at'[r] = "handler" /\ order'[r] = order[r]
    BY <1>2 DEF AInv, Goto
  <2>2. "handler" \in Stages \ Idle
    BY DEF Stages, Idle, Answers
  <2>3. TypeOf(r)'
    BY <2>1, <2>2 DEF TInv, TypeOf
  <2> QED
    BY <1>2, <2>2, <2>3, OthersT DEF Goto, TInv
<1> QED
  BY <1>1, <1>2 DEF Decide

LEMMA CommitT ==
  ASSUME AInv, TInv, NEW r \in Requests, NEW rows, Commit(r, rows), at[r] \notin Idle,
         tokens' \subseteq Principals
  PROVE  TInv'
<1>1. KeysInv'
  BY SameKeys DEF TInv, Commit
<1>2. CASE Answer(r, "ok")
  BY <1>1, <1>2, AnswerT DEF Answers
<1>3. CASE ~Answer(r, "ok")
  <2>1. /\ AfterSave(order[r]) \in {"scan", "drop"}
        /\ Goto(r, AfterSave(order[r]))
        /\ mem' = [mem EXCEPT ![r] = [NoMemory EXCEPT !.keys = {order[r].id}]]
        /\ UNCHANGED order
    BY <1>3 DEF Commit, AfterSave
  <2>2. /\ at'[r] \in {"scan", "drop"} /\ order'[r] = order[r]
        /\ {"scan", "drop"} \subseteq Stages \ Idle
    BY <2>1 DEF AInv, Goto, Stages, Idle, Answers
  <2>3. TypeOf(r)'
    BY <2>2 DEF TInv, TypeOf
  <2> QED
    BY <1>1, <2>1, <2>2, <2>3, OthersT DEF Goto
<1> QED
  BY <1>2, <1>3

(* The three statements that write. *)
LEMMA StatementT ==
  ASSUME AInv, TInv, NEW r \in Requests, Insert(r) \/ Write(r) \/ Remove(r)
  PROVE  TInv'
<1>1. CASE Respond(r, "error")
  BY <1>1, RespondT DEF Answers
<1>2. CASE ~Respond(r, "error")
  <2>1. /\ at[r] \in {"insert", "write", "remove"}
        /\ \E rows : Commit(r, rows)
        /\ tokens' = tokens \/ tokens' = tokens \cup Signed(r)
    BY <1>2 DEF Insert, Write, Remove
  <2>2. tokens' \subseteq Principals
    BY <2>1 DEF TInv, Signed, Principals
  <2> QED
    BY <2>1, <2>2, CommitT DEF Idle, Answers
<1> QED
  BY <1>1, <1>2

LEMMA LoginT ==
  ASSUME AInv, DInv, TInv, NEW r \in Requests, LoginCustomer(r) \/ LoginAdmin(r)
  PROVE  TInv'
<1>1. ASSUME NEW kind \in {"ADMIN", "CUSTOMER"}, Login(r, kind), order[r].on \in Tables
      PROVE  TInv'
  <2> DEFINE who == {i \in DOMAIN db[order[r].on] :
                       /\ db[order[r].on][i].email = order[r].set.email
                       /\ db[order[r].on][i].password = order[r].set.password}
  <2>1. CASE Respond(r, "unauthorized")
    BY <2>1, RespondT DEF Answers
  <2>2. CASE ~Respond(r, "unauthorized")
    <3>1. /\ Answer(r, "ok")
          /\ tokens' = tokens \cup {<<kind, i>> : i \in who}
          /\ UNCHANGED <<cache, excused>>
      BY <1>1, <2>2 DEF Login
    <3>2. who \subseteq Nat
      BY <1>1 DEF DInv, RowsInv
    <3>3. tokens' \subseteq Principals
      BY <1>1, <3>1, <3>2 DEF TInv, Principals
    <3> QED
      BY <3>1, <3>3, AnswerT, SameKeys DEF Answers, TInv
  <2> QED
    BY <2>1, <2>2
<1> QED
  BY <1>1 DEF LoginCustomer, LoginAdmin, Handles, Tables

(* The steps of a handler that neither write nor sign.                     *)
LEMMA HandlerT ==
  ASSUME AInv, TInv, NEW r \in Requests,
         \/ Register(r) \/ CreatePrivilege(r) \/ DeletePrivilege(r)
         \/ CreateGroup(r) \/ UpdateGroup(r) \/ DeleteGroup(r) \/ CountMembers(r)
         \/ CreateAdmin(r) \/ UpdateAdmin(r) \/ DeleteAdmin(r) \/ Resolve(r) \/ Find(r)
         \/ Elsewhere(r)
  PROVE  TInv'
<1> DEFINE Saving == {"resolve", "find", "write", "insert", "count", "remove"}
<1>1. at[r] \notin Idle
  BY DEF Register, CreatePrivilege, DeletePrivilege, CreateGroup, UpdateGroup, DeleteGroup,
         CountMembers, CreateAdmin, UpdateAdmin, DeleteAdmin, Resolve, Find, Elsewhere, Handles,
         Idle, Answers
<1>2. ASSUME NEW a \in {"ok", "notFound", "conflict"}, Respond(r, a) PROVE TInv'
  BY <1>2, RespondT DEF Answers
<1>3. ASSUME NEW s \in Saving, NEW m, Step(r, s, m) PROVE TInv'
  <2>1. s \in Stages \ Idle /\ s # "store"
    BY DEF Stages, Idle, Answers
  <2> QED
    BY <1>1, <1>3, <2>1, StepT
<1>4. CASE Register(r) \/ CreatePrivilege(r) \/ CreateGroup(r) \/ CreateAdmin(r)
  BY <1>2, <1>3, <1>4 DEF Register, CreatePrivilege, CreateGroup, CreateAdmin
<1>5. CASE DeletePrivilege(r) \/ DeleteGroup(r) \/ DeleteAdmin(r) \/ CountMembers(r)
  BY <1>2, <1>3, <1>5 DEF DeletePrivilege, DeleteGroup, DeleteAdmin, CountMembers
<1>6. CASE UpdateGroup(r) \/ UpdateAdmin(r)
  BY <1>2, <1>3, <1>6 DEF UpdateGroup, UpdateAdmin
<1>7. CASE Resolve(r) \/ Find(r) \/ Elsewhere(r)
  BY <1>2, <1>3, <1>7 DEF Resolve, Find, Elsewhere
<1> QED
  BY <1>4, <1>5, <1>6, <1>7

LEMMA ProceedT ==
  ASSUME AInv, DInv, TInv, NEW r \in Requests, Proceed(r)
  PROVE  TInv'
<1>1. CASE CacheHit(r)
  <2>1. at[r] = "guard" /\ Decide(r, cache[Sender(r)]) /\ UNCHANGED <<tokens, cache, excused>>
    BY <1>1 DEF CacheHit
  <2> QED
    BY <2>1, DecideT, SameKeys DEF TInv, Idle, Answers
<1>2. CASE CacheMiss(r) \/ Scan(r)
  <2>1. at[r] \in {"guard", "scan"} /\ \E s \in {"load", "drop"} : \E m : Step(r, s, m)
    BY <1>2 DEF CacheMiss, Scan
  <2>2. at[r] \notin Idle /\ {"load", "drop"} \subseteq Stages \ Idle
    BY <2>1 DEF Stages, Idle, Answers
  <2> QED
    BY <2>1, <2>2, StepT
<1>3. CASE Load(r)
  <2> DEFINE m == [mem[r] EXCEPT !.codes = Effective(db, Sender(r))]
  <2>1. at[r] \notin Idle /\ "store" \in Stages \ Idle /\ Step(r, "store", m)
    BY <1>3 DEF Load, Stages, Idle, Answers
  <2>2. m.codes = Effective(db, Sender(r))
    BY DEF AInv, RequestInv, Memory
  <2> HIDE DEF m
  <2>3. m.codes \subseteq STRING
    BY <2>2, EffectiveCodes
  <2> QED
    BY <2>1, <2>3, StepT
<1>4. CASE Store(r)
  <2> DEFINE a == Sender(r)
             codes == mem[r].codes
  <2>1. at[r] = "store" /\ Decide(r, codes) /\ tokens' = tokens
    BY <1>4 DEF Store
  <2>2. KeysInv /\ codes \subseteq STRING
    BY <2>1 DEF TInv, TypeOf
  <2>3. CASE UNCHANGED <<cache, excused>>
    BY <2>1, <2>2, <2>3, DecideT, SameKeys DEF Idle, Answers
  <2>4. CASE /\ cache' = [b \in DOMAIN cache \cup {a} |-> IF b = a THEN codes ELSE cache[b]]
             /\ excused' = IF raced[r] THEN excused \cup {a} ELSE excused \ {a}
    <3> HIDE DEF a, codes
    <3>1. /\ DOMAIN cache' = DOMAIN cache \cup {a}
          /\ cache'[a] = codes
          /\ \A b \in DOMAIN cache \ {a} : cache'[b] = cache[b]
      BY <2>4
    <3>2. KeysInv'
      BY <2>2, <2>4, <3>1 DEF KeysInv
    <3> QED
      BY <2>1, <3>2, DecideT DEF Idle, Answers
  <2> QED
    BY <1>4, <2>3, <2>4 DEF Store
<1>5. CASE DropKey(r)
  <2>1. PICK a : Forget({a}) /\ mem' = [mem EXCEPT ![r].keys = @ \ {a}]
    BY <1>5 DEF DropKey
  <2>2. at[r] = "drop" /\ at' = at /\ order' = order /\ tokens' = tokens
    BY <1>5 DEF DropKey
  <2>3. KeysInv' /\ TypeOf(r)'
    BY <2>1, <2>2, ForgetT DEF TInv, TypeOf
  <2>4. \E m : mem' = [mem EXCEPT ![r] = m]
    BY <2>1
  <2> QED
    BY <2>2, <2>3, <2>4, OthersT DEF TInv
<1>6. CASE Dropped(r)
  BY <1>6, RespondT DEF Dropped, Answers
<1> QED
  BY <1>1, <1>2, <1>3, <1>4, <1>5, <1>6, StatementT, LoginT, HandlerT DEF Proceed

LEMMA NextT ==
  ASSUME AInv, DInv, TInv, [Next]_vars
  PROVE  TInv'
<1>1. ASSUME NEW r \in Requests, Fail(r) PROVE TInv'
  <2>1. KeysInv'
    BY <1>1 DEF TInv, KeysInv, Fail
  <2>2. tokens' = tokens /\ \E a \in {"error", "ok"} : Answer(r, a)
    BY <1>1 DEF Fail
  <2> QED
    BY <2>1, <2>2, AnswerT DEF Answers, TInv
<1>2. ASSUME NEW a \in DOMAIN cache, Expire(a) PROVE TInv'
  <2>1. Forget({a}) /\ UNCHANGED <<tokens, at, order, mem>>
    BY <1>2 DEF Expire
  <2>2. KeysInv'
    BY <2>1, ForgetT DEF TInv
  <2> QED
    BY <2>1, <2>2 DEF TInv, TypeOf
<1>3. CASE UNCHANGED vars
  BY <1>3 DEF TInv, TypeOf, KeysInv, vars
<1> QED
  BY <1>1, <1>2, <1>3, ArriveT, ProceedT DEF Next

LEMMA InitTInv == Init => TInv
<1> SUFFICES ASSUME Init PROVE TInv
  OBVIOUS
<1>1. "admin" \in Tables /\ "customer" \in Tables
  BY DEF Tables
<1>2. tokens \subseteq Principals
  BY <1>1, IdsAssumption DEF Init, Principals
<1>3. KeysInv
  BY DEF Init, KeysInv
<1> QED
  BY <1>2, <1>3 DEF Init, TInv, TypeOf, Stages, Idle

(* Rows keep their columns whatever is saved over whatever was read, and   *)
(* no key of the cache holds anything but codes: a loader that ran amid    *)
(* changes of its group has found the rows it looked for.                  *)
THEOREM AccountsTypes == Spec => []AccountsTypeOK
<1>1. Init => AInv /\ DInv /\ TInv
  BY InitAInv, InitDInv, InitTInv
<1>2. AInv /\ DInv /\ TInv /\ [Next]_vars => AInv' /\ DInv' /\ TInv'
  BY NextInv, NextD, NextT
<1>3. DInv /\ TInv => AccountsTypeOK
  BY DEF DInv, RowsInv, TInv, TypeOf, KeysInv, Stages, Principals, AccountsTypeOK
<1> QED
  BY <1>1, <1>2, <1>3, PTL DEF Spec

-----------------------------------------------------------------------------
(* Guards and the keys of the cache                                        *)

GuardStages == {"guard", "load", "store"}

(* The id of a row that is still to be inserted is nobody's yet.           *)
Unused(i) ==
  /\ i \notin DOMAIN db["admin"]
  /\ i \notin DOMAIN cache
  /\ <<"ADMIN", i>> \notin tokens
  /\ \A q \in Requests :
       at[q] \in SaveStages /\ order[q].op = "update" /\ order[q].on = "admin" => order[q].id # i

(* What is about to be stored is what the rows say, unless they changed    *)
(* since the request came.                                                 *)
GuardOf(r) ==
  at[r] \in GuardStages =>
    /\ order[r].by[1] = "ADMIN" /\ order[r].by \in tokens
    /\ at[r] = "store" => raced[r] \/ mem[r].codes = Effective(db, Sender(r))

(* A key is what the rows say, or will be dropped, or could not be, or is  *)
(* of an administrator who is gone and whose last requests are raced.      *)
KeyOf(a) ==
  \/ cache[a] = Effective(db, a)
  \/ a \in excused
  \/ Pending(a)
  \/ /\ a \notin DOMAIN db["admin"]
     /\ \A q \in Requests : at[q] \in GuardStages /\ Sender(q) = a => raced[q]

GInv ==
  /\ DOMAIN raced = Requests
  /\ \A i \in Requests : at[i] \notin Answers => Unused(i)
  /\ \A r \in Requests : GuardOf(r)
  /\ \A a \in DOMAIN cache : KeyOf(a)

LEMMA InitGInv == Init => GInv
<1> SUFFICES ASSUME Init PROVE GInv
  OBVIOUS
<1>1. ASSUME NEW i \in Requests PROVE Unused(i)
  <2>1. i \notin DOMAIN db["admin"]
    BY InitialAssumption DEF Init, Tables
  <2>2. DOMAIN cache = {} /\ \A q \in Requests : at[q] = "new"
    BY DEF Init
  <2>3. tokens = ({"ADMIN"} \X DOMAIN db["admin"]) \cup ({"CUSTOMER"} \X DOMAIN db["customer"])
    BY DEF Init
  <2> QED
    BY <2>1, <2>2, <2>3 DEF Unused, SaveStages
<1> QED
  BY <1>1 DEF Init, GInv, GuardOf, GuardStages

(* What a step that leaves the rows as they are may do to a request ...    *)
Fine(q) ==
  /\ at'[q] \notin Answers => at[q] \notin Answers
  /\ GuardOf(q)'
  /\ at'[q] \in SaveStages /\ order'[q].op = "update" /\ order'[q].on = "admin" =>
       \/ at[q] \in SaveStages /\ order'[q] = order[q]
       \/ order'[q].id \in DOMAIN db["admin"]
  /\ at'[q] \in GuardStages =>
       \/ at[q] \in GuardStages /\ order'[q] = order[q] /\ (raced[q] => raced'[q])
       \/ order'[q].by[2] \in DOMAIN db["admin"]
  /\ \A a \in DOMAIN cache' :
       at[q] = "scan" \/ (at[q] = "drop" /\ a \in mem[q].keys) =>
         a \in excused' \/ at'[q] = "scan" \/ (at'[q] = "drop" /\ a \in mem'[q].keys)

(* ... and to a key.                                                       *)
FineKey(a) ==
  \/ a \in DOMAIN cache /\ cache'[a] = cache[a] /\ (a \in excused => a \in excused')
  \/ <<"ADMIN", a>> \in tokens /\ (a \in excused' \/ cache'[a] = Effective(db, a))

FineTokens ==
  /\ tokens \subseteq tokens'
  /\ \A i : <<"ADMIN", i>> \in tokens' => <<"ADMIN", i>> \in tokens \/ i \in DOMAIN db["admin"]

LEMMA QuietG ==
  ASSUME GInv, db' = db, DOMAIN raced' = Requests, \A q \in Requests : Fine(q),
         \A a \in DOMAIN cache' : FineKey(a), FineTokens
  PROVE  GInv'
<1>1. ASSUME NEW i \in Requests, at'[i] \notin Answers PROVE Unused(i)'
  <2>1. Unused(i)
    BY <1>1 DEF GInv, Fine
  <2>2. i \notin DOMAIN cache'
    BY <2>1 DEF FineKey, Unused
  <2>3. <<"ADMIN", i>> \notin tokens'
    BY <2>1 DEF FineTokens, Unused
  <2>4. ASSUME NEW q \in Requests, at'[q] \in SaveStages, order'[q].op = "update",
               order'[q].on = "admin"
        PROVE  order'[q].id # i
    BY <2>1, <2>4 DEF Fine, Unused
  <2> QED
    BY <2>1, <2>2, <2>3, <2>4 DEF Unused
<1>2. ASSUME NEW a \in DOMAIN cache' PROVE KeyOf(a)'
  <2>1. CASE <<"ADMIN", a>> \in tokens /\ (a \in excused' \/ cache'[a] = Effective(db, a))
    BY <2>1 DEF KeyOf
  <2>2. CASE a \in DOMAIN cache /\ cache'[a] = cache[a] /\ (a \in excused => a \in excused')
    <3>1. KeyOf(a)
      BY <2>2 DEF GInv
    <3>2. CASE cache[a] = Effective(db, a) \/ a \in excused
      BY <2>2, <3>2 DEF KeyOf
    <3>3. CASE Pending(a)
      <4>1. PICK q \in Requests : at[q] = "scan" \/ (at[q] = "drop" /\ a \in mem[q].keys)
        BY <3>3 DEF Pending
      <4>2. a \in excused' \/ at'[q] = "scan" \/ (at'[q] = "drop" /\ a \in mem'[q].keys)
        BY <1>2, <4>1 DEF Fine
      <4> QED
        BY <4>2 DEF KeyOf, Pending
    <3>4. CASE /\ a \notin DOMAIN db["admin"]
               /\ \A q \in Requests : at[q] \in GuardStages /\ Sender(q) = a => raced[q]
      <4>1. ASSUME NEW q \in Requests, at'[q] \in GuardStages, order'[q].by[2] = a PROVE raced'[q]
        <5>1. at[q] \in GuardStages /\ order'[q] = order[q] /\ (raced[q] => raced'[q])
          BY <3>4, <4>1 DEF Fine
        <5> QED
          BY <3>4, <4>1, <5>1 DEF Sender
      <4> QED
        BY <3>4, <4>1 DEF KeyOf, Sender
    <3> QED
      BY <3>1, <3>2, <3>3, <3>4 DEF KeyOf
  <2> QED
    BY <2>1, <2>2 DEF FineKey
<1>3. \A q \in Requests : GuardOf(q)'
  BY DEF Fine
<1> QED
  BY <1>1, <1>2, <1>3 DEF GInv

(* A request that does not move. *)
LEMMA StaysFine ==
  ASSUME GInv, db' = db, tokens \subseteq tokens', NEW q \in Requests,
         at'[q] = at[q], order'[q] = order[q], mem'[q] = mem[q], raced'[q] = raced[q]
  PROVE  Fine(q)
<1>1. GuardOf(q)'
  BY DEF GInv, GuardOf, Sender
<1> QED
  BY <1>1 DEF Fine

(* One request moves, without rows or keys. *)
LEMMA MoveG ==
  ASSUME AInv, GInv, UNCHANGED <<db, cache>>, excused \subseteq excused', FineTokens,
         NEW r \in Requests, NEW s, NEW o, NEW m, NEW x,
         at' = [at EXCEPT ![r] = s],
         order' = order \/ order' = [order EXCEPT ![r] = o],
         mem' = mem \/ mem' = [mem EXCEPT ![r] = m],
         raced' = raced \/ raced' = [raced EXCEPT ![r] = x],
         Fine(r)
  PROVE  GInv'
<1>1. ASSUME NEW q \in Requests \ {r} PROVE Fine(q)
  <2>1. /\ at'[q] = at[q] /\ order'[q] = order[q]
        /\ mem'[q] = mem[q] /\ raced'[q] = raced[q]
    BY DEF AInv, GInv
  <2> QED
    BY <2>1, StaysFine DEF FineTokens
<1>2. DOMAIN raced' = Requests
  BY DEF GInv
<1>3. \A a \in DOMAIN cache' : FineKey(a)
  BY DEF FineKey
<1> QED
  BY <1>1, <1>2, <1>3, QuietG

LEMMA SameTokens ==
  ASSUME tokens' = tokens
  PROVE  FineTokens
BY DEF FineTokens

LEMMA AnswerG ==
  ASSUME AInv, GInv, NEW r \in Requests, NEW a \in Answers, Answer(r, a),
         raced' = [raced EXCEPT ![r] = FALSE],
         UNCHANGED <<db, cache>>, excused \subseteq excused', FineTokens,
         \A k \in DOMAIN cache : at[r] = "scan" \/ (at[r] = "drop" /\ k \in mem[r].keys) => k \in excused'
  PROVE  GInv'
<1>1. at'[r] = a /\ a \notin GuardStages /\ a \notin SaveStages
  BY DEF AInv, Answer, Goto, Answers, GuardStages, SaveStages
<1>2. Fine(r)
  BY <1>1 DEF Fine, GuardOf
<1> QED
  BY <1>2, MoveG DEF Answer, Goto

LEMMA RespondG ==
  ASSUME AInv, GInv, NEW r \in Requests, NEW a \in Answers, Respond(r, a),
         at[r] # "scan", at[r] = "drop" => mem[r].keys = {}
  PROVE  GInv'
BY AnswerG, SameTokens DEF Respond

LEMMA StepG ==
  ASSUME AInv, GInv, NEW r \in Requests, NEW s, NEW m, Step(r, s, m),
         at[r] \notin Idle, at[r] \notin {"scan", "drop"}, s \notin GuardStages,
         s \in SaveStages /\ order[r].op = "update" /\ order[r].on = "admin" =>
           at[r] \in SaveStages \/ order[r].id \in DOMAIN db["admin"]
  PROVE  GInv'
<1>1. at'[r] = s /\ order'[r] = order[r]
  BY DEF AInv, Step, Goto
<1>2. Fine(r)
  BY <1>1 DEF Fine, GuardOf, Idle
<1> QED
  BY <1>2, MoveG, SameTokens DEF Step, Goto

-----------------------------------------------------------------------------
(* Routes                                                                  *)

LEMMA InRoute ==
  ASSUME NEW on, NEW ops, NEW guard, NEW needs, NEW x \in Route(on, ops, guard, needs)
  PROVE  x.on = on /\ x.op \in ops /\ x.guard = guard /\ x.needs = needs
BY DEF Route

LEMMA InReferenceData ==
  ASSUME NEW on, NEW code, NEW x \in ReferenceData(on, code)
  PROVE  /\ x.on = on
         /\ \/ x.op \in {"list", "get"} /\ x.needs = {}
            \/ x.op \in Writes /\ x.guard = "admin" /\ x.needs = {code}
<1>1. CASE x \in Route(on, Reads, "none", {})
  BY <1>1, InRoute DEF Reads
<1>2. CASE x \in Route(on, Writes, "admin", {code})
  BY <1>2, InRoute
<1> QED
  BY <1>1, <1>2 DEF ReferenceData

(* The routes ask for what the table of the system design asks for. *)
LEMMA RouteFacts ==
  ASSUME NEW x \in AllRoutes
  PROVE  x.needs = Documented(x) /\ (x.guard = "none" => x.needs = {})
<1>1. ASSUME NEW on, NEW code, x \in ReferenceData(on, code),
             \/ on = "capabilities" /\ code = "MANAGE_CAPABILITIES"
             \/ on = "skills" /\ code = "MANAGE_SKILLS"
             \/ on = "dealership" /\ code = "MANAGE_DEALERSHIPS"
             \/ on = "service" /\ code = "MANAGE_SERVICE_TYPES"
             \/ on = "bay" /\ code = "MANAGE_BAYS"
             \/ on = "tech" /\ code = "MANAGE_TECHNICIANS"
      PROVE  x.needs = Documented(x) /\ (x.guard = "none" => x.needs = {})
  <2>1. CASE x.on = on /\ x.op \in {"list", "get"} /\ x.needs = {}
    BY <1>1, <2>1 DEF Documented, Writes
  <2>2. CASE x.on = on /\ x.op \in Writes /\ x.guard = "admin" /\ x.needs = {code}
    BY <1>1, <2>2 DEF Documented, Writes
  <2> QED
    BY <1>1, <2>1, <2>2, InReferenceData
<1>2. CASE x \in CapabilitiesController \cup SkillsController \cup DealershipsController
                 \cup ServiceTypesController \cup ServiceBaysController \cup TechniciansController
  BY <1>1, <1>2 DEF CapabilitiesController, SkillsController, DealershipsController,
                    ServiceTypesController, ServiceBaysController, TechniciansController
<1>3. CASE x \in AdminsController \cup AdminGroupsController \cup AdminPrivilegesController
  <2>1. /\ x.on \in {"admin", "group", "privileges"} /\ x.needs = {"MANAGE_ADMINS"}
        /\ x.guard = "admin" /\ x.op \in Reads \cup Writes
    BY <1>3, InRoute
       DEF AdminsController, AdminGroupsController, AdminPrivilegesController, Reads, Writes
  <2> QED
    BY <2>1 DEF Documented, Reads, Writes
<1>4. CASE x \in AuthController \cup CustomersController \cup HealthController
  <2>1. x.needs = {} /\ (x.on \in {"customer", "health"} \/ (x.on = "admin" /\ x.op = "login"))
    BY <1>4, InRoute DEF AuthController, CustomersController, HealthController
  <2> QED
    BY <2>1 DEF Documented
<1>5. CASE x \in AppointmentsController
  <2>1. \/ x.on = "appointments" /\ x.op = "list" /\ x.needs = {"VIEW_APPOINTMENTS"} /\ x.guard = "customer"
        \/ x.on = "appointments" /\ x.op # "list" /\ x.needs = {}
        \/ x.on = "watches" /\ x.needs = {}
    BY <1>5, InRoute DEF AppointmentsController
  <2> QED
    BY <2>1 DEF Documented
<1> QED
  BY <1>2, <1>3, <1>4, <1>5 DEF AllRoutes

LEMMA RouteOfOrder ==
  ASSUME NEW r \in Requests, NEW o \in Sends[r]
  PROVE  /\ RouteOf(o).needs = Documented(o)
         /\ RouteOf(o).guard = "none" => RouteOf(o).needs = {}
<1>1. \E x \in AllRoutes : x.on = o.on /\ x.op = o.op
  BY BodiesAssumption
<1>2. RouteOf(o) \in AllRoutes /\ RouteOf(o).on = o.on /\ RouteOf(o).op = o.op
  BY <1>1 DEF RouteOf
<1>3. Documented(RouteOf(o)) = Documented(o)
  BY <1>2 DEF Documented
<1> QED
  BY <1>2, <1>3, RouteFacts

-----------------------------------------------------------------------------
(* Steps that leave the rows as they are                                   *)

LEMMA ArriveG ==
  ASSUME AInv, TInv, GInv, NEW r \in Requests, Arrive(r)
  PROVE  GInv'
<1>0. at[r] = "new" /\ at[r] \notin Answers
  BY DEF Arrive, Answers
<1>1. ASSUME NEW o \in Sends[r], NEW s \in {"handler", "guard"}, Enter(r, o, s),
             s = "guard" => o.by \in tokens /\ Known(o.by) /\ o.by[1] = "ADMIN"
      PROVE  GInv'
  <2>1. at'[r] = s /\ order'[r] = o /\ s \notin SaveStages /\ s # "store"
    BY <1>1 DEF AInv, Enter, Goto, SaveStages
  <2>2. UNCHANGED <<db, cache, tokens, excused, mem, raced>>
    BY <1>1 DEF Enter
  <2>3. s = "guard" => o.by[2] \in DOMAIN db["admin"]
    BY <1>1 DEF Known, AccountOf
  <2>4. s = "handler" => s \notin GuardStages
    BY DEF GuardStages
  <2>5. GuardOf(r)'
    BY <1>1, <2>1, <2>2, <2>4 DEF GuardOf
  <2>6. Fine(r)
    BY <1>0, <2>1, <2>3, <2>4, <2>5 DEF Fine
  <2> QED
    BY <1>1, <2>2, <2>6, MoveG, SameTokens DEF Enter, Goto
<1>2. ASSUME NEW a \in {"unauthorized", "forbidden"}, Respond(r, a) PROVE GInv'
  BY <1>0, <1>2, RespondG DEF Answers
<1>3. PICK o \in Sends[r] :
        LET route == RouteOf(o)
        IN  IF route.guard = "none" THEN Enter(r, o, "handler")
            ELSE /\ o.by \in tokens
                 /\ IF ~Known(o.by) THEN Respond(r, "unauthorized")
                    ELSE IF ~Passes(route.guard, o.by) THEN Respond(r, "forbidden")
                    ELSE IF route.needs = {} \/ o.by[1] # "ADMIN" THEN Enter(r, o, "handler")
                    ELSE Enter(r, o, "guard")
  BY DEF Arrive
<1> QED
  BY <1>1, <1>2, <1>3

(* The guard decides: with the keys as they were ...                       *)
LEMMA DecideFine ==
  ASSUME AInv, GInv, NEW r \in Requests, NEW codes, Decide(r, codes), at[r] \in GuardStages
  PROVE  /\ Fine(r)
         /\ \E s \in {"handler", "forbidden"} : \E m, o, x :
              /\ at' = [at EXCEPT ![r] = s]
              /\ mem' = [mem EXCEPT ![r] = m]
              /\ order' = order \/ order' = [order EXCEPT ![r] = o]
              /\ raced' = raced \/ raced' = [raced EXCEPT ![r] = x]
<1>1. \E s \in {"handler", "forbidden"} : \E m, o, x :
              /\ at' = [at EXCEPT ![r] = s]
              /\ mem' = [mem EXCEPT ![r] = m]
              /\ order' = order \/ order' = [order EXCEPT ![r] = o]
              /\ raced' = raced \/ raced' = [raced EXCEPT ![r] = x]
  BY DEF Decide, Answer, Goto
<1>2. at'[r] \in {"handler", "forbidden"}
  BY <1>1 DEF AInv
<1>3. at'[r] \notin GuardStages \cup SaveStages /\ at[r] \notin Answers /\ at[r] \notin {"scan", "drop"}
  BY <1>2 DEF GuardStages, SaveStages, Answers
<1>4. Fine(r)
  BY <1>3 DEF Fine, GuardOf
<1> QED
  BY <1>1, <1>4

LEMMA CacheHitG ==
  ASSUME AInv, GInv, NEW r \in Requests, CacheHit(r)
  PROVE  GInv'
<1>1. /\ at[r] \in GuardStages /\ Decide(r, cache[Sender(r)])
      /\ UNCHANGED <<db, cache, tokens, excused>>
  BY DEF CacheHit, GuardStages
<1> QED
  BY <1>1, DecideFine, MoveG, SameTokens

(* ... and with what was loaded in the key of its sender.                  *)
LEMMA StoreG ==
  ASSUME AInv, TInv, GInv, NEW r \in Requests, Store(r)
  PROVE  GInv'
<1> DEFINE a == Sender(r)
           codes == mem[r].codes
<1>1. /\ at[r] = "store" /\ at[r] \in GuardStages /\ Decide(r, codes)
      /\ UNCHANGED <<db, tokens>>
  BY DEF Store, GuardStages
<1>2. CASE UNCHANGED <<cache, excused>>
  BY <1>1, <1>2, DecideFine, MoveG, SameTokens
<1>3. CASE /\ cache' = [b \in DOMAIN cache \cup {a} |-> IF b = a THEN codes ELSE cache[b]]
           /\ excused' = IF raced[r] THEN excused \cup {a} ELSE excused \ {a}
  <2>1. /\ order[r].by[1] = "ADMIN" /\ order[r].by \in tokens
        /\ raced[r] \/ codes = Effective(db, a)
    BY <1>1 DEF GInv, GuardOf
  <2>2. <<"ADMIN", a>> \in tokens
    BY <2>1 DEF TInv, Principals, Sender
  <2> HIDE DEF a, codes
  <2>3. ASSUME NEW b \in DOMAIN cache' PROVE FineKey(b)
    BY <1>3, <2>1, <2>2, <2>3 DEF FineKey
  <2>4. ASSUME NEW q \in Requests \ {r} PROVE Fine(q)
    <3>1. /\ at'[q] = at[q] /\ order'[q] = order[q]
          /\ mem'[q] = mem[q] /\ raced'[q] = raced[q]
      BY <1>1, DecideFine DEF AInv, GInv
    <3> QED
      BY <1>1, <3>1, StaysFine
  <2>5. Fine(r) /\ DOMAIN raced' = Requests
    BY <1>1, DecideFine DEF GInv
  <2> QED
    BY <1>1, <2>3, <2>4, <2>5, QuietG, SameTokens
<1> QED
  BY <1>2, <1>3 DEF Store

(* What is loaded is what the rows say.                                    *)
LEMMA LoadG ==
  ASSUME AInv, GInv, NEW r \in Requests, CacheMiss(r) \/ Load(r)
  PROVE  GInv'
<1> DEFINE codes == Effective(db, Sender(r))
<1>1. /\ at[r] \in {"guard", "load"} /\ at[r] \in GuardStages
      /\ UNCHANGED <<db, cache, tokens, order, raced, excused>>
  BY DEF CacheMiss, Load, Step, GuardStages
<1>2. PICK s, m : /\ at' = [at EXCEPT ![r] = s] /\ mem' = [mem EXCEPT ![r] = m]
                  /\ \/ s = "load"
                     \/ s = "store" /\ m = [mem[r] EXCEPT !.codes = codes]
  BY DEF CacheMiss, Load, Step, Goto
<1>3. at'[r] = s /\ mem'[r] = m /\ order'[r] = order[r] /\ raced'[r] = raced[r]
  BY <1>1, <1>2 DEF AInv
<1>4. [mem[r] EXCEPT !.codes = codes].codes = codes
  BY DEF AInv, RequestInv, Memory
<1>5. order[r].by[1] = "ADMIN" /\ order[r].by \in tokens
  BY <1>1 DEF GInv, GuardOf
<1>6. s = "store" => m.codes = Effective(db, order[r].by[2])
  BY <1>2, <1>4 DEF Sender
<1>7. GuardOf(r)'
  BY <1>1, <1>3, <1>5, <1>6 DEF GuardOf, Sender
<1>8. s \notin SaveStages /\ at[r] \notin Answers
  BY <1>1, <1>2 DEF SaveStages, Answers
<1>9. Fine(r)
  BY <1>1, <1>3, <1>7, <1>8 DEF Fine
<1> QED
  BY <1>1, <1>2, <1>9, MoveG, SameTokens

(* All keys there are will be dropped. *)
LEMMA ScanG ==
  ASSUME AInv, GInv, NEW r \in Requests, Scan(r)
  PROVE  GInv'
<1> DEFINE m == [mem[r] EXCEPT !.keys = DOMAIN cache]
<1>1. at[r] = "scan" /\ Step(r, "drop", m)
  BY DEF Scan
<1>2. m.keys = DOMAIN cache
  BY DEF AInv, RequestInv, Memory
<1>3. at'[r] = "drop" /\ mem'[r] = m
  BY <1>1 DEF AInv, Step, Goto
<1>4. UNCHANGED <<db, cache, tokens, order, raced, excused>>
  BY <1>1 DEF Step
<1> HIDE DEF m
<1>5. Fine(r)
  BY <1>1, <1>2, <1>3, <1>4 DEF Fine, GuardOf, GuardStages, SaveStages, Answers
<1> QED
  BY <1>1, <1>4, <1>5, MoveG, SameTokens DEF Step, Goto

LEMMA DropKeyG ==
  ASSUME AInv, GInv, NEW r \in Requests, DropKey(r)
  PROVE  GInv'
<1>1. PICK a : /\ a \in mem[r].keys /\ Forget({a})
               /\ mem' = [mem EXCEPT ![r].keys = @ \ {a}]
  BY DEF DropKey
<1>2. at[r] = "drop" /\ UNCHANGED <<db, tokens, at, order, raced>>
  BY DEF DropKey
<1>3. mem'[r].keys = mem[r].keys \ {a}
  BY <1>1 DEF AInv, RequestInv, Memory
<1>4. ASSUME NEW q \in Requests \ {r} PROVE Fine(q)
  <2>1. mem'[q] = mem[q]
    BY <1>1 DEF AInv
  <2> QED
    BY <1>2, <2>1, StaysFine
<1>5. DOMAIN cache' = DOMAIN cache \ {a}
  BY <1>1 DEF Forget
<1>6. Fine(r)
  BY <1>2, <1>3, <1>5 DEF Fine, GuardOf, GuardStages, SaveStages, Answers
<1>7. ASSUME NEW k \in DOMAIN cache' PROVE FineKey(k)
  BY <1>1, <1>5 DEF FineKey, Forget
<1>8. DOMAIN raced' = Requests
  BY <1>2 DEF GInv
<1> QED
  BY <1>2, <1>4, <1>6, <1>7, <1>8, QuietG, SameTokens

LEMMA ExpireG ==
  ASSUME AInv, GInv, NEW a \in DOMAIN cache, Expire(a)
  PROVE  GInv'
<1>1. Forget({a}) /\ UNCHANGED <<db, tokens, at, order, mem, raced>>
  BY DEF Expire
<1>2. \A q \in Requests : Fine(q)
  BY <1>1, StaysFine
<1>3. ASSUME NEW k \in DOMAIN cache' PROVE FineKey(k)
  BY <1>1 DEF FineKey, Forget
<1>4. DOMAIN raced' = Requests
  BY <1>1 DEF GInv
<1> QED
  BY <1>1, <1>2, <1>3, <1>4, QuietG, SameTokens

LEMMA FailG ==
  ASSUME AInv, GInv, NEW r \in Requests, Fail(r)
  PROVE  GInv'
<1>1. PICK a \in {"error", "ok"} : Answer(r, a)
  BY DEF Fail
<1>2. /\ raced' = [raced EXCEPT ![r] = FALSE]
      /\ excused \subseteq excused'
      /\ UNCHANGED <<db, cache, tokens>>
      /\ \A k \in DOMAIN cache : at[r] = "scan" \/ (at[r] = "drop" /\ k \in mem[r].keys) => k \in excused'
  BY DEF Fail
<1> QED
  BY <1>1, <1>2, AnswerG, SameTokens DEF Answers

LEMMA LoginG ==
  ASSUME AInv, GInv, NEW r \in Requests, LoginCustomer(r) \/ LoginAdmin(r)
  PROVE  GInv'
<1>1. ASSUME NEW kind, Login(r, kind), at[r] = "handler", kind = "ADMIN" => order[r].on = "admin",
             kind \in {"ADMIN", "CUSTOMER"}
      PROVE  GInv'
  <2> DEFINE who == {i \in DOMAIN db[order[r].on] :
                       /\ db[order[r].on][i].email = order[r].set.email
                       /\ db[order[r].on][i].password = order[r].set.password}
  <2>1. CASE Respond(r, "unauthorized")
    BY <1>1, <2>1, RespondG DEF Answers
  <2>2. CASE ~Respond(r, "unauthorized")
    <3>1. /\ Answer(r, "ok")
          /\ tokens' = tokens \cup {<<kind, i>> : i \in who}
          /\ raced' = [raced EXCEPT ![r] = FALSE]
          /\ UNCHANGED <<db, cache, excused>>
      BY <1>1, <2>2 DEF Login
    <3>2. FineTokens
      BY <1>1, <3>1 DEF FineTokens
    <3> QED
      BY <1>1, <3>1, <3>2, AnswerG DEF Answers
  <2> QED
    BY <2>1, <2>2
<1> QED
  BY <1>1 DEF LoginCustomer, LoginAdmin, Handles

LEMMA HandlerG ==
  ASSUME AInv, GInv, NEW r \in Requests,
         \/ Register(r) \/ CreatePrivilege(r) \/ DeletePrivilege(r)
         \/ CreateGroup(r) \/ UpdateGroup(r) \/ DeleteGroup(r) \/ CountMembers(r)
         \/ CreateAdmin(r) \/ UpdateAdmin(r) \/ DeleteAdmin(r) \/ Resolve(r) \/ Find(r)
         \/ Elsewhere(r)
  PROVE  GInv'
<1> DEFINE Saving == {"resolve", "find", "write", "insert", "count", "remove"}
<1>1. /\ at[r] \in {"handler", "count", "resolve", "find"} /\ at[r] \notin Idle
      /\ at[r] \notin {"scan", "drop"}
  BY DEF Register, CreatePrivilege, DeletePrivilege, CreateGroup, UpdateGroup, DeleteGroup,
         CountMembers, CreateAdmin, UpdateAdmin, DeleteAdmin, Resolve, Find, Elsewhere, Handles,
         Idle, Answers
<1>2. ASSUME NEW a \in {"ok", "notFound", "conflict"}, Respond(r, a) PROVE GInv'
  BY <1>1, <1>2, RespondG DEF Answers
<1>3. ASSUME NEW s \in Saving, NEW m, Step(r, s, m),
             \/ at[r] \in SaveStages
             \/ order[r].op # "update" \/ order[r].on # "admin"
             \/ order[r].id \in DOMAIN db["admin"]
      PROVE  GInv'
  <2>1. s \notin GuardStages
    BY DEF GuardStages
  <2> QED
    BY <1>1, <1>3, <2>1, StepG
<1>4. CASE Register(r) \/ CreatePrivilege(r) \/ CreateGroup(r) \/ CreateAdmin(r)
  BY <1>2, <1>3, <1>4 DEF Register, CreatePrivilege, CreateGroup, CreateAdmin, Handles
<1>5. CASE DeletePrivilege(r) \/ DeleteGroup(r) \/ DeleteAdmin(r)
  BY <1>2, <1>3, <1>5 DEF DeletePrivilege, DeleteGroup, DeleteAdmin, Handles
<1>6. CASE CountMembers(r)
  <2>1. at[r] = "count" /\ (Respond(r, "conflict") \/ Step(r, "remove", NoMemory))
    BY <1>6 DEF CountMembers
  <2>2. "remove" \notin SaveStages /\ "remove" \notin GuardStages
    BY DEF SaveStages, GuardStages
  <2> QED
    BY <1>1, <1>2, <2>1, <2>2, StepG
<1>7. CASE UpdateGroup(r)
  BY <1>2, <1>3, <1>7 DEF UpdateGroup, Handles
<1>8. CASE UpdateAdmin(r)
  <2>1. order[r].on = "admin" /\ (Respond(r, "notFound") \/ Exists(order[r]))
    BY <1>8 DEF UpdateAdmin, Handles
  <2>2. Exists(order[r]) => order[r].id \in DOMAIN db["admin"]
    BY <2>1 DEF Exists
  <2> QED
    BY <1>2, <1>3, <1>8, <2>1, <2>2 DEF UpdateAdmin
<1>9. CASE Resolve(r) \/ Find(r)
  <2>1. at[r] \in SaveStages
    BY <1>9 DEF Resolve, Find, SaveStages
  <2> QED
    BY <1>2, <1>3, <1>9, <2>1 DEF Resolve, Find
<1>10. CASE Elsewhere(r)
  BY <1>2, <1>10 DEF Elsewhere
<1> QED
  BY <1>4, <1>5, <1>6, <1>7, <1>8, <1>9, <1>10

-----------------------------------------------------------------------------
(* Statements                                                              *)

(* An administrator may do what he might before as long as his row, that   *)
(* of his group and the privileges stay.                                   *)
LEMMA EffectiveSame ==
  ASSUME AInv, DInv, NEW rs, NEW a \in DOMAIN db["admin"],
         a \in DOMAIN rs["admin"], rs["admin"][a] = db["admin"][a],
         db["admin"][a]["group"] \in DOMAIN db["group"] =>
           rs["group"][db["admin"][a]["group"]] = db["group"][db["admin"][a]["group"]],
         \A p \in DOMAIN db["privileges"] : rs["privileges"][p] = db["privileges"][p]
  PROVE  Effective(rs, a) = Effective(db, a)
<1> DEFINE g == db["admin"][a]["group"]
<1>1. "admin" \in Tables /\ "group" \in Tables
  BY DEF Tables
<1>2. IsRow("admin", db["admin"][a]) /\ RefersTo(db, db["admin"][a])
  BY <1>1 DEF DInv, RowsInv, NothingDangles
<1>3. g \in DOMAIN db["group"]
  BY <1>2, Refers DEF IsRow, Columns, Admin
<1>4. IsRow("group", db["group"][g]) /\ RefersTo(db, db["group"][g])
  BY <1>1, <1>3 DEF DInv, RowsInv, NothingDangles
<1>5. db["group"][g]["privileges"] \subseteq DOMAIN db["privileges"]
  BY <1>4, Refers DEF IsRow, Columns, AdminGroup
<1>6. Effective(rs, a) = {rs["privileges"][p].code : p \in db["group"][g]["privileges"]}
  BY <1>3 DEF Effective
<1>7. Effective(db, a) = {db["privileges"][p].code : p \in db["group"][g]["privileges"]}
  BY DEF Effective
<1> HIDE DEF g
<1> QED
  BY <1>5, <1>6, <1>7

(* What a statement does to an administrator: an invalidation of the key   *)
(* is to come, or the row is gone or new, or nothing is different.         *)
Effects(r, a) ==
  \/ Pending(a)'
  \/ a \notin DOMAIN db'["admin"]
  \/ a \in DOMAIN db["admin"] /\ Effective(db', a) = Effective(db, a)
  \/ a = r /\ at'[r] \in Answers

(* An administrator is new with the id of a request that is answered, or   *)
(* comes back by an update of himself.                                     *)
NewAdmin(r, i) ==
  \/ i \in DOMAIN db["admin"]
  \/ i = r /\ at'[r] \in Answers
  \/ at[r] \in SaveStages /\ order[r].op = "update" /\ order[r].on = "admin" /\ order[r].id = i

LEMMA CommitG ==
  ASSUME AInv, TInv, GInv, NEW r \in Requests, NEW rows, Commit(r, rows),
         at[r] \in {"insert", "write", "remove"},
         \A a : Effects(r, a), \A i \in DOMAIN db'["admin"] : NewAdmin(r, i), FineTokens
  PROVE  GInv'
<1>1. /\ db' = rows /\ UNCHANGED <<cache, excused>>
      /\ \A q \in Requests \ {r} : /\ at'[q] = at[q] /\ order'[q] = order[q]
                                   /\ mem'[q] = mem[q] /\ raced'[q] = RacedBy(rows)[q]
      /\ at'[r] \in {"ok", "scan", "drop"}
      /\ DOMAIN raced' = Requests
  <2>1. DOMAIN RacedBy(rows) = Requests
    BY DEF RacedBy
  <2> QED
    BY <2>1 DEF AInv, Commit, Answer, Goto, AfterSave
<1>2. at'[r] \notin GuardStages \cup SaveStages /\ at[r] \notin GuardStages \cup Answers \cup {"scan", "drop"}
  BY <1>1 DEF GuardStages, SaveStages, Answers
<1>3. ASSUME NEW q \in Requests \ {r}, raced[q] PROVE raced'[q]
  BY <1>1, <1>3 DEF RacedBy
<1>4. ASSUME NEW q \in Requests \ {r}, at[q] \in GuardStages,
             Effective(rows, Sender(q)) # Effective(db, Sender(q))
      PROVE  raced'[q]
  <2>1. at[q] \notin Idle /\ order[q].by[1] = "ADMIN"
    BY <1>4 DEF GInv, GuardOf, GuardStages, Idle, Answers
  <2> QED
    BY <1>1, <1>4, <2>1 DEF RacedBy
<1>5. ASSUME NEW i \in Requests, at'[i] \notin Answers PROVE Unused(i)'
  <2>1. Unused(i)
    BY <1>1, <1>2, <1>5 DEF GInv
  <2>2. i \notin DOMAIN db'["admin"]
    BY <1>5, <2>1 DEF NewAdmin, Unused
  <2>3. <<"ADMIN", i>> \notin tokens'
    BY <2>1 DEF FineTokens, Unused
  <2>4. ASSUME NEW q \in Requests, at'[q] \in SaveStages, order'[q].op = "update",
               order'[q].on = "admin"
        PROVE  order'[q].id # i
    BY <1>1, <1>2, <2>1, <2>4 DEF Unused
  <2> QED
    BY <1>1, <2>1, <2>2, <2>3, <2>4 DEF Unused
<1>6. ASSUME NEW q \in Requests PROVE GuardOf(q)'
  <2>1. CASE q = r
    BY <1>2, <2>1 DEF GuardOf
  <2>2. CASE q # r
    <3> SUFFICES ASSUME at[q] \in GuardStages
                 PROVE  /\ order[q].by[1] = "ADMIN" /\ order[q].by \in tokens'
                        /\ at[q] = "store" => raced'[q] \/ mem[q].codes = Effective(rows, Sender(q))
      BY <1>1, <2>2 DEF GuardOf, Sender
    <3>1. /\ order[q].by[1] = "ADMIN" /\ order[q].by \in tokens
          /\ at[q] = "store" => raced[q] \/ mem[q].codes = Effective(db, Sender(q))
      BY DEF GInv, GuardOf
    <3> QED
      BY <1>3, <1>4, <2>2, <3>1 DEF FineTokens
  <2> QED
    BY <2>1, <2>2
<1>7. ASSUME NEW a \in DOMAIN cache PROVE KeyOf(a)'
  <2>1. KeyOf(a) /\ Effects(r, a)
    BY <1>7 DEF GInv
  <2>2. a # r
    <3>1. Unused(r)
      BY <1>2 DEF GInv
    <3> QED
      BY <1>7, <3>1 DEF Unused
  <2>3. CASE Pending(a)'
    BY <2>3 DEF KeyOf
  <2>4. CASE a \in excused
    BY <1>1, <2>4 DEF KeyOf
  <2>5. CASE Pending(a)
    <3>1. PICK q \in Requests : at[q] = "scan" \/ (at[q] = "drop" /\ a \in mem[q].keys)
      BY <2>5 DEF Pending
    <3>2. at'[q] = at[q] /\ mem'[q] = mem[q]
      BY <1>1, <1>2, <3>1
    <3>3. Pending(a)'
      BY <3>1, <3>2 DEF Pending
    <3> QED
      BY <3>3 DEF KeyOf
  <2>6. CASE cache[a] = Effective(db, a) /\ Effective(rows, a) = Effective(db, a)
    BY <1>1, <2>6 DEF KeyOf
  <2>7. CASE /\ a \notin DOMAIN db'["admin"]
             /\ \/ Effective(rows, a) # Effective(db, a)
                \/ \A q \in Requests : at[q] \in GuardStages /\ Sender(q) = a => raced[q]
    <3>1. ASSUME NEW q \in Requests, at'[q] \in GuardStages, order'[q].by[2] = a PROVE raced'[q]
      <4>1. q # r /\ at[q] \in GuardStages /\ Sender(q) = a
        BY <1>1, <1>2, <3>1 DEF Sender
      <4> QED
        BY <1>3, <1>4, <2>7, <4>1
    <3> QED
      BY <2>7, <3>1 DEF KeyOf, Sender
  <2> QED
    BY <1>1, <2>1, <2>2, <2>3, <2>4, <2>5, <2>6, <2>7 DEF KeyOf, Effects
<1> QED
  BY <1>1, <1>5, <1>6, <1>7 DEF GInv

(* What follows a statement is that keys are to be dropped, or the answer. *)
LEMMA AfterCommit ==
  ASSUME AInv, NEW r \in Requests, NEW rows, Commit(r, rows)
  PROVE  /\ AfterSave(order[r]) = "scan" => \A a : Pending(a)'
         /\ AfterSave(order[r]) = "drop" => \A a : a = order[r].id => Pending(a)'
         /\ AfterSave(order[r]) = "ok" => at'[r] \in Answers
<1>1. at'[r] = AfterSave(order[r])
  BY DEF AInv, Commit, Answer, Goto
<1>2. ASSUME AfterSave(order[r]) = "scan", NEW a PROVE Pending(a)'
  BY <1>1, <1>2 DEF Pending
<1>3. ASSUME AfterSave(order[r]) = "drop", NEW a, a = order[r].id PROVE Pending(a)'
  <2>1. mem' = [mem EXCEPT ![r] = [NoMemory EXCEPT !.keys = {order[r].id}]]
    BY <1>3 DEF Commit
  <2>2. mem'[r].keys = {order[r].id}
    BY <2>1 DEF AInv, NoMemory
  <2> QED
    BY <1>1, <1>3, <2>2 DEF Pending
<1> QED
  BY <1>1, <1>2, <1>3 DEF Answers

(* The row of id is new in its table. *)
LEMMA InsertG ==
  ASSUME AInv, DInv, TInv, GInv, NEW r \in Requests, Insert(r)
  PROVE  GInv'
<1> DEFINE t == order[r].on
           id == IF order[r].op = "update" THEN order[r].id ELSE r
<1>1. CASE Respond(r, "error")
  BY <1>1, RespondG DEF Insert, Answers
<1>2. CASE ~Respond(r, "error")
  <2>1. /\ at[r] = "insert" /\ id \notin DOMAIN db[t]
        /\ Commit(r, Inserted(db, t, id, mem[r].row))
        /\ tokens' = tokens \cup Signed(r)
    BY <1>2 DEF Insert
  <2>2. /\ DOMAIN db = Tables /\ t \in Tables /\ order[r].op \in {"create", "register", "update"}
        /\ order[r].op = "update" => t \in {"group", "admin"}
    BY <2>1 DEF AInv, CustomersInv, DInv, MemInv, SaveStages
  <2>3. /\ order[r].op = "update" /\ t = "group" => \A a : Pending(a)'
        /\ order[r].op = "update" /\ t = "admin" => \A a : a = id => Pending(a)'
        /\ order[r].op # "update" => id = r /\ at'[r] \in Answers
    BY <2>1, <2>2, AfterCommit DEF AfterSave
  <2>4. FineTokens
    BY <2>1 DEF FineTokens, Signed
  <2>5. db' = Inserted(db, t, id, mem[r].row)
    BY <2>1 DEF Commit
  <2>6. order[r].op = "update" => id = order[r].id
    OBVIOUS
  <2> HIDE DEF id
  <2>7. ASSUME NEW u \in Tables
        PROVE  /\ \A i \in DOMAIN db'[u] : i \in DOMAIN db[u] \/ (u = t /\ i = id)
               /\ DOMAIN db[u] \subseteq DOMAIN db'[u]
               /\ \A i \in DOMAIN db[u] : db'[u][i] = db[u][i]
    <3> DEFINE table == [i \in DOMAIN db[t] \cup {id} |-> IF i = id THEN mem[r].row ELSE db[t][i]]
    <3>1. db' = [db EXCEPT ![t] = table]
      BY <2>5 DEF Inserted
    <3>2. db'[t] = table /\ (u # t => db'[u] = db[u])
      BY <2>2, <2>7, <3>1
    <3> QED
      BY <2>1, <3>2
  <2>8. "admin" \in Tables /\ "group" \in Tables /\ "privileges" \in Tables
    BY DEF Tables
  <2>9. ASSUME NEW a PROVE Effects(r, a)
    <3>1. CASE a \in DOMAIN db["admin"]
      <4>1. Effective(db', a) = Effective(db, a)
        BY <2>7, <2>8, <3>1, EffectiveSame
      <4> QED
        BY <3>1, <4>1 DEF Effects
    <3>2. CASE a \notin DOMAIN db["admin"] /\ a \in DOMAIN db'["admin"]
      <4>1. t = "admin" /\ a = id
        BY <2>7, <2>8, <3>2
      <4> QED
        BY <2>3, <4>1 DEF Effects
    <3> QED
      BY <3>1, <3>2 DEF Effects
  <2>10. ASSUME NEW i \in DOMAIN db'["admin"] PROVE NewAdmin(r, i)
    <3>1. i \in DOMAIN db["admin"] \/ (t = "admin" /\ i = id)
      BY <2>7, <2>8, <2>10
    <3>2. at[r] \in SaveStages
      BY <2>1 DEF SaveStages
    <3> QED
      BY <2>3, <2>6, <3>1, <3>2 DEF NewAdmin
  <2> QED
    BY <2>1, <2>4, <2>9, <2>10, CommitG
<1> QED
  BY <1>1, <1>2

LEMMA WriteG ==
  ASSUME AInv, DInv, TInv, GInv, NEW r \in Requests, Write(r)
  PROVE  GInv'
<1> DEFINE t == order[r].on
           id == order[r].id
           rows == Saved(db, t, id, mem[r].row, mem[r].found)
<1>1. CASE Respond(r, "error")
  BY <1>1, RespondG DEF Write, Answers
<1>2. CASE ~Respond(r, "error")
  <2>1. at[r] = "write" /\ Commit(r, rows) /\ tokens' = tokens
    BY <1>2 DEF Write
  <2>2. DOMAIN db = Tables /\ order[r].op = "update" /\ t \in {"group", "admin"}
    BY <2>1 DEF AInv, CustomersInv, DInv, MemInv, SaveStages
  <2>3. /\ t = "group" => \A a : Pending(a)'
        /\ t = "admin" => \A a : a = id => Pending(a)'
    BY <2>1, <2>2, AfterCommit DEF AfterSave
  <2>4. "admin" \in Tables /\ "group" \in Tables /\ "privileges" \in Tables
    BY DEF Tables
  <2>5. db' = rows
    BY <2>1 DEF Commit
  <2>6. /\ DOMAIN db'["admin"] = DOMAIN db["admin"]
        /\ db'["privileges"] = db["privileges"]
        /\ t = "admin" => /\ db'["group"] = db["group"]
                          /\ \A a \in DOMAIN db["admin"] \ {id} : db'["admin"][a] = db["admin"][a]
    BY <2>2, <2>4, <2>5 DEF Saved
  <2>7. ASSUME NEW a PROVE Effects(r, a)
    <3>1. CASE t = "group" \/ a = id
      BY <2>2, <2>3, <3>1 DEF Effects
    <3>2. CASE t = "admin" /\ a # id /\ a \in DOMAIN db["admin"]
      <4>1. Effective(db', a) = Effective(db, a)
        BY <2>6, <3>2, EffectiveSame
      <4> QED
        BY <3>2, <4>1 DEF Effects
    <3> QED
      BY <2>2, <2>6, <3>1, <3>2 DEF Effects
  <2>8. \A i \in DOMAIN db'["admin"] : NewAdmin(r, i)
    BY <2>6 DEF NewAdmin
  <2> QED
    BY <2>1, <2>7, <2>8, CommitG, SameTokens
<1> QED
  BY <1>1, <1>2

LEMMA RemoveG ==
  ASSUME AInv, DInv, TInv, GInv, NEW r \in Requests, Remove(r)
  PROVE  GInv'
<1> DEFINE t == order[r].on
           id == order[r].id
<1>1. CASE Respond(r, "error")
  BY <1>1, RespondG DEF Remove, Answers
<1>2. CASE ~Respond(r, "error")
  <2>1. /\ at[r] = "remove" /\ Commit(r, Kept(db, {<<t, id>>}, t, id)) /\ tokens' = tokens
        /\ t = "group" => Members(id) = {}
    BY <1>2 DEF Remove, Refused
  <2>2. DOMAIN db = Tables /\ order[r].op = "delete" /\ t \in {"group", "admin", "privileges"}
    BY <2>1 DEF AInv, CustomersInv, DInv, MemInv
  <2>3. t = "privileges" => \A a : Pending(a)'
    BY <2>1, <2>2, AfterCommit DEF AfterSave
  <2>4. "admin" \in Tables /\ "group" \in Tables /\ "privileges" \in Tables
    BY DEF Tables
  <2>5. db' = Kept(db, {<<t, id>>}, t, id)
    BY <2>1 DEF Commit
  <2>6. ASSUME NEW u \in Tables
        PROVE  /\ DOMAIN db'[u] = {i \in DOMAIN db[u] : <<u, i>> # <<t, id>>}
               /\ \A i \in DOMAIN db'[u] : t # "privileges" => db'[u][i] = db[u][i]
    BY <2>2, <2>5, <2>6 DEF Kept, Sets
  <2>7. ASSUME NEW a \in DOMAIN db'["admin"], t # "privileges"
        PROVE  a \in DOMAIN db["admin"] /\ Effective(db', a) = Effective(db, a)
    <3>1. a \in DOMAIN db["admin"] /\ db'["admin"][a] = db["admin"][a]
      BY <2>4, <2>6, <2>7
    <3>2. t = "group" => db["admin"][a]["group"] # id
      BY <2>1, <3>1 DEF Members
    <3>3. db["admin"][a]["group"] \in DOMAIN db["group"] =>
            db'["group"][db["admin"][a]["group"]] = db["group"][db["admin"][a]["group"]]
      BY <2>4, <2>6, <2>7, <3>2
    <3>4. \A p \in DOMAIN db["privileges"] : db'["privileges"][p] = db["privileges"][p]
      BY <2>4, <2>6, <2>7
    <3> QED
      BY <2>7, <3>1, <3>3, <3>4, EffectiveSame
  <2>8. \A a : Effects(r, a)
    BY <2>3, <2>7 DEF Effects
  <2>9. \A i \in DOMAIN db'["admin"] : NewAdmin(r, i)
    BY <2>4, <2>6 DEF NewAdmin
  <2> QED
    BY <2>1, <2>8, <2>9, CommitG, SameTokens
<1> QED
  BY <1>1, <1>2

LEMMA NextG ==
  ASSUME AInv, DInv, TInv, GInv, [Next]_vars
  PROVE  GInv'
<1>1. ASSUME NEW r \in Requests, Proceed(r) PROVE GInv'
  <2>1. CASE Dropped(r)
    BY <2>1, RespondG DEF Dropped, Answers
  <2> QED
    BY <1>1, <2>1, CacheHitG, LoadG, StoreG, LoginG, HandlerG, InsertG, WriteG, RemoveG,
       ScanG, DropKeyG DEF Proceed
<1>2. CASE UNCHANGED vars
  BY <1>2 DEF GInv, Unused, GuardOf, KeyOf, Sender, Pending, vars
<1> QED
  BY <1>1, <1>2, ArriveG, FailG, ExpireG DEF Next

-----------------------------------------------------------------------------
(* The guard                                                               *)

(* Only the request that takes a step moves. *)
LEMMA OneMoves ==
  ASSUME AInv, NEW q \in Requests, Arrive(q) \/ Proceed(q) \/ Fail(q), NEW r \in Requests \ {q}
  PROVE  at'[r] = at[r]
<1>1. UNCHANGED at \/ \E s : at' = [at EXCEPT ![q] = s]
  BY DEF Arrive, Enter, Proceed, Fail, CacheHit, CacheMiss, Load, Store, Register, LoginCustomer,
         LoginAdmin, Login, CreatePrivilege, DeletePrivilege, CreateGroup, UpdateGroup, DeleteGroup,
         CountMembers, CreateAdmin, UpdateAdmin, DeleteAdmin, Resolve, Find, Write, Insert, Remove,
         Scan, DropKey, Dropped, Elsewhere, Decide, Commit, Respond, Answer, Step, Goto
<1> QED
  BY <1>1 DEF AInv

(* Who comes out of the guard has been let through or refused by it.       *)
LEMMA GuardDecides ==
  ASSUME AInv, NEW r \in Requests, at[r] \in {"guard", "store"},
         at'[r] \in {"handler", "forbidden"}, [Next]_vars
  PROVE  CacheHit(r) \/ Store(r)
<1>1. CASE CacheMiss(r) \/ Fail(r)
  BY <1>1 DEF AInv, CacheMiss, Fail, Step, Answer, Goto
<1>2. ~Arrive(r)
  BY DEF Arrive
<1>3. Proceed(r) => CacheHit(r) \/ CacheMiss(r) \/ Store(r)
  BY DEF Proceed, Load, Register, LoginCustomer, LoginAdmin, CreatePrivilege, DeletePrivilege,
         CreateGroup, UpdateGroup, DeleteGroup, CountMembers, CreateAdmin, UpdateAdmin, DeleteAdmin,
         Resolve, Find, Write, Insert, Remove, Scan, DropKey, Dropped, Elsewhere, Handles
<1>4. at'[r] # at[r] /\ ~UNCHANGED vars /\ ~(\E a \in DOMAIN cache : Expire(a))
  BY DEF Expire, vars
<1> QED
  BY <1>1, <1>2, <1>3, <1>4, OneMoves DEF Next

LEMMA ExactGuard ==
  ASSUME AInv, TInv, GInv, NEW r \in Requests, CacheHit(r) \/ Store(r)
  PROVE  Exact(r)
<1>1. at[r] \in GuardStages /\ at[r] \notin Idle
  BY DEF CacheHit, Store, GuardStages, Idle, Answers
<1>2. order[r] \in Sends[r]
  BY <1>1 DEF AInv, RequestInv
<1>3. ASSUME NEW codes, Decide(r, codes)
      PROVE  at'[r] = "handler" <=> Documented(order[r]) \subseteq codes
  <2>1. RouteOf(order[r]).needs = Documented(order[r])
    BY <1>2, RouteOfOrder
  <2> QED
    BY <1>3, <2>1 DEF AInv, Decide, Answer, Goto
<1>4. CASE CacheHit(r)
  <2>1. KeyOf(Sender(r)) /\ Decide(r, cache[Sender(r)])
    BY <1>4 DEF CacheHit, GInv
  <2> QED
    BY <1>1, <1>3, <2>1 DEF KeyOf, Exact
<1>5. CASE Store(r)
  <2>1. /\ at[r] = "store" /\ Decide(r, mem[r].codes)
        /\ raced[r] \/ mem[r].codes = Effective(db, Sender(r))
    BY <1>1, <1>5 DEF Store, GInv, GuardOf
  <2> QED
    BY <1>3, <2>1 DEF Exact
<1> QED
  BY <1>4, <1>5

(* A request that needs a privilege and comes of an administrator does not *)
(* get round the guard.                                                    *)
LEMMA NoWayRound ==
  ASSUME AInv, NEW r \in Requests, at[r] = "new", at'[r] = "handler",
         order'[r].by[1] = "ADMIN", [Next]_vars
  PROVE  Documented(order'[r]) = {}
<1>1. ~UNCHANGED vars /\ ~(\E a \in DOMAIN cache : Expire(a)) /\ ~Fail(r)
  BY DEF Expire, vars, Fail, Idle
<1>2. ~Proceed(r)
  BY DEF Proceed, CacheHit, CacheMiss, Load, Store, Register, LoginCustomer, LoginAdmin,
         CreatePrivilege, DeletePrivilege, CreateGroup, UpdateGroup, DeleteGroup, CountMembers,
         CreateAdmin, UpdateAdmin, DeleteAdmin, Resolve, Find, Write, Insert, Remove, Scan, DropKey,
         Dropped, Elsewhere, Handles
<1>3. Arrive(r)
  BY <1>1, <1>2, OneMoves DEF Next
<1>4. PICK o \in Sends[r] :
        LET route == RouteOf(o)
        IN  IF route.guard = "none" THEN Enter(r, o, "handler")
            ELSE /\ o.by \in tokens
                 /\ IF ~Known(o.by) THEN Respond(r, "unauthorized")
                    ELSE IF ~Passes(route.guard, o.by) THEN Respond(r, "forbidden")
                    ELSE IF route.needs = {} \/ o.by[1] # "ADMIN" THEN Enter(r, o, "handler")
                    ELSE Enter(r, o, "guard")
  BY <1>3 DEF Arrive
<1>5. /\ ~Respond(r, "unauthorized") /\ ~Respond(r, "forbidden") /\ ~Enter(r, o, "guard")
      /\ Enter(r, o, "handler") => order'[r] = o
  BY DEF AInv, Respond, Answer, Enter, Goto
<1>6. /\ order'[r] = o
      /\ \/ RouteOf(o).guard = "none"
         \/ RouteOf(o).needs = {} \/ o.by[1] # "ADMIN"
  BY <1>4, <1>5
<1> QED
  BY <1>6, RouteOfOrder

(* The guard follows the rows, however requests, changes of groups,        *)
(* privileges and administrators, loads and invalidations interleave: who  *)
(* it lets through has the privilege of the table of the system design,    *)
(* and whom it refuses has not, but for a key that is about to be dropped  *)
(* or could not be, and for what was loaded amid a change.                 *)
THEOREM GuardsFollowTheRows == Spec => GuardFollowsTheRows
<1>1. Init => AInv /\ DInv /\ TInv /\ GInv
  BY InitAInv, InitDInv, InitTInv, InitGInv
<1>2. AInv /\ DInv /\ TInv /\ GInv /\ [Next]_vars => AInv' /\ DInv' /\ TInv' /\ GInv'
  BY NextInv, NextD, NextT, NextG
<1>3. ASSUME AInv, TInv, GInv, [Next]_vars, NEW r \in Requests
      PROVE  /\ at[r] \in {"guard", "store"} /\ at'[r] \in {"handler", "forbidden"} => Exact(r)
             /\ at[r] = "new" /\ at'[r] = "handler" /\ order'[r].by[1] = "ADMIN" =>
                  Documented(order'[r]) = {}
  BY <1>3, GuardDecides, ExactGuard, NoWayRound
<1>4. AInv /\ TInv /\ GInv /\ [Next]_vars =>
        [\A r \in Requests :
           /\ at[r] \in {"guard", "store"} /\ at'[r] \in {"handler", "forbidden"} => Exact(r)
           /\ at[r] = "new" /\ at'[r] = "handler" /\ order'[r].by[1] = "ADMIN" =>
                Documented(order'[r]) = {}]_vars
  BY <1>3
<1> QED
  BY <1>1, <1>2, <1>4, PTL DEF Spec, GuardFollowsTheRows

===============================================================================
