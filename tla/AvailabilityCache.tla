--------------------------- MODULE AvailabilityCache --------------------------
(***************************************************************************)
(* CacheService over Redis, as the availability probe and the slots API    *)
(* read through it (wrap) and as changes drop the availability namespace   *)
(* (delByPrefix): SCAN and DEL, batch by batch.  A Redis call can fail,    *)
(* and the failure is swallowed; while Redis is unreachable a call waits,  *)
(* since its client never gives one up (maxRetriesPerRequest is null).     *)
(* What a loader computes depends on the changes it could read, so that a  *)
(* value is the set of those that both of its queries saw.                 *)
(***************************************************************************)
EXTENDS Integers, FiniteSets

CONSTANTS
  Keys,      \* the keys of the namespace: probes and slot lists
  Readers,   \* requests that read through the cache, one after the other
  Changes,   \* the changes made to appointments or to resources
  TTL,       \* CacheTtl.availability, in ticks
  Nothing    \* no entry under a key

ASSUME TTLAssumption == TTL \in Nat \ {0}

VARIABLES
  redisUp,    \* whether Redis can be reached
  committed,  \* the changes the database has committed
  cache,      \* key -> entry, or Nothing
  readerAt,   \* where each reader is in wrap
  key,        \* the key its client keeps asking for
  saw,        \* the changes that the queries of its loader have all seen
  kind,       \* change -> the order its handler works in
  changeAt,   \* where the handler of each change is
  left,       \* the keys the SCAN of each change has yet to visit
  batch,      \* the keys it is about to delete
  clean,      \* history: its delByPrefix ended without a failure
  racing      \* history: the readers between two queries or between a query
              \* and SET when the change was committed

reader  == <<readerAt, key, saw>>
change  == <<kind, changeAt, left, batch, clean, racing>>
vars    == <<redisUp, committed, cache, readerAt, key, saw,
             kind, changeAt, left, batch, clean, racing>>

(* A booking commits and then invalidates, and so does an edit of the      *)
(* resources by an administrator; a cancellation, or a move, invalidates   *)
(* before its transaction commits.  A few definitions here are variants of *)
(* the one that follows, with a plausible slip that their name tells.      *)
Kinds == {"book", "cancel"}
InvalidatesAlwaysFirst(c) == TRUE
InvalidatesFirst(c) == kind[c] = "cancel"

-----------------------------------------------------------------------------
(* wrap                                                                    *)

Goto(r, s)       == readerAt' = [readerAt EXCEPT ![r] = s]
GotoChange(c, s) == changeAt' = [changeAt EXCEPT ![c] = s]

Ask(r) ==
  /\ readerAt[r] = "idle"
  /\ Goto(r, "get")
  /\ UNCHANGED <<redisUp, committed, cache, key, saw, change>>

(* A hit is the answer; a miss, or a failure of Redis, runs the loader. *)
Get(r) ==
  /\ redisUp /\ readerAt[r] = "get"
  /\ \/ cache[key[r]] # Nothing /\ Goto(r, "idle")
     \/ Goto(r, "first")
  /\ UNCHANGED <<redisUp, committed, cache, key, saw, change>>

(* The loader: two queries, in no transaction. *)
LoadFirst(r) ==
  /\ readerAt[r] = "first"
  /\ saw' = [saw EXCEPT ![r] = committed]
  /\ Goto(r, "second")
  /\ UNCHANGED <<redisUp, committed, cache, key, change>>

LoadSecond(r) ==
  /\ readerAt[r] = "second"
  /\ saw' = [saw EXCEPT ![r] = @ \cap committed]
  /\ Goto(r, "set")
  /\ UNCHANGED <<redisUp, committed, cache, key, change>>

Forget(r) ==
  /\ Goto(r, "idle")
  /\ saw' = [saw EXCEPT ![r] = {}]

(* A database error is the caller's. *)
LoadFails(r) ==
  /\ readerAt[r] \in {"first", "second"}
  /\ Forget(r)
  /\ UNCHANGED <<redisUp, committed, cache, key, change>>

Entry(r) == [saw |-> saw[r], by |-> r, ttl |-> TTL]

(* A value that could not be stored is loaded again. *)
SetOrLoadAgain(r) ==
  /\ redisUp /\ readerAt[r] = "set"
  /\ \/ cache' = [cache EXCEPT ![key[r]] = Entry(r)] /\ Forget(r)
     \/ Goto(r, "first") /\ UNCHANGED <<cache, saw>>
  /\ UNCHANGED <<redisUp, committed, key, change>>

(* SET ... EX, or a failure that is only logged. *)
Set(r) ==
  /\ redisUp /\ readerAt[r] = "set"
  /\ cache' \in {cache, [cache EXCEPT ![key[r]] = Entry(r)]}
  /\ Forget(r)
  /\ UNCHANGED <<redisUp, committed, key, change>>

(* Redis is lost; it returns with its data or, restarted, without. *)
RedisDown ==
  /\ redisUp
  /\ redisUp' = FALSE
  /\ UNCHANGED <<committed, cache, reader, change>>

RedisReturns ==
  /\ ~redisUp
  /\ redisUp' = TRUE
  /\ cache' \in {cache, [k \in Keys |-> Nothing]}
  /\ UNCHANGED <<committed, reader, change>>

(* Redis drops the entries whose time is over. *)
AgedPastZero(e) == IF e = Nothing THEN Nothing ELSE [e EXCEPT !.ttl = @ - 1]
AgedNever(e) == e
Aged(e) ==
  IF e = Nothing \/ e.ttl = 1 THEN Nothing ELSE [e EXCEPT !.ttl = @ - 1]

Tick ==
  /\ cache' = [k \in Keys |-> Aged(cache[k])]
  /\ UNCHANGED <<redisUp, committed, reader, change>>

-----------------------------------------------------------------------------
(* A change and its invalidation                                           *)

Begin(c) ==
  /\ changeAt[c] = "new"
  /\ GotoChange(c, IF InvalidatesFirst(c) THEN "scan" ELSE "commit")
  /\ UNCHANGED <<redisUp, committed, cache, reader, kind, left, batch, clean, racing>>

Commit(c) ==
  /\ changeAt[c] = "commit"
  /\ committed' = committed \cup {c}
  /\ racing' = [racing EXCEPT ![c] = {r \in Readers : readerAt[r] \in {"second", "set"}}]
  /\ GotoChange(c, IF InvalidatesFirst(c) THEN "done" ELSE "scan")
  /\ UNCHANGED <<redisUp, cache, reader, kind, left, batch, clean>>

AfterInvalidation(c) == IF InvalidatesFirst(c) THEN "commit" ELSE "done"

(* SCAN walks the keyspace: a call visits some of the keys left, in any    *)
(* order, and returns those that are there.                                *)
Scan(c) ==
  /\ redisUp /\ changeAt[c] = "scan"
  /\ \E visited \in (SUBSET left[c]) \ {{}} :
       /\ left' = [left EXCEPT ![c] = @ \ visited]
       /\ batch' = [batch EXCEPT ![c] = {k \in visited : cache[k] # Nothing}]
  /\ GotoChange(c, "del")
  /\ UNCHANGED <<redisUp, committed, cache, reader, kind, clean, racing>>

(* DEL of the batch; the loop ends when the cursor is back at zero. *)
Del(c) ==
  /\ redisUp /\ changeAt[c] = "del"
  /\ cache' = [k \in Keys |-> IF k \in batch[c] THEN Nothing ELSE cache[k]]
  /\ batch' = [batch EXCEPT ![c] = {}]
  /\ clean' = [clean EXCEPT ![c] = left[c] = {}]
  /\ GotoChange(c, IF left[c] = {} THEN AfterInvalidation(c) ELSE "scan")
  /\ UNCHANGED <<redisUp, committed, reader, kind, left, racing>>

(* A failed call ends delByPrefix; its request goes on. *)
RedisFails(c) ==
  /\ redisUp /\ changeAt[c] \in {"scan", "del"}
  /\ left' = [left EXCEPT ![c] = {}]
  /\ batch' = [batch EXCEPT ![c] = {}]
  /\ GotoChange(c, AfterInvalidation(c))
  /\ UNCHANGED <<redisUp, committed, cache, reader, kind, clean, racing>>

(* The request fails, or its process ends: nothing more is committed or    *)
(* invalidated.                                                            *)
ChangeFails(c) ==
  /\ changeAt[c] \notin {"new", "done"}
  /\ left' = [left EXCEPT ![c] = {}]
  /\ batch' = [batch EXCEPT ![c] = {}]
  /\ GotoChange(c, "done")
  /\ UNCHANGED <<redisUp, committed, cache, reader, kind, clean, racing>>

-----------------------------------------------------------------------------
Init ==
  /\ redisUp = TRUE
  /\ committed = {}
  /\ cache = [k \in Keys |-> Nothing]
  /\ readerAt = [r \in Readers |-> "idle"]
  /\ key \in [Readers -> Keys]
  /\ saw = [r \in Readers |-> {}]
  /\ kind \in [Changes -> Kinds]
  /\ changeAt = [c \in Changes |-> "new"]
  /\ left = [c \in Changes |-> Keys]
  /\ batch = [c \in Changes |-> {}]
  /\ clean = [c \in Changes |-> FALSE]
  /\ racing = [c \in Changes |-> {}]

Read(r) == Get(r) \/ LoadFirst(r) \/ LoadSecond(r) \/ Set(r)

Handle(c) == Begin(c) \/ Commit(c) \/ Scan(c) \/ Del(c)

Next ==
  \/ \E r \in Readers : Ask(r) \/ Read(r) \/ LoadFails(r)
  \/ \E c \in Changes : Handle(c) \/ RedisFails(c) \/ ChangeFails(c)
  \/ RedisDown \/ RedisReturns \/ Tick

Spec == Init /\ [][Next]_vars

(* Commands that wait for Redis are sent when it is back (SF); nothing     *)
(* says that it comes back.                                                *)
FairCalls ==
  /\ WF_vars(Tick)
  /\ \A r \in Readers : SF_vars(Read(r))
  /\ \A c \in Changes : SF_vars(Handle(c))

FairSpec == Spec /\ FairCalls /\ WF_vars(RedisReturns)

-----------------------------------------------------------------------------
(* Properties                                                              *)

Entries == [saw : SUBSET Changes, by : Readers, ttl : 1..TTL]

(* An entry holds what was committed, and expires. *)
CacheTypeOK ==
  /\ committed \subseteq Changes
  /\ \A k \in Keys :
       cache[k] # Nothing =>
         /\ cache[k] \in Entries
         /\ cache[k].saw \subseteq committed
  /\ readerAt \in [Readers -> {"idle", "get", "first", "second", "set"}]
  /\ changeAt \in [Changes -> {"new", "scan", "del", "commit", "done"}]
  /\ \A c \in Changes : left[c] \cup batch[c] \subseteq Keys /\ racing[c] \subseteq Readers

Misses(e, c) == c \notin e.saw

(* The entries that miss c, once c is committed and its invalidation ended *)
(* well, were put there by a reader that was loading when c was committed. *)
OnlyRacersAreStale(c) ==
  (changeAt[c] = "done" /\ c \in committed /\ clean[c]) =>
    \A k \in Keys :
      (cache[k] # Nothing /\ Misses(cache[k], c)) => cache[k].by \in racing[c]

(* A booking, or an edit of the resources, is followed by an invalidation  *)
(* that leaves nothing stale behind but the values of the readers it       *)
(* raced: what is loaded after the commit is never stale.                  *)
InvalidatedAfterBooking == \A c \in Changes : kind[c] = "book" => OnlyRacersAreStale(c)

(* "Invalidated on booking, cancel, reschedule": the same of the other two.*)
InvalidatedAfterCancel == \A c \in Changes : kind[c] = "cancel" => OnlyRacersAreStale(c)

(* Whatever was lost or raced, the time to live repairs it: in the end no  *)
(* entry misses a committed change.                                        *)
CoherentInTheEnd ==
  <>[](\A k \in Keys : \A c \in committed : cache[k] # Nothing => ~Misses(cache[k], c))

(* "Graceful degradation": a read is answered, from the cache, from the    *)
(* database or with the database's error, and so is a change whose         *)
(* invalidation has begun.                                                 *)
Served ==
  /\ \A r \in Readers : readerAt[r] = "get" ~> readerAt[r] = "idle"
  /\ \A c \in Changes : changeAt[c] = "scan" ~> changeAt[c] = "done"

===============================================================================
