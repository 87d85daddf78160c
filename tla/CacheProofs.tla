------------------------------ MODULE CacheProofs ------------------------------
(***************************************************************************)
(* A change that commits before it invalidates leaves nothing stale in the *)
(* cache but what its racers store: for any number of readers, keys and    *)
(* changes, and whatever Redis loses or refuses.                           *)
(***************************************************************************)
EXTENDS AvailabilityCache, TLAPS

(* The functions have their domains, and an entry says who stored it.      *)
Shape ==
  /\ DOMAIN cache = Keys
  /\ DOMAIN readerAt = Readers /\ DOMAIN saw = Readers
  /\ key \in [Readers -> Keys]
  /\ DOMAIN changeAt = Changes /\ DOMAIN left = Changes /\ DOMAIN batch = Changes
  /\ DOMAIN clean = Changes /\ DOMAIN racing = Changes

(* Entries that miss c and that no racer of c has stored are under a key   *)
(* of K.                                                                   *)
StaleOnlyAt(c, K) ==
  \A k \in Keys :
    cache[k] # Nothing /\ Misses(cache[k], c) => cache[k].by \in racing[c] \/ k \in K

(* A reader that has not seen the committed c is one that c has raced.     *)
RacersKnown(c) ==
  c \in committed =>
    \A r \in Readers : readerAt[r] \in {"second", "set"} /\ c \notin saw[r] => r \in racing[c]

(* Where a booking is in its commit and its invalidation. *)
BookInv(c) ==
  /\ changeAt[c] \in {"new", "commit"} => c \notin committed /\ left[c] = Keys
  /\ changeAt[c] # "done" => ~clean[c]
  /\ changeAt[c] \in {"new", "commit", "scan"} => batch[c] = {}
  /\ changeAt[c] \in {"scan", "del"} => StaleOnlyAt(c, left[c] \cup batch[c])
  /\ changeAt[c] \in {"scan", "del"} => c \in committed
  /\ changeAt[c] = "done" /\ c \in committed /\ clean[c] => StaleOnlyAt(c, {})

CInv ==
  /\ Shape
  /\ \A c \in Changes : RacersKnown(c)
  /\ \A c \in Changes : kind[c] = "book" => BookInv(c)

-----------------------------------------------------------------------------
LEMMA InitCInv == Init => CInv
BY DEF Init, CInv, Shape, RacersKnown, BookInv, StaleOnlyAt

(* An entry that is new in the cache was stored by its reader, with what   *)
(* that reader saw.                                                        *)
Stored(k) ==
  cache'[k] # Nothing =>
    \/ cache[k] # Nothing /\ cache'[k].saw = cache[k].saw /\ cache'[k].by = cache[k].by
    \/ /\ cache'[k].by \in Readers
       /\ readerAt[cache'[k].by] = "set"
       /\ cache'[k].saw = saw[cache'[k].by]

(* With entries of readers alone, what is stale is as bounded as before.   *)
LEMMA StaleStays ==
  ASSUME NEW c \in Changes, NEW K, StaleOnlyAt(c, K), RacersKnown(c), c \in committed,
         \A k \in Keys : Stored(k), racing'[c] = racing[c]
  PROVE  \A k \in Keys :
           cache'[k] # Nothing /\ Misses(cache'[k], c) => cache'[k].by \in racing'[c] \/ k \in K
BY DEF StaleOnlyAt, RacersKnown, Stored, Misses

LEMMA ReaderStep ==
  ASSUME CInv, NEW r \in Readers, Ask(r) \/ Read(r) \/ LoadFails(r)
  PROVE  CInv'
<1>1. UNCHANGED <<committed, kind, changeAt, left, batch, clean, racing, key>>
  BY DEF Ask, Read, Get, LoadFirst, LoadSecond, Set, LoadFails, change
<1>2. Shape'
  BY <1>1 DEF CInv, Shape, Ask, Read, Get, LoadFirst, LoadSecond, Set, LoadFails, Goto, Forget
<1>3. ASSUME NEW k \in Keys PROVE Stored(k)
  <2>1. CASE Set(r)
    <3>1. cache' = cache \/ cache' = [cache EXCEPT ![key[r]] = Entry(r)]
      BY <2>1 DEF Set
    <3>2. readerAt[r] = "set"
      BY <2>1 DEF Set
    <3> QED
      BY <3>1, <3>2 DEF CInv, Shape, Stored, Entry
  <2>2. CASE cache' = cache
    BY <2>2 DEF Stored
  <2> QED
    BY <2>1, <2>2 DEF Ask, Read, Get, LoadFirst, LoadSecond, LoadFails
<1>4. ASSUME NEW c \in Changes PROVE RacersKnown(c)'
  <2>1. RacersKnown(c)
    BY DEF CInv
  <2>2. \A q \in Readers \ {r} : readerAt'[q] = readerAt[q] /\ saw'[q] = saw[q]
    BY DEF CInv, Shape, Ask, Read, Get, LoadFirst, LoadSecond, Set, LoadFails, Goto, Forget
  <2>3. CASE LoadFirst(r)
    <3>1. saw'[r] = committed
      BY <2>3 DEF LoadFirst, CInv, Shape
    <3> QED
      BY <1>1, <2>1, <2>2, <3>1 DEF RacersKnown
  <2>4. CASE LoadSecond(r)
    <3>1. saw'[r] = saw[r] \cap committed /\ readerAt[r] = "second"
      BY <2>4 DEF LoadSecond, CInv, Shape
    <3> QED
      BY <1>1, <2>1, <2>2, <3>1 DEF RacersKnown
  <2>5. CASE Ask(r) \/ Get(r) \/ Set(r) \/ LoadFails(r)
    <3>1. readerAt'[r] \in {"get", "idle", "first"}
      BY <2>5 DEF Ask, Get, Set, LoadFails, Goto, Forget, CInv, Shape
    <3> QED
      BY <1>1, <2>1, <2>2, <3>1 DEF RacersKnown
  <2> QED
    BY <2>3, <2>4, <2>5 DEF Read
<1>5. ASSUME NEW c \in Changes, kind[c] = "book" PROVE BookInv(c)'
  <2>1. BookInv(c) /\ RacersKnown(c)
    BY <1>5 DEF CInv
  <2>2. ASSUME NEW K, c \in committed, StaleOnlyAt(c, K)
        PROVE  \A k \in Keys : cache'[k] # Nothing /\ Misses(cache'[k], c) =>
                                 cache'[k].by \in racing'[c] \/ k \in K
    BY <1>1, <1>3, <2>1, <2>2, StaleStays
  <2>3. changeAt[c] \in {"scan", "del"} =>
          \A k \in Keys : cache'[k] # Nothing /\ Misses(cache'[k], c) =>
                            cache'[k].by \in racing'[c] \/ k \in left[c] \cup batch[c]
    BY <2>1, <2>2 DEF BookInv
  <2>4. changeAt[c] = "done" /\ c \in committed /\ clean[c] =>
          \A k \in Keys : cache'[k] # Nothing /\ Misses(cache'[k], c) =>
                            cache'[k].by \in racing'[c] \/ k \in {}
    BY <2>1, <2>2 DEF BookInv
  <2> QED
    BY <1>1, <2>1, <2>3, <2>4 DEF BookInv, StaleOnlyAt, Misses
<1> QED
  BY <1>1, <1>2, <1>4, <1>5 DEF CInv

(* Redis and the clock only take entries away. *)
LEMMA RedisStep ==
  ASSUME CInv, RedisDown \/ RedisReturns \/ Tick
  PROVE  CInv'
<1>1. UNCHANGED <<committed, readerAt, key, saw, kind, changeAt, left, batch, clean, racing>>
  BY DEF RedisDown, RedisReturns, Tick, reader, change
<1>2. /\ DOMAIN cache' = Keys
      /\ \A k \in Keys : cache'[k] # Nothing =>
           /\ cache[k] # Nothing
           /\ cache'[k].saw = cache[k].saw
           /\ cache'[k].by = cache[k].by
  <2>1. CASE Tick
    BY <2>1 DEF Tick, Aged, CInv, Shape
  <2>2. CASE RedisDown \/ RedisReturns
    BY <2>2 DEF RedisDown, RedisReturns, CInv, Shape
  <2> QED
    BY <2>1, <2>2
<1>3. ASSUME NEW c \in Changes, kind[c] = "book" PROVE BookInv(c)'
  <2>1. BookInv(c)
    BY <1>3 DEF CInv
  <2> QED
    BY <1>1, <1>2, <2>1 DEF BookInv, StaleOnlyAt, Misses
<1> QED
  BY <1>1, <1>2, <1>3 DEF CInv, Shape, RacersKnown

-----------------------------------------------------------------------------
(* The steps of a change                                                   *)

ChangeStep(c) == Handle(c) \/ RedisFails(c) \/ ChangeFails(c)

(* They leave the other changes, and all entries but those they delete.    *)
LEMMA ChangeFrame ==
  ASSUME CInv, NEW c \in Changes, ChangeStep(c)
  PROVE  /\ Shape'
         /\ UNCHANGED <<readerAt, key, saw, kind>>
         /\ \A d \in Changes \ {c} :
              /\ changeAt'[d] = changeAt[d] /\ left'[d] = left[d] /\ batch'[d] = batch[d]
              /\ clean'[d] = clean[d] /\ racing'[d] = racing[d]
              /\ d \in committed' <=> d \in committed
         /\ \A k \in Keys : cache'[k] # Nothing => cache'[k] = cache[k]
<1>1. CASE Begin(c)
  BY <1>1 DEF Begin, GotoChange, reader, CInv, Shape
<1>2. CASE Commit(c)
  BY <1>2 DEF Commit, GotoChange, reader, CInv, Shape
<1>3. CASE Scan(c)
  BY <1>3 DEF Scan, GotoChange, reader, CInv, Shape
<1>4. CASE Del(c)
  BY <1>4 DEF Del, GotoChange, reader, CInv, Shape
<1>5. CASE RedisFails(c)
  BY <1>5 DEF RedisFails, GotoChange, reader, CInv, Shape
<1>6. CASE ChangeFails(c)
  BY <1>6 DEF ChangeFails, GotoChange, reader, CInv, Shape
<1> QED
  BY <1>1, <1>2, <1>3, <1>4, <1>5, <1>6 DEF ChangeStep, Handle

(* A commit counts as racers those who have read and not stored. *)
LEMMA ChangeRacers ==
  ASSUME CInv, NEW c \in Changes, ChangeStep(c)
  PROVE  RacersKnown(c)'
<1>1. RacersKnown(c) /\ UNCHANGED <<readerAt, saw>>
  BY ChangeFrame DEF CInv
<1>2. CASE Commit(c)
  <2>1. racing'[c] = {r \in Readers : readerAt[r] \in {"second", "set"}}
    BY <1>2 DEF Commit, CInv, Shape
  <2> QED
    BY <1>1, <2>1 DEF RacersKnown
<1>3. CASE ~Commit(c)
  <2>1. UNCHANGED <<committed, racing>>
    BY <1>3 DEF ChangeStep, Handle, Begin, Scan, Del, RedisFails, ChangeFails
  <2> QED
    BY <1>1, <2>1 DEF RacersKnown
<1> QED
  BY <1>2, <1>3

LEMMA ChangeBook ==
  ASSUME CInv, NEW c \in Changes, kind[c] = "book", ChangeStep(c)
  PROVE  BookInv(c)'
<1>0. BookInv(c) /\ Shape /\ ~InvalidatesFirst(c) /\ AfterInvalidation(c) = "done"
  BY DEF CInv, InvalidatesFirst, AfterInvalidation
<1>1. CASE Begin(c)
  <2>1. /\ changeAt[c] = "new" /\ changeAt'[c] = "commit"
        /\ UNCHANGED <<committed, cache, left, batch, clean, racing>>
    BY <1>0, <1>1 DEF Begin, GotoChange, Shape
  <2> QED
    BY <1>0, <2>1 DEF BookInv
<1>2. CASE Commit(c)
  <2>1. /\ changeAt[c] = "commit" /\ changeAt'[c] = "scan" /\ c \in committed'
        /\ UNCHANGED <<cache, left, batch, clean>>
    BY <1>0, <1>2 DEF Commit, GotoChange, Shape
  <2>2. left[c] = Keys /\ batch[c] = {} /\ ~clean[c]
    BY <1>0, <2>1 DEF BookInv
  <2>3. batch'[c] = {} /\ StaleOnlyAt(c, left[c] \cup batch[c])'
    BY <2>1, <2>2 DEF StaleOnlyAt
  <2> QED
    BY <2>1, <2>2, <2>3 DEF BookInv
<1>3. CASE Scan(c)
  <2>1. PICK visited \in (SUBSET left[c]) \ {{}} :
          /\ left' = [left EXCEPT ![c] = @ \ visited]
          /\ batch' = [batch EXCEPT ![c] = {k \in visited : cache[k] # Nothing}]
    BY <1>3 DEF Scan
  <2>2. /\ changeAt[c] = "scan" /\ changeAt'[c] = "del"
        /\ UNCHANGED <<committed, cache, clean, racing>>
        /\ left'[c] = left[c] \ visited
        /\ batch'[c] = {k \in visited : cache[k] # Nothing}
    BY <1>0, <1>3, <2>1 DEF Scan, GotoChange, Shape
  <2>3. batch[c] = {} /\ StaleOnlyAt(c, left[c] \cup batch[c])
    BY <1>0, <2>2 DEF BookInv
  <2>4. StaleOnlyAt(c, left[c] \cup batch[c])'
    BY <2>2, <2>3 DEF StaleOnlyAt, Misses
  <2> QED
    BY <1>0, <2>2, <2>4 DEF BookInv
<1>4. CASE Del(c)
  <2>1. /\ changeAt[c] = "del"
        /\ changeAt'[c] = IF left[c] = {} THEN "done" ELSE "scan"
        /\ batch'[c] = {} /\ clean'[c] = (left[c] = {})
        /\ UNCHANGED <<committed, left, racing>>
        /\ \A k \in Keys : cache'[k] = IF k \in batch[c] THEN Nothing ELSE cache[k]
    BY <1>0, <1>4 DEF Del, GotoChange, Shape
  <2>2. StaleOnlyAt(c, left[c] \cup batch[c]) /\ c \in committed
    BY <1>0, <2>1 DEF BookInv
  <2>3. \A k \in Keys : cache'[k] # Nothing /\ Misses(cache'[k], c) =>
                          cache'[k].by \in racing'[c] \/ k \in left[c]
    BY <2>1, <2>2 DEF StaleOnlyAt, Misses
  <2>4. CASE left[c] = {}
    BY <2>1, <2>3, <2>4 DEF BookInv, StaleOnlyAt, Misses
  <2>5. CASE left[c] # {}
    BY <2>1, <2>2, <2>3, <2>5 DEF BookInv, StaleOnlyAt, Misses
  <2> QED
    BY <2>4, <2>5
<1>5. CASE RedisFails(c) \/ ChangeFails(c)
  <2>1. changeAt[c] # "done" /\ changeAt'[c] = "done" /\ clean' = clean
    BY <1>0, <1>5 DEF RedisFails, ChangeFails, GotoChange, Shape
  <2>2. ~clean'[c]
    BY <1>0, <2>1 DEF BookInv
  <2> QED
    BY <2>1, <2>2 DEF BookInv
<1> QED
  BY <1>1, <1>2, <1>3, <1>4, <1>5 DEF ChangeStep, Handle

LEMMA OtherChanges ==
  ASSUME CInv, NEW c \in Changes, NEW d \in Changes \ {c}, ChangeStep(c)
  PROVE  RacersKnown(d)' /\ (kind[d] = "book" => BookInv(d)')
<1>1. RacersKnown(d) /\ (kind[d] = "book" => BookInv(d))
  BY DEF CInv
<1>2. /\ changeAt'[d] = changeAt[d] /\ left'[d] = left[d] /\ batch'[d] = batch[d]
      /\ clean'[d] = clean[d] /\ racing'[d] = racing[d]
      /\ d \in committed' <=> d \in committed
      /\ \A k \in Keys : cache'[k] # Nothing => cache'[k] = cache[k]
      /\ UNCHANGED <<readerAt, saw>>
  BY ChangeFrame
<1> QED
  BY <1>1, <1>2 DEF BookInv, RacersKnown, StaleOnlyAt, Misses

LEMMA NextCInv ==
  ASSUME CInv, [Next]_vars
  PROVE  CInv'
<1>1. ASSUME NEW c \in Changes, ChangeStep(c) PROVE CInv'
  <2>1. Shape' /\ UNCHANGED kind
    BY <1>1, ChangeFrame
  <2>2. ASSUME NEW d \in Changes PROVE RacersKnown(d)' /\ (kind[d] = "book" => BookInv(d)')
    BY <1>1, ChangeRacers, ChangeBook, OtherChanges
  <2> QED
    BY <2>1, <2>2 DEF CInv
<1>2. CASE UNCHANGED vars
  BY <1>2 DEF vars, reader, change, CInv, Shape, RacersKnown, BookInv, StaleOnlyAt, Misses
<1> QED
  BY <1>1, <1>2, ReaderStep, RedisStep DEF Next, ChangeStep

(* After a booking whose invalidation went well, only the values that were *)
(* being loaded when it committed can be stale, whoever else reads, fills, *)
(* invalidates, fails or restarts.                                         *)
THEOREM BookingsInvalidate == Spec => []InvalidatedAfterBooking
<1>1. Init => CInv
  BY InitCInv
<1>2. CInv /\ [Next]_vars => CInv'
  BY NextCInv
<1>3. CInv => InvalidatedAfterBooking
  BY DEF CInv, BookInv, StaleOnlyAt, InvalidatedAfterBooking, OnlyRacersAreStale
<1> QED
  BY <1>1, <1>2, <1>3, PTL DEF Spec

-----------------------------------------------------------------------------
(* What an entry holds                                                     *)

(* A loader in flight has seen committed changes only, as the entries do. *)
EInv ==
  /\ Shape
  /\ CacheTypeOK
  /\ \A r \in Readers : saw[r] \subseteq committed

LEMMA InitEInv == Init => EInv
BY DEF Init, EInv, Shape, CacheTypeOK, Kinds

LEMMA EntryTyped ==
  ASSUME EInv, NEW r \in Readers
  PROVE  Entry(r) \in Entries /\ Entry(r).saw = saw[r]
<1>1. TTL \in 1..TTL
  BY TTLAssumption
<1>2. saw[r] \subseteq Changes
  BY DEF EInv, CacheTypeOK
<1> QED
  BY <1>1, <1>2 DEF Entry, Entries

LEMMA AgedEntry ==
  ASSUME NEW e \in Entries, e # Nothing, Aged(e) # Nothing
  PROVE  Aged(e) \in Entries /\ Aged(e).saw = e.saw
<1>1. e.ttl \in 1..TTL /\ e.ttl # 1 /\ Aged(e) = [e EXCEPT !.ttl = @ - 1]
  BY DEF Aged, Entries
<1>2. e.ttl - 1 \in 1..TTL
  BY <1>1, TTLAssumption
<1> QED
  BY <1>1, <1>2 DEF Entries

LEMMA NextEInv ==
  ASSUME EInv, [Next]_vars
  PROVE  EInv'
<1>0. Shape /\ CacheTypeOK /\ \A r \in Readers : saw[r] \subseteq committed
  BY DEF EInv
<1>1. ASSUME NEW r \in Readers, Ask(r) \/ Get(r) \/ LoadFirst(r) \/ LoadSecond(r) \/ LoadFails(r)
      PROVE  EInv'
  <2>1. UNCHANGED <<committed, cache, key, changeAt, left, batch, clean, racing>>
    BY <1>1 DEF Ask, Get, LoadFirst, LoadSecond, LoadFails, change
  <2>2. /\ readerAt' \in [Readers -> {"idle", "get", "first", "second", "set"}]
        /\ DOMAIN saw' = Readers
        /\ \A q \in Readers : saw'[q] \subseteq committed
    BY <1>0, <1>1 DEF Ask, Get, LoadFirst, LoadSecond, LoadFails, Goto, Forget, Shape, CacheTypeOK
  <2> QED
    BY <1>0, <2>1, <2>2 DEF EInv, Shape, CacheTypeOK
<1>2. ASSUME NEW r \in Readers, Set(r) PROVE EInv'
  <2>1. /\ UNCHANGED <<committed, key, changeAt, left, batch, clean, racing>>
        /\ cache' = cache \/ cache' = [cache EXCEPT ![key[r]] = Entry(r)]
    BY <1>2 DEF Set, change
  <2>2. /\ readerAt' \in [Readers -> {"idle", "get", "first", "second", "set"}]
        /\ DOMAIN saw' = Readers
        /\ \A q \in Readers : saw'[q] \subseteq committed
    BY <1>0, <1>2 DEF Set, Goto, Forget, Shape, CacheTypeOK
  <2>3. DOMAIN cache' = Keys
    BY <1>0, <2>1 DEF Shape
  <2>4. ASSUME NEW k \in Keys, cache'[k] # Nothing
        PROVE  cache'[k] \in Entries /\ cache'[k].saw \subseteq committed
    BY <1>0, <2>1, <2>4, EntryTyped DEF Shape, CacheTypeOK
  <2> QED
    BY <1>0, <2>1, <2>2, <2>3, <2>4 DEF EInv, Shape, CacheTypeOK
<1>3. CASE Tick
  <2>1. UNCHANGED <<committed, readerAt, key, saw, changeAt, left, batch, clean, racing>>
    BY <1>3 DEF Tick, reader, change
  <2>2. cache' = [k \in Keys |-> Aged(cache[k])]
    BY <1>3 DEF Tick
  <2>3. ASSUME NEW k \in Keys, cache'[k] # Nothing
        PROVE  cache'[k] \in Entries /\ cache'[k].saw \subseteq committed
    <3>1. cache[k] # Nothing
      BY <2>2, <2>3 DEF Aged
    <3> QED
      BY <1>0, <2>2, <2>3, <3>1, AgedEntry DEF CacheTypeOK
  <2> QED
    BY <1>0, <2>1, <2>2, <2>3 DEF EInv, Shape, CacheTypeOK
<1>4. CASE RedisDown \/ RedisReturns
  <2>1. /\ UNCHANGED <<committed, readerAt, key, saw, changeAt, left, batch, clean, racing>>
        /\ cache' = cache \/ cache' = [k \in Keys |-> Nothing]
    BY <1>4 DEF RedisDown, RedisReturns, reader, change
  <2> QED
    BY <1>0, <2>1 DEF EInv, Shape, CacheTypeOK
<1>5. ASSUME NEW c \in Changes, ChangeStep(c) PROVE EInv'
  <2>1. /\ UNCHANGED <<readerAt, key, saw>>
        /\ committed' = committed \/ committed' = committed \cup {c}
    BY <1>5 DEF ChangeStep, Handle, Begin, Commit, Scan, Del, RedisFails, ChangeFails, reader
  <2>2. /\ changeAt' \in [Changes -> {"new", "scan", "del", "commit", "done"}]
        /\ \A d \in Changes : left'[d] \cup batch'[d] \subseteq Keys /\ racing'[d] \subseteq Readers
        /\ DOMAIN left' = Changes /\ DOMAIN batch' = Changes
        /\ DOMAIN clean' = Changes /\ DOMAIN racing' = Changes
    BY <1>0, <1>5 DEF ChangeStep, Handle, Begin, Commit, Scan, Del, RedisFails, ChangeFails,
                      GotoChange, AfterInvalidation, Shape, CacheTypeOK
  <2>3. /\ DOMAIN cache' = Keys
        /\ \A k \in Keys : cache'[k] # Nothing => cache'[k] = cache[k]
    BY <1>0, <1>5 DEF ChangeStep, Handle, Begin, Commit, Scan, Del, RedisFails, ChangeFails, Shape
  <2> QED
    BY <1>0, <2>1, <2>2, <2>3 DEF EInv, Shape, CacheTypeOK
<1>6. CASE UNCHANGED vars
  BY <1>0, <1>6 DEF vars, reader, change, EInv, Shape, CacheTypeOK
<1> QED
  BY <1>1, <1>2, <1>3, <1>4, <1>5, <1>6 DEF Next, Read, ChangeStep

(* An entry never holds what was not committed: neither a rolled-back      *)
(* change nor one still under way is ever served from the cache.           *)
THEOREM CacheTypes == Spec => []CacheTypeOK
<1>1. EInv => CacheTypeOK
  BY DEF EInv
<1> QED
  BY <1>1, InitEInv, NextEInv, PTL DEF Spec

===============================================================================
