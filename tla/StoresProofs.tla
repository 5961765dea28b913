---------------------------- MODULE StoresProofs ---------------------------
(***************************************************************************)
(* What a process keeps within limits, for limits and loads of any size:   *)
(* lemmas about the operations of HttpCacheLayer, the bound on the rate of *)
(* RateLimiter, and theorems about each part of Stores.                    *)
(***************************************************************************)
EXTENDS Stores, RateLimiter, SequenceTheorems, FiniteSetTheorems, TLAPS

-----------------------------------------------------------------------------
(* HttpCacheLayer. *)

(* What the object guarantees of its dict. *)
GoodCache(cache) == cache \in Caches /\ Len(cache) <= MaxEntries /\ OnePerUrl(cache)

(* Every entry of new is one of old. *)
Within(new, old) == \A i \in 1..Len(new) : \E j \in 1..Len(old) : new[i] = old[j]

LEMMA PositionIsIndex ==
  ASSUME NEW cache, NEW u, Cached(cache, u)
  PROVE  Position(cache, u) \in 1..Len(cache) /\ cache[Position(cache, u)].url = u
BY DEF Cached, Position

LEMMA EntryIsTyped ==
  ASSUME NEW cache \in Caches, NEW i \in 1..Len(cache)
  PROVE  cache[i] \in Entries
BY DEF Caches

(* Removing one entry keeps the others and their order. *)
LEMMA WithoutIsGood ==
  ASSUME NEW cache, GoodCache(cache), NEW i \in 1..Len(cache)
  PROVE  /\ GoodCache(Without(cache, i))
         /\ Within(Without(cache, i), cache)
         /\ \A k \in 1..Len(Without(cache, i)) : Without(cache, i)[k].url # cache[i].url
<1> DEFINE new == Without(cache, i)
           from(k) == IF k < i THEN k ELSE k + 1
<1>1. cache \in Seq(Entries) /\ Len(cache) \in Nat /\ Len(cache) >= 1
  BY DEF GoodCache, Caches
<1>2. \A k \in 1..(Len(cache) - 1) : from(k) \in 1..Len(cache) /\ from(k) # i /\ new[k] = cache[from(k)]
  BY <1>1 DEF Without
<1>3. \A k \in 1..(Len(cache) - 1) : new[k] \in Entries
  BY <1>1, <1>2, EntryIsTyped DEF Caches
<1>4. new \in Seq(Entries) /\ Len(new) = Len(cache) - 1
  <2>1. Len(cache) - 1 \in Nat
    BY <1>1
  <2>2. new = [k \in 1..(Len(cache) - 1) |-> new[k]]
    BY DEF Without
  <2> QED
    BY <1>3, <2>1, <2>2, IsASeq
<1>5. \A k, l \in 1..(Len(cache) - 1) : from(k) = from(l) => k = l
  BY <1>1
<1> HIDE DEF new, from
<1>6. OnePerUrl(new)
  <2> SUFFICES ASSUME NEW k \in 1..(Len(cache) - 1), NEW l \in 1..(Len(cache) - 1), new[k].url = new[l].url
               PROVE  k = l
    BY <1>4 DEF OnePerUrl
  <2>1. cache[from(k)].url = cache[from(l)].url
    BY <1>2
  <2>2. from(k) = from(l)
    BY <1>2, <2>1 DEF GoodCache, OnePerUrl
  <2> QED
    BY <1>5, <2>2
<1>7. Within(new, cache)
  BY <1>2, <1>4 DEF Within
<1>8. \A k \in 1..Len(new) : new[k].url # cache[i].url
  BY <1>2, <1>4 DEF GoodCache, OnePerUrl
<1>9. GoodCache(new)
  BY <1>1, <1>4, <1>6, CacheAssumption DEF GoodCache, Caches
<1> QED
  BY <1>7, <1>8, <1>9 DEF new

(* invalidate removes the URL and nothing else. *)
LEMMA InvalidateIsGood ==
  ASSUME NEW cache, GoodCache(cache), NEW u
  PROVE  /\ GoodCache(Invalidate(cache, u))
         /\ Within(Invalidate(cache, u), cache)
         /\ \A k \in 1..Len(Invalidate(cache, u)) : Invalidate(cache, u)[k].url # u
<1>1. CASE Cached(cache, u)
  BY <1>1, PositionIsIndex, WithoutIsGood DEF Invalidate
<1>2. CASE ~Cached(cache, u)
  BY <1>2 DEF Invalidate, Within, Cached
<1> QED
  BY <1>1, <1>2

(* Eviction leaves room for one more entry. *)
LEMMA MakeRoomIsGood ==
  ASSUME NEW cache, GoodCache(cache)
  PROVE  /\ GoodCache(MakeRoom(cache))
         /\ Len(MakeRoom(cache)) < MaxEntries
         /\ Within(MakeRoom(cache), cache)
<1>1. cache \in Seq(Entries) /\ Len(cache) \in Nat /\ MaxEntries \in Nat /\ MaxEntries >= 4
  BY CacheAssumption DEF GoodCache, Caches
<1>2. CASE Len(cache) >= MaxEntries
  <2> DEFINE q == MaxEntries \div 4
             new == SubSeq(cache, q + 1, Len(cache))
  <2>1. q \in Nat /\ q >= 1 /\ q <= MaxEntries /\ Len(cache) = MaxEntries
    BY <1>1, <1>2 DEF GoodCache
  <2> HIDE DEF q
  <2>2. Len(new) = Len(cache) - q /\ \A k \in 1..(Len(cache) - q) : new[k] = cache[k + q]
    BY <1>1, <2>1
  <2>3. \A k \in 1..Len(new) : k + q \in 1..Len(cache)
    BY <1>1, <2>1, <2>2
  <2>4. new \in Seq(Entries)
    BY <1>1, <2>1, SubSeqProperties
  <2> HIDE DEF new
  <2>5. Within(new, cache)
    BY <2>2, <2>3 DEF Within
  <2>6. OnePerUrl(new)
    <3> SUFFICES ASSUME NEW k \in 1..Len(new), NEW l \in 1..Len(new), new[k].url = new[l].url
                 PROVE  k = l
      BY DEF OnePerUrl
    <3>1. cache[k + q].url = cache[l + q].url
      BY <2>2
    <3>2. k + q = l + q
      BY <2>3, <3>1 DEF GoodCache, OnePerUrl
    <3>3. k \in Int /\ l \in Int
      BY <1>1, <2>1, <2>2
    <3> QED
      BY <2>1, <3>2, <3>3
  <2>7. MakeRoom(cache) = new
    BY <1>2 DEF MakeRoom, new, q
  <2> QED
    BY <1>1, <2>1, <2>2, <2>4, <2>5, <2>6, <2>7 DEF GoodCache, Caches
<1>3. CASE ~(Len(cache) >= MaxEntries)
  BY <1>1, <1>3 DEF MakeRoom, Within
<1> QED
  BY <1>2, <1>3

(* An entry of new is an entry of cache, or the entry of u with each field
   given or taken from the previous entry of u.                            *)
AsStored(new, cache, u, etag, hash) ==
  \A i \in 1..Len(new) :
    \/ \E j \in 1..Len(cache) : new[i] = cache[j]
    \/ /\ new[i].url = u
       /\ new[i].etag = etag \/ \E j \in 1..Len(cache) : cache[j].url = u /\ new[i].etag = cache[j].etag
       /\ new[i].hash = hash \/ \E j \in 1..Len(cache) : cache[j].url = u /\ new[i].hash = cache[j].hash

(* store keeps the cache good, and changes the entry of its URL only. *)
LEMMA StoreIsGood ==
  ASSUME NEW cache, GoodCache(cache), NEW u \in CacheUrls,
         NEW etag \in Hashes \cup {NoHash}, NEW control \in Controls, NEW hash \in Hashes \cup {NoHash},
         NEW new, new = Store(cache, u, etag, control, hash)
  PROVE  GoodCache(new) /\ AsStored(new, cache, u, etag, hash)
<1>1. cache \in Seq(Entries) /\ Len(cache) \in Nat
  BY DEF GoodCache, Caches
<1>2. CASE Cached(cache, u)
  <2> DEFINE p == Position(cache, u)
             e == Refresh(cache[p], etag, control, hash)
  <2>1. p \in 1..Len(cache) /\ cache[p].url = u /\ cache[p] \in Entries
    BY <1>2, PositionIsIndex, EntryIsTyped DEF GoodCache
  <2>2. e \in Entries /\ e.url = u /\ e.etag \in {etag, cache[p].etag} /\ e.hash \in {hash, cache[p].hash}
    BY <2>1 DEF Refresh, Kept, Entries
  <2>3. new = [cache EXCEPT ![p] = e]
    BY <1>2 DEF Store
  <2> HIDE DEF p, e
  <2>4. new \in Seq(Entries) /\ Len(new) = Len(cache)
    BY <1>1, <2>1, <2>2, <2>3
  <2>5. \A k \in 1..Len(cache) : new[k] = IF k = p THEN e ELSE cache[k]
    BY <1>1, <2>3
  <2>6. OnePerUrl(new)
    BY <2>1, <2>2, <2>4, <2>5 DEF OnePerUrl, GoodCache
  <2>7. GoodCache(new)
    BY <2>4, <2>6 DEF GoodCache, Caches
  <2>8. AsStored(new, cache, u, etag, hash)
    BY <2>1, <2>2, <2>4, <2>5 DEF AsStored
  <2> QED
    BY <2>7, <2>8
<1>3. CASE ~Cached(cache, u)
  <2> DEFINE room == MakeRoom(cache)
             e == NewEntry(u, etag, control, hash)
  <2>1. GoodCache(room) /\ Len(room) < MaxEntries /\ Within(room, cache)
    BY MakeRoomIsGood
  <2>2. e \in Entries /\ e.url = u /\ e.etag = etag /\ e.hash = hash
    BY DEF NewEntry, Entries
  <2>3. new = Append(room, e)
    BY <1>3 DEF Store
  <2> HIDE DEF room, e
  <2>4. room \in Seq(Entries) /\ Len(room) \in Nat
    BY <2>1 DEF GoodCache, Caches
  <2>5. new \in Seq(Entries) /\ Len(new) = Len(room) + 1
    BY <2>2, <2>3, <2>4
  <2>6. \A k \in 1..Len(room) : new[k] = room[k]
    BY <2>3, <2>4
  <2>7. new[Len(room) + 1] = e
    BY <2>3, <2>4
  <2>8. \A k \in 1..Len(new) : k \in 1..Len(room) \/ k = Len(room) + 1
    BY <2>4, <2>5
  <2>9. \A k \in 1..Len(room) : room[k].url # u
    BY <1>3, <2>1 DEF Within, Cached
  <2>10. OnePerUrl(new)
    BY <2>1, <2>2, <2>6, <2>7, <2>8, <2>9 DEF OnePerUrl, GoodCache
  <2>11. Len(new) <= MaxEntries
    BY <2>1, <2>4, <2>5, CacheAssumption
  <2>12. GoodCache(new)
    BY <2>5, <2>10, <2>11 DEF GoodCache, Caches
  <2>13. \A k \in 1..Len(room) : \E j \in 1..Len(cache) : new[k] = cache[j]
    BY <2>1, <2>6 DEF Within
  <2> QED
    BY <2>2, <2>5, <2>7, <2>8, <2>12, <2>13 DEF AsStored
<1> QED
  BY <1>2, <1>3

(* The header to send is a validator or none. *)
LEMMA HeaderIsTyped ==
  ASSUME NEW cache, GoodCache(cache), NEW u
  PROVE  ConditionalHeader(cache, u) \in Hashes \cup {NoHash} /\ IsExpired(cache, u) \in BOOLEAN
<1>1. CASE Cached(cache, u)
  <2>1. Get(cache, u) \in Entries
    BY <1>1, PositionIsIndex, EntryIsTyped DEF Get, GoodCache
  <2> QED
    BY <1>1, <2>1 DEF ConditionalHeader, IsExpired, Entries
<1>2. CASE ~Cached(cache, u)
  BY <1>2 DEF ConditionalHeader, IsExpired
<1> QED
  BY <1>1, <1>2

-----------------------------------------------------------------------------
(* RateLimiter. *)

(* Awake, the history bucket of twice the rate has what the next refill will
   find; asleep, it has the sleeper's token as well once the sleep is over. *)
CreditInv ==
  /\ BucketTypeOK
  /\ holder = Nobody => double >= Least(Burst, tokens + accrued)
  /\ holder # Nobody =>
       /\ tokens < Token
       /\ accrued + owed >= Token - tokens
       /\ double >= Least(Full, tokens + 2 * accrued)

-----------------------------------------------------------------------------
LEMMA BucketInitially == ASSUME BucketInit PROVE CreditInv
  BY LimiterAssumption, SMT DEF BucketInit, CreditInv, BucketTypeOK, Full, Most, Least

LEMMA EnterStep ==
  ASSUME CreditInv, NEW c \in Callers, Enter(c) PROVE CreditInv'
<1>1. queue' \in Seq(Callers)
  BY SMT DEF CreditInv, BucketTypeOK, Enter
<1>2. BucketTypeOK'
  BY <1>1, LimiterAssumption, SMT DEF CreditInv, BucketTypeOK, Enter, Full
<1> QED
  BY <1>2, SMT DEF CreditInv, Enter, Least, Full

LEMMA TakeLockStep == ASSUME CreditInv, TakeLock PROVE CreditInv'
<1>1. queue' \in Seq(Callers) /\ Head(queue) \in Callers
  BY SMT DEF CreditInv, BucketTypeOK, TakeLock
<1>2. Head(queue) # Nobody
  BY <1>1, LimiterAssumption
<1>3. /\ Refilled \in 0..Burst
      /\ double >= Refilled
      /\ holder = Nobody /\ accrued' = 0
  BY LimiterAssumption, SMT DEF CreditInv, BucketTypeOK, TakeLock, Refilled, Least, Full
<1>4. CASE Refilled < Token
  <2>1. /\ tokens' = Refilled /\ holder' = Head(queue)
        /\ owed' = Token - Refilled /\ strict' = strict /\ double' = double
    BY <1>4 DEF TakeLock
  <2>2. BucketTypeOK'
    BY <1>1, <1>3, <1>4, <2>1, LimiterAssumption, SMT DEF CreditInv, BucketTypeOK, Full
  <2> QED
    BY <1>2, <1>3, <1>4, <2>1, <2>2, LimiterAssumption, SMT
    DEF CreditInv, BucketTypeOK, Least, Full
<1>5. CASE ~(Refilled < Token)
  <2>1. /\ tokens' = Refilled - Token /\ holder' = holder /\ owed' = owed
        /\ strict' = Most(-Token, strict - Token) /\ double' = double - Token
    BY <1>5 DEF TakeLock, Grant
  <2>2. BucketTypeOK'
    BY <1>1, <1>3, <1>5, <2>1, LimiterAssumption, SMT DEF CreditInv, BucketTypeOK, Full, Most
  <2> QED
    BY <1>3, <1>5, <2>1, <2>2, LimiterAssumption, SMT DEF CreditInv, BucketTypeOK, Least, Full
<1> QED
  BY <1>4, <1>5

LEMMA WakeStep == ASSUME CreditInv, Wake PROVE CreditInv'
<1>1. BucketTypeOK'
  BY LimiterAssumption, SMT DEF CreditInv, BucketTypeOK, Wake, Grant, Full, Most
<1>2. double' >= Least(Burst, accrued)
  BY LimiterAssumption, SMT DEF CreditInv, BucketTypeOK, Wake, Grant, Full, Least
<1> QED
  BY <1>1, <1>2, LimiterAssumption, SMT DEF CreditInv, BucketTypeOK, Wake, Least

LEMMA TickStep == ASSUME CreditInv, Tick PROVE CreditInv'
<1>1. BucketTypeOK'
  BY LimiterAssumption, SMT DEF CreditInv, BucketTypeOK, Tick, Full, Most, Least
<1>2. holder = Nobody => double' >= Least(Burst, tokens' + accrued')
  BY LimiterAssumption, SMT DEF CreditInv, BucketTypeOK, Tick, Full, Least
<1>3. holder # Nobody =>
        /\ tokens' < Token
        /\ accrued' + owed' >= Token - tokens'
        /\ double' >= Least(Full, tokens' + 2 * accrued')
  BY LimiterAssumption, SMT DEF CreditInv, BucketTypeOK, Tick, Full, Most, Least
<1> QED
  BY <1>1, <1>2, <1>3, SMT DEF CreditInv, Tick, Full

LEMMA CreditInvariant == BucketSpec => []CreditInv
<1>1. ASSUME CreditInv, [BucketNext]_bucket PROVE CreditInv'
  <2>1. CASE BucketNext
    BY <1>1, <2>1, EnterStep, TakeLockStep, WakeStep, TickStep DEF BucketNext
  <2>2. CASE UNCHANGED bucket
    BY <1>1, <2>2 DEF bucket, CreditInv, BucketTypeOK, Least, Full
  <2> QED
    BY <1>1, <2>1, <2>2
<1> QED
  BY BucketInitially, <1>1, PTL DEF BucketSpec

-----------------------------------------------------------------------------
(* acquire keeps its bucket between empty and the burst, and sleeps for no
   more than one token, however late its callers wake.                      *)
THEOREM LimiterTypeCorrect == BucketSpec => []BucketTypeOK
<1>1. CreditInv => BucketTypeOK
  BY DEF CreditInv
<1> QED
  BY <1>1, CreditInvariant, PTL

(* Every caller that acquire lets through is paid for by a bucket with twice
   the configured rate and a burst of one token more than configured.       *)
THEOREM RateIsAtMostDoubled == BucketSpec => []TwiceTheRateAtMost
<1>1. CreditInv => TwiceTheRateAtMost
  BY LimiterAssumption, SMT DEF CreditInv, BucketTypeOK, TwiceTheRateAtMost, Least, Full
<1> QED
  BY <1>1, CreditInvariant, PTL

-----------------------------------------------------------------------------
(* HttpCache. *)

(* The instance of the cache does what HttpCacheLayer does. *)
LEMMA SameCached ==
  ASSUME NEW cache, NEW u PROVE AnswerCache!Cached(cache, u) = Cached(cache, u)
BY DEF AnswerCache!Cached, Cached

LEMMA SameStore ==
  ASSUME NEW cache, NEW u, NEW etag, NEW control, NEW hash
  PROVE  AnswerCache!Store(cache, u, etag, control, hash) = Store(cache, u, etag, control, hash)
<1>1. AnswerCache!Position(cache, u) = Position(cache, u)
  BY DEF AnswerCache!Position, Position
<1>2. AnswerCache!MakeRoom(cache) = MakeRoom(cache)
  BY DEF AnswerCache!MakeRoom, MakeRoom
<1>3. AnswerCache!NewEntry(u, etag, control, hash) = NewEntry(u, etag, control, hash)
  BY DEF AnswerCache!NewEntry, NewEntry
<1>4. \A e : AnswerCache!Refresh(e, etag, control, hash) = Refresh(e, etag, control, hash)
  BY DEF AnswerCache!Refresh, Refresh, AnswerCache!Kept, Kept
<1> QED
  BY <1>1, <1>2, <1>3, <1>4, SameCached DEF AnswerCache!Store, Store

LEMMA SameInvalidate ==
  ASSUME NEW cache, NEW u PROVE AnswerCache!Invalidate(cache, u) = Invalidate(cache, u)
<1>1. AnswerCache!Position(cache, u) = Position(cache, u)
  BY DEF AnswerCache!Position, Position
<1>2. \A i : AnswerCache!Without(cache, i) = Without(cache, i)
  BY DEF AnswerCache!Without, Without
<1> QED
  BY <1>1, <1>2, SameCached DEF AnswerCache!Invalidate, Invalidate

LEMMA GoodEntries == GoodCache(entries) <=> AnswerCache!TypeOK /\ AnswerCache!CacheIsBounded
<1>1. AnswerCache!Caches = Caches
  BY DEF AnswerCache!Caches, Caches, AnswerCache!Entries, Entries, AnswerCache!Controls, Controls
<1>2. AnswerCache!OnePerUrl(entries) = OnePerUrl(entries)
  BY DEF AnswerCache!OnePerUrl, OnePerUrl
<1> QED
  BY <1>1, <1>2 DEF GoodCache, AnswerCache!TypeOK, AnswerCache!CacheIsBounded

(* A call fills the cache or drops an entry. *)
LEMMA CallsOnCache ==
  ASSUME AnswerCache!Next
  PROVE  \E u \in CacheUrls :
           \/ \E etag, hash \in Hashes \cup {NoHash}, control \in Controls :
                entries' = Store(entries, u, etag, control, hash)
           \/ entries' = Invalidate(entries, u)
<1>1. PICK u \in CacheUrls : AnswerCache!Fill(u) \/ AnswerCache!Drop(u)
  BY DEF AnswerCache!Next
<1>2. CASE AnswerCache!Fill(u)
  <2>1. PICK f \in Fills : entries' = Store(entries, u, f.etag, f.control, f.hash)
    BY <1>2, SameStore DEF AnswerCache!Fill
  <2>2. f.etag \in Hashes \cup {NoHash} /\ f.hash \in Hashes \cup {NoHash} /\ f.control \in Controls
    BY StoresAssumption
  <2> QED
    BY <2>1, <2>2
<1>3. CASE AnswerCache!Drop(u)
  BY <1>3, SameInvalidate DEF AnswerCache!Drop
<1> QED
  BY <1>1, <1>2, <1>3

LEMMA EntriesInit == ASSUME AnswerCache!Init PROVE GoodCache(entries)
<1>1. entries = <<>>
  BY DEF AnswerCache!Init
<1> QED
  BY <1>1, CacheAssumption DEF GoodCache, Caches, OnePerUrl

LEMMA EntriesStep == ASSUME GoodCache(entries), AnswerCache!Next PROVE GoodCache(entries')
BY CallsOnCache, StoreIsGood, InvalidateIsGood

(* An eviction takes the first entries. *)
LEMMA MakeRoomIsSuffix ==
  ASSUME NEW cache, GoodCache(cache)
  PROVE  \E q \in 0..Len(cache) :
           /\ Len(MakeRoom(cache)) = Len(cache) - q
           /\ \A k \in 1..(Len(cache) - q) : MakeRoom(cache)[k] = cache[k + q]
<1>1. cache \in Seq(Entries) /\ Len(cache) \in Nat /\ MaxEntries \in Nat /\ MaxEntries >= 4
  BY CacheAssumption DEF GoodCache, Caches
<1>2. CASE Len(cache) >= MaxEntries
  <2> DEFINE q == MaxEntries \div 4
  <2>1. q \in 0..Len(cache) /\ MakeRoom(cache) = SubSeq(cache, q + 1, Len(cache))
    BY <1>1, <1>2 DEF MakeRoom
  <2> HIDE DEF q
  <2>2. /\ Len(SubSeq(cache, q + 1, Len(cache))) = Len(cache) - q
        /\ \A k \in 1..(Len(cache) - q) : SubSeq(cache, q + 1, Len(cache))[k] = cache[k + q]
    BY <1>1, <2>1
  <2> QED
    BY <2>1, <2>2
<1>3. CASE ~(Len(cache) >= MaxEntries)
  <2>1. MakeRoom(cache) = cache /\ 0 \in 0..Len(cache) /\ Len(cache) = Len(cache) - 0
        /\ \A k \in 1..Len(cache) : k = k + 0
    BY <1>1, <1>3 DEF MakeRoom
  <2> QED
    BY <2>1
<1> QED
  BY <1>2, <1>3

(* What is stored outlives nothing older that it has pushed out. *)
LEMMA StoreEvictsOldest ==
  ASSUME NEW cache, GoodCache(cache), NEW u \in CacheUrls, NEW etag, NEW control, NEW hash,
         NEW new, new = Store(cache, u, etag, control, hash),
         NEW i \in 1..Len(cache), NEW j \in 1..Len(cache), i < j, Cached(new, cache[i].url)
  PROVE  Cached(new, cache[j].url)
<1>1. cache \in Seq(Entries) /\ Len(cache) \in Nat
  BY DEF GoodCache, Caches
<1>2. CASE Cached(cache, u)
  <2> DEFINE p == Position(cache, u)
             e == Refresh(cache[p], etag, control, hash)
  <2>1. p \in 1..Len(cache) /\ cache[p] \in Entries /\ new = [cache EXCEPT ![p] = e]
    BY <1>2, PositionIsIndex, EntryIsTyped DEF GoodCache, Store
  <2>2. e.url = cache[p].url
    BY <2>1 DEF Refresh, Entries
  <2> HIDE DEF p, e
  <2>3. Len(new) = Len(cache) /\ new[j].url = cache[j].url
    BY <1>1, <2>1, <2>2
  <2> QED
    BY <2>3 DEF Cached
<1>3. CASE ~Cached(cache, u)
  <2> DEFINE room == MakeRoom(cache)
             e == NewEntry(u, etag, control, hash)
  <2>1. PICK q \in 0..Len(cache) :
          Len(room) = Len(cache) - q /\ \A k \in 1..(Len(cache) - q) : room[k] = cache[k + q]
    BY MakeRoomIsSuffix
  <2>2. new = Append(room, e) /\ e.url = u
    BY <1>3 DEF Store, NewEntry
  <2>3. room \in Seq(Entries)
    BY MakeRoomIsGood DEF GoodCache, Caches
  <2> HIDE DEF room, e
  <2>4. /\ Len(new) = Len(room) + 1 /\ Len(room) \in Nat /\ new[Len(room) + 1] = e
        /\ \A k \in 1..Len(room) : new[k] = room[k]
    BY <2>2, <2>3
  <2>5. PICK k \in 1..Len(new) : new[k].url = cache[i].url
    BY DEF Cached
  <2>6. k # Len(room) + 1
    BY <1>3, <2>2, <2>4, <2>5 DEF Cached
  <2>7. k \in 1..(Len(cache) - q) /\ k + q \in 1..Len(cache) /\ new[k] = cache[k + q]
    <3>1. k \in 1..Len(room)
      BY <2>4, <2>6
    <3>2. k \in 1..(Len(cache) - q)
      BY <2>1, <3>1
    <3> QED
      BY <1>1, <2>1, <2>4, <3>1, <3>2
  <2>8. i = k + q
    BY <2>5, <2>7 DEF GoodCache, OnePerUrl
  <2>9. j - q \in 1..Len(room) /\ (j - q) + q = j
    BY <1>1, <2>1, <2>7, <2>8
  <2>10. new[j - q] = cache[j] /\ j - q \in 1..Len(new)
    BY <2>1, <2>4, <2>9
  <2> QED
    BY <2>10 DEF Cached
<1> QED
  BY <1>2, <1>3

LEMMA OldestStep ==
  ASSUME GoodCache(entries), AnswerCache!Next,
         NEW i \in 1..Len(entries), NEW j \in 1..Len(entries), i < j,
         AnswerCache!Cached(entries', entries[i].url), ~AnswerCache!Cached(entries', entries[j].url)
  PROVE  Len(entries') = Len(entries) - 1
<1>1. Cached(entries', entries[i].url) /\ ~Cached(entries', entries[j].url)
  BY SameCached
<1>2. PICK u \in CacheUrls :
        \/ \E etag, hash \in Hashes \cup {NoHash}, control \in Controls :
             entries' = Store(entries, u, etag, control, hash)
        \/ entries' = Invalidate(entries, u)
  BY CallsOnCache
<1>3. ~\E etag, hash \in Hashes \cup {NoHash}, control \in Controls :
         entries' = Store(entries, u, etag, control, hash)
  BY <1>1, StoreEvictsOldest
<1>4. entries' = Invalidate(entries, u)
  BY <1>2, <1>3
<1>5. Cached(entries, u)
  BY <1>1, <1>4 DEF Invalidate, Cached
<1>6. entries' = [k \in 1..(Len(entries) - 1) |->
                    IF k < Position(entries, u) THEN entries[k] ELSE entries[k + 1]]
  BY <1>4, <1>5 DEF Invalidate, Without
<1>7. Len(entries) - 1 \in Nat
  BY DEF GoodCache, Caches
<1>8. DOMAIN entries' = 1..(Len(entries) - 1)
  BY <1>6
<1>9. entries' \in Seq(Entries)
  BY EntriesStep DEF GoodCache, Caches
<1> QED
  BY <1>7, <1>8, <1>9

-----------------------------------------------------------------------------
(* Sequences of times. *)

(* The instances of the parts count as this module does. *)
LEMMA SameCardinality ==
  ASSUME NEW S
  PROVE  /\ Limiter!Cardinality(S) = Cardinality(S)
         /\ Budget!Cardinality(S) = Cardinality(S)
         /\ Gauging!Cardinality(S) = Cardinality(S)
BY DEF Limiter!Cardinality, Budget!Cardinality, Gauging!Cardinality, Cardinality

Ascending(s) == \A i, j \in 1..Len(s) : i <= j => s[i] <= s[j]

(* In ascending times those that have expired are the first. *)
LEMMA ExpiredAreFirst ==
  ASSUME NEW times \in Seq(Nat), Ascending(times), NEW cutoff \in Int
  PROVE  /\ Limiter!Expired(times, cutoff) \in 0..Len(times)
         /\ \A i \in 1..Len(times) : times[i] > cutoff <=> i > Limiter!Expired(times, cutoff)
<1> DEFINE old == {i \in 1..Len(times) : times[i] <= cutoff}
           n == Cardinality(old)
<1>1. Len(times) \in Nat /\ \A i \in 1..Len(times) : times[i] \in Nat
  OBVIOUS
<1>2. IsFiniteSet(1..Len(times)) /\ Cardinality(1..Len(times)) = Len(times)
  BY <1>1, FS_Interval
<1>3. IsFiniteSet(old) /\ n <= Len(times) /\ n \in Nat
  BY <1>2, FS_Subset, FS_CardinalityType
<1>4. \A i \in old : 1..i \subseteq old
  BY <1>1 DEF Ascending
<1>5. ASSUME NEW i \in old PROVE i \in 1..n
  <2>1. i \in Int /\ i >= 1 /\ Cardinality(1..i) = i
    BY <1>1, FS_Interval
  <2>2. Cardinality(1..i) <= n
    BY <1>3, <1>4, FS_Subset
  <2> QED
    BY <1>3, <2>1, <2>2
<1>6. IsFiniteSet(1..n) /\ Cardinality(1..n) = n
  BY <1>3, FS_Interval
<1>7. old = 1..n
  <2>1. old \in SUBSET (1..n)
    BY <1>5
  <2> QED
    BY <1>6, <2>1, FS_Subset
<1>8. Limiter!Expired(times, cutoff) = n
  BY SameCardinality DEF Limiter!Expired
<1>9. \A i \in 1..Len(times) : i \in old <=> i \in 1..n
  BY <1>7
<1> HIDE DEF n
<1> QED
  BY <1>1, <1>3, <1>8, <1>9

UpTo(s, time) == \A i \in 1..Len(s) : s[i] <= time

(* times are the last of all; what came before has expired. *)
KeptOf(times, all, time) ==
  /\ Len(times) <= Len(all)
  /\ \A i \in 1..Len(times) : times[i] = all[i + (Len(all) - Len(times))]
  /\ \A i \in 1..(Len(all) - Len(times)) : all[i] <= time - Window

(* Limit requests before a request, the last one was a minute ago. *)
Spaced(all) == \A k \in 1..Len(all) : k > Limit => all[k] - all[k - Limit] >= Window

LEMMA TimesAreNumbers ==
  ASSUME NEW times \in Seq(Limiter!Times)
  PROVE  times \in Seq(Nat)
<1>1. Limiter!Times \subseteq Nat
  BY StoresAssumption DEF Limiter!Times
<1> QED
  BY <1>1, SeqMonotonic

LEMMA CountedIsSuffix ==
  ASSUME NEW times \in Seq(Limiter!Times), Ascending(times), NEW cutoff \in Int,
         NEW new, new = Limiter!Counted(times, cutoff)
  PROVE  /\ new \in Seq(Limiter!Times) /\ Len(new) <= Len(times)
         /\ \A i \in 1..Len(new) : new[i] = times[i + (Len(times) - Len(new))]
         /\ \A i \in 1..(Len(times) - Len(new)) : times[i] <= cutoff
<1> DEFINE n == Limiter!Expired(times, cutoff)
<1>1. Len(times) \in Nat /\ \A i \in 1..Len(times) : times[i] \in Limiter!Times
  OBVIOUS
<1>2. times \in Seq(Nat)
  BY TimesAreNumbers
<1>3. n \in 0..Len(times) /\ \A i \in 1..Len(times) : times[i] > cutoff <=> i > n
  BY <1>2, ExpiredAreFirst
<1>4. new = SubSeq(times, n + 1, Len(times))
  BY DEF Limiter!Counted
<1> HIDE DEF n
<1>5. /\ new \in Seq(Limiter!Times)
      /\ Len(new) = Len(times) - n
      /\ \A i \in 1..(Len(times) - n) : new[i] = times[i + n]
  <2>1. \A i \in (n + 1)..Len(times) : times[i] \in Limiter!Times
    BY <1>1, <1>3
  <2>2. n + 1 \in Int /\ Len(times) \in Int /\ n \in Nat
    BY <1>1, <1>3
  <2> QED
    BY <1>1, <1>3, <1>4, <2>1, <2>2, SubSeqProperties
<1>6. \A i \in 1..n : times[i] <= cutoff
  BY <1>1, <1>2, <1>3
<1> QED
  BY <1>1, <1>3, <1>5, <1>6

LEMMA SuffixIsAscending ==
  ASSUME NEW times \in Seq(Nat), Ascending(times), NEW time \in Nat, UpTo(times, time),
         NEW new \in Seq(Nat), Len(new) <= Len(times),
         \A i \in 1..Len(new) : new[i] = times[i + (Len(times) - Len(new))]
  PROVE  Ascending(new) /\ UpTo(new, time)
<1>1. Len(new) \in Nat /\ Len(times) \in Nat
  OBVIOUS
<1> DEFINE d == Len(times) - Len(new)
<1>2. d \in Nat /\ \A i \in 1..Len(new) : i \in Nat /\ i + d \in 1..Len(times) /\ new[i] = times[i + d]
  BY <1>1
<1> HIDE DEF d
<1>3. UpTo(new, time)
  BY <1>2 DEF UpTo
<1>4. ASSUME NEW i \in 1..Len(new), NEW j \in 1..Len(new), i <= j PROVE new[i] <= new[j]
  <2>1. i + d <= j + d
    BY <1>2, <1>4
  <2>2. times[i + d] <= times[j + d]
    BY <1>2, <2>1 DEF Ascending
  <2> QED
    BY <1>2, <2>2
<1> QED
  BY <1>3, <1>4 DEF Ascending

LEMMA AppendIsAscending ==
  ASSUME NEW times \in Seq(Nat), Ascending(times), NEW time \in Nat, UpTo(times, time)
  PROVE  Ascending(Append(times, time)) /\ UpTo(Append(times, time), time)
<1> DEFINE new == Append(times, time)
<1>1. /\ Len(times) \in Nat /\ Len(new) = Len(times) + 1 /\ new[Len(times) + 1] = time
      /\ \A i \in 1..Len(times) : new[i] = times[i]
  OBVIOUS
<1>2. \A i \in 1..Len(new) : i \in 1..Len(times) \/ i = Len(times) + 1
  BY <1>1
<1> HIDE DEF new
<1>3. UpTo(new, time)
  BY <1>1, <1>2 DEF UpTo
<1>4. Ascending(new)
  BY <1>1, <1>2, <1>3 DEF Ascending, UpTo
<1> QED
  BY <1>3, <1>4 DEF new

(* What is counted, when the expired have gone, is kept of the same. *)
LEMMA CountedIsKept ==
  ASSUME NEW times \in Seq(Limiter!Times), Ascending(times), NEW all \in Seq(Limiter!Times),
         NEW time \in Nat, KeptOf(times, all, time),
         NEW new, new = Limiter!Counted(times, time - Window)
  PROVE  KeptOf(new, all, time)
<1>1. Window \in Nat
  BY StoresAssumption
<1>2. /\ new \in Seq(Limiter!Times) /\ Len(new) <= Len(times)
      /\ \A i \in 1..Len(new) : new[i] = times[i + (Len(times) - Len(new))]
      /\ \A i \in 1..(Len(times) - Len(new)) : times[i] <= time - Window
  BY <1>1, CountedIsSuffix
<1>3. Len(times) \in Nat /\ Len(new) \in Nat /\ Len(all) \in Nat /\ Len(times) <= Len(all)
  BY <1>2 DEF KeptOf
<1>4. ASSUME NEW i \in 1..Len(new) PROVE new[i] = all[i + (Len(all) - Len(new))]
  <2>1. i + (Len(times) - Len(new)) \in 1..Len(times)
    BY <1>2, <1>3
  <2>2. new[i] = all[(i + (Len(times) - Len(new))) + (Len(all) - Len(times))]
    BY <1>2, <2>1 DEF KeptOf
  <2>3. (i + (Len(times) - Len(new))) + (Len(all) - Len(times)) = i + (Len(all) - Len(new))
    BY <1>3
  <2> QED
    BY <2>2, <2>3
<1>5. ASSUME NEW i \in 1..(Len(all) - Len(new)) PROVE all[i] <= time - Window
  <2>1. CASE i <= Len(all) - Len(times)
    BY <1>3, <2>1 DEF KeptOf
  <2>2. CASE i > Len(all) - Len(times)
    <3> DEFINE k == i - (Len(all) - Len(times))
    <3>1. k \in 1..(Len(times) - Len(new)) /\ k \in 1..Len(times) /\ k + (Len(all) - Len(times)) = i
      BY <1>3, <2>2
    <3>2. times[k] = all[i]
      BY <3>1 DEF KeptOf
    <3> QED
      BY <1>2, <3>1, <3>2
  <2> QED
    BY <1>3, <2>1, <2>2
<1> QED
  BY <1>2, <1>3, <1>4, <1>5 DEF KeptOf

(* A request below the limit comes a minute after the one Limit before it. *)
LEMMA AppendIsKept ==
  ASSUME NEW times \in Seq(Limiter!Times), NEW all \in Seq(Limiter!Times),
         NEW time \in Limiter!Times, KeptOf(times, all, time), Spaced(all), Len(times) < Limit
  PROVE  KeptOf(Append(times, time), Append(all, time), time) /\ Spaced(Append(all, time))
<1> DEFINE new == Append(times, time)
           more == Append(all, time)
<1>1. /\ Len(times) \in Nat /\ Len(all) \in Nat /\ Limit \in Nat /\ Limit >= 1 /\ Window \in Nat
      /\ MaxTime \in Nat /\ time \in Nat
      /\ \A i \in 1..Len(all) : all[i] \in Nat
  BY StoresAssumption DEF Limiter!Times
<1>2. /\ Len(new) = Len(times) + 1 /\ new[Len(times) + 1] = time
      /\ \A i \in 1..Len(times) : new[i] = times[i]
  OBVIOUS
<1>3. /\ Len(more) = Len(all) + 1 /\ more[Len(all) + 1] = time
      /\ \A i \in 1..Len(all) : more[i] = all[i]
  OBVIOUS
<1> HIDE DEF new, more
<1>4. Len(times) <= Len(all) /\ Len(more) - Len(new) = Len(all) - Len(times)
  BY <1>1, <1>2, <1>3 DEF KeptOf
<1>5. ASSUME NEW i \in 1..Len(new) PROVE new[i] = more[i + (Len(more) - Len(new))]
  <2>1. CASE i \in 1..Len(times)
    <3>1. i + (Len(all) - Len(times)) \in 1..Len(all)
      BY <1>1, <1>4, <2>1
    <3> QED
      BY <1>2, <1>3, <1>4, <2>1, <3>1 DEF KeptOf
  <2>2. CASE i = Len(times) + 1
    BY <1>1, <1>2, <1>3, <1>4, <2>2
  <2> QED
    BY <1>1, <1>2, <2>1, <2>2
<1>6. KeptOf(new, more, time)
  <2>1. ASSUME NEW i \in 1..(Len(more) - Len(new)) PROVE more[i] <= time - Window
    <3>1. i \in 1..(Len(all) - Len(times)) /\ i \in 1..Len(all)
      BY <1>1, <1>4
    <3>2. all[i] <= time - Window
      BY <3>1 DEF KeptOf
    <3> QED
      BY <1>3, <3>1, <3>2
  <2> QED
    BY <1>1, <1>2, <1>3, <1>4, <1>5, <2>1 DEF KeptOf
<1>7. ASSUME NEW k \in 1..Len(more), k > Limit PROVE more[k] - more[k - Limit] >= Window
  <2>1. CASE k \in 1..Len(all)
    <3>1. k - Limit \in 1..Len(all)
      BY <1>1, <1>7, <2>1
    <3>2. all[k] - all[k - Limit] >= Window
      BY <1>1, <1>7, <2>1 DEF Spaced
    <3> QED
      BY <1>3, <2>1, <3>1, <3>2
  <2>2. CASE k = Len(all) + 1
    <3>1. k - Limit \in 1..(Len(all) - Len(times)) /\ k - Limit \in 1..Len(all)
      BY <1>1, <1>4, <1>7, <2>2
    <3>2. all[k - Limit] <= time - Window
      BY <3>1 DEF KeptOf
    <3>3. more[k - Limit] = all[k - Limit] /\ more[k] = time /\ all[k - Limit] \in Nat
      BY <1>1, <1>3, <2>2, <3>1
    <3> HIDE DEF KeptOf
    <3> QED
      BY <1>1, <3>2, <3>3
  <2> QED
    BY <1>1, <1>3, <2>1, <2>2
<1> QED
  BY <1>6, <1>7 DEF Spaced, new, more

(* As time passes, what has expired stays expired. *)
LEMMA KeptInTime ==
  ASSUME NEW times \in Seq(Limiter!Times), NEW all \in Seq(Limiter!Times), NEW time \in Nat,
         KeptOf(times, all, time)
  PROVE  KeptOf(times, all, time + 1)
<1>1. Window \in Nat /\ Len(all) \in Nat /\ Len(times) \in Nat /\ \A i \in 1..Len(all) : all[i] \in Nat
  BY StoresAssumption DEF Limiter!Times
<1> QED
  BY <1>1 DEF KeptOf

(* Spaced requests are no more than Limit in any minute. *)
LEMMA SpacedIsLimited ==
  ASSUME NEW all \in Seq(Nat), Ascending(all), Spaced(all), NEW t \in Nat
  PROVE  Cardinality({i \in 1..Len(all) : t - Window < all[i] /\ all[i] <= t}) <= Limit
<1> DEFINE in == {i \in 1..Len(all) : t - Window < all[i] /\ all[i] <= t}
           m == Limiter!Expired(all, t)
<1>1. Len(all) \in Nat /\ Limit \in Nat /\ Limit >= 1 /\ Window \in Nat /\ \A i \in 1..Len(all) : all[i] \in Nat
  BY StoresAssumption
<1>2. m \in 0..Len(all) /\ \A i \in 1..Len(all) : all[i] > t <=> i > m
  BY ExpiredAreFirst
<1> HIDE DEF m
<1>3. ASSUME NEW i \in in PROVE i \in (m - Limit + 1)..m
  <2>1. i \in 1..Len(all) /\ i <= m /\ t - Window < all[i]
    BY <1>1, <1>2
  <2>2. ASSUME i <= m - Limit PROVE FALSE
    <3>1. m \in 1..Len(all) /\ m > Limit /\ m - Limit \in 1..Len(all) /\ i <= m - Limit
      BY <1>1, <1>2, <2>1, <2>2
    <3>2. all[m] - all[m - Limit] >= Window
      BY <3>1 DEF Spaced
    <3>3. all[i] <= all[m - Limit]
      BY <2>1, <3>1 DEF Ascending
    <3>4. all[m] <= t
      BY <1>1, <1>2, <3>1
    <3>5. all[m] \in Nat /\ all[m - Limit] \in Nat /\ all[i] \in Nat
      BY <1>1, <2>1, <3>1
    <3> QED
      BY <1>1, <2>1, <3>2, <3>3, <3>4, <3>5
  <2> QED
    BY <1>1, <1>2, <2>1, <2>2
<1>4. IsFiniteSet((m - Limit + 1)..m) /\ Cardinality((m - Limit + 1)..m) = Limit
  <2>1. m - Limit + 1 \in Int /\ m \in Int /\ ~(m - Limit + 1 > m) /\ m - (m - Limit + 1) + 1 = Limit
    BY <1>1, <1>2
  <2> QED
    BY <2>1, FS_Interval
<1>5. in \in SUBSET ((m - Limit + 1)..m)
  BY <1>3
<1>6. Cardinality(in) <= Limit
  <2> HIDE DEF in
  <2> QED
    BY <1>1, <1>4, <1>5, FS_Subset
<1> QED
  BY <1>6

-----------------------------------------------------------------------------
(* ApiLimiter. *)

Entry(c) == IF c \in DOMAIN requests THEN requests[c] ELSE <<>>

(* The window of a client is in order; until the clean-up forgets it, it is
   what of the client's requests has not expired.                          *)
ClientOK(c) ==
  /\ Ascending(Entry(c)) /\ UpTo(Entry(c), now)
  /\ Ascending(served[c]) /\ UpTo(served[c], now)
  /\ c \notin evicted => KeptOf(Entry(c), served[c], now) /\ Spaced(served[c])

WindowsOK ==
  /\ Limiter!LimiterTypeOK
  /\ IsFiniteSet(DOMAIN requests)
  /\ \A c \in Clients : ClientOK(c)

WindowsInv == WindowsOK /\ last_cleanup <= now /\ Limiter!IdleEntriesAreBounded

LEMMA NoTimes ==
  ASSUME NEW time \in Nat
  PROVE  /\ <<>> \in Seq(Limiter!Times) /\ <<>> \in Seq(Nat) /\ Len(<<>>) = 0
         /\ Ascending(<<>>) /\ UpTo(<<>>, time) /\ Spaced(<<>>)
         /\ KeptOf(<<>>, <<>>, time)
BY DEF Ascending, UpTo, Spaced, KeptOf

LEMMA TimeIsNumber == ASSUME NEW t \in Limiter!Times PROVE t \in Nat
BY StoresAssumption DEF Limiter!Times

LEMMA WindowsInit == ASSUME Limiter!Init PROVE WindowsInv
<1>1. DOMAIN requests = {} /\ now = 0 /\ last_cleanup = 0 /\ evicted = {}
      /\ served = [c \in Clients |-> <<>>]
  BY DEF Limiter!Init
<1>2. \A c \in Clients : Entry(c) = <<>> /\ served[c] = <<>>
  BY <1>1 DEF Entry
<1>3. 0 \in Nat /\ 0 \in Limiter!Times
  BY StoresAssumption DEF Limiter!Times
<1>4. ASSUME NEW c \in Clients PROVE ClientOK(c)
  BY <1>1, <1>2, <1>3, NoTimes DEF ClientOK
<1>5. Limiter!LimiterTypeOK
  BY <1>1, <1>3, NoTimes DEF Limiter!LimiterTypeOK
<1>6. IsFiniteSet(DOMAIN requests)
  BY <1>1, FS_EmptySet
<1>7. Limiter!IdleEntriesAreBounded
  <2>1. {c \in DOMAIN requests : Limiter!Last(requests[c]) < last_cleanup} = {}
    BY <1>1
  <2>2. Limiter!Cardinality({}) = 0
    BY SameCardinality, FS_EmptySet
  <2>3. 0 <= MaxIps
    BY StoresAssumption
  <2> QED
    BY <2>1, <2>2, <2>3 DEF Limiter!IdleEntriesAreBounded
<1> QED
  BY <1>1, <1>4, <1>5, <1>6, <1>7 DEF WindowsInv, WindowsOK

(* What serving does to the window of each client, given the entries that a
   clean-up has kept.                                                       *)
LEMMA ServeStep ==
  ASSUME WindowsOK, NEW c \in Clients, NEW kept \in SUBSET (DOMAIN requests), Limiter!Serve(c, kept),
         now' = now, last_cleanup' \in Limiter!Times, evicted \subseteq evicted', evicted' \subseteq Clients,
         \A d \in Clients \ evicted' : d \in (DOMAIN requests) \ kept => UpTo(served[d], now - Window)
  PROVE  /\ WindowsOK'
         /\ DOMAIN requests' \subseteq kept \cup {c}
         /\ \A d \in kept \ {c} : requests'[d] = requests[d]
         /\ c \in DOMAIN requests' /\ Len(requests'[c]) > 0
         /\ requests'[c][Len(requests'[c])] = now
              \/ (c \in kept /\ requests'[c][Len(requests'[c])] = requests[c][Len(requests[c])])
<1> DEFINE old(d) == IF d \in kept THEN requests[d] ELSE <<>>
           times == IF c \in kept THEN Limiter!Counted(requests[c], now - Window) ELSE <<>>
<1>1. /\ now \in Limiter!Times /\ now \in Nat /\ Window \in Nat /\ Limit \in Nat /\ Limit >= 1
      /\ DOMAIN requests \subseteq Clients /\ kept \subseteq DOMAIN requests
      /\ served \in [Clients -> Seq(Limiter!Times)]
  BY TimeIsNumber, StoresAssumption DEF WindowsOK, Limiter!LimiterTypeOK
<1>2. ASSUME NEW d \in Clients
      PROVE  /\ old(d) \in Seq(Limiter!Times) /\ old(d) \in Seq(Nat)
             /\ d \in kept => Len(old(d)) \in 1..Limit
             /\ Ascending(old(d)) /\ UpTo(old(d), now)
             /\ served[d] \in Seq(Limiter!Times) /\ served[d] \in Seq(Nat)
             /\ Ascending(served[d]) /\ UpTo(served[d], now)
             /\ d \notin evicted' => KeptOf(old(d), served[d], now) /\ Spaced(served[d])
  <2>1. ClientOK(d) /\ served[d] \in Seq(Limiter!Times) /\ served[d] \in Seq(Nat)
    BY <1>1, TimesAreNumbers DEF WindowsOK
  <2>2. CASE d \in kept
    <3>1. Entry(d) = requests[d] /\ old(d) = requests[d]
      BY <1>1, <2>2 DEF Entry
    <3>2. requests[d] \in Seq(Limiter!Times) /\ Len(requests[d]) \in 1..Limit
      BY <1>1, <2>2 DEF WindowsOK, Limiter!LimiterTypeOK
    <3>3. requests[d] \in Seq(Nat)
      BY <3>2, TimesAreNumbers
    <3> QED
      BY <2>1, <3>1, <3>2, <3>3 DEF ClientOK
  <2>3. CASE d \notin kept
    <3>1. old(d) = <<>>
      BY <2>3
    <3>2. d \notin evicted' => KeptOf(<<>>, served[d], now)
      <4>1. CASE d \in DOMAIN requests
        <5> SUFFICES ASSUME d \notin evicted' PROVE KeptOf(<<>>, served[d], now)
          OBVIOUS
        <5>1. UpTo(served[d], now - Window)
          BY <2>3, <4>1
        <5>2. Len(served[d]) \in Nat
          BY <2>1
        <5> QED
          BY <1>1, <5>1, <5>2 DEF UpTo, KeptOf
      <4>2. CASE d \notin DOMAIN requests
        <5>1. Entry(d) = <<>>
          BY <4>2 DEF Entry
        <5> QED
          BY <2>1, <5>1 DEF ClientOK
      <4> QED
        BY <4>1, <4>2
    <3> QED
      BY <1>1, <2>1, <2>3, <3>1, <3>2, NoTimes DEF ClientOK
  <2> QED
    BY <2>2, <2>3
<1>3. /\ times \in Seq(Limiter!Times) /\ times \in Seq(Nat)
      /\ Len(times) <= Len(old(c))
      /\ \A i \in 1..Len(times) : times[i] = old(c)[i + (Len(old(c)) - Len(times))]
      /\ Ascending(times) /\ UpTo(times, now)
      /\ c \notin evicted' => KeptOf(times, served[c], now)
  <2>1. CASE c \in kept
    <3>1. old(c) = requests[c] /\ times = Limiter!Counted(old(c), now - Window) /\ now - Window \in Int
      BY <1>1, <2>1
    <3>2. /\ times \in Seq(Limiter!Times) /\ Len(times) <= Len(old(c))
          /\ \A i \in 1..Len(times) : times[i] = old(c)[i + (Len(old(c)) - Len(times))]
      BY <1>2, <3>1, CountedIsSuffix
    <3>3. times \in Seq(Nat)
      BY <3>2, TimesAreNumbers
    <3>4. Ascending(times) /\ UpTo(times, now)
      BY <1>1, <1>2, <3>2, <3>3, SuffixIsAscending
    <3>5. c \notin evicted' => KeptOf(times, served[c], now)
      BY <1>1, <1>2, <3>1, CountedIsKept
    <3> QED
      BY <3>2, <3>3, <3>4, <3>5
  <2>2. CASE c \notin kept
    <3>1. times = <<>> /\ old(c) = <<>>
      BY <2>2
    <3> QED
      BY <1>1, <1>2, <3>1, NoTimes
  <2> QED
    BY <2>1, <2>2
<1>4. c \in kept => old(c) = requests[c]
  OBVIOUS
<1>5. IF Len(times) >= Limit
      THEN /\ requests' = [d \in kept |-> IF d = c THEN times ELSE requests[d]]
           /\ served' = served
      ELSE /\ requests' = [d \in kept \cup {c} |-> IF d = c THEN Append(times, now) ELSE requests[d]]
           /\ served' = [served EXCEPT ![c] = Append(@, now)]
  BY DEF Limiter!Serve
<1>6. c \notin kept => times = <<>>
  OBVIOUS
<1>7. \A d \in kept : d # c => old(d) = requests[d]
  OBVIOUS
<1>8. \A d \in Clients \ kept : old(d) = <<>>
  OBVIOUS
<1>9. Len(times) \in Nat /\ Len(old(c)) \in Nat /\ (c \in kept => Len(old(c)) <= Limit)
  BY <1>2, <1>3
<1> HIDE DEF old, times
<1>10. IsFiniteSet(kept \cup {c})
  <2>1. IsFiniteSet(kept)
    BY FS_Subset DEF WindowsOK
  <2> QED
    BY <2>1, FS_AddElement
<1>11. CASE Len(times) >= Limit
  <2>1. c \in kept /\ Len(times) = Limit /\ Len(old(c)) = Limit
    BY <1>1, <1>3, <1>6, <1>9, <1>11, NoTimes
  <2>2. requests' = [d \in kept |-> IF d = c THEN times ELSE requests[d]] /\ served' = served
    BY <1>5, <1>11
  <2>3. /\ DOMAIN requests' = kept /\ requests'[c] = times
        /\ \A d \in kept \ {c} : requests'[d] = requests[d]
    BY <2>1, <2>2
  <2>4. ASSUME NEW d \in Clients PROVE Entry(d)' = IF d = c THEN times ELSE old(d)
    BY <1>7, <1>8, <2>1, <2>3 DEF Entry
  <2>5. \A d \in Clients : ClientOK(d)'
    BY <1>2, <1>3, <2>2, <2>4 DEF ClientOK
  <2>6. Limiter!LimiterTypeOK'
    BY <1>1, <1>2, <1>3, <1>7, <1>9, <2>1, <2>2, <2>3 DEF Limiter!LimiterTypeOK
  <2>7. IsFiniteSet(DOMAIN requests')
    BY <1>10, <2>3, FS_Subset
  <2>8. times[Len(times)] = requests[c][Len(requests[c])]
    BY <1>1, <1>3, <1>4, <2>1
  <2> QED
    BY <1>1, <2>1, <2>3, <2>5, <2>6, <2>7, <2>8 DEF WindowsOK
<1>12. CASE ~(Len(times) >= Limit)
  <2> DEFINE new == Append(times, now)
             more == Append(served[c], now)
  <2>1. /\ requests' = [d \in kept \cup {c} |-> IF d = c THEN new ELSE requests[d]]
        /\ served' = [served EXCEPT ![c] = more]
    BY <1>5, <1>12
  <2>2. /\ new \in Seq(Limiter!Times) /\ Len(new) = Len(times) + 1 /\ new[Len(new)] = now
        /\ more \in Seq(Limiter!Times)
    BY <1>1, <1>2, <1>3
  <2>3. Ascending(new) /\ UpTo(new, now) /\ Ascending(more) /\ UpTo(more, now)
    BY <1>1, <1>2, <1>3, AppendIsAscending
  <2>4. c \notin evicted' => KeptOf(new, more, now) /\ Spaced(more)
    <3>1. Len(times) < Limit
      BY <1>1, <1>9, <1>12
    <3> QED
      BY <1>1, <1>2, <1>3, <3>1, AppendIsKept
  <2> HIDE DEF new, more
  <2>5. /\ DOMAIN requests' = kept \cup {c} /\ requests'[c] = new
        /\ \A d \in kept \ {c} : requests'[d] = requests[d]
    BY <2>1
  <2>6. \A d \in Clients : served'[d] = IF d = c THEN more ELSE served[d]
    BY <1>1, <2>1
  <2>7. ASSUME NEW d \in Clients PROVE Entry(d)' = IF d = c THEN new ELSE old(d)
    BY <1>7, <1>8, <2>5 DEF Entry
  <2>8. ASSUME NEW d \in Clients PROVE ClientOK(d)'
    <3>1. CASE d = c
      BY <2>3, <2>4, <2>6, <2>7, <3>1 DEF ClientOK
    <3>2. CASE d # c
      BY <1>2, <2>6, <2>7, <3>2 DEF ClientOK
    <3> QED
      BY <3>1, <3>2
  <2>9. Len(new) \in 1..Limit
    BY <1>1, <1>9, <1>12, <2>2
  <2>10. Limiter!LimiterTypeOK'
    BY <1>1, <1>2, <1>7, <2>1, <2>2, <2>5, <2>9 DEF Limiter!LimiterTypeOK
  <2>11. IsFiniteSet(DOMAIN requests')
    BY <1>10, <2>5
  <2>12. WindowsOK'
    BY <2>8, <2>10, <2>11 DEF WindowsOK
  <2>13. Len(new) > 0
    BY <1>9, <2>2
  <2>14. requests'[c][Len(requests'[c])] = now
    BY <2>2, <2>5
  <2> QED
    BY <2>5, <2>12, <2>13, <2>14
<1> QED
  BY <1>11, <1>12

LEMMA DispatchStep ==
  ASSUME WindowsInv, NEW c \in Clients, Limiter!Dispatch(c) PROVE WindowsInv'
<1> DEFINE kept == DOMAIN requests
<1>1. Limiter!Serve(c, kept) /\ now' = now /\ last_cleanup' = last_cleanup /\ evicted' = evicted
  BY DEF Limiter!Dispatch
<1>2. last_cleanup \in Limiter!Times /\ evicted \subseteq Clients /\ WindowsOK
  BY DEF WindowsInv, WindowsOK, Limiter!LimiterTypeOK
<1>3. last_cleanup \in Nat /\ now \in Nat /\ last_cleanup <= now
  BY <1>2, TimeIsNumber DEF WindowsInv, WindowsOK, Limiter!LimiterTypeOK
<1>4. kept \in SUBSET (DOMAIN requests) /\ (DOMAIN requests) \ kept = {}
  OBVIOUS
<1>5. /\ WindowsOK'
      /\ DOMAIN requests' \subseteq kept \cup {c}
      /\ \A d \in kept \ {c} : requests'[d] = requests[d]
      /\ requests'[c][Len(requests'[c])] = now
           \/ (c \in kept /\ requests'[c][Len(requests'[c])] = requests[c][Len(requests[c])])
  <2> HIDE DEF kept
  <2> QED
    BY <1>1, <1>2, <1>4, ServeStep
<1> DEFINE idle == {d \in DOMAIN requests : Limiter!Last(requests[d]) < last_cleanup}
           idleThen == {d \in DOMAIN requests' : Limiter!Last(requests'[d]) < last_cleanup}
<1>6. idleThen \in SUBSET idle
  <2> SUFFICES ASSUME NEW d \in idleThen PROVE d \in idle
    OBVIOUS
  <2>1. d \in DOMAIN requests' /\ requests'[d][Len(requests'[d])] < last_cleanup
    BY DEF Limiter!Last
  <2>2. CASE d = c
    <3>1. ~(now < last_cleanup)
      BY <1>3
    <3> QED
      BY <1>5, <2>1, <2>2, <3>1 DEF Limiter!Last
  <2>3. CASE d # c
    BY <1>5, <2>1, <2>3 DEF Limiter!Last
  <2> QED
    BY <2>2, <2>3
<1>7. IsFiniteSet(idle) /\ Cardinality(idle) <= MaxIps
  BY FS_Subset, SameCardinality DEF WindowsInv, WindowsOK, Limiter!IdleEntriesAreBounded
<1>8. Cardinality(idleThen) <= MaxIps
  <2>1. Cardinality(idleThen) <= Cardinality(idle) /\ IsFiniteSet(idleThen)
    BY <1>6, <1>7, FS_Subset
  <2>2. Cardinality(idleThen) \in Nat /\ Cardinality(idle) \in Nat /\ MaxIps \in Nat
    BY <1>7, <2>1, FS_CardinalityType, StoresAssumption
  <2> QED
    BY <1>7, <2>1, <2>2
<1>9. Limiter!IdleEntriesAreBounded'
  BY <1>1, <1>8, SameCardinality DEF Limiter!IdleEntriesAreBounded, Limiter!Last
<1> QED
  BY <1>1, <1>3, <1>5, <1>9 DEF WindowsInv

LEMMA CleanUpStep ==
  ASSUME WindowsInv, NEW c \in Clients, Limiter!DispatchAndCleanUp(c) PROVE WindowsInv'
<1> DEFINE live == Limiter!Live(now - Window)
<1>1. PICK kept \in Limiter!Survivors(now - Window) :
        /\ Limiter!Serve(c, kept)
        /\ evicted' = evicted \cup (live \ kept)
  BY DEF Limiter!DispatchAndCleanUp
<1>2. now' = now /\ last_cleanup' = now
  BY DEF Limiter!DispatchAndCleanUp
<1>3. /\ WindowsOK /\ now \in Limiter!Times /\ now \in Nat /\ Window \in Nat
      /\ evicted \subseteq Clients /\ DOMAIN requests \subseteq Clients /\ IsFiniteSet(DOMAIN requests)
  BY TimeIsNumber, StoresAssumption DEF WindowsInv, WindowsOK, Limiter!LimiterTypeOK
<1>4. live = {d \in DOMAIN requests : requests[d][Len(requests[d])] >= now - Window}
  BY DEF Limiter!Live, Limiter!Last
<1>5. IsFiniteSet(live) /\ Cardinality(live) \in Nat
  BY <1>3, <1>4, FS_Subset, FS_CardinalityType
<1>6. kept \subseteq live /\ Cardinality(kept) <= MaxIps
  BY <1>5, SameCardinality, StoresAssumption DEF Limiter!Survivors
<1>7. ASSUME NEW d \in Clients \ evicted', d \in (DOMAIN requests) \ kept
      PROVE  UpTo(served[d], now - Window)
  <2>1. d \notin live /\ d \notin evicted
    BY <1>1, <1>7
  <2>2. requests[d] \in Seq(Nat) /\ Len(requests[d]) >= 1 /\ Len(requests[d]) \in Nat
    BY <1>3, <1>7, TimesAreNumbers DEF WindowsOK, Limiter!LimiterTypeOK
  <2>3. requests[d][Len(requests[d])] < now - Window
    BY <1>3, <1>4, <1>7, <2>1, <2>2
  <2>4. Entry(d) = requests[d]
    BY <1>7 DEF Entry
  <2>5. ClientOK(d)
    BY <1>3 DEF WindowsOK
  <2>6. Ascending(requests[d]) /\ KeptOf(requests[d], served[d], now)
    BY <2>1, <2>4, <2>5 DEF ClientOK
  <2>7. \A i \in 1..Len(requests[d]) : requests[d][i] <= now - Window
    <3> SUFFICES ASSUME NEW i \in 1..Len(requests[d]) PROVE requests[d][i] <= now - Window
      OBVIOUS
    <3>1. requests[d][i] <= requests[d][Len(requests[d])]
      BY <2>2, <2>6 DEF Ascending
    <3>2. requests[d][i] \in Nat /\ requests[d][Len(requests[d])] \in Nat
      BY <2>2
    <3> QED
      BY <1>3, <2>3, <3>1, <3>2
  <2>8. served[d] \in Seq(Limiter!Times) /\ Len(served[d]) \in Nat
    BY <1>7 DEF WindowsInv, WindowsOK, Limiter!LimiterTypeOK
  <2>9. ASSUME NEW i \in 1..Len(served[d]) PROVE served[d][i] <= now - Window
    <3> DEFINE gap == Len(served[d]) - Len(requests[d])
    <3>0. gap \in Int /\ i \in Int /\ i >= 1 /\ i <= gap + Len(requests[d])
      BY <2>2, <2>8
    <3>1. CASE i <= gap
      BY <2>2, <2>6, <2>8, <3>1 DEF KeptOf
    <3>2. CASE i > gap
      <4>1. i - gap \in 1..Len(requests[d]) /\ (i - gap) + gap = i
        <5> HIDE DEF gap
        <5> QED
          BY <2>2, <3>0, <3>2
      <4>2. requests[d][i - gap] = served[d][i]
        BY <2>6, <4>1 DEF KeptOf
      <4> QED
        BY <2>7, <4>1, <4>2
    <3> HIDE DEF gap
    <3> QED
      BY <3>0, <3>1, <3>2
  <2> QED
    BY <2>9 DEF UpTo
<1>8. kept \in SUBSET (DOMAIN requests) /\ evicted \subseteq evicted' /\ evicted' \subseteq Clients
  BY <1>1, <1>3, <1>4, <1>6
<1>9. /\ WindowsOK'
      /\ DOMAIN requests' \subseteq kept \cup {c}
      /\ requests'[c][Len(requests'[c])] = now \/ c \in kept
  <2> HIDE DEF live
  <2> QED
    BY <1>1, <1>2, <1>3, <1>7, <1>8, ServeStep
<1> DEFINE idle == {d \in DOMAIN requests' : Limiter!Last(requests'[d]) < now}
<1>10. idle \in SUBSET kept
  <2> SUFFICES ASSUME NEW d \in idle PROVE d \in kept
    OBVIOUS
  <2>1. d \in kept \cup {c} /\ requests'[d][Len(requests'[d])] < now
    BY <1>9 DEF Limiter!Last
  <2>2. ~(now < now)
    BY <1>3
  <2> QED
    BY <1>9, <2>1, <2>2
<1>11. Cardinality(idle) <= MaxIps
  <2>1. IsFiniteSet(kept) /\ Cardinality(kept) \in Nat
    BY <1>5, <1>6, FS_Subset, FS_CardinalityType
  <2>2. Cardinality(idle) <= Cardinality(kept) /\ IsFiniteSet(idle)
    BY <1>10, <2>1, FS_Subset
  <2>3. Cardinality(idle) \in Nat /\ MaxIps \in Nat
    BY <2>2, FS_CardinalityType, StoresAssumption
  <2> QED
    BY <1>6, <2>1, <2>2, <2>3
<1>12. Limiter!IdleEntriesAreBounded'
  BY <1>2, <1>11, SameCardinality DEF Limiter!IdleEntriesAreBounded, Limiter!Last
<1> QED
  BY <1>2, <1>3, <1>9, <1>12 DEF WindowsInv

LEMMA WindowTickStep == ASSUME WindowsInv, Limiter!Tick PROVE WindowsInv'
<1>1. /\ now' = now + 1 /\ now < MaxTime /\ requests' = requests /\ last_cleanup' = last_cleanup
      /\ served' = served /\ evicted' = evicted
  BY DEF Limiter!Tick
<1>2. /\ now \in Nat /\ now \in Limiter!Times /\ last_cleanup \in Nat /\ last_cleanup <= now
      /\ WindowsOK /\ Window \in Nat
  BY TimeIsNumber, StoresAssumption DEF WindowsInv, WindowsOK, Limiter!LimiterTypeOK
<1>3. now' \in Limiter!Times /\ last_cleanup' <= now'
  BY <1>1, <1>2, StoresAssumption DEF Limiter!Times
<1>4. Limiter!LimiterTypeOK'
  BY <1>1, <1>2, <1>3 DEF WindowsOK, Limiter!LimiterTypeOK
<1>5. ASSUME NEW c \in Clients PROVE ClientOK(c)'
  <2>1. ClientOK(c) /\ Entry(c)' = Entry(c)
    BY <1>1, <1>2 DEF WindowsOK, Entry
  <2>2. Entry(c) \in Seq(Limiter!Times) /\ served[c] \in Seq(Limiter!Times)
    BY <1>2, NoTimes DEF Entry, WindowsOK, Limiter!LimiterTypeOK
  <2>3. Entry(c) \in Seq(Nat) /\ served[c] \in Seq(Nat)
    BY <2>2, TimesAreNumbers
  <2>4. UpTo(Entry(c), now + 1) /\ UpTo(served[c], now + 1)
    <3>1. /\ \A i \in 1..Len(Entry(c)) : Entry(c)[i] \in Nat
          /\ \A i \in 1..Len(served[c]) : served[c][i] \in Nat
      BY <2>3
    <3> QED
      BY <1>2, <2>1, <3>1 DEF UpTo, ClientOK
  <2>5. c \notin evicted => KeptOf(Entry(c), served[c], now + 1)
    BY <1>2, <2>1, <2>2, KeptInTime DEF ClientOK
  <2> QED
    BY <1>1, <2>1, <2>4, <2>5 DEF ClientOK
<1>6. Limiter!IdleEntriesAreBounded'
  BY <1>1 DEF WindowsInv, Limiter!IdleEntriesAreBounded
<1> QED
  BY <1>1, <1>2, <1>3, <1>4, <1>5, <1>6 DEF WindowsInv, WindowsOK

LEMMA WindowsStep == ASSUME WindowsInv, Limiter!Next PROVE WindowsInv'
BY DispatchStep, CleanUpStep, WindowTickStep DEF Limiter!Next

LEMMA WindowsStutter == ASSUME WindowsInv, UNCHANGED windows PROVE WindowsInv'
<1>1. /\ now' = now /\ requests' = requests /\ last_cleanup' = last_cleanup
      /\ served' = served /\ evicted' = evicted
  BY DEF windows
<1>2. \A c \in Clients : Entry(c)' = Entry(c)
  BY <1>1 DEF Entry
<1> QED
  BY <1>1, <1>2
  DEF WindowsInv, WindowsOK, ClientOK, Limiter!LimiterTypeOK, Limiter!IdleEntriesAreBounded

LEMMA WindowsAreLimited == ASSUME WindowsInv PROVE LimitHolds
<1> SUFFICES ASSUME NEW c \in Clients \ evicted, NEW t \in Limiter!Times
             PROVE  Limiter!Within(c, t) <= Limit
  BY DEF LimitHolds, Limiter!LimitHolds
<1>1. served[c] \in Seq(Nat) /\ t \in Nat
  BY TimesAreNumbers, TimeIsNumber DEF WindowsInv, WindowsOK, Limiter!LimiterTypeOK
<1>2. Ascending(served[c]) /\ Spaced(served[c])
  BY DEF WindowsInv, WindowsOK, ClientOK
<1> QED
  BY <1>1, <1>2, SpacedIsLimited, SameCardinality DEF Limiter!Within

-----------------------------------------------------------------------------
(* CrawlBudget. *)

(* Every candidate's key is visited, and what is counted is finite. *)
CrawlInv ==
  /\ Budget!BudgetTypeOK
  /\ Budget!PagesAreCrawledOnce
  /\ IsFiniteSet(accepted) /\ IsFiniteSet(frontier)
  /\ \A c \in frontier \cup given : PageKey[c.url] \in accepted

LEMMA CrawlInit == ASSUME Budget!Init PROVE CrawlInv
<1>1. accepted = {} /\ frontier = {} /\ crawled = 0 /\ given = {}
  BY DEF Budget!Init
<1>2. Budget!PagesAreCrawledOnce
  BY <1>1, FS_EmptySet, SameCardinality DEF Budget!PagesAreCrawledOnce
<1>3. Budget!BudgetTypeOK
  BY <1>1 DEF Budget!BudgetTypeOK
<1> QED
  BY <1>1, <1>2, <1>3, FS_EmptySet DEF CrawlInv

LEMMA AddUrlStep ==
  ASSUME CrawlInv, NEW c \in Budget!Candidate, Budget!AddUrl(c) PROVE CrawlInv'
<1> DEFINE key == PageKey[c.url]
<1>1. key \notin accepted /\ c.depth <= MaxLinkDepth
  BY DEF Budget!AddUrl, Budget!Accepts
<1>2. /\ frontier' = frontier \cup {c} /\ accepted' = accepted \cup {key}
      /\ crawled' = crawled /\ given' = given
  BY DEF Budget!AddUrl
<1>3. c \notin frontier
  BY <1>1 DEF CrawlInv
<1>4. key \in Budget!Keys
  BY DEF Budget!Keys, Budget!Candidate
<1>5. Budget!BudgetTypeOK'
  BY <1>1, <1>2, <1>4 DEF CrawlInv, Budget!BudgetTypeOK
<1>6. /\ IsFiniteSet(accepted') /\ IsFiniteSet(frontier')
      /\ Cardinality(accepted') = Cardinality(accepted) + 1
      /\ Cardinality(frontier') = Cardinality(frontier) + 1
  BY <1>1, <1>2, <1>3, FS_AddElement DEF CrawlInv
<1>7. Cardinality(accepted) \in Nat /\ Cardinality(frontier) \in Nat /\ crawled \in Nat
  BY FS_CardinalityType DEF CrawlInv, Budget!BudgetTypeOK
<1>8. crawled' + Cardinality(frontier') = Cardinality(accepted')
  <2>1. crawled + Cardinality(frontier) = Cardinality(accepted)
    BY SameCardinality DEF CrawlInv, Budget!PagesAreCrawledOnce
  <2> QED
    BY <1>2, <1>6, <1>7, <2>1
<1>9. \A d \in frontier' \cup given' : d = c \/ d \in frontier \cup given
  BY <1>2
<1>10. \A d \in frontier \cup given : PageKey[d.url] \in accepted /\ PageKey[d.url] # key
  BY <1>1 DEF CrawlInv
<1>11. \A d, e \in frontier' \cup given' : PageKey[d.url] = PageKey[e.url] => d = e
  BY <1>9, <1>10 DEF CrawlInv, Budget!PagesAreCrawledOnce
<1>12. \A d \in frontier' \cup given' : PageKey[d.url] \in accepted'
  BY <1>2, <1>9, <1>10
<1>13. Budget!PagesAreCrawledOnce'
  BY <1>8, <1>11, SameCardinality DEF Budget!PagesAreCrawledOnce
<1> QED
  BY <1>5, <1>6, <1>12, <1>13 DEF CrawlInv

LEMMA NextUrlStep == ASSUME CrawlInv, Budget!NextUrl PROVE CrawlInv'
<1>1. PICK c \in frontier :
        /\ frontier' = frontier \ {c} /\ given' = given \cup {c}
        /\ crawled' = crawled + 1 /\ accepted' = accepted
  BY DEF Budget!NextUrl
<1>2. frontier' \cup given' = frontier \cup given
  BY <1>1
<1>3. IsFiniteSet(frontier') /\ Cardinality(frontier') = Cardinality(frontier) - 1
  BY <1>1, FS_RemoveElement DEF CrawlInv
<1>4. Cardinality(accepted) \in Nat /\ Cardinality(frontier) \in Nat /\ crawled \in Nat
  BY FS_CardinalityType DEF CrawlInv, Budget!BudgetTypeOK
<1>5. crawled' + Cardinality(frontier') = Cardinality(accepted')
  <2>1. crawled + Cardinality(frontier) = Cardinality(accepted)
    BY SameCardinality DEF CrawlInv, Budget!PagesAreCrawledOnce
  <2> QED
    BY <1>1, <1>3, <1>4, <2>1
<1>6. Budget!BudgetTypeOK'
  BY <1>1, <1>2, <1>4 DEF CrawlInv, Budget!BudgetTypeOK
<1>7. Budget!PagesAreCrawledOnce'
  BY <1>2, <1>5, SameCardinality DEF CrawlInv, Budget!PagesAreCrawledOnce
<1> QED
  BY <1>1, <1>2, <1>3, <1>6, <1>7 DEF CrawlInv

LEMMA CrawlStep == ASSUME CrawlInv, Budget!Next PROVE CrawlInv'
<1>1. ASSUME Budget!Reset PROVE CrawlInv'
  <2>1. accepted' = {} /\ frontier' = {} /\ crawled' = 0 /\ given' = {}
    BY <1>1 DEF Budget!Reset
  <2>2. Budget!PagesAreCrawledOnce'
    BY <2>1, FS_EmptySet, SameCardinality DEF Budget!PagesAreCrawledOnce
  <2>3. Budget!BudgetTypeOK'
    BY <2>1 DEF Budget!BudgetTypeOK
  <2> QED
    BY <2>1, <2>2, <2>3, FS_EmptySet DEF CrawlInv
<1> QED
  BY <1>1, AddUrlStep, NextUrlStep DEF Budget!Next

LEMMA CrawlStutter == ASSUME CrawlInv, UNCHANGED crawl PROVE CrawlInv'
BY DEF CrawlInv, crawl, Budget!BudgetTypeOK, Budget!PagesAreCrawledOnce

-----------------------------------------------------------------------------
(* Metrics. *)

CountersInv == Gauging!MetricsTypeOK /\ Gauging!CountersAreExactUntilFull

(* Where s has x. *)
At(s, x) == {i \in 1..Len(s) : s[i] = x}

LEMMA AtIsFinite ==
  ASSUME NEW S, NEW s \in Seq(S), NEW x
  PROVE  IsFiniteSet(At(s, x)) /\ Cardinality(At(s, x)) \in Nat /\ Cardinality(At(s, x)) <= Len(s)
<1>1. Len(s) \in Nat /\ IsFiniteSet(1..Len(s)) /\ Cardinality(1..Len(s)) = Len(s)
  <2>1. Len(s) \in Nat
    OBVIOUS
  <2> QED
    BY <2>1, FS_Interval
<1>2. At(s, x) \in SUBSET (1..Len(s))
  BY DEF At
<1>3. IsFiniteSet(At(s, x)) /\ Cardinality(At(s, x)) <= Len(s)
  BY <1>1, <1>2, FS_Subset
<1> QED
  BY <1>3, FS_CardinalityType

(* Another entry is counted, for its own label only. *)
LEMMA AtAppended ==
  ASSUME NEW S, NEW s \in Seq(S), NEW y \in S, NEW x
  PROVE  Cardinality(At(Append(s, y), x)) = Cardinality(At(s, x)) + IF x = y THEN 1 ELSE 0
<1> DEFINE t == Append(s, y)
<1>1. /\ Len(s) \in Nat /\ Len(t) = Len(s) + 1 /\ t[Len(s) + 1] = y
      /\ \A i \in 1..Len(s) : t[i] = s[i]
  OBVIOUS
<1>2. 1..Len(t) = (1..Len(s)) \cup {Len(s) + 1} /\ Len(s) + 1 \notin 1..Len(s)
  BY <1>1
<1> HIDE DEF t
<1>3. CASE x = y
  <2>1. At(t, x) = At(s, x) \cup {Len(s) + 1} /\ Len(s) + 1 \notin At(s, x)
    BY <1>1, <1>2, <1>3 DEF At
  <2> QED
    BY <1>3, <2>1, AtIsFinite, FS_AddElement DEF t
<1>4. CASE x # y
  <2>1. At(t, x) = At(s, x)
    BY <1>1, <1>2, <1>4 DEF At
  <2> QED
    BY <1>4, <2>1, AtIsFinite DEF t
<1> QED
  BY <1>3, <1>4

LEMMA CappedIsTyped ==
  ASSUME NEW S, NEW s \in Seq(S)
  PROVE  /\ Gauging!Capped(s) \in Seq(S)
         /\ Len(Gauging!Capped(s)) = IF Len(s) > MaxSamples THEN MaxSamples ELSE Len(s)
         /\ Len(s) <= MaxSamples => Gauging!Capped(s) = s
         /\ \A i \in 1..Len(Gauging!Capped(s)) :
              Gauging!Capped(s)[i] = s[i + (Len(s) - Len(Gauging!Capped(s)))]
<1>1. Len(s) \in Nat /\ MaxSamples \in Nat /\ MaxSamples >= 1
  BY StoresAssumption
<1>2. CASE Len(s) > MaxSamples
  <2> DEFINE d == Len(s) - MaxSamples
  <2>1. Gauging!Capped(s) = SubSeq(s, d + 1, Len(s)) /\ d \in Nat /\ d + MaxSamples = Len(s)
    BY <1>1, <1>2 DEF Gauging!Capped
  <2>2. \A i \in (d + 1)..Len(s) : s[i] \in S
    BY <1>1, <2>1
  <2> HIDE DEF d
  <2>3. /\ SubSeq(s, d + 1, Len(s)) \in Seq(S)
        /\ Len(SubSeq(s, d + 1, Len(s))) = MaxSamples
        /\ \A i \in 1..MaxSamples : SubSeq(s, d + 1, Len(s))[i] = s[i + d]
    <3>1. d + 1 \in Int /\ Len(s) \in Int /\ d + 1 <= Len(s) /\ Len(s) - (d + 1) + 1 = MaxSamples
      BY <1>1, <2>1
    <3>2. /\ SubSeq(s, d + 1, Len(s)) \in Seq(S)
          /\ Len(SubSeq(s, d + 1, Len(s))) = MaxSamples
          /\ \A i \in 1..MaxSamples : SubSeq(s, d + 1, Len(s))[i] = s[(d + 1) + i - 1]
      BY <2>2, <3>1, SubSeqProperties
    <3>3. \A i \in 1..MaxSamples : (d + 1) + i - 1 = i + d
      BY <1>1, <2>1
    <3> QED
      BY <3>2, <3>3
  <2>4. Len(s) - MaxSamples = d /\ ~(Len(s) <= MaxSamples)
    BY <1>1, <1>2, <2>1
  <2>5. Len(Gauging!Capped(s)) = MaxSamples
    BY <2>1, <2>3
  <2> QED
    BY <1>2, <2>1, <2>3, <2>4, <2>5
<1>3. CASE ~(Len(s) > MaxSamples)
  <2>1. Gauging!Capped(s) = s /\ Len(s) - Len(s) = 0 /\ \A i \in 1..Len(s) : i + 0 = i
    BY <1>1, <1>3 DEF Gauging!Capped
  <2> QED
    BY <1>1, <1>3, <2>1
<1> QED
  BY <1>2, <1>3

(* Nothing is counted more often when the oldest entries go. *)
LEMMA CappedCountsNoMore ==
  ASSUME NEW S, NEW s \in Seq(S), NEW x
  PROVE  Cardinality(At(Gauging!Capped(s), x)) <= Cardinality(At(s, x))
<1> DEFINE t == Gauging!Capped(s)
           d == Len(s) - Len(t)
           f == [i \in At(t, x) |-> i + d]
<1>1. t \in Seq(S) /\ Len(s) \in Nat /\ Len(t) \in Nat /\ Len(t) <= Len(s)
      /\ \A i \in 1..Len(t) : t[i] = s[i + (Len(s) - Len(t))]
  BY CappedIsTyped, StoresAssumption
<1>2. d \in Nat
  BY <1>1
<1>3. \A i \in At(t, x) : i \in Nat /\ i + d \in At(s, x)
  BY <1>1, <1>2 DEF At
<1> HIDE DEF t, d
<1>4. f \in Injection(At(t, x), At(s, x))
  <2>1. f \in [At(t, x) -> At(s, x)]
    BY <1>3
  <2>2. \A i, k \in At(t, x) : f[i] = f[k] => i = k
    BY <1>2, <1>3
  <2> QED
    BY <2>1, <2>2 DEF Injection, IsInjective
<1>5. IsFiniteSet(At(s, x))
  BY AtIsFinite
<1> HIDE DEF f
<1>6. Cardinality(At(t, x)) <= Cardinality(At(s, x))
  BY <1>4, <1>5, FS_Injection
<1> QED
  BY <1>6 DEF t

LEMMA TotalIsCardinality == \A l : Gauging!Total(l) = Cardinality(At(counter, l))
BY SameCardinality DEF Gauging!Total, At

LEMMA CountersInit == ASSUME Gauging!Init PROVE CountersInv
<1>1. counter = <<>> /\ histogram = <<>> /\ gauges = <<>> /\ counts = [l \in Labels |-> 0] /\ calls = 0
  BY DEF Gauging!Init
<1>2. Gauging!MetricsTypeOK
  <2>1. Gauging!IsInjective(<<>>)
    BY DEF Gauging!IsInjective
  <2> QED
    BY <1>1, <2>1, StoresAssumption DEF Gauging!MetricsTypeOK
<1>3. \A l \in Labels : Gauging!Total(l) = 0 /\ counts[l] = 0
  <2>1. \A l : At(counter, l) = {}
    BY <1>1 DEF At
  <2> QED
    BY <1>1, <2>1, TotalIsCardinality, FS_EmptySet
<1> QED
  BY <1>2, <1>3 DEF CountersInv, Gauging!CountersAreExactUntilFull

LEMMA CallIsTyped == ASSUME CountersInv, Gauging!Call PROVE calls' \in 0..MaxCalls
BY StoresAssumption DEF CountersInv, Gauging!MetricsTypeOK, Gauging!Call

LEMMA IncCounterStep ==
  ASSUME CountersInv, NEW l \in Labels, Gauging!IncCounter(l) PROVE CountersInv'
<1> DEFINE s == Append(counter, l)
<1>1. /\ counter' = Gauging!Capped(s) /\ counts' = [counts EXCEPT ![l] = @ + 1]
      /\ histogram' = histogram /\ gauges' = gauges /\ calls' \in 0..MaxCalls
  BY CallIsTyped DEF Gauging!IncCounter
<1>2. /\ counter \in Seq(Labels) /\ Len(counter) \in Nat /\ Len(counter) <= MaxSamples
      /\ MaxSamples \in Nat /\ MaxSamples >= 1 /\ counts \in [Labels -> Nat]
  BY StoresAssumption DEF CountersInv, Gauging!MetricsTypeOK
<1>3. s \in Seq(Labels) /\ Len(s) = Len(counter) + 1
  BY <1>2
<1>4. \A x : Cardinality(At(s, x)) = Cardinality(At(counter, x)) + IF x = l THEN 1 ELSE 0
  BY <1>2, AtAppended
<1> HIDE DEF s
<1>5. /\ counter' \in Seq(Labels)
      /\ Len(counter') = IF Len(s) > MaxSamples THEN MaxSamples ELSE Len(s)
      /\ Len(s) <= MaxSamples => counter' = s
  BY <1>1, <1>3, CappedIsTyped
<1>6. Len(counter') <= MaxSamples /\ counts' \in [Labels -> Nat]
  BY <1>1, <1>2, <1>3, <1>5
<1>7. Gauging!MetricsTypeOK'
  BY <1>1, <1>5, <1>6 DEF CountersInv, Gauging!MetricsTypeOK
<1>8. ASSUME NEW x \in Labels
      PROVE  IF Len(counter') < MaxSamples
               THEN Cardinality(At(counter', x)) = counts'[x]
               ELSE Cardinality(At(counter', x)) <= counts'[x]
  <2>1. counts'[x] = counts[x] + IF x = l THEN 1 ELSE 0
    BY <1>1, <1>2
  <2>2. IF Len(counter) < MaxSamples
          THEN Cardinality(At(counter, x)) = counts[x]
          ELSE Cardinality(At(counter, x)) <= counts[x]
    BY TotalIsCardinality DEF CountersInv, Gauging!CountersAreExactUntilFull
  <2>3. /\ Cardinality(At(counter, x)) \in Nat /\ Cardinality(At(s, x)) \in Nat
        /\ Cardinality(At(counter', x)) \in Nat /\ counts[x] \in Nat
    BY <1>2, <1>3, <1>5, AtIsFinite
  <2>4. Cardinality(At(s, x)) <= counts'[x]
    BY <1>4, <2>1, <2>2, <2>3
  <2>5. CASE Len(counter') < MaxSamples
    <3>1. counter' = s /\ Len(counter) < MaxSamples
      BY <1>2, <1>3, <1>5, <2>5
    <3> QED
      BY <1>4, <2>1, <2>2, <2>5, <3>1
  <2>6. CASE ~(Len(counter') < MaxSamples)
    <3>1. Cardinality(At(counter', x)) <= Cardinality(At(s, x))
      BY <1>1, <1>3, CappedCountsNoMore
    <3>2. counts'[x] \in Nat
      BY <2>1, <2>3
    <3> QED
      BY <2>3, <2>4, <2>6, <3>1, <3>2
  <2> QED
    BY <2>5, <2>6
<1>9. \A x : Gauging!Total(x)' = Cardinality(At(counter', x))
  BY SameCardinality DEF Gauging!Total, At
<1>10. Gauging!CountersAreExactUntilFull'
  BY <1>8, <1>9 DEF Gauging!CountersAreExactUntilFull
<1> QED
  BY <1>7, <1>10 DEF CountersInv

(* The counters are left alone by the other calls. *)
LEMMA CountersLeftAlone ==
  ASSUME CountersInv, counter' = counter, counts' = counts
  PROVE  Gauging!CountersAreExactUntilFull'
<1>1. \A l : Gauging!Total(l)' = Gauging!Total(l)
  BY DEF Gauging!Total
<1> QED
  BY <1>1 DEF CountersInv, Gauging!CountersAreExactUntilFull

LEMMA ObserveStep ==
  ASSUME CountersInv, NEW v \in Samples, Gauging!ObserveHistogram(v) PROVE CountersInv'
<1>1. /\ histogram' = Gauging!Capped(Append(histogram, v)) /\ calls' \in 0..MaxCalls
      /\ counter' = counter /\ gauges' = gauges /\ counts' = counts
  BY CallIsTyped DEF Gauging!ObserveHistogram
<1>2. histogram \in Seq(Samples) /\ MaxSamples \in Nat
  BY StoresAssumption DEF CountersInv, Gauging!MetricsTypeOK
<1>3. histogram' \in Seq(Samples) /\ Len(histogram') <= MaxSamples
  <2>1. Append(histogram, v) \in Seq(Samples) /\ Len(Append(histogram, v)) \in Nat
    BY <1>2
  <2>2. /\ histogram' \in Seq(Samples)
        /\ Len(histogram') = IF Len(Append(histogram, v)) > MaxSamples
                               THEN MaxSamples ELSE Len(Append(histogram, v))
    BY <1>1, <2>1, CappedIsTyped
  <2> QED
    BY <1>2, <2>1, <2>2
<1>4. Gauging!MetricsTypeOK'
  BY <1>1, <1>3 DEF CountersInv, Gauging!MetricsTypeOK
<1> QED
  BY <1>1, <1>4, CountersLeftAlone DEF CountersInv

(* The keys of a dict stay different, and no more than MaxSamples. *)
LEMMA SetGaugeStep ==
  ASSUME CountersInv, NEW g \in Gauges, Gauging!SetGauge(g) PROVE CountersInv'
<1> DEFINE keys == IF g \in Gauging!Range(gauges) THEN gauges ELSE Append(gauges, g)
           half == Len(keys) \div 2
<1>1. /\ gauges' = IF Len(keys) > MaxSamples THEN SubSeq(keys, half + 1, Len(keys)) ELSE keys
      /\ counter' = counter /\ histogram' = histogram /\ counts' = counts /\ calls' \in 0..MaxCalls
  BY CallIsTyped DEF Gauging!SetGauge
<1>2. /\ gauges \in Seq(Gauges) /\ Len(gauges) \in Nat /\ Len(gauges) <= MaxSamples
      /\ MaxSamples \in Nat /\ MaxSamples >= 1
      /\ \A i, k \in 1..Len(gauges) : gauges[i] = gauges[k] => i = k
  BY StoresAssumption DEF CountersInv, Gauging!MetricsTypeOK, Gauging!IsInjective
<1>3. /\ keys \in Seq(Gauges) /\ Len(keys) \in Nat /\ Len(keys) <= MaxSamples + 1
      /\ \A i, k \in 1..Len(keys) : keys[i] = keys[k] => i = k
  <2>1. CASE g \in Gauging!Range(gauges)
    BY <1>2, <2>1
  <2>2. CASE g \notin Gauging!Range(gauges)
    <3>1. \A i \in 1..Len(gauges) : gauges[i] # g
      BY <1>2, <2>2 DEF Gauging!Range
    <3>2. keys = Append(gauges, g)
      BY <2>2
    <3>3. /\ keys \in Seq(Gauges) /\ Len(keys) = Len(gauges) + 1 /\ keys[Len(gauges) + 1] = g
          /\ \A i \in 1..Len(gauges) : keys[i] = gauges[i]
      BY <1>2, <3>2
    <3> HIDE DEF keys
    <3>4. \A i \in 1..Len(keys) : i \in 1..Len(gauges) \/ i = Len(gauges) + 1
      BY <1>2, <3>3
    <3> QED
      BY <1>2, <3>1, <3>3, <3>4
  <2> QED
    BY <2>1, <2>2
<1> HIDE DEF keys
<1>4. /\ gauges' \in Seq(Gauges) /\ Len(gauges') <= MaxSamples
      /\ \A i, k \in 1..Len(gauges') : gauges'[i] = gauges'[k] => i = k
  <2>1. CASE Len(keys) > MaxSamples
    <3>1. half \in Nat /\ half >= 1 /\ half <= Len(keys)
      BY <1>2, <1>3, <2>1
    <3>2. gauges' = SubSeq(keys, half + 1, Len(keys))
      BY <1>1, <2>1
    <3> HIDE DEF half
    <3>3. \A i \in (half + 1)..Len(keys) : keys[i] \in Gauges
      BY <1>3, <3>1
    <3>4. /\ gauges' \in Seq(Gauges) /\ Len(gauges') = Len(keys) - half
          /\ \A i \in 1..(Len(keys) - half) : gauges'[i] = keys[i + half]
      BY <1>3, <3>1, <3>2, <3>3, SubSeqProperties
    <3>5. \A i \in 1..(Len(keys) - half) : i \in Nat /\ i + half \in 1..Len(keys)
      BY <1>3, <3>1
    <3>6. ASSUME NEW i \in 1..Len(gauges'), NEW k \in 1..Len(gauges'), gauges'[i] = gauges'[k]
          PROVE  i = k
      <4>1. keys[i + half] = keys[k + half]
        BY <3>4, <3>6
      <4>2. i + half = k + half
        BY <1>3, <3>4, <3>5, <4>1
      <4> QED
        BY <3>1, <3>4, <3>5, <4>2
    <3>7. Len(gauges') <= MaxSamples
      BY <1>2, <1>3, <3>1, <3>4
    <3> QED
      BY <3>4, <3>6, <3>7
  <2>2. CASE ~(Len(keys) > MaxSamples)
    BY <1>1, <1>2, <1>3, <2>2
  <2> QED
    BY <2>1, <2>2
<1>5. Gauging!IsInjective(gauges')
  BY <1>4 DEF Gauging!IsInjective
<1>6. Gauging!MetricsTypeOK'
  BY <1>1, <1>4, <1>5 DEF CountersInv, Gauging!MetricsTypeOK
<1> QED
  BY <1>1, <1>6, CountersLeftAlone DEF CountersInv

LEMMA CountersStep == ASSUME CountersInv, Gauging!Next PROVE CountersInv'
BY IncCounterStep, ObserveStep, SetGaugeStep DEF Gauging!Next

LEMMA CountersStutter == ASSUME CountersInv, UNCHANGED counters PROVE CountersInv'
<1>1. /\ counter' = counter /\ histogram' = histogram /\ gauges' = gauges
      /\ counts' = counts /\ calls' = calls
  BY DEF counters
<1> QED
  BY <1>1, CountersLeftAlone DEF CountersInv, Gauging!MetricsTypeOK

-----------------------------------------------------------------------------
(* Stores: each part keeps its invariant while the others are left alone. *)

StoreInv == GoodCache(entries) /\ WindowsInv /\ CrawlInv /\ CountersInv

LEMMA StoresInitially == ASSUME StoresInit PROVE StoreInv
BY EntriesInit, WindowsInit, CrawlInit, CountersInit DEF StoresInit, StoreInv

LEMMA StoresStep == ASSUME StoreInv, [StoresNext]_stores PROVE StoreInv'
<1>1. AnswerCache!Next \/ entries' = entries
  BY DEF StoresNext, stores
<1>2. Limiter!Next \/ UNCHANGED windows
  BY DEF StoresNext, stores
<1>3. Budget!Next \/ UNCHANGED crawl
  BY DEF StoresNext, stores
<1>4. Gauging!Next \/ UNCHANGED counters
  BY DEF StoresNext, stores
<1>5. GoodCache(entries')
  BY <1>1, EntriesStep DEF StoreInv
<1>6. WindowsInv'
  BY <1>2, WindowsStep, WindowsStutter DEF StoreInv
<1>7. CrawlInv'
  BY <1>3, CrawlStep, CrawlStutter DEF StoreInv
<1>8. CountersInv'
  BY <1>4, CountersStep, CountersStutter DEF StoreInv
<1> QED
  BY <1>5, <1>6, <1>7, <1>8 DEF StoreInv, GoodCache

LEMMA StoresInvariant == StoresSpec => []StoreInv
BY StoresInitially, StoresStep, PTL DEF StoresSpec

(* Each in-memory store of the process keeps its limit and its promise: the
   HTTP cache, the windows of the API's clients, the queue of a crawl and the
   metrics, whatever their limits and however they are called.               *)
THEOREM StoresKeepTheirLimits == StoresSpec => []StoresInv
<1>1. StoreInv => StoresInv
  BY GoodEntries
  DEF StoreInv, StoresInv, WindowsInv, WindowsOK, CrawlInv, CountersInv
<1> QED
  BY <1>1, StoresInvariant, PTL

(* A client that the clean-up has not forgotten while it was counted is
   served by RateLimitMiddleware no more than requests_per_minute times in
   any minute, wherever the minute begins.                                *)
THEOREM ClientsAreLimited == StoresSpec => []LimitHolds
<1>1. StoreInv => LimitHolds
  BY WindowsAreLimited DEF StoreInv
<1> QED
  BY <1>1, StoresInvariant, PTL

(* No call on HttpCacheLayer makes a URL disappear from the cache while an
   older entry stays, but for the URL that the call invalidates.          *)
THEOREM EvictionIsInOrder == StoresSpec => OldestGoFirst
<1> DEFINE InOrder ==
             \A i, j \in 1..Len(entries) :
               /\ i < j
               /\ AnswerCache!Cached(entries', entries[i].url)
               /\ ~AnswerCache!Cached(entries', entries[j].url)
               => Len(entries') = Len(entries) - 1
<1>1. ASSUME StoreInv, [StoresNext]_stores PROVE [InOrder]_entries
  <2>1. AnswerCache!Next \/ entries' = entries
    BY <1>1 DEF StoresNext, stores
  <2>2. CASE AnswerCache!Next
    BY <1>1, <2>2, OldestStep DEF StoreInv
  <2>3. CASE entries' = entries
    BY <2>3
  <2> QED
    BY <2>1, <2>2, <2>3
<1>2. OldestGoFirst <=> [][InOrder]_entries
  BY DEF OldestGoFirst, AnswerCache!OldestGoFirst
<1> HIDE DEF InOrder
<1> QED
  BY <1>1, <1>2, StoresInvariant, PTL DEF StoresSpec

=============================================================================
