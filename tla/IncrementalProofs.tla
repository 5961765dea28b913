------------------------- MODULE IncrementalProofs -------------------------
(* Theorems about IncrementalCollection and their proofs. *)
EXTENDS IncrementalCollection, StoresProofs

Places == {"idle", "next", "wait", "render", "got", "raw", "done", "failed"}

(* Where a run is agrees with what it has in hand. *)
PlaceOK ==
  \A r \in Runs :
    /\ pc[r] \in {"wait", "render", "got", "raw"} => todo[r] # <<>>
    /\ got[r] # NoHash => pc[r] \in {"render", "got", "raw"}
    /\ pc[r] \in {"got", "raw"} => got[r] # NoHash
    /\ pc[r] = "raw" => writes[r][Raw(Url(r))] = got[r]

CacheOK == Len(cache) <= MaxEntries /\ OnePerUrl(cache)

TypeInv == TypeOK /\ PlaceOK /\ CacheOK

LEMMA GoodCacheFromInv == TypeInv => GoodCache(cache)
BY DEF TypeInv, TypeOK, CacheOK, GoodCache

LEMMA GoodCacheIsOK == ASSUME GoodCache(cache') PROVE CacheOK' /\ cache' \in Caches
BY DEF GoodCache, CacheOK

LEMMA RowsOfJobs ==
  ASSUME NEW j \in Jobs
  PROVE  j \in Rows /\ j[2] \in CacheUrls /\ \A u \in CacheUrls : j # Raw(u)
BY PlansAssumption DEF Jobs, Rows, Raw

LEMMA RawIsRow == ASSUME NEW u \in CacheUrls PROVE Raw(u) \in Rows
BY DEF Raw, Rows

LEMMA RawIsInjective ==
  ASSUME NEW u \in CacheUrls, NEW v \in CacheUrls, Raw(u) = Raw(v)
  PROVE  u = v
BY DEF Raw

(* The current collect of a run that has one. *)
LEMMA JobIsTyped ==
  ASSUME TypeOK, NEW r \in Runs, todo[r] # <<>>
  PROVE  Job(r) \in Jobs /\ Url(r) \in CacheUrls /\ Tail(todo[r]) \in Seq(Jobs)
<1>1. todo[r] \in Seq(Jobs)
  BY DEF TypeOK
<1>2. Head(todo[r]) \in Jobs /\ Tail(todo[r]) \in Seq(Jobs)
  BY <1>1
<1> QED
  BY <1>2, RowsOfJobs DEF Job, Url

LEMMA NextJobIsTyped ==
  ASSUME TypeOK, NEW r \in Runs, todo[r] # <<>>, NextJob(r)
  PROVE  /\ pc' \in [Runs -> Places] /\ todo' \in [Runs -> Seq(Jobs)]
         /\ header' \in [Runs -> Contents] /\ expired' \in [Runs -> BOOLEAN]
         /\ got' \in [Runs -> Contents]
         /\ pc' = [pc EXCEPT ![r] = "next"] /\ got' = [got EXCEPT ![r] = NoHash]
         /\ \A q \in Runs \ {r} : todo'[q] = todo[q]
<1>1. Tail(todo[r]) \in Seq(Jobs)
  BY JobIsTyped
<1>2. todo' = [todo EXCEPT ![r] = Tail(todo[r])]
  BY DEF NextJob
<1> QED
  BY <1>1, <1>2 DEF NextJob, Goto, TypeOK, Places, Contents

LEMMA ShowsIsTyped ==
  ASSUME TypeOK, NEW r \in Runs, todo[r] # <<>>, Shows(r)
  PROVE  /\ shown' \in [Runs -> [CacheUrls -> Contents]]
         /\ visited' \in [Runs -> SUBSET Jobs]
         /\ crossed' \in SUBSET CacheUrls
         /\ page[Url(r)] \in Hashes
<1>1. Job(r) \in Jobs /\ Url(r) \in CacheUrls
  BY JobIsTyped
<1>2. page[Url(r)] \in Hashes /\ page[Url(r)] \in Contents
  BY <1>1 DEF TypeOK, Contents
<1>3. shown' = [shown EXCEPT ![r] = [shown[r] EXCEPT ![Url(r)] = page[Url(r)]]]
  BY DEF Shows
<1>4. shown[r] \in [CacheUrls -> Contents]
  BY DEF TypeOK
<1> QED
  BY <1>1, <1>2, <1>3, <1>4 DEF Shows, TypeOK

LEMMA HandIsTyped ==
  ASSUME TypeOK, NEW r \in Runs, todo[r] # <<>>, NEW v \in Hashes, Hand(r, v)
  PROVE  got' \in [Runs -> Contents] /\ mixed' \in SUBSET CacheUrls
BY JobIsTyped DEF Hand, TypeOK, Contents

LEMMA UpsertIsTyped ==
  ASSUME TypeOK, NEW r \in Runs, NEW row \in Rows, Upsert(r, row)
  PROVE  writes' \in [Runs -> [Rows -> Contents]] /\ aborted' = aborted /\ table' = table
<1>1. writes' = [writes EXCEPT ![r] = [writes[r] EXCEPT ![row] = got[r]]]
  BY DEF Upsert
<1>2. writes[r] \in [Rows -> Contents] /\ got[r] \in Contents
  BY DEF TypeOK
<1> QED
  BY <1>1, <1>2 DEF Upsert, TypeOK

-----------------------------------------------------------------------------
LEMMA TypeInvInit == Init => TypeInv
<1> SUFFICES ASSUME Init
             PROVE  TypeInv
  OBVIOUS
<1>1. cache \in Caches /\ Len(cache) = 0
  BY DEF Init, Caches
<1>2. NoRows \in [Rows -> Contents] /\ NothingShown \in [CacheUrls -> Contents]
  BY DEF NoRows, NothingShown, Contents
<1>3. TypeOK
  BY <1>1, <1>2, PlansAssumption DEF Init, TypeOK, Contents
<1>4. PlaceOK
  BY DEF Init, PlaceOK
<1>5. CacheOK
  BY <1>1, CacheAssumption DEF CacheOK, OnePerUrl
<1> QED
  BY <1>3, <1>4, <1>5 DEF TypeInv

(* Steps that leave the cache alone and end no run. *)
LEMMA TypeInvQuiet ==
  ASSUME TypeInv, NEW r \in Runs,
         Start(r) \/ Skip(r) \/ RenderFails(r) \/ Browse(r) \/ NoPage(r)
  PROVE  TypeInv'
<1> USE DEF TypeInv, origin, fetch, db, seen, history
<1>1. CASE Start(r)
  <2>1. PICK p \in Plans : todo' = [todo EXCEPT ![r] = p]
    BY <1>1 DEF Start
  <2>2. p \in Seq(Jobs)
    BY PlansAssumption
  <2>3. TypeOK'
    BY <1>1, <2>1, <2>2 DEF Start, Goto, TypeOK
  <2>4. PlaceOK' /\ CacheOK'
    BY <1>1, <2>1 DEF Start, Goto, TypeOK, PlaceOK, CacheOK, Url, Job
  <2> QED
    BY <2>3, <2>4
<1>2. CASE Skip(r)
  <2>1. todo[r] # <<>>
    BY <1>2 DEF Skip, PlaceOK
  <2>2. NextJob(r) /\ Shows(r)
    BY <1>2 DEF Skip
  <2>3. TypeOK'
    BY <1>2, <2>1, <2>2, NextJobIsTyped, ShowsIsTyped DEF Skip, TypeOK, Places
  <2>4. PlaceOK' /\ CacheOK'
    BY <1>2, <2>1, <2>2, NextJobIsTyped DEF Skip, TypeOK, PlaceOK, CacheOK, Url, Job
  <2> QED
    BY <2>3, <2>4
<1>3. CASE RenderFails(r)
  <2>1. todo[r] # <<>>
    BY <1>3 DEF RenderFails, PlaceOK
  <2>2. CASE got[r] = NoHash
    <3>1. NextJob(r)
      BY <1>3, <2>2 DEF RenderFails
    <3>2. TypeOK'
      BY <1>3, <2>1, <3>1, NextJobIsTyped DEF RenderFails, TypeOK, Places
    <3>3. PlaceOK' /\ CacheOK'
      BY <1>3, <2>1, <3>1, NextJobIsTyped DEF RenderFails, TypeOK, PlaceOK, CacheOK, Url, Job
    <3> QED
      BY <3>2, <3>3
  <2>3. CASE got[r] # NoHash
    <3>1. TypeOK'
      BY <1>3, <2>3 DEF RenderFails, TypeOK, Goto
    <3>2. PlaceOK' /\ CacheOK'
      BY <1>3, <2>3 DEF RenderFails, TypeOK, PlaceOK, CacheOK, Url, Job, Goto
    <3> QED
      BY <3>1, <3>2
  <2> QED
    BY <2>2, <2>3
<1>4. CASE Browse(r)
  <2>1. todo[r] # <<>> /\ Shows(r) /\ Hand(r, page[Url(r)])
    BY <1>4 DEF Browse
  <2>2. page[Url(r)] \in Hashes
    BY <2>1, ShowsIsTyped
  <2>3. TypeOK'
    BY <1>4, <2>1, <2>2, HandIsTyped, ShowsIsTyped DEF Browse, TypeOK, Goto
  <2>4. page[Url(r)] # NoHash /\ got' = [got EXCEPT ![r] = page[Url(r)]]
    BY <2>1, <2>2, CacheAssumption DEF Hand
  <2>5. PlaceOK' /\ CacheOK'
    BY <1>4, <2>1, <2>4 DEF Browse, TypeOK, PlaceOK, CacheOK, Url, Job, Goto
  <2> QED
    BY <2>3, <2>5
<1>5. CASE NoPage(r)
  <2>1. todo[r] # <<>> /\ NextJob(r)
    BY <1>5 DEF NoPage, PlaceOK
  <2>2. TypeOK'
    BY <1>5, <2>1, NextJobIsTyped DEF NoPage, TypeOK, Places
  <2>3. PlaceOK' /\ CacheOK'
    BY <1>5, <2>1, NextJobIsTyped DEF NoPage, TypeOK, PlaceOK, CacheOK, Url, Job
  <2> QED
    BY <2>2, <2>3
<1> QED
  BY <1>1, <1>2, <1>3, <1>4, <1>5

(* An answer or a rendering: the cache, and what is handed on. *)
LEMMA CacheStepIsTyped ==
  ASSUME TypeInv, NEW r \in Runs, Page(r) \/ Refused(r) \/ Rendered(r)
  PROVE  GoodCache(cache') /\ todo[r] # <<>>
<1>1. GoodCache(cache) /\ todo[r] # <<>>
  BY GoodCacheFromInv DEF Page, Refused, Rendered, TypeInv, PlaceOK
<1>2. Url(r) \in CacheUrls /\ page[Url(r)] \in Hashes
  BY <1>1, JobIsTyped DEF TypeInv, TypeOK
<1>3. CASE Page(r)
  <2>1. PICK t \in {page[Url(r)], NoHash}, k \in Served :
          cache' = Store(cache, Url(r), t, k, page[Url(r)])
    BY <1>3 DEF Page
  <2>2. t \in Hashes \cup {NoHash} /\ k \in Controls /\ page[Url(r)] \in Hashes \cup {NoHash}
    BY <1>2, PlansAssumption
  <2> QED
    BY <1>1, <1>2, <2>1, <2>2, StoreIsGood
<1>4. CASE Refused(r)
  <2>1. cache' = Store(cache, Url(r), NoHash, "none", NoHash) /\ "none" \in Controls
    BY <1>4 DEF Refused, Controls
  <2> QED
    BY <1>1, <1>2, <2>1, StoreIsGood
<1>5. CASE Rendered(r)
  BY <1>1, <1>5, InvalidateIsGood DEF Rendered
<1> QED
  BY <1>3, <1>4, <1>5

LEMMA TypeInvCache ==
  ASSUME TypeInv, NEW r \in Runs,
         BeginFetch(r) \/ Page(r) \/ Refused(r) \/ Rendered(r)
  PROVE  TypeInv'
<1> USE DEF TypeInv, origin, fetch, db, seen, history
<1>1. CASE BeginFetch(r)
  <2>1. Url(r) \in CacheUrls
    BY <1>1, JobIsTyped DEF BeginFetch
  <2>2. ConditionalHeader(cache, Url(r)) \in Contents /\ IsExpired(cache, Url(r)) \in BOOLEAN
    BY <2>1, GoodCacheFromInv, HeaderIsTyped DEF Contents
  <2>3. TypeOK'
    BY <1>1, <2>2 DEF BeginFetch, TypeOK, Goto
  <2>4. PlaceOK' /\ CacheOK'
    BY <1>1 DEF BeginFetch, TypeOK, PlaceOK, CacheOK, Url, Job, Goto
  <2> QED
    BY <2>3, <2>4
<1>2. CASE Page(r)
  <2>1. GoodCache(cache') /\ todo[r] # <<>> /\ Shows(r) /\ Hand(r, page[Url(r)])
    BY <1>2, CacheStepIsTyped DEF Page
  <2>2. page[Url(r)] \in Hashes
    BY <2>1, ShowsIsTyped
  <2>3. TypeOK'
    BY <1>2, <2>1, <2>2, GoodCacheIsOK, HandIsTyped, ShowsIsTyped DEF Page, TypeOK, Goto
  <2>4. page[Url(r)] # NoHash /\ got' = [got EXCEPT ![r] = page[Url(r)]]
    BY <2>1, <2>2, CacheAssumption DEF Hand
  <2>5. PlaceOK'
    BY <1>2, <2>1, <2>4 DEF Page, TypeOK, PlaceOK, Url, Job, Goto
  <2> QED
    BY <2>1, <2>3, <2>5, GoodCacheIsOK
<1>3. CASE Refused(r)
  <2>1. GoodCache(cache') /\ todo[r] # <<>>
    BY <1>3, CacheStepIsTyped
  <2>2. TypeOK'
    BY <1>3, <2>1, GoodCacheIsOK DEF Refused, TypeOK, Goto
  <2>3. PlaceOK'
    BY <1>3, <2>1 DEF Refused, TypeOK, PlaceOK, Url, Job, Goto
  <2> QED
    BY <2>1, <2>2, <2>3, GoodCacheIsOK
<1>4. CASE Rendered(r)
  <2>1. GoodCache(cache') /\ todo[r] # <<>> /\ Shows(r) /\ Hand(r, page[Url(r)])
    BY <1>4, CacheStepIsTyped DEF Rendered
  <2>2. page[Url(r)] \in Hashes /\ Url(r) \in CacheUrls
    BY <2>1, ShowsIsTyped, JobIsTyped
  <2>3. lost' \in [CacheUrls -> SUBSET Hashes]
    BY <1>4, <2>2 DEF Rendered, TypeOK, Contents
  <2>4. TypeOK'
    BY <1>4, <2>1, <2>2, <2>3, GoodCacheIsOK, HandIsTyped, ShowsIsTyped DEF Rendered, TypeOK, Goto
  <2>5. page[Url(r)] # NoHash /\ got' = [got EXCEPT ![r] = page[Url(r)]]
    BY <2>1, <2>2, CacheAssumption DEF Hand
  <2>6. PlaceOK'
    BY <1>4, <2>1, <2>5 DEF Rendered, TypeOK, PlaceOK, Url, Job, Goto
  <2> QED
    BY <2>1, <2>4, <2>6, GoodCacheIsOK
<1> QED
  BY <1>1, <1>2, <1>3, <1>4

(* What an upsert of the run writes. *)
LEMMA UpsertWrites ==
  ASSUME TypeOK, NEW r \in Runs, NEW row \in Rows, Upsert(r, row)
  PROVE  /\ writes'[r][row] = got[r]
         /\ \A w \in Rows \ {row} : writes'[r][w] = writes[r][w]
         /\ \A q \in Runs \ {r} : writes'[q] = writes[q]
<1>1. writes' = [writes EXCEPT ![r] = [writes[r] EXCEPT ![row] = got[r]]]
  BY DEF Upsert
<1>2. writes[r] \in [Rows -> Contents]
  BY DEF TypeOK
<1> QED
  BY <1>1, <1>2 DEF TypeOK

(* A run that goes on to its next collect has nothing in hand. *)
LEMMA NextJobPlace ==
  ASSUME TypeOK, PlaceOK, NEW r \in Runs, todo[r] # <<>>, NextJob(r),
         \A q \in Runs \ {r} : writes'[q] = writes[q]
  PROVE  PlaceOK'
<1>1. /\ pc'[r] = "next" /\ got'[r] = NoHash
      /\ \A q \in Runs \ {r} : pc'[q] = pc[q] /\ got'[q] = got[q] /\ todo'[q] = todo[q]
  BY NextJobIsTyped DEF TypeOK
<1>2. \A q \in Runs \ {r} : Url(q)' = Url(q)
  BY <1>1 DEF Url, Job
<1> QED
  BY <1>1, <1>2 DEF PlaceOK

(* Steps that store, and those that fail to. *)
LEMMA TypeInvStore ==
  ASSUME TypeInv, NEW r \in Runs, StoreRaw(r) \/ StoreItems(r) \/ CollectFails(r)
  PROVE  TypeInv'
<1> USE DEF TypeInv, origin, fetch, db, seen, history
<1>1. todo[r] # <<>> /\ pc[r] \in {"got", "raw"} /\ got[r] # NoHash
  BY DEF StoreRaw, StoreItems, CollectFails, PlaceOK
<1>2. Job(r) \in Rows /\ Url(r) \in CacheUrls /\ Raw(Url(r)) \in Rows
  BY <1>1, JobIsTyped, RowsOfJobs, RawIsRow
<1>3. got[r] \in Hashes
  BY <1>1 DEF TypeOK, Contents
<1>4. CASE StoreRaw(r)
  <2>1. Upsert(r, Raw(Url(r)))
    BY <1>4 DEF StoreRaw
  <2>2. writes[r][Raw(Url(r))] \in Contents
    BY <1>2 DEF TypeOK
  <2>3. lost' \in [CacheUrls -> SUBSET Hashes]
    BY <1>4, <1>2, <2>2 DEF StoreRaw, TypeOK, Contents
  <2>4. TypeOK'
    BY <1>4, <1>2, <2>1, <2>3, UpsertIsTyped DEF StoreRaw, TypeOK, Goto
  <2>5. PlaceOK' /\ CacheOK'
    BY <1>4, <1>1, <1>2, <2>1, UpsertWrites DEF StoreRaw, TypeOK, PlaceOK, CacheOK, Url, Job, Goto
  <2> QED
    BY <2>4, <2>5
<1>5. CASE StoreItems(r)
  <2>1. Upsert(r, Job(r)) /\ NextJob(r)
    BY <1>5 DEF StoreItems
  <2>2. TypeOK'
    BY <1>5, <1>1, <1>2, <2>1, UpsertIsTyped, NextJobIsTyped DEF StoreItems, TypeOK, Places
  <2>3. PlaceOK' /\ CacheOK'
    BY <1>5, <1>1, <1>2, <2>1, UpsertWrites, NextJobPlace DEF StoreItems, CacheOK
  <2> QED
    BY <2>2, <2>3
<1>6. CASE CollectFails(r)
  <2>1. NextJob(r)
    BY <1>6 DEF CollectFails
  <2>2. lost' \in [CacheUrls -> SUBSET Hashes]
    BY <1>6, <1>2, <1>3 DEF CollectFails, TypeOK
  <2>3. aborted' \in [Runs -> BOOLEAN] /\ errors' \in [Runs -> BOOLEAN]
    BY <1>6 DEF CollectFails, TypeOK
  <2>4. TypeOK'
    BY <1>6, <1>1, <2>1, <2>2, <2>3, NextJobIsTyped DEF CollectFails, TypeOK, Places
  <2>5. PlaceOK' /\ CacheOK'
    BY <1>6, <1>1, <2>1, NextJobPlace DEF CollectFails, CacheOK
  <2> QED
    BY <2>4, <2>5
<1> QED
  BY <1>4, <1>5, <1>6

LEMMA LoseWritesIsTyped ==
  ASSUME TypeOK, NEW rs \in SUBSET Runs, LoseWrites(rs)
  PROVE  lost' \in [CacheUrls -> SUBSET Hashes]
<1>1. \A u \in CacheUrls : \A q \in rs : writes[q][Raw(u)] \in Contents
  BY RawIsRow DEF TypeOK
<1> QED
  BY <1>1 DEF LoseWrites, TypeOK, Contents

(* The ends of runs. *)
LEMMA TypeInvEnd ==
  ASSUME TypeInv, NEW r \in Runs, Commit(r) \/ Rollback(r)
  PROVE  TypeInv'
<1> USE DEF TypeInv, origin, fetch, db, seen, history
<1>1. pc[r] = "next" /\ todo[r] = <<>>
  BY DEF Commit, Rollback
<1>2. NoRows \in [Rows -> Contents] /\ NothingShown \in [CacheUrls -> Contents]
  BY DEF NoRows, NothingShown, Contents
<1>3. PICK to \in {"done", "failed"} : End(r, to)
  BY DEF Commit, Rollback
<1>4. /\ pc' = [pc EXCEPT ![r] = to]
      /\ pc' \in [Runs -> Places] /\ writes' \in [Runs -> [Rows -> Contents]]
      /\ aborted' \in [Runs -> BOOLEAN] /\ errors' \in [Runs -> BOOLEAN]
      /\ shown' \in [Runs -> [CacheUrls -> Contents]] /\ visited' \in [Runs -> SUBSET Jobs]
      /\ \A q \in Runs \ {r} : writes'[q] = writes[q]
  BY <1>2, <1>3 DEF End, Goto, TypeOK, Places
<1>5. PlaceOK'
  <2>1. UNCHANGED <<todo, got>>
    BY DEF Commit, Rollback
  <2>2. got[r] = NoHash
    BY <1>1 DEF PlaceOK
  <2> QED
    BY <1>1, <1>4, <2>1, <2>2 DEF PlaceOK, Url, Job, TypeOK
<1>6. /\ table' \in [Rows -> Contents]
      /\ stored' \in [CacheUrls -> SUBSET Hashes]
      /\ lost' \in [CacheUrls -> SUBSET Hashes]
  <2>1. CASE Commit(r)
    <3>1. writes[r] \in [Rows -> Contents] /\ table \in [Rows -> Contents]
      BY DEF TypeOK
    <3>2. table' \in [Rows -> Contents]
      BY <2>1, <3>1 DEF Commit
    <3>3. \A u \in CacheUrls : writes[r][Raw(u)] \in Contents
      BY <3>1, RawIsRow
    <3>4. stored' \in [CacheUrls -> SUBSET Hashes]
      BY <2>1, <3>3 DEF Commit, TypeOK, Contents
    <3> QED
      BY <2>1, <3>2, <3>4 DEF Commit, TypeOK
  <2>2. CASE Rollback(r)
    BY <2>2, LoseWritesIsTyped DEF Rollback, TypeOK
  <2> QED
    BY <2>1, <2>2
<1>7. TypeOK' /\ CacheOK'
  BY <1>4, <1>6 DEF Commit, Rollback, TypeOK, Places, CacheOK
<1> QED
  BY <1>5, <1>7

(* The process, the server and the clock. *)
LEMMA AgingKeeps ==
  ASSUME TypeInv, EntryAges
  PROVE  /\ GoodCache(cache') /\ Len(cache') = Len(cache)
         /\ \A k \in 1..Len(cache) : /\ cache'[k].url = cache[k].url /\ cache'[k].etag = cache[k].etag
                                     /\ cache'[k].hash = cache[k].hash
<1> PICK i \in 1..Len(cache) : cache' = [cache EXCEPT ![i].aged = TRUE]
  BY DEF EntryAges
<1>1. cache \in Seq(Entries) /\ cache[i] \in Entries /\ GoodCache(cache)
  BY EntryIsTyped, GoodCacheFromInv DEF TypeInv, TypeOK, Caches
<1>2. [cache[i] EXCEPT !.aged = TRUE] \in Entries
  BY <1>1 DEF Entries
<1>3. cache' \in Seq(Entries) /\ Len(cache') = Len(cache)
  BY <1>1, <1>2
<1>4. \A k \in 1..Len(cache) : /\ cache'[k].url = cache[k].url /\ cache'[k].etag = cache[k].etag
                               /\ cache'[k].hash = cache[k].hash
  BY <1>1, EntryIsTyped DEF Caches, Entries
<1> QED
  BY <1>1, <1>3, <1>4 DEF GoodCache, Caches, OnePerUrl

LEMMA TypeInvOutside ==
  ASSUME TypeInv, Crash \/ PageChanges \/ EntryAges
  PROVE  TypeInv'
<1> USE DEF TypeInv, origin, fetch, db, seen, history
<1>1. CASE Crash
  <2>1. cache' \in Caches /\ Len(cache') = 0
    BY <1>1 DEF Crash, Caches
  <2>2. NoRows \in [Rows -> Contents] /\ NothingShown \in [CacheUrls -> Contents]
    BY DEF NoRows, NothingShown, Contents
  <2>3. lost' \in [CacheUrls -> SUBSET Hashes]
    BY <1>1, LoseWritesIsTyped DEF Crash
  <2>4. TypeOK'
    BY <1>1, <2>1, <2>2, <2>3 DEF Crash, TypeOK, Contents
  <2>5. PlaceOK' /\ CacheOK'
    BY <1>1, <2>1, CacheAssumption DEF Crash, PlaceOK, CacheOK, OnePerUrl, Over, TypeOK
  <2> QED
    BY <2>4, <2>5
<1>2. CASE PageChanges
  <2>1. TypeOK'
    BY <1>2, PlansAssumption DEF PageChanges, TypeOK
  <2>2. PlaceOK' /\ CacheOK'
    BY <1>2 DEF PageChanges, PlaceOK, CacheOK, Url, Job
  <2> QED
    BY <2>1, <2>2
<1>3. CASE EntryAges
  <2>1. GoodCache(cache')
    BY <1>3, AgingKeeps
  <2>2. TypeOK'
    BY <1>3, <2>1, GoodCacheIsOK DEF EntryAges, TypeOK
  <2>3. PlaceOK'
    BY <1>3 DEF EntryAges, PlaceOK, Url, Job
  <2> QED
    BY <2>1, <2>2, <2>3, GoodCacheIsOK
<1> QED
  BY <1>1, <1>2, <1>3

LEMMA TypeInvStutter == ASSUME TypeInv, UNCHANGED vars PROVE TypeInv'
BY DEF vars, origin, fetch, db, seen, history, TypeInv, TypeOK, PlaceOK, CacheOK, Url, Job

LEMMA TypeInvInvariance == Spec => []TypeInv
<1>1. ASSUME TypeInv, [Next]_vars PROVE TypeInv'
  <2>1. CASE \E r \in Runs : Run(r)
    BY <1>1, <2>1, TypeInvQuiet, TypeInvCache, TypeInvStore, TypeInvEnd DEF Run
  <2>2. CASE Crash \/ PageChanges \/ EntryAges
    BY <1>1, <2>2, TypeInvOutside
  <2>3. CASE UNCHANGED vars
    BY <1>1, <2>3, TypeInvStutter
  <2> QED
    BY <1>1, <2>1, <2>2, <2>3 DEF Next, Terminated
<1> QED
  BY TypeInvInit, <1>1, PTL DEF Spec

(* Every reachable state is well typed. *)
THEOREM IncrementalTypeCorrect == Spec => []TypeOK
BY TypeInvInvariance, PTL DEF TypeInv

-----------------------------------------------------------------------------
(* A step of a run leaves the other runs alone. *)
LEMMA OthersAlone ==
  ASSUME TypeInv, NEW r \in Runs, Run(r), NEW q \in Runs \ {r}
  PROVE  /\ pc'[q] = pc[q] /\ todo'[q] = todo[q] /\ got'[q] = got[q] /\ header'[q] = header[q]
         /\ writes'[q] = writes[q] /\ shown'[q] = shown[q]
<1> USE DEF TypeInv, TypeOK, Goto, origin, fetch, db, seen, history
<1>1. CASE Start(r) \/ BeginFetch(r)
  BY <1>1 DEF Start, BeginFetch
<1>2. CASE Skip(r) \/ RenderFails(r) \/ NoPage(r)
  BY <1>2 DEF Skip, RenderFails, NoPage, NextJob, Shows
<1>3. CASE Page(r) \/ Refused(r) \/ Rendered(r) \/ Browse(r)
  BY <1>3 DEF Page, Refused, Rendered, Browse, Shows, Hand
<1>4. CASE StoreRaw(r) \/ StoreItems(r) \/ CollectFails(r)
  BY <1>4 DEF StoreRaw, StoreItems, CollectFails, Upsert, NextJob
<1>5. CASE Commit(r) \/ Rollback(r)
  BY <1>5 DEF Commit, Rollback, End
<1> QED
  BY <1>1, <1>2, <1>3, <1>4, <1>5 DEF Run

(* What is known to be stored or lost stays so. *)
LEMMA HistoryGrows ==
  ASSUME TypeInv, NEW r \in Runs, Run(r), NEW u \in CacheUrls
  PROVE  stored[u] \subseteq stored'[u] /\ lost[u] \subseteq lost'[u]
<1> USE DEF TypeInv, TypeOK, history
<1>1. CASE \/ Start(r) \/ BeginFetch(r) \/ Skip(r) \/ RenderFails(r) \/ NoPage(r)
           \/ Page(r) \/ Refused(r) \/ Browse(r) \/ StoreItems(r)
  BY <1>1 DEF Start, BeginFetch, Skip, RenderFails, NoPage, Page, Refused, Browse, StoreItems
<1>2. CASE Rendered(r) \/ StoreRaw(r) \/ CollectFails(r)
  <2>1. stored' = stored /\ (lost' = lost \/ \E s : lost' = [lost EXCEPT ![Url(r)] = lost[Url(r)] \cup s])
    BY <1>2 DEF Rendered, StoreRaw, CollectFails
  <2> QED
    BY <2>1
<1>3. CASE Commit(r) \/ Rollback(r)
  BY <1>3 DEF Commit, Rollback, LoseWrites
<1> QED
  BY <1>1, <1>2, <1>3 DEF Run

(* The content v of u is stored, lost, or in the hands of a run. *)
Known(u, v) == v \in stored[u] \/ v \in lost[u] \/ \E r \in Runs : HeldBy(r, u, v)

(* A run that moves on keeps what it holds, or it is known where it went. *)
LEMMA HeldIsKnown ==
  ASSUME TypeInv, NEW r \in Runs, Run(r), NEW u \in CacheUrls, NEW v \in Hashes, HeldBy(r, u, v)
  PROVE  v \in stored'[u] \/ v \in lost'[u] \/ HeldBy(r, u, v)'
<1> USE DEF TypeInv, Goto, origin, fetch, db, seen, history
<1>1. v # NoHash /\ Raw(u) \in Rows
  BY CacheAssumption, RawIsRow
<1>2. CASE Start(r) \/ BeginFetch(r) \/ Skip(r) \/ Page(r) \/ Browse(r) \/ NoPage(r)
  <2>1. got[r] = NoHash
    BY <1>2 DEF Start, BeginFetch, Skip, Page, Browse, NoPage, PlaceOK
  <2>2. writes' = writes
    BY <1>2 DEF Start, BeginFetch, Skip, Page, Browse, NoPage
  <2> QED
    BY <1>1, <2>1, <2>2 DEF HeldBy
<1>3. CASE Refused(r)
  BY <1>3 DEF Refused, HeldBy, Url, Job
<1>4. CASE RenderFails(r)
  BY <1>1, <1>4 DEF RenderFails, HeldBy, Url, Job
<1>5. CASE Rendered(r)
  <2>1. todo' = todo /\ writes' = writes /\ got' = [got EXCEPT ![r] = page[Url(r)]]
    BY <1>5 DEF Rendered, Hand
  <2>2. CASE writes[r][Raw(u)] = v
    BY <2>1, <2>2 DEF HeldBy
  <2>3. CASE got[r] = v /\ Url(r) = u
    <3>1. CASE page[u] = v
      BY <2>1, <2>3, <3>1 DEF HeldBy, Url, Job, TypeOK
    <3>2. CASE page[u] # v
      BY <1>1, <1>5, <2>3, <3>2 DEF Rendered, TypeOK
    <3> QED
      BY <3>1, <3>2
  <2> QED
    BY <2>2, <2>3 DEF HeldBy
<1>6. CASE StoreRaw(r)
  <2>1. todo' = todo /\ got' = got /\ Upsert(r, Raw(Url(r))) /\ todo[r] # <<>>
    BY <1>6 DEF StoreRaw, PlaceOK
  <2>2. Url(r) \in CacheUrls /\ Raw(Url(r)) \in Rows
    BY <2>1, JobIsTyped, RawIsRow
  <2>3. CASE got[r] = v /\ Url(r) = u
    BY <2>1, <2>3 DEF HeldBy, Url, Job
  <2>4. CASE writes[r][Raw(u)] = v /\ Url(r) # u
    BY <1>1, <2>1, <2>2, <2>4, UpsertWrites, RawIsInjective DEF HeldBy
  <2>5. CASE writes[r][Raw(u)] = v /\ Url(r) = u /\ got[r] # v
    BY <1>1, <1>6, <2>5 DEF StoreRaw, TypeOK
  <2> QED
    BY <2>3, <2>4, <2>5 DEF HeldBy
<1>7. CASE StoreItems(r)
  <2>1. Upsert(r, Job(r)) /\ todo[r] # <<>>
    BY <1>7 DEF StoreItems, PlaceOK
  <2>2. Job(r) \in Rows /\ Job(r) # Raw(u)
    BY <2>1, JobIsTyped, RowsOfJobs
  <2>3. writes[r][Raw(u)] = v
    BY <1>7 DEF StoreItems, HeldBy, PlaceOK
  <2> QED
    BY <1>1, <2>1, <2>2, <2>3, UpsertWrites DEF HeldBy
<1>8. CASE CollectFails(r)
  <2>1. writes' = writes
    BY <1>8 DEF CollectFails
  <2>2. CASE writes[r][Raw(u)] = v
    BY <2>1, <2>2 DEF HeldBy
  <2>3. CASE writes[r][Raw(u)] # v
    <3>1. got[r] = v /\ Url(r) = u /\ pc[r] = "got"
      BY <1>8, <2>3 DEF CollectFails, HeldBy, PlaceOK
    <3> QED
      BY <1>8, <3>1 DEF CollectFails, TypeOK
  <2> QED
    BY <2>2, <2>3
<1>9. CASE Commit(r) \/ Rollback(r)
  <2>1. writes[r][Raw(u)] = v
    BY <1>1, <1>9 DEF Commit, Rollback, HeldBy, PlaceOK
  <2> QED
    BY <1>1, <1>9, <2>1 DEF Commit, Rollback, LoseWrites
<1> QED
  BY <1>2, <1>3, <1>4, <1>5, <1>6, <1>7, <1>8, <1>9 DEF Run

LEMMA KnownKept ==
  ASSUME TypeInv, NEW r \in Runs, Run(r), NEW u \in CacheUrls, NEW v \in Hashes, Known(u, v)
  PROVE  Known(u, v)'
<1>1. CASE v \in stored[u] \/ v \in lost[u]
  BY <1>1, HistoryGrows DEF Known
<1>2. CASE HeldBy(r, u, v)
  BY <1>2, HeldIsKnown DEF Known
<1>3. CASE \E q \in Runs \ {r} : HeldBy(q, u, v)
  <2> PICK q \in Runs \ {r} : HeldBy(q, u, v)
    BY <1>3
  <2>1. HeldBy(q, u, v)'
    BY OthersAlone DEF HeldBy, Url, Job
  <2> QED
    BY <2>1 DEF Known
<1> QED
  BY <1>1, <1>2, <1>3 DEF Known

(* Every entry of the cache is of known contents. *)
LEMMA AccountedIsKnown ==
  CachedPagesAreAccountedFor <=>
    \A i \in 1..Len(cache) : \A v : v \in {cache[i].etag, cache[i].hash} /\ v # NoHash => Known(cache[i].url, v)
BY DEF CachedPagesAreAccountedFor, Known

(* What the entries of the next cache must respect. *)
LEMMA KnownEntries ==
  ASSUME GoodCache(cache'),
         \A i \in 1..Len(cache') : \A v \in Hashes : \A u \in CacheUrls :
           u = cache'[i].url /\ v \in {cache'[i].etag, cache'[i].hash} => Known(u, v)'
  PROVE  CachedPagesAreAccountedFor'
<1>1. \A i \in 1..Len(cache') : cache'[i] \in Entries
  BY EntryIsTyped DEF GoodCache
<1> QED
  BY <1>1 DEF CachedPagesAreAccountedFor, Known, Entries

(* What the model's store writes, for contents that are hashes or none. *)
LEMMA EntriesOfStore ==
  ASSUME GoodCache(cache), NEW u \in CacheUrls, NEW t \in Contents, NEW k \in Controls,
         NEW h \in Contents, cache' = Store(cache, u, t, k, h)
  PROVE  AsStored(cache', cache, u, t, h)
<1>1. t \in Hashes \cup {NoHash} /\ h \in Hashes \cup {NoHash}
  BY DEF Contents
<1> QED
  BY <1>1, StoreIsGood

(* The entries of a cache that a run has changed. *)
LEMMA AccountedRun ==
  ASSUME TypeInv, CachedPagesAreAccountedFor, NEW r \in Runs, Run(r)
  PROVE  CachedPagesAreAccountedFor'
<1> DEFINE was(u, v) == \E j \in 1..Len(cache) : cache[j].url = u /\ v \in {cache[j].etag, cache[j].hash}
<1>1. \A u \in CacheUrls : \A v \in Hashes : was(u, v) => Known(u, v)'
  <2> SUFFICES ASSUME NEW u \in CacheUrls, NEW v \in Hashes, was(u, v)
               PROVE  Known(u, v)'
    OBVIOUS
  <2>1. Known(u, v)
    BY AccountedIsKnown, CacheAssumption
  <2> QED
    BY <2>1, KnownKept
<1>2. GoodCache(cache)
  BY GoodCacheFromInv
<1>3. CASE Page(r) \/ Refused(r)
  <2>1. GoodCache(cache') /\ todo[r] # <<>>
    BY <1>3, CacheStepIsTyped
  <2>2. Url(r) \in CacheUrls /\ page[Url(r)] \in Hashes
    BY <2>1, JobIsTyped DEF TypeInv, TypeOK
  <2> PICK u \in CacheUrls : u = Url(r)
    BY <2>2
  <2> PICK p \in Hashes : p = page[u]
    BY <2>2
  <2>3. PICK t \in Hashes \cup {NoHash}, k \in Controls, h \in Hashes \cup {NoHash} :
          /\ cache' = Store(cache, u, t, k, h)
          /\ t \in {NoHash, p} /\ h \in {NoHash, p}
          /\ (t = NoHash /\ h = NoHash) \/ Page(r)
    <3>1. CASE Page(r)
      BY <2>2, <3>1, PlansAssumption DEF Page
    <3>2. CASE Refused(r)
      BY <3>2 DEF Refused, Controls
    <3> QED
      BY <1>3, <3>1, <3>2
  <2>4. Page(r) => Known(u, p)'
    <3> SUFFICES ASSUME Page(r)
                 PROVE  Known(u, p)'
      OBVIOUS
    <3>1. got'[r] = p /\ todo' = todo
      BY DEF Page, Hand, TypeInv, TypeOK
    <3>2. HeldBy(r, u, p)'
      BY <3>1 DEF HeldBy, Url, Job
    <3> QED
      BY <3>2 DEF Known
  <2>5. AsStored(cache', cache, u, t, h)
    BY <1>2, <2>3, EntriesOfStore DEF Contents
  <2> SUFFICES ASSUME NEW i \in 1..Len(cache'), NEW v \in Hashes, NEW w \in CacheUrls,
                      w = cache'[i].url, v \in {cache'[i].etag, cache'[i].hash}
               PROVE  Known(w, v)'
    BY <2>1, KnownEntries
  <2>6. was(w, v) \/ (w = u /\ v \in {t, h})
    BY <2>5 DEF AsStored
  <2>7. v # NoHash
    BY CacheAssumption
  <2> HIDE DEF was
  <2> QED
    BY <1>1, <2>3, <2>4, <2>6, <2>7
<1>4. CASE Rendered(r)
  <2>1. GoodCache(cache') /\ Within(cache', cache)
    BY <1>2, <1>4, InvalidateIsGood DEF Rendered
  <2>2. \A i \in 1..Len(cache') : \A v \in {cache'[i].etag, cache'[i].hash} : was(cache'[i].url, v)
    BY <2>1 DEF Within
  <2> HIDE DEF was
  <2> QED
    BY <1>1, <2>1, <2>2, KnownEntries
<1>5. CASE cache' = cache
  <2>1. \A i \in 1..Len(cache') : \A v \in {cache'[i].etag, cache'[i].hash} : was(cache'[i].url, v)
    BY <1>5
  <2> HIDE DEF was
  <2> QED
    BY <1>1, <1>2, <1>5, <2>1, KnownEntries
<1>6. cache' = cache \/ Page(r) \/ Refused(r) \/ Rendered(r)
  BY DEF Run, Start, BeginFetch, Skip, RenderFails, Browse, NoPage, StoreRaw, StoreItems,
     CollectFails, Commit, Rollback
<1> QED
  BY <1>3, <1>4, <1>5, <1>6

LEMMA AccountedInvariance == Spec => [](TypeInv /\ CachedPagesAreAccountedFor)
<1>1. Init => CachedPagesAreAccountedFor
  BY DEF Init, CachedPagesAreAccountedFor
<1>2. ASSUME TypeInv, CachedPagesAreAccountedFor, [Next]_vars PROVE CachedPagesAreAccountedFor'
  <2>1. CASE \E r \in Runs : Run(r)
    BY <1>2, <2>1, AccountedRun
  <2>2. CASE Crash
    <3>1. Len(cache') = 0
      BY <2>2 DEF Crash
    <3> QED
      BY <3>1 DEF CachedPagesAreAccountedFor
  <2>3. CASE PageChanges \/ EntryAges \/ UNCHANGED vars
    <3>1. UNCHANGED <<todo, got, writes, stored, lost>>
      BY <2>3 DEF PageChanges, EntryAges, vars, fetch, db, history
    <3>2. \A u, v : Known(u, v) => Known(u, v)'
      BY <3>1 DEF Known, HeldBy, Url, Job
    <3>3. /\ GoodCache(cache') /\ Len(cache') = Len(cache)
          /\ \A k \in 1..Len(cache) : /\ cache'[k].url = cache[k].url /\ cache'[k].etag = cache[k].etag
                                      /\ cache'[k].hash = cache[k].hash
      <4>1. CASE EntryAges
        BY <1>2, <4>1, AgingKeeps
      <4>2. CASE PageChanges \/ UNCHANGED vars
        <5>1. cache' = cache
          BY <4>2 DEF PageChanges, vars
        <5> QED
          BY <1>2, <5>1, GoodCacheFromInv
      <4> QED
        BY <2>3, <4>1, <4>2
    <3> SUFFICES ASSUME NEW i \in 1..Len(cache'), NEW v \in Hashes, NEW u \in CacheUrls,
                        u = cache'[i].url, v \in {cache'[i].etag, cache'[i].hash}
                 PROVE  Known(u, v)'
      BY <3>3, KnownEntries
    <3>4. Known(u, v)
      BY <1>2, <3>3, AccountedIsKnown, CacheAssumption
    <3> QED
      BY <3>2, <3>4
  <2> QED
    BY <1>2, <2>1, <2>2, <2>3 DEF Next, Terminated
<1> QED
  BY TypeInvInvariance, <1>1, <1>2, PTL DEF Spec

(* What the shared cache vouches for was stored, is held by an open run, or
   was lost with a collect or a run that failed: for all sets of runs,
   modules, URLs and contents.                                             *)
THEOREM CachedPagesStayAccountedFor == Spec => []CachedPagesAreAccountedFor
BY AccountedInvariance, PTL

-----------------------------------------------------------------------------
(* What a run has of a URL and has not committed. *)
Latest(r, u) == IF got[r] # NoHash /\ Url(r) = u THEN got[r] ELSE writes[r][Raw(u)]

(* The content v that run r was shown is lost, or will be in the raw row
   when r has committed.                                                   *)
Backed(r, u, v) ==
  \/ v \in lost[u]
  \/ Latest(r, u) = v
  \/ Latest(r, u) = NoHash /\ table[Raw(u)] = v

(* A skip of u may be decided by v: the cache or a waiting fetch names it. *)
Waits(r, u, v) == pc[r] = "wait" /\ Url(r) = u /\ header[r] = v

Trusted(u, v) ==
  \/ \E i \in 1..Len(cache) : cache[i].url = u /\ v \in {cache[i].etag, cache[i].hash}
  \/ \E r \in Runs : Waits(r, u, v)

(* Such a v is lost, or an open run has it, or it is what is committed. *)
Vouched(u, v) ==
  \/ v \in lost[u]
  \/ \E r \in Runs : Latest(r, u) = v
  \/ table[Raw(u)] = v /\ \A r \in Runs : Latest(r, u) = NoHash

Settled(u) ==
  /\ \A r \in Runs : shown[r][u] # NoHash => Backed(r, u, shown[r][u])
  /\ \A v \in Hashes : Trusted(u, v) => Vouched(u, v)
  /\ \A r, q \in Runs : r # q => shown[r][u] = NoHash \/ shown[q][u] = NoHash

Plain(u) == u \notin crossed /\ u \notin mixed

(* Of each URL a run has only what it was shown; a URL of one open run at a
   time, never handed out beside another content, is settled.              *)
UrlInv(u) ==
  /\ \A r \in Runs : Latest(r, u) # NoHash => shown[r][u] # NoHash
  /\ Plain(u) => Settled(u)

CurrentInv == \A u \in CacheUrls : UrlInv(u)

(* A step that changes nothing of the URL, or lets the cache forget. *)
LEMMA UrlAlone ==
  ASSUME NEW u \in CacheUrls, UrlInv(u),
         crossed \subseteq crossed', mixed \subseteq mixed', lost[u] \subseteq lost'[u],
         table'[Raw(u)] = table[Raw(u)],
         \A q \in Runs : Latest(q, u)' = Latest(q, u) /\ shown'[q][u] = shown[q][u],
         \A v \in Hashes : Trusted(u, v)' => Trusted(u, v)
  PROVE  UrlInv(u)'
<1>1. (\A r \in Runs : Latest(r, u) # NoHash => shown[r][u] # NoHash)'
  BY DEF UrlInv
<1> SUFFICES ASSUME Plain(u)'
             PROVE  Settled(u)'
  BY <1>1 DEF UrlInv
<1>2. Settled(u)
  BY DEF UrlInv, Plain
<1>3. \A v : Vouched(u, v) => Vouched(u, v)'
  BY DEF Vouched
<1>4. (\A r \in Runs : shown[r][u] # NoHash => Backed(r, u, shown[r][u]))'
  BY <1>2 DEF Settled, Backed
<1> QED
  BY <1>2, <1>3, <1>4 DEF Settled

LEMMA MarksGrow ==
  ASSUME NEW r \in Runs, Run(r)
  PROVE  crossed \subseteq crossed' /\ mixed \subseteq mixed'
<1> USE DEF history
<1>1. CASE \/ Start(r) \/ BeginFetch(r) \/ Skip(r) \/ RenderFails(r) \/ NoPage(r) \/ Refused(r)
           \/ StoreItems(r) \/ StoreRaw(r) \/ CollectFails(r) \/ Commit(r) \/ Rollback(r)
  BY <1>1 DEF Start, BeginFetch, Skip, Shows, RenderFails, NoPage, Refused, StoreItems,
     StoreRaw, CollectFails, Commit, Rollback
<1>2. CASE Page(r) \/ Rendered(r) \/ Browse(r)
  BY <1>2 DEF Page, Rendered, Browse, Shows, Hand
<1> QED
  BY <1>1, <1>2 DEF Run

LEMMA LatestOfOthers ==
  ASSUME TypeInv, NEW r \in Runs, Run(r), NEW q \in Runs \ {r}, NEW u \in CacheUrls
  PROVE  /\ Latest(q, u)' = Latest(q, u) /\ shown'[q][u] = shown[q][u]
         /\ \A v : Waits(q, u, v)' <=> Waits(q, u, v)
BY OthersAlone DEF Latest, Waits, Url, Job

(* Steps of r that leave r's part of the URL, its table row and cache alone. *)
LEMMA QuietRun ==
  ASSUME TypeInv, NEW r \in Runs, Run(r), NEW u \in CacheUrls, UrlInv(u),
         Latest(r, u)' = Latest(r, u), shown'[r][u] = shown[r][u],
         pc'[r] # "wait", table'[Raw(u)] = table[Raw(u)],
         \A i \in 1..Len(cache') : cache'[i].url = u =>
           \A v \in {cache'[i].etag, cache'[i].hash} \cap Hashes :
             \E j \in 1..Len(cache) : cache[j].url = u /\ v \in {cache[j].etag, cache[j].hash}
  PROVE  UrlInv(u)'
<1>1. \A q \in Runs : Latest(q, u)' = Latest(q, u) /\ shown'[q][u] = shown[q][u]
  BY LatestOfOthers
<1>2. \A v \in Hashes : Trusted(u, v)' => Trusted(u, v)
  <2> SUFFICES ASSUME NEW v \in Hashes, Trusted(u, v)'
               PROVE  Trusted(u, v)
    OBVIOUS
  <2>1. ASSUME NEW q \in Runs, Waits(q, u, v)' PROVE Waits(q, u, v)
    <3>1. q # r
      BY <2>1 DEF Waits
    <3> QED
      BY <2>1, <3>1, LatestOfOthers
  <2>2. ASSUME NEW i \in 1..Len(cache'), cache'[i].url = u, v \in {cache'[i].etag, cache'[i].hash}
        PROVE  \E j \in 1..Len(cache) : cache[j].url = u /\ v \in {cache[j].etag, cache[j].hash}
    BY <2>2
  <2> QED
    BY <2>1, <2>2 DEF Trusted
<1> QED
  BY <1>1, <1>2, UrlAlone, MarksGrow, HistoryGrows

(* Without content in hand before and after, only its rows count. *)
LEMMA LatestOfRows ==
  ASSUME NEW r \in Runs, NEW u \in CacheUrls, got[r] = NoHash, got'[r] = NoHash,
         writes'[r] = writes[r]
  PROVE  Latest(r, u)' = Latest(r, u)
BY DEF Latest

(* The steps that show the run nothing, store nothing anew and lose nothing. *)
LEMMA CurrentQuiet ==
  ASSUME TypeInv, NEW r \in Runs, NEW u \in CacheUrls, UrlInv(u),
         \/ Start(r) \/ RenderFails(r) \/ NoPage(r) \/ StoreRaw(r) \/ StoreItems(r)
         \/ CollectFails(r) /\ pc[r] = "raw"
  PROVE  UrlInv(u)'
<1> USE DEF TypeInv, origin, fetch, db, seen, history
<1>1. Run(r) /\ cache' = cache /\ table' = table /\ shown' = shown
  BY DEF Run, Start, RenderFails, NoPage, StoreRaw, StoreItems, CollectFails, Upsert
<1>2. pc'[r] # "wait"
  BY DEF Start, RenderFails, NoPage, StoreRaw, StoreItems, CollectFails, NextJob, Goto, TypeOK
<1>3. Raw(u) \in Rows
  BY RawIsRow
<1>4. Latest(r, u)' = Latest(r, u)
  <2>1. CASE Start(r) \/ NoPage(r)
    <3>1. got[r] = NoHash /\ got'[r] = NoHash /\ writes' = writes
      BY <2>1 DEF Start, NoPage, NextJob, PlaceOK, TypeOK
    <3> QED
      BY <3>1, LatestOfRows
  <2>2. CASE RenderFails(r)
    <3>1. CASE got[r] = NoHash
      <4>1. got'[r] = NoHash /\ writes' = writes
        BY <2>2, <3>1 DEF RenderFails, NextJob, TypeOK
      <4> QED
        BY <3>1, <4>1, LatestOfRows
    <3>2. CASE got[r] # NoHash
      BY <2>2, <3>2 DEF RenderFails, Latest, Url, Job
    <3> QED
      BY <3>1, <3>2
  <2>3. CASE StoreRaw(r)
    <3>1. todo' = todo /\ got' = got /\ Upsert(r, Raw(Url(r))) /\ todo[r] # <<>> /\ got[r] # NoHash
      BY <2>3 DEF StoreRaw, PlaceOK
    <3>2. Url(r) \in CacheUrls /\ Raw(Url(r)) \in Rows
      BY <3>1, JobIsTyped, RawIsRow
    <3>3. u # Url(r) => writes'[r][Raw(u)] = writes[r][Raw(u)]
      BY <1>3, <3>1, <3>2, UpsertWrites, RawIsInjective
    <3> QED
      BY <3>1, <3>3 DEF Latest, Url, Job
  <2>4. CASE StoreItems(r)
    <3>1. Upsert(r, Job(r)) /\ todo[r] # <<>> /\ got'[r] = NoHash
      BY <2>4 DEF StoreItems, PlaceOK, NextJob, TypeOK
    <3>2. Job(r) \in Rows /\ Job(r) # Raw(u)
      BY <3>1, JobIsTyped, RowsOfJobs
    <3>3. writes'[r][Raw(u)] = writes[r][Raw(u)]
      BY <1>3, <3>1, <3>2, UpsertWrites
    <3>4. got[r] = writes[r][Raw(Url(r))]
      BY <2>4 DEF StoreItems, PlaceOK
    <3> QED
      BY <3>1, <3>3, <3>4 DEF Latest
  <2>5. CASE CollectFails(r) /\ pc[r] = "raw"
    <3>1. got'[r] = NoHash /\ writes' = writes
      BY <2>5 DEF CollectFails, NextJob, TypeOK
    <3>2. got[r] = writes[r][Raw(Url(r))]
      BY <2>5 DEF PlaceOK
    <3> QED
      BY <3>1, <3>2 DEF Latest
  <2> QED
    BY <2>1, <2>2, <2>3, <2>4, <2>5
<1> HIDE DEF TypeInv
<1> QED
  BY <1>1, <1>2, <1>4, QuietRun

(* Reads of the cache, and answers without validators. *)
LEMMA CurrentBegin ==
  ASSUME TypeInv, NEW r \in Runs, NEW u \in CacheUrls, UrlInv(u), BeginFetch(r)
  PROVE  UrlInv(u)'
<1> USE DEF fetch, db, seen, history
<1>1. Run(r) /\ UNCHANGED <<cache, todo, got, writes, table, shown>>
  BY DEF Run, BeginFetch
<1>2. \A q \in Runs : Latest(q, u)' = Latest(q, u)
  BY <1>1 DEF Latest, Url, Job
<1>3. \A v \in Hashes : Waits(r, u, v)' => Trusted(u, v)
  <2> SUFFICES ASSUME NEW v \in Hashes, Waits(r, u, v)'
               PROVE  Trusted(u, v)
    OBVIOUS
  <2>1. v = ConditionalHeader(cache, u)
    BY <1>1 DEF BeginFetch, Waits, Url, Job, TypeInv, TypeOK
  <2>2. Cached(cache, u) /\ v = Get(cache, u).etag
    BY <2>1, CacheAssumption DEF ConditionalHeader
  <2> QED
    BY <2>2, PositionIsIndex DEF Get, Trusted
<1>4. \A v \in Hashes : Trusted(u, v)' => Trusted(u, v)
  BY <1>1, <1>3, LatestOfOthers DEF Trusted
<1> QED
  BY <1>1, <1>2, <1>4, UrlAlone, MarksGrow, HistoryGrows

LEMMA CurrentRefused ==
  ASSUME TypeInv, NEW r \in Runs, NEW u \in CacheUrls, UrlInv(u), Refused(r)
  PROVE  UrlInv(u)'
<1> USE DEF origin, fetch, db, seen, history
<1>1. Run(r) /\ UNCHANGED <<todo, got, writes, table, shown>> /\ pc'[r] # "wait"
  BY DEF Run, Refused, Goto, TypeInv, TypeOK
<1>2. Latest(r, u)' = Latest(r, u)
  BY <1>1 DEF Latest, Url, Job
<1>3. GoodCache(cache) /\ Url(r) \in CacheUrls
  BY GoodCacheFromInv, CacheStepIsTyped, JobIsTyped DEF TypeInv
<1> PICK w \in CacheUrls : w = Url(r)
  BY <1>3
<1>4. AsStored(cache', cache, w, NoHash, NoHash)
  <2>1. cache' = Store(cache, w, NoHash, "none", NoHash) /\ NoHash \in Contents /\ "none" \in Controls
    BY DEF Refused, Contents, Controls
  <2> QED
    BY <1>3, <2>1, EntriesOfStore
<1>5. \A i \in 1..Len(cache') : cache'[i].url = u =>
        \A v \in {cache'[i].etag, cache'[i].hash} \cap Hashes :
          \E j \in 1..Len(cache) : cache[j].url = u /\ v \in {cache[j].etag, cache[j].hash}
  BY <1>4, CacheAssumption DEF AsStored
<1> QED
  BY <1>1, <1>2, <1>5, QuietRun

(* A URL is shown to a run and stays plain: no other open run is about it. *)
LEMMA AloneWithUrl ==
  ASSUME TypeInv, NEW r \in Runs, NEW u \in CacheUrls, u = Url(r), UrlInv(u), Shows(r), Plain(u)'
  PROVE  \A q \in Runs \ {r} :
           shown[q][u] = NoHash /\ Latest(q, u) = NoHash /\ \A v : ~Waits(q, u, v)
<1>1. \A q \in Runs \ {r} : ~Touches(q, u)
  BY DEF Shows, Plain
<1> QED
  BY <1>1 DEF Touches, Waits, UrlInv

LEMMA ShownIs ==
  ASSUME TypeOK, NEW r \in Runs, todo[r] # <<>>, Shows(r), NEW u \in CacheUrls
  PROVE  shown'[r][u] = IF u = Url(r) THEN page[u] ELSE shown[r][u]
<1>1. shown' = [shown EXCEPT ![r] = [shown[r] EXCEPT ![Url(r)] = page[Url(r)]]]
  BY DEF Shows
<1>2. shown[r] \in [CacheUrls -> Contents] /\ shown \in [Runs -> [CacheUrls -> Contents]]
  BY DEF TypeOK
<1> QED
  BY <1>1, <1>2

(* The URL that is shown: the run gets the page, or skips it as trusted. *)
LEMMA ShownUrl ==
  ASSUME TypeInv, NEW r \in Runs, Run(r), NEW u \in CacheUrls, u = Url(r), todo[r] # <<>>, Shows(r),
         UrlInv(u), NEW p \in Hashes, p = page[u], table' = table, pc'[r] # "wait",
         Plain(u)' =>
           \/ /\ Latest(r, u)' = p
              /\ \A i \in 1..Len(cache') : cache'[i].url = u => {cache'[i].etag, cache'[i].hash} \subseteq {p, NoHash}
           \/ Latest(r, u)' = Latest(r, u) /\ cache' = cache /\ Trusted(u, p)
  PROVE  UrlInv(u)'
<1>1. p # NoHash /\ shown'[r][u] = p
  BY CacheAssumption, ShownIs DEF TypeInv
<1>2. (\A q \in Runs : Latest(q, u) # NoHash => shown[q][u] # NoHash)'
  BY <1>1, LatestOfOthers DEF UrlInv
<1> SUFFICES ASSUME Plain(u)'
             PROVE  Settled(u)'
  BY <1>2 DEF UrlInv
<1>3. \A q \in Runs \ {r} : /\ shown'[q][u] = NoHash /\ Latest(q, u) = NoHash /\ Latest(q, u)' = NoHash
                            /\ \A v : ~Waits(q, u, v)'
  BY AloneWithUrl, LatestOfOthers
<1>4. \A q \in Runs : \A v : ~Waits(q, u, v)'
  BY <1>3 DEF Waits
<1>5. Settled(u)
  BY MarksGrow DEF UrlInv, Plain
<1>6. lost[u] \subseteq lost'[u]
  BY HistoryGrows
<1>7. (\A q, s \in Runs : q # s => shown[q][u] = NoHash \/ shown[s][u] = NoHash)'
  BY <1>3
<1>8. CASE /\ Latest(r, u)' = p
           /\ \A i \in 1..Len(cache') : cache'[i].url = u => {cache'[i].etag, cache'[i].hash} \subseteq {p, NoHash}
  <2>1. (\A q \in Runs : shown[q][u] # NoHash => Backed(q, u, shown[q][u]))'
    BY <1>1, <1>3, <1>8 DEF Backed
  <2>2. Vouched(u, p)'
    BY <1>8 DEF Vouched
  <2>3. (\A v \in Hashes : Trusted(u, v) => Vouched(u, v))'
    <3> SUFFICES ASSUME NEW v \in Hashes, Trusted(u, v)'
                 PROVE  Vouched(u, v)'
      OBVIOUS
    <3>1. v = p
      BY <1>4, <1>8, CacheAssumption DEF Trusted
    <3> QED
      BY <2>2, <3>1
  <2> QED
    BY <1>7, <2>1, <2>3 DEF Settled
<1>9. CASE Latest(r, u)' = Latest(r, u) /\ cache' = cache /\ Trusted(u, p)
  <2>1. \A q \in Runs : Latest(q, u)' = Latest(q, u)
    BY <1>3, <1>9
  <2>2. Vouched(u, p)
    BY <1>5, <1>9 DEF Settled
  <2>3. Backed(r, u, p)
    BY <1>1, <1>3, <2>2 DEF Vouched, Backed
  <2>4. Backed(r, u, p)'
    BY <1>6, <1>9, <2>3 DEF Backed
  <2>5. (\A q \in Runs : shown[q][u] # NoHash => Backed(q, u, shown[q][u]))'
    <3>1. ASSUME NEW q \in Runs, shown'[q][u] # NoHash
          PROVE  q = r
      BY <1>3, <3>1
    <3> QED
      BY <1>1, <2>4, <3>1 DEF Backed
  <2>6. (\A v \in Hashes : Trusted(u, v) => Vouched(u, v))'
    <3> SUFFICES ASSUME NEW v \in Hashes, Trusted(u, v)'
                 PROVE  Vouched(u, v)'
      OBVIOUS
    <3>1. Trusted(u, v)
      BY <1>4, <1>9 DEF Trusted
    <3>2. Vouched(u, v)
      BY <1>5, <3>1 DEF Settled
    <3> QED
      BY <1>6, <2>1, <3>2 DEF Vouched
  <2> QED
    BY <1>7, <2>5, <2>6 DEF Settled
<1> QED
  BY <1>8, <1>9

LEMMA HandedIsNamed ==
  ASSUME NEW r \in Runs, NEW u \in CacheUrls, u = Url(r), NEW p, Hand(r, p), Plain(u)', GoodCache(cache')
  PROVE  \A i \in 1..Len(cache') : cache'[i].url = u => {cache'[i].etag, cache'[i].hash} \subseteq {p, NoHash}
<1> SUFFICES ASSUME NEW i \in 1..Len(cache'), cache'[i].url = u
             PROVE  {cache'[i].etag, cache'[i].hash} \subseteq {p, NoHash}
  OBVIOUS
<1>1. Cached(cache', u)
  BY DEF Cached
<1>2. Position(cache', u) \in 1..Len(cache') /\ cache'[Position(cache', u)].url = u
  BY <1>1, PositionIsIndex
<1>3. Position(cache', u) = i
  BY <1>2 DEF GoodCache, OnePerUrl
<1>4. Named(cache', u) \subseteq {p}
  BY DEF Hand, Plain
<1> QED
  BY <1>1, <1>3, <1>4 DEF Named, Get

(* The steps in which the server shows its page. *)
LEMMA CurrentShown ==
  ASSUME TypeInv, NEW r \in Runs, NEW u \in CacheUrls, UrlInv(u),
         Skip(r) \/ Page(r) \/ Rendered(r) \/ Browse(r)
  PROVE  UrlInv(u)'
<1> USE DEF origin, fetch, db, seen, history
<1>1. Run(r) /\ Shows(r) /\ todo[r] # <<>> /\ writes' = writes /\ table' = table
  BY DEF Run, Skip, Page, Rendered, Browse, TypeInv, PlaceOK
<1>2. pc'[r] # "wait"
  BY DEF Skip, Page, Rendered, Browse, NextJob, Goto, TypeInv, TypeOK
<1>3. page[Url(r)] \in Hashes /\ Url(r) \in CacheUrls /\ GoodCache(cache)
  BY <1>1, JobIsTyped, GoodCacheFromInv DEF TypeInv, TypeOK
<1> PICK w \in CacheUrls, p \in Hashes : w = Url(r) /\ p = page[w]
  BY <1>3
<1>4. shown'[r][u] = IF u = w THEN p ELSE shown[r][u]
  BY <1>1, ShownIs DEF TypeInv
<1>5. CASE Skip(r)
  <2>1. cache' = cache /\ got[r] = NoHash /\ got'[r] = NoHash
    BY <1>5 DEF Skip, NextJob, TypeInv, TypeOK, PlaceOK
  <2>2. Latest(r, u)' = Latest(r, u)
    BY <1>1, <2>1, LatestOfRows
  <2>3. Trusted(w, p)
    <3>1. CASE header[r] = p
      BY <1>5, <3>1 DEF Skip, Trusted, Waits
    <3>2. CASE SameHash(r)
      <4>1. Cached(cache, w) /\ Get(cache, w).hash = p
        BY <3>2 DEF SameHash
      <4> QED
        BY <4>1, PositionIsIndex DEF Get, Trusted
    <3> QED
      BY <1>5, <3>1, <3>2 DEF Skip
  <2>4. CASE u = w
    BY <1>1, <1>2, <2>1, <2>2, <2>3, <2>4, ShownUrl
  <2>5. CASE u # w
    BY <1>1, <1>2, <1>4, <2>1, <2>2, <2>5, QuietRun
  <2> QED
    BY <2>4, <2>5
<1>6. CASE Page(r) \/ Rendered(r) \/ Browse(r)
  <2>1. todo' = todo /\ Hand(r, p)
    BY <1>6 DEF Page, Rendered, Browse
  <2>2. got'[r] = p /\ p # NoHash
    BY <2>1, CacheAssumption DEF Hand, TypeInv, TypeOK
  <2>3. GoodCache(cache')
    BY <1>3, <1>6, CacheStepIsTyped DEF Browse
  <2>4. CASE u = w
    <3>1. Latest(r, u)' = p
      BY <2>1, <2>2, <2>4 DEF Latest, Url, Job
    <3>2. Plain(u)' => \A i \in 1..Len(cache') : cache'[i].url = u => {cache'[i].etag, cache'[i].hash} \subseteq {p, NoHash}
      BY <2>1, <2>3, <2>4, HandedIsNamed
    <3> QED
      BY <1>1, <1>2, <2>4, <3>1, <3>2, ShownUrl
  <2>5. CASE u # w
    <3>1. Latest(r, u)' = Latest(r, u)
      BY <1>1, <2>1, <2>5 DEF Latest, Url, Job
    <3>2. \A i \in 1..Len(cache') : cache'[i].url = u => \E j \in 1..Len(cache) : cache'[i] = cache[j]
      <4>1. CASE Page(r)
        <5>1. PICK t \in Contents, k \in Controls : cache' = Store(cache, w, t, k, p)
          BY <1>3, <4>1, PlansAssumption DEF Page, Contents
        <5>2. AsStored(cache', cache, w, t, p)
          BY <1>3, <5>1, EntriesOfStore DEF Contents
        <5> QED
          BY <2>5, <5>2 DEF AsStored
      <4>2. CASE Rendered(r)
        <5>1. Within(cache', cache)
          BY <1>3, <4>2, InvalidateIsGood DEF Rendered
        <5> QED
          BY <5>1 DEF Within
      <4>3. CASE Browse(r)
        BY <4>3 DEF Browse
      <4> QED
        BY <1>6, <4>1, <4>2, <4>3
    <3>3. \A i \in 1..Len(cache') : cache'[i].url = u =>
            \A v \in {cache'[i].etag, cache'[i].hash} \cap Hashes :
              \E j \in 1..Len(cache) : cache[j].url = u /\ v \in {cache[j].etag, cache[j].hash}
      BY <3>2
    <3> QED
      BY <1>1, <1>2, <1>4, <2>5, <3>1, <3>3, QuietRun
  <2> QED
    BY <2>4, <2>5
<1> QED
  BY <1>5, <1>6

(* A collect that fails before its page is stored loses the page. *)
LEMMA CurrentFailed ==
  ASSUME TypeInv, NEW r \in Runs, NEW u \in CacheUrls, UrlInv(u), CollectFails(r), pc[r] = "got"
  PROVE  UrlInv(u)'
<1>1. Run(r) /\ UNCHANGED <<cache, writes, table, shown>> /\ pc'[r] # "wait" /\ got'[r] = NoHash
  BY DEF Run, CollectFails, seen, NextJob, Goto, TypeInv, TypeOK
<1>2. got[r] # NoHash
  BY DEF TypeInv, PlaceOK
<1>3. CASE u # Url(r)
  <2>1. Latest(r, u)' = Latest(r, u)
    BY <1>1, <1>3 DEF Latest
  <2> QED
    BY <1>1, <2>1, QuietRun
<1>4. CASE u = Url(r)
  <2>1. Latest(r, u) = got[r] /\ got[r] \in lost'[u]
    BY <1>2, <1>4 DEF Latest, CollectFails, TypeInv, TypeOK
  <2>2. (\A q \in Runs : Latest(q, u) # NoHash => shown[q][u] # NoHash)'
    BY <1>1, <1>2, <2>1, LatestOfOthers DEF UrlInv
  <2> SUFFICES ASSUME Plain(u)'
               PROVE  Settled(u)'
    BY <2>2 DEF UrlInv
  <2>3. Settled(u)
    BY <1>1, MarksGrow DEF UrlInv, Plain
  <2>4. lost[u] \subseteq lost'[u]
    BY <1>1, HistoryGrows
  <2>5. (\A q \in Runs : shown[q][u] # NoHash => Backed(q, u, shown[q][u]))'
    <3>1. ASSUME NEW q \in Runs, shown[q][u] # NoHash
          PROVE  Backed(q, u, shown[q][u])'
      <4>1. Backed(q, u, shown[q][u])
        BY <2>3, <3>1 DEF Settled
      <4>2. CASE q = r
        BY <1>1, <1>2, <2>1, <2>4, <4>1, <4>2 DEF Backed
      <4>3. CASE q # r
        BY <1>1, <2>4, <4>1, <4>3, LatestOfOthers DEF Backed
      <4> QED
        BY <4>2, <4>3
    <3> QED
      BY <1>1, <3>1
  <2>6. (\A v \in Hashes : Trusted(u, v) => Vouched(u, v))'
    <3> SUFFICES ASSUME NEW v \in Hashes, Trusted(u, v)'
                 PROVE  Vouched(u, v)'
      OBVIOUS
    <3>1. ASSUME NEW q \in Runs, Waits(q, u, v)' PROVE Waits(q, u, v)
      <4>1. q # r
        BY <1>1, <3>1 DEF Waits
      <4> QED
        BY <1>1, <3>1, <4>1, LatestOfOthers
    <3>2. Trusted(u, v)
      BY <1>1, <3>1 DEF Trusted
    <3>3. Vouched(u, v)
      BY <2>3, <3>2 DEF Settled
    <3>4. v \in lost[u] \/ Latest(r, u) = v \/ \E q \in Runs \ {r} : Latest(q, u) = v
      BY <1>2, <2>1, <3>3 DEF Vouched
    <3> QED
      BY <1>1, <2>1, <2>4, <3>4, LatestOfOthers DEF Vouched
  <2>7. (\A q, s \in Runs : q # s => shown[q][u] = NoHash \/ shown[s][u] = NoHash)'
    BY <1>1, <2>3 DEF Settled
  <2> QED
    BY <2>5, <2>6, <2>7 DEF Settled
<1> QED
  BY <1>3, <1>4

(* A run ends: what it had of the URL is in the table, or lost. *)
LEMMA CurrentEnd ==
  ASSUME TypeInv, NEW r \in Runs, NEW u \in CacheUrls, UrlInv(u), Commit(r) \/ Rollback(r)
  PROVE  UrlInv(u)'
<1> USE DEF TypeInv
<1>1. /\ Run(r) /\ UNCHANGED <<cache, todo, got>> /\ pc'[r] # "wait" /\ got[r] = NoHash
      /\ writes'[r] = NoRows /\ shown'[r] = NothingShown
  BY DEF Run, Commit, Rollback, End, fetch, Goto, TypeOK, PlaceOK
<1> DEFINE w == writes[r][Raw(u)]
<1>2. Latest(r, u) = w /\ Latest(r, u)' = NoHash /\ shown'[r][u] = NoHash
  BY <1>1, RawIsRow DEF Latest, NoRows, NothingShown
<1>3. \/ w # NoHash /\ table'[Raw(u)] = w
      \/ (w = NoHash \/ w \in lost'[u]) /\ table'[Raw(u)] = table[Raw(u)]
  <2>1. CASE Commit(r)
    BY <2>1, RawIsRow DEF Commit
  <2>2. CASE Rollback(r)
    BY <2>2 DEF Rollback, LoseWrites
  <2> QED
    BY <2>1, <2>2
<1> HIDE DEF w, TypeInv
<1>4. \A q \in Runs \ {r} : Latest(q, u)' = Latest(q, u) /\ shown'[q][u] = shown[q][u]
  BY <1>1, LatestOfOthers
<1>5. (\A q \in Runs : Latest(q, u) # NoHash => shown[q][u] # NoHash)'
  BY <1>2, <1>4 DEF UrlInv
<1> SUFFICES ASSUME Plain(u)'
             PROVE  Settled(u)'
  BY <1>5 DEF UrlInv
<1>6. Settled(u)
  BY <1>1, MarksGrow DEF UrlInv, Plain
<1>7. lost[u] \subseteq lost'[u]
  BY <1>1, HistoryGrows
<1>8. w # NoHash => \A q \in Runs \ {r} : shown[q][u] = NoHash /\ Latest(q, u) = NoHash
  BY <1>2, <1>6 DEF UrlInv, Settled
<1>9. (\A q \in Runs : shown[q][u] # NoHash => Backed(q, u, shown[q][u]))'
  <2>1. ASSUME NEW q \in Runs \ {r}, shown[q][u] # NoHash
        PROVE  Backed(q, u, shown[q][u])'
    <3>1. Backed(q, u, shown[q][u])
      BY <1>6, <2>1 DEF Settled
    <3>2. table'[Raw(u)] = table[Raw(u)]
      BY <1>3, <1>8, <2>1
    <3> QED
      BY <1>4, <1>7, <3>1, <3>2 DEF Backed
  <2> QED
    BY <1>2, <1>4, <2>1
<1>10. (\A v \in Hashes : Trusted(u, v) => Vouched(u, v))'
  <2> SUFFICES ASSUME NEW v \in Hashes, Trusted(u, v)'
               PROVE  Vouched(u, v)'
    OBVIOUS
  <2>1. ASSUME NEW q \in Runs, Waits(q, u, v)' PROVE Waits(q, u, v)
    <3>1. q # r
      BY <1>1, <2>1 DEF Waits
    <3> QED
      BY <1>1, <2>1, <3>1, LatestOfOthers
  <2>2. Trusted(u, v)
    BY <1>1, <2>1 DEF Trusted
  <2>3. Vouched(u, v) /\ v # NoHash
    BY <1>6, <2>2, CacheAssumption DEF Settled
  <2>4. CASE v \in lost[u] \/ \E q \in Runs \ {r} : Latest(q, u) = v
    BY <1>4, <1>7, <2>4 DEF Vouched
  <2>5. CASE w = v
    <3>1. v \in lost'[u] \/ (table'[Raw(u)] = v /\ \A q \in Runs : Latest(q, u)' = NoHash)
      BY <1>2, <1>3, <1>4, <1>8, <2>3, <2>5
    <3> QED
      BY <3>1 DEF Vouched
  <2>6. CASE table[Raw(u)] = v /\ \A q \in Runs : Latest(q, u) = NoHash
    <3>1. table'[Raw(u)] = v /\ \A q \in Runs : Latest(q, u)' = NoHash
      BY <1>2, <1>3, <1>4, <2>6
    <3> QED
      BY <3>1 DEF Vouched
  <2> QED
    BY <1>2, <2>3, <2>4, <2>5, <2>6 DEF Vouched
<1>11. (\A q, s \in Runs : q # s => shown[q][u] = NoHash \/ shown[s][u] = NoHash)'
  BY <1>2, <1>4, <1>6 DEF Settled
<1> QED
  BY <1>9, <1>10, <1>11 DEF Settled

LEMMA CurrentOutside ==
  ASSUME TypeInv, NEW u \in CacheUrls, UrlInv(u), Crash \/ PageChanges \/ EntryAges \/ UNCHANGED vars
  PROVE  UrlInv(u)'
<1>1. CASE Crash
  <2>1. \A q \in Runs : Latest(q, u)' = NoHash /\ shown'[q][u] = NoHash /\ pc'[q] # "wait"
    BY <1>1, RawIsRow DEF Crash, Latest, NoRows, NothingShown, Over, TypeInv, TypeOK
  <2>2. Len(cache') = 0
    BY <1>1 DEF Crash
  <2>3. \A v : ~Trusted(u, v)'
    BY <2>1, <2>2 DEF Trusted, Waits
  <2> QED
    BY <2>1, <2>3 DEF UrlInv, Settled
<1>2. CASE PageChanges \/ EntryAges \/ UNCHANGED vars
  <2>1. UNCHANGED <<pc, todo, header, got, writes, table, shown, lost, crossed, mixed>>
    BY <1>2 DEF PageChanges, EntryAges, vars, fetch, db, seen, history
  <2>2. \A q \in Runs : Latest(q, u)' = Latest(q, u) /\ \A v : Waits(q, u, v)' <=> Waits(q, u, v)
    BY <2>1 DEF Latest, Waits, Url, Job
  <2>3. \A i \in 1..Len(cache') : \E j \in 1..Len(cache) :
          cache'[i].url = cache[j].url /\ cache'[i].etag = cache[j].etag /\ cache'[i].hash = cache[j].hash
    <3>1. CASE EntryAges
      BY <3>1, AgingKeeps
    <3>2. CASE PageChanges \/ UNCHANGED vars
      BY <3>2 DEF PageChanges, vars
    <3> QED
      BY <1>2, <3>1, <3>2
  <2>4. \A v \in Hashes : Trusted(u, v)' => Trusted(u, v)
    BY <2>2, <2>3 DEF Trusted
  <2> QED
    BY <2>1, <2>2, <2>4, UrlAlone
<1> QED
  BY <1>1, <1>2

LEMMA CurrentInvariance == Spec => []CurrentInv
<1>1. Init => CurrentInv
  <2> SUFFICES ASSUME Init, NEW u \in CacheUrls
               PROVE  UrlInv(u)
    BY DEF CurrentInv
  <2>1. \A q \in Runs : Latest(q, u) = NoHash /\ shown[q][u] = NoHash /\ pc[q] # "wait"
    BY RawIsRow DEF Init, Latest, NoRows, NothingShown
  <2>2. \A v : ~Trusted(u, v)
    BY <2>1 DEF Init, Trusted, Waits
  <2> QED
    BY <2>1, <2>2 DEF UrlInv, Settled
<1>2. ASSUME TypeInv, CurrentInv, [Next]_vars PROVE CurrentInv'
  <2> SUFFICES ASSUME NEW u \in CacheUrls
               PROVE  UrlInv(u)'
    BY DEF CurrentInv
  <2>1. UrlInv(u)
    BY <1>2 DEF CurrentInv
  <2>2. ASSUME NEW r \in Runs, Run(r) PROVE UrlInv(u)'
    <3>1. CASE CollectFails(r)
      BY <1>2, <2>1, <3>1, CurrentQuiet, CurrentFailed DEF CollectFails
    <3>2. CASE ~CollectFails(r)
      BY <1>2, <2>1, <2>2, <3>2, CurrentQuiet, CurrentBegin, CurrentRefused, CurrentShown,
         CurrentEnd DEF Run
    <3> QED
      BY <3>1, <3>2
  <2>3. CASE Crash \/ PageChanges \/ EntryAges \/ UNCHANGED vars
    BY <1>2, <2>1, <2>3, CurrentOutside
  <2> QED
    BY <1>2, <2>2, <2>3 DEF Next, Terminated
<1> QED
  BY TypeInvInvariance, <1>1, <1>2, PTL DEF Spec

(* Only the run's own commit takes it from its last collect to its end. *)
LEMMA CommitsIsCommit ==
  ASSUME TypeInv, [Next]_vars, NEW r \in Runs, Commits(r)
  PROVE  Commit(r)
<1> USE DEF TypeInv, TypeOK, Commits
<1>1. \E q \in Runs : Run(q)
  BY DEF Next, Crash, PageChanges, EntryAges, Terminated, vars, Over
<1>2. Run(r)
  BY <1>1, OthersAlone
<1>3. Start(r) \/ BeginFetch(r) \/ Browse(r) \/ NoPage(r) \/ Commit(r) \/ Rollback(r)
  BY <1>2 DEF Run, Skip, Page, Refused, Rendered, RenderFails, StoreRaw, StoreItems, CollectFails
<1> QED
  BY <1>3 DEF Start, BeginFetch, Browse, NoPage, NextJob, Goto, Rollback, End

(* What a run leaves in the table: for all sets of runs, modules, URLs and
   contents, in whatever order they are interleaved.                       *)
THEOREM CommittedPagesStayCurrent == Spec => CommittedPagesAreCurrent
<1>1. ASSUME TypeInv, CurrentInv, [Next]_vars
      PROVE  [\A r \in Runs : Commits(r) =>
                \A u \in CacheUrls :
                  \/ shown[r][u] \in {NoHash, table'[Raw(u)]} \cup lost[u]
                  \/ u \in crossed \cup mixed]_vars
  <2> SUFFICES ASSUME NEW r \in Runs, Commits(r), NEW u \in CacheUrls,
                      u \notin crossed \cup mixed, shown[r][u] # NoHash
               PROVE  shown[r][u] \in {table'[Raw(u)]} \cup lost[u]
    OBVIOUS
  <2>1. Commit(r)
    BY <1>1, CommitsIsCommit
  <2>2. Backed(r, u, shown[r][u])
    BY <1>1 DEF CurrentInv, UrlInv, Plain, Settled
  <2>3. got[r] = NoHash
    BY <1>1, <2>1 DEF Commit, TypeInv, PlaceOK
  <2>4. table'[Raw(u)] = IF writes[r][Raw(u)] = NoHash THEN table[Raw(u)] ELSE writes[r][Raw(u)]
    BY <2>1, RawIsRow DEF Commit
  <2> QED
    BY <2>2, <2>3, <2>4 DEF Backed, Latest
<1> QED
  BY TypeInvInvariance, CurrentInvariance, <1>1, PTL DEF Spec, CommittedPagesAreCurrent

=============================================================================
