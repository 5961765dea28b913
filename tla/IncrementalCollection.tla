----------------------- MODULE IncrementalCollection -----------------------
(***************************************************************************)
(* The cache of the fetcher that all collectors share, composed with the   *)
(* transactions of the runs that store what it lets through.  The cache is *)
(* filled when a page arrives; the page becomes durable when its run       *)
(* commits, minutes later, or never.  What the cache vouches for is        *)
(* skipped by every later collect of the URL, whichever module or run it   *)
(* belongs to.                                                             *)
(*                                                                         *)
(* Runs of one competitor in one process: one after the other (a retry is  *)
(* a later run) or overlapping.  A collect is reduced to what HybridFetcher *)
(* and CollectionService show of it: the cache read, the answer, a         *)
(* rendering, and the upserts of the raw row and of the module's items.    *)
(*                                                                         *)
(* Operators named Fault... are not part of the specification: each is a   *)
(* plausible wrong variant of the definition after it.                     *)
(***************************************************************************)
EXTENDS HttpCacheLayer, FiniteSets

CONSTANTS
  Runs,       \* calls of collect_competitor
  Modules,    \* modules with a collector
  Bypass,     \* those whose collector does not use the shared fetcher
  Plans,      \* sequences of collects that a run may make
  Served,     \* the kinds of Cache-Control that answers carry
  MaxChanges  \* bound: changes of the server's pages

Jobs == Modules \X CacheUrls

ASSUME PlansAssumption ==
  /\ Bypass \subseteq Modules /\ "raw" \notin Modules
  /\ Plans \subseteq Seq(Jobs)
  /\ Served \subseteq Controls
  /\ MaxChanges \in Nat

(* The raw row of a URL, and the items that a module has from it. *)
Raw(u) == <<"raw", u>>

Rows == ({"raw"} \cup Modules) \X CacheUrls

VARIABLES
  page,      \* the server's content of each URL
  changes,   \* how often pages have changed
  cache,     \* _cache_layer of the shared fetcher
  pc,        \* where each run is
  todo,      \* the collects it has still to make, the current one first
  header,    \* conditional_headers of its fetch
  expired,   \* cache_expired of its fetch
  got,       \* the page it has been handed, or is about to render
  writes,    \* its uncommitted rows
  aborted,   \* the server has rejected a statement of its transaction
  errors,    \* a collect of it has failed
  table,     \* the committed rows
  shown,     \* history: what the server showed it last of each URL
  visited,   \* history: its collects to which the server showed a page
  stored,    \* history: contents that a committed raw row has had
  lost,      \* history: contents that a collect held and no commit stored
  crossed,   \* history: URLs that two open runs were about
  mixed      \* history: URLs handed out while the cache named another content

origin  == <<page, changes>>
fetch   == <<header, expired, got>>
db      == <<writes, aborted, table>>
seen    == <<shown, visited>>
history == <<stored, lost, crossed, mixed>>
vars == <<origin, cache, pc, todo, fetch, db, errors, seen, history>>

Contents == Hashes \cup {NoHash}

NoRows == [row \in Rows |-> NoHash]

NothingShown == [u \in CacheUrls |-> NoHash]

Over(r) == pc[r] \in {"done", "failed"}

TypeOK ==
  /\ page \in [CacheUrls -> Hashes]
  /\ changes \in 0..MaxChanges
  /\ cache \in Caches
  /\ pc \in [Runs -> {"idle", "next", "wait", "render", "got", "raw", "done", "failed"}]
  /\ todo \in [Runs -> Seq(Jobs)]
  /\ header \in [Runs -> Contents]
  /\ expired \in [Runs -> BOOLEAN]
  /\ got \in [Runs -> Contents]
  /\ writes \in [Runs -> [Rows -> Contents]]
  /\ aborted \in [Runs -> BOOLEAN]
  /\ errors \in [Runs -> BOOLEAN]
  /\ table \in [Rows -> Contents]
  /\ shown \in [Runs -> [CacheUrls -> Contents]]
  /\ visited \in [Runs -> SUBSET Jobs]
  /\ stored \in [CacheUrls -> SUBSET Hashes]
  /\ lost \in [CacheUrls -> SUBSET Hashes]
  /\ crossed \in SUBSET CacheUrls
  /\ mixed \in SUBSET CacheUrls

Init ==
  /\ page \in [CacheUrls -> Hashes]
  /\ changes = 0
  /\ cache = <<>>
  /\ pc = [r \in Runs |-> "idle"]
  /\ todo = [r \in Runs |-> <<>>]
  /\ header = [r \in Runs |-> NoHash]
  /\ expired = [r \in Runs |-> TRUE]
  /\ got = [r \in Runs |-> NoHash]
  /\ writes = [r \in Runs |-> NoRows]
  /\ aborted = [r \in Runs |-> FALSE]
  /\ errors = [r \in Runs |-> FALSE]
  /\ table = NoRows
  /\ shown = [r \in Runs |-> NothingShown]
  /\ visited = [r \in Runs |-> {}]
  /\ stored = [u \in CacheUrls |-> {}]
  /\ lost = [u \in CacheUrls |-> {}]
  /\ crossed = {}
  /\ mixed = {}

-----------------------------------------------------------------------------
Job(r) == Head(todo[r])

Module(r) == Job(r)[1]

Url(r) == Job(r)[2]

Goto(r, to) == pc' = [pc EXCEPT ![r] = to]

(* The collect is over: the next one, without anything in hand. *)
NextJob(r) ==
  /\ Goto(r, "next")
  /\ todo' = [todo EXCEPT ![r] = Tail(@)]
  /\ header' = [header EXCEPT ![r] = NoHash]
  /\ expired' = [expired EXCEPT ![r] = TRUE]
  /\ got' = [got EXCEPT ![r] = NoHash]

(* The run has been shown the URL, or waits for its answer. *)
Touches(r, u) == shown[r][u] # NoHash \/ (pc[r] = "wait" /\ Url(r) = u)

(* The server shows its page to the collect; the history notes whether
   another open run is about the URL as well.                              *)
Shows(r) ==
  /\ shown' = [shown EXCEPT ![r][Url(r)] = page[Url(r)]]
  /\ visited' = [visited EXCEPT ![r] = @ \cup {Job(r)}]
  /\ crossed' = IF \E q \in Runs \ {r} : Touches(q, Url(r))
                  THEN crossed \cup {Url(r)} ELSE crossed

(* What the cache names for a URL, by its validator or by its hash. *)
Named(c, u) == IF Cached(c, u) THEN {Get(c, u).etag, Get(c, u).hash} \ {NoHash} ELSE {}

(* The run is handed content v; the history notes whether the cache names
   another one for the URL.                                                *)
Hand(r, v) ==
  /\ got' = [got EXCEPT ![r] = v]
  /\ mixed' = IF Named(cache', Url(r)) \subseteq {v} THEN mixed ELSE mixed \cup {Url(r)}

Start(r) ==
  /\ pc[r] = "idle"
  /\ Goto(r, "next")
  /\ \E p \in Plans : todo' = [todo EXCEPT ![r] = p]
  /\ UNCHANGED <<origin, cache, fetch, db, errors, seen, history>>

(* A collector of the shared fetcher: validator and expiry are read. *)
BeginFetch(r) ==
  /\ pc[r] = "next" /\ todo[r] # <<>> /\ Module(r) \notin Bypass
  /\ Goto(r, "wait")
  /\ header' = [header EXCEPT ![r] = ConditionalHeader(cache, Url(r))]
  /\ expired' = [expired EXCEPT ![r] = IsExpired(cache, Url(r))]
  /\ UNCHANGED <<origin, cache, todo, got, db, errors, seen, history>>

(* Fault: a fresh entry is trusted without a look at the hash. *)
FaultSameHash(r) ==
  header[r] # NoHash /\ ~expired[r] /\ Cached(cache, Url(r))

SameHash(r) ==
  /\ header[r] # NoHash /\ ~expired[r]
  /\ Cached(cache, Url(r))
  /\ Get(cache, Url(r)).hash = page[Url(r)]

(* 304, or the cached hash: the collect is skipped. *)
Skip(r) ==
  /\ pc[r] = "wait"
  /\ header[r] = page[Url(r)] \/ SameHash(r)
  /\ Shows(r)
  /\ NextJob(r)
  /\ UNCHANGED <<origin, cache, db, errors, stored, lost, mixed>>

(* The page: it is cached, with its headers, and handed to the collector,
   at once or after a rendering.                                           *)
Page(r) ==
  /\ pc[r] = "wait"
  /\ ~SameHash(r)
  /\ Shows(r)
  /\ \E t \in {page[Url(r)], NoHash}, k \in Served :
       cache' = Store(cache, Url(r), t, k, page[Url(r)])
  /\ Hand(r, page[Url(r)])
  /\ Goto(r, "got") \/ Goto(r, "render")
  /\ UNCHANGED <<origin, todo, header, expired, db, errors, stored, lost>>

(* A 4xx: its empty page is cached without validators, and rendered. *)
Refused(r) ==
  /\ pc[r] = "wait"
  /\ cache' = Store(cache, Url(r), NoHash, "none", NoHash)
  /\ Goto(r, "render")
  /\ UNCHANGED <<origin, todo, fetch, db, errors, seen, history>>

(* The browser has the page as it is now, and the URL leaves the cache. *)
Rendered(r) ==
  /\ pc[r] = "render"
  /\ Shows(r)
  /\ cache' = Invalidate(cache, Url(r))
  /\ Hand(r, page[Url(r)])
  /\ lost' = [lost EXCEPT ![Url(r)] = @ \cup ({got[r]} \ {page[Url(r)], NoHash})]
  /\ Goto(r, "got")
  /\ UNCHANGED <<origin, todo, header, expired, db, errors, stored>>

(* It does not: the page is handed on as it was fetched, or skipped as empty. *)
RenderFails(r) ==
  /\ pc[r] = "render"
  /\ IF got[r] = NoHash
       THEN NextJob(r)
       ELSE Goto(r, "got") /\ UNCHANGED <<todo, fetch>>
  /\ UNCHANGED <<origin, cache, db, errors, seen, history>>

(* The pricing collector: a browser of its own, and no cache. *)
Browse(r) ==
  /\ pc[r] = "next" /\ todo[r] # <<>> /\ Module(r) \in Bypass
  /\ Shows(r)
  /\ UNCHANGED cache
  /\ Hand(r, page[Url(r)])
  /\ Goto(r, "got")
  /\ UNCHANGED <<origin, todo, header, expired, db, errors, stored, lost>>

(* No page: a 404 is skipped as empty, whatever is raised is an error. *)
NoPage(r) ==
  /\ \/ pc[r] = "wait"
     \/ pc[r] = "next" /\ todo[r] # <<>> /\ Module(r) \in Bypass
  /\ errors' = [errors EXCEPT ![r] = TRUE] \/ UNCHANGED errors
  /\ NextJob(r)
  /\ UNCHANGED <<origin, cache, db, seen, history>>

-----------------------------------------------------------------------------
(* An upsert waits for a row that another open transaction has written. *)
Free(r, row) == \A q \in Runs \ {r} : writes[q][row] = NoHash

Upsert(r, row) ==
  /\ ~aborted[r]
  /\ Free(r, row)
  /\ writes' = [writes EXCEPT ![r][row] = got[r]]
  /\ UNCHANGED <<aborted, table>>

(* Fault: ON CONFLICT DO NOTHING; a row that is there is not updated. *)
FaultStoreRaw(r) ==
  /\ pc[r] = "got"
  /\ IF table[Raw(Url(r))] = NoHash
       THEN Upsert(r, Raw(Url(r)))
       ELSE UNCHANGED <<writes, aborted, table>>
  /\ lost' = [lost EXCEPT ![Url(r)] = @ \cup ({writes[r][Raw(Url(r))]} \ {got[r], NoHash})]
  /\ Goto(r, "raw")
  /\ UNCHANGED <<origin, cache, todo, fetch, errors, seen, stored, crossed, mixed>>

(* store_raw. *)
StoreRaw(r) ==
  /\ pc[r] = "got"
  /\ Upsert(r, Raw(Url(r)))
  /\ lost' = [lost EXCEPT ![Url(r)] = @ \cup ({writes[r][Raw(Url(r))]} \ {got[r], NoHash})]
  /\ Goto(r, "raw")
  /\ UNCHANGED <<origin, cache, todo, fetch, errors, seen, stored, crossed, mixed>>

(* The module's items are parsed and stored. *)
StoreItems(r) ==
  /\ pc[r] = "raw"
  /\ Upsert(r, Job(r))
  /\ NextJob(r)
  /\ UNCHANGED <<origin, cache, errors, seen, history>>

(* The collector catches an exception: of its own, or a statement that the
   server rejects, which it does with every one of an aborted transaction. *)
CollectFails(r) ==
  /\ pc[r] \in {"got", "raw"}
  /\ aborted' = [aborted EXCEPT ![r] = TRUE] \/ UNCHANGED aborted
  /\ errors' = [errors EXCEPT ![r] = TRUE]
  /\ lost' = IF pc[r] = "got" THEN [lost EXCEPT ![Url(r)] = @ \cup {got[r]}] ELSE lost
  /\ NextJob(r)
  /\ UNCHANGED <<origin, cache, writes, table, seen, stored, crossed, mixed>>

End(r, to) ==
  /\ Goto(r, to)
  /\ writes' = [writes EXCEPT ![r] = NoRows]
  /\ aborted' = [aborted EXCEPT ![r] = FALSE]
  /\ errors' = [errors EXCEPT ![r] = FALSE]
  /\ shown' = [shown EXCEPT ![r] = NothingShown]
  /\ visited' = [visited EXCEPT ![r] = {}]

(* The rows become durable with the log. *)
Commit(r) ==
  /\ pc[r] = "next" /\ todo[r] = <<>> /\ ~aborted[r]
  /\ End(r, "done")
  /\ table' = [row \in Rows |-> IF writes[r][row] = NoHash THEN table[row] ELSE writes[r][row]]
  /\ stored' = [u \in CacheUrls |-> stored[u] \cup ({writes[r][Raw(u)]} \ {NoHash})]
  /\ UNCHANGED <<origin, cache, todo, fetch, lost, crossed, mixed>>

LoseWrites(rs) ==
  lost' = [u \in CacheUrls |-> lost[u] \cup ({writes[r][Raw(u)] : r \in rs} \ {NoHash})]

(* The log or the commit is rejected: the run is rolled back. *)
Rollback(r) ==
  /\ pc[r] = "next" /\ todo[r] = <<>>
  /\ End(r, "failed")
  /\ LoseWrites({r})
  /\ UNCHANGED <<origin, cache, todo, fetch, table, stored, crossed, mixed>>

(* The process dies, and with it the cache. *)
Crash ==
  /\ \E r \in Runs : pc[r] # "idle" /\ ~Over(r)
  /\ cache' = <<>>
  /\ pc' = [r \in Runs |-> IF pc[r] = "idle" \/ Over(r) THEN pc[r] ELSE "failed"]
  /\ todo' = [r \in Runs |-> <<>>]
  /\ header' = [r \in Runs |-> NoHash]
  /\ expired' = [r \in Runs |-> TRUE]
  /\ got' = [r \in Runs |-> NoHash]
  /\ writes' = [r \in Runs |-> NoRows]
  /\ LoseWrites(Runs)
  /\ aborted' = [r \in Runs |-> FALSE]
  /\ errors' = [r \in Runs |-> FALSE]
  /\ shown' = [r \in Runs |-> NothingShown]
  /\ visited' = [r \in Runs |-> {}]
  /\ UNCHANGED <<origin, table, stored, crossed, mixed>>

PageChanges ==
  /\ changes < MaxChanges
  /\ changes' = changes + 1
  /\ \E u \in CacheUrls : \E v \in Hashes \ {page[u]} : page' = [page EXCEPT ![u] = v]
  /\ UNCHANGED <<cache, pc, todo, fetch, db, errors, seen, history>>

(* The max-age of an entry passes. *)
EntryAges ==
  /\ \E i \in 1..Len(cache) : ~cache[i].aged /\ cache' = [cache EXCEPT ![i].aged = TRUE]
  /\ UNCHANGED <<origin, pc, todo, fetch, db, errors, seen, history>>

Terminated ==
  /\ \A r \in Runs : Over(r)
  /\ UNCHANGED vars

Run(r) ==
  \/ Start(r) \/ BeginFetch(r) \/ Skip(r) \/ Page(r) \/ Refused(r) \/ Rendered(r) \/ RenderFails(r)
  \/ Browse(r) \/ NoPage(r) \/ StoreRaw(r) \/ StoreItems(r) \/ CollectFails(r)
  \/ Commit(r) \/ Rollback(r)

Next == (\E r \in Runs : Run(r)) \/ Crash \/ PageChanges \/ EntryAges \/ Terminated

Spec == Init /\ [][Next]_vars

-----------------------------------------------------------------------------
(* Properties. *)

(* An open run has the content: to be rendered, stored or committed. *)
HeldBy(r, u, v) == writes[r][Raw(u)] = v \/ (got[r] = v /\ Url(r) = u)

(* What the cache vouches for, by its hash or by its validator, has been
   stored, or an open run holds it, or it is known to be lost: it was in a
   collect that failed, a run that was rolled back, or it was replaced
   before its run committed.                                               *)
CachedPagesAreAccountedFor ==
  \A i \in 1..Len(cache) : \A v \in {cache[i].etag, cache[i].hash} \ {NoHash} :
    LET u == cache[i].url
    IN  v \in stored[u] \/ v \in lost[u] \/ \E r \in Runs : HeldBy(r, u, v)

Commits(r) == pc[r] = "next" /\ pc'[r] = "done"

(* A run that commits leaves in the raw row of each URL it has visited the
   page that the server showed it last, skipped or not, unless that page was
   lost, two overlapping runs were about the URL, or a page of it was handed
   out beside another that the cache still names.  There is no other way to
   be left behind.                                                         *)
CommittedPagesAreCurrent ==
  [][\A r \in Runs : Commits(r) =>
       \A u \in CacheUrls :
         \/ shown[r][u] \in {NoHash, table'[Raw(u)]} \cup lost[u]
         \/ u \in crossed \cup mixed]_vars

(* README.md:191: "Each competitor website is crawled by independent
   collector modules."  A run without errors that commits leaves, for every
   collect to which the server showed a page, the module's rows from it.   *)
ModulesAreIndependent ==
  [][\A r \in Runs : Commits(r) /\ ~errors[r] =>
       \A j \in visited[r] : table'[j] # NoHash]_vars

=============================================================================
