------------------------------- MODULE Stores ------------------------------
(***************************************************************************)
(* What a process keeps in memory, within limits: the cache of its fetcher,*)
(* the windows of its API's clients, the queue of a crawl, its metrics.    *)
(* They share nothing; a behaviour is one of one of them, or, where the    *)
(* part is "bucket", of the RateLimiter that MCStores puts beside them.    *)
(***************************************************************************)
EXTENDS HttpCacheLayer

CONSTANTS
  Fills,                                                         \* of HttpCache
  Clients, Limit, MaxIps, Window, MaxTime,                       \* of ApiLimiter
  Pages, PageKey, PageValue, SourceValue, Depths, MaxLinkDepth,  \* of CrawlBudget
  MaxCrawled,
  Labels, Gauges, Samples, MaxSamples, MaxCalls                  \* of Metrics

ASSUME StoresAssumption ==
  /\ Fills \subseteq [etag : Hashes \cup {NoHash}, control : Controls, hash : Hashes \cup {NoHash}]
  /\ Limit \in Nat \ {0} /\ MaxIps \in Nat /\ Window \in Nat \ {0} /\ MaxTime \in Nat
  /\ Pages \subseteq DOMAIN PageKey
  /\ MaxSamples \in Nat \ {0} /\ MaxCalls \in Nat

VARIABLES
  part,                                                \* whose behaviour it is
  entries,                                             \* of HttpCache
  now, requests, last_cleanup, served, evicted,        \* of ApiLimiter
  accepted, frontier, crawled, given,                  \* of CrawlBudget
  counter, histogram, gauges, counts, calls            \* of Metrics

AnswerCache == INSTANCE HttpCache WITH cache <- entries

Limiter == INSTANCE ApiLimiter

Budget == INSTANCE CrawlBudget WITH visited <- accepted, queue <- frontier

Gauging == INSTANCE Metrics WITH MaxEntries <- MaxSamples

windows == <<now, requests, last_cleanup, served, evicted>>

crawl == <<accepted, frontier, crawled, given>>

counters == <<counter, histogram, gauges, counts, calls>>

stores == <<entries, part, windows, crawl, counters>>

StoresInit ==
  /\ part \in {"answers", "windows", "crawl", "counters", "bucket"}
  /\ AnswerCache!Init /\ Limiter!Init /\ Budget!Init /\ Gauging!Init

StoresNext ==
  /\ UNCHANGED part
  /\ \/ part = "answers" /\ AnswerCache!Next /\ UNCHANGED <<windows, crawl, counters>>
     \/ part = "windows" /\ Limiter!Next /\ UNCHANGED <<entries, crawl, counters>>
     \/ part = "crawl" /\ Budget!Next /\ UNCHANGED <<entries, windows, counters>>
     \/ part = "counters" /\ Gauging!Next /\ UNCHANGED <<entries, windows, crawl>>

StoresSpec == StoresInit /\ [][StoresNext]_stores

(* Every store keeps its limits and its promises: one cache entry per URL, *)
(* at most MaxEntries; no idle windows of clients beyond MaxIps; a page is *)
(* queued or crawled once; a counter is exact until it is full.            *)
StoresInv ==
  /\ AnswerCache!TypeOK /\ Limiter!LimiterTypeOK /\ Budget!BudgetTypeOK /\ Gauging!MetricsTypeOK
  /\ AnswerCache!CacheIsBounded
  /\ Limiter!IdleEntriesAreBounded
  /\ Budget!PagesAreCrawledOnce
  /\ Gauging!CountersAreExactUntilFull

(* See ApiLimiter: in no minute is a client served more than the limit.    *)
LimitHolds == Limiter!LimitHolds

(* See HttpCache: evictions take the oldest entries.                       *)
OldestGoFirst == AnswerCache!OldestGoFirst

=============================================================================
