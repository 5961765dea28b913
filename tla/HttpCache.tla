----------------------------- MODULE HttpCache ------------------------------
(***************************************************************************)
(* HttpCacheLayer as an object: the calls that the fetcher makes on it, in *)
(* any order.                                                              *)
(***************************************************************************)
EXTENDS HttpCacheLayer

CONSTANT
  Fills       \* what an answer may carry: etag, control and hash

VARIABLE cache  \* _cache

TypeOK == cache \in Caches

Init == cache = <<>>

(* store after an answer. *)
Fill(u) ==
  \E f \in Fills : cache' = Store(cache, u, f.etag, f.control, f.hash)

(* invalidate after a rendering. *)
Drop(u) == cache' = Invalidate(cache, u)

Next == \E u \in CacheUrls : Fill(u) \/ Drop(u)

Spec == Init /\ [][Next]_cache

-----------------------------------------------------------------------------
(* The cache never outgrows its limit and never has two entries of one URL,
   although an eviction and the insertion that needs it are one call.      *)
CacheIsBounded == Len(cache) <= MaxEntries /\ OnePerUrl(cache)

(* The oldest entries go first: an entry outlives an older one unless it was
   invalidated, alone, by its own URL; a refresh does not make it younger.  *)
OldestGoFirst ==
  [][\A i, j \in 1..Len(cache) :
       /\ i < j
       /\ Cached(cache', cache[i].url)
       /\ ~Cached(cache', cache[j].url)
       => Len(cache') = Len(cache) - 1]_cache

=============================================================================
