-------------------------- MODULE HttpCacheLayer ---------------------------
(***************************************************************************)
(* HttpCacheLayer: validators and content hash of the last response per    *)
(* URL, kept in memory by the fetcher that all collectors share.  Its dict *)
(* keeps the order of insertion, so a cache is a sequence of entries, the  *)
(* oldest first.                                                           *)
(*                                                                         *)
(* An entry's etag stands for both validators, ETag and Last-Modified,     *)
(* which the code treats alike.  Its control is what is_cache_expired      *)
(* tells apart: no Cache-Control, one that forbids reuse, or a max-age;    *)
(* aged says that the max-age has passed since last_checked.               *)
(*                                                                         *)
(* Operators named Fault... are not part of the specification: each is a   *)
(* plausible wrong variant of the definition after it.                     *)
(***************************************************************************)
EXTENDS Integers, Sequences

CONSTANTS
  CacheUrls,   \* URLs
  Hashes,      \* content hashes; a validator is the hash it was served with
  NoHash,      \* no header, no hash
  MaxEntries   \* MAX_ENTRIES, 10000 in the code

(* Below four entries the quarter that is evicted would be empty. *)
ASSUME CacheAssumption ==
  /\ MaxEntries \in Nat /\ MaxEntries >= 4
  /\ NoHash \notin Hashes

Controls == {"none", "no-store", "max-age"}

Entries ==
  [url : CacheUrls, etag : Hashes \cup {NoHash}, control : Controls,
   hash : Hashes \cup {NoHash}, aged : BOOLEAN]

Caches == Seq(Entries)

(* A dict has one entry per key. *)
OnePerUrl(cache) ==
  \A i, j \in 1..Len(cache) : cache[i].url = cache[j].url => i = j

Position(cache, u) == CHOOSE i \in 1..Len(cache) : cache[i].url = u

Cached(cache, u) == \E i \in 1..Len(cache) : cache[i].url = u

Get(cache, u) == cache[Position(cache, u)]

Without(cache, i) ==
  [k \in 1..(Len(cache) - 1) |-> IF k < i THEN cache[k] ELSE cache[k + 1]]

(* invalidate and remove: pop(url, None). *)
Invalidate(cache, u) ==
  IF Cached(cache, u) THEN Without(cache, Position(cache, u)) ELSE cache

(* Fault: the newest quarter goes. *)
FaultMakeRoom(cache) ==
  IF Len(cache) >= MaxEntries THEN SubSeq(cache, 1, Len(cache) - MaxEntries \div 4) ELSE cache

(* A full cache loses its oldest quarter before an insertion. *)
MakeRoom(cache) ==
  IF Len(cache) >= MaxEntries THEN SubSeq(cache, (MaxEntries \div 4) + 1, Len(cache)) ELSE cache

Kept(new, old, none) == IF new = none THEN old ELSE new

(* An update keeps what the response does not carry. *)
Refresh(e, etag, control, hash) ==
  [e EXCEPT !.etag = Kept(etag, @, NoHash), !.control = Kept(control, @, "none"),
            !.hash = Kept(hash, @, NoHash), !.aged = FALSE]

NewEntry(u, etag, control, hash) ==
  [url |-> u, etag |-> etag, control |-> control, hash |-> hash, aged |-> FALSE]

Store(cache, u, etag, control, hash) ==
  IF Cached(cache, u)
    THEN [cache EXCEPT ![Position(cache, u)] = Refresh(@, etag, control, hash)]
    ELSE Append(MakeRoom(cache), NewEntry(u, etag, control, hash))

(* build_conditional_headers: the validator to send, if there is one. *)
ConditionalHeader(cache, u) == IF Cached(cache, u) THEN Get(cache, u).etag ELSE NoHash

(* is_cache_expired; without an entry or a Cache-Control it is. *)
IsExpired(cache, u) ==
  \/ ~Cached(cache, u)
  \/ Get(cache, u).control # "max-age"
  \/ Get(cache, u).aged

=============================================================================
