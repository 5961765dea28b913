--------------------------- MODULE HybridFetcher ---------------------------
(***************************************************************************)
(* HybridFetcher.fetch: concurrent calls, of which several may be for one  *)
(* URL, over one shared cache.  A call reads the cache, waits for the rate *)
(* limiter, requests the page with the validator it has read, retries what *)
(* is transient, and processes the answer: skip it, or store it in the     *)
(* cache, analyse it and, when the page needs JavaScript, render it.       *)
(*                                                                         *)
(* A step is what runs between two awaits.  The server decides its answer  *)
(* in one step and the call handles it in a later one, when the cache may  *)
(* have changed.  The server's pages change, and its answers may or may    *)
(* not carry a validator and a Cache-Control.                              *)
(*                                                                         *)
(* Operators named Fault... are not part of the specification: each is a   *)
(* plausible wrong variant of the definition after it.                     *)
(***************************************************************************)
EXTENDS HttpCacheLayer, FiniteSets

CONSTANTS
  Calls,         \* calls of fetch
  Shells,        \* the contents whose analysis asks for rendering
  Malformed,     \* the contents with JSON-LD that the classifier fails on
  RetryAttempts, \* retry_attempts of the settings
  MaxChanges     \* bound: changes of the server's pages

ASSUME FetcherAssumption ==
  /\ Shells \subseteq Hashes
  /\ Malformed \subseteq Hashes
  /\ RetryAttempts \in Nat \ {0}
  /\ MaxChanges \in Nat

VARIABLES
  page,      \* the server's content of each URL
  changes,   \* how often pages have changed
  cache,     \* _cache_layer
  pc,        \* where each call is
  url,       \* its URL
  header,    \* conditional_headers
  expired,   \* cache_expired
  attempt,   \* attempts made
  answer,    \* the response to handle
  result,    \* what fetch returned
  handed,    \* history: contents received in full and given to a collector
  shellOut   \* history: URLs whose rendering failed, the shell being returned

origin  == <<page, changes>>
locals  == <<url, header, expired, attempt>>
history == <<handed, shellOut>>
vars == <<origin, cache, pc, locals, answer, result, history>>

AnswerKinds == {"none", "ok", "304", "404", "permanent", "transient", "raise"}

NoAnswer == [kind |-> "none", content |-> NoHash, etag |-> NoHash, control |-> "none"]

Answers == [kind : AnswerKinds, content : Hashes \cup {NoHash}, etag : Hashes \cup {NoHash}, control : Controls]

TypeOK ==
  /\ page \in [CacheUrls -> Hashes]
  /\ changes \in 0..MaxChanges
  /\ cache \in Caches
  /\ pc \in [Calls -> {"idle", "acquire", "request", "handle", "backoff", "render", "done"}]
  /\ url \in [Calls -> CacheUrls]
  /\ header \in [Calls -> Hashes \cup {NoHash}]
  /\ expired \in [Calls -> BOOLEAN]
  /\ attempt \in [Calls -> 0..RetryAttempts]
  /\ answer \in [Calls -> Answers]
  /\ result \in [Calls -> {"none", "page", "rendered", "empty", "404", "not_modified", "unchanged", "raised"}]
  /\ handed \in [CacheUrls -> SUBSET Hashes]
  /\ shellOut \in SUBSET CacheUrls

Init ==
  /\ page \in [CacheUrls -> Hashes]
  /\ changes = 0
  /\ cache = <<>>
  /\ pc = [c \in Calls |-> "idle"]
  /\ url \in [Calls -> CacheUrls]
  /\ header = [c \in Calls |-> NoHash]
  /\ expired = [c \in Calls |-> TRUE]
  /\ attempt = [c \in Calls |-> 0]
  /\ answer = [c \in Calls |-> NoAnswer]
  /\ result = [c \in Calls |-> "none"]
  /\ handed = [u \in CacheUrls |-> {}]
  /\ shellOut = {}

-----------------------------------------------------------------------------
Goto(c, to) == pc' = [pc EXCEPT ![c] = to]

Finish(c, r) == Goto(c, "done") /\ result' = [result EXCEPT ![c] = r]

(* fetch is called: the cache is read before the limiter is waited for. *)
Begin(c) ==
  /\ pc[c] = "idle"
  /\ Goto(c, "acquire")
  /\ header' = [header EXCEPT ![c] = ConditionalHeader(cache, url[c])]
  /\ expired' = [expired EXCEPT ![c] = IsExpired(cache, url[c])]
  /\ UNCHANGED <<origin, cache, url, attempt, answer, result, history>>

(* The URL is refused by its validation. *)
Reject(c) ==
  /\ pc[c] = "idle"
  /\ Finish(c, "raised")
  /\ UNCHANGED <<origin, cache, locals, answer, history>>

(* The rate limiter lets the call go on, once for all its attempts. *)
Acquire(c) ==
  /\ pc[c] = "acquire"
  /\ Goto(c, "request")
  /\ UNCHANGED <<origin, cache, locals, answer, result, history>>

(* The server's answer to an attempt: the page, or 304 for a validator that
   still holds, or a failure.  A DNS failure reaches the code as an
   httpx.ConnectError, which is retried: it is transient, too.             *)
Responses(c) ==
  LET v == page[url[c]]
  IN  {[kind |-> "ok", content |-> v, etag |-> t, control |-> k] : t \in {v, NoHash}, k \in Controls}
        \cup {[NoAnswer EXCEPT !.kind = k] : k \in {"404", "permanent", "transient", "raise"}}
        \cup IF header[c] = v THEN {[NoAnswer EXCEPT !.kind = "304"]} ELSE {}

(* Fault: attempts are not counted. *)
FaultRespond(c) ==
  /\ pc[c] = "request"
  /\ Goto(c, "handle")
  /\ \E a \in Responses(c) : answer' = [answer EXCEPT ![c] = a]
  /\ UNCHANGED <<origin, cache, locals, result, history>>

Respond(c) ==
  /\ pc[c] = "request"
  /\ Goto(c, "handle")
  /\ \E a \in Responses(c) : answer' = [answer EXCEPT ![c] = a]
  /\ attempt' = [attempt EXCEPT ![c] = @ + 1]
  /\ UNCHANGED <<origin, cache, url, header, expired, result, history>>

(* 304: nothing is read from the cache, and its entry is left as it is. *)
NotModified(c) ==
  /\ pc[c] = "handle" /\ answer[c].kind = "304"
  /\ Finish(c, "not_modified")
  /\ UNCHANGED <<origin, cache, locals, answer, history>>

Redirected404(c) ==
  /\ pc[c] = "handle" /\ answer[c].kind = "404"
  /\ Finish(c, "404")
  /\ UNCHANGED <<origin, cache, locals, answer, history>>

(* Fault: a fresh entry is trusted whatever the answer holds. *)
FaultSameHash(c) ==
  header[c] # NoHash /\ ~expired[c] /\ Cached(cache, url[c])

(* The answer has the hash of the cached one: as good as a 304. *)
SameHash(c) ==
  /\ header[c] # NoHash /\ ~expired[c]
  /\ Cached(cache, url[c])
  /\ Get(cache, url[c]).hash = answer[c].content

Unchanged(c) ==
  /\ pc[c] = "handle" /\ answer[c].kind = "ok"
  /\ SameHash(c)
  /\ Finish(c, "unchanged")
  /\ UNCHANGED <<origin, cache, locals, answer, history>>

(* PageClassifier calls .get on what JSON-LD holds and lets the
   AttributeError of an item that is no object pass, out of fetch, when the
   cache has been updated already.                                         *)
ClassificationFails(c) ==
  /\ pc[c] = "handle" /\ answer[c].kind = "ok"
  /\ ~SameHash(c)
  /\ answer[c].content \in Malformed
  /\ cache' = Store(cache, url[c], answer[c].etag, answer[c].control, answer[c].content)
  /\ Finish(c, "raised")
  /\ UNCHANGED <<origin, locals, answer, history>>

(* A new page: the cache is updated, then the page is analysed. *)
NewPage(c) ==
  /\ pc[c] = "handle" /\ answer[c].kind = "ok"
  /\ ~SameHash(c)
  /\ answer[c].content \notin Malformed
  /\ cache' = Store(cache, url[c], answer[c].etag, answer[c].control, answer[c].content)
  /\ IF answer[c].content \in Shells
       THEN Goto(c, "render") /\ UNCHANGED <<result, handed>>
       ELSE /\ Finish(c, "page")
            /\ handed' = [handed EXCEPT ![url[c]] = @ \cup {answer[c].content}]
  /\ UNCHANGED <<origin, locals, answer, shellOut>>

(* A 4xx: its empty page is stored without validators, and an empty page
   always looks as if it needed rendering.                                 *)
PermanentError(c) ==
  /\ pc[c] = "handle" /\ answer[c].kind = "permanent"
  /\ cache' = Store(cache, url[c], NoHash, "none", NoHash)
  /\ Goto(c, "render")
  /\ UNCHANGED <<origin, locals, answer, result, history>>

(* 5xx, 429, timeouts, connection errors: back off, or raise the last one. *)
TransientError(c) ==
  /\ pc[c] = "handle" /\ answer[c].kind = "transient"
  /\ IF attempt[c] < RetryAttempts
       THEN Goto(c, "backoff") /\ UNCHANGED result
       ELSE Finish(c, "raised")
  /\ UNCHANGED <<origin, cache, locals, answer, history>>

(* Any other exception: too many redirects, a body that cannot be decoded. *)
OtherError(c) ==
  /\ pc[c] = "handle" /\ answer[c].kind = "raise"
  /\ Finish(c, "raised")
  /\ UNCHANGED <<origin, cache, locals, answer, history>>

Retry(c) ==
  /\ pc[c] = "backoff"
  /\ Goto(c, "request")
  /\ UNCHANGED <<origin, cache, locals, answer, result, history>>

(* Fault: the entry of a rendered page stays. *)
FaultRendered(c) ==
  /\ pc[c] = "render"
  /\ Finish(c, "rendered")
  /\ handed' = [handed EXCEPT ![url[c]] = @ \cup {page[url[c]]}]
  /\ UNCHANGED <<origin, cache, locals, answer, shellOut>>

(* The browser has rendered the page: its URL leaves the cache. *)
Rendered(c) ==
  /\ pc[c] = "render"
  /\ Finish(c, "rendered")
  /\ cache' = Invalidate(cache, url[c])
  /\ handed' = [handed EXCEPT ![url[c]] = @ \cup {page[url[c]]}]
  /\ UNCHANGED <<origin, locals, answer, shellOut>>

(* Rendering raises: the static result is returned, empty after a 4xx. *)
RenderFails(c) ==
  /\ pc[c] = "render"
  /\ Finish(c, IF answer[c].kind = "ok" THEN "page" ELSE "empty")
  /\ IF answer[c].kind = "ok"
       THEN /\ handed' = [handed EXCEPT ![url[c]] = @ \cup {answer[c].content}]
            /\ shellOut' = shellOut \cup {url[c]}
       ELSE UNCHANGED history
  /\ UNCHANGED <<origin, cache, locals, answer>>

-----------------------------------------------------------------------------
(* The surroundings. *)
PageChanges ==
  /\ changes < MaxChanges
  /\ changes' = changes + 1
  /\ \E u \in CacheUrls : \E v \in Hashes \ {page[u]} : page' = [page EXCEPT ![u] = v]
  /\ UNCHANGED <<cache, pc, locals, answer, result, history>>

(* The max-age of an entry passes. *)
EntryAges ==
  /\ \E i \in 1..Len(cache) : ~cache[i].aged /\ cache' = [cache EXCEPT ![i].aged = TRUE]
  /\ UNCHANGED <<origin, pc, locals, answer, result, history>>

Handle(c) ==
  \/ NotModified(c) \/ Redirected404(c) \/ Unchanged(c) \/ NewPage(c) \/ ClassificationFails(c)
  \/ PermanentError(c) \/ TransientError(c) \/ OtherError(c)

Fetch(c) ==
  \/ Acquire(c) \/ Respond(c) \/ Handle(c) \/ Retry(c) \/ Rendered(c) \/ RenderFails(c)

Terminated ==
  /\ \A c \in Calls : pc[c] = "done"
  /\ UNCHANGED vars

Next ==
  \/ \E c \in Calls : Begin(c) \/ Reject(c) \/ Fetch(c)
  \/ PageChanges \/ EntryAges \/ Terminated

Spec == Init /\ [][Next]_vars

(* The limiter lets every call pass, and requests and renderings time out. *)
FairSpec == Spec /\ \A c \in Calls : WF_vars(Fetch(c))

-----------------------------------------------------------------------------
(* Properties. *)

(* The cache never outgrows its limit and never has two entries of one URL,
   whatever fills, refreshes and invalidations the calls interleave.       *)
CacheIsBounded == Len(cache) <= MaxEntries /\ OnePerUrl(cache)

(* Whether a shell is rendered depends on its being classified first. *)
RenderedShells == Shells \ Malformed

Rendering(u) == \E c \in Calls : pc[c] = "render" /\ url[c] = u /\ answer[c].kind = "ok"

(* The cache vouches for a shell, so that later calls skip the page, only
   while a call is still rendering it or after a rendering has failed: no
   interleaving of fills and invalidations leaves such an entry behind a
   rendered page.  (A shell that cannot be classified is never rendered.)  *)
ShellsAreNotKept ==
  \A i \in 1..Len(cache) :
    cache[i].etag \in RenderedShells \/ cache[i].hash \in RenderedShells
      => Rendering(cache[i].url) \/ cache[i].url \in shellOut

(* A call is rendering this very content of a URL. *)
RenderingOf(u, v) ==
  \E d \in Calls :
    pc[d] = "render" /\ url[d] = u /\ answer[d].kind = "ok" /\ answer[d].content = v

(* A content that a collector has been handed, or is going to be handed when
   it is rendered, or has been handed as it was rendered, or that nobody can
   ever get because its classification fails.                              *)
Known(u, v) ==
  \/ v \in handed[u]
  \/ v \in Malformed
  \/ v \in Shells /\ RenderingOf(u, v)
  \/ v \in Shells /\ \E d \in Calls : url[d] = u /\ result[d] = "rendered"

(* A page is skipped as unchanged only if its content is known: what cannot
   be classified is told once, and every later call reports a skip.        *)
SkipsAreKnown ==
  [][\A c \in Calls :
       /\ result'[c] \in {"not_modified", "unchanged"}
       /\ result[c] = "none"
       => Known(url[c], IF answer[c].kind = "304" THEN header[c] ELSE answer[c].content)]_vars

(* Every fetch comes to its end. *)
FetchesEnd == \A c \in Calls : pc[c] = "acquire" ~> pc[c] = "done"

=============================================================================
