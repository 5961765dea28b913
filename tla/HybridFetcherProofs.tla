------------------------ MODULE HybridFetcherProofs ------------------------
(* Theorems about HybridFetcher and their proofs. *)
EXTENDS HybridFetcher, StoresProofs

(* The page is requested only while attempts are left. *)
AttemptsOK ==
  \A c \in Calls :
    /\ pc[c] \in {"idle", "acquire"} => attempt[c] = 0
    /\ pc[c] \in {"request", "backoff"} => attempt[c] < RetryAttempts

(* A page comes with its own validator or with none. *)
AnswersOK ==
  \A c \in Calls :
    answer[c].kind = "ok" => answer[c].content \in Hashes /\ answer[c].etag \in {answer[c].content, NoHash}

FetchInv ==
  /\ TypeOK
  /\ AttemptsOK
  /\ AnswersOK
  /\ CacheIsBounded
  /\ ShellsAreNotKept

LEMMA GoodCacheIffBounded == cache \in Caches /\ CacheIsBounded <=> GoodCache(cache)
BY DEF CacheIsBounded, GoodCache

LEMMA FetchInit == Init => FetchInv
<1> SUFFICES ASSUME Init
             PROVE  FetchInv
  OBVIOUS
<1>1. NoAnswer \in Answers
  BY DEF NoAnswer, Answers, AnswerKinds, Controls
<1>2. cache \in Caches /\ Len(cache) = 0
  BY DEF Init, Caches
<1>3. TypeOK
  BY <1>1, <1>2, FetcherAssumption DEF Init, TypeOK
<1>4. AttemptsOK /\ AnswersOK
  BY FetcherAssumption DEF Init, AttemptsOK, AnswersOK, NoAnswer
<1>5. CacheIsBounded /\ ShellsAreNotKept
  BY <1>2, CacheAssumption DEF CacheIsBounded, OnePerUrl, ShellsAreNotKept
<1> QED
  BY <1>3, <1>4, <1>5 DEF FetchInv

(* What a step on the cache must respect: a shell's entry is an old one, or
   a call renders its URL, or its rendering has failed.                    *)
LEMMA ShellsKept ==
  ASSUME \A i \in 1..Len(cache') : \A v :
           v = cache'[i].url /\ (cache'[i].etag \in RenderedShells \/ cache'[i].hash \in RenderedShells)
             => Rendering(v)' \/ v \in shellOut'
  PROVE  ShellsAreNotKept'
BY DEF ShellsAreNotKept, Rendering

(* Steps that leave the cache and every rendering alone. *)
LEMMA CacheAlone ==
  ASSUME CacheIsBounded, ShellsAreNotKept, cache' = cache, shellOut' = shellOut,
         NEW c \in Calls, pc[c] # "render", url' = url,
         \A d \in Calls \ {c} : pc'[d] = pc[d] /\ answer'[d] = answer[d]
  PROVE  CacheIsBounded' /\ ShellsAreNotKept'
<1>1. \A u : Rendering(u) => Rendering(u)'
  BY DEF Rendering
<1> QED
  BY <1>1 DEF CacheIsBounded, OnePerUrl, ShellsAreNotKept

(* The steps before an answer is handled, and those that only finish. *)
LEMMA QuietStep ==
  ASSUME FetchInv, NEW c \in Calls,
         \/ Begin(c) \/ Reject(c) \/ Acquire(c) \/ Respond(c) \/ NotModified(c)
         \/ Redirected404(c) \/ Unchanged(c) \/ TransientError(c) \/ OtherError(c) \/ Retry(c)
  PROVE  FetchInv'
<1> USE DEF FetchInv, Goto, Finish, origin, locals, history
<1>1. CASE Begin(c)
  <2>1. ConditionalHeader(cache, url[c]) \in Hashes \cup {NoHash} /\ IsExpired(cache, url[c]) \in BOOLEAN
    BY GoodCacheIffBounded, HeaderIsTyped DEF TypeOK
  <2>2. TypeOK'
    BY <1>1, <2>1 DEF Begin, TypeOK
  <2>3. AttemptsOK' /\ AnswersOK'
    BY <1>1 DEF Begin, AttemptsOK, AnswersOK, TypeOK
  <2>4. CacheIsBounded' /\ ShellsAreNotKept'
    BY <1>1, CacheAlone DEF Begin, TypeOK
  <2> QED
    BY <2>2, <2>3, <2>4
<1>2. CASE Reject(c)
  <2>1. TypeOK' /\ AttemptsOK' /\ AnswersOK'
    BY <1>2 DEF Reject, TypeOK, AttemptsOK, AnswersOK
  <2>2. CacheIsBounded' /\ ShellsAreNotKept'
    BY <1>2, CacheAlone DEF Reject, TypeOK
  <2> QED
    BY <2>1, <2>2
<1>3. CASE Acquire(c)
  <2>1. TypeOK'
    BY <1>3 DEF Acquire, TypeOK, AttemptsOK
  <2>2. AttemptsOK' /\ AnswersOK'
    BY <1>3, FetcherAssumption DEF Acquire, TypeOK, AttemptsOK, AnswersOK
  <2>3. CacheIsBounded' /\ ShellsAreNotKept'
    BY <1>3, CacheAlone DEF Acquire, TypeOK
  <2> QED
    BY <2>1, <2>2, <2>3
<1>4. CASE Respond(c)
  <2> PICK a \in Responses(c) : answer' = [answer EXCEPT ![c] = a]
    BY <1>4 DEF Respond
  <2>1. page[url[c]] \in Hashes
    BY DEF TypeOK
  <2>2. a \in Answers /\ (a.kind = "ok" => a.content \in Hashes /\ a.etag \in {a.content, NoHash})
    BY <2>1 DEF Responses, Answers, AnswerKinds, Controls, NoAnswer
  <2>3. attempt[c] + 1 \in 0..RetryAttempts
    BY <1>4, FetcherAssumption DEF Respond, AttemptsOK, TypeOK
  <2>4. TypeOK'
    BY <1>4, <2>2, <2>3 DEF Respond, TypeOK
  <2>5. AttemptsOK' /\ AnswersOK'
    BY <1>4, <2>2, <2>3 DEF Respond, AttemptsOK, AnswersOK, TypeOK
  <2>6. CacheIsBounded' /\ ShellsAreNotKept'
    BY <1>4, CacheAlone DEF Respond, TypeOK
  <2> QED
    BY <2>4, <2>5, <2>6
<1>5. CASE NotModified(c) \/ Redirected404(c) \/ Unchanged(c) \/ OtherError(c)
  <2>1. TypeOK' /\ AttemptsOK' /\ AnswersOK'
    BY <1>5 DEF NotModified, Redirected404, Unchanged, OtherError, TypeOK, AttemptsOK, AnswersOK
  <2>2. CacheIsBounded' /\ ShellsAreNotKept'
    BY <1>5, CacheAlone DEF NotModified, Redirected404, Unchanged, OtherError, TypeOK
  <2> QED
    BY <2>1, <2>2
<1>6. CASE TransientError(c)
  <2>1. TypeOK' /\ AttemptsOK' /\ AnswersOK'
    BY <1>6 DEF TransientError, TypeOK, AttemptsOK, AnswersOK
  <2>2. CacheIsBounded' /\ ShellsAreNotKept'
    BY <1>6, CacheAlone DEF TransientError, TypeOK
  <2> QED
    BY <2>1, <2>2
<1>7. CASE Retry(c)
  <2>1. TypeOK' /\ AttemptsOK' /\ AnswersOK'
    BY <1>7 DEF Retry, TypeOK, AttemptsOK, AnswersOK
  <2>2. CacheIsBounded' /\ ShellsAreNotKept'
    BY <1>7, CacheAlone DEF Retry, TypeOK
  <2> QED
    BY <2>1, <2>2
<1> QED
  BY <1>1, <1>2, <1>3, <1>4, <1>5, <1>6, <1>7

(* A fill of the cache by call c, for its URL and with its answer. *)
LEMMA FillStep ==
  ASSUME FetchInv, NEW c \in Calls, NewPage(c) \/ ClassificationFails(c) \/ PermanentError(c)
  PROVE  FetchInv'
<1> USE DEF FetchInv, Goto, Finish, origin, locals, history
<1> DEFINE u == url[c]
<1>1. u \in CacheUrls /\ answer[c] \in Answers /\ GoodCache(cache)
  BY GoodCacheIffBounded DEF TypeOK
<1>2. PICK etag \in Hashes \cup {NoHash}, control \in Controls, hash \in Hashes \cup {NoHash} :
        /\ cache' = Store(cache, u, etag, control, hash)
        /\ etag \in RenderedShells \/ hash \in RenderedShells =>
             answer[c].kind = "ok" /\ answer[c].content \in RenderedShells
  <2>1. CASE NewPage(c)
    <3>1. /\ answer[c].etag \in Hashes \cup {NoHash} /\ answer[c].control \in Controls
          /\ answer[c].content \in Hashes \cup {NoHash}
      BY <1>1 DEF Answers
    <3>2. answer[c].kind = "ok" /\ cache' = Store(cache, u, answer[c].etag, answer[c].control, answer[c].content)
      BY <2>1 DEF NewPage
    <3>3. answer[c].etag \in RenderedShells => answer[c].content \in RenderedShells
      BY <3>2, FetcherAssumption, CacheAssumption DEF AnswersOK, RenderedShells
    <3> QED
      BY <3>1, <3>2, <3>3
  <2>2. CASE PermanentError(c)
    BY <2>2, FetcherAssumption, CacheAssumption DEF PermanentError, Controls, RenderedShells
  <2>3. CASE ClassificationFails(c)
    <3>1. /\ answer[c].etag \in Hashes \cup {NoHash} /\ answer[c].control \in Controls
          /\ answer[c].content \in Hashes \cup {NoHash}
      BY <1>1 DEF Answers
    <3>2. /\ answer[c].kind = "ok" /\ answer[c].content \in Malformed
          /\ cache' = Store(cache, u, answer[c].etag, answer[c].control, answer[c].content)
      BY <2>3 DEF ClassificationFails
    <3>3. answer[c].content \notin RenderedShells /\ answer[c].etag \notin RenderedShells
      BY <3>2, FetcherAssumption, CacheAssumption DEF AnswersOK, RenderedShells
    <3> QED
      BY <3>1, <3>2, <3>3
  <2> QED
    BY <2>1, <2>2, <2>3
<1>3. GoodCache(cache')
  BY <1>1, <1>2, StoreIsGood
<1>4. pc[c] = "handle" /\ pc' \in [Calls -> {"idle", "acquire", "request", "handle", "backoff", "render", "done"}]
  BY DEF NewPage, ClassificationFails, PermanentError, TypeOK
<1>5. /\ \A d \in Calls \ {c} : pc'[d] = pc[d]
      /\ UNCHANGED <<page, changes, url, header, expired, attempt, answer, shellOut>>
  BY DEF NewPage, ClassificationFails, PermanentError, TypeOK
<1>6. pc'[c] \in {"render", "done"}
  BY DEF NewPage, ClassificationFails, PermanentError, TypeOK
<1>7. answer[c].kind = "ok" /\ answer[c].content \in RenderedShells => pc'[c] = "render"
  BY DEF NewPage, ClassificationFails, PermanentError, TypeOK, RenderedShells
<1>8. TypeOK'
  <2>1. /\ result' \in [Calls -> {"none", "page", "rendered", "empty", "404", "not_modified", "unchanged", "raised"}]
        /\ handed' \in [CacheUrls -> SUBSET Hashes]
    <3>1. CASE NewPage(c)
      <4>1. answer[c].content \in Hashes
        BY <3>1 DEF NewPage, AnswersOK
      <4> QED
        BY <3>1, <4>1 DEF NewPage, TypeOK
    <3>2. CASE PermanentError(c)
      BY <3>2 DEF PermanentError, TypeOK
    <3>3. CASE ClassificationFails(c)
      BY <3>3 DEF ClassificationFails, TypeOK
    <3> QED
      BY <3>1, <3>2, <3>3
  <2> QED
    BY <1>3, <1>4, <1>5, <2>1 DEF TypeOK, GoodCache
<1>9. AttemptsOK' /\ AnswersOK'
  BY <1>5, <1>6 DEF AttemptsOK, AnswersOK
<1>10. ShellsAreNotKept'
  <2>1. \A v : Rendering(v) => Rendering(v)'
    BY <1>4, <1>5 DEF Rendering
  <2>2. answer[c].kind = "ok" /\ answer[c].content \in RenderedShells => Rendering(u)'
    BY <1>5, <1>7 DEF Rendering
  <2> SUFFICES ASSUME NEW i \in 1..Len(cache'), NEW v, v = cache'[i].url,
                      cache'[i].etag \in RenderedShells \/ cache'[i].hash \in RenderedShells
               PROVE  Rendering(v)' \/ v \in shellOut'
    BY ShellsKept
  <2>3. CASE \E j \in 1..Len(cache) : cache'[i] = cache[j]
    BY <1>5, <2>1, <2>3 DEF ShellsAreNotKept
  <2>4. CASE /\ cache'[i].url = u
             /\ cache'[i].etag = etag \/ \E j \in 1..Len(cache) : cache[j].url = u /\ cache'[i].etag = cache[j].etag
             /\ cache'[i].hash = hash \/ \E j \in 1..Len(cache) : cache[j].url = u /\ cache'[i].hash = cache[j].hash
    <3>1. CASE etag \in RenderedShells \/ hash \in RenderedShells
      BY <1>2, <1>5, <2>2, <2>4, <3>1 DEF Rendering
    <3>2. CASE ~(etag \in RenderedShells \/ hash \in RenderedShells)
      <4>1. \E j \in 1..Len(cache) : cache[j].url = u /\ (cache[j].etag \in RenderedShells \/ cache[j].hash \in RenderedShells)
        BY <2>4, <3>2
      <4> QED
        BY <1>5, <2>1, <2>4, <4>1 DEF ShellsAreNotKept
    <3> QED
      BY <3>1, <3>2
  <2>5. AsStored(cache', cache, u, etag, hash)
    BY <1>1, <1>2, StoreIsGood
  <2> QED
    BY <2>3, <2>4, <2>5 DEF AsStored
<1> QED
  BY <1>3, <1>8, <1>9, <1>10 DEF GoodCache, CacheIsBounded

(* The end of a rendering. *)
LEMMA RenderStep ==
  ASSUME FetchInv, NEW c \in Calls, Rendered(c) \/ RenderFails(c)
  PROVE  FetchInv'
<1> USE DEF FetchInv, Goto, Finish, origin, locals, history
<1>1. pc[c] = "render" /\ \A d \in Calls \ {c} : pc'[d] = pc[d]
  BY DEF Rendered, RenderFails, TypeOK
<1>2. UNCHANGED <<page, changes, url, header, expired, attempt, answer>>
  BY DEF Rendered, RenderFails
<1>3. pc'[c] = "done" /\ pc' \in [Calls -> {"idle", "acquire", "request", "handle", "backoff", "render", "done"}]
  BY DEF Rendered, RenderFails, TypeOK
<1>4. AttemptsOK' /\ AnswersOK'
  BY <1>1, <1>2, <1>3 DEF AttemptsOK, AnswersOK
<1>5. CASE Rendered(c)
  <2>1. GoodCache(cache) /\ cache' = Invalidate(cache, url[c])
    BY <1>5, GoodCacheIffBounded DEF Rendered, TypeOK
  <2>2. GoodCache(cache') /\ Within(cache', cache) /\ \A k \in 1..Len(cache') : cache'[k].url # url[c]
    BY <2>1, InvalidateIsGood
  <2>3. \A v : v # url[c] /\ Rendering(v) => Rendering(v)'
    BY <1>1, <1>2 DEF Rendering
  <2>4. ShellsAreNotKept'
    <3> SUFFICES ASSUME NEW i \in 1..Len(cache'), NEW v, v = cache'[i].url,
                        cache'[i].etag \in RenderedShells \/ cache'[i].hash \in RenderedShells
                 PROVE  Rendering(v)' \/ v \in shellOut'
      BY ShellsKept
    <3>1. PICK j \in 1..Len(cache) : cache'[i] = cache[j]
      BY <2>2 DEF Within
    <3>2. v # url[c] /\ (Rendering(v) \/ v \in shellOut)
      BY <2>2, <3>1 DEF ShellsAreNotKept
    <3>3. shellOut' = shellOut
      BY <1>5 DEF Rendered
    <3> QED
      BY <2>3, <3>2, <3>3
  <2>5. handed' \in [CacheUrls -> SUBSET Hashes]
    BY <1>5 DEF Rendered, TypeOK
  <2>6. TypeOK'
    BY <1>5, <1>2, <1>3, <2>2, <2>5 DEF Rendered, TypeOK, GoodCache
  <2> QED
    BY <1>4, <2>2, <2>4, <2>6 DEF GoodCache, CacheIsBounded
<1>6. CASE RenderFails(c)
  <2>1. cache' = cache /\ shellOut \subseteq shellOut' /\ (answer[c].kind = "ok" => url[c] \in shellOut')
    BY <1>6 DEF RenderFails
  <2>2. \A v : Rendering(v) => Rendering(v)' \/ v \in shellOut'
    BY <1>1, <1>2, <2>1 DEF Rendering
  <2>3. CacheIsBounded' /\ ShellsAreNotKept'
    BY <2>1, <2>2 DEF CacheIsBounded, OnePerUrl, ShellsAreNotKept
  <2>4. handed' \in [CacheUrls -> SUBSET Hashes] /\ shellOut' \in SUBSET CacheUrls
    BY <1>6 DEF RenderFails, TypeOK, AnswersOK
  <2>5. TypeOK'
    BY <1>6, <1>2, <1>3, <2>4 DEF RenderFails, TypeOK
  <2> QED
    BY <1>4, <2>3, <2>5
<1> QED
  BY <1>5, <1>6

(* The server and the clock. *)
LEMMA OutsideStep ==
  ASSUME FetchInv, PageChanges \/ EntryAges
  PROVE  FetchInv'
<1> USE DEF FetchInv, origin, locals, history
<1>1. CASE PageChanges
  <2>1. TypeOK'
    BY <1>1, FetcherAssumption DEF PageChanges, TypeOK
  <2> QED
    BY <1>1, <2>1 DEF PageChanges, AttemptsOK, AnswersOK, CacheIsBounded, OnePerUrl, ShellsAreNotKept, Rendering
<1>2. CASE EntryAges
  <2> PICK i \in 1..Len(cache) : cache' = [cache EXCEPT ![i].aged = TRUE]
    BY <1>2 DEF EntryAges
  <2>1. cache \in Seq(Entries) /\ cache[i] \in Entries
    BY EntryIsTyped DEF TypeOK, Caches
  <2>2. [cache[i] EXCEPT !.aged = TRUE] \in Entries
    BY <2>1 DEF Entries
  <2>3. cache' \in Seq(Entries) /\ Len(cache') = Len(cache)
    BY <2>1, <2>2
  <2>4. \A k \in 1..Len(cache) : /\ cache'[k].url = cache[k].url /\ cache'[k].etag = cache[k].etag
                                 /\ cache'[k].hash = cache[k].hash
    BY <2>1, EntryIsTyped DEF Caches, Entries
  <2>5. CacheIsBounded'
    BY <2>3, <2>4 DEF CacheIsBounded, OnePerUrl
  <2>6. UNCHANGED <<pc, url, answer, shellOut>>
    BY <1>2 DEF EntryAges
  <2>7. ShellsAreNotKept'
    BY <2>3, <2>4, <2>6 DEF ShellsAreNotKept, Rendering
  <2>8. TypeOK' /\ AttemptsOK' /\ AnswersOK'
    BY <1>2, <2>3 DEF EntryAges, TypeOK, Caches, AttemptsOK, AnswersOK
  <2> QED
    BY <2>5, <2>7, <2>8
<1> QED
  BY <1>1, <1>2

LEMMA FetchInvariance == Spec => []FetchInv
<1>1. ASSUME FetchInv, [Next]_vars PROVE FetchInv'
  <2>1. CASE \E c \in Calls : Begin(c) \/ Reject(c) \/ Fetch(c)
    BY <1>1, <2>1, QuietStep, FillStep, RenderStep DEF Fetch, Handle
  <2>2. CASE PageChanges \/ EntryAges
    BY <1>1, <2>2, OutsideStep
  <2>3. CASE UNCHANGED vars
    BY <1>1, <2>3 DEF vars, origin, locals, history, FetchInv, TypeOK, AttemptsOK,
       AnswersOK, CacheIsBounded, OnePerUrl, ShellsAreNotKept, Rendering
  <2> QED
    BY <1>1, <2>1, <2>2, <2>3 DEF Next, Terminated
<1> QED
  BY FetchInit, <1>1, PTL DEF Spec

(* Every reachable state is well typed; no call exceeds its attempts. *)
THEOREM FetcherTypeCorrect == Spec => []TypeOK
BY FetchInvariance, PTL DEF FetchInv

(* The cache stays bounded and keyed by URL. *)
THEOREM CacheStaysBounded == Spec => []CacheIsBounded
BY FetchInvariance, PTL DEF FetchInv

(* A rendered page leaves no entry behind. *)
THEOREM RenderedPagesAreRefetched == Spec => []ShellsAreNotKept
BY FetchInvariance, PTL DEF FetchInv

-----------------------------------------------------------------------------
(***************************************************************************)
(* Skips.  What the cache vouches for, and the validators that calls have  *)
(* read from it, are contents that are known; and what is known stays so.  *)
(***************************************************************************)

(* A call that has a result is over. *)
ResultsAreFinal == \A c \in Calls : result[c] # "none" => pc[c] = "done"

(* 304 answers a validator that was sent. *)
NotModifiedIsAsked ==
  \A c \in Calls : answer[c].kind = "304" => pc[c] # "idle" /\ header[c] # NoHash

CacheIsKnown ==
  \A i \in 1..Len(cache) :
    /\ cache[i].etag # NoHash => Known(cache[i].url, cache[i].etag)
    /\ cache[i].hash # NoHash => Known(cache[i].url, cache[i].hash)

HeadersAreKnown == \A c \in Calls : header[c] # NoHash => Known(url[c], header[c])

SkipInv == ResultsAreFinal /\ NotModifiedIsAsked /\ CacheIsKnown /\ HeadersAreKnown

LEMMA SkipInit == Init => SkipInv
<1> SUFFICES ASSUME Init PROVE SkipInv
  OBVIOUS
<1>1. ResultsAreFinal /\ NotModifiedIsAsked /\ HeadersAreKnown
  BY DEF Init, ResultsAreFinal, NotModifiedIsAsked, HeadersAreKnown, NoAnswer
<1>2. Len(cache) = 0
  BY DEF Init
<1>3. CacheIsKnown
  BY <1>2 DEF CacheIsKnown
<1> QED
  BY <1>1, <1>3 DEF SkipInv

(* A step leaves known what was: a rendering ends by handing its content
   over, or by having rendered it.                                         *)
LEMMA KnownStays ==
  ASSUME FetchInv, SkipInv, [Next]_vars, NEW u \in CacheUrls, NEW v, Known(u, v)
  PROVE  Known(u, v)'
<1> USE DEF Goto, Finish, origin, locals, history
<1>1. UNCHANGED url
  BY DEF Next, vars, Begin, Reject, Fetch, Acquire, Respond, Handle, NotModified, Redirected404,
     Unchanged, NewPage, ClassificationFails, PermanentError, TransientError, OtherError, Retry,
     Rendered, RenderFails, PageChanges, EntryAges, Terminated
<1>2. \A w \in CacheUrls : handed[w] \subseteq handed'[w]
  <2>1. CASE UNCHANGED handed
    BY <2>1
  <2>2. ASSUME NEW c \in Calls, NewPage(c) \/ Rendered(c) \/ RenderFails(c)
        PROVE  UNCHANGED handed \/ \E w : handed' = [handed EXCEPT ![url[c]] = handed[url[c]] \cup {w}]
    BY <2>2 DEF NewPage, Rendered, RenderFails
  <2>3. handed \in [CacheUrls -> SUBSET Hashes]
    BY DEF FetchInv, TypeOK
  <2>4. ASSUME NEW c \in Calls, NewPage(c) \/ Rendered(c) \/ RenderFails(c)
        PROVE  \A w \in CacheUrls : handed[w] \subseteq handed'[w]
    BY <2>2, <2>3, <2>4
  <2> QED
    BY <2>1, <2>4 DEF Next, vars, Begin, Reject, Fetch, Acquire, Respond, Handle, NotModified,
       Redirected404, Unchanged, ClassificationFails, PermanentError, TransientError, OtherError,
       Retry, PageChanges, EntryAges, Terminated
<1>3. \A d \in Calls : result[d] = "rendered" => result'[d] = "rendered"
  BY DEF Next, vars, Begin, Reject, Fetch, Acquire, Respond, Handle, NotModified, Redirected404,
     Unchanged, NewPage, ClassificationFails, PermanentError, TransientError, OtherError, Retry,
     Rendered, RenderFails, PageChanges, EntryAges, Terminated, FetchInv, TypeOK, SkipInv, ResultsAreFinal
<1>4. ASSUME NEW d \in Calls, pc[d] = "render", url[d] = u, answer[d].kind = "ok", answer[d].content = v
      PROVE  \/ pc'[d] = "render" /\ answer'[d] = answer[d]
             \/ result'[d] = "rendered"
             \/ v \in handed'[u]
  <2>1. CASE Rendered(d)
    BY <1>4, <2>1 DEF Rendered, FetchInv, TypeOK
  <2>2. CASE RenderFails(d)
    BY <1>4, <2>2 DEF RenderFails, FetchInv, TypeOK
  <2>3. CASE ~Rendered(d) /\ ~RenderFails(d)
    BY <1>4, <2>3 DEF Next, vars, Begin, Reject, Fetch, Acquire, Respond, Handle, NotModified,
       Redirected404, Unchanged, NewPage, ClassificationFails, PermanentError, TransientError,
       OtherError, Retry, Rendered, RenderFails, PageChanges, EntryAges, Terminated, FetchInv, TypeOK
  <2> QED
    BY <2>1, <2>2, <2>3
<1>5. CASE v \in handed[u] \/ v \in Malformed
  BY <1>2, <1>5 DEF Known
<1>6. CASE v \in Shells /\ RenderingOf(u, v)
  BY <1>1, <1>4, <1>6 DEF Known, RenderingOf
<1>7. CASE v \in Shells /\ \E d \in Calls : url[d] = u /\ result[d] = "rendered"
  BY <1>1, <1>3, <1>7 DEF Known
<1> QED
  BY <1>5, <1>6, <1>7 DEF Known

(* A name for the URL and the content that an entry vouches for. *)
LEMMA EntriesKnown ==
  ASSUME \A i \in 1..Len(cache') : \A u, v :
           u = cache'[i].url /\ v \in {cache'[i].etag, cache'[i].hash} \ {NoHash} => Known(u, v)'
  PROVE  CacheIsKnown'
BY DEF CacheIsKnown, Known, RenderingOf

LEMMA EntryIsKnown ==
  ASSUME FetchInv, SkipInv, NEW j \in 1..Len(cache)
  PROVE  /\ cache[j].url \in CacheUrls
         /\ \A v \in {cache[j].etag, cache[j].hash} \ {NoHash} : Known(cache[j].url, v)
BY EntryIsTyped DEF FetchInv, TypeOK, Entries, SkipInv, CacheIsKnown

(* A step that takes every entry from the cache before. *)
LEMMA OldEntriesAreKnown ==
  ASSUME FetchInv, SkipInv, [Next]_vars,
         \A i \in 1..Len(cache') : \E j \in 1..Len(cache) :
           /\ cache'[i].url = cache[j].url /\ cache'[i].etag = cache[j].etag
           /\ cache'[i].hash = cache[j].hash
  PROVE  CacheIsKnown'
<1> SUFFICES ASSUME NEW i \in 1..Len(cache'), NEW u, NEW v,
                    u = cache'[i].url, v \in {cache'[i].etag, cache'[i].hash} \ {NoHash}
             PROVE  Known(u, v)'
  BY EntriesKnown
<1> PICK j \in 1..Len(cache) :
      /\ cache'[i].url = cache[j].url /\ cache'[i].etag = cache[j].etag
      /\ cache'[i].hash = cache[j].hash
  OBVIOUS
<1> QED
  BY EntryIsKnown, KnownStays

(* A fill stores the content that was received, which is handed over at
   once, or rendered first, or malformed.                                  *)
LEMMA FilledEntriesAreKnown ==
  ASSUME FetchInv, SkipInv, [Next]_vars, NEW c \in Calls,
         NewPage(c) \/ ClassificationFails(c) \/ PermanentError(c)
  PROVE  CacheIsKnown'
<1> USE DEF Goto, Finish, origin, locals, history
<1>1. url[c] \in CacheUrls /\ answer[c] \in Answers /\ GoodCache(cache) /\ UNCHANGED url
  BY GoodCacheIffBounded DEF FetchInv, TypeOK, NewPage, ClassificationFails, PermanentError
<1>2. PICK etag \in Hashes \cup {NoHash}, control \in Controls, hash \in Hashes \cup {NoHash} :
        /\ cache' = Store(cache, url[c], etag, control, hash)
        /\ \A v \in {etag, hash} \ {NoHash} : answer[c].kind = "ok" /\ v = answer[c].content /\ v \in Hashes
  <2>1. CASE PermanentError(c)
    BY <2>1 DEF PermanentError, Controls
  <2>2. CASE NewPage(c) \/ ClassificationFails(c)
    <3>1. /\ answer[c].etag \in Hashes \cup {NoHash} /\ answer[c].control \in Controls
          /\ answer[c].content \in Hashes \cup {NoHash}
      BY <1>1 DEF Answers
    <3>2. answer[c].kind = "ok" /\ cache' = Store(cache, url[c], answer[c].etag, answer[c].control, answer[c].content)
      BY <2>2 DEF NewPage, ClassificationFails
    <3>3. answer[c].content \in Hashes /\ answer[c].etag \in {answer[c].content, NoHash}
      BY <3>2 DEF FetchInv, AnswersOK
    <3> QED
      BY <3>1, <3>2, <3>3
  <2> QED
    BY <2>1, <2>2
<1>3. ASSUME NEW u, NEW v, u = url[c], v \in {etag, hash} \ {NoHash}
      PROVE  Known(u, v)'
  <2>1. answer[c].kind = "ok" /\ v = answer[c].content /\ v \in Hashes
    BY <1>2, <1>3
  <2>2. CASE ClassificationFails(c)
    BY <2>1, <2>2 DEF ClassificationFails, Known
  <2>3. CASE NewPage(c) /\ v \in Shells
    <3>1. pc'[c] = "render" /\ UNCHANGED <<url, answer>>
      BY <2>1, <2>3 DEF NewPage, FetchInv, TypeOK
    <3> QED
      BY <1>3, <2>1, <2>3, <3>1 DEF Known, RenderingOf
  <2>4. CASE NewPage(c) /\ v \notin Shells
    <3>1. v \in handed'[u]
      BY <1>1, <1>3, <2>1, <2>4 DEF NewPage, FetchInv, TypeOK
    <3> QED
      BY <3>1 DEF Known
  <2>5. CASE PermanentError(c)
    BY <2>1, <2>5 DEF PermanentError
  <2> QED
    BY <2>2, <2>3, <2>4, <2>5
<1>4. AsStored(cache', cache, url[c], etag, hash)
  BY <1>1, <1>2, StoreIsGood
<1> SUFFICES ASSUME NEW i \in 1..Len(cache'), NEW u, NEW v,
                    u = cache'[i].url, v \in {cache'[i].etag, cache'[i].hash} \ {NoHash}
             PROVE  Known(u, v)'
  BY EntriesKnown
<1>5. CASE \E j \in 1..Len(cache) : cache'[i] = cache[j]
  BY <1>5, EntryIsKnown, KnownStays
<1>6. CASE /\ cache'[i].url = url[c]
           /\ cache'[i].etag = etag \/ \E j \in 1..Len(cache) : cache[j].url = url[c] /\ cache'[i].etag = cache[j].etag
           /\ cache'[i].hash = hash \/ \E j \in 1..Len(cache) : cache[j].url = url[c] /\ cache'[i].hash = cache[j].hash
  <2>1. CASE v \in {etag, hash}
    BY <1>3, <1>6, <2>1
  <2>2. ASSUME NEW j \in 1..Len(cache), cache[j].url = u, v \in {cache[j].etag, cache[j].hash}
        PROVE  Known(u, v)'
    BY <2>2, EntryIsKnown, KnownStays
  <2> QED
    BY <1>6, <2>1, <2>2
<1> QED
  BY <1>4, <1>5, <1>6 DEF AsStored

LEMMA SkipStep ==
  ASSUME FetchInv, SkipInv, [Next]_vars
  PROVE  SkipInv'
<1> USE DEF Goto, Finish, origin, locals, history
<1>1. UNCHANGED url
  BY DEF Next, vars, Begin, Reject, Fetch, Acquire, Respond, Handle, NotModified, Redirected404,
     Unchanged, NewPage, ClassificationFails, PermanentError, TransientError, OtherError, Retry,
     Rendered, RenderFails, PageChanges, EntryAges, Terminated
<1>2. ResultsAreFinal'
  BY DEF Next, vars, Begin, Reject, Fetch, Acquire, Respond, Handle, NotModified, Redirected404,
     Unchanged, NewPage, ClassificationFails, PermanentError, TransientError, OtherError, Retry,
     Rendered, RenderFails, PageChanges, EntryAges, Terminated, FetchInv, TypeOK, SkipInv, ResultsAreFinal
<1>3. NotModifiedIsAsked'
  <2>1. ASSUME NEW c \in Calls, Respond(c) PROVE NotModifiedIsAsked'
    <3> PICK a \in Responses(c) : answer' = [answer EXCEPT ![c] = a]
      BY <2>1 DEF Respond
    <3>1. page[url[c]] \in Hashes
      BY DEF FetchInv, TypeOK
    <3>2. a.kind = "304" => header[c] = page[url[c]]
      BY DEF Responses, NoAnswer
    <3>3. a.kind = "304" => header[c] # NoHash
      BY <3>1, <3>2, CacheAssumption
    <3> QED
      BY <2>1, <3>3 DEF Respond, FetchInv, TypeOK, SkipInv, NotModifiedIsAsked
  <2>2. ASSUME NEW c \in Calls, Begin(c) PROVE NotModifiedIsAsked'
    BY <2>2 DEF Begin, FetchInv, TypeOK, SkipInv, NotModifiedIsAsked
  <2>3. CASE UNCHANGED <<answer, header>> /\ \A c \in Calls : pc'[c] = "idle" => pc[c] = "idle"
    BY <2>3 DEF SkipInv, NotModifiedIsAsked
  <2>4. ASSUME NEW c \in Calls, Reject(c) \/ Fetch(c), ~Respond(c)
        PROVE  UNCHANGED <<answer, header>> /\ \A d \in Calls : pc'[d] = "idle" => pc[d] = "idle"
    BY <2>4 DEF Reject, Fetch, Acquire, Handle, NotModified, Redirected404,
       Unchanged, NewPage, ClassificationFails, PermanentError, TransientError, OtherError, Retry,
       Rendered, RenderFails, FetchInv, TypeOK
  <2>5. CASE PageChanges \/ EntryAges \/ Terminated \/ UNCHANGED vars
    BY <2>3, <2>5 DEF PageChanges, EntryAges, Terminated, vars
  <2> QED
    BY <2>1, <2>2, <2>3, <2>4, <2>5 DEF Next
<1>4. HeadersAreKnown'
  <2>1. ASSUME NEW c \in Calls, NEW u, NEW v, u = url[c], v = header'[c], v # NoHash
        PROVE  Known(u, v)'
    <3>1. u \in CacheUrls
      BY <2>1 DEF FetchInv, TypeOK
    <3>2. CASE Begin(c)
      <4>1. v = ConditionalHeader(cache, u)
        BY <2>1, <3>2 DEF Begin, FetchInv, TypeOK
      <4>2. Cached(cache, u) /\ v = cache[Position(cache, u)].etag
        BY <2>1, <4>1 DEF ConditionalHeader, Get
      <4> QED
        BY <2>1, <4>2, PositionIsIndex, EntryIsKnown, KnownStays
    <3>3. CASE ~Begin(c)
      <4>1. header'[c] = header[c]
        BY <3>3 DEF Next, vars, Begin, Reject, Fetch, Acquire, Respond, Handle, NotModified, Redirected404,
           Unchanged, NewPage, ClassificationFails, PermanentError, TransientError, OtherError, Retry,
           Rendered, RenderFails, PageChanges, EntryAges, Terminated, FetchInv, TypeOK
      <4> QED
        BY <2>1, <3>1, <4>1, KnownStays DEF SkipInv, HeadersAreKnown
    <3> QED
      BY <3>2, <3>3
  <2> QED
    BY <1>1, <2>1 DEF HeadersAreKnown, Known, RenderingOf
<1>5. CacheIsKnown'
  <2>1. CASE UNCHANGED cache
    BY <2>1, OldEntriesAreKnown
  <2>2. CASE EntryAges
    <3> PICK i \in 1..Len(cache) : cache' = [cache EXCEPT ![i].aged = TRUE]
      BY <2>2 DEF EntryAges
    <3>1. cache \in Seq(Entries)
      BY DEF FetchInv, TypeOK, Caches
    <3>2. Len(cache') = Len(cache) /\ \A k \in 1..Len(cache) : cache'[k].url = cache[k].url
            /\ cache'[k].etag = cache[k].etag /\ cache'[k].hash = cache[k].hash
      BY <3>1, EntryIsTyped DEF Caches, Entries
    <3> QED
      BY <3>2, OldEntriesAreKnown
  <2>3. ASSUME NEW c \in Calls, Rendered(c) PROVE CacheIsKnown'
    <3>1. GoodCache(cache) /\ cache' = Invalidate(cache, url[c])
      BY <2>3, GoodCacheIffBounded DEF Rendered, FetchInv, TypeOK
    <3>2. Within(cache', cache)
      BY <3>1, InvalidateIsGood
    <3> QED
      BY <3>2, OldEntriesAreKnown DEF Within
  <2>4. ASSUME NEW c \in Calls, NewPage(c) \/ ClassificationFails(c) \/ PermanentError(c)
        PROVE  CacheIsKnown'
    BY <2>4, FilledEntriesAreKnown
  <2> QED
    BY <2>1, <2>2, <2>3, <2>4 DEF Next, vars, Begin, Reject, Fetch, Acquire, Respond, Handle, NotModified,
       Redirected404, Unchanged, TransientError, OtherError, Retry, RenderFails, PageChanges, Terminated
<1> QED
  BY <1>2, <1>3, <1>4, <1>5 DEF SkipInv

LEMMA SkipInvariance == Spec => [](FetchInv /\ SkipInv)
BY FetchInvariance, SkipInit, SkipStep, PTL DEF Spec

(* The steps that report a skip, and what they report is known. *)
LEMMA SkipIsKnown ==
  ASSUME FetchInv, SkipInv, [Next]_vars, NEW c \in Calls,
         result'[c] \in {"not_modified", "unchanged"}, result[c] = "none"
  PROVE  Known(url[c], IF answer[c].kind = "304" THEN header[c] ELSE answer[c].content)
<1> USE DEF Goto, Finish, origin, locals, history
<1>1. NotModified(c) \/ Unchanged(c)
  BY DEF Next, vars, Begin, Reject, Fetch, Acquire, Respond, Handle, NotModified, Redirected404,
     Unchanged, NewPage, ClassificationFails, PermanentError, TransientError, OtherError, Retry,
     Rendered, RenderFails, PageChanges, EntryAges, Terminated, FetchInv, TypeOK
<1>2. CASE NotModified(c)
  BY <1>2 DEF NotModified, SkipInv, NotModifiedIsAsked, HeadersAreKnown
<1>3. CASE Unchanged(c)
  <2>1. /\ answer[c].kind = "ok" /\ Cached(cache, url[c])
        /\ cache[Position(cache, url[c])].hash = answer[c].content
    BY <1>3 DEF Unchanged, SameHash, Get
  <2>2. answer[c].content \in Hashes
    BY <2>1 DEF FetchInv, AnswersOK
  <2> DEFINE j == Position(cache, url[c])
  <2>3. j \in 1..Len(cache) /\ cache[j].url = url[c]
    BY <2>1, PositionIsIndex
  <2>4. answer[c].content \in {cache[j].etag, cache[j].hash} \ {NoHash}
    BY <2>1, <2>2, CacheAssumption
  <2> HIDE DEF j
  <2>5. Known(url[c], answer[c].content)
    BY <2>3, <2>4, EntryIsKnown
  <2> QED
    BY <2>1, <2>5
<1> QED
  BY <1>1, <1>2, <1>3

(* A page is reported as not modified or as unchanged only if its content
   has been received, or is being rendered, or cannot be classified.       *)
THEOREM SkippedPagesAreKnown == Spec => SkipsAreKnown
<1>1. ASSUME FetchInv, SkipInv, [Next]_vars
      PROVE  [\A c \in Calls :
                /\ result'[c] \in {"not_modified", "unchanged"}
                /\ result[c] = "none"
                => Known(url[c], IF answer[c].kind = "304" THEN header[c] ELSE answer[c].content)]_vars
  BY <1>1, SkipIsKnown
<1> QED
  BY SkipInvariance, <1>1, PTL DEF Spec, SkipsAreKnown

=============================================================================
