---------------------------- MODULE CrawlBudget ----------------------------
(***************************************************************************)
(* CrawlBudgetEngine: the queue of a crawl, its depth and its pages.  The  *)
(* heap is a set from which one of the best is taken.                      *)
(*                                                                         *)
(* Operators named Fault... are not part of the specification.             *)
(***************************************************************************)
EXTENDS Integers, FiniteSets

CONSTANTS
  Pages,          \* URLs
  PageKey,        \* url.rstrip("/")
  PageValue,      \* what the words and the length of its path are worth
  SourceValue,    \* SOURCE_SCORES
  Depths,
  MaxLinkDepth,   \* max_depth
  MaxCrawled      \* max_pages_per_competitor

VARIABLES
  visited,   \* _visited: keys
  queue,     \* _queue: candidates
  crawled,   \* _pages_crawled
  given      \* history: the candidates that next() has returned

vars == <<visited, queue, crawled, given>>

Candidate == [url : Pages, depth : Depths, source : DOMAIN SourceValue]

Keys == {PageKey[p] : p \in Pages}

BudgetTypeOK ==
  /\ visited \subseteq Keys
  /\ queue \cup given \subseteq {c \in Candidate : c.depth <= MaxLinkDepth}
  /\ crawled \in Nat

Init == visited = {} /\ queue = {} /\ crawled = 0 /\ given = {}

-----------------------------------------------------------------------------
Score(c) ==
  SourceValue[c.source] + PageValue[c.url] - 3 * c.depth + IF c.depth = 0 THEN 5 ELSE 0

FaultAccepts(c) == c.depth <= MaxLinkDepth /\ crawled < MaxCrawled

Accepts(c) ==
  /\ PageKey[c.url] \notin visited
  /\ c.depth <= MaxLinkDepth
  /\ crawled < MaxCrawled

AddUrl(c) ==
  /\ Accepts(c)
  /\ queue' = queue \cup {c}
  /\ visited' = visited \cup {PageKey[c.url]}
  /\ UNCHANGED <<crawled, given>>

(* next(): it does not ask whether there is budget left. *)
NextUrl ==
  \E c \in queue :
    /\ \A d \in queue : Score(c) >= Score(d)
    /\ queue' = queue \ {c}
    /\ given' = given \cup {c}
    /\ crawled' = crawled + 1
    /\ UNCHANGED visited

Reset == visited' = {} /\ queue' = {} /\ crawled' = 0 /\ given' = {}

Next ==
  \/ \E c \in Candidate : AddUrl(c)
  \/ NextUrl
  \/ Reset

Spec == Init /\ [][Next]_vars

-----------------------------------------------------------------------------
(* A page is accepted once in a crawl, under whichever spelling, and from  *)
(* then on is either in the queue or has been crawled.                     *)
PagesAreCrawledOnce ==
  /\ crawled + Cardinality(queue) = Cardinality(visited)
  /\ \A c, d \in queue \cup given : PageKey[c.url] = PageKey[d.url] => c = d

(* crawl_budget.py:83: "max_pages_per_competitor: hard cap on pages"       *)
PagesAreCapped == crawled <= MaxCrawled

=============================================================================
