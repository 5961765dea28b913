----------------------------- MODULE Discovery -----------------------------
(***************************************************************************)
(* DiscoveryEngine.discover: robots.txt, the sitemaps, the home page, and  *)
(* what is made of the URLs they offer.  A step ends where the code awaits *)
(* an answer.  A site is what its hosts answer with; a list of links is    *)
(* one of Lists, in document order, each as it is spelled there, with its  *)
(* host.  _fetch_sitemaps is recursive: its frames are a stack, whose      *)
(* height the interpreter limits.                                          *)
(*                                                                         *)
(* Operators named Fault... are not part of the specification.             *)
(***************************************************************************)
EXTENDS UrlNormalizer, Lists, Integers, FiniteSets

CONSTANTS
  Urls,       \* what is linked to or listed, as it is spelled
  Bases,      \* spellings of website_url
  Worth,      \* what _rank adds for a word after a slash
  Lists,      \* lists of links that robots.txt or a page may hold
  Sitemaps,   \* documents: locs, all <loc>, and subs, those of <sitemap>
  Options,    \* settings: which sources are read, and same_domain_only
  MaxPages,   \* max_pages_per_competitor
  MaxDepth    \* frames that the recursion limit of the interpreter allows

ASSUME DiscoveryAssumption ==
  /\ MaxPages \in Nat \ {0} /\ MaxDepth \in Nat \ {0}
  /\ Lists \subseteq Seq(Urls)
  /\ \A d \in Sitemaps : d.locs \in Seq(Urls) /\ d.subs \in Seq(Urls)
  /\ \E widest \in Sitemaps : \A d \in Sitemaps : Len(d.subs) <= Len(widest.subs)
  /\ Worth \in [DOMAIN Worth -> Nat]
  /\ \A u \in Urls : Head(Normalize(u).host) \in DOMAIN Worth /\ Normalize(u).path \in Seq(DOMAIN Worth)
  /\ \A u \in Bases : u.host \in Seq(DOMAIN Lower)
  /\ Options \subseteq [fetch_robots_txt : BOOLEAN, fetch_sitemap : BOOLEAN, parse_nav : BOOLEAN,
                         parse_footer : BOOLEAN, parse_internal_links : BOOLEAN, same_domain_only : BOOLEAN]

VARIABLES
  base,      \* base_url
  options,   \* get_settings().discovery
  site,      \* what /sitemap.xml of each host is, when it answers
  phase,     \* what discover() waits for
  stack,     \* frames of _fetch_sitemaps: [host, found, todo]
  asked,     \* history: how many sitemaps were requested
  located,   \* history: URLs that a sitemap has listed
  offered,   \* all_urls
  returned,  \* what discover() returns
  open       \* its client, and the browser for a single-page application

discovery == <<base, options, site, phase, stack, asked, located, offered, returned, open>>

Sources == {"robots", "sitemap", "nav", "footer", "meta", "internal_link"}

NormalOf == [u \in Urls |-> Normalize(u)]

Normal == Range(NormalOf)

Offer(source) == [url : Normal, source : {source}]

Offers == [url : Normal, source : Sources]

(* Whom a request goes to. *)
Origin(u) == <<u.scheme, Lowered(u.host), Port(u)>>

Linked == UNION {Range(d.subs) : d \in Sitemaps}

(* How many sitemaps an index lists at most. *)
Widest == CHOOSE n \in {Len(d.subs) : d \in Sitemaps} : \A d \in Sitemaps : Len(d.subs) <= n

Hosts == {Origin(u) : u \in Bases \cup Linked}

Frames == [host : Hosts, read : BOOLEAN, found : Seq(Offer("sitemap")), todo : Seq(Linked)]

Ended == {"done", "cancelled"}

DiscoveryTypeOK ==
  /\ base \in Bases /\ options \in Options /\ site \in [Hosts -> Sitemaps]
  /\ phase \in {"new", "robots", "sitemaps", "homepage", "rendering"} \cup Ended
  /\ stack \in Seq(Frames) /\ Len(stack) <= MaxDepth
  /\ asked \in Nat /\ located \subseteq Normal
  /\ offered \in Seq(Offers)
  /\ returned \in Seq(Offers) /\ Len(returned) <= MaxPages
  /\ open \subseteq {"client", "browser"}

DiscoveryInit ==
  /\ base \in Bases /\ options \in Options /\ site \in [Hosts -> Sitemaps]
  /\ phase = "new" /\ stack = <<>>
  /\ asked = 0 /\ located = {}
  /\ offered = <<>> /\ returned = <<>> /\ open = {}

-----------------------------------------------------------------------------
(* What is made of the URLs. *)

From(source, urls) == [i \in DOMAIN urls |-> [url |-> NormalOf[urls[i]], source |-> source]]

FaultIsSameDomain(u) == u.port = base.port /\ IsSuffix(Lowered(base.host), u.host)

(* The domain is base_url's as it is spelled, but for www.: with its port. *)
IsSameDomain(u) == u.port = base.port /\ IsSuffix(Bare(Lowered(base.host)), Bare(u.host))

(* url.rstrip("/") *)
Key(u) == IF u.path = <<"">> /\ u.query = <<>> THEN [u EXCEPT !.path = <<>>] ELSE u

Priority(source) ==
  CASE source = "robots" -> 0 [] source = "sitemap" -> 1 [] source = "nav" -> 2
    [] source = "footer" -> 3 [] source = "meta" -> 4 [] source = "internal_link" -> 5

FaultKeep(seen, d) ==
  LET same == {i \in DOMAIN seen : Key(seen[i].url) = Key(d.url)}
  IN  IF same = {} THEN Append(seen, d)
      ELSE [i \in DOMAIN seen |-> IF i \in same THEN d ELSE seen[i]]

(* A URL keeps the place where it was seen first, and its best source. *)
Keep(seen, d) ==
  LET same == {i \in DOMAIN seen : Key(seen[i].url) = Key(d.url)}
  IN  IF same = {} THEN Append(seen, d)
      ELSE [i \in DOMAIN seen |->
              IF i \in same /\ Priority(d.source) < Priority(seen[i].source) THEN d ELSE seen[i]]

Deduplicate(urls) ==
  LET seen[n \in 0..Len(urls)] == IF n = 0 THEN <<>> ELSE Keep(seen[n - 1], urls[n])
  IN  seen[Len(urls)]

SourceScore(source) ==
  CASE source = "nav" -> 5 [] source = "sitemap" -> 4 [] source = "footer" -> 3
    [] source = "robots" -> 2 [] source = "meta" -> 1 [] source = "internal_link" -> 0

(* The weightiest word that follows a slash, one of those before the host  *)
(* included, and a bonus for a short path.                                 *)
Value(u) ==
  LET words == {Head(u.host)} \cup Range(u.path)
      best == CHOOSE w \in words : \A v \in words : Worth[v] <= Worth[w]
  IN  Worth[best] + IF Cardinality({i \in DOMAIN u.path : u.path[i] # ""}) <= 2 THEN 2 ELSE 0

Score(d) == SourceScore(d.source) + Value(d.url)

(* A stable sort by falling score. *)
Rank(urls) ==
  LET order == Sorted([i \in DOMAIN urls |-> Score(urls[i])])
  IN  [k \in DOMAIN urls |-> urls[order[k]]]

(* Those of the site itself, in order. *)
OfSite(urls) == Chosen(urls, {i \in DOMAIN urls : IsSameDomain(urls[i].url)})

Eligible(urls) == IF options.same_domain_only THEN OfSite(urls) ELSE urls

(* Truncates before it ranks. *)
FaultFinish(urls) ==
  LET kept == Deduplicate(Eligible(urls))
  IN  /\ phase' = "done"
      /\ offered' = urls
      /\ returned' = Rank(SubSeq(kept, 1, IF Len(kept) > MaxPages THEN MaxPages ELSE Len(kept)))
      /\ open' = open \ {"client"}

(* The last part of discover(), and its finally clause. *)
Finish(urls) ==
  LET ranked == Rank(Deduplicate(Eligible(urls)))
  IN  /\ phase' = "done"
      /\ offered' = urls
      /\ returned' = SubSeq(ranked, 1, IF Len(ranked) > MaxPages THEN MaxPages ELSE Len(ranked))
      /\ open' = open \ {"client"}

-----------------------------------------------------------------------------
(* robots.txt. *)

Begin ==
  /\ phase = "new"
  /\ open' = {"client"}
  /\ phase' = "robots"
  /\ UNCHANGED <<base, options, site, stack, asked, located, offered, returned>>

Frame(host) == [host |-> host, read |-> FALSE, found |-> <<>>, todo |-> <<>>]

ToSitemaps ==
  IF options.fetch_sitemap
  THEN /\ phase' = "sitemaps"
       /\ stack' = <<Frame(Origin(base))>>
       /\ asked' = asked + 1
  ELSE phase' = "homepage" /\ UNCHANGED <<stack, asked>>

(* Its sitemaps are offered as if they were pages; no answer, and one that *)
(* is not 200, offer nothing.                                              *)
FetchRobots ==
  /\ phase = "robots" /\ options.fetch_robots_txt
  /\ \E urls \in Lists : offered' = offered \o From("robots", urls)
  /\ ToSitemaps
  /\ UNCHANGED <<base, options, site, located, returned, open>>

SkipRobots ==
  /\ phase = "robots" /\ ~options.fetch_robots_txt
  /\ ToSitemaps
  /\ UNCHANGED <<base, options, site, located, offered, returned, open>>

-----------------------------------------------------------------------------
(* _fetch_sitemaps *)

Top == stack[Len(stack)]

(* A frame returns what it has found to its caller. *)
Return(frame) ==
  LET below == Front(stack)
  IN  IF below # <<>>
      THEN /\ stack' = [below EXCEPT ![Len(below)].found = @ \o frame.found]
           /\ UNCHANGED <<phase, offered>>
      ELSE /\ stack' = <<>>
           /\ phase' = "homepage"
           /\ offered' = offered \o frame.found

(* An index offers its sitemaps too: they are in <loc>. *)
SitemapAnswers ==
  /\ phase = "sitemaps" /\ ~Top.read
  /\ LET document == site[Top.host] IN
       /\ stack' = [stack EXCEPT ![Len(stack)] =
                      [@ EXCEPT !.read = TRUE, !.found = From("sitemap", document.locs), !.todo = document.subs]]
       /\ located' = located \cup {NormalOf[u] : u \in Range(document.locs)}
  /\ UNCHANGED <<base, options, site, phase, asked, offered, returned, open>>

(* An error, or a status other than 200. *)
SitemapFails ==
  /\ phase = "sitemaps" /\ ~Top.read
  /\ Return(Top)
  /\ UNCHANGED <<base, options, site, asked, located, returned, open>>

FaultDescend ==
  /\ phase = "sitemaps" /\ Top.read /\ Top.todo # <<>> /\ Len(stack) < MaxDepth
  /\ stack' = Append(stack, Frame(Origin(Head(Top.todo))))
  /\ asked' = asked + 1
  /\ UNCHANGED <<base, options, site, phase, located, offered, returned, open>>

(* For every sitemap of an index, the host's /sitemap.xml is read (again). *)
Descend ==
  /\ phase = "sitemaps" /\ Top.read /\ Top.todo # <<>> /\ Len(stack) < MaxDepth
  /\ stack' = Append([stack EXCEPT ![Len(stack)].todo = Tail(@)], Frame(Origin(Head(Top.todo))))
  /\ asked' = asked + 1
  /\ UNCHANGED <<base, options, site, phase, located, offered, returned, open>>

FaultTooDeep ==
  /\ phase = "sitemaps" /\ Top.read /\ Top.todo # <<>> /\ Len(stack) = MaxDepth
  /\ Return(Frame(Top.host))
  /\ UNCHANGED <<base, options, site, asked, located, returned, open>>

(* RecursionError: in the new frame, which offers nothing, or in the one   *)
(* that made it, which then returns what it has.                           *)
TooDeep ==
  /\ phase = "sitemaps" /\ Top.read /\ Top.todo # <<>> /\ Len(stack) = MaxDepth
  /\ \/ stack' = [stack EXCEPT ![Len(stack)].todo = Tail(@)] /\ UNCHANGED <<phase, offered>>
     \/ Return(Top)
  /\ UNCHANGED <<base, options, site, asked, located, returned, open>>

SitemapEnds ==
  /\ phase = "sitemaps" /\ Top.read /\ Top.todo = <<>>
  /\ Return(Top)
  /\ UNCHANGED <<base, options, site, asked, located, returned, open>>

-----------------------------------------------------------------------------
(* The home page: its links by region, in document order. *)

Pages == [nav : Lists, footer : Lists, rest : Lists, meta : Lists]

Internal(page) == OfSite(From("internal_link", page.nav \o page.rest \o page.footer))

Found(page) ==
  LET urls == (IF options.parse_nav THEN From("nav", page.nav) ELSE <<>>)
              \o (IF options.parse_footer THEN From("footer", page.footer) ELSE <<>>)
              \o (IF options.parse_internal_links THEN Internal(page) ELSE <<>>)
              \o From("meta", page.meta)
  IN  IF urls = <<>> THEN Internal(page) ELSE urls

HomepageFails ==
  /\ phase = "homepage"
  /\ Finish(offered)
  /\ UNCHANGED <<base, options, site, stack, asked, located>>

HomepageAnswers ==
  /\ phase = "homepage"
  /\ \E page \in Pages : Finish(offered \o Found(page))
  /\ UNCHANGED <<base, options, site, stack, asked, located>>

(* A single-page application: a browser is started, or fails to, for it. *)
HomepageNeedsRendering ==
  /\ phase = "homepage"
  /\ phase' = "rendering"
  /\ open' \in {open, open \cup {"browser"}}
  /\ UNCHANGED <<base, options, site, stack, asked, located, offered, returned>>

(* The page as rendered or, when that fails, as it was answered. *)
HomepageRendered ==
  /\ phase = "rendering"
  /\ \E page \in Pages : Finish(offered \o Found(page))
  /\ UNCHANGED <<base, options, site, stack, asked, located>>

(* The task is cancelled while it awaits. *)
Cancelled ==
  /\ phase \notin {"new"} \cup Ended
  /\ phase' = "cancelled"
  /\ open' = open \ {"client"}
  /\ stack' = <<>>
  /\ UNCHANGED <<base, options, site, asked, located, offered, returned>>

Over ==
  /\ phase \in Ended
  /\ UNCHANGED discovery

DiscoveryNext ==
  \/ Begin
  \/ FetchRobots \/ SkipRobots
  \/ SitemapAnswers \/ SitemapFails \/ Descend \/ TooDeep \/ SitemapEnds
  \/ HomepageFails \/ HomepageAnswers \/ HomepageNeedsRendering \/ HomepageRendered
  \/ Cancelled
  \/ Over

DiscoverySpec == DiscoveryInit /\ [][DiscoveryNext]_discovery

-----------------------------------------------------------------------------
Candidates == {d \in Range(offered) : options.same_domain_only => IsSameDomain(d.url)}

Same(d, e) == Key(d.url) = Key(e.url)

(* Of the places where a URL was found, discover() reports the best one,   *)
(* and the URL once, with or without its last slash (_deduplicate).        *)
BestSourceWins ==
  phase = "done" =>
    /\ \A i, j \in DOMAIN returned : Same(returned[i], returned[j]) => i = j
    /\ \A r \in Range(returned) : r \in Candidates
    /\ \A r \in Range(returned), d \in Candidates : Same(r, d) => Priority(r.source) <= Priority(d.source)

(* Spellings of one page, whichever source each was found at, are reported *)
(* once, except for the front page with a query, with a slash and without. *)
PagesComeOnce ==
  phase = "done" =>
    \A i, j \in DOMAIN returned, u, v \in Urls :
      returned[i].url = NormalOf[u] /\ returned[j].url = NormalOf[v] /\ SamePage(u, v) =>
        i = j \/ (Segments(u.path) = <<>> /\ returned[i].url.query # <<>>)

(* same_domain_only drops no page of the site itself, however its links    *)
(* and website_url are spelled, unless website_url names the default port. *)
OwnPagesAreKept ==
  phase = "done" /\ ~NamesDefaultPort(base) =>
    \A d \in Range(offered) :
      (Bare(d.url.host) = Bare(Lowered(base.host)) /\ d.url.scheme = base.scheme /\ Port(d.url) = Port(base))
      => d \in Candidates

(* max_pages_per_competitor drops no URL that outranks one that is kept,   *)
(* and none at all while there is room.                                    *)
TruncationKeepsTheBest ==
  phase = "done" =>
    \A d \in Candidates :
      \/ \E r \in Range(returned) : Same(r, d)
      \/ /\ Len(returned) = MaxPages
         /\ \E best \in Candidates :
              /\ Same(best, d)
              /\ \A e \in Candidates : Same(best, e) => Priority(best.source) <= Priority(e.source)
              /\ \A r \in Range(returned) : Score(r) >= Score(best)

(* What a sitemap has listed is offered, at whatever depth another one     *)
(* fails or the interpreter gives up.                                      *)
NothingFoundIsLost == phase = "done" => located \subseteq {d.url : d \in Range(offered)}

(* Requests that d levels of sitemaps may take, each an index as wide as   *)
(* the widest.                                                             *)
Requests[d \in 0..MaxDepth] == IF d = 0 THEN 0 ELSE 1 + Widest * Requests[d - 1]

(* An index of n sitemaps of its own host is requested n^depth times, and  *)
(* only the recursion limit ends it.                                       *)
RequestsAreBounded == asked <= Requests[MaxDepth]

(* The client of a discovery is closed however it ends; the browser of a   *)
(* single-page application is what it leaves.                              *)
OnlyABrowserIsLeft ==
  phase \in Ended => open \subseteq {"browser"}

(* What a discovery returns and leaves: nothing of its own site is left    *)
(* out for its spelling, and its client is closed.                         *)
DiscoveryInv == DiscoveryTypeOK /\ OwnPagesAreKept /\ OnlyABrowserIsLeft

=============================================================================
