------------------------------ MODULE Renderer ------------------------------
(***************************************************************************)
(* Browsers: PlaywrightRenderer as the fetches of overlapping runs share   *)
(* it, as every pricing collect() makes one of its own, and as close()     *)
(* takes it down.  A step is what happens between two awaits, so that      *)
(* _ensure_browser, which awaits three times with nothing but its first    *)
(* test to keep a second caller out, is four steps.                        *)
(*                                                                         *)
(* Drivers, browsers and contexts are named by the call that made them.    *)
(*                                                                         *)
(* Operators named Fault... are not part of the specification.             *)
(***************************************************************************)
EXTENDS Naturals, FiniteSets

CONSTANTS
  Fetches,       \* fallbacks of HybridFetcher.fetch: render on the shared one
  Pricings,      \* pricing collects: render_with_city_selection on their own
  ServicePages,  \* links that a page offers after a city was selected
  MaxVisits,     \* _collect_service_pages_pricing: service_links[:10]
  MaxCloses,     \* bound: calls of close()
  MaxCrashes,    \* bound: browsers that die by themselves
  None

Calls == Fetches \cup Pricings

(* PlaywrightRenderer objects: close() makes fetchers forget theirs. *)
Objects == (0..MaxCloses) \cup Pricings

ASSUME RendererAssumption ==
  /\ Fetches \cap Pricings = {}
  /\ MaxVisits \in Nat /\ MaxCloses \in Nat /\ MaxCrashes \in Nat
  /\ Calls \cap (0..MaxCloses) = {}
  /\ None \notin Calls \cup Objects \cup ServicePages

VARIABLES
  playwright, browser, context,  \* fields of each object: who made them, or None
  current,    \* the object of the shared fetcher
  object,     \* the object of each call
  drivers, browsers, contexts,   \* what is alive
  pc,         \* where each call is
  on,         \* the context that its page is on
  shows,      \* what the page shows: "blank", "url", where the click on the
              \* city led ("city"), or a service page
  visited,    \* service pages it has tried
  result,     \* the page whose HTML was returned, or "failed"
  closer,     \* where close() is, and on which object
  crashes,    \* browsers that have died, bounded by MaxCrashes
  raced,      \* history: objects that two calls have started at a time
  broken,     \* history: objects whose start has failed
  disturbed   \* history: objects that close() has been called on

fields == <<playwright, browser, context>>
alive == <<drivers, browsers, contexts>>
call == <<object, pc, on, shows, visited, result>>
history == <<raced, broken, disturbed>>
vars == <<fields, current, alive, call, closer, crashes, history>>

Starting == {"start", "launch", "context"}

TypeOK ==
  /\ {playwright, browser, context} \subseteq [Objects -> Calls \cup {None}]
  /\ current \in 0..MaxCloses
  /\ object \in [Calls -> Objects \cup {None}]
  /\ browsers \subseteq drivers /\ contexts \subseteq browsers /\ drivers \subseteq Calls
  /\ pc \in [Calls -> {"idle", "page", "goto", "city", "services", "content", "close", "done"} \cup Starting]
  /\ on \in [Calls -> Calls \cup {None}]
  /\ shows \in [Calls -> {"blank", "url", "city"} \cup ServicePages]
  /\ visited \in [Calls -> SUBSET ServicePages]
  /\ \A c \in Calls : Cardinality(visited[c]) <= MaxVisits
  /\ result \in [Calls -> {None, "failed", "url", "city"} \cup ServicePages]
  /\ closer \in [at : {"idle", "context", "browser", "driver"}, of : 0..MaxCloses]
  /\ crashes \in 0..MaxCrashes
  /\ raced \subseteq Objects /\ broken \subseteq Objects /\ disturbed \subseteq Objects

Init ==
  /\ playwright = [o \in Objects |-> None]
  /\ browser = [o \in Objects |-> None]
  /\ context = [o \in Objects |-> None]
  /\ current = 0
  /\ object = [c \in Calls |-> None]
  /\ drivers = {} /\ browsers = {} /\ contexts = {}
  /\ pc = [c \in Calls |-> "idle"]
  /\ on = [c \in Calls |-> None]
  /\ shows = [c \in Calls |-> "blank"]
  /\ visited = [c \in Calls |-> {}]
  /\ result = [c \in Calls |-> None]
  /\ closer = [at |-> "idle", of |-> 0]
  /\ crashes = 0
  /\ raced = {} /\ broken = {} /\ disturbed = {}

Goto(c, to) == pc' = [pc EXCEPT ![c] = to]

(* A call returns or raises: its page is forgotten. *)
Leave(c, r) ==
  /\ Goto(c, "done")
  /\ result' = [result EXCEPT ![c] = r]
  /\ on' = [on EXCEPT ![c] = None]
  /\ shows' = [shows EXCEPT ![c] = "blank"]

-----------------------------------------------------------------------------
(* _ensure_browser *)

FaultMine(c) == IF c \in Pricings THEN c ELSE MaxCloses

(* A pricing collect has a fetcher of its own. *)
Mine(c) == IF c \in Pricings THEN c ELSE current

(* A call finds no driver and starts one, whoever else is doing so; *)
Enter(c) ==
  /\ pc[c] = "idle"
  /\ playwright[Mine(c)] = None
  /\ object' = [object EXCEPT ![c] = Mine(c)]
  /\ raced' = IF \E d \in Calls : pc[d] = "start" /\ object[d] = Mine(c) THEN raced \cup {Mine(c)} ELSE raced
  /\ Goto(c, "start")
  /\ UNCHANGED <<fields, current, alive, on, shows, visited, result, closer, broken, disturbed, crashes>>

(* or it takes the context that is there; *)
Join(c) ==
  /\ pc[c] = "idle"
  /\ playwright[Mine(c)] # None /\ context[Mine(c)] # None
  /\ object' = [object EXCEPT ![c] = Mine(c)]
  /\ on' = [on EXCEPT ![c] = context[Mine(c)]]
  /\ Goto(c, "page")
  /\ UNCHANGED <<fields, current, alive, shows, visited, result, closer, crashes, history>>

(* or there is a driver and no context: None has no new_page. *)
NoContext(c) ==
  /\ pc[c] = "idle"
  /\ playwright[Mine(c)] # None /\ context[Mine(c)] = None
  /\ object' = [object EXCEPT ![c] = Mine(c)]
  /\ Leave(c, "failed")
  /\ UNCHANGED <<fields, current, alive, visited, closer, crashes, history>>

DriverStarts(c) ==
  /\ pc[c] = "start"
  /\ playwright' = [playwright EXCEPT ![object[c]] = c]
  /\ drivers' = drivers \cup {c}
  /\ Goto(c, "launch")
  /\ UNCHANGED <<browser, context, current, browsers, contexts, object, on, shows, visited, result, closer, crashes, history>>

BrowserStarts(c) ==
  /\ pc[c] = "launch" /\ c \in drivers
  /\ browser' = [browser EXCEPT ![object[c]] = c]
  /\ browsers' = browsers \cup {c}
  /\ Goto(c, "context")
  /\ UNCHANGED <<playwright, context, current, drivers, contexts, object, on, shows, visited, result, closer, crashes, history>>

ContextStarts(c) ==
  /\ pc[c] = "context" /\ c \in browsers
  /\ context' = [context EXCEPT ![object[c]] = c]
  /\ contexts' = contexts \cup {c}
  /\ on' = [on EXCEPT ![c] = c]
  /\ Goto(c, "page")
  /\ UNCHANGED <<playwright, browser, current, drivers, browsers, object, shows, visited, result, closer, crashes, history>>

(* What was assigned before stays assigned. *)
StartFails(c) ==
  /\ pc[c] \in Starting
  /\ Leave(c, "failed")
  /\ broken' = IF pc[c] = "start" THEN broken ELSE broken \cup {object[c]}
  /\ UNCHANGED <<fields, current, alive, object, visited, closer, raced, disturbed, crashes>>

-----------------------------------------------------------------------------
(* render and render_with_city_selection *)

NewPage(c) ==
  /\ pc[c] = "page" /\ on[c] \in contexts
  /\ Goto(c, "goto")
  /\ UNCHANGED <<fields, current, alive, object, on, shows, visited, result, closer, crashes, history>>

(* The browser has been closed, has crashed, or refuses. *)
NewPageFails(c) ==
  /\ pc[c] = "page"
  /\ Leave(c, "failed")
  /\ UNCHANGED <<fields, current, alive, object, visited, closer, crashes, history>>

FaultOpens(c) ==
  /\ pc[c] = "goto" /\ on[c] \in contexts
  /\ shows' = [shows EXCEPT ![c] = "url"]
  /\ Goto(c, "city")
  /\ UNCHANGED <<fields, current, alive, object, on, visited, result, closer, crashes, history>>

Opens(c) ==
  /\ pc[c] = "goto" /\ on[c] \in contexts
  /\ shows' = [shows EXCEPT ![c] = "url"]
  /\ Goto(c, IF c \in Pricings THEN "city" ELSE "content")
  /\ UNCHANGED <<fields, current, alive, object, on, visited, result, closer, crashes, history>>

(* _handle_city_selection: it clicks a button, a link or a suggestion with *)
(* the name of the city, which may take the tab elsewhere.  It swallows    *)
(* what goes wrong, after the click too.                                   *)
SelectCity(c) ==
  /\ pc[c] = "city"
  /\ \E selected \in BOOLEAN : Goto(c, IF selected THEN "services" ELSE "content")
  /\ shows' \in {shows, [shows EXCEPT ![c] = "city"]}
  /\ UNCHANGED <<fields, current, alive, object, on, visited, result, closer, crashes, history>>

(* A service page is opened in the same tab; one that fails to load may    *)
(* show or not.                                                            *)
Visit(c) ==
  /\ pc[c] = "services"
  /\ Cardinality(visited[c]) < MaxVisits
  /\ \E s \in ServicePages \ visited[c] :
       /\ visited' = [visited EXCEPT ![c] = @ \cup {s}]
       /\ shows' \in {shows, [shows EXCEPT ![c] = s]}
  /\ UNCHANGED <<fields, current, alive, object, pc, on, result, closer, crashes, history>>

VisitsEnd(c) ==
  /\ pc[c] = "services"
  /\ Goto(c, "content")
  /\ UNCHANGED <<fields, current, alive, object, on, shows, visited, result, closer, crashes, history>>

Content(c) ==
  /\ pc[c] = "content" /\ on[c] \in contexts
  /\ result' = [result EXCEPT ![c] = shows[c]]
  /\ Goto(c, "close")
  /\ UNCHANGED <<fields, current, alive, object, on, shows, visited, closer, crashes, history>>

(* goto or content raises; the page is closed on the way out. *)
PageFails(c) ==
  /\ pc[c] \in {"goto", "content"}
  /\ result' = [result EXCEPT ![c] = "failed"]
  /\ Goto(c, "close")
  /\ UNCHANGED <<fields, current, alive, object, on, shows, visited, closer, crashes, history>>

(* page.close(), in a finally clause: when it raises, the HTML is lost. *)
ClosePage(c) ==
  /\ pc[c] = "close"
  /\ \E r \in {result[c], "failed"} : Leave(c, r)
  /\ UNCHANGED <<fields, current, alive, object, visited, closer, crashes, history>>

(* A browser, or the driver it hangs on, dies. *)
BrowserDies(b) ==
  /\ b \in browsers /\ crashes < MaxCrashes
  /\ crashes' = crashes + 1
  /\ browsers' = browsers \ {b}
  /\ contexts' = contexts \ {b}
  /\ UNCHANGED <<fields, current, drivers, call, closer, history>>

-----------------------------------------------------------------------------
(* HybridFetcher.close and PlaywrightRenderer.close: three awaits, each    *)
(* followed by forgetting what was closed.                                 *)

BeginClose ==
  /\ closer.at = "idle" /\ current < MaxCloses
  /\ closer' = [at |-> "context", of |-> current]
  /\ disturbed' = disturbed \cup {current}
  /\ UNCHANGED <<fields, current, alive, call, raced, broken, crashes>>

CloseContext ==
  /\ closer.at = "context"
  /\ contexts' = contexts \ {context[closer.of]}
  /\ context' = [context EXCEPT ![closer.of] = None]
  /\ closer' = [closer EXCEPT !.at = "browser"]
  /\ UNCHANGED <<playwright, browser, current, drivers, browsers, call, crashes, history>>

CloseBrowser ==
  /\ closer.at = "browser"
  /\ browsers' = browsers \ {browser[closer.of]}
  /\ contexts' = contexts \ {browser[closer.of]}
  /\ browser' = [browser EXCEPT ![closer.of] = None]
  /\ closer' = [closer EXCEPT !.at = "driver"]
  /\ UNCHANGED <<playwright, context, current, drivers, call, crashes, history>>

FaultStopDriver ==
  /\ closer.at = "driver"
  /\ drivers' = drivers \ {playwright[closer.of]}
  /\ browsers' = browsers \ {playwright[closer.of]}
  /\ contexts' = contexts \ {playwright[closer.of]}
  /\ current' = current + 1
  /\ closer' = [closer EXCEPT !.at = "idle"]
  /\ UNCHANGED <<fields, call, crashes, history>>

(* The driver takes its browsers with it, and the fetcher forgets the      *)
(* renderer.                                                               *)
StopDriver ==
  /\ closer.at = "driver"
  /\ drivers' = drivers \ {playwright[closer.of]}
  /\ browsers' = browsers \ {playwright[closer.of]}
  /\ contexts' = contexts \ {playwright[closer.of]}
  /\ playwright' = [playwright EXCEPT ![closer.of] = None]
  /\ current' = current + 1
  /\ closer' = [closer EXCEPT !.at = "idle"]
  /\ UNCHANGED <<browser, context, call, crashes, history>>

(* Any of them may raise: close() swallows it and skips the rest. *)
CloseFails ==
  /\ closer.at # "idle"
  /\ current' = current + 1
  /\ closer' = [closer EXCEPT !.at = "idle"]
  /\ broken' = broken \cup {closer.of}
  /\ UNCHANGED <<fields, alive, call, raced, disturbed, crashes>>

-----------------------------------------------------------------------------
Step(c) ==
  \/ DriverStarts(c)
  \/ BrowserStarts(c)
  \/ ContextStarts(c)
  \/ StartFails(c)
  \/ NewPage(c)
  \/ NewPageFails(c)
  \/ Opens(c)
  \/ SelectCity(c)
  \/ Visit(c)
  \/ VisitsEnd(c)
  \/ Content(c)
  \/ PageFails(c)
  \/ ClosePage(c)

Close == CloseContext \/ CloseBrowser \/ StopDriver \/ CloseFails

Terminated ==
  /\ \A c \in Calls : pc[c] = "done"
  /\ closer.at = "idle"
  /\ UNCHANGED vars

Next ==
  \/ \E c \in Calls : Enter(c) \/ Join(c) \/ NoContext(c) \/ Step(c) \/ BrowserDies(c)
  \/ BeginClose
  \/ Close
  \/ Terminated

Spec == Init /\ [][Next]_vars

-----------------------------------------------------------------------------
(* A browser that runs is held by its renderer or is about to be, was made *)
(* for one pricing collect (pricing.py:32 never closes its fetcher), or is *)
(* what a start that overlapped with another one, or a close() that        *)
(* failed or overlapped with a start, has left behind.                     *)
BrowsersAreAccountedFor ==
  \A b \in browsers :
    \/ b \in Pricings
    \/ browser[current] = b
    \/ object[b] \in raced \cup disturbed

(* A renderer with a driver and no context, which fails every call, is     *)
(* being started or taken down, or has failed to: then it stays so.        *)
ContextIsMissingForAReason ==
  \A o \in Objects :
    (playwright[o] # None /\ context[o] = None) =>
      \/ \E c \in Calls : object[c] = o /\ pc[c] \in {"launch", "context"}
      \/ o \in broken
      \/ closer.at \in {"browser", "driver"} /\ closer.of = o

(* A rendering returns what its own page shows: of fetch() that is the     *)
(* URL; of a pricing collect it may be where the click on the city led, or *)
(* the last service page it has visited, which is then stored and parsed   *)
(* as the URL's.                                                           *)
HtmlIsKnown ==
  \A c \in Calls : result[c] \notin {None, "failed"} =>
    /\ c \in Fetches => result[c] = "url"
    /\ result[c] \in {"url", "city"} \cup visited[c]

(* The fields of the renderers, and why one cannot render.                 *)
RendererInv == TypeOK /\ ContextIsMissingForAReason

(* base.py:19: "Single Playwright browser instance"                        *)
SingleBrowser == Cardinality(browsers \ Pricings) <= 1

(* fetcher.py:379: "Render a page": the HTML that is returned for a URL is *)
(* the URL's.                                                              *)
HtmlIsOfTheUrl == \A c \in Calls : result[c] \in {None, "failed", "url"}

=============================================================================
