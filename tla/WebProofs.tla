----------------------------- MODULE WebProofs -----------------------------
(***************************************************************************)
(* Proofs about what reads a competitor's site: Renderer, for any number   *)
(* of calls and closes, Discovery, for any site, any settings and any      *)
(* depth, and Parsing, for any strategies, pages and answers of an API.    *)
(***************************************************************************)
EXTENDS Renderer, Discovery, Parsing, FiniteSetTheorems, SequenceTheorems, TLAPS

-----------------------------------------------------------------------------
(***************************************************************************)
(* Renderer.  The argument turns on the objects that no two calls have     *)
(* started at a time and that nobody closes (Quiet): on those, starts take *)
(* turns (Alone, InTurn), so none can overwrite another's browser.         *)
(***************************************************************************)

Quiet(o) == o \notin raced \cup disturbed

Closing == closer.at # "idle" => (closer.of = current /\ current \in disturbed /\ current < MaxCloses)

Closed == \A o \in 0..MaxCloses : o < current => o \in disturbed

Owned ==
  \A c \in Calls : pc[c] # "idle" =>
    /\ c \in Pricings => object[c] = c
    /\ c \in Fetches => object[c] \in 0..current

Fresh ==
  \A c \in Calls :
    /\ pc[c] \in {"idle", "start"} => c \notin drivers
    /\ pc[c] = "launch" => c \notin browsers

Held ==
  \A o \in Objects : browser[o] # None =>
    /\ object[browser[o]] = o
    /\ pc[browser[o]] # "idle"

Alone ==
  \A c, d \in Calls :
    (object[c] = object[d] /\ pc[c] \in Starting /\ pc[d] \in Starting /\ Quiet(object[c])) => c = d

InTurn ==
  \A c \in Calls : (pc[c] \in Starting /\ Quiet(object[c])) =>
    /\ pc[c] = "start" => playwright[object[c]] = None
    /\ pc[c] # "start" => playwright[object[c]] # None
    /\ pc[c] \in {"start", "launch"} => browser[object[c]] = None

NoneYet == \A o \in Objects : (playwright[o] = None /\ Quiet(o)) => browser[o] = None

(* How far each call and close() are, and what is theirs. *)
Turns == Closing /\ Closed /\ Owned /\ Fresh /\ Held /\ Alone /\ InTurn /\ NoneYet

(* What a page shows once it is open, and what has been returned of it. *)
OnPage ==
  \A c \in Calls :
    /\ pc[c] \in {"city", "services"} => c \in Pricings
    /\ pc[c] \in {"city", "services", "content"} =>
         \/ shows[c] = "url"
         \/ c \in Pricings /\ shows[c] \in {"city"} \cup visited[c]

Finite == \A c \in Calls : IsFiniteSet(visited[c])

-----------------------------------------------------------------------------
Stages == {"page", "goto", "city", "services", "content", "close", "done"}

(* What a call does on its page.                                           *)
OnItsPage(c) ==
  \/ NewPage(c) \/ NewPageFails(c) \/ Opens(c) \/ SelectCity(c) \/ Visit(c)
  \/ VisitsEnd(c) \/ Content(c) \/ PageFails(c) \/ ClosePage(c)

LEMMA InitTypes == Init => TypeOK /\ Finite
<1> SUFFICES ASSUME Init
             PROVE  TypeOK /\ Finite
  OBVIOUS
<1>1. IsFiniteSet({}) /\ Cardinality({}) = 0
  BY FS_EmptySet
<1>2. \A c \in Calls : IsFiniteSet(visited[c]) /\ Cardinality(visited[c]) <= MaxVisits
  BY <1>1, RendererAssumption DEF Init
<1>3. current \in 0..MaxCloses /\ crashes \in 0..MaxCrashes
  BY RendererAssumption DEF Init
<1>4. closer \in [at : {"idle", "context", "browser", "driver"}, of : 0..MaxCloses]
  BY RendererAssumption DEF Init
<1>5. QED
  BY <1>2, <1>3, <1>4 DEF Init, TypeOK, Finite

LEMMA EnterTypes ==
  ASSUME TypeOK, NEW c \in Calls, Enter(c) \/ Join(c) \/ NoContext(c)
  PROVE  TypeOK'
<1>1. Mine(c) \in Objects
  BY DEF TypeOK, Mine, Objects
<1>2. CASE Enter(c)
  BY <1>1, <1>2 DEF TypeOK, Enter, Goto, Starting, fields, alive
<1>3. CASE Join(c)
  BY <1>1, <1>3 DEF TypeOK, Join, Goto, Starting, fields, alive, history
<1>4. CASE NoContext(c)
  BY <1>1, <1>4 DEF TypeOK, NoContext, Leave, Goto, Starting, fields, alive, history
<1>5. QED
  BY <1>2, <1>3, <1>4

LEMMA StartTypes ==
  ASSUME TypeOK, Turns, NEW c \in Calls,
         DriverStarts(c) \/ BrowserStarts(c) \/ ContextStarts(c) \/ StartFails(c)
  PROVE  TypeOK'
<1>1. CASE DriverStarts(c)
  <2>1. playwright' \in [Objects -> Calls \cup {None}]
    BY <1>1 DEF TypeOK, DriverStarts
  <2>2. pc' \in [Calls -> {"idle", "page", "goto", "city", "services", "content", "close", "done"} \cup Starting]
    BY <1>1 DEF TypeOK, DriverStarts, Goto, Starting
  <2>3. browsers' \subseteq drivers' /\ drivers' \subseteq Calls
    BY <1>1 DEF TypeOK, DriverStarts
  <2> QED
    BY <1>1, <2>1, <2>2, <2>3 DEF TypeOK, DriverStarts, history
<1>2. CASE BrowserStarts(c)
  BY <1>2 DEF TypeOK, BrowserStarts, Goto, Starting, history
<1>3. CASE ContextStarts(c)
  BY <1>3 DEF TypeOK, ContextStarts, Goto, Starting, history
<1>4. CASE StartFails(c)
  <2>1. object[c] \in Objects
    <3>1. pc[c] # "idle"
      BY <1>4 DEF StartFails, Starting
    <3>2. 0..current \subseteq 0..MaxCloses
      BY RendererAssumption DEF TypeOK
    <3>3. QED
      BY <3>1, <3>2 DEF Turns, Owned, Objects, Calls
  <2>2. QED
    BY <1>4, <2>1 DEF TypeOK, StartFails, Leave, Goto, Starting, fields, alive
<1>5. QED
  BY <1>1, <1>2, <1>3, <1>4

LEMMA PageTypes ==
  ASSUME TypeOK, Finite, OnPage, NEW c \in Calls, OnItsPage(c)
  PROVE  TypeOK' /\ Finite'
<1>1. CASE NewPage(c) \/ SelectCity(c) \/ VisitsEnd(c)
  <2>1. pc[c] = "city" => shows' \in [Calls -> {"blank", "url", "city"} \cup ServicePages]
    BY <1>1 DEF TypeOK, NewPage, SelectCity, VisitsEnd
  <2>2. QED
    BY <1>1, <2>1 DEF TypeOK, Finite, NewPage, SelectCity, VisitsEnd, Goto, Starting, fields, alive, history
<1>2. CASE NewPageFails(c)
  BY <1>2 DEF TypeOK, Finite, NewPageFails, Leave, Goto, Starting, fields, alive, history
<1>3. CASE Opens(c)
  BY <1>3 DEF TypeOK, Finite, Opens, Goto, Starting, fields, alive, history
<1>4. CASE Content(c)
  <2>1. shows[c] \in {"url", "city"} \cup ServicePages
    BY <1>4 DEF Content, OnPage, TypeOK
  <2>2. QED
    BY <1>4, <2>1 DEF TypeOK, Finite, Content, Goto, Starting, fields, alive, history
<1>5. CASE PageFails(c)
  BY <1>5 DEF TypeOK, Finite, PageFails, Goto, Starting, fields, alive, history
<1>6. CASE ClosePage(c)
  BY <1>6 DEF TypeOK, Finite, ClosePage, Leave, Goto, Starting, fields, alive, history
<1>7. CASE Visit(c)
  <2>1. PICK s \in ServicePages \ visited[c] :
          /\ visited' = [visited EXCEPT ![c] = @ \cup {s}]
          /\ shows' \in {shows, [shows EXCEPT ![c] = s]}
    BY <1>7 DEF Visit
  <2>2. Cardinality(visited[c]) < MaxVisits /\ IsFiniteSet(visited[c])
    BY <1>7 DEF Visit, Finite
  <2>3. /\ IsFiniteSet(visited[c] \cup {s})
        /\ Cardinality(visited[c] \cup {s}) = Cardinality(visited[c]) + 1
        /\ Cardinality(visited[c]) \in Nat
    BY <2>1, <2>2, FS_AddElement, FS_CardinalityType
  <2>4. visited'[c] = visited[c] \cup {s} /\ \A d \in Calls \ {c} : visited'[d] = visited[d]
    BY <2>1 DEF TypeOK
  <2>5. Finite'
    BY <2>3, <2>4 DEF Finite
  <2>6. \A d \in Calls : Cardinality(visited'[d]) <= MaxVisits
    <3>1. Cardinality(visited'[c]) = Cardinality(visited[c]) + 1
      BY <2>3, <2>4
    <3>2. Cardinality(visited'[c]) <= MaxVisits
      BY <2>2, <2>3, <3>1, RendererAssumption
    <3>3. \A d \in Calls \ {c} : Cardinality(visited'[d]) <= MaxVisits
      BY <2>4 DEF TypeOK
    <3>4. QED
      BY <3>2, <3>3
  <2>7. visited' \in [Calls -> SUBSET ServicePages] /\ shows' \in [Calls -> {"blank", "url", "city"} \cup ServicePages]
    BY <2>1 DEF TypeOK
  <2>8. QED
    BY <1>7, <2>5, <2>6, <2>7 DEF TypeOK, Visit, fields, alive, history
<1>8. QED
  BY <1>1, <1>2, <1>3, <1>4, <1>5, <1>6, <1>7 DEF OnItsPage

LEMMA BrowserTypes ==
  ASSUME TypeOK, NEW b \in Calls, BrowserDies(b)
  PROVE  TypeOK'
<1>1. crashes' \in 0..MaxCrashes
  BY RendererAssumption DEF TypeOK, BrowserDies
<1>2. QED
  BY <1>1 DEF TypeOK, BrowserDies, fields, call, history

LEMMA CloseTypes ==
  ASSUME TypeOK, Turns, BeginClose \/ Close
  PROVE  TypeOK'
<1>1. closer.of \in Objects /\ closer.of \in 0..MaxCloses /\ current \in Objects
  BY DEF TypeOK, Objects
<1>2. closer.at # "idle" => current + 1 \in 0..MaxCloses
  BY RendererAssumption DEF TypeOK, Turns, Closing
<1>3. CASE BeginClose
  BY <1>1, <1>3 DEF TypeOK, BeginClose, fields, alive, call
<1>4. CASE CloseContext
  BY <1>1, <1>4 DEF TypeOK, CloseContext, call, history
<1>5. CASE CloseBrowser
  BY <1>1, <1>5 DEF TypeOK, CloseBrowser, call, history
<1>6. CASE StopDriver
  BY <1>1, <1>2, <1>6 DEF TypeOK, StopDriver, call, history
<1>7. CASE CloseFails
  BY <1>1, <1>2, <1>7 DEF TypeOK, CloseFails, fields, alive, call
<1>8. QED
  BY <1>3, <1>4, <1>5, <1>6, <1>7 DEF Close

LEMMA OtherFinite ==
  ASSUME Finite, visited' = visited
  PROVE  Finite'
BY DEF Finite

-----------------------------------------------------------------------------
(* On its page a call touches no browser and nobody's turn.                *)
LEMMA PageFrame ==
  ASSUME TypeOK, NEW c \in Calls, OnItsPage(c)
  PROVE  /\ UNCHANGED <<fields, current, alive, object, closer, crashes, history>>
         /\ pc[c] \in Stages /\ pc'[c] \in Stages
         /\ \A d \in Calls \ {c} : pc'[d] = pc[d]
<1>1. CASE NewPage(c) \/ SelectCity(c) \/ VisitsEnd(c) \/ Opens(c) \/ Content(c) \/ PageFails(c)
  BY <1>1 DEF TypeOK, NewPage, SelectCity, VisitsEnd, Opens, Content, PageFails, Goto, Stages
<1>2. CASE NewPageFails(c) \/ ClosePage(c)
  BY <1>2 DEF TypeOK, NewPageFails, ClosePage, Leave, Goto, Stages
<1>3. CASE Visit(c)
  BY <1>3 DEF Visit, Stages
<1>4. QED
  BY <1>1, <1>2, <1>3 DEF OnItsPage

LEMMA PageTurns ==
  ASSUME TypeOK, Turns, NEW c \in Calls, OnItsPage(c)
  PROVE  Turns'
<1>1. UNCHANGED <<playwright, browser, current, drivers, browsers, object, closer, raced, disturbed>>
  BY PageFrame DEF fields, alive, history
<1>2. /\ pc[c] \in Stages /\ pc'[c] \in Stages
      /\ \A d \in Calls \ {c} : pc'[d] = pc[d]
  BY PageFrame
<1>3. \A d \in Calls : pc'[d] = pc[d] \/ (pc'[d] \in Stages /\ pc[d] \in Stages)
  BY <1>2
<1>4. Closing' /\ Closed' /\ NoneYet'
  BY <1>1 DEF Turns, Closing, Closed, NoneYet, Quiet
<1>5. Owned' /\ Fresh'
  BY <1>1, <1>3 DEF Turns, Owned, Fresh, Stages
<1>6. Held'
  BY <1>1, <1>3 DEF Turns, Held, Stages, TypeOK
<1>7. Alone' /\ InTurn'
  BY <1>1, <1>3 DEF Turns, Alone, InTurn, Stages, Starting, Quiet
<1>8. QED
  BY <1>4, <1>5, <1>6, <1>7 DEF Turns

LEMMA BrowserTurns ==
  ASSUME TypeOK, Turns, NEW b \in Calls, BrowserDies(b)
  PROVE  Turns'
<1>1. UNCHANGED <<playwright, browser, current, drivers, object, pc, closer, raced, disturbed>>
  BY DEF BrowserDies, fields, call, history
<1>2. browsers' \subseteq browsers
  BY DEF BrowserDies
<1>3. Closing' /\ Closed' /\ NoneYet' /\ Owned' /\ Held' /\ Alone' /\ InTurn'
  BY <1>1 DEF Turns, Closing, Closed, NoneYet, Quiet, Owned, Held, Alone, InTurn
<1>4. Fresh'
  BY <1>1, <1>2 DEF Turns, Fresh
<1>5. QED
  BY <1>3, <1>4 DEF Turns

LEMMA InitTurns == Init => Turns
<1> SUFFICES ASSUME Init
             PROVE  Turns
  OBVIOUS
<1>1. Closing /\ Closed
  BY RendererAssumption DEF Init, Closing, Closed
<1>2. Owned /\ Fresh /\ Held /\ Alone /\ InTurn /\ NoneYet
  BY DEF Init, Owned, Fresh, Held, Alone, InTurn, NoneYet, Starting
<1>3. QED
  BY <1>1, <1>2 DEF Turns

(* Where a call enters, and that it owns what it should.                   *)
LEMMA MineIsOwned ==
  ASSUME TypeOK, NEW c \in Calls
  PROVE  /\ Mine(c) \in Objects
         /\ c \in Pricings => Mine(c) = c
         /\ c \in Fetches => Mine(c) \in 0..current
<1>1. current \in 0..current
  BY RendererAssumption DEF TypeOK
<1>2. c \in Fetches => c \notin Pricings
  BY RendererAssumption
<1>3. QED
  BY <1>1, <1>2 DEF TypeOK, Mine, Objects

LEMMA EnterTurns ==
  ASSUME TypeOK, Turns, NEW c \in Calls, Enter(c)
  PROVE  Turns'
<1>1. UNCHANGED <<playwright, browser, context, current, drivers, browsers, closer, disturbed>>
  BY DEF Enter, fields, alive
<1>2. /\ pc[c] = "idle" /\ pc'[c] = "start" /\ object'[c] = Mine(c)
      /\ \A d \in Calls \ {c} : pc'[d] = pc[d] /\ object'[d] = object[d]
      /\ playwright[Mine(c)] = None
  BY DEF TypeOK, Enter, Goto
<1>3. /\ raced \subseteq raced'
      /\ (\E d \in Calls : pc[d] = "start" /\ object[d] = Mine(c)) => Mine(c) \in raced'
  BY DEF Enter
<1>4. Closing' /\ Closed'
  BY <1>1 DEF Turns, Closing, Closed
<1>5. NoneYet'
  BY <1>1, <1>3 DEF Turns, NoneYet, Quiet
<1>6. Owned'
  BY <1>1, <1>2, MineIsOwned DEF Turns, Owned
<1>7. Fresh'
  BY <1>1, <1>2 DEF Turns, Fresh
<1>8. Held'
  <2>1. \A o \in Objects : browser[o] # None => browser[o] # c /\ browser[o] \in Calls
    BY <1>2 DEF Turns, Held, TypeOK
  <2>2. QED
    BY <1>1, <1>2, <2>1 DEF Turns, Held
<1>9. Mine(c)' = Mine(c)
  BY <1>1 DEF Mine
<1>10. ASSUME NEW d \in Calls, d # c, pc'[d] \in Starting, object'[d] = Mine(c)
       PROVE  ~Quiet(Mine(c))'
  <2>1. pc[d] \in Starting /\ object[d] = Mine(c)
    BY <1>2, <1>10
  <2>2. Mine(c) \in raced' \/ Mine(c) \in disturbed
    <3>1. CASE pc[d] = "start"
      BY <1>3, <2>1, <3>1
    <3>2. CASE pc[d] # "start"
      <4>1. ~Quiet(object[d])
        BY <1>2, <2>1, <3>2 DEF Turns, InTurn
      <4>2. QED
        BY <1>3, <2>1, <4>1 DEF Quiet
    <3>3. QED
      BY <3>1, <3>2
  <2>3. QED
    BY <1>1, <1>9, <2>2 DEF Quiet
<1>11. Alone'
  BY <1>1, <1>2, <1>3, <1>9, <1>10 DEF Turns, Alone, Quiet
<1>12. InTurn'
  <2>1. Quiet(Mine(c))' => browser[Mine(c)] = None
    BY <1>1, <1>2, <1>3, <1>9, MineIsOwned DEF Turns, NoneYet, Quiet
  <2>2. QED
    BY <1>1, <1>2, <1>3, <1>9, <2>1 DEF Turns, InTurn, Quiet, Starting
<1>13. QED
  BY <1>4, <1>5, <1>6, <1>7, <1>8, <1>11, <1>12 DEF Turns

LEMMA JoinTurns ==
  ASSUME TypeOK, Turns, NEW c \in Calls, Join(c) \/ NoContext(c)
  PROVE  Turns'
<1>1. UNCHANGED <<playwright, browser, current, drivers, browsers, closer, raced, disturbed>>
  BY DEF Join, NoContext, fields, alive, history
<1>2. /\ pc[c] = "idle" /\ pc'[c] \in {"page", "done"} /\ object'[c] = Mine(c)
      /\ \A d \in Calls \ {c} : pc'[d] = pc[d] /\ object'[d] = object[d]
  BY DEF TypeOK, Join, NoContext, Goto, Leave
<1>3. Closing' /\ Closed' /\ NoneYet'
  BY <1>1 DEF Turns, Closing, Closed, NoneYet, Quiet
<1>4. Owned'
  BY <1>1, <1>2, MineIsOwned DEF Turns, Owned
<1>5. Fresh'
  BY <1>1, <1>2 DEF Turns, Fresh
<1>6. Held'
  <2>1. \A o \in Objects : browser[o] # None => browser[o] # c /\ browser[o] \in Calls
    BY <1>2 DEF Turns, Held, TypeOK
  <2>2. QED
    BY <1>1, <1>2, <2>1 DEF Turns, Held
<1>7. Alone' /\ InTurn'
  BY <1>1, <1>2 DEF Turns, Alone, InTurn, Starting, Quiet
<1>8. QED
  BY <1>3, <1>4, <1>5, <1>6, <1>7 DEF Turns

LEMMA StartTurns ==
  ASSUME TypeOK, Turns, NEW c \in Calls,
         DriverStarts(c) \/ BrowserStarts(c) \/ ContextStarts(c) \/ StartFails(c)
  PROVE  Turns'
<1> DEFINE o == object[c]
<1>1. UNCHANGED <<current, object, closer, raced, disturbed>>
  BY DEF DriverStarts, BrowserStarts, ContextStarts, StartFails, fields, history
<1>2. /\ pc[c] \in Starting /\ pc'[c] # "idle" /\ pc'[c] # "start"
      /\ \A d \in Calls \ {c} : pc'[d] = pc[d]
  BY DEF TypeOK, DriverStarts, BrowserStarts, ContextStarts, StartFails, Goto, Leave, Starting
<1>3. o \in Objects /\ c # None
  <2>1. pc[c] # "idle"
    BY <1>2 DEF Starting
  <2>2. 0..current \subseteq 0..MaxCloses
    BY RendererAssumption DEF TypeOK
  <2>3. QED
    BY <2>1, <2>2, RendererAssumption DEF Turns, Owned, Objects, Calls
<1>4. \A d \in Calls : (d # c /\ object[d] = o /\ pc[d] \in Starting) => ~Quiet(o)
  BY <1>2 DEF Turns, Alone
<1>5. Closing' /\ Closed' /\ Owned'
  BY <1>1, <1>2 DEF Turns, Closing, Closed, Owned, Starting
<1>6. /\ c \notin drivers \/ pc[c] # "start"
      /\ browsers \subseteq drivers
  BY DEF Turns, Fresh, TypeOK
<1>7. CASE DriverStarts(c)
  <2>1. /\ pc[c] = "start" /\ pc'[c] = "launch" /\ browser' = browser /\ browsers' = browsers
        /\ playwright' = [playwright EXCEPT ![o] = c] /\ drivers' = drivers \cup {c}
    BY <1>7 DEF TypeOK, DriverStarts, Goto
  <2>2. Fresh' /\ Held'
    BY <1>1, <1>2, <1>6, <2>1 DEF Turns, Fresh, Held, TypeOK
  <2>3. Alone'
    BY <1>1, <1>2, <1>4, <2>1 DEF Turns, Alone, Quiet
  <2> HIDE DEF o
  <2>4. NoneYet'
    BY <1>1, <1>3, <2>1 DEF Turns, NoneYet, Quiet, TypeOK
  <2>5. ASSUME NEW d \in Calls, pc'[d] \in Starting, Quiet(object[d])
        PROVE  /\ pc'[d] = "start" => playwright'[object[d]] = None
               /\ pc'[d] # "start" => playwright'[object[d]] # None
               /\ pc'[d] \in {"start", "launch"} => browser'[object[d]] = None
    <3>1. CASE d = c
      BY <1>3, <2>1, <2>5, <3>1 DEF Turns, InTurn, Starting, TypeOK, o
    <3>2. CASE d # c
      <4>1. object[d] # o /\ pc'[d] = pc[d]
        BY <1>2, <1>4, <2>5, <3>2
      <4>2. QED
        BY <2>1, <2>5, <4>1 DEF Turns, InTurn, TypeOK
    <3>3. QED
      BY <3>1, <3>2
  <2>6. InTurn'
    BY <1>1, <2>5 DEF InTurn, Quiet
  <2>7. QED
    BY <1>5, <2>2, <2>3, <2>4, <2>6 DEF Turns
<1>8. CASE BrowserStarts(c)
  <2>1. /\ pc[c] = "launch" /\ pc'[c] = "context" /\ playwright' = playwright
        /\ browser' = [browser EXCEPT ![o] = c] /\ browsers' = browsers \cup {c} /\ drivers' = drivers
    BY <1>8 DEF TypeOK, BrowserStarts, Goto
  <2>2. Fresh'
    BY <1>2, <2>1 DEF Turns, Fresh
  <2>3. Held'
    BY <1>1, <1>2, <1>3, <2>1 DEF Turns, Held, TypeOK
  <2>4. Alone'
    BY <1>1, <1>2, <1>4, <2>1 DEF Turns, Alone, Quiet
  <2>5. Quiet(o) => playwright[o] # None
    BY <2>1 DEF Turns, InTurn, Starting
  <2> HIDE DEF o
  <2>6. NoneYet'
    BY <1>1, <1>3, <2>1, <2>5 DEF Turns, NoneYet, Quiet, TypeOK
  <2>7. ASSUME NEW d \in Calls, pc'[d] \in Starting, Quiet(object[d])
        PROVE  /\ pc'[d] = "start" => playwright'[object[d]] = None
               /\ pc'[d] # "start" => playwright'[object[d]] # None
               /\ pc'[d] \in {"start", "launch"} => browser'[object[d]] = None
    <3>1. CASE d = c
      BY <2>1, <2>5, <2>7, <3>1 DEF o
    <3>2. CASE d # c
      <4>1. object[d] # o /\ pc'[d] = pc[d]
        BY <1>2, <1>4, <2>7, <3>2
      <4>2. QED
        BY <2>1, <2>7, <4>1 DEF Turns, InTurn, TypeOK
    <3>3. QED
      BY <3>1, <3>2
  <2>8. InTurn'
    BY <1>1, <2>7 DEF InTurn, Quiet
  <2>9. QED
    BY <1>5, <2>2, <2>3, <2>4, <2>6, <2>8 DEF Turns
<1>9. CASE ContextStarts(c) \/ StartFails(c)
  <2>1. /\ pc'[c] \in {"page", "done"}
        /\ UNCHANGED <<playwright, browser, browsers, drivers>>
    BY <1>9 DEF TypeOK, ContextStarts, StartFails, Goto, Leave, fields, alive
  <2>2. Fresh' /\ Held' /\ NoneYet'
    BY <1>1, <1>2, <2>1 DEF Turns, Fresh, Held, NoneYet, Quiet, TypeOK
  <2>3. Alone' /\ InTurn'
    BY <1>1, <1>2, <2>1 DEF Turns, Alone, InTurn, Starting, Quiet
  <2>4. QED
    BY <1>5, <2>2, <2>3 DEF Turns
<1>10. QED
  BY <1>7, <1>8, <1>9

LEMMA CloseTurns ==
  ASSUME TypeOK, Turns, BeginClose \/ Close
  PROVE  Turns'
<1> DEFINE o == closer.of
<1>1. UNCHANGED <<object, pc, raced>>
  BY DEF BeginClose, Close, CloseContext, CloseBrowser, StopDriver, CloseFails, call, history
<1>2. drivers' \subseteq drivers /\ browsers' \subseteq browsers /\ disturbed \subseteq disturbed'
  BY DEF BeginClose, Close, CloseContext, CloseBrowser, StopDriver, CloseFails, alive, history
<1>3. Fresh'
  BY <1>1, <1>2 DEF Turns, Fresh
<1>4. Alone'
  BY <1>1, <1>2 DEF Turns, Alone, Quiet
<1>5. CASE BeginClose
  <2>1. /\ UNCHANGED <<playwright, browser, current>>
        /\ closer' = [at |-> "context", of |-> current] /\ current < MaxCloses
        /\ disturbed' = disturbed \cup {current}
    BY <1>5 DEF BeginClose, fields
  <2>2. Closing' /\ Closed'
    BY <2>1 DEF Turns, Closing, Closed
  <2>3. Owned' /\ Held' /\ InTurn' /\ NoneYet'
    BY <1>1, <1>2, <2>1 DEF Turns, Owned, Held, InTurn, NoneYet, Quiet, TypeOK
  <2>4. QED
    BY <1>3, <1>4, <2>2, <2>3 DEF Turns
<1>6. ASSUME Close
      PROVE  /\ ~Quiet(o)
             /\ disturbed' = disturbed
             /\ \A p \in Objects : p # o => browser'[p] = browser[p] /\ playwright'[p] = playwright[p]
             /\ \A p \in Objects : browser'[p] \in {browser[p], None}
  <2>1. closer.at # "idle" /\ disturbed' = disturbed
    BY <1>6 DEF Close, CloseContext, CloseBrowser, StopDriver, CloseFails, history
  <2>2. ~Quiet(o)
    BY <2>1 DEF Turns, Closing, Quiet
  <2>3. \A p \in Objects : p # o => browser'[p] = browser[p] /\ playwright'[p] = playwright[p]
    BY <1>6 DEF TypeOK, Close, CloseContext, CloseBrowser, StopDriver, CloseFails, fields
  <2>4. \A p \in Objects : browser'[p] \in {browser[p], None}
    BY <1>6 DEF TypeOK, Close, CloseContext, CloseBrowser, StopDriver, CloseFails, fields
  <2>5. QED
    BY <2>1, <2>2, <2>3, <2>4
<1>7. ASSUME Close
      PROVE  Held' /\ NoneYet' /\ InTurn'
  <2>1. Held'
    BY <1>1, <1>6, <1>7 DEF Turns, Held, TypeOK
  <2>2. NoneYet'
    BY <1>1, <1>6, <1>7 DEF Turns, NoneYet, Quiet, TypeOK
  <2>3. \A c \in Calls : pc[c] \in Starting => object[c] \in Objects
    <3>1. 0..current \subseteq 0..MaxCloses
      BY RendererAssumption DEF TypeOK
    <3>2. QED
      BY <3>1 DEF Turns, Owned, Objects, Calls, Starting
  <2>4. InTurn'
    BY <1>1, <1>6, <1>7, <2>3 DEF Turns, InTurn, Quiet
  <2>5. QED
    BY <2>1, <2>2, <2>4
<1>8. CASE CloseContext \/ CloseBrowser
  <2>1. Close
    BY <1>8 DEF Close
  <2>2. current' = current /\ closer'.of = closer.of /\ closer.at # "idle"
    BY <1>8 DEF CloseContext, CloseBrowser, TypeOK
  <2>3. Closing' /\ Closed' /\ Owned'
    BY <1>1, <1>6, <2>1, <2>2 DEF Turns, Closing, Closed, Owned
  <2>4. QED
    BY <1>3, <1>4, <1>7, <2>1, <2>3 DEF Turns
<1>9. CASE StopDriver \/ CloseFails
  <2>1. Close
    BY <1>9 DEF Close
  <2>2. current' = current + 1 /\ closer'.at = "idle" /\ closer.at # "idle"
    BY <1>9 DEF StopDriver, CloseFails, TypeOK
  <2>3. current \in disturbed /\ current \in Nat
    BY <2>2, RendererAssumption DEF Turns, Closing, TypeOK
  <2>4. Closing'
    BY <2>2 DEF Closing
  <2>5. Closed'
    BY <1>6, <2>1, <2>2, <2>3, RendererAssumption DEF Turns, Closed
  <2>6. 0..current \subseteq 0..(current + 1)
    BY <2>3
  <2>7. Owned'
    BY <1>1, <2>2, <2>6 DEF Turns, Owned
  <2>8. QED
    BY <1>3, <1>4, <1>7, <2>1, <2>4, <2>5, <2>7 DEF Turns
<1>10. QED
  BY <1>5, <1>8, <1>9 DEF Close

-----------------------------------------------------------------------------
LEMMA PageContents ==
  ASSUME TypeOK, OnPage, NEW c \in Calls, OnItsPage(c)
  PROVE  OnPage'
<1>1. c \in Pricings \/ c \in Fetches
  BY DEF Calls
<1>2. CASE NewPage(c) \/ VisitsEnd(c) \/ Content(c) \/ PageFails(c)
  BY <1>2 DEF TypeOK, OnPage, NewPage, VisitsEnd, Content, PageFails, Goto
<1>3. CASE NewPageFails(c) \/ ClosePage(c)
  BY <1>3 DEF TypeOK, OnPage, NewPageFails, ClosePage, Leave, Goto
<1>4. CASE Opens(c)
  BY <1>4 DEF TypeOK, OnPage, Opens, Goto
<1>5. CASE Visit(c)
  <2>1. PICK s \in ServicePages :
          /\ visited' = [visited EXCEPT ![c] = @ \cup {s}]
          /\ shows' \in {shows, [shows EXCEPT ![c] = s]}
    BY <1>5 DEF Visit
  <2>2. pc' = pc /\ c \in Pricings
    BY <1>5 DEF Visit, OnPage
  <2>3. shows'[c] \in {shows[c], s} /\ visited'[c] = visited[c] \cup {s}
    BY <2>1 DEF TypeOK
  <2>4. \A d \in Calls \ {c} : shows'[d] = shows[d] /\ visited'[d] = visited[d]
    BY <2>1 DEF TypeOK
  <2>5. QED
    BY <2>2, <2>3, <2>4 DEF OnPage
<1>6. CASE SelectCity(c)
  <2>1. /\ c \in Pricings /\ visited' = visited
        /\ \A d \in Calls \ {c} : pc'[d] = pc[d] /\ shows'[d] = shows[d]
    BY <1>6 DEF TypeOK, OnPage, SelectCity, Goto
  <2>2. shows'[c] \in {shows[c], "city"} /\ (shows[c] = "url" \/ shows[c] \in {"city"} \cup visited[c])
    BY <1>6 DEF TypeOK, OnPage, SelectCity
  <2>3. QED
    BY <2>1, <2>2 DEF OnPage
<1>7. QED
  BY <1>2, <1>3, <1>4, <1>5, <1>6 DEF OnItsPage

LEMMA OtherContents ==
  ASSUME TypeOK, OnPage, NEW c \in Calls,
         \/ Enter(c) \/ Join(c) \/ NoContext(c)
         \/ DriverStarts(c) \/ BrowserStarts(c) \/ ContextStarts(c) \/ StartFails(c)
  PROVE  OnPage'
<1>1. CASE Enter(c) \/ Join(c) \/ DriverStarts(c) \/ BrowserStarts(c) \/ ContextStarts(c)
  BY <1>1 DEF TypeOK, OnPage, Enter, Join, DriverStarts, BrowserStarts, ContextStarts, Goto
<1>2. CASE NoContext(c) \/ StartFails(c)
  BY <1>2 DEF TypeOK, OnPage, NoContext, StartFails, Leave, Goto
<1>3. QED
  BY <1>1, <1>2

IInv == TypeOK /\ Finite /\ Turns /\ OnPage

LEMMA StepKeeps ==
  ASSUME IInv, [Next]_vars
  PROVE  IInv'
<1>1. TypeOK /\ Finite /\ Turns /\ OnPage
  BY DEF IInv
<1>2. ASSUME NEW c \in Calls, Enter(c) \/ Join(c) \/ NoContext(c)
      PROVE  IInv'
  <2>1. TypeOK' /\ Turns' /\ OnPage'
    BY <1>1, <1>2, EnterTypes, EnterTurns, JoinTurns, OtherContents
  <2>2. visited' = visited
    BY <1>2 DEF Enter, Join, NoContext
  <2>3. QED
    BY <1>1, <2>1, <2>2, OtherFinite DEF IInv
<1>3. ASSUME NEW c \in Calls, DriverStarts(c) \/ BrowserStarts(c) \/ ContextStarts(c) \/ StartFails(c)
      PROVE  IInv'
  <2>1. TypeOK' /\ Turns' /\ OnPage'
    BY <1>1, <1>3, StartTypes, StartTurns, OtherContents
  <2>2. visited' = visited
    BY <1>3 DEF DriverStarts, BrowserStarts, ContextStarts, StartFails
  <2>3. QED
    BY <1>1, <2>1, <2>2, OtherFinite DEF IInv
<1>4. ASSUME NEW c \in Calls, OnItsPage(c)
      PROVE  IInv'
  BY <1>1, <1>4, PageTypes, PageTurns, PageContents DEF IInv
<1>5. ASSUME NEW b \in Calls, BrowserDies(b)
      PROVE  IInv'
  <2>1. TypeOK' /\ Turns'
    BY <1>1, <1>5, BrowserTypes, BrowserTurns
  <2>2. UNCHANGED <<pc, shows, visited>>
    BY <1>5 DEF BrowserDies, call
  <2>3. OnPage' /\ Finite'
    BY <1>1, <2>2 DEF OnPage, Finite
  <2>4. QED
    BY <2>1, <2>3 DEF IInv
<1>6. ASSUME BeginClose \/ Close
      PROVE  IInv'
  <2>1. TypeOK' /\ Turns'
    BY <1>1, <1>6, CloseTypes, CloseTurns
  <2>2. UNCHANGED <<pc, shows, visited>>
    BY <1>6 DEF BeginClose, Close, CloseContext, CloseBrowser, StopDriver, CloseFails, call
  <2>3. OnPage' /\ Finite'
    BY <1>1, <2>2 DEF OnPage, Finite
  <2>4. QED
    BY <2>1, <2>3 DEF IInv
<1>7. ASSUME UNCHANGED vars
      PROVE  IInv'
  <2>1. UNCHANGED <<playwright, browser, context, current, drivers, browsers, contexts, object, pc, on,
                    shows, visited, result, closer, crashes, raced, broken, disturbed>>
    BY <1>7 DEF vars, fields, alive, call, history
  <2>2. TypeOK' /\ Finite' /\ OnPage'
    BY <1>1, <2>1 DEF TypeOK, Finite, OnPage
  <2>3. Closing' /\ Closed' /\ Owned' /\ Fresh' /\ Held' /\ Alone' /\ InTurn' /\ NoneYet'
    BY <1>1, <2>1 DEF Turns, Closing, Closed, Owned, Fresh, Held, Alone, InTurn, NoneYet, Quiet
  <2>4. QED
    BY <2>2, <2>3 DEF IInv, Turns
<1>8. QED
  BY <1>2, <1>3, <1>4, <1>5, <1>6, <1>7 DEF Next, Step, OnItsPage, Terminated

LEMMA Invariance == Spec => []IInv
<1>1. Init => IInv
  <2>1. Init => OnPage
    BY DEF Init, OnPage
  <2>2. QED
    BY <2>1, InitTypes, InitTurns DEF IInv
<1>2. QED
  BY <1>1, StepKeeps, PTL DEF Spec

-----------------------------------------------------------------------------
Reason(o) ==
  \/ \E c \in Calls : object[c] = o /\ pc[c] \in {"launch", "context"}
  \/ o \in broken
  \/ closer.at \in {"browser", "driver"} /\ closer.of = o

Lacks(o) == playwright[o] # None /\ context[o] = None

LEMMA ReasonsInWords == ContextIsMissingForAReason <=> \A o \in Objects : Lacks(o) => Reason(o)
BY DEF ContextIsMissingForAReason, Lacks, Reason

LEMMA ReasonKept ==
  ASSUME IInv, [Next]_vars, ContextIsMissingForAReason
  PROVE  ContextIsMissingForAReason'
<1>1. TypeOK /\ Turns
  BY DEF IInv
<1>2. \A o \in Objects : Lacks(o) => Reason(o)
  BY ReasonsInWords
<1> SUFFICES ASSUME NEW o \in Objects, Lacks(o)'
             PROVE  Reason(o)'
  BY DEF ContextIsMissingForAReason, Lacks, Reason
<1>3. ASSUME NEW c \in Calls, Enter(c) \/ Join(c) \/ NoContext(c)
      PROVE  Reason(o)'
  <2>1. UNCHANGED <<playwright, context, closer, broken>> /\ pc[c] = "idle"
    BY <1>3 DEF Enter, Join, NoContext, fields, history
  <2>2. \A d \in Calls \ {c} : pc'[d] = pc[d] /\ object'[d] = object[d]
    BY <1>1, <1>3 DEF TypeOK, Enter, Join, NoContext, Goto, Leave
  <2>3. Reason(o)
    BY <1>2, <2>1 DEF Lacks
  <2>4. QED
    BY <2>1, <2>2, <2>3 DEF Reason
<1>4. ASSUME NEW c \in Calls, DriverStarts(c) \/ BrowserStarts(c)
      PROVE  Reason(o)'
  <2>1. UNCHANGED <<object, context, closer, broken>>
    BY <1>4 DEF DriverStarts, BrowserStarts, history
  <2>2. /\ pc'[c] \in {"launch", "context"}
        /\ \A d \in Calls \ {c} : pc'[d] = pc[d]
        /\ o # object[c] => playwright'[o] = playwright[o]
    BY <1>1, <1>4 DEF TypeOK, DriverStarts, BrowserStarts, Goto
  <2>3. CASE o = object[c]
    BY <2>1, <2>2, <2>3 DEF Reason
  <2>4. CASE o # object[c]
    <3>1. Reason(o)
      BY <1>2, <2>1, <2>2, <2>4 DEF Lacks
    <3>2. QED
      BY <2>1, <2>2, <2>4, <3>1 DEF Reason
  <2>5. QED
    BY <2>3, <2>4
<1>5. ASSUME NEW c \in Calls, ContextStarts(c) \/ StartFails(c)
      PROVE  Reason(o)'
  <2>1. UNCHANGED <<playwright, object, closer>> /\ broken \subseteq broken'
    BY <1>5 DEF ContextStarts, StartFails, fields, history
  <2>2. \A d \in Calls \ {c} : pc'[d] = pc[d]
    BY <1>1, <1>5 DEF TypeOK, ContextStarts, StartFails, Goto, Leave
  <2>3. o # object[c] => context'[o] = context[o]
    BY <1>1, <1>5 DEF TypeOK, ContextStarts, StartFails, fields
  <2>4. CASE o # object[c]
    <3>1. Reason(o)
      BY <1>2, <2>1, <2>3, <2>4 DEF Lacks
    <3>2. QED
      BY <2>1, <2>2, <2>4, <3>1 DEF Reason
  <2>5. CASE o = object[c] /\ ContextStarts(c)
    <3>1. context'[o] = c /\ c # None
      BY <1>1, <2>5, RendererAssumption DEF TypeOK, ContextStarts
    <3>2. QED
      BY <3>1 DEF Lacks
  <2>6. CASE o = object[c] /\ StartFails(c)
    <3>1. CASE pc[c] = "start"
      <4>1. Reason(o)
        BY <1>2, <2>1, <2>6 DEF Lacks, StartFails, fields
      <4>2. QED
        BY <2>1, <2>2, <3>1, <4>1 DEF Reason
    <3>2. CASE pc[c] # "start"
      BY <2>6, <3>2 DEF StartFails, Reason
    <3>3. QED
      BY <3>1, <3>2
  <2>7. QED
    BY <1>5, <2>4, <2>5, <2>6
<1>6. ASSUME NEW c \in Calls, OnItsPage(c)
      PROVE  Reason(o)'
  <2>1. UNCHANGED <<playwright, context, object, closer, broken>>
    BY <1>1, <1>6, PageFrame DEF fields, history
  <2>2. pc[c] \in Stages /\ \A d \in Calls \ {c} : pc'[d] = pc[d]
    BY <1>1, <1>6, PageFrame
  <2>3. Reason(o)
    BY <1>2, <2>1 DEF Lacks
  <2>4. QED
    BY <2>1, <2>2, <2>3 DEF Reason, Stages
<1>7. ASSUME \/ \E b \in Calls : BrowserDies(b)
             \/ UNCHANGED vars
      PROVE  Reason(o)'
  <2>1. UNCHANGED <<playwright, context, object, pc, closer, broken>>
    BY <1>7 DEF BrowserDies, vars, fields, call, history
  <2>2. QED
    BY <1>2, <2>1 DEF Reason, Lacks
<1>8. ASSUME BeginClose \/ CloseContext \/ CloseBrowser
      PROVE  Reason(o)'
  <2>1. UNCHANGED <<playwright, object, pc, broken>>
    BY <1>8 DEF BeginClose, CloseContext, CloseBrowser, fields, call, history
  <2>2. CASE BeginClose
    <3>1. context' = context /\ closer.at = "idle"
      BY <2>2 DEF BeginClose, fields
    <3>2. Reason(o)
      BY <1>2, <2>1, <3>1 DEF Lacks
    <3>3. QED
      BY <2>1, <3>1, <3>2 DEF Reason
  <2>3. CASE CloseContext
    <3>1. closer'.at = "browser" /\ closer'.of = closer.of /\ closer.at = "context"
      BY <1>1, <2>3 DEF TypeOK, CloseContext
    <3>2. o # closer.of => context'[o] = context[o]
      BY <1>1, <2>3 DEF TypeOK, CloseContext
    <3>3. QED
      BY <1>2, <2>1, <3>1, <3>2 DEF Reason, Lacks
  <2>4. CASE CloseBrowser
    <3>1. closer'.at = "driver" /\ closer'.of = closer.of /\ context' = context
      BY <1>1, <2>4 DEF TypeOK, CloseBrowser
    <3>2. QED
      BY <1>2, <2>1, <3>1 DEF Reason, Lacks
  <2>5. QED
    BY <1>8, <2>2, <2>3, <2>4
<1>9. ASSUME StopDriver \/ CloseFails
      PROVE  Reason(o)'
  <2>1. UNCHANGED <<context, object, pc>> /\ broken \subseteq broken'
    BY <1>9 DEF StopDriver, CloseFails, fields, call, history
  <2>2. CASE StopDriver
    <3>1. playwright' = [playwright EXCEPT ![closer.of] = None]
      BY <2>2 DEF StopDriver
    <3>2. o # closer.of /\ playwright'[o] = playwright[o]
      BY <1>1, <3>1 DEF TypeOK, Lacks
    <3>3. QED
      BY <1>2, <2>1, <3>2 DEF Reason, Lacks
  <2>3. CASE CloseFails
    <3>1. playwright' = playwright /\ closer.of \in broken'
      BY <2>3 DEF CloseFails, fields
    <3>2. QED
      BY <1>2, <2>1, <3>1 DEF Reason, Lacks
  <2>4. QED
    BY <1>9, <2>2, <2>3
<1>10. QED
  BY <1>3, <1>4, <1>5, <1>6, <1>7, <1>8, <1>9 DEF Next, Step, OnItsPage, Close, Terminated

(* Whatever calls and closes overlap: a renderer that has a driver and no  *)
(* context is being started or closed, or has failed to.                   *)
THEOREM RenderersAreSound == Spec => []RendererInv
<1>1. Init => ContextIsMissingForAReason
  BY DEF Init, ContextIsMissingForAReason
<1>2. Spec => []ContextIsMissingForAReason
  BY <1>1, ReasonKept, Invariance, PTL DEF Spec
<1>3. IInv /\ ContextIsMissingForAReason => RendererInv
  BY DEF IInv, RendererInv
<1>4. QED
  BY <1>2, <1>3, Invariance, PTL

-----------------------------------------------------------------------------
Accounted(b) == b \in Pricings \/ browser[current] = b \/ object[b] \in raced \cup disturbed

LEMMA AccountsInWords == BrowsersAreAccountedFor <=> \A b \in browsers : Accounted(b)
BY DEF BrowsersAreAccountedFor, Accounted

LEMMA AccountKept ==
  ASSUME IInv, [Next]_vars, BrowsersAreAccountedFor
  PROVE  BrowsersAreAccountedFor'
<1>1. TypeOK /\ Turns
  BY DEF IInv
<1>2. \A b \in browsers : Accounted(b)
  BY AccountsInWords
<1> SUFFICES ASSUME NEW b \in browsers', b \notin Pricings
             PROVE  Accounted(b)'
  BY DEF BrowsersAreAccountedFor, Accounted
<1>3. ASSUME NEW c \in Calls, Enter(c) \/ Join(c) \/ NoContext(c)
      PROVE  Accounted(b)'
  <2>1. /\ UNCHANGED <<browser, browsers, current, disturbed>>
        /\ raced \subseteq raced' /\ pc[c] = "idle"
    BY <1>3 DEF Enter, Join, NoContext, fields, alive, history
  <2>2. b # c
    BY <1>1, <2>1 DEF Turns, Fresh, TypeOK
  <2>3. object'[b] = object[b]
    BY <1>1, <1>3, <2>1, <2>2 DEF TypeOK, Enter, Join, NoContext
  <2>4. QED
    BY <1>2, <2>1, <2>3 DEF Accounted
<1>4. ASSUME NEW c \in Calls, DriverStarts(c) \/ ContextStarts(c) \/ StartFails(c)
      PROVE  Accounted(b)'
  <2>1. UNCHANGED <<browser, browsers, current, object, raced, disturbed>>
    BY <1>4 DEF DriverStarts, ContextStarts, StartFails, fields, alive, history
  <2>2. QED
    BY <1>2, <2>1 DEF Accounted
<1>5. ASSUME NEW c \in Calls, BrowserStarts(c)
      PROVE  Accounted(b)'
  <2>1. /\ UNCHANGED <<current, object, raced, disturbed>> /\ pc[c] = "launch"
        /\ browser' = [browser EXCEPT ![object[c]] = c] /\ browsers' = browsers \cup {c}
    BY <1>5 DEF BrowserStarts, history
  <2>2. current \in Objects /\ current \in 0..MaxCloses
    BY <1>1 DEF TypeOK, Objects
  <2>3. CASE b = c
    <3>1. object[c] \in 0..current
      BY <1>1, <2>1, <2>3 DEF Turns, Owned, Calls
    <3>2. CASE object[c] = current
      BY <1>1, <2>1, <2>2, <2>3, <3>2 DEF Accounted, TypeOK
    <3>3. CASE object[c] # current
      <4>1. object[c] \in 0..MaxCloses /\ object[c] < current
        BY <2>2, <3>1, <3>3, RendererAssumption
      <4>2. object[c] \in disturbed
        BY <1>1, <4>1 DEF Turns, Closed
      <4>3. QED
        BY <2>1, <2>3, <4>2 DEF Accounted
    <3>4. QED
      BY <3>2, <3>3
  <2>4. CASE b # c
    <3>1. b \in browsers /\ Accounted(b)
      BY <1>2, <2>1, <2>4
    <3>2. CASE browser[current] = b /\ object[c] = current /\ Quiet(current)
      <4>1. browser[current] = None
        BY <1>1, <2>1, <3>2 DEF Turns, InTurn, Starting
      <4>2. QED
        BY <1>1, <3>1, <3>2, <4>1, RendererAssumption DEF TypeOK
    <3>3. CASE browser[current] = b /\ object[c] = current /\ ~Quiet(current)
      <4>1. b # None
        BY <1>1, <3>1, RendererAssumption DEF TypeOK
      <4>2. object[b] = current
        BY <1>1, <2>2, <3>3, <4>1 DEF Turns, Held
      <4>3. QED
        BY <2>1, <3>3, <4>2 DEF Accounted, Quiet
    <3>4. CASE browser[current] = b /\ object[c] # current
      BY <1>1, <2>1, <2>2, <3>4 DEF Accounted, TypeOK
    <3>5. CASE browser[current] # b
      BY <2>1, <3>1, <3>5 DEF Accounted
    <3>6. QED
      BY <3>2, <3>3, <3>4, <3>5
  <2>5. QED
    BY <2>3, <2>4
<1>6. ASSUME NEW c \in Calls, OnItsPage(c)
      PROVE  Accounted(b)'
  <2>1. UNCHANGED <<browser, browsers, current, object, raced, disturbed>>
    BY <1>1, <1>6, PageFrame DEF fields, alive, history
  <2>2. QED
    BY <1>2, <2>1 DEF Accounted
<1>7. ASSUME \/ \E d \in Calls : BrowserDies(d)
             \/ UNCHANGED vars
      PROVE  Accounted(b)'
  <2>1. UNCHANGED <<browser, current, object, raced, disturbed>> /\ browsers' \subseteq browsers
    BY <1>7 DEF BrowserDies, vars, fields, alive, call, history
  <2>2. QED
    BY <1>2, <2>1 DEF Accounted
<1>8. ASSUME BeginClose
      PROVE  Accounted(b)'
  <2>1. UNCHANGED <<browser, browsers, current, object, raced>> /\ disturbed \subseteq disturbed'
    BY <1>8 DEF BeginClose, fields, alive, call
  <2>2. QED
    BY <1>2, <2>1 DEF Accounted
<1>9. ASSUME Close
      PROVE  Accounted(b)'
  <2>1. UNCHANGED <<object, raced, disturbed>> /\ b \in browsers /\ closer.at # "idle"
    BY <1>9 DEF Close, CloseContext, CloseBrowser, StopDriver, CloseFails, call, history, alive
  <2>2. current \in disturbed /\ current \in Objects
    BY <1>1, <2>1 DEF Turns, Closing, TypeOK, Objects
  <2>3. b # None
    BY <1>1, <2>1, RendererAssumption DEF TypeOK
  <2>4. CASE browser[current] = b
    <3>1. object[b] = current
      BY <1>1, <2>2, <2>3, <2>4 DEF Turns, Held
    <3>2. QED
      BY <2>1, <2>2, <3>1 DEF Accounted
  <2>5. CASE browser[current] # b
    BY <1>2, <2>1, <2>5 DEF Accounted
  <2>6. QED
    BY <2>4, <2>5
<1>10. QED
  BY <1>3, <1>4, <1>5, <1>6, <1>7, <1>8, <1>9 DEF Next, Step, OnItsPage, Terminated

(* A browser that runs and that nobody holds was made for a pricing        *)
(* collect, or on an object that two calls started at a time, or that has  *)
(* been closed.                                                            *)
THEOREM NoOtherBrowserIsLost == Spec => []BrowsersAreAccountedFor
<1>1. Init => BrowsersAreAccountedFor
  BY DEF Init, BrowsersAreAccountedFor
<1>2. QED
  BY <1>1, AccountKept, Invariance, PTL DEF Spec

-----------------------------------------------------------------------------
LEMMA HtmlKept ==
  ASSUME IInv, [Next]_vars, HtmlIsKnown
  PROVE  HtmlIsKnown'
<1>1. TypeOK /\ OnPage
  BY DEF IInv
<1>2. ASSUME \/ \E c \in Calls :
                  \/ Enter(c) \/ Join(c) \/ DriverStarts(c) \/ BrowserStarts(c) \/ ContextStarts(c)
                  \/ NewPage(c) \/ Opens(c) \/ SelectCity(c) \/ VisitsEnd(c) \/ BrowserDies(c)
             \/ BeginClose \/ Close \/ UNCHANGED vars
      PROVE  HtmlIsKnown'
  <2>1. result' = result /\ visited' = visited
    BY <1>2 DEF Enter, Join, DriverStarts, BrowserStarts, ContextStarts, NewPage, Opens, SelectCity,
                VisitsEnd, BrowserDies, BeginClose, Close, CloseContext, CloseBrowser, StopDriver,
                CloseFails, vars, call
  <2>2. QED
    BY <2>1 DEF HtmlIsKnown
<1>3. ASSUME NEW c \in Calls, NoContext(c) \/ StartFails(c) \/ NewPageFails(c) \/ PageFails(c) \/ ClosePage(c)
      PROVE  HtmlIsKnown'
  <2>1. /\ visited' = visited /\ result'[c] \in {result[c], "failed"}
        /\ \A d \in Calls \ {c} : result'[d] = result[d]
    BY <1>1, <1>3 DEF TypeOK, NoContext, StartFails, NewPageFails, PageFails, ClosePage, Leave
  <2>2. QED
    BY <2>1 DEF HtmlIsKnown
<1>4. ASSUME NEW c \in Calls, Content(c)
      PROVE  HtmlIsKnown'
  <2>1. /\ visited' = visited /\ result'[c] = shows[c] /\ pc[c] = "content"
        /\ \A d \in Calls \ {c} : result'[d] = result[d]
    BY <1>1, <1>4 DEF TypeOK, Content
  <2>2. shows[c] = "url" \/ (c \in Pricings /\ shows[c] \in {"city"} \cup visited[c])
    BY <1>1, <2>1 DEF OnPage
  <2>3. c \in Pricings => c \notin Fetches
    BY RendererAssumption
  <2>4. QED
    BY <2>1, <2>2, <2>3 DEF HtmlIsKnown
<1>5. ASSUME NEW c \in Calls, Visit(c)
      PROVE  HtmlIsKnown'
  <2>1. result' = result
    BY <1>5 DEF Visit
  <2>2. \A d \in Calls : visited[d] \subseteq visited'[d]
    BY <1>1, <1>5 DEF Visit, TypeOK
  <2>3. QED
    BY <2>1, <2>2 DEF HtmlIsKnown
<1>6. QED
  BY <1>2, <1>3, <1>4, <1>5 DEF Next, Step, Terminated

(* HTML that is returned is the URL's, or for prices that of where the     *)
(* click on the city led or of one of the service pages that were visited. *)
THEOREM HtmlStaysKnown == Spec => []HtmlIsKnown
<1>1. Init => HtmlIsKnown
  BY DEF Init, HtmlIsKnown
<1>2. QED
  BY <1>1, HtmlKept, Invariance, PTL DEF Spec

-----------------------------------------------------------------------------
(***************************************************************************)
(* Lists.  What the loops of Discovery and Parsing compute is found by     *)
(* induction over the lists they read (Induction, Iteration).              *)
(***************************************************************************)

(* What holds of 0, and of n + 1 when it holds of n, holds of every n:     *)
(* otherwise one set of numbers would be as large as a part of it.         *)
LEMMA Induction ==
  ASSUME NEW S, 0 \in S, \A n \in Nat : n \in S => n + 1 \in S
  PROVE  Nat \subseteq S
<1> SUFFICES ASSUME NEW n \in Nat, n \notin S PROVE FALSE
  OBVIOUS
<1> DEFINE A == S \cap (0..n)
           next == [i \in A |-> i + 1]
<1>1. IsFiniteSet(A)
  <2>1. IsFiniteSet(0..n)
    BY FS_Interval
  <2> QED
    BY <2>1, FS_Subset
<1>2. next \in Injection(A, A \ {0})
  <2>1. \A i \in A : i + 1 \in A \ {0}
    OBVIOUS
  <2>2. next \in [A -> A \ {0}]
    BY <2>1
  <2>3. \A i, j \in A : next[i] = next[j] => i = j
    OBVIOUS
  <2> QED
    BY <2>2, <2>3 DEF Injection, IsInjective
<1>3. 0 \in A
  OBVIOUS
<1> HIDE DEF A, next
<1>4. IsFiniteSet(A \ {0}) /\ Cardinality(A \ {0}) = Cardinality(A) - 1
  BY <1>1, <1>3, FS_RemoveElement
<1>5. Cardinality(A) <= Cardinality(A \ {0})
  BY <1>2, <1>4, FS_Injection
<1> QED
  BY <1>1, <1>4, <1>5, FS_CardinalityType

(* A step that is defined from a set to itself can be taken n times.       *)
Iterates(step, n, S, x) ==
  \E f \in [0..n -> S] : f[0] = x /\ \A i \in 1..n : f[i] = step[<<f[i - 1], i>>]

LEMMA Iteration ==
  ASSUME NEW n \in Nat, NEW S, NEW x \in S, NEW step \in [S \X (1..n) -> S]
  PROVE  Iterates(step, n, S, x)
<1> DEFINE Made(m) ==
             \E f \in [0..m -> S] : f[0] = x /\ \A i \in 1..m : f[i] = step[<<f[i - 1], i>>]
           T == {m \in Nat : m <= n => Made(m)}
<1>1. 0 \in T
  <2> DEFINE f == [i \in 0..0 |-> x]
  <2>1. f \in [0..0 -> S] /\ f[0] = x
    OBVIOUS
  <2>2. \A i \in 1..0 : f[i] = step[<<f[i - 1], i>>]
    OBVIOUS
  <2> HIDE DEF f
  <2> QED
    BY <2>1, <2>2
<1>2. ASSUME NEW m \in Nat, m \in T PROVE m + 1 \in T
  <2> SUFFICES ASSUME m + 1 <= n PROVE Made(m + 1)
    OBVIOUS
  <2>1. PICK f \in [0..m -> S] : f[0] = x /\ \A i \in 1..m : f[i] = step[<<f[i - 1], i>>]
    BY <1>2
  <2> DEFINE g == [i \in 0..m + 1 |-> IF i = m + 1 THEN step[<<f[m], m + 1>>] ELSE f[i]]
  <2>2. step[<<f[m], m + 1>>] \in S
    OBVIOUS
  <2>3. g \in [0..m + 1 -> S]
    BY <2>2
  <2>4. g[0] = x /\ g[m + 1] = step[<<g[m], m + 1>>]
    <3>1. g[0] = f[0] /\ g[m] = f[m]
      <4>1. 0 # m + 1 /\ m # m + 1 /\ 0 \in 0..m + 1 /\ m \in 0..m + 1
        OBVIOUS
      <4> QED
        BY <4>1
    <3>2. g[m + 1] = step[<<f[m], m + 1>>]
      OBVIOUS
    <3> QED
      BY <2>1, <3>1, <3>2
  <2>5. ASSUME NEW i \in 1..m PROVE g[i] = f[i] /\ g[i - 1] = f[i - 1]
    <3>1. i \in 0..m + 1 /\ i # m + 1 /\ i - 1 \in 0..m + 1 /\ i - 1 # m + 1
      OBVIOUS
    <3> QED
      BY <3>1
  <2>6. \A i \in 1..(m + 1) : g[i] = step[<<g[i - 1], i>>]
    <3> SUFFICES ASSUME NEW i \in 1..(m + 1) PROVE g[i] = step[<<g[i - 1], i>>]
      OBVIOUS
    <3>1. CASE i = m + 1
      BY <3>1, <2>4
    <3>2. CASE i \in 1..m
      BY <3>2, <2>1, <2>5
    <3> QED
      BY <3>1, <3>2
  <2> HIDE DEF g
  <2> QED
    BY <2>3, <2>4, <2>6
<1>3. n \in T
  <2> HIDE DEF T
  <2> QED
    BY <1>1, <1>2, Induction
<1> QED
  BY <1>3 DEF Iterates

(* What is chosen of a list: at[k] is the place of the k-th of the items.  *)
Picks(at, list, n, places, chosen) ==
  /\ at \in [1..Len(chosen) -> 1..n]
  /\ \A j, k \in 1..Len(chosen) : j < k => at[j] < at[k]
  /\ \A k \in 1..Len(chosen) : at[k] \in places /\ chosen[k] = list[at[k]]
  /\ \A i \in 1..n : i \in places => \E k \in 1..Len(chosen) : at[k] = i

LEMMA PicksOneMore ==
  ASSUME NEW S, NEW list \in Seq(S), NEW m \in Nat, m + 1 <= Len(list),
         NEW places, m + 1 \in places, NEW s \in Seq(S), NEW at, Picks(at, list, m, places, s)
  PROVE  \E more : Picks(more, list, m + 1, places, Append(s, list[m + 1]))
<1> DEFINE L == Len(s)
           t == Append(s, list[m + 1])
           more == [k \in 1..(L + 1) |-> IF k = L + 1 THEN m + 1 ELSE at[k]]
<1>1. L \in Nat /\ list[m + 1] \in S
  OBVIOUS
<1>2. t \in Seq(S) /\ Len(t) = L + 1 /\ t[L + 1] = list[m + 1] /\ \A k \in 1..L : t[k] = s[k]
  BY <1>1, AppendProperties
<1>3. /\ at \in [1..L -> 1..m]
      /\ \A j, k \in 1..L : j < k => at[j] < at[k]
      /\ \A k \in 1..L : at[k] \in places /\ s[k] = list[at[k]]
      /\ \A i \in 1..m : i \in places => \E k \in 1..L : at[k] = i
  BY DEF Picks
<1> HIDE DEF L, t
<1>4. \A k \in 1..(L + 1) : k \in 1..L \/ k = L + 1
  BY <1>1
<1>5. /\ more[L + 1] = m + 1
      /\ \A k \in 1..L : more[k] = at[k] /\ at[k] \in 1..m /\ at[k] < m + 1
  BY <1>1, <1>3
<1>6. more \in [1..(L + 1) -> 1..(m + 1)]
  <2>1. \A k \in 1..(L + 1) : (IF k = L + 1 THEN m + 1 ELSE at[k]) \in 1..(m + 1)
    BY <1>1, <1>3, <1>4
  <2> QED
    BY <2>1
<1> HIDE DEF more
<1>7. \A j, k \in 1..(L + 1) : j < k => more[j] < more[k]
  <2> SUFFICES ASSUME NEW j \in 1..(L + 1), NEW k \in 1..(L + 1), j < k PROVE more[j] < more[k]
    OBVIOUS
  <2>1. j \in 1..L
    BY <1>1
  <2>2. CASE k = L + 1
    BY <1>5, <2>1, <2>2
  <2>3. CASE k \in 1..L
    BY <1>3, <1>5, <2>1, <2>3
  <2> QED
    BY <1>4, <2>2, <2>3
<1>8. \A k \in 1..(L + 1) : more[k] \in places /\ t[k] = list[more[k]]
  <2> SUFFICES ASSUME NEW k \in 1..(L + 1) PROVE more[k] \in places /\ t[k] = list[more[k]]
    OBVIOUS
  <2>1. CASE k = L + 1
    BY <1>2, <1>5, <2>1
  <2>2. CASE k \in 1..L
    BY <1>2, <1>3, <1>5, <2>2
  <2> QED
    BY <1>4, <2>1, <2>2
<1>9. \A i \in 1..(m + 1) : i \in places => \E k \in 1..(L + 1) : more[k] = i
  <2> SUFFICES ASSUME NEW i \in 1..(m + 1), i \in places PROVE \E k \in 1..(L + 1) : more[k] = i
    OBVIOUS
  <2>1. CASE i = m + 1
    BY <1>1, <1>5, <2>1
  <2>2. CASE i \in 1..m
    <3>1. PICK k \in 1..L : at[k] = i
      BY <1>3, <2>2
    <3>2. k \in 1..(L + 1)
      BY <1>1
    <3> QED
      BY <1>5, <3>1, <3>2
  <2> QED
    BY <2>1, <2>2
<1>10. Picks(more, list, m + 1, places, t)
  BY <1>2, <1>6, <1>7, <1>8, <1>9 DEF Picks
<1> QED
  BY <1>10 DEF t

LEMMA ChosenIsExact ==
  ASSUME NEW S, NEW list \in Seq(S), NEW places
  PROVE  /\ Chosen(list, places) \in Seq(S)
         /\ Len(Chosen(list, places)) <= Len(list)
         /\ (\E i \in 1..Len(list) : i \notin places) => Len(Chosen(list, places)) < Len(list)
         /\ \E at : Picks(at, list, Len(list), places, Chosen(list, places))
<1> DEFINE n == Len(list)
           Longer(s, i) == IF i \in places THEN Append(s, list[i]) ELSE s
           step == [a \in Seq(S) \X (1..n) |-> Longer(a[1], a[2])]
           Kept(g) == [m \in 0..n |-> IF m = 0 THEN <<>> ELSE Longer(g[m - 1], m)]
           kept == CHOOSE g : g = Kept(g)
<1>1. n \in Nat /\ DOMAIN list = 1..n /\ \A i \in 1..n : list[i] \in S
  OBVIOUS
<1>2. step \in [Seq(S) \X (1..n) -> Seq(S)]
  <2>1. ASSUME NEW s \in Seq(S), NEW i \in 1..n PROVE Longer(s, i) \in Seq(S)
    BY <1>1, AppendProperties
  <2> HIDE DEF Longer
  <2>2. \A a \in Seq(S) \X (1..n) : a[1] \in Seq(S) /\ a[2] \in 1..n
    OBVIOUS
  <2>3. \A a \in Seq(S) \X (1..n) : Longer(a[1], a[2]) \in Seq(S)
    BY <2>1, <2>2
  <2> QED
    BY <2>3
<1>3. Chosen(list, places) = kept[n]
  BY DEF Chosen
<1> HIDE DEF Longer
<1>4. \A s \in Seq(S), i \in 1..n : step[<<s, i>>] = Longer(s, i)
  OBVIOUS
<1> HIDE DEF step, n
<1>5. PICK f \in [0..n -> Seq(S)] : f[0] = <<>> /\ \A i \in 1..n : f[i] = step[<<f[i - 1], i>>]
  <2>1. <<>> \in Seq(S)
    OBVIOUS
  <2>2. Iterates(step, n, Seq(S), <<>>)
    BY <1>1, <1>2, <2>1, Iteration
  <2> QED
    BY <2>2 DEF Iterates
<1>6. f = Kept(f)
  <2>1. ASSUME NEW m \in 0..n PROVE f[m] = IF m = 0 THEN <<>> ELSE Longer(f[m - 1], m)
    <3>1. CASE m = 0
      BY <1>5, <3>1
    <3>2. CASE m # 0
      <4>1. m \in 1..n /\ m - 1 \in 0..n
        BY <1>1, <3>2
      <4>2. f[m] = step[<<f[m - 1], m>>]
        BY <1>5, <4>1
      <4>3. f[m] = Longer(f[m - 1], m)
        BY <1>4, <4>1, <4>2
      <4> QED
        BY <3>2, <4>3
    <3> QED
      BY <3>1, <3>2
  <2> QED
    BY <2>1
<1>7. kept = Kept(kept)
  <2> HIDE DEF Kept
  <2> QED
    BY <1>6
<1> HIDE DEF kept
<1>8. kept[0] = <<>> /\ \A m \in 1..n : kept[m] = Longer(kept[m - 1], m)
  <2>1. kept[0] = <<>>
    BY <1>1, <1>7
  <2>2. ASSUME NEW m \in 1..n PROVE kept[m] = Longer(kept[m - 1], m)
    <3>1. m \in 0..n /\ m # 0
      BY <1>1
    <3> QED
      BY <1>7, <3>1
  <2> QED
    BY <2>1, <2>2
<1> HIDE DEF Kept
<1> DEFINE Exact(m) ==
             /\ kept[m] \in Seq(S) /\ Len(kept[m]) <= m
             /\ (\E i \in 1..m : i \notin places) => Len(kept[m]) < m
             /\ \E at : Picks(at, list, m, places, kept[m])
           Done == {m \in Nat : m <= n => Exact(m)}
<1>9. Exact(0)
  <2>1. kept[0] = <<>> /\ <<>> \in Seq(S) /\ Len(<<>>) = 0 /\ \A i : i \notin 1..0
    BY <1>8
  <2>2. Picks(<<>>, list, 0, places, <<>>)
    BY <2>1 DEF Picks
  <2> QED
    BY <2>1, <2>2
<1>10. ASSUME NEW m \in Nat, m + 1 <= n, Exact(m) PROVE Exact(m + 1)
  <2>1. m + 1 \in 1..n /\ m <= n /\ (m + 1) - 1 = m
    BY <1>1, <1>10
  <2>2. kept[m + 1] = Longer(kept[m], m + 1)
    BY <1>8, <2>1
  <2>3. kept[m] \in Seq(S) /\ Len(kept[m]) \in Nat /\ Len(kept[m]) <= m
    BY <1>10
  <2>4. PICK at : Picks(at, list, m, places, kept[m])
    BY <1>10
  <2>5. \A i \in 1..(m + 1) : i \in 1..m \/ i = m + 1
    OBVIOUS
  <2>6. CASE m + 1 \in places
    <3>1. kept[m + 1] = Append(kept[m], list[m + 1])
      BY <2>2, <2>6 DEF Longer
    <3>2. kept[m + 1] \in Seq(S) /\ Len(kept[m + 1]) = Len(kept[m]) + 1
      BY <1>1, <2>1, <2>3, <3>1, AppendProperties
    <3>3. \E more : Picks(more, list, m + 1, places, kept[m + 1])
      BY <1>10, <2>3, <2>4, <2>6, <3>1, PicksOneMore DEF n
    <3>4. (\E i \in 1..(m + 1) : i \notin places) => \E i \in 1..m : i \notin places
      BY <2>5, <2>6
    <3>5. (\E i \in 1..(m + 1) : i \notin places) => Len(kept[m]) < m
      BY <1>10, <3>4
    <3>6. Len(kept[m + 1]) <= m + 1 /\ (Len(kept[m]) < m => Len(kept[m + 1]) < m + 1)
      BY <2>3, <3>2
    <3> QED
      BY <3>2, <3>3, <3>5, <3>6
  <2>7. CASE m + 1 \notin places
    <3>1. kept[m + 1] = kept[m]
      BY <2>2, <2>7 DEF Longer
    <3>2. Len(kept[m + 1]) < m + 1
      BY <2>3, <3>1
    <3>3. Picks(at, list, m + 1, places, kept[m])
      BY <2>3, <2>4, <2>5, <2>7 DEF Picks
    <3> QED
      BY <2>3, <3>1, <3>2, <3>3
  <2> QED
    BY <2>6, <2>7
<1>11. n \in Done
  <2> HIDE DEF Exact
  <2>1. 0 \in Done
    BY <1>9
  <2>2. ASSUME NEW m \in Nat, m \in Done PROVE m + 1 \in Done
    <3>1. m + 1 <= n => Exact(m + 1)
      BY <1>1, <1>10, <2>2
    <3> QED
      BY <3>1
  <2> HIDE DEF Done
  <2> QED
    BY <1>1, <2>1, <2>2, Induction
<1>12. Exact(n)
  <2> HIDE DEF Exact
  <2> QED
    BY <1>1, <1>11
<1> QED
  BY <1>3, <1>12 DEF n

(* In words of sets. *)
LEMMA ChosenRange ==
  ASSUME NEW S, NEW list \in Seq(S), NEW places
  PROVE  Range(Chosen(list, places)) = {list[i] : i \in {j \in 1..Len(list) : j \in places}}
<1> DEFINE c == Chosen(list, places)
<1>1. PICK at : Picks(at, list, Len(list), places, c)
  BY ChosenIsExact
<1>2. c \in Seq(S)
  BY ChosenIsExact
<1> HIDE DEF c
<1>3. /\ at \in [1..Len(c) -> 1..Len(list)]
      /\ \A k \in 1..Len(c) : at[k] \in places /\ c[k] = list[at[k]]
      /\ \A i \in 1..Len(list) : i \in places => \E k \in 1..Len(c) : at[k] = i
  BY <1>1 DEF Picks
<1>4. Range(c) = {c[k] : k \in 1..Len(c)}
  BY <1>2 DEF Range
<1>5. ASSUME NEW k \in 1..Len(c) PROVE c[k] \in {list[i] : i \in {j \in 1..Len(list) : j \in places}}
  <2>1. at[k] \in 1..Len(list) /\ at[k] \in places /\ c[k] = list[at[k]]
    BY <1>3
  <2> QED
    BY <2>1
<1>6. ASSUME NEW i \in 1..Len(list), i \in places PROVE list[i] \in Range(c)
  <2>1. PICK k \in 1..Len(c) : at[k] = i
    BY <1>3, <1>6
  <2>2. c[k] = list[i]
    BY <1>3, <2>1
  <2> QED
    BY <1>4, <2>2
<1> QED
  BY <1>4, <1>5, <1>6 DEF c

(* A stable sort rearranges, and no rank rises along its result. *)
Sorts(p, n, rank) ==
  /\ p \in [1..n -> 1..n]
  /\ \A i, j \in 1..n : p[i] = p[j] => i = j
  /\ \A i \in 1..n : \E k \in 1..n : p[k] = i
  /\ \A i, j \in 1..n : i < j => rank[p[i]] >= rank[p[j]]

LEMMA SortedSorts ==
  ASSUME NEW n \in Nat, NEW rank \in [1..n -> Int]
  PROVE  Sorts(Sorted(rank), n, rank)
<1> DEFINE Ahead(i) == {j \in DOMAIN rank : rank[j] > rank[i] \/ (rank[j] = rank[i] /\ j < i)}
           place == [i \in 1..n |-> Cardinality(Ahead(i)) + 1]
           p == [k \in 1..n |-> CHOOSE i \in 1..n : Cardinality(Ahead(i)) = k - 1]
<1>1. n \in Nat /\ DOMAIN rank = 1..n /\ \A i \in 1..n : rank[i] \in Int
  OBVIOUS
<1>2. Sorted(rank) = p
  <2>1. Sorted(rank) = [k \in DOMAIN rank |-> CHOOSE i \in DOMAIN rank : Cardinality(Ahead(i)) = k - 1]
    BY DEF Sorted
  <2> HIDE DEF Ahead
  <2> QED
    BY <1>1, <2>1
<1>3. ASSUME NEW i \in 1..n
      PROVE  /\ IsFiniteSet(Ahead(i)) /\ Cardinality(Ahead(i)) \in 0..(n - 1)
  <2>1. IsFiniteSet(1..n) /\ Cardinality(1..n) = n
    BY <1>1, FS_Interval
  <2>2. Ahead(i) \in SUBSET ((1..n) \ {i})
    BY <1>1
  <2> HIDE DEF Ahead
  <2>3. IsFiniteSet((1..n) \ {i}) /\ Cardinality((1..n) \ {i}) = n - 1
    BY <2>1, FS_RemoveElement
  <2>4. IsFiniteSet(Ahead(i)) /\ Cardinality(Ahead(i)) <= n - 1
    BY <2>2, <2>3, FS_Subset
  <2> QED
    BY <1>1, <2>4, FS_CardinalityType
<1>4. ASSUME NEW i \in 1..n, NEW j \in Ahead(i)
      PROVE  Cardinality(Ahead(j)) < Cardinality(Ahead(i))
  <2>1. j \in 1..n
    BY <1>1
  <2>2. Ahead(j) \in SUBSET Ahead(i)
    <3> SUFFICES ASSUME NEW k \in Ahead(j) PROVE k \in Ahead(i)
      OBVIOUS
    <3>1. k \in 1..n /\ rank[k] \in Int /\ rank[j] \in Int /\ rank[i] \in Int
      BY <1>1
    <3>2. \/ rank[j] > rank[i]
          \/ rank[j] = rank[i] /\ j < i
      OBVIOUS
    <3>3. \/ rank[k] > rank[j]
          \/ rank[k] = rank[j] /\ k < j
      OBVIOUS
    <3>4. \/ rank[k] > rank[i]
          \/ rank[k] = rank[i] /\ k < i
      BY <1>1, <2>1, <3>1, <3>2, <3>3
    <3> QED
      BY <1>1, <3>1, <3>4
  <2>3. j \notin Ahead(j)
    BY <1>1, <2>1
  <2> HIDE DEF Ahead
  <2>4. Ahead(j) # Ahead(i)
    BY <1>4, <2>3
  <2>5. Cardinality(Ahead(j)) <= Cardinality(Ahead(i)) /\ Cardinality(Ahead(i)) # Cardinality(Ahead(j))
    BY <1>3, <2>2, <2>4, FS_Subset
  <2> QED
    BY <1>3, <2>1, <2>5
<1>5. ASSUME NEW i \in 1..n, NEW j \in 1..n, i # j PROVE i \in Ahead(j) \/ j \in Ahead(i)
  BY <1>1, <1>5
<1>6. ASSUME NEW i \in 1..n, NEW j \in Ahead(i) PROVE rank[j] >= rank[i]
  BY <1>1
<1> HIDE DEF Ahead
<1>7. place \in Injection(1..n, 1..n)
  <2>1. \A i \in 1..n : Cardinality(Ahead(i)) + 1 \in 1..n
    BY <1>1, <1>3
  <2>2. place \in [1..n -> 1..n]
    BY <2>1
  <2>3. ASSUME NEW i \in 1..n, NEW j \in 1..n, place[i] = place[j] PROVE i = j
    <3>1. Cardinality(Ahead(i)) = Cardinality(Ahead(j))
      BY <1>3, <2>3
    <3>2. i \notin Ahead(j)
      <4> SUFFICES ASSUME i \in Ahead(j) PROVE FALSE
        OBVIOUS
      <4>1. Cardinality(Ahead(i)) < Cardinality(Ahead(j))
        BY <1>4
      <4> QED
        BY <1>3, <3>1, <4>1
    <3>3. j \notin Ahead(i)
      <4> SUFFICES ASSUME j \in Ahead(i) PROVE FALSE
        OBVIOUS
      <4>1. Cardinality(Ahead(j)) < Cardinality(Ahead(i))
        BY <1>4
      <4> QED
        BY <1>3, <3>1, <4>1
    <3> QED
      BY <1>5, <3>2, <3>3
  <2> QED
    BY <2>2, <2>3 DEF Injection, IsInjective
<1>8. place \in Surjection(1..n, 1..n)
  <2> HIDE DEF place
  <2> QED
    BY <1>1, <1>7, FS_Injection, FS_Interval
<1>9. \A k \in 1..n : \E i \in 1..n : Cardinality(Ahead(i)) = k - 1
  <2> SUFFICES ASSUME NEW k \in 1..n PROVE \E i \in 1..n : Cardinality(Ahead(i)) = k - 1
    OBVIOUS
  <2>1. PICK i \in 1..n : place[i] = k
    <3> HIDE DEF place
    <3> QED
      BY <1>8 DEF Surjection
  <2>2. Cardinality(Ahead(i)) + 1 = k /\ Cardinality(Ahead(i)) \in Nat
    BY <1>1, <1>3, <2>1
  <2> QED
    BY <2>2
<1>10. \A k \in 1..n : p[k] \in 1..n /\ Cardinality(Ahead(p[k])) = k - 1
  BY <1>9
<1>11. p \in [1..n -> 1..n]
  BY <1>10
<1> HIDE DEF p
<1>12. ASSUME NEW i \in 1..n, NEW j \in 1..n, p[i] = p[j] PROVE i = j
  <2>1. i - 1 = j - 1
    BY <1>10, <1>12
  <2> QED
    BY <2>1
<1>13. ASSUME NEW i \in 1..n PROVE \E k \in 1..n : p[k] = i
  <2> DEFINE k == Cardinality(Ahead(i)) + 1
  <2>1. k \in 1..n /\ k - 1 = Cardinality(Ahead(i))
    BY <1>1, <1>3
  <2> HIDE DEF k
  <2>2. Cardinality(Ahead(p[k])) = Cardinality(Ahead(i)) /\ p[k] \in 1..n
    BY <1>10, <2>1
  <2>3. i \notin Ahead(p[k])
    <3> SUFFICES ASSUME i \in Ahead(p[k]) PROVE FALSE
      OBVIOUS
    <3>1. Cardinality(Ahead(i)) < Cardinality(Ahead(p[k]))
      BY <1>4, <2>2
    <3> QED
      BY <1>3, <2>2, <3>1
  <2>4. p[k] \notin Ahead(i)
    <3> SUFFICES ASSUME p[k] \in Ahead(i) PROVE FALSE
      OBVIOUS
    <3>1. Cardinality(Ahead(p[k])) < Cardinality(Ahead(i))
      BY <1>4
    <3> QED
      BY <1>3, <2>2, <3>1
  <2>5. p[k] = i
    BY <1>5, <2>2, <2>3, <2>4
  <2> QED
    BY <2>1, <2>5
<1>14. ASSUME NEW i \in 1..n, NEW j \in 1..n, i < j PROVE rank[p[i]] >= rank[p[j]]
  <2>1. /\ p[i] \in 1..n /\ p[j] \in 1..n
        /\ Cardinality(Ahead(p[i])) = i - 1 /\ Cardinality(Ahead(p[j])) = j - 1
    BY <1>10
  <2>2. p[i] # p[j]
    BY <1>12, <1>14
  <2>3. p[j] \notin Ahead(p[i])
    BY <1>4, <1>14, <2>1
  <2>4. p[i] \in Ahead(p[j])
    BY <1>5, <2>1, <2>2, <2>3
  <2> QED
    BY <1>6, <2>1, <2>4
<1> QED
  BY <1>2, <1>11, <1>12, <1>13, <1>14 DEF Sorts

LEMMA ConcatIsUnion ==
  ASSUME NEW S, NEW s \in Seq(S), NEW t \in Seq(S)
  PROVE  s \o t \in Seq(S) /\ Range(s \o t) = Range(s) \cup Range(t)
<1> DEFINE c == s \o t
<1>1. /\ c \in Seq(S) /\ Len(c) = Len(s) + Len(t) /\ Len(s) \in Nat /\ Len(t) \in Nat
      /\ \A i \in 1..(Len(s) + Len(t)) : c[i] = IF i <= Len(s) THEN s[i] ELSE t[i - Len(s)]
  BY ConcatProperties
<1> HIDE DEF c
<1>2. DOMAIN c = 1..(Len(s) + Len(t)) /\ DOMAIN s = 1..Len(s) /\ DOMAIN t = 1..Len(t)
  BY <1>1
<1>3. ASSUME NEW i \in DOMAIN c PROVE c[i] \in Range(s) \cup Range(t)
  <2>1. CASE i <= Len(s)
    <3>1. i \in DOMAIN s /\ c[i] = s[i]
      BY <1>1, <1>2, <2>1
    <3> QED
      BY <3>1 DEF Range
  <2>2. CASE i > Len(s)
    <3>1. i - Len(s) \in DOMAIN t /\ c[i] = t[i - Len(s)]
      BY <1>1, <1>2, <2>2
    <3> QED
      BY <3>1 DEF Range
  <2> QED
    BY <1>1, <1>2, <2>1, <2>2
<1>4. ASSUME NEW i \in DOMAIN s PROVE s[i] \in Range(c)
  <2>1. i \in DOMAIN c /\ c[i] = s[i]
    BY <1>1, <1>2
  <2> QED
    BY <2>1 DEF Range
<1>5. ASSUME NEW i \in DOMAIN t PROVE t[i] \in Range(c)
  <2>1. i + Len(s) \in DOMAIN c /\ c[i + Len(s)] = t[i]
    BY <1>1, <1>2
  <2> QED
    BY <2>1 DEF Range
<1>6. \A x : x \in Range(c) <=> x \in Range(s) \cup Range(t)
  BY <1>3, <1>4, <1>5 DEF Range
<1> QED
  BY <1>1, <1>6 DEF c

(* FlattenSeq puts lists one after another. *)
LEMMA FlattenedIsUnion ==
  ASSUME NEW S, NEW lists \in Seq(Seq(S))
  PROVE  /\ FlattenSeq(lists) \in Seq(S)
         /\ Range(FlattenSeq(lists)) = UNION {Range(lists[i]) : i \in 1..Len(lists)}
<1> DEFINE n == Len(lists)
           step == [a \in Seq(S) \X (1..n) |-> a[1] \o lists[a[2]]]
           Kept(g) == [i \in 1..n |-> IF i = 1 THEN lists[i] ELSE g[i - 1] \o lists[i]]
           kept == CHOOSE g : g = Kept(g)
           To(m) == UNION {Range(lists[i]) : i \in 1..m}
<1>1. n \in Nat /\ \A i \in 1..n : lists[i] \in Seq(S)
  OBVIOUS
<1>2. CASE n = 0
  <2>1. FlattenSeq(lists) = lists /\ lists = <<>>
    BY <1>2 DEF FlattenSeq
  <2>2. Range(<<>>) = {} /\ <<>> \in Seq(S) /\ \A i : i \notin 1..0
    BY DEF Range
  <2> QED
    BY <1>2, <2>1, <2>2
<1>3. CASE n # 0
  <2>1. FlattenSeq(lists) = kept[n]
    BY <1>3 DEF FlattenSeq
  <2>2. step \in [Seq(S) \X (1..n) -> Seq(S)]
    <3>1. \A a \in Seq(S) \X (1..n) : a[1] \in Seq(S) /\ lists[a[2]] \in Seq(S)
      BY <1>1
    <3>2. \A a \in Seq(S) \X (1..n) : a[1] \o lists[a[2]] \in Seq(S)
      BY <3>1, ConcatProperties
    <3> QED
      BY <3>2
  <2>3. \A s \in Seq(S), i \in 1..n : step[<<s, i>>] = s \o lists[i]
    OBVIOUS
  <2> HIDE DEF step, n
  <2>4. PICK f \in [0..n -> Seq(S)] : f[0] = <<>> /\ \A i \in 1..n : f[i] = step[<<f[i - 1], i>>]
    <3>1. <<>> \in Seq(S)
      OBVIOUS
    <3>2. Iterates(step, n, Seq(S), <<>>)
      BY <1>1, <2>2, <3>1, Iteration
    <3> QED
      BY <3>2 DEF Iterates
  <2> DEFINE h == [i \in 1..n |-> f[i]]
  <2>5. h = Kept(h)
    <3>1. ASSUME NEW i \in 1..n PROVE h[i] = IF i = 1 THEN lists[i] ELSE h[i - 1] \o lists[i]
      <4>1. i - 1 \in 0..n /\ h[i] = f[i]
        BY <1>1
      <4>2. f[i - 1] \in Seq(S)
        BY <4>1
      <4>3. f[i] = f[i - 1] \o lists[i]
        BY <2>3, <2>4, <4>2
      <4>4. CASE i = 1
        <5>1. f[i - 1] = <<>> /\ lists[i] \in Seq(S)
          BY <1>1, <2>4, <4>4
        <5>2. <<>> \o lists[i] = lists[i]
          BY <5>1, ConcatEmptySeq
        <5> QED
          BY <4>1, <4>3, <4>4, <5>1, <5>2
      <4>5. CASE i # 1
        <5>1. i - 1 \in 1..n
          BY <1>1, <4>5
        <5>2. h[i - 1] = f[i - 1]
          BY <5>1
        <5> QED
          BY <4>1, <4>3, <4>5, <5>2
      <4> QED
        BY <4>4, <4>5
    <3> QED
      BY <3>1
  <2>6. kept = Kept(kept)
    <3> HIDE DEF Kept, h
    <3> QED
      BY <2>5
  <2> HIDE DEF kept
  <2>7. kept[1] = lists[1] /\ \A i \in 1..n : i # 1 => kept[i] = kept[i - 1] \o lists[i]
    <3>1. \A i \in 1..n : Kept(kept)[i] = IF i = 1 THEN lists[i] ELSE kept[i - 1] \o lists[i]
      OBVIOUS
    <3>2. \A i \in 1..n : kept[i] = IF i = 1 THEN lists[i] ELSE kept[i - 1] \o lists[i]
      <4> HIDE DEF Kept
      <4> QED
        BY <2>6, <3>1
    <3>3. 1 \in 1..n
      BY <1>1, <1>3
    <3> QED
      BY <3>2, <3>3
  <2> HIDE DEF Kept
  <2> DEFINE Exact(m) == kept[m] \in Seq(S) /\ Range(kept[m]) = To(m)
             Done == {m \in Nat : m + 1 <= n => Exact(m + 1)}
  <2>8. Exact(1)
    <3>1. lists[1] \in Seq(S) /\ 1..1 = {1}
      BY <1>1, <1>3
    <3> QED
      BY <2>7, <3>1
  <2>9. ASSUME NEW m \in Nat, m \in Done PROVE m + 1 \in Done
    <3> SUFFICES ASSUME (m + 1) + 1 <= n PROVE Exact((m + 1) + 1)
      OBVIOUS
    <3>1. (m + 1) + 1 \in 1..n /\ m + 1 <= n /\ ((m + 1) + 1) - 1 = m + 1 /\ (m + 1) + 1 # 1
      BY <1>1
    <3>2. kept[(m + 1) + 1] = kept[m + 1] \o lists[(m + 1) + 1]
      BY <2>7, <3>1
    <3>3. Exact(m + 1)
      BY <2>9, <3>1
    <3>4. lists[(m + 1) + 1] \in Seq(S)
      BY <1>1, <3>1
    <3>5. /\ kept[(m + 1) + 1] \in Seq(S)
          /\ Range(kept[(m + 1) + 1]) = Range(kept[m + 1]) \cup Range(lists[(m + 1) + 1])
      BY <3>2, <3>3, <3>4, ConcatIsUnion
    <3>6. /\ \A i \in 1..((m + 1) + 1) : i \in 1..(m + 1) \/ i = (m + 1) + 1
          /\ \A i \in 1..(m + 1) : i \in 1..((m + 1) + 1)
          /\ (m + 1) + 1 \in 1..((m + 1) + 1)
      BY <3>1
    <3>7. \A x : x \in To((m + 1) + 1) <=> x \in To(m + 1) \cup Range(lists[(m + 1) + 1])
      BY <3>6
    <3> HIDE DEF To
    <3> QED
      BY <3>3, <3>5, <3>7
  <2>10. 0 \in Done
    BY <2>8
  <2> HIDE DEF Done, Exact
  <2>11. Nat \subseteq Done
    BY <2>9, <2>10, Induction
  <2>12. n - 1 \in Nat /\ (n - 1) + 1 = n
    BY <1>1, <1>3
  <2>13. Exact(n)
    BY <2>11, <2>12 DEF Done
  <2> QED
    BY <2>1, <2>13 DEF Exact, n
<1> QED
  BY <1>2, <1>3

-----------------------------------------------------------------------------
(***************************************************************************)
(* Discovery.  What its steps keep is that every URL a sitemap has listed  *)
(* is offered or held by a frame (Gathered).                               *)
(***************************************************************************)

(* A list without repetitions, which holds the best offer of each of a set. *)
Distinct(seen) == \A i, j \in DOMAIN seen : Same(seen[i], seen[j]) => i = j

BestOf(seen, all) ==
  /\ \A i \in DOMAIN seen : seen[i] \in all
  /\ \A d \in all : \E i \in DOMAIN seen : Same(seen[i], d) /\ Priority(seen[i].source) <= Priority(d.source)

LEMMA PriorityIsNumber == \A d \in Offers : Priority(d.source) \in Nat
BY DEF Offers, Sources, Priority

LEMMA KeepIsBest ==
  ASSUME NEW seen \in Seq(Offers), NEW all \in SUBSET Offers, NEW d \in Offers, Distinct(seen), BestOf(seen, all)
  PROVE  Keep(seen, d) \in Seq(Offers) /\ Distinct(Keep(seen, d)) /\ BestOf(Keep(seen, d), all \cup {d})
<1> DEFINE same == {i \in DOMAIN seen : Key(seen[i].url) = Key(d.url)}
           new == Keep(seen, d)
<1>0. Len(seen) \in Nat /\ DOMAIN seen = 1..Len(seen) /\ \A i \in DOMAIN seen : seen[i] \in Offers
  OBVIOUS
<1>1. CASE same = {}
  <2>1. new = Append(seen, d)
    BY <1>1 DEF Keep
  <2>2. /\ new \in Seq(Offers) /\ DOMAIN new = 1..Len(seen) + 1
        /\ new[Len(seen) + 1] = d /\ \A i \in 1..Len(seen) : new[i] = seen[i]
    BY <1>0, <2>1, AppendProperties
  <2>3. \A i \in 1..Len(seen) : ~Same(seen[i], d) /\ ~Same(d, seen[i])
    BY <1>0, <1>1 DEF Same
  <2> HIDE DEF new, same
  <2>4. Distinct(new)
    <3> SUFFICES ASSUME NEW i \in DOMAIN new, NEW j \in DOMAIN new, Same(new[i], new[j]) PROVE i = j
      BY DEF Distinct
    <3>1. CASE i \in 1..Len(seen) /\ j \in 1..Len(seen)
      BY <1>0, <2>2, <3>1 DEF Distinct
    <3>2. CASE i = Len(seen) + 1 \/ j = Len(seen) + 1
      BY <1>0, <2>2, <2>3, <3>2
    <3> QED
      BY <1>0, <2>2, <3>1, <3>2
  <2>5. \A i \in DOMAIN new : new[i] \in all \cup {d}
    <3> SUFFICES ASSUME NEW i \in DOMAIN new PROVE new[i] \in all \cup {d}
      OBVIOUS
    <3>1. CASE i \in 1..Len(seen)
      BY <1>0, <2>2, <3>1 DEF BestOf
    <3>2. CASE i = Len(seen) + 1
      BY <2>2, <3>2
    <3> QED
      BY <1>0, <2>2, <3>1, <3>2
  <2>6. ASSUME NEW e \in all \cup {d}
        PROVE  \E i \in DOMAIN new : Same(new[i], e) /\ Priority(new[i].source) <= Priority(e.source)
    <3>1. CASE e \in all
      <4>1. PICK i \in DOMAIN seen : Same(seen[i], e) /\ Priority(seen[i].source) <= Priority(e.source)
        BY <3>1 DEF BestOf
      <4> QED
        BY <1>0, <2>2, <4>1
    <3>2. CASE e = d
      <4>1. Len(seen) + 1 \in DOMAIN new /\ Same(new[Len(seen) + 1], e)
        BY <1>0, <2>2, <3>2 DEF Same
      <4>2. Priority(new[Len(seen) + 1].source) <= Priority(e.source)
        BY <2>2, <3>2, PriorityIsNumber
      <4> QED
        BY <4>1, <4>2
    <3> QED
      BY <3>1, <3>2
  <2> QED
    BY <2>2, <2>4, <2>5, <2>6 DEF BestOf, new
<1>2. CASE same # {}
  <2>1. new = [i \in DOMAIN seen |->
                 IF i \in same /\ Priority(d.source) < Priority(seen[i].source) THEN d ELSE seen[i]]
    BY <1>2 DEF Keep
  <2>2. PICK k \in DOMAIN seen : Key(seen[k].url) = Key(d.url)
    BY <1>2
  <2>3. \A i \in DOMAIN seen : i \in same <=> Key(seen[i].url) = Key(d.url)
    OBVIOUS
  <2> HIDE DEF new, same
  <2>4. DOMAIN new = DOMAIN seen /\ \A i \in DOMAIN seen : new[i] \in {d, seen[i]}
    BY <2>1
  <2>5. new \in Seq(Offers)
    <3>1. \A i \in 1..Len(seen) : new[i] \in Offers
      BY <1>0, <2>4
    <3>2. new = [i \in 1..Len(seen) |-> new[i]]
      BY <1>0, <2>1
    <3> QED
      BY <1>0, <3>1, <3>2, IsASeq
  <2>6. \A i \in DOMAIN seen : Key(new[i].url) = Key(seen[i].url)
    BY <2>1, <2>3
  <2>7. Distinct(new)
    BY <2>4, <2>6 DEF Distinct, Same
  <2>8. \A i \in DOMAIN new : new[i] \in all \cup {d}
    BY <2>4 DEF BestOf
  <2>9. \A i \in DOMAIN seen : Priority(new[i].source) <= Priority(seen[i].source)
    <3> SUFFICES ASSUME NEW i \in DOMAIN seen PROVE Priority(new[i].source) <= Priority(seen[i].source)
      OBVIOUS
    <3>1. Priority(d.source) \in Nat /\ Priority(seen[i].source) \in Nat
      BY <1>0, PriorityIsNumber
    <3> QED
      BY <2>1, <3>1
  <2>10. Priority(new[k].source) <= Priority(d.source)
    <3>1. Priority(d.source) \in Nat /\ Priority(seen[k].source) \in Nat
      BY <1>0, PriorityIsNumber
    <3> QED
      BY <2>1, <2>2, <2>3, <3>1
  <2>11. ASSUME NEW e \in all \cup {d}
         PROVE  \E i \in DOMAIN new : Same(new[i], e) /\ Priority(new[i].source) <= Priority(e.source)
    <3>1. CASE e \in all
      <4>1. PICK i \in DOMAIN seen : Same(seen[i], e) /\ Priority(seen[i].source) <= Priority(e.source)
        BY <3>1 DEF BestOf
      <4>2. Same(new[i], e)
        BY <2>6, <4>1 DEF Same
      <4>3. new[i] \in Offers
        BY <1>0, <2>4
      <4>4. Priority(new[i].source) <= Priority(e.source)
        <5>1. /\ Priority(new[i].source) \in Nat /\ Priority(seen[i].source) \in Nat
              /\ Priority(e.source) \in Nat
          BY <1>0, <4>3, PriorityIsNumber
        <5> QED
          BY <2>9, <4>1, <5>1
      <4> QED
        BY <2>4, <4>2, <4>4
    <3>2. CASE e = d
      BY <2>2, <2>4, <2>6, <2>10, <3>2 DEF Same
    <3> QED
      BY <3>1, <3>2
  <2> QED
    BY <2>5, <2>7, <2>8, <2>11 DEF BestOf, new
<1> QED
  BY <1>1, <1>2

LEMMA KeepStaysDistinct ==
  ASSUME NEW seen \in Seq(Offers), NEW d \in Offers, Distinct(seen)
  PROVE  Keep(seen, d) \in Seq(Offers) /\ Distinct(Keep(seen, d))
<1> DEFINE all == {seen[i] : i \in DOMAIN seen}
<1>1. all \in SUBSET Offers
  OBVIOUS
<1>2. BestOf(seen, all)
  <2>1. \A i \in DOMAIN seen : Priority(seen[i].source) <= Priority(seen[i].source)
    BY PriorityIsNumber
  <2> QED
    BY <2>1 DEF BestOf, Same
<1> HIDE DEF all
<1> QED
  BY <1>1, <1>2, KeepIsBest

(* _deduplicate *)
LEMMA DeduplicateIsBest ==
  ASSUME NEW urls \in Seq(Offers)
  PROVE  /\ Deduplicate(urls) \in Seq(Offers) /\ Distinct(Deduplicate(urls))
         /\ BestOf(Deduplicate(urls), Range(urls))
<1> DEFINE n == Len(urls)
           To(m) == {urls[i] : i \in 1..m}
           Good == {s \in Seq(Offers) : Distinct(s)}
           step == [a \in Good \X (1..n) |-> Keep(a[1], urls[a[2]])]
           Seen(g) == [m \in 0..n |-> IF m = 0 THEN <<>> ELSE Keep(g[m - 1], urls[m])]
           seen == CHOOSE g : g = Seen(g)
<1>1. n \in Nat /\ DOMAIN urls = 1..n /\ \A i \in 1..n : urls[i] \in Offers
  OBVIOUS
<1>2. step \in [Good \X (1..n) -> Good]
  <2>1. ASSUME NEW s \in Good, NEW i \in 1..n PROVE Keep(s, urls[i]) \in Good
    BY <1>1, KeepStaysDistinct
  <2> HIDE DEF Good
  <2>2. \A a \in Good \X (1..n) : a[1] \in Good /\ a[2] \in 1..n
    OBVIOUS
  <2>3. \A a \in Good \X (1..n) : Keep(a[1], urls[a[2]]) \in Good
    BY <2>1, <2>2
  <2> QED
    BY <2>3
<1>3. <<>> \in Good
  BY DEF Distinct
<1>4. \A s \in Good, i \in 1..n : step[<<s, i>>] = Keep(s, urls[i])
  OBVIOUS
<1> HIDE DEF step, Good, n
<1>5. PICK f \in [0..n -> Good] : f[0] = <<>> /\ \A i \in 1..n : f[i] = step[<<f[i - 1], i>>]
  <2>1. Iterates(step, n, Good, <<>>)
    BY <1>1, <1>2, <1>3, Iteration
  <2> QED
    BY <2>1 DEF Iterates
<1>6. f = Seen(f)
  <2>1. ASSUME NEW m \in 0..n PROVE f[m] = IF m = 0 THEN <<>> ELSE Keep(f[m - 1], urls[m])
    <3>1. CASE m = 0
      BY <1>5, <3>1
    <3>2. CASE m # 0
      <4>1. m \in 1..n /\ m - 1 \in 0..n
        BY <1>1, <3>2
      <4>2. f[m] = step[<<f[m - 1], m>>]
        BY <1>5, <4>1
      <4>3. f[m] = Keep(f[m - 1], urls[m])
        BY <1>4, <4>1, <4>2
      <4> QED
        BY <3>2, <4>3
    <3> QED
      BY <3>1, <3>2
  <2> QED
    BY <2>1
<1>7. seen = Seen(seen)
  <2> HIDE DEF Seen
  <2> QED
    BY <1>6
<1>8. Deduplicate(urls) = seen[n]
  BY DEF Deduplicate, n
<1> HIDE DEF seen
<1>9. seen[0] = <<>> /\ \A m \in 1..n : seen[m] = Keep(seen[m - 1], urls[m])
  <2>1. seen[0] = <<>>
    BY <1>1, <1>7
  <2>2. ASSUME NEW m \in 1..n PROVE seen[m] = Keep(seen[m - 1], urls[m])
    <3>1. m \in 0..n /\ m # 0
      BY <1>1
    <3> QED
      BY <1>7, <3>1
  <2> QED
    BY <2>1, <2>2
<1> HIDE DEF Seen
<1> HIDE DEF To
<1> DEFINE Done == {m \in Nat : m <= n => seen[m] \in Seq(Offers) /\ Distinct(seen[m]) /\ BestOf(seen[m], To(m))}
<1>10. 0 \in Done
  <2>1. seen[0] = <<>> /\ <<>> \in Seq(Offers) /\ DOMAIN <<>> = {} /\ To(0) = {}
    BY <1>9 DEF To
  <2> QED
    BY <2>1 DEF Distinct, BestOf
<1>11. ASSUME NEW m \in Nat, m \in Done PROVE m + 1 \in Done
  <2> SUFFICES ASSUME m + 1 <= n
               PROVE  /\ seen[m + 1] \in Seq(Offers) /\ Distinct(seen[m + 1])
                      /\ BestOf(seen[m + 1], To(m + 1))
    OBVIOUS
  <2>1. m + 1 \in 1..n /\ m <= n /\ (m + 1) - 1 = m
    BY <1>1
  <2>2. seen[m + 1] = Keep(seen[m], urls[m + 1])
    BY <1>9, <2>1
  <2>3. To(m + 1) = To(m) \cup {urls[m + 1]} /\ To(m) \in SUBSET Offers
    <3>1. /\ \A i \in 1..(m + 1) : i \in 1..m \/ i = m + 1
          /\ \A i \in 1..m : i \in 1..(m + 1) /\ i \in 1..n
          /\ m + 1 \in 1..(m + 1)
      BY <1>1, <2>1
    <3>2. \A i \in 1..m : urls[i] \in Offers
      BY <1>1, <3>1
    <3>3. To(m) \in SUBSET Offers
      BY <3>2 DEF To
    <3>4. \A x : x \in To(m + 1) <=> (x \in To(m) \/ x = urls[m + 1])
      BY <3>1 DEF To
    <3> QED
      BY <3>3, <3>4
  <2>4. seen[m] \in Seq(Offers) /\ Distinct(seen[m]) /\ BestOf(seen[m], To(m))
    BY <1>11, <2>1
  <2> QED
    BY <1>1, <2>1, <2>2, <2>3, <2>4, KeepIsBest
<1>12. n \in Done
  <2> HIDE DEF Done
  <2> QED
    BY <1>1, <1>10, <1>11, Induction
<1>13. To(n) = Range(urls)
  BY <1>1 DEF Range, To
<1> QED
  BY <1>1, <1>8, <1>12, <1>13

(* What is of the site is what is of the site. *)
LEMMA OfSiteIsExact ==
  ASSUME NEW urls \in Seq(Offers)
  PROVE  /\ OfSite(urls) \in Seq(Offers)
         /\ Range(OfSite(urls)) = {d \in Range(urls) : IsSameDomain(d.url)}
<1> DEFINE places == {i \in DOMAIN urls : IsSameDomain(urls[i].url)}
<1>1. OfSite(urls) = Chosen(urls, places)
  BY DEF OfSite
<1>2. DOMAIN urls = 1..Len(urls) /\ \A i : i \in places <=> i \in 1..Len(urls) /\ IsSameDomain(urls[i].url)
  OBVIOUS
<1> HIDE DEF places
<1>3. /\ Chosen(urls, places) \in Seq(Offers)
      /\ Range(Chosen(urls, places)) = {urls[i] : i \in {j \in 1..Len(urls) : j \in places}}
  BY ChosenIsExact, ChosenRange
<1>4. Range(urls) = {urls[i] : i \in 1..Len(urls)}
  BY <1>2 DEF Range
<1> QED
  BY <1>1, <1>2, <1>3, <1>4

-----------------------------------------------------------------------------
(* The ranking. *)

LEMMA WordsAreWeighed ==
  ASSUME NEW u \in Normal
  PROVE  /\ Head(u.host) \in DOMAIN Worth /\ u.path \in Seq(DOMAIN Worth)
         /\ \A w \in DOMAIN Worth : Worth[w] \in Nat
BY DiscoveryAssumption DEF Normal, NormalOf, Range

LEMMA BestWordExists ==
  ASSUME NEW u \in Normal
  PROVE  LET words == {Head(u.host)} \cup Range(u.path)
         IN  \E w \in words : \A v \in words : Worth[v] <= Worth[w]
<1> DEFINE n == Len(u.path)
           To(m) == {Head(u.host)} \cup {u.path[i] : i \in 1..m}
           Done == {m \in Nat : m <= n => \E w \in To(m) : \A v \in To(m) : Worth[v] <= Worth[w]}
<1>1. /\ n \in Nat /\ DOMAIN u.path = 1..n /\ \A i \in 1..n : u.path[i] \in DOMAIN Worth
      /\ Head(u.host) \in DOMAIN Worth
  BY WordsAreWeighed
<1>2. \A w \in DOMAIN Worth : Worth[w] \in Nat
  BY WordsAreWeighed
<1> HIDE DEF n
<1>3. 0 \in Done
  <2>1. To(0) = {Head(u.host)} /\ Worth[Head(u.host)] <= Worth[Head(u.host)]
    BY <1>1, <1>2
  <2> HIDE DEF To
  <2> QED
    BY <2>1
<1>4. ASSUME NEW m \in Nat, m \in Done PROVE m + 1 \in Done
  <2> SUFFICES ASSUME m + 1 <= n PROVE \E w \in To(m + 1) : \A v \in To(m + 1) : Worth[v] <= Worth[w]
    OBVIOUS
  <2>1. \A x : x \in To(m + 1) <=> (x \in To(m) \/ x = u.path[m + 1])
    <3>1. /\ \A i \in 1..(m + 1) : i \in 1..m \/ i = m + 1
          /\ \A i \in 1..m : i \in 1..(m + 1)
          /\ m + 1 \in 1..(m + 1)
      BY <1>1
    <3> QED
      BY <3>1
  <2>2. To(m) \subseteq DOMAIN Worth /\ u.path[m + 1] \in DOMAIN Worth
    <3>1. m + 1 \in 1..n /\ \A i \in 1..m : i \in 1..n
      BY <1>1
    <3> QED
      BY <1>1, <3>1
  <2> HIDE DEF To
  <2>3. PICK w \in To(m) : \A v \in To(m) : Worth[v] <= Worth[w]
    BY <1>1, <1>4
  <2> DEFINE new == u.path[m + 1]
  <2>4. Worth[w] \in Nat /\ Worth[new] \in Nat /\ \A v \in To(m) : Worth[v] \in Nat
    BY <1>2, <2>2
  <2> HIDE DEF new
  <2>5. CASE Worth[new] <= Worth[w]
    BY <2>1, <2>3, <2>5 DEF new
  <2>6. CASE Worth[w] < Worth[new]
    <3>1. \A v \in To(m) : Worth[v] <= Worth[new]
      BY <2>3, <2>4, <2>6
    <3>2. Worth[new] <= Worth[new]
      BY <2>4
    <3> QED
      BY <2>1, <3>1, <3>2 DEF new
  <2> QED
    BY <2>4, <2>5, <2>6
<1>5. n \in Done
  <2> HIDE DEF Done
  <2> QED
    BY <1>1, <1>3, <1>4, Induction
<1>6. To(n) = {Head(u.host)} \cup Range(u.path)
  BY <1>1 DEF Range
<1> HIDE DEF To
<1> QED
  BY <1>1, <1>5, <1>6

LEMMA ScoreIsNumber == ASSUME NEW d \in Offers PROVE Score(d) \in Nat
<1>1. d.url \in Normal /\ SourceScore(d.source) \in Nat
  BY DEF Offers, Sources, SourceScore
<1>2. Value(d.url) \in Nat
  <2> DEFINE words == {Head(d.url.host)} \cup Range(d.url.path)
             best == CHOOSE w \in words : \A v \in words : Worth[v] <= Worth[w]
             bonus == IF Cardinality({i \in DOMAIN d.url.path : d.url.path[i] # ""}) <= 2 THEN 2 ELSE 0
  <2>1. words \subseteq DOMAIN Worth
    BY <1>1, WordsAreWeighed DEF Range
  <2>2. \E w \in words : \A v \in words : Worth[v] <= Worth[w]
    BY <1>1, BestWordExists
  <2>3. Value(d.url) = Worth[best] + bonus
    BY DEF Value
  <2>4. bonus \in Nat
    OBVIOUS
  <2> HIDE DEF words, bonus
  <2>5. best \in words
    BY <2>2
  <2> HIDE DEF best
  <2>6. Worth[best] \in Nat
    BY <1>1, <2>1, <2>5, WordsAreWeighed
  <2> QED
    BY <2>3, <2>4, <2>6
<1> QED
  BY <1>1, <1>2 DEF Score

(* A ranking rearranges, and no score rises along it. *)
Ranks(p, urls) ==
  /\ p \in [DOMAIN urls -> DOMAIN urls]
  /\ \A i, j \in DOMAIN urls : p[i] = p[j] => i = j
  /\ \A i \in DOMAIN urls : \E k \in DOMAIN urls : p[k] = i
  /\ Rank(urls) = [k \in DOMAIN urls |-> urls[p[k]]]
  /\ \A i, j \in DOMAIN urls : i < j => Score(urls[p[i]]) >= Score(urls[p[j]])

LEMMA RankSorts ==
  ASSUME NEW urls \in Seq(Offers)
  PROVE  \E p : Ranks(p, urls)
<1> DEFINE n == Len(urls)
           rank == [i \in DOMAIN urls |-> Score(urls[i])]
           p == Sorted(rank)
<1>1. n \in Nat /\ DOMAIN urls = 1..n /\ \A i \in 1..n : Score(urls[i]) \in Nat
  BY ScoreIsNumber
<1>2. Rank(urls) = [k \in DOMAIN urls |-> urls[p[k]]]
  BY DEF Rank
<1>3. rank \in [1..n -> Int] /\ \A i \in 1..n : rank[i] = Score(urls[i])
  BY <1>1
<1> HIDE DEF n, rank
<1>4. Sorts(p, n, rank)
  BY <1>1, <1>3, SortedSorts
<1> HIDE DEF p
<1>5. /\ p \in [1..n -> 1..n]
      /\ \A i, j \in 1..n : p[i] = p[j] => i = j
      /\ \A i \in 1..n : \E k \in 1..n : p[k] = i
      /\ \A i, j \in 1..n : i < j => rank[p[i]] >= rank[p[j]]
  BY <1>4 DEF Sorts
<1>6. ASSUME NEW i \in 1..n, NEW j \in 1..n, i < j PROVE Score(urls[p[i]]) >= Score(urls[p[j]])
  <2>1. p[i] \in 1..n /\ p[j] \in 1..n /\ rank[p[i]] >= rank[p[j]]
    BY <1>5, <1>6
  <2>2. rank[p[i]] = Score(urls[p[i]]) /\ rank[p[j]] = Score(urls[p[j]])
    BY <1>3, <2>1
  <2> QED
    BY <2>1, <2>2
<1>7. Ranks(p, urls)
  BY <1>1, <1>2, <1>5, <1>6 DEF Ranks
<1> QED
  BY <1>7

-----------------------------------------------------------------------------
(* What discover() returns of what it was offered. *)

Of(urls) == {d \in Range(urls) : options.same_domain_only => IsSameDomain(d.url)}

Wins(pages, all) ==
  /\ \A i, j \in DOMAIN pages : Same(pages[i], pages[j]) => i = j
  /\ \A r \in Range(pages) : r \in all
  /\ \A r \in Range(pages), d \in all : Same(r, d) => Priority(r.source) <= Priority(d.source)

Outranks(pages, all) ==
  \A d \in all :
    \/ \E r \in Range(pages) : Same(r, d)
    \/ /\ Len(pages) = MaxPages
       /\ \E best \in all :
            /\ Same(best, d)
            /\ \A e \in all : Same(best, e) => Priority(best.source) <= Priority(e.source)
            /\ \A r \in Range(pages) : Score(r) >= Score(best)

LEMMA EligibleIsExact ==
  ASSUME NEW urls \in Seq(Offers), options \in Options
  PROVE  Eligible(urls) \in Seq(Offers) /\ Range(Eligible(urls)) = Of(urls)
<1>1. options.same_domain_only \in BOOLEAN
  BY DiscoveryAssumption
<1>2. CASE options.same_domain_only
  <2>1. Eligible(urls) = OfSite(urls)
    BY <1>2 DEF Eligible
  <2> QED
    BY <1>2, <2>1, OfSiteIsExact DEF Of
<1>3. CASE ~options.same_domain_only
  BY <1>3 DEF Eligible, Of
<1> QED
  BY <1>1, <1>2, <1>3

LEMMA TruncatedIsBest ==
  ASSUME NEW urls \in Seq(Offers), options \in Options
  PROVE  LET ranked == Rank(Deduplicate(Eligible(urls)))
             pages == SubSeq(ranked, 1, IF Len(ranked) > MaxPages THEN MaxPages ELSE Len(ranked))
         IN  pages \in Seq(Offers) /\ Len(pages) <= MaxPages /\ Wins(pages, Of(urls)) /\ Outranks(pages, Of(urls))
<1> DEFINE kept == Deduplicate(Eligible(urls))
           all == Of(urls)
           ranked == Rank(kept)
           n == Len(kept)
           m == IF Len(ranked) > MaxPages THEN MaxPages ELSE Len(ranked)
           pages == SubSeq(ranked, 1, m)
<1>1. kept \in Seq(Offers) /\ Distinct(kept) /\ BestOf(kept, all)
  BY EligibleIsExact, DeduplicateIsBest
<1>2. all \subseteq Offers
  BY DEF Of, Range
<1> HIDE DEF kept, all
<1>3. n \in Nat /\ DOMAIN kept = 1..n /\ \A i \in 1..n : kept[i] \in Offers
  BY <1>1
<1>4. PICK p : Ranks(p, kept)
  BY <1>1, RankSorts
<1>5. /\ ranked = [k \in 1..n |-> kept[p[k]]]
      /\ \A k \in 1..n : p[k] \in 1..n
      /\ \A i, j \in 1..n : p[i] = p[j] => i = j
      /\ \A i \in 1..n : \E k \in 1..n : p[k] = i
      /\ \A i, j \in 1..n : i < j => Score(kept[p[i]]) >= Score(kept[p[j]])
  BY <1>3, <1>4 DEF Ranks
<1> HIDE DEF ranked, n
<1>6. ranked \in Seq(Offers) /\ Len(ranked) = n
  <2>1. \A k \in 1..n : ranked[k] \in Offers
    BY <1>3, <1>5
  <2> QED
    BY <1>3, <1>5, <2>1, IsASeq
<1>7. MaxPages \in Nat /\ MaxPages >= 1
  BY DiscoveryAssumption
<1>8. m \in 0..n /\ m <= MaxPages /\ (m < n => m = MaxPages)
  BY <1>3, <1>6, <1>7
<1>9. /\ pages \in Seq(Offers) /\ Len(pages) = m /\ DOMAIN pages = 1..m
      /\ \A k \in 1..m : pages[k] = ranked[k]
  <2> HIDE DEF m
  <2>1. \A k \in 1..m : ranked[k] \in Offers
    BY <1>6, <1>8
  <2>2. pages \in Seq(Offers) /\ Len(pages) = m /\ \A k \in 1..m : pages[k] = ranked[1 + k - 1]
    BY <1>3, <1>6, <1>8, <2>1, SubSeqProperties
  <2>3. \A k \in 1..m : 1 + k - 1 = k
    BY <1>8
  <2> QED
    BY <2>2, <2>3
<1> HIDE DEF m, pages
<1>10. \A k \in 1..m : k \in 1..n /\ p[k] \in 1..n /\ pages[k] = kept[p[k]]
  <2> SUFFICES ASSUME NEW k \in 1..m PROVE k \in 1..n /\ p[k] \in 1..n /\ pages[k] = kept[p[k]]
    OBVIOUS
  <2>1. k \in 1..n
    BY <1>3, <1>8
  <2>2. pages[k] = ranked[k]
    BY <1>9
  <2> QED
    BY <1>5, <2>1, <2>2
<1>11. Wins(pages, all)
  <2>1. ASSUME NEW i \in 1..m, NEW j \in 1..m, Same(pages[i], pages[j]) PROVE i = j
    <3>1. Same(kept[p[i]], kept[p[j]]) /\ p[i] \in 1..n /\ p[j] \in 1..n /\ i \in 1..n /\ j \in 1..n
      BY <1>10, <2>1
    <3>2. p[i] = p[j]
      BY <1>1, <1>3, <3>1 DEF Distinct
    <3> QED
      BY <1>5, <3>1, <3>2
  <2>2. \A k \in 1..m : pages[k] \in all
    BY <1>1, <1>3, <1>10 DEF BestOf
  <2>3. ASSUME NEW k \in 1..m, NEW d \in all, Same(pages[k], d)
        PROVE  Priority(pages[k].source) <= Priority(d.source)
    <3>1. PICK i \in 1..n : Same(kept[i], d) /\ Priority(kept[i].source) <= Priority(d.source)
      BY <1>1, <1>3 DEF BestOf
    <3>2. Same(kept[i], kept[p[k]])
      BY <1>10, <2>3, <3>1 DEF Same
    <3>3. i = p[k]
      BY <1>1, <1>3, <1>10, <3>2 DEF Distinct
    <3> QED
      BY <1>10, <3>1, <3>3
  <2> QED
    BY <1>9, <2>1, <2>2, <2>3 DEF Wins, Range
<1>12. Outranks(pages, all)
  <2> SUFFICES ASSUME NEW d \in all, \A r \in Range(pages) : ~Same(r, d)
               PROVE  /\ Len(pages) = MaxPages
                      /\ \E best \in all :
                           /\ Same(best, d)
                           /\ \A e \in all : Same(best, e) => Priority(best.source) <= Priority(e.source)
                           /\ \A r \in Range(pages) : Score(r) >= Score(best)
    BY DEF Outranks
  <2>1. PICK i \in 1..n : Same(kept[i], d)
    BY <1>1, <1>3 DEF BestOf
  <2>2. PICK k \in 1..n : p[k] = i
    BY <1>5
  <2>3. k \notin 1..m
    BY <1>9, <1>10, <2>1, <2>2 DEF Range
  <2>4. m < k /\ m < n
    BY <1>3, <1>8, <2>3
  <2>5. kept[i] \in all
    BY <1>1, <1>3 DEF BestOf
  <2>6. ASSUME NEW e \in all, Same(kept[i], e) PROVE Priority(kept[i].source) <= Priority(e.source)
    <3>1. PICK j \in 1..n : Same(kept[j], e) /\ Priority(kept[j].source) <= Priority(e.source)
      BY <1>1, <1>3 DEF BestOf
    <3>2. Same(kept[i], kept[j])
      BY <2>6, <3>1 DEF Same
    <3>3. i = j
      BY <1>1, <1>3, <3>2 DEF Distinct
    <3> QED
      BY <3>1, <3>3
  <2>7. \A l \in 1..m : Score(pages[l]) >= Score(kept[i])
    <3> SUFFICES ASSUME NEW l \in 1..m PROVE Score(pages[l]) >= Score(kept[i])
      OBVIOUS
    <3>1. l < k /\ l \in 1..n
      BY <1>3, <1>8, <2>4
    <3>2. Score(kept[p[l]]) >= Score(kept[p[k]])
      BY <1>5, <3>1
    <3> QED
      BY <1>10, <2>2, <3>2
  <2>8. \A r \in Range(pages) : Score(r) >= Score(kept[i])
    BY <1>9, <2>7 DEF Range
  <2> QED
    BY <1>8, <1>9, <2>1, <2>4, <2>5, <2>6, <2>8
<1>13. Len(pages) <= MaxPages
  BY <1>8, <1>9
<1> QED
  BY <1>9, <1>11, <1>12, <1>13 DEF pages, m, ranked, kept, all

-----------------------------------------------------------------------------
(* The inductive invariant. *)

Listed(urls) == {urls[i].url : i \in DOMAIN urls}

(* There are frames while sitemaps are read, and only the last may still   *)
(* wait for its answer.                                                    *)
Nested ==
  /\ phase = "sitemaps" <=> stack # <<>>
  /\ \A i \in DOMAIN stack : ~stack[i].read => (i = Len(stack) /\ stack[i].found = <<>>)

(* What was listed has been offered, or a frame still holds it. *)
Gathered ==
  phase # "cancelled" =>
    \A u \in located : u \in Listed(offered) \/ \E i \in DOMAIN stack : u \in Listed(stack[i].found)

Selected == phase = "done" => (Wins(returned, Candidates) /\ Outranks(returned, Candidates))

DiscInv == DiscoveryTypeOK /\ Nested /\ Gathered /\ Selected /\ OnlyABrowserIsLeft

LEMMA OriginIsHost == \A u \in Bases \cup Linked : Origin(u) \in Hosts
BY DEF Hosts

LEMMA LinkedIsListed == \A d \in Sitemaps : Range(d.subs) \subseteq Linked /\ d.subs \in Seq(Linked)
<1> SUFFICES ASSUME NEW d \in Sitemaps PROVE Range(d.subs) \subseteq Linked /\ d.subs \in Seq(Linked)
  OBVIOUS
<1>1. d.subs \in Seq(Urls)
  BY DiscoveryAssumption
<1>2. Len(d.subs) \in Nat /\ \A i \in 1..Len(d.subs) : d.subs[i] \in Linked
  BY <1>1 DEF Linked, Range
<1>3. d.subs = [i \in 1..Len(d.subs) |-> d.subs[i]]
  BY <1>1
<1>4. d.subs \in Seq(Linked)
  BY <1>2, <1>3, IsASeq
<1> QED
  BY <1>1, <1>2, <1>4 DEF Range

LEMMA FrameIsTyped == ASSUME NEW h \in Hosts PROVE Frame(h) \in Frames
BY DEF Frame, Frames

LEMMA FromIsTyped ==
  ASSUME NEW source \in Sources, NEW urls \in Seq(Urls)
  PROVE  /\ From(source, urls) \in Seq(Offer(source)) /\ From(source, urls) \in Seq(Offers)
         /\ Listed(From(source, urls)) = {NormalOf[u] : u \in Range(urls)}
<1>1. Len(urls) \in Nat /\ DOMAIN urls = 1..Len(urls) /\ \A i \in 1..Len(urls) : urls[i] \in Urls
  OBVIOUS
<1>2. From(source, urls) = [i \in 1..Len(urls) |-> [url |-> NormalOf[urls[i]], source |-> source]]
  BY <1>1 DEF From
<1>3. \A u \in Urls : NormalOf[u] \in Normal
  BY DEF NormalOf, Normal, Range
<1>4. \A i \in 1..Len(urls) :
        /\ [url |-> NormalOf[urls[i]], source |-> source] \in Offer(source)
        /\ [url |-> NormalOf[urls[i]], source |-> source] \in Offers
  BY <1>1, <1>3 DEF Offer, Offers
<1>5. From(source, urls) \in Seq(Offer(source)) /\ From(source, urls) \in Seq(Offers)
  <2>1. \A i \in 1..Len(urls) : From(source, urls)[i] \in Offer(source) /\ From(source, urls)[i] \in Offers
    BY <1>2, <1>4
  <2>2. From(source, urls) = [i \in 1..Len(urls) |-> From(source, urls)[i]]
    BY <1>2
  <2> QED
    BY <1>1, <2>1, <2>2, IsASeq
<1>6. Listed(From(source, urls)) = {NormalOf[u] : u \in Range(urls)}
  BY <1>1, <1>2 DEF Listed, Range
<1> QED
  BY <1>5, <1>6

LEMMA SitemapOffers == ASSUME NEW urls \in Seq(Offer("sitemap")) PROVE urls \in Seq(Offers)
<1>1. Offer("sitemap") \subseteq Offers
  BY DEF Offer, Offers, Sources
<1> QED
  BY <1>1, SeqMonotonic

LEMMA ListedTogether ==
  ASSUME NEW a \in Seq(Offers), NEW b \in Seq(Offers)
  PROVE  a \o b \in Seq(Offers) /\ Listed(a \o b) = Listed(a) \cup Listed(b)
<1>1. /\ Len(a) \in Nat /\ Len(b) \in Nat /\ DOMAIN a = 1..Len(a) /\ DOMAIN b = 1..Len(b)
      /\ a \o b \in Seq(Offers) /\ DOMAIN (a \o b) = 1..(Len(a) + Len(b))
      /\ \A i \in 1..(Len(a) + Len(b)) : (a \o b)[i] = IF i <= Len(a) THEN a[i] ELSE b[i - Len(a)]
  BY ConcatProperties
<1>2. ASSUME NEW x \in Listed(a \o b) PROVE x \in Listed(a) \cup Listed(b)
  <2>1. PICK i \in 1..(Len(a) + Len(b)) : x = (a \o b)[i].url
    BY <1>1 DEF Listed
  <2>2. CASE i <= Len(a)
    BY <1>1, <2>1, <2>2 DEF Listed
  <2>3. CASE ~(i <= Len(a))
    <3>1. i - Len(a) \in 1..Len(b)
      BY <1>1, <2>3
    <3> QED
      BY <1>1, <2>1, <2>3, <3>1 DEF Listed
  <2> QED
    BY <2>2, <2>3
<1>3. ASSUME NEW x \in Listed(a) PROVE x \in Listed(a \o b)
  <2>1. PICK i \in 1..Len(a) : x = a[i].url
    BY <1>1 DEF Listed
  <2>2. i \in 1..(Len(a) + Len(b)) /\ i <= Len(a)
    BY <1>1
  <2> QED
    BY <1>1, <2>1, <2>2 DEF Listed
<1>4. ASSUME NEW x \in Listed(b) PROVE x \in Listed(a \o b)
  <2>1. PICK i \in 1..Len(b) : x = b[i].url
    BY <1>1 DEF Listed
  <2> DEFINE j == Len(a) + i
  <2>2. j \in 1..(Len(a) + Len(b)) /\ ~(j <= Len(a)) /\ j - Len(a) = i
    BY <1>1
  <2> HIDE DEF j
  <2> QED
    BY <1>1, <2>1, <2>2 DEF Listed
<1> QED
  BY <1>1, <1>2, <1>3, <1>4

(* What a home page offers. *)
LEMMA FoundIsTyped == ASSUME NEW page \in Pages PROVE Found(page) \in Seq(Offers)
<1>1. /\ page.nav \in Seq(Urls) /\ page.footer \in Seq(Urls) /\ page.rest \in Seq(Urls)
      /\ page.meta \in Seq(Urls)
  BY DiscoveryAssumption DEF Pages
<1>2. page.nav \o page.rest \o page.footer \in Seq(Urls)
  BY <1>1, ConcatProperties
<1>3. Internal(page) \in Seq(Offers)
  <2>1. From("internal_link", page.nav \o page.rest \o page.footer) \in Seq(Offers)
    BY <1>2, FromIsTyped DEF Sources
  <2> QED
    BY <2>1, OfSiteIsExact DEF Internal
<1>4. /\ From("nav", page.nav) \in Seq(Offers) /\ From("footer", page.footer) \in Seq(Offers)
      /\ From("meta", page.meta) \in Seq(Offers)
  BY <1>1, FromIsTyped DEF Sources
<1> DEFINE a == IF options.parse_nav THEN From("nav", page.nav) ELSE <<>>
           b == IF options.parse_footer THEN From("footer", page.footer) ELSE <<>>
           c == IF options.parse_internal_links THEN Internal(page) ELSE <<>>
           d == From("meta", page.meta)
<1>5. a \in Seq(Offers) /\ b \in Seq(Offers) /\ c \in Seq(Offers) /\ d \in Seq(Offers)
  BY <1>3, <1>4
<1>6. Found(page) = IF a \o b \o c \o d = <<>> THEN Internal(page) ELSE a \o b \o c \o d
  BY DEF Found
<1> HIDE DEF a, b, c, d
<1>7. a \o b \o c \o d \in Seq(Offers)
  BY <1>5, ListedTogether
<1> QED
  BY <1>3, <1>6, <1>7

-----------------------------------------------------------------------------
(* Every step keeps it. *)

LEMMA DiscInit == DiscoveryInit => DiscInv
<1> SUFFICES ASSUME DiscoveryInit PROVE DiscInv
  OBVIOUS
<1>1. DiscoveryTypeOK
  <2>1. MaxDepth \in Nat /\ MaxPages \in Nat
    BY DiscoveryAssumption
  <2> QED
    BY <2>1 DEF DiscoveryInit, DiscoveryTypeOK
<1>2. Nested /\ Gathered
  BY DEF DiscoveryInit, Nested, Gathered
<1>3. Selected /\ OnlyABrowserIsLeft
  BY DEF DiscoveryInit, Selected, OnlyABrowserIsLeft, Ended
<1> QED
  BY <1>1, <1>2, <1>3 DEF DiscInv

LEMMA BeginKeeps == ASSUME DiscInv, Begin PROVE DiscInv'
<1>1. DiscoveryTypeOK'
  BY DEF DiscInv, DiscoveryTypeOK, Begin
<1>2. Nested' /\ Gathered'
  BY DEF DiscInv, Nested, Gathered, Begin
<1>3. Selected' /\ OnlyABrowserIsLeft'
  BY DEF Begin, Selected, OnlyABrowserIsLeft, Ended
<1> QED
  BY <1>1, <1>2, <1>3 DEF DiscInv

LEMMA RobotsKeeps == ASSUME DiscInv, FetchRobots \/ SkipRobots PROVE DiscInv'
<1>1. /\ phase = "robots" /\ stack = <<>> /\ offered \in Seq(Offers) /\ base \in Bases
      /\ asked \in Nat /\ MaxDepth \in Nat /\ MaxDepth >= 1
  BY DiscoveryAssumption DEF DiscInv, DiscoveryTypeOK, Nested, FetchRobots, SkipRobots
<1>2. ToSitemaps /\ UNCHANGED <<base, options, site, located, returned, open>>
  BY DEF FetchRobots, SkipRobots
<1>3. offered' \in Seq(Offers) /\ Listed(offered) \subseteq Listed(offered')
  <2>1. CASE FetchRobots
    <3>1. PICK urls \in Lists : offered' = offered \o From("robots", urls)
      BY <2>1 DEF FetchRobots
    <3>2. urls \in Seq(Urls) /\ "robots" \in Sources
      BY DiscoveryAssumption DEF Sources
    <3>3. From("robots", urls) \in Seq(Offers)
      BY <3>2, FromIsTyped
    <3> QED
      BY <1>1, <3>1, <3>3, ListedTogether
  <2>2. CASE SkipRobots
    BY <1>1, <2>2 DEF SkipRobots
  <2> QED
    BY <2>1, <2>2
<1>4. CASE options.fetch_sitemap
  <2>1. /\ phase' = "sitemaps" /\ stack' = <<Frame(Origin(base))>>
        /\ asked' = asked + 1
    BY <1>2, <1>4 DEF ToSitemaps
  <2>2. Origin(base) \in Hosts
    BY <1>1, OriginIsHost
  <2>3. stack' \in Seq(Frames) /\ Len(stack') = 1 /\ DOMAIN stack' = {1} /\ stack'[1] = Frame(Origin(base))
    BY <2>1, <2>2, FrameIsTyped
  <2>4. asked' \in Nat
    BY <1>1, <2>1, <2>2
  <2>5. DiscoveryTypeOK'
    BY <1>1, <1>2, <1>3, <2>1, <2>3, <2>4 DEF DiscInv, DiscoveryTypeOK
  <2>6. Nested'
    <3>1. Frame(Origin(base)).found = <<>>
      BY DEF Frame
    <3> QED
      BY <2>1, <2>3, <3>1 DEF Nested
  <2>7. Gathered'
    BY <1>1, <1>2, <1>3 DEF DiscInv, Gathered
  <2> QED
    BY <2>1, <2>5, <2>6, <2>7 DEF DiscInv, Selected, OnlyABrowserIsLeft, Ended
<1>5. CASE ~options.fetch_sitemap
  <2>1. phase' = "homepage" /\ UNCHANGED <<stack, asked>>
    BY <1>2, <1>5 DEF ToSitemaps
  <2>2. DiscoveryTypeOK'
    BY <1>1, <1>2, <1>3, <2>1 DEF DiscInv, DiscoveryTypeOK
  <2>3. Nested' /\ Gathered'
    BY <1>1, <1>2, <1>3, <2>1 DEF DiscInv, Nested, Gathered
  <2> QED
    BY <2>1, <2>2, <2>3 DEF DiscInv, Selected, OnlyABrowserIsLeft, Ended
<1> QED
  BY <1>4, <1>5

(* Where a frame is while sitemaps are read. *)
LEMMA TopIsFrame ==
  ASSUME DiscInv, phase = "sitemaps"
  PROVE  /\ Len(stack) \in 1..MaxDepth /\ DOMAIN stack = 1..Len(stack)
         /\ \A i \in 1..Len(stack) : stack[i] \in Frames
         /\ Top = stack[Len(stack)] /\ Top \in Frames
<1>1. stack \in Seq(Frames) /\ stack # <<>> /\ Len(stack) <= MaxDepth
  BY DEF DiscInv, DiscoveryTypeOK, Nested
<1>2. MaxDepth \in Nat
  BY DiscoveryAssumption
<1>3. Len(stack) \in Nat /\ Len(stack) # 0 /\ DOMAIN stack = 1..Len(stack) /\ \A i \in 1..Len(stack) : stack[i] \in Frames
  BY <1>1
<1> QED
  BY <1>1, <1>2, <1>3 DEF Top

LEMMA ReturnKeeps ==
  ASSUME DiscInv, phase = "sitemaps", Return(Top), UNCHANGED <<base, options, site, asked, located, returned, open>>
  PROVE  DiscInv'
<1> DEFINE n == Len(stack)
           below == Front(stack)
<1>1. /\ n \in 1..MaxDepth /\ DOMAIN stack = 1..n /\ \A i \in 1..n : stack[i] \in Frames
      /\ Top = stack[n] /\ MaxDepth \in Nat
  BY TopIsFrame, DiscoveryAssumption
<1>2. Top.found \in Seq(Offer("sitemap")) /\ Top.found \in Seq(Offers) /\ offered \in Seq(Offers)
  <2>1. Top.found \in Seq(Offer("sitemap"))
    BY <1>1 DEF Frames
  <2> QED
    BY <2>1, SitemapOffers DEF DiscInv, DiscoveryTypeOK
<1> HIDE DEF n
<1>3. /\ below \in Seq(Frames) /\ Len(below) = n - 1 /\ DOMAIN below = 1..(n - 1)
      /\ \A i \in 1..(n - 1) : below[i] = stack[i]
  <2>1. n - 1 \in Int /\ \A i \in 1..(n - 1) : stack[i] \in Frames
    BY <1>1
  <2>2. /\ SubSeq(stack, 1, n - 1) \in Seq(Frames) /\ Len(SubSeq(stack, 1, n - 1)) = n - 1
        /\ \A i \in 1..(n - 1) : SubSeq(stack, 1, n - 1)[i] = stack[1 + i - 1]
    BY <1>1, <2>1, SubSeqProperties
  <2>3. \A i \in 1..(n - 1) : 1 + i - 1 = i
    BY <1>1
  <2>4. below = SubSeq(stack, 1, n - 1)
    BY DEF Front, n
  <2> HIDE DEF below
  <2> QED
    BY <2>2, <2>3, <2>4
<1>4. \A u \in located : \/ u \in Listed(offered) \/ u \in Listed(Top.found)
                         \/ \E i \in 1..(n - 1) : u \in Listed(stack[i].found)
  BY <1>1 DEF DiscInv, Gathered
<1>5. CASE below # <<>>
  <2> DEFINE k == n - 1
             all == stack[k].found \o Top.found
  <2>1. k \in 1..(n - 1) /\ k \in 1..n /\ Len(below) = k
    <3>1. Len(below) # 0
      BY <1>3, <1>5
    <3> QED
      BY <1>1, <1>3, <3>1
  <2>2. stack' = [below EXCEPT ![k].found = @ \o Top.found] /\ UNCHANGED <<phase, offered>>
    BY <1>3, <1>5 DEF Return
  <2> HIDE DEF below, k
  <2>3. below[k] = stack[k] /\ stack[k] \in Frames
    BY <1>1, <1>3, <2>1
  <2>4. stack' = [below EXCEPT ![k] = [stack[k] EXCEPT !.found = all]]
    BY <2>2, <2>3
  <2>5. stack[k].found \in Seq(Offer("sitemap")) /\ all \in Seq(Offer("sitemap"))
    <3>1. stack[k].found \in Seq(Offer("sitemap"))
      BY <2>3 DEF Frames
    <3> QED
      BY <1>2, <3>1, ConcatProperties
  <2>6. Listed(all) = Listed(stack[k].found) \cup Listed(Top.found)
    BY <1>2, <2>5, SitemapOffers, ListedTogether
  <2> HIDE DEF all
  <2>7. [stack[k] EXCEPT !.found = all] \in Frames
    BY <2>3, <2>5 DEF Frames
  <2>8. stack' \in Seq(Frames) /\ Len(stack') = n - 1 /\ DOMAIN stack' = 1..(n - 1)
    <3>1. k \in 1..Len(below)
      BY <1>3, <2>1
    <3> QED
      BY <1>3, <2>4, <2>7, <3>1, ExceptSeq
  <2>9. /\ stack'[k].found = all /\ stack'[k].read = stack[k].read
        /\ \A i \in 1..(n - 1) : i # k => stack'[i] = stack[i]
    <3>1. stack'[k] = [stack[k] EXCEPT !.found = all]
      BY <1>3, <2>1, <2>4
    <3>2. \A i \in 1..(n - 1) : i # k => stack'[i] = stack[i]
      BY <1>3, <2>1, <2>4
    <3> QED
      BY <2>3, <3>1, <3>2 DEF Frames
  <2>10. \A i \in 1..(n - 1) : stack[i].read
    <3> SUFFICES ASSUME NEW i \in 1..(n - 1) PROVE stack[i].read
      OBVIOUS
    <3>1. i \in 1..n /\ i # n
      BY <1>1
    <3>2. stack[i].read \/ i = Len(stack)
      BY <1>1, <3>1 DEF DiscInv, Nested
    <3> QED
      BY <3>1, <3>2 DEF n
  <2>11. DiscoveryTypeOK'
    <3>1. Len(stack') <= MaxDepth
      BY <1>1, <2>8
    <3> QED
      BY <2>2, <2>8, <3>1 DEF DiscInv, DiscoveryTypeOK
  <2>12. Nested'
    <3>1. phase' = "sitemaps" /\ stack' # <<>>
      <4>1. Len(stack') # 0
        BY <2>1, <2>8
      <4>2. stack' # <<>>
        BY <4>1
      <4> QED
        BY <2>2, <4>2
    <3>2. \A i \in 1..(n - 1) : stack'[i].read
      BY <2>1, <2>9, <2>10
    <3> QED
      BY <2>8, <3>1, <3>2 DEF Nested
  <2>13. Gathered'
    <3> SUFFICES ASSUME NEW u \in located
                 PROVE  u \in Listed(offered) \/ \E i \in 1..(n - 1) : u \in Listed(stack'[i].found)
      BY <2>2, <2>8 DEF Gathered
    <3>1. CASE u \in Listed(offered)
      BY <3>1
    <3>2. CASE u \in Listed(Top.found)
      BY <2>1, <2>6, <2>9, <3>2
    <3>3. CASE \E i \in 1..(n - 1) : u \in Listed(stack[i].found)
      <4>1. PICK i \in 1..(n - 1) : u \in Listed(stack[i].found)
        BY <3>3
      <4> QED
        BY <2>1, <2>6, <2>9, <4>1
    <3> QED
      BY <1>4, <3>1, <3>2, <3>3
  <2> QED
    BY <2>2, <2>11, <2>12, <2>13 DEF DiscInv, Selected, OnlyABrowserIsLeft, Ended
<1>6. CASE below = <<>>
  <2>1. stack' = <<>> /\ phase' = "homepage" /\ offered' = offered \o Top.found
    BY <1>6 DEF Return
  <2>2. n - 1 = 0
    BY <1>1, <1>3, <1>6
  <2>3. offered' \in Seq(Offers) /\ Listed(offered') = Listed(offered) \cup Listed(Top.found)
    BY <1>2, <2>1, ListedTogether
  <2>4. DiscoveryTypeOK'
    BY <1>1, <2>1, <2>3 DEF DiscInv, DiscoveryTypeOK
  <2>5. Nested'
    BY <2>1 DEF Nested
  <2>6. Gathered'
    BY <1>4, <2>1, <2>2, <2>3 DEF Gathered
  <2> QED
    BY <2>1, <2>4, <2>5, <2>6 DEF DiscInv, Selected, OnlyABrowserIsLeft, Ended
<1> QED
  BY <1>5, <1>6

(* While sitemaps are read, a step that leaves the others' frames alone. *)
LEMMA SitemapAnswersKeeps == ASSUME DiscInv, SitemapAnswers PROVE DiscInv'
<1> DEFINE n == Len(stack)
           document == site[Top.host]
           new == [Top EXCEPT !.read = TRUE, !.found = From("sitemap", document.locs), !.todo = document.subs]
<1>1. /\ n \in 1..MaxDepth /\ DOMAIN stack = 1..n /\ \A i \in 1..n : stack[i] \in Frames
      /\ Top = stack[n] /\ Top \in Frames /\ phase = "sitemaps" /\ ~Top.read
  BY TopIsFrame DEF SitemapAnswers
<1>2. document \in Sitemaps /\ document.locs \in Seq(Urls) /\ document.subs \in Seq(Linked)
  <2>1. document \in Sitemaps
    BY <1>1 DEF DiscInv, DiscoveryTypeOK, Frames
  <2> QED
    BY <2>1, DiscoveryAssumption, LinkedIsListed
<1>3. stack' = [stack EXCEPT ![n] = new] /\ located' = located \cup {NormalOf[u] : u \in Range(document.locs)}
  BY <1>1 DEF SitemapAnswers
<1>4. UNCHANGED <<base, options, site, phase, asked, offered, returned, open>>
  BY DEF SitemapAnswers
<1> HIDE DEF n, document
<1>5. /\ From("sitemap", document.locs) \in Seq(Offer("sitemap"))
      /\ Listed(From("sitemap", document.locs)) = {NormalOf[u] : u \in Range(document.locs)}
  BY <1>2, FromIsTyped DEF Sources
<1>6. /\ new \in Frames /\ new.read = TRUE /\ new.found = From("sitemap", document.locs)
  BY <1>1, <1>2, <1>5 DEF Frames
<1> HIDE DEF new
<1>7. /\ stack' \in Seq(Frames) /\ Len(stack') = n /\ DOMAIN stack' = 1..n /\ stack'[n] = new
      /\ \A i \in 1..n : i # n => stack'[i] = stack[i]
  <2>1. stack \in Seq(Frames) /\ n \in 1..Len(stack) /\ Len(stack) = n
    BY <1>1 DEF n, DiscInv, DiscoveryTypeOK
  <2>2. stack' \in Seq(Frames) /\ Len(stack') = Len(stack)
    BY <1>3, <1>6, <2>1, ExceptSeq
  <2> QED
    BY <1>1, <1>3, <2>1, <2>2
<1>8. DiscoveryTypeOK'
  <2>1. {NormalOf[u] : u \in Range(document.locs)} \subseteq Normal
    <3>1. \A u \in Urls : NormalOf[u] \in Normal
      BY DEF NormalOf, Normal, Range
    <3>2. \A u \in Range(document.locs) : u \in Urls
      BY <1>2 DEF Range
    <3> QED
      BY <3>1, <3>2
  <2>2. Len(stack') <= MaxDepth
    BY <1>1, <1>7, DiscoveryAssumption
  <2> QED
    BY <1>3, <1>4, <1>7, <2>1, <2>2 DEF DiscInv, DiscoveryTypeOK
<1>9. Nested'
  <2>1. stack' # <<>> /\ phase' = "sitemaps"
    BY <1>1, <1>4, <1>7
  <2>2. ASSUME NEW i \in 1..n, ~stack'[i].read PROVE FALSE
    <3>1. i # n /\ ~stack[i].read
      BY <1>6, <1>7, <2>2
    <3>2. i = Len(stack)
      BY <1>1, <3>1 DEF DiscInv, Nested
    <3> QED
      BY <3>1, <3>2 DEF n
  <2> QED
    BY <1>7, <2>1, <2>2 DEF Nested
<1>10. Gathered'
  <2> SUFFICES ASSUME NEW u \in located'
               PROVE  u \in Listed(offered) \/ \E i \in 1..n : u \in Listed(stack'[i].found)
    BY <1>4, <1>7 DEF Gathered
  <2>1. CASE u \in located
    <3>1. CASE u \in Listed(offered)
      BY <3>1
    <3>2. CASE \E i \in 1..n : u \in Listed(stack[i].found)
      <4>1. PICK i \in 1..n : u \in Listed(stack[i].found)
        BY <3>2
      <4>2. stack[n].found = <<>>
        BY <1>1 DEF DiscInv, Nested
      <4>3. i # n
        BY <4>1, <4>2 DEF Listed
      <4> QED
        BY <1>7, <4>1, <4>3
    <3> QED
      BY <1>1, <2>1, <3>1, <3>2 DEF DiscInv, Gathered
  <2>2. CASE u \notin located
    <3>1. u \in Listed(new.found)
      BY <1>3, <1>5, <1>6, <2>2
    <3> QED
      BY <1>1, <1>7, <3>1
  <2> QED
    BY <2>1, <2>2
<1> QED
  BY <1>1, <1>4, <1>8, <1>9, <1>10 DEF DiscInv, Selected, OnlyABrowserIsLeft, Ended

(* The last frame takes its next sitemap. *)
LEMMA TailKeeps ==
  ASSUME DiscInv, phase = "sitemaps", Top.read, Top.todo # <<>>,
         NEW new, new = [stack EXCEPT ![Len(stack)].todo = Tail(@)]
  PROVE  /\ new \in Seq(Frames) /\ Len(new) = Len(stack) /\ DOMAIN new = 1..Len(stack)
         /\ \A i \in 1..Len(stack) : new[i].read = TRUE /\ new[i].found = stack[i].found
         /\ Head(Top.todo) \in Linked
<1> DEFINE n == Len(stack)
<1>1. /\ n \in 1..MaxDepth /\ DOMAIN stack = 1..n /\ \A i \in 1..n : stack[i] \in Frames
      /\ Top = stack[n] /\ Top \in Frames
  BY TopIsFrame
<1>2. Top.todo \in Seq(Linked) /\ Tail(Top.todo) \in Seq(Linked) /\ Head(Top.todo) \in Linked
  <2>1. Top.todo \in Seq(Linked)
    BY <1>1 DEF Frames
  <2> QED
    BY <2>1, HeadTailProperties
<1>3. stack \in Seq(Frames)
  BY DEF DiscInv, DiscoveryTypeOK
<1> DEFINE top == [Top EXCEPT !.todo = Tail(Top.todo)]
<1>4. new = [stack EXCEPT ![n] = top]
  BY <1>1
<1>5. top \in Frames /\ top.read = Top.read /\ top.found = Top.found
  BY <1>1, <1>2 DEF Frames
<1> HIDE DEF top
<1>6. \A i \in 1..n : stack[i].read \in BOOLEAN
  BY <1>1 DEF Frames
<1>7. \A i \in 1..n : i # n => stack[i].read = TRUE
  BY <1>1, <1>6 DEF DiscInv, Nested
<1> HIDE DEF n
<1>8. new \in Seq(Frames) /\ Len(new) = n /\ DOMAIN new = 1..n
  <2>1. n \in 1..Len(stack) /\ Len(stack) = n
    BY <1>1 DEF n
  <2> QED
    <3>1. [stack EXCEPT ![n] = top] \in Seq(Frames) /\ Len([stack EXCEPT ![n] = top]) = Len(stack)
      BY <1>3, <1>5, <2>1, ExceptSeq
    <3>2. new \in Seq(Frames) /\ Len(new) = n
      BY <1>4, <2>1, <3>1
    <3>3. DOMAIN new = 1..n
      BY <3>2
    <3> QED
      BY <3>2, <3>3
<1>9. new[n] = top /\ \A i \in 1..n : i # n => new[i] = stack[i]
  BY <1>1, <1>4
<1>10. Top.read = TRUE
  BY <1>1, <1>6
<1>11. \A i \in 1..n : new[i].read = TRUE /\ new[i].found = stack[i].found
  BY <1>1, <1>5, <1>7, <1>9, <1>10
<1> QED
  BY <1>2, <1>8, <1>11 DEF n

LEMMA DescendKeeps == ASSUME DiscInv, Descend PROVE DiscInv'
<1> DEFINE n == Len(stack)
           new == [stack EXCEPT ![Len(stack)].todo = Tail(@)]
           host == Origin(Head(Top.todo))
<1>1. /\ n \in 1..MaxDepth /\ DOMAIN stack = 1..n /\ phase = "sitemaps" /\ n < MaxDepth /\ MaxDepth \in Nat
      /\ Top.read /\ Top.todo # <<>>
  BY TopIsFrame, DiscoveryAssumption DEF Descend
<1>2. /\ stack' = Append(new, Frame(host)) /\ asked' = asked + 1
      /\ UNCHANGED <<base, options, site, phase, located, offered, returned, open>>
  BY DEF Descend
<1>3. /\ new \in Seq(Frames) /\ Len(new) = n /\ DOMAIN new = 1..n
      /\ \A i \in 1..n : new[i].read = TRUE /\ new[i].found = stack[i].found
      /\ Head(Top.todo) \in Linked
  BY <1>1, TailKeeps
<1>4. host \in Hosts /\ Frame(host) \in Frames
  BY <1>3, OriginIsHost, FrameIsTyped
<1>5. Frame(host).found = <<>>
  BY DEF Frame
<1> HIDE DEF n, new, host
<1>6. /\ stack' \in Seq(Frames) /\ Len(stack') = n + 1 /\ DOMAIN stack' = 1..(n + 1)
      /\ stack'[n + 1] = Frame(host) /\ \A i \in 1..n : stack'[i] = new[i]
  <2>1. /\ Append(new, Frame(host)) \in Seq(Frames) /\ Len(Append(new, Frame(host))) = n + 1
        /\ Append(new, Frame(host))[n + 1] = Frame(host)
        /\ \A i \in 1..n : Append(new, Frame(host))[i] = new[i]
    BY <1>3, <1>4, AppendProperties
  <2>2. DOMAIN stack' = 1..Len(stack')
    BY <1>2, <2>1
  <2> QED
    BY <1>2, <2>1, <2>2
<1>7. DiscoveryTypeOK'
  <2>1. asked' \in Nat
    BY <1>2, <1>4 DEF DiscInv, DiscoveryTypeOK
  <2>2. Len(stack') <= MaxDepth
    BY <1>1, <1>6
  <2> QED
    BY <1>2, <1>6, <2>1, <2>2 DEF DiscInv, DiscoveryTypeOK
<1>8. Nested'
  <2>1. stack' # <<>> /\ phase' = "sitemaps"
    BY <1>1, <1>2, <1>6
  <2>2. ASSUME NEW i \in 1..(n + 1), ~stack'[i].read PROVE i = n + 1 /\ stack'[i].found = <<>>
    <3>1. i \notin 1..n
      BY <1>3, <1>6, <2>2
    <3>2. i = n + 1
      BY <1>1, <3>1
    <3> QED
      BY <1>5, <1>6, <3>2
  <2> QED
    BY <1>6, <2>1, <2>2 DEF Nested
<1>9. Gathered'
  <2>1. \A i \in 1..n : i \in 1..(n + 1) /\ stack'[i].found = stack[i].found
    BY <1>1, <1>3, <1>6
  <2> QED
    BY <1>1, <1>2, <1>6, <2>1 DEF DiscInv, Gathered
<1> QED
  BY <1>1, <1>2, <1>7, <1>8, <1>9 DEF DiscInv, Selected, OnlyABrowserIsLeft, Ended

LEMMA TooDeepKeeps == ASSUME DiscInv, TooDeep PROVE DiscInv'
<1>1. phase = "sitemaps" /\ Top.read /\ Top.todo # <<>> /\ UNCHANGED <<base, options, site, asked, located, returned, open>>
  BY DEF TooDeep
<1>2. CASE Return(Top)
  BY <1>1, <1>2, ReturnKeeps
<1>3. CASE stack' = [stack EXCEPT ![Len(stack)].todo = Tail(@)] /\ UNCHANGED <<phase, offered>>
  <2> DEFINE n == Len(stack)
  <2>1. n \in 1..MaxDepth /\ DOMAIN stack = 1..n /\ MaxDepth \in Nat
    BY <1>1, TopIsFrame, DiscoveryAssumption
  <2>2. /\ stack' \in Seq(Frames) /\ Len(stack') = n /\ DOMAIN stack' = 1..n
        /\ \A i \in 1..n : stack'[i].read = TRUE /\ stack'[i].found = stack[i].found
    BY <1>1, <1>3, TailKeeps
  <2> HIDE DEF n
  <2>3. DiscoveryTypeOK'
    <3>1. Len(stack') <= MaxDepth
      BY <2>1, <2>2
    <3> QED
      BY <1>1, <1>3, <2>2, <3>1 DEF DiscInv, DiscoveryTypeOK
  <2>4. Nested'
    <3>1. stack' # <<>> /\ phase' = "sitemaps"
      BY <1>1, <1>3, <2>1, <2>2
    <3> QED
      BY <2>2, <3>1 DEF Nested
  <2>5. Gathered'
    BY <1>1, <1>3, <2>1, <2>2 DEF DiscInv, Gathered
  <2> QED
    BY <1>1, <1>3, <2>3, <2>4, <2>5 DEF DiscInv, Selected, OnlyABrowserIsLeft, Ended
<1> QED
  BY <1>2, <1>3 DEF TooDeep

LEMMA FinishKeeps ==
  ASSUME DiscInv, phase \in {"homepage", "rendering"}, NEW urls \in Seq(Offers), Listed(offered) \subseteq Listed(urls),
         Finish(urls), UNCHANGED <<base, options, site, stack, asked, located>>
  PROVE  DiscInv'
<1> DEFINE ranked == Rank(Deduplicate(Eligible(urls)))
           pages == SubSeq(ranked, 1, IF Len(ranked) > MaxPages THEN MaxPages ELSE Len(ranked))
<1>1. /\ phase' = "done" /\ offered' = urls /\ returned' = pages /\ open' = open \ {"client"}
  BY DEF Finish
<1>2. stack = <<>> /\ options \in Options
  BY DEF DiscInv, DiscoveryTypeOK, Nested
<1>3. pages \in Seq(Offers) /\ Len(pages) <= MaxPages /\ Wins(pages, Of(urls)) /\ Outranks(pages, Of(urls))
  BY <1>2, TruncatedIsBest
<1> HIDE DEF pages
<1>4. Candidates' = Of(urls)
  BY <1>1 DEF Candidates, Of, IsSameDomain
<1>5. Selected'
  <2>1. Wins(returned, Candidates)'
    BY <1>1, <1>3, <1>4 DEF Wins
  <2>2. Outranks(returned, Candidates)'
    BY <1>1, <1>3, <1>4 DEF Outranks
  <2> QED
    BY <2>1, <2>2 DEF Selected
<1>6. DiscoveryTypeOK'
  BY <1>1, <1>3 DEF DiscInv, DiscoveryTypeOK, Ended
<1>7. Nested' /\ Gathered'
  BY <1>1, <1>2 DEF DiscInv, Nested, Gathered
<1>8. OnlyABrowserIsLeft'
  BY <1>1 DEF DiscInv, DiscoveryTypeOK, OnlyABrowserIsLeft
<1> QED
  BY <1>5, <1>6, <1>7, <1>8 DEF DiscInv

LEMMA HomepageKeeps ==
  ASSUME DiscInv, HomepageFails \/ HomepageAnswers \/ HomepageRendered
  PROVE  DiscInv'
<1>1. /\ phase \in {"homepage", "rendering"} /\ UNCHANGED <<base, options, site, stack, asked, located>>
      /\ offered \in Seq(Offers)
  BY DEF HomepageFails, HomepageAnswers, HomepageRendered, DiscInv, DiscoveryTypeOK
<1>2. CASE HomepageFails
  <2>1. Finish(offered)
    BY <1>2 DEF HomepageFails
  <2> QED
    BY <1>1, <2>1, FinishKeeps
<1>3. CASE HomepageAnswers \/ HomepageRendered
  <2>1. PICK page \in Pages : Finish(offered \o Found(page))
    BY <1>3 DEF HomepageAnswers, HomepageRendered
  <2>2. Found(page) \in Seq(Offers)
    BY FoundIsTyped
  <2>3. offered \o Found(page) \in Seq(Offers) /\ Listed(offered) \subseteq Listed(offered \o Found(page))
    BY <1>1, <2>2, ListedTogether
  <2> QED
    BY <1>1, <2>1, <2>3, FinishKeeps
<1> QED
  BY <1>2, <1>3

LEMMA RenderingKeeps == ASSUME DiscInv, HomepageNeedsRendering PROVE DiscInv'
<1>1. /\ phase = "homepage" /\ phase' = "rendering" /\ open' \in {open, open \cup {"browser"}}
      /\ UNCHANGED <<base, options, site, stack, asked, located, offered, returned>>
  BY DEF HomepageNeedsRendering
<1>2. DiscoveryTypeOK'
  BY <1>1 DEF DiscInv, DiscoveryTypeOK
<1>3. Nested' /\ Gathered'
  BY <1>1 DEF DiscInv, Nested, Gathered
<1> QED
  BY <1>1, <1>2, <1>3 DEF DiscInv, Selected, OnlyABrowserIsLeft, Ended

LEMMA CancelledKeeps == ASSUME DiscInv, Cancelled PROVE DiscInv'
<1>1. /\ phase' = "cancelled" /\ stack' = <<>> /\ open' = open \ {"client"}
      /\ UNCHANGED <<base, options, site, asked, located, offered, returned>>
  BY DEF Cancelled
<1>2. DiscoveryTypeOK'
  <2>1. <<>> \in Seq(Frames) /\ Len(<<>>) <= MaxDepth
    BY DiscoveryAssumption
  <2> QED
    BY <1>1, <2>1 DEF DiscInv, DiscoveryTypeOK, Ended
<1>3. Nested' /\ Gathered' /\ Selected'
  BY <1>1 DEF Nested, Gathered, Selected
<1>4. OnlyABrowserIsLeft'
  BY <1>1 DEF DiscInv, DiscoveryTypeOK, OnlyABrowserIsLeft
<1> QED
  BY <1>2, <1>3, <1>4 DEF DiscInv

LEMMA DiscStutter == ASSUME DiscInv, UNCHANGED discovery PROVE DiscInv'
<1>1. DiscoveryTypeOK'
  BY DEF DiscInv, DiscoveryTypeOK, discovery
<1>2. Nested' /\ Gathered' /\ OnlyABrowserIsLeft'
  BY DEF DiscInv, Nested, Gathered, OnlyABrowserIsLeft, discovery
<1>3. Selected'
  <2>1. Candidates' = Candidates /\ returned' = returned /\ phase' = phase
    BY DEF discovery, Candidates, IsSameDomain
  <2>2. ASSUME phase = "done" PROVE Wins(returned, Candidates)' /\ Outranks(returned, Candidates)'
    <3>1. Wins(returned, Candidates)'
      BY <2>1, <2>2 DEF DiscInv, Selected, Wins
    <3>2. Outranks(returned, Candidates)'
      BY <2>1, <2>2 DEF DiscInv, Selected, Outranks
    <3> QED
      BY <3>1, <3>2
  <2> QED
    BY <2>1, <2>2 DEF Selected
<1> QED
  BY <1>1, <1>2, <1>3 DEF DiscInv

LEMMA DiscInvariance == DiscoverySpec => []DiscInv
<1>1. ASSUME DiscInv, [DiscoveryNext]_discovery PROVE DiscInv'
  <2>1. CASE Begin
    BY <1>1, <2>1, BeginKeeps
  <2>2. CASE FetchRobots \/ SkipRobots
    BY <1>1, <2>2, RobotsKeeps
  <2>3. CASE SitemapAnswers
    BY <1>1, <2>3, SitemapAnswersKeeps
  <2>4. CASE SitemapFails \/ SitemapEnds
    BY <1>1, <2>4, ReturnKeeps DEF SitemapFails, SitemapEnds
  <2>5. CASE Descend
    BY <1>1, <2>5, DescendKeeps
  <2>6. CASE TooDeep
    BY <1>1, <2>6, TooDeepKeeps
  <2>7. CASE HomepageFails \/ HomepageAnswers \/ HomepageRendered
    BY <1>1, <2>7, HomepageKeeps
  <2>8. CASE HomepageNeedsRendering
    BY <1>1, <2>8, RenderingKeeps
  <2>9. CASE Cancelled
    BY <1>1, <2>9, CancelledKeeps
  <2>10. CASE Over \/ UNCHANGED discovery
    BY <1>1, <2>10, DiscStutter DEF Over
  <2> QED
    BY <1>1, <2>1, <2>2, <2>3, <2>4, <2>5, <2>6, <2>7, <2>8, <2>9, <2>10 DEF DiscoveryNext
<1> QED
  BY <1>1, DiscInit, PTL DEF DiscoverySpec

-----------------------------------------------------------------------------
(* Requests.  What the frames on the stack may still request, together     *)
(* with what was requested, never exceeds what the levels allow: a frame   *)
(* that asks for one more sitemap gives up its share for that level.       *)

(* What the frame at a height of the stack may still request. *)
Owes(frame, height) == (IF frame.read THEN Len(frame.todo) ELSE Widest) * Requests[MaxDepth - height]

Covered(n, frames) ==
  \E owed \in [0..Len(frames) -> Nat] :
    /\ n + owed[Len(frames)] <= Requests[MaxDepth]
    /\ \A i \in 1..Len(frames) : owed[i - 1] + Owes(frames[i], i) <= owed[i]

ReqInv == Covered(asked, stack) /\ (phase \in {"new", "robots"} => asked = 0)

LEMMA WidestIsWide == Widest \in Nat /\ \A d \in Sitemaps : Len(d.subs) <= Widest
<1>1. PICK widest \in Sitemaps : \A d \in Sitemaps : Len(d.subs) <= Len(widest.subs)
  BY DiscoveryAssumption
<1>2. \A d \in Sitemaps : Len(d.subs) \in Nat
  <2>1. \A d \in Sitemaps : d.subs \in Seq(Urls)
    BY DiscoveryAssumption
  <2> QED
    BY <2>1
<1>3. \E n \in {Len(d.subs) : d \in Sitemaps} : \A d \in Sitemaps : Len(d.subs) <= n
  BY <1>1
<1>4. Widest \in {Len(d.subs) : d \in Sitemaps} /\ \A d \in Sitemaps : Len(d.subs) <= Widest
  BY <1>3 DEF Widest
<1> QED
  BY <1>2, <1>4

LEMMA RequestsAreGiven ==
  /\ Requests \in [0..MaxDepth -> Nat] /\ Requests[0] = 0
  /\ \A d \in 1..MaxDepth : Requests[d] = 1 + Widest * Requests[d - 1]
<1> DEFINE n == MaxDepth
           step == [a \in Nat \X (1..n) |-> 1 + Widest * a[1]]
           Kept(r) == [d \in 0..n |-> IF d = 0 THEN 0 ELSE 1 + Widest * r[d - 1]]
<1>1. n \in Nat
  BY DiscoveryAssumption
<1>2. \A m \in Nat : 1 + Widest * m \in Nat
  BY WidestIsWide
<1>3. step \in [Nat \X (1..n) -> Nat]
  BY <1>2
<1>4. \A m \in Nat, d \in 1..n : step[<<m, d>>] = 1 + Widest * m
  OBVIOUS
<1> HIDE DEF step, n
<1>5. PICK f \in [0..n -> Nat] : f[0] = 0 /\ \A d \in 1..n : f[d] = step[<<f[d - 1], d>>]
  <2>1. Iterates(step, n, Nat, 0)
    BY <1>1, <1>3, Iteration
  <2> QED
    BY <2>1 DEF Iterates
<1>6. ASSUME NEW d \in 1..n PROVE f[d] = 1 + Widest * f[d - 1]
  <2>1. d - 1 \in 0..n
    BY <1>1
  <2>2. f[d - 1] \in Nat
    BY <2>1
  <2> QED
    BY <1>4, <1>5, <2>2
<1>7. f = Kept(f)
  <2>1. ASSUME NEW d \in 0..n PROVE f[d] = IF d = 0 THEN 0 ELSE 1 + Widest * f[d - 1]
    <3>1. CASE d = 0
      BY <1>5, <3>1
    <3>2. CASE d # 0
      <4>1. d \in 1..n
        BY <1>1, <3>2
      <4>2. f[d] = 1 + Widest * f[d - 1]
        BY <1>6, <4>1
      <4> QED
        BY <3>2, <4>2
    <3> QED
      BY <3>1, <3>2
  <2>2. f = [d \in 0..n |-> f[d]]
    OBVIOUS
  <2> QED
    BY <2>1, <2>2
<1>8. Requests = CHOOSE r : r = Kept(r)
  BY DEF Requests, n
<1>9. Requests = Kept(Requests)
  <2> HIDE DEF Kept
  <2> QED
    BY <1>7, <1>8
<1> DEFINE R == Requests
<1> HIDE DEF R
<1>10. R = Kept(R)
  BY <1>9 DEF R
<1>11. R[0] = 0 /\ \A d \in 1..n : R[d] = 1 + Widest * R[d - 1]
  <2>1. R[0] = 0
    BY <1>1, <1>10
  <2>2. ASSUME NEW d \in 1..n PROVE R[d] = 1 + Widest * R[d - 1]
    <3>1. d \in 0..n /\ d # 0
      BY <1>1
    <3> QED
      BY <1>10, <3>1
  <2> QED
    BY <2>1, <2>2
<1>12. DOMAIN R = 0..n /\ R = [d \in 0..n |-> R[d]]
  <2>1. DOMAIN Kept(R) = 0..n /\ Kept(R) = [d \in 0..n |-> Kept(R)[d]]
    OBVIOUS
  <2> HIDE DEF Kept
  <2> QED
    BY <1>10, <2>1
<1> HIDE DEF Kept
<1>13. \A d \in 0..n : R[d] \in Nat
  <2> DEFINE T == {m \in Nat : m <= n => R[m] \in Nat}
  <2>1. 0 \in T
    BY <1>11
  <2>2. ASSUME NEW m \in Nat, m \in T PROVE m + 1 \in T
    <3> SUFFICES ASSUME m + 1 <= n PROVE R[m + 1] \in Nat
      OBVIOUS
    <3>1. m + 1 \in 1..n /\ (m + 1) - 1 = m /\ R[m] \in Nat
      BY <1>1, <2>2
    <3> HIDE DEF T
    <3> QED
      BY <1>2, <1>11, <3>1
  <2>3. ASSUME NEW d \in 0..n PROVE d \in T
    <3>1. d \in Nat
      BY <1>1
    <3> HIDE DEF T
    <3> QED
      BY <2>1, <2>2, <3>1, Induction
  <2> QED
    BY <1>1, <2>3
<1> QED
  BY <1>11, <1>12, <1>13 DEF R, n

LEMMA Products ==
  ASSUME NEW a \in Nat, NEW b \in Nat, NEW c \in Nat
  PROVE  /\ a * c \in Nat
         /\ a <= b => a * c <= b * c
         /\ a >= 1 => (a - 1) * c + c = a * c
<1>1. a * c \in Nat /\ (a - 1) * c + c = a * c
  OBVIOUS
<1>2. ASSUME a <= b PROVE a * c <= b * c
  <2> DEFINE k == b - a
  <2>1. k \in Nat /\ b = a + k
    BY <1>2
  <2> HIDE DEF k
  <2>2. k * c \in Nat /\ b * c = a * c + k * c
    BY <2>1
  <2> QED
    BY <1>1, <2>2
<1> QED
  BY <1>1, <1>2

LEMMA OwesIsCounted ==
  ASSUME NEW frame \in Frames, NEW height \in 1..MaxDepth
  PROVE  Owes(frame, height) \in Nat
<1>1. MaxDepth - height \in 0..MaxDepth
  BY DiscoveryAssumption
<1>2. Requests[MaxDepth - height] \in Nat
  BY <1>1, RequestsAreGiven
<1>3. Len(frame.todo) \in Nat
  BY DEF Frames
<1>4. (IF frame.read THEN Len(frame.todo) ELSE Widest) \in Nat
  BY <1>3, WidestIsWide
<1> HIDE DEF Frames
<1> QED
  BY <1>2, <1>4, Products DEF Owes

LEMMA NothingOwed ==
  ASSUME NEW n \in Nat, n <= Requests[MaxDepth]
  PROVE  Covered(n, <<>>)
<1> DEFINE owed == [i \in 0..0 |-> 0]
<1>1. owed \in [0..0 -> Nat] /\ owed[0] = 0
  OBVIOUS
<1>2. Len(<<>>) = 0 /\ MaxDepth \in 0..MaxDepth
  BY DiscoveryAssumption
<1>3. Requests[MaxDepth] \in Nat
  BY <1>2, RequestsAreGiven
<1> HIDE DEF owed
<1>4. n + owed[Len(<<>>)] <= Requests[MaxDepth]
  BY <1>1, <1>2, <1>3
<1> QED
  BY <1>1, <1>2, <1>4 DEF Covered

LEMMA CoveredIsBounded ==
  ASSUME NEW n \in Nat, NEW frames \in Seq(Frames), Covered(n, frames)
  PROVE  n <= Requests[MaxDepth]
<1>1. PICK owed \in [0..Len(frames) -> Nat] : n + owed[Len(frames)] <= Requests[MaxDepth]
  BY DEF Covered
<1>2. Len(frames) \in 0..Len(frames) /\ MaxDepth \in 0..MaxDepth
  BY DiscoveryAssumption
<1>3. owed[Len(frames)] \in Nat /\ Requests[MaxDepth] \in Nat
  BY <1>2, RequestsAreGiven
<1> QED
  BY <1>1, <1>3

(* The stack loses its last frame at most, and no frame owes more. *)
LEMMA StillCovered ==
  ASSUME NEW n \in Nat, NEW old \in Seq(Frames), NEW new \in Seq(Frames), Covered(n, old),
         Len(old) <= MaxDepth, Len(new) = Len(old) \/ Len(new) = Len(old) - 1,
         \A i \in 1..Len(new) : Owes(new[i], i) <= Owes(old[i], i)
  PROVE  Covered(n, new)
<1> DEFINE k == Len(old)
           m == Len(new)
<1>1. k \in Nat /\ m \in Nat /\ k <= MaxDepth /\ (m = k \/ m = k - 1) /\ MaxDepth \in Nat
  BY DiscoveryAssumption
<1>2. PICK owed \in [0..k -> Nat] :
        /\ n + owed[k] <= Requests[MaxDepth]
        /\ \A i \in 1..k : owed[i - 1] + Owes(old[i], i) <= owed[i]
  BY DEF Covered
<1>3. \A i \in 1..k : old[i] \in Frames
  OBVIOUS
<1>4. \A i \in 1..m : new[i] \in Frames
  OBVIOUS
<1>5. \A i \in 1..m : Owes(new[i], i) <= Owes(old[i], i)
  OBVIOUS
<1> DEFINE less == [i \in 0..m |-> owed[i]]
<1> HIDE DEF k, m
<1>6. less \in [0..m -> Nat] /\ \A i \in 0..m : less[i] = owed[i]
  BY <1>1
<1> HIDE DEF less
<1>7. owed[m] <= owed[k]
  <2>1. CASE m = k
    <3>1. owed[k] \in Nat
      BY <1>1
    <3> QED
      BY <2>1, <3>1
  <2>2. CASE m = k - 1
    <3>1. k \in 1..k /\ k \in 1..MaxDepth /\ k \in 0..k /\ k - 1 \in 0..k
      BY <1>1, <2>2
    <3>2. Owes(old[k], k) \in Nat
      BY <1>3, <3>1, OwesIsCounted
    <3>3. owed[k - 1] + Owes(old[k], k) <= owed[k] /\ owed[k - 1] \in Nat /\ owed[k] \in Nat
      BY <1>2, <3>1
    <3> QED
      BY <2>2, <3>2, <3>3
  <2> QED
    BY <1>1, <2>1, <2>2
<1>8. n + less[m] <= Requests[MaxDepth]
  <2>1. m \in 0..m /\ m \in 0..k /\ k \in 0..k /\ MaxDepth \in 0..MaxDepth
    BY <1>1
  <2>2. owed[m] \in Nat /\ owed[k] \in Nat /\ Requests[MaxDepth] \in Nat /\ less[m] = owed[m]
    BY <1>6, <2>1, RequestsAreGiven
  <2> QED
    BY <1>2, <1>7, <2>2
<1>9. ASSUME NEW i \in 1..m PROVE less[i - 1] + Owes(new[i], i) <= less[i]
  <2>1. i \in 1..k /\ i \in 1..MaxDepth /\ i \in 0..m /\ i - 1 \in 0..m /\ i \in 0..k /\ i - 1 \in 0..k
    BY <1>1
  <2>2. Owes(old[i], i) \in Nat /\ Owes(new[i], i) \in Nat
    BY <1>3, <1>4, <2>1, OwesIsCounted
  <2>3. owed[i - 1] \in Nat /\ owed[i] \in Nat /\ less[i] = owed[i] /\ less[i - 1] = owed[i - 1]
    BY <1>6, <2>1
  <2>4. owed[i - 1] + Owes(old[i], i) <= owed[i] /\ Owes(new[i], i) <= Owes(old[i], i)
    BY <1>2, <1>5, <2>1
  <2> QED
    BY <2>2, <2>3, <2>4
<1> QED
  BY <1>6, <1>8, <1>9 DEF Covered, m

LEMMA Shares ==
  ASSUME NEW a \in Nat, NEW b \in Nat, NEW r \in Nat, NEW x \in Nat, NEW y \in Nat, NEW z \in Nat,
         x + r = z, r = 1 + y, a + z <= b
  PROVE  b - 1 \in Nat /\ b - r \in Nat /\ (b - r) + y <= b - 1 /\ a + x <= b - r
OBVIOUS

(* A frame gives up the share of a sitemap, for which another is made. *)
LEMMA OneMoreCovered ==
  ASSUME NEW n \in Nat, NEW old \in Seq(Frames), NEW new \in Seq(Frames), Covered(n, old), NEW h \in Hosts,
         Len(new) = Len(old), Len(old) \in 1..MaxDepth, Len(old) < MaxDepth,
         \A i \in 1..Len(old) : i # Len(old) => new[i] = old[i],
         Owes(new[Len(old)], Len(old)) + Requests[MaxDepth - Len(old)] = Owes(old[Len(old)], Len(old))
  PROVE  Covered(n + 1, Append(new, Frame(h)))
<1> DEFINE k == Len(old)
           all == Append(new, Frame(h))
           r == Requests[MaxDepth - k]
<1>1. k \in 1..MaxDepth /\ k < MaxDepth /\ k \in Nat /\ MaxDepth \in Nat
  BY DiscoveryAssumption
<1>2. PICK owed \in [0..k -> Nat] :
        /\ n + owed[k] <= Requests[MaxDepth]
        /\ \A i \in 1..k : owed[i - 1] + Owes(old[i], i) <= owed[i]
  BY DEF Covered
<1>3. Owes(new[k], k) + r = Owes(old[k], k)
  OBVIOUS
<1>4. \A i \in 1..k : old[i] \in Frames /\ new[i] \in Frames /\ (i # k => new[i] = old[i])
  OBVIOUS
<1>5. Len(all) = k + 1 /\ all[k + 1] = Frame(h) /\ \A i \in 1..k : all[i] = new[i]
  BY FrameIsTyped, AppendProperties
<1> HIDE DEF k, all
<1>6. r \in Nat /\ r = 1 + Owes(Frame(h), k + 1)
  <2>1. MaxDepth - k \in 1..MaxDepth /\ (MaxDepth - k) - 1 = MaxDepth - (k + 1) /\ MaxDepth - k \in 0..MaxDepth
    BY <1>1
  <2>2. r \in Nat /\ r = 1 + Widest * Requests[MaxDepth - (k + 1)]
    BY <2>1, RequestsAreGiven
  <2>3. Frame(h).read = FALSE
    BY DEF Frame
  <2>4. Owes(Frame(h), k + 1) = Widest * Requests[MaxDepth - (k + 1)]
    BY <2>3 DEF Owes
  <2> QED
    BY <2>2, <2>4
<1> HIDE DEF r
<1>7. Owes(old[k], k) \in Nat /\ Owes(new[k], k) \in Nat /\ Owes(Frame(h), k + 1) \in Nat
  <2>1. k \in 1..k /\ k \in 1..MaxDepth /\ k + 1 \in 1..MaxDepth
    BY <1>1
  <2> QED
    BY <1>4, <2>1, FrameIsTyped, OwesIsCounted
<1>8. /\ owed[k - 1] \in Nat /\ owed[k] \in Nat /\ owed[k - 1] + Owes(old[k], k) <= owed[k]
      /\ Requests[MaxDepth] \in Nat
  <2>1. k \in 1..k /\ k \in 0..k /\ k - 1 \in 0..k /\ MaxDepth \in 0..MaxDepth
    BY <1>1
  <2> QED
    BY <1>2, <2>1, RequestsAreGiven
<1> DEFINE due == [i \in 0..(k + 1) |-> IF i = k + 1 THEN owed[k] - 1 ELSE IF i = k THEN owed[k] - r ELSE owed[i]]
<1>9. /\ owed[k] - 1 \in Nat /\ owed[k] - r \in Nat
      /\ (owed[k] - r) + Owes(Frame(h), k + 1) <= owed[k] - 1
      /\ owed[k - 1] + Owes(new[k], k) <= owed[k] - r
  BY <1>3, <1>6, <1>7, <1>8, Shares
<1>10. due[k + 1] = owed[k] - 1 /\ due[k] = owed[k] - r /\ \A i \in 0..(k - 1) : due[i] = owed[i]
  BY <1>1
<1>11. due \in [0..(k + 1) -> Nat]
  <2>1. ASSUME NEW i \in 0..(k + 1), i # k + 1 PROVE owed[i] \in Nat
    <3>1. i \in 0..k
      BY <1>1, <2>1
    <3> QED
      BY <3>1
  <2> QED
    BY <1>9, <2>1
<1> HIDE DEF due
<1>12. (n + 1) + due[k + 1] <= Requests[MaxDepth]
  BY <1>2, <1>8, <1>9, <1>10
<1>13. ASSUME NEW i \in 1..(k + 1) PROVE due[i - 1] + Owes(all[i], i) <= due[i]
  <2>1. CASE i = k + 1
    <3>1. i - 1 = k /\ all[i] = Frame(h)
      BY <1>1, <1>5, <2>1
    <3> QED
      BY <1>9, <1>10, <2>1, <3>1
  <2>2. CASE i = k
    <3>1. i - 1 \in 0..(k - 1) /\ i \in 1..k
      BY <1>1, <2>2
    <3>2. all[i] = new[k] /\ due[i - 1] = owed[k - 1]
      BY <1>5, <1>10, <2>2, <3>1
    <3>3. due[i - 1] + Owes(all[i], i) = owed[k - 1] + Owes(new[k], k)
      BY <2>2, <3>2
    <3>4. due[i] = owed[k] - r
      BY <1>10, <2>2
    <3> QED
      BY <1>9, <3>3, <3>4
  <2>3. CASE i # k + 1 /\ i # k
    <3>1. i \in 1..k /\ i \in 0..(k - 1) /\ i - 1 \in 0..(k - 1)
      BY <1>1, <2>3
    <3>2. all[i] = old[i] /\ due[i] = owed[i] /\ due[i - 1] = owed[i - 1]
      BY <1>4, <1>5, <1>10, <2>3, <3>1
    <3> QED
      BY <1>2, <3>1, <3>2
  <2> QED
    BY <2>1, <2>2, <2>3
<1> QED
  BY <1>5, <1>11, <1>12, <1>13 DEF Covered, all

LEMMA ReturnPays ==
  ASSUME DiscInv, DiscInv', ReqInv, phase = "sitemaps", Return(Top), asked' = asked
  PROVE  ReqInv'
<1> DEFINE n == Len(stack)
           below == Front(stack)
<1>1. /\ n \in 1..MaxDepth /\ DOMAIN stack = 1..n /\ \A i \in 1..n : stack[i] \in Frames
      /\ MaxDepth \in Nat /\ asked \in Nat
  BY TopIsFrame, DiscoveryAssumption DEF DiscInv, DiscoveryTypeOK
<1>2. stack \in Seq(Frames) /\ stack' \in Seq(Frames) /\ Covered(asked, stack)
  BY DEF DiscInv, DiscoveryTypeOK, ReqInv
<1> HIDE DEF n
<1>3. /\ below \in Seq(Frames) /\ Len(below) = n - 1 /\ DOMAIN below = 1..(n - 1)
      /\ \A i \in 1..(n - 1) : below[i] = stack[i]
  <2>1. n - 1 \in Int /\ \A i \in 1..(n - 1) : stack[i] \in Frames
    BY <1>1
  <2>2. /\ SubSeq(stack, 1, n - 1) \in Seq(Frames) /\ Len(SubSeq(stack, 1, n - 1)) = n - 1
        /\ \A i \in 1..(n - 1) : SubSeq(stack, 1, n - 1)[i] = stack[1 + i - 1]
    BY <1>1, <2>1, SubSeqProperties
  <2>3. \A i \in 1..(n - 1) : 1 + i - 1 = i
    BY <1>1
  <2>4. below = SubSeq(stack, 1, n - 1)
    BY DEF Front, n
  <2> HIDE DEF below
  <2> QED
    BY <2>2, <2>3, <2>4
<1>4. CASE below # <<>>
  <2> DEFINE k == n - 1
  <2>1. k \in 1..(n - 1) /\ k \in 1..n /\ Len(below) = k
    <3>1. Len(below) # 0
      BY <1>3, <1>4
    <3> QED
      BY <1>1, <1>3, <3>1
  <2>2. stack' = [below EXCEPT ![k].found = @ \o Top.found] /\ phase' = phase
    BY <1>3, <1>4 DEF Return
  <2> HIDE DEF below
  <2>3. Len(stack') = n - 1 /\ n - 1 \in Nat
    <3>1. DOMAIN stack' = 1..(n - 1)
      BY <1>3, <2>2
    <3>2. Len(stack') \in Nat /\ DOMAIN stack' = 1..Len(stack')
      BY <1>2
    <3>3. n - 1 \in Nat
      BY <1>1
    <3> QED
      BY <3>1, <3>2, <3>3
  <2>4. ASSUME NEW i \in 1..(n - 1) PROVE Owes(stack'[i], i) <= Owes(stack[i], i)
    <3>1. i \in 1..n /\ i \in 1..MaxDepth /\ below[i] = stack[i]
      BY <1>1, <1>3
    <3>2. stack'[i] = below[i] \/ stack'[i] = [below[i] EXCEPT !.found = @ \o Top.found]
      BY <1>3, <2>2
    <3>3. stack'[i].read = stack[i].read /\ stack'[i].todo = stack[i].todo
      BY <1>1, <3>1, <3>2 DEF Frames
    <3>4. Owes(stack'[i], i) = Owes(stack[i], i)
      BY <3>3 DEF Owes
    <3>5. Owes(stack[i], i) \in Nat
      BY <1>1, <3>1, OwesIsCounted
    <3> QED
      BY <3>4, <3>5
  <2>5. Covered(asked, stack')
    <3>1. Len(stack) = n /\ n <= MaxDepth
      BY <1>1 DEF n
    <3> QED
      BY <1>1, <1>2, <2>3, <2>4, <3>1, StillCovered
  <2> QED
    BY <2>2, <2>5 DEF ReqInv
<1>5. CASE below = <<>>
  <2>1. stack' = <<>> /\ phase' = "homepage"
    BY <1>5 DEF Return
  <2>2. asked <= Requests[MaxDepth]
    BY <1>1, <1>2, CoveredIsBounded
  <2>3. Covered(asked, <<>>)
    BY <1>1, <2>2, NothingOwed
  <2> QED
    BY <2>1, <2>3 DEF ReqInv
<1> QED
  BY <1>4, <1>5

LEMMA AnswersPay == ASSUME DiscInv, DiscInv', ReqInv, SitemapAnswers PROVE ReqInv'
<1> DEFINE n == Len(stack)
           document == site[Top.host]
           new == [Top EXCEPT !.read = TRUE, !.found = From("sitemap", document.locs), !.todo = document.subs]
<1>1. /\ n \in 1..MaxDepth /\ DOMAIN stack = 1..n /\ \A i \in 1..n : stack[i] \in Frames
      /\ Top = stack[n] /\ Top \in Frames /\ phase = "sitemaps" /\ ~Top.read
      /\ MaxDepth \in Nat
  BY TopIsFrame, DiscoveryAssumption DEF SitemapAnswers
<1>2. stack \in Seq(Frames) /\ stack' \in Seq(Frames) /\ Covered(asked, stack) /\ asked \in Nat
  BY DEF DiscInv, DiscoveryTypeOK, ReqInv
<1>3. stack' = [stack EXCEPT ![n] = new] /\ UNCHANGED <<asked, phase>>
  BY <1>1 DEF SitemapAnswers
<1>4. document \in Sitemaps /\ document.subs \in Seq(Linked)
  <2>1. document \in Sitemaps
    BY <1>1 DEF DiscInv, DiscoveryTypeOK, Frames
  <2> QED
    BY <2>1, LinkedIsListed
<1>5. Len(document.subs) \in Nat /\ Len(document.subs) <= Widest
  BY <1>4, WidestIsWide
<1> HIDE DEF n, document
<1>6. new.read = TRUE /\ new.todo = document.subs
  BY <1>1 DEF Frames
<1> HIDE DEF new
<1>7. Len(stack') = n /\ Len(stack) = n
  <2>1. DOMAIN stack' = 1..n
    BY <1>1, <1>3
  <2>2. Len(stack') \in Nat /\ DOMAIN stack' = 1..Len(stack')
    BY <1>2
  <2> QED
    BY <1>1, <2>1, <2>2 DEF n
<1>8. ASSUME NEW i \in 1..n PROVE Owes(stack'[i], i) <= Owes(stack[i], i)
  <2>1. i \in 1..MaxDepth /\ stack[i] \in Frames
    BY <1>1
  <2>2. CASE i = n
    <3>1. stack'[i] = new /\ stack[i] = Top
      BY <1>1, <1>3, <2>2
    <3>2. MaxDepth - i \in 0..MaxDepth
      BY <1>1, <2>1
    <3>3. Requests[MaxDepth - i] \in Nat
      BY <3>2, RequestsAreGiven
    <3>4. Len(document.subs) * Requests[MaxDepth - i] <= Widest * Requests[MaxDepth - i]
      BY <1>5, <3>3, WidestIsWide, Products
    <3>5. Owes(new, i) = Len(document.subs) * Requests[MaxDepth - i]
      BY <1>6 DEF Owes
    <3>6. Owes(Top, i) = Widest * Requests[MaxDepth - i]
      BY <1>1 DEF Owes
    <3> QED
      BY <3>1, <3>4, <3>5, <3>6
  <2>3. CASE i # n
    <3>1. stack'[i] = stack[i]
      BY <1>1, <1>3, <2>3
    <3>2. Owes(stack[i], i) \in Nat
      BY <2>1, OwesIsCounted
    <3> QED
      BY <3>1, <3>2
  <2> QED
    BY <2>2, <2>3
<1>9. Covered(asked, stack')
  <2>1. n <= MaxDepth
    BY <1>1
  <2> QED
    BY <1>2, <1>7, <1>8, <2>1, StillCovered
<1> QED
  BY <1>1, <1>3, <1>9 DEF ReqInv

(* The last frame takes its next sitemap: it owes less, by the share of one. *)
LEMMA TailPays ==
  ASSUME DiscInv, phase = "sitemaps", Top.read, Top.todo # <<>>,
         NEW new, new = [stack EXCEPT ![Len(stack)].todo = Tail(@)]
  PROVE  /\ \A i \in 1..Len(stack) : i # Len(stack) => new[i] = stack[i]
         /\ Owes(new[Len(stack)], Len(stack)) + Requests[MaxDepth - Len(stack)] = Owes(stack[Len(stack)], Len(stack))
         /\ Owes(new[Len(stack)], Len(stack)) <= Owes(stack[Len(stack)], Len(stack))
<1> DEFINE n == Len(stack)
           r == Requests[MaxDepth - n]
           l == Len(Top.todo)
           top == [Top EXCEPT !.todo = Tail(Top.todo)]
<1>1. /\ n \in 1..MaxDepth /\ DOMAIN stack = 1..n /\ Top = stack[n] /\ Top \in Frames /\ MaxDepth \in Nat
  BY TopIsFrame, DiscoveryAssumption
<1>2. l \in Nat /\ l >= 1 /\ Len(Tail(Top.todo)) = l - 1
  <2>1. Top.todo \in Seq(Linked)
    BY <1>1 DEF Frames
  <2> QED
    BY <2>1, HeadTailProperties
<1>3. r \in Nat
  <2>1. MaxDepth - n \in 0..MaxDepth
    BY <1>1
  <2> QED
    BY <2>1, RequestsAreGiven
<1>4. new = [stack EXCEPT ![n] = top]
  BY <1>1
<1>5. top.read = Top.read /\ top.todo = Tail(Top.todo)
  BY <1>1 DEF Frames
<1> HIDE DEF n, top
<1>6. new[n] = top /\ \A i \in 1..n : i # n => new[i] = stack[i]
  BY <1>1, <1>4
<1>7. Owes(new[n], n) = (l - 1) * r
  BY <1>2, <1>5, <1>6 DEF Owes
<1>8. Owes(stack[n], n) = l * r
  BY <1>1 DEF Owes
<1> HIDE DEF r, l
<1>9. l * r \in Nat /\ (l - 1) * r \in Nat /\ (l - 1) * r + r = l * r
  <2>1. l - 1 \in Nat
    BY <1>2
  <2> QED
    BY <1>2, <1>3, <2>1, Products
<1>10. (l - 1) * r <= l * r
  BY <1>3, <1>9
<1> QED
  BY <1>6, <1>7, <1>8, <1>9, <1>10 DEF n, r

LEMMA DescendPays == ASSUME DiscInv, DiscInv', ReqInv, Descend PROVE ReqInv'
<1> DEFINE new == [stack EXCEPT ![Len(stack)].todo = Tail(@)]
           host == Origin(Head(Top.todo))
<1>1. phase = "sitemaps" /\ Top.read /\ Top.todo # <<>> /\ Len(stack) < MaxDepth /\ Len(stack) \in 1..MaxDepth
  BY TopIsFrame DEF Descend
<1>2. stack' = Append(new, Frame(host)) /\ asked' = asked + 1 /\ phase' = phase
  BY DEF Descend
<1>3. new \in Seq(Frames) /\ Len(new) = Len(stack) /\ Head(Top.todo) \in Linked
  BY <1>1, TailKeeps
<1>4. host \in Hosts
  BY <1>3, OriginIsHost
<1>5. /\ \A i \in 1..Len(stack) : i # Len(stack) => new[i] = stack[i]
      /\ Owes(new[Len(stack)], Len(stack)) + Requests[MaxDepth - Len(stack)] = Owes(stack[Len(stack)], Len(stack))
  BY <1>1, TailPays
<1>6. stack \in Seq(Frames) /\ Covered(asked, stack) /\ asked \in Nat
  BY DEF DiscInv, DiscoveryTypeOK, ReqInv
<1> HIDE DEF new, host
<1>7. Covered(asked + 1, Append(new, Frame(host)))
  BY <1>1, <1>3, <1>4, <1>5, <1>6, OneMoreCovered
<1> QED
  BY <1>1, <1>2, <1>7 DEF ReqInv

LEMMA TooDeepPays == ASSUME DiscInv, DiscInv', ReqInv, TooDeep PROVE ReqInv'
<1>1. phase = "sitemaps" /\ Top.read /\ Top.todo # <<>> /\ asked' = asked
  BY DEF TooDeep
<1>2. CASE Return(Top)
  BY <1>1, <1>2, ReturnPays
<1>3. CASE stack' = [stack EXCEPT ![Len(stack)].todo = Tail(@)] /\ UNCHANGED <<phase, offered>>
  <2>1. /\ stack \in Seq(Frames) /\ Covered(asked, stack) /\ asked \in Nat /\ Len(stack) <= MaxDepth
        /\ Len(stack) \in 1..MaxDepth /\ \A i \in 1..Len(stack) : stack[i] \in Frames
    BY <1>1, TopIsFrame DEF DiscInv, DiscoveryTypeOK, ReqInv
  <2>2. stack' \in Seq(Frames) /\ Len(stack') = Len(stack)
    BY <1>1, <1>3, TailKeeps
  <2>3. /\ \A i \in 1..Len(stack) : i # Len(stack) => stack'[i] = stack[i]
        /\ Owes(stack'[Len(stack)], Len(stack)) <= Owes(stack[Len(stack)], Len(stack))
    BY <1>1, <1>3, TailPays
  <2>4. ASSUME NEW i \in 1..Len(stack) PROVE Owes(stack'[i], i) <= Owes(stack[i], i)
    <3>1. i \in 1..MaxDepth /\ stack[i] \in Frames
      BY <2>1, DiscoveryAssumption
    <3>2. Owes(stack[i], i) \in Nat
      BY <3>1, OwesIsCounted
    <3> QED
      BY <2>3, <3>2
  <2>5. Covered(asked, stack')
    BY <2>1, <2>2, <2>4, StillCovered
  <2> QED
    BY <1>1, <1>3, <2>5 DEF ReqInv
<1> QED
  BY <1>2, <1>3 DEF TooDeep

LEMMA RobotsPays == ASSUME DiscInv, DiscInv', ReqInv, FetchRobots \/ SkipRobots PROVE ReqInv'
<1>1. phase = "robots" /\ stack = <<>> /\ base \in Bases /\ asked = 0 /\ MaxDepth \in Nat /\ MaxDepth >= 1
  BY DiscoveryAssumption DEF DiscInv, DiscoveryTypeOK, Nested, ReqInv, FetchRobots, SkipRobots
<1>2. ToSitemaps
  BY DEF FetchRobots, SkipRobots
<1>3. CASE options.fetch_sitemap
  <2> DEFINE f == Frame(Origin(base))
  <2>1. phase' = "sitemaps" /\ stack' = <<f>> /\ asked' = 1
    BY <1>1, <1>2, <1>3 DEF ToSitemaps
  <2>2. f.read = FALSE
    BY DEF Frame
  <2> HIDE DEF f
  <2>3. Owes(f, 1) = Widest * Requests[MaxDepth - 1]
    BY <2>2 DEF Owes
  <2>4. MaxDepth \in 1..MaxDepth /\ MaxDepth \in 0..MaxDepth /\ MaxDepth - 1 \in 0..MaxDepth
    BY <1>1
  <2>5. Requests[MaxDepth] = 1 + Owes(f, 1) /\ Requests[MaxDepth] \in Nat
    BY <2>3, <2>4, RequestsAreGiven
  <2>6. Owes(f, 1) \in Nat
    <3>1. Requests[MaxDepth - 1] \in Nat
      BY <2>4, RequestsAreGiven
    <3> QED
      BY <2>3, <3>1, WidestIsWide, Products
  <2> DEFINE owed == [i \in 0..1 |-> IF i = 0 THEN 0 ELSE Owes(f, 1)]
  <2>7. owed \in [0..1 -> Nat] /\ owed[0] = 0 /\ owed[1] = Owes(f, 1)
    BY <2>6
  <2> HIDE DEF owed
  <2>8. Len(<<f>>) = 1 /\ <<f>>[1] = f
    OBVIOUS
  <2>9. 1 + owed[1] <= Requests[MaxDepth]
    BY <2>5, <2>6, <2>7
  <2>10. \A i \in 1..1 : owed[i - 1] + Owes(<<f>>[i], i) <= owed[i]
    BY <2>6, <2>7, <2>8
  <2>11. Covered(1, <<f>>)
    BY <2>7, <2>8, <2>9, <2>10 DEF Covered
  <2> QED
    BY <2>1, <2>11 DEF ReqInv
<1>4. CASE ~options.fetch_sitemap
  <2>1. phase' = "homepage" /\ UNCHANGED <<stack, asked>>
    BY <1>2, <1>4 DEF ToSitemaps
  <2> QED
    BY <2>1 DEF ReqInv
<1> QED
  BY <1>3, <1>4

LEMMA CancelledPays == ASSUME DiscInv, ReqInv, Cancelled PROVE ReqInv'
<1>1. phase' = "cancelled" /\ stack' = <<>> /\ asked' = asked
  BY DEF Cancelled
<1>2. asked \in Nat /\ stack \in Seq(Frames) /\ Covered(asked, stack)
  BY DEF DiscInv, DiscoveryTypeOK, ReqInv
<1>3. Covered(asked, <<>>)
  BY <1>2, CoveredIsBounded, NothingOwed
<1> QED
  BY <1>1, <1>3 DEF ReqInv

LEMMA ReqInvariance == DiscoverySpec => [](DiscInv /\ ReqInv)
<1>1. DiscoveryInit => ReqInv
  <2> SUFFICES ASSUME DiscoveryInit PROVE ReqInv
    OBVIOUS
  <2>1. asked = 0 /\ stack = <<>>
    BY DEF DiscoveryInit
  <2>2. 0 <= Requests[MaxDepth]
    <3>1. MaxDepth \in 0..MaxDepth
      BY DiscoveryAssumption
    <3>2. Requests[MaxDepth] \in Nat
      BY <3>1, RequestsAreGiven
    <3> QED
      BY <3>2
  <2> QED
    BY <2>1, <2>2, NothingOwed DEF ReqInv
<1>2. ASSUME DiscInv, DiscInv', ReqInv, [DiscoveryNext]_discovery PROVE ReqInv'
  <2>1. CASE FetchRobots \/ SkipRobots
    BY <1>2, <2>1, RobotsPays
  <2>2. CASE SitemapAnswers
    BY <1>2, <2>2, AnswersPay
  <2>3. CASE SitemapFails \/ SitemapEnds
    BY <1>2, <2>3, ReturnPays DEF SitemapFails, SitemapEnds
  <2>4. CASE Descend
    BY <1>2, <2>4, DescendPays
  <2>5. CASE TooDeep
    BY <1>2, <2>5, TooDeepPays
  <2>6. CASE Cancelled
    BY <1>2, <2>6, CancelledPays
  <2>7. CASE Begin
    BY <1>2, <2>7 DEF Begin, ReqInv
  <2>8. CASE HomepageFails \/ HomepageAnswers \/ HomepageRendered
    <3>1. UNCHANGED <<stack, asked>> /\ phase' = "done"
      BY <2>8 DEF HomepageFails, HomepageAnswers, HomepageRendered, Finish
    <3> QED
      BY <1>2, <3>1 DEF ReqInv
  <2>9. CASE HomepageNeedsRendering
    <3>1. UNCHANGED <<stack, asked>> /\ phase' = "rendering"
      BY <2>9 DEF HomepageNeedsRendering
    <3> QED
      BY <1>2, <3>1 DEF ReqInv
  <2>10. CASE Over \/ UNCHANGED discovery
    <3>1. UNCHANGED <<stack, asked, phase>>
      BY <2>10 DEF Over, discovery
    <3> QED
      BY <1>2, <3>1 DEF ReqInv
  <2> QED
    BY <1>2, <2>1, <2>2, <2>3, <2>4, <2>5, <2>6, <2>7, <2>8, <2>9, <2>10 DEF DiscoveryNext
<1> QED
  BY <1>1, <1>2, DiscInvariance, PTL DEF DiscoverySpec

-----------------------------------------------------------------------------
(* The theorems. *)

(* A label sequence is a suffix of itself. *)
LEMMA SuffixOfItself == ASSUME NEW S, NEW s \in Seq(S) PROVE IsSuffix(s, s)
BY DEF IsSuffix, IsPrefix, Reverse

LEMMA BareIsSeq ==
  ASSUME NEW u \in Bases
  PROVE  \E S : Bare(Lowered(u.host)) \in Seq(S)
<1> DEFINE S == {Lower[l] : l \in DOMAIN Lower}
<1>1. u.host \in Seq(DOMAIN Lower)
  BY DiscoveryAssumption
<1>2. Lowered(u.host) \in Seq(S)
  <2>1. Len(u.host) \in Nat /\ DOMAIN u.host = 1..Len(u.host) /\ \A i \in 1..Len(u.host) : u.host[i] \in DOMAIN Lower
    BY <1>1
  <2>2. \A i \in 1..Len(u.host) : Lowered(u.host)[i] \in S
    BY <2>1 DEF Lowered
  <2>3. Lowered(u.host) = [i \in 1..Len(u.host) |-> Lowered(u.host)[i]]
    BY <2>1 DEF Lowered
  <2> QED
    BY <2>1, <2>2, <2>3, IsASeq
<1> HIDE DEF S
<1>3. Bare(Lowered(u.host)) \in Seq(S)
  BY <1>2 DEF Bare
<1> QED
  BY <1>3

LEMMA OwnPages == DiscInv => OwnPagesAreKept
<1> SUFFICES ASSUME DiscInv, ~NamesDefaultPort(base), NEW d \in Range(offered),
                    Bare(d.url.host) = Bare(Lowered(base.host)), d.url.scheme = base.scheme,
                    Port(d.url) = Port(base)
             PROVE  d \in Candidates
  BY DEF OwnPagesAreKept
<1>1. d \in Offers /\ base \in Bases
  BY DEF DiscInv, DiscoveryTypeOK, Range
<1>2. PICK u \in Urls : d.url = Normalize(u)
  BY <1>1 DEF Offers, Normal, NormalOf, Range
<1>3. d.url.port = base.port
  <2>1. d.url.scheme = u.scheme /\ d.url.port = IF NamesDefaultPort(u) THEN NoPort ELSE u.port
    <3>1. Normalize(u).scheme = u.scheme
      BY DEF Normalize
    <3>2. Normalize(u).port = IF NamesDefaultPort(u) THEN NoPort ELSE u.port
      BY DEF Normalize
    <3> QED
      BY <1>2, <3>1, <3>2
  <2>2. ~NamesDefaultPort(d.url)
    <3>1. CASE NamesDefaultPort(u)
      <4>1. d.url.port = 0
        BY <2>1, <3>1 DEF NoPort
      <4> QED
        BY <4>1 DEF NamesDefaultPort
    <3>2. CASE ~NamesDefaultPort(u)
      <4>1. d.url.port = u.port /\ d.url.scheme = u.scheme
        BY <2>1, <3>2
      <4> QED
        BY <3>2, <4>1 DEF NamesDefaultPort
    <3> QED
      BY <3>1, <3>2
  <2> QED
    BY <2>2 DEF NamesDefaultPort, Port, NoPort
<1>4. IsSuffix(Bare(Lowered(base.host)), Bare(d.url.host))
  BY <1>1, BareIsSeq, SuffixOfItself
<1> QED
  BY <1>3, <1>4 DEF Candidates, IsSameDomain

(* Whatever the site answers, what is returned and left is well formed, no *)
(* page of the site itself is dropped for its spelling, and the client is  *)
(* closed (discover, lines 42 to 100).                                     *)
THEOREM DiscoveryIsSound == DiscoverySpec => []DiscoveryInv
<1>1. DiscInv => DiscoveryInv
  BY OwnPages DEF DiscInv, DiscoveryInv
<1> QED
  BY <1>1, DiscInvariance, PTL

(* For every list of links: a URL is returned once, and with the best of   *)
(* its sources (_deduplicate).                                             *)
THEOREM BestSourcesWin == DiscoverySpec => []BestSourceWins
<1>1. DiscInv => BestSourceWins
  BY DEF DiscInv, Selected, Wins, BestSourceWins
<1> QED
  BY <1>1, DiscInvariance, PTL

(* For every limit: what is cut off outranks nothing that is kept (_rank,  *)
(* and the truncation in discover).                                        *)
THEOREM TruncationIsFair == DiscoverySpec => []TruncationKeepsTheBest
<1>1. DiscInv => TruncationKeepsTheBest
  BY DEF DiscInv, Selected, Outranks, TruncationKeepsTheBest
<1> QED
  BY <1>1, DiscInvariance, PTL

(* For every tree of sitemaps and every depth: what one of them lists is   *)
(* offered, though others fail (_fetch_sitemaps).                          *)
THEOREM ListedUrlsAreOffered == DiscoverySpec => []NothingFoundIsLost
<1>1. DiscInv => NothingFoundIsLost
  <2> SUFFICES ASSUME DiscInv, phase = "done" PROVE located \subseteq {d.url : d \in Range(offered)}
    BY DEF NothingFoundIsLost
  <2>1. stack = <<>>
    BY DEF DiscInv, Nested
  <2>2. located \subseteq Listed(offered)
    BY <2>1 DEF DiscInv, Gathered
  <2> QED
    BY <2>2 DEF Listed, Range
<1> QED
  BY <1>1, DiscInvariance, PTL

(* For every tree of sitemaps, however deep or circular: the recursion     *)
(* limit bounds the requests by the sum of the powers of the widest index  *)
(* (_fetch_sitemaps).                                                      *)
THEOREM RequestsStayBounded == DiscoverySpec => []RequestsAreBounded
<1>1. DiscInv /\ ReqInv => RequestsAreBounded
  <2> SUFFICES ASSUME DiscInv, ReqInv PROVE asked <= Requests[MaxDepth]
    BY DEF RequestsAreBounded
  <2>1. asked \in Nat /\ stack \in Seq(Frames) /\ Covered(asked, stack)
    BY DEF DiscInv, DiscoveryTypeOK, ReqInv
  <2> QED
    BY <2>1, CoveredIsBounded
<1> QED
  BY <1>1, ReqInvariance, PTL

(* A URL of normalize_url, and the one that rstrip("/") makes of it. *)
Spelled(scheme, host, port, path, query, fragment) ==
  [scheme |-> scheme, host |-> host, port |-> port, path |-> path, query |-> query, fragment |-> fragment]

Slashless(url) == [url EXCEPT !.path = <<>>]

LEMMA SlashlessSpelled ==
  ASSUME NEW scheme, NEW host, NEW port, NEW path, NEW query, NEW fragment
  PROVE  Slashless(Spelled(scheme, host, port, path, query, fragment)) = Spelled(scheme, host, port, <<>>, query, fragment)
BY DEF Slashless, Spelled

(* What normalize_url makes of two spellings of one page differs in the    *)
(* slash of the front page at most.                                        *)
LEMMA OneNormalForm ==
  ASSUME NEW u, NEW v, SamePage(u, v)
  PROVE  \/ Key(Normalize(u)) = Key(Normalize(v))
         \/ Segments(u.path) = <<>> /\ Normalize(u).query # <<>>
<1> DEFINE a == Normalize(u)
           b == Normalize(v)
           p == IF NamesDefaultPort(u) THEN NoPort ELSE u.port
           q == IF NamesDefaultPort(v) THEN NoPort ELSE v.port
           none == ""
<1>1. /\ a = Spelled(u.scheme, Bare(Lowered(u.host)), p, Path(u.path), Query(u.query), none)
      /\ b = Spelled(v.scheme, Bare(Lowered(v.host)), q, Path(v.path), Query(v.query), none)
  BY DEF Normalize, Spelled
<1> HIDE DEF a, b
<1>2. u.scheme = v.scheme /\ Bare(Lowered(u.host)) = Bare(Lowered(v.host)) /\ Segments(u.path) = Segments(v.path)
  BY DEF SamePage
<1>3. p = q
  <2>1. Port(u) = Port(v) /\ u.scheme = v.scheme
    BY DEF SamePage
  <2> QED
    BY <2>1 DEF Port, NamesDefaultPort, NoPort
<1> HIDE DEF p, q, none
<1>4. Query(u.query) = Query(v.query)
  <2> DEFINE Taken(query) == [i \in DOMAIN Params |-> IF Params[i] \in Tracking THEN <<>> ELSE ValuesOf(query, Params[i])]
  <2>1. ASSUME NEW i \in DOMAIN Params, Params[i] \notin Tracking
        PROVE  ValuesOf(u.query, Params[i]) = ValuesOf(v.query, Params[i])
    <3>1. Params[i] \in Range(Params) \ Tracking
      BY <2>1 DEF Range
    <3> QED
      BY <3>1 DEF SamePage
  <2>2. Taken(u.query) = Taken(v.query)
    BY <2>1
  <2>3. Query(u.query) = FlattenSeq(Taken(u.query)) /\ Query(v.query) = FlattenSeq(Taken(v.query))
    BY DEF Query
  <2> HIDE DEF Taken
  <2> QED
    BY <2>2, <2>3
<1>5. CASE Segments(u.path) # <<>>
  <2>1. Path(u.path) = Path(v.path)
    BY <1>2, <1>5 DEF Path
  <2>2. a = b
    BY <1>1, <1>2, <1>3, <1>4, <2>1
  <2> QED
    BY <2>2 DEF a, b
<1>6. CASE Segments(u.path) = <<>> /\ a.query = <<>>
  <2>1. Path(u.path) \in {<<>>, <<"">>} /\ Path(v.path) \in {<<>>, <<"">>}
    BY <1>2, <1>6 DEF Path
  <2>2. a.path = Path(u.path) /\ b.path = Path(v.path) /\ b.query = a.query
    BY <1>1, <1>4 DEF Spelled
  <2>3. Key(a) = Slashless(a)
    <3>1. CASE a.path = <<"">>
      BY <1>6, <3>1 DEF Key, Slashless
    <3>2. CASE a.path = <<>>
      <4>1. a = [a EXCEPT !.path = <<>>]
        BY <1>1, <3>2 DEF Spelled
      <4>2. <<"">> # <<>>
        OBVIOUS
      <4> QED
        BY <3>2, <4>1, <4>2 DEF Key, Slashless
    <3> QED
      BY <2>1, <2>2, <3>1, <3>2
  <2>4. Key(b) = Slashless(b)
    <3>1. CASE b.path = <<"">>
      BY <1>6, <2>2, <3>1 DEF Key, Slashless
    <3>2. CASE b.path = <<>>
      <4>1. b = [b EXCEPT !.path = <<>>]
        BY <1>1, <3>2 DEF Spelled
      <4>2. <<"">> # <<>>
        OBVIOUS
      <4> QED
        BY <3>2, <4>1, <4>2 DEF Key, Slashless
    <3> QED
      BY <2>1, <2>2, <3>1, <3>2
  <2>5. Slashless(a) = Slashless(b)
    <3>1. Slashless(a) = Spelled(u.scheme, Bare(Lowered(u.host)), p, <<>>, Query(u.query), none)
      <4>1. Slashless(Spelled(u.scheme, Bare(Lowered(u.host)), p, Path(u.path), Query(u.query), none))
              = Spelled(u.scheme, Bare(Lowered(u.host)), p, <<>>, Query(u.query), none)
        BY SlashlessSpelled
      <4> QED
        BY <1>1, <4>1
    <3>2. Slashless(b) = Spelled(v.scheme, Bare(Lowered(v.host)), q, <<>>, Query(v.query), none)
      <4>1. Slashless(Spelled(v.scheme, Bare(Lowered(v.host)), q, Path(v.path), Query(v.query), none))
              = Spelled(v.scheme, Bare(Lowered(v.host)), q, <<>>, Query(v.query), none)
        BY SlashlessSpelled
      <4> QED
        BY <1>1, <4>1
    <3> QED
      BY <1>2, <1>3, <1>4, <3>1, <3>2
  <2> QED
    BY <2>3, <2>4, <2>5 DEF a, b
<1> QED
  BY <1>5, <1>6 DEF a

(* For every set of spellings and every list of links: a page is returned  *)
(* once, however it is spelled, but for the front page with a query        *)
(* (normalize_url, _deduplicate).                                          *)
THEOREM PagesDoComeOnce == DiscoverySpec => []PagesComeOnce
<1>1. DiscInv => PagesComeOnce
  <2> SUFFICES ASSUME DiscInv, phase = "done", NEW i \in DOMAIN returned, NEW j \in DOMAIN returned,
                      NEW u \in Urls, NEW v \in Urls,
                      returned[i].url = NormalOf[u], returned[j].url = NormalOf[v], SamePage(u, v)
               PROVE  i = j \/ (Segments(u.path) = <<>> /\ returned[i].url.query # <<>>)
    BY DEF PagesComeOnce
  <2>1. returned[i].url = Normalize(u) /\ returned[j].url = Normalize(v)
    BY DEF NormalOf
  <2>2. Same(returned[i], returned[j]) => i = j
    BY DEF DiscInv, Selected, Wins
  <2> QED
    BY <2>1, <2>2, OneNormalForm DEF Same
<1> QED
  BY <1>1, DiscInvariance, PTL

-----------------------------------------------------------------------------
(***************************************************************************)
(* Parsing.  A merge is an iteration over the strategies in any order      *)
(* (MergeMakes), an entry of the cache remains what a parse has made of    *)
(* its page, but for what is in its "added" (IsSound), and what is handed  *)
(* over is what is accepted of an entry.                                   *)
(***************************************************************************)

LEMMA ParsedDictIsPriced == ASSUME NEW d \in Dicts PROVE ParsedDict(d) \in Seq(Priced)
<1>1. Range(ParsedDict(d)) \subseteq Priced
  BY DEF Priced
<1>2. CASE ParsedDict(d) = <<>>
  BY <1>2
<1>3. CASE ParsedDict(d) = <<[name |-> NameOf(d), price |-> PriceOf(d)]>>
  <2> DEFINE r == [name |-> NameOf(d), price |-> PriceOf(d)]
  <2> HIDE DEF r
  <2>1. ParsedDict(d) = <<r>>
    BY <1>3 DEF r
  <2>2. r \in Range(<<r>>)
    BY DEF Range
  <2>3. r \in Priced
    BY <1>1, <2>1, <2>2
  <2> QED
    BY <2>1, <2>3
<1> QED
  BY <1>2, <1>3 DEF ParsedDict

(* What the levels of an object give. *)
LEMMA ExtractFromIsTyped ==
  /\ \A l \in 0..5 : ExtractFrom[l] \in [Dicts -> Seq(Priced)]
  /\ \A d \in Dicts : ExtractFrom[0][d] = ParsedDict(d) \o <<>>
  /\ \A l \in 1..5, d \in Dicts :
       ExtractFrom[l][d] = ParsedDict(d) \o FlattenSeq([i \in DOMAIN Parts[d] |-> ExtractFrom[l - 1][Parts[d][i]]])
<1> DEFINE S == [Dicts -> Seq(Priced)]
           Below(g, d) == [i \in DOMAIN Parts[d] |-> g[Parts[d][i]]]
           From0 == [d \in Dicts |-> ParsedDict(d) \o <<>>]
           More(g) == [d \in Dicts |-> ParsedDict(d) \o FlattenSeq(Below(g, d))]
           step == [a \in S \X (1..5) |-> More(a[1])]
           Kept(e) == [l \in 0..5 |-> [d \in Dicts |->
                         ParsedDict(d)
                         \o IF l = 0 THEN <<>> ELSE FlattenSeq([i \in DOMAIN Parts[d] |-> e[l - 1][Parts[d][i]]])]]
<1>1. From0 \in S
  <2>1. \A d \in Dicts : ParsedDict(d) \o <<>> \in Seq(Priced)
    BY ParsedDictIsPriced, ConcatProperties
  <2> QED
    BY <2>1
<1>2. ASSUME NEW g \in S PROVE More(g) \in S
  <2>1. ASSUME NEW d \in Dicts PROVE ParsedDict(d) \o FlattenSeq(Below(g, d)) \in Seq(Priced)
    <3>1. Parts[d] \in Seq(Dicts)
      BY ApiPricingAssumption
    <3>2. Below(g, d) \in Seq(Seq(Priced))
      <4>1. \A i \in 1..Len(Parts[d]) : g[Parts[d][i]] \in Seq(Priced)
        BY <3>1
      <4>2. DOMAIN Parts[d] = 1..Len(Parts[d]) /\ Len(Parts[d]) \in Nat
        BY <3>1
      <4> QED
        BY <4>1, <4>2
    <3>3. FlattenSeq(Below(g, d)) \in Seq(Priced)
      BY <3>2, FlattenedIsUnion
    <3> QED
      BY <3>3, ParsedDictIsPriced, ConcatProperties
  <2> QED
    BY <2>1
<1>3. step \in [S \X (1..5) -> S]
  <2> HIDE DEF More, S
  <2>1. \A a \in S \X (1..5) : a[1] \in S
    OBVIOUS
  <2>2. \A a \in S \X (1..5) : More(a[1]) \in S
    BY <1>2, <2>1
  <2> QED
    BY <2>2
<1>4. \A g \in S, l \in 1..5 : step[<<g, l>>] = More(g)
  <2> HIDE DEF More, S
  <2> QED
    OBVIOUS
<1>5. PICK f \in [0..5 -> S] : f[0] = From0 /\ \A l \in 1..5 : f[l] = step[<<f[l - 1], l>>]
  <2> HIDE DEF S, From0, step
  <2>1. Iterates(step, 5, S, From0)
    BY <1>1, <1>3, Iteration
  <2> QED
    BY <2>1 DEF Iterates
<1>6. \A l \in 1..5 : f[l] = More(f[l - 1])
  <2> SUFFICES ASSUME NEW l \in 1..5 PROVE f[l] = More(f[l - 1])
    OBVIOUS
  <2> HIDE DEF More, S, step
  <2>1. l - 1 \in 0..5
    OBVIOUS
  <2>2. f[l - 1] \in S
    BY <2>1
  <2> QED
    BY <1>4, <1>5, <2>2
<1>7. f = Kept(f)
  <2>1. ASSUME NEW l \in 0..5
        PROVE  f[l] = [d \in Dicts |->
                 ParsedDict(d)
                 \o IF l = 0 THEN <<>> ELSE FlattenSeq([i \in DOMAIN Parts[d] |-> f[l - 1][Parts[d][i]]])]
    <3>1. CASE l = 0
      BY <1>5, <3>1
    <3>2. CASE l # 0
      <4>1. l \in 1..5
        BY <3>2
      <4>2. f[l] = More(f[l - 1])
        BY <1>6, <4>1
      <4> QED
        BY <3>2, <4>2
    <3> QED
      BY <3>1, <3>2
  <2>2. f = [l \in 0..5 |-> f[l]]
    OBVIOUS
  <2> QED
    BY <2>1, <2>2
<1>8. ExtractFrom = CHOOSE e : e = Kept(e)
  BY DEF ExtractFrom, Deepest
<1>9. ExtractFrom = Kept(ExtractFrom)
  <2> HIDE DEF Kept
  <2> QED
    BY <1>7, <1>8
<1>10. /\ \A l \in 0..5 : ExtractFrom[l] = [d \in Dicts |->
              ParsedDict(d)
              \o IF l = 0 THEN <<>> ELSE FlattenSeq([i \in DOMAIN Parts[d] |-> ExtractFrom[l - 1][Parts[d][i]]])]
  <2>1. \A l \in 0..5 : Kept(ExtractFrom)[l] = [d \in Dicts |->
              ParsedDict(d)
              \o IF l = 0 THEN <<>> ELSE FlattenSeq([i \in DOMAIN Parts[d] |-> ExtractFrom[l - 1][Parts[d][i]]])]
    OBVIOUS
  <2> HIDE DEF Kept
  <2> QED
    BY <1>9, <2>1
<1>11. ExtractFrom[0] = From0
  <2>1. 0 \in 0..5
    OBVIOUS
  <2> QED
    BY <1>10, <2>1
<1>12. \A l \in 1..5 : ExtractFrom[l] = More(ExtractFrom[l - 1])
  <2> SUFFICES ASSUME NEW l \in 1..5 PROVE ExtractFrom[l] = More(ExtractFrom[l - 1])
    OBVIOUS
  <2>1. l \in 0..5 /\ l # 0
    OBVIOUS
  <2> QED
    BY <1>10, <2>1
<1>13. \A l \in 0..5 : ExtractFrom[l] \in S
  <2> DEFINE Done == {l \in Nat : l <= 5 => ExtractFrom[l] \in S}
  <2>1. 0 \in Done
    BY <1>1, <1>11
  <2>2. ASSUME NEW l \in Nat, l \in Done PROVE l + 1 \in Done
    <3> SUFFICES ASSUME l + 1 <= 5 PROVE ExtractFrom[l + 1] \in S
      OBVIOUS
    <3>1. l + 1 \in 1..5 /\ (l + 1) - 1 = l /\ l <= 5
      OBVIOUS
    <3>2. ExtractFrom[l] \in S
      BY <2>2, <3>1
    <3> HIDE DEF S, More
    <3> QED
      BY <1>2, <1>12, <3>1, <3>2
  <2> HIDE DEF Done
  <2>3. Nat \subseteq Done
    BY <2>1, <2>2, Induction
  <2> HIDE DEF S
  <2>4. \A l \in Nat : l <= 5 => ExtractFrom[l] \in S
    BY <2>3 DEF Done
  <2> QED
    BY <2>4
<1>14. \A d \in Dicts : ExtractFrom[0][d] = ParsedDict(d) \o <<>>
  BY <1>11
<1>15. ASSUME NEW l \in 1..5, NEW d \in Dicts
       PROVE ExtractFrom[l][d] = ParsedDict(d) \o FlattenSeq([i \in DOMAIN Parts[d] |-> ExtractFrom[l - 1][Parts[d][i]]])
  <2>1. ExtractFrom[l] = More(ExtractFrom[l - 1])
    BY <1>12
  <2> QED
    BY <2>1
<1> QED
  BY <1>13, <1>14, <1>15

LEMMA ExtractFromIsUnion ==
  /\ \A d \in Dicts : Range(ExtractFrom[0][d]) = Range(ParsedDict(d))
  /\ \A l \in 1..5, d \in Dicts :
       Range(ExtractFrom[l][d])
       = Range(ParsedDict(d)) \cup UNION {Range(ExtractFrom[l - 1][Parts[d][i]]) : i \in 1..Len(Parts[d])}
<1>1. ASSUME NEW d \in Dicts PROVE Range(ExtractFrom[0][d]) = Range(ParsedDict(d))
  <2>1. ParsedDict(d) \o <<>> = ParsedDict(d)
    BY ParsedDictIsPriced, ConcatEmptySeq
  <2> QED
    BY <2>1, ExtractFromIsTyped
<1>2. ASSUME NEW l \in 1..5, NEW d \in Dicts
      PROVE  Range(ExtractFrom[l][d])
             = Range(ParsedDict(d)) \cup UNION {Range(ExtractFrom[l - 1][Parts[d][i]]) : i \in 1..Len(Parts[d])}
  <2> DEFINE nested == [i \in DOMAIN Parts[d] |-> ExtractFrom[l - 1][Parts[d][i]]]
  <2>1. Parts[d] \in Seq(Dicts)
    BY ApiPricingAssumption
  <2>2. DOMAIN Parts[d] = 1..Len(Parts[d]) /\ Len(Parts[d]) \in Nat /\ \A i \in 1..Len(Parts[d]) : Parts[d][i] \in Dicts
    BY <2>1
  <2>3. ExtractFrom[l - 1] \in [Dicts -> Seq(Priced)]
    <3>1. l - 1 \in 0..5
      OBVIOUS
    <3> QED
      BY <3>1, ExtractFromIsTyped
  <2>4. /\ nested \in Seq(Seq(Priced)) /\ Len(nested) = Len(Parts[d])
        /\ \A i \in 1..Len(Parts[d]) : nested[i] = ExtractFrom[l - 1][Parts[d][i]]
    <3>1. \A i \in 1..Len(Parts[d]) : ExtractFrom[l - 1][Parts[d][i]] \in Seq(Priced)
      BY <2>2, <2>3
    <3>2. nested = [i \in 1..Len(Parts[d]) |-> ExtractFrom[l - 1][Parts[d][i]]]
      BY <2>2
    <3> HIDE DEF nested
    <3> QED
      BY <2>2, <3>1, <3>2
  <2>5. ExtractFrom[l][d] = ParsedDict(d) \o FlattenSeq(nested)
    BY ExtractFromIsTyped
  <2> HIDE DEF nested
  <2>6. FlattenSeq(nested) \in Seq(Priced) /\ Range(FlattenSeq(nested)) = UNION {Range(nested[i]) : i \in 1..Len(nested)}
    BY <2>4, FlattenedIsUnion
  <2>7. Range(ExtractFrom[l][d]) = Range(ParsedDict(d)) \cup Range(FlattenSeq(nested))
    BY <2>5, <2>6, ParsedDictIsPriced, ConcatIsUnion
  <2>8. UNION {Range(nested[i]) : i \in 1..Len(nested)}
        = UNION {Range(ExtractFrom[l - 1][Parts[d][i]]) : i \in 1..Len(Parts[d])}
    BY <2>4
  <2> QED
    BY <2>6, <2>7, <2>8
<1> QED
  BY <1>1, <1>2

(* More levels give no less. *)
LEMMA DeeperGivesMore ==
  \A l \in 0..4, d \in Dicts : Range(ExtractFrom[l][d]) \subseteq Range(ExtractFrom[l + 1][d])
<1> DEFINE Grows(l) == \A d \in Dicts : Range(ExtractFrom[l][d]) \subseteq Range(ExtractFrom[l + 1][d])
           Done == {l \in Nat : l <= 4 => Grows(l)}
<1>1. 0 \in Done
  <2>1. 0 + 1 \in 1..5 /\ (0 + 1) - 1 = 0
    OBVIOUS
  <2> QED
    BY <2>1, ExtractFromIsUnion
<1>2. ASSUME NEW l \in Nat, l \in Done PROVE l + 1 \in Done
  <2> SUFFICES ASSUME l + 1 <= 4, NEW d \in Dicts
               PROVE  Range(ExtractFrom[l + 1][d]) \subseteq Range(ExtractFrom[(l + 1) + 1][d])
    OBVIOUS
  <2>1. l + 1 \in 1..5 /\ (l + 1) - 1 = l /\ (l + 1) + 1 \in 1..5 /\ ((l + 1) + 1) - 1 = l + 1 /\ l <= 4
    OBVIOUS
  <2>2. Grows(l)
    BY <1>2, <2>1
  <2>3. \A i \in 1..Len(Parts[d]) : Parts[d][i] \in Dicts
    BY ApiPricingAssumption
  <2>4. /\ Range(ExtractFrom[l + 1][d])
           = Range(ParsedDict(d)) \cup UNION {Range(ExtractFrom[l][Parts[d][i]]) : i \in 1..Len(Parts[d])}
        /\ Range(ExtractFrom[(l + 1) + 1][d])
           = Range(ParsedDict(d)) \cup UNION {Range(ExtractFrom[l + 1][Parts[d][i]]) : i \in 1..Len(Parts[d])}
    <3>1. Range(ExtractFrom[l + 1][d])
           = Range(ParsedDict(d)) \cup UNION {Range(ExtractFrom[(l + 1) - 1][Parts[d][i]]) : i \in 1..Len(Parts[d])}
      BY <2>1, ExtractFromIsUnion
    <3>2. Range(ExtractFrom[(l + 1) + 1][d])
           = Range(ParsedDict(d)) \cup UNION {Range(ExtractFrom[((l + 1) + 1) - 1][Parts[d][i]]) : i \in 1..Len(Parts[d])}
      BY <2>1, ExtractFromIsUnion
    <3> QED
      BY <2>1, <3>1, <3>2
  <2>5. \A i \in 1..Len(Parts[d]) : Range(ExtractFrom[l][Parts[d][i]]) \subseteq Range(ExtractFrom[l + 1][Parts[d][i]])
    BY <2>2, <2>3
  <2> QED
    BY <2>4, <2>5
<1> HIDE DEF Done
<1>3. Nat \subseteq Done
  BY <1>1, <1>2, Induction
<1> QED
  BY <1>3 DEF Done

(* The objects that so many levels reach. *)
LEMMA WithinIsReached ==
  ASSUME NEW answer, answer.of \in [1..1 -> Dicts]
  PROVE  \A d \in Within(answer, 5) :
           d \in Dicts /\ Range(ParsedDict(d)) \subseteq Range(ExtractFrom[5][answer.of[1]])
<1> DEFINE root == answer.of[1]
           S == SUBSET Dicts
           Wider(found) == found \cup UNION {Range(Parts[d]) : d \in found}
           step == [a \in S \X (1..5) |-> Wider(a[1])]
           Kept(e) == [n \in 0..5 |-> IF n = 0 THEN Range(answer.of) ELSE e[n - 1] \cup UNION {Range(Parts[d]) : d \in e[n - 1]}]
           kept == CHOOSE e : e = Kept(e)
<1>1. Within(answer, 5) = kept[5]
  BY DEF Within
<1>2. Range(answer.of) = {root} /\ root \in Dicts
  BY DEF Range
<1>3. ASSUME NEW found \in S PROVE Wider(found) \in S
  <2>1. \A d \in found : Range(Parts[d]) \subseteq Dicts
    BY ApiPricingAssumption DEF Range
  <2> QED
    BY <2>1
<1>4. step \in [S \X (1..5) -> S]
  <2> HIDE DEF Wider, S
  <2>1. \A a \in S \X (1..5) : a[1] \in S
    OBVIOUS
  <2>2. \A a \in S \X (1..5) : Wider(a[1]) \in S
    BY <1>3, <2>1
  <2> QED
    BY <2>2
<1>5. PICK f \in [0..5 -> S] : f[0] = {root} /\ \A n \in 1..5 : f[n] = step[<<f[n - 1], n>>]
  <2>1. {root} \in S
    BY <1>2
  <2> HIDE DEF S, step, root
  <2>2. Iterates(step, 5, S, {root})
    BY <1>4, <2>1, Iteration
  <2> QED
    BY <2>2 DEF Iterates
<1>6. ASSUME NEW n \in 1..5 PROVE f[n] = Wider(f[n - 1])
  <2> HIDE DEF Wider, S
  <2>1. n - 1 \in 0..5
    OBVIOUS
  <2>2. f[n - 1] \in S
    BY <2>1
  <2>3. step[<<f[n - 1], n>>] = Wider(f[n - 1])
    BY <2>2
  <2> QED
    BY <1>5, <2>3
<1>7. f = Kept(f)
  <2>1. ASSUME NEW n \in 0..5
        PROVE  f[n] = IF n = 0 THEN Range(answer.of) ELSE f[n - 1] \cup UNION {Range(Parts[d]) : d \in f[n - 1]}
    <3>1. CASE n = 0
      BY <1>2, <1>5, <3>1
    <3>2. CASE n # 0
      <4>1. n \in 1..5
        BY <3>2
      <4>2. f[n] = Wider(f[n - 1])
        BY <1>6, <4>1
      <4> QED
        BY <3>2, <4>2
    <3> QED
      BY <3>1, <3>2
  <2>2. f = [n \in 0..5 |-> f[n]]
    OBVIOUS
  <2> QED
    BY <2>1, <2>2
<1>8. kept = Kept(kept)
  <2> HIDE DEF Kept
  <2> QED
    BY <1>7
<1> HIDE DEF kept
<1>9. \A n \in 0..5 : kept[n] = IF n = 0 THEN Range(answer.of) ELSE kept[n - 1] \cup UNION {Range(Parts[d]) : d \in kept[n - 1]}
  <2>1. \A n \in 0..5 : Kept(kept)[n] = IF n = 0 THEN Range(answer.of) ELSE kept[n - 1] \cup UNION {Range(Parts[d]) : d \in kept[n - 1]}
    OBVIOUS
  <2> HIDE DEF Kept
  <2> QED
    BY <1>8, <2>1
<1> HIDE DEF Kept, Wider, step, S
<1>10. kept[0] = {root}
  <2>1. 0 \in 0..5
    OBVIOUS
  <2> QED
    BY <1>2, <1>9, <2>1
<1>11. \A n \in 1..5 : kept[n] = kept[n - 1] \cup UNION {Range(Parts[d]) : d \in kept[n - 1]}
  <2> SUFFICES ASSUME NEW n \in 1..5 PROVE kept[n] = kept[n - 1] \cup UNION {Range(Parts[d]) : d \in kept[n - 1]}
    OBVIOUS
  <2>1. n \in 0..5 /\ n # 0
    OBVIOUS
  <2> QED
    BY <1>9, <2>1
<1> HIDE DEF root
<1> DEFINE Reached(n) ==
             \A d \in kept[n] :
               /\ d \in Dicts
               /\ \A l \in 0..(5 - n) : Range(ExtractFrom[l][d]) \subseteq Range(ExtractFrom[l + n][root])
           Done == {n \in Nat : n <= 5 => Reached(n)}
<1>12. 0 \in Done
  <2>1. \A l \in 0..(5 - 0) : l + 0 = l
    OBVIOUS
  <2> QED
    BY <1>2, <1>10, <2>1
<1>13. ASSUME NEW n \in Nat, n \in Done PROVE n + 1 \in Done
  <2> SUFFICES ASSUME n + 1 <= 5, NEW d \in kept[n + 1]
               PROVE  /\ d \in Dicts
                      /\ \A l \in 0..(5 - (n + 1)) : Range(ExtractFrom[l][d]) \subseteq Range(ExtractFrom[l + (n + 1)][root])
    OBVIOUS
  <2>1. n + 1 \in 1..5 /\ (n + 1) - 1 = n /\ n <= 5
    OBVIOUS
  <2>2. Reached(n)
    BY <1>13, <2>1
  <2>3. kept[n + 1] = kept[n] \cup UNION {Range(Parts[c]) : c \in kept[n]}
    BY <1>11, <2>1
  <2>4. ASSUME NEW l \in 0..(5 - (n + 1))
        PROVE  /\ l \in 0..(5 - n) /\ l + 1 \in 0..(5 - n) /\ l + n \in 0..4 /\ (l + n) + 1 = l + (n + 1)
               /\ (l + 1) + n = l + (n + 1) /\ l + 1 \in 1..5 /\ (l + 1) - 1 = l
    BY <2>1
  <2>5. CASE d \in kept[n]
    <3>1. d \in Dicts
      BY <2>2, <2>5
    <3>2. ASSUME NEW l \in 0..(5 - (n + 1))
          PROVE  Range(ExtractFrom[l][d]) \subseteq Range(ExtractFrom[l + (n + 1)][root])
      <4>1. Range(ExtractFrom[l][d]) \subseteq Range(ExtractFrom[l + n][root])
        BY <2>2, <2>4, <2>5
      <4>2. Range(ExtractFrom[l + n][root]) \subseteq Range(ExtractFrom[(l + n) + 1][root])
        BY <1>2, <2>4, DeeperGivesMore
      <4> QED
        BY <2>4, <4>1, <4>2
    <3> QED
      BY <3>1, <3>2
  <2>6. CASE d \notin kept[n]
    <3>1. PICK c \in kept[n] : d \in Range(Parts[c])
      BY <2>3, <2>6
    <3>2. c \in Dicts
      BY <2>2
    <3>3. Parts[c] \in Seq(Dicts)
      BY <3>2, ApiPricingAssumption
    <3>4. PICK i \in 1..Len(Parts[c]) : d = Parts[c][i]
      BY <3>1, <3>3 DEF Range
    <3>5. d \in Dicts
      BY <3>3, <3>4
    <3>6. ASSUME NEW l \in 0..(5 - (n + 1))
          PROVE  Range(ExtractFrom[l][d]) \subseteq Range(ExtractFrom[l + (n + 1)][root])
      <4>1. Range(ExtractFrom[l + 1][c])
            = Range(ParsedDict(c)) \cup UNION {Range(ExtractFrom[(l + 1) - 1][Parts[c][j]]) : j \in 1..Len(Parts[c])}
        <5>1. l + 1 \in 1..5
          BY <2>4
        <5> QED
          BY <3>2, <5>1, ExtractFromIsUnion
      <4>2. Range(ExtractFrom[l][d]) \subseteq Range(ExtractFrom[l + 1][c])
        BY <2>4, <3>4, <4>1
      <4>3. Range(ExtractFrom[l + 1][c]) \subseteq Range(ExtractFrom[(l + 1) + n][root])
        BY <2>2, <2>4
      <4> QED
        BY <2>4, <4>2, <4>3
    <3> QED
      BY <3>5, <3>6
  <2> QED
    BY <2>5, <2>6
<1> HIDE DEF Done, Reached
<1>14. Nat \subseteq Done
  BY <1>12, <1>13, Induction
<1>15. Reached(5)
  BY <1>14 DEF Done
<1> SUFFICES ASSUME NEW d \in kept[5]
             PROVE  d \in Dicts /\ Range(ParsedDict(d)) \subseteq Range(ExtractFrom[5][root])
  BY <1>1 DEF root
<1>16. 0 \in 0..(5 - 5) /\ 0 + 5 = 5
  OBVIOUS
<1>17. d \in Dicts /\ Range(ExtractFrom[0][d]) \subseteq Range(ExtractFrom[0 + 5][root])
  BY <1>15, <1>16 DEF Reached
<1> QED
  BY <1>16, <1>17, ExtractFromIsUnion

(* What is read out of intercepted answers. *)
LEMMA ExtractPricingIsUnion ==
  ASSUME NEW api \in ApiAnswers
  PROVE  /\ ExtractPricing(api) \in Seq(Priced)
         /\ \A answer \in Range(api) : ~answer.list =>
              /\ answer.of \in [1..1 -> Dicts]
              /\ Range(ExtractFrom[5][answer.of[1]]) \subseteq Range(ExtractPricing(api))
<1> DEFINE n == Len(api)
           lists == [i \in DOMAIN api |-> IF api[i].list THEN <<>> ELSE ExtractFrom[5][api[i].of[1]]]
<1>1. api \in Seq(Range(api)) /\ \A answer \in Range(api) : answer.list \/ answer.of \in [1..1 -> Dicts]
  BY ParsingAssumption
<1>2. DOMAIN api = 1..n /\ n \in Nat /\ \A i \in 1..n : api[i] \in Range(api)
  BY <1>1
<1>3. \A i \in 1..n : (IF api[i].list THEN <<>> ELSE ExtractFrom[5][api[i].of[1]]) \in Seq(Priced)
  <2> SUFFICES ASSUME NEW i \in 1..n PROVE (IF api[i].list THEN <<>> ELSE ExtractFrom[5][api[i].of[1]]) \in Seq(Priced)
    OBVIOUS
  <2>1. CASE api[i].list
    BY <2>1
  <2>2. CASE ~api[i].list
    <3>1. api[i].of[1] \in Dicts
      BY <1>1, <1>2, <2>2
    <3>2. ExtractFrom[5] \in [Dicts -> Seq(Priced)]
      BY ExtractFromIsTyped
    <3> QED
      BY <2>2, <3>1, <3>2
  <2> QED
    BY <2>1, <2>2
<1>4. ExtractPricing(api) = FlattenSeq(lists)
  BY DEF ExtractPricing, Deepest
<1>5. /\ lists \in Seq(Seq(Priced)) /\ Len(lists) = n
      /\ \A i \in 1..n : lists[i] = IF api[i].list THEN <<>> ELSE ExtractFrom[5][api[i].of[1]]
  BY <1>2, <1>3
<1> HIDE DEF lists, n
<1>6. /\ FlattenSeq(lists) \in Seq(Priced)
      /\ Range(FlattenSeq(lists)) = UNION {Range(lists[i]) : i \in 1..Len(lists)}
  BY <1>5, FlattenedIsUnion
<1>7. ASSUME NEW answer \in Range(api), ~answer.list
      PROVE  /\ answer.of \in [1..1 -> Dicts]
             /\ Range(ExtractFrom[5][answer.of[1]]) \subseteq Range(ExtractPricing(api))
  <2>1. PICK i \in 1..n : answer = api[i]
    BY <1>1, <1>2 DEF Range
  <2>2. lists[i] = ExtractFrom[5][answer.of[1]]
    BY <1>5, <1>7, <2>1
  <2>3. Range(lists[i]) \subseteq Range(FlattenSeq(lists))
    BY <1>5, <1>6
  <2> QED
    BY <1>1, <1>4, <1>7, <2>2, <2>3
<1> QED
  BY <1>4, <1>6, <1>7

LEMMA KeysAreLists ==
  /\ NameKeys \in Seq(Range(NameKeys)) /\ Len(NameKeys) = 5 /\ DOMAIN NameKeys = 1..5
  /\ PriceKeys \in Seq(Range(PriceKeys)) /\ Len(PriceKeys) = 5 /\ DOMAIN PriceKeys = 1..5
<1>1. ASSUME NEW a, NEW b, NEW c, NEW d, NEW e
      PROVE  <<a, b, c, d, e>> \in Seq(Range(<<a, b, c, d, e>>)) /\ Len(<<a, b, c, d, e>>) = 5
  BY DEF Range
<1>2. ASSUME NEW s, s \in Seq(Range(s)), Len(s) = 5 PROVE DOMAIN s = 1..5
  BY <1>2
<1>3. NameKeys \in Seq(Range(NameKeys)) /\ Len(NameKeys) = 5
  BY <1>1 DEF NameKeys
<1>4. PriceKeys \in Seq(Range(PriceKeys)) /\ Len(PriceKeys) = 5
  BY <1>1 DEF PriceKeys
<1> QED
  BY <1>2, <1>3, <1>4

(* All of the places of a list that count have one item: it is chosen.     *)
HaveOnly(list, places, k) ==
  /\ \E i \in 1..Len(list) : i \in places
  /\ \A i \in 1..Len(list) : i \in places => list[i] = k

LEMMA OnlyOneIsFirst ==
  ASSUME NEW S, NEW list \in Seq(S), NEW places, NEW k, HaveOnly(list, places, k)
  PROVE  Chosen(list, places) # <<>> /\ Chosen(list, places)[1] = k
<1> DEFINE c == Chosen(list, places)
<1>1. c \in Seq(S) /\ Range(c) = {list[i] : i \in {j \in 1..Len(list) : j \in places}}
  BY ChosenIsExact, ChosenRange
<1> HIDE DEF c
<1>2. k \in Range(c) /\ \A x \in Range(c) : x = k
  BY <1>1 DEF HaveOnly
<1>3. PICK i \in DOMAIN c : c[i] = k
  BY <1>2 DEF Range
<1>4. 1 \in DOMAIN c /\ c # <<>>
  BY <1>1, <1>3
<1>5. c[1] \in Range(c)
  BY <1>4 DEF Range
<1> QED
  BY <1>2, <1>4, <1>5 DEF c

(* An object that gives one name and one price is read as just that.       *)
LEMMA OnlyPriceIsParsed ==
  ASSUME NEW d \in Dicts, NEW k, NEW l, GivesOnly(d, k, l)
  PROVE  [name |-> Field[d][k].text, price |-> Field[d][l].amount] \in Range(ParsedDict(d))
<1> DEFINE f == Field[d]
           item == [name |-> f[k].text, price |-> f[l].amount]
           named == {i \in 1..5 : NameKeys[i] \in DOMAIN f /\ f[NameKeys[i]].text # Null}
           priced == {i \in 1..5 : PriceKeys[i] \in DOMAIN f}
           texts == Chosen(NameKeys, named)
           keys == Chosen(PriceKeys, priced)
<1>1. /\ {x \in Range(NameKeys) \cap DOMAIN f : f[x].text # Null} = {k}
      /\ Range(PriceKeys) \cap DOMAIN f = {l}
      /\ f[k].text # "" /\ f[l].amount # Null
  BY DEF GivesOnly
<1>2. NameOf(d) = IF texts = <<>> \/ f[texts[1]].text = "" THEN Null ELSE f[texts[1]].text
  BY DEF NameOf
<1>3. PriceOf(d) = IF keys = <<>> THEN Null ELSE f[keys[1]].amount
  BY DEF PriceOf
<1>4. /\ \A i \in 1..5 : i \in named <=> NameKeys[i] \in DOMAIN f /\ f[NameKeys[i]].text # Null
      /\ \A i \in 1..5 : i \in priced <=> PriceKeys[i] \in DOMAIN f
  OBVIOUS
<1> HIDE DEF f, named, priced
<1>5. /\ k \in Range(NameKeys) /\ k \in DOMAIN f /\ f[k].text # Null
      /\ \A x \in Range(NameKeys) : x \in DOMAIN f /\ f[x].text # Null => x = k
  <2>1. \A x : x \in {y \in Range(NameKeys) \cap DOMAIN f : f[y].text # Null} <=> x = k
    BY <1>1
  <2> QED
    BY <2>1
<1>6. /\ l \in Range(PriceKeys) /\ l \in DOMAIN f
      /\ \A x \in Range(PriceKeys) : x \in DOMAIN f => x = l
  BY <1>1
<1>7. texts # <<>> /\ texts[1] = k
  <2>1. NameKeys \in Seq(Range(NameKeys)) /\ Len(NameKeys) = 5 /\ DOMAIN NameKeys = 1..5
    BY KeysAreLists
  <2>2. \A x : x \in Range(NameKeys) <=> \E i \in 1..5 : x = NameKeys[i]
    BY <2>1 DEF Range
  <2>3. \E i \in 1..Len(NameKeys) : i \in named
    BY <1>4, <1>5, <2>1, <2>2
  <2>4. \A i \in 1..Len(NameKeys) : i \in named => NameKeys[i] = k
    BY <1>4, <1>5, <2>1, <2>2
  <2> HIDE DEF texts
  <2>5. HaveOnly(NameKeys, named, k)
    BY <2>3, <2>4 DEF HaveOnly
  <2>6. Chosen(NameKeys, named) # <<>> /\ Chosen(NameKeys, named)[1] = k
    BY <2>1, <2>5, OnlyOneIsFirst
  <2> QED
    BY <2>6 DEF texts
<1>8. keys # <<>> /\ keys[1] = l
  <2>1. PriceKeys \in Seq(Range(PriceKeys)) /\ Len(PriceKeys) = 5 /\ DOMAIN PriceKeys = 1..5
    BY KeysAreLists
  <2>2. \A x : x \in Range(PriceKeys) <=> \E i \in 1..5 : x = PriceKeys[i]
    BY <2>1 DEF Range
  <2>3. \E i \in 1..Len(PriceKeys) : i \in priced
    BY <1>4, <1>6, <2>1, <2>2
  <2>4. \A i \in 1..Len(PriceKeys) : i \in priced => PriceKeys[i] = l
    BY <1>4, <1>6, <2>1, <2>2
  <2>5. HaveOnly(PriceKeys, priced, l)
    BY <2>3, <2>4 DEF HaveOnly
  <2>6. Chosen(PriceKeys, priced) # <<>> /\ Chosen(PriceKeys, priced)[1] = l
    BY <2>1, <2>5, OnlyOneIsFirst
  <2> QED
    BY <2>6 DEF keys
<1> HIDE DEF texts, keys
<1>9. NameOf(d) = f[k].text /\ PriceOf(d) = f[l].amount
  BY <1>1, <1>2, <1>3, <1>7, <1>8
<1>10. ParsedDict(d) = <<item>>
  BY <1>1, <1>5, <1>9 DEF ParsedDict
<1> HIDE DEF item
<1>11. item \in Range(<<item>>)
  BY DEF Range
<1>12. item \in Range(ParsedDict(d))
  BY <1>10, <1>11
<1> QED
  BY <1>12 DEF item, f

Once(items) == \A i, j \in DOMAIN items : items[i].name = items[j].name => i = j

(* The items that are joined are those of both lists, by name.             *)
LEMMA JoinedIsExact ==
  ASSUME NEW S, NEW items \in Seq(S), NEW more \in Seq(S), Once(items)
  PROVE  /\ Joined(items, more) \in Seq(S)
         /\ Range(items) \subseteq Range(Joined(items, more))
         /\ Range(Joined(items, more)) \subseteq Range(items) \cup Range(more)
         /\ Once(Joined(items, more))
         /\ \A x \in Range(more) : \E y \in Range(Joined(items, more)) : y.name = x.name
<1> DEFINE Taken(i) == Range(items) \cup {more[j] : j \in 1..(i - 1)}
           fresh == {i \in DOMAIN more : \A before \in Taken(i) : before.name # more[i].name}
           chosen == Chosen(more, fresh)
           n == Len(more)
           joined == items \o chosen
<1>1. Joined(items, more) = joined
  BY DEF Joined
<1>2. n \in Nat /\ DOMAIN more = 1..n /\ \A i \in 1..n : more[i] \in S
  OBVIOUS
<1>3. chosen \in Seq(S)
  <2> HIDE DEF fresh
  <2> QED
    BY ChosenIsExact
<1>4. PICK at : Picks(at, more, n, fresh, chosen)
  <2> HIDE DEF fresh
  <2> QED
    BY ChosenIsExact
<1>5. \A i \in fresh : i \in 1..n /\ \A before \in Taken(i) : before.name # more[i].name
  BY <1>2
<1>6. \A i \in 1..n : i \notin fresh => \E before \in Taken(i) : before.name = more[i].name
  BY <1>2
<1> HIDE DEF chosen, fresh, n
<1>7. joined \in Seq(S) /\ Range(joined) = Range(items) \cup Range(chosen)
  BY <1>3, ConcatIsUnion
<1>8. /\ Len(joined) = Len(items) + Len(chosen) /\ Len(items) \in Nat /\ Len(chosen) \in Nat
      /\ \A i \in 1..(Len(items) + Len(chosen)) :
           joined[i] = IF i <= Len(items) THEN items[i] ELSE chosen[i - Len(items)]
  BY <1>3, ConcatProperties
<1> HIDE DEF joined
<1>9. /\ at \in [1..Len(chosen) -> 1..n]
      /\ \A j, k \in 1..Len(chosen) : j < k => at[j] < at[k]
      /\ \A k \in 1..Len(chosen) : at[k] \in fresh /\ chosen[k] = more[at[k]]
      /\ \A i \in 1..n : i \in fresh => \E k \in 1..Len(chosen) : at[k] = i
  BY <1>4 DEF Picks
<1>10. DOMAIN joined = 1..(Len(items) + Len(chosen)) /\ DOMAIN chosen = 1..Len(chosen) /\ DOMAIN items = 1..Len(items)
  BY <1>3, <1>7, <1>8
<1>11. Range(chosen) \subseteq Range(more)
  <2> SUFFICES ASSUME NEW k \in 1..Len(chosen) PROVE chosen[k] \in Range(more)
    BY <1>10 DEF Range
  <2>1. at[k] \in DOMAIN more /\ chosen[k] = more[at[k]]
    BY <1>2, <1>9
  <2> QED
    BY <2>1 DEF Range
<1>12. ASSUME NEW j \in 1..Len(chosen), NEW k \in 1..Len(chosen), j < k PROVE chosen[j].name # chosen[k].name
  <2>1. at[j] \in 1..n /\ at[k] \in 1..n /\ at[j] < at[k] /\ chosen[j] = more[at[j]] /\ chosen[k] = more[at[k]]
    BY <1>9, <1>12
  <2>2. at[j] \in 1..(at[k] - 1)
    BY <1>2, <2>1
  <2>3. more[at[j]] \in Taken(at[k])
    BY <2>2
  <2>4. at[k] \in fresh
    BY <1>9
  <2> HIDE DEF Taken
  <2> QED
    BY <1>5, <2>1, <2>3, <2>4
<1>13. ASSUME NEW i \in DOMAIN items, NEW k \in 1..Len(chosen) PROVE items[i].name # chosen[k].name
  <2>1. at[k] \in fresh /\ chosen[k] = more[at[k]]
    BY <1>9
  <2>2. items[i] \in Taken(at[k])
    BY DEF Range
  <2> HIDE DEF Taken
  <2> QED
    BY <1>5, <2>1, <2>2
<1>14. Once(joined)
  <2> SUFFICES ASSUME NEW i \in DOMAIN joined, NEW j \in DOMAIN joined, i < j PROVE joined[i].name # joined[j].name
    BY <1>8, <1>10 DEF Once
  <2>1. CASE j <= Len(items)
    <3>1. joined[i] = items[i] /\ joined[j] = items[j] /\ i \in DOMAIN items /\ j \in DOMAIN items /\ i # j
      BY <1>8, <1>10, <2>1
    <3> QED
      BY <3>1 DEF Once
  <2>2. CASE j > Len(items) /\ i <= Len(items)
    <3>1. /\ joined[i] = items[i] /\ i \in DOMAIN items
          /\ joined[j] = chosen[j - Len(items)] /\ j - Len(items) \in 1..Len(chosen)
      BY <1>8, <1>10, <2>2
    <3> QED
      BY <1>13, <3>1
  <2>3. CASE j > Len(items) /\ i > Len(items)
    <3>1. /\ joined[i] = chosen[i - Len(items)] /\ i - Len(items) \in 1..Len(chosen)
          /\ joined[j] = chosen[j - Len(items)] /\ j - Len(items) \in 1..Len(chosen)
          /\ i - Len(items) < j - Len(items)
      BY <1>8, <1>10, <2>3
    <3> QED
      BY <1>12, <3>1
  <2> QED
    BY <1>8, <1>10, <2>1, <2>2, <2>3
<1>15. \A x \in Range(more) : \E y \in Range(joined) : y.name = x.name
  <2> DEFINE Named(i) == \E y \in Range(joined) : y.name = more[i].name
             Done == {m \in Nat : m <= n => \A i \in 1..m : Named(i)}
  <2>1. 0 \in Done
    OBVIOUS
  <2>2. ASSUME NEW m \in Nat, m \in Done PROVE m + 1 \in Done
    <3> SUFFICES ASSUME m + 1 <= n, NEW i \in 1..(m + 1) PROVE Named(i)
      OBVIOUS
    <3>1. (i \in 1..m \/ i = m + 1) /\ i \in 1..n /\ m <= n
      BY <1>2
    <3>2. \A j \in 1..m : Named(j)
      BY <2>2, <3>1
    <3>3. CASE i \in 1..m
      BY <3>2, <3>3
    <3>4. CASE i = m + 1
      <4>1. CASE i \in fresh
        <5>1. PICK k \in 1..Len(chosen) : at[k] = i
          BY <1>9, <3>1, <4>1
        <5>2. chosen[k] = more[i]
          BY <1>9, <5>1
        <5>3. chosen[k] \in Range(joined)
          BY <1>7, <1>10 DEF Range
        <5> QED
          BY <5>2, <5>3
      <4>2. CASE i \notin fresh
        <5>1. PICK before \in Taken(i) : before.name = more[i].name
          BY <1>6, <3>1, <4>2
        <5>2. CASE before \in Range(items)
          BY <1>7, <5>1, <5>2
        <5>3. CASE before \in {more[j] : j \in 1..(i - 1)}
          <6>1. PICK j \in 1..(i - 1) : before = more[j]
            BY <5>3
          <6>2. j \in 1..m
            BY <3>4, <6>1
          <6>3. Named(j)
            BY <3>2, <6>2
          <6> QED
            BY <5>1, <6>1, <6>3
        <5> QED
          BY <5>1, <5>2, <5>3
      <4> QED
        BY <4>1, <4>2
    <3> QED
      BY <3>1, <3>3, <3>4
  <2> HIDE DEF Done
  <2>3. Nat \subseteq Done
    BY <2>1, <2>2, Induction
  <2>4. \A i \in 1..n : Named(i)
    BY <1>2, <2>3 DEF Done
  <2> QED
    BY <1>2, <2>4 DEF Range
<1> QED
  BY <1>1, <1>7, <1>11, <1>14, <1>15

-----------------------------------------------------------------------------
(* What a merge of some of the strategies has made of a page. *)

OfferingOf(T, page) == {s \in T : ~Findings[s][page].raises /\ Findings[s][page].value # Null}

Weightiest(T, page) == {s \in OfferingOf(T, page) : \A t \in OfferingOf(T, page) : Weight[t] <= Weight[s]}

PartOf(T, page) == UNION {Range(Findings[s][page].items) : s \in {t \in T : ~Findings[t][page].raises}}

ValueIs(r, T, page) ==
  \/ OfferingOf(T, page) = {} /\ r.value = Null /\ r.weight = 0
  \/ \E s \in Weightiest(T, page) : r.value = Findings[s][page].value /\ r.weight = Weight[s]

ItemsAre(r, T, page) ==
  /\ Range(r.items) \subseteq PartOf(T, page)
  /\ Once(r.items)
  /\ \A x \in PartOf(T, page) : \E y \in Range(r.items) : y.name = x.name

Makes(r, T, page) == r \in Results /\ r.items \in Seq(Items) /\ ValueIs(r, T, page) /\ ItemsAre(r, T, page)

LEMMA ItemsArePriced == Seq(Items) \subseteq Seq(Priced)
<1>1. Items \subseteq Priced
  BY DEF Priced
<1> QED
  BY <1>1

LEMMA EmptyMakes == ASSUME NEW page PROVE Makes(Empty, {}, page)
<1>1. OfferingOf({}, page) = {} /\ PartOf({}, page) = {}
  BY DEF OfferingOf, PartOf
<1>2. /\ Empty.value = Null /\ Empty.weight = 0 /\ Empty.items = <<>>
      /\ Empty = [value |-> Null, weight |-> 0, items |-> <<>>]
  BY DEF Empty
<1>3. <<>> \in Seq(Items) /\ <<>> \in Seq(Priced) /\ Range(<<>>) = {} /\ DOMAIN <<>> = {}
  BY DEF Range
<1>4. Empty \in Results
  BY <1>2, <1>3 DEF Results, Values
<1> QED
  BY <1>1, <1>2, <1>3, <1>4 DEF Makes, ValueIs, ItemsAre, Once

LEMMA MergeMakes ==
  ASSUME NEW page \in Documents, NEW T \in SUBSET Names, NEW s \in Names, NEW r, Makes(r, T, page)
  PROVE  Makes(Merge(r, s, page), T \cup {s}, page)
<1> DEFINE offer == Findings[s][page]
           U == T \cup {s}
           m == Merge(r, s, page)
<1>0. \A t \in Names : Weight[t] \in Nat /\ Weight[t] > 0
  <2>1. \A t \in Names : Weight[t] \in 1..100
    BY ParsingAssumption
  <2> SUFFICES ASSUME NEW t \in Names PROVE Weight[t] \in Nat /\ Weight[t] > 0
    OBVIOUS
  <2>2. Weight[t] \in 1..100
    BY <2>1
  <2> QED
    BY <2>2
<1>1. r \in Results /\ r.items \in Seq(Items) /\ ValueIs(r, T, page) /\ ItemsAre(r, T, page)
  BY DEF Makes
<1>2. CASE offer.raises
  <2>1. OfferingOf(U, page) = OfferingOf(T, page) /\ PartOf(U, page) = PartOf(T, page)
    BY <1>2 DEF OfferingOf, PartOf
  <2>2. m = r
    BY <1>2 DEF Merge
  <2> QED
    BY <1>1, <2>1, <2>2 DEF Makes, ValueIs, ItemsAre, Weightiest
<1>3. CASE ~offer.raises
  <2> DEFINE wins == offer.value # Null /\ Weight[s] > r.weight
             found == offer.items
  <2>1. m = [value |-> IF wins THEN offer.value ELSE r.value,
             weight |-> IF wins THEN Weight[s] ELSE r.weight,
             items |-> Joined(r.items, found)]
    BY <1>3 DEF Merge, ShouldReplace
  <2>2. offer.items \in Seq(Items)
    BY ParsingAssumption
  <2>3. offer.value \in Values
    BY DEF Values
  <2>4. found \in Seq(Items)
    BY <2>2
  <2>5. PartOf(U, page) = PartOf(T, page) \cup Range(found)
    <3>1. {t \in U : ~Findings[t][page].raises} = {t \in T : ~Findings[t][page].raises} \cup {s}
      BY <1>3
    <3> QED
      BY <3>1 DEF PartOf
  <2> HIDE DEF found, m
  <2>6. /\ Joined(r.items, found) \in Seq(Items)
        /\ Range(r.items) \subseteq Range(Joined(r.items, found))
        /\ Range(Joined(r.items, found)) \subseteq Range(r.items) \cup Range(found)
        /\ Once(Joined(r.items, found))
        /\ \A x \in Range(found) : \E y \in Range(Joined(r.items, found)) : y.name = x.name
    BY <1>1, <2>4, JoinedIsExact DEF ItemsAre
  <2>7. /\ m.value = IF wins THEN offer.value ELSE r.value
        /\ m.weight = IF wins THEN Weight[s] ELSE r.weight
        /\ m.items = Joined(r.items, found)
    BY <2>1
  <2>8. ItemsAre(m, U, page)
    <3>1. Range(m.items) \subseteq PartOf(U, page)
      BY <1>1, <2>5, <2>6, <2>7 DEF ItemsAre
    <3>2. Once(m.items)
      BY <2>6, <2>7
    <3>3. ASSUME NEW x \in PartOf(U, page) PROVE \E y \in Range(m.items) : y.name = x.name
      <4>1. CASE x \in Range(found)
        BY <2>6, <2>7, <4>1
      <4>2. CASE x \in PartOf(T, page)
        <5>1. PICK y \in Range(r.items) : y.name = x.name
          BY <1>1, <4>2 DEF ItemsAre
        <5>2. y \in Range(m.items)
          BY <2>6, <2>7, <5>1
        <5> QED
          BY <5>1, <5>2
      <4> QED
        BY <2>5, <4>1, <4>2
    <3> QED
      BY <3>1, <3>2, <3>3 DEF ItemsAre
  <2>9. m \in Results /\ m.items \in Seq(Items)
    <3>1. r.value \in Values /\ r.weight \in {0} \cup {Weight[t] : t \in Names}
      BY <1>1 DEF Results
    <3>2. Joined(r.items, found) \in Seq(Priced)
      BY <2>6, ItemsArePriced
    <3>3. (IF wins THEN offer.value ELSE r.value) \in Values
      BY <2>3, <3>1
    <3>4. (IF wins THEN Weight[s] ELSE r.weight) \in {0} \cup {Weight[t] : t \in Names}
      BY <3>1
    <3> HIDE DEF wins
    <3> QED
      BY <2>1, <2>6, <2>7, <3>2, <3>3, <3>4 DEF Results
  <2>10. ValueIs(m, U, page)
    <3>1. CASE offer.value = Null
      <4>1. OfferingOf(U, page) = OfferingOf(T, page)
        BY <3>1 DEF OfferingOf
      <4>2. m.value = r.value /\ m.weight = r.weight
        BY <2>7, <3>1
      <4> QED
        BY <1>1, <4>1, <4>2 DEF ValueIs, Weightiest
    <3>2. CASE offer.value # Null
      <4>1. OfferingOf(U, page) = OfferingOf(T, page) \cup {s}
        BY <1>3, <3>2 DEF OfferingOf
      <4>2. CASE OfferingOf(T, page) = {}
        <5>1. r.weight = 0
          BY <1>1, <4>2 DEF ValueIs, Weightiest
        <5>2. wins
          BY <1>0, <3>2, <5>1
        <5>3. OfferingOf(U, page) = {s}
          BY <4>1, <4>2
        <5>4. s \in Weightiest(U, page)
          BY <1>0, <5>3 DEF Weightiest
        <5> QED
          BY <2>7, <5>2, <5>4 DEF ValueIs
      <4>3. CASE OfferingOf(T, page) # {}
        <5>1. PICK t \in Weightiest(T, page) : r.value = Findings[t][page].value /\ r.weight = Weight[t]
          BY <1>1, <4>3 DEF ValueIs
        <5>2. t \in OfferingOf(T, page) /\ t \in Names /\ \A u \in OfferingOf(T, page) : u \in Names /\ Weight[u] <= Weight[t]
          BY <5>1 DEF Weightiest, OfferingOf
        <5>3. CASE wins
          <6>1. \A u \in OfferingOf(U, page) : Weight[u] <= Weight[s]
            <7> SUFFICES ASSUME NEW u \in OfferingOf(U, page) PROVE Weight[u] <= Weight[s]
              OBVIOUS
            <7>1. CASE u = s
              BY <1>0, <7>1
            <7>2. CASE u \in OfferingOf(T, page)
              <8>1. Weight[u] <= Weight[t] /\ Weight[t] < Weight[s] /\ u \in Names /\ t \in Names
                BY <5>1, <5>2, <5>3, <7>2
              <8>2. Weight[u] \in Nat /\ Weight[t] \in Nat /\ Weight[s] \in Nat
                BY <1>0, <8>1
              <8> QED
                BY <8>1, <8>2
            <7> QED
              BY <4>1, <7>1, <7>2
          <6>2. s \in Weightiest(U, page)
            BY <4>1, <6>1 DEF Weightiest
          <6> QED
            BY <2>7, <5>3, <6>2 DEF ValueIs
        <5>4. CASE ~wins
          <6>1. Weight[s] <= Weight[t]
            <7>1. Weight[s] \in Nat /\ Weight[t] \in Nat
              BY <1>0, <5>2
            <7> QED
              BY <3>2, <5>1, <5>4, <7>1
          <6>2. t \in Weightiest(U, page)
            BY <4>1, <5>2, <6>1 DEF Weightiest
          <6> QED
            BY <2>7, <5>1, <5>4, <6>2 DEF ValueIs
        <5> QED
          BY <5>3, <5>4
      <4> QED
        BY <4>2, <4>3
    <3> QED
      BY <3>1, <3>2
  <2> QED
    BY <2>8, <2>9, <2>10 DEF Makes, m
<1> QED
  BY <1>2, <1>3

(* A ranking leaves no strategy out. *)
LEMMA RankedIsComplete ==
  ASSUME NEW p \in Parsers, stats \in [Parsers -> Statistics]
  PROVE  /\ Ranked(p) \in [1..Len(Strategies) -> Names]
         /\ \A s \in Names : \E k \in 1..Len(Strategies) : Ranked(p)[k] = s
<1> DEFINE n == Len(Strategies)
           rank == [i \in DOMAIN Strategies |-> Composite(stats[p][Strategies[i]])]
           order == Sorted(rank)
<1>1. n \in Nat /\ DOMAIN Strategies = 1..n /\ Names = {Strategies[i] : i \in 1..n}
  BY ParsingAssumption DEF Names, Range
<1>2. ASSUME NEW i \in 1..n PROVE Composite(stats[p][Strategies[i]]) \in Int
  <2> DEFINE st == stats[p][Strategies[i]]
  <2>1. st \in [runs : 0..MaxRuns, wins : Nat, time : Nat]
    <3>1. stats[p] \in [Names -> [runs : 0..MaxRuns, wins : Nat, time : Nat]]
      BY DEF Statistics
    <3>2. Strategies[i] \in Names
      BY <1>1
    <3> QED
      BY <3>1, <3>2
  <2> HIDE DEF st
  <2>2. st.runs \in Nat /\ st.wins \in Nat /\ st.time \in Nat
    BY <2>1, ParsingAssumption
  <2>3. ASSUME st.runs # 0 PROVE (500 * st.wins) \div st.runs \in Int
    BY <2>2, <2>3
  <2>4. ASSUME st.runs # 0 PROVE (200 * (2 * st.runs - st.time)) \div (2 * st.runs) \in Int
    BY <2>2, <2>4
  <2> DEFINE won == (500 * st.wins) \div st.runs
             spared == (200 * (2 * st.runs - st.time)) \div (2 * st.runs)
  <2>5. Composite(st) = IF st.runs = 0 THEN 250 + 180 ELSE won + (IF 2 * st.runs > st.time THEN spared ELSE 0)
    BY DEF Composite
  <2>6. st.runs # 0 => won \in Int /\ spared \in Int
    BY <2>3, <2>4
  <2> HIDE DEF won, spared
  <2>7. Composite(st) \in Int
    BY <2>5, <2>6
  <2> QED
    BY <2>7 DEF st
<1>3. rank \in [1..n -> Int]
  BY <1>1, <1>2
<1>4. Ranked(p) = [k \in 1..n |-> Strategies[order[k]]]
  BY <1>1 DEF Ranked
<1> HIDE DEF n, rank
<1>5. Sorts(order, n, rank)
  BY <1>1, <1>3, SortedSorts
<1> HIDE DEF order
<1>6. order \in [1..n -> 1..n] /\ \A i \in 1..n : \E k \in 1..n : order[k] = i
  BY <1>5 DEF Sorts
<1>7. \A k \in 1..n : Strategies[order[k]] \in Names
  BY <1>1, <1>6
<1>8. ASSUME NEW s \in Names PROVE \E k \in 1..n : Ranked(p)[k] = s
  <2>1. PICK i \in 1..n : s = Strategies[i]
    BY <1>1
  <2>2. PICK k \in 1..n : order[k] = i
    BY <1>6
  <2> QED
    BY <1>4, <2>1, <2>2
<1> QED
  BY <1>4, <1>7, <1>8 DEF n

(* What a parse makes of a page, in whatever order the strategies go.      *)
LEMMA ParsedMakes ==
  ASSUME NEW p \in Parsers, NEW page \in Documents, stats \in [Parsers -> Statistics]
  PROVE  Makes(Parsed(p, page), Names, page)
<1> DEFINE n == Len(Strategies)
           order == Ranked(p)
           To(m) == {order[i] : i \in 1..m}
           S == {r \in Results : \E T \in SUBSET Names : Makes(r, T, page)}
           step == [a \in S \X (1..n) |-> Merge(a[1], order[a[2]], page)]
           Made(g) == [m \in 0..n |-> IF m = 0 THEN Empty ELSE Merge(g[m - 1], order[m], page)]
           made == CHOOSE g : g = Made(g)
<1>1. n \in Nat
  BY ParsingAssumption
<1>2. order \in [1..n -> Names] /\ \A s \in Names : \E k \in 1..n : order[k] = s
  BY RankedIsComplete
<1>3. Parsed(p, page) = made[n]
  BY DEF Parsed
<1> HIDE DEF order, n
<1>4. Makes(Empty, {}, page)
  BY EmptyMakes
<1>5. Empty \in S
  BY <1>4 DEF Makes
<1>6. ASSUME NEW r \in S, NEW i \in 1..n PROVE Merge(r, order[i], page) \in S
  <2>1. PICK T \in SUBSET Names : Makes(r, T, page)
    OBVIOUS
  <2>2. order[i] \in Names
    BY <1>2
  <2>3. Makes(Merge(r, order[i], page), T \cup {order[i]}, page)
    BY <2>1, <2>2, MergeMakes
  <2> QED
    BY <2>2, <2>3 DEF Makes
<1> HIDE DEF S
<1>7. step \in [S \X (1..n) -> S]
  <2>1. \A a \in S \X (1..n) : a[1] \in S /\ a[2] \in 1..n
    OBVIOUS
  <2>2. \A a \in S \X (1..n) : Merge(a[1], order[a[2]], page) \in S
    BY <1>6, <2>1
  <2> QED
    BY <2>2
<1>8. \A r \in S, i \in 1..n : step[<<r, i>>] = Merge(r, order[i], page)
  OBVIOUS
<1> HIDE DEF step
<1>9. PICK f \in [0..n -> S] : f[0] = Empty /\ \A i \in 1..n : f[i] = step[<<f[i - 1], i>>]
  <2>1. Iterates(step, n, S, Empty)
    BY <1>1, <1>5, <1>7, Iteration
  <2> QED
    BY <2>1 DEF Iterates
<1>10. f = Made(f)
  <2>1. ASSUME NEW m \in 0..n PROVE f[m] = IF m = 0 THEN Empty ELSE Merge(f[m - 1], order[m], page)
    <3>1. CASE m = 0
      BY <1>9, <3>1
    <3>2. CASE m # 0
      <4>1. m \in 1..n /\ m - 1 \in 0..n
        BY <1>1, <3>2
      <4>2. f[m] = step[<<f[m - 1], m>>] /\ f[m - 1] \in S
        BY <1>9, <4>1
      <4>3. f[m] = Merge(f[m - 1], order[m], page)
        BY <1>8, <4>1, <4>2
      <4> QED
        BY <3>2, <4>3
    <3> QED
      BY <3>1, <3>2
  <2>2. f = [m \in 0..n |-> f[m]]
    OBVIOUS
  <2> QED
    BY <2>1, <2>2
<1>11. made = Made(made)
  <2> HIDE DEF Made
  <2> QED
    BY <1>10
<1> HIDE DEF made
<1>12. \A m \in 0..n : made[m] = IF m = 0 THEN Empty ELSE Merge(made[m - 1], order[m], page)
  <2>1. \A m \in 0..n : Made(made)[m] = IF m = 0 THEN Empty ELSE Merge(made[m - 1], order[m], page)
    OBVIOUS
  <2> HIDE DEF Made
  <2> QED
    BY <1>11, <2>1
<1> HIDE DEF Made
<1> DEFINE Done == {m \in Nat : m <= n => Makes(made[m], To(m), page)}
<1>13. 0 \in Done
  <2>1. 0 \in 0..n
    BY <1>1
  <2>2. made[0] = Empty
    BY <1>12, <2>1
  <2>3. To(0) = {}
    OBVIOUS
  <2> HIDE DEF To
  <2> QED
    BY <1>4, <2>2, <2>3
<1>14. ASSUME NEW m \in Nat, m \in Done PROVE m + 1 \in Done
  <2> SUFFICES ASSUME m + 1 <= n PROVE Makes(made[m + 1], To(m + 1), page)
    OBVIOUS
  <2>1. m + 1 \in 1..n /\ m + 1 \in 0..n /\ m + 1 # 0 /\ (m + 1) - 1 = m /\ m <= n
    BY <1>1
  <2>2. made[m + 1] = Merge(made[m], order[m + 1], page)
    BY <1>12, <2>1
  <2>3. Makes(made[m], To(m), page)
    BY <1>14, <2>1
  <2>4. To(m + 1) = To(m) \cup {order[m + 1]}
    <3>1. \A i : i \in 1..(m + 1) <=> i \in 1..m \/ i = m + 1
      BY <2>1
    <3> QED
      BY <3>1
  <2>5. To(m) \in SUBSET Names /\ order[m + 1] \in Names
    <3>1. \A i \in 1..m : i \in 1..n
      BY <1>1, <2>1
    <3>2. \A i \in 1..m : order[i] \in Names
      BY <1>2, <3>1
    <3> QED
      BY <1>2, <2>1, <3>2
  <2> HIDE DEF To
  <2> QED
    BY <2>2, <2>3, <2>4, <2>5, MergeMakes
<1> HIDE DEF Done
<1>15. Nat \subseteq Done
  BY <1>13, <1>14, Induction
<1>16. Makes(made[n], To(n), page)
  <2> HIDE DEF To
  <2>1. \A m \in Nat : m <= n => Makes(made[m], To(m), page)
    BY <1>15 DEF Done
  <2>2. n <= n
    BY <1>1
  <2> QED
    BY <1>1, <2>1, <2>2
<1>17. To(n) = Names
  BY <1>2
<1> HIDE DEF To
<1> QED
  BY <1>3, <1>16, <1>17

-----------------------------------------------------------------------------
(* The inductive invariant of Parsing. *)

PlacesOf(at, items, kept) ==
  /\ at \in [1..Len(kept) -> 1..Len(items)]
  /\ \A i, j \in 1..Len(kept) : at[i] = at[j] => i = j
  /\ \A k \in 1..Len(kept) : kept[k] = items[at[k]]

(* The entries among the items, each of them once. *)
LEMMA AcceptedIsExact ==
  ASSUME NEW S, NEW items \in Seq(S)
  PROVE  /\ Accepted(items) \in Seq(S)
         /\ \A x : x \in Range(Accepted(items)) <=> x \in Range(items) /\ IsEntry(x)
         /\ \E at : PlacesOf(at, items, Accepted(items))
<1> DEFINE places == {i \in DOMAIN items : IsEntry(items[i])}
           kept == Accepted(items)
<1>1. kept = Chosen(items, places)
  BY DEF Accepted
<1>2. DOMAIN items = 1..Len(items) /\ \A i : i \in places <=> i \in 1..Len(items) /\ IsEntry(items[i])
  OBVIOUS
<1> HIDE DEF places, kept
<1>3. kept \in Seq(S) /\ Range(kept) = {items[i] : i \in {j \in 1..Len(items) : j \in places}}
  BY <1>1, ChosenIsExact, ChosenRange
<1>4. PICK at : Picks(at, items, Len(items), places, kept)
  BY <1>1, ChosenIsExact
<1>5. Range(items) = {items[i] : i \in 1..Len(items)}
  BY <1>2 DEF Range
<1>6. \A x : x \in Range(kept) <=> x \in Range(items) /\ IsEntry(x)
  BY <1>2, <1>3, <1>5
<1>7. PlacesOf(at, items, kept)
  <2>1. /\ at \in [1..Len(kept) -> 1..Len(items)] /\ Len(kept) \in Nat /\ Len(items) \in Nat
        /\ \A j, k \in 1..Len(kept) : j < k => at[j] < at[k]
        /\ \A k \in 1..Len(kept) : kept[k] = items[at[k]]
    BY <1>3, <1>4 DEF Picks
  <2>2. ASSUME NEW i \in 1..Len(kept), NEW j \in 1..Len(kept), at[i] = at[j] PROVE i = j
    <3>1. at[i] \in 1..Len(items) /\ at[j] \in 1..Len(items)
      BY <2>1
    <3>2. ~(at[i] < at[j]) /\ ~(at[j] < at[i])
      BY <2>1, <2>2, <3>1
    <3>3. ~(i < j) /\ ~(j < i)
      BY <2>1, <3>2
    <3> QED
      BY <2>1, <3>3
  <2> QED
    BY <2>1, <2>2 DEF PlacesOf
<1> QED
  BY <1>3, <1>6, <1>7 DEF kept

NamedOnce(items, added) ==
  \A i, j \in DOMAIN items : items[i].name = items[j].name => i = j \/ items[i] \in added \/ items[j] \in added

(* An entry of the cache: its value is a weightiest strategy's, each name  *)
(* of the page is there, and what is not of the page is in its "added".    *)
IsSound(e) ==
  /\ e \in Entries
  /\ ValueIs(e.result, Names, e.page)
  /\ Range(e.result.items) \subseteq FoundOn(e.page) \cup e.added
  /\ \A x \in FoundOn(e.page) : \E y \in Range(e.result.items) \cap FoundOn(e.page) : y.name = x.name
  /\ NamedOnce(e.result.items, e.added)

OnePerPage(c) == \A i, j \in DOMAIN c : c[i].page = c[j].page => i = j

IsSoundCache(c) ==
  /\ c \in Seq(Entries)
  /\ \A e \in Range(c) : IsSound(e) /\ Len(e.result.items) <= MaxItems
  /\ OnePerPage(c)

StatisticsAreTyped == stats \in [Parsers -> Statistics] /\ file \in Statistics

(* What a parser hands over is what is accepted of an entry, and the price *)
(* parser's entry has what this call's answers say.                        *)
HandsOver(d, e) ==
  /\ d.to \in Parsers
  /\ d.page = e.page /\ d.added = e.added
  /\ d.value = e.result.value /\ d.items = Accepted(e.result.items)
  /\ d.to = Pricing =>
       /\ d.api \in ApiAnswers
       /\ Range(ExtractPricing(d.api)) \subseteq Range(e.result.items) \cap e.added

DeliveryIsSound == delivered # Null => \E e \in Range(cache) : HandsOver(delivered, e)

ParseIInv ==
  /\ IsSoundCache(cache) /\ Len(cache) <= CacheSize
  /\ StatisticsAreTyped
  /\ DeliveryIsSound

LEMMA FreshIsSound ==
  ASSUME NEW p \in Parsers, NEW page \in Documents, stats \in [Parsers -> Statistics]
  PROVE  IsSound([page |-> page, aged |-> FALSE, result |-> Parsed(p, page), added |-> {}])
<1> DEFINE r == Parsed(p, page)
           e == [page |-> page, aged |-> FALSE, result |-> r, added |-> {}]
<1>1. Makes(r, Names, page)
  BY ParsedMakes
<1> HIDE DEF r
<1>2. r \in Results /\ ValueIs(r, Names, page) /\ ItemsAre(r, Names, page)
  BY <1>1 DEF Makes
<1>3. e \in Entries
  BY <1>2 DEF Entries
<1>4. e.page = page /\ e.result = r /\ e.added = {}
  OBVIOUS
<1>5. FoundOn(page) = PartOf(Names, page)
  BY DEF FoundOn, PartOf
<1> HIDE DEF e
<1>6. /\ Range(r.items) \subseteq FoundOn(page)
      /\ \A x \in FoundOn(page) : \E y \in Range(r.items) : y.name = x.name
      /\ Once(r.items)
  BY <1>2, <1>5 DEF ItemsAre
<1>7. NamedOnce(r.items, {})
  BY <1>6 DEF Once, NamedOnce
<1>8. \A x \in FoundOn(page) : \E y \in Range(r.items) \cap FoundOn(page) : y.name = x.name
  BY <1>6
<1>9. IsSound(e)
  BY <1>2, <1>3, <1>4, <1>6, <1>7, <1>8 DEF IsSound
<1> QED
  BY <1>9 DEF e, r

(* What the pricing collector adds leaves an entry sound.                  *)
LEMMA ExtendedIsSound ==
  ASSUME NEW p \in Parsers, NEW entry, IsSound(entry), NEW api, p = Pricing => api \in ApiAnswers
  PROVE  /\ IsSound(Extended(p, entry, api))
         /\ Extended(p, entry, api).page = entry.page
         /\ p = Pricing =>
              Range(ExtractPricing(api)) \subseteq
                Range(Extended(p, entry, api).result.items) \cap Extended(p, entry, api).added
<1>1. CASE p # Pricing
  <2>1. Extended(p, entry, api) = entry
    BY <1>1 DEF Extended
  <2> QED
    BY <1>1, <2>1
<1>2. CASE p = Pricing
  <2> DEFINE more == ExtractPricing(api)
             items == entry.result.items
             joined == items \o more
             ext == [entry EXCEPT !.result.items = @ \o more, !.added = @ \cup Range(more)]
             grown == [entry.result EXCEPT !.items = joined]
             added == entry.added \cup Range(more)
  <2>1. Extended(p, entry, api) = ext
    BY <1>2 DEF Extended
  <2>2. /\ entry \in Entries
        /\ ValueIs(entry.result, Names, entry.page)
        /\ Range(items) \subseteq FoundOn(entry.page) \cup entry.added
        /\ \A x \in FoundOn(entry.page) : \E y \in Range(items) \cap FoundOn(entry.page) : y.name = x.name
        /\ NamedOnce(items, entry.added)
    BY DEF IsSound
  <2>3. /\ entry.result \in Results /\ entry.page \in Documents /\ entry.aged \in BOOLEAN
        /\ entry.added \in SUBSET Priced
        /\ entry = [page |-> entry.page, aged |-> entry.aged, result |-> entry.result, added |-> entry.added]
    BY <2>2 DEF Entries
  <2>4. /\ items \in Seq(Priced)
        /\ entry.result.value \in Values
        /\ entry.result.weight \in {0} \cup {Weight[s] : s \in Names}
        /\ entry.result = [value |-> entry.result.value, weight |-> entry.result.weight, items |-> items]
    BY <2>3 DEF Results
  <2>5. more \in Seq(Priced)
    BY <1>2, ExtractPricingIsUnion
  <2> HIDE DEF more
  <2>6. ext = [page |-> entry.page, aged |-> entry.aged, result |-> grown, added |-> added]
    <3>1. ext = [entry EXCEPT !.result = grown, !.added = added]
      OBVIOUS
    <3> HIDE DEF ext, grown, added
    <3> QED
      BY <2>2, <3>1 DEF Entries
  <2>7. grown = [value |-> entry.result.value, weight |-> entry.result.weight, items |-> joined]
    <3> HIDE DEF joined
    <3> QED
      BY <2>3 DEF Results
  <2> HIDE DEF items, ext
  <2>8. joined \in Seq(Priced) /\ Range(joined) = Range(items) \cup Range(more)
    BY <2>4, <2>5, ConcatIsUnion
  <2>9. NamedOnce(joined, added)
    <3>1. /\ Len(items) \in Nat /\ Len(more) \in Nat /\ DOMAIN joined = 1..(Len(items) + Len(more))
          /\ DOMAIN items = 1..Len(items)
          /\ \A i \in 1..(Len(items) + Len(more)) : joined[i] = IF i <= Len(items) THEN items[i] ELSE more[i - Len(items)]
      BY <2>4, <2>5, <2>8, ConcatProperties
    <3> HIDE DEF joined
    <3>2. \A k \in 1..Len(more) : more[k] \in Range(more)
      BY <2>5 DEF Range
    <3>3. ASSUME NEW i \in 1..(Len(items) + Len(more)), i \notin 1..Len(items) PROVE joined[i] \in Range(more)
      <4>1. i - Len(items) \in 1..Len(more) /\ ~(i <= Len(items))
        BY <3>1, <3>3
      <4>2. joined[i] = more[i - Len(items)]
        BY <3>1, <4>1
      <4> QED
        BY <3>2, <4>1, <4>2
    <3>4. \A i \in 1..Len(items) : joined[i] = items[i]
      <4> SUFFICES ASSUME NEW i \in 1..Len(items) PROVE joined[i] = items[i]
        OBVIOUS
      <4>1. i \in 1..(Len(items) + Len(more)) /\ i <= Len(items)
        BY <3>1
      <4> QED
        BY <3>1, <4>1
    <3>5. ASSUME NEW i \in 1..(Len(items) + Len(more)), NEW j \in 1..(Len(items) + Len(more)), joined[i].name = joined[j].name
          PROVE  i = j \/ joined[i] \in added \/ joined[j] \in added
      <4>1. CASE i \in 1..Len(items) /\ j \in 1..Len(items)
        BY <2>2, <3>1, <3>4, <3>5, <4>1 DEF NamedOnce
      <4>2. CASE i \notin 1..Len(items)
        BY <3>3, <4>2
      <4>3. CASE j \notin 1..Len(items)
        BY <3>3, <4>3
      <4> QED
        BY <4>1, <4>2, <4>3
    <3> QED
      BY <3>1, <3>5 DEF NamedOnce
  <2> HIDE DEF joined
  <2>10. grown \in Results
    BY <2>4, <2>7, <2>8 DEF Results
  <2>11. added \in SUBSET Priced
    <3>1. Range(more) \subseteq Priced
      BY <2>5 DEF Range
    <3> QED
      BY <2>3, <3>1
  <2>12. ValueIs(grown, Names, entry.page)
    <3>1. grown.value = entry.result.value /\ grown.weight = entry.result.weight
      BY <2>7
    <3> HIDE DEF grown
    <3> QED
      BY <2>2, <3>1 DEF ValueIs
  <2>13. grown.items = joined
    BY <2>7
  <2> HIDE DEF grown
  <2>14. added = entry.added \cup Range(more)
    OBVIOUS
  <2> HIDE DEF added
  <2>15. ext \in Entries
    BY <2>3, <2>6, <2>10, <2>11 DEF Entries
  <2>16. ext.page = entry.page /\ ext.result = grown /\ ext.added = added
    BY <2>6
  <2>17. Range(joined) \subseteq FoundOn(entry.page) \cup added
    BY <2>2, <2>8, <2>14 DEF items
  <2>18. \A x \in FoundOn(entry.page) : \E y \in Range(joined) \cap FoundOn(entry.page) : y.name = x.name
    BY <2>2, <2>8 DEF items
  <2>19. IsSound(ext)
    BY <2>9, <2>12, <2>13, <2>15, <2>16, <2>17, <2>18 DEF IsSound
  <2> QED
    BY <2>1, <2>8, <2>13, <2>14, <2>16, <2>19 DEF more
<1> QED
  BY <1>1, <1>2

(* A cache without a page's entry is shorter if it had one.                *)
LEMMA WithoutIsExact ==
  ASSUME NEW page, IsSoundCache(cache), Len(cache) <= CacheSize
  PROVE  /\ IsSoundCache(Without(page))
         /\ Len(Without(page)) <= CacheSize
         /\ \A e \in Range(Without(page)) : e.page # page
         /\ (\E e \in Range(cache) : e.page = page) => Len(Without(page)) < CacheSize
<1> DEFINE places == {i \in DOMAIN cache : cache[i].page # page}
           rest == Without(page)
<1>1. rest = Chosen(cache, places)
  BY DEF Without
<1>2. cache \in Seq(Entries) /\ \A i : i \in places <=> i \in 1..Len(cache) /\ cache[i].page # page
  BY DEF IsSoundCache
<1> HIDE DEF places, rest
<1>3. /\ rest \in Seq(Entries) /\ Len(rest) <= Len(cache)
      /\ (\E i \in 1..Len(cache) : i \notin places) => Len(rest) < Len(cache)
      /\ Range(rest) = {cache[i] : i \in {j \in 1..Len(cache) : j \in places}}
  BY <1>1, <1>2, ChosenIsExact, ChosenRange
<1>4. PICK at : Picks(at, cache, Len(cache), places, rest)
  BY <1>1, <1>2, ChosenIsExact
<1>5. /\ Len(rest) \in Nat /\ Len(cache) \in Nat /\ CacheSize \in Nat /\ Len(cache) <= CacheSize
      /\ DOMAIN rest = 1..Len(rest) /\ DOMAIN cache = 1..Len(cache)
  BY <1>2, <1>3, ParsingAssumption
<1>6. Range(cache) = {cache[i] : i \in 1..Len(cache)}
  BY <1>5 DEF Range
<1>7. Len(rest) <= CacheSize
  BY <1>3, <1>5
<1>8. \A e \in Range(rest) : e.page # page /\ e \in Range(cache)
  BY <1>2, <1>3, <1>6
<1>9. ASSUME NEW e \in Range(cache), e.page = page PROVE Len(rest) < CacheSize
  <2>1. PICK i \in 1..Len(cache) : e = cache[i]
    BY <1>6
  <2>2. i \notin places
    BY <1>2, <1>9, <2>1
  <2>3. Len(rest) < Len(cache)
    BY <1>3, <2>2
  <2> QED
    BY <1>5, <2>3
<1>10. OnePerPage(rest)
  <2>1. /\ at \in [1..Len(rest) -> 1..Len(cache)]
        /\ \A j, k \in 1..Len(rest) : j < k => at[j] < at[k]
        /\ \A k \in 1..Len(rest) : rest[k] = cache[at[k]]
    BY <1>4 DEF Picks
  <2>2. \A i, j \in 1..Len(cache) : cache[i].page = cache[j].page => i = j
    BY <1>5 DEF IsSoundCache, OnePerPage
  <2>3. ASSUME NEW j \in 1..Len(rest), NEW k \in 1..Len(rest), rest[j].page = rest[k].page PROVE j = k
    <3>1. at[j] \in 1..Len(cache) /\ at[k] \in 1..Len(cache) /\ rest[j] = cache[at[j]] /\ rest[k] = cache[at[k]]
      BY <2>1
    <3>2. at[j] = at[k]
      BY <2>2, <2>3, <3>1
    <3>3. ~(at[j] < at[k]) /\ ~(at[k] < at[j])
      BY <3>1, <3>2
    <3>4. ~(j < k) /\ ~(k < j)
      BY <2>1, <3>3
    <3> QED
      BY <1>5, <3>4
  <2> QED
    BY <1>5, <2>3 DEF OnePerPage
<1>11. IsSoundCache(rest)
  BY <1>3, <1>8, <1>10 DEF IsSoundCache
<1> QED
  BY <1>7, <1>8, <1>9, <1>11 DEF rest

(* A cache takes a sound entry of a page that it does not have.            *)
LEMMA AppendIsSound ==
  ASSUME NEW rest, IsSoundCache(rest), Len(rest) < CacheSize,
         NEW e, IsSound(e), Len(e.result.items) <= MaxItems,
         \A other \in Range(rest) : other.page # e.page
  PROVE  /\ IsSoundCache(Append(rest, e)) /\ Len(Append(rest, e)) <= CacheSize
         /\ e \in Range(Append(rest, e))
<1> DEFINE n == Len(rest)
           c == Append(rest, e)
<1>1. rest \in Seq(Entries) /\ e \in Entries /\ n \in Nat /\ CacheSize \in Nat /\ DOMAIN rest = 1..n
  BY ParsingAssumption DEF IsSoundCache, IsSound
<1>2. c \in Seq(Entries) /\ Len(c) = n + 1 /\ (\A i \in 1..n : c[i] = rest[i]) /\ c[n + 1] = e
  BY <1>1, AppendProperties
<1> HIDE DEF c
<1>3. DOMAIN c = 1..(n + 1) /\ \A i \in 1..(n + 1) : i \in 1..n \/ i = n + 1
  BY <1>1, <1>2
<1>4. \A i \in 1..n : rest[i] \in Range(rest)
  BY <1>1 DEF Range
<1>5. ASSUME NEW x \in Range(c) PROVE x = e \/ x \in Range(rest)
  <2>1. PICK i \in 1..(n + 1) : x = c[i]
    BY <1>3 DEF Range
  <2> QED
    BY <1>2, <1>3, <1>4, <2>1
<1>6. e \in Range(c)
  <2>1. n + 1 \in DOMAIN c
    BY <1>1, <1>3
  <2> QED
    BY <1>2, <2>1 DEF Range
<1>7. \A x \in Range(c) : IsSound(x) /\ Len(x.result.items) <= MaxItems
  BY <1>5 DEF IsSoundCache
<1> HIDE DEF n
<1>8. OnePerPage(c)
  <2>1. \A i, j \in 1..n : rest[i].page = rest[j].page => i = j
    BY <1>1 DEF IsSoundCache, OnePerPage
  <2>2. ASSUME NEW i \in 1..(n + 1), NEW j \in 1..(n + 1), c[i].page = c[j].page PROVE i = j
    <3>1. CASE i \in 1..n /\ j \in 1..n
      BY <1>2, <2>1, <2>2, <3>1
    <3>2. CASE i \in 1..n /\ j = n + 1
      BY <1>2, <1>4, <2>2, <3>2
    <3>3. CASE i = n + 1 /\ j \in 1..n
      BY <1>2, <1>4, <2>2, <3>3
    <3> QED
      BY <1>3, <3>1, <3>2, <3>3
  <2> QED
    BY <1>3, <2>2 DEF OnePerPage
<1>9. Len(c) <= CacheSize
  BY <1>1, <1>2 DEF n
<1> QED
  BY <1>2, <1>6, <1>7, <1>8, <1>9 DEF c, IsSoundCache

(* So does a full one, for its least recently used entry.                  *)
LEMMA PutIsSound ==
  ASSUME IsSoundCache(cache), Len(cache) <= CacheSize,
         NEW e, IsSound(e), Len(e.result.items) <= MaxItems
  PROVE  IsSoundCache(Put(e)) /\ Len(Put(e)) <= CacheSize /\ e \in Range(Put(e))
<1> DEFINE rest == Without(e.page)
           kept == IF Len(rest) >= CacheSize THEN Tail(rest) ELSE rest
<1>1. /\ IsSoundCache(rest) /\ Len(rest) <= CacheSize
      /\ \A other \in Range(rest) : other.page # e.page
  BY WithoutIsExact
<1>2. Put(e) = Append(kept, e)
  BY DEF Put
<1> HIDE DEF rest
<1>3. rest \in Seq(Entries) /\ Len(rest) \in Nat /\ DOMAIN rest = 1..Len(rest)
  BY <1>1 DEF IsSoundCache
<1>4. CacheSize \in Nat /\ CacheSize > 0
  BY ParsingAssumption
<1>5. /\ IsSoundCache(kept) /\ Len(kept) < CacheSize
      /\ \A other \in Range(kept) : other.page # e.page
  <2>1. CASE ~(Len(rest) >= CacheSize)
    <3>1. kept = rest
      BY <2>1
    <3>2. Len(rest) < CacheSize
      BY <1>3, <1>4, <2>1
    <3> QED
      BY <1>1, <3>1, <3>2
  <2>2. CASE Len(rest) >= CacheSize
    <3> DEFINE tail == Tail(rest)
    <3>1. kept = tail
      BY <2>2
    <3>2. Len(rest) > 0
      BY <1>3, <1>4, <2>2
    <3>3. rest # <<>>
      BY <3>2
    <3>4. /\ tail \in Seq(Entries) /\ Len(tail) = Len(rest) - 1
          /\ \A i \in 1..Len(tail) : tail[i] = rest[i + 1]
      BY <1>3, <3>3, HeadTailProperties
    <3> HIDE DEF tail, kept
    <3>5. DOMAIN tail = 1..Len(tail) /\ Len(tail) \in Nat
      BY <3>4
    <3>6. \A i \in 1..Len(tail) : i \in Nat /\ i + 1 \in 1..Len(rest)
      BY <1>3, <3>4
    <3>7. Range(tail) \subseteq Range(rest)
      BY <1>3, <3>4, <3>5, <3>6 DEF Range
    <3>8. OnePerPage(tail)
      <4>1. \A i, j \in 1..Len(rest) : rest[i].page = rest[j].page => i = j
        BY <1>1, <1>3 DEF IsSoundCache, OnePerPage
      <4>2. ASSUME NEW i \in 1..Len(tail), NEW j \in 1..Len(tail), tail[i].page = tail[j].page PROVE i = j
        <5>1. /\ tail[i] = rest[i + 1] /\ tail[j] = rest[j + 1] /\ i \in Nat /\ j \in Nat
              /\ i + 1 \in 1..Len(rest) /\ j + 1 \in 1..Len(rest)
          BY <3>4, <3>6
        <5>2. i + 1 = j + 1
          BY <4>1, <4>2, <5>1
        <5> QED
          BY <5>1, <5>2
      <4> QED
        BY <3>5, <4>2 DEF OnePerPage
    <3>9. IsSoundCache(tail)
      BY <1>1, <3>4, <3>7, <3>8 DEF IsSoundCache
    <3>10. Len(tail) < CacheSize
      BY <1>1, <1>3, <1>4, <3>4
    <3> QED
      BY <1>1, <3>1, <3>7, <3>9, <3>10
  <2> QED
    BY <2>1, <2>2
<1> HIDE DEF kept
<1> QED
  BY <1>2, <1>5, AppendIsSound

(* What is handed over of an entry that has just been extended.            *)
LEMMA HandOverIsSound ==
  ASSUME NEW p \in Parsers, NEW page, NEW api, NEW e, e.page = page,
         p = Pricing => api \in ApiAnswers,
         p = Pricing => Range(ExtractPricing(api)) \subseteq Range(e.result.items) \cap e.added,
         HandOver(p, page, e, api), e \in Range(cache')
  PROVE  DeliveryIsSound'
<1>1. delivered' = [to |-> p, page |-> page, api |-> api, added |-> e.added,
                    value |-> e.result.value, items |-> Accepted(e.result.items)]
  BY DEF HandOver
<1>2. HandsOver(delivered', e)
  BY <1>1 DEF HandsOver
<1> QED
  BY <1>2 DEF DeliveryIsSound

LEMMA CollectCachedIsSound ==
  ASSUME ParseIInv, NEW p \in Parsers, NEW page \in Documents,
         NEW api, p = Pricing => api \in ApiAnswers, CollectCached(p, page, api)
  PROVE  ParseIInv'
<1>1. PICK hit \in Hits(page) :
        /\ Len(Extended(p, hit, api).result.items) <= MaxItems
        /\ cache' = Append(Without(page), Extended(p, hit, api))
        /\ HandOver(p, page, Extended(p, hit, api), api)
        /\ UNCHANGED <<stats, file>>
  BY DEF CollectCached
<1> DEFINE e == Extended(p, hit, api)
<1>2. IsSoundCache(cache) /\ Len(cache) <= CacheSize /\ StatisticsAreTyped
  BY DEF ParseIInv
<1>3. hit \in Range(cache) /\ hit.page = page
  BY DEF Hits
<1>4. IsSound(hit)
  BY <1>2, <1>3 DEF IsSoundCache
<1>5. /\ IsSound(e) /\ e.page = page
      /\ p = Pricing => Range(ExtractPricing(api)) \subseteq Range(e.result.items) \cap e.added
  BY <1>3, <1>4, ExtendedIsSound
<1>6. Len(e.result.items) <= MaxItems /\ cache' = Append(Without(page), e) /\ HandOver(p, page, e, api)
  BY <1>1
<1> HIDE DEF e
<1>7. /\ IsSoundCache(Without(page)) /\ Len(Without(page)) < CacheSize
      /\ \A other \in Range(Without(page)) : other.page # e.page
  BY <1>2, <1>3, <1>5, WithoutIsExact
<1>8. IsSoundCache(cache') /\ Len(cache') <= CacheSize /\ e \in Range(cache')
  BY <1>5, <1>6, <1>7, AppendIsSound
<1>9. DeliveryIsSound'
  BY <1>5, <1>6, <1>8, HandOverIsSound
<1>10. StatisticsAreTyped'
  BY <1>1, <1>2 DEF StatisticsAreTyped
<1> QED
  BY <1>8, <1>9, <1>10 DEF ParseIInv

LEMMA RecordedIsTyped ==
  ASSUME NEW p \in Parsers, NEW page, NEW slow, stats \in [Parsers -> Statistics],
         \A s \in Names : stats[p][s].runs < MaxRuns
  PROVE  Recorded(p, page, slow) \in Statistics
<1> DEFINE st(s) == stats[p][s]
           more(s) == [runs |-> st(s).runs + 1,
                       wins |-> st(s).wins + IF PartialConfidence(s, page) > 0 THEN 1 ELSE 0,
                       time |-> st(s).time + IF s = slow THEN 1 ELSE 0]
<1>1. ASSUME NEW s \in Names PROVE more(s) \in [runs : 0..MaxRuns, wins : Nat, time : Nat]
  <2>1. stats[p] \in [Names -> [runs : 0..MaxRuns, wins : Nat, time : Nat]]
    BY DEF Statistics
  <2>2. st(s) \in [runs : 0..MaxRuns, wins : Nat, time : Nat] /\ st(s).runs < MaxRuns
    BY <2>1
  <2>3. MaxRuns \in Nat
    BY ParsingAssumption
  <2> HIDE DEF st
  <2>4. st(s).runs + 1 \in 0..MaxRuns /\ st(s).wins \in Nat /\ st(s).time \in Nat
    BY <2>2, <2>3
  <2>5. st(s).wins + (IF PartialConfidence(s, page) > 0 THEN 1 ELSE 0) \in Nat
    BY <2>4 DEF PartialConfidence
  <2>6. st(s).time + (IF s = slow THEN 1 ELSE 0) \in Nat
    BY <2>4
  <2> QED
    BY <2>4, <2>5, <2>6
<1>2. Recorded(p, page, slow) = [s \in Names |-> more(s)]
  BY DEF Recorded
<1> HIDE DEF more
<1> QED
  BY <1>1, <1>2 DEF Statistics

LEMMA CollectParsedIsSound ==
  ASSUME ParseIInv, NEW p \in Parsers, NEW page \in Documents,
         NEW api, p = Pricing => api \in ApiAnswers, CollectParsed(p, page, api)
  PROVE  ParseIInv'
<1> DEFINE fresh == [page |-> page, aged |-> FALSE, result |-> Parsed(p, page), added |-> {}]
           e == Extended(p, fresh, api)
<1>1. /\ \A s \in Names : stats[p][s].runs < MaxRuns
      /\ Len(e.result.items) <= MaxItems
      /\ cache' = Put(e)
      /\ HandOver(p, page, e, api)
  BY DEF CollectParsed
<1>2. PICK slow \in Names \cup {Null}, save \in BOOLEAN :
        /\ stats' = [stats EXCEPT ![p] = Recorded(p, page, slow)]
        /\ file' = IF save THEN stats'[p] ELSE file
  BY DEF CollectParsed
<1>3. IsSoundCache(cache) /\ Len(cache) <= CacheSize
  BY DEF ParseIInv
<1>4. stats \in [Parsers -> Statistics] /\ file \in Statistics
  BY DEF ParseIInv, StatisticsAreTyped
<1>5. fresh.page = page
  OBVIOUS
<1>6. IsSound(fresh)
  BY <1>4, FreshIsSound
<1> HIDE DEF fresh
<1>7. /\ IsSound(e) /\ e.page = page
      /\ p = Pricing => Range(ExtractPricing(api)) \subseteq Range(e.result.items) \cap e.added
  BY <1>5, <1>6, ExtendedIsSound
<1> HIDE DEF e
<1>8. IsSoundCache(cache') /\ Len(cache') <= CacheSize /\ e \in Range(cache')
  BY <1>1, <1>3, <1>7, PutIsSound
<1>9. DeliveryIsSound'
  BY <1>1, <1>7, <1>8, HandOverIsSound
<1>10. StatisticsAreTyped'
  <2>1. Recorded(p, page, slow) \in Statistics
    BY <1>1, <1>4, RecordedIsTyped
  <2>2. stats' \in [Parsers -> Statistics]
    BY <1>2, <1>4, <2>1
  <2>3. file' \in Statistics
    BY <1>2, <1>4, <2>2
  <2> QED
    BY <2>2, <2>3 DEF StatisticsAreTyped
<1> QED
  BY <1>8, <1>9, <1>10 DEF ParseIInv

LEMMA EntryAgesIsSound == ASSUME ParseIInv, EntryAges PROVE ParseIInv'
<1>1. PICK i \in DOMAIN cache : cache' = [cache EXCEPT ![i].aged = TRUE]
  BY DEF EntryAges
<1>2. delivered' = Null /\ UNCHANGED <<stats, file>>
  BY DEF EntryAges
<1>3. /\ cache \in Seq(Entries) /\ OnePerPage(cache) /\ Len(cache) <= CacheSize /\ StatisticsAreTyped
      /\ \A x \in Range(cache) : IsSound(x) /\ Len(x.result.items) <= MaxItems
  BY DEF ParseIInv, IsSoundCache
<1> DEFINE e == [cache[i] EXCEPT !.aged = TRUE]
<1>4. /\ e \in Entries /\ e.page = cache[i].page /\ e.result = cache[i].result /\ e.added = cache[i].added
  <2>1. cache[i] \in Entries
    BY <1>3
  <2> QED
    BY <2>1 DEF Entries
<1>5. cache' = [cache EXCEPT ![i] = e]
  BY <1>1
<1> HIDE DEF e
<1>6. /\ cache' \in Seq(Entries) /\ Len(cache') = Len(cache) /\ DOMAIN cache' = DOMAIN cache
      /\ \A j \in DOMAIN cache : cache'[j] = IF j = i THEN e ELSE cache[j]
  BY <1>3, <1>4, <1>5
<1>7. \A j \in DOMAIN cache : cache[j] \in Range(cache)
  BY DEF Range
<1>8. IsSound(e) /\ Len(e.result.items) <= MaxItems
  BY <1>3, <1>4, <1>7 DEF IsSound
<1>9. \A x \in Range(cache') : IsSound(x) /\ Len(x.result.items) <= MaxItems
  <2> SUFFICES ASSUME NEW x \in Range(cache') PROVE IsSound(x) /\ Len(x.result.items) <= MaxItems
    OBVIOUS
  <2>1. PICK j \in DOMAIN cache : x = cache'[j]
    BY <1>6 DEF Range
  <2> QED
    BY <1>3, <1>6, <1>7, <1>8, <2>1
<1>10. OnePerPage(cache')
  <2>1. \A j \in DOMAIN cache : cache'[j].page = cache[j].page
    BY <1>4, <1>6
  <2> QED
    BY <1>3, <1>6, <2>1 DEF OnePerPage
<1>11. IsSoundCache(cache') /\ Len(cache') <= CacheSize
  BY <1>3, <1>6, <1>9, <1>10 DEF IsSoundCache
<1>12. StatisticsAreTyped' /\ DeliveryIsSound'
  BY <1>2, <1>3 DEF StatisticsAreTyped, DeliveryIsSound
<1> QED
  BY <1>11, <1>12 DEF ParseIInv

LEMMA EmptyCacheIsSound == IsSoundCache(<<>>) /\ Len(<<>>) <= CacheSize
<1>1. <<>> \in Seq(Entries) /\ DOMAIN <<>> = {} /\ Range(<<>>) = {} /\ Len(<<>>) = 0
  BY DEF Range
<1>2. CacheSize \in Nat
  BY ParsingAssumption
<1> QED
  BY <1>1, <1>2 DEF IsSoundCache, OnePerPage

LEMMA RestartIsSound == ASSUME ParseIInv, Restart PROVE ParseIInv'
<1>1. cache' = <<>> /\ stats' = [p \in Parsers |-> file] /\ delivered' = Null /\ file' = file
  BY DEF Restart
<1>2. StatisticsAreTyped' /\ DeliveryIsSound'
  BY <1>1 DEF ParseIInv, StatisticsAreTyped, DeliveryIsSound
<1> QED
  BY <1>1, <1>2, EmptyCacheIsSound DEF ParseIInv

LEMMA ParsingStarts == ParsingInit => ParseIInv
<1> SUFFICES ASSUME ParsingInit PROVE ParseIInv
  OBVIOUS
<1>1. cache = <<>> /\ stats = [p \in Parsers |-> NewStats] /\ file = NewStats /\ delivered = Null
  BY DEF ParsingInit
<1>2. NewStats \in Statistics
  <2>1. MaxRuns \in Nat
    BY ParsingAssumption
  <2> QED
    BY <2>1 DEF NewStats, Statistics
<1>3. StatisticsAreTyped
  BY <1>1, <1>2 DEF StatisticsAreTyped
<1> QED
  BY <1>1, <1>3, EmptyCacheIsSound DEF ParseIInv, DeliveryIsSound

LEMMA ParsingStep == ParseIInv /\ [ParsingNext]_parsing => ParseIInv'
<1> SUFFICES ASSUME ParseIInv, [ParsingNext]_parsing PROVE ParseIInv'
  OBVIOUS
<1>1. CASE UNCHANGED parsing
  BY <1>1 DEF parsing, ParseIInv, StatisticsAreTyped, DeliveryIsSound
<1>2. ASSUME NEW p \in Parsers, NEW page \in Documents,
             NEW api \in IF p = Pricing THEN ApiAnswers ELSE {<<>>},
             CollectCached(p, page, api) \/ CollectParsed(p, page, api)
      PROVE  ParseIInv'
  BY <1>2, CollectCachedIsSound, CollectParsedIsSound
<1> QED
  BY <1>1, <1>2, EntryAgesIsSound, RestartIsSound DEF ParsingNext

LEMMA DeliveriesAreSound ==
  ASSUME ParseIInv, NEW d \in Handed
  PROVE  d = delivered /\ \E e : IsSound(e) /\ HandsOver(d, e) /\ e \in Range(cache)
BY DEF ParseIInv, DeliveryIsSound, Handed, IsSoundCache

(* The parse cache keeps one entry a page and no more than its size, and   *)
(* what a parser hands over has a name once, but for what API responses    *)
(* have added to the cached parse.                                         *)
THEOREM ParsingIsSound == ParsingSpec => []ParsingInv
<1>1. ParseIInv => ParsingInv
  <2> SUFFICES ASSUME ParseIInv PROVE ParsingInv
    OBVIOUS
  <2>1. ParsingTypeOK
    <3>1. delivered # Null => delivered.to \in Parsers /\ delivered.items \in Seq(Priced)
      <4> SUFFICES ASSUME delivered # Null PROVE delivered.to \in Parsers /\ delivered.items \in Seq(Priced)
        OBVIOUS
      <4>1. PICK e : IsSound(e) /\ HandsOver(delivered, e)
        BY DeliveriesAreSound DEF Handed
      <4>2. e.result.items \in Seq(Priced)
        BY <4>1 DEF IsSound, Entries, Results
      <4>3. Accepted(e.result.items) \in Seq(Priced)
        BY <4>2, AcceptedIsExact
      <4> QED
        BY <4>1, <4>3 DEF HandsOver
    <3> QED
      BY <3>1 DEF ParsingTypeOK, ParseIInv, IsSoundCache, StatisticsAreTyped
  <2>2. CacheIsBounded
    BY DEF CacheIsBounded, ParseIInv, IsSoundCache, OnePerPage
  <2>3. NamesComeOnce
    <3> SUFFICES ASSUME NEW d \in Handed PROVE NamedOnce(d.items, d.added)
      BY DEF NamesComeOnce, NamedOnce
    <3>1. PICK e : IsSound(e) /\ HandsOver(d, e)
      BY DeliveriesAreSound
    <3> DEFINE items == e.result.items
               kept == Accepted(items)
    <3>2. items \in Seq(Priced) /\ NamedOnce(items, e.added)
      BY <3>1 DEF IsSound, Entries, Results
    <3>3. d.items = kept /\ d.added = e.added
      BY <3>1 DEF HandsOver
    <3> HIDE DEF items
    <3>4. kept \in Seq(Priced)
      BY <3>2, AcceptedIsExact
    <3>5. PICK at : PlacesOf(at, items, kept)
      BY <3>2, AcceptedIsExact
    <3> HIDE DEF kept
    <3>6. DOMAIN items = 1..Len(items) /\ DOMAIN kept = 1..Len(kept)
      BY <3>2, <3>4
    <3>7. ASSUME NEW i \in 1..Len(kept), NEW j \in 1..Len(kept), kept[i].name = kept[j].name
          PROVE  i = j \/ kept[i] \in e.added \/ kept[j] \in e.added
      <4>1. at[i] \in 1..Len(items) /\ at[j] \in 1..Len(items) /\ kept[i] = items[at[i]] /\ kept[j] = items[at[j]]
        BY <3>5 DEF PlacesOf
      <4>2. at[i] = at[j] \/ kept[i] \in e.added \/ kept[j] \in e.added
        BY <3>2, <3>6, <3>7, <4>1 DEF NamedOnce
      <4>3. at[i] = at[j] => i = j
        BY <3>5 DEF PlacesOf
      <4> QED
        BY <4>2, <4>3
    <3> QED
      BY <3>3, <3>6, <3>7 DEF NamedOnce
  <2> QED
    BY <2>1, <2>2, <2>3 DEF ParsingInv
<1> QED
  BY <1>1, ParsingStarts, ParsingStep, PTL DEF ParsingSpec

(* Whatever order the statistics have led to, whoever has raised, and      *)
(* however old the parse is: a scalar field is what a strategy of the      *)
(* greatest weight among those that offer one has found.                   *)
THEOREM BestValuesWin == ParsingSpec => []BestValueWins
<1>1. ParseIInv => BestValueWins
  <2> SUFFICES ASSUME ParseIInv, NEW d \in Handed
               PROVE  IF Offering(d.page) = {} THEN d.value = Null
                      ELSE \E s \in Best(d.page) : d.value = Findings[s][d.page].value
    BY DEF BestValueWins
  <2>1. PICK e : IsSound(e) /\ HandsOver(d, e)
    BY DeliveriesAreSound
  <2>2. Offering(d.page) = OfferingOf(Names, d.page) /\ Best(d.page) = Weightiest(Names, d.page)
    BY DEF Offering, OfferingOf, Best, Weightiest
  <2>3. ValueIs(e.result, Names, d.page) /\ d.value = e.result.value
    BY <2>1 DEF IsSound, HandsOver
  <2>4. CASE OfferingOf(Names, d.page) = {}
    <3>1. Weightiest(Names, d.page) = {}
      BY <2>4 DEF Weightiest
    <3> QED
      BY <2>2, <2>3, <2>4, <3>1 DEF ValueIs
  <2>5. CASE OfferingOf(Names, d.page) # {}
    BY <2>2, <2>3, <2>5 DEF ValueIs
  <2> QED
    BY <2>4, <2>5
<1> QED
  BY <1>1, ParsingStarts, ParsingStep, PTL DEF ParsingSpec

(* What is stored as prices of a page is on the page or in an API response *)
(* of this call, or of an earlier one on the cached parse, and is never a  *)
(* placeholder.                                                            *)
THEOREM ForeignItemsStayKnown == ParsingSpec => []ForeignItemsAreKnown
<1>1. ParseIInv => ForeignItemsAreKnown
  <2> SUFFICES ASSUME ParseIInv, NEW d \in Handed, NEW item \in Range(d.items)
               PROVE  item \in FoundOn(d.page) \cup d.added /\ IsEntry(item)
    BY DEF ForeignItemsAreKnown, Prices
  <2>1. PICK e : IsSound(e) /\ HandsOver(d, e)
    BY DeliveriesAreSound
  <2>2. /\ e.result.items \in Seq(Priced)
        /\ Range(e.result.items) \subseteq FoundOn(d.page) \cup d.added
        /\ d.items = Accepted(e.result.items)
    BY <2>1 DEF IsSound, HandsOver, Entries, Results
  <2>3. item \in Range(e.result.items) /\ IsEntry(item)
    BY <2>2, AcceptedIsExact
  <2> QED
    BY <2>2, <2>3
<1> QED
  BY <1>1, ParsingStarts, ParsingStep, PTL DEF ParsingSpec

(* Each name that is found on a page arrives, and so does the price        *)
(* of every object that is within five of one an API has answered with and *)
(* gives its name and its price once.                                      *)
THEOREM PricesDoArrive == ParsingSpec => []PricesArrive
<1>1. ParseIInv => NothingIsMissed
  <2> SUFFICES ASSUME ParseIInv, NEW d \in Handed, NEW item \in FoundOn(d.page),
                      d.to = Pricing, item.name \notin Placeholder
               PROVE  \E arrived \in Range(d.items) \cap FoundOn(d.page) : arrived.name = item.name
    BY DEF NothingIsMissed, Prices
  <2>1. PICK e : IsSound(e) /\ HandsOver(d, e)
    BY DeliveriesAreSound
  <2>2. e.result.items \in Seq(Priced) /\ d.items = Accepted(e.result.items) /\ e.page = d.page
    BY <2>1 DEF IsSound, HandsOver, Entries, Results
  <2>3. PICK y \in Range(e.result.items) \cap FoundOn(d.page) : y.name = item.name
    BY <2>1, <2>2 DEF IsSound
  <2>4. d.page \in Documents
    BY <2>1, <2>2 DEF IsSound, Entries
  <2>5. y \in Items
    BY <2>3, <2>4 DEF FoundOn, Items
  <2>6. IsEntry(y)
    BY <2>3, <2>5, ParsingAssumption DEF IsEntry
  <2>7. y \in Range(d.items)
    BY <2>2, <2>3, <2>6, AcceptedIsExact
  <2> QED
    BY <2>3, <2>7
<1>2. ParseIInv => PlainPricesArrive
  <2> SUFFICES ASSUME ParseIInv, NEW d \in Prices, NEW answer \in Range(d.api), ~answer.list,
                      NEW n \in Within(answer, 5), NEW k, NEW l, GivesOnly(n, k, l),
                      IsEntry([name |-> Field[n][k].text, price |-> Field[n][l].amount])
               PROVE  [name |-> Field[n][k].text, price |-> Field[n][l].amount] \in Range(d.items)
    BY DEF PlainPricesArrive
  <2> DEFINE item == [name |-> Field[n][k].text, price |-> Field[n][l].amount]
  <2>1. d \in Handed /\ d.to = Pricing
    BY DEF Prices
  <2>2. PICK e : IsSound(e) /\ HandsOver(d, e)
    BY <2>1, DeliveriesAreSound
  <2>3. /\ e.result.items \in Seq(Priced) /\ d.items = Accepted(e.result.items)
        /\ d.api \in ApiAnswers /\ Range(ExtractPricing(d.api)) \subseteq Range(e.result.items)
    BY <2>1, <2>2 DEF IsSound, HandsOver, Entries, Results
  <2>4. answer.of \in [1..1 -> Dicts] /\ Range(ExtractFrom[5][answer.of[1]]) \subseteq Range(ExtractPricing(d.api))
    BY <2>3, ExtractPricingIsUnion
  <2>5. Range(ParsedDict(n)) \subseteq Range(ExtractFrom[5][answer.of[1]])
    BY <2>4, WithinIsReached
  <2>6. item \in Range(ParsedDict(n))
    BY <2>4, WithinIsReached, OnlyPriceIsParsed
  <2>7. IsEntry(item)
    OBVIOUS
  <2> HIDE DEF item
  <2>8. item \in Range(e.result.items)
    BY <2>3, <2>4, <2>5, <2>6
  <2>9. item \in Range(d.items)
    BY <2>3, <2>7, <2>8, AcceptedIsExact
  <2> QED
    BY <2>9 DEF item
<1>3. ParseIInv => PricesArrive
  BY <1>1, <1>2 DEF PricesArrive
<1> QED
  BY <1>3, ParsingStarts, ParsingStep, PTL DEF ParsingSpec

=============================================================================
