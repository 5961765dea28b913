------------------------- MODULE CollectionService --------------------------
(***************************************************************************)
(* CollectionService.collect_competitor: one call is one run, one database *)
(* session and one transaction.  Runs of the same competitor may overlap:  *)
(* the scheduler, the collection API and scripts/collect.py all call it,   *)
(* and only the scheduler checks for a run in progress.                    *)
(*                                                                         *)
(* A run discovers URLs, upserts a source row per URL, then takes the      *)
(* configured modules one by one and the module's URLs one by one.  Each   *)
(* collect() opens a savepoint, fetches, stores the raw page, parses and   *)
(* upserts the items.  The log row is written last and the session commits *)
(* when the block is left.                                                 *)
(*                                                                         *)
(* The database is PostgreSQL behind SQLAlchemy, modelled from its use: an *)
(* upsert takes the lock of its row until the transaction ends; a          *)
(* statement that the server rejects aborts the innermost subtransaction   *)
(* and every later statement fails until a ROLLBACK; a savepoint whose     *)
(* RELEASE failed is inactive, so its rollback() sends nothing.            *)
(*                                                                         *)
(* Operators named Fault... are not part of the specification: each is a   *)
(* plausible wrong variant of the definition after it.                     *)
(***************************************************************************)
EXTENDS Naturals, FiniteSets

CONSTANTS
  Runs,         \* calls of collect_competitor for one competitor
  Pages,        \* URLs that discovery may return
  Base,         \* the competitor's base URL
  Keys,         \* names, links and platforms that a page may yield
  Modules,      \* the competitor's configured modules
  MaxPerModule, \* URLs fetched per module (10 in the code)
  None          \* no URL, no module, no row

Collectors == {"company", "services", "pricing", "content", "social"}

Urls == Pages \cup {Base}

ASSUME ConstantsAssumption ==
  /\ MaxPerModule \in Nat
  /\ None \notin Urls
  /\ None \notin Modules

-----------------------------------------------------------------------------
(* Rows: a table and the column its unique constraint holds next to
   competitor_id.                                                          *)

SourceRow(u) == [table |-> "competitor_sources", key |-> u]

RawRow(u) == [table |-> "raw_storage", key |-> u]

CompanyRow == [table |-> "competitor_company_info", key |-> Base]

ServiceRows == [table : {"competitor_services"}, key : Keys]

PricingRows == [table : {"competitor_pricing"}, key : Keys]

ContentRows == [table : {"competitor_content"}, key : Keys]

SocialRows == [table : {"competitor_social"}, key : Keys]

Rows ==
  {SourceRow(u) : u \in Urls} \cup {RawRow(u) : u \in Urls} \cup {CompanyRow}
    \cup ServiceRows \cup PricingRows \cup ContentRows \cup SocialRows

ASSUME RowsAssumption == None \notin Rows

(* company.py upserts one row per competitor, whatever the page says. *)
CompanyItems == {{CompanyRow}}

(* The other collectors upsert one row per valid item that the page yields,
   possibly none.                                                          *)
ServiceItems == SUBSET ServiceRows

PricingItems == SUBSET PricingRows

ContentItems == SUBSET ContentRows

SocialItems == SUBSET SocialRows

ItemSets(m) ==
  CASE m = "company"  -> CompanyItems
    [] m = "services" -> ServiceItems
    [] m = "pricing"  -> PricingItems
    [] m = "content"  -> ContentItems
    [] OTHER          -> SocialItems

(* The matching discovered URLs, at most ten of them, or the base URL when
   none matches.  Which URL matches which module is left open.             *)
SelectUrls(found) ==
  {s \in SUBSET found : s # {} /\ Cardinality(s) <= MaxPerModule} \cup {{Base}}

-----------------------------------------------------------------------------
VARIABLES
  pc,        \* where each run is
  found,     \* discovered_urls
  modsLeft,  \* modules still to collect
  module,    \* the module being collected
  urlsLeft,  \* its URLs still to fetch
  url,       \* the URL being collected
  todo,      \* rows still to upsert at this point
  stmt,      \* the upsert in flight
  batch,     \* rows of the collect() in progress
  writes,    \* rows written and not yet committed
  saved,     \* writes when the savepoint was opened
  aborted,   \* the server has aborted the transaction
  badUrls,   \* URLs of the module whose collect() returned "failed"
  errors,    \* the run's error list
  failed,    \* history: every collect() that returned "failed"
  kept,      \* history: sources and rows of collects that returned "success"
  durable,   \* rows each run has committed
  logged,    \* success flag of the run's log row
  status     \* what collect_competitor returned

work == <<found, modsLeft, module, urlsLeft, url, todo, stmt, batch>>
txn  == <<writes, saved, aborted>>
book == <<badUrls, errors, failed, kept>>
out  == <<durable, logged, status>>
vars == <<pc, work, txn, book, out>>

Stages == {"idle", "discover", "sources", "modules", "urls", "fetch",
           "store", "parse", "items", "log", "commit", "done"}

(* errors holds one entry per failed collect(), or one for a whole module. *)
Entries == Modules \X (Urls \cup {None})

Collecting == {"fetch", "store", "parse", "items"}

(* A collect() has its URL and its module, the URL loop its module. *)
CursorOK ==
  \A r \in Runs :
    /\ pc[r] \in Collecting => url[r] \in Urls
    /\ pc[r] \in Collecting \cup {"urls"} => module[r] \in Modules

TypeOK ==
  /\ CursorOK
  /\ pc \in [Runs -> Stages]
  /\ found \in [Runs -> SUBSET Urls]
  /\ modsLeft \in [Runs -> SUBSET Modules]
  /\ module \in [Runs -> Modules \cup {None}]
  /\ urlsLeft \in [Runs -> SUBSET Urls]
  /\ url \in [Runs -> Urls \cup {None}]
  /\ todo \in [Runs -> SUBSET Rows]
  /\ stmt \in [Runs -> Rows \cup {None}]
  /\ batch \in [Runs -> SUBSET Rows]
  /\ writes \in [Runs -> SUBSET Rows]
  /\ saved \in [Runs -> SUBSET Rows]
  /\ aborted \in [Runs -> BOOLEAN]
  /\ badUrls \in [Runs -> SUBSET Urls]
  /\ errors \in [Runs -> SUBSET Entries]
  /\ failed \in [Runs -> SUBSET Entries]
  /\ kept \in [Runs -> SUBSET Rows]
  /\ durable \in [Runs -> SUBSET Rows]
  /\ logged \in [Runs -> {"none", "ok", "errors"}]
  /\ status \in [Runs -> {"pending", "success", "failed", "skipped", "lost"}]

Init ==
  /\ pc = [r \in Runs |-> "idle"]
  /\ found = [r \in Runs |-> {}]
  /\ modsLeft = [r \in Runs |-> {}]
  /\ module = [r \in Runs |-> None]
  /\ urlsLeft = [r \in Runs |-> {}]
  /\ url = [r \in Runs |-> None]
  /\ todo = [r \in Runs |-> {}]
  /\ stmt = [r \in Runs |-> None]
  /\ batch = [r \in Runs |-> {}]
  /\ writes = [r \in Runs |-> {}]
  /\ saved = [r \in Runs |-> {}]
  /\ aborted = [r \in Runs |-> FALSE]
  /\ badUrls = [r \in Runs |-> {}]
  /\ errors = [r \in Runs |-> {}]
  /\ failed = [r \in Runs |-> {}]
  /\ kept = [r \in Runs |-> {}]
  /\ durable = [r \in Runs |-> {}]
  /\ logged = [r \in Runs |-> "none"]
  /\ status = [r \in Runs |-> "pending"]

-----------------------------------------------------------------------------
(* Helpers. *)

Goto(r, to) == pc' = [pc EXCEPT ![r] = to]

(* The call returns: its locals are gone and its locks are released. *)
Return(r, s) ==
  /\ Goto(r, "done")
  /\ status' = [status EXCEPT ![r] = s]
  /\ found' = [found EXCEPT ![r] = {}]
  /\ modsLeft' = [modsLeft EXCEPT ![r] = {}]
  /\ module' = [module EXCEPT ![r] = None]
  /\ urlsLeft' = [urlsLeft EXCEPT ![r] = {}]
  /\ url' = [url EXCEPT ![r] = None]
  /\ todo' = [todo EXCEPT ![r] = {}]
  /\ stmt' = [stmt EXCEPT ![r] = None]
  /\ batch' = [batch EXCEPT ![r] = {}]
  /\ writes' = [writes EXCEPT ![r] = {}]
  /\ saved' = [saved EXCEPT ![r] = {}]
  /\ badUrls' = [badUrls EXCEPT ![r] = {}]
  /\ errors' = [errors EXCEPT ![r] = {}]
  /\ UNCHANGED <<aborted, failed, kept>>

(* Fault: a session() that also commits on its way out. *)
FaultRollback(r, s) ==
  /\ Return(r, s)
  /\ durable' = [durable EXCEPT ![r] = writes[r]]
  /\ UNCHANGED logged

(* session() rolls the transaction back; nothing becomes durable. *)
Rollback(r, s) == Return(r, s) /\ UNCHANGED <<durable, logged>>

(* Back to the URL loop of _collect_module, the collect() being over. *)
NextUrl(r) ==
  /\ Goto(r, "urls")
  /\ url' = [url EXCEPT ![r] = None]
  /\ todo' = [todo EXCEPT ![r] = {}]
  /\ stmt' = [stmt EXCEPT ![r] = None]
  /\ batch' = [batch EXCEPT ![r] = {}]
  /\ UNCHANGED <<found, modsLeft, module, urlsLeft>>

(* Every collector catches its own exceptions and returns "failed". *)
CollectFailed(r) ==
  /\ NextUrl(r)
  /\ badUrls' = [badUrls EXCEPT ![r] = @ \cup {url[r]}]
  /\ failed' = [failed EXCEPT ![r] = @ \cup {<<module[r], url[r]>>}]
  /\ UNCHANGED <<errors, kept>>

(* Another run holds the lock of a row until it commits or rolls back. *)
Locked(r, row) == \E q \in Runs \ {r} : row \in writes[q]

WaitsFor(r, q) == q # r /\ stmt[r] # None /\ stmt[r] \in writes[q]

(* r waits in a cycle: each member of some set of runs that r is in waits
   for a member of the set.                                                *)
Deadlocked(r) ==
  \E S \in SUBSET Runs :
    /\ r \in S
    /\ \A p \in S : \E q \in S : WaitsFor(p, q)

-----------------------------------------------------------------------------
(* The run up to the module loop. *)

(* An enabled competitor with modules is found. *)
Start(r) ==
  /\ pc[r] = "idle"
  /\ Goto(r, "discover")
  /\ UNCHANGED <<work, txn, book, out>>

(* Unknown competitor: "failed"; disabled or without modules: "skipped". *)
Refuse(r) ==
  /\ pc[r] = "idle"
  /\ \E s \in {"failed", "skipped"} : Rollback(r, s)

Discover(r) ==
  /\ pc[r] = "discover"
  /\ Goto(r, "sources")
  /\ \E D \in SUBSET Pages :
       /\ found' = [found EXCEPT ![r] = D]
       /\ todo' = [todo EXCEPT ![r] = {SourceRow(u) : u \in D}]
  /\ UNCHANGED <<modsLeft, module, urlsLeft, url, stmt, batch, txn, book, out>>

(* The next upsert of the loop that is running is sent to the database. *)
SendUpsert(r) ==
  /\ pc[r] \in {"sources", "items"}
  /\ stmt[r] = None
  /\ \E row \in todo[r] :
       /\ stmt' = [stmt EXCEPT ![r] = row]
       /\ todo' = [todo EXCEPT ![r] = @ \ {row}]
  /\ UNCHANGED <<pc, found, modsLeft, module, urlsLeft, url, batch, txn, book, out>>

(* The server executes the upsert once no other run holds the row. *)
Execute(r) ==
  /\ stmt[r] # None
  /\ ~aborted[r]
  /\ ~Locked(r, stmt[r])
  /\ writes' = [writes EXCEPT ![r] = @ \cup {stmt[r]}]
  /\ stmt' = [stmt EXCEPT ![r] = None]
  /\ kept' = [kept EXCEPT ![r] = IF pc[r] = "sources" THEN @ \cup {stmt[r]} ELSE @]
  /\ pc' = [pc EXCEPT ![r] = IF @ = "store" THEN "parse" ELSE @]
  /\ UNCHANGED <<found, modsLeft, module, urlsLeft, url, todo, batch,
                 saved, aborted, badUrls, errors, failed, out>>

(* Discovery raises, or the server rejects a source upsert, the log row or
   the COMMIT: the exception leaves the session block.                     *)
RunFails(r) ==
  /\ \/ pc[r] \in {"discover", "log", "commit"}
     \/ pc[r] = "sources" /\ stmt[r] # None
  /\ Rollback(r, "failed")

(* Fault: the whole session is rolled back, and the run goes on. *)
FaultStatementFails(r) ==
  /\ pc[r] \in {"store", "items"}
  /\ stmt[r] # None
  /\ CollectFailed(r)
  /\ writes' = [writes EXCEPT ![r] = {}]
  /\ aborted' = [aborted EXCEPT ![r] = FALSE]
  /\ UNCHANGED <<saved, out>>

(* The server rejects an upsert of a collect(), as it rejects every one of
   an aborted transaction: the collector swallows the exception.
   The subtransaction is aborted, so its rows are gone; savepoint.commit()
   then fails to RELEASE, which leaves savepoint.rollback() without effect
   and the transaction aborted.                                            *)
StatementFails(r) ==
  /\ pc[r] \in {"store", "items"}
  /\ stmt[r] # None
  /\ CollectFailed(r)
  /\ writes' = [writes EXCEPT ![r] = saved[r]]
  /\ aborted' = [aborted EXCEPT ![r] = TRUE]
  /\ UNCHANGED <<saved, out>>

SourcesDone(r) ==
  /\ pc[r] = "sources"
  /\ stmt[r] = None
  /\ todo[r] = {}
  /\ Goto(r, "modules")
  /\ modsLeft' = [modsLeft EXCEPT ![r] = Modules \ {"discovery"}]
  /\ UNCHANGED <<found, module, urlsLeft, url, todo, stmt, batch, txn, book, out>>

-----------------------------------------------------------------------------
(* The module loop. *)

(* The next module; modules are taken one by one in the configured order,
   which may be any.  A name without a collector yields nothing.           *)
PickModule(r) ==
  /\ pc[r] = "modules"
  /\ \E m \in modsLeft[r] :
       /\ modsLeft' = [modsLeft EXCEPT ![r] = @ \ {m}]
       /\ IF m \in Collectors
            THEN /\ Goto(r, "urls")
                 /\ module' = [module EXCEPT ![r] = m]
                 /\ \E s \in SelectUrls(found[r]) : urlsLeft' = [urlsLeft EXCEPT ![r] = s]
            ELSE UNCHANGED <<pc, module, urlsLeft>>
  /\ UNCHANGED <<found, url, todo, stmt, batch, txn, book, out>>

(* _collect_module raises before its first URL (a collector that cannot be
   constructed): one error stands for the module.                          *)
ModuleRaises(r) ==
  /\ pc[r] = "modules"
  /\ \E m \in modsLeft[r] \cap Collectors :
       /\ modsLeft' = [modsLeft EXCEPT ![r] = @ \ {m}]
       /\ errors' = [errors EXCEPT ![r] = @ \cup {<<m, None>>}]
       /\ failed' = [failed EXCEPT ![r] = @ \cup {<<m, None>>}]
  /\ UNCHANGED <<pc, found, module, urlsLeft, url, todo, stmt, batch, txn, badUrls, kept, out>>

(* Fault: the URL stays in the list. *)
FaultPickUrl(r) ==
  /\ pc[r] = "urls"
  /\ \E u \in urlsLeft[r] : url' = [url EXCEPT ![r] = u]
  /\ Goto(r, "fetch")
  /\ saved' = [saved EXCEPT ![r] = writes[r]]
  /\ UNCHANGED <<found, modsLeft, module, urlsLeft, todo, stmt, batch, writes, aborted, book, out>>

(* The next URL of the module: begin_nested(), then the collector's fetch. *)
PickUrl(r) ==
  /\ pc[r] = "urls"
  /\ \E u \in urlsLeft[r] :
       /\ urlsLeft' = [urlsLeft EXCEPT ![r] = @ \ {u}]
       /\ url' = [url EXCEPT ![r] = u]
  /\ Goto(r, "fetch")
  /\ saved' = [saved EXCEPT ![r] = writes[r]]
  /\ UNCHANGED <<found, modsLeft, module, todo, stmt, batch, writes, aborted, book, out>>

(* Empty page or 304: "skipped", and the unused savepoint is released. *)
FetchSkips(r) ==
  /\ pc[r] = "fetch"
  /\ NextUrl(r)
  /\ UNCHANGED <<txn, book, out>>

FetchRaises(r) ==
  /\ pc[r] = "fetch"
  /\ CollectFailed(r)
  /\ UNCHANGED <<txn, out>>

(* A page: store_raw sends its upsert. *)
FetchReturns(r) ==
  /\ pc[r] = "fetch"
  /\ Goto(r, "store")
  /\ stmt' = [stmt EXCEPT ![r] = RawRow(url[r])]
  /\ UNCHANGED <<found, modsLeft, module, urlsLeft, url, todo, batch, txn, book, out>>

(* The parsed page yields the items to upsert. *)
Parse(r) ==
  /\ pc[r] = "parse"
  /\ Goto(r, "items")
  /\ \E items \in ItemSets(module[r]) :
       /\ todo' = [todo EXCEPT ![r] = items]
       /\ batch' = [batch EXCEPT ![r] = items \cup {RawRow(url[r])}]
  /\ UNCHANGED <<found, modsLeft, module, urlsLeft, url, stmt, txn, book, out>>

(* Parsing, hashing or converting an item raises on the client: the
   collector returns "failed", the savepoint is released and the rows
   written so far stay.                                                    *)
ParseRaises(r) ==
  /\ pc[r] \in {"parse", "items"}
  /\ stmt[r] = None
  /\ CollectFailed(r)
  /\ UNCHANGED <<txn, out>>

CollectSucceeds(r) ==
  /\ pc[r] = "items"
  /\ stmt[r] = None
  /\ todo[r] = {}
  /\ NextUrl(r)
  /\ kept' = [kept EXCEPT ![r] = @ \cup batch[r]]
  /\ UNCHANGED <<txn, badUrls, errors, failed, out>>

(* Fault: the failures of a module are not merged. *)
FaultModuleDone(r) ==
  /\ pc[r] = "urls"
  /\ urlsLeft[r] = {}
  /\ Goto(r, "modules")
  /\ badUrls' = [badUrls EXCEPT ![r] = {}]
  /\ module' = [module EXCEPT ![r] = None]
  /\ UNCHANGED <<found, modsLeft, urlsLeft, url, todo, stmt, batch, txn, errors, failed, kept, out>>

(* The module's failures join the run's error list. *)
ModuleDone(r) ==
  /\ pc[r] = "urls"
  /\ urlsLeft[r] = {}
  /\ Goto(r, "modules")
  /\ errors' = [errors EXCEPT ![r] = @ \cup {<<module[r], u>> : u \in badUrls[r]}]
  /\ badUrls' = [badUrls EXCEPT ![r] = {}]
  /\ module' = [module EXCEPT ![r] = None]
  /\ UNCHANGED <<found, modsLeft, urlsLeft, url, todo, stmt, batch, txn, failed, kept, out>>

-----------------------------------------------------------------------------
(* The log row and the commit. *)

ModulesDone(r) ==
  /\ pc[r] = "modules"
  /\ modsLeft[r] = {}
  /\ Goto(r, "log")
  /\ UNCHANGED <<work, txn, book, out>>

(* Fault: a log row written although the transaction is aborted. *)
FaultWriteLog(r) ==
  /\ pc[r] = "log"
  /\ Goto(r, "commit")
  /\ UNCHANGED <<work, txn, book, out>>

(* log_repo.create flushes the log row; "success" is computed, not yet
   returned, and the session commits when its block is left.               *)
WriteLog(r) ==
  /\ pc[r] = "log"
  /\ ~aborted[r]
  /\ Goto(r, "commit")
  /\ UNCHANGED <<work, txn, book, out>>

(* The COMMIT takes effect.  When its acknowledgement is lost the session
   raises and the run is reported failed although its rows are durable.    *)
Commit(r) ==
  /\ pc[r] = "commit"
  /\ durable' = [durable EXCEPT ![r] = writes[r]]
  /\ logged' = [logged EXCEPT ![r] = IF errors[r] = {} THEN "ok" ELSE "errors"]
  /\ \E s \in {"success", "failed"} : Return(r, s)

(* The process running the call dies; the server rolls its session back. *)
Crash(r) ==
  /\ pc[r] \notin {"idle", "done"}
  /\ Rollback(r, "lost")

Terminated ==
  /\ \A r \in Runs : pc[r] = "done"
  /\ UNCHANGED vars

Step(r) ==
  \/ Start(r) \/ Refuse(r) \/ Discover(r) \/ SendUpsert(r) \/ Execute(r)
  \/ RunFails(r) \/ StatementFails(r) \/ SourcesDone(r) \/ PickModule(r)
  \/ ModuleRaises(r) \/ PickUrl(r) \/ FetchSkips(r) \/ FetchRaises(r)
  \/ FetchReturns(r) \/ Parse(r) \/ ParseRaises(r) \/ CollectSucceeds(r)
  \/ ModuleDone(r) \/ ModulesDone(r) \/ WriteLog(r) \/ Commit(r) \/ Crash(r)

Next == Terminated \/ \E r \in Runs : Step(r)

Spec == Init /\ [][Next]_vars

-----------------------------------------------------------------------------
(* Fairness: a run that can go on does.  Every fetch returns, as all its
   requests have timeouts, and so does discovery, unless a sitemap index
   makes it recurse.  The server executes what is not blocked, rejects what
   an aborted transaction sends, and breaks a deadlock at one of its
   members.  No failure of the environment is relied on, and no call is ever
   required to be made.                                                    *)
ServerRejects(r) ==
  /\ aborted[r] \/ Deadlocked(r)
  /\ RunFails(r) \/ StatementFails(r)

Progress(r) ==
  \/ Discover(r) \/ SendUpsert(r) \/ Execute(r) \/ ServerRejects(r)
  \/ SourcesDone(r) \/ PickModule(r) \/ PickUrl(r) \/ FetchSkips(r)
  \/ FetchReturns(r) \/ Parse(r) \/ CollectSucceeds(r) \/ ModuleDone(r)
  \/ ModulesDone(r) \/ WriteLog(r) \/ Commit(r)

FairSpec == Spec /\ \A r \in Runs : WF_vars(Progress(r))

-----------------------------------------------------------------------------
(* Properties. *)

(* A run implements AtomicRuns: its rows and its log row become durable in
   one step, never again and never without each other, a run that does not
   reach the commit leaves nothing, and "success" is returned only after it
   (session() in connection.py and the place of log_repo.create).          *)
Atomic == INSTANCE AtomicRuns WITH durable <- durable, logged <- logged, status <- status

ImplementsAtomicRuns == Atomic!Spec

(* A stored run holds every source it discovered and every row of every
   collect() that returned "success", however many savepoints were opened
   and rolled back around them.                                            *)
StoredRunIsComplete ==
  \A r \in Runs : logged[r] # "none" => kept[r] \subseteq durable[r]

(* The success flag of collection_logs is what the collects returned: "ok"
   exactly when none of them, in any module, returned "failed", although
   every collector swallows its exceptions and the error lists are built per
   module and merged later.                                                *)
LogTellsTheTruth ==
  \A r \in Runs : logged[r] # "none" => (logged[r] = "ok" <=> failed[r] = {})

(* Once the server has aborted a run's transaction nothing of the run ever
   becomes durable: the code cannot carry on to a commit of half the rows. *)
AbortedRunStoresNothing ==
  \A r \in Runs : aborted[r] => logged[r] = "none" /\ durable[r] = {}

(* Every run that has begun ends, also when runs of the same competitor
   overlap and wait for each other's row locks.                            *)
RunsEnd ==
  \A r \in Runs : (pc[r] # "idle") ~> (pc[r] = "done")

(* README.md:300: "Each collector writes within a single database
   transaction. Partial failures roll back cleanly."  No row is stored that
   only failed collects have written.                                      *)
PartialFailuresRollBack ==
  \A r \in Runs : durable[r] \subseteq kept[r]

(* brain.md:49: "Atomic upsert with savepoint error isolation".  A rejected
   upsert in one collect() does not take down a run in which another
   collect() had stored its page.                                          *)
SavepointIsolation ==
  \A r \in Runs :
    status[r] = "failed" /\ aborted[r] => \A u \in Urls : RawRow(u) \notin kept[r]

=============================================================================
