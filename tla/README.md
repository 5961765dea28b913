# Verification of the data collection engine

TLA+ modules, TLC configurations and TLAPS proofs for the Python program in
`app/` (all paths below are relative to the repository). The program crawls
competitors' websites on a schedule and stores what it finds in PostgreSQL.
What can go wrong in it is rarely in one function: it is in runs that overlap,
transactions that abort half-way, a scheduler that decides on state it read
before an await, and a cache that all collectors share. That is what the
modules model.

## Inventory

| Part | State it keeps | Operations | Interacts with |
|---|---|---|---|
| Collection service (`services/collection_service.py`, `database/connection.py`) | one transaction and its locals per run; collectors shared by all runs | `collect_competitor`, `_collect_module`, session commit and rollback | called by the scheduler, the API and `scripts/collect.py`; calls discovery, collectors, repositories |
| Collectors (`collectors/{base,company,service,pricing,content,social}.py`) | none per call | `collect`: fetch, store raw, parse, filter, upsert; catches everything | fetcher, parsers, repositories |
| Scheduler (`schedulers/scheduler.py`) | `_running`, loop task, `_active_collections` | `start`, `stop`, check loop, `_collect_with_retry` | competitors and logs in the database; the service |
| Fetcher (`collectors/fetcher.py`: `HybridFetcher`) | one instance for all collectors: HTTP client, renderer, limiter, cache | `fetch`, `_fetch_static` with retries, Playwright fallback, `close` | cache, limiter, web servers |
| HTTP cache layer (`HttpCacheLayer`) | validators and hash per URL, at most 10000 | `store`, `invalidate`, `build_conditional_headers`, `is_cache_expired` | fetcher |
| Rate limiter (`RateLimiter`) | tokens, time of last refill, lock | `acquire` | fetcher |
| Playwright renderer, page analyzer, URL validation | browser and context; none; none | `render...`, `close`; `analyze`; `_validate_url_not_private` | fetcher, discovery |
| Discovery (`collectors/discovery.py`) | an HTTP client per run | `discover`: robots, sitemaps, home page, de-duplicate, rank, truncate | service |
| Crawl budget (`collectors/crawl_budget.py`) | queue, visited set, counters | `add_url`, `next`, `reset` | its tests only |
| Repositories and models (`database/`) | the tables and their unique keys | ON CONFLICT upserts, log insert, queries | service, scheduler, API |
| API (`api/`, `main.py`) | request windows per client | competitors, collection, queries, life span | scheduler, service, repositories |
| Configuration sync (`services/config_sync_service.py`) | loaded file | insert missing competitors | repositories |
| Parsers (`parsers/`) | parse cache, strategy statistics | `parse_for_type`, `merge`, ranking | collectors |
| Utilities (`utilities/`) | metrics, LRU cache, trace id | counters, `cached_parse`, hashing, URL normalisation | everywhere |

What is hard, and what makes each part correct:

* **Collection service.** Many savepoints in one transaction, exceptions that
  are swallowed at two levels, a log row written last, a commit whose outcome
  may be lost, overlapping runs that lock the same rows. Correct: a run is
  stored as a whole with its log or not at all; the log's flag is true; every
  run ends.
* **Scheduler.** A set read before an await and joined after a task switch;
  retries, backoffs and edits while a check is under way; restarts. Correct:
  one task per competitor, nobody is excluded for ever, runs keep their
  distance.
* **Fetcher and cache.** Concurrent fetches of a URL that interleave their
  cache reads, updates and invalidations around awaits; servers that send a
  validator only sometimes; a cache at its limit. Correct: a page is skipped
  only if it has been handed to somebody, a shell that was rendered is not
  vouched for, the cache is bounded.
* **Cache and transactions together.** The cache is filled when a page
  arrives; the page is durable when its run commits, minutes later, or never.
  Correct: what the cache vouches for is stored, or on its way, or its loss is
  known; a run that commits leaves what it was shown.
* **Rate limiter.** Time that is slept with the lock held. Correct: a bound on
  the rate, and nobody starves.
* **Renderer.** A start of three awaits that nothing keeps a second caller out
  of, a `close` of three awaits under renderings. Correct: every browser that
  runs is held, or known to be left; a renderer without a context has a reason.
* **Discovery.** A recursion without a visited set, six spellings of one page,
  sources that fail one by one. Correct: nothing found is lost, the best
  source wins, a page comes once, the cut drops the worst.
* **Parsers.** A cached result that callers change, strategies whose order
  changes and that raise. Correct: what a page offers arrives, and nothing
  else but what is known to be added.
* **Tables.** Upserts that name one key and change columns of others; tables
  made by two scripts that disagree. Correct: a store by key; the only
  rejections are the known ones.
* **Catalogue.** Workers that synchronise at once, requests that look up and
  then insert or delete, runs that refer to a competitor. Correct: names are
  unique, no orphans, a synchronisation is all or nothing, answers hold.

`PROJECT.json` lists every hazard at its line, with the properties that cover
it or the reason why none does yet.

## Modules

Operators named `Fault...` stand before the definition that they vary. They
are plausible mistakes, used to see that each property notices one; no
specification uses them.

### AtomicRuns and CollectionService

`AtomicRuns` is what callers of `collect_competitor` may rely on: everything
that a run stores becomes durable in one step with its log row (`Store`), or
the run gives up and leaves nothing (`GiveUp`). A commit whose acknowledgement
is lost is stored and reported "failed", as in the code.

`CollectionService` is one run per element of `Runs`, all for one competitor.
`pc` follows `collect_competitor`:

```
idle -> discover -> sources -> modules -> urls -> fetch -> store -> parse -> items
                                  ^ |        ^------------------------------- |
                                  | +---- (next module)                       |
                                  +-> log -> commit -> done     (any failure -> done)
```

| State | Code |
|---|---|
| `found`, `modsLeft`, `module`, `urlsLeft`, `url`, `todo`, `batch` | the locals of `collect_competitor`, `_collect_module`, `collect` |
| `stmt` | the upsert that is awaited |
| `writes`, `saved`, `aborted` | the transaction: uncommitted rows, the rows at the last savepoint, the server's aborted flag |
| `badUrls`, `errors` | results with status "failed" of the module, and the run's error list |
| `durable`, `logged`, `status` | what outlives the run |
| `failed`, `kept` | history, for the properties only |

A row is a table and the column that its unique key holds beside
`competitor_id`. What discovery finds, which URLs match a module, and what a
page yields are left open: any set. The company collector always upserts one
row, the others any number.

The database is modelled from its use, as PostgreSQL behind SQLAlchemy:

* an upsert waits for a row that another open transaction has written, and
  holds it until its own end; a cycle of waits is a deadlock, which the server
  breaks by rejecting a statement of a member;
* a rejected statement aborts the innermost subtransaction; until a rollback
  every further statement is rejected;
* `begin_nested()` sends its SAVEPOINT with the first statement inside it; a
  savepoint whose RELEASE has failed is inactive, so `rollback()` of it sends
  nothing. This is why `StatementFails` leaves `aborted` set.

`Crash` ends a run anywhere; the server then rolls it back.

### Scheduler

The check loop (`loop`), the tasks (`slot`), `_active_collections` (`active`),
the competitors (`freq`, `enabled`), which somebody edits in the database (no
PUT does, see Catalogue), the age of each one's last log (`sinceLog`), and runs
started by the API (`apiRun`). A step is what asyncio
runs between two awaits. `create_task` queues the task before anything that
resumes later, so no coroutine that comes out of an await runs while a task is
`created` (`NoneCreated`). That ordering, external to the code, is what closes
the gap between line 72, where the set is read, and line 106, where the task
joins it: without the test of the set (`FaultExamine`) two tasks of one
competitor do occur.

Times are ages in ticks up to `Cap`. `collect_competitor` is reduced to what
`CollectionService` shows of it: it logs and returns "success", or logs and
returns "failed" (lost acknowledgement), or leaves nothing. `Slots` must have
room for more tasks than competitors, so that a second task could exist.

`MCScheduler` gives the order of frequencies, their intervals and the
symmetry.

### HttpCacheLayer, HttpCache, HybridFetcher

`HttpCacheLayer` has the cache's operations as operators on a sequence of
entries in order of insertion. An entry's `etag` stands for both validators,
which the code treats alike; `control` is what `is_cache_expired` tells apart;
`aged` says that max-age has passed. A Cache-Control that neither forbids
reuse nor has a max-age (`is_cache_expired` returns False) behaves as a
max-age that has not passed yet. A content hash is the content itself.

`HttpCache` is the cache alone, any calls in any order; it is a part of
`Stores`.

`HybridFetcher` is concurrent calls of `fetch` on one cache:

| `pc` | Code |
|---|---|
| `idle` -> `acquire` | cache read, validator and expiry kept in locals (924-925) |
| `acquire` -> `request` | the limiter, once per fetch (1098) |
| `request` -> `handle` | `client.get` has been answered |
| `handle` -> `done`, `render`, `backoff` | 304, 404, same hash, new page, 4xx, retryable, other exception |
| `backoff` -> `request` | the delay between attempts |
| `render` -> `done` | Playwright returns or raises; on success the URL leaves the cache |

The server decides an answer in one step, and the call handles it in a later
one. Pages change at most `MaxChanges` times. `Shells` are the contents for
which `PageAnalyzer` asks for rendering; the empty page of a 4xx always does
(30 points for minimal and 25 for poor content, of 50). `Page.content()` never
returns an empty string, so the code's test of it is not modelled. `Malformed`
are contents on which the analyzer raises (`ClassificationFails`): the page has
entered the cache and nobody gets it.

### IncrementalCollection

The cache of `HttpCacheLayer` composed with the transactions of the runs. A
collect (a module and a URL, `Jobs`) is reduced to what the modules above show
of it:

| `pc` | Code |
|---|---|
| `next` -> `wait` | `fetch` has read validator and expiry |
| `wait` -> `next`, `got`, `render` | 304 or same hash; a page; a page or a 4xx that is rendered first; nothing |
| `render` -> `got`, `next` | rendered, and out of the cache; or not, and the page handed on as fetched |
| `got` -> `raw` -> `next` | `store_raw`, then the module's items |
| `next` -> `done`, `failed` | commit or rollback, after the last collect |

A row is a page's content: the raw row of a URL (`Raw`), and what a module has
parsed from it. `Bypass` is the pricing collector, whose browser uses neither
the shared fetcher nor its cache. Runs are those of one process: a script has
a cache of its own. A crash empties the cache. `Plans` are the collects that a
run makes, which `CollectionService` derives from discovery; a retry is a
later run.

The history says what the server has shown (`shown`, `visited`), what
committed raw rows have held (`stored`), what a collect held and nobody stored
(`lost`), URLs that two open runs were about (`crossed`), and URLs handed out
while the cache named another content of them (`mixed`).
`CommittedPagesAreCurrent` has the last three as excuses, and none of them can
be left out: TLC then finds a run that commits without errors and leaves an
older page than the server has shown it. So they are the ways in which this
code does fall behind, and the property says that there is no other:

* a run is rolled back, or a collect fails, after the cache was filled: the
  retry is answered 304 and stores nothing;
* of two overlapping runs the one that fetched earlier stores later, or one
  is told that a page is unchanged which the other then rolls back;
* a response without a validator leaves the older one in the entry, and the
  page changes back; or the pricing collector stores a page that the cache has
  not seen, and the page changes back to the one that it has.

### RateLimiter

`acquire` in units: `Token` of them to a token, `Flow` per tick, `Burst` at
most. `accrued` is the flow since `_last_refill`, cut off at `Full`, from
where on every refill fills the bucket. `asyncio.Lock` is first come, first
served. A sleeper may wake late. `strict` and `double` are history: buckets of
the configured and of twice the rate, from which every caller that is let
through takes a token. `strict` is counted down to one token of debt.

### Renderer

`PlaywrightRenderer` with all who use it: fallbacks of `fetch` share the object
of the fetcher (`current`, replaced by `close`), each pricing collect makes one
of its own. Drivers, browsers and contexts are named by the call that made
them; the fields `playwright`, `browser`, `context` are per object.

| `pc` | Code |
|---|---|
| `idle` -> `start` -> `launch` -> `context` -> `page` | `_ensure_browser`, an await each; `Join` when all is there, `NoContext` when only the driver is |
| `page` -> `goto` -> `content` -> `close` -> `done` | `render` |
| `city` -> `services` | city selection, whose click may take the tab elsewhere (`shows` is then "city"), and the service pages that are visited in the same tab |
| `closer` | `close()`: context, browser, driver, each awaited and then forgotten |

### UrlNormalizer and Discovery

`UrlNormalizer` is `normalize_url` on the parts of a URL: the labels of its
host, its port, the segments of its path, the pairs of its query. `Discovery`
is one `discover()`; the site answers anything out of `Lists` and `Sitemaps`.
`stack` holds the frames of `_fetch_sitemaps`, up to `MaxDepth`, the
interpreter's limit. `located` is history. `Deduplicate` is the loop of
`_deduplicate`, a recursive function over the length of the list. `Lists` has
the loops that other components have as well: `Chosen`, which keeps the items
at some places (here the domain filter), and `Sorted`, a stable `sorted()` with
reverse=True. What the model made plain:

* a sub-sitemap is never read: its frame asks the host's `/sitemap.xml` again,
  so an index of n own sitemaps costs up to n^depth requests
  (`RequestsAreBounded`), and only the recursion limit ends it;
* sitemaps that `robots.txt` names and the `<loc>` of an index become pages;
* a page that both the sitemap and the navigation list is reported with the
  source "sitemap", which wins the de-duplication (`Priority`) and then ranks
  below "nav" (`Score`);
* `https://h?a` and `https://h/?a` stay two pages (the exception in
  `PagesComeOnce`); a `website_url` that names its default port loses all its
  own pages under `same_domain_only` (the exception in `OwnPagesAreKept`);
* the browser that rendered a home page is closed by nobody.

### ApiPricing and Parsing

`ApiPricing` is what the pricing collector reads out of intercepted answers:
`ExtractFrom`, a recursive function of the levels that are left, at most five,
over JSON objects. `Parsing` is one atomic step per parse, since nothing in it
awaits: the strategies in the order of their statistics, the merge, the parse
cache, the shared statistics file, then the entries that the collector appends
to the cached list. What the model made plain:

* an answer whose top level is a list is not read; an empty string under the
  first name key hides the later keys;
* an item that an API call added is found again by the next call on the same
  page (`ForeignItemsAreKnown`);
* `merge` takes the first item of a name: one that a strategy finds without a
  price (`json_ld.py:182`, an offer that names none) hides the price that a
  later strategy finds for it. Which strategy is first depends on the
  statistics. `NothingIsMissed` therefore says that every name arrives with an
  item found on the page, and not with which price; the instance has an
  "offer" without a price and at 3.

### KeyedStore and ItemTables

`KeyedStore` is what the item tables promise to runs that follow each other.
`ItemTables` has the seven tables that runs upsert into, the unique keys that
`create_all` and the migrations make, and for every upsert its ON CONFLICT
target and SET list. The two schemas are not the same: with the tables of
`create_all` there is no key for the target of services, so that the first
service a run finds aborts it (`RejectionsAreKnown`). `create_all` runs in the
life span of every process; the scripts run the migrations first and go on
when they fail.

A hash is of the name, with case folded, and of what it covers of the rest
(`Hashed`): the hash functions leave out the duration of a service, the
discount and the plans of a price, the summary of an article, the cities of a
company. So an upsert may change a row in place under the same hash, as
contents 1 and 3 of the instance do. The ON CONFLICT targets are not those that
the README of the program describes: see `PriceChangesAreKept` and
`OneRowPerContent` below.

### Catalogue

The competitors table, with sessions as READ COMMITTED transactions of single
statements: the life span of each worker (`create_all`, then
`sync_competitors`), POST, PUT and DELETE, and runs that insert rows with a
foreign key. Unique names and rows make statements wait; the server aborts a
member of a cycle.

The handler of a request returns its answer (`Answer`), and the session commits
when the dependency `get_session` is left (`Commit`). pyproject.toml admits
versions of FastAPI that do this before the response is sent and, from 0.118
on, after it; the constant `AnswersFirst` says which. The run has the second,
where a commit may fail whose answer the client has (`dropped`, history, are
these requests), and the theorems are about both. `removed` (history) are deleted names.

A PUT that changes a row never gets as far (`AnswerFails`): the UPDATE expires
`updated_at`, and reading it for the answer raises in an `AsyncSession`, so that
the session rolls back. Its locks, and its wait for a name, are modelled up to
that point. A PUT that changes nothing is a read and is left out; so is
what a PUT of a null `website_url` would store, the text "None".

### ApiLimiter, CrawlBudget, Metrics, HttpCache in Stores

Four small stores, each with a limit and a clean-up, which share nothing:
`Stores` instantiates all four and lets a behaviour belong to one of them.
`ApiLimiter` is `RateLimitMiddleware` with its clean-up; `CrawlBudget` the
engine that only its tests call; `Metrics` the counters, histograms and gauges
of `MetricsCollector`. The assumptions on their constants are in `Stores`, and
`MCStores` gives them values and puts `RateLimiter` beside them, as a fifth
part.

## Runs

Twelve runs, one per module or group; TLC refutes two of them, which are
described under the table. Type invariants of the modules that have
proofs are theorems and not run again; those of the others are the first
conjunct of the invariant that names the module (`RendererInv`, `DiscoveryInv`,
`ParsingInv`, `TablesInv`, `CatalogueInv`, `StoresInv`), beside facts on which
the other properties of the run lean.

| Run | Instance | Shows |
|---|---|---|
| `CollectionService.cfg` | 2 runs, 2 pages and the base URL, 1 key, modules services, discovery and an unknown one, 700,902 states | stored runs are complete; the log's flag is true; an aborted run stores nothing; `AtomicRuns` is implemented; every run ends, through row locks and deadlocks |
| `Scheduler.cfg` | 1 competitor, 2 slots, 2 retries, runs longer than the hourly interval, 2 events, 470,528 states | one task per competitor; the active set is accurate; successful runs keep the interval; due competitors are taken up; tasks end |
| `HybridFetcher.cfg` | 2 calls, 1 URL, a page, a shell and a malformed page, 2 attempts, 1 change, 166,006 states | what the cache vouches for; what is skipped; every fetch ends |
| `Incremental.cfg` | 2 runs, 3 modules on 1 URL, 2 changes, symmetry, 2,034,931 states | what the cache vouches for is accounted for; committed pages are current |
| `Renderer.cfg` | 2 fetches, 1 pricing collect with 2 service pages, 1 close, 1 crash, 3,653,671 states | browsers are accounted for; a missing context has a reason; whose HTML is returned |
| `Discovery.cfg` | 7 spellings of 4 pages, 2 of `website_url`, 3 link lists, 3 sitemaps, 3 settings, depth 3, 2 pages kept, 125,322 states | what is found, once, from its best source; the cut; requests; what is left open |
| `Parsing.cfg` | 3 strategies, 2 parsers, 2 pages, objects up to 8 deep, cache of 1, 2 runs and a restart, 67,569 states | values and prices arrive; foreign items are known; the cache |
| `Items.cfg` | 11 items of 5 tables in 2 spellings, with contents of one hash, 2 per run, both schemas, 102,853 states | keys, hashes, rejections; idempotence; `KeyedStore` is implemented |
| `Catalogue.cfg` | 2 workers with 1 restart, 2 requests, 1 run, 2 names, 4 ids, answers before commits, 1,672,456 states | unique names, no orphans; atomic synchronisation; answers that are true, but for those whose commit failed |
| `Stores.cfg` | cache of 4 with 5 URLs; 3 clients with 2 requests a minute; 3 pages; 3 entries of metrics; 3 callers on a bucket with a burst of two tokens, 929,567 states | the bounds, oldest first, the limit of requests; at most twice the rate, and nobody starves |

Why the bounds suffice. One run of the collection service has all its loops: a
collecting module and two others with up to two URLs show that errors and rows
survive the next module, and that an aborted transaction meets another
savepoint; two collecting modules in one run are left to the proofs. Two runs
with two rows are the smallest deadlock. Two competitors matter to the
scheduler only where one check handles several; spacing and liveness are per
competitor, since tasks share nothing but the active set, so the run uses one
and spends its states on time; `OneTaskPerCompetitor` and `ActiveIsAccurate`
are proved for any number. `Cap` exceeds every interval plus the longest check
and run, so no comparison of the code sees the cut-off. Four entries are the
least for which a quarter is not empty, and five URLs the least that overflow
them. Two calls and two contents make every interleaving of a fill with an
invalidation. `Incremental.cfg` needs two changes, so that a page may change
back to one that is cached; two runs overlap or follow each other, as run and
retry do; two cached modules and one past the cache meet on one URL, and URLs
share nothing in that module but the evictions, which only forget. Two fetches
are enough for two starts on one renderer, and one close and one crash for
each await to be met by them. Three frames of sitemaps are two returns into a
frame that has more to ask. Two items per run are two upserts of which the
second meets the row of the first; runs follow each other without bound. Two
workers that start together, and one restart, are all orders of two
synchronisations and a crash; two requests are a creation against a deletion
or a renaming of the same name. A cache of one parse makes an eviction at the
second page. The proofs below carry the safety properties of all runs to all
sizes, but for two of `Discovery`.

### Statements of the documentation that the code does not keep

Two runs check a sentence of the documentation, and TLC refutes it:

* `IncrementalModules.cfg`: README.md:191 speaks of independent collector
  modules, but the second module that selects a page of a run is answered 304
  and has nothing from it (`ModulesAreIndependent`).
* `CatalogueUpdates.cfg`: README.md:260 has a PUT that updates a competitor,
  but one whose statements have all succeeded is answered with an error and
  rolled back (`UpdatesAreMade`; `AnswerFails`).

More such statements are written down as properties beside the module that
refutes them, each with the line it quotes; a configuration that names one as
an invariant or property shows the behaviour.

| Property | Statement | What happens |
|---|---|---|
| `CollectionService!PartialFailuresRollBack` | README.md:300, partial failures roll back cleanly | rows of a collect that failed on the client's side are committed |
| `CollectionService!SavepointIsolation` | brain.md:49, savepoint error isolation | one rejected upsert loses the whole run |
| `RateLimiter!RateIsRespected` | brain.md:441-442, 0.5 per second, burst equal to the rate | the time of a sleep counts twice |
| `Catalogue!SyncedOnStartup` | README.md:228, the file's competitors are in the database | a worker serves although its synchronisation failed |
| `ItemTables!PriceChangesAreKept` | README.md:330 and test_duplicate_prevention.py:789, a changed price is a new record | the upsert of prices names `(competitor_id, service_name)` and overwrites the old one |
| `ItemTables!OneRowPerContent` | README.md:331 and test_duplicate_prevention.py:460, articles are de-duplicated by content hash in the second place | the upsert names the URL only: two addresses that differ in the case of their path have one hash and two rows; with `Items <- Articles` |
| `Parsing!EffectiveGoFirst` | README.md:15, reorders by confidence and speed | no partial result carries a confidence, so every run counts as a failure and only time decides |
| `Renderer!SingleBrowser` | base.py:19, single browser instance | two callers start one each |
| `Renderer!HtmlIsOfTheUrl` | fetcher.py:379, renders a page | the HTML of a service page, or of where a click on a city led, is returned for the URL |
| `ApiLimiter!LimitHoldsForAll` | main.py:114, 60 requests per minute | the clean-up forgets a client that is counted |
| `CrawlBudget!PagesAreCapped` | crawl_budget.py:83, hard cap | `next()` does not ask |
| `Metrics!CountersNeverFall` | counters only rise | the oldest entries are cut off |

Some more sentences of the documentation are contradicted by a single step of
the model, which is plain from reading it and needs no run:

* fetcher.py:762 says that unchanged pages are answered 304; an update keeps
  the validator of an older response beside the hash of a newer one
  (`Refresh`), so the validator may be of another page than the hash.
* brain.md:731 says the cache is LRU; `get` and updates move nothing, so the
  order of insertion decides (`MakeRoom`).
* fetcher.py:878 says that rate limiting is respected; `Acquire` is taken once
  per fetch, and retries (`Retry`, `Respond`) take no token.
* brain.md:433 says that a 4xx returns immediately; `PermanentError` goes on
  to the renderer.
* brain.md:434 says that DNS failures fail fast; they arrive as `ConnectError`
  and are retried (`TransientError`).
* fetcher.py:914 says that a 304 updates metadata; `NotModified` leaves the
  cache as it is, so that an entry whose max-age has passed stays expired.

## Fairness

* `CollectionService!FairSpec`: a run that can go on does. Requests have
  timeouts, the server executes what is not blocked, rejects what an aborted
  transaction sends, and breaks deadlocks. No call need be made, and nothing
  need fail or crash. It also assumes that discovery returns, which a sitemap
  index can prevent for practical purposes (see the plan).
* `Scheduler!FairSpec`: weak fairness of the loop and of every task, as the
  event loop gives it to coroutines whose await is over. Nothing is assumed of
  the API, of failures or of restarts. Time is not forced to pass: a task that
  sleeps is resumed.
* `HybridFetcher!FairSpec`: the limiter lets every call pass, which
  `RateLimiter` shows, and requests and renderings time out.
* `RateLimiter!FairBucketSpec`, which `MCStores!ProcessSpec` repeats: time
  passes, and the event loop runs the holder of the lock or its next taker.

## Proofs

All theorems hold for every value of the constants under the assumptions
named in the modules (`ConstantsAssumption` and `RowsAssumption`,
`SchedulerAssumption`, `CacheAssumption`, `FetcherAssumption`,
`PlansAssumption`, `LimiterAssumption`, `ItemTablesAssumption`,
`RendererAssumption`, `DiscoveryAssumption`, `ApiPricingAssumption`,
`ParsingAssumption`, `CatalogueAssumption`, `StoresAssumption`). `tlapm` checks
every leaf. `DiscoveryAssumption` says that lists and sitemaps hold URLs of
`Urls`, that one sitemap is the widest, that every word of a URL has a worth, and that the settings are flags:
what `urlparse`, the table of words in `_rank` and pydantic give.
`ParsingAssumption` says that weights are positive, as all those under
`parsers/strategies/` are, that strategies find lists of items, that a price
they find is positive (`parse_price` has none for 0), and that an answer is a
list or one object; strategies may find anything else at will.

| Module | Theorem | Inductive invariant |
|---|---|---|
| `CollectionServiceProofs` | `TypeCorrect`, `StoredRunsAreComplete`, `LogsTellTheTruth`, `AbortedRunsStoreNothing`, `RunsAreAtomic` | a run that is not done has stored nothing, and one that is idle has no history; uncommitted rows include the kept ones while the run is under way; the error lists together are empty exactly when no collect failed; only an unaborted run passes the log |
| `SchedulerProofs` | `SchedulerTypeCorrect`, `NoDoubleCollection`, `ActiveSetIsAccurate`, `SuccessfulRunsAreSpaced` | besides the two properties: the competitor whose log is being read is neither active nor in a created task, because a created task excludes every step out of an await; and the spacing (`SpacingInv`), below |
| `HybridFetcherProofs` | `FetcherTypeCorrect`, `CacheStaysBounded`, `RenderedPagesAreRefetched`, `SkippedPagesAreKnown` | the bound with uniqueness; for every call that holds a shell, where it may be in its course; and what the cache and the calls can name has been handed out or is going to be (`SkipInv`) |
| `IncrementalProofs` | `IncrementalTypeCorrect`, `CachedPagesStayAccountedFor`, `CommittedPagesStayCurrent` | where a run is agrees with what it holds (`PlaceOK`); for each URL that is neither crossed nor mixed (`Settled`): what a run was shown is lost, or it has it, or the table has it; what the cache or a waiting fetch names is lost, or a run has it, or nobody has the URL and the table has it; one run at a time is about it |
| `StoresProofs` | `StoresKeepTheirLimits`, `ClientsAreLimited`, `EvictionIsInOrder` | `StoreInv`, a part of each store, below; before it, lemmas about the operations of `HttpCacheLayer`, which the proofs of the fetcher and of the incremental collection cite too |
| `StoresProofs` | `LimiterTypeCorrect`, `RateIsAtMostDoubled` (of `RateLimiter`) | `CreditInv`: awake, `double` covers the next refill; asleep, what has flowed in and what is still owed cover the missing part of the token, and `double` covers both the token and the second credit |
| `ItemTablesProofs` | `TablesStaySound`, `OnlyKnownRejections`, `RecollectingIsIdempotent`, `TablesAreAStore` | `Sound`, of the committed and of the open rows: their shape, one per key, what each hash says of its row (for prices: of its name); and a batch of nothing but stored items has left the open rows as the committed ones are |
| `WebProofs` | `RenderersAreSound`, `NoOtherBrowserIsLost`, `HtmlStaysKnown` (of `Renderer`) | `Turns`: on an object that no two calls have started at a time and nobody closes, one start is under way at most, it has found no browser there, and the fields say how far it is; what is held was made there; what is closed is the shared object |
| `WebProofs` | `DiscoveryIsSound`, `BestSourcesWin`, `TruncationIsFair`, `ListedUrlsAreOffered`, `PagesDoComeOnce` (of `Discovery`) | `DiscInv`: there are frames while sitemaps are read, and only the last may await its answer, with nothing found (`Nested`); all that was located is offered or in a frame (`Gathered`); what is returned are the best of the candidates (`Selected`); two spellings of one page have one normal form, but for the slash of the front page (`OneNormalForm`) |
| `WebProofs` | `RequestsStayBounded` (of `Discovery`) | `ReqInv`: what was requested, and what the frames on the stack may still request (`Owes`), is within what the levels allow; a frame that descends gives up the share of one sitemap, which is what the new frame has and the request itself |
| `WebProofs` | `ParsingIsSound`, `BestValuesWin`, `ForeignItemsStayKnown`, `PricesDoArrive` (of `Parsing`) | `ParseIInv`: each cached entry has the value of a weightiest strategy, every name of its page from its page, and nothing else but what is in its `added` (`IsSound`); what is handed over is what is accepted of an entry in the cache, with this call's API prices (`HandsOver`) |
| `CatalogueProofs` | `CatalogueIsConsistent`, `SyncsAreAtomic`, `AnswersAreKept` | `Locks`: a row that a session has changed and a name that it wants are no other session's, ids are drawn once, a run that stored rows keeps its competitor's row from being deleted; `Places`: where a worker, a request or a run is agrees with what it has read, changed and answered |

The invariants are needed because the properties alone are not inductive:
nothing in `LogTellsTheTruth`, for instance, says that the failures of the
current module are still to be merged. `CommittedPagesAreCurrent` speaks of
one step only: what makes it true is that a skip was decided by something the
run could trust, which is an invariant of the cache, of every fetch that waits
and of the table together.

`ScheduledRunsAreSpaced` needs that, while a competitor has a task, its last
success is older than the interval of the task, retries and edits included
(`SpacingInv`): a success is never younger than its log, and a competitor has
one task. `SkipsAreKnown` is about one step, too: a 304 or an equal hash names
a content that the cache or a waiting call knows, and `SkipInv` says that
every such content is known.

The catalogue's properties are about committed rows, but what makes them true
is in open transactions: the locks that PostgreSQL takes for unique names,
changed rows and foreign keys. `CatInv` is about the table as each session
would leave it (`View`), so that a commit needs no case of its own for each
history. TLC has checked it on the instance of `Catalogue.cfg`.

What the loops of `Discovery` compute is proved by counting their steps: a
property of numbers that holds of 0 and passes from n - 1 to n holds of every
length (`Induction`, by a least counterexample), and so a recursive function
over 0..n is the iteration of its step (`Iteration`). `DeduplicateIsBest`,
`OfSiteIsExact` and `RankSorts` say what each loop returns for any list: one
entry per key with its best source, what is of the site in order, and the same
entries by falling score. `TruncatedIsBest` puts them together for `Finish`.

The lemmas about `Lists` serve `Parsing` as well: what is chosen of a list has
a place for each of its items, in order (`ChosenIsExact`), and a sort is a
permutation along which no rank rises (`SortedSorts`). `MergeMakes` says what
one more strategy makes of a result, in terms of the set of strategies so far
and not of their order; with `RankedIsComplete`, which says that no statistics
leave a strategy out, `ParsedMakes` holds for every order. For the prices of an
API, `WithinIsReached` compares the recursion of `_extract_from_dict` with the
objects that are within five levels, and `OnlyPriceIsParsed` the order of keys
in `_parse_pricing_dict` with an object that has one of each (`GivesOnly`).

In `StoresProofs` the cache is `GoodCache`. A client's window is, until the
clean-up forgets the client, the last of its served requests, and all before
it have expired (`KeptOf`); so the request `Limit` before a served one is a
minute old (`Spaced`), from which a count over any minute follows
(`SpacedIsLimited`). What a crawl has queued or crawled is visited, under one
key each, as many as are counted (`CrawlInv`). A counter's entries are counted
as a set of positions, which one more entry adds to and a cut takes from
(`AtAppended`, `CappedCountsNoMore`).

Two refinements are proved as well as checked: `CollectionService` implements
`AtomicRuns` (`RunsAreAtomic`), and `ItemTables` implements `KeyedStore`
(`TablesAreAStore`). The second maps a set of rows to a function from keys to
data, which is a function because of `Sound`; an upsert is a `Put` since its
row replaces all that have its key (`ViewOfUpsert`). `RejectionsAreKnown` is
proved from the keys of both schemas, table by table (`KeysOfTables`).

Model-checked only: the liveness properties (`RunsEnd`, `DueIsTakenUp`,
`TasksEnd`, `FetchesEnd`, `EveryCallerIsServed`), which need fairness and
ENABLED, out of the prover's reach. Every safety property of the passing runs
is proved. `SelectSeq` is unfolded nowhere: `PagesDoComeOnce` needs
only that equal queries and paths are filtered to equal ones.

## Not modelled, and why

* Extraction heuristics, page classification and language detection: pure
  functions of a page's text without state. `Parsing` takes what each strategy
  finds as a constant.
* `extract_canonical_url`, `is_tracking_url`, `URLDeduplicator` and
  `ContentDeduplicator`, and `render_with_api_interception` with its only user
  `_fetch_dynamic_with_interception`: nothing under `app/` calls them.
* `normalize_content_url`, which turns the link of an article into the name of
  its row: a function of the two URLs. `verify_browser` starts and closes a
  browser before the process does anything else.
* Which addresses URL validation refuses: a function of the URL and of DNS.
* Query endpoints, logging, tracing, export formats: reads and output.
* Column types, enums and indexes. The key sets of both schemas are in
  `ItemTables`; that the enums of migration 001 differ from the models' is not.
* A lost acknowledgement of a commit is in `CollectionService` and `Scheduler`
  only; in `Catalogue` and `ItemTables` a commit is known to its session.
* The disposal of the engine under tasks that `stop()` leaves running
  (`main.py:69`): their next session raises, which is `Crash` or a failure of
  `CollectionService` for the run it hits.
* Several workers each run a scheduler (`scripts/run.py:32`). `Scheduler` is
  one of them, and the runs of the others are its `apiRun`.
* The statistics file when two processes write it; `Parsing` is one process.

## Plan

Done, in the order of importance: collection service with its abstract
specification, scheduler, cache and fetcher, cache and transactions together,
rate limiter; then renderer, discovery, parsing, tables with their abstract
specification, catalogue, middleware and the other stores.

Left:

1. The life span as a module: disposal of the engine, tasks in flight, several
   schedulers on one database.
2. `Catalogue` and `ItemTables` composed, with runs that overlap on rows of
   both.
