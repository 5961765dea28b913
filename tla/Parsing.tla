------------------------------ MODULE Parsing -------------------------------
(***************************************************************************)
(* How a page becomes items: the strategies of a StrategyParser in the     *)
(* order of their statistics, the merge of what they find, the parse cache *)
(* that the parsers of all collectors share, the statistics file that they *)
(* share as well, and what the pricing collector adds to a parse.          *)
(*                                                                         *)
(* A parse and what the collector does with it up to its first upsert have *)
(* no await between them: they are one step.  A page is a URL with its     *)
(* HTML, which is the cache's key.  A result is one scalar field, "value", *)
(* and one list, the pricing items.                                        *)
(***************************************************************************)
EXTENDS ApiPricing, Integers

CONSTANTS
  Strategies,  \* DEFAULT_STRATEGIES: a sequence of names
  Weight,      \* their weights, in hundredths
  Documents,
  Findings,    \* Findings[s][p]: what strategy s finds on page p
  Parsers,     \* one per collector
  Pricing,     \* the one of the pricing collector
  ApiAnswers,  \* what may be intercepted: sequences of answers
  Placeholder, \* its placeholders, in is_valid_pricing_entry
  CacheSize,   \* cached_parse: max_size
  MaxRuns,     \* bound: parses per parser
  MaxItems     \* bound: items of a result

Names == Range(Strategies)

Items == UNION {Range(Findings[s][d].items) : s \in Names, d \in Documents}

ASSUME ParsingAssumption ==
  /\ Pricing \in Parsers
  /\ CacheSize \in Nat \ {0} /\ MaxRuns \in Nat /\ MaxItems \in Nat
  /\ Strategies \in Seq(Names) /\ \A s \in Names : Weight[s] \in 1..100
  /\ \A s \in Names, d \in Documents : Findings[s][d].items \in Seq(Items)
  /\ \A item \in Items : item.price # Null => item.price > 0   \* parse_price
  /\ \A api \in ApiAnswers : api \in Seq(Range(api))
  /\ \A api \in ApiAnswers : \A answer \in Range(api) : answer.list \/ answer.of \in [1..1 -> Dicts]

VARIABLES
  cache,      \* the parse cache, least recently used first
  stats,      \* StrategyStats by parser and strategy
  file,       \* the statistics file: the stats of who wrote it last
  delivered   \* history: what a parser has just handed over

parsing == <<cache, stats, file, delivered>>

NewStats == [s \in Names |-> [runs |-> 0, wins |-> 0, time |-> 0]]

Empty == [value |-> Null, weight |-> 0, items |-> <<>>]

Values == {Null} \cup {Findings[s][d].value : s \in Names, d \in Documents}

Priced == Items \cup UNION {Range(ParsedDict(d)) : d \in Dicts}

Results == [value : Values, weight : {0} \cup {Weight[s] : s \in Names}, items : Seq(Priced)]

Entries == [page : Documents, aged : BOOLEAN, result : Results, added : SUBSET Priced]

Statistics == [Names -> [runs : 0..MaxRuns, wins : Nat, time : Nat]]

ParsingTypeOK ==
  /\ cache \in Seq(Entries) /\ \A e \in Range(cache) : Len(e.result.items) <= MaxItems
  /\ stats \in [Parsers -> Statistics] /\ file \in Statistics
  /\ delivered # Null => delivered.to \in Parsers /\ delivered.items \in Seq(Priced)

ParsingInit ==
  /\ cache = <<>>
  /\ stats = [p \in Parsers |-> NewStats]
  /\ file = NewStats
  /\ delivered = Null

-----------------------------------------------------------------------------
(* Ranking. *)

(* Thousandths; a run's time is counted in half seconds. *)
Composite(st) ==
  IF st.runs = 0
  THEN 250 + 180
  ELSE (500 * st.wins) \div st.runs
       + (IF 2 * st.runs > st.time THEN (200 * (2 * st.runs - st.time)) \div (2 * st.runs) ELSE 0)

Ranked(p) ==
  LET order == Sorted([i \in DOMAIN Strategies |-> Composite(stats[p][Strategies[i]])])
  IN  [k \in DOMAIN Strategies |-> Strategies[order[k]]]

-----------------------------------------------------------------------------
(* Merging. *)

FaultShouldReplace(result, weight) == TRUE

ShouldReplace(result, weight) == weight > result.weight

(* First come: an item whose name is there is dropped. *)
Joined(items, more) ==
  items \o Chosen(more, {i \in DOMAIN more :
                           \A before \in Range(items) \cup {more[j] : j \in 1..(i - 1)} :
                             before.name # more[i].name})

FaultMerge(result, s, page) ==
  LET offer == Findings[s][page]
  IN IF offer.raises THEN [result EXCEPT !.items = <<>>]
     ELSE [value |-> IF offer.value # Null /\ ShouldReplace(result, Weight[s]) THEN offer.value ELSE result.value,
           weight |-> IF offer.value # Null /\ ShouldReplace(result, Weight[s]) THEN Weight[s] ELSE result.weight,
           items |-> Joined(result.items, offer.items)]

(* A strategy that raises adds nothing. *)
Merge(result, s, page) ==
  LET offer == Findings[s][page]
  IN IF offer.raises THEN result
     ELSE [value |-> IF offer.value # Null /\ ShouldReplace(result, Weight[s]) THEN offer.value ELSE result.value,
           weight |-> IF offer.value # Null /\ ShouldReplace(result, Weight[s]) THEN Weight[s] ELSE result.weight,
           items |-> Joined(result.items, offer.items)]

Parsed(p, page) ==
  LET parsed[n \in 0..Len(Strategies)] ==
        IF n = 0 THEN Empty ELSE Merge(parsed[n - 1], Ranked(p)[n], page)
  IN  parsed[Len(Strategies)]

(* The confidence of a partial result is the default of ParsedResult: no   *)
(* strategy sets it, so that every run is recorded as a failure.           *)
PartialConfidence(s, page) == 0

Recorded(p, page, slow) ==
  [s \in Names |->
     [runs |-> stats[p][s].runs + 1,
      wins |-> stats[p][s].wins + IF PartialConfidence(s, page) > 0 THEN 1 ELSE 0,
      time |-> stats[p][s].time + IF s = slow THEN 1 ELSE 0]]

-----------------------------------------------------------------------------
(* cached_parse and LRUCache. *)

Without(page) == Chosen(cache, {i \in DOMAIN cache : cache[i].page # page})

Hits(page) == {e \in Range(cache) : e.page = page /\ ~e.aged}

FaultPut(entry) == Append(cache, entry)

(* At capacity the least recently used entry goes, unless this one's key   *)
(* is there; an expired entry was deleted by the get() before.             *)
Put(entry) ==
  LET rest == Without(entry.page)
  IN Append(IF Len(rest) >= CacheSize THEN Tail(rest) ELSE rest, entry)

FaultAccepted(items) == items

(* is_valid_pricing_entry *)
IsEntry(item) == item.name \notin Placeholder /\ (item.price # Null => item.price > 0)

Accepted(items) == Chosen(items, {i \in DOMAIN items : IsEntry(items[i])})

(* The pricing collector extends the list of the result, which is the      *)
(* cached one, by what it has found in API responses.                      *)
Extended(p, entry, api) ==
  IF p = Pricing
  THEN [entry EXCEPT !.result.items = @ \o ExtractPricing(api), !.added = @ \cup Range(ExtractPricing(api))]
  ELSE entry

HandOver(p, page, entry, api) ==
  delivered' = [to |-> p, page |-> page, api |-> api, added |-> entry.added,
                value |-> entry.result.value, items |-> Accepted(entry.result.items)]

(* The page has been parsed by somebody less than 30 minutes ago. *)
CollectCached(p, page, api) ==
  \E hit \in Hits(page) :
    LET entry == Extended(p, hit, api)
    IN /\ Len(entry.result.items) <= MaxItems
       /\ cache' = Append(Without(page), entry)
       /\ HandOver(p, page, entry, api)
       /\ UNCHANGED <<stats, file>>

(* save_stats is debounced: it may write or not. *)
CollectParsed(p, page, api) ==
  /\ Hits(page) = {}
  /\ \A s \in Names : stats[p][s].runs < MaxRuns
  /\ \E slow \in Names \cup {Null}, save \in BOOLEAN :
       /\ stats' = [stats EXCEPT ![p] = Recorded(p, page, slow)]
       /\ file' = IF save THEN stats'[p] ELSE file
  /\ LET entry == Extended(p, [page |-> page, aged |-> FALSE, result |-> Parsed(p, page), added |-> {}], api)
     IN /\ Len(entry.result.items) <= MaxItems
        /\ cache' = Put(entry)
        /\ HandOver(p, page, entry, api)

EntryAges ==
  /\ \E i \in DOMAIN cache : ~cache[i].aged /\ cache' = [cache EXCEPT ![i].aged = TRUE]
  /\ delivered' = Null
  /\ UNCHANGED <<stats, file>>

(* A new process: every parser loads the file. *)
Restart ==
  /\ cache' = <<>>
  /\ stats' = [p \in Parsers |-> file]
  /\ delivered' = Null
  /\ UNCHANGED file

ParsingNext ==
  \/ \E p \in Parsers, page \in Documents :
       \E api \in IF p = Pricing THEN ApiAnswers ELSE {<<>>} :
         CollectCached(p, page, api) \/ CollectParsed(p, page, api)
  \/ EntryAges
  \/ Restart

ParsingSpec == ParsingInit /\ [][ParsingNext]_parsing

-----------------------------------------------------------------------------
Handed == {delivered} \ {Null}

Prices == {d \in Handed : d.to = Pricing}

(* Who offers a value for a page, and the weightiest of them. *)
Offering(page) == {s \in Names : ~Findings[s][page].raises /\ Findings[s][page].value # Null}

Best(page) == {s \in Offering(page) : \A t \in Offering(page) : Weight[t] <= Weight[s]}

(* Whatever order the statistics have led to, and whatever has raised, a   *)
(* scalar field is what a strategy of the greatest weight has found.       *)
BestValueWins ==
  \A d \in Handed :
    IF Offering(d.page) = {} THEN d.value = Null ELSE \E s \in Best(d.page) : d.value = Findings[s][d.page].value

FoundOn(page) == UNION {Range(Findings[s][page].items) : s \in {t \in Names : ~Findings[t][page].raises}}

(* Every name that a strategy has found arrives, whatever another one did, *)
(* unless it is a placeholder; and it arrives with what one of them has    *)
(* found of it, so with a price when all that found it found a price.  Not *)
(* when some did: of two items of a name the one that is merged first      *)
(* hides the other, and it may be the one without a price.                 *)
NothingIsMissed ==
  \A d \in Prices : \A item \in FoundOn(d.page) :
    item.name \notin Placeholder
    => \E arrived \in Range(d.items) \cap FoundOn(d.page) : arrived.name = item.name

(* What is stored as prices of a page is on the page, or was in an API     *)
(* response of this call, or of an earlier call on the same page while the *)
(* parse was cached; and never a placeholder.                              *)
ForeignItemsAreKnown ==
  \A d \in Prices : \A item \in Range(d.items) :
    item \in (FoundOn(d.page) \cup Range(ExtractPricing(d.api)) \cup d.added) /\ IsEntry(item)

(* The API's price arrives: that of every object that is within five of    *)
(* the one answered with, and that gives its name and its price once.      *)
PlainPricesArrive ==
  \A d \in Prices : \A answer \in {a \in Range(d.api) : ~a.list} : \A n \in Within(answer, 5) :
    \A k \in Range(NameKeys), l \in Range(PriceKeys) :
      LET item == [name |-> Field[n][k].text, price |-> Field[n][l].amount]
      IN  GivesOnly(n, k, l) /\ IsEntry(item) => item \in Range(d.items)

(* Within one list a name comes once, but for what API responses add.      *)
NamesComeOnce ==
  \A d \in Handed : \A i, j \in DOMAIN d.items :
    d.items[i].name = d.items[j].name => i = j \/ d.items[i] \in d.added \/ d.items[j] \in d.added

(* LRUCache: bounded, one entry per page.                                  *)
CacheIsBounded ==
  /\ Len(cache) <= CacheSize
  /\ \A i, j \in DOMAIN cache : cache[i].page = cache[j].page => i = j

(* The cache, the statistics and what is handed over are well formed.      *)
ParsingInv == ParsingTypeOK /\ CacheIsBounded /\ NamesComeOnce

(* What a page says of names, and the answers of its API of prices,        *)
(* arrives.                                                                *)
PricesArrive == NothingIsMissed /\ PlainPricesArrive

(* README.md:15: "Learns strategy success rates, reorders by               *)
(* confidence*speed": with equal times, a strategy that has found nothing  *)
(* so far does not go before one that always has.                          *)
EffectiveGoFirst ==
  \A p \in Parsers : \A s, t \in Names :
    (/\ stats[p][s].runs > 0 /\ stats[p][s].time = stats[p][t].time
     /\ \A page \in Documents : ~Findings[s][page].raises /\ Findings[s][page].value # Null
     /\ \A page \in Documents : Findings[t][page].raises)
    => SelectInSeq(Ranked(p), LAMBDA x : x = s) < SelectInSeq(Ranked(p), LAMBDA x : x = t)

=============================================================================
