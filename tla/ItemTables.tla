----------------------------- MODULE ItemTables -----------------------------
(***************************************************************************)
(* The tables that runs upsert their items into, of one competitor.  Two   *)
(* scripts may have made them: create_all from the models, or the          *)
(* migrations; the unique keys they make are not the same.  An upsert      *)
(* names the key whose conflict turns the INSERT into an UPDATE, lists the *)
(* columns that the UPDATE sets, and is rejected when it breaks another    *)
(* key or when no key of that name exists.  Here runs follow each other;   *)
(* what locks do to runs that overlap is in CollectionService.             *)
(*                                                                         *)
(* A row has the table it is in, the column "name" that identifies it for  *)
(* a reader (service_name, url, platform, source_url), "data" for what     *)
(* else is stored, and "hash".  The hash folds case and white space, and   *)
(* covers only some of the columns: not the duration of a service, the     *)
(* discount and the plans of a price, the summary of an article, the       *)
(* cities of a company, or the time stamps and tokens of a raw page.       *)
(* (company_info has no column "name": the page that the information is    *)
(* from, which its hash covers, stands in for it.)                         *)
(***************************************************************************)
EXTENDS Naturals, FiniteSets

CONSTANTS
  Items,      \* what pages offer: records of a table, a name and data
  Canonical,  \* the canonical form of each name
  Hashed,     \* what the hash of its table sees of each data
  MaxItems,   \* bound: items per run
  None

Tables == {"sources", "raw", "services", "pricing", "content", "social", "company"}

Names == DOMAIN Canonical

ASSUME ItemTablesAssumption ==
  /\ \A i \in Items : i.table \in Tables /\ i.name \in Names /\ i.data \in DOMAIN Hashed
  /\ MaxItems \in Nat
  /\ \A i \in Items : i.data # None

VARIABLES
  schema,   \* who made the tables: "none", "models" or "migrated"
  stored,   \* the committed rows
  open,     \* the rows as the running collection sees them
  batch,    \* the items it has upserted
  status,   \* whether a run is under way, or the last was "rejected"
  culprit   \* history: the item that was rejected, and the rows in its way

vars == <<schema, stored, open, batch, status, culprit>>

(* compute_content_hash of the name and of the columns that the hash of    *)
(* this table is made of, in their canonical form                          *)
Hash(i) == <<Canonical[i.name], Hashed[i.data]>>

Row(i) == [table |-> i.table, name |-> i.name, hash |-> Hash(i), data |-> i.data]

(* An update may leave the hash of an earlier item. *)
Updating(i, j) == [table |-> i.table, name |-> j.name, hash |-> Hash(i), data |-> j.data]

Rows == {Updating(i, j) : i, j \in Items}

TypeOK ==
  /\ schema \in {"none", "models", "migrated"}
  /\ stored \subseteq Rows
  /\ open \subseteq Rows
  /\ batch \subseteq Items /\ Cardinality(batch) <= MaxItems
  /\ status \in {"idle", "running", "rejected"}

Init ==
  /\ schema = "none"
  /\ stored = {}
  /\ open = {}
  /\ batch = {}
  /\ status = "idle"
  /\ culprit = None

-----------------------------------------------------------------------------
(* Unique keys: sets of columns beside competitor_id. *)

SourceKeys == {{"name"}}
RawKeys == {{"name"}}
ServiceKeys == {}
PricingKeys == {{"name"}}
ContentKeys == {{"name"}}
SocialKeys == {{"name"}}
CompanyKeys == {{}}

ModelKeys ==
  [sources |-> SourceKeys, raw |-> RawKeys, services |-> ServiceKeys, pricing |-> PricingKeys,
   content |-> ContentKeys, social |-> SocialKeys, company |-> CompanyKeys]

(* 001_initial, then 002_add_unique_constraints, then 003_change_pricing_dedup *)
InitialKeys ==
  [sources |-> {{"name"}}, raw |-> {{"name"}}, services |-> {}, pricing |-> {},
   content |-> {{"name"}}, social |-> {{"name"}}, company |-> {{}}]

WithHashKeys(keys) ==
  [keys EXCEPT !.services = @ \cup {{"hash"}}, !.pricing = @ \cup {{"hash"}}]

FaultWithPricingName(keys) == keys

WithPricingName(keys) == [keys EXCEPT !.pricing = @ \cup {{"name"}}]

MigratedKeys == WithPricingName(WithHashKeys(InitialKeys))

KeysOf(table) == IF schema = "models" THEN ModelKeys[table] ELSE MigratedKeys[table]

-----------------------------------------------------------------------------
(* Upserts: the key that ON CONFLICT names, and the columns it sets. *)

SourceTarget == {"name"}
RawTarget == {"name"}
ServiceTarget == {"hash"}
PricingTarget == {"name"}
ContentTarget == {"name"}
SocialTarget == {"name"}
CompanyTarget == {}

Target ==
  [sources |-> SourceTarget, raw |-> RawTarget, services |-> ServiceTarget, pricing |-> PricingTarget,
   content |-> ContentTarget, social |-> SocialTarget, company |-> CompanyTarget]

SourceSets == {"data"}
RawSets == {"hash", "data"}
ServiceSets == {"name", "data"}
FaultPricingSets == {}
PricingSets == {"data"}
ContentSets == {"hash", "data"}
SocialSets == {"data"}
CompanySets == {"hash", "name", "data"}

Sets ==
  [sources |-> SourceSets, raw |-> RawSets, services |-> ServiceSets, pricing |-> PricingSets,
   content |-> ContentSets, social |-> SocialSets, company |-> CompanySets]

(* Two rows that agree on a key's columns cannot be in one table. *)
Agree(row, other, columns) == row.table = other.table /\ \A c \in columns : row[c] = other[c]

Conflicting(i) == {row \in open : Agree(row, Row(i), Target[i.table])}

Updated(row, i) == [c \in DOMAIN row |-> IF c \in Sets[i.table] THEN Row(i)[c] ELSE row[c]]

(* The row that the statement leaves: a new one, or the one it updates. *)
Upserted(i) ==
  IF Conflicting(i) = {} THEN Row(i) ELSE Updated(CHOOSE row \in Conflicting(i) : TRUE, i)

(* Other rows that hold a key of the row that the statement would leave. *)
InTheWay(i) ==
  {row \in open \ Conflicting(i) :
     \E columns \in KeysOf(i.table) : Agree(row, Upserted(i), columns)}

Accepted(i) == Target[i.table] \in KeysOf(i.table) /\ InTheWay(i) = {}

-----------------------------------------------------------------------------
(* The lifespan's create_all, on an empty database. *)
CreateAll ==
  /\ schema = "none"
  /\ schema' = "models"
  /\ UNCHANGED <<stored, open, batch, status, culprit>>

(* alembic upgrade head.  On tables of create_all it fails and is rolled   *)
(* back, and the scripts go on after a warning.                            *)
Upgrade ==
  /\ schema = "none"
  /\ schema' = "migrated"
  /\ UNCHANGED <<stored, open, batch, status, culprit>>

Begin ==
  /\ schema # "none"
  /\ status # "running"
  /\ status' = "running"
  /\ culprit' = None
  /\ UNCHANGED <<schema, stored, open, batch>>

FaultUpsert(i) ==
  /\ status = "running"
  /\ Cardinality(batch) < MaxItems
  /\ Accepted(i)
  /\ open' = open \cup {Upserted(i)}
  /\ batch' = batch \cup {i}
  /\ UNCHANGED <<schema, stored, status, culprit>>

Upsert(i) ==
  /\ status = "running"
  /\ Cardinality(batch) < MaxItems
  /\ Accepted(i)
  /\ open' = (open \ Conflicting(i)) \cup {Upserted(i)}
  /\ batch' = batch \cup {i}
  /\ UNCHANGED <<schema, stored, status, culprit>>

(* The collector swallows the error; its transaction is lost, as           *)
(* CollectionService shows.                                                *)
Rejected(i) ==
  /\ status = "running"
  /\ Cardinality(batch) < MaxItems
  /\ ~Accepted(i)
  /\ status' = "rejected"
  /\ open' = stored
  /\ batch' = {}
  /\ culprit' = [item |-> i, rows |-> InTheWay(i)]
  /\ UNCHANGED <<schema, stored>>

FaultCommit ==
  /\ status = "running"
  /\ status' = "idle"
  /\ stored' = {row \in open : \E i \in batch : row.table = i.table /\ row.hash = Hash(i)}
  /\ batch' = {}
  /\ UNCHANGED <<schema, open, culprit>>

Commit ==
  /\ status = "running"
  /\ status' = "idle"
  /\ stored' = open
  /\ batch' = {}
  /\ UNCHANGED <<schema, open, culprit>>

(* Whatever else ends a run without a commit. *)
Fail ==
  /\ status = "running"
  /\ status' = "idle"
  /\ open' = stored
  /\ batch' = {}
  /\ UNCHANGED <<schema, stored, culprit>>

Next ==
  \/ CreateAll
  \/ Upgrade
  \/ Begin
  \/ \E i \in Items : Upsert(i) \/ Rejected(i)
  \/ Commit
  \/ Fail

Spec == Init /\ [][Next]_vars

-----------------------------------------------------------------------------
(* What a table is keyed by: the values of ON CONFLICT's columns.          *)
KeyOf(row) == <<row.table, [c \in Target[row.table] |-> row[c]]>>

AllKeys == {KeyOf(row) : row \in Rows}

View(rows) ==
  [k \in AllKeys |->
     IF \E row \in rows : KeyOf(row) = k
     THEN (CHOOSE row \in rows : KeyOf(row) = k).data
     ELSE None]

Store == INSTANCE KeyedStore WITH
  Keys <- AllKeys,
  Values <- {i.data : i \in Items},
  Absent <- None,
  store <- View(stored),
  work <- View(open),
  puts <- {<<KeyOf(Row(i)), i.data>> : i \in batch}

(* Each upsert puts its data under the key that its ON CONFLICT names, and *)
(* nothing but an upsert and a rollback changes what a run will leave.     *)
ImplementsKeyedStore == Store!Spec

(* At most one row per key of ON CONFLICT, so that a service is not listed *)
(* twice and a price has one value (test_duplicate_prevention.py).         *)
OneRowPerKey ==
  \A rows \in {stored, open} : \A x, y \in rows : KeyOf(x) = KeyOf(y) => x = y

(* Only two kinds of item are ever rejected, and take their run with them: *)
(* any service when create_all has made the tables, which have no such key *)
(* as its ON CONFLICT names, and a price whose hash another name has,      *)
(* which differs from it in case or space, now or when it was first seen.  *)
RejectionsAreKnown ==
  status = "rejected" =>
    \/ schema = "models" /\ culprit.item.table = "services"
    \/ /\ schema = "migrated" /\ culprit.item.table = "pricing"
       /\ \E row \in culprit.rows :
            /\ row.table = "pricing" /\ row.name # culprit.item.name
            /\ Canonical[row.name] = Canonical[culprit.item.name]

(* content_hash is that of what a row holds now, also after updates of     *)
(* columns that it does not cover, except in competitor_pricing: an update *)
(* leaves the hash of the first price that the name ever had.              *)
HashesAreTruthful ==
  \A row \in stored :
    row.table \in {"raw", "services", "content", "company"} =>
      row.hash = <<Canonical[row.name], Hashed[row.data]>>

(* What the upserts keep of the tables, whatever schema they meet.         *)
TablesInv == TypeOK /\ OneRowPerKey /\ HashesAreTruthful

(* A page that is collected again changes nothing (the idempotence tests). *)
RecollectingChangesNothing ==
  [][(\A i \in batch : \E row \in stored : row.table = i.table /\ row.name = i.name /\ row.data = i.data)
     => stored' = stored]_vars

(* README.md:330: "Identical data updates its timestamp; changed data      *)
(* creates new records."  A price that is stored stays beside the new one  *)
(* of its name (test_duplicate_prevention.py:789).                         *)
PriceChangesAreKept ==
  [][\A row \in stored : row.table = "pricing" =>
       \E new \in stored' :
         new.table = "pricing" /\ new.name = row.name /\ new.data = row.data]_vars

(* README.md:331: "Dual-key dedup - primary check by normalized URL,       *)
(* secondary by content hash", for articles.                               *)
OneRowPerContent ==
  \A x, y \in stored :
    x.table = "content" /\ y.table = "content" /\ x.hash = y.hash => x = y

=============================================================================
