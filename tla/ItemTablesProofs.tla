-------------------------- MODULE ItemTablesProofs --------------------------
(***************************************************************************)
(* Proofs about ItemTables, for any items, spellings and lengths of runs.  *)
(* The invariant is about the rows as a whole (Sound): they keep their     *)
(* shape and their keys, and what each hash says of its row.               *)
(***************************************************************************)
EXTENDS ItemTables, FiniteSetTheorems, TLAPS

Truthful(row) ==
  row.table \in {"raw", "services", "content", "company"} => row.hash = <<Canonical[row.name], Hashed[row.data]>>

(* A price keeps the hash of the first price of its name, and that is      *)
(* still a hash of the name.                                               *)
HashesName(row) == row.table = "pricing" => row.hash[1] = Canonical[row.name]

Sound(rows) ==
  /\ rows \subseteq Rows
  /\ \A x, y \in rows : KeyOf(x) = KeyOf(y) => x = y
  /\ \A row \in rows : Truthful(row) /\ HashesName(row)

Matches(row, i) == row.table = i.table /\ row.name = i.name /\ row.data = i.data

(* A run that has only met what is stored has changed nothing.             *)
Recollected == (\A i \in batch : \E row \in stored : Matches(row, i)) => open = stored

IInv ==
  /\ TypeOK
  /\ IsFiniteSet(batch)
  /\ Sound(stored)
  /\ Sound(open)
  /\ status # "idle" => schema # "none"
  /\ RejectionsAreKnown
  /\ Recollected

-----------------------------------------------------------------------------
(* What the tables of columns say, table by table.                         *)
LEMMA Columns ==
  ASSUME NEW t \in Tables
  PROVE  /\ "table" \notin Sets[t]
         /\ "data" \in Sets[t]
         /\ "name" \in Sets[t] \/ "name" \in Target[t]
         /\ t \in {"raw", "content", "company"} => "hash" \in Sets[t]
         /\ t = "services" => "hash" \in Target[t]
         /\ t = "pricing" => "hash" \notin Sets[t] /\ Target[t] = {"name"}
         /\ Target[t] \subseteq {"name", "hash"}
         /\ "name" \in Target[t] => "hash" \notin Target[t]
BY DEF Tables, Sets, SourceSets, RawSets, ServiceSets, PricingSets, ContentSets, SocialSets,
       CompanySets, Target, SourceTarget, RawTarget, ServiceTarget, PricingTarget,
       ContentTarget, SocialTarget, CompanyTarget

(* The keys that a table has: the one that its upsert names, except that   *)
(* create_all makes none for services and the migrations a second one for  *)
(* prices.                                                                 *)
LEMMA ModelKeysOf ==
  ASSUME NEW t \in Tables
  PROVE  IF t = "services" THEN ModelKeys[t] = {} ELSE ModelKeys[t] = {Target[t]}
<1>1. /\ SourceKeys = {SourceTarget} /\ RawKeys = {RawTarget} /\ PricingKeys = {PricingTarget}
      /\ ContentKeys = {ContentTarget} /\ SocialKeys = {SocialTarget} /\ CompanyKeys = {CompanyTarget}
  BY DEF SourceKeys, SourceTarget, RawKeys, RawTarget, PricingKeys, PricingTarget, ContentKeys,
         ContentTarget, SocialKeys, SocialTarget, CompanyKeys, CompanyTarget
<1>2. ServiceKeys = {}
  BY DEF ServiceKeys
<1>3. QED
  BY <1>1, <1>2 DEF Tables, ModelKeys, Target

LEMMA MigratedKeysOf ==
  ASSUME NEW t \in Tables
  PROVE  IF t = "pricing" THEN MigratedKeys[t] = {Target[t], {"hash"}} ELSE MigratedKeys[t] = {Target[t]}
<1> DEFINE hashed == WithHashKeys(InitialKeys)
<1>1. /\ InitialKeys = [s \in Tables |-> InitialKeys[s]]
      /\ InitialKeys["services"] = {} /\ InitialKeys["pricing"] = {}
  BY DEF InitialKeys, Tables
<1>2. hashed = [s \in Tables |-> IF s \in {"services", "pricing"}
                                 THEN InitialKeys[s] \cup {{"hash"}} ELSE InitialKeys[s]]
  <2>1. "services" \in Tables /\ "pricing" \in Tables
    BY DEF Tables
  <2>2. [InitialKeys EXCEPT !["services"] = InitialKeys["services"] \cup {{"hash"}}]
          = [s \in Tables |-> IF s = "services" THEN InitialKeys[s] \cup {{"hash"}} ELSE InitialKeys[s]]
    BY <1>1, <2>1
  <2>3. QED
    BY <1>1, <2>1, <2>2 DEF WithHashKeys
<1>3. /\ hashed["services"] = {{"hash"}} /\ hashed["pricing"] = {{"hash"}}
      /\ t \notin {"services", "pricing"} => hashed[t] = InitialKeys[t]
  <2> HIDE DEF hashed
  <2>1. QED
    BY <1>1, <1>2 DEF Tables
<1>4. MigratedKeys[t] = IF t = "pricing" THEN hashed[t] \cup {{"name"}} ELSE hashed[t]
  <2> HIDE DEF hashed
  <2>1. MigratedKeys = [hashed EXCEPT !["pricing"] = hashed["pricing"] \cup {{"name"}}]
    BY DEF MigratedKeys, WithPricingName, hashed
  <2>2. QED
    BY <1>2, <2>1 DEF Tables
<1> HIDE DEF hashed
<1>5. CASE t = "pricing"
  BY <1>3, <1>4, <1>5 DEF Target, PricingTarget
<1>6. CASE t = "services"
  BY <1>3, <1>4, <1>6 DEF Target, ServiceTarget
<1>7. CASE t \notin {"services", "pricing"}
  <2>1. /\ {{"name"}} = {SourceTarget} /\ {{"name"}} = {RawTarget} /\ {{"name"}} = {ContentTarget}
        /\ {{"name"}} = {SocialTarget} /\ {{}} = {CompanyTarget}
    BY DEF SourceTarget, RawTarget, ContentTarget, SocialTarget, CompanyTarget
  <2>2. /\ InitialKeys["sources"] = {{"name"}} /\ InitialKeys["raw"] = {{"name"}}
        /\ InitialKeys["content"] = {{"name"}} /\ InitialKeys["social"] = {{"name"}}
        /\ InitialKeys["company"] = {{}}
    BY DEF InitialKeys
  <2>3. /\ InitialKeys["sources"] = {SourceTarget} /\ InitialKeys["raw"] = {RawTarget}
        /\ InitialKeys["content"] = {ContentTarget} /\ InitialKeys["social"] = {SocialTarget}
        /\ InitialKeys["company"] = {CompanyTarget}
    BY <2>1, <2>2
  <2>4. InitialKeys[t] = {Target[t]}
    BY <2>3, <1>7 DEF Tables, Target
  <2>5. QED
    BY <2>4, <1>3, <1>4, <1>7
<1>8. QED
  BY <1>5, <1>6, <1>7

LEMMA KeysOfTables ==
  ASSUME NEW t \in Tables, schema \in {"models", "migrated"}
  PROVE  /\ ~(schema = "models" /\ t = "services") => Target[t] \in KeysOf(t)
         /\ \A columns \in KeysOf(t) :
              \/ columns = Target[t]
              \/ /\ schema = "migrated"
                 /\ t = "pricing"
                 /\ columns = {"hash"}
<1>1. CASE schema = "models"
  BY <1>1, ModelKeysOf DEF KeysOf
<1>2. CASE schema = "migrated"
  BY <1>2, MigratedKeysOf DEF KeysOf
<1>3. QED
  BY <1>1, <1>2

LEMMA RowFields ==
  ASSUME NEW i \in Items
  PROVE  /\ Row(i) \in Rows
         /\ Row(i) = [table |-> i.table, name |-> i.name, hash |-> Hash(i), data |-> i.data]
         /\ Hash(i) = <<Canonical[i.name], Hashed[i.data]>>
<1>1. Row(i) = Updating(i, i)
  BY DEF Row, Updating
<1>2. Row(i) \in Rows
  BY <1>1 DEF Rows
<1>3. QED
  BY <1>2 DEF Row, Hash

(* A row has four columns, and its name and data come from one item.       *)
LEMMA RowShape ==
  ASSUME NEW row \in Rows
  PROVE  \E i, j \in Items :
           row = [table |-> i.table, name |-> j.name, hash |-> Hash(i), data |-> j.data]
BY DEF Rows, Updating

LEMMA ShapeIsRow ==
  ASSUME NEW i \in Items, NEW j \in Items
  PROVE  [table |-> i.table, name |-> j.name, hash |-> Hash(i), data |-> j.data] \in Rows
<1>1. Updating(i, j) \in Rows
  BY DEF Rows
<1>2. QED
  BY <1>1 DEF Updating

-----------------------------------------------------------------------------
(* An UPDATE leaves the item's name and data, and the hash of either.      *)
LEMMA UpdatedRow ==
  ASSUME NEW i \in Items, NEW row \in Rows, Agree(row, Row(i), Target[i.table]),
         Truthful(row), HashesName(row)
  PROVE  /\ Updated(row, i) \in Rows
         /\ Matches(Updated(row, i), i)
         /\ Truthful(Updated(row, i))
         /\ HashesName(Updated(row, i))
         /\ KeyOf(Updated(row, i)) = KeyOf(Row(i))
         /\ Matches(row, i) => Updated(row, i) = row
<1> DEFINE t == i.table
           u == Updated(row, i)
<1>1. t \in Tables
  BY ItemTablesAssumption
<1>2. PICK k \in Items, j \in Items :
        row = [table |-> k.table, name |-> j.name, hash |-> Hash(k), data |-> j.data]
  BY RowShape
<1>3. Row(i) = [table |-> i.table, name |-> i.name, hash |-> Hash(i), data |-> i.data]
  BY RowFields
<1>4. k.table = t
  BY <1>2, <1>3 DEF Agree
<1>5. \A c \in Target[t] : row[c] = Row(i)[c]
  BY DEF Agree
<1>6. DOMAIN row = {"table", "name", "hash", "data"}
  BY <1>2
<1>7. u = [c \in {"table", "name", "hash", "data"} |-> IF c \in Sets[t] THEN Row(i)[c] ELSE row[c]]
  BY <1>6 DEF Updated
<1>8. u = [table |-> u["table"], name |-> u["name"], hash |-> u["hash"], data |-> u["data"]]
  BY <1>7
<1>9. u["table"] = t /\ u["data"] = i.data
  BY <1>1, <1>2, <1>3, <1>4, <1>7, Columns
<1>10. u["name"] = i.name
  <2>1. CASE "name" \in Sets[t]
    BY <2>1, <1>3, <1>7
  <2>2. CASE "name" \notin Sets[t]
    <3>1. "name" \in Target[t]
      BY <2>2, <1>1, Columns
    <3>2. row["name"] = i.name
      BY <3>1, <1>3, <1>5
    <3>3. QED
      BY <3>2, <2>2, <1>7
  <2>3. QED
    BY <2>1, <2>2
<1>11. u["hash"] = Hash(i) \/ u["hash"] = Hash(k)
  BY <1>2, <1>3, <1>7
<1>12. u \in Rows
  <2>1. CASE u["hash"] = Hash(i)
    BY <2>1, <1>8, <1>9, <1>10, ShapeIsRow
  <2>2. CASE u["hash"] = Hash(k)
    BY <2>2, <1>4, <1>8, <1>9, <1>10, ShapeIsRow
  <2>3. QED
    BY <2>1, <2>2, <1>11
<1>13. t \in {"raw", "services", "content", "company"} => u["hash"] = Hash(i)
  <2>1. CASE t \in {"raw", "content", "company"}
    BY <2>1, <1>1, <1>3, <1>7, Columns
  <2>2. CASE t = "services"
    <3>1. row["hash"] = Hash(i)
      BY <2>2, <1>1, <1>3, <1>5, Columns
    <3>2. QED
      BY <3>1, <1>3, <1>7
  <2>3. QED
    BY <2>1, <2>2
<1>14. Truthful(u)
  BY <1>9, <1>10, <1>13 DEF Truthful, Hash
<1>15. HashesName(u)
  <2>1. SUFFICES ASSUME t = "pricing"
                 PROVE  u["hash"][1] = Canonical[i.name]
    BY <1>9, <1>10 DEF HashesName
  <2>2. u["hash"] = row["hash"]
    BY <2>1, <1>1, <1>7, Columns
  <2>3. row["name"] = i.name /\ row["table"] = "pricing"
    BY <2>1, <1>1, <1>2, <1>3, <1>4, <1>5, Columns
  <2>4. QED
    BY <2>2, <2>3 DEF HashesName
<1>16. \A c \in Target[t] : u[c] = Row(i)[c]
  <2>1. SUFFICES ASSUME NEW c \in Target[t]
                 PROVE  u[c] = Row(i)[c]
    OBVIOUS
  <2>2. c \in {"table", "name", "hash", "data"}
    BY <1>1, Columns
  <2>3. QED
    BY <2>2, <1>5, <1>7
<1>17. KeyOf(u) = KeyOf(Row(i))
  BY <1>3, <1>9, <1>16 DEF KeyOf
<1>18. ASSUME Matches(row, i)
       PROVE  u = row
  <2>1. row["name"] = i.name /\ row["data"] = i.data /\ row["table"] = t
    BY <1>18, <1>2 DEF Matches
  <2>2. u["hash"] = row["hash"]
    <3>1. CASE t \in {"raw", "services", "content", "company"}
      <4>1. row["hash"] = Hash(i)
        BY <3>1, <2>1 DEF Truthful, Hash
      <4>2. QED
        BY <4>1, <3>1, <1>13
    <3>2. CASE t \notin {"raw", "services", "content", "company"}
      <4>1. "hash" \notin Sets[t]
        BY <3>2, <1>1 DEF Tables, Sets, SourceSets, PricingSets, SocialSets
      <4>2. QED
        BY <4>1, <1>7
    <3>3. QED
      BY <3>1, <3>2
  <2>3. row = [table |-> row["table"], name |-> row["name"], hash |-> row["hash"], data |-> row["data"]]
    BY <1>2
  <2>4. QED
    BY <2>1, <2>2, <2>3, <1>8, <1>9, <1>10
<1>19. Matches(u, i)
  BY <1>9, <1>10 DEF Matches
<1>20. QED
  BY <1>12, <1>14, <1>15, <1>17, <1>18, <1>19

-----------------------------------------------------------------------------
(* A conflict is a row with the key of the item's row.                     *)
LEMMA ConflictIsSameKey ==
  ASSUME NEW i \in Items, NEW row \in Rows
  PROVE  Agree(row, Row(i), Target[i.table]) <=> KeyOf(row) = KeyOf(Row(i))
<1>1. Row(i).table = i.table
  BY RowFields
<1>2. ASSUME Agree(row, Row(i), Target[i.table])
      PROVE  KeyOf(row) = KeyOf(Row(i))
  BY <1>1, <1>2 DEF Agree, KeyOf
<1>3. ASSUME KeyOf(row) = KeyOf(Row(i))
      PROVE  Agree(row, Row(i), Target[i.table])
  <2>1. row.table = i.table
    BY <1>1, <1>3 DEF KeyOf
  <2>2. [c \in Target[i.table] |-> row[c]] = [c \in Target[i.table] |-> Row(i)[c]]
    BY <1>1, <1>3, <2>1 DEF KeyOf
  <2>3. \A c \in Target[i.table] : row[c] = Row(i)[c]
    BY <2>2
  <2>4. QED
    BY <1>1, <2>1, <2>3 DEF Agree
<1>4. QED
  BY <1>2, <1>3

LEMMA NewRow ==
  ASSUME NEW i \in Items
  PROVE  Matches(Row(i), i) /\ Truthful(Row(i)) /\ HashesName(Row(i))
<1>1. Hash(i)[1] = Canonical[i.name]
  BY RowFields
<1>2. QED
  BY <1>1, RowFields DEF Matches, Truthful, HashesName

LEMMA UpsertedRow ==
  ASSUME NEW i \in Items, Sound(open)
  PROVE  /\ Upserted(i) \in Rows
         /\ Matches(Upserted(i), i)
         /\ Truthful(Upserted(i))
         /\ HashesName(Upserted(i))
         /\ KeyOf(Upserted(i)) = KeyOf(Row(i))
<1>1. CASE Conflicting(i) = {}
  BY <1>1, NewRow, RowFields DEF Upserted
<1>2. CASE Conflicting(i) # {}
  <2>1. PICK row \in Conflicting(i) : Upserted(i) = Updated(row, i)
    BY <1>2 DEF Upserted
  <2>2. row \in Rows /\ Agree(row, Row(i), Target[i.table]) /\ Truthful(row) /\ HashesName(row)
    BY <2>1 DEF Conflicting, Sound
  <2>3. QED
    BY <2>1, <2>2, UpdatedRow
<1>3. QED
  BY <1>1, <1>2

LEMMA ConflictingRows ==
  ASSUME NEW i \in Items, Sound(open)
  PROVE  Conflicting(i) = {row \in open : KeyOf(row) = KeyOf(Row(i))}
<1>1. \A row \in open : Agree(row, Row(i), Target[i.table]) <=> KeyOf(row) = KeyOf(Row(i))
  BY ConflictIsSameKey DEF Sound
<1>2. QED
  BY <1>1 DEF Conflicting

Leaves(i) == (open \ Conflicting(i)) \cup {Upserted(i)}

LEMMA UpsertIsSound ==
  ASSUME NEW i \in Items, Sound(open)
  PROVE  Sound(Leaves(i))
<1> DEFINE u == Upserted(i)
<1>1. u \in Rows /\ Truthful(u) /\ HashesName(u) /\ KeyOf(u) = KeyOf(Row(i))
  BY UpsertedRow
<1>2. \A row \in open \ Conflicting(i) : KeyOf(row) # KeyOf(Row(i))
  BY ConflictingRows
<1> HIDE DEF u
<1>3. Leaves(i) = (open \ Conflicting(i)) \cup {u}
  BY DEF Leaves, u
<1>4. \A x, y \in Leaves(i) : KeyOf(x) = KeyOf(y) => x = y
  BY <1>1, <1>2, <1>3 DEF Sound
<1>5. QED
  BY <1>1, <1>3, <1>4 DEF Sound

(* An item that a row matches changes nothing.                             *)
LEMMA SameAgain ==
  ASSUME NEW i \in Items, Sound(open), NEW row \in open, Matches(row, i)
  PROVE  Leaves(i) = open
<1>1. row \in Rows /\ Truthful(row) /\ HashesName(row)
  BY DEF Sound
<1>2. i.table \in Tables
  BY ItemTablesAssumption
<1>3. Agree(row, Row(i), Target[i.table])
  <2>1. row.table = i.table /\ row.name = i.name /\ row.data = i.data
    BY DEF Matches
  <2>2. Row(i).table = i.table /\ Row(i).name = i.name /\ Row(i).hash = <<Canonical[i.name], Hashed[i.data]>>
    BY RowFields
  <2>3. "hash" \in Target[i.table] => row.hash = Row(i).hash
    <3>1. "hash" \in Target[i.table] => i.table = "services"
      BY <1>2 DEF Tables, Target, SourceTarget, RawTarget, ServiceTarget, PricingTarget,
                  ContentTarget, SocialTarget, CompanyTarget
    <3>2. QED
      BY <3>1, <1>1, <2>1, <2>2 DEF Truthful
  <2>4. Target[i.table] \subseteq {"name", "hash"}
    BY <1>2, Columns
  <2>5. \A c \in Target[i.table] : row[c] = Row(i)[c]
    BY <2>1, <2>2, <2>3, <2>4
  <2>6. QED
    BY <2>1, <2>2, <2>5 DEF Agree
<1>4. KeyOf(row) = KeyOf(Row(i))
  BY <1>1, <1>3, ConflictIsSameKey
<1>5. Conflicting(i) = {row}
  BY <1>4, ConflictingRows DEF Sound
<1>6. Upserted(i) = Updated(row, i)
  BY <1>5 DEF Upserted
<1>7. Updated(row, i) = row
  BY <1>1, <1>3, UpdatedRow
<1>8. QED
  BY <1>5, <1>6, <1>7 DEF Leaves

-----------------------------------------------------------------------------
(* Whoever is rejected is a service that meets create_all's table, or a    *)
(* price that shares its hash with a row of another spelling.              *)
KnownCulprit(c) ==
  \/ schema = "models" /\ c.item.table = "services"
  \/ /\ schema = "migrated" /\ c.item.table = "pricing"
     /\ \E row \in c.rows :
          /\ row.table = "pricing" /\ row.name # c.item.name
          /\ Canonical[row.name] = Canonical[c.item.name]

LEMMA RejectedIsKnown ==
  ASSUME NEW i \in Items, Sound(open), schema \in {"models", "migrated"}, ~Accepted(i)
  PROVE  KnownCulprit([item |-> i, rows |-> InTheWay(i)])
<1> DEFINE c == [item |-> i, rows |-> InTheWay(i)]
<1>1. i.table \in Tables
  BY ItemTablesAssumption
<1>2. c.item = i /\ c.rows = InTheWay(i)
  OBVIOUS
<1> HIDE DEF c
<1>3. CASE schema = "models" /\ i.table = "services"
  BY <1>2, <1>3 DEF KnownCulprit, c
<1>4. CASE ~(schema = "models" /\ i.table = "services")
  <2>1. InTheWay(i) # {}
    BY <1>1, <1>4, KeysOfTables DEF Accepted
  <2>2. PICK row \in open \ Conflicting(i), columns \in KeysOf(i.table) :
          row \in InTheWay(i) /\ Agree(row, Upserted(i), columns)
    BY <2>1 DEF InTheWay
  <2>3. row \in Rows /\ HashesName(row)
    BY <2>2 DEF Sound
  <2>4. /\ KeyOf(Upserted(i)) = KeyOf(Row(i)) /\ HashesName(Upserted(i))
        /\ Matches(Upserted(i), i)
    BY UpsertedRow
  <2>5. KeyOf(row) # KeyOf(Row(i))
    BY <2>2, ConflictingRows
  <2>6. row.table = i.table
    BY <2>2, <2>4 DEF Agree, Matches
  <2>7. columns # Target[i.table]
    <3>1. SUFFICES ASSUME columns = Target[i.table]
                   PROVE  KeyOf(row) = KeyOf(Upserted(i))
      BY <2>4, <2>5
    <3>2. Upserted(i).table = i.table
      BY <2>4 DEF Matches
    <3>3. \A d \in Target[i.table] : row[d] = Upserted(i)[d]
      BY <2>2, <3>1 DEF Agree
    <3>4. QED
      BY <2>6, <3>2, <3>3 DEF KeyOf
  <2>8. schema = "migrated" /\ i.table = "pricing" /\ columns = {"hash"}
    BY <1>1, <2>2, <2>7, KeysOfTables
  <2>9. row.name # i.name
    <3>1. SUFFICES ASSUME row.name = i.name
                   PROVE  KeyOf(row) = KeyOf(Row(i))
      BY <2>5
    <3>2. Target[i.table] = {"name"}
      BY <1>1, <2>8, Columns
    <3>3. Row(i).table = i.table /\ Row(i).name = i.name
      BY RowFields
    <3>4. QED
      BY <2>6, <3>1, <3>2, <3>3 DEF KeyOf
  <2>10. Canonical[row.name] = Canonical[i.name]
    <3>1. row.hash = Upserted(i).hash
      BY <2>2, <2>8 DEF Agree
    <3>2. Upserted(i).table = "pricing" /\ Upserted(i).name = i.name
      BY <2>4, <2>8 DEF Matches
    <3>3. QED
      BY <2>3, <2>4, <2>6, <2>8, <3>1, <3>2 DEF HashesName
  <2>11. QED
    BY <1>2, <2>2, <2>6, <2>8, <2>9, <2>10 DEF KnownCulprit
<1>5. QED
  BY <1>3, <1>4 DEF c

-----------------------------------------------------------------------------
LEMMA RejectionsInWords ==
  RejectionsAreKnown <=> (status = "rejected" => KnownCulprit(culprit))
BY DEF RejectionsAreKnown, KnownCulprit

LEMMA InitIInv == Init => IInv
<1> SUFFICES ASSUME Init
             PROVE  IInv
  OBVIOUS
<1>1. Sound({})
  BY DEF Sound
<1>2. IsFiniteSet(batch) /\ Cardinality(batch) = 0
  BY FS_EmptySet DEF Init
<1>3. TypeOK
  BY <1>2, ItemTablesAssumption DEF Init, TypeOK
<1>4. QED
  BY <1>1, <1>2, <1>3 DEF Init, IInv, RejectionsAreKnown, Recollected

LEMMA UpsertKeeps ==
  ASSUME IInv, NEW i \in Items, Upsert(i)
  PROVE  IInv'
<1>1. open' = Leaves(i) /\ batch' = batch \cup {i}
  BY DEF Upsert, Leaves
<1>2. schema' = schema /\ stored' = stored /\ status' = status /\ culprit' = culprit
  BY DEF Upsert
<1>3. Sound(open) /\ Sound(stored)
  BY DEF IInv
<1>4. Sound(Leaves(i))
  BY <1>3, UpsertIsSound
<1>5. Sound(open')
  BY <1>1, <1>4
<1>6. IsFiniteSet(batch') /\ Cardinality(batch') <= MaxItems
  <2>1. IsFiniteSet(batch) /\ Cardinality(batch) \in Nat /\ Cardinality(batch) < MaxItems
    BY FS_CardinalityType DEF IInv, Upsert
  <2>2. /\ IsFiniteSet(batch \cup {i})
        /\ Cardinality(batch \cup {i}) \in {Cardinality(batch), Cardinality(batch) + 1}
    BY <2>1, FS_AddElement
  <2>3. QED
    BY <1>1, <2>1, <2>2, ItemTablesAssumption
<1>7. TypeOK'
  BY <1>1, <1>2, <1>5, <1>6 DEF IInv, TypeOK, Sound
<1>8. RejectionsAreKnown'
  BY <1>2 DEF Upsert, RejectionsAreKnown
<1>9. Recollected'
  <2>1. SUFFICES ASSUME \A k \in batch \cup {i} : \E row \in stored : Matches(row, k)
                 PROVE  Leaves(i) = stored
    BY <1>1, <1>2 DEF Recollected
  <2>2. open = stored
    BY <2>1 DEF IInv, Recollected
  <2>3. PICK row \in open : Matches(row, i)
    BY <2>1, <2>2
  <2>4. Leaves(i) = open
    BY <1>3, <2>3, SameAgain
  <2>5. QED
    BY <2>2, <2>4
<1>10. status' # "idle" => schema' # "none"
  BY <1>2 DEF IInv
<1>11. QED
  BY <1>2, <1>3, <1>5, <1>6, <1>7, <1>8, <1>9, <1>10 DEF IInv

LEMMA RejectedKeeps ==
  ASSUME IInv, NEW i \in Items, Rejected(i)
  PROVE  IInv'
<1>1. /\ schema' = schema /\ stored' = stored /\ status' = "rejected"
      /\ open' = stored /\ batch' = {} /\ culprit' = [item |-> i, rows |-> InTheWay(i)]
  BY DEF Rejected
<1>2. Sound(open) /\ Sound(stored) /\ schema \in {"models", "migrated"}
  BY DEF IInv, TypeOK, Rejected
<1>3. KnownCulprit([item |-> i, rows |-> InTheWay(i)])
  BY <1>2, RejectedIsKnown DEF Rejected
<1>4. RejectionsAreKnown'
  BY <1>1, <1>3 DEF RejectionsAreKnown, KnownCulprit
<1>5. IsFiniteSet(batch') /\ Cardinality(batch') = 0
  BY <1>1, FS_EmptySet
<1>6. TypeOK'
  BY <1>1, <1>5, ItemTablesAssumption DEF IInv, TypeOK
<1>7. QED
  BY <1>1, <1>2, <1>4, <1>5, <1>6 DEF IInv, Recollected

LEMMA OthersKeep ==
  ASSUME IInv, CreateAll \/ Upgrade \/ Begin \/ Commit \/ Fail \/ UNCHANGED vars
  PROVE  IInv'
<1>1. CASE CreateAll \/ Upgrade
  BY <1>1 DEF IInv, CreateAll, Upgrade, TypeOK, RejectionsAreKnown, Recollected
<1>2. CASE Begin
  BY <1>2 DEF IInv, Begin, TypeOK, RejectionsAreKnown, Recollected
<1>3. CASE Commit \/ Fail
  <2>1. IsFiniteSet(batch') /\ Cardinality(batch') = 0
    BY <1>3, FS_EmptySet DEF Commit, Fail
  <2>2. QED
    BY <1>3, <2>1, ItemTablesAssumption
       DEF IInv, Commit, Fail, TypeOK, RejectionsAreKnown, Recollected
<1>4. CASE UNCHANGED vars
  BY <1>4 DEF IInv, vars, TypeOK, RejectionsAreKnown, Recollected
<1>5. QED
  BY <1>1, <1>2, <1>3, <1>4

LEMMA Invariance == Spec => []IInv
<1>1. IInv /\ [Next]_vars => IInv'
  BY UpsertKeeps, RejectedKeeps, OthersKeep DEF Next
<1>2. QED
  BY <1>1, InitIInv, PTL DEF Spec

(* Whatever runs upsert, and whichever script has made the tables: there   *)
(* is one row per key, and the hash of a row is that of what it holds.     *)
THEOREM TablesStaySound == Spec => []TablesInv
<1>1. IInv => TablesInv
  <2> SUFFICES ASSUME IInv
               PROVE  TablesInv
    OBVIOUS
  <2>1. OneRowPerKey
    BY DEF IInv, Sound, OneRowPerKey
  <2>2. HashesAreTruthful
    BY DEF IInv, Sound, HashesAreTruthful, Truthful
  <2>3. QED
    BY <2>1, <2>2 DEF IInv, TablesInv
<1>2. QED
  BY <1>1, Invariance, PTL

(* Only services without their key, and prices whose hash another spelling *)
(* holds, are ever rejected.                                               *)
THEOREM OnlyKnownRejections == Spec => []RejectionsAreKnown
<1>1. IInv => RejectionsAreKnown
  BY DEF IInv
<1>2. QED
  BY <1>1, Invariance, PTL

(* Collecting what is stored again changes no row.                         *)
THEOREM RecollectingIsIdempotent == Spec => RecollectingChangesNothing
<1> DEFINE Met == \A i \in batch : \E row \in stored :
                    row.table = i.table /\ row.name = i.name /\ row.data = i.data
<1>1. IInv /\ [Next]_vars => [Met => stored' = stored]_vars
  <2> SUFFICES ASSUME IInv, Next, Met
               PROVE  stored' = stored
    BY DEF vars
  <2>1. open = stored
    BY DEF IInv, Recollected, Matches
  <2>2. QED
    BY <2>1 DEF Next, CreateAll, Upgrade, Begin, Upsert, Rejected, Commit, Fail
<1>2. QED
  BY <1>1, Invariance, PTL DEF Spec, RecollectingChangesNothing

-----------------------------------------------------------------------------
(* The tables as a store: the value of a key is the data of its row.       *)
LEMMA ViewAt ==
  ASSUME NEW rows, Sound(rows), NEW row \in rows
  PROVE  KeyOf(row) \in AllKeys /\ View(rows)[KeyOf(row)] = row.data
<1> DEFINE k == KeyOf(row)
<1>1. row \in Rows
  BY DEF Sound
<1>2. k \in AllKeys
  BY <1>1 DEF AllKeys
<1>3. (CHOOSE x \in rows : KeyOf(x) = k) = row
  <2>1. \E x \in rows : KeyOf(x) = k
    OBVIOUS
  <2>2. \A x \in rows : KeyOf(x) = k => x = row
    BY DEF Sound
  <2>3. QED
    BY <2>1, <2>2
<1> HIDE DEF k
<1>4. View(rows)[k] = IF \E x \in rows : KeyOf(x) = k
                      THEN (CHOOSE x \in rows : KeyOf(x) = k).data ELSE None
  BY <1>2 DEF View
<1>5. KeyOf(row) = k
  BY DEF k
<1>6. QED
  BY <1>2, <1>3, <1>4, <1>5

LEMMA ViewElsewhere ==
  ASSUME NEW rows, NEW k \in AllKeys, \A row \in rows : KeyOf(row) # k
  PROVE  View(rows)[k] = None
BY DEF View

LEMMA ViewIsFunction ==
  ASSUME NEW rows
  PROVE  View(rows) = [k \in AllKeys |-> View(rows)[k]]
BY DEF View

LEMMA ViewOfUpsert ==
  ASSUME NEW i \in Items, Sound(open)
  PROVE  /\ KeyOf(Row(i)) \in AllKeys
         /\ View(Leaves(i)) = [View(open) EXCEPT ![KeyOf(Row(i))] = i.data]
<1> DEFINE k == KeyOf(Row(i))
           new == Leaves(i)
           u == Upserted(i)
<1>1. k \in AllKeys
  BY RowFields DEF AllKeys
<1>2. Sound(new)
  BY UpsertIsSound
<1>3. KeyOf(u) = k /\ u.data = i.data /\ u \in new
  BY UpsertedRow DEF Matches, Leaves
<1>4. View(new)[k] = i.data
  BY <1>2, <1>3, ViewAt
<1>5. \A row : KeyOf(row) # k => (row \in new <=> row \in open)
  BY <1>3, ConflictingRows DEF Leaves
<1> HIDE DEF k, new, u
<1>6. ASSUME NEW key \in AllKeys, key # k
      PROVE  View(new)[key] = View(open)[key]
  <2>1. CASE \E row \in open : KeyOf(row) = key
    <3>1. PICK row \in open : KeyOf(row) = key
      BY <2>1
    <3>2. row \in new
      BY <1>5, <1>6, <3>1
    <3>3. QED
      BY <1>2, <3>1, <3>2, ViewAt
  <2>2. CASE \A row \in open : KeyOf(row) # key
    <3>1. \A row \in new : KeyOf(row) # key
      BY <1>5, <1>6, <2>2
    <3>2. QED
      BY <2>2, <3>1, ViewElsewhere
  <2>3. QED
    BY <2>1, <2>2
<1>7. View(new) = [key \in AllKeys |-> View(new)[key]] /\ View(open) = [key \in AllKeys |-> View(open)[key]]
  BY ViewIsFunction
<1>8. View(new) = [View(open) EXCEPT ![k] = i.data]
  BY <1>1, <1>4, <1>6, <1>7
<1>9. QED
  BY <1>1, <1>8 DEF k, new

Puts(items) == {<<KeyOf(Row(i)), i.data>> : i \in items}

(* An upsert is a Put, and every other step a Commit, an Abort or a        *)
(* stutter of the store.                                                   *)
THEOREM TablesAreAStore == Spec => ImplementsKeyedStore
<1> USE DEF Puts
<1>1. Init => Store!Init
  <2> SUFFICES ASSUME Init
               PROVE  Store!Init
    OBVIOUS
  <2>1. \A k \in AllKeys : View({})[k] = None
    BY ViewElsewhere
  <2>2. View({}) = [k \in AllKeys |-> None]
    BY <2>1, ViewIsFunction
  <2>3. QED
    BY <2>2 DEF Init, Store!Init
<1>2. IInv /\ [Next]_vars => [Store!Next]_Store!vars
  <2> SUFFICES ASSUME IInv, [Next]_vars
               PROVE  [Store!Next]_Store!vars
    OBVIOUS
  <2>1. ASSUME NEW i \in Items, Upsert(i)
        PROVE  Store!Put
    <3> DEFINE k == KeyOf(Row(i))
    <3>1. open' = Leaves(i) /\ batch' = batch \cup {i} /\ stored' = stored
      BY <2>1 DEF Upsert, Leaves
    <3>2. Sound(open)
      BY DEF IInv
    <3>3. k \in AllKeys /\ View(Leaves(i)) = [View(open) EXCEPT ![k] = i.data]
      BY <3>2, ViewOfUpsert
    <3>4. View(open') = [View(open) EXCEPT ![k] = i.data]
      BY <3>1, <3>3
    <3>5. Puts(batch') = Puts(batch) \cup {<<k, i.data>>}
      BY <3>1
    <3>6. i.data \in {j.data : j \in Items}
      OBVIOUS
    <3>7. View(stored') = View(stored)
      BY <3>1
    <3> HIDE DEF k
    <3>8. QED
      BY <3>3, <3>4, <3>5, <3>6, <3>7 DEF Store!Put
  <2>2. ASSUME Commit
        PROVE  Store!Commit
    BY <2>2 DEF Commit, Store!Commit
  <2>3. ASSUME Fail \/ \E i \in Items : Rejected(i)
        PROVE  Store!Abort
    BY <2>3 DEF Fail, Rejected, Store!Abort
  <2>4. ASSUME CreateAll \/ Upgrade \/ Begin \/ UNCHANGED vars
        PROVE  UNCHANGED Store!vars
    BY <2>4 DEF CreateAll, Upgrade, Begin, vars, Store!vars
  <2>5. QED
    BY <2>1, <2>2, <2>3, <2>4 DEF Next, Store!Next
<1>3. QED
  BY <1>1, <1>2, Invariance, PTL DEF Spec, Store!Spec, ImplementsKeyedStore
=============================================================================
