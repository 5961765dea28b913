--------------------------- MODULE CatalogueProofs --------------------------
(* Theorems about Catalogue and their proofs. *)
EXTENDS Catalogue, TLAPS

-----------------------------------------------------------------------------
(***************************************************************************)
(* The inductive invariant: what the locks of the database make of the     *)
(* sessions' changes.                                                      *)
(***************************************************************************)

Held(s) == DOMAIN delta[s]

Row(s, i) == IF i \in Held(s) THEN delta[s][i] ELSE rows[i]

(* A row is changed by one session at a time. *)
RowsAreOwned == \A s, t \in Sessions : \A i \in Held(s) : i \in Held(t) => s = t

(* So is the index entry of a name, before and after the change. *)
NamesAreOwned ==
  \A s, t \in Sessions : s # t =>
    \A i \in Held(s), j \in Held(t) : \A n \in Names :
      n \in {delta[s][i], rows[i]} => n \notin {delta[t][j], rows[j]}

(* No session sees a name twice. *)
ViewsAreUnique ==
  \A s \in Sessions : \A i, j \in Ids : Row(s, i) = Row(s, j) /\ Row(s, i) # None => i = j

(* An id is given to one row, and what is deleted stays so. *)
IdsAreFinal ==
  /\ Live \subseteq used
  /\ \A s \in Sessions : \A i \in Held(s) : i \in used => rows[i] # None

(* The row that a run refers to cannot be changed until the run is over. *)
RunsLockTheirRow ==
  \A r \in Runs : pc[r] = "commit" =>
    target[r] \in Live /\ \A s \in Sessions : target[r] \notin Held(s)

Locks ==
  /\ RowsAreOwned
  /\ NamesAreOwned
  /\ ViewsAreUnique
  /\ NamesAreUnique
  /\ IdsAreFinal
  /\ RunsLockTheirRow
  /\ NoOrphans

-----------------------------------------------------------------------------
(* Helpers: what a session's change is, and what is seen of it. *)

LEMMA DeltaIsTyped ==
  ASSUME TypeOK
  PROVE  /\ DOMAIN delta = Sessions
         /\ \A s \in Sessions : Held(s) \subseteq Ids /\ \A i \in Held(s) : delta[s][i] \in Names \cup {None}
BY DEF TypeOK, Held

LEMMA ViewIsRow ==
  ASSUME NEW s
  PROVE  /\ \A i \in Ids : View(s)[i] = Row(s, i)
         /\ \A n : Seen(s, n) <=> \E i \in Ids : Row(s, i) = n
BY DEF View, Row, Held, Seen

(* A change of one row by one session. *)
LEMMA ChangeIsOne ==
  ASSUME TypeOK, NEW s \in Sessions, NEW i \in Ids, NEW n \in Names \cup {None}, Change(s, i, n)
  PROVE  /\ delta' \in [Sessions -> UNION {[D -> Names \cup {None}] : D \in SUBSET Ids}]
         /\ Held(s)' = Held(s) \cup {i}
         /\ delta'[s][i] = n
         /\ \A j \in Held(s) \ {i} : delta'[s][j] = delta[s][j]
         /\ \A t \in Sessions \ {s} : delta'[t] = delta[t]
<1> DEFINE new == [j \in Held(s) \cup {i} |-> IF j = i THEN n ELSE delta[s][j]]
<1>1. DOMAIN delta = Sessions /\ Held(s) \subseteq Ids /\ \A j \in Held(s) : delta[s][j] \in Names \cup {None}
  BY DeltaIsTyped
<1>2. delta' = [delta EXCEPT ![s] = new]
  BY <1>1 DEF Change, Held
<1>3. new \in [Held(s) \cup {i} -> Names \cup {None}] /\ Held(s) \cup {i} \in SUBSET Ids
  BY <1>1
<1> DEFINE Deltas == UNION {[D -> Names \cup {None}] : D \in SUBSET Ids}
<1>4. new \in Deltas
  BY <1>3
<1>5. delta \in [Sessions -> Deltas]
  BY DEF TypeOK
<1>6. delta'[s] = new /\ (\A t \in Sessions \ {s} : delta'[t] = delta[t]) /\ DOMAIN new = Held(s) \cup {i}
  BY <1>1, <1>2
<1>7. delta' \in [Sessions -> Deltas]
  <2> HIDE DEF new, Deltas
  <2> QED
    BY <1>2, <1>4, <1>5
<1> QED
  BY <1>6, <1>7 DEF Held

(* A session that has ended has no changes. *)
LEMMA NoChangeIsEmpty ==
  ASSUME TypeOK, NEW s \in Sessions, delta' = [delta EXCEPT ![s] = NoChange]
  PROVE  /\ delta' \in [Sessions -> UNION {[D -> Names \cup {None}] : D \in SUBSET Ids}]
         /\ Held(s)' = {}
         /\ \A t \in Sessions \ {s} : delta'[t] = delta[t]
<1> DEFINE Deltas == UNION {[D -> Names \cup {None}] : D \in SUBSET Ids}
<1>1. NoChange \in [{} -> Names \cup {None}] /\ DOMAIN NoChange = {}
  BY DEF NoChange
<1>2. NoChange \in Deltas
  BY <1>1
<1>3. delta \in [Sessions -> Deltas]
  BY DEF TypeOK
<1>4. delta'[s] = NoChange /\ \A t \in Sessions \ {s} : delta'[t] = delta[t]
  BY <1>3
<1>5. delta' \in [Sessions -> Deltas]
  <2> HIDE DEF Deltas
  <2> QED
    BY <1>2, <1>3
<1> QED
  BY <1>1, <1>4, <1>5 DEF Held

-----------------------------------------------------------------------------
(* The locks through the four kinds of steps. *)

(* Nothing is changed, and no run comes to its commit. *)
LEMMA LocksKept ==
  ASSUME Locks, UNCHANGED <<rows, used, stored, delta>>,
         \A r \in Runs : pc'[r] = "commit" => pc[r] = "commit" /\ target'[r] = target[r]
  PROVE  Locks'
<1>1. RowsAreOwned' /\ NamesAreOwned' /\ ViewsAreUnique' /\ NamesAreUnique' /\ IdsAreFinal' /\ NoOrphans'
  BY DEF Locks, RowsAreOwned, NamesAreOwned, ViewsAreUnique, NamesAreUnique, IdsAreFinal,
     NoOrphans, Live, Row, Held
<1>2. RunsLockTheirRow'
  <2> SUFFICES ASSUME NEW r \in Runs, pc'[r] = "commit"
               PROVE  target'[r] \in Live' /\ \A t \in Sessions : target'[r] \notin Held(t)'
    BY DEF RunsLockTheirRow, Held
  <2>1. target'[r] = target[r] /\ target[r] \in Live /\ \A t \in Sessions : target[r] \notin Held(t)
    BY DEF Locks, RunsLockTheirRow
  <2> QED
    BY <2>1 DEF Live, Held
<1> QED
  BY <1>1, <1>2 DEF Locks

(* A session changes a row that nobody else has, to a name that nobody has. *)
LEMMA LocksChange ==
  ASSUME TypeOK, Locks, NEW s \in Sessions, NEW i \in Ids, NEW n \in Names \cup {None},
         Change(s, i, n), UNCHANGED <<rows, used, stored, target>>,
         \A r \in Runs : pc'[r] = pc[r],
         RowHolders(s, i) = {}, \A r \in Runs \ {s} : ~(pc[r] = "commit" /\ target[r] = i), s \notin Runs,
         n \in Names => (n = rows[i] /\ i \notin Held(s)) \/ (NameHolders(s, n) = {} /\ ~Seen(s, n)),
         i \in used => rows[i] # None
  PROVE  Locks'
<1>1. /\ Held(s)' = Held(s) \cup {i} /\ delta'[s][i] = n
      /\ \A j \in Held(s) \ {i} : delta'[s][j] = delta[s][j]
      /\ \A t \in Sessions \ {s} : delta'[t] = delta[t] /\ Held(t)' = Held(t)
  BY ChangeIsOne DEF Held
<1>2. \A t \in Sessions \ {s} : i \notin Held(t)
  BY DEF RowHolders, Held
<1>3. \A j \in Ids : Row(s, j)' = IF j = i THEN n ELSE Row(s, j)
  BY <1>1 DEF Row
<1>4. \A t \in Sessions \ {s} : \A j \in Ids : Row(t, j)' = Row(t, j)
  BY <1>1 DEF Row, Held
<1>5. RowsAreOwned'
  BY <1>1, <1>2 DEF Locks, RowsAreOwned
<1>6. ASSUME NEW t \in Sessions \ {s}, NEW j \in Held(t), NEW m \in Names, m \in {n, rows[i]}
      PROVE  m \notin {delta[t][j], rows[j]}
  <2>1. j \in Ids /\ j # i
    BY <1>2, DeltaIsTyped
  <2>2. CASE m = rows[i]
    <3>1. Row(t, i) = m /\ Row(t, j) = delta[t][j] /\ m # None
      BY <1>2, <2>2, CatalogueAssumption DEF Row
    <3>2. m # delta[t][j]
      BY <2>1, <3>1 DEF Locks, ViewsAreUnique
    <3>3. m # rows[j]
      BY <2>1, <2>2, <3>1 DEF Locks, NamesAreUnique, Live
    <3> QED
      BY <3>2, <3>3
  <2>3. CASE m = n /\ m # rows[i]
    BY <2>3 DEF NameHolders, Held
  <2> QED
    BY <1>6, <2>2, <2>3
<1>7. NamesAreOwned'
  <2> SUFFICES ASSUME NEW t \in Sessions, NEW v \in Sessions, t # v,
                      NEW j \in Held(t)', NEW k \in Held(v)', NEW m \in Names,
                      m \in {delta'[t][j], rows[j]}, m \in {delta'[v][k], rows[k]}
               PROVE  FALSE
    BY DEF NamesAreOwned, Held
  <2>1. CASE t # s /\ v # s
    BY <1>1, <2>1 DEF Locks, NamesAreOwned
  <2>2. CASE t = s /\ j = i
    BY <1>1, <1>6, <2>2
  <2>3. CASE v = s /\ k = i
    BY <1>1, <1>6, <2>3
  <2>4. CASE t = s /\ j # i
    BY <1>1, <2>4 DEF Locks, NamesAreOwned
  <2>5. CASE v = s /\ k # i
    BY <1>1, <2>5 DEF Locks, NamesAreOwned
  <2> QED
    BY <2>1, <2>2, <2>3, <2>4, <2>5
<1>8. ViewsAreUnique'
  <2>1. \A j \in Ids \ {i} : n # None => Row(s, j) # n
    <3>1. CASE n = rows[i] /\ i \notin Held(s)
      BY <3>1 DEF Locks, ViewsAreUnique, Row
    <3>2. CASE ~Seen(s, n)
      BY <3>2, ViewIsRow
    <3> QED
      BY <3>1, <3>2
  <2> QED
    BY <1>3, <1>4, <2>1 DEF Locks, ViewsAreUnique
<1>9. IdsAreFinal' /\ NamesAreUnique' /\ NoOrphans'
  BY <1>1 DEF Locks, IdsAreFinal, NamesAreUnique, NoOrphans, Live
<1>10. RunsLockTheirRow'
  BY <1>1 DEF Locks, RunsLockTheirRow, Live
<1> QED
  BY <1>5, <1>7, <1>8, <1>9, <1>10 DEF Locks

(* A session commits: its changes become everybody's. *)
LEMMA LocksApply ==
  ASSUME TypeOK, Locks, NEW s \in Sessions, Apply(s), delta' = [delta EXCEPT ![s] = NoChange],
         \A r \in Runs : pc'[r] = pc[r] /\ (pc[r] = "commit" => target'[r] = target[r])
  PROVE  Locks'
<1>1. Held(s)' = {} /\ \A t \in Sessions \ {s} : delta'[t] = delta[t] /\ Held(t)' = Held(t)
  BY NoChangeIsEmpty DEF Held
<1>2. \A i \in Ids : rows'[i] = Row(s, i)
  BY ViewIsRow DEF Apply
<1>3. used' = used \cup Held(s)
  BY DEF Apply, Held
<1>4. \A t \in Sessions : Held(t) \subseteq Ids
  BY DeltaIsTyped
<1>5. \A t \in Sessions \ {s} : \A i \in Held(t) : rows'[i] = rows[i]
  BY <1>2, <1>4 DEF Row, Locks, RowsAreOwned
<1>6. RowsAreOwned'
  BY <1>1 DEF Locks, RowsAreOwned
<1>7. NamesAreOwned'
  BY <1>1, <1>5 DEF Locks, NamesAreOwned
<1>8. NamesAreUnique'
  BY <1>2 DEF Locks, ViewsAreUnique, NamesAreUnique, Live
<1>9. ViewsAreUnique'
  <2>1. \A i, j \in Ids : Row(s, i)' = Row(s, j)' /\ Row(s, i)' # None => i = j
    BY <1>1, <1>8 DEF NamesAreUnique, Live, Row
  <2>2. ASSUME NEW t \in Sessions \ {s}, NEW i \in Ids, NEW j \in Ids,
               Row(t, i)' = Row(t, j)', Row(t, i)' # None
        PROVE  i = j
    <3>1. /\ Row(t, i)' = IF i \in Held(t) THEN delta[t][i] ELSE Row(s, i)
          /\ Row(t, j)' = IF j \in Held(t) THEN delta[t][j] ELSE Row(s, j)
      BY <1>1, <1>2 DEF Row
    <3>2. Row(t, i)' \in Names /\ Row(t, j)' \in Names
      <4>1. Row(s, i) \in Names \cup {None} /\ (i \in Held(t) => delta[t][i] \in Names \cup {None})
        BY DeltaIsTyped DEF Row, TypeOK
      <4> QED
        BY <2>2, <3>1, <4>1
    <3>3. CASE i \in Held(t) /\ j \in Held(s) /\ j \notin Held(t)
      BY <2>2, <3>1, <3>2, <3>3 DEF Locks, NamesAreOwned, Row
    <3>4. CASE j \in Held(t) /\ i \in Held(s) /\ i \notin Held(t)
      BY <2>2, <3>1, <3>2, <3>4 DEF Locks, NamesAreOwned, Row
    <3>5. CASE i \notin Held(t) /\ j \notin Held(t)
      BY <2>2, <3>1, <3>5 DEF Locks, ViewsAreUnique
    <3>6. CASE i \notin Held(s) /\ j \notin Held(s)
      <4>1. Row(t, i)' = Row(t, i) /\ Row(t, j)' = Row(t, j)
        BY <3>1, <3>6 DEF Row
      <4> QED
        BY <2>2, <4>1 DEF Locks, ViewsAreUnique
    <3>7. CASE i \in Held(t) /\ j \in Held(t)
      <4>1. Row(t, i)' = Row(t, i) /\ Row(t, j)' = Row(t, j)
        BY <3>1, <3>7 DEF Row
      <4> QED
        BY <2>2, <4>1 DEF Locks, ViewsAreUnique
    <3>8. Held(t) \cap Held(s) = {}
      BY DEF Locks, RowsAreOwned
    <3> QED
      BY <3>3, <3>4, <3>5, <3>6, <3>7, <3>8
  <2> QED
    BY <2>1, <2>2 DEF ViewsAreUnique, Row, Held
<1>10. IdsAreFinal'
  <2>1. Live' \subseteq used'
    BY <1>2, <1>3 DEF Locks, IdsAreFinal, Live, Row
  <2>2. ASSUME NEW t \in Sessions \ {s}, NEW i \in Held(t), i \in used' PROVE rows'[i] # None
    BY <1>3, <1>5, <2>2 DEF Locks, IdsAreFinal, RowsAreOwned
  <2> QED
    BY <1>1, <2>1, <2>2 DEF IdsAreFinal
<1>11. RunsLockTheirRow'
  <2> SUFFICES ASSUME NEW r \in Runs, pc'[r] = "commit"
               PROVE  target'[r] \in Live' /\ \A t \in Sessions : target'[r] \notin Held(t)'
    BY DEF RunsLockTheirRow, Held
  <2>1. target'[r] = target[r] /\ target[r] \in Live /\ \A t \in Sessions : target[r] \notin Held(t)
    BY DEF Locks, RunsLockTheirRow
  <2> QED
    BY <1>1, <1>2, <2>1 DEF Live, Row
<1>12. NoOrphans'
  BY DEF Apply, NoOrphans, Live, TypeOK
<1> QED
  BY <1>6, <1>7, <1>8, <1>9, <1>10, <1>11, <1>12 DEF Locks

(* A session is rolled back, or ends without changes. *)
LEMMA LocksDrop ==
  ASSUME TypeOK, Locks, NEW s \in Sessions, delta' = [delta EXCEPT ![s] = NoChange],
         UNCHANGED <<rows, used, stored>>,
         \A r \in Runs : pc'[r] = "commit" => pc[r] = "commit" /\ target'[r] = target[r]
  PROVE  Locks'
<1>1. Held(s)' = {} /\ \A t \in Sessions \ {s} : delta'[t] = delta[t] /\ Held(t)' = Held(t)
  BY NoChangeIsEmpty DEF Held
<1>2. RowsAreOwned' /\ NamesAreOwned'
  BY <1>1 DEF Locks, RowsAreOwned, NamesAreOwned
<1>3. ViewsAreUnique'
  <2>1. \A i \in Ids : Row(s, i)' = rows[i]
    BY <1>1 DEF Row
  <2>2. \A t \in Sessions \ {s} : \A i \in Ids : Row(t, i)' = Row(t, i)
    BY <1>1 DEF Row
  <2> QED
    BY <2>1, <2>2 DEF Locks, ViewsAreUnique, NamesAreUnique, Live
<1>4. NamesAreUnique' /\ IdsAreFinal' /\ NoOrphans'
  BY <1>1 DEF Locks, NamesAreUnique, IdsAreFinal, NoOrphans, Live
<1>5. RunsLockTheirRow'
  <2> SUFFICES ASSUME NEW r \in Runs, pc'[r] = "commit"
               PROVE  target'[r] \in Live' /\ \A t \in Sessions : target'[r] \notin Held(t)'
    BY DEF RunsLockTheirRow, Held
  <2>1. target'[r] = target[r] /\ target[r] \in Live /\ \A t \in Sessions : target[r] \notin Held(t)
    BY DEF Locks, RunsLockTheirRow
  <2> QED
    BY <1>1, <2>1 DEF Live
<1> QED
  BY <1>2, <1>3, <1>4, <1>5 DEF Locks

-----------------------------------------------------------------------------
(***************************************************************************)
(* Where each session is, and what it has.                                 *)
(***************************************************************************)

(* The names that are in the catalogue, or have been removed from it. *)
Found == LiveNames \cup removed

(* A row that has been deleted. *)
Gone(i) == i \in used /\ rows[i] = None

WorkerOK(w) ==
  /\ phase[w] \in {"down", "tables"} =>
       pc[w] = "idle" /\ Held(w) = {} /\ synced[w] = "none" /\ at[w] = 1
  /\ phase[w] = "sync" => pc[w] \in {"idle", "insert"} /\ synced[w] = "none"
  /\ phase[w] = "serving" => pc[w] = "done" /\ Held(w) = {} /\ synced[w] # "none"
  /\ pc[w] = "insert" => at[w] <= Len(config[w])
  /\ \A i \in Held(w) : delta[w][i] \in Names
  /\ phase[w] = "sync" =>
       \A k \in 1..(at[w] - 1) : config[w][k] \in Found \cup {delta[w][i] : i \in Held(w)}
  /\ synced[w] = "success" => \A k \in DOMAIN config[w] : config[w][k] \in Found
  /\ \A i \in Ids : origin[i] = w => synced[w] \in {"success", "no_config"}

RequestOK(q) ==
  /\ pc[q] \in {"idle", "insert", "row", "name", "answer", "commit", "done"}
  /\ pc[q] \in {"idle", "insert", "row", "done"} => Held(q) = {}
  /\ pc[q] \in {"idle", "insert"} => target[q] = None
  /\ pc[q] = "insert" => name[q] \in Names
  /\ pc[q] \in {"row", "name"} => target[q] \in used
  /\ pc[q] = "name" =>
       Held(q) = {target[q]} /\ name[q] \in Names /\ delta[q][target[q]] = rows[target[q]]
  /\ pc[q] \in {"answer", "commit"} =>
       \/ target[q] \in used /\ Held(q) = {target[q]} /\ delta[q][target[q]] = name[q]
       \/ target[q] = None /\ name[q] \in Names /\ \E i \in Ids : Held(q) = {i} /\ delta[q][i] = name[q]
  /\ pc[q] = "commit" => target[q] = None \/ name[q] = None
  /\ reply[q] # "none" => pc[q] = "done" \/ (pc[q] = "commit" /\ AnswersFirst)
  /\ q \in dropped => pc[q] = "done" /\ AnswersFirst
  /\ pc[q] = "done" /\ reply[q] = "created" /\ q \notin dropped => name[q] \in Found
  /\ pc[q] = "done" /\ reply[q] = "deleted" /\ q \notin dropped => Gone(target[q])
  /\ \A i \in Ids : origin[i] = q => pc[q] = "done" /\ reply[q] = "created" /\ q \notin dropped

RunOK(r) ==
  /\ pc[r] \in {"idle", "child", "commit", "done"}
  /\ Held(r) = {}
  /\ pc[r] \in {"child", "commit"} => target[r] \in Ids
  /\ pc[r] # "done" => reply[r] = "none"

Places ==
  /\ \A w \in Workers : WorkerOK(w)
  /\ \A q \in Requests : RequestOK(q)
  /\ \A r \in Runs : RunOK(r)

CatInv == TypeOK /\ Locks /\ Places

(* A step of a session leaves the others where they are. *)
OthersStay(s) ==
  /\ \A t \in Sessions \ {s} :
       /\ pc'[t] = pc[t] /\ target'[t] = target[t] /\ name'[t] = name[t]
       /\ delta'[t] = delta[t] /\ reply'[t] = reply[t] /\ (t \in dropped' <=> t \in dropped)
  /\ \A w \in Workers \ {s} :
       phase'[w] = phase[w] /\ config'[w] = config[w] /\ at'[w] = at[w] /\ synced'[w] = synced[w]

(* What it does to the tables: no name goes without being told, no row that
   was deleted comes back, and only its own rows change.                   *)
TablesGoOn(s) ==
  /\ \A n : n \in Found => n \in LiveNames' \cup removed'
  /\ used \subseteq used'
  /\ \A i \in Ids : Gone(i) => rows'[i] = None
  /\ \A i \in Ids \ Held(s) : rows'[i] = rows[i]
  /\ \A i \in Ids : origin'[i] \in {origin[i], s, None}

LEMMA OthersAreOK ==
  ASSUME CatInv, NEW s \in Sessions, OthersStay(s), TablesGoOn(s)
  PROVE  /\ \A w \in Workers \ {s} : WorkerOK(w)'
         /\ \A q \in Requests \ {s} : RequestOK(q)'
         /\ \A r \in Runs \ {s} : RunOK(r)'
<1>1. Found \subseteq Found' /\ used \subseteq used' /\ used \subseteq Ids
  BY DEF TablesGoOn, Found, CatInv, TypeOK
<1>2. \A t \in Sessions \ {s} : Held(t)' = Held(t) /\ delta'[t] = delta[t]
  BY DEF OthersStay, Held, history
<1>3. ASSUME NEW w \in Workers \ {s} PROVE WorkerOK(w)'
  <2>1. w \in Sessions /\ WorkerOK(w)
    BY DEF CatInv, Places, Sessions
  <2>2. \A i \in Ids : origin'[i] = w => origin[i] = w
    BY CatalogueAssumption DEF TablesGoOn
  <2> QED
    BY <1>1, <1>2, <2>1, <2>2 DEF OthersStay, WorkerOK, history
<1>4. ASSUME NEW q \in Requests \ {s} PROVE RequestOK(q)'
  <2>1. q \in Sessions /\ RequestOK(q)
    BY DEF CatInv, Places, Sessions
  <2>2. \A i \in Held(q) : i \in Ids /\ rows'[i] = rows[i]
    BY <2>1, DeltaIsTyped DEF TablesGoOn, CatInv, Locks, RowsAreOwned
  <2>3. \A i : Gone(i) => i \in used' /\ rows'[i] = None
    BY <1>1 DEF TablesGoOn, Gone
  <2>4. \A i \in Ids : origin'[i] = q => origin[i] = q
    BY <2>1, CatalogueAssumption DEF TablesGoOn, Sessions
  <2> QED
    BY <1>1, <1>2, <2>1, <2>2, <2>3, <2>4 DEF OthersStay, RequestOK, Gone, history
<1>5. ASSUME NEW r \in Runs \ {s} PROVE RunOK(r)'
  BY <1>2 DEF OthersStay, CatInv, Places, RunOK, Sessions, history
<1> QED
  BY <1>3, <1>4, <1>5

LEMMA TablesAlone ==
  ASSUME CatInv, NEW s \in Sessions, UNCHANGED <<rows, used, origin, removed>>
  PROVE  TablesGoOn(s)
BY DEF TablesGoOn, Found, LiveNames, Live, Gone

LEMMA TablesApply ==
  ASSUME CatInv, NEW s \in Sessions, Apply(s)
  PROVE  TablesGoOn(s)
<1>1. \A i \in Ids : rows'[i] = Row(s, i)
  BY ViewIsRow DEF Apply
<1>2. used' = used \cup Held(s) /\ Held(s) \subseteq Ids
  BY DeltaIsTyped DEF Apply, Held, CatInv
<1>3. ASSUME NEW n, n \in Found PROVE n \in LiveNames' \cup removed'
  <2>1. removed \subseteq removed'
    BY DEF Apply
  <2>2. CASE n \in LiveNames
    <3> PICK i \in Ids : rows[i] # None /\ n = rows[i]
      BY <2>2 DEF LiveNames, Live
    <3>1. CASE rows'[i] = rows[i]
      BY <3>1 DEF LiveNames, Live
    <3>2. CASE rows'[i] # rows[i]
      <4>1. i \in Held(s) /\ delta[s][i] # rows[i]
        BY <1>1, <3>2 DEF Row
      <4> QED
        BY <4>1 DEF Apply, Held
    <3> QED
      BY <3>1, <3>2
  <2> QED
    BY <1>3, <2>1, <2>2 DEF Found
<1>4. \A i \in Ids : Gone(i) => rows'[i] = None
  BY <1>1 DEF Gone, Row, CatInv, Locks, IdsAreFinal
<1>5. \A i \in Ids \ Held(s) : rows'[i] = rows[i]
  BY <1>1 DEF Row
<1>6. \A i \in Ids : origin'[i] \in {origin[i], s, None}
  BY DEF Apply
<1> QED
  BY <1>2, <1>3, <1>4, <1>5, <1>6 DEF TablesGoOn

LEMMA ApplyType ==
  ASSUME TypeOK, NEW s \in Sessions, Apply(s)
  PROVE  /\ rows' \in [Ids -> Names \cup {None}] /\ used' \in SUBSET Ids /\ stored' \in SUBSET Ids
         /\ origin' \in [Ids -> Sessions \cup {None}] /\ removed' \in SUBSET Names /\ dropped' = dropped
<1>1. \A i \in Ids : Row(s, i) \in Names \cup {None}
  BY DeltaIsTyped DEF Row, TypeOK
<1>2. rows' = [i \in Ids |-> Row(s, i)]
  BY DEF Apply, View, Row, Held
<1>3. used' \in SUBSET Ids /\ stored' \in SUBSET Ids
  BY DeltaIsTyped DEF Apply, TypeOK, Held
<1>4. origin' \in [Ids -> Sessions \cup {None}]
  BY DEF Apply, TypeOK
<1>5. removed' \in SUBSET Names /\ dropped' = dropped
  <2>1. \A i \in Held(s) : rows[i] # None => rows[i] \in Names
    BY DeltaIsTyped DEF TypeOK
  <2> QED
    BY <2>1 DEF Apply, TypeOK, Held
<1> QED
  BY <1>1, <1>2, <1>3, <1>4, <1>5

-----------------------------------------------------------------------------
(***************************************************************************)
(* Every action keeps the invariant.                                       *)
(***************************************************************************)

LEMMA StepIsOK ==
  ASSUME CatInv, NEW s \in Sessions, OthersStay(s), TablesGoOn(s), TypeOK', Locks',
         s \in Workers => WorkerOK(s)', s \in Requests => RequestOK(s)', s \in Runs => RunOK(s)'
  PROVE  CatInv'
BY OthersAreOK DEF CatInv, Places

LEMMA SessionsAreOf ==
  /\ \A w \in Workers : w \in Sessions /\ w \notin Requests /\ w \notin Runs
  /\ \A q \in Requests : q \in Sessions /\ q \notin Workers /\ q \notin Runs
  /\ \A r \in Runs : r \in Sessions /\ r \notin Workers /\ r \notin Requests
BY CatalogueAssumption DEF Sessions

LEMMA ConfigIsTyped ==
  ASSUME TypeOK, NEW w \in Workers
  PROVE  /\ config[w] \in Seq(Names) /\ Len(config[w]) \in Nat /\ at[w] \in Nat \ {0}
         /\ DOMAIN config[w] = 1..Len(config[w])
         /\ \A k \in 1..Len(config[w]) : config[w][k] \in Names
<1>1. <<>> \in Seq(Names)
  OBVIOUS
<1>2. config[w] \in Configs \cup {<<>>} /\ at[w] \in Nat \ {0}
  BY DEF TypeOK
<1>3. config[w] \in Seq(Names)
  BY <1>1, <1>2, CatalogueAssumption
<1> QED
  BY <1>2, <1>3

LEMMA FinishType ==
  ASSUME TypeOK, NEW s \in Sessions, NEW r \in Replies, Finish(s, r)
  PROVE  /\ pc' \in [Sessions -> {"idle", "insert", "row", "name", "answer", "child", "commit", "done"}]
         /\ target' \in [Sessions -> Ids \cup {None}] /\ name' \in [Sessions -> Names \cup {None}]
         /\ delta' \in [Sessions -> UNION {[D -> Names \cup {None}] : D \in SUBSET Ids}]
         /\ reply' \in [Sessions -> Replies]
         /\ pc'[s] = "done" /\ reply'[s] = r /\ Held(s)' = {}
         /\ r \in {"created", "deleted"} => target'[s] = target[s] /\ name'[s] = name[s]
         /\ \A t \in Sessions \ {s} :
              /\ pc'[t] = pc[t] /\ target'[t] = target[t] /\ name'[t] = name[t]
              /\ delta'[t] = delta[t] /\ reply'[t] = reply[t]
<1>1. /\ delta' \in [Sessions -> UNION {[D -> Names \cup {None}] : D \in SUBSET Ids}]
      /\ Held(s)' = {} /\ \A t \in Sessions \ {s} : delta'[t] = delta[t]
  BY NoChangeIsEmpty DEF Finish
<1>2. pc \in [Sessions -> {"idle", "insert", "row", "name", "answer", "child", "commit", "done"}]
      /\ target \in [Sessions -> Ids \cup {None}] /\ name \in [Sessions -> Names \cup {None}]
      /\ reply \in [Sessions -> Replies]
  BY DEF TypeOK
<1>3. pc' = [pc EXCEPT ![s] = "done"] /\ reply' = [reply EXCEPT ![s] = r]
  BY DEF Finish, Goto
<1>4. \/ target' = target /\ name' = name
      \/ r \notin {"created", "deleted"} /\ target' = [target EXCEPT ![s] = None] /\ name' = [name EXCEPT ![s] = None]
  BY DEF Finish
<1> QED
  BY <1>1, <1>2, <1>3, <1>4

(* A request or run is over, and has changed nothing. *)
LEMMA EndsWithout ==
  ASSUME CatInv, NEW s \in Requests \cup Runs, NEW r \in {"conflict", "not found", "error", "deleted"},
         Finish(s, r), UNCHANGED <<tables, life, history>>, faults' \in 0..Restarts,
         r = "deleted" => s \in Requests /\ Gone(target[s]), pc[s] # "done"
  PROVE  CatInv'
<1>1. s \in Sessions /\ s \notin Workers /\ r \in Replies
  BY SessionsAreOf DEF Replies
<1>2. /\ pc' \in [Sessions -> {"idle", "insert", "row", "name", "answer", "child", "commit", "done"}]
      /\ target' \in [Sessions -> Ids \cup {None}] /\ name' \in [Sessions -> Names \cup {None}]
      /\ delta' \in [Sessions -> UNION {[D -> Names \cup {None}] : D \in SUBSET Ids}]
      /\ reply' \in [Sessions -> Replies]
      /\ pc'[s] = "done" /\ reply'[s] = r /\ Held(s)' = {}
      /\ r \in {"created", "deleted"} => target'[s] = target[s] /\ name'[s] = name[s]
      /\ \A t \in Sessions \ {s} :
              /\ pc'[t] = pc[t] /\ target'[t] = target[t] /\ name'[t] = name[t]
              /\ delta'[t] = delta[t] /\ reply'[t] = reply[t]
  BY <1>1, FinishType DEF CatInv
<1>3. TypeOK'
  BY <1>2 DEF TypeOK, CatInv, tables, life, history
<1>4. Locks'
  BY <1>1, <1>2, LocksDrop, SessionsAreOf DEF CatInv, Finish, tables
<1>5. OthersStay(s)
  BY <1>2 DEF OthersStay, life, history
<1>6. TablesGoOn(s)
  BY <1>1, TablesAlone DEF tables, history
<1>7. s \in Requests => RequestOK(s)'
  <2>1. r = "deleted" => target'[s] = target[s] /\ Gone(target[s])
    BY <1>2
  <2>2. s \in Requests => s \notin dropped /\ \A i \in Ids : origin[i] # s
    BY DEF CatInv, Places, RequestOK
  <2> QED
    BY <1>2, <2>1, <2>2 DEF RequestOK, Gone, tables, history
<1>8. s \in Runs => RunOK(s)'
  BY <1>2 DEF RunOK
<1> QED
  BY <1>1, <1>3, <1>4, <1>5, <1>6, <1>7, <1>8, StepIsOK

(* A worker's sync is over. *)
LEMMA SyncEndsOK ==
  ASSUME CatInv, NEW w \in Workers, phase[w] = "sync", NEW result, SyncEnds(w, result), faults' \in 0..Restarts,
         \/ result = "failed"
         \/ result = "no_config" /\ config[w] = <<>>
         \/ result = "success" /\ at[w] > Len(config[w])
  PROVE  CatInv'
<1>1. w \in Sessions /\ w \notin Requests /\ w \notin Runs
  BY SessionsAreOf
<1>2. /\ delta' \in [Sessions -> UNION {[D -> Names \cup {None}] : D \in SUBSET Ids}]
      /\ Held(w)' = {} /\ \A t \in Sessions \ {w} : delta'[t] = delta[t]
  BY <1>1, NoChangeIsEmpty DEF SyncEnds, CatInv
<1>3. /\ pc' \in [Sessions -> {"idle", "insert", "row", "name", "answer", "child", "commit", "done"}]
      /\ phase' \in [Workers -> {"down", "tables", "sync", "serving"}]
      /\ synced' \in [Workers -> {"none", "no_config", "success", "failed"}]
      /\ pc'[w] = "done" /\ phase'[w] = "serving" /\ synced'[w] = result
      /\ \A t \in Sessions \ {w} : pc'[t] = pc[t]
      /\ \A v \in Workers \ {w} : phase'[v] = phase[v] /\ synced'[v] = synced[v]
  BY <1>1 DEF SyncEnds, Goto, CatInv, TypeOK
<1>4. CASE result = "failed"
  <2>0. UNCHANGED <<rows, used, stored, origin, removed, dropped>>
    BY <1>4 DEF SyncEnds, history
  <2>1. TypeOK'
    BY <1>2, <1>3, <2>0 DEF SyncEnds, TypeOK, CatInv
  <2>2. Locks'
    BY <1>1, <1>3, <2>0, LocksDrop, SessionsAreOf DEF SyncEnds, CatInv
  <2>3. TablesGoOn(w)
    BY <1>1, <2>0, TablesAlone
  <2>4. OthersStay(w)
    BY <1>2, <1>3, <2>0 DEF OthersStay, SyncEnds
  <2>5. WorkerOK(w)'
    BY <1>2, <1>3, <1>4, <2>0 DEF WorkerOK, CatInv, Places
  <2> QED
    BY <1>1, <2>1, <2>2, <2>3, <2>4, <2>5, StepIsOK
<1>5. CASE result # "failed"
  <2>0. Apply(w)
    BY <1>5 DEF SyncEnds
  <2>1. TypeOK'
    BY <1>1, <1>2, <1>3, <2>0, ApplyType DEF SyncEnds, TypeOK, CatInv
  <2>2. Locks'
    BY <1>1, <1>3, <2>0, LocksApply, SessionsAreOf DEF SyncEnds, CatInv
  <2>3. TablesGoOn(w)
    BY <1>1, <2>0, TablesApply
  <2>4. OthersStay(w)
    BY <1>2, <1>3, <2>0 DEF OthersStay, SyncEnds, Apply
  <2>5. ASSUME result = "success" PROVE \A k \in DOMAIN config[w] : config[w][k] \in Found'
    <3> SUFFICES ASSUME NEW k \in DOMAIN config[w] PROVE config[w][k] \in Found'
      OBVIOUS
    <3>1. k \in 1..(at[w] - 1) /\ config[w][k] \in Names
      BY <1>5, <2>5, ConfigIsTyped DEF CatInv
    <3>2. config[w][k] \in Found \cup {delta[w][i] : i \in Held(w)}
      BY <3>1 DEF CatInv, Places, WorkerOK
    <3>3. CASE config[w][k] \in Found
      BY <2>3, <3>3 DEF TablesGoOn, Found
    <3>4. ASSUME NEW i \in Held(w), config[w][k] = delta[w][i] PROVE config[w][k] \in Found'
      <4>1. i \in Ids /\ rows'[i] = config[w][k]
        BY <1>1, <2>0, <3>4, ViewIsRow, DeltaIsTyped DEF Apply, Row, CatInv
      <4> QED
        BY <3>1, <4>1, CatalogueAssumption DEF Found, LiveNames, Live
    <3> QED
      BY <3>2, <3>3, <3>4
  <2>6. WorkerOK(w)'
    BY <1>2, <1>3, <1>5, <2>5 DEF WorkerOK, SyncEnds
  <2> QED
    BY <1>1, <2>1, <2>2, <2>3, <2>4, <2>6, StepIsOK
<1> QED
  BY <1>4, <1>5

-----------------------------------------------------------------------------
(* The start of a process. *)

LEMMA CatInit == Init => CatInv
<1> SUFFICES ASSUME Init PROVE CatInv
  OBVIOUS
<1>1. \A s \in Sessions : Held(s) = {} /\ delta[s] = NoChange
  BY DEF Init, Held, NoChange
<1>2. delta \in [Sessions -> UNION {[D -> Names \cup {None}] : D \in SUBSET Ids}]
  <2>1. NoChange \in [{} -> Names \cup {None}]
    BY DEF NoChange
  <2>2. NoChange \in UNION {[D -> Names \cup {None}] : D \in SUBSET Ids}
    BY <2>1
  <2> DEFINE Deltas == UNION {[D -> Names \cup {None}] : D \in SUBSET Ids}
  <2>3. delta = [s \in Sessions |-> NoChange] /\ NoChange \in Deltas
    BY <2>2 DEF Init
  <2>4. delta \in [Sessions -> Deltas]
    <3> HIDE DEF Deltas
    <3> QED
      BY <2>3
  <2> QED
    BY <2>4
<1>3. TypeOK
  BY <1>2, CatalogueAssumption DEF Init, TypeOK, Replies
<1>4. Locks
  BY <1>1 DEF Init, Locks, RowsAreOwned, NamesAreOwned, ViewsAreUnique, NamesAreUnique, IdsAreFinal,
     RunsLockTheirRow, NoOrphans, Live, Row, Sessions
<1>5. ASSUME NEW w \in Workers PROVE WorkerOK(w)
  BY <1>1, <1>5, CatalogueAssumption DEF Init, WorkerOK, Sessions
<1>6. ASSUME NEW q \in Requests PROVE RequestOK(q)
  BY <1>1, <1>6, CatalogueAssumption DEF Init, RequestOK, Sessions
<1>7. ASSUME NEW r \in Runs PROVE RunOK(r)
  BY <1>1, <1>7 DEF Init, RunOK, Sessions
<1> QED
  BY <1>3, <1>4, <1>5, <1>6, <1>7 DEF CatInv, Places

(* A step that no session takes. *)
LEMMA CatStutter ==
  ASSUME CatInv, UNCHANGED <<rows, used, stored, life, session, faults, history>>,
         schema' \in {"none", "models", "migrated"}
  PROVE  CatInv'
<1>1. TypeOK'
  BY DEF CatInv, TypeOK, life, session, history
<1>2. Locks'
  BY LocksKept DEF CatInv, session
<1>3. ASSUME NEW w \in Workers PROVE WorkerOK(w)'
  BY DEF CatInv, Places, WorkerOK, Held, Found, LiveNames, Live, life, session, history
<1>4. ASSUME NEW q \in Requests PROVE RequestOK(q)'
  BY DEF CatInv, Places, RequestOK, Held, Found, LiveNames, Live, Gone, life, session, history
<1>5. ASSUME NEW r \in Runs PROVE RunOK(r)'
  BY DEF CatInv, Places, RunOK, Held, session
<1> QED
  BY <1>1, <1>2, <1>3, <1>4, <1>5 DEF CatInv, Places

LEMMA LookForTablesOK == ASSUME CatInv, NEW w \in Workers, LookForTables(w) PROVE CatInv'
<1>1. TypeOK'
  BY DEF CatInv, TypeOK, LookForTables, tables, session, history
<1>2. Locks' /\ TablesGoOn(w)
  BY SessionsAreOf, LocksKept, TablesAlone DEF CatInv, LookForTables, session, tables, history
<1>3. OthersStay(w)
  BY DEF OthersStay, LookForTables, CatInv, TypeOK, session, history
<1>4. WorkerOK(w)'
  BY DEF WorkerOK, LookForTables, CatInv, TypeOK, Places, Held, Found, LiveNames, Live, session, tables, history
<1> QED
  BY <1>1, <1>2, <1>3, <1>4, SessionsAreOf, StepIsOK

LEMMA CreateTablesOK == ASSUME CatInv, NEW w \in Workers, CreateTables(w) PROVE CatInv'
<1>0. PICK c \in Configs : config' = [config EXCEPT ![w] = c]
  BY DEF CreateTables, Load
<1>1. TypeOK'
  <2>1. Len(c) \in Nat
    BY CatalogueAssumption
  <2>2. \A v \in Workers : at'[v] <= Len(config'[v]) + 1
    <3>1. at[w] = 1
      BY DEF CreateTables, Load, CatInv, Places, WorkerOK
    <3>2. config'[w] = c /\ (\A v \in Workers \ {w} : config'[v] = config[v]) /\ at' = at
      BY <1>0 DEF CreateTables, Load, CatInv, TypeOK
    <3>3. \A v \in Workers : at[v] <= Len(config[v]) + 1
      BY DEF CatInv, TypeOK
    <3> QED
      BY <2>1, <3>1, <3>2, <3>3
  <2> QED
    BY <1>0, <2>2 DEF CatInv, TypeOK, CreateTables, Load, session, history
<1>2. Locks' /\ TablesGoOn(w)
  BY SessionsAreOf, LocksKept, TablesAlone DEF CatInv, CreateTables, Load, session, history
<1>3. OthersStay(w)
  BY <1>0 DEF OthersStay, CreateTables, Load, CatInv, TypeOK, session, history
<1>4. WorkerOK(w)'
  BY <1>0 DEF WorkerOK, CreateTables, Load, CatInv, TypeOK, Places, Held, Found, LiveNames, Live, session, history
<1> QED
  BY <1>1, <1>2, <1>3, <1>4, SessionsAreOf, StepIsOK

LEMMA StartUpFailsOK == ASSUME CatInv, NEW w \in Workers, StartUpFails(w) PROVE CatInv'
<1>1. TypeOK'
  BY DEF CatInv, TypeOK, StartUpFails, tables, session, history
<1>2. Locks' /\ TablesGoOn(w)
  BY SessionsAreOf, LocksKept, TablesAlone DEF CatInv, StartUpFails, session, tables, history
<1>3. OthersStay(w)
  BY DEF OthersStay, StartUpFails, CatInv, TypeOK, session, history
<1>4. WorkerOK(w)'
  BY DEF WorkerOK, StartUpFails, CatInv, TypeOK, Places, Held, Found, LiveNames, Live, session, tables, history
<1> QED
  BY <1>1, <1>2, <1>3, <1>4, SessionsAreOf, StepIsOK

(* A name is there already. *)
LEMMA SyncSkipsOK == ASSUME CatInv, NEW w \in Workers, SyncSkips(w) PROVE CatInv'
<1>0. at[w] \in 1..Len(config[w]) /\ Wanted(w) = config[w][at[w]] /\ Wanted(w) \in Names
  BY ConfigIsTyped DEF CatInv, SyncSkips, Syncing, Wanted
<1>1. TypeOK'
  <2>1. at' \in [Workers -> Nat \ {0}] /\ at'[w] = at[w] + 1 /\ \A v \in Workers \ {w} : at'[v] = at[v]
    BY DEF CatInv, TypeOK, SyncSkips
  <2>2. \A v \in Workers : at'[v] <= Len(config[v]) + 1
    <3>1. \A v \in Workers : at[v] <= Len(config[v]) + 1
      BY DEF CatInv, TypeOK
    <3>2. Len(config[w]) \in Nat /\ at[w] \in Nat
      BY ConfigIsTyped DEF CatInv
    <3> QED
      BY <1>0, <2>1, <3>1, <3>2
  <2> QED
    BY <2>1, <2>2 DEF CatInv, TypeOK, SyncSkips, tables, session, history
<1>2. Locks' /\ TablesGoOn(w)
  BY SessionsAreOf, LocksKept, TablesAlone DEF CatInv, SyncSkips, session, tables, history
<1>3. OthersStay(w)
  BY DEF OthersStay, SyncSkips, CatInv, TypeOK, session, history
<1>4. WorkerOK(w)'
  <2>1. config[w][at[w]] \in Found \cup {delta[w][i] : i \in Held(w)}
    <3> PICK i \in Ids : Row(w, i) = Wanted(w)
      BY ViewIsRow DEF SyncSkips
    <3> QED
      BY <1>0, CatalogueAssumption DEF Row, Found, LiveNames, Live
  <2>2. \A k \in 1..at[w] : config[w][k] \in Found \cup {delta[w][i] : i \in Held(w)}
    BY <1>0, <2>1 DEF CatInv, Places, WorkerOK, SyncSkips, Syncing
  <2>3. at'[w] = at[w] + 1 /\ at'[w] - 1 = at[w] /\ pc[w] = "idle" /\ phase[w] = "sync"
    BY <1>0 DEF SyncSkips, Syncing, CatInv, TypeOK
  <2>4. Found' = Found
    BY DEF SyncSkips, Found, LiveNames, Live, tables, history
  <2>5. WorkerOK(w) /\ UNCHANGED <<rows, phase, config, synced, pc, delta, origin>>
    BY DEF CatInv, Places, SyncSkips, tables, session, history
  <2> QED
    BY <2>2, <2>3, <2>4, <2>5 DEF WorkerOK, Held
<1> QED
  BY <1>1, <1>2, <1>3, <1>4, SessionsAreOf, StepIsOK

LEMMA SyncMissesOK == ASSUME CatInv, NEW w \in Workers, SyncMisses(w) PROVE CatInv'
<1>0. w \in Sessions /\ w \notin Runs
  BY SessionsAreOf
<1>1. TypeOK'
  BY <1>0 DEF CatInv, TypeOK, SyncMisses, Goto, tables, life, history
<1>2. \A t \in Sessions \ {w} : pc'[t] = pc[t]
  BY <1>0 DEF SyncMisses, Goto, CatInv, TypeOK
<1>3. Locks' /\ TablesGoOn(w)
  BY <1>0, <1>2, SessionsAreOf, LocksKept, TablesAlone DEF CatInv, SyncMisses, tables, history
<1>4. OthersStay(w)
  BY <1>2 DEF OthersStay, SyncMisses, life, history
<1>5. WorkerOK(w)'
  <2>1. pc'[w] = "insert" /\ phase[w] = "sync" /\ at[w] <= Len(config[w])
    BY <1>0 DEF SyncMisses, Syncing, Goto, CatInv, TypeOK
  <2>2. UNCHANGED <<rows, phase, config, at, synced, delta, origin, removed>> /\ WorkerOK(w)
    BY DEF SyncMisses, CatInv, Places, tables, life, history
  <2> QED
    BY <2>1, <2>2 DEF WorkerOK, Held, Found, LiveNames, Live
<1> QED
  BY <1>0, <1>1, <1>3, <1>4, <1>5, SessionsAreOf, StepIsOK

(* A row inserted under a fresh id. *)
LEMMA DrawIdOK ==
  ASSUME CatInv, NEW s \in Sessions, s \notin Runs, DrawId(s), Waiting(s) = {}, pc[s] = "insert",
         ~Seen(s, Wanted(s)), Wanted(s) \in Names, UNCHANGED <<rows, used, stored, target>>,
         \A r \in Runs : pc'[r] = pc[r]
  PROVE  /\ Locks'
         /\ delta' \in [Sessions -> UNION {[D -> Names \cup {None}] : D \in SUBSET Ids}]
         /\ \A t \in Sessions \ {s} : delta'[t] = delta[t]
         /\ \E i \in Ids \ Held(s) :
              /\ Held(s)' = Held(s) \cup {i} /\ delta'[s][i] = Wanted(s)
              /\ \A j \in Held(s) : delta'[s][j] = delta[s][j]
<1>1. PICK i \in Ids \ (used \cup UNION {DOMAIN delta[t] : t \in Sessions}) : Change(s, i, Wanted(s))
  BY DEF DrawId
<1>2. \A t \in Sessions : i \notin Held(t)
  BY <1>1 DEF Held
<1>3. \A r \in Runs : ~(pc[r] = "commit" /\ target[r] = i)
  BY <1>1 DEF CatInv, Locks, RunsLockTheirRow, IdsAreFinal
<1>4. RowHolders(s, i) = {}
  BY <1>2, <1>3 DEF RowHolders, Held
<1>5. NameHolders(s, Wanted(s)) = {}
  BY DEF Waiting
<1>6. Locks'
  BY <1>1, <1>3, <1>4, <1>5, LocksChange DEF CatInv
<1> DEFINE n == Wanted(s)
<1>7. n \in Names \cup {None} /\ Change(s, i, n) /\ i \in Ids
  BY <1>1
<1> HIDE DEF n
<1>8. /\ delta' \in [Sessions -> UNION {[D -> Names \cup {None}] : D \in SUBSET Ids}]
      /\ \A t \in Sessions \ {s} : delta'[t] = delta[t]
      /\ Held(s)' = Held(s) \cup {i} /\ delta'[s][i] = n
      /\ \A j \in Held(s) \ {i} : delta'[s][j] = delta[s][j]
  BY <1>7, ChangeIsOne DEF CatInv
<1> QED
  BY <1>1, <1>2, <1>6, <1>8 DEF n

LEMMA SyncInsertsOK == ASSUME CatInv, NEW w \in Workers, SyncInserts(w) PROVE CatInv'
<1>0. w \in Sessions /\ w \notin Runs
  BY SessionsAreOf
<1>1. /\ phase[w] = "sync" /\ at[w] \in 1..Len(config[w])
      /\ Wanted(w) = config[w][at[w]] /\ Wanted(w) \in Names /\ pc[w] = "insert"
  <2>1. pc[w] = "insert" /\ WorkerOK(w) /\ phase[w] \in {"down", "tables", "sync", "serving"}
    BY DEF CatInv, Places, TypeOK, SyncInserts
  <2>2. phase[w] = "sync" /\ at[w] <= Len(config[w])
    BY <2>1 DEF WorkerOK
  <2> QED
    BY <2>1, <2>2, ConfigIsTyped DEF CatInv, Wanted
<1>2. /\ pc' \in [Sessions -> {"idle", "insert", "row", "name", "answer", "child", "commit", "done"}]
      /\ pc'[w] = "idle" /\ \A t \in Sessions \ {w} : pc'[t] = pc[t]
  BY <1>0 DEF SyncInserts, Goto, CatInv, TypeOK
<1>3. UNCHANGED <<schema, rows, used, stored, phase, absent, config, synced, target, name, reply, faults, origin, removed, dropped>>
  BY DEF SyncInserts, tables, history
<1>4. /\ Locks'
      /\ delta' \in [Sessions -> UNION {[D -> Names \cup {None}] : D \in SUBSET Ids}]
      /\ \A t \in Sessions \ {w} : delta'[t] = delta[t]
      /\ \E i \in Ids \ Held(w) :
           /\ Held(w)' = Held(w) \cup {i} /\ delta'[w][i] = Wanted(w)
           /\ \A j \in Held(w) : delta'[w][j] = delta[w][j]
  <2>1. \A r \in Runs : pc'[r] = pc[r]
    BY <1>0, <1>2 DEF Sessions
  <2> QED
    BY <1>0, <1>1, <1>3, <2>1, DrawIdOK DEF SyncInserts
<1>5. TypeOK'
  <2>1. at' \in [Workers -> Nat \ {0}] /\ at'[w] = at[w] + 1 /\ \A v \in Workers \ {w} : at'[v] = at[v]
    BY DEF CatInv, TypeOK, SyncInserts
  <2>2. \A v \in Workers : at'[v] <= Len(config[v]) + 1
    <3>1. \A v \in Workers : at[v] <= Len(config[v]) + 1
      BY DEF CatInv, TypeOK
    <3>2. Len(config[w]) \in Nat /\ at[w] \in Nat
      BY ConfigIsTyped DEF CatInv
    <3> QED
      BY <1>1, <2>1, <3>1, <3>2
  <2> QED
    BY <1>2, <1>3, <1>4, <2>1, <2>2 DEF CatInv, TypeOK
<1>6. OthersStay(w)
  BY <1>2, <1>3, <1>4 DEF OthersStay, SyncInserts, CatInv, TypeOK, history
<1>7. TablesGoOn(w)
  BY <1>0, <1>3, TablesAlone
<1>8. WorkerOK(w)'
  <2> PICK i \in Ids \ Held(w) :
           /\ Held(w)' = Held(w) \cup {i} /\ delta'[w][i] = Wanted(w)
           /\ \A j \in Held(w) : delta'[w][j] = delta[w][j]
    BY <1>4
  <2>1. WorkerOK(w)
    BY DEF CatInv, Places
  <2>2. at'[w] - 1 = at[w] /\ at[w] \in Nat
    BY <1>1, ConfigIsTyped DEF CatInv, TypeOK, SyncInserts
  <2>3. \A k \in 1..at[w] : config[w][k] \in Found \cup {delta'[w][j] : j \in Held(w)'}
    <3>1. \A k \in 1..(at[w] - 1) : config[w][k] \in Found \cup {delta[w][j] : j \in Held(w)}
      BY <1>1, <2>1 DEF WorkerOK
    <3>2. config[w][at[w]] = delta'[w][i] /\ i \in Held(w)'
      BY <1>1
    <3>3. \A k \in 1..at[w] : k \in 1..(at[w] - 1) \/ k = at[w]
      BY <2>2
    <3>4. {delta[w][j] : j \in Held(w)} \subseteq {delta'[w][j] : j \in Held(w)'}
      OBVIOUS
    <3> QED
      BY <3>1, <3>2, <3>3, <3>4
  <2>4. \A j \in Held(w)' : delta'[w][j] \in Names
    BY <1>1, <2>1 DEF WorkerOK
  <2>5. Found' = Found
    BY <1>3 DEF Found, LiveNames, Live
  <2>6. phase'[w] = "sync" /\ pc'[w] = "idle" /\ synced'[w] = "none" /\ \A j \in Ids : origin'[j] # w
    BY <1>1, <1>2, <1>3, <2>1 DEF WorkerOK
  <2> QED
    BY <1>3, <2>2, <2>3, <2>4, <2>5, <2>6 DEF WorkerOK
<1> QED
  BY <1>0, <1>4, <1>5, <1>6, <1>7, <1>8, SessionsAreOf, StepIsOK

LEMMA RestartOK == ASSUME CatInv, NEW w \in Workers, Restart(w) PROVE CatInv'
<1>0. w \in Sessions /\ w \notin Runs
  BY SessionsAreOf
<1>1. /\ delta' \in [Sessions -> UNION {[D -> Names \cup {None}] : D \in SUBSET Ids}]
      /\ Held(w)' = {} /\ \A t \in Sessions \ {w} : delta'[t] = delta[t]
  BY <1>0, NoChangeIsEmpty DEF Restart, CatInv
<1>2. /\ pc'[w] = "idle" /\ \A t \in Sessions \ {w} : pc'[t] = pc[t]
      /\ phase'[w] = "down" /\ synced'[w] = "none" /\ at'[w] = 1 /\ config'[w] = <<>>
      /\ \A v \in Workers \ {w} :
           phase'[v] = phase[v] /\ synced'[v] = synced[v] /\ at'[v] = at[v] /\ config'[v] = config[v]
      /\ \A i \in Ids : origin'[i] \in {origin[i], None} /\ origin'[i] # w
  BY <1>0, CatalogueAssumption DEF Restart, CatInv, TypeOK
<1>3. TypeOK'
  <2>1. \A v \in Workers : at'[v] <= Len(config'[v]) + 1
    <3>1. Len(config'[w]) = 0
      BY <1>2
    <3>2. \A v \in Workers : at[v] <= Len(config[v]) + 1
      BY DEF CatInv, TypeOK
    <3> QED
      BY <1>2, <3>1, <3>2
  <2>2. origin' \in [Ids -> Sessions \cup {None}]
    BY DEF Restart, CatInv, TypeOK
  <2>3. faults' \in 0..Restarts
    BY CatalogueAssumption DEF Restart, CatInv, TypeOK
  <2>4. /\ phase' \in [Workers -> {"down", "tables", "sync", "serving"}]
        /\ at' \in [Workers -> Nat \ {0}] /\ config' \in [Workers -> Configs \cup {<<>>}]
        /\ synced' \in [Workers -> {"none", "no_config", "success", "failed"}]
        /\ pc' \in [Sessions -> {"idle", "insert", "row", "name", "answer", "child", "commit", "done"}]
    BY <1>0 DEF Restart, CatInv, TypeOK
  <2> QED
    BY <1>1, <2>1, <2>2, <2>3, <2>4 DEF Restart, CatInv, TypeOK, tables
<1>4. Locks'
  <2>1. \A r \in Runs : pc'[r] = pc[r] /\ target'[r] = target[r]
    BY <1>0, <1>2 DEF Restart, Sessions
  <2> QED
    BY <1>0, <2>1, LocksDrop DEF Restart, CatInv, tables
<1>5. OthersStay(w)
  BY <1>1, <1>2 DEF OthersStay, Restart, history
<1>6. TablesGoOn(w)
  BY <1>2 DEF Restart, TablesGoOn, Found, LiveNames, Live, Gone, tables
<1>7. WorkerOK(w)'
  BY <1>1, <1>2 DEF WorkerOK
<1> QED
  BY <1>0, <1>3, <1>4, <1>5, <1>6, <1>7, SessionsAreOf, StepIsOK

-----------------------------------------------------------------------------
(* Requests. *)

(* A request goes on to another statement. *)
LEMMA RequestGoesOn ==
  ASSUME CatInv, NEW q \in Requests, NEW to \in {"insert", "row", "name", "answer"}, Goto(q, to),
         UNCHANGED <<tables, life, reply, faults, history>>,
         target' \in [Sessions -> Ids \cup {None}], name' \in [Sessions -> Names \cup {None}],
         delta' \in [Sessions -> UNION {[D -> Names \cup {None}] : D \in SUBSET Ids}],
         \A t \in Sessions \ {q} : target'[t] = target[t] /\ name'[t] = name[t] /\ delta'[t] = delta[t],
         Locks', RequestOK(q)'
  PROVE  CatInv'
<1>0. q \in Sessions /\ q \notin Workers /\ q \notin Runs
  BY SessionsAreOf
<1>1. /\ pc' \in [Sessions -> {"idle", "insert", "row", "name", "answer", "child", "commit", "done"}]
      /\ pc'[q] = to /\ \A t \in Sessions \ {q} : pc'[t] = pc[t]
  BY <1>0 DEF Goto, CatInv, TypeOK
<1>2. TypeOK'
  BY <1>1 DEF CatInv, TypeOK, tables, life, history
<1>3. OthersStay(q)
  BY <1>1 DEF OthersStay, life, history
<1>4. TablesGoOn(q)
  BY <1>0, TablesAlone DEF tables, history
<1> QED
  BY <1>0, <1>2, <1>3, <1>4, StepIsOK

LEMMA PostOK == ASSUME CatInv, NEW q \in Requests, Post(q) PROVE CatInv'
<1>0. q \in Sessions /\ q \notin Runs
  BY SessionsAreOf
<1> PICK n \in Names :
       IF Seen(q, n)
       THEN Finish(q, "conflict")
       ELSE name' = [name EXCEPT ![q] = n] /\ Goto(q, "insert") /\ UNCHANGED <<target, delta, reply>>
  BY DEF Post
<1>1. CASE Seen(q, n)
  BY <1>1, EndsWithout DEF Post, Served, CatInv, TypeOK
<1>2. CASE ~Seen(q, n)
  <2>1. pc'[q] = "insert" /\ (\A t \in Sessions \ {q} : pc'[t] = pc[t])
        /\ name'[q] = n /\ (\A t \in Sessions \ {q} : name'[t] = name[t])
        /\ name' \in [Sessions -> Names \cup {None}]
    BY <1>0, <1>2 DEF Goto, CatInv, TypeOK
  <2>2. Locks'
    <3>1. \A r \in Runs : pc'[r] = pc[r]
      BY <1>0, <2>1 DEF Sessions
    <3> QED
      BY <1>2, <3>1, LocksKept DEF Post, CatInv, tables
  <2>3. RequestOK(q)'
    BY <1>2, <2>1 DEF RequestOK, CatInv, Places, Post, Served, Held, tables, history
  <2> QED
    BY <1>2, <2>1, <2>2, <2>3, RequestGoesOn DEF Post, CatInv, TypeOK
<1> QED
  BY <1>1, <1>2

LEMMA PutOrDeleteOK == ASSUME CatInv, NEW q \in Requests, PutOrDelete(q) PROVE CatInv'
<1>0. q \in Sessions /\ q \notin Runs
  BY SessionsAreOf
<1> PICK i \in Ids, n \in Names \cup {None} :
       IF rows[i] = None
       THEN Finish(q, "not found")
       ELSE /\ rows[i] # n
            /\ target' = [target EXCEPT ![q] = i]
            /\ name' = [name EXCEPT ![q] = n]
            /\ Goto(q, "row")
            /\ UNCHANGED <<delta, reply>>
  BY DEF PutOrDelete
<1>1. CASE rows[i] = None
  BY <1>1, EndsWithout DEF PutOrDelete, Served, CatInv, TypeOK
<1>2. CASE rows[i] # None
  <2>1. /\ pc'[q] = "row" /\ \A t \in Sessions \ {q} : pc'[t] = pc[t]
        /\ target'[q] = i /\ target' \in [Sessions -> Ids \cup {None}]
        /\ name' \in [Sessions -> Names \cup {None}]
        /\ \A t \in Sessions \ {q} : name'[t] = name[t] /\ target'[t] = target[t]
    <3>1. target' = [target EXCEPT ![q] = i] /\ name' = [name EXCEPT ![q] = n] /\ pc' = [pc EXCEPT ![q] = "row"]
      BY <1>2 DEF Goto
    <3>2. /\ target \in [Sessions -> Ids \cup {None}] /\ name \in [Sessions -> Names \cup {None}]
          /\ DOMAIN pc = Sessions
      BY DEF CatInv, TypeOK
    <3>3. target'[q] = i /\ \A t \in Sessions \ {q} : target'[t] = target[t]
      BY <1>0, <3>1, <3>2
    <3>4. target' \in [Sessions -> Ids \cup {None}] /\ name' \in [Sessions -> Names \cup {None}]
      BY <1>0, <3>1, <3>2
    <3>5. \A t \in Sessions \ {q} : name'[t] = name[t]
      BY <1>0, <3>1, <3>2
    <3>6. pc'[q] = "row" /\ \A t \in Sessions \ {q} : pc'[t] = pc[t]
      BY <1>0, <3>1, <3>2
    <3> QED
      BY <3>3, <3>4, <3>5, <3>6
  <2>2. i \in used
    BY <1>2 DEF CatInv, Locks, IdsAreFinal, Live
  <2>3. Locks'
    <3>1. \A r \in Runs : pc'[r] = pc[r] /\ target'[r] = target[r]
      BY <1>0, <2>1 DEF Sessions
    <3>2. UNCHANGED <<rows, used, stored, delta>>
      BY <1>2 DEF PutOrDelete, tables
    <3> QED
      BY <3>1, <3>2, LocksKept DEF CatInv
  <2>4. RequestOK(q)'
    BY <1>2, <2>1, <2>2 DEF RequestOK, CatInv, Places, PutOrDelete, Served, Held, tables, history
  <2> QED
    BY <1>2, <2>1, <2>3, <2>4, RequestGoesOn DEF PutOrDelete, CatInv, TypeOK
<1> QED
  BY <1>1, <1>2

LEMMA InsertOK ==
  ASSUME CatInv, NEW q \in Requests, Insert(q) PROVE CatInv'
<1>0. q \in Sessions /\ q \notin Runs /\ q \notin Workers
  BY SessionsAreOf
<1>1. RequestOK(q) /\ pc[q] = "insert" /\ Wanted(q) = name[q] /\ name[q] \in Names /\ target[q] = None /\ Held(q) = {}
  BY <1>0 DEF CatInv, Places, Insert, RequestOK, Wanted
<1>2. pc'[q] = "answer" /\ \A t \in Sessions \ {q} : pc'[t] = pc[t]
  BY <1>0 DEF Insert, Goto, CatInv, TypeOK
<1>3. /\ Locks'
      /\ delta' \in [Sessions -> UNION {[D -> Names \cup {None}] : D \in SUBSET Ids}]
      /\ \A t \in Sessions \ {q} : delta'[t] = delta[t]
      /\ \E i \in Ids \ Held(q) :
           /\ Held(q)' = Held(q) \cup {i} /\ delta'[q][i] = Wanted(q)
           /\ \A j \in Held(q) : delta'[q][j] = delta[q][j]
  <2>1. \A r \in Runs : pc'[r] = pc[r]
    BY <1>0, <1>2 DEF Sessions
  <2> QED
    BY <1>0, <1>1, <2>1, DrawIdOK DEF Insert, tables
<1>4. RequestOK(q)'
  <2>1. \E i \in Ids : Held(q)' = {i} /\ delta'[q][i] = name[q]
    BY <1>1, <1>3
  <2>2. UNCHANGED <<target, name, reply>> /\ reply[q] = "none"
    BY <1>1 DEF Insert, RequestOK
  <2>3. dropped' = dropped /\ origin' = origin /\ rows' = rows /\ used' = used
    BY DEF Insert, tables, history
  <2> QED
    BY <1>1, <1>2, <2>1, <2>2, <2>3 DEF RequestOK
<1>5. target \in [Sessions -> Ids \cup {None}] /\ name \in [Sessions -> Names \cup {None}]
  BY DEF CatInv, TypeOK
<1> QED
  BY <1>3, <1>4, <1>5, RequestGoesOn DEF Insert

(* A request changes the row that it is about, which nobody else has. *)
LEMMA ChangeTarget ==
  ASSUME CatInv, NEW q \in Requests, target[q] \in Ids, NEW n \in Names \cup {None}, Change(q, target[q], n),
         NEW to \in {"name", "answer"}, Goto(q, to),
         UNCHANGED <<tables, life, target, name, reply, faults, history>>,
         RowHolders(q, target[q]) = {},
         n \in Names => \/ n = rows[target[q]] /\ target[q] \notin Held(q)
                        \/ NameHolders(q, n) = {} /\ ~Seen(q, n),
         target[q] \in used => rows[target[q]] # None,
         \A j \in Held(q) : j = target[q],
         /\ Held(q)' = {target[q]} /\ delta'[q][target[q]] = n /\ pc'[q] = to => RequestOK(q)'
  PROVE  CatInv'
<1>0. q \in Sessions /\ q \notin Runs /\ q \notin Workers
  BY SessionsAreOf
<1>1. pc'[q] = to /\ \A t \in Sessions \ {q} : pc'[t] = pc[t]
  BY <1>0 DEF Goto, CatInv, TypeOK
<1> DEFINE i == target[q]
<1>2. i \in Ids /\ Change(q, i, n) /\ RowHolders(q, i) = {} /\ (i \in used => rows[i] # None)
      /\ (n \in Names => (n = rows[i] /\ i \notin Held(q)) \/ (NameHolders(q, n) = {} /\ ~Seen(q, n)))
  OBVIOUS
<1> HIDE DEF i
<1>3. /\ delta' \in [Sessions -> UNION {[D -> Names \cup {None}] : D \in SUBSET Ids}]
      /\ Held(q)' = Held(q) \cup {i} /\ delta'[q][i] = n
      /\ \A t \in Sessions \ {q} : delta'[t] = delta[t]
  BY <1>0, <1>2, ChangeIsOne DEF CatInv
<1>4. Locks'
  <2>1. \A r \in Runs \ {q} : ~(pc[r] = "commit" /\ target[r] = i)
    BY <1>2, SessionsAreOf DEF RowHolders
  <2>2. \A r \in Runs : pc'[r] = pc[r]
    BY <1>0, <1>1 DEF Sessions
  <2> QED
    BY <1>0, <1>2, <2>1, <2>2, LocksChange DEF CatInv, tables
<1>5. RequestOK(q)'
  BY <1>1, <1>3 DEF i
<1>6. target' \in [Sessions -> Ids \cup {None}] /\ name' \in [Sessions -> Names \cup {None}]
  BY DEF CatInv, TypeOK
<1>7. \A t \in Sessions \ {q} : target'[t] = target[t] /\ name'[t] = name[t] /\ delta'[t] = delta[t]
  BY <1>3
<1> QED
  BY <1>3, <1>4, <1>5, <1>6, <1>7, RequestGoesOn

LEMMA WriteRowOK == ASSUME CatInv, NEW q \in Requests, WriteRow(q) PROVE CatInv'
<1>1. /\ RequestOK(q) /\ pc[q] = "row" /\ Held(q) = {} /\ target[q] \in used /\ target[q] \in Ids
      /\ rows[target[q]] \in Names /\ name[q] \in Names \cup {None}
  BY SessionsAreOf DEF CatInv, Places, WriteRow, RequestOK, TypeOK
<1>2. RowHolders(q, target[q]) = {}
  BY <1>1 DEF WriteRow, Waiting
<1>3. UNCHANGED <<rows, used, target, name, reply, origin, removed, dropped>>
  BY DEF WriteRow, tables, history
<1>4. reply[q] = "none"
  BY <1>1 DEF RequestOK
<1>5. CASE name[q] = None
  <2>1. Change(q, target[q], None) /\ Goto(q, "answer") /\ None \notin Names
    BY <1>5, CatalogueAssumption DEF WriteRow
  <2>2. Held(q)' = {target[q]} /\ delta'[q][target[q]] = None /\ pc'[q] = "answer" => RequestOK(q)'
    BY <1>1, <1>3, <1>4, <1>5 DEF RequestOK
  <2> QED
    BY <1>1, <1>2, <2>1, <2>2, ChangeTarget DEF WriteRow
<1>6. CASE name[q] # None
  <2>1. Change(q, target[q], rows[target[q]]) /\ Goto(q, "name") /\ name[q] \in Names
    BY <1>1, <1>6 DEF WriteRow
  <2>2. Held(q)' = {target[q]} /\ delta'[q][target[q]] = rows[target[q]] /\ pc'[q] = "name" => RequestOK(q)'
    BY <1>1, <1>3, <1>4, <2>1 DEF RequestOK
  <2> QED
    BY <1>1, <1>2, <2>1, <2>2, ChangeTarget DEF WriteRow
<1> QED
  BY <1>5, <1>6

LEMMA NameIsFreeOK == ASSUME CatInv, NEW q \in Requests, NameIsFree(q) PROVE CatInv'
<1>0. q \in Sessions /\ q \notin Workers
  BY SessionsAreOf
<1>1. /\ RequestOK(q) /\ pc[q] = "name" /\ Held(q) = {target[q]} /\ target[q] \in used /\ target[q] \in Ids
      /\ name[q] \in Names /\ reply[q] = "none" /\ Wanted(q) = name[q]
  BY <1>0 DEF CatInv, Places, NameIsFree, RequestOK, TypeOK, Wanted
<1>2. RowHolders(q, target[q]) = {}
  <2>1. \A t \in Sessions \ {q} : target[q] \notin Held(t)
    BY <1>0, <1>1 DEF CatInv, Locks, RowsAreOwned
  <2>2. \A r \in Runs : ~(pc[r] = "commit" /\ target[r] = target[q])
    BY <1>0, <1>1 DEF CatInv, Locks, RunsLockTheirRow
  <2> QED
    BY <2>1, <2>2 DEF RowHolders, Held
<1>3. NameHolders(q, name[q]) = {} /\ ~Seen(q, name[q])
  BY <1>1 DEF NameIsFree, Waiting
<1>4. rows[target[q]] # None
  BY <1>0, <1>1 DEF CatInv, Locks, IdsAreFinal
<1>5. Change(q, target[q], name[q]) /\ Goto(q, "answer")
  BY DEF NameIsFree
<1>6. Held(q)' = {target[q]} /\ delta'[q][target[q]] = name[q] /\ pc'[q] = "answer" => RequestOK(q)'
  <2>1. UNCHANGED <<rows, used, target, name, reply, origin, removed, dropped>>
    BY DEF NameIsFree, tables, history
  <2> QED
    BY <1>1, <2>1 DEF RequestOK
<1> QED
  BY <1>1, <1>2, <1>3, <1>4, <1>5, <1>6, ChangeTarget DEF NameIsFree

LEMMA RowIsGoneOK == ASSUME CatInv, NEW q \in Requests, RowIsGone(q) PROVE CatInv'
<1>1. target[q] \in used
  BY DEF CatInv, Places, RowIsGone, RequestOK
<1> DEFINE r == IF name[q] = None THEN "deleted" ELSE "error"
<1>2. Gone(target[q]) /\ r \in {"conflict", "not found", "error", "deleted"} /\ Finish(q, r)
  BY <1>1 DEF RowIsGone, Gone
<1>3. UNCHANGED <<tables, life, history>> /\ faults' \in 0..Restarts /\ pc[q] # "done"
  BY DEF RowIsGone, CatInv, TypeOK
<1> HIDE DEF r
<1> QED
  BY <1>2, <1>3, EndsWithout

LEMMA NameIsTakenOK == ASSUME CatInv, NEW q \in Requests, NameIsTaken(q) PROVE CatInv'
BY EndsWithout DEF NameIsTaken, CatInv, TypeOK

(* The handler returns: the session has still to commit. *)
LEMMA AnswerOK == ASSUME CatInv, NEW q \in Requests, Answer(q) PROVE CatInv'
<1>0. q \in Sessions /\ q \notin Runs /\ q \notin Workers
  BY SessionsAreOf
<1>1. /\ pc' \in [Sessions -> {"idle", "insert", "row", "name", "answer", "child", "commit", "done"}]
      /\ pc'[q] = "commit" /\ \A t \in Sessions \ {q} : pc'[t] = pc[t]
  BY <1>0 DEF Answer, Goto, CatInv, TypeOK
<1>2. /\ reply' \in [Sessions -> Replies] /\ \A t \in Sessions \ {q} : reply'[t] = reply[t]
      /\ reply'[q] # "none" => AnswersFirst
  <2>1. reply \in [Sessions -> Replies] /\ RequestOK(q) /\ Outcome(q) \in Replies
    BY DEF CatInv, TypeOK, Places, Outcome, Replies
  <2>2. reply[q] = "none"
    BY <2>1 DEF RequestOK, Answer
  <2>3. (reply' = [reply EXCEPT ![q] = Outcome(q)] /\ AnswersFirst) \/ reply' = reply
    BY CatalogueAssumption DEF Answer
  <2> QED
    BY <1>0, <2>1, <2>2, <2>3
<1>3. UNCHANGED <<schema, rows, used, stored, life, target, name, delta, faults, origin, removed, dropped>>
  BY DEF Answer, tables, history
<1>4. TypeOK'
  BY <1>1, <1>2, <1>3 DEF CatInv, TypeOK, life
<1>5. Locks'
  <2>1. \A r \in Runs : pc'[r] = pc[r]
    BY <1>0, <1>1 DEF Sessions
  <2> QED
    BY <1>3, <2>1, LocksKept DEF CatInv
<1>6. OthersStay(q)
  BY <1>1, <1>2, <1>3 DEF OthersStay, life
<1>7. TablesGoOn(q)
  BY <1>0, <1>3, TablesAlone
<1>8. RequestOK(q)'
  <2>1. RequestOK(q) /\ pc[q] = "answer" /\ (target[q] = None \/ name[q] = None)
    BY DEF CatInv, Places, Answer, Renames
  <2> QED
    BY <1>1, <1>2, <1>3, <2>1 DEF RequestOK, Held
<1> QED
  BY <1>0, <1>4, <1>5, <1>6, <1>7, <1>8, StepIsOK

LEMMA AnswerFailsOK == ASSUME CatInv, NEW q \in Requests, AnswerFails(q) PROVE CatInv'
BY EndsWithout DEF AnswerFails, CatInv, TypeOK

(* The answer has been sent, and the session does not commit. *)
LEMMA DropOK ==
  ASSUME CatInv, NEW q \in Requests, reply[q] # "none", pc[q] # "done", Drop(q), faults' \in 0..Restarts
  PROVE  CatInv'
<1>0. q \in Sessions /\ q \notin Runs /\ q \notin Workers
  BY SessionsAreOf
<1>1. /\ pc' \in [Sessions -> {"idle", "insert", "row", "name", "answer", "child", "commit", "done"}]
      /\ pc'[q] = "done" /\ \A t \in Sessions \ {q} : pc'[t] = pc[t]
  BY <1>0 DEF Drop, Goto, CatInv, TypeOK
<1>2. /\ delta' \in [Sessions -> UNION {[D -> Names \cup {None}] : D \in SUBSET Ids}]
      /\ Held(q)' = {} /\ \A t \in Sessions \ {q} : delta'[t] = delta[t]
  BY <1>0, NoChangeIsEmpty DEF Drop, CatInv
<1>3. UNCHANGED <<schema, rows, used, stored, life, target, name, reply, origin, removed>>
      /\ dropped' = dropped \cup {q}
  BY DEF Drop, tables
<1>4. TypeOK'
  BY <1>1, <1>2, <1>3 DEF CatInv, TypeOK, life
<1>5. Locks'
  <2>1. \A r \in Runs : pc'[r] = pc[r] /\ target'[r] = target[r]
    BY <1>0, <1>1, <1>3 DEF Sessions
  <2> QED
    BY <1>0, <1>3, <2>1, LocksDrop DEF Drop, CatInv
<1>6. OthersStay(q)
  BY <1>1, <1>2, <1>3 DEF OthersStay, life
<1>7. TablesGoOn(q)
  BY <1>0, <1>3, TablesAlone
<1>8. RequestOK(q)'
  <2>1. AnswersFirst /\ \A i \in Ids : origin[i] # q
    BY DEF CatInv, Places, RequestOK
  <2> QED
    BY <1>1, <1>2, <1>3, <2>1 DEF RequestOK
<1> QED
  BY <1>0, <1>4, <1>5, <1>6, <1>7, <1>8, StepIsOK

LEMMA CommitOK == ASSUME CatInv, NEW q \in Requests, Commit(q) PROVE CatInv'
<1>0. q \in Sessions /\ q \notin Runs /\ q \notin Workers
  BY SessionsAreOf
<1> DEFINE r == Outcome(q)
<1>1. Finish(q, r) /\ Apply(q) /\ r \in {"created", "deleted"} /\ r \in Replies
  BY DEF Commit, Outcome, Replies
<1>2. /\ pc' \in [Sessions -> {"idle", "insert", "row", "name", "answer", "child", "commit", "done"}]
      /\ target' \in [Sessions -> Ids \cup {None}] /\ name' \in [Sessions -> Names \cup {None}]
      /\ delta' \in [Sessions -> UNION {[D -> Names \cup {None}] : D \in SUBSET Ids}]
      /\ reply' \in [Sessions -> Replies]
      /\ pc'[q] = "done" /\ reply'[q] = r /\ Held(q)' = {}
      /\ target'[q] = target[q] /\ name'[q] = name[q]
      /\ \A t \in Sessions \ {q} :
              /\ pc'[t] = pc[t] /\ target'[t] = target[t] /\ name'[t] = name[t]
              /\ delta'[t] = delta[t] /\ reply'[t] = reply[t]
  <2> HIDE DEF r
  <2> QED
    BY <1>0, <1>1, FinishType DEF CatInv
<1>3. TypeOK'
  BY <1>0, <1>1, <1>2, ApplyType DEF CatInv, TypeOK, Commit, life
<1>4. Locks'
  <2>1. \A v \in Runs : pc'[v] = pc[v] /\ target'[v] = target[v]
    BY <1>0, <1>2 DEF Sessions
  <2>2. delta' = [delta EXCEPT ![q] = NoChange]
    BY <1>1 DEF Finish
  <2> QED
    BY <1>0, <1>1, <2>1, <2>2, LocksApply DEF CatInv
<1>5. OthersStay(q)
  BY <1>1, <1>2 DEF OthersStay, Commit, Apply, life
<1>6. TablesGoOn(q)
  BY <1>0, <1>1, TablesApply
<1>7. RequestOK(q)'
  <2>1. \/ target[q] \in used /\ Held(q) = {target[q]} /\ delta[q][target[q]] = name[q]
        \/ target[q] = None /\ name[q] \in Names /\ \E i \in Ids : Held(q) = {i} /\ delta[q][i] = name[q]
    BY DEF CatInv, Places, RequestOK, Commit
  <2> PICK i \in Ids : Held(q) = {i} /\ delta[q][i] = name[q] /\ target[q] \in {i, None}
    BY <2>1 DEF CatInv, TypeOK
  <2>2. rows'[i] = name[q]
    BY <1>1, ViewIsRow DEF Apply, Row
  <2>3. i \in used'
    BY <1>1 DEF Apply, Held
  <2>4. r = "created" => name'[q] \in Found'
    <3>1. r = "created" => name[q] # None
      BY DEF Outcome
    <3> QED
      BY <1>2, <2>2, <3>1 DEF Found, LiveNames, Live
  <2>5. r = "deleted" => Gone(target[q])'
    <3>1. r = "deleted" => name[q] = None
      BY DEF Outcome
    <3>2. target[q] = None => name[q] # None
      BY <2>1, CatalogueAssumption DEF CatInv, TypeOK
    <3>3. r = "deleted" => target[q] = i /\ name[q] = None
      BY <3>1, <3>2
    <3> QED
      BY <1>2, <2>2, <2>3, <3>3 DEF Gone
  <2>6. q \notin dropped'
    BY <1>1 DEF Apply, CatInv, Places, RequestOK, Commit
  <2>7. \A k \in Ids : origin'[k] = q => r = "created"
    <3> SUFFICES ASSUME NEW k \in Ids, origin'[k] = q PROVE r = "created"
      OBVIOUS
    <3>1. origin[k] # q
      BY DEF CatInv, Places, RequestOK, Commit
    <3>2. k \in Held(q) \ used
      BY <1>1, <3>1 DEF Apply, Held
    <3>3. target[q] = None /\ name[q] \in Names
      BY <2>1, <3>2
    <3> QED
      BY <3>3, CatalogueAssumption DEF Outcome
  <2> HIDE DEF r
  <2> QED
    BY <1>1, <1>2, <2>4, <2>5, <2>6, <2>7 DEF RequestOK
<1> QED
  BY <1>0, <1>3, <1>4, <1>5, <1>6, <1>7, StepIsOK

-----------------------------------------------------------------------------
(* Runs, failures, and the theorems. *)

LEMMA ReadCompetitorOK == ASSUME CatInv, NEW r \in Runs, ReadCompetitor(r) PROVE CatInv'
<1>0. r \in Sessions /\ r \notin Requests /\ r \notin Workers
  BY SessionsAreOf
<1> PICK i \in Ids :
       IF rows[i] = None
       THEN Finish(r, "not found")
       ELSE target' = [target EXCEPT ![r] = i] /\ Goto(r, "child") /\ UNCHANGED <<name, delta, reply>>
  BY DEF ReadCompetitor
<1>1. CASE rows[i] = None
  BY <1>1, EndsWithout DEF ReadCompetitor, Served, CatInv, TypeOK
<1>2. CASE rows[i] # None
  <2>1. /\ pc'[r] = "child" /\ target'[r] = i
        /\ \A t \in Sessions \ {r} : pc'[t] = pc[t] /\ target'[t] = target[t]
    BY <1>0, <1>2 DEF Goto, CatInv, TypeOK
  <2>2. TypeOK'
    <3>1. /\ target' = [target EXCEPT ![r] = i] /\ pc' = [pc EXCEPT ![r] = "child"]
          /\ UNCHANGED <<tables, life, faults, history, name, delta, reply>>
      BY <1>2 DEF ReadCompetitor, Goto
    <3>2. target' \in [Sessions -> Ids \cup {None}]
      BY <1>0, <3>1 DEF CatInv, TypeOK
    <3>3. pc' \in [Sessions -> {"idle", "insert", "row", "name", "answer", "child", "commit", "done"}]
      BY <1>0, <3>1 DEF CatInv, TypeOK
    <3> QED
      BY <3>1, <3>2, <3>3 DEF CatInv, TypeOK, tables, life, history
  <2>3. Locks'
    <3>1. \A v \in Runs : pc'[v] = "commit" => pc[v] = "commit" /\ target'[v] = target[v]
      BY <2>1 DEF Sessions
    <3> QED
      BY <1>2, <3>1, LocksKept DEF CatInv, ReadCompetitor, tables
  <2>4. OthersStay(r) /\ TablesGoOn(r)
    BY <1>0, <1>2, <2>1, TablesAlone DEF OthersStay, ReadCompetitor, tables, life, history
  <2>5. RunOK(r)'
    BY <1>2, <2>1 DEF CatInv, Places, RunOK, Held, ReadCompetitor, Served
  <2> QED
    BY <1>0, <2>2, <2>3, <2>4, <2>5, StepIsOK
<1> QED
  BY <1>1, <1>2

LEMMA StoreChildOK == ASSUME CatInv, NEW r \in Runs, StoreChild(r) PROVE CatInv'
<1>0. r \in Sessions /\ r \notin Requests /\ r \notin Workers
  BY SessionsAreOf
<1>1. pc'[r] = "commit" /\ \A t \in Sessions \ {r} : pc'[t] = pc[t]
  BY <1>0 DEF StoreChild, Goto, CatInv, TypeOK
<1>2. UNCHANGED <<tables, life, target, name, delta, reply, faults, history>>
  BY DEF StoreChild
<1>3. target[r] \in Live /\ \A s \in Sessions : target[r] \notin Held(s)
  <2>1. target[r] \in Ids /\ rows[target[r]] # None /\ \A v \in Runs : Held(v) = {}
    BY DEF StoreChild, CatInv, Places, RunOK
  <2>2. \A t \in RowHolders(r, target[r]) : t \in Runs
    BY DEF StoreChild, Waiting
  <2> QED
    BY <1>0, <2>1, <2>2 DEF RowHolders, Held, Live
<1>4. TypeOK'
  BY <1>0, <1>2 DEF CatInv, TypeOK, StoreChild, Goto, tables, life, history
<1>5. Locks'
  <2>1. RunsLockTheirRow'
    <3> SUFFICES ASSUME NEW v \in Runs, pc'[v] = "commit"
                 PROVE  target[v] \in Live /\ \A t \in Sessions : target[v] \notin Held(t)
      BY <1>2 DEF RunsLockTheirRow, Held, Live, tables
    <3>1. CASE v = r
      BY <1>3, <3>1
    <3>2. CASE v # r
      BY <1>1, <3>2 DEF CatInv, Locks, RunsLockTheirRow, Sessions
    <3> QED
      BY <3>1, <3>2
  <2> QED
    BY <1>2, <2>1 DEF CatInv, Locks, RowsAreOwned, NamesAreOwned, ViewsAreUnique, NamesAreUnique,
       IdsAreFinal, NoOrphans, Live, Row, Held, tables
<1>6. OthersStay(r) /\ TablesGoOn(r)
  BY <1>0, <1>1, <1>2, TablesAlone DEF OthersStay, tables, life, history
<1>7. RunOK(r)'
  BY <1>1, <1>2 DEF CatInv, Places, RunOK, Held, StoreChild
<1> QED
  BY <1>0, <1>4, <1>5, <1>6, <1>7, StepIsOK

LEMMA RunCommitsOK == ASSUME CatInv, NEW r \in Runs, RunCommits(r) PROVE CatInv'
<1>0. r \in Sessions /\ r \notin Requests /\ r \notin Workers
  BY SessionsAreOf
<1>1. /\ pc' \in [Sessions -> {"idle", "insert", "row", "name", "answer", "child", "commit", "done"}]
      /\ target' \in [Sessions -> Ids \cup {None}] /\ name' \in [Sessions -> Names \cup {None}]
      /\ delta' \in [Sessions -> UNION {[D -> Names \cup {None}] : D \in SUBSET Ids}]
      /\ reply' \in [Sessions -> Replies]
      /\ pc'[r] = "done" /\ Held(r)' = {}
      /\ \A t \in Sessions \ {r} :
              /\ pc'[t] = pc[t] /\ target'[t] = target[t] /\ name'[t] = name[t]
              /\ delta'[t] = delta[t] /\ reply'[t] = reply[t]
  BY <1>0, FinishType DEF CatInv, RunCommits, Replies
<1>2. target[r] \in Live /\ RunOK(r)
  BY DEF CatInv, Locks, RunsLockTheirRow, Places, RunCommits
<1>3. UNCHANGED <<schema, rows, used, life, faults, history>> /\ stored' = stored \cup {target[r]}
  BY DEF RunCommits
<1>4. TypeOK'
  BY <1>1, <1>2, <1>3 DEF CatInv, TypeOK, Live, life, history
<1>5. Locks'
  <2>1. RowsAreOwned' /\ NamesAreOwned'
    BY <1>1, <1>3 DEF CatInv, Locks, RowsAreOwned, NamesAreOwned, Held
  <2>2. ViewsAreUnique'
    <3>1. \A t \in Sessions : \A i \in Ids : Row(t, i)' = Row(t, i)
      BY <1>1, <1>2, <1>3 DEF Row, Held, RunOK
    <3> QED
      BY <3>1 DEF CatInv, Locks, ViewsAreUnique
  <2>3. NamesAreUnique' /\ IdsAreFinal' /\ NoOrphans'
    BY <1>1, <1>2, <1>3 DEF CatInv, Locks, NamesAreUnique, IdsAreFinal, NoOrphans, Live, Held
  <2>4. RunsLockTheirRow'
    <3> SUFFICES ASSUME NEW v \in Runs, pc'[v] = "commit"
                 PROVE  target'[v] \in Live /\ \A t \in Sessions : target'[v] \notin Held(t)'
      BY <1>3 DEF RunsLockTheirRow, Held, Live
    <3>1. v \in Sessions \ {r} /\ target'[v] = target[v] /\ pc[v] = "commit"
      BY <1>1 DEF Sessions
    <3>2. target[v] \in Live /\ \A t \in Sessions : target[v] \notin Held(t)
      BY <3>1 DEF CatInv, Locks, RunsLockTheirRow
    <3> QED
      BY <1>1, <3>1, <3>2 DEF Held
  <2> QED
    BY <2>1, <2>2, <2>3, <2>4 DEF Locks
<1>6. OthersStay(r) /\ TablesGoOn(r)
  BY <1>0, <1>1, <1>3, TablesAlone DEF OthersStay, life, history
<1>7. RunOK(r)'
  BY <1>1 DEF RunOK
<1> QED
  BY <1>0, <1>4, <1>5, <1>6, <1>7, StepIsOK

LEMMA AbortOK ==
  ASSUME CatInv, NEW s \in Sessions, pc[s] \notin {"idle", "done"}, Abort(s), faults' \in 0..Restarts
  PROVE  CatInv'
<1>1. CASE s \in Workers
  <2>1. phase[s] = "sync"
    BY <1>1 DEF CatInv, Places, WorkerOK, TypeOK
  <2> QED
    BY <1>1, <2>1, SyncEndsOK DEF Abort
<1>2. CASE s \notin Workers /\ reply[s] # "none" /\ s \in Requests
  BY <1>2, DropOK DEF Abort
<1>3. CASE s \in Requests \cup Runs /\ s \notin Workers /\ (reply[s] = "none" \/ s \in Runs)
  <2>1. reply[s] = "none"
    BY <1>3 DEF CatInv, Places, RunOK
  <2>2. Finish(s, "error") /\ UNCHANGED <<tables, life, history>>
    BY <1>3, <2>1 DEF Abort
  <2> QED
    BY <1>3, <2>2, EndsWithout
<1> QED
  BY <1>1, <1>2, <1>3 DEF Sessions

LEMMA CatStep == CatInv /\ [Next]_vars => CatInv'
<1> SUFFICES ASSUME CatInv, [Next]_vars PROVE CatInv'
  OBVIOUS
<1>1. CASE Migrate
  BY <1>1, CatStutter DEF Migrate
<1>2. ASSUME NEW w \in Workers, StartUp(w) PROVE CatInv'
  <2>1. faults \in 0..Restarts
    BY DEF CatInv, TypeOK
  <2>2. CASE SyncCommits(w)
    <3> DEFINE result == IF config[w] = <<>> THEN "no_config" ELSE "success"
    <3>1. phase[w] = "sync" /\ SyncEnds(w, result) /\ faults' = faults
      BY <2>2 DEF SyncCommits
    <3>2. \/ result = "no_config" /\ config[w] = <<>>
          \/ result = "success" /\ at[w] > Len(config[w])
      BY <2>2 DEF SyncCommits
    <3> HIDE DEF result
    <3> QED
      BY <2>1, <3>1, <3>2, SyncEndsOK
  <2>3. CASE SyncCollides(w)
    <3>1. phase[w] = "sync"
      BY <2>3 DEF SyncCollides, CatInv, Places, WorkerOK, TypeOK
    <3> QED
      BY <2>1, <2>3, <3>1, SyncEndsOK DEF SyncCollides
  <2> QED
    BY <1>2, <2>2, <2>3, LookForTablesOK, CreateTablesOK, StartUpFailsOK, SyncSkipsOK, SyncMissesOK,
       SyncInsertsOK DEF StartUp
<1>3. ASSUME NEW w \in Workers, Restart(w) PROVE CatInv'
  BY <1>3, RestartOK
<1>4. ASSUME NEW q \in Requests, Post(q) \/ PutOrDelete(q) PROVE CatInv'
  BY <1>4, PostOK, PutOrDeleteOK
<1>5. ASSUME NEW r \in Runs, ReadCompetitor(r) PROVE CatInv'
  BY <1>5, ReadCompetitorOK
<1>6. ASSUME NEW q \in Requests, Handle(q) PROVE CatInv'
  <2>1. pc[q] # "child" /\ q \notin Runs
    BY SessionsAreOf DEF CatInv, Places, RequestOK
  <2>2. ~StoreChild(q) /\ ~NoCompetitor(q) /\ ~RunCommits(q)
    BY <2>1 DEF StoreChild, NoCompetitor, RunCommits
  <2> QED
    BY <1>6, <2>2, InsertOK, WriteRowOK, RowIsGoneOK, NameIsFreeOK, NameIsTakenOK, AnswerOK, AnswerFailsOK,
       CommitOK DEF Handle
<1>7. ASSUME NEW r \in Runs, Handle(r) PROVE CatInv'
  <2>1. pc[r] \notin {"insert", "row", "name"} /\ r \notin Requests
    BY SessionsAreOf DEF CatInv, Places, RunOK
  <2>2. ~Insert(r) /\ ~WriteRow(r) /\ ~RowIsGone(r) /\ ~NameIsFree(r) /\ ~NameIsTaken(r)
        /\ ~Answer(r) /\ ~AnswerFails(r) /\ ~Commit(r)
    BY <2>1 DEF Insert, WriteRow, RowIsGone, NameIsFree, NameIsTaken, Answer, AnswerFails, Commit
  <2>3. NoCompetitor(r) => CatInv'
    BY EndsWithout DEF NoCompetitor, CatInv, TypeOK
  <2> QED
    BY <1>7, <2>2, <2>3, StoreChildOK, RunCommitsOK DEF Handle
<1>8. ASSUME NEW s \in Sessions, DeadlockDetected(s) PROVE CatInv'
  <2>1. Waiting(s) # {}
    BY <1>8 DEF DeadlockDetected, Deadlocked, Stuck
  <2>2. pc[s] \notin {"idle", "done"}
    BY <2>1 DEF Waiting
  <2>3. faults' \in 0..Restarts
    BY <1>8 DEF DeadlockDetected, CatInv, TypeOK
  <2> QED
    BY <1>8, <2>2, <2>3, AbortOK DEF DeadlockDetected
<1>9. ASSUME NEW s \in Sessions, ConnectionLost(s) PROVE CatInv'
  <2>1. faults' \in 0..Restarts
    BY <1>9, CatalogueAssumption DEF ConnectionLost, CatInv, TypeOK
  <2> QED
    BY <1>9, <2>1, AbortOK DEF ConnectionLost
<1>10. CASE UNCHANGED vars
  BY <1>10, CatStutter DEF vars, tables, CatInv, TypeOK
<1>11. CASE Terminated
  BY <1>10, <1>11 DEF Terminated
<1> QED
  BY <1>1, <1>2, <1>3, <1>4, <1>5, <1>6, <1>7, <1>8, <1>9, <1>10, <1>11 DEF Next

LEMMA CatInvariance == Spec => []CatInv
<1> QED
  BY CatInit, CatStep, PTL DEF Spec

(* Two committed competitors never have one name, and no row of a run      *)
(* outlives its competitor, for every number of processes, requests and    *)
(* runs: what the unique index and the foreign keys make of transactions   *)
(* that only look before they write (create_competitor, sync_competitors). *)
THEOREM CatalogueIsConsistent == Spec => []CatalogueInv
<1>1. CatInv => CatalogueInv
  BY DEF CatInv, Locks, CatalogueInv
<1> QED
  BY <1>1, CatInvariance, PTL

(* A sync that returned success has every name of its file in the          *)
(* catalogue; one that failed has left no row there.                       *)
THEOREM SyncsAreAtomic == Spec => []SyncIsAtomic
<1>1. CatInv => SyncIsAtomic
  BY DEF CatInv, Places, WorkerOK, SyncIsAtomic, Found, Live
<1> QED
  BY <1>1, CatInvariance, PTL

(* What create_competitor and delete_competitor answered stays so, and a   *)
(* request that was answered an error leaves no row, whichever FastAPI is  *)
(* installed; only one that answers first can make an answer untrue, by    *)
(* losing the connection of that very session afterwards.                  *)
THEOREM AnswersAreKept == Spec => []AnswersHold
<1>1. CatInv => AnswersHold
  BY DEF CatInv, Places, RequestOK, TypeOK, AnswersHold, Found, Gone, Live
<1> QED
  BY <1>1, CatInvariance, PTL

=============================================================================
