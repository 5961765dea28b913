------------------------------ MODULE Catalogue -----------------------------
(***************************************************************************)
(* The competitors table and who changes it: the configuration sync of     *)
(* every worker process at its start, the requests of the competitor API,  *)
(* and collection runs, which insert rows that refer to a competitor.      *)
(*                                                                         *)
(* Every actor has one session, a READ COMMITTED transaction.  A step is   *)
(* one statement; what a session has changed is its own until it commits.  *)
(* A unique name that another session has inserted, changed or deleted     *)
(* makes a statement wait for the end of that session, and so does a row;  *)
(* a run that has inserted a row locks its competitor against deletion and *)
(* renaming.  The server aborts a session of a cycle of waits.             *)
(*                                                                         *)
(* A request's session commits in the exit code of a yield dependency.     *)
(* Which FastAPI is installed decides whether that is before the answer is *)
(* sent (0.115 to 0.117) or after it (0.118 and later): AnswersFirst.      *)
(*                                                                         *)
(* Operators named Fault... are not part of the specification: each is a   *)
(* plausible wrong variant of the definition after it.                     *)
(***************************************************************************)
EXTENDS Naturals, Sequences

CONSTANTS
  Workers,     \* processes, each with its own lifespan
  Requests,    \* calls of the competitor API
  Runs,        \* calls of collect_competitor
  Names,       \* names of competitors
  Configs,     \* what competitors.json may hold: sequences of names
  Ids,         \* bound: the ids the sequence gives out
  Restarts,    \* bound: restarts of workers, lost connections
  AnswersFirst, \* a request is answered before its session commits
  None

ASSUME CatalogueAssumption ==
  /\ Configs \subseteq Seq(Names)
  /\ Ids \subseteq Nat
  /\ Restarts \in Nat
  /\ AnswersFirst \in BOOLEAN
  /\ None \notin Names \cup Ids \cup Workers \cup Requests \cup Runs
  /\ Workers \cap Requests = {} /\ Runs \cap (Workers \cup Requests) = {}

VARIABLES
  schema,   \* the tables: "none", made from the "models" or "migrated"
  rows,     \* the committed competitors, by id
  used,     \* ids that committed rows have had
  stored,   \* the competitors with committed rows of runs
  phase,    \* how far the lifespan of each worker is
  absent,   \* create_all of the worker has found no tables
  config,   \* what the worker has loaded: the names, in order
  at,       \* the config entry its sync is at
  synced,   \* what its sync_competitors returned
  pc,       \* where each session is
  target,   \* id of the competitor a request or run is about
  name,     \* the name a session is to insert or set
  delta,    \* the session's uncommitted changes: id -> name or None
  reply,    \* what the request or run was answered
  faults,   \* restarts and lost connections so far
  origin,   \* history: the session that inserted each row
  removed,  \* history: names that were deleted
  dropped   \* history: requests that were answered and then not committed

tables == <<schema, rows, used, stored>>
life == <<phase, absent, config, at, synced>>
session == <<pc, target, name, delta, reply>>
history == <<origin, removed, dropped>>
vars == <<tables, life, session, faults, history>>

Sessions == Workers \cup Requests \cup Runs

(* An empty dictionary of changes. *)
NoChange == [i \in {} |-> None]

Replies == {"none", "created", "deleted", "stored", "not found", "conflict", "error"}

TypeOK ==
  /\ schema \in {"none", "models", "migrated"}
  /\ rows \in [Ids -> Names \cup {None}]
  /\ used \in SUBSET Ids
  /\ stored \in SUBSET Ids
  /\ phase \in [Workers -> {"down", "tables", "sync", "serving"}]
  /\ absent \in [Workers -> BOOLEAN]
  /\ config \in [Workers -> Configs \cup {<<>>}]
  /\ at \in [Workers -> Nat \ {0}]
  /\ \A w \in Workers : at[w] <= Len(config[w]) + 1
  /\ synced \in [Workers -> {"none", "no_config", "success", "failed"}]
  /\ pc \in [Sessions -> {"idle", "insert", "row", "name", "answer", "child", "commit", "done"}]
  /\ target \in [Sessions -> Ids \cup {None}]
  /\ name \in [Sessions -> Names \cup {None}]
  /\ delta \in [Sessions -> UNION {[D -> Names \cup {None}] : D \in SUBSET Ids}]
  /\ reply \in [Sessions -> Replies]
  /\ faults \in 0..Restarts
  /\ origin \in [Ids -> Sessions \cup {None}]
  /\ removed \in SUBSET Names
  /\ dropped \in SUBSET Requests

Init ==
  /\ schema = "none"
  /\ rows = [i \in Ids |-> None]
  /\ used = {}
  /\ stored = {}
  /\ phase = [w \in Workers |-> "down"]
  /\ absent = [w \in Workers |-> FALSE]
  /\ config = [w \in Workers |-> <<>>]
  /\ at = [w \in Workers |-> 1]
  /\ synced = [w \in Workers |-> "none"]
  /\ pc = [s \in Sessions |-> "idle"]
  /\ target = [s \in Sessions |-> None]
  /\ name = [s \in Sessions |-> None]
  /\ delta = [s \in Sessions |-> NoChange]
  /\ reply = [s \in Sessions |-> "none"]
  /\ faults = 0
  /\ origin = [i \in Ids |-> None]
  /\ removed = {}
  /\ dropped = {}

-----------------------------------------------------------------------------
(* Sessions and locks. *)

Live == {i \in Ids : rows[i] # None}

LiveNames == {rows[i] : i \in Live}

(* What a statement of the session sees. *)
View(s) == [i \in Ids |-> IF i \in DOMAIN delta[s] THEN delta[s][i] ELSE rows[i]]

Seen(s, n) == \E i \in Ids : View(s)[i] = n

(* The name that a session is to insert or set. *)
Wanted(s) == IF s \in Workers THEN config[s][at[s]] ELSE name[s]

(* Sessions that have the index entry of a name, or a row, in their hands. *)
NameHolders(s, n) ==
  {t \in Sessions \ {s} : \E i \in DOMAIN delta[t] : n \in {delta[t][i], rows[i]}}

RowHolders(s, i) ==
  {t \in Sessions \ {s} : i \in DOMAIN delta[t] \/ (t \in Runs /\ pc[t] = "commit" /\ target[t] = i)}

(* A row a run inserts waits for a change of its competitor only. *)
Waiting(s) ==
  CASE pc[s] \in {"insert", "name"} -> NameHolders(s, Wanted(s))
    [] pc[s] = "row" -> RowHolders(s, target[s])
    [] pc[s] = "child" -> {t \in RowHolders(s, target[s]) : t \notin Runs}
    [] OTHER -> {}

Stuck == {t \in Sessions : Waiting(t) # {}}

(* A session of a cycle of waits. *)
Deadlocked(s) ==
  /\ s \in Stuck
  /\ \E S \in SUBSET Stuck : s \in S /\ \A p \in S : Waiting(p) \cap S # {}

Goto(s, to) == pc' = [pc EXCEPT ![s] = to]

(* A session ends; what it was about matters no more when it has failed. *)
Finish(s, r) ==
  /\ Goto(s, "done")
  /\ reply' = [reply EXCEPT ![s] = r]
  /\ delta' = [delta EXCEPT ![s] = NoChange]
  /\ IF r \in {"created", "deleted"}
     THEN UNCHANGED <<target, name>>
     ELSE target' = [target EXCEPT ![s] = None] /\ name' = [name EXCEPT ![s] = None]

(* session() commits on its way out. *)
Apply(s) ==
  /\ rows' = View(s)
  /\ used' = used \cup DOMAIN delta[s]
  /\ origin' = [i \in Ids |-> IF i \in DOMAIN delta[s] \ used THEN s ELSE origin[i]]
  /\ stored' = {i \in stored : rows'[i] # None}
  /\ removed' = removed \cup {rows[i] : i \in {j \in DOMAIN delta[s] : rows[j] # None /\ delta[s][j] # rows[j]}}
  /\ UNCHANGED dropped

(* A statement of the session changes a row. *)
Change(s, i, n) ==
  delta' = [delta EXCEPT ![s] = [j \in DOMAIN @ \cup {i} |-> IF j = i THEN n ELSE @[j]]]

(* create() flushes its INSERT, under an id that no row has had. *)
DrawId(s) ==
  LET fresh == Ids \ (used \cup UNION {DOMAIN delta[t] : t \in Sessions})
  IN \E i \in fresh :
       /\ \A j \in fresh : i <= j
       /\ Change(s, i, Wanted(s))

-----------------------------------------------------------------------------
(* A process starts: create_all, which looks for the tables and then       *)
(* creates what is missing, and the configuration sync.                    *)

(* scripts/setup.py, before any process *)
Migrate ==
  /\ schema = "none"
  /\ \A w \in Workers : phase[w] = "down"
  /\ schema' = "migrated"
  /\ UNCHANGED <<rows, used, stored, life, session, faults, history>>

LookForTables(w) ==
  /\ phase[w] = "down"
  /\ phase' = [phase EXCEPT ![w] = "tables"]
  /\ absent' = [absent EXCEPT ![w] = (schema = "none")]
  /\ UNCHANGED <<tables, config, at, synced, session, faults, history>>

(* competitors.json, as it is. *)
Load(w) == \E c \in Configs : config' = [config EXCEPT ![w] = c]

FaultCreateTables(w) ==
  /\ phase[w] = "tables"
  /\ schema' = IF absent[w] THEN "models" ELSE schema
  /\ rows' = IF absent[w] THEN [i \in Ids |-> None] ELSE rows
  /\ Load(w)
  /\ phase' = [phase EXCEPT ![w] = "sync"]
  /\ UNCHANGED <<used, stored, absent, at, synced, session, faults, history>>

(* The tables exist; sync_competitors loads its file. *)
CreateTables(w) ==
  /\ phase[w] = "tables"
  /\ absent[w] => schema = "none"
  /\ schema' = IF absent[w] THEN "models" ELSE schema
  /\ Load(w)
  /\ phase' = [phase EXCEPT ![w] = "sync"]
  /\ UNCHANGED <<rows, used, stored, absent, at, synced, session, faults, history>>

(* Another process has created a table after this one looked. *)
StartUpFails(w) ==
  /\ phase[w] = "tables"
  /\ absent[w] /\ schema # "none"
  /\ phase' = [phase EXCEPT ![w] = "down"]
  /\ UNCHANGED <<tables, absent, config, at, synced, session, faults, history>>

Syncing(w) == phase[w] = "sync" /\ pc[w] = "idle" /\ at[w] <= Len(config[w])

SyncSkips(w) ==
  /\ Syncing(w)
  /\ Seen(w, Wanted(w))
  /\ at' = [at EXCEPT ![w] = @ + 1]
  /\ UNCHANGED <<tables, phase, absent, config, synced, session, faults, history>>

SyncMisses(w) ==
  /\ Syncing(w)
  /\ ~Seen(w, Wanted(w))
  /\ Goto(w, "insert")
  /\ UNCHANGED <<tables, life, target, name, delta, reply, faults, history>>

SyncInserts(w) ==
  /\ pc[w] = "insert"
  /\ Waiting(w) = {} /\ ~Seen(w, Wanted(w))
  /\ DrawId(w)
  /\ at' = [at EXCEPT ![w] = @ + 1]
  /\ Goto(w, "idle")
  /\ UNCHANGED <<tables, phase, absent, config, synced, target, name, reply, faults, history>>

FaultSyncEnds(w, result) ==
  /\ Apply(w)
  /\ synced' = [synced EXCEPT ![w] = result]
  /\ phase' = [phase EXCEPT ![w] = "serving"]
  /\ Goto(w, "done")
  /\ delta' = [delta EXCEPT ![w] = NoChange]
  /\ UNCHANGED <<schema, absent, config, at, target, name, reply>>

(* sync_competitors returns, and the process serves whatever it returned. *)
SyncEnds(w, result) ==
  /\ IF result = "failed" THEN UNCHANGED <<rows, used, stored, history>> ELSE Apply(w)
  /\ synced' = [synced EXCEPT ![w] = result]
  /\ phase' = [phase EXCEPT ![w] = "serving"]
  /\ Goto(w, "done")
  /\ delta' = [delta EXCEPT ![w] = NoChange]
  /\ UNCHANGED <<schema, absent, config, at, target, name, reply>>

SyncCommits(w) ==
  /\ phase[w] = "sync" /\ pc[w] = "idle" /\ at[w] > Len(config[w])
  /\ SyncEnds(w, IF config[w] = <<>> THEN "no_config" ELSE "success")
  /\ UNCHANGED faults

(* Another session's insertion of the name has been committed meanwhile. *)
SyncCollides(w) ==
  /\ w \in Workers /\ pc[w] = "insert"
  /\ Waiting(w) = {} /\ Seen(w, Wanted(w))
  /\ SyncEnds(w, "failed")
  /\ UNCHANGED faults

-----------------------------------------------------------------------------
(* Requests of the competitor API. *)

Served(q) == pc[q] = "idle" /\ \E w \in Workers : phase[w] = "serving"

(* create_competitor: the name is looked up, *)
Post(q) ==
  /\ Served(q)
  /\ \E n \in Names :
       IF Seen(q, n)
       THEN Finish(q, "conflict")
       ELSE /\ name' = [name EXCEPT ![q] = n]
            /\ Goto(q, "insert")
            /\ UNCHANGED <<target, delta, reply>>
  /\ UNCHANGED <<tables, life, faults, history>>

FaultInsert(q) ==
  /\ pc[q] = "insert"
  /\ ~Seen(q, name[q])
  /\ DrawId(q)
  /\ Goto(q, "answer")
  /\ UNCHANGED <<tables, life, target, name, reply, faults, history>>

(* and then inserted. *)
Insert(q) ==
  /\ pc[q] = "insert"
  /\ Waiting(q) = {} /\ ~Seen(q, name[q])
  /\ DrawId(q)
  /\ Goto(q, "answer")
  /\ UNCHANGED <<tables, life, target, name, reply, faults, history>>

(* update_competitor to another name, or delete_competitor (None): the row *)
(* is read.                                                               *)
PutOrDelete(q) ==
  /\ Served(q)
  /\ \E i \in Ids, n \in Names \cup {None} :
       IF rows[i] = None
       THEN Finish(q, "not found")
       ELSE /\ rows[i] # n
            /\ target' = [target EXCEPT ![q] = i]
            /\ name' = [name EXCEPT ![q] = n]
            /\ Goto(q, "row")
            /\ UNCHANGED <<delta, reply>>
  /\ UNCHANGED <<tables, life, faults, history>>

(* The row is locked; a new name goes on to the unique index. *)
WriteRow(q) ==
  /\ pc[q] = "row"
  /\ Waiting(q) = {} /\ rows[target[q]] # None
  /\ IF name[q] = None
     THEN Change(q, target[q], None) /\ Goto(q, "answer")
     ELSE Change(q, target[q], rows[target[q]]) /\ Goto(q, "name")
  /\ UNCHANGED <<tables, life, target, name, reply, faults, history>>

(* A DELETE that matches no row is warned of, an UPDATE raises. *)
RowIsGone(q) ==
  /\ pc[q] = "row"
  /\ Waiting(q) = {} /\ rows[target[q]] = None
  /\ Finish(q, IF name[q] = None THEN "deleted" ELSE "error")
  /\ UNCHANGED <<tables, life, faults, history>>

NameIsFree(q) ==
  /\ pc[q] = "name"
  /\ Waiting(q) = {} /\ ~Seen(q, name[q])
  /\ Change(q, target[q], name[q])
  /\ Goto(q, "answer")
  /\ UNCHANGED <<tables, life, target, name, reply, faults, history>>

NameIsTaken(q) ==
  /\ q \in Requests /\ pc[q] \in {"insert", "name"}
  /\ Waiting(q) = {} /\ Seen(q, name[q])
  /\ Finish(q, "error")
  /\ UNCHANGED <<tables, life, faults, history>>

Renames(q) == target[q] # None /\ name[q] # None

Outcome(q) == IF name[q] = None THEN "deleted" ELSE "created"

(* The handler returns. *)
Answer(q) ==
  /\ q \in Requests /\ pc[q] = "answer" /\ ~Renames(q)
  /\ Goto(q, "commit")
  /\ reply' = IF AnswersFirst THEN [reply EXCEPT ![q] = Outcome(q)] ELSE reply
  /\ UNCHANGED <<tables, life, target, name, delta, faults, history>>

(* After an UPDATE it does not: updated_at, which the answer names, has     *)
(* expired with the flush and can be read in an await only.                *)
AnswerFails(q) ==
  /\ q \in Requests /\ pc[q] = "answer" /\ Renames(q)
  /\ Finish(q, "error")
  /\ UNCHANGED <<tables, life, faults, history>>

Commit(q) ==
  /\ q \in Requests /\ pc[q] = "commit"
  /\ Apply(q)
  /\ Finish(q, Outcome(q))
  /\ UNCHANGED <<schema, life, faults>>

-----------------------------------------------------------------------------
(* Collection runs, as far as they touch a competitor. *)

ReadCompetitor(r) ==
  /\ Served(r)
  /\ \E i \in Ids :
       IF rows[i] = None
       THEN Finish(r, "not found")
       ELSE /\ target' = [target EXCEPT ![r] = i]
            /\ Goto(r, "child")
            /\ UNCHANGED <<name, delta, reply>>
  /\ UNCHANGED <<tables, life, faults, history>>

(* The first upsert of the run shares a lock on the competitor. *)
StoreChild(r) ==
  /\ pc[r] = "child"
  /\ Waiting(r) = {} /\ rows[target[r]] # None
  /\ Goto(r, "commit")
  /\ UNCHANGED <<tables, life, target, name, delta, reply, faults, history>>

(* It was deleted: the foreign key rejects the row. *)
NoCompetitor(r) ==
  /\ pc[r] = "child"
  /\ Waiting(r) = {} /\ rows[target[r]] = None
  /\ Finish(r, "error")
  /\ UNCHANGED <<tables, life, faults, history>>

RunCommits(r) ==
  /\ r \in Runs /\ pc[r] = "commit"
  /\ stored' = stored \cup {target[r]}
  /\ Finish(r, "stored")
  /\ UNCHANGED <<schema, rows, used, life, faults, history>>

-----------------------------------------------------------------------------
(* Failures. *)

(* The client has its answer already. *)
Drop(q) ==
  /\ Goto(q, "done")
  /\ delta' = [delta EXCEPT ![q] = NoChange]
  /\ dropped' = dropped \cup {q}
  /\ UNCHANGED <<tables, life, target, name, reply, origin, removed>>

(* A session that is aborted leaves nothing; a sync swallows it. *)
Abort(s) ==
  CASE s \in Workers -> SyncEnds(s, "failed")
    [] s \notin Workers /\ reply[s] # "none" -> Drop(s)
    [] OTHER -> Finish(s, "error") /\ UNCHANGED <<tables, life, history>>

DeadlockDetected(s) ==
  /\ Deadlocked(s)
  /\ Abort(s)
  /\ UNCHANGED faults

ConnectionLost(s) ==
  /\ pc[s] \notin {"idle", "done"}
  /\ faults < Restarts
  /\ faults' = faults + 1
  /\ Abort(s)

(* A process dies, with its sync if that is under way. *)
Restart(w) ==
  /\ phase[w] # "down"
  /\ faults < Restarts
  /\ faults' = faults + 1
  /\ phase' = [phase EXCEPT ![w] = "down"]
  /\ at' = [at EXCEPT ![w] = 1]
  /\ config' = [config EXCEPT ![w] = <<>>]
  /\ synced' = [synced EXCEPT ![w] = "none"]
  /\ pc' = [pc EXCEPT ![w] = "idle"]
  /\ delta' = [delta EXCEPT ![w] = NoChange]
  /\ origin' = [i \in Ids |-> IF origin[i] = w THEN None ELSE origin[i]]
  /\ UNCHANGED <<tables, absent, target, name, reply, removed, dropped>>

-----------------------------------------------------------------------------
StartUp(w) ==
  \/ LookForTables(w)
  \/ CreateTables(w)
  \/ StartUpFails(w)
  \/ SyncSkips(w)
  \/ SyncMisses(w)
  \/ SyncInserts(w)
  \/ SyncCommits(w)
  \/ SyncCollides(w)

Handle(q) ==
  \/ Insert(q)
  \/ WriteRow(q)
  \/ RowIsGone(q)
  \/ NameIsFree(q)
  \/ NameIsTaken(q)
  \/ Answer(q)
  \/ AnswerFails(q)
  \/ Commit(q)
  \/ StoreChild(q)
  \/ NoCompetitor(q)
  \/ RunCommits(q)

(* Everything has been done: the only way to stop. *)
Terminated ==
  /\ \A s \in Sessions : pc[s] = "done"
  /\ UNCHANGED vars

Next ==
  \/ Migrate
  \/ \E w \in Workers : StartUp(w) \/ Restart(w)
  \/ \E q \in Requests : Post(q) \/ PutOrDelete(q)
  \/ \E r \in Runs : ReadCompetitor(r)
  \/ \E s \in Requests \cup Runs : Handle(s)
  \/ \E s \in Sessions : DeadlockDetected(s) \/ ConnectionLost(s)
  \/ Terminated

Spec == Init /\ [][Next]_vars

-----------------------------------------------------------------------------
(* get_by_name takes one row or none; two committed competitors of a name  *)
(* would make every later sync and creation of it raise.                   *)
NamesAreUnique == \A i, j \in Live : rows[i] = rows[j] => i = j

(* No rows of a run outlive their competitor, whenever it was deleted.     *)
NoOrphans == stored \subseteq Live

(* What the unique index and the foreign keys make of these transactions.  *)
CatalogueInv == TypeOK /\ NamesAreUnique /\ NoOrphans

(* sync_competitors is one transaction: it leaves every name of its file   *)
(* in the catalogue, or no row at all.                                     *)
SyncIsAtomic ==
  \A w \in Workers :
    /\ synced[w] = "success" =>
         \A k \in DOMAIN config[w] : config[w][k] \in LiveNames \cup removed
    /\ synced[w] = "failed" => \A i \in Live : origin[i] # w

(* What a client was answered is so, once its session is over: a creation  *)
(* is in the catalogue until somebody deletes it, a competitor it deleted  *)
(* never comes back, and a request that failed has left no row.  Only an   *)
(* answer that was sent before a commit that failed is none of that; where *)
(* sessions commit first there is no such answer.                          *)
AnswersHold ==
  /\ ~AnswersFirst => dropped = {}
  /\ \A q \in Requests : pc[q] = "done" =>
       /\ reply[q] = "created" => q \in dropped \/ name[q] \in LiveNames \cup removed
       /\ reply[q] = "deleted" => q \in dropped \/ target[q] \notin Live
       /\ reply[q] = "error" \/ q \in dropped => \A i \in Live : origin[i] # q

(* README.md:260: PUT /competitors/{id} updates a competitor.  A PUT whose *)
(* statements have all succeeded is not answered with an error, unless its *)
(* connection is lost then.                                                *)
UpdatesAreMade ==
  [][\A q \in Requests : pc[q] = "answer" /\ Renames(q) /\ reply'[q] = "error" =>
       faults' # faults]_vars

(* README.md:228: competitors of the file are in the database after the    *)
(* startup.                                                                *)
SyncedOnStartup ==
  \A w \in Workers : phase[w] = "serving" =>
    \A k \in DOMAIN config[w] : config[w][k] \in LiveNames \cup removed

=============================================================================
