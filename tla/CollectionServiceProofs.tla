---------------------- MODULE CollectionServiceProofs -----------------------
(* Theorems about CollectionService and their proofs. *)
EXTENDS CollectionService, TLAPS

(* Every row that a page can make a collector upsert is a row. *)
LEMMA SourceRowIsRow == \A u \in Urls : SourceRow(u) \in Rows
BY DEF Rows

LEMMA RawRowIsRow == \A u \in Urls : RawRow(u) \in Rows
BY DEF Rows

LEMMA ItemsAreRows ==
  ASSUME NEW m, NEW items \in ItemSets(m)
  PROVE  items \subseteq Rows
<1>1. /\ {CompanyRow} \subseteq Rows
      /\ ServiceRows \subseteq Rows /\ PricingRows \subseteq Rows
      /\ ContentRows \subseteq Rows /\ SocialRows \subseteq Rows
  BY DEF Rows
<1>2. \/ items = {CompanyRow}
      \/ items \subseteq ServiceRows \/ items \subseteq PricingRows
      \/ items \subseteq ContentRows \/ items \subseteq SocialRows
  BY DEF ItemSets, CompanyItems, ServiceItems, PricingItems, ContentItems, SocialItems
<1> QED
  BY <1>1, <1>2

(* The URLs selected for a module are URLs. *)
LEMMA SelectedAreUrls ==
  ASSUME NEW f \in SUBSET Urls, NEW s \in SelectUrls(f)
  PROVE  s \subseteq Urls
BY DEF SelectUrls, Urls

(***************************************************************************)
(* Type correctness.                                                       *)
(***************************************************************************)
LEMMA TypeInit == Init => TypeOK
BY DEF Init, TypeOK, Stages, CursorOK, Collecting

LEMMA TypeReturn ==
  ASSUME TypeOK, NEW r \in Runs, NEW s \in {"success", "failed", "skipped", "lost"},
         Return(r, s),
         durable' \in [Runs -> SUBSET Rows],
         logged' \in [Runs -> {"none", "ok", "errors"}]
  PROVE  TypeOK'
BY DEF TypeOK, Stages, CursorOK, Collecting, Return, Goto

LEMMA TypeRollback ==
  ASSUME TypeOK, NEW r \in Runs, NEW s \in {"failed", "skipped", "lost"}, Rollback(r, s)
  PROVE  TypeOK'
<1>1. durable' \in [Runs -> SUBSET Rows] /\ logged' \in [Runs -> {"none", "ok", "errors"}]
  BY DEF Rollback, TypeOK
<1> QED
  BY <1>1, TypeReturn DEF Rollback

LEMMA TypeStep ==
  ASSUME TypeOK, NEW r \in Runs, Step(r)
  PROVE  TypeOK'
<1> USE DEF Goto, work, txn, book, out, CursorOK, Collecting
<1>1. CASE Start(r)
  BY <1>1 DEF Start, TypeOK, Stages
<1>2. CASE Refuse(r)
  BY <1>2, TypeRollback DEF Refuse
<1>3. CASE Discover(r)
  BY <1>3, SourceRowIsRow DEF Discover, TypeOK, Stages, Urls
<1>4. CASE SendUpsert(r)
  BY <1>4 DEF SendUpsert, TypeOK
<1>5. CASE Execute(r)
  BY <1>5 DEF Execute, TypeOK, Stages
<1>6. CASE RunFails(r)
  BY <1>6, TypeRollback DEF RunFails
<1>7. CASE StatementFails(r)
  <2>1. url[r] \in Urls /\ module[r] \in Modules
    BY <1>7 DEF StatementFails, TypeOK
  <2> QED
    BY <1>7, <2>1 DEF StatementFails, CollectFailed, NextUrl, TypeOK, Stages, Entries
<1>8. CASE SourcesDone(r)
  BY <1>8 DEF SourcesDone, TypeOK, Stages
<1>9. CASE PickModule(r)
  BY <1>9, SelectedAreUrls DEF PickModule, TypeOK, Stages
<1>10. CASE ModuleRaises(r)
  BY <1>10 DEF ModuleRaises, TypeOK, Entries
<1>11. CASE PickUrl(r)
  BY <1>11 DEF PickUrl, TypeOK, Stages
<1>12. CASE FetchSkips(r)
  BY <1>12 DEF FetchSkips, NextUrl, TypeOK, Stages
<1>13. CASE FetchRaises(r)
  BY <1>13 DEF FetchRaises, CollectFailed, NextUrl, TypeOK, Stages, Entries
<1>14. CASE FetchReturns(r)
  BY <1>14, RawRowIsRow DEF FetchReturns, TypeOK, Stages
<1>15. CASE Parse(r)
  BY <1>15, RawRowIsRow, ItemsAreRows DEF Parse, TypeOK, Stages
<1>16. CASE ParseRaises(r)
  BY <1>16 DEF ParseRaises, CollectFailed, NextUrl, TypeOK, Stages, Entries
<1>17. CASE CollectSucceeds(r)
  BY <1>17 DEF CollectSucceeds, NextUrl, TypeOK, Stages
<1>18. CASE ModuleDone(r)
  BY <1>18 DEF ModuleDone, TypeOK, Stages, Entries
<1>19. CASE ModulesDone(r)
  BY <1>19 DEF ModulesDone, TypeOK, Stages
<1>20. CASE WriteLog(r)
  BY <1>20 DEF WriteLog, TypeOK, Stages
<1>21. CASE Commit(r)
  <2>1. durable' \in [Runs -> SUBSET Rows] /\ logged' \in [Runs -> {"none", "ok", "errors"}]
    BY <1>21 DEF Commit, TypeOK
  <2> QED
    BY <1>21, <2>1, TypeReturn DEF Commit
<1>22. CASE Crash(r)
  BY <1>22, TypeRollback DEF Crash
<1> QED
  BY <1>1, <1>2, <1>3, <1>4, <1>5, <1>6, <1>7, <1>8, <1>9, <1>10, <1>11, <1>12, <1>13,
     <1>14, <1>15, <1>16, <1>17, <1>18, <1>19, <1>20, <1>21, <1>22 DEF Step

(* Every reachable state is well typed. *)
THEOREM TypeCorrect == Spec => []TypeOK
<1>1. TypeOK /\ [Next]_vars => TypeOK'
  <2> SUFFICES ASSUME TypeOK, [Next]_vars
               PROVE  TypeOK'
    OBVIOUS
  <2>1. CASE \E r \in Runs : Step(r)
    BY <2>1, TypeStep
  <2>2. CASE UNCHANGED vars
    BY <2>2 DEF vars, work, txn, book, out, TypeOK, CursorOK
  <2> QED
    BY <2>1, <2>2 DEF Next, Terminated
<1> QED
  BY TypeInit, <1>1, PTL DEF Spec

(***************************************************************************)
(* The inductive invariant.                                                *)
(***************************************************************************)

(* A run that has not returned has stored nothing and returned nothing. *)
Unstored(r) ==
  /\ status[r] = "pending" <=> pc[r] # "done"
  /\ pc[r] # "done" => durable[r] = {} /\ logged[r] = "none"

(* The rows of successful collects stay in the transaction: they are below
   the savepoint while another collect() runs, and the rows of the collect()
   in progress are written, in flight or still to be sent.                 *)
KeptIsWritten(r) ==
  /\ pc[r] # "done" => kept[r] \subseteq writes[r]
  /\ pc[r] \in Collecting => kept[r] \subseteq saved[r]
  /\ pc[r] = "store" => stmt[r] = RawRow(url[r])
  /\ pc[r] = "parse" => RawRow(url[r]) \in writes[r]
  /\ pc[r] = "items" => batch[r] \subseteq writes[r] \cup todo[r] \cup {stmt[r]}

(* The error list and the failures of the module in progress account for
   every failed collect().                                                 *)
ErrorsAreFailures(r) ==
  pc[r] # "done" =>
    /\ failed[r] = errors[r] \cup {<<module[r], u>> : u \in badUrls[r]}
    /\ pc[r] \notin Collecting \cup {"urls"} => badUrls[r] = {}

(* An aborted transaction is not committed. *)
AbortedIsStuck(r) ==
  /\ pc[r] = "commit" => ~aborted[r]
  /\ aborted[r] => logged[r] = "none" /\ durable[r] = {}

(* What a stored run shows. *)
StoredIsRight(r) ==
  logged[r] # "none" =>
    /\ kept[r] \subseteq durable[r]
    /\ logged[r] = "ok" <=> failed[r] = {}

RunInv(r) ==
  /\ Unstored(r)
  /\ KeptIsWritten(r)
  /\ ErrorsAreFailures(r)
  /\ AbortedIsStuck(r)
  /\ StoredIsRight(r)

IInv == \A r \in Runs : RunInv(r)

LEMMA InvInit == Init => IInv
BY DEF Init, IInv, RunInv, Unstored, KeptIsWritten, ErrorsAreFailures, AbortedIsStuck,
       StoredIsRight, Collecting

(* A step of one run changes nothing that belongs to another. *)
LEMMA Frame ==
  ASSUME TypeOK, NEW r \in Runs, NEW q \in Runs, q # r, Step(r)
  PROVE  /\ pc'[q] = pc[q] /\ module'[q] = module[q] /\ url'[q] = url[q]
         /\ todo'[q] = todo[q] /\ stmt'[q] = stmt[q] /\ batch'[q] = batch[q]
         /\ writes'[q] = writes[q] /\ saved'[q] = saved[q] /\ aborted'[q] = aborted[q]
         /\ badUrls'[q] = badUrls[q] /\ errors'[q] = errors[q] /\ failed'[q] = failed[q]
         /\ kept'[q] = kept[q] /\ durable'[q] = durable[q] /\ logged'[q] = logged[q]
         /\ status'[q] = status[q]
<1> USE DEF TypeOK, Goto, work, txn, book, out
<1>1. CASE Start(r) \/ Discover(r) \/ SendUpsert(r) \/ Execute(r)
  BY <1>1 DEF Start, Discover, SendUpsert, Execute
<1>2. CASE Refuse(r) \/ RunFails(r) \/ Crash(r)
  BY <1>2 DEF Refuse, RunFails, Crash, Rollback, Return
<1>3. CASE StatementFails(r) \/ FetchRaises(r) \/ ParseRaises(r)
  BY <1>3 DEF StatementFails, FetchRaises, ParseRaises, CollectFailed, NextUrl
<1>4. CASE SourcesDone(r) \/ PickModule(r) \/ ModuleRaises(r) \/ PickUrl(r)
  BY <1>4 DEF SourcesDone, PickModule, ModuleRaises, PickUrl
<1>5. CASE FetchSkips(r) \/ FetchReturns(r) \/ Parse(r) \/ CollectSucceeds(r)
  BY <1>5 DEF FetchSkips, FetchReturns, Parse, CollectSucceeds, NextUrl
<1>6. CASE ModuleDone(r) \/ ModulesDone(r) \/ WriteLog(r)
  BY <1>6 DEF ModuleDone, ModulesDone, WriteLog
<1>7. CASE Commit(r)
  BY <1>7 DEF Commit, Return
<1> QED
  BY <1>1, <1>2, <1>3, <1>4, <1>5, <1>6, <1>7 DEF Step

(* A run that returns without a commit keeps the invariant. *)
LEMMA InvRollback ==
  ASSUME TypeOK, NEW r \in Runs, RunInv(r), pc[r] # "done",
         NEW s \in {"failed", "skipped", "lost"}, Rollback(r, s)
  PROVE  RunInv(r)'
BY DEF TypeOK, Rollback, Return, Goto, RunInv, Unstored, KeptIsWritten, ErrorsAreFailures,
       AbortedIsStuck, StoredIsRight, Collecting

(* Each step of a run keeps the run's invariant. *)
LEMMA InvStep ==
  ASSUME TypeOK, NEW r \in Runs, RunInv(r), Step(r)
  PROVE  RunInv(r)'
<1> USE DEF Goto, work, txn, book, out, TypeOK, RunInv, Unstored, KeptIsWritten,
            ErrorsAreFailures, AbortedIsStuck, StoredIsRight, Collecting
<1>1. CASE Start(r)
  BY <1>1 DEF Start
<1>2. CASE Refuse(r)
  BY <1>2, InvRollback DEF Refuse
<1>3. CASE Discover(r)
  BY <1>3 DEF Discover
<1>4. CASE SendUpsert(r)
  <2> PICK row \in todo[r] : /\ stmt' = [stmt EXCEPT ![r] = row]
                             /\ todo' = [todo EXCEPT ![r] = @ \ {row}]
    BY <1>4 DEF SendUpsert
  <2>1. stmt'[r] = row /\ todo'[r] = todo[r] \ {row} /\ stmt[r] = None
    BY <1>4 DEF SendUpsert
  <2>2. batch[r] \subseteq writes[r] \cup todo[r] \cup {None} =>
          batch[r] \subseteq writes[r] \cup todo'[r] \cup {stmt'[r]}
    BY <2>1, RowsAssumption
  <2>3. pc[r] \in {"sources", "items"} /\ UNCHANGED <<pc, module, url, batch, txn, book, out>>
    BY <1>4 DEF SendUpsert
  <2> QED
    BY <2>1, <2>2, <2>3
<1>5. CASE Execute(r)
  <2>1. Unstored(r)' /\ ErrorsAreFailures(r)' /\ AbortedIsStuck(r)' /\ StoredIsRight(r)'
    <3>1. pc[r] = "sources" => logged[r] = "none"
      OBVIOUS
    <3> QED
      BY <1>5, <3>1 DEF Execute
  <2>2. KeptIsWritten(r)'
    <3>1. /\ writes'[r] = writes[r] \cup {stmt[r]} /\ stmt'[r] = None
          /\ kept'[r] = IF pc[r] = "sources" THEN kept[r] \cup {stmt[r]} ELSE kept[r]
          /\ pc'[r] = IF pc[r] = "store" THEN "parse" ELSE pc[r]
          /\ saved' = saved /\ todo' = todo /\ batch' = batch /\ url' = url
      BY <1>5 DEF Execute
    <3> QED
      BY <3>1 DEF RawRow
  <2> QED
    BY <2>1, <2>2
<1>6. CASE RunFails(r)
  BY <1>6, InvRollback DEF RunFails
<1>7. CASE StatementFails(r)
  BY <1>7 DEF StatementFails, CollectFailed, NextUrl
<1>8. CASE SourcesDone(r)
  BY <1>8 DEF SourcesDone
<1>9. CASE PickModule(r)
  BY <1>9 DEF PickModule
<1>10. CASE ModuleRaises(r)
  BY <1>10 DEF ModuleRaises
<1>11. CASE PickUrl(r)
  BY <1>11 DEF PickUrl
<1>12. CASE FetchSkips(r)
  BY <1>12 DEF FetchSkips, NextUrl
<1>13. CASE FetchRaises(r)
  BY <1>13 DEF FetchRaises, CollectFailed, NextUrl
<1>14. CASE FetchReturns(r)
  BY <1>14 DEF FetchReturns
<1>15. CASE Parse(r)
  BY <1>15 DEF Parse
<1>16. CASE ParseRaises(r)
  BY <1>16 DEF ParseRaises, CollectFailed, NextUrl
<1>17. CASE CollectSucceeds(r)
  BY <1>17, RowsAssumption DEF CollectSucceeds, NextUrl
<1>18. CASE ModuleDone(r)
  BY <1>18 DEF ModuleDone
<1>19. CASE ModulesDone(r)
  BY <1>19 DEF ModulesDone
<1>20. CASE WriteLog(r)
  BY <1>20 DEF WriteLog
<1>21. CASE Commit(r)
  BY <1>21 DEF Commit, Return
<1>22. CASE Crash(r)
  BY <1>22, InvRollback DEF Crash
<1> QED
  BY <1>1, <1>2, <1>3, <1>4, <1>5, <1>6, <1>7, <1>8, <1>9, <1>10, <1>11, <1>12, <1>13,
     <1>14, <1>15, <1>16, <1>17, <1>18, <1>19, <1>20, <1>21, <1>22 DEF Step

LEMMA InvNext == TypeOK /\ IInv /\ [Next]_vars => IInv'
<1> SUFFICES ASSUME TypeOK, IInv, [Next]_vars, NEW q \in Runs
             PROVE  RunInv(q)'
  BY DEF IInv
<1>1. RunInv(q)
  BY DEF IInv
<1>2. CASE \E r \in Runs : Step(r)
  <2> PICK r \in Runs : Step(r)
    BY <1>2
  <2>1. CASE q = r
    BY <1>1, <2>1, InvStep
  <2>2. CASE q # r
    BY <1>1, <2>2, Frame DEF RunInv, Unstored, KeptIsWritten, ErrorsAreFailures,
                             AbortedIsStuck, StoredIsRight, RawRow
  <2> QED
    BY <2>1, <2>2
<1>3. CASE UNCHANGED vars
  BY <1>1, <1>3 DEF vars, work, txn, book, out, RunInv, Unstored, KeptIsWritten,
                    ErrorsAreFailures, AbortedIsStuck, StoredIsRight
<1> QED
  BY <1>2, <1>3 DEF Next, Terminated

LEMMA Invariance == Spec => [](TypeOK /\ IInv)
BY TypeCorrect, InvInit, InvNext, PTL DEF Spec

(* A stored run holds every row of every successful collect(). *)
THEOREM StoredRunsAreComplete == Spec => []StoredRunIsComplete
<1>1. IInv => StoredRunIsComplete
  BY DEF IInv, RunInv, StoredIsRight, StoredRunIsComplete
<1> QED
  BY <1>1, Invariance, PTL

(* The log's success flag tells whether a collect() failed. *)
THEOREM LogsTellTheTruth == Spec => []LogTellsTheTruth
<1>1. IInv => LogTellsTheTruth
  BY DEF IInv, RunInv, StoredIsRight, LogTellsTheTruth
<1> QED
  BY <1>1, Invariance, PTL

(* An aborted run stores nothing. *)
THEOREM AbortedRunsStoreNothing == Spec => []AbortedRunStoresNothing
<1>1. IInv => AbortedRunStoresNothing
  BY DEF IInv, RunInv, AbortedIsStuck, AbortedRunStoresNothing
<1> QED
  BY <1>1, Invariance, PTL

(***************************************************************************)
(* The run implements AtomicRuns.                                          *)
(***************************************************************************)
LEMMA StepSimulates ==
  ASSUME TypeOK, IInv, NEW r \in Runs, Step(r)
  PROVE  [Atomic!Next]_(Atomic!vars)
<1> DEFINE Same == UNCHANGED <<durable, logged, status>>
<1>1. RunInv(r)
  BY DEF IInv
<1>2. CASE Refuse(r) \/ RunFails(r) \/ Crash(r)
  <2>1. status[r] = "pending" /\ \E s \in {"failed", "skipped", "lost"} : Rollback(r, s)
    BY <1>1, <1>2 DEF Refuse, RunFails, Crash, RunInv, Unstored
  <2>2. Atomic!GiveUp(r)
    BY <2>1 DEF Rollback, Return, Atomic!GiveUp
  <2> QED
    BY <2>2 DEF Atomic!Next
<1>3. CASE Commit(r)
  <2>1. status[r] = "pending" /\ writes[r] \in SUBSET Rows
    BY <1>1, <1>3 DEF Commit, RunInv, Unstored, TypeOK
  <2>2. Atomic!Store(r)
    BY <1>3, <2>1 DEF Commit, Return, Atomic!Store
  <2> QED
    BY <2>2 DEF Atomic!Next
<1>4. CASE ~(Refuse(r) \/ RunFails(r) \/ Crash(r) \/ Commit(r))
  <2>1. Same
    BY <1>4 DEF Step, out, Start, Discover, SendUpsert, Execute, StatementFails, SourcesDone,
       PickModule, ModuleRaises, PickUrl, FetchSkips, FetchRaises, FetchReturns, Parse,
       ParseRaises, CollectSucceeds, ModuleDone, ModulesDone, WriteLog
  <2> QED
    BY <2>1 DEF Atomic!vars
<1> QED
  BY <1>2, <1>3, <1>4

(* Whatever a run goes through, its callers see AtomicRuns. *)
THEOREM RunsAreAtomic == Spec => ImplementsAtomicRuns
<1>1. Init => Atomic!Init
  BY DEF Init, Atomic!Init
<1>2. TypeOK /\ IInv /\ [Next]_vars => [Atomic!Next]_(Atomic!vars)
  BY StepSimulates DEF Next, Terminated, vars, out, Atomic!vars
<1> QED
  BY <1>1, <1>2, Invariance, PTL DEF Spec, ImplementsAtomicRuns, Atomic!Spec

=============================================================================
