----------------------------- MODULE AtomicRuns -----------------------------
(***************************************************************************)
(* What one call of CollectionService.collect_competitor promises to its   *)
(* callers, whatever happens inside it: everything the run stores becomes  *)
(* durable in one step together with its collection_logs row, a run that   *)
(* is not stored leaves nothing, "success" is reported only for a stored   *)
(* run, and a stored run is never undone or stored twice.                  *)
(***************************************************************************)
CONSTANTS
  Runs,       \* the calls of collect_competitor
  Rows        \* the rows a run may upsert

VARIABLES
  durable,    \* durable[r]: rows run r has committed
  logged,     \* logged[r]: the success flag of r's log row, or "none"
  status      \* status[r]: what the call has returned, or "pending"

vars == <<durable, logged, status>>

TypeOK ==
  /\ durable \in [Runs -> SUBSET Rows]
  /\ logged \in [Runs -> {"none", "ok", "errors"}]
  /\ status \in [Runs -> {"pending", "success", "failed", "skipped", "lost"}]

Init ==
  /\ durable = [r \in Runs |-> {}]
  /\ logged = [r \in Runs |-> "none"]
  /\ status = [r \in Runs |-> "pending"]

(* The commit point.  A commit whose acknowledgement is lost is reported
   "failed" although it took effect.                                       *)
Store(r) ==
  /\ status[r] = "pending"
  /\ \E rows \in SUBSET Rows : durable' = [durable EXCEPT ![r] = rows]
  /\ \E flag \in {"ok", "errors"} : logged' = [logged EXCEPT ![r] = flag]
  /\ \E s \in {"success", "failed"} : status' = [status EXCEPT ![r] = s]

(* A run that ends without a commit: it returns an error or a skip, or its
   process dies before it returns.                                         *)
GiveUp(r) ==
  /\ status[r] = "pending"
  /\ \E s \in {"failed", "skipped", "lost"} : status' = [status EXCEPT ![r] = s]
  /\ UNCHANGED <<durable, logged>>

Next == \E r \in Runs : Store(r) \/ GiveUp(r)

Spec == Init /\ [][Next]_vars
=============================================================================
