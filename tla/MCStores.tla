------------------------------ MODULE MCStores -----------------------------
(* Small limits for each of the stores: pages of two spellings, one of     *)
(* them worth more; answers with a validator, a max-age and a hash, or     *)
(* with a hash alone.  The token bucket of the fetcher beside them, with   *)
(* its fairness.                                                           *)
EXTENDS Stores, RateLimiter, TLC

CONSTANTS p1, p2, p3

KeyOf == p1 :> p1 @@ p2 :> p1 @@ p3 :> p3

ValueOf == p1 :> 15 @@ p2 :> 15 @@ p3 :> 3

ValueOfSource == "nav" :> 10 @@ "internal_link" :> 2

UpToTwo == 0..2

FullAndBare ==
  {[etag |-> h, control |-> "max-age", hash |-> h] : h \in Hashes}
    \cup {[etag |-> NoHash, control |-> "none", hash |-> h] : h \in Hashes}

process == <<stores, bucket>>

Alone(A) == part = "bucket" /\ A /\ UNCHANGED stores

ProcessInit == StoresInit /\ BucketInit

ProcessNext == (StoresNext /\ UNCHANGED bucket) \/ Alone(BucketNext)

ProcessSpec ==
  /\ ProcessInit /\ [][ProcessNext]_process
  /\ WF_process(Alone(TakeLock)) /\ WF_process(Alone(Wake)) /\ WF_process(Alone(Tick))

=============================================================================
