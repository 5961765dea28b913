----------------------------- MODULE KeyedStore -----------------------------
(***************************************************************************)
(* What the tables of collected data promise to the runs that fill them    *)
(* one after the other: a store with at most one value per key, in which   *)
(* the last value that a run puts is the one that its commit keeps, a run  *)
(* that fails leaves no trace, and nothing else ever changes a value.      *)
(***************************************************************************)
CONSTANTS
  Keys,
  Values,
  Absent

VARIABLES
  store,   \* what is committed
  work,    \* the store as the open run sees it
  puts     \* what the run has put: pairs of key and value

vars == <<store, work, puts>>

Init ==
  /\ store = [k \in Keys |-> Absent]
  /\ work = store
  /\ puts = {}

Put ==
  /\ \E k \in Keys, v \in Values :
       /\ work' = [work EXCEPT ![k] = v]
       /\ puts' = puts \cup {<<k, v>>}
  /\ UNCHANGED store

Commit ==
  /\ store' = work
  /\ puts' = {}
  /\ UNCHANGED work

Abort ==
  /\ work' = store
  /\ puts' = {}
  /\ UNCHANGED store

Next == Put \/ Commit \/ Abort

Spec == Init /\ [][Next]_vars
=============================================================================
