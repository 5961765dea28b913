---------------------------- MODULE MCIncremental ---------------------------
(* Instances of IncrementalCollection for TLC. *)
EXTENDS IncrementalCollection, TLC

CONSTANT Home

(* Two modules of the shared fetcher and one of its own, on one URL. *)
OnePage == {<<<<"services", Home>>, <<"content", Home>>>>, <<<<"pricing", Home>>>>}

(* Runs and contents are interchangeable. *)
Symmetry == Permutations(Runs) \cup Permutations(Hashes)

=============================================================================
