-------------------------------- MODULE Lists --------------------------------
(***************************************************************************)
(* Loops over lists that several components have: those that keep some of  *)
(* the items, and sorted() with reverse=True.                              *)
(***************************************************************************)
EXTENDS Naturals, Sequences, FiniteSets

(* The items at some places of a list, in order. *)
Chosen(list, places) ==
  LET chosen[n \in 0..Len(list)] ==
        IF n = 0 THEN <<>> ELSE IF n \in places THEN Append(chosen[n - 1], list[n]) ELSE chosen[n - 1]
  IN  chosen[Len(list)]

(* The places of a list by falling rank; equal ranks stay in order. *)
Sorted(rank) ==
  LET Ahead(i) == {j \in DOMAIN rank : rank[j] > rank[i] \/ (rank[j] = rank[i] /\ j < i)}
  IN  [k \in DOMAIN rank |-> CHOOSE i \in DOMAIN rank : Cardinality(Ahead(i)) = k - 1]

=============================================================================
