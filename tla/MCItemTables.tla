---------------------------- MODULE MCItemTables ----------------------------
(* Services and prices in two spellings of one name, articles, company     *)
(* pages and profiles.  Contents 1 and 3 differ only in columns that the   *)
(* hash does not cover.  Sources and raw pages are keyed and updated like  *)
(* profiles and articles.                                                  *)
EXTENDS ItemTables, TLC

CONSTANTS A, a, B

Spelling == (A :> A) @@ (a :> A) @@ (B :> B)

Covered == (1 :> 1) @@ (2 :> 2) @@ (3 :> 1)

Item(t, n, d) == [table |-> t, name |-> n, data |-> d]

Offers ==
  {Item("services", A, d) : d \in {1, 2, 3}} \cup
  {Item("services", a, 1), Item("pricing", A, 1), Item("pricing", a, 1), Item("pricing", A, 2),
   Item("content", A, 1), Item("content", A, 3), Item("company", A, 1), Item("company", B, 2),
   Item("social", B, 1)}

(* Articles whose addresses differ in case, of one title. *)
Articles == {Item("content", n, d) : n \in {A, a}, d \in {1, 2, 3}}
=============================================================================
