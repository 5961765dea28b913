---------------------------- MODULE MCCatalogue -----------------------------
(* A file of two names or none, and the other actors of Catalogue.    *)
EXTENDS Catalogue

CONSTANTS a, b

Files == {<<>>, <<a, b>>}
=============================================================================
