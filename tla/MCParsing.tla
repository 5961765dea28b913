----------------------------- MODULE MCParsing ------------------------------
(* Three strategies, two of equal weight, on two pages: one raises on      *)
(* each, one on one of them, and one finds without a price what another    *)
(* one finds at a price.                                                   *)
EXTENDS Parsing, TLC

CONSTANTS semantic_html, json_ld, microdata, home, plans

Order == <<semantic_html, json_ld, microdata>>

Weights == (semantic_html :> 15) @@ (json_ld :> 30) @@ (microdata :> 15)

Price(n, p) == [name |-> n, price |-> p]

Nothing == [raises |-> TRUE, value |-> Null, items |-> <<>>]

Finds(v, items) == [raises |-> FALSE, value |-> v, items |-> items]

SomeFindings ==
  (semantic_html :> (home :> Nothing @@ plans :> Nothing)) @@
  (json_ld :> (home :> Finds("J", <<Price("basic", 1), Price("offer", Null)>>)
               @@ plans :> Nothing)) @@
  (microdata :> (home :> Finds("M", <<Price("basic", 2), Price("offer", 3)>>)
                 @@ plans :> Finds("N", <<Price("pro", 3), Price("unknown", 1)>>)))

Value(t, a) == [text |-> t, amount |-> a]

Objects == 0..7

(* A chain that is too deep, with a price at its second, sixth and seventh *)
(* object, and one whose first name is empty.                              *)
Fields ==
  [d \in Objects |->
     CASE d = 1 -> [name |-> Value("basic", Null), price |-> Value(Null, 4)]
       [] d = 5 -> [title |-> Value("deep", Null), cost |-> Value("from 5", 5)]
       [] d = 6 -> [name |-> Value("deeper", Null), rate |-> Value(Null, 6)]
       [] d = 7 -> [service_name |-> Value("", Null), name |-> Value("hidden", Null), amount |-> Value(Null, 7)]
       [] OTHER -> [name |-> Value("unpriced", Null)]]

Members == [d \in Objects |-> IF d < 6 THEN <<d + 1>> ELSE <<>>]

Object(d) == [list |-> FALSE, of |-> <<d>>]

Answers == {<<>>, <<Object(0)>>, <<[list |-> TRUE, of |-> <<1>>], Object(7), Object(6)>>}
=============================================================================
