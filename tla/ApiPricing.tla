----------------------------- MODULE ApiPricing -----------------------------
(***************************************************************************)
(* The prices that the pricing collector reads out of intercepted API      *)
(* responses: _extract_pricing_from_api.  A JSON value is what it is used  *)
(* as: text, the string it is, and amount, the number it is or, as a       *)
(* string, holds; Null: it is no string, it holds no number.               *)
(***************************************************************************)
EXTENDS Lists, SequencesExt

CONSTANTS
  Dicts,  \* JSON objects
  Field,  \* Field[d]: the values of those of its keys that are looked at
  Parts,  \* Parts[d]: the objects among its values, and in lists among them
  Null

ASSUME ApiPricingAssumption == \A d \in Dicts : Parts[d] \in Seq(Dicts)

NameKeys == <<"service_name", "name", "plan_name", "product_name", "title">>

PriceKeys == <<"price", "base_price", "amount", "cost", "rate">>

(* A dictionary that has a key of PriceKeys has pricing fields.            *)
(* The first of the keys that holds a string counts, if it is not empty.   *)
NameOf(d) ==
  LET texts == Chosen(NameKeys, {i \in 1..5 : NameKeys[i] \in DOMAIN Field[d] /\ Field[d][NameKeys[i]].text # Null})
  IN  IF texts = <<>> \/ Field[d][texts[1]].text = "" THEN Null ELSE Field[d][texts[1]].text

(* The first of the keys that is there counts, if it holds a number.       *)
PriceOf(d) ==
  LET keys == Chosen(PriceKeys, {i \in 1..5 : PriceKeys[i] \in DOMAIN Field[d]})
  IN  IF keys = <<>> THEN Null ELSE Field[d][keys[1]].amount

ParsedDict(d) ==
  IF NameOf(d) = Null \/ PriceOf(d) = Null THEN <<>> ELSE <<[name |-> NameOf(d), price |-> PriceOf(d)]>>

(* "if depth > 5" *)
Deepest == 5

(* What an object and so many levels below it give, in document order. *)
ExtractFrom[levels \in 0..Deepest] ==
  [d \in Dicts |->
     ParsedDict(d)
     \o IF levels = 0 THEN <<>>
        ELSE FlattenSeq([i \in DOMAIN Parts[d] |-> ExtractFrom[levels - 1][Parts[d][i]]])]

(* An answer is a JSON object or a list: [list, of]; lists are skipped.    *)
ExtractPricing(answers) ==
  FlattenSeq([i \in DOMAIN answers |->
    IF answers[i].list THEN <<>> ELSE ExtractFrom[Deepest][answers[i].of[1]]])

-----------------------------------------------------------------------------
(* What an answer says of prices, without an order or a depth first.       *)

Within(answer, levels) ==
  LET found[n \in 0..levels] ==
        IF n = 0 THEN Range(answer.of) ELSE found[n - 1] \cup UNION {Range(Parts[d]) : d \in found[n - 1]}
  IN  found[levels]

(* One key gives a name, one gives a price, and no other is in a way.      *)
GivesOnly(d, k, l) ==
  /\ {x \in Range(NameKeys) \cap DOMAIN Field[d] : Field[d][x].text # Null} = {k}
  /\ Range(PriceKeys) \cap DOMAIN Field[d] = {l}
  /\ Field[d][k].text # "" /\ Field[d][l].amount # Null

=============================================================================
