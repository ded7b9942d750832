------------------------------ MODULE PriceBook ------------------------------
(***************************************************************************)
(* What the price book of the standard billing promises, with nothing of   *)
(* how: a price is only ever changed by a further version, "added, never   *)
(* overwritten" (migrations/013, model_price_versions), and the versions   *)
(* of a pricing are saved one after the other.  Pricing, with the SQL      *)
(* transactions of administrators who save at once, is shown to implement  *)
(* it, and so is Migrations, where starting processes add versions too.    *)
(***************************************************************************)
EXTENDS Integers

CONSTANTS Ids,          \* model_pricings rows
          Prices,       \* what a version says a token costs
          Times         \* when a version may take effect

Version == [id : Ids, number : Nat \ {0}, price : Prices, from : Times]

VARIABLE book           \* the model_price_versions rows

Of(i) == {v \in book : v.id = i}

(* n is one more than the highest version number of i: COALESCE(MAX, 0) + 1.*)
IsNext(i, n) ==
  /\ n = 1 \/ \E v \in Of(i) : n = v.number + 1
  /\ \A v \in Of(i) : v.number < n

(* The book may begin with a first version of some pricings. *)
Init == /\ book \subseteq Version
        /\ \A v \in book : v.number = 1
        /\ \A v \in book : \A w \in book : v.id = w.id => v = w

Save(i, price, from) ==
  \E n \in {1} \cup {v.number + 1 : v \in Of(i)} :
    /\ IsNext(i, n)
    /\ book' = book \cup {[id |-> i, number |-> n, price |-> price, from |-> from]}

Next == \E i \in Ids, price \in Prices, from \in Times : Save(i, price, from)

Spec == Init /\ [][Next]_book

(***************************************************************************)
(* Numbered: the versions of a pricing bear the numbers 1, 2, ..., none of *)
(* them twice and none left out, so version n was preceded by n - 1 others *)
(* and a reviewer who is given its number finds one price.                 *)
(***************************************************************************)
Numbered ==
  /\ \A v \in book, w \in book : v.id = w.id /\ v.number = w.number => v = w
  /\ \A v \in book : v.number > 1 =>
       \E w \in book : w.id = v.id /\ w.number = v.number - 1
==============================================================================
