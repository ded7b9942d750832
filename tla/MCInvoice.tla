------------------------------ MODULE MCInvoice ------------------------------
(* A small instance of Invoice: projects of the same name and of several,  *)
(* and key counts on both sides of what a page takes.                      *)
EXTENDS Invoice, TLC

SomeLayouts ==
  {[names |-> <<1, 1>>, keys |-> <<2, 2>>], [names |-> <<2, 1>>, keys |-> <<0, 1>>]}
    \cup {[names |-> <<1, 2>>, keys |-> counts] : counts \in {<<11, 18>>, <<11, 19>>, <<18, 19>>}}

ADayAndMore == {[start |-> [day |-> 0, second |-> 1],
                 end |-> [day |-> 1, second |-> NONE]]}

(* One is less than half a cent, two are more. *)
SomeCosts == {4}

(* An export before the end has a log that there is at the end, too. *)
ExportsAtTheEnd == answer = << >> \/ clock = End

IdSymmetry == Permutations(Requests)
===============================================================================
