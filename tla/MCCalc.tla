------------------------------- MODULE MCCalc -------------------------------
(* 4-bit integers stand for i32: 9 is stored as -7 and 6 + 6 as -4.        *)
EXTENDS Calc

Counts == {2, 6, 9, Null}

SomeBodies ==
  [prompt: Counts, completion: Counts, cached: Counts, write: Counts,
   total: {2, 7, Null}]

PriceOf(input, output, cached, write) ==
  [input |-> input, output |-> output, cached |-> cached, write |-> write]

NoLong == PriceOf(Null, Null, Null, Null)

SomePriceLists ==
  [base: {PriceOf(3, 4, 1, 2), PriceOf(3, 4, Null, 5), PriceOf(3, 4, Null, Null)},
   threshold: {3}, long: {PriceOf(5, Null, Null, 6), PriceOf(5, 6, 1, Null)}]
  \cup [base: {PriceOf(3, 4, 0, Null)}, threshold: {Null, 4}, long: {NoLong}]
=============================================================================
