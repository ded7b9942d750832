----------------------------- MODULE MCMetering -----------------------------
(* Small instances of Metering.  The slots are interchangeable. *)
EXTENDS Metering, TLC

AddOrTake == {2, -1}
Adds      == {1}
ZeroLimit == {0}
TwoLimits == {0, 1}
FreeOrNot == {0, 1}

SlotSymmetry == Permutations(Slots)
=============================================================================
