----------------------------- MODULE MCChargeTx -----------------------------
(* A small instance of ChargeTx. *)
EXTENDS ChargeTx

AddOrTake == {2, -1}
FreeOrNot == {0, 1}
=============================================================================
