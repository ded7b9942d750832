------------------------------ MODULE MCStream ------------------------------
(* A small instance of Stream. *)
EXTENDS Stream

OneToken == {1}
=============================================================================
