------------------------------ MODULE MCPricing ------------------------------
(* A small instance of Pricing. *)
EXTENDS Pricing, TLC
==============================================================================
