------------------------------ MODULE MCPricing ------------------------------
(* Small instances of Pricing for TLC. *)
EXTENDS Pricing
=============================================================================
