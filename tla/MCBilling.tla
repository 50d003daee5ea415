------------------------------- MODULE MCBilling -----------------------------
(* Values of the billing constants for TLC.                                *)
EXTENDS Billing, TLC

CONSTANTS a, b, c, h1, h2

Permuted == Permutations({a, b, c})

=============================================================================
