------------------------- MODULE MCInventoryLedger -------------------------
(* One order of each token, both buying.                                   *)
EXTENDS InventoryLedger, TLC

Swap == Permutations(Tokens)
NoSells == {}
=============================================================================
