--------------------------- MODULE MCOrderManager ---------------------------
(* Commands for TLC's instances of OrderManager.                           *)
EXTENDS OrderManagerInvariant, TLC

CONSTANTS up, down    (* the two outcome tokens *)

Q(px, sz) == [px |-> px, sz |-> sz]

Stop  == NoOrders
K(t, l) == <<t, "buy", l>>

(* Both tokens quoted at the touch, at one of two prices.                  *)
Both(px, sz) == [k \in Keys |-> IF LevelOf(k) = 0 THEN Q(px, sz) ELSE None]
UpLadder(px) == [k \in Keys |-> IF TokenOf(k) = up THEN Q(px - LevelOf(k), 1) ELSE None]

PairStop     == {Stop, Both(2, 1)}
RelevelCommands == {Stop, UpLadder(3)}

(* The tokens are interchangeable where the commands treat them alike.     *)
Swap == Permutations(Tokens)
=============================================================================
