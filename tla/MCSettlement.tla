---------------------------- MODULE MCSettlement ----------------------------
(* Instances of the settlement for TLC. *)
EXTENDS SettlementProperties

CONSTANT m1

\* A share of one outcome; one more may be bought.
MCStart == [m \in Markets |-> [up |-> 1, down |-> 0]]
MCBuys == {m1} \X {"up", "down"}
=============================================================================
