------------------------------ MODULE MCWallet ------------------------------
(* Instances of Wallet for TLC.                                            *)
EXTENDS Wallet, TLC

CONSTANTS o1, o2, p1, f1, j1, j2

(* A top-up pays for one order, or for two with a cashback.                *)
MCAmount == [m \in Movements |-> IF m.kind \in {"cashback", "reward"} THEN 1
                                 ELSE IF m.kind = "topup" THEN 3 ELSE 2]

(* Nothing tells one order from the other.                                 *)
OrdersAreAlike == Permutations({o1, o2})
=============================================================================
