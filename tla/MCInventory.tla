----------------------------- MODULE MCInventory -----------------------------
(* An instance of Inventory for TLC: three cartons of milk, two orders     *)
(* that each want two of them and a bag that nobody counts, and two        *)
(* handlers that may end either order.                                     *)
EXTENDS Inventory, TLC

CONSTANTS o1, o2, milk, bag, h1, h2

MCOpening == milk :> 3
MCBaskets == {milk :> 2 @@ bag :> 1}
Symmetry == Permutations({o1, o2}) \cup Permutations({h1, h2})
=============================================================================
