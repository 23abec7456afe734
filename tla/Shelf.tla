-------------------------------- MODULE Shelf --------------------------------
(***************************************************************************)
(* What the stock count promises, with no handlers in sight.               *)
(*                                                                         *)
(* A product has a number of units on the shelf.  An order takes the units *)
(* of one of its lines off the shelf in one step, only when they are all   *)
(* there, and gives back exactly those units, at most once.  The shop can  *)
(* book units in and out.  Module Inventory is the detailed specification  *)
(* of the services that have to keep this promise.                         *)
(***************************************************************************)
EXTENDS Integers, FiniteSets

CONSTANTS
    Orders,     \* order requests, an order being named by its request
    Items,      \* products that carry a count
    Opening     \* the count each product starts with

ShelfAssumption ==
    /\ IsFiniteSet(Orders)
    /\ Opening \in [Items -> Nat]

VARIABLES
    shelf,      \* units of a product that anybody may still buy
    held,       \* units an order has off the shelf
    owned       \* units the shop has booked in less those it booked out

vars == <<shelf, held, owned>>

TypeOK ==
    /\ shelf \in [Items -> Nat]
    /\ held \in [Orders -> [Items -> Nat]]
    /\ owned \in [Items -> Int]

Init ==
    /\ shelf = Opening
    /\ held = [o \in Orders |-> [i \in Items |-> 0]]
    /\ owned = Opening

(* The whole line or nothing: an order never gets part of what it asked.   *)
Take(o, i, n) ==
    /\ held[o][i] = 0
    /\ n \in 1..shelf[i]
    /\ shelf' = [shelf EXCEPT ![i] = @ - n]
    /\ held' = [held EXCEPT ![o][i] = n]
    /\ UNCHANGED owned

(* What comes back is what was taken, and then there is nothing to return. *)
GiveBack(o, i) ==
    /\ held[o][i] > 0
    /\ shelf' = [shelf EXCEPT ![i] = @ + held[o][i]]
    /\ held' = [held EXCEPT ![o][i] = 0]
    /\ UNCHANGED owned

(* The shop changes the count itself, and knows by how much.               *)
Book(i) ==
    /\ shelf'[i] \in Nat
    /\ shelf' = [shelf EXCEPT ![i] = shelf'[i]]
    /\ owned' = [owned EXCEPT ![i] = @ + (shelf'[i] - shelf[i])]
    /\ UNCHANGED held

Next ==
    \/ \E o \in Orders, i \in Items : \E n \in 1..shelf[i] : Take(o, i, n)
    \/ \E o \in Orders, i \in Items : GiveBack(o, i)
    \/ \E i \in Items : Book(i)

Spec == Init /\ [][Next]_vars

-----------------------------------------------------------------------------
(* The units of a product that are off the shelf, one token for each.      *)
Units(o, n) == {o} \X (1..n)
OffTheShelf(i) == UNION {Units(o, held[o][i]) : o \in Orders}

(***************************************************************************)
(* No unit is invented and none disappears: for every product, what is on  *)
(* the shelf and what the orders hold is what the shop owns (the comment   *)
(* above restoreOrderStock in inventory.service.js: "a double restock      *)
(* would quietly invent inventory").                                       *)
(***************************************************************************)
Conserved ==
    \A i \in Items : shelf[i] + Cardinality(OffTheShelf(i)) = owned[i]
=============================================================================
