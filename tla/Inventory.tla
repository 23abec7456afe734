------------------------------ MODULE Inventory ------------------------------
(***************************************************************************)
(* The stock count of the shop's products under concurrent orders.         *)
(*                                                                         *)
(* An order request (createOrder) reserves its lines one conditional       *)
(* update at a time, claims a delivery slot, saves the order document and, *)
(* when the customer pays by wallet, debits the wallet.  A refusal on the  *)
(* way puts back what was taken; an exception nobody catches does not.     *)
(* Once the order is saved, any number of handlers may try to end it: a    *)
(* cancellation by customer, seller or support, the acceptance timeout,    *)
(* the clean-up of unpaid orders, an admin's delete.  Each of them calls   *)
(* restoreOrderStock, while the rider may be confirming the pickup of the  *)
(* same order.                                                             *)
(*                                                                         *)
(* One action is one database call; everything a handler keeps between two *)
(* calls is in its variables.  A server may die between any two calls.  A  *)
(* call may throw: where a product is put back the code logs it and goes   *)
(* on, elsewhere the exception ends the request or the handler.            *)
(***************************************************************************)
EXTENDS Integers, FiniteSets

CONSTANTS
    Orders,     \* order requests, an order being named by its request
    Items,      \* products
    Untracked,  \* products whose stockQty is null
    Handlers,   \* invocations that may end an order
    Baskets,    \* what a customer may order: a quantity of each product
    Opening,    \* the count each product starts with
    Counts,     \* the counts the shop may set by hand
    MaxShocks   \* bound on the crashes, exceptions and hand-set counts

Tracked == Items \ Untracked
Agents == Orders \cup Handlers

ASSUME InventoryAssumption ==
    /\ IsFiniteSet(Orders)
    /\ Untracked \subseteq Items
    /\ Orders \cap Handlers = {}
    /\ Baskets \subseteq {b \in [Items -> Nat] : \E i \in Items : b[i] > 0}
    /\ Counts \subseteq Nat
    /\ MaxShocks \in Nat
    /\ Opening \in [Tracked -> Nat]

VARIABLES
    stockQty,   \* FoodItem.stockQty of the tracked products
    owned,      \* the shop's bookings: opening count and adjustStock
    cart,       \* totalQuantityByItem of each order
    req,        \* where the order's createOrder is
    todo,       \* the products it still has to reserve
    taken,      \* the products it reserved (on the document once saved)
    status,     \* orderStatus of the document, "none" before the save
    restoredAt, \* is stockRestoredAt set?
    collected,  \* pickedUpAt, or a collected status in statusHistory
    rider,      \* has confirmPickupDelivery read the order, but not saved?
    job,        \* what each handler knows about the order it is ending
    put,        \* the products an agent still has to put back
    lost,       \* units a crash or an exception left off the shelf
    stranded,   \* orders whose expiry crashed between status and stock
    shocks      \* crashes, exceptions and hand-set counts so far

request == <<cart, req, todo, taken>>
ghost == <<lost, stranded, shocks>>
document == <<status, restoredAt, collected, rider>>
vars == <<stockQty, owned, request, document, job, put, ghost>>

Phases == {"idle", "reserving", "releasing", "saved", "undoing",
           "done", "rejected", "threw", "dead"}
Statuses == {"none", "placed", "picked_up", "cancelled", "deleted"}
Idle == [phase |-> "idle"]
Jobs == [phase : {"loaded", "returning"},
         kind : {"cancel", "delete", "expire"},
         order : Orders,
         collected : BOOLEAN]

TypeOK ==
    /\ stockQty \in [Tracked -> Nat]
    /\ owned \in [Tracked -> Int]
    /\ cart \in [Orders -> [Items -> Nat]]
    /\ req \in [Orders -> Phases]
    /\ todo \in [Orders -> SUBSET Items]
    /\ taken \in [Orders -> SUBSET Tracked]
    /\ status \in [Orders -> Statuses]
    /\ restoredAt \in [Orders -> BOOLEAN]
    /\ collected \in [Orders -> BOOLEAN]
    /\ rider \in [Orders -> BOOLEAN]
    /\ job \in [Handlers -> Jobs \cup {Idle}]
    /\ put \in [Agents -> SUBSET Tracked]
    /\ lost \subseteq Orders \X Tracked
    /\ stranded \subseteq Orders
    /\ shocks \in 0..MaxShocks

(* The products the order's lines name that carry a count.                 *)
Lines(o) == {i \in Tracked : cart[o][i] > 0}
Exists(o) == status[o] \in {"placed", "picked_up", "cancelled"}
Busy(h) == job[h] # Idle
(* Is agent a putting back, or about to put back, units of order o?        *)
WorksFor(a, o) == IF a \in Orders THEN a = o ELSE Busy(a) /\ job[a].order = o

Shock == shocks < MaxShocks /\ shocks' = shocks + 1

Init ==
    /\ stockQty = Opening
    /\ owned = Opening
    /\ cart = [o \in Orders |-> [i \in Items |-> 0]]
    /\ req = [o \in Orders |-> "idle"]
    /\ todo = [o \in Orders |-> {}]
    /\ taken = [o \in Orders |-> {}]
    /\ status = [o \in Orders |-> "none"]
    /\ restoredAt = [o \in Orders |-> FALSE]
    /\ collected = [o \in Orders |-> FALSE]
    /\ rider = [o \in Orders |-> FALSE]
    /\ job = [h \in Handlers |-> Idle]
    /\ put = [a \in Agents |-> {}]
    /\ lost = {}
    /\ stranded = {}
    /\ shocks = 0

-----------------------------------------------------------------------------
(* createOrder: the reservation                                            *)

Place(o, c) ==
    /\ req[o] = "idle"
    /\ cart' = [cart EXCEPT ![o] = c]
    /\ todo' = [todo EXCEPT ![o] = {i \in Items : c[i] > 0}]
    /\ req' = [req EXCEPT ![o] = "reserving"]
    /\ UNCHANGED <<stockQty, owned, taken, document, job, put, ghost>>

(* A mistake the runs must notice: the decrement does not check the count. *)
ReserveLineUnchecked(o, i) ==
    /\ req[o] = "reserving"
    /\ i \in todo[o] \cap Tracked
    /\ stockQty' = [stockQty EXCEPT ![i] = @ - cart[o][i]]
    /\ taken' = [taken EXCEPT ![o] = @ \cup {i}]
    /\ todo' = [todo EXCEPT ![o] = @ \ {i}]
    /\ UNCHANGED <<owned, cart, req, document, job, put, ghost>>

(* The conditional decrement: the check and the write are one update.      *)
ReserveLine(o, i) ==
    /\ req[o] = "reserving"
    /\ i \in todo[o] \cap Tracked
    /\ stockQty[i] >= cart[o][i]
    /\ stockQty' = [stockQty EXCEPT ![i] = @ - cart[o][i]]
    /\ taken' = [taken EXCEPT ![o] = @ \cup {i}]
    /\ todo' = [todo EXCEPT ![o] = @ \ {i}]
    /\ UNCHANGED <<owned, cart, req, document, job, put, ghost>>

PassUntracked(o, i) ==
    /\ req[o] = "reserving"
    /\ i \in todo[o] \cap Untracked
    /\ todo' = [todo EXCEPT ![o] = @ \ {i}]
    /\ UNCHANGED <<stockQty, owned, cart, req, taken, document, job, put, ghost>>

(* A mistake the runs must notice: a failed request puts nothing back.     *)
StartReleaseForgetting(o) ==
    /\ req' = [req EXCEPT ![o] = "releasing"]
    /\ taken' = [taken EXCEPT ![o] = {}]
    /\ UNCHANGED <<stockQty, owned, cart, todo, document, job, put, ghost>>

(* From here on the request only puts back what it took.                   *)
StartRelease(o) ==
    /\ req' = [req EXCEPT ![o] = "releasing"]
    /\ put' = [put EXCEPT ![o] = taken[o]]
    /\ taken' = [taken EXCEPT ![o] = {}]
    /\ UNCHANGED <<stockQty, owned, cart, todo, document, job, ghost>>

(* A line that comes up short; or one whose product is gone or past its    *)
(* date, which this module does not follow and so allows at any time.      *)
RefuseLine(o) ==
    /\ req[o] = "reserving"
    /\ todo[o] # {}
    /\ StartRelease(o)

(* The slot is full, or the document cannot be written.                    *)
SeatOrSaveFails(o) ==
    /\ req[o] = "reserving"
    /\ todo[o] = {}
    /\ StartRelease(o)

SaveOrder(o) ==
    /\ req[o] = "reserving"
    /\ todo[o] = {}
    /\ status' = [status EXCEPT ![o] = "placed"]
    /\ req' = [req EXCEPT ![o] = "saved"]
    /\ UNCHANGED <<stockQty, owned, cart, todo, taken, restoredAt, collected,
                   rider, job, put, ghost>>

ReleaseDone(o) ==
    /\ req[o] = "releasing"
    /\ put[o] = {}
    /\ req' = [req EXCEPT ![o] = "rejected"]
    /\ UNCHANGED <<stockQty, owned, cart, todo, taken, document, job, put, ghost>>

(* No wallet to debit, or the debit went through.                          *)
Charged(o) ==
    /\ req[o] = "saved"
    /\ req' = [req EXCEPT ![o] = "done"]
    /\ UNCHANGED <<stockQty, owned, cart, todo, taken, document, job, put, ghost>>

-----------------------------------------------------------------------------
(* restoreOrderStock                                                       *)

(* A mistake the runs must notice: whoever ends the order puts its units   *)
(* back, claimed or not.                                                   *)
ClaimRestoreAgain(a, o, sawCollected) ==
    IF ~sawCollected /\ taken[o] # {} /\ Exists(o)
    THEN /\ restoredAt' = [restoredAt EXCEPT ![o] = TRUE]
         /\ put' = [put EXCEPT ![a] = Lines(o)]
    ELSE UNCHANGED <<restoredAt, put>>

(* The claim on stockRestoredAt, one conditional update of the document.   *)
(* The caller's copy of the order said whether the goods had left.         *)
ClaimRestore(a, o, sawCollected) ==
    IF ~sawCollected /\ taken[o] # {} /\ Exists(o) /\ ~restoredAt[o]
    THEN /\ restoredAt' = [restoredAt EXCEPT ![o] = TRUE]
         /\ put' = [put EXCEPT ![a] = Lines(o)]
    ELSE UNCHANGED <<restoredAt, put>>

(* incrementStock, for one product of the claimed lines.                   *)
PutBack(a, o, i) ==
    /\ WorksFor(a, o)
    /\ i \in put[a]
    /\ stockQty' = [stockQty EXCEPT ![i] = @ + cart[o][i]]
    /\ put' = [put EXCEPT ![a] = @ \ {i}]
    /\ UNCHANGED <<owned, request, document, job, ghost>>

(* The update throws: logged as critical, and the loop goes on.            *)
PutBackFails(a, o, i) ==
    /\ WorksFor(a, o)
    /\ i \in put[a]
    /\ put' = [put EXCEPT ![a] = @ \ {i}]
    /\ Shock
    /\ lost' = lost \cup {<<o, i>>}
    /\ UNCHANGED <<stockQty, owned, request, document, job, stranded>>

(* A mistake the runs must notice: the uncharged order is deleted without  *)
(* a restore.                                                              *)
ChargeFailsKeeping(o) ==
    /\ req[o] = "saved"
    /\ req' = [req EXCEPT ![o] = "undoing"]
    /\ UNCHANGED <<stockQty, owned, cart, todo, taken, document, job, put, ghost>>

(* createOrder: the wallet refuses, after the order was saved.             *)
ChargeFails(o) ==
    /\ req[o] = "saved"
    /\ req' = [req EXCEPT ![o] = "undoing"]
    /\ ClaimRestore(o, o, FALSE)
    /\ UNCHANGED <<stockQty, owned, cart, todo, taken, status, collected, rider,
                   job, ghost>>

DeleteUncharged(o) ==
    /\ req[o] = "undoing"
    /\ put[o] = {}
    /\ req' = [req EXCEPT ![o] = "rejected"]
    /\ status' = [status EXCEPT ![o] = "deleted"]
    /\ UNCHANGED <<stockQty, owned, cart, todo, taken, restoredAt, collected,
                   rider, job, put, ghost>>

-----------------------------------------------------------------------------
(* The handlers that end an order                                          *)

Load(h, o, kind) ==
    job' = [job EXCEPT ![h] = [phase |-> "loaded", kind |-> kind, order |-> o,
                               collected |-> collected[o]]]

(* cancelOrder, updateOrderStatusRestaurant and updateOrderStatusAdmin     *)
(* check the status on the document they read.                             *)
LoadToCancel(h, o) ==
    /\ ~Busy(h)
    /\ status[o] \in {"placed", "picked_up"}
    /\ Load(h, o, "cancel")
    /\ UNCHANGED <<stockQty, owned, request, document, put, ghost>>

(* deleteOrderAdmin and deletePendingPaymentOrder delete it afterwards.    *)
LoadToDelete(h, o) ==
    /\ ~Busy(h)
    /\ Exists(o)
    /\ Load(h, o, "delete")
    /\ UNCHANGED <<stockQty, owned, request, document, put, ghost>>

(* expireUnacceptedOrders takes the status first, in one update.           *)
Expire(h, o) ==
    /\ ~Busy(h)
    /\ status[o] = "placed"
    /\ status' = [status EXCEPT ![o] = "cancelled"]
    /\ Load(h, o, "expire")
    /\ UNCHANGED <<stockQty, owned, request, restoredAt, collected, rider, put, ghost>>

(* A mistake the runs must notice: the acceptance timeout restores         *)
(* nothing.                                                                *)
RestoreUnlessExpired(h) ==
    /\ Busy(h)
    /\ job[h].phase = "loaded"
    /\ IF job[h].kind = "expire" THEN UNCHANGED <<restoredAt, put>>
       ELSE ClaimRestore(h, job[h].order, job[h].collected)
    /\ job' = [job EXCEPT ![h].phase = "returning"]
    /\ UNCHANGED <<stockQty, owned, request, status, collected, rider, ghost>>

Restore(h) ==
    /\ Busy(h)
    /\ job[h].phase = "loaded"
    /\ ClaimRestore(h, job[h].order, job[h].collected)
    /\ job' = [job EXCEPT ![h].phase = "returning"]
    /\ UNCHANGED <<stockQty, owned, request, status, collected, rider, ghost>>

(* The save writes the status over whatever is there; it throws when the   *)
(* document is gone.                                                       *)
Finish(h) ==
    /\ Busy(h)
    /\ job[h].phase = "returning"
    /\ put[h] = {}
    /\ LET o == job[h].order IN
       status' = CASE job[h].kind = "cancel" /\ Exists(o) ->
                          [status EXCEPT ![o] = "cancelled"]
                   [] job[h].kind = "delete" ->
                          [status EXCEPT ![o] = "deleted"]
                   [] OTHER -> status
    /\ job' = [job EXCEPT ![h] = Idle]
    /\ UNCHANGED <<stockQty, owned, request, restoredAt, collected, rider, put, ghost>>

-----------------------------------------------------------------------------
(* confirmPickupDelivery reads the order, checks it, and saves it later.   *)
(* No rider is sent before createOrder has returned, thrown or died.       *)

RiderReads(o) ==
    /\ ~rider[o]
    /\ status[o] = "placed"
    /\ req[o] \in {"done", "threw", "dead"}
    /\ rider' = [rider EXCEPT ![o] = TRUE]
    /\ UNCHANGED <<stockQty, owned, request, status, restoredAt, collected, job,
                   put, ghost>>

RiderSaves(o) ==
    /\ rider[o]
    /\ rider' = [rider EXCEPT ![o] = FALSE]
    /\ IF Exists(o)
       THEN /\ status' = [status EXCEPT ![o] = "picked_up"]
            /\ collected' = [collected EXCEPT ![o] = TRUE]
       ELSE UNCHANGED <<status, collected>>
    /\ UNCHANGED <<stockQty, owned, request, restoredAt, job, put, ghost>>

-----------------------------------------------------------------------------
(* adjustStock: add, remove (refused when there is too little) and set.    *)

AdjustStock(i, n) ==
    /\ Shock
    /\ stockQty' = [stockQty EXCEPT ![i] = n]
    /\ owned' = [owned EXCEPT ![i] = @ + (n - stockQty[i])]
    /\ UNCHANGED <<request, document, job, put, lost, stranded>>

-----------------------------------------------------------------------------
(* What a request or a handler had only in its memory is forgotten.        *)

Abandon(o) ==
    /\ Shock
    /\ lost' = lost \cup ({o} \X (put[o] \cup IF status[o] = "none" THEN taken[o] ELSE {}))
    /\ put' = [put EXCEPT ![o] = {}]
    /\ UNCHANGED <<stockQty, owned, cart, todo, taken, document, job, stranded>>

(* A call that createOrder does not guard throws: a query of the           *)
(* reservation loop or claimSlotSeat, and nothing is released; or          *)
(* restoreOrderStock or deleteOne after the wallet's refusal, and the      *)
(* order stays, with its units or, once claimed, without them.             *)
RequestThrows(o) ==
    /\ req[o] \in {"reserving", "saved", "undoing"}
    /\ req' = [req EXCEPT ![o] = "threw"]
    /\ Abandon(o)

(* The server dies.                                                        *)
CrashRequest(o) ==
    /\ req[o] \in {"reserving", "releasing", "saved", "undoing"}
    /\ req' = [req EXCEPT ![o] = "dead"]
    /\ Abandon(o)

(* The server dies, or a call of the handler throws.                       *)
CrashHandler(h) ==
    /\ Busy(h)
    /\ Shock
    /\ lost' = lost \cup ({job[h].order} \X put[h])
    /\ put' = [put EXCEPT ![h] = {}]
    /\ job' = [job EXCEPT ![h] = Idle]
    /\ stranded' = IF job[h].kind = "expire" /\ job[h].phase = "loaded"
                   THEN stranded \cup {job[h].order} ELSE stranded
    /\ UNCHANGED <<stockQty, owned, request, document>>

-----------------------------------------------------------------------------
RequestStep(o) ==
    \/ \E c \in Baskets : Place(o, c)
    \/ \E i \in Items : ReserveLine(o, i) \/ PassUntracked(o, i)
    \/ RefuseLine(o) \/ SeatOrSaveFails(o)
    \/ SaveOrder(o) \/ ReleaseDone(o) \/ Charged(o)
    \/ ChargeFails(o) \/ DeleteUncharged(o)

HandlerStep(h) ==
    \/ \E o \in Orders : LoadToCancel(h, o) \/ LoadToDelete(h, o) \/ Expire(h, o)
    \/ Restore(h) \/ Finish(h)

Next ==
    \/ \E o \in Orders : RequestStep(o)
    \/ \E h \in Handlers : HandlerStep(h)
    \/ \E a \in Agents, o \in Orders, i \in Tracked :
           PutBack(a, o, i) \/ PutBackFails(a, o, i)
    \/ \E o \in Orders : RiderReads(o) \/ RiderSaves(o)
    \/ \E i \in Tracked, n \in Counts : AdjustStock(i, n)
    \/ \E o \in Orders : RequestThrows(o) \/ CrashRequest(o)
    \/ \E h \in Handlers : CrashHandler(h)

Spec == Init /\ [][Next]_vars

-----------------------------------------------------------------------------
(* Is the quantity of product i that order o asks for off the shelf on its *)
(* account: in the request's memory, on the saved document, in the hands   *)
(* of whoever puts it back, or lost?                                       *)
HeldByRequest(o, i) == req[o] = "reserving" /\ i \in taken[o]
HeldByDocument(o, i) == status[o] # "none" /\ ~restoredAt[o] /\ i \in taken[o]
InHand(o, i) == \E a \in Agents : WorksFor(a, o) /\ i \in put[a]
Holds(o, i) ==
    HeldByRequest(o, i) \/ HeldByDocument(o, i) \/ InHand(o, i) \/ <<o, i>> \in lost

Held == [o \in Orders |-> [i \in Tracked |-> IF Holds(o, i) THEN cart[o][i] ELSE 0]]

Promise == INSTANCE Shelf WITH Items <- Tracked, shelf <- stockQty, held <- Held

(***************************************************************************)
(* Every step of the services is a step of module Shelf or none: a line is *)
(* taken whole or not at all, and what an order gives back is what it took *)
(* and goes back once, however many handlers end the order at the same     *)
(* time and wherever a server dies (reserveStockForItems,                  *)
(* releaseReservations and restoreOrderStock of inventory.service.js).     *)
(***************************************************************************)
KeepsThePromise == Promise!Spec

(***************************************************************************)
(* For every product, the count and what the orders hold are what the shop *)
(* booked: no double restock invents units, none is sold twice.            *)
(***************************************************************************)
Conserved == Promise!Conserved

(***************************************************************************)
(* An order that createOrder has refused, and undone, holds nothing but    *)
(* what is in the hands of a handler that ends it, and what failed updates *)
(* left off the shelf: whether a line came up short, the window was full,  *)
(* the save failed or the wallet refused (the callers of                   *)
(* releaseReservations, and the catch of the wallet debit).  Requests that *)
(* end in another exception ("threw") give nothing back and are not among  *)
(* them: RejectedLeavesTheShelf says what the comment promises of those.   *)
(***************************************************************************)
RejectedHoldsNothing ==
    \A o \in Orders : req[o] = "rejected" =>
        \A i \in Tracked : Holds(o, i) => InHand(o, i) \/ <<o, i>> \in lost

(***************************************************************************)
(* "A rejected order must leave the shelf exactly as it found it" (comment *)
(* above reserveStockForItems), for every request that did not give its    *)
(* customer an order.  The code does not keep this: see README.            *)
(***************************************************************************)
RejectedLeavesTheShelf ==
    \A o \in Orders : req[o] \in {"rejected", "threw"} /\ status[o] = "none" =>
        \A i \in Tracked : ~Holds(o, i)

(***************************************************************************)
(* An order that was cancelled or deleted before it was collected, and     *)
(* that nobody is working on, holds nothing: whichever of the competing    *)
(* handlers won the claim put the units back (restoreOrderStock).          *)
(***************************************************************************)
EndedOrdersReturnTheirStock ==
    \A o \in Orders :
        (/\ status[o] \in {"cancelled", "deleted"}
         /\ ~collected[o]
         /\ \A h \in Handlers : ~WorksFor(h, o)
         /\ req[o] # "undoing"
         /\ o \notin stranded)
        => \A i \in Tracked : Holds(o, i) => <<o, i>> \in lost

(***************************************************************************)
(* "Goods a rider has collected are not on the shelf, whoever is asking"   *)
(* (comment in restoreOrderStock).                                         *)
(***************************************************************************)
CollectedIsNotRestocked ==
    \A o \in Orders : ~(collected[o] /\ restoredAt[o])
=============================================================================
