----------------------------- MODULE StockBatches -----------------------------
(***************************************************************************)
(* The intakes of one product that is tracked by batch.                    *)
(*                                                                         *)
(* The product's count decides whether a sale may happen; the batches say  *)
(* which units leave, the ones that go off first before the others.  An    *)
(* order decrements the count, then reads the batches that are in date     *)
(* (allocateFefo), then claims units of one batch after the other, each in *)
(* one conditional update.  Its release or cancellation returns units to   *)
(* the batches they came from and adds to the count.  A sweep writes       *)
(* expired batches off (writeOffExpiredBatches): it claims the batch, sets *)
(* its remainder to zero, and takes the units out of the count.            *)
(*                                                                         *)
(* Batches are numbered in the order allocateFefo sorts them; the undated  *)
(* ones come last.  Short picks are left out: an order keeps what it was   *)
(* allocated or returns it all.                                            *)
(***************************************************************************)
EXTENDS Integers, FiniteSets, FiniteSetsExt, Functions

CONSTANTS
    Orders,     \* orders of the product
    Batches,    \* intakes, by rank
    Dated,      \* those that expire
    Size,       \* units of each intake
    Quantities, \* what an order may ask for
    Sweeps,     \* invocations of writeOffExpiredBatches
    MaxCrashes  \* bound on the sweeps that die

ASSUME StockBatchesAssumption ==
    /\ IsFiniteSet(Orders) /\ IsFiniteSet(Batches) /\ IsFiniteSet(Sweeps)
    /\ Batches \subseteq Nat /\ Dated \subseteq Batches
    /\ \A b \in Dated, c \in Batches \ Dated : b < c
    /\ Size \in [Batches -> Nat \ {0}]
    /\ Quantities \subseteq Nat \ {0}
    /\ MaxCrashes \in Nat

VARIABLES
    count,      \* FoodItem.stockQty
    batch,      \* status and remainingQty of each intake
    counted,    \* intakes whose units were added to the count
    expired,    \* intakes past their date
    order,      \* each order, from its reservation to its end
    sweep,      \* where each sweep is
    crashes

vars == <<count, batch, counted, expired, order, sweep, crashes>>

NoUnits == [b \in Batches |-> 0]
Absent == [status |-> "absent", left |-> 0]
NewOrder == [at |-> "idle", quantity |-> 0, old |-> {}, seen |-> NoUnits, alloc |-> NoUnits]
Asleep == [at |-> "idle", todo |-> {}, units |-> 0]

TypeOK ==
    /\ count \in Nat
    /\ batch \in [Batches -> [status : {"absent", "active", "written_off"}, left : Nat]]
    /\ counted \subseteq Batches
    /\ expired \subseteq Dated
    /\ order \in [Orders ->
         [at : {"idle", "reserved", "picking", "held", "returning", "ended"},
          quantity : Quantities \cup {0}, old : SUBSET Dated,
          seen : [Batches -> Nat], alloc : [Batches -> Nat]]]
    /\ sweep \in [Sweeps -> [at : {"idle", "claim", "zero", "subtract"},
                             todo : SUBSET Batches, units : Nat]]
    /\ crashes \in 0..MaxCrashes

Init ==
    /\ count = 0
    /\ batch = [b \in Batches |-> Absent]
    /\ counted = {}
    /\ expired = {}
    /\ order = [o \in Orders |-> NewOrder]
    /\ sweep = [s \in Sweeps |-> Asleep]
    /\ crashes = 0

Allocated(o) == SumFunction(order[o].alloc)
First(S) == Min(S)

-----------------------------------------------------------------------------
(* receiveBatch: first the intake, then the count.                         *)

Receive(b) ==
    /\ batch[b] = Absent
    /\ b \notin expired
    /\ batch' = [batch EXCEPT ![b] = [status |-> "active", left |-> Size[b]]]
    /\ UNCHANGED <<count, counted, expired, order, sweep, crashes>>

CountReceived(b) ==
    /\ batch[b] # Absent
    /\ b \notin counted
    /\ count' = count + Size[b]
    /\ counted' = counted \cup {b}
    /\ UNCHANGED <<batch, expired, order, sweep, crashes>>

(* The dates come in the order of the ranks.                               *)
Expire(b) ==
    /\ b \in Dated \ expired
    /\ \A c \in Dated : c < b => c \in expired
    /\ expired' = expired \cup {b}
    /\ UNCHANGED <<count, batch, counted, order, sweep, crashes>>

-----------------------------------------------------------------------------
(* reserveStockForItems of a batch-tracked product, and allocateFefo.      *)

Reserve(o, n) ==
    /\ order[o].at = "idle"
    /\ count >= n
    /\ count' = count - n
    /\ order' = [order EXCEPT ![o].at = "reserved", ![o].quantity = n, ![o].old = expired]
    /\ UNCHANGED <<batch, counted, expired, sweep, crashes>>

(* A mistake the runs must notice: the dates are left to the sweep.        *)
SellableUndated(b) == batch[b].status = "active"

Sellable(b) == batch[b].status = "active" /\ b \notin expired

ReadBatches(o) ==
    /\ order[o].at = "reserved"
    /\ order' = [order EXCEPT
         ![o].at = "picking",
         ![o].seen = [b \in Batches |-> IF Sellable(b) THEN batch[b].left ELSE 0]]
    /\ UNCHANGED <<count, batch, counted, expired, sweep, crashes>>

Listed(o) == {b \in Batches : order[o].seen[b] > 0}
Outstanding(o) == order[o].quantity - Allocated(o)

(* Two mistakes the runs must notice: the update does not ask for the      *)
(* units to be there; its answer is not looked at.                         *)
TakeUnchecked(o, b, take) ==
    /\ batch' = [batch EXCEPT ![b].left = @ - take]
    /\ order' = [order EXCEPT ![o].seen[b] = 0, ![o].alloc[b] = take]

TakeUnread(o, b, take) ==
    /\ batch' = IF batch[b].left >= take THEN [batch EXCEPT ![b].left = @ - take] ELSE batch
    /\ order' = [order EXCEPT ![o].seen[b] = 0, ![o].alloc[b] = take]

(* One conditional update.  A batch that no longer has the units it was    *)
(* read with is passed over, whatever it still has.                        *)
Take(o, b, take) ==
    IF batch[b].left >= take
    THEN /\ batch' = [batch EXCEPT ![b].left = @ - take]
         /\ order' = [order EXCEPT ![o].seen[b] = 0, ![o].alloc[b] = take]
    ELSE /\ order' = [order EXCEPT ![o].seen[b] = 0]
         /\ UNCHANGED batch

Pick(o) ==
    /\ order[o].at = "picking"
    /\ Listed(o) # {} /\ Outstanding(o) > 0
    /\ LET b == First(Listed(o)) IN
       Take(o, b, Min({order[o].seen[b], Outstanding(o)}))
    /\ UNCHANGED <<count, counted, expired, sweep, crashes>>

(* The sale stands even when the batches did not cover it.                 *)
Picked(o) ==
    /\ order[o].at = "picking"
    /\ Listed(o) = {} \/ Outstanding(o) = 0
    /\ order' = [order EXCEPT ![o].at = "held", ![o].seen = NoUnits]
    /\ UNCHANGED <<count, batch, counted, expired, sweep, crashes>>

-----------------------------------------------------------------------------
(* releaseReservations and restoreOrderStock: the batches, then the count. *)

GiveUp(o) ==
    /\ order[o].at = "held"
    /\ order' = [order EXCEPT ![o].at = "returning"]
    /\ UNCHANGED <<count, batch, counted, expired, sweep, crashes>>

(* returnAllocations: a batch that was written off gets nothing back.      *)
ReturnTo(o, b) ==
    /\ order[o].at = "returning"
    /\ order[o].alloc[b] > 0
    /\ batch' = IF batch[b].status = "active"
                THEN [batch EXCEPT ![b].left = @ + order[o].alloc[b]] ELSE batch
    /\ order' = [order EXCEPT ![o].alloc[b] = 0]
    /\ UNCHANGED <<count, counted, expired, sweep, crashes>>

Restock(o) ==
    /\ order[o].at = "returning"
    /\ order[o].alloc = NoUnits
    /\ count' = count + order[o].quantity
    /\ order' = [order EXCEPT ![o].at = "ended", ![o].quantity = 0]
    /\ UNCHANGED <<batch, counted, expired, sweep, crashes>>

-----------------------------------------------------------------------------
(* writeOffExpiredBatches                                                  *)

FindExpired(s) ==
    LET found == {b \in expired : batch[b].status = "active" /\ batch[b].left > 0} IN
    /\ sweep[s].at = "idle"
    /\ found # {}
    /\ sweep' = [sweep EXCEPT ![s].at = "claim", ![s].todo = found]
    /\ UNCHANGED <<count, batch, counted, expired, order, crashes>>

NextBatch(s) ==
    LET rest == sweep[s].todo \ {First(sweep[s].todo)} IN
    sweep' = [sweep EXCEPT ![s] = [at |-> IF rest = {} THEN "idle" ELSE "claim",
                                   todo |-> rest, units |-> 0]]

(* A mistake the runs must notice: a batch is written off again.           *)
ClaimWriteOffAgain(s) ==
    LET b == First(sweep[s].todo) IN
    /\ sweep[s].at = "claim"
    /\ batch' = [batch EXCEPT ![b].status = "written_off"]
    /\ sweep' = [sweep EXCEPT ![s].at = "zero", ![s].units = batch[b].left]
    /\ UNCHANGED <<count, counted, expired, order, crashes>>

ClaimWriteOff(s) ==
    LET b == First(sweep[s].todo) IN
    /\ sweep[s].at = "claim"
    /\ IF batch[b].status = "active"
       THEN /\ batch' = [batch EXCEPT ![b].status = "written_off"]
            /\ sweep' = [sweep EXCEPT ![s].at = "zero", ![s].units = batch[b].left]
       ELSE NextBatch(s) /\ UNCHANGED batch
    /\ UNCHANGED <<count, counted, expired, order, crashes>>

Zero(s) ==
    /\ sweep[s].at = "zero"
    /\ batch' = [batch EXCEPT ![First(sweep[s].todo)].left = 0]
    /\ IF sweep[s].units = 0 THEN NextBatch(s)
       ELSE sweep' = [sweep EXCEPT ![s].at = "subtract"]
    /\ UNCHANGED <<count, counted, expired, order, crashes>>

(* The update matches only a count that covers the units.                  *)
Subtract(s) ==
    /\ sweep[s].at = "subtract"
    /\ count' = IF count >= sweep[s].units THEN count - sweep[s].units ELSE count
    /\ NextBatch(s)
    /\ UNCHANGED <<batch, counted, expired, order, crashes>>

CrashSweep(s) ==
    /\ sweep[s] # Asleep
    /\ crashes < MaxCrashes
    /\ crashes' = crashes + 1
    /\ sweep' = [sweep EXCEPT ![s] = Asleep]
    /\ UNCHANGED <<count, batch, counted, expired, order>>

-----------------------------------------------------------------------------
OrderStep(o) ==
    \/ \E n \in Quantities : Reserve(o, n)
    \/ ReadBatches(o) \/ Pick(o) \/ Picked(o)
    \/ GiveUp(o) \/ Restock(o)
    \/ \E b \in Batches : ReturnTo(o, b)

SweepStep(s) ==
    FindExpired(s) \/ ClaimWriteOff(s) \/ Zero(s) \/ Subtract(s) \/ CrashSweep(s)

Next ==
    \/ \E b \in Batches : Receive(b) \/ CountReceived(b) \/ Expire(b)
    \/ \E o \in Orders : OrderStep(o)
    \/ \E s \in Sweeps : SweepStep(s)

Spec == Init /\ [][Next]_vars

-----------------------------------------------------------------------------
Quiet ==
    /\ \A o \in Orders : order[o].at \in {"idle", "held", "ended"}
    /\ \A s \in Sweeps : sweep[s].at = "idle"
    /\ \A b \in Batches : batch[b] # Absent => b \in counted

(***************************************************************************)
(* An intake that is on sale accounts for all its units: what it has left  *)
(* and what the orders were allocated from it is what arrived, although    *)
(* each of them claimed and returned units from an old reading of the list *)
(* (allocateFefo, returnAllocations).  A recall finds every unit.          *)
(***************************************************************************)
ActiveBatchesAddUp ==
    \A b \in Batches : batch[b].status = "active" =>
        batch[b].left + SumFunction([o \in Orders |-> order[o].alloc[b]]) = Size[b]

(***************************************************************************)
(* "Expired units never leave the shelf, whatever the count says and       *)
(* whether or not the write-off sweep has run yet" (allocateFefo): no      *)
(* order holds a unit of an intake that was past its date when it came.    *)
(***************************************************************************)
ExpiredUnitsAreNotPicked ==
    \A o \in Orders : \A b \in order[o].old : order[o].alloc[b] = 0

(***************************************************************************)
(* "Writing a batch off twice would take its units out of the count twice" *)
(* (writeOffExpiredBatches): the count has lost no more than the orders    *)
(* hold and the intakes that were written off ever had, with any number of *)
(* sweeps at once.                                                         *)
(***************************************************************************)
CountLosesOnlyWhatExpired ==
    LET writtenOff == {b \in Batches : batch[b].status = "written_off"} IN
    count + SumFunction([o \in Orders |-> order[o].quantity])
          + SumFunctionOnSet(Size, writtenOff)
        >= SumFunctionOnSet(Size, counted)

(***************************************************************************)
(* "Its remainingQty goes to zero and the units leave stockQty with it, so *)
(* expired stock cannot be sold by either route" (stockBatch.model.js):    *)
(* once every expired intake is written off and nobody is at work, the     *)
(* count offers no more than the intakes on sale have.                     *)
(***************************************************************************)
ExpiredStockIsOutOfTheCount ==
    Quiet /\ (\A b \in expired : batch[b].status # "active")
        => count <= SumFunction([b \in Batches |-> IF Sellable(b) THEN batch[b].left ELSE 0])
=============================================================================
