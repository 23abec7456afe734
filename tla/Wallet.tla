-------------------------------- MODULE Wallet --------------------------------
(***************************************************************************)
(* One customer's wallet, and the orders paid from it.                     *)
(*                                                                         *)
(* Every movement is a read of the wallet document, a check on the copy,   *)
(* transactions.unshift and a new balance on the copy, and a save.         *)
(* unshift replaces the whole array, so the save is conditional on the     *)
(* version that was read and raises it: of two that overlap, the later     *)
(* fails (VersionError).  What the caller makes of that failure differs    *)
(* from caller to caller, and the order it moves money for is another      *)
(* document, saved before or after with no condition at all.               *)
(*                                                                         *)
(* Only orders paid by wallet are here; short picks are in Fulfilment.     *)
(***************************************************************************)
EXTENDS Integers, FiniteSets

CONSTANTS
    Orders,
    TopUps,         \* gateway orders that put money into the wallet
    Referees,       \* customers this customer brought in
    Amount,         \* of each movement
    CashbackLimit,  \* FoodCashbackSettings.perUserLimit; 0 is no limit
    Jobs,           \* requests under way at the same time
    MaxStarts       \* how many requests there are

Movements ==
    [kind : {"payment", "refund", "cashback"}, of : Orders]
    \cup [kind : {"topup"}, of : TopUps]
    \cup [kind : {"reward"}, of : Referees]

ASSUME WalletAssumption ==
    /\ Amount \in [Movements -> Nat \ {0}]
    /\ CashbackLimit \in Nat
    /\ MaxStarts \in Nat

VARIABLES
    wallet,     \* the wallet document
    order,      \* the order documents
    job,        \* the requests under way
    outdated,   \* requests whose wallet copy has another __v than the wallet
    starts,     \* how many requests have started
    entangled,  \* orders of which two requests held a copy at once, or one died
    unheard     \* how often a movement was booked and reported as failed

vars == <<wallet, order, job, outdated, starts, entangled, unheard>>

Wallets == [exists : BOOLEAN, balance : Nat, rows : [Movements -> Nat]]
OrderDocs == [stage : {"none", "placed", "delivered", "cancelled", "expired", "deleted", "removed"},
              payment : {"paid", "refunded"}, refund : {"none", "failed", "processed"}]

Requesters == {"user", "admin", "seller", "sweep", "support"}
Callers == Requesters \cup {"app"}

Idle == [phase |-> "idle"]
Of(kind) == [kind : {kind}, of : Orders]
JobStates ==
    [phase : {"stamping"}, task : Of("refund"), by : Callers, copy : OrderDocs]
    \cup [phase : {"opening", "creating"}, task : Movements, by : Callers, copy : OrderDocs]
    \cup [phase : {"booking"}, task : Movements, by : Callers, copy : OrderDocs, wallet : Wallets]
    \cup [phase : {"closing"}, task : Of("refund"), by : Callers, copy : OrderDocs,
          refund : {"none", "failed", "processed"}]
    \cup [phase : {"undoing"}, task : Of("payment")]

TypeOK ==
    /\ wallet \in Wallets
    /\ order \in [Orders -> OrderDocs]
    /\ job \in [Jobs -> JobStates \cup {Idle}]
    /\ outdated \subseteq Jobs
    /\ starts \in 0..MaxStarts
    /\ entangled \subseteq Orders
    /\ unheard \in [Movements -> Nat]

NoOrder == [stage |-> "none", payment |-> "paid", refund |-> "none"]

Init ==
    /\ wallet = [exists |-> FALSE, balance |-> 0, rows |-> [m \in Movements |-> 0]]
    /\ order = [o \in Orders |-> NoOrder]
    /\ job = [j \in Jobs |-> Idle]
    /\ outdated = {}
    /\ starts = 0
    /\ entangled = {}
    /\ unheard = [m \in Movements |-> 0]

-----------------------------------------------------------------------------
Payment(o) == [kind |-> "payment", of |-> o]
Refund(o) == [kind |-> "refund", of |-> o]
Cashback(o) == [kind |-> "cashback", of |-> o]

(* Deleted by createOrder, which found it unpaid, or by support.           *)
Gone(o) == order[o].stage \in {"deleted", "removed"}

(* The orders with this one at another stage.                              *)
Staged(o, stage) == [order EXCEPT ![o] = [order[o] EXCEPT !.stage = stage]]

Become(j, state) == job' = [job EXCEPT ![j] = state]
Bookers == {j \in Jobs : job[j].phase = "booking"}

(* The requests that move this order's money.                              *)
HoldersOf(o) == {j \in Jobs : job[j] # Idle /\ job[j].task \in {Payment(o), Refund(o)}}

(* Places are handed out in a fixed order.                                 *)
Start(j) ==
    /\ job[j] = Idle
    /\ j = CHOOSE k \in Jobs : job[k] = Idle
    /\ starts < MaxStarts
    /\ starts' = starts + 1

Opening(m, by, copy) == [phase |-> "opening", task |-> m, by |-> by, copy |-> copy]

-----------------------------------------------------------------------------
(* One movement                                                            *)

(* A mistake the runs must notice: nobody asks whether the money is there. *)
AllowedOnCredit(m, w) ==
    CASE m.kind = "topup"    -> w.rows[m] = 0
      [] m.kind = "cashback" -> w.rows[m] = 0
      [] OTHER -> TRUE

(* What is checked on the copy before anything is written.                 *)
Allowed(m, w) ==
    CASE m.kind = "payment"  -> w.balance >= Amount[m]
      [] m.kind = "topup"    -> w.rows[m] = 0
      [] m.kind = "cashback" ->
            /\ w.rows[m] = 0
            /\ CashbackLimit > 0 =>
                  Cardinality({o \in Orders : w.rows[Cashback(o)] > 0}) < CashbackLimit
      [] OTHER -> TRUE

(* The row in front of the others, and the new balance.                    *)
Posted(m, w) ==
    [exists  |-> w.exists,
     balance |-> IF m.kind = "payment" THEN w.balance - Amount[m] ELSE w.balance + Amount[m],
     rows    |-> [w.rows EXCEPT ![m] = @ + 1]]

(* Where a caller goes on when the movement is booked.                     *)
Succeeded(h) ==
    IF h.task.kind = "refund"
    THEN [phase |-> "closing", task |-> h.task, by |-> h.by, copy |-> h.copy, refund |-> "processed"]
    ELSE Idle

(* A mistake the runs must notice: a cancellation whose refund failed goes *)
(* on as if there had been none.                                           *)
FailedSilently(h) ==
    CASE h.task.kind = "payment" -> [phase |-> "undoing", task |-> h.task]
      [] h.task.kind = "refund" /\ h.by \in {"user", "admin", "seller"} ->
            [phase |-> "closing", task |-> h.task, by |-> h.by, copy |-> h.copy,
             refund |-> h.copy.refund]
      [] OTHER -> Idle

(* And when it is refused or the database fails: an unpaid order is        *)
(* deleted; a cancellation records the failed refund and goes on; the      *)
(* sweep has only logged it, and support's request ends.                   *)
Failed(h) ==
    CASE h.task.kind = "payment" -> [phase |-> "undoing", task |-> h.task]
      [] h.task.kind = "refund" /\ h.by \in {"user", "admin", "seller"} ->
            [phase |-> "closing", task |-> h.task, by |-> h.by, copy |-> h.copy, refund |-> "failed"]
      [] OTHER -> Idle

Checked(h, w) ==
    IF Allowed(h.task, w)
    THEN [phase |-> "booking", task |-> h.task, by |-> h.by, copy |-> h.copy, wallet |-> w]
    ELSE Failed(h)

(* findOne                                                                 *)
OpenWallet(j) ==
    /\ job[j].phase = "opening"
    /\ IF wallet.exists
       THEN Become(j, Checked(job[j], wallet))
       ELSE Become(j, [job[j] EXCEPT !.phase = "creating"])
    /\ outdated' = outdated \ {j}
    /\ UNCHANGED <<wallet, order, starts, entangled, unheard>>

(* create: userId is unique.                                               *)
CreateWallet(j) ==
    /\ job[j].phase = "creating"
    /\ ~wallet.exists
    /\ wallet' = [exists |-> TRUE, balance |-> wallet.balance, rows |-> wallet.rows]
    /\ Become(j, Checked(job[j], wallet'))
    /\ outdated' = outdated \ {j}
    /\ UNCHANGED <<order, starts, entangled, unheard>>

(* A mistake the runs must notice: a save that does not ask for the        *)
(* version.                                                                *)
BookUnversioned(j) ==
    /\ job[j].phase = "booking"
    /\ wallet' = Posted(job[j].task, job[j].wallet)
    /\ outdated' = Bookers \ {j}
    /\ Become(j, Succeeded(job[j]))
    /\ UNCHANGED <<order, starts, entangled, unheard>>

Book(j) ==
    /\ job[j].phase = "booking"
    /\ j \notin outdated
    /\ wallet' = Posted(job[j].task, job[j].wallet)
    /\ outdated' = Bookers \ {j}
    /\ Become(j, Succeeded(job[j]))
    /\ UNCHANGED <<order, starts, entangled, unheard>>

(* deductWalletBalance and refundWalletBalance read the wallet once more   *)
(* for their answer: when that fails the movement stands, and the caller   *)
(* goes on as if it had not been made.                                     *)
BookUnheard(j) ==
    /\ job[j].phase = "booking"
    /\ job[j].task.kind \in {"payment", "refund"}
    /\ j \notin outdated
    /\ wallet' = Posted(job[j].task, job[j].wallet)
    /\ outdated' = Bookers \ {j}
    /\ Become(j, Failed(job[j]))
    /\ unheard' = [unheard EXCEPT ![job[j].task] = @ + 1]
    /\ UNCHANGED <<order, starts, entangled>>

(* Another version, a duplicate key, an error of the database.             *)
MovementFails(j) ==
    /\ job[j].phase \in {"opening", "creating", "booking"}
    /\ Become(j, Failed(job[j]))
    /\ outdated' = outdated \ {j}
    /\ UNCHANGED <<wallet, order, starts, entangled, unheard>>

-----------------------------------------------------------------------------
(* Callers                                                                 *)

(* verifyWalletTopupPayment, as often as the app asks.                     *)
VerifyTopUp(j, p) ==
    /\ Start(j)
    /\ Become(j, Opening([kind |-> "topup", of |-> p], "app", NoOrder))
    /\ UNCHANGED <<wallet, order, outdated, entangled, unheard>>

(* creditReferralReward, when the friend signs up.                         *)
RewardReferral(j, r) ==
    /\ Start(j)
    /\ Become(j, Opening([kind |-> "reward", of |-> r], "app", NoOrder))
    /\ UNCHANGED <<wallet, order, outdated, entangled, unheard>>

(* awardOrderCashback; what the settings refuse is not started here.       *)
AwardCashback(j, o) ==
    /\ Start(j)
    /\ order[o].stage = "delivered"
    /\ Become(j, Opening(Cashback(o), "app", NoOrder))
    /\ UNCHANGED <<wallet, order, outdated, entangled, unheard>>

(* createOrder saves the order as paid and then asks the wallet.           *)
PlaceOrder(j, o) ==
    /\ Start(j)
    /\ order[o].stage = "none"
    /\ order' = Staged(o, "placed")
    /\ Become(j, Opening(Payment(o), "app", NoOrder))
    /\ UNCHANGED <<wallet, outdated, entangled, unheard>>

(* A mistake the runs must notice: the order the wallet refused stays.     *)
LeaveUnpaidOrder(j) ==
    /\ job[j].phase = "undoing"
    /\ Become(j, Idle)
    /\ UNCHANGED <<wallet, order, outdated, starts, entangled, unheard>>

DeleteUnpaidOrder(j) ==
    /\ job[j].phase = "undoing"
    /\ order' = Staged(job[j].task.of, "deleted")
    /\ Become(j, Idle)
    /\ UNCHANGED <<wallet, outdated, starts, entangled, unheard>>

Deliver(o) ==
    /\ order[o].stage = "placed"
    /\ order' = Staged(o, "delivered")
    /\ UNCHANGED <<wallet, job, outdated, starts, entangled, unheard>>

(* applyCancellationRefund: is there anything to give back?                *)
Owed(copy) == copy.payment = "paid" /\ copy.refund # "processed"

Refunding(o, by, copy) ==
    IF Owed(copy)
    THEN Opening(Refund(o), by, copy)
    ELSE [phase |-> "closing", task |-> Refund(o), by |-> by, copy |-> copy, refund |-> copy.refund]

Entangles(o) == entangled' = IF HoldersOf(o) = {} THEN entangled ELSE entangled \cup {o}

(* cancelOrder, updateOrderStatusAdmin, updateOrderStatusRestaurant        *)
ReadToCancel(j, o, by) ==
    /\ Start(j)
    /\ order[o].stage = "placed"
    /\ Become(j, IF by = "seller" THEN [Opening(Refund(o), by, order[o]) EXCEPT !.phase = "stamping"]
                                  ELSE Refunding(o, by, order[o]))
    /\ Entangles(o)
    /\ UNCHANGED <<wallet, order, outdated, unheard>>

(* The seller's handler saves the cancellation before it refunds.          *)
StampCancellation(j) ==
    LET h == job[j] IN
    /\ h.phase = "stamping"
    /\ IF Gone(h.task.of)
       THEN UNCHANGED order /\ Become(j, Idle)
       ELSE /\ order' = Staged(h.task.of, "cancelled")
            /\ Become(j, Refunding(h.task.of, h.by, h.copy))
    /\ UNCHANGED <<wallet, outdated, starts, entangled, unheard>>

(* expireUnacceptedOrders takes the status in one update.  (The order's    *)
(* history tells its cancellations, by SYSTEM, from the others.)           *)
ExpireOrder(j, o) ==
    /\ Start(j)
    /\ order[o].stage = "placed"
    /\ order' = Staged(o, "expired")
    /\ Become(j, Refunding(o, "sweep", order'[o]))
    /\ Entangles(o)
    /\ UNCHANGED <<wallet, outdated, unheard>>

(* processRefundAdmin                                                      *)
RefundByHand(j, o) ==
    /\ Start(j)
    /\ order[o].stage \in {"placed", "delivered", "cancelled", "expired"}
    /\ order[o].payment # "refunded"
    /\ Become(j, Refunding(o, "support", order[o]))
    /\ Entangles(o)
    /\ UNCHANGED <<wallet, order, outdated, unheard>>

(* deleteOrderAdmin: whatever the order has come to, and with no look at   *)
(* what was paid.                                                          *)
DeleteOrder(o) ==
    /\ order[o].stage \in {"placed", "delivered", "cancelled", "expired"}
    /\ order' = Staged(o, "removed")
    /\ Entangles(o)
    /\ UNCHANGED <<wallet, job, outdated, starts, unheard>>

(* The order's save: the customer's and support's cancellations write the  *)
(* status with it.                                                         *)
CloseRefund(j) ==
    LET h == job[j]
        o == h.task.of IN
    /\ h.phase = "closing"
    /\ order' =
          IF Gone(o) THEN order
          ELSE [order EXCEPT ![o] =
                  [stage   |-> IF h.by \in {"user", "admin"} THEN "cancelled" ELSE order[o].stage,
                   payment |-> IF h.refund = "processed" THEN "refunded" ELSE order[o].payment,
                   refund  |-> IF h.refund # h.copy.refund THEN h.refund ELSE order[o].refund]]
    /\ Become(j, Idle)
    /\ UNCHANGED <<wallet, outdated, starts, entangled, unheard>>

(* The server dies, or the order's save fails.                             *)
Crash(j) ==
    /\ job[j] # Idle
    /\ Become(j, Idle)
    /\ outdated' = outdated \ {j}
    /\ entangled' = entangled \cup {o \in Orders : j \in HoldersOf(o)}
    /\ UNCHANGED <<wallet, order, starts, unheard>>

-----------------------------------------------------------------------------
Next ==
    \/ \E j \in Jobs :
          \/ OpenWallet(j) \/ CreateWallet(j)
          \/ Book(j) \/ BookUnheard(j) \/ MovementFails(j)
          \/ DeleteUnpaidOrder(j) \/ StampCancellation(j) \/ CloseRefund(j) \/ Crash(j)
          \/ \E p \in TopUps : VerifyTopUp(j, p)
          \/ \E r \in Referees : RewardReferral(j, r)
          \/ \E o \in Orders :
                \/ PlaceOrder(j, o) \/ AwardCashback(j, o)
                \/ ExpireOrder(j, o) \/ RefundByHand(j, o)
                \/ \E by \in {"user", "admin", "seller"} : ReadToCancel(j, o, by)
    \/ \E o \in Orders : Deliver(o) \/ DeleteOrder(o)

Spec == Init /\ [][Next]_vars

-----------------------------------------------------------------------------
(***************************************************************************)
(* The wallet implements the ledger: although every movement is a read, a  *)
(* check and a save with awaits between them, the balance and the rows     *)
(* change as if each were one step - nothing is lost when two overlap,     *)
(* nothing is spent that is not there, a top-up is credited once ("Idem-   *)
(* potent - re-verifying a completed top-up returns the wallet unchanged", *)
(* FLUTTER_API_SPEC.md:414) and so is an order's cashback ("we refuse to   *)
(* write a second cashback row for the same order", cashback.service.js).  *)
(***************************************************************************)
L == INSTANCE Ledger WITH balance <- wallet.balance, booked <- wallet.rows

ImplementsLedger == L!LedgerSpec

(***************************************************************************)
(* The money and the order agree once nobody is at work on the order any   *)
(* more: an order that was ever accepted was charged once, also when       *)
(* support has deleted it since, one that createOrder took back was not,   *)
(* and one that stands as refunded was refunded once.  Two things are      *)
(* excepted.  A movement that was booked and reported as failed is in the  *)
(* wallet and not in the order: the two differ by exactly those (unheard). *)
(* And nothing is said of an order that two requests held at once, or that *)
(* one held when it died: neither document is written on the condition     *)
(* that the other has not moved (entangled).                               *)
(***************************************************************************)
OrdersAndWalletAgree ==
    \A o \in Orders :
        (o \notin entangled /\ HoldersOf(o) = {}) =>
            /\ wallet.rows[Payment(o)] - unheard[Payment(o)] =
                  (IF order[o].stage \in {"none", "deleted"} THEN 0 ELSE 1)
            /\ wallet.rows[Refund(o)] - unheard[Refund(o)] =
                  (IF order[o].payment = "refunded" THEN 1 ELSE 0)

(***************************************************************************)
(* What one might take for granted and the code does not keep, with no     *)
(* overlap and no crash: money paid for an order that is gone came back.   *)
(* Support deletes a paid order without a refund (order.service.js:2970),  *)
(* and createOrder deletes an order whose charge was booked and reported   *)
(* as failed (:1130).                                                      *)
(***************************************************************************)
NobodyPaysForAnOrderThatIsGone ==
    \A o \in Orders :
        (Gone(o) /\ o \notin entangled /\ HoldersOf(o) = {}) =>
            wallet.rows[Payment(o)] = wallet.rows[Refund(o)]

(***************************************************************************)
(* Somebody cancels an order: its money is given back, or the order says   *)
(* that this failed and support can see it.  (An order the sweep cancels   *)
(* says nothing: its failed refunds are only logged.)                      *)
(***************************************************************************)
NoRefundIsForgotten ==
    \A o \in Orders :
        (order[o].stage = "cancelled" /\ o \notin entangled /\ HoldersOf(o) = {}) =>
            order[o].refund \in {"processed", "failed"}
=============================================================================
