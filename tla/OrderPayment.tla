----------------------------- MODULE OrderPayment -----------------------------
(***************************************************************************)
(* One order that is paid online, from checkout to its end.                *)
(*                                                                         *)
(* The order is saved as pending_payment and the customer pays at Razorpay.*)
(* The news comes twice, in any order: the customer's app calls            *)
(* verifyPayment, which asks Razorpay and then saves the order as created; *)
(* and Razorpay calls the webhook, at least once, which marks the payment  *)
(* in one update.  Meanwhile the clean-up of unpaid orders, the customer,  *)
(* the seller, support and the acceptance timeout may all act on the order.*)
(*                                                                         *)
(* A handler reads the document, awaits other calls, and saves the fields  *)
(* it changed, whatever the document holds by then; a save of a document   *)
(* that is gone throws.  Razorpay refunds a payment in full and once.      *)
(*                                                                         *)
(* Of the order's units the module keeps whether they are off the shelf,   *)
(* and who has them in hand.                                               *)
(***************************************************************************)
EXTENDS Integers

CONSTANTS
    Handlers,   \* invocations of the services
    MaxCrashes  \* bound on the servers that die and the restocks that fail

ASSUME OrderPaymentAssumption == MaxCrashes \in Nat

VARIABLES
    order,      \* the order document
    units,      \* the order's units: held, owed by a handler, back, or lost
    gateway,    \* the payment at Razorpay
    job,        \* the document each handler read, and where it is
    byHand,     \* has support moved the order on before it was paid?
    crashes     \* servers that died and restocks that failed

vars == <<order, units, gateway, job, byHand, crashes>>

Deleted == [status |-> "deleted"]
Idle == [step |-> "idle"]

Documents ==
    [status : {"pending_payment", "created", "confirmed", "cancelled"},
     pay : {"created", "paid", "failed", "refunded"},
     refund : {"none", "processed", "failed"},
     paymentId : BOOLEAN,
     restored : BOOLEAN]

Jobs ==
    [kind : {"verify"}, step : {"fetch", "valid", "invalid"}, seen : Documents]
    \cup [kind : {"clean"}, step : {"restore", "putback", "delete"}, seen : Documents]
    \cup [kind : {"accept"}, step : {"save"}, seen : Documents]
    \cup [kind : {"advance"}, step : {"move"}, to : {"created", "confirmed"}, seen : Documents]
    \cup [kind : {"cancel", "reject", "expire"}, seen : Documents,
          step : {"restore", "putback", "status", "refund", "refunded", "failed", "kept"}]

TypeOK ==
    /\ order \in Documents \cup {Deleted}
    /\ units \in {"held", "owed", "back", "lost"}
    /\ byHand \in BOOLEAN
    /\ gateway \in {"unpaid", "captured", "refunded"}
    /\ job \in [Handlers -> Jobs \cup {Idle}]
    /\ crashes \in 0..MaxCrashes

Exists == order # Deleted

Init ==
    /\ order = [status |-> "pending_payment", pay |-> "created", refund |-> "none",
                paymentId |-> FALSE, restored |-> FALSE]
    /\ units = "held"
    /\ byHand = FALSE
    /\ gateway = "unpaid"
    /\ job = [h \in Handlers |-> Idle]
    /\ crashes = 0

Read(h, kind, step) ==
    /\ job[h] = Idle
    /\ job' = [job EXCEPT ![h] = [kind |-> kind, step |-> step, seen |-> order]]

At(h, kinds, step) == job[h].step = step /\ job[h].kind \in kinds
Goto(h, step) == job' = [job EXCEPT ![h] = [job[h] EXCEPT !.step = step]]
Done(h) == job' = [job EXCEPT ![h] = Idle]

Failure == crashes < MaxCrashes /\ crashes' = crashes + 1

-----------------------------------------------------------------------------
(* Razorpay                                                                *)

CustomerPays ==
    /\ gateway = "unpaid"
    /\ gateway' = "captured"
    /\ UNCHANGED <<order, units, job, byHand, crashes>>

(* A mistake the runs must notice: the update creates the document when it *)
(* is gone.                                                                *)
CapturedWebhookUpserts ==
    /\ gateway # "unpaid"
    /\ order' = IF Exists THEN [order EXCEPT !.pay = "paid", !.paymentId = TRUE]
                ELSE [status |-> "none", pay |-> "paid", paymentId |-> TRUE]
    /\ UNCHANGED <<units, gateway, job, byHand, crashes>>

(* payment.captured, delivered at least once and at any later time.        *)
CapturedWebhook ==
    /\ gateway # "unpaid"
    /\ Exists
    /\ order.pay # "paid"
    /\ order' = [order EXCEPT !.pay = "paid", !.paymentId = TRUE]
    /\ UNCHANGED <<units, gateway, job, byHand, crashes>>

(* refund.processed                                                        *)
RefundWebhook ==
    /\ gateway = "refunded"
    /\ Exists
    /\ order.paymentId
    /\ order.refund # "processed"
    /\ order' = [order EXCEPT !.pay = "refunded", !.refund = "processed"]
    /\ UNCHANGED <<units, gateway, job, byHand, crashes>>

-----------------------------------------------------------------------------
(* verifyPayment                                                           *)

(* The app has a payment id and a signature only once it has paid.  A paid *)
(* order returns at once.                                                  *)
VerifyReads(h) ==
    /\ gateway # "unpaid"
    /\ Exists
    /\ order.pay # "paid"
    /\ Read(h, "verify", "fetch")
    /\ UNCHANGED <<order, units, gateway, byHand, crashes>>

VerifyFetches(h) ==
    /\ At(h, {"verify"}, "fetch")
    /\ Goto(h, IF gateway = "captured" THEN "valid" ELSE "invalid")
    /\ UNCHANGED <<order, units, gateway, byHand, crashes>>

(* Razorpay does not answer: nothing is saved.                             *)
VerifyFetchFails(h) ==
    /\ At(h, {"verify"}, "fetch")
    /\ Done(h)
    /\ UNCHANGED <<order, units, gateway, byHand, crashes>>

VerifySaves(h) ==
    /\ At(h, {"verify"}, "valid")
    /\ order' = IF ~Exists THEN order
                ELSE [order EXCEPT !.pay = "paid",
                                   !.paymentId = TRUE,
                                   !.status = IF job[h].seen.status = "created"
                                              THEN order.status ELSE "created"]
    /\ Done(h)
    /\ UNCHANGED <<units, gateway, byHand, crashes>>

VerifyRejects(h) ==
    /\ At(h, {"verify"}, "invalid")
    /\ order' = IF ~Exists \/ job[h].seen.pay = "failed" THEN order
                ELSE [order EXCEPT !.pay = "failed"]
    /\ Done(h)
    /\ UNCHANGED <<units, gateway, byHand, crashes>>

-----------------------------------------------------------------------------
(* expireStalePendingPaymentOrders and abandonOnlinePaymentOrder, through  *)
(* deletePendingPaymentOrder.                                              *)

(* A mistake the runs must notice: only rejected payments are cleaned up.  *)
CleanReadsRejected(h) ==
    /\ order.status = "pending_payment"
    /\ order.pay = "failed"
    /\ Read(h, "clean", "restore")
    /\ UNCHANGED <<order, units, gateway, byHand, crashes>>

CleanReads(h) ==
    /\ order.status = "pending_payment"
    /\ order.pay \in {"created", "failed"}
    /\ Read(h, "clean", "restore")
    /\ UNCHANGED <<order, units, gateway, byHand, crashes>>

CleanDeletes(h) ==
    /\ At(h, {"clean"}, "delete")
    /\ order' = Deleted
    /\ Done(h)
    /\ UNCHANGED <<units, gateway, byHand, crashes>>

-----------------------------------------------------------------------------
(* restoreOrderStock, which the clean-up and all that end an order call:   *)
(* one update claims the order's units, others put them back.              *)

Restorers == {"clean", "cancel", "reject", "expire"}

AfterRestore(kind) ==
    CASE kind = "clean" -> "delete"
      [] kind = "reject" -> "status"
      [] OTHER -> "refund"

Restores(h) ==
    /\ At(h, Restorers, "restore")
    /\ IF Exists /\ ~order.restored
       THEN /\ order' = [order EXCEPT !.restored = TRUE]
            /\ units' = "owed"
            /\ Goto(h, "putback")
       ELSE /\ Goto(h, AfterRestore(job[h].kind))
            /\ UNCHANGED <<order, units>>
    /\ UNCHANGED <<gateway, byHand, crashes>>

PutsBack(h) ==
    /\ At(h, Restorers, "putback")
    /\ units' = "back"
    /\ Goto(h, AfterRestore(job[h].kind))
    /\ UNCHANGED <<order, gateway, byHand, crashes>>

(* Logged as critical; the claim is made, and nobody tries again.          *)
PutBackFails(h) ==
    /\ At(h, Restorers, "putback")
    /\ Failure
    /\ units' = "lost"
    /\ Goto(h, AfterRestore(job[h].kind))
    /\ UNCHANGED <<order, gateway, byHand>>

-----------------------------------------------------------------------------
(* updateOrderStatusRestaurant: the seller acts on exposed orders only.    *)

Exposed == order.status \in {"created", "confirmed"} /\ order.pay = "paid"

(* A mistake the runs must notice: any order before the end can be         *)
(* accepted.                                                               *)
AcceptReadsUnpaid(h) ==
    /\ order.status \in {"pending_payment", "created"}
    /\ Read(h, "accept", "save")
    /\ UNCHANGED <<order, units, gateway, byHand, crashes>>

AcceptReads(h) ==
    /\ Exposed
    /\ order.status = "created"
    /\ Read(h, "accept", "save")
    /\ UNCHANGED <<order, units, gateway, byHand, crashes>>

AcceptSaves(h) ==
    /\ At(h, {"accept"}, "save")
    /\ order' = IF Exists THEN [order EXCEPT !.status = "confirmed"] ELSE order
    /\ Done(h)
    /\ UNCHANGED <<units, gateway, byHand, crashes>>

(* A rejection saves the status first, and the refund after that.          *)
RejectReads(h) ==
    /\ Exposed
    /\ Read(h, "reject", "restore")
    /\ UNCHANGED <<order, units, gateway, byHand, crashes>>

(* updateOrderStatusAdmin forwards: isStatusAdvance, and no look at the    *)
(* payment.                                                                *)
Rank == [pending_payment |-> 0, created |-> 10, confirmed |-> 20, cancelled |-> 100]

AdvanceReads(h, to) ==
    /\ Exists
    /\ Rank[order.status] < Rank[to]
    /\ job[h] = Idle
    /\ job' = [job EXCEPT ![h] = [kind |-> "advance", step |-> "move", to |-> to, seen |-> order]]
    /\ UNCHANGED <<order, units, gateway, byHand, crashes>>

AdvanceSaves(h) ==
    /\ At(h, {"advance"}, "move")
    /\ order' = IF Exists THEN [order EXCEPT !.status = job[h].to] ELSE order
    /\ byHand' = (byHand \/ job[h].seen.status = "pending_payment")
    /\ Done(h)
    /\ UNCHANGED <<units, gateway, crashes>>

(* cancelOrder from created; updateOrderStatusAdmin from anywhere before   *)
(* the end.                                                                *)
CancelReads(h) ==
    /\ order.status \in {"pending_payment", "created", "confirmed"}
    /\ Read(h, "cancel", "restore")
    /\ UNCHANGED <<order, units, gateway, byHand, crashes>>

(* expireUnacceptedOrders takes the status in one update.                  *)
Expire(h) ==
    /\ order.status \in {"created", "confirmed"}
    /\ job[h] = Idle
    /\ order' = [order EXCEPT !.status = "cancelled"]
    /\ job' = [job EXCEPT ![h] = [kind |-> "expire", step |-> "restore", seen |-> order']]
    /\ UNCHANGED <<units, gateway, byHand, crashes>>

RejectSaves(h) ==
    /\ At(h, {"reject"}, "status")
    /\ order' = IF Exists THEN [order EXCEPT !.status = "cancelled"] ELSE order
    /\ IF Exists THEN Goto(h, "refund") ELSE Done(h)
    /\ UNCHANGED <<units, gateway, byHand, crashes>>

(* applyCancellationRefund decides on the document that was read.          *)
MayRefund(seen) == seen.pay = "paid" /\ seen.refund # "processed"

Refund(h) ==
    /\ At(h, {"cancel", "reject", "expire"}, "refund")
    /\ MayRefund(job[h].seen)
    /\ IF job[h].seen.paymentId /\ gateway = "captured"
       THEN gateway' = "refunded" /\ Goto(h, "refunded")
       ELSE UNCHANGED gateway /\ Goto(h, "failed")
    /\ UNCHANGED <<order, units, byHand, crashes>>

(* A mistake the runs must notice: the answer of the gateway is not looked *)
(* at.                                                                     *)
RefundFailsUnread(h) ==
    /\ At(h, {"cancel", "reject", "expire"}, "refund")
    /\ MayRefund(job[h].seen)
    /\ Goto(h, "refunded")
    /\ UNCHANGED <<order, units, gateway, byHand, crashes>>

(* Razorpay refuses or does not answer.                                    *)
RefundFails(h) ==
    /\ At(h, {"cancel", "reject", "expire"}, "refund")
    /\ MayRefund(job[h].seen)
    /\ Goto(h, "failed")
    /\ UNCHANGED <<order, units, gateway, byHand, crashes>>

NothingToRefund(h) ==
    /\ At(h, {"cancel", "reject", "expire"}, "refund")
    /\ ~MayRefund(job[h].seen)
    /\ Goto(h, "kept")
    /\ UNCHANGED <<order, units, gateway, byHand, crashes>>

(* Only cancelOrder and updateOrderStatusAdmin still have the status to    *)
(* save.                                                                   *)
EndSaves(h) ==
    /\ \E step \in {"refunded", "failed", "kept"} :
           At(h, {"cancel", "reject", "expire"}, step)
    /\ order' = IF ~Exists THEN order ELSE
           [order EXCEPT
               !.status = IF job[h].kind = "cancel" THEN "cancelled" ELSE order.status,
               !.pay = IF job[h].step = "refunded" THEN "refunded" ELSE order.pay,
               !.refund = CASE job[h].step = "refunded" -> "processed"
                            [] job[h].step = "failed" -> "failed"
                            [] job[h].step = "kept" -> order.refund]
    /\ Done(h)
    /\ UNCHANGED <<units, gateway, byHand, crashes>>

-----------------------------------------------------------------------------
Crash(h) ==
    /\ job[h] # Idle
    /\ Failure
    /\ units' = IF job[h].step = "putback" THEN "lost" ELSE units
    /\ Done(h)
    /\ UNCHANGED <<order, gateway, byHand>>

Continue(h) ==
    \/ VerifyFetches(h) \/ VerifyFetchFails(h) \/ VerifySaves(h) \/ VerifyRejects(h)
    \/ CleanDeletes(h)
    \/ Restores(h) \/ PutsBack(h) \/ PutBackFails(h)
    \/ AcceptSaves(h) \/ AdvanceSaves(h) \/ RejectSaves(h)
    \/ Refund(h) \/ RefundFails(h) \/ NothingToRefund(h) \/ EndSaves(h)

Begin(h) ==
    \/ VerifyReads(h) \/ CleanReads(h)
    \/ AcceptReads(h) \/ RejectReads(h) \/ CancelReads(h) \/ Expire(h)
    \/ \E to \in {"created", "confirmed"} : AdvanceReads(h, to)

Next ==
    \/ CustomerPays \/ CapturedWebhook \/ RefundWebhook
    \/ \E h \in Handlers : Begin(h) \/ Continue(h) \/ Crash(h)

(* What a server has begun it goes on with; the clean-up runs again and    *)
(* again; Razorpay delivers its webhooks until they are answered.          *)
Fairness ==
    /\ \A h \in Handlers : WF_vars(Continue(h))
    /\ WF_vars(\E h \in Handlers : CleanReads(h))
    /\ WF_vars(CapturedWebhook)
    /\ WF_vars(RefundWebhook)

Spec == Init /\ [][Next]_vars
FairSpec == Spec /\ Fairness

-----------------------------------------------------------------------------
(***************************************************************************)
(* "An unpaid order must never be actionable by the restaurant"            *)
(* (updateOrderStatusRestaurant): whatever the clean-up, the webhook, a    *)
(* slow verification and the handlers that save old copies do in between,  *)
(* an order that is not paid at Razorpay stays in pending_payment, unless  *)
(* support moved it on by hand (updateOrderStatusAdmin, which does not     *)
(* look at the payment); and even then the seller's own calls do not act   *)
(* on it.                                                                  *)
(***************************************************************************)
UnpaidIsNeverActionable ==
    /\ order.status \in {"created", "confirmed"} /\ ~byHand => gateway # "unpaid"
    /\ \A h \in Handlers :
           job[h].step # "idle" /\ job[h].kind \in {"accept", "reject"} => gateway # "unpaid"

(***************************************************************************)
(* The books never run ahead of the money: a payment marked paid was made, *)
(* and one marked refunded, or a refund marked processed, was given back   *)
(* at Razorpay, however many handlers refund the order at once.            *)
(***************************************************************************)
BooksFollowTheMoney ==
    Exists =>
        /\ order.pay = "paid" => gateway # "unpaid"
        /\ order.pay = "refunded" \/ order.refund = "processed" => gateway = "refunded"

(***************************************************************************)
(* "An abandoned payment must not hold units forever"                      *)
(* (deletePendingPaymentOrder): the units of an order that nobody pays for *)
(* in the end go back, even if the clean-up dies on the way and another    *)
(* takes over, unless support moved the order on by hand.  Only those that *)
(* a dying or failing handler had claimed and not yet put back are lost:   *)
(* no later clean-up tries again.                                          *)
(***************************************************************************)
AbandonedPaymentsLetGo ==
    (order.status = "pending_payment" /\ gateway = "unpaid")
        ~> (gateway # "unpaid" \/ byHand \/ units \in {"back", "lost"})

(***************************************************************************)
(* "Terminal states (100) cannot transition to anything else"              *)
(* (isStatusAdvance): a cancelled order stays cancelled.                   *)
(***************************************************************************)
TerminalIsFinal ==
    [][order.status = "cancelled" => order'.status \in {"cancelled", "deleted"}]_vars

(***************************************************************************)
(* "restaurant could walk an abandoned, never-paid order all the way to    *)
(* 'delivered'" (updateOrderStatusRestaurant, of the gate it has):         *)
(* whoever moves it, no order that was not paid is worked on.  Support     *)
(* does it (updateOrderStatusAdmin), so this one does not hold.            *)
(***************************************************************************)
NobodyWorksUnpaid == order.status \in {"created", "confirmed"} => gateway # "unpaid"

(***************************************************************************)
(* "Fail closed - the webhook remains the recovery path for transient      *)
(* errors" (verifyPayment): once Razorpay has captured the payment, the    *)
(* order does not wait for it for ever.                                    *)
(***************************************************************************)
CapturedPaymentsRecover ==
    (gateway = "captured" /\ order.status = "pending_payment")
        ~> (order.status # "pending_payment")
=============================================================================
