----------------------------- MODULE Fulfilment -----------------------------
(***************************************************************************)
(* Short picks of a placed order, and the money and units they move.       *)
(*                                                                         *)
(* A picker reports lines that came up short (adjustOrderFulfilment): the  *)
(* order is read, repriced in memory, the difference is given back through *)
(* the wallet or the gateway, the document is saved, and only then do the  *)
(* units go back to the shelf.  Several pickers may report at the same     *)
(* time, the customer or support may cancel (cancelOrder,                  *)
(* updateOrderStatusAdmin), the seller may cancel                          *)
(* (updateOrderStatusRestaurant, which saves before it refunds), and the   *)
(* gateway tells of every refund it made, late, never, or several times    *)
(* (the refund.processed webhook).  A refund or a restock may fail, and    *)
(* the server of a call may die between any two of its steps.              *)
(*                                                                         *)
(* One order: nothing here is shared between orders.  A unit of any        *)
(* product costs 1; fees, tax and coupons, which are carried or scaled,    *)
(* are left out.  So are substitutions.                                    *)
(***************************************************************************)
EXTENDS Integers, FiniteSets, Functions

CONSTANTS
    Lines,        \* lines of the order
    Ordered,      \* quantity ordered on each line
    Methods,      \* how the order may be paid: "cash", "wallet", "razorpay"
    Pickers,      \* concurrent calls of adjustOrderFulfilment
    Cancellers,   \* concurrent calls that cancel the order
    Reports,      \* what a picker may report: a quantity for some lines
    Batched,      \* are the lines' units allocated from batches?
    MaxCalls,     \* bound on the calls made
    MaxFailures   \* bound on the refunds and restocks that fail, and deaths

Callers == Pickers \cup Cancellers

ASSUME FulfilmentAssumption ==
    /\ IsFiniteSet(Lines) /\ IsFiniteSet(Callers)
    /\ Ordered \in [Lines -> Nat \ {0}]
    /\ Methods \subseteq {"cash", "wallet", "razorpay"}
    /\ Pickers \cap Cancellers = {}
    /\ \A r \in Reports : DOMAIN r \subseteq Lines /\ \A l \in DOMAIN r : r[l] \in Nat
    /\ Batched \in BOOLEAN
    /\ MaxCalls \in Nat /\ MaxFailures \in Nat

VARIABLES
    method,    \* payment.method
    order,     \* the order document
    job,       \* where each call is, and the document it works on
    back,      \* units of each line put back on the shelf
    lost,      \* units whose restock failed, or died with its server
    given,     \* money given back to the customer
    refunds,   \* amounts of the refunds the gateway made and tells about
    calls,     \* calls so far
    failures,  \* refunds and restocks that failed, and deaths so far
    blind      \* has a pick the version does not guard saved an old copy?

vars == <<method, order, job, back, lost, given, refunds, calls, failures, blind>>

(* Rounding apart, the bill is the goods that are in the bag.              *)
Bill(ful) == FoldFunction(+, 0, ful)
(* A mistake the runs must notice: a difference may be negative.           *)
OwedOrDue(full, total) == full - total

Owed(full, total) == IF full > total THEN full - total ELSE 0
Nothing == [l \in Lines |-> 0]

Documents == [
    status    : {"open", "cancelled"},
    ful       : [Lines -> Nat],      \* deliveredQty of each line
    total     : Nat,                 \* pricing.total
    original  : Nat,                 \* fulfillment.originalTotal, 0 when unset
    shortfall : Nat,                 \* fulfillment.shortfallAmount
    pay       : {"cod_pending", "paid", "refunded"},
    refund    : {"none", "processed", "failed"},
    refunded  : Nat,                 \* payment.refund.amount
    restored  : BOOLEAN,             \* is stockRestoredAt set?
    v         : Nat ]                \* __v

Jobs == [
    at   : {"idle", "restore", "pay", "save", "return", "final"},
    kind : {"none", "pick", "cancel", "seller"},
    read : Documents,                \* the document as it was read
    doc  : Documents,                \* the same, as changed in memory
    owe  : [Lines -> Nat],           \* units still to put back
    told : BOOLEAN ]                 \* was payment.refund assigned?

Fresh(m) == [
    status |-> "open", ful |-> Ordered, total |-> Bill(Ordered), original |-> 0,
    shortfall |-> 0, pay |-> IF m = "cash" THEN "cod_pending" ELSE "paid",
    refund |-> "none", refunded |-> 0, restored |-> FALSE, v |-> 0 ]

TypeOK ==
    /\ method \in Methods
    /\ order \in Documents
    /\ job \in [Callers -> Jobs]
    /\ back \in [Lines -> Nat]
    /\ lost \in [Lines -> Nat]
    /\ given \in Nat
    /\ refunds \subseteq Nat
    /\ calls \in 0..MaxCalls
    /\ failures \in 0..MaxFailures
    /\ blind \in BOOLEAN

Idle == [at |-> "idle", kind |-> "none", read |-> Fresh(method), doc |-> Fresh(method),
         owe |-> Nothing, told |-> FALSE]

Init ==
    /\ method \in Methods
    /\ order = Fresh(method)
    /\ job = [c \in Callers |-> Idle]
    /\ back = Nothing
    /\ lost = Nothing
    /\ given = 0
    /\ refunds = {}
    /\ calls = 0
    /\ failures = 0
    /\ blind = FALSE

Call == calls < MaxCalls /\ calls' = calls + 1
Return(c) == job' = [job EXCEPT ![c] = Idle]

(* A Mongoose save writes the paths that were changed in memory, each on   *)
(* its own, over whatever another call saved in the meantime.  The refund  *)
(* is one path: it is assigned as an object that never equals the one that *)
(* was read, and so is written whenever it was assigned.                   *)
Saved(j) ==
    LET Put(f) == IF j.doc[f] # j.read[f] THEN j.doc[f] ELSE order[f]
        from == IF j.told THEN j.doc ELSE order
    IN
    [order EXCEPT
        !.ful = [l \in Lines |->
                   IF j.doc.ful[l] # j.read.ful[l] THEN j.doc.ful[l] ELSE @[l]],
        !.status = Put("status"), !.total = Put("total"), !.pay = Put("pay"),
        !.refund = from.refund, !.refunded = from.refunded]
(* ... and counts a version when it pushes onto an array, here the history. *)
NextVersion(d) == [d EXCEPT !.v = @ + 1]

(* Money goes back, by the wallet or by the gateway, which will tell.      *)
GiveMoney(n) ==
    /\ given' = given + n
    /\ refunds' = IF method = "razorpay" THEN refunds \cup {n} ELSE refunds
    /\ UNCHANGED failures

Failure == failures < MaxFailures /\ failures' = failures + 1

MoneyFails == Failure /\ UNCHANGED <<given, refunds>>

-----------------------------------------------------------------------------
(* adjustOrderFulfilment                                                   *)

(* Everything up to the refund happens on the document in memory.  A       *)
(* report that would empty the bag, or that delivers more than was         *)
(* ordered, is refused.                                                    *)
PickReads(p, r) ==
    LET found == [l \in Lines |-> IF l \in DOMAIN r THEN r[l] ELSE order.ful[l]]
        full == IF order.original # 0 THEN order.original ELSE order.total
    IN
    /\ job[p].at = "idle"
    /\ Call
    /\ order.status = "open"
    /\ \A l \in Lines : found[l] <= Ordered[l]
    /\ \E l \in Lines : found[l] > 0
    /\ job' = [job EXCEPT ![p] =
         [at |-> "pay", kind |-> "pick", read |-> order,
          doc |-> [order EXCEPT !.ful = found, !.total = Bill(found), !.original = full,
                                !.shortfall = Owed(full, Bill(found))],
          owe |-> [l \in Lines |-> Owed(order.ful[l], found[l])], told |-> FALSE]]
    /\ UNCHANGED <<method, order, back, lost, given, refunds, failures, blind>>

(* A mistake the runs must notice: a refund that failed is written down as *)
(* processed.                                                              *)
PickPaysHopefully(p) ==
    LET d == job[p].doc
        already == IF d.refund = "processed" THEN d.refunded ELSE 0
        owed == d.shortfall - already
    IN
    /\ job[p].at = "pay" /\ job[p].kind = "pick"
    /\ IF d.pay = "paid" /\ owed > 0
       THEN /\ job' = [job EXCEPT ![p].at = "save", ![p].doc.refund = "processed",
                                  ![p].doc.refunded = already + owed, ![p].told = TRUE]
            /\ GiveMoney(owed) \/ MoneyFails
       ELSE /\ job' = [job EXCEPT ![p].at = "save"]
            /\ UNCHANGED <<given, refunds, failures>>
    /\ UNCHANGED <<method, order, back, lost, calls, blind>>

(* A mistake the runs must notice: a refund that failed counts as given    *)
(* when the next one is worked out.                                        *)
PickPaysWritingOff(p) ==
    LET d == job[p].doc
        owed == d.shortfall - d.refunded
        Record(how) ==
            job' = [job EXCEPT ![p].at = "save", ![p].doc.refund = how,
                               ![p].doc.refunded = d.shortfall, ![p].told = TRUE]
    IN
    /\ job[p].at = "pay" /\ job[p].kind = "pick"
    /\ IF d.pay = "paid" /\ owed > 0
       THEN \/ GiveMoney(owed) /\ Record("processed")
            \/ MoneyFails /\ Record("failed")
       ELSE /\ job' = [job EXCEPT ![p].at = "save"]
            /\ UNCHANGED <<given, refunds, failures>>
    /\ UNCHANGED <<method, order, back, lost, calls, blind>>

(* Only the difference to what earlier refunds gave back, and a refund     *)
(* that failed counts as nothing given back.                               *)
PickPays(p) ==
    LET d == job[p].doc
        already == IF d.refund = "processed" THEN d.refunded ELSE 0
        owed == d.shortfall - already
        Record(how, n) ==
            job' = [job EXCEPT ![p].at = "save", ![p].doc.refund = how, ![p].doc.refunded = n,
                               ![p].told = TRUE]
    IN
    /\ job[p].at = "pay" /\ job[p].kind = "pick"
    /\ IF d.pay = "paid" /\ owed > 0
       THEN \/ GiveMoney(owed) /\ Record("processed", already + owed)
            \/ MoneyFails /\ Record("failed", already)
       ELSE /\ job' = [job EXCEPT ![p].at = "save"]
            /\ UNCHANGED <<given, refunds, failures>>
    /\ UNCHANGED <<method, order, back, lost, calls, blind>>

(* A mistake the runs must notice: no save looks at the version.           *)
Unconditional(j) == FALSE

(* Replacing an array of a line, as a short pick of allocated units does,  *)
(* makes the save conditional on the version that was read.                *)
Conditional(j) == Batched /\ \E l \in Lines : j.owe[l] > 0
Stale(j) == order.v # j.read.v

(* Picks that replace no array: of lines without allocations, or that only *)
(* find again what was short.                                              *)
Unguarded(j) == ~Batched \/ j.owe = Nothing

(* A mistake the runs must notice: what is not delivered stays off the     *)
(* shelf.                                                                  *)
PickSavesOnly(p) ==
    LET j == job[p] IN
    /\ j.at = "save" /\ j.kind = "pick"
    /\ ~(Conditional(j) /\ Stale(j))
    /\ order' = NextVersion([Saved(j) EXCEPT !.original = j.doc.original,
                                            !.shortfall = j.doc.shortfall])
    /\ Return(p)
    /\ blind' = (blind \/ (Unguarded(j) /\ Stale(j)))
    /\ UNCHANGED <<method, back, lost, given, refunds, calls, failures>>

PickSaves(p) ==
    LET j == job[p] IN
    /\ j.at = "save" /\ j.kind = "pick"
    /\ ~(Conditional(j) /\ Stale(j))
    /\ order' = NextVersion([Saved(j) EXCEPT !.original = j.doc.original,
                                            !.shortfall = j.doc.shortfall])
    /\ IF j.owe = Nothing THEN Return(p) ELSE job' = [job EXCEPT ![p].at = "return"]
    /\ blind' = (blind \/ (Unguarded(j) /\ Stale(j)))
    /\ UNCHANGED <<method, back, lost, given, refunds, calls, failures>>

(* The save throws.  Other positional writes may or may not be checked     *)
(* against the version.                                                    *)
PickSaveFails(p) ==
    LET j == job[p] IN
    /\ j.at = "save" /\ j.kind = "pick"
    /\ Stale(j) /\ j.doc.ful # j.read.ful
    /\ Return(p)
    /\ UNCHANGED <<method, order, back, lost, given, refunds, calls, failures, blind>>

(* Where a call is once the restock of line l is behind it.                *)
Restocked(c, l) ==
    LET j == job[c]
        left == [j.owe EXCEPT ![l] = 0]
    IN
    /\ j.at = "return" /\ j.owe[l] > 0
    /\ IF left # Nothing THEN job' = [job EXCEPT ![c].owe = left]
       ELSE IF j.kind = "pick" THEN Return(c)
       ELSE job' = [job EXCEPT ![c].owe = left,
                               ![c].at = IF j.kind = "seller" THEN "save" ELSE "pay"]
    /\ UNCHANGED <<method, order, given, refunds, calls, blind>>

(* One line's units go back; returnStockUnits for a picker, incrementStock *)
(* for a cancellation.                                                     *)
PutsBack(c, l) ==
    /\ Restocked(c, l)
    /\ back' = [back EXCEPT ![l] = @ + job[c].owe[l]]
    /\ UNCHANGED <<lost, failures>>

(* The update throws: logged as critical, never tried again, and the loop  *)
(* goes on.                                                                *)
RestockFails(c, l) ==
    /\ Restocked(c, l)
    /\ Failure
    /\ lost' = [lost EXCEPT ![l] = @ + job[c].owe[l]]
    /\ UNCHANGED back

(* The server dies; nobody takes up what the call had still to do.         *)
Dies(c) ==
    /\ job[c].at # "idle"
    /\ Failure
    /\ Return(c)
    /\ lost' = IF job[c].at = "return" THEN [l \in Lines |-> lost[l] + job[c].owe[l]] ELSE lost
    /\ UNCHANGED <<method, order, back, given, refunds, calls, blind>>

-----------------------------------------------------------------------------
(* Cancellation                                                            *)

CancelReads(c, kind) ==
    /\ job[c].at = "idle"
    /\ Call
    /\ order.status = "open"
    /\ job' = [job EXCEPT ![c] =
         [at |-> "restore", kind |-> kind, read |-> order,
          doc |-> [order EXCEPT !.status = "cancelled"], owe |-> Nothing, told |-> FALSE]]
    /\ UNCHANGED <<method, order, back, lost, given, refunds, failures, blind>>

(* restoreOrderStock: the claim, and what the document holds at that       *)
(* moment is what goes back.                                               *)
CancelRestores(c) ==
    LET next == IF job[c].kind = "seller" THEN "save" ELSE "pay" IN
    /\ job[c].at = "restore"
    /\ IF order.restored
       THEN /\ job' = [job EXCEPT ![c].at = next]
            /\ UNCHANGED order
       ELSE /\ order' = [order EXCEPT !.restored = TRUE]
            /\ job' = [job EXCEPT ![c].at = IF order.ful = Nothing THEN next ELSE "return",
                                  ![c].owe = order.ful]
    /\ UNCHANGED <<method, back, lost, given, refunds, calls, failures, blind>>

(* applyCancellationRefund, on the document in memory.                     *)
CancelPays(c) ==
    LET d == job[c].doc
        next == IF job[c].kind = "seller" THEN "final" ELSE "save"
        Record(how, pay) ==
            job' = [job EXCEPT ![c].at = next, ![c].doc.refund = how, ![c].doc.pay = pay,
                               ![c].doc.refunded = d.total, ![c].told = TRUE]
    IN
    /\ job[c].at = "pay" /\ job[c].kind # "pick"
    /\ IF d.pay = "paid" /\ d.refund # "processed"
       THEN \/ GiveMoney(d.total) /\ Record("processed", "refunded")
            \/ MoneyFails /\ Record("failed", d.pay)
       ELSE /\ job' = [job EXCEPT ![c].at = next]
            /\ UNCHANGED <<given, refunds, failures>>
    /\ UNCHANGED <<method, order, back, lost, calls, blind>>

(* The seller's cancellation saves the status, refunds, and saves again.   *)
CancelSaves(c) ==
    LET j == job[c] IN
    /\ j.at \in {"save", "final"} /\ j.kind # "pick"
    /\ order' = IF j.at = "save" THEN NextVersion(Saved(j)) ELSE Saved(j)
    /\ IF j.kind = "seller" /\ j.at = "save"
       THEN job' = [job EXCEPT ![c].at = "pay", ![c].read = j.doc]
       ELSE Return(c)
    /\ UNCHANGED <<method, back, lost, given, refunds, calls, failures, blind>>

-----------------------------------------------------------------------------
(* refund.processed, which Razorpay sends for every refund it made, at     *)
(* least once.                                                             *)
RefundWebhook(n) ==
    /\ n \in refunds
    /\ order.refund # "processed"
    /\ order' = [order EXCEPT !.pay = "refunded", !.refund = "processed", !.refunded = n]
    /\ UNCHANGED <<method, job, back, lost, given, refunds, calls, failures, blind>>

-----------------------------------------------------------------------------
Next ==
    \/ \E p \in Pickers : \/ \E r \in Reports : PickReads(p, r)
                          \/ PickPays(p) \/ PickSaves(p) \/ PickSaveFails(p)
    \/ \E c \in Callers, l \in Lines : PutsBack(c, l) \/ RestockFails(c, l)
    \/ \E c \in Callers : Dies(c)
    \/ \E c \in Cancellers : \/ \E kind \in {"cancel", "seller"} : CancelReads(c, kind)
                             \/ CancelRestores(c) \/ CancelPays(c) \/ CancelSaves(c)
    \/ \E n \in refunds : RefundWebhook(n)

Spec == Init /\ [][Next]_vars

-----------------------------------------------------------------------------
Quiet == \A c \in Callers : job[c].at = "idle"

(***************************************************************************)
(* "A gateway that refuses is never written down as processed" (comment    *)
(* above the refund in adjustOrderFulfilment): however picks, cancels and  *)
(* webhooks overlap, the document never claims more money went back than   *)
(* did.                                                                    *)
(***************************************************************************)
RecordedIsGiven == order.refund = "processed" => order.refunded <= given

(***************************************************************************)
(* The bill and the bag move together: the total on the document is the    *)
(* price of the quantities on the document, although two pickers and a     *)
(* cancellation may have saved copies of it that they read earlier.  It is *)
(* the version check of a save that replaces batch allocations that keeps  *)
(* it so, and only as long as no other save of a pick is an old one: the   *)
(* total of lines without allocations, or of a pick that only found things *)
(* again, is written over whatever was saved in between.                   *)
(***************************************************************************)
BillMatchesTheBag == ~blind => order.total = Bill(order.ful)

(***************************************************************************)
(* "Units reserved at order time that will not be delivered go back, or    *)
(* somebody else cannot buy them" (header of order-fulfilment.service.js): *)
(* once nobody is at work, what is not in the bag is on the shelf, except  *)
(* for the units of a restock that failed or whose server died (lost),     *)
(* which the code logs, or not even that, and never puts back.             *)
(***************************************************************************)
UndeliveredUnitsAreBack ==
    Quiet => \A l \in Lines :
        back[l] + lost[l] >= Ordered[l] - (IF order.restored THEN 0 ELSE order.ful[l])

(***************************************************************************)
(* A customer who paid and whose order went short has the difference, or   *)
(* the document says that the refund failed: "a failed refund is visible   *)
(* as 'failed' rather than silently dropped" (refundShortfall).            *)
(***************************************************************************)
ShortfallIsGivenOrSaidToFail ==
    Quiet /\ order.status = "open" /\ order.pay = "paid"
        => given >= order.shortfall \/ order.refund = "failed"

(***************************************************************************)
(* "... sets payment.status to 'refunded', which would claim the whole     *)
(* order had been given back when only part of it was.  The payment stays  *)
(* 'paid'" (comment above refundShortfall).                                *)
(***************************************************************************)
RefundedMeansTheWholeBill == order.pay = "refunded" => given >= Bill(Ordered)

(***************************************************************************)
(* A cancelled order that was paid gave all the money back, or says that   *)
(* it could not (applyCancellationRefund, after a short pick).             *)
(***************************************************************************)
CancelledGivesAllBack ==
    Quiet /\ order.status = "cancelled" /\ method # "cash"
        => given >= Bill(Ordered) \/ order.refund = "failed"
=============================================================================
