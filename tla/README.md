# Verification of the order core of 6AM Fresh

6AM Fresh is a grocery delivery service: an Express and MongoDB backend (`Backend/src`), and
React applications for customers, shops, riders and administrators (`Frontend/src`).  This
directory holds TLA+ specifications of the part of the backend where several actors work on the
same documents at the same time: the stock count, the order document, the payment, the batches,
the places of a delivery window, the rider of an order, the customer's wallet and the days of a
subscription.  TLC checks them on small instances.  TLAPS proves for every instance that the stock
is conserved and that ended orders return it, that the wallet implements a ledger and the orders
agree with it, and every other safety property that the passing runs check (two of those of
subscriptions for the rules that have them).

MongoDB updates one document atomically and nothing more.  The code uses no transactions.  A
handler reads a document, awaits other calls, and either changes the document with one
conditional update or saves the fields it changed in its own copy.  Everything that is hard here
follows from that: **one action of a module is one database or gateway call, and what a handler
keeps between two calls is in its variables.**

## Inventory

Paths are relative to `src/Backend/src/`; `food/` is `modules/food/`.

| Component | State | Operations | What is hard | What makes it correct |
|---|---|---|---|---|
| Stock count (`food/orders/services/inventory.service.js`, `food/admin/services/stockAdmin.service.js`) | `FoodItem.stockQty`; `stockReservedAt`, `stockRestoredAt` of the order | `reserveStockForItems`, `releaseReservations`, `restoreOrderStock`, `returnStockUnits`, `adjustStock`, verification | lines reserved one by one; several handlers ending one order; crashes; a rider at the door | no unit sold twice, none invented, none left behind; goods on a bike are not restocked |
| Order creation and end (`food/orders/services/order.service.js`) | the order document | `createOrder`, `cancelOrder`, `updateOrderStatusRestaurant`, `updateOrderStatusAdmin`, `expireUnacceptedOrders`, `deleteOrderAdmin`, clean-up of unpaid orders | every one of them awaits between its check and its save | terminal statuses are final; a failed step undoes the earlier ones |
| Fulfilment (`food/orders/services/order-fulfilment.service.js`) | lines, `pricing`, `fulfillment`, `payment.refund` | `adjustOrderFulfilment` | two pickers; cancellation during a pick; refunds before the save; the refund's webhook | bill, bag, shelf and money move together |
| Online payment (`order.service.js`, `core/payments/controllers/razorpayWebhook.controller.js`) | `payment`, Razorpay's own record | `verifyPayment`, webhooks, `applyCancellationRefund`, clean-up | the same news by two ways, in any order, repeated | the seller never works unpaid; no refund is claimed that was not made; nothing waits for ever |
| Delivery windows (`food/admin/services/deliverySlot.service.js`) | the ledger row of a window and day | `reconcileSeats`, `claimSlotSeat`, `releaseSlotSeat`, `resolveSlotForOrder`, `getAvailableSlots` | contention for the last place; repairs from old reads; claims whose order never lands | never overbooked; a standing order keeps its seat; the ledger ends up equal to the orders |
| Stock batches (`food/orders/services/stockBatch.service.js`) | `FoodStockBatch.remainingQty`, `status` | `receiveBatch`, `allocateFefo`, `returnAllocations`, `writeOffExpiredBatches` | batches and count are two documents | batches and count agree |
| Dispatch (`food/orders/services/order-dispatch.service.js`, `order-delivery.service.js`, `order.service.js`; `food/admin/services/adminFleet.service.js`, `food/restaurant/services/deliveryFleet.service.js`, `food/delivery/services/orderEmergencyRequest.service.js`) | `dispatch` of the order, with its lock `dispatchingAt`; timeout jobs | `tryAutoAssign`, `processDispatchTimeout`, `recoverStuckOrders`, resend, `acceptOrderDelivery`, `rejectOrderDelivery`, assignment by hand, deassignment, pickup | an attempt awaits a dozen times between lock and result; half of the writers save copies; the order may be cancelled or expire meanwhile | the rider who accepted is the one the order names; the lock comes off; a silent rider loses the order |
| Customer wallet (`food/user/services/userWallet.service.js`, `cashback.service.js`, `core/auth/auth.service.js`) | `FoodUserWallet`: balance, transactions | top-up, debit, refund, referral reward, cashback | read, change, save under the document's version; what a caller does when its save fails; orders saved before and after | every movement once or not at all; orders and wallet agree; a failed refund is not forgotten |
| Subscriptions (`food/user/services/productSubscription.service.js`, `food/admin/services/productSubscriptionAdmin.service.js`) | the subscription; one row per day | create, pause, resume, cancel, delete, skip; `generateUpcomingOccurrences`, `placeDueSubscriptionOrders` | sweeps overlap each other and the customer; order first, note later | days follow the rule; no gap after a pause; skipped days are not ordered; due days are settled |
| Settlement (`core/payments/*.service.js`, `queues/processors/payment.processor.js`) | ledger rows | rows written after an order ended | jobs that are retried | no row twice |
| Pricing, coupons, promises, monthly lists, point of sale, catalogue, search, chat, notifications, authentication, front ends | documents of their own | create, read, update, delete; callers of the above | little that is shared | - |

How they interact: `createOrder` calls the window check, the stock reservation, the seat claim,
the save and the wallet, in this order, and undoes the earlier ones by hand when a later one
fails.  Whatever ends an order calls `restoreOrderStock` and then `applyCancellationRefund`.
`expireUnacceptedOrders` and the clean-up of unpaid orders run from a queue and from several read
paths, so that they may run at any time and several times at once.  A window's ledger follows the
order documents: cancelling or deleting an order never touches it, a later reading of the list of
windows does.

`PROJECT.json` lists every component with its status, every hazard with its line and the
properties that cover it, and for every definition the lines it models.

## Modules

### `Shelf` and `Inventory`

`Shelf` is the abstract specification: an order takes the units of one of its lines off the shelf
in one step, and only when they are all there; it gives back exactly those units, at most once;
the shop books units in and out.

`Inventory` is the detailed one.  `ReserveLine` is the conditional `findOneAndUpdate` of
`reserveStockForItems` (check and decrement in one update); `todo` and `taken` are what the
request has in memory.  `RefuseLine` and `SeatOrSaveFails` enter the release, whose updates are
`PutBack`; `SaveOrder` is `order.save()`; `ChargeFails` and `DeleteUncharged` are the failure
branch of the wallet debit.  The handlers that end an order differ only in what they check and in
what they write, so they are three kinds of one `job`: `cancel` (customer, seller, support) reads
the status and writes it last, `delete` removes the document last, `expire` writes the status
first, in one update.  `Restore` is `restoreOrderStock` up to its claim on `stockRestoredAt`;
`PutBack` is `incrementStock`; `Finish` is the save or the deletion.  `RiderReads` and
`RiderSaves` are the two ends of `confirmPickupDelivery`.  `CrashRequest`, `CrashHandler` and
`PutBackFails` lose what the code loses, and the ghost variables `lost` and `stranded` say what
that was.  So does `RequestThrows`: `createOrder` releases what it took when a line is short, the
window is full, the save fails or the wallet refuses, but not when `claimSlotSeat`, a query of the
reservation loop, or the restore after the wallet's refusal throws.  `RejectedHoldsNothing` is about
the first kind; `RejectedLeavesTheShelf` is what the comment promises, and is violated.
`EndedOrdersReturnTheirStock` excepts the orders of `stranded`, whose status the acceptance timeout
took before it died.

The refinement mapping is `held <- Held`: order `o` holds the quantity of product `i` when the
request has it in memory, or the document has it (saved, `stockRestoredAt` unset), or some agent is
about to put it back, or it is lost.  `Promise == INSTANCE Shelf WITH ...` and the property
`KeepsThePromise` is `Promise!Spec`.

Not in it: batches (`StockBatches` has them) and expiry dates (a line may be refused for reasons the module does not
follow, so `RefuseLine` is always possible), `isAvailable`, the movement log, and products that
become tracked while an order is open.

### `Fulfilment`

One order, copies of which are in the hands of pickers and cancellations.  `PickReads` is
everything `adjustOrderFulfilment` does in memory; `PickPays` is the refund, `PickSaves` the save
and `PutsBack` the units that go back afterwards, line by line.  A restock may fail, which the code
logs and passes over (`RestockFails`), and the server of a call may die between any two of its steps
(`Dies`); `lost` counts the units that stay off the shelf for it, and `UndeliveredUnitsAreBack` excepts
exactly those.  `CancelReads`, `CancelRestores`,
`CancelPays` and `CancelSaves` are a cancellation; the seller's saves its status before the refund
and saves again.  `RefundWebhook` is `refund.processed`.

A Mongoose save is modelled by what it does: it writes the paths that were changed in memory
and no others, each over whatever the document holds by then (`Saved`).  `payment.refund` is assigned
as a whole, even with the value it had, by a handler that has the outcome of a refund (`told`).  A save
increments `__v` when an array was pushed to (every one of these handlers pushes to `statusHistory`); and it is conditional
on the `__v` it read when it replaces an array, which is what a short pick of a line with batch
allocations does (`Conditional`).  `Batched` says whether the lines have allocations.  A pick of lines
without allocations, or one that only finds again what was short, replaces no array (`Unguarded`); if
it saves an old copy it writes a total that is not the price of the bag.  `blind` records that this
has happened, and `BillMatchesTheBag` is stated up to then.  Whether a positional write to a
subdocument is checked as well depends on details of Mongoose, so `PickSaveFails` lets a stale save
fail in either case.

A unit of any product costs 1; fees, tax, coupons and substitutions are left out.

### `OrderPayment`

One online order from `pending_payment` to its end.  The handlers are `verify`, `clean` (both ways
into `deletePendingPaymentOrder`), `accept` and `reject` (`updateOrderStatusRestaurant`), `cancel`
(`cancelOrder`, and `updateOrderStatusAdmin` to a cancelled status), `advance`
(`updateOrderStatusAdmin` to any other) and `expire` (`expireUnacceptedOrders`).  Each reads the
document and saves later.

Of the units the module keeps where they are (`units`).  `Restores` is the claim on
`stockRestoredAt`, which any of the handlers that end the order makes, `PutsBack` the increments
after it.  A handler that dies between the two, or whose increment fails (`PutBackFails`), loses the
units: the claim is made and nobody tries again.  `AbandonedPaymentsLetGo` says so.

`updateOrderStatusAdmin` asks `isStatusAdvance` only, for which everything is an advance from
`pending_payment`, and does not look at the payment.  `byHand` records that support moved the order
on in this way; `UnpaidIsNeverActionable` excepts the order's status then, but not what the seller's
own calls do, and `NobodyWorksUnpaid`, which excepts nothing, is violated.
 
`gateway` is Razorpay's own record of the payment: the webhooks are
enabled by it, at any later time and as often as they match, and a refund succeeds only once.
A save of a document that was deleted throws, which ends the handler.

Statuses after `confirmed` (preparing, pickup, delivery), amounts that do not match, and the
methods other than Razorpay are left out.

### `DeliverySlots`

One window with a capacity, on one day.  A pass of `reconcileSeats` reads the ledger and the
orders in two queries that answer in any order (`ReadLedger`, `ReadOrders`), decides from what it
read (`Decided`), and writes: an insert if there was no row (`CreateRow`), else one update that
pulls and one that adds (`Pull`, `Adopt`).  A request checks the window with such a pass
(`Resolve`, `Resolved`), makes sure the row exists (`EnsureRow`), claims its seat in one
conditional update (`ClaimSeat`), saves, and may fail or crash on the way.  Browsing customers run
passes all the time.

Time enters only through `ABANDONED_CLAIM_MS`, five minutes: an id that names no order is given back
only when it is older than that.  `Age` says that an id has come of age.  Requests and passes are
taken to be shorter than five minutes together, except for the requests in `Slow`, so that
the effect of the assumption is in the model: `overdue` records the ids that came of age while
their order was on its way in (or while a pass that had missed it was still undecided), and the
safety properties except exactly those, and the orders in `revived`.

`Revive` is a save that takes a cancelled order back to a live status: `verifyPayment`, which does
not look at the status it found, and old copies of the seller's and the rider's handlers.  The order's
seat may have been given away by then and is not asked for again; the next pass takes one whether
there is room or not.  Each order of the constant `Revivable` may come back once.  A revived order
may have lost its seat and may be one too many (`PromptOrdersNeverOverbook` is violated); the safety
properties say that nobody else suffers: without these orders the window is never too full, and
every other order keeps its seat.  Standing orders come from subscriptions, whose snapshot of
the window has no capacity, and claim nothing.

The capacity is a constant; `updateSlot` is not modelled.

### `StockBatches`

One product that is tracked by batch.  The count decides whether a sale may happen (`Reserve`); the
batches say which units leave.  `ReadBatches` is the aggregation of `allocateFefo`, `Pick` one of
its conditional claims, `Picked` its end, which lets the sale stand even if the batches did not
cover it.  `ReturnTo` and `Restock` are what releases and cancellations do; `Receive` and
`CountReceived` are the two updates of `receiveBatch`.  A sweep (`writeOffExpiredBatches`) reads a
list, then claims a batch, sets its remainder to zero, and takes what the claim returned out of the
count.  Batches are numbered in the order of the aggregation, so the earliest date is the lowest
number; `Expire` is the passing of a date.  Sweeps are started by an administrator, so nothing
says that one ever runs.

Not in it: short picks, which return part of an allocation; calls that fail.

### `Dispatch`

One order from its first assignment to its pickup.  `doc` is `order.dispatch`.  An attempt is
`tryAutoAssign`: `Attempt` starts it, `TakeLock` is the conditional update that sets
`dispatchingAt`, `Hold` everything it decides on the copy that update returned, and then the
seller's own fleet (`KeepHolder`, `ReleaseHolder`, `PickRider`, `PickNobody`), the direct
assignment to a rider of the same block with the re-check after it (`DirectAssign`, `NobodyNearby`,
`LoseTieBreak`, `KeepAssigned`), the offer (`Offer`, `OfferToNobody`) and the removal of the lock
(`Unlock`).  `TieBreakElsewhere` is the re-check of another order that loses this one its rider.
`TimeoutReads`, `WatchdogReads`, `ResendReads`, `AssignReads`, `ReassignReads` and `RejectReads`
are the handlers that read the document, and `Save` is what `order.save()` does with what they
changed: it writes the changed fields only, over whatever is there, and fails on another `__v` only
when an array was replaced.  `ClearOldLock` is the watchdog's last update.  `Accept`, `Deassign` and
`PickUp` are single updates.

The order may be closed on the way.  `CancelReads` is `cancelOrder`, whose save sets
`dispatch.status` to `cancelled`, takes the rider its copy names off the order and leaves `acceptedAt`.
`ExpireReads`, `Expire` and `ReleaseStranded` are the acceptance timeout: it lists orders with their
riders, takes the status in one update, and takes the rider off in a second one.  `Close` stands for
the handlers that end an order and leave its dispatch alone (a delivery, a cancellation by the seller
or by support).

`holders` are the riders whose acceptance was recorded and who were told nothing since; `behind` and
`overtaken` say that a handler saved a copy read before the last acceptance.
`TheRiderWhoAcceptedIsTheRiderNamed` excepts what follows then, and `OneRiderPerTrip`, which does
not, is violated (run `dispatch_reverted`).  Riders to whom an order was only assigned, by the fleet
or by hand, are told as well that it is theirs; they are not `holders`, because timeouts, the watchdog and
an assignment by hand take it off them again and tell nobody.

Not in it: which riders are near, online or free, and which let an offer lapse (an attempt may find
nobody or anybody who was not taken off the order); batches of several orders; the steps of the
delivery after the pickup; the load of a rider; the return of a closed order to a live status
(`OrderPayment.TerminalIsFinal`); `assignDeliveryPartnerAdmin` (`order.service.js:2919`), which no
route calls.

### `Ledger` and `Wallet`

`Ledger` is the abstract specification: a balance, and how often each movement stands in the
wallet; a movement is booked in one step, when it is admissible on the balance and the rows as they
are.  `Wallet` is the detailed one.  Each request opens the wallet (`OpenWallet`: `findOne`, and the
checks on the copy), creates it if there is none (`CreateWallet`; `userId` is unique), and saves its
copy (`Book`), which is conditional on the version because `transactions.unshift` replaces the
array.  `outdated` are the requests whose copy has another version, so that no counter of versions
is needed.  `MovementFails` is a version error, a duplicate key or an error of the database.  A debit
and a refund read the wallet once more for their answer; when that read throws, the movement stands and the caller
goes on as if it had not been made (`BookUnheard`): `createOrder` deletes the order, a cancellation
notes a failed refund.  `unheard` counts these movements.
The refinement mapping is `balance <- wallet.balance, booked <- wallet.rows`.

The callers differ in what they do around the movement.  `PlaceOrder` saves the order as paid before
the wallet is asked and deletes it when the wallet refuses (`DeleteUnpaidOrder`).  `ReadToCancel` is
a cancellation by customer, support or seller; the seller's saves the status before the refund
(`StampCancellation`).  `DeleteOrder` is `deleteOrderAdmin`, which looks neither at the payment nor at
the status (stage `removed`).  `ExpireOrder` is the acceptance timeout, which takes the status in one update
and only logs a failed refund.  `RefundByHand` is support's refund.  `CloseRefund` is the save of
`payment` and its refund afterwards; `Crash` stands for a process that dies and for a save of the
order that fails.  `VerifyTopUp`, `RewardReferral` and `AwardCashback` move no order's money.

`entangled` are the orders that two requests held at the same time, or over which one died.  For
those the code promises nothing - two cancellations that both read before either saved refund twice,
and the model shows it - and the two properties about orders except exactly those.
`OrdersAndWalletAgree` says how the wallet and an order differ otherwise: by the movements in
`unheard`, and by nothing else.  That a customer does not pay for an order that is gone
(`NobodyPaysForAnOrderThatIsGone`) is violated, by an unheard debit and by a deletion.

Not in it: top-ups not yet paid, what the cashback settings refuse by amount or date, and short
picks, which `Fulfilment` has.

### `Subscriptions`

One product subscription.  `sub` is the document with `occurrencesGeneratedUntil`, `rows` its days.
The recurrence is translated as code: `NextOnOrAfter` and `StepToNext` are the functions of the same
names, `Upcoming` is the loop of `generateOccurrencesForSubscription` (a recursive function).
`CreateSubscription`, `ReadToUpdate` (pause, resume, cancel), `ReadToDelete` and `ReadToSkip` begin a
request; `ClearPaused`, `SaveSubscription`, `InsertRows`, `MarkGenerated`, `CancelScheduled`,
`EndRows` and `SaveSkip` are its statements in their order.  A sweep generates (`SweepReads`, then
`InsertRows`, `MarkGenerated`), lists what is due (`ListDue`) and works through its list
(`TakeNext`, then `DropRow` or `PlaceOrder`, and `RecordOrder`, `OrderFails` or `RecordFails`).
Sweeps may overlap: the API server, the job runner and a button start them.  A row that was deleted
and written again has another `id`, so that an update by `_id` meets the row it was meant for.

`declined` are the days the customer was told are skipped.  `overtaken` are those among them whose skip
was saved too late: the day had begun, or a pause or a deletion had cancelled the row since it was
read.  An empty reason leaves the reason that these wrote on the row, so that the resumption deletes
and rewrites the row and the day is delivered.  `SkippedIsNotDelivered` excepts these days, and
`WhatIsToldSkippedIsNotDelivered`, which does not, is violated.  `irregular` says that two updates
overlapped, one died, or one undid a cancellation; `exposed` are the days two sweeps were at, or one
died or failed over after the order was placed, and `RowsSayWhatWasOrdered` excepts those.  Days are
numbers, all weeks and all months are of equal length, and one subscription stands for all: they share nothing.

## Runs

Deadlock is checked in `delivery_slots`; in the others the system may stop (an order has ended and
nobody calls), and their configurations say so.

| Run | Instance | Shows |
|---|---|---|
| `inventory` | 2 orders of 2 of 3 cartons and an uncounted bag, 2 handlers, a hand-set count, 2 crashes, throwing calls, failed updates or counts | `Conserved`, `RejectedHoldsNothing`, `EndedOrdersReturnTheirStock`, `KeepsThePromise` |
| `fulfilment` | 2 lines of 2 units, 2 pickers, 1 cancellation, 4 calls, 1 failed refund, failed restock or death, cash, wallet and gateway | `RecordedIsGiven`, `BillMatchesTheBag`, `UndeliveredUnitsAreBack`, `ShortfallIsGivenOrSaidToFail` |
| `fulfilment_cancel` | the same, paid online | violates `CancelledGivesAllBack` |
| `order_payment` | 2 handlers at a time, 1 crash or failed restock | `UnpaidIsNeverActionable`, `BooksFollowTheMoney`, and under fairness `AbandonedPaymentsLetGo` |
| `order_payment_stuck` | the same without crashes | violates, under fairness, `CapturedPaymentsRecover` |
| `delivery_slots` | capacity 1, 2 customers (1 slow, 1 that may be revived), 1 standing order, 1 browser | `StandingOrdersKeepTheirSeat`, `NeverOverbooked`, and under fairness `LedgerFollowsTheOrders` |
| `stock_batches` | 2 batches of 2 units, one with a date, 2 orders of 1 to 3 units, 2 sweeps, 1 crash | `ActiveBatchesAddUp`, `ExpiredUnitsAreNotPicked`, `CountLosesOnlyWhatExpired` |
| `dispatch` | 2 riders, 1 of them of the seller's fleet, 1 handler at a time and the watchdog, 2 starts | `TheRiderWhoAcceptedIsTheRiderNamed`, and under fairness `TheLockComesOff`, `SilentRiderLosesTheOrder` |
| `dispatch_reverted` | the same, without fairness | violates `OneRiderPerTrip` |
| `wallet` | 2 orders, 1 top-up, 1 referral, 2 requests at a time, 4 in all, 1 cashback at most | `OrdersAndWalletAgree`, `NoRefundIsForgotten`, `ImplementsLedger` |
| `subscriptions` | a weekly rule of one day in a week of two, 2 days and 2 generated ahead, 2 requests and 2 sweeps of which 2 at a time, 3 requests in all, 1 crash | `DeliveriesFollowTheRule`, `ResumingLeavesNoGap`, `SkippedIsNotDelivered`, `RowsSayWhatWasOrdered`, and under fairness `DueIsSettled` |
| `subscriptions_monthly` | a monthly rule in months of four days, 4 generated ahead | violates `DeliveriesFollowTheRule` |

Why the bounds are enough. Orders meet only through the count of a product or through the ledger's
row: two orders that want more than there is together are the contention the code has to decide, and
a third order meets them in the same way. Handlers of one order meet through its document: two of
them, free to start again, give every overlap of a read with somebody else's write. An uncounted
product next to the counted one brings in the branch that passes it by. In `fulfilment`, four calls
allow two picks each overlapped by another and by a cancellation, with reports that name one line,
the other, or both, and that raise a quantity again, by a unit or in full. In `stock_batches`, an order of three units
needs both batches, and two orders together want more than there is. Two crashes in `inventory`
allow one in the middle of another's repair. `inventory`, `fulfilment`, `stock_batches` and `wallet` use
symmetry over orders, handlers or pickers that differ in nothing; the runs with liveness properties
use none. In `dispatch`, the watchdog and one
handler at a time, with riders who act in between, give every overlap of a copy with a conditional
update; a second ordinary handler adds nothing the watchdog's copy does not show, since both save
the same fields. In `wallet`, two requests give every overlap of a copy with a save, four starts let
an order be topped up for, placed, cancelled, and refunded by hand or deleted, or two be placed and one
cancelled, and a
cashback limit of one makes two orders compete for it. In `subscriptions`, two days and a horizon of
two give a day in the past, the present and the future of every sweep, and three requests a pause, a
resumption and a skip (or a cancellation), any two of which may overlap, as may each with a sweep and the
sweeps with each other.

### Violations

The four `violation` runs are disagreements of the code with its own comments; `PROJECT.json` quotes
each and says what the code does.

### Known disagreements without a run of their own

The modules state twelve more properties, or instances of one, that quote the source and that the
code violates.  To see one, put it into the configuration of the module's passing run as its only INVARIANT or PROPERTY.

* `Inventory.CollectedIsNotRestocked` - `restoreOrderStock` decides on its caller's copy of the order
  whether the goods have left (`inventory.service.js:350`), and its claim (`:358`) does not look at
  the document's status: a pickup confirmed between the caller's read and the claim gives an order
  whose goods are on a bike and whose units are in the count.  The comment at `:337` says "Goods a
  rider has collected are not on the shelf, whoever is asking."
* `Inventory.RejectedLeavesTheShelf` - `claimSlotSeat` (`order.service.js:1082`), the queries of the
  reservation loop (`inventory.service.js:162`, `:167`, `:183`) and the `restoreOrderStock` after the
  wallet's refusal (`order.service.js:1131`) may throw, and nothing is released, although "A rejected
  order must leave the shelf exactly as it found it".
* `Fulfilment.RefundedMeansTheWholeBill` - the webhook `refund.processed` marks the payment as
  refunded for any refund that is not yet recorded (`razorpayWebhook.controller.js:104-118`), and a
  short pick records its partial refund only with the save (`order-fulfilment.service.js:399`,
  `:412`), although `:122-125` explains why the payment must stay paid.
* `OrderPayment.TerminalIsFinal` - `verifyPayment` assigns `created` without looking at the status it
  found (`order.service.js:1315`), and handlers save copies they read before their awaits, although
  "Terminal states (100) cannot transition to anything else" (`order.helpers.js:1079`).
* `OrderPayment.NobodyWorksUnpaid` - `updateOrderStatusAdmin` moves an order from `pending_payment` to any
  status and does not look at the payment (`order.service.js:3033`), although the gate of the seller's
  handler is there because "restaurant could walk an abandoned, never-paid order all the way to
  'delivered'".
* `DeliverySlots.PromptOrdersNeverOverbook` - an order that was cancelled, and whose seat was given away,
  comes back with the save of `verifyPayment` (`order.service.js:1315`) or of an old copy, and the
  window holds more than `deliverySlot.model.js` says it can take in a day.
* `DeliverySlots.StandingOrdersTakeAPlace` - a booking made from a subscription's snapshot has no
  capacity, so `claimSlotSeat` returns before it records anything (`deliverySlot.service.js:350`),
  although a standing arrangement "does take up a place in the window" (`order.service.js:1085-1086`).
* `StockBatches.ExpiredStockIsOutOfTheCount` (with `RecordedInTime` as CONSTRAINT) - the write-off
  takes all units of a batch out of the count or none (`stockBatch.service.js:220`), and a
  cancellation after it raises the count for a batch that takes nothing back (`:179`), although
  "expired stock cannot be sold by either route" (`stockBatch.model.js:39-41`).
* `Dispatch.CancellingReleasesTheRider` - `cancelOrder` takes the rider off the order whom its copy names
  (`order.service.js:1867-1871`); one who accepted since it was read goes on holding a cancelled order,
  although "Whoever was riding for this needs releasing before anything else" (`:1863`).
* `Wallet.NobodyPaysForAnOrderThatIsGone` - with no overlap and no crash: `createOrder` deletes an order
  whose debit was booked and reported as failed, because the wallet is read again after its save
  (`userWallet.service.js:167`, `order.service.js:1130-1133`), and `deleteOrderAdmin` deletes a paid
  order without a refund (`:2955-2978`).
* `Subscriptions.WhatIsToldSkippedIsNotDelivered` - `cancelOccurrence` saves the row without asking it
  anything again (`productSubscription.service.js:315-318`) and answers that the day is skipped; a pause in
  between leaves its own reason on it, and the resumption rewrites the row, or the day has begun and
  was ordered.
* `Subscriptions.DeliveriesFollowTheRule` with `Frequency = "daily"` and `StartDate = 3` - the day
  that `updateSubscription` goes on from after a resumption is today (`productSubscription.service.js:253`),
  and for a daily subscription the next is the day after (`:63`), although the first one is still to
  come: paused and resumed before it starts, it delivers from tomorrow.  `startDate` is required, and
  `nextOccurrenceOnOrAfter` (`:33-35`) puts no delivery before it.

### Fairness

`OrderPayment`: a handler that has begun goes on (`Continue`; Node runs it to its end unless the
process dies, which `Crash` does a bounded number of times); the clean-up runs again and again
(every listing of orders and a repeated job start it) as long as there is something to clean; any
restock may fail instead of succeeding, a bounded number of times;
Razorpay repeats a webhook until it is answered.  Nothing makes the customer pay, the app call
`verifyPayment`, or anybody accept or cancel.

`DeliverySlots`: a request that has started goes on (weak fairness of its steps; `Crash` is not
fair); every pass that a browsing customer has started goes on, and somebody keeps looking at the
list of windows, so passes run again and again (a property of use: without readers the ledger would not matter either); five minutes go by for every id.  `Age` has strong
fairness because the assumption on the duration of requests and passes disables it for short
times.  Nothing makes anybody order, cancel, delete or put an order back.

`Dispatch`: a handler that has started goes on; the watchdog comes by every two minutes and its
saves do not fail for ever (`recoverStuckOrders` runs on a timer, so strong fairness: other handlers
may disable it for a moment, not for ever); time passes, so that an assignment and a lock come of
age.  Nothing makes a rider answer, a timeout job survive, or an administrator act.

`Subscriptions`: what has started runs to its end unless the process dies, and the sweep comes by
every hour.  Nothing makes the customer do anything.

## Proofs

`tlapm` checks every proof to its leaves.  The assumptions on the constants are those of the
modules: finitely many orders, callers, sweeps and requests, baskets that are not empty, natural
numbers for counts, amounts that are not zero, `Nobody` not a rider, requests that are not sweeps.

* `InventoryProofs` - `Typed`: the type invariant; it holds by itself, and says among other things
  that no count goes below zero.  `OnePlace`: the inductive invariant `IInv`.  `Conserved` alone is
  not inductive: that a restore puts back what the order took needs to know that the lines of a
  saved document are what its request took (`DocumentInv`), that a handler with units in hand won
  the claim on a document whose `stockRestoredAt` is set (`HandlerInv`), that no two agents have
  the same units in hand (`OneHand`), and that what is lost is nowhere else (`LostInv`).
  `InventoryKeepsThePromise`: `Spec => KeepsThePromise`.  From `IInv`, each action is a step of `Shelf`
  (`ReserveLine` takes, `PutBack` gives back, `AdjustStock` books) or leaves `Held` alone.
  `ShelfConserves`: the abstract shelf keeps its units; `StockIsConserved` follows from the two.
  `EndedReturns` and `RejectedReturns`: a second invariant, `EndInv`, follows a document from the claim
  to the status its handler writes; once a handler has been through the claim, the order is settled
  (restored, empty, or collected), and stays so.
* `FulfilmentProofs` - `FulfilmentIsTyped`, `NothingIsRecordedThatWasNotGiven`, `TheBillFollowsTheBag`,
  `WhatIsNotDeliveredGoesBack` and `ShortfallIsNotDropped`, from `IInv`: what the document, a copy or a
  webhook says went back did go back (`MoneyInv`); a copy is what its call made of what it read
  (`CopyInv`); it is no newer than the document, and at the same version it was read with the
  document's goods and bill (`AgeInv`); the units back on the shelf, those some call still owes
  and those that were lost make up what is not in the bag (`UnitsInv`); and a shortfall was given, or the document, or the copy about
  to be saved, says that it failed (`ShortfallInv`).  None of the five properties is inductive: each
  depends on which copies are old, and on what their owners will still do.
* `StockBatchesProofs` - `BatchesAreTyped`, `EveryUnitIsTraced`, `NothingExpiredIsSold`,
  `NothingIsWrittenOffTwice`, from `IInv`: no intake has more left than arrived, and one on sale accounts
  for all of it (`BatchInv`); an order asks an intake once, of those that were in date when it came
  (`OrderInv`); a sweep that claimed an intake is the one that wrote it off (`SweepInv`); and the count
  has lost, or is about to lose, no more than was sold or written off (`CountInv`; without the units the
  sweeps still have in hand it is not inductive).
* `WalletProofs` - `WalletIsTyped` (the balance is never negative) and `WalletImplementsLedger`.
  `TypeOK` alone is not inductive: that a debit leaves a natural number needs to know that a request
  about to save was allowed on its copy, and that its copy is the wallet unless it is outdated
  (`CopiesAreCurrent`).  `OrdersAndWalletAlwaysAgree` and `NoRefundIsEverForgotten` follow from
  `AgreeInv`: an order that is not entangled has at most one request at its money, the difference
  between order and wallet, but for the unheard movements, is what that request has yet to do (`ChargeAgrees`, `RefundAgrees`), and
  an order says it was refunded exactly when its refund is processed (`RefundedIsProcessed`).
* `DispatchProofs` - `DispatchIsTyped` and `TheRiderWhoAcceptedIsAlwaysNamed`, from `DispatchInv`: every copy
  that is about to be saved is one its handler may have (`SaversKnow`), one that was read after
  the last acceptance knows of it (`CopiesAreCurrent`), and a cancelled dispatch belongs to an order
  that is closed (`CancelledIsOver`).
* `OrderPaymentProofs` - `OrderPaymentIsTyped`, `TheSellerActsOnlyOnPaidOrders`, `TheBooksNeverRunAhead`.
  The invariant adds that a handler past the gateway's answer has a gateway that says so
  (`HandlersFollowTheMoney`).
* `DeliverySlotsProofs` - `DeliverySlotsIsTyped`, `StandingOrdersAlwaysKeepTheirSeat`,
  `TheWindowIsNeverOverbooked`, from `SlotsInv`: a seat is only put where there is a row
  (`RowIsThere`), where a request is tells what its order is (`LifeOfAnOrder`), what a pass has read
  and decided, however long ago, does not take a seat that is in use (`PassesAreRight`), and the seats
  in use are in the ledger (`SeatsAreKept`).
* `SubscriptionsProofs` - `SubscriptionsStaySound`, and from it `SkippedDaysAreNeverOrdered` and
  `TheRowsSayWhatWasOrdered`.  The invariant says that what a sweep has in hand was due
  (`HandsAreDue`), that the row of a day whose skip nothing overtook stays skipped (`SkipsStand`), that nothing is ordered
  before its day (`NothingIsEarly`), and what is in hand of which sweep (`RowsAreRight`).
  `SubscriptionsAreTyped`: that a row's number never runs over needs to know how many requests are
  about to replace rows (`RowsAreNumbered`), and that a mark is a day, that no list of new days is
  empty.  `UpcomingIs` says which days the generator writes.  `DeliveriesKeepToTheRule` assumes
  `KeepsTheRule`: a weekly rule, or a daily one that starts today or tomorrow; for the others the
  property is false (the run `subscriptions_monthly`, and the disagreement listed above).
  `ResumingLeavesNoDayOut` assumes a daily or weekly rule.  Its invariant, `Regular`, holds until
  updates overlap: what the update under way has read still holds (`UpdateIsRight`), an active or
  resuming subscription has no paused row ahead (`NonePausedAhead`), and a day without a row will be
  written by the request under way, or is beyond the mark, beyond every mark a job is about to set,
  and in or beyond every list a job is about to write (`NoneMissing`).  The last part is what makes
  it inductive: a sweep that read the subscription before a pause writes its rows and its mark after
  the resumption.

A sum over a set (`SumFunction`) is a recursive function on the subsets, defined by CHOOSE.  The proofs
replace it by the number of tokens of a finite set, f[x] of them for every x (`Tokens`, `Sum`), about which
the library's theorems on cardinality say everything that is needed: `FoldIsSum` shows that the
function so defined satisfies the recursion, and that a smallest subset on which another one
differs from it cannot be (`WFMin`).  In the same way `UpcomingIsRecursive` shows that the generator's
loop is a function (`Reached` says without recursion what it returns), and `UpcomingIs` looks at the
last day from which the loop would go wrong.  That is how facts about recursive functions are proved
here, in place of the induction theorems with an operator as a parameter.

Only model-checked: liveness under fairness, which is out of the prover's reach
(`AbandonedPaymentsLetGo`, `LedgerFollowsTheOrders`, `TheLockComesOff`, `SilentRiderLosesTheOrder`,
`DueIsSettled`), as are ENABLED and RECURSIVE operators; no module declares one.

## Not modelled

* Settlement and transactions (`core/payments`, `payment.processor.js`): rows written once after an
  order ended, from the order's own numbers; no order state depends on them.
* Pricing, coupons and promises: sequential arithmetic, covered by the repository's self-checks.
* Monthly lists and the point of sale: callers of `createOrder` with bookkeeping of their own.
* Queues: they start the handlers above at any time, which is how the modules start them.
* Authentication and OTP, catalogue, restaurants, search, landing, dining, notifications, chat,
  sockets: documents with one writer at a time, or best-effort messages after the fact.
* The front ends, which make up most of the repository's lines: they call the services, and the
  modules let their calls come in any order.

## Plan

All modules that were planned are here, in the order in which they were written: `Shelf`,
`Inventory`, `Fulfilment`, `OrderPayment`, `DeliverySlots`, `StockBatches`, `Dispatch`, `Ledger`,
`Wallet`, `Subscriptions`.  What would come next:

1. the composition of `Fulfilment` with `Inventory`: an exact count of the units of a line under
   picks and cancellations;
2. several orders in `Dispatch`, with the load of a rider and the tie-break as actions of both.
