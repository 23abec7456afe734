---------------------------- MODULE DeliverySlots ----------------------------
(***************************************************************************)
(* The places of one capped delivery window on one day.                    *)
(*                                                                         *)
(* The ledger row of the window (FoodDeliverySlotBooking) holds the ids of *)
(* the orders that have a place in it, and customers contend for it: an    *)
(* order request checks that the window has room, takes a seat in one      *)
(* conditional update, and saves its order afterwards.  The orders are the *)
(* truth, the ledger follows them: every reading of the list of windows    *)
(* (getAvailableSlots) first runs a pass of reconcileSeats, which reads    *)
(* the ledger and the orders in two separate queries and then gives back   *)
(* the seats of orders that are gone, and adopts the orders that have none.*)
(* The request's own check (resolveSlotForOrder) is such a pass too.       *)
(*                                                                         *)
(* Time enters only through ABANDONED_CLAIM_MS: an id that names no order  *)
(* is left alone until it is that old.  Requests and passes are shorter    *)
(* than that, except the requests in Slow.                                 *)
(***************************************************************************)
EXTENDS Integers, FiniteSets

CONSTANTS
    Customers,  \* order requests that book the window
    Standing,   \* orders that have the window without asking for a seat
    Browsers,   \* customers who only look at the list of windows
    Capacity,
    Slow,       \* requests that may outlive ABANDONED_CLAIM_MS
    Revivable   \* orders that a handler with an old copy may put back

Orders == Customers \cup Standing
Readers == Customers \cup Browsers

ASSUME DeliverySlotsAssumption ==
    /\ IsFiniteSet(Orders)
    /\ Customers \cap (Standing \cup Browsers) = {}
    /\ Capacity \in Nat \ {0}
    /\ Slow \subseteq Customers
    /\ Revivable \subseteq Orders

VARIABLES
    row,        \* does the ledger row exist?
    seats,      \* its orderIds
    order,      \* the order document
    req,        \* where createOrder is
    aged,       \* ids older than ABANDONED_CLAIM_MS
    pass,       \* what a pass of reconcileSeats has read, and has to write
    overdue,    \* ids that came of age while their order was on its way in
    revived     \* orders that were put back after they had been cancelled

requests == <<order, req, overdue, revived>>
vars == <<row, seats, order, req, aged, pass, overdue, revived>>

NoPass == [phase |-> "none"]
Passes ==
    [phase : {"reading"}, got : SUBSET {"orders", "ledger"}, row : BOOLEAN,
     held : SUBSET Orders, known : SUBSET Orders, live : SUBSET Orders]
    \cup [phase : {"creating", "pulling", "adopting", "done"}, full : BOOLEAN,
          giveBack : SUBSET Orders, adopt : SUBSET Orders]

HasId(o) == req[o] \notin {"idle", "resolving", "resolved"}
InFlight(o) == req[o] \in {"resolved", "claiming", "claimed", "releasing"}
Live == {o \in Orders : order[o] = "live"}

TypeOK ==
    /\ row \in BOOLEAN
    /\ seats \subseteq Orders
    /\ seats # {} => row
    /\ order \in [Orders -> {"absent", "live", "cancelled"}]
    /\ req \in [Orders -> {"idle", "resolving", "resolved", "claiming", "claimed",
                           "saved", "releasing", "done", "refused", "failed"}]
    /\ aged \subseteq {o \in Orders : HasId(o)}
    /\ pass \in [Readers -> Passes \cup {NoPass}]
    /\ overdue \subseteq Slow
    /\ revived \subseteq Revivable

Init ==
    /\ row = FALSE
    /\ seats = {}
    /\ order = [o \in Orders |-> "absent"]
    /\ req = [o \in Orders |-> "idle"]
    /\ aged = {}
    /\ pass = [r \in Readers |-> NoPass]
    /\ overdue = {}
    /\ revived = {}

-----------------------------------------------------------------------------
(* reconcileSeats                                                          *)

StartPass(r) ==
    pass' = [pass EXCEPT ![r] = [phase |-> "reading", got |-> {}, row |-> FALSE,
                                 held |-> {}, known |-> {}, live |-> {}]]

(* Mistakes the runs must notice: an id that is new is taken for           *)
(* abandoned; an id that names no order is never given back.               *)
GiveBackUnknown(held, known, live, old) == held \ live
GiveBackCancelled(held, known, live, old) == (held \ live) \cap known

(* An order that was cancelled frees its place at once; an id without an   *)
(* order may be seconds old.                                               *)
GiveBack(held, known, live, old) ==
    {o \in held \ live : o \in known \/ o \in old}

(* Both queries have answered: what is there to write?                     *)
Decided(p) ==
    [phase |-> IF p.row THEN "pulling" ELSE "creating",
     full |-> Cardinality(p.live) >= Capacity,
     giveBack |-> GiveBack(p.held, p.known, p.live, aged),
     adopt |-> p.live \ p.held]

Answered(r, p) ==
    pass' = [pass EXCEPT ![r] = IF p.got = {"orders", "ledger"} THEN Decided(p) ELSE p]

ReadLedger(r) ==
    /\ pass[r].phase = "reading"
    /\ "ledger" \notin pass[r].got
    /\ Answered(r, [pass[r] EXCEPT !.got = pass[r].got \cup {"ledger"}, !.row = row, !.held = seats])
    /\ UNCHANGED <<row, seats, aged, requests>>

ReadOrders(r) ==
    /\ pass[r].phase = "reading"
    /\ "orders" \notin pass[r].got
    /\ Answered(r, [pass[r] EXCEPT !.got = pass[r].got \cup {"orders"},
                                   !.known = {o \in Orders : order[o] # "absent"},
                                   !.live = Live])
    /\ UNCHANGED <<row, seats, aged, requests>>

Written(r, phase, adopt) ==
    pass' = [pass EXCEPT ![r] = [phase |-> phase, full |-> pass[r].full,
                                 giveBack |-> {}, adopt |-> adopt]]

(* $setOnInsert: an existing row is left as it is.                         *)
CreateRow(r) ==
    /\ pass[r].phase = "creating"
    /\ IF row \/ pass[r].adopt = {}
       THEN UNCHANGED <<row, seats>>
       ELSE row' = TRUE /\ seats' = pass[r].adopt
    /\ Written(r, "done", {})
    /\ UNCHANGED <<aged, requests>>

Pull(r) ==
    /\ pass[r].phase = "pulling"
    /\ seats' = seats \ pass[r].giveBack
    /\ Written(r, "adopting", pass[r].adopt)
    /\ UNCHANGED <<row, aged, requests>>

Adopt(r) ==
    /\ pass[r].phase = "adopting"
    /\ seats' = seats \cup pass[r].adopt
    /\ Written(r, "done", {})
    /\ UNCHANGED <<row, aged, requests>>

EndPass(r) ==
    /\ pass[r].phase = "done"
    /\ pass' = [pass EXCEPT ![r] = NoPass]

Browse(b) ==
    /\ pass[b] = NoPass
    /\ StartPass(b)
    /\ UNCHANGED <<row, seats, aged, requests>>

ShowList(b) ==
    /\ EndPass(b)
    /\ UNCHANGED <<row, seats, aged, requests>>

-----------------------------------------------------------------------------
(* createOrder                                                             *)

Goto(o, phase) == req' = [req EXCEPT ![o] = phase]

Resolve(o) ==
    /\ req[o] = "idle"
    /\ Goto(o, "resolving")
    /\ StartPass(o)
    /\ UNCHANGED <<row, seats, aged, order, overdue, revived>>

(* "This slot is full" when the orders that stand already fill it.         *)
Resolved(o) ==
    /\ req[o] = "resolving"
    /\ EndPass(o)
    /\ Goto(o, IF pass[o].full THEN "refused" ELSE "resolved")
    /\ UNCHANGED <<row, seats, aged, order, overdue, revived>>

(* A mistake the runs must notice: nobody creates the row.                 *)
SkipRow(o) ==
    /\ req[o] = "resolved"
    /\ Goto(o, "claiming")
    /\ UNCHANGED <<row, seats, aged, order, pass, overdue, revived>>

(* claimSlotSeat: the row has to exist before it is contended over.        *)
EnsureRow(o) ==
    /\ req[o] = "resolved"
    /\ row' = TRUE
    /\ Goto(o, "claiming")
    /\ UNCHANGED <<seats, aged, order, pass, overdue, revived>>

(* A mistake the runs must notice: the update does not ask for room.       *)
ClaimSeatUnchecked(o) ==
    /\ req[o] = "claiming"
    /\ seats' = seats \cup {o}
    /\ Goto(o, "claimed")
    /\ UNCHANGED <<row, aged, order, pass, overdue, revived>>

ClaimSeat(o) ==
    /\ req[o] = "claiming"
    /\ IF Cardinality(seats) < Capacity
       THEN seats' = seats \cup {o} /\ Goto(o, "claimed")
       ELSE UNCHANGED seats /\ Goto(o, "refused")
    /\ UNCHANGED <<row, aged, order, pass, overdue, revived>>

Save(o) ==
    /\ req[o] = "claimed"
    /\ order' = [order EXCEPT ![o] = "live"]
    /\ Goto(o, "saved")
    /\ UNCHANGED <<row, seats, aged, pass, overdue, revived>>

SaveFails(o) ==
    /\ req[o] = "claimed"
    /\ Goto(o, "releasing")
    /\ UNCHANGED <<row, seats, aged, order, pass, overdue, revived>>

ReleaseSeat(o) ==
    /\ req[o] = "releasing"
    /\ seats' = seats \ {o}
    /\ Goto(o, "failed")
    /\ UNCHANGED <<row, aged, order, pass, overdue, revived>>

Charged(o) ==
    /\ req[o] = "saved"
    /\ Goto(o, "done")
    /\ UNCHANGED <<row, seats, aged, order, pass, overdue, revived>>

(* The wallet refuses: the order is deleted, its seat is not released.     *)
ChargeFails(o) ==
    /\ req[o] = "saved"
    /\ order' = [order EXCEPT ![o] = "absent"]
    /\ Goto(o, "failed")
    /\ UNCHANGED <<row, seats, aged, pass, overdue, revived>>

(* The server dies between two calls, or one of them throws, before the    *)
(* order exists: the seat is not released.                                 *)
Crash(o) ==
    /\ req[o] \in {"claiming", "claimed", "releasing"}
    /\ Goto(o, "failed")
    /\ UNCHANGED <<row, seats, aged, order, pass, overdue, revived>>

(* A subscription's occurrence names its window by a snapshot that has no  *)
(* capacity, so claimSlotSeat returns before it records anything; so does  *)
(* an order from before the window had a limit.                            *)
PlaceStanding(s) ==
    /\ req[s] = "idle"
    /\ order' = [order EXCEPT ![s] = "live"]
    /\ Goto(s, "done")
    /\ UNCHANGED <<row, seats, aged, pass, overdue, revived>>

Cancel(o) ==
    /\ order[o] = "live"
    /\ order' = [order EXCEPT ![o] = "cancelled"]
    /\ UNCHANGED <<row, seats, aged, req, pass, overdue, revived>>

(* A handler that read the order before it was cancelled saves its status, *)
(* or one that does not look at it does: verifyPayment, and an old copy of *)
(* updateOrderStatusRestaurant or confirmPickup.  The seat is not asked    *)
(* for.  Bound: once for every order of Revivable.                         *)
Revive(o) ==
    /\ o \in Revivable \ revived
    /\ order[o] = "cancelled"
    /\ order' = [order EXCEPT ![o] = "live"]
    /\ revived' = revived \cup {o}
    /\ UNCHANGED <<row, seats, aged, req, pass, overdue>>

(* deleteOrderAdmin, once createOrder has returned.                        *)
Delete(o) ==
    /\ order[o] # "absent"
    /\ req[o] = "done"
    /\ order' = [order EXCEPT ![o] = "absent"]
    /\ UNCHANGED <<row, seats, aged, req, pass, overdue, revived>>

-----------------------------------------------------------------------------
(* Has reader r read the orders without o, and not yet decided?            *)
Missed(r, o) ==
    pass[r].phase = "reading" /\ "orders" \in pass[r].got /\ o \notin pass[r].known

(* Five minutes go by.  A request and a pass that overlap are together     *)
(* shorter than that, unless the request is slow.                          *)
Age(o) ==
    /\ o \notin aged
    /\ HasId(o)
    /\ aged' = aged \cup {o}
    /\ LET late == InFlight(o) \/ \E r \in Readers : Missed(r, o) IN
       /\ late => o \in Slow
       /\ overdue' = IF late THEN overdue \cup {o} ELSE overdue
    /\ UNCHANGED <<row, seats, pass, order, req, revived>>

-----------------------------------------------------------------------------
PassStep(r) ==
    ReadLedger(r) \/ ReadOrders(r) \/ CreateRow(r) \/ Pull(r) \/ Adopt(r)

BrowserStep(b) == Browse(b) \/ PassStep(b) \/ ShowList(b)

RequestStep(o) ==
    \/ Resolve(o) \/ PassStep(o) \/ Resolved(o)
    \/ EnsureRow(o) \/ ClaimSeat(o)
    \/ Save(o) \/ SaveFails(o) \/ ReleaseSeat(o)
    \/ Charged(o) \/ ChargeFails(o)

Next ==
    \/ \E o \in Customers : RequestStep(o) \/ Crash(o)
    \/ \E b \in Browsers : BrowserStep(b)
    \/ \E s \in Standing : PlaceStanding(s)
    \/ \E o \in Orders : Cancel(o) \/ Revive(o) \/ Delete(o) \/ Age(o)

(* A request that has started runs to its end, somebody keeps looking at   *)
(* the list, and time passes.  A request has finitely many steps and an id *)
(* ages once, so that fairness to all of them is fairness to each.         *)
Fairness ==
    /\ WF_vars(\E o \in Customers : RequestStep(o))
    /\ \A b \in Browsers : WF_vars(BrowserStep(b))
    /\ SF_vars(\E o \in Orders : Age(o))

Spec == Init /\ [][Next]_vars
FairSpec == Spec /\ Fairness

-----------------------------------------------------------------------------
(***************************************************************************)
(* A customer's order that stands has its seat in the ledger: no pass,     *)
(* however old what it read, gives back or loses the seat of an order that *)
(* was saved in time (reconcileSeats against createOrder), unless the      *)
(* order was cancelled and then put back by a handler with an old copy:    *)
(* that one lost its seat, and takes it again with the next pass, room or  *)
(* no room.                                                                *)
(***************************************************************************)
StandingOrdersKeepTheirSeat ==
    \A o \in Customers \ (overdue \cup revived) : order[o] = "live" => o \in seats

(***************************************************************************)
(* "Of two customers paying at the same moment for the last place, exactly *)
(* one succeeds" (claimSlotSeat): the orders that booked the window never  *)
(* outnumber it, but for those that took longer than ABANDONED_CLAIM_MS on *)
(* their way in, and for those that were put back after they had been      *)
(* cancelled.                                                              *)
(***************************************************************************)
NeverOverbooked ==
    Cardinality((Live \cap Customers) \ (overdue \cup revived)) <= Capacity

(***************************************************************************)
(* "How many orders this slot can take in a day" (deliverySlot.model.js)   *)
(* is not kept where a cancelled order comes back (verifyPayment, and      *)
(* saves of copies that were read before): this one does not hold, and     *)
(* needs no slow request.                                                  *)
(***************************************************************************)
PromptOrdersNeverOverbook ==
    Cardinality((Live \cap Customers) \ overdue) <= Capacity

(***************************************************************************)
(* Once bookings stop, the ledger ends up naming exactly the orders that   *)
(* stand, whatever failed, crashed or was cancelled on the way (the repair *)
(* that reconcileSeats promises "on the next read").                       *)
(***************************************************************************)
LedgerFollowsTheOrders == <>[](seats = Live)

(***************************************************************************)
(* "A standing arrangement ... is not turned away by them - but it does    *)
(* take up a place in the window" (createOrder): no customer is given the  *)
(* last place while the standing orders and the seats taken fill it.       *)
(***************************************************************************)
StandingOrdersTakeAPlace ==
    [][\A o \in Customers :
          req[o] = "claiming" /\ req'[o] = "claimed"
          => Cardinality(seats \cup (Live \cap Standing)) < Capacity]_vars
=============================================================================
