------------------------------- MODULE Dispatch -------------------------------
(***************************************************************************)
(* How one order gets its rider.                                           *)
(*                                                                         *)
(* tryAutoAssign is an attempt: it takes the order's dispatch lock         *)
(* (dispatchingAt) in one conditional update, looks for a rider over many  *)
(* awaits, and writes what it decided in further conditional updates.      *)
(* Riders accept in a conditional update of their own.  Everything else    *)
(* that touches the assignment - the watchdog, the accept deadline, the    *)
(* resend button, the assignments made by hand, a rider's rejection -      *)
(* reads the document, decides, and saves its copy: Mongoose writes the    *)
(* fields that were changed in memory, over whatever the document holds by *)
(* then.                                                                   *)
(*                                                                         *)
(* Which riders are near, online and free, or let an offer lapse, is not   *)
(* followed: an attempt may find nobody, or anybody who was not taken off  *)
(* the order.                                                              *)
(***************************************************************************)
EXTENDS Integers, FiniteSets

CONSTANTS
    Riders,
    Fleet,      \* the riders of the seller's own fleet
    Nobody,
    Jobs,       \* requests and jobs under way at the same time
    Watchdog,   \* the job that runs recoverStuckOrders
    MaxStarts   \* how many requests and jobs there are, the watchdog aside

ASSUME DispatchAssumption ==
    /\ Fleet \subseteq Riders
    /\ Nobody \notin Riders
    /\ Watchdog \in Jobs
    /\ MaxStarts \in Nat

VARIABLES
    doc,        \* order.dispatch
    stage,      \* orderStatus, as far as dispatch tells it apart
    age,        \* of assignedAt: 0 at first, 1 past two minutes, 2 past three
    lockOld,    \* dispatchingAt is more than five minutes ago
    barred,     \* riders with a 'deassigned' entry in offeredTo
    ownFleet,   \* does the seller run riders of its own?
    job,        \* the requests and jobs under way
    outdated,   \* jobs whose copy has another __v than the document
    queued,     \* riders named by a DISPATCH_TIMEOUT_CHECK that is due
    starts,     \* how many requests and jobs have started
    holders,    \* riders whose acceptance was recorded, and told nothing since
    behind,     \* jobs that read the order before its last acceptance
    overtaken   \* has such a job saved its copy over that acceptance?

clocks == <<age, lockOld>>
ghosts == <<holders, behind, overtaken>>
vars == <<doc, stage, clocks, barred, ownFleet, job, outdated, queued, starts, ghosts>>

Docs == [status : {"unassigned", "assigned", "accepted", "cancelled"},
         partner : Riders \cup {Nobody},
         acceptedAt : BOOLEAN, manual : BOOLEAN, lock : BOOLEAN]

NoJob == [phase |-> "idle"]
Handlers == {"timeout", "watchdog", "resend", "assign", "reassign", "reject", "cancel"}
JobStates ==
    [phase : {"starting", "ending"}]
    \cup [phase : {"saving"}, kind : Handlers, rider : Riders \cup {Nobody}, copy : Docs]
    \cup [phase : {"holding", "fleet", "picking", "direct", "offering"},
          copy : Docs, waited : BOOLEAN, barred : SUBSET Riders]
    \cup [phase : {"recheck", "releasing"}, rider : Riders]
    \cup [phase : {"expiring"}, rider : Riders \cup {Nobody}]

TypeOK ==
    /\ doc \in Docs
    /\ stage \in {"waiting", "open", "picked", "closed"}
    /\ age \in 0..2
    /\ lockOld \in BOOLEAN
    /\ barred \subseteq Riders
    /\ ownFleet \in BOOLEAN
    /\ job \in [Jobs -> JobStates \cup {NoJob}]
    /\ outdated \subseteq Jobs
    /\ queued \subseteq Riders
    /\ starts \in 0..MaxStarts
    /\ holders \subseteq Riders
    /\ behind \subseteq Jobs
    /\ overtaken \in BOOLEAN

Init ==
    /\ doc = [status |-> "unassigned", partner |-> Nobody,
              acceptedAt |-> FALSE, manual |-> FALSE, lock |-> FALSE]
    /\ stage = "waiting"
    /\ age = 0
    /\ lockOld = FALSE
    /\ barred = {}
    /\ ownFleet \in BOOLEAN
    /\ job = [j \in Jobs |-> NoJob]
    /\ outdated = {}
    /\ queued = {}
    /\ starts = 0
    /\ holders = {}
    /\ behind = {}
    /\ overtaken = FALSE

-----------------------------------------------------------------------------
Savers == {j \in Jobs : job[j].phase = "saving"}
Busy == {j \in Jobs : job[j] # NoJob}
Become(j, state) == job' = [job EXCEPT ![j] = state]
Starting == [phase |-> "starting"]
Ending == [phase |-> "ending"]

(* The next request or job; places are handed out in a fixed order.        *)
Start(j) ==
    /\ job[j] = NoJob
    /\ j # Watchdog
    /\ j = CHOOSE k \in Jobs \ {Watchdog} : job[k] = NoJob
    /\ starts < MaxStarts
    /\ starts' = starts + 1

Free(d) == d.status \in {"unassigned", "assigned"} /\ ~d.acceptedAt

(* A rider has the order for good, and knows it.                           *)
Taken(r) ==
    /\ doc' = [doc EXCEPT !.status = "accepted", !.partner = r, !.acceptedAt = TRUE]
    /\ holders' = holders \cup {r}
    /\ behind' = Savers
    /\ UNCHANGED overtaken

(* A mistake the runs must notice: a status no query asks for.             *)
ReleasedAsRejected(d) == [d EXCEPT !.status = "rejected", !.partner = Nobody, !.acceptedAt = FALSE]

(* Unassigned by an update that also forgets when it was accepted.         *)
Released(d) == [d EXCEPT !.status = "unassigned", !.partner = Nobody, !.acceptedAt = FALSE]

-----------------------------------------------------------------------------
(* tryAutoAssign                                                           *)

(* The seller accepted, a sweep found the order, a booking is due, or a    *)
(* DISPATCH_TIMEOUT_CHECK that names nobody found it unassigned.           *)
Attempt(j) ==
    /\ Start(j)
    /\ Become(j, Starting)
    /\ UNCHANGED <<doc, stage, clocks, barred, ownFleet, outdated, queued, ghosts>>

Lockable ==
    /\ ~doc.lock
    /\ \/ doc.status = "unassigned"
       \/ doc.status = "assigned" /\ ~doc.acceptedAt /\ age >= 1

(* Where an attempt goes on from the document it locked.  An order that is *)
(* over is left with its lock.                                             *)
Locked(j) ==
    [phase |-> CASE stage = "waiting" -> "holding" [] ownFleet -> "fleet" [] OTHER -> "direct",
     copy |-> doc', waited |-> age = 2, barred |-> barred]

TakeLock(j) ==
    /\ job[j] = Starting
    /\ IF Lockable
       THEN /\ doc' = [doc EXCEPT !.lock = TRUE]
            /\ lockOld' = FALSE
            /\ Become(j, IF stage = "closed" THEN NoJob ELSE Locked(j))
       ELSE UNCHANGED <<doc, lockOld>> /\ Become(j, NoJob)
    /\ UNCHANGED <<stage, age, barred, ownFleet, outdated, queued, starts, ghosts>>

(* Held for the seller, or a booking that is not due.                      *)
Hold(j) ==
    /\ job[j].phase = "holding"
    /\ doc' = [doc EXCEPT !.lock = FALSE]
    /\ Become(j, NoJob)
    /\ UNCHANGED <<stage, clocks, barred, ownFleet, outdated, queued, starts, ghosts>>

HasHolder(d) == d.partner # Nobody /\ ~d.acceptedAt /\ d.status = "assigned"

(* assignFromOwnFleet: somebody has it and is still within his window.     *)
KeepHolder(j) ==
    /\ job[j].phase = "fleet"
    /\ HasHolder(job[j].copy) /\ ~job[j].waited
    /\ doc' = [doc EXCEPT !.lock = FALSE]
    /\ Become(j, Ending)
    /\ UNCHANGED <<stage, clocks, barred, ownFleet, outdated, queued, starts, ghosts>>

ReleaseHolder(j) ==
    /\ job[j].phase = "fleet"
    /\ HasHolder(job[j].copy) => job[j].waited
    /\ doc' = IF HasHolder(job[j].copy) /\ ~doc.acceptedAt THEN Released(doc) ELSE doc
    /\ Become(j, [job[j] EXCEPT !.phase = "picking"])
    /\ UNCHANGED <<stage, clocks, barred, ownFleet, outdated, queued, starts, ghosts>>

PickRider(j) ==
    /\ job[j].phase = "picking"
    /\ \E r \in Fleet \ job[j].barred :
          IF Free(doc)
          THEN /\ doc' = [doc EXCEPT !.status = "assigned", !.partner = r,
                                     !.manual = FALSE, !.lock = FALSE]
               /\ age' = 0
               /\ queued' = queued \cup {r}
          ELSE UNCHANGED <<doc, age, queued>>
    /\ Become(j, Ending)
    /\ UNCHANGED <<stage, lockOld, barred, ownFleet, outdated, starts, ghosts>>

PickNobody(j) ==
    /\ job[j].phase = "picking"
    /\ doc' = [doc EXCEPT !.lock = FALSE]
    /\ Become(j, Ending)
    /\ UNCHANGED <<stage, clocks, barred, ownFleet, outdated, queued, starts, ghosts>>

(* tryDirectBlockAssign: a rider already on the road nearby gets it.       *)
DirectAssign(j) ==
    /\ job[j].phase = "direct"
    /\ \E r \in Riders \ job[j].barred :
          IF Free(doc)
          THEN /\ doc' = [doc EXCEPT !.status = "accepted", !.partner = r, !.acceptedAt = TRUE,
                                     !.manual = FALSE, !.lock = FALSE]
               /\ holders' = holders \cup {r}
               /\ behind' = Savers
               /\ age' = 0
               /\ Become(j, [phase |-> "recheck", rider |-> r])
          ELSE /\ UNCHANGED <<doc, holders, behind, age>>
               /\ Become(j, [job[j] EXCEPT !.phase = "offering"])
    /\ UNCHANGED <<stage, lockOld, barred, ownFleet, outdated, queued, starts, overtaken>>

NobodyNearby(j) ==
    /\ job[j].phase = "direct"
    /\ Become(j, [job[j] EXCEPT !.phase = "offering"])
    /\ UNCHANGED <<doc, stage, clocks, barred, ownFleet, outdated, queued, starts, ghosts>>

(* The rider turns out to carry too much, and this order goes back.        *)
TieBreak(r) ==
    /\ doc.status = "accepted" /\ doc.partner = r
    /\ doc' = Released(doc)
    /\ barred' = barred \cup {r}
    /\ holders' = holders \ {r}
    /\ UNCHANGED <<queued, behind, overtaken>>

LoseTieBreak(j) ==
    /\ job[j].phase = "recheck"
    /\ \/ TieBreak(job[j].rider)
       \/ /\ ~(doc.status = "accepted" /\ doc.partner = job[j].rider)
          /\ UNCHANGED <<doc, barred, queued, ghosts>>
    /\ Become(j, [phase |-> "offering", copy |-> doc, waited |-> FALSE, barred |-> barred])
    /\ UNCHANGED <<stage, clocks, ownFleet, outdated, starts>>

KeepAssigned(j) ==
    /\ job[j].phase = "recheck"
    /\ Become(j, Ending)
    /\ UNCHANGED <<doc, stage, clocks, barred, ownFleet, outdated, queued, starts, ghosts>>

(* The attempt of another order makes this one the loser.                  *)
TieBreakElsewhere(r) ==
    /\ stage # "closed"
    /\ TieBreak(r)
    /\ UNCHANGED <<stage, clocks, ownFleet, job, outdated, starts>>

(* A mistake the runs must notice: the order is put back on offer by a     *)
(* write that asks for nothing.                                            *)
OfferBlindly(j) ==
    /\ job[j].phase = "offering"
    /\ doc' = [doc EXCEPT !.status = "unassigned", !.partner = Nobody]
    /\ Become(j, Ending)
    /\ UNCHANGED <<stage, clocks, barred, ownFleet, outdated, queued, starts, ghosts>>

(* The broadcast, and the conditional update that puts the order on offer. *)
Offer(j) ==
    /\ job[j].phase = "offering"
    /\ IF doc.status # "accepted" /\ ~doc.acceptedAt
       THEN doc' = [doc EXCEPT !.status = "unassigned", !.partner = Nobody]
       ELSE UNCHANGED doc
    /\ Become(j, Ending)
    /\ UNCHANGED <<stage, clocks, barred, ownFleet, outdated, queued, starts, ghosts>>

OfferToNobody(j) ==
    /\ job[j].phase = "offering"
    /\ Become(j, Ending)
    /\ UNCHANGED <<doc, stage, clocks, barred, ownFleet, outdated, queued, starts, ghosts>>

(* finally: the lock comes off, whoever has it by now.                     *)
Unlock(j) ==
    /\ job[j] = Ending
    /\ doc' = [doc EXCEPT !.lock = FALSE]
    /\ Become(j, NoJob)
    /\ UNCHANGED <<stage, clocks, barred, ownFleet, outdated, queued, starts, ghosts>>

-----------------------------------------------------------------------------
(* Handlers that read the document and save their copy                     *)

Copied(j, kind, r) ==
    /\ Become(j, [phase |-> "saving", kind |-> kind, rider |-> r, copy |-> doc])
    /\ outdated' = outdated \ {j}
    /\ behind' = behind \ {j}
    /\ UNCHANGED <<doc, stage, clocks, barred, ownFleet, holders, overtaken>>

(* processDispatchTimeout: only the rider it names can lose the order.     *)
TimeoutReads(j, p) ==
    /\ Start(j)
    /\ p \in queued
    /\ queued' = queued \ {p}
    /\ IF doc.status = "assigned" /\ doc.partner = p /\ ~doc.acceptedAt
       THEN Copied(j, "timeout", p)
       ELSE /\ Become(j, IF doc.status = "unassigned" THEN Starting ELSE NoJob)
            /\ UNCHANGED <<doc, stage, clocks, barred, ownFleet, outdated, ghosts>>

(* A mistake the runs must notice: sellers with riders of their own are    *)
(* left to themselves.                                                     *)
StuckInThePool == doc.status = "assigned" /\ ~doc.acceptedAt /\ age >= 1 /\ ~ownFleet

Stuck == doc.status = "assigned" /\ ~doc.acceptedAt /\ age >= 1 /\ ~doc.manual

(* recoverStuckOrders leaves a rider that a person chose.  (Among the      *)
(* orders that are over it leaves some and heals others: those that        *)
(* support cancelled, or that expired.)                                    *)
WatchdogReads ==
    /\ job[Watchdog] = NoJob
    /\ Stuck
    /\ Copied(Watchdog, "watchdog", Nobody)
    /\ UNCHANGED <<queued, starts>>

(* A mistake the runs must notice: only an assigned order is looked after. *)
ClearLockIfAssigned ==
    /\ doc.lock /\ lockOld /\ doc.status = "assigned"
    /\ doc' = [doc EXCEPT !.lock = FALSE]
    /\ UNCHANGED <<stage, clocks, barred, ownFleet, job, outdated, queued, starts, ghosts>>

ClearOldLock ==
    /\ doc.lock /\ lockOld
    /\ doc' = [doc EXCEPT !.lock = FALSE]
    /\ UNCHANGED <<stage, clocks, barred, ownFleet, job, outdated, queued, starts, ghosts>>

(* resendDeliveryNotificationRestaurant and -Admin                         *)
ResendReads(j) ==
    /\ Start(j)
    /\ stage \in {"waiting", "open"} /\ doc.status # "accepted"
    /\ Copied(j, "resend", Nobody)
    /\ UNCHANGED queued

(* adminAssignOrderToRider and assignDeliveryPartnerManually               *)
AssignReads(j, r) ==
    /\ Start(j)
    /\ stage # "closed" /\ doc.status # "accepted"
    /\ Copied(j, "assign", r)
    /\ UNCHANGED queued

(* adminReassignOrder                                                      *)
ReassignReads(j, r) ==
    /\ Start(j)
    /\ stage \in {"waiting", "open"} /\ doc.partner # r
    /\ Copied(j, "reassign", r)
    /\ UNCHANGED queued

(* rejectOrderDelivery                                                     *)
RejectReads(j, r) ==
    /\ Start(j)
    /\ stage \in {"waiting", "open"} /\ doc.partner = r
    /\ Copied(j, "reject", r)
    /\ UNCHANGED queued

(* cancelOrder: the seller has not answered yet, or it is a booking nobody *)
(* has started on.  (It cancels whatever rider its copy names.)            *)
CancelReads(j) ==
    /\ Start(j)
    /\ stage \in {"waiting", "open"}
    /\ Copied(j, "cancel", Nobody)
    /\ UNCHANGED queued

(* What the handler makes of its copy.                                     *)
Changed(h) ==
    CASE h.kind \in {"timeout", "watchdog", "resend"} ->
            [h.copy EXCEPT !.status = "unassigned", !.partner = Nobody]
      [] h.kind = "reject" -> Released(h.copy)
      [] h.kind = "assign" ->
            [h.copy EXCEPT !.status = "assigned", !.partner = h.rider, !.manual = TRUE, !.lock = FALSE]
      [] h.kind = "reassign" ->
            [h.copy EXCEPT !.status = "assigned", !.partner = h.rider, !.manual = TRUE, !.lock = FALSE,
                           !.acceptedAt = FALSE]
      [] h.kind = "cancel" ->
            IF h.copy.partner = Nobody THEN h.copy
            ELSE [h.copy EXCEPT !.status = "cancelled", !.partner = Nobody]

(* A save writes what differs from the copy, over the document.            *)
Saved(copy, new) == [f \in DOMAIN doc |-> IF new[f] # copy[f] THEN new[f] ELSE doc[f]]

Pushes(kind) == kind \in {"resend", "assign", "reassign", "reject", "cancel"}

(* A resend replaces offeredTo, so it is conditional on the version; the   *)
(* others only push to an array, or change no array at all.                *)
Save(j) ==
    LET h == job[j] IN
    /\ h.phase = "saving"
    /\ h.kind = "resend" => j \notin outdated
    /\ doc' = Saved(h.copy, Changed(h))
    /\ age' = IF h.kind \in {"assign", "reassign"} THEN 0 ELSE age
    /\ barred' = CASE h.kind = "resend" -> {}
                   [] h.kind = "reassign" -> barred \cup ({h.copy.partner} \ {Nobody})
                   [] OTHER -> barred
    /\ holders' = CASE h.kind = "reject" -> holders \ {h.rider}
                    [] h.kind \in {"reassign", "cancel"} -> holders \ {h.copy.partner}
                    [] OTHER -> holders
    /\ overtaken' = (overtaken \/ (j \in behind /\ Changed(h) # h.copy))
    /\ outdated' = (IF Pushes(h.kind) THEN Savers ELSE outdated) \ {j}
    /\ behind' = behind \ {j}
    /\ stage' = IF h.kind = "cancel" THEN "closed" ELSE stage
    /\ Become(j, IF h.kind \in {"assign", "reassign", "cancel"} THEN NoJob ELSE Starting)
    /\ UNCHANGED <<lockOld, ownFleet, queued, starts>>

(* A version conflict or an error of the database ends the handler.        *)
SaveFails(j) ==
    /\ job[j].phase = "saving"
    /\ Become(j, NoJob)
    /\ outdated' = outdated \ {j}
    /\ behind' = behind \ {j}
    /\ UNCHANGED <<doc, stage, clocks, barred, ownFleet, queued, starts, holders, overtaken>>

-----------------------------------------------------------------------------
(* expireUnacceptedOrders, which reads a list of orders first              *)

ExpireReads(j) ==
    /\ Start(j)
    /\ stage \in {"waiting", "open"}
    /\ Become(j, [phase |-> "expiring", rider |-> doc.partner])
    /\ UNCHANGED <<doc, stage, clocks, barred, ownFleet, outdated, queued, ghosts>>

(* Conditional on the status, which may have moved on; __v stays as it is. *)
Expire(j) ==
    /\ job[j].phase = "expiring"
    /\ \/ /\ stage \in {"waiting", "open"}
          /\ stage' = "closed"
          /\ Become(j, IF job[j].rider = Nobody THEN NoJob
                       ELSE [phase |-> "releasing", rider |-> job[j].rider])
       \/ UNCHANGED stage /\ Become(j, NoJob)
    /\ UNCHANGED <<doc, clocks, barred, ownFleet, outdated, queued, starts, ghosts>>

(* The rider on the list is taken off and told; whoever has the order by   *)
(* now is taken off too.                                                   *)
ReleaseStranded(j) ==
    /\ job[j].phase = "releasing"
    /\ doc' = [doc EXCEPT !.status = "cancelled", !.partner = Nobody]
    /\ holders' = holders \ {job[j].rider}
    /\ overtaken' = (overtaken \/ (doc.status = "accepted" /\ doc.partner # job[j].rider))
    /\ Become(j, NoJob)
    /\ UNCHANGED <<stage, clocks, barred, ownFleet, outdated, queued, starts, behind>>

-----------------------------------------------------------------------------
(* Riders, support and time                                                *)

(* acceptOrderDelivery                                                     *)
Accept(r) ==
    /\ stage # "closed"
    /\ \/ doc.status = "unassigned" /\ r \notin barred
       \/ doc.status = "assigned" /\ doc.partner = r
    /\ Taken(r)
    /\ age' = 0
    /\ UNCHANGED <<stage, lockOld, barred, ownFleet, job, outdated, queued, starts>>

(* deassignOrderForRedispatch, and the attempt its callers make next.      *)
Deassign(j) ==
    /\ Start(j)
    /\ stage \in {"waiting", "open"}
    /\ doc.status = "accepted" /\ doc.partner # Nobody
    /\ doc' = [Released(doc) EXCEPT !.lock = FALSE]
    /\ barred' = barred \cup {doc.partner}
    /\ holders' = holders \ {doc.partner}
    /\ Become(j, Starting)
    /\ UNCHANGED <<stage, clocks, ownFleet, outdated, queued, behind, overtaken>>

(* The wait for the seller is over, or the booking is due.                 *)
Due ==
    /\ stage = "waiting"
    /\ stage' = "open"
    /\ UNCHANGED <<doc, clocks, barred, ownFleet, job, outdated, queued, starts, ghosts>>

PickUp ==
    /\ stage \in {"waiting", "open"} /\ doc.partner # Nobody
    /\ stage' = "picked"
    /\ outdated' = Savers
    /\ UNCHANGED <<doc, clocks, barred, ownFleet, job, queued, starts, ghosts>>

(* Delivered, or cancelled by support or the seller: they save the status  *)
(* and leave dispatch as it is.                                            *)
Close ==
    /\ stage # "closed"
    /\ stage' = "closed"
    /\ outdated' = Savers
    /\ UNCHANGED <<doc, clocks, barred, ownFleet, job, queued, starts, ghosts>>

(* Two minutes, three minutes since assignedAt.  (The fifty seconds after  *)
(* which an attempt may lock an assigned order end with the two minutes:   *)
(* before them the watchdog may simply not have come by.)                  *)
Wait ==
    /\ doc.status = "assigned" /\ age < 2
    /\ age' = age + 1
    /\ UNCHANGED <<doc, stage, lockOld, barred, ownFleet, job, outdated, queued, starts, ghosts>>

(* Five minutes since dispatchingAt; an attempt that runs is shorter.      *)
LockAges ==
    /\ doc.lock /\ ~lockOld /\ Busy \ {Watchdog} = {}
    /\ lockOld' = TRUE
    /\ UNCHANGED <<doc, stage, age, barred, ownFleet, job, outdated, queued, starts, ghosts>>

(* The server dies during an attempt, whose lock stays where it is, or     *)
(* between two updates of the expiry.  (Dying before a save is SaveFails.) *)
Crash(j) ==
    /\ job[j].phase \notin {"idle", "starting", "saving"}
    /\ Become(j, NoJob)
    /\ UNCHANGED <<doc, stage, clocks, barred, ownFleet, outdated, queued, starts, ghosts>>

-----------------------------------------------------------------------------
JobStep(j) ==
    \/ TakeLock(j) \/ Hold(j)
    \/ KeepHolder(j) \/ ReleaseHolder(j) \/ PickRider(j) \/ PickNobody(j)
    \/ DirectAssign(j) \/ NobodyNearby(j) \/ LoseTieBreak(j) \/ KeepAssigned(j)
    \/ Offer(j) \/ OfferToNobody(j) \/ Unlock(j)
    \/ Save(j) \/ SaveFails(j)
    \/ Expire(j) \/ ReleaseStranded(j)

Begin(j) ==
    \/ Attempt(j) \/ ResendReads(j) \/ Deassign(j)
    \/ CancelReads(j) \/ ExpireReads(j)
    \/ \E p \in Riders : TimeoutReads(j, p)
    \/ \E r \in Riders : AssignReads(j, r) \/ ReassignReads(j, r) \/ RejectReads(j, r)

Next ==
    \/ \E j \in Jobs : Begin(j) \/ JobStep(j) \/ Crash(j)
    \/ WatchdogReads \/ ClearOldLock
    \/ \E r \in Riders : Accept(r) \/ TieBreakElsewhere(r)
    \/ Due \/ PickUp \/ Close \/ Wait \/ LockAges

(* A handler that has started runs to its end, the watchdog comes by every *)
(* two minutes, its saves do not fail for ever, and time passes.           *)
Fairness ==
    /\ \A j \in Jobs : WF_vars(JobStep(j))
    /\ SF_vars(WatchdogReads) /\ SF_vars(Save(Watchdog)) /\ SF_vars(ClearOldLock)
    /\ SF_vars(Wait) /\ SF_vars(LockAges)

Spec == Init /\ [][Next]_vars
FairSpec == Spec /\ Fairness

-----------------------------------------------------------------------------
(***************************************************************************)
(* One trip, one rider: whoever accepted the order, or was given it on the *)
(* road (which counts as accepted), and has not given it back or been told *)
(* that it was taken off him, is the rider the document names, and an      *)
(* accepted order has such a rider - through every attempt, timeout,       *)
(* tie-break, hand-made assignment, cancellation and expiry that looked at *)
(* the order after he had accepted it.  (What happens when one that looked *)
(* before saves over the acceptance is OneRiderPerTrip.)  When it was      *)
(* accepted stays on record only while it is accepted, and on an order     *)
(* that was cancelled.                                                     *)
(*                                                                         *)
(* A rider to whom it was only assigned, by the fleet or by hand, reads    *)
(* that it "is yours" too, and is not meant: until he accepts, timeouts,   *)
(* the watchdog, a resend and an assignment by hand take it off him, and   *)
(* none of these tells him.                                                *)
(***************************************************************************)
TheRiderWhoAcceptedIsTheRiderNamed ==
    ~overtaken =>
        /\ holders = IF doc.status = "accepted" THEN {doc.partner} ELSE {}
        /\ doc.status = "accepted" => doc.acceptedAt
        /\ doc.acceptedAt => doc.status \in {"accepted", "cancelled"}

(***************************************************************************)
(* "Whoever was riding for this needs releasing before anything else"      *)
(* (cancelOrder): no rider holds an order that its customer has cancelled. *)
(* It does not hold: the rider who is released is the one the copy names.  *)
(***************************************************************************)
CancellingReleasesTheRider ==
    [][\A j \in Jobs :
          (/\ job[j].phase = "saving" /\ job[j].kind = "cancel" /\ job'[j] # job[j]
           /\ stage # "closed" /\ stage' = "closed")
          => holders' = {}]_vars

(***************************************************************************)
(* "A blind save reverted that accept to unassigned/null, so the order was *)
(* re-broadcast and a second rider could claim the same trip"              *)
(* (order-dispatch.service.js:1313): no two riders hold the order.         *)
(***************************************************************************)
OneRiderPerTrip == Cardinality(holders) <= 1

(***************************************************************************)
(* "The lock has to come off or every later attempt sees 'already          *)
(* dispatching' and the order waits for a rider nobody is looking for"     *)
(* (assignFromOwnFleet): it does, again and again, whoever dies holding it.*)
(***************************************************************************)
TheLockComesOff == []<>(~doc.lock)

(***************************************************************************)
(* An assignment the dispatcher made and the rider never answered does not *)
(* last ("a rider who never tapped kept the order indefinitely").          *)
(***************************************************************************)
SilentRiderLosesTheOrder ==
    (doc.status = "assigned" /\ ~doc.manual)
        ~> (doc.status # "assigned" \/ doc.manual \/ stage = "closed" \/ overtaken)
=============================================================================
