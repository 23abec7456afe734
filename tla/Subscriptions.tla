----------------------------- MODULE Subscriptions -----------------------------
(***************************************************************************)
(* One product subscription, its delivery rows, and the hourly sweep that  *)
(* extends the rows and makes orders of those that are due.                *)
(*                                                                         *)
(* Nothing here is claimed before it is acted on: the sweep lists what is  *)
(* due and works through its list, an update reads the subscription, saves *)
(* it and then changes the rows in further statements, and the sweep runs  *)
(* in the API server and in the job runner alike (and by hand).  What      *)
(* keeps order is the unique index on (subscription, day), the status the  *)
(* queries ask for, and the midnight after which a day cannot be skipped.  *)
(*                                                                         *)
(* Days are numbers; all weeks and months are of equal length.             *)
(***************************************************************************)
EXTENDS Integers, FiniteSets, FiniteSetsExt

CONSTANTS
    Frequency,      \* "daily", "weekly" or "monthly"
    DaysOfWeek,
    DayOfMonth,
    Week, Month,    \* how many days they have
    StartDate,
    Horizon,        \* DEFAULT_HORIZON_DAYS
    LastDay,        \* the last day of the model
    Requests,       \* requests under way at the same time
    Sweepers,       \* runs of the sweep at the same time
    MaxAtOnce,      \* how many of both are under way at the same time
    MaxStarts,      \* how many requests there are after the first
    MaxCrashes

ASSUME SubscriptionAssumption ==
    /\ Frequency \in {"daily", "weekly", "monthly"}
    /\ Week \in Nat \ {0} /\ Month \in Nat \ {0}
    /\ DaysOfWeek \subseteq 0..(Week - 1) /\ DaysOfWeek # {}
    /\ DayOfMonth \in 0..(Month - 1)
    /\ {StartDate, Horizon, LastDay} \subseteq Nat \ {0}
    /\ Requests \cap Sweepers = {} /\ IsFiniteSet(Requests)
    /\ {MaxAtOnce, MaxStarts, MaxCrashes} \subseteq Nat

Days == 1..(LastDay + Horizon)
Jobs == Requests \cup Sweepers

VARIABLES
    sub,        \* the subscription; until is 0 when nothing was generated yet
    rows,       \* its delivery rows; id tells a row from one deleted before it
    orders,     \* how many orders were placed for a day
    today,
    job,        \* requests and sweeps under way
    starts, crashes,
    declined,   \* days the customer was told will be skipped
    overtaken,  \* and whose row had been paused or ended, or was due, by then
    irregular,  \* two updates overlapped, one died, or one undid a cancellation
    exposed     \* days two jobs were at, or one died over

ghosts == <<declined, overtaken, irregular, exposed>>
vars == <<sub, rows, orders, today, job, starts, crashes, ghosts>>

Statuses == {"active", "paused", "cancelled"}
(* A cancelled row is "paused", "skipped" or "ended" by its cancelReason.  *)
RowStatuses == {"none", "scheduled", "paused", "skipped", "ended", "order_placed", "failed"}

Subs == [status : Statuses, until : 0..(LastDay + Horizon)]
NoSub == [status |-> "none", until |-> 0]
Idle == [phase |-> "idle"]
RowRefs == [day : Days, id : 0..MaxStarts]

JobStates ==
    [phase : {"clearing", "deleting"}, copy : Subs, since : Days]
    \cup [phase : {"saving"}, copy : Subs, new : Subs, after : {"generate", "cancel", "nothing"}]
    \cup [phase : {"cancelling"}, as : {"paused", "ended"}]
    \cup [phase : {"skipping"}, row : RowRefs, reason : BOOLEAN]
    \cup [phase : {"generating"}, new : SUBSET Days]
    \cup [phase : {"marking"}, until : Days]
    \cup [phase : {"listing"}]
    \cup [phase : {"placing"}, due : SUBSET RowRefs]
    \cup [phase : {"dropping", "ordering", "recording"}, row : RowRefs, due : SUBSET RowRefs]

TypeOK ==
    /\ sub \in Subs \cup {NoSub}
    /\ rows \in [Days -> [status : RowStatuses, id : 0..MaxStarts]]
    /\ orders \in [Days -> Nat]
    /\ today \in 1..LastDay
    /\ job \in [Jobs -> JobStates \cup {Idle}]
    /\ starts \in 0..MaxStarts
    /\ crashes \in 0..MaxCrashes
    /\ declined \subseteq Days /\ overtaken \subseteq Days
    /\ irregular \in BOOLEAN
    /\ exposed \subseteq Days

Init ==
    /\ sub = NoSub
    /\ rows = [d \in Days |-> [status |-> "none", id |-> 0]]
    /\ orders = [d \in Days |-> 0]
    /\ today = 1
    /\ job = [j \in Jobs |-> Idle]
    /\ starts = 0
    /\ crashes = 0
    /\ declined = {}
    /\ overtaken = {}
    /\ irregular = FALSE
    /\ exposed = {}

-----------------------------------------------------------------------------
(* The recurrence rule                                                     *)

NextOnOrAfter(d) ==
    LET from == IF d < StartDate THEN StartDate ELSE d IN
    CASE Frequency = "daily"   -> from
      [] Frequency = "weekly"  -> Min({c \in from..(from + Week - 1) : c % Week \in DaysOfWeek})
      [] Frequency = "monthly" -> Min({c \in from..(from + Month - 1) : c % Month = DayOfMonth})

(* A mistake the runs must notice: the day after, whatever the rule.       *)
StepToTomorrow(d) == d + 1

(* A month later is the same day of the month as d, whatever day that is.  *)
StepToNext(d) ==
    CASE Frequency = "daily"   -> d + 1
      [] Frequency = "weekly"  -> NextOnOrAfter(d + 1)
      [] Frequency = "monthly" -> d + Month

(* A mistake the runs must notice: one day past the horizon.               *)
UpcomingAndOneMore(until, horizon) ==
    LET From[d \in Nat] == IF d > horizon THEN {d} ELSE {d} \cup From[StepToNext(d)]
    IN  From[IF until = 0 THEN NextOnOrAfter(StartDate) ELSE StepToNext(until)]

(* The days generateOccurrencesForSubscription writes.                     *)
Upcoming(until, horizon) ==
    LET From[d \in Nat] == IF d > horizon THEN {} ELSE {d} \cup From[StepToNext(d)]
    IN  From[IF until = 0 THEN NextOnOrAfter(StartDate) ELSE StepToNext(until)]

-----------------------------------------------------------------------------
Become(j, state) == job' = [job EXCEPT ![j] = state]

Updating == {j \in Requests : job[j] # Idle /\ job[j].phase # "skipping"}

(* The bound on what is under way at the same time.                        *)
ThereIsRoom == Cardinality({j \in Jobs : job[j] # Idle}) < MaxAtOnce

(* Places are handed out in a fixed order.                                 *)
Start(j) ==
    /\ ThereIsRoom
    /\ job[j] = Idle
    /\ j = CHOOSE k \in Requests : job[k] = Idle
    /\ starts < MaxStarts
    /\ starts' = starts + 1

(* Where a request and a sweep go on when the rows are written.            *)
Generated(j) == IF j \in Sweepers THEN [phase |-> "listing"] ELSE Idle

Generating(j, until) ==
    LET new == Upcoming(until, today + Horizon) IN
    IF new = {} THEN Generated(j) ELSE [phase |-> "generating", new |-> new]

SetRow(ref, status) ==
    rows' = IF rows[ref.day].id = ref.id /\ rows[ref.day].status # "none"
            THEN [rows EXCEPT ![ref.day].status = status]
            ELSE rows

-----------------------------------------------------------------------------
(* Generating rows                                                         *)

CreateSubscription(j) ==
    /\ ThereIsRoom
    /\ sub = NoSub
    /\ sub' = [status |-> "active", until |-> 0]
    /\ Become(j, Generating(j, 0))
    /\ UNCHANGED <<rows, orders, today, starts, crashes, ghosts>>

(* insertMany: a day that has a row keeps it.                              *)
InsertRows(j) ==
    /\ job[j].phase = "generating"
    /\ rows' = [d \in Days |-> IF d \in job[j].new /\ rows[d].status = "none"
                               THEN [rows[d] EXCEPT !.status = "scheduled"]
                               ELSE rows[d]]
    /\ Become(j, [phase |-> "marking", until |-> Max(job[j].new)])
    /\ UNCHANGED <<sub, orders, today, starts, crashes, ghosts>>

MarkGenerated(j) ==
    /\ job[j].phase = "marking"
    /\ sub' = [sub EXCEPT !.until = job[j].until]
    /\ Become(j, Generated(j))
    /\ UNCHANGED <<rows, orders, today, starts, crashes, ghosts>>

-----------------------------------------------------------------------------
(* updateSubscription and deleteSubscription                               *)

Crossing == irregular' = (irregular \/ Updating # {})

ReadToUpdate(j, to) ==
    /\ Start(j)
    /\ sub # NoSub
    /\ Become(j,
          IF sub.status = "paused" /\ to = "active"
          THEN [phase |-> "clearing", copy |-> sub, since |-> today]
          ELSE [phase |-> "saving", copy |-> sub, new |-> [sub EXCEPT !.status = to],
                after |-> IF to = "active" THEN "nothing" ELSE "cancel"])
    /\ Crossing
    /\ UNCHANGED <<sub, rows, orders, today, crashes, declined, overtaken, exposed>>

(* A mistake the runs must notice: every cancelled row is cleared.         *)
ClearAllCancelled(j) ==
    LET h == job[j]
        gone == {d \in Days : d > h.since /\ rows[d].status \in {"paused", "skipped", "ended"}} IN
    /\ h.phase = "clearing"
    /\ rows' = [d \in Days |-> IF d \in gone THEN [status |-> "none", id |-> rows[d].id + 1]
                                             ELSE rows[d]]
    /\ Become(j, [phase |-> "saving", copy |-> h.copy,
                  new |-> [status |-> "active", until |-> h.since], after |-> "generate"])
    /\ exposed' = exposed \cup {d \in gone : d <= today}
    /\ UNCHANGED <<sub, orders, today, starts, crashes, declined, overtaken, irregular>>

(* A mistake the runs must notice: the generator goes on from where it     *)
(* stood before the pause.                                                 *)
ClearPausedAndGoOn(j) ==
    LET h == job[j]
        gone == {d \in Days : d > h.since /\ rows[d].status = "paused"} IN
    /\ h.phase = "clearing"
    /\ rows' = [d \in Days |-> IF d \in gone THEN [status |-> "none", id |-> rows[d].id + 1]
                                             ELSE rows[d]]
    /\ Become(j, [phase |-> "saving", copy |-> h.copy,
                  new |-> [h.copy EXCEPT !.status = "active"], after |-> "generate"])
    /\ exposed' = exposed \cup {d \in gone : d <= today}
    /\ UNCHANGED <<sub, orders, today, starts, crashes, declined, overtaken, irregular>>

(* deleteMany: the rows a pause cancelled, from tomorrow.                  *)
ClearPaused(j) ==
    LET h == job[j]
        gone == {d \in Days : d > h.since /\ rows[d].status = "paused"} IN
    /\ h.phase = "clearing"
    /\ rows' = [d \in Days |-> IF d \in gone THEN [status |-> "none", id |-> rows[d].id + 1]
                                             ELSE rows[d]]
    /\ Become(j, [phase |-> "saving", copy |-> h.copy,
                  new |-> [status |-> "active", until |-> h.since], after |-> "generate"])
    /\ exposed' = exposed \cup {d \in gone : d <= today}
    /\ UNCHANGED <<sub, orders, today, starts, crashes, declined, overtaken, irregular>>

(* A save writes what differs from the copy.                               *)
SaveSubscription(j) ==
    LET h == job[j] IN
    /\ h.phase = "saving"
    /\ sub' = [f \in {"status", "until"} |-> IF h.new[f] # h.copy[f] THEN h.new[f] ELSE sub[f]]
    /\ Become(j, CASE h.after = "generate" -> Generating(j, h.new.until)
                   [] h.after = "cancel" ->
                        [phase |-> "cancelling",
                         as |-> IF h.new.status = "paused" THEN "paused" ELSE "ended"]
                   [] OTHER -> Idle)
    /\ irregular' = (irregular \/ (sub.status = "cancelled" /\ h.new.status = "active"))
    /\ UNCHANGED <<rows, orders, today, starts, crashes, declined, overtaken, exposed>>

CancelScheduled(j) ==
    /\ job[j].phase = "cancelling"
    /\ rows' = [d \in Days |-> IF d >= today /\ rows[d].status = "scheduled"
                               THEN [rows[d] EXCEPT !.status = job[j].as]
                               ELSE rows[d]]
    /\ Become(j, Idle)
    /\ UNCHANGED <<sub, orders, today, starts, crashes, ghosts>>

(* deleteSubscription: the rows first, then the subscription.              *)
ReadToDelete(j) ==
    /\ Start(j)
    /\ sub # NoSub
    /\ Become(j, [phase |-> "deleting", copy |-> sub, since |-> today])
    /\ Crossing
    /\ UNCHANGED <<sub, rows, orders, today, crashes, declined, overtaken, exposed>>

EndRows(j) ==
    LET h == job[j] IN
    /\ h.phase = "deleting"
    /\ rows' = [d \in Days |-> IF rows[d].status = "scheduled"
                               THEN [rows[d] EXCEPT !.status = "ended"]
                               ELSE rows[d]]
    /\ Become(j, [phase |-> "saving", copy |-> h.copy,
                  new |-> [h.copy EXCEPT !.status = "cancelled"], after |-> "nothing"])
    /\ UNCHANGED <<sub, orders, today, starts, crashes, ghosts>>

-----------------------------------------------------------------------------
(* cancelOccurrence: before midnight, and only a scheduled row.            *)
ReadToSkip(j, d, reason) ==
    /\ Start(j)
    /\ rows[d].status = "scheduled"
    /\ today < d
    /\ Become(j, [phase |-> "skipping", row |-> [day |-> d, id |-> rows[d].id], reason |-> reason])
    /\ UNCHANGED <<sub, rows, orders, today, crashes, ghosts>>

(* Nothing is asked of the row again, and the customer is told that the    *)
(* day is skipped unless the row is gone.  But an empty reason differs     *)
(* from nothing, so it leaves the reason that a pause or a deletion wrote  *)
(* in between, and the day is no more skipped than the others; and a day   *)
(* that has begun may have been ordered.                                   *)
SaveSkip(j) ==
    LET d == job[j].row.day
        there == rows[d].id = job[j].row.id
        kept == ~job[j].reason /\ rows[d].status \in {"paused", "ended"} IN
    /\ job[j].phase = "skipping"
    /\ rows' = IF there /\ ~kept THEN [rows EXCEPT ![d].status = "skipped"] ELSE rows
    /\ declined' = IF there THEN declined \cup {d} ELSE declined
    /\ overtaken' = IF ~there THEN overtaken
                    ELSE IF kept \/ today >= d THEN overtaken \cup {d}
                    ELSE overtaken \ {d}
    /\ exposed' = IF there /\ today >= d THEN exposed \cup {d} ELSE exposed
    /\ Become(j, Idle)
    /\ UNCHANGED <<sub, orders, today, starts, crashes, irregular>>

-----------------------------------------------------------------------------
(* The sweep: generateUpcomingOccurrences, then placeDueSubscriptionOrders *)

SweepReads(s) ==
    /\ ThereIsRoom
    /\ job[s] = Idle
    /\ s = CHOOSE t \in Sweepers : job[t] = Idle
    /\ sub # NoSub
    /\ Become(s, IF sub.status = "active" THEN Generating(s, sub.until) ELSE [phase |-> "listing"])
    /\ UNCHANGED <<sub, rows, orders, today, starts, crashes, ghosts>>

(* The rows another sweep is at.                                           *)
InHand(s) ==
    LET h == job[s] IN
    CASE h.phase = "placing" -> h.due
      [] h.phase \in {"dropping", "ordering", "recording"} -> h.due \cup {h.row}
      [] OTHER -> {}

Placing(due) == IF due = {} THEN Idle ELSE [phase |-> "placing", due |-> due]

(* A mistake the runs must notice: whatever is due is listed again.        *)
ListAllDue(s) ==
    LET due == {[day |-> d, id |-> rows[d].id] : d \in {e \in 1..today : rows[e].status # "none"}} IN
    /\ job[s].phase = "listing"
    /\ Become(s, Placing(due))
    /\ exposed' = exposed \cup
          {r.day : r \in due \cap UNION {InHand(t) : t \in Sweepers \ {s}}}
    /\ UNCHANGED <<sub, rows, orders, today, starts, crashes, declined, overtaken, irregular>>

ListDue(s) ==
    LET due == {[day |-> d, id |-> rows[d].id] :
                    d \in {e \in 1..today : rows[e].status = "scheduled"}} IN
    /\ job[s].phase = "listing"
    /\ Become(s, Placing(due))
    /\ exposed' = exposed \cup
          {r.day : r \in due \cap UNION {InHand(t) : t \in Sweepers \ {s}}}
    /\ UNCHANGED <<sub, rows, orders, today, starts, crashes, declined, overtaken, irregular>>

(* The subscription is read anew for every row.                            *)
TakeNext(s) ==
    /\ job[s].phase = "placing"
    /\ \E row \in job[s].due :
          Become(s, [phase |-> IF sub.status = "active" THEN "ordering" ELSE "dropping",
                     row |-> row, due |-> job[s].due \ {row}])
    /\ UNCHANGED <<sub, rows, orders, today, starts, crashes, ghosts>>

(* "Subscription no longer active"                                         *)
DropRow(s) ==
    /\ job[s].phase = "dropping"
    /\ SetRow(job[s].row, "ended")
    /\ Become(s, Placing(job[s].due))
    /\ UNCHANGED <<sub, orders, today, starts, crashes, ghosts>>

PlaceOrder(s) ==
    /\ job[s].phase = "ordering"
    /\ orders' = [orders EXCEPT ![job[s].row.day] = @ + 1]
    /\ Become(s, [job[s] EXCEPT !.phase = "recording"])
    /\ UNCHANGED <<sub, rows, today, starts, crashes, ghosts>>

(* A mistake the runs must notice: a delivery that could not be ordered is *)
(* left as it is, for the next sweep.                                      *)
OrderFailsQuietly(s) ==
    /\ job[s].phase = "ordering"
    /\ Become(s, Placing(job[s].due))
    /\ UNCHANGED <<sub, rows, orders, today, starts, crashes, ghosts>>

OrderFails(s) ==
    /\ job[s].phase = "ordering"
    /\ SetRow(job[s].row, "failed")
    /\ Become(s, Placing(job[s].due))
    /\ UNCHANGED <<sub, orders, today, starts, crashes, ghosts>>

RecordOrder(s) ==
    /\ job[s].phase = "recording"
    /\ SetRow(job[s].row, "order_placed")
    /\ Become(s, Placing(job[s].due))
    /\ UNCHANGED <<sub, orders, today, starts, crashes, ghosts>>

(* An error between the order and its note ends in the same catch: the row *)
(* says that there is no order.                                            *)
RecordFails(s) ==
    /\ job[s].phase = "recording"
    /\ SetRow(job[s].row, "failed")
    /\ exposed' = exposed \cup {job[s].row.day}
    /\ Become(s, Placing(job[s].due))
    /\ UNCHANGED <<sub, orders, today, starts, crashes, declined, overtaken, irregular>>

-----------------------------------------------------------------------------
NextDay ==
    /\ today < LastDay
    /\ today' = today + 1
    /\ UNCHANGED <<sub, rows, orders, job, starts, crashes, ghosts>>

Crash(j) ==
    /\ job[j] # Idle
    /\ crashes < MaxCrashes
    /\ crashes' = crashes + 1
    /\ Become(j, Idle)
    /\ irregular' = (irregular \/ j \in Updating)
    /\ exposed' = IF job[j].phase = "recording" THEN exposed \cup {job[j].row.day} ELSE exposed
    /\ UNCHANGED <<sub, rows, orders, today, starts, declined, overtaken>>

Step(j) ==
    \/ InsertRows(j) \/ MarkGenerated(j)
    \/ ClearPaused(j) \/ SaveSubscription(j) \/ CancelScheduled(j) \/ EndRows(j) \/ SaveSkip(j)
    \/ ListDue(j) \/ TakeNext(j) \/ DropRow(j) \/ PlaceOrder(j) \/ OrderFails(j) \/ RecordOrder(j)
    \/ RecordFails(j)

Next ==
    \/ \E j \in Requests :
          \/ CreateSubscription(j) \/ ReadToDelete(j)
          \/ \E to \in Statuses : ReadToUpdate(j, to)
          \/ \E d \in Days, reason \in BOOLEAN : ReadToSkip(j, d, reason)
    \/ \E s \in Sweepers : SweepReads(s)
    \/ \E j \in Jobs : Step(j) \/ Crash(j)
    \/ NextDay

(* What has started runs to its end, and the sweep comes by every hour.    *)
Fairness == \A j \in Jobs : WF_vars(Step(j)) /\ (j \in Sweepers => WF_vars(SweepReads(j)))

Spec == Init /\ [][Next]_vars
FairSpec == Spec /\ Fairness

-----------------------------------------------------------------------------
(***************************************************************************)
(* Deliveries fall on the days of the rule ("matching the subscription's   *)
(* recurrence rule", nextOccurrenceOnOrAfter): whatever pauses, resumes    *)
(* and sweeps write rows, none is for another day.                         *)
(***************************************************************************)
RuleDay(d) ==
    CASE Frequency = "daily"   -> TRUE
      [] Frequency = "weekly"  -> d % Week \in DaysOfWeek
      [] Frequency = "monthly" -> d % Month = DayOfMonth

DeliveriesFollowTheRule ==
    \A d \in Days : rows[d].status # "none" => d >= StartDate /\ RuleDay(d)

(***************************************************************************)
(* "A customer who resumed would get nothing for two weeks" is what        *)
(* updateSubscription guards against: up to the day it believes to have    *)
(* written, an active subscription has a row for every day to come, and    *)
(* none is still cancelled for a pause - unless two updates overlapped,    *)
(* one died, or a cancelled subscription was made active again.            *)
(***************************************************************************)
ResumingLeavesNoGap ==
    (sub.status = "active" /\ ~irregular /\ Updating = {}) =>
        \A d \in Days :
            (d > today /\ d <= sub.until /\ d >= StartDate /\ RuleDay(d)) =>
                rows[d].status \notin {"none", "paused"}

(***************************************************************************)
(* "Skip tomorrow's milk": a day the customer was told is skipped is never *)
(* ordered, through any pause, resume, generation and sweep that follows - *)
(* except when something overtook the skip between its check and its save: *)
(* a pause or a deletion that cancelled the row, or the start of the day.  *)
(***************************************************************************)
SkippedIsNotDelivered == \A d \in declined \ overtaken : orders[d] = 0

(***************************************************************************)
(* Without the exception, which is what the customer is told               *)
(* (cancelOccurrence answers with the skipped row), the code does not keep *)
(* it: the pause in between leaves its own reason on the row, the          *)
(* resumption deletes and rewrites the row, and the sweep orders the day;  *)
(* or the day begins and is ordered before the skip is saved.              *)
(***************************************************************************)
WhatIsToldSkippedIsNotDelivered == \A d \in declined : orders[d] = 0

(***************************************************************************)
(* Once no sweep is at it, a delivery's row says what became of it: one    *)
(* order if it says so and none otherwise - unless two jobs were at the    *)
(* row at the same time, or one died or failed with the order placed and   *)
(* not noted.                                                              *)
(***************************************************************************)
RowsSayWhatWasOrdered ==
    \A d \in Days \ exposed :
        (\A s \in Sweepers : \A row \in InHand(s) : row.day # d) =>
            orders[d] = IF rows[d].status = "order_placed" THEN 1 ELSE 0

(***************************************************************************)
(* A delivery that is due does not stay scheduled: again and again there   *)
(* is none left, each became an order or its row says that it was          *)
(* cancelled or failed - even if the server dies in the middle of a sweep. *)
(***************************************************************************)
DueIsSettled == []<>(\A d \in 1..today : rows[d].status # "scheduled")
=============================================================================
