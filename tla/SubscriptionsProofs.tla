--------------------------- MODULE SubscriptionsProofs ---------------------------
(***************************************************************************)
(* Proofs about Subscriptions, for every rule, horizon and number of       *)
(* requests and sweeps.  In this order:                                    *)
(*                                                                         *)
(*   1. a day whose skip nothing overtook is never ordered, and a row says *)
(*      what was ordered, whichever days the generator writes;             *)
(*   2. the recurrence rule, and the days the generator writes (Upcoming   *)
(*      is a recursive function; UpcomingIs says what it returns);         *)
(*   3. the types;                                                         *)
(*   4. deliveries follow the rule;                                        *)
(*   5. resuming leaves no gap.                                            *)
(***************************************************************************)
EXTENDS Subscriptions, FiniteSetTheorems, WellFoundedInduction, TLAPS

-----------------------------------------------------------------------------
SweepPhases == {"placing", "dropping", "ordering", "recording"}
AtOneRow == {"dropping", "ordering", "recording"}
RequestPhases == {"clearing", "saving", "cancelling", "deleting", "skipping"}

Refs == [day : Days, id : Int]

(* Which kinds of job are at which steps, and with what in their hands.    *)
StateIsSound(j, h) ==
    /\ j \in Sweepers => h.phase \notin RequestPhases
    /\ j \in Requests => h.phase \notin SweepPhases \cup {"listing"}
    /\ h.phase = "skipping" => h.row \in Refs
    /\ h.phase = "cancelling" => h.as \in {"paused", "ended"}
    /\ h.phase \in SweepPhases => h.due \subseteq Refs
    /\ h.phase \in AtOneRow =>
          /\ h = [phase |-> h.phase, row |-> h.row, due |-> h.due]
          /\ h.row \in Refs /\ h.row \notin h.due

RowTypes == [status : RowStatuses, id : Int]

Sound ==
    /\ rows \in [Days -> RowTypes]
    /\ orders \in [Days -> Int]
    /\ today \in 1..LastDay
    /\ job = [j \in Jobs |-> job[j]]
    /\ declined \subseteq Days
    /\ exposed \subseteq Days
    /\ \A j \in Jobs : StateIsSound(j, job[j])

(* The days that are skipped for good: nothing overtook the skip.          *)
Skipped == declined \ overtaken
USE DEF Skipped

(* What is in hand is due, and was not skipped.                            *)
HandsAreDue ==
    \A s \in Sweepers : \A r \in InHand(s) : r.day <= today /\ r.day \notin Skipped

(* A skipped row stays skipped, and nothing was ordered for it.            *)
SkipsStand ==
    \A d \in Skipped : orders[d] = 0 /\ rows[d].status = "skipped"

(* Nothing is ordered for a day to come.                                   *)
NothingIsEarly == \A d \in Days : d > today => orders[d] = 0

Settled(d) == orders[d] = IF rows[d].status = "order_placed" THEN 1 ELSE 0

(* Unless the day is exposed, a row in hand is in one hand, is the row the *)
(* day still has, and has its order exactly when the sweep has placed it.  *)
HeldRowIsPending(s, r) ==
    /\ rows[r.day].id = r.id
    /\ rows[r.day].status \notin {"none", "order_placed"}
    /\ orders[r.day] = IF job[s].phase = "recording" /\ job[s].row = r THEN 1 ELSE 0
    /\ \A t \in Sweepers : \A q \in InHand(t) : q.day = r.day => t = s /\ q = r

RowsAreRight ==
    \A d \in Days \ exposed :
        /\ (\A s \in Sweepers : \A r \in InHand(s) : r.day # d) => Settled(d)
        /\ \A s \in Sweepers : \A r \in InHand(s) : r.day = d => HeldRowIsPending(s, r)

OrdersInv == HandsAreDue /\ SkipsStand /\ NothingIsEarly /\ RowsAreRight

SubsInv == Sound /\ OrdersInv

-----------------------------------------------------------------------------
(* Jobs and hands                                                          *)

LEMMA HandFacts ==
    ASSUME NEW s
    PROVE  /\ job[s].phase = "placing" => InHand(s) = job[s].due
           /\ job[s].phase \in AtOneRow => InHand(s) = job[s].due \cup {job[s].row}
           /\ job[s].phase \notin SweepPhases => InHand(s) = {}
BY DEF InHand, AtOneRow, SweepPhases

LEMMA HandFactsPrime ==
    ASSUME NEW s
    PROVE  /\ job'[s].phase = "placing" => InHand(s)' = job'[s].due
           /\ job'[s].phase \in AtOneRow => InHand(s)' = job'[s].due \cup {job'[s].row}
           /\ job'[s].phase \notin SweepPhases => InHand(s)' = {}
BY DEF InHand, AtOneRow, SweepPhases

LEMMA JobsStaySound ==
    ASSUME Sound, NEW j \in Jobs, NEW h, Become(j, h), StateIsSound(j, h)
    PROVE  /\ job' = [k \in Jobs |-> job'[k]]
           /\ \A k \in Jobs : StateIsSound(k, job'[k])
           /\ job'[j] = h
           /\ \A k \in Jobs \ {j} : job'[k] = job[k]
<1>1. job = [k \in Jobs |-> job[k]]
  BY DEF Sound
<1>2. job' = [job EXCEPT ![j] = h]
  BY DEF Become
<1>3. /\ job' = [k \in Jobs |-> job'[k]]
      /\ job'[j] = h
      /\ \A k \in Jobs \ {j} : job'[k] = job[k]
  BY <1>1, <1>2
<1>4. ASSUME NEW k \in Jobs PROVE StateIsSound(k, job'[k])
  <2>1. StateIsSound(k, job[k])
    BY DEF Sound
  <2> QED
    BY <1>3, <2>1
<1> QED
  BY <1>3, <1>4

(* A job that has no rows in hand and takes none leaves all hands alone.   *)
HandsStay ==
    \A s \in Sweepers :
        /\ InHand(s)' = InHand(s)
        /\ \A r : (job'[s].phase = "recording" /\ job'[s].row = r)
                   <=> (job[s].phase = "recording" /\ job[s].row = r)

LEMMA OtherHandsStay ==
    ASSUME NEW s \in Sweepers, job'[s] = job[s]
    PROVE  InHand(s)' = InHand(s)
BY DEF InHand

LEMMA QuietJobs ==
    ASSUME Sound, NEW j \in Jobs, NEW h, Become(j, h), StateIsSound(j, h),
           job[j].phase \notin SweepPhases, h.phase \notin SweepPhases
    PROVE  HandsStay
<1> SUFFICES ASSUME NEW s \in Sweepers
             PROVE  /\ InHand(s)' = InHand(s)
                    /\ \A r : (job'[s].phase = "recording" /\ job'[s].row = r)
                              <=> (job[s].phase = "recording" /\ job[s].row = r)
  BY DEF HandsStay
<1>1. /\ job'[j] = h
      /\ \A k \in Jobs \ {j} : job'[k] = job[k]
  BY JobsStaySound
<1>2. s \in Jobs
  BY DEF Jobs
<1>3. CASE s # j
  BY <1>1, <1>2, <1>3, OtherHandsStay
<1>4. CASE s = j
  BY <1>1, <1>4, HandFacts, HandFactsPrime DEF SweepPhases
<1> QED
  BY <1>3, <1>4

LEMMA GeneratingIsSound ==
    ASSUME NEW j \in Jobs, NEW u
    PROVE  /\ StateIsSound(j, Generating(j, u)) /\ Generating(j, u).phase \notin SweepPhases
           /\ StateIsSound(j, Generated(j)) /\ Generated(j).phase \notin SweepPhases
           /\ StateIsSound(j, Idle) /\ Idle.phase \notin SweepPhases
<1> DEFINE new == Upcoming(u, today + Horizon)
<1>1. Generating(j, u) = IF new = {} THEN Generated(j) ELSE [phase |-> "generating", new |-> new]
  BY DEF Generating
<1> HIDE DEF new
<1> QED
  BY <1>1, SubscriptionAssumption
     DEF StateIsSound, Generated, Idle, SweepPhases, AtOneRow, RequestPhases

-----------------------------------------------------------------------------
(* Steps that change rows, days or skips, and leave the hands alone        *)

(* A row that changes keeps its identity and its order, or the day is none *)
(* that is due.                                                            *)
RowMoves(d) ==
    \/ rows'[d] = rows[d]
    \/ /\ rows[d].status # "order_placed" /\ rows'[d].status # "order_placed"
       /\ \/ rows'[d].id = rows[d].id /\ rows'[d].status # "none"
          \/ d > today
          \/ rows[d].status = "none"

LEMMA RowsMove ==
    ASSUME SubsInv, HandsStay, orders' = orders,
           today' \in Int, today' >= today,
           declined' \subseteq Days, exposed \subseteq exposed',
           \A d \in Skipped' \ Skipped : d > today,
           \A d \in Skipped' : rows'[d].status = "skipped",
           \A d \in Days \ exposed' : RowMoves(d)
    PROVE  OrdersInv'
<1> USE DEF SubsInv, OrdersInv
<1>0. /\ orders \in [Days -> Int] /\ today \in Int /\ Days \subseteq Int
      /\ declined \subseteq Days /\ exposed \subseteq Days
  BY DEF Sound, Days
<1>1. HandsAreDue'
  <2> SUFFICES ASSUME NEW s \in Sweepers, NEW r \in InHand(s)
               PROVE  r.day <= today' /\ r.day \notin Skipped'
    BY DEF HandsAreDue, HandsStay
  <2>1. r.day <= today /\ r.day \notin Skipped
    BY DEF HandsAreDue
  <2>2. r.day \in Days
    <3>1. s \in Jobs
      BY DEF Jobs
    <3>2. StateIsSound(s, job[s])
      BY <3>1 DEF Sound
    <3>3. CASE job[s].phase = "placing"
      BY <3>2, <3>3, HandFacts DEF StateIsSound, SweepPhases, Refs
    <3>4. CASE job[s].phase \in AtOneRow
      BY <3>2, <3>4, HandFacts DEF StateIsSound, SweepPhases, AtOneRow, Refs
    <3>5. CASE job[s].phase \notin SweepPhases
      BY <3>5, HandFacts
    <3> QED
      BY <3>3, <3>4, <3>5 DEF SweepPhases, AtOneRow
  <2>3. r.day \in Int
    BY <1>0, <2>2
  <2>4. r.day \notin Skipped'
    BY <1>0, <2>1, <2>3
  <2> QED
    BY <1>0, <2>1, <2>3, <2>4
<1>2. SkipsStand'
  BY <1>0 DEF SkipsStand, NothingIsEarly
<1>3. NothingIsEarly'
  BY <1>0 DEF NothingIsEarly
<1>4. RowsAreRight'
  <2> SUFFICES ASSUME NEW d \in Days \ exposed'
               PROVE  /\ (\A s \in Sweepers : \A r \in InHand(s)' : r.day # d) => Settled(d)'
                      /\ \A s \in Sweepers : \A r \in InHand(s)' :
                            r.day = d => HeldRowIsPending(s, r)'
    BY DEF RowsAreRight
  <2>1. d \in Days \ exposed /\ RowMoves(d)
    OBVIOUS
  <2>2. ASSUME \A s \in Sweepers : \A r \in InHand(s)' : r.day # d
        PROVE  Settled(d)'
    <3>1. Settled(d)
      BY <2>1, <2>2 DEF RowsAreRight, HandsStay
    <3> QED
      BY <2>1, <3>1 DEF Settled, RowMoves
  <2>3. ASSUME NEW s \in Sweepers, NEW r \in InHand(s)', r.day = d
        PROVE  HeldRowIsPending(s, r)'
    <3>1. r \in InHand(s)
      BY <2>3 DEF HandsStay
    <3>2. HeldRowIsPending(s, r)
      BY <2>1, <2>3, <3>1 DEF RowsAreRight
    <3>3. d <= today
      BY <2>3, <3>1 DEF HandsAreDue
    <3>4. rows'[d].id = r.id /\ rows'[d].status \notin {"none", "order_placed"}
      BY <1>0, <2>1, <2>3, <3>2, <3>3 DEF RowMoves, HeldRowIsPending
    <3>5. orders'[d] = IF job'[s].phase = "recording" /\ job'[s].row = r THEN 1 ELSE 0
      BY <2>3, <3>2 DEF HandsStay, HeldRowIsPending
    <3>6. \A t \in Sweepers : \A q \in InHand(t)' : q.day = r.day => t = s /\ q = r
      BY <3>2 DEF HandsStay, HeldRowIsPending
    <3> QED
      BY <2>3, <3>4, <3>5, <3>6 DEF HeldRowIsPending
  <2> QED
    BY <2>2, <2>3
<1> QED
  BY <1>1, <1>2, <1>3, <1>4

(* A day that is in nobody's hands and still to come has no order.         *)
LEMMA ComingHasNoOrder ==
    ASSUME SubsInv, NEW d \in Days \ exposed, d > today
    PROVE  rows[d].status # "order_placed"
<1>1. today \in Int /\ d \in Int
  BY DEF SubsInv, Sound, Days
<1>2. orders[d] = 0
  BY DEF SubsInv, OrdersInv, NothingIsEarly
<1>3. \A s \in Sweepers : \A r \in InHand(s) : r.day # d
  BY <1>1 DEF SubsInv, OrdersInv, HandsAreDue
<1>4. Settled(d)
  BY <1>3 DEF SubsInv, OrdersInv, RowsAreRight
<1> QED
  BY <1>2, <1>4 DEF Settled

-----------------------------------------------------------------------------
(* The steps of requests, and of the generator                             *)

LEMMA RowsStep ==
    ASSUME SubsInv, NEW j \in Jobs, NEW h, Become(j, h), StateIsSound(j, h),
           job[j].phase \notin SweepPhases, h.phase \notin SweepPhases,
           rows' \in [Days -> RowTypes], UNCHANGED <<orders, today>>,
           declined' \subseteq Days,
           exposed \subseteq exposed', exposed' \subseteq Days,
           \A d \in Skipped' \ Skipped : d > today,
           \A d \in Skipped' : rows'[d].status = "skipped",
           \A d \in Days \ exposed' : RowMoves(d)
    PROVE  SubsInv'
<1>1. Sound
  BY DEF SubsInv
<1>2. Sound'
  BY <1>1, JobsStaySound DEF Sound
<1>3. HandsStay
  BY <1>1, QuietJobs
<1>4. today' \in Int /\ today' >= today
  BY <1>1 DEF Sound
<1>5. OrdersInv'
  BY <1>3, <1>4, RowsMove
<1> QED
  BY <1>2, <1>5 DEF SubsInv

LEMMA JobStep ==
    ASSUME SubsInv, NEW j \in Jobs, NEW h, Become(j, h), StateIsSound(j, h),
           job[j].phase \notin SweepPhases, h.phase \notin SweepPhases,
           UNCHANGED <<rows, orders, today, declined, overtaken, exposed>>
    PROVE  SubsInv'
<1>1. /\ rows \in [Days -> RowTypes] /\ declined \subseteq Days /\ exposed \subseteq Days
      /\ \A d \in Skipped : rows[d].status = "skipped"
  BY DEF SubsInv, Sound, OrdersInv, SkipsStand
<1>2. \A d \in Days \ exposed : RowMoves(d)
  BY DEF RowMoves
<1> QED
  BY <1>1, <1>2, RowsStep

LEMMA RequestsAreNotAtRows ==
    ASSUME Sound, NEW j \in Jobs, j \in Requests \/ job[j].phase \notin SweepPhases
    PROVE  job[j].phase \notin SweepPhases
BY DEF Sound, StateIsSound

LEMMA CreateSubscriptionKeeps ==
    ASSUME SubsInv, NEW j \in Requests, CreateSubscription(j)
    PROVE  SubsInv'
<1>1. j \in Jobs /\ Sound
  BY DEF Jobs, SubsInv
<1>2. /\ Become(j, Generating(j, 0))
      /\ UNCHANGED <<rows, orders, today, declined, overtaken, exposed>>
  BY DEF CreateSubscription, ghosts
<1> QED
  BY <1>1, <1>2, GeneratingIsSound, RequestsAreNotAtRows, JobStep

LEMMA MarkGeneratedKeeps ==
    ASSUME SubsInv, NEW j \in Jobs, MarkGenerated(j)
    PROVE  SubsInv'
<1>1. /\ Become(j, Generated(j)) /\ job[j].phase \notin SweepPhases
      /\ UNCHANGED <<rows, orders, today, declined, overtaken, exposed>>
  BY DEF MarkGenerated, ghosts, SweepPhases
<1> QED
  BY <1>1, GeneratingIsSound, JobStep

LEMMA ReadToUpdateKeeps ==
    ASSUME SubsInv, NEW j \in Requests, NEW to, ReadToUpdate(j, to)
    PROVE  SubsInv'
<1>1. j \in Jobs /\ Sound
  BY DEF Jobs, SubsInv
<1>2. PICK h : /\ Become(j, h) /\ h.phase \in {"clearing", "saving"}
               /\ UNCHANGED <<rows, orders, today, declined, overtaken, exposed>>
  BY DEF ReadToUpdate
<1>3. StateIsSound(j, h) /\ h.phase \notin SweepPhases
  BY <1>2, SubscriptionAssumption DEF StateIsSound, SweepPhases, AtOneRow, RequestPhases
<1> QED
  BY <1>1, <1>2, <1>3, RequestsAreNotAtRows, JobStep

LEMMA ReadToDeleteKeeps ==
    ASSUME SubsInv, NEW j \in Requests, ReadToDelete(j)
    PROVE  SubsInv'
<1>1. j \in Jobs /\ Sound
  BY DEF Jobs, SubsInv
<1>2. PICK h : /\ Become(j, h) /\ h.phase = "deleting"
               /\ UNCHANGED <<rows, orders, today, declined, overtaken, exposed>>
  BY DEF ReadToDelete
<1>3. StateIsSound(j, h) /\ h.phase \notin SweepPhases
  BY <1>2, SubscriptionAssumption DEF StateIsSound, SweepPhases, AtOneRow, RequestPhases
<1> QED
  BY <1>1, <1>2, <1>3, RequestsAreNotAtRows, JobStep

(* Only requests update, delete and skip.                                  *)
LEMMA RequestPhaseIsARequest ==
    ASSUME Sound, NEW j \in Jobs, job[j].phase \in RequestPhases
    PROVE  j \in Requests
BY DEF Sound, StateIsSound, Jobs

LEMMA SaveSubscriptionKeeps ==
    ASSUME SubsInv, NEW j \in Jobs, SaveSubscription(j)
    PROVE  SubsInv'
<1>1. Sound /\ j \in Requests
  BY RequestPhaseIsARequest DEF SubsInv, SaveSubscription, RequestPhases
<1> DEFINE g == Generating(j, job[j].new.until)
           c == [phase |-> "cancelling",
                 as |-> IF job[j].new.status = "paused" THEN "paused" ELSE "ended"]
<1>2. /\ Become(j, CASE job[j].after = "generate" -> g
                     [] job[j].after = "cancel" -> c
                     [] OTHER -> Idle)
      /\ UNCHANGED <<rows, orders, today, declined, overtaken, exposed>>
  BY DEF SaveSubscription
<1>3. StateIsSound(j, g) /\ g.phase \notin SweepPhases
  BY GeneratingIsSound
<1>4. StateIsSound(j, c) /\ c.phase \notin SweepPhases
  BY <1>1, SubscriptionAssumption DEF StateIsSound, SweepPhases, AtOneRow, RequestPhases
<1>5. StateIsSound(j, Idle) /\ Idle.phase \notin SweepPhases
  BY GeneratingIsSound
<1> HIDE DEF g, c
<1>6. PICK h : h \in {g, c, Idle} /\ Become(j, h)
  BY <1>2
<1> QED
  BY <1>1, <1>2, <1>3, <1>4, <1>5, <1>6, RequestsAreNotAtRows, JobStep

LEMMA ReadToSkipKeeps ==
    ASSUME SubsInv, NEW j \in Requests, NEW d \in Days, NEW reason, ReadToSkip(j, d, reason)
    PROVE  SubsInv'
<1>1. j \in Jobs /\ Sound
  BY DEF Jobs, SubsInv
<1> DEFINE h == [phase |-> "skipping", row |-> [day |-> d, id |-> rows[d].id], reason |-> reason]
<1>2. /\ Become(j, h) /\ UNCHANGED <<rows, orders, today, declined, overtaken, exposed>>
  BY DEF ReadToSkip, ghosts
<1>3. [day |-> d, id |-> rows[d].id] \in Refs
  BY <1>1 DEF Sound, RowTypes, Refs
<1>4. StateIsSound(j, h) /\ h.phase \notin SweepPhases
  BY <1>3, SubscriptionAssumption DEF StateIsSound, SweepPhases, AtOneRow, RequestPhases
<1> HIDE DEF h
<1> QED
  BY <1>1, <1>2, <1>4, RequestsAreNotAtRows, JobStep

LEMMA SweepReadsKeeps ==
    ASSUME SubsInv, NEW s \in Sweepers, SweepReads(s)
    PROVE  SubsInv'
<1>1. s \in Jobs /\ job[s].phase \notin SweepPhases
  BY DEF Jobs, SweepReads, Idle, SweepPhases
<1> DEFINE g == Generating(s, sub.until)
           l == [phase |-> "listing"]
<1>2. /\ Become(s, IF sub.status = "active" THEN g ELSE l)
      /\ UNCHANGED <<rows, orders, today, declined, overtaken, exposed>>
  BY DEF SweepReads, ghosts
<1>3. StateIsSound(s, g) /\ g.phase \notin SweepPhases
  BY <1>1, GeneratingIsSound
<1>4. StateIsSound(s, l) /\ l.phase \notin SweepPhases
  BY SubscriptionAssumption DEF StateIsSound, SweepPhases, AtOneRow, RequestPhases
<1> HIDE DEF g, l
<1>5. PICK h : h \in {g, l} /\ Become(s, h)
  BY <1>2
<1> QED
  BY <1>1, <1>2, <1>3, <1>4, <1>5, JobStep

(* Skipped rows are skipped, before and after a step that passes them by.  *)
LEMMA SkipsAreSkipped ==
    ASSUME SubsInv
    PROVE  /\ rows \in [Days -> RowTypes] /\ declined \subseteq Days /\ exposed \subseteq Days
           /\ \A d \in Skipped : rows[d].status = "skipped"
BY DEF SubsInv, Sound, OrdersInv, SkipsStand

LEMMA InsertRowsKeeps ==
    ASSUME SubsInv, NEW j \in Jobs, InsertRows(j)
    PROVE  SubsInv'
<1>1. job[j].phase \notin SweepPhases
  BY DEF InsertRows, SweepPhases
<1> DEFINE h == [phase |-> "marking", until |-> Max(job[j].new)]
<1>2. Become(j, h) /\ UNCHANGED <<orders, today, declined, overtaken, exposed>>
  BY DEF InsertRows, ghosts
<1>3. StateIsSound(j, h) /\ h.phase \notin SweepPhases
  BY DEF StateIsSound, SweepPhases, AtOneRow, RequestPhases
<1>4. rows' = [d \in Days |-> IF d \in job[j].new /\ rows[d].status = "none"
                              THEN [rows[d] EXCEPT !.status = "scheduled"] ELSE rows[d]]
  BY DEF InsertRows
<1>5. rows' \in [Days -> RowTypes]
  BY <1>4, SkipsAreSkipped DEF RowTypes, RowStatuses
<1>6. \A d \in Skipped : rows'[d].status = "skipped"
  BY <1>4, SkipsAreSkipped
<1>7. \A d \in Days : RowMoves(d)
  BY <1>4, SkipsAreSkipped DEF RowMoves, RowTypes
<1> HIDE DEF h
<1> QED
  BY <1>1, <1>2, <1>3, <1>5, <1>6, <1>7, SkipsAreSkipped, RowsStep

LEMMA ClearPausedKeeps ==
    ASSUME SubsInv, NEW j \in Jobs, ClearPaused(j)
    PROVE  SubsInv'
<1> DEFINE gone == {d \in Days : d > job[j].since /\ rows[d].status = "paused"}
           h == [phase |-> "saving", copy |-> job[j].copy,
                 new |-> [status |-> "active", until |-> job[j].since], after |-> "generate"]
<1>1. Sound /\ j \in Requests /\ today \in Int /\ Days \subseteq Int
  BY RequestPhaseIsARequest DEF SubsInv, Sound, ClearPaused, RequestPhases, Days
<1>2. Become(j, h) /\ UNCHANGED <<orders, today, declined, overtaken>>
  BY DEF ClearPaused
<1>3. StateIsSound(j, h) /\ h.phase \notin SweepPhases
  BY <1>1, SubscriptionAssumption DEF StateIsSound, SweepPhases, AtOneRow, RequestPhases
<1>4. /\ rows' = [d \in Days |-> IF d \in gone THEN [status |-> "none", id |-> rows[d].id + 1]
                                                ELSE rows[d]]
      /\ exposed' = exposed \cup {d \in gone : d <= today}
  BY DEF ClearPaused
<1>5. rows' \in [Days -> RowTypes]
  BY <1>4, SkipsAreSkipped DEF RowTypes, RowStatuses
<1>6. \A d \in Skipped : rows'[d].status = "skipped"
  BY <1>4, SkipsAreSkipped
<1>7. \A d \in Days \ exposed' : RowMoves(d)
  BY <1>1, <1>4, SkipsAreSkipped DEF RowMoves, RowTypes
<1>8. exposed \subseteq exposed' /\ exposed' \subseteq Days
  BY <1>4, SkipsAreSkipped
<1> HIDE DEF h
<1> QED
  BY <1>1, <1>2, <1>3, <1>5, <1>6, <1>7, <1>8, SkipsAreSkipped, RequestsAreNotAtRows, RowsStep

LEMMA CancelScheduledKeeps ==
    ASSUME SubsInv, NEW j \in Jobs, CancelScheduled(j)
    PROVE  SubsInv'
<1>1. job[j].phase \notin SweepPhases
  BY DEF CancelScheduled, SweepPhases
<1>2. Become(j, Idle) /\ UNCHANGED <<orders, today, declined, overtaken, exposed>>
  BY DEF CancelScheduled, ghosts
<1>3. rows' = [d \in Days |-> IF d >= today /\ rows[d].status = "scheduled"
                              THEN [rows[d] EXCEPT !.status = job[j].as] ELSE rows[d]]
  BY DEF CancelScheduled
<1>4. rows' \in [Days -> RowTypes]
  <2>1. job[j].as \in {"paused", "ended"}
    BY DEF SubsInv, Sound, StateIsSound, CancelScheduled
  <2> QED
    BY <1>3, <2>1, SkipsAreSkipped DEF RowTypes, RowStatuses
<1>5. \A d \in Skipped : rows'[d].status = "skipped"
  BY <1>3, SkipsAreSkipped
<1>6. \A d \in Days : RowMoves(d)
  <2>1. job[j].as \in {"paused", "ended"}
    BY DEF SubsInv, Sound, StateIsSound, CancelScheduled
  <2> QED
    BY <1>3, <2>1, SkipsAreSkipped DEF RowMoves, RowTypes
<1> QED
  BY <1>1, <1>2, <1>4, <1>5, <1>6, SkipsAreSkipped, GeneratingIsSound, RowsStep

LEMMA EndRowsKeeps ==
    ASSUME SubsInv, NEW j \in Jobs, EndRows(j)
    PROVE  SubsInv'
<1> DEFINE h == [phase |-> "saving", copy |-> job[j].copy,
                 new |-> [job[j].copy EXCEPT !.status = "cancelled"], after |-> "nothing"]
<1>1. Sound /\ j \in Requests
  BY RequestPhaseIsARequest DEF SubsInv, EndRows, RequestPhases
<1>2. Become(j, h) /\ UNCHANGED <<orders, today, declined, overtaken, exposed>>
  BY DEF EndRows, ghosts
<1>3. StateIsSound(j, h) /\ h.phase \notin SweepPhases
  BY <1>1, SubscriptionAssumption DEF StateIsSound, SweepPhases, AtOneRow, RequestPhases
<1>4. rows' = [d \in Days |-> IF rows[d].status = "scheduled"
                              THEN [rows[d] EXCEPT !.status = "ended"] ELSE rows[d]]
  BY DEF EndRows
<1>5. rows' \in [Days -> RowTypes]
  BY <1>4, SkipsAreSkipped DEF RowTypes, RowStatuses
<1>6. \A d \in Skipped : rows'[d].status = "skipped"
  BY <1>4, SkipsAreSkipped
<1>7. \A d \in Days : RowMoves(d)
  BY <1>4, SkipsAreSkipped DEF RowMoves, RowTypes
<1> HIDE DEF h
<1> QED
  BY <1>1, <1>2, <1>3, <1>5, <1>6, <1>7, SkipsAreSkipped, RequestsAreNotAtRows, RowsStep

LEMMA SaveSkipKeeps ==
    ASSUME SubsInv, NEW j \in Jobs, SaveSkip(j)
    PROVE  SubsInv'
<1> DEFINE d == job[j].row.day
           there == rows[d].id = job[j].row.id
           kept == ~job[j].reason /\ rows[d].status \in {"paused", "ended"}
<1>1. Sound /\ j \in Requests /\ today \in Int /\ Days \subseteq Int
  BY RequestPhaseIsARequest DEF SubsInv, Sound, SaveSkip, RequestPhases, Days
<1>2. Become(j, Idle) /\ UNCHANGED <<orders, today>>
  BY DEF SaveSkip
<1>3. d \in Days
  BY <1>1 DEF Sound, StateIsSound, SaveSkip, Refs
<1>4. /\ rows' = IF there /\ ~kept THEN [rows EXCEPT ![d].status = "skipped"] ELSE rows
      /\ declined' = IF there THEN declined \cup {d} ELSE declined
      /\ overtaken' = IF ~there THEN overtaken
                      ELSE IF kept \/ today >= d THEN overtaken \cup {d}
                      ELSE overtaken \ {d}
      /\ exposed' = IF there /\ today >= d THEN exposed \cup {d} ELSE exposed
  BY DEF SaveSkip
<1> HIDE DEF there, kept
<1>5. rows' \in [Days -> RowTypes]
  BY <1>3, <1>4, SkipsAreSkipped DEF RowTypes, RowStatuses
<1>6. \A e \in Skipped' : rows'[e].status = "skipped"
  BY <1>3, <1>4, SkipsAreSkipped
<1>7. /\ declined' \subseteq Days
      /\ exposed \subseteq exposed' /\ exposed' \subseteq Days
  BY <1>3, <1>4, SkipsAreSkipped
<1>8. \A e \in Skipped' \ Skipped : e > today
  BY <1>1, <1>3, <1>4
<1>9. ASSUME NEW e \in Days \ exposed' PROVE RowMoves(e)
  <2>1. CASE rows'[e] = rows[e]
    BY <2>1 DEF RowMoves
  <2>2. CASE rows'[e] # rows[e]
    <3>1. e = d /\ there /\ ~kept
      BY <1>3, <1>4, <2>2, SkipsAreSkipped
    <3>2. e > today
      BY <1>1, <1>3, <1>4, <1>9, <3>1
    <3>3. rows[e].status # "order_placed"
      BY <1>7, <3>2, ComingHasNoOrder
    <3>4. rows'[e].status = "skipped"
      BY <1>3, <1>4, <3>1, SkipsAreSkipped
    <3> QED
      BY <3>2, <3>3, <3>4 DEF RowMoves
  <2> QED
    BY <2>1, <2>2
<1> QED
  BY <1>1, <1>2, <1>5, <1>6, <1>7, <1>8, <1>9, GeneratingIsSound, RequestsAreNotAtRows, RowsStep

LEMMA NextDayKeeps ==
    ASSUME SubsInv, NextDay
    PROVE  SubsInv'
<1>1. /\ today' = today + 1 /\ today \in Int
      /\ UNCHANGED <<rows, orders, job, declined, overtaken, exposed>>
  BY DEF SubsInv, Sound, NextDay, ghosts
<1>2. Sound'
  BY <1>1, SubscriptionAssumption DEF SubsInv, Sound, NextDay
<1>3. HandsStay
  BY <1>1, OtherHandsStay DEF HandsStay
<1>4. \A d \in Days \ exposed' : RowMoves(d)
  BY <1>1 DEF RowMoves
<1>5. today' \in Int /\ today' >= today
  BY <1>1
<1>6. OrdersInv'
  BY <1>1, <1>3, <1>4, <1>5, SkipsAreSkipped, RowsMove
<1> QED
  BY <1>2, <1>6 DEF SubsInv

-----------------------------------------------------------------------------
(* The steps of a sweep with its rows in hand                              *)

(* What becomes of a day: the sweep is not at it, or nobody is any more,   *)
(* or the sweep has its row in hand.                                       *)
DayMoves(s, d) ==
    \/ /\ \A r \in InHand(s) \cup InHand(s)' : r.day # d
       /\ rows'[d] = rows[d] /\ orders'[d] = orders[d]
    \/ /\ \A t \in Sweepers : \A r \in InHand(t)' : r.day # d
       /\ Settled(d)'
    \/ \E r \in InHand(s)' : r.day = d /\ HeldRowIsPending(s, r)'

LEMMA SweepMoves ==
    ASSUME SubsInv, NEW s \in Sweepers, NEW h, Become(s, h), StateIsSound(s, h),
           rows' \in [Days -> RowTypes], orders' \in [Days -> Int],
           UNCHANGED <<today, declined, overtaken>>,
           exposed \subseteq exposed', exposed' \subseteq Days,
           \A r \in InHand(s)' : r.day <= today /\ r.day \notin Skipped,
           \A d \in Skipped : rows'[d] = rows[d] /\ orders'[d] = orders[d],
           \A d \in Days : d > today => orders'[d] = orders[d],
           \A d \in Days \ exposed' : DayMoves(s, d)
    PROVE  SubsInv'
<1>1. Sound /\ s \in Jobs
  BY DEF SubsInv, Jobs
<1>2. Sound'
  BY <1>1, JobsStaySound DEF Sound
<1>3. \A t \in Sweepers \ {s} : job'[t] = job[t] /\ InHand(t)' = InHand(t)
  BY <1>1, JobsStaySound, OtherHandsStay DEF Jobs
<1>4. HandsAreDue'
  BY <1>3 DEF SubsInv, OrdersInv, HandsAreDue
<1>5. SkipsStand'
  BY DEF SubsInv, OrdersInv, SkipsStand
<1>6. NothingIsEarly'
  BY DEF SubsInv, OrdersInv, NothingIsEarly
<1>7. RowsAreRight'
  <2> SUFFICES ASSUME NEW d \in Days \ exposed'
               PROVE  /\ (\A t \in Sweepers : \A r \in InHand(t)' : r.day # d) => Settled(d)'
                      /\ \A t \in Sweepers : \A r \in InHand(t)' :
                            r.day = d => HeldRowIsPending(t, r)'
    BY DEF RowsAreRight
  <2>1. d \in Days \ exposed /\ DayMoves(s, d)
    OBVIOUS
  <2>2. CASE /\ \A r \in InHand(s) \cup InHand(s)' : r.day # d
             /\ rows'[d] = rows[d] /\ orders'[d] = orders[d]
    <3>1. ASSUME \A t \in Sweepers : \A r \in InHand(t)' : r.day # d
          PROVE  Settled(d)'
      <4>1. \A t \in Sweepers : \A r \in InHand(t) : r.day # d
        BY <1>3, <2>2, <3>1
      <4>2. Settled(d)
        BY <2>1, <4>1 DEF SubsInv, OrdersInv, RowsAreRight
      <4> QED
        BY <2>2, <4>2 DEF Settled
    <3>2. ASSUME NEW t \in Sweepers, NEW r \in InHand(t)', r.day = d
          PROVE  HeldRowIsPending(t, r)'
      <4>1. t # s /\ r \in InHand(t) /\ job'[t] = job[t]
        BY <1>3, <2>2, <3>2
      <4>2. HeldRowIsPending(t, r)
        BY <2>1, <3>2, <4>1 DEF SubsInv, OrdersInv, RowsAreRight
      <4>3. \A u \in Sweepers : \A q \in InHand(u)' : q.day = r.day => u = t /\ q = r
        BY <1>3, <2>2, <3>2, <4>2 DEF HeldRowIsPending
      <4> QED
        BY <2>2, <3>2, <4>1, <4>2, <4>3 DEF HeldRowIsPending
    <3> QED
      BY <3>1, <3>2
  <2>3. CASE /\ \A t \in Sweepers : \A r \in InHand(t)' : r.day # d
             /\ Settled(d)'
    BY <2>3
  <2>4. CASE \E r \in InHand(s)' : r.day = d /\ HeldRowIsPending(s, r)'
    <3>1. PICK r \in InHand(s)' : r.day = d /\ HeldRowIsPending(s, r)'
      BY <2>4
    <3>2. ASSUME NEW t \in Sweepers, NEW q \in InHand(t)', q.day = d
          PROVE  t = s /\ q = r
      BY <3>1, <3>2 DEF HeldRowIsPending
    <3> QED
      BY <3>1, <3>2
  <2> QED
    BY <2>1, <2>2, <2>3, <2>4 DEF DayMoves
<1> QED
  BY <1>2, <1>4, <1>5, <1>6, <1>7 DEF SubsInv, OrdersInv

(* Rows are in the hands of sweeps only.                                   *)
LEMMA SweepPhaseIsASweep ==
    ASSUME Sound, NEW j \in Jobs, job[j].phase \in SweepPhases \cup {"listing"}
    PROVE  j \in Sweepers
BY DEF Sound, StateIsSound, Jobs

LEMMA PlacingFacts ==
    ASSUME NEW s \in Sweepers, NEW due, due \subseteq Refs
    PROVE  /\ StateIsSound(s, Placing(due))
           /\ job'[s] = Placing(due) => InHand(s)' = due /\ job'[s].phase # "recording"
<1>1. CASE due = {}
  BY <1>1, SubscriptionAssumption, HandFactsPrime
     DEF Placing, Idle, StateIsSound, RequestPhases, SweepPhases, AtOneRow
<1>2. CASE due # {}
  BY <1>2, SubscriptionAssumption, HandFactsPrime
     DEF Placing, StateIsSound, RequestPhases, SweepPhases, AtOneRow
<1> QED
  BY <1>1, <1>2

LEMMA InvFacts ==
    ASSUME SubsInv
    PROVE  /\ rows \in [Days -> RowTypes] /\ orders \in [Days -> Int]
           /\ today \in Int /\ today \in 1..LastDay /\ Days \subseteq Int
           /\ declined \subseteq Days /\ exposed \subseteq Days
           /\ \A s \in Sweepers : \A r \in InHand(s) : r.day <= today /\ r.day \notin Skipped
           /\ \A d \in Days \ exposed : \A s \in Sweepers : \A r \in InHand(s) :
                  r.day = d => HeldRowIsPending(s, r)
BY DEF SubsInv, Sound, OrdersInv, HandsAreDue, RowsAreRight, Days

LEMMA ListDueKeeps ==
    ASSUME SubsInv, NEW s \in Jobs, ListDue(s)
    PROVE  SubsInv'
<1> DEFINE due == {[day |-> d, id |-> rows[d].id] : d \in {e \in 1..today : rows[e].status = "scheduled"}}
           others == UNION {InHand(t) : t \in Sweepers \ {s}}
<1>1. Sound /\ s \in Sweepers
  BY SweepPhaseIsASweep DEF SubsInv, ListDue
<1>2. /\ Become(s, Placing(due)) /\ UNCHANGED <<rows, orders, today, declined, overtaken>>
      /\ exposed' = exposed \cup {r.day : r \in due \cap others}
  BY DEF ListDue
<1>3. 1..today \subseteq Days
  BY InvFacts, SubscriptionAssumption DEF Days
<1>4. ASSUME NEW r \in due
      PROVE  /\ r \in Refs /\ r.day \in Days /\ r.day <= today
             /\ r.id = rows[r.day].id /\ rows[r.day].status = "scheduled"
             /\ r = [day |-> r.day, id |-> rows[r.day].id]
  <2>1. PICK d \in 1..today : rows[d].status = "scheduled" /\ r = [day |-> d, id |-> rows[d].id]
    OBVIOUS
  <2>2. rows[d] \in RowTypes
    BY <1>3, InvFacts
  <2> QED
    BY <1>3, <2>1, <2>2, InvFacts DEF Refs, RowTypes
<1>5. due \subseteq Refs
  BY <1>4
<1>6. /\ StateIsSound(s, Placing(due))
      /\ job'[s] = Placing(due) /\ InHand(s)' = due /\ job'[s].phase # "recording"
      /\ \A t \in Sweepers \ {s} : InHand(t)' = InHand(t)
  <2> HIDE DEF due
  <2>1. StateIsSound(s, Placing(due))
    BY <1>1, <1>5, PlacingFacts
  <2>2. /\ job'[s] = Placing(due)
        /\ \A t \in Jobs \ {s} : job'[t] = job[t]
    BY <1>1, <1>2, <2>1, JobsStaySound
  <2> QED
    BY <1>1, <1>5, <2>1, <2>2, PlacingFacts, OtherHandsStay DEF Jobs
<1>7. InHand(s) = {}
  BY HandFacts DEF ListDue, SweepPhases
<1>8. exposed \subseteq exposed' /\ exposed' \subseteq Days
  BY <1>2, <1>4, InvFacts
<1>9. \A r \in due : r.day <= today /\ r.day \notin Skipped
  BY <1>4, SkipsAreSkipped
<1>10. ASSUME NEW d \in Days \ exposed'
       PROVE  DayMoves(s, d)
  <2>1. CASE \A r \in due : r.day # d
    BY <1>2, <1>6, <1>7, <2>1 DEF DayMoves
  <2>2. CASE \E r \in due : r.day = d
    <3>1. PICK r \in due : r.day = d
      BY <2>2
    <3>2. ASSUME NEW t \in Sweepers \ {s}, NEW q \in InHand(t), q.day = d
          PROVE  FALSE
      <4>1. rows[d].id = q.id
        BY <1>8, <1>10, <3>2, InvFacts DEF HeldRowIsPending
      <4>2. q \in Refs
        <5>1. StateIsSound(t, job[t])
          BY <1>1 DEF Sound, Jobs
        <5>2. CASE job[t].phase = "placing"
          BY <5>1, <5>2, <3>2, HandFacts DEF StateIsSound, SweepPhases
        <5>3. CASE job[t].phase \in AtOneRow
          BY <5>1, <5>3, <3>2, HandFacts DEF StateIsSound, SweepPhases, AtOneRow
        <5>4. CASE job[t].phase \notin SweepPhases
          BY <5>4, <3>2, HandFacts
        <5> QED
          BY <5>2, <5>3, <5>4 DEF SweepPhases, AtOneRow
      <4>3. q = r
        BY <1>4, <3>1, <3>2, <4>1, <4>2 DEF Refs
      <4>4. r \in due \cap others
        BY <3>1, <3>2, <4>3
      <4> QED
        BY <1>2, <1>10, <3>1, <4>4
    <3>3. Settled(d)
      BY <1>7, <1>8, <1>10, <3>2 DEF SubsInv, OrdersInv, RowsAreRight
    <3>4. orders[d] = 0 /\ rows[d].status = "scheduled" /\ rows[d].id = r.id
      BY <1>4, <3>1, <3>3 DEF Settled
    <3>5. \A t \in Sweepers : \A q \in InHand(t)' : q.day = r.day => t = s /\ q = r
      BY <1>4, <1>6, <3>1, <3>2
    <3>6. HeldRowIsPending(s, r)'
      BY <1>2, <1>6, <3>1, <3>4, <3>5 DEF HeldRowIsPending
    <3> QED
      BY <1>6, <3>1, <3>6 DEF DayMoves
  <2> QED
    BY <2>1, <2>2
<1> QED
  BY <1>1, <1>2, <1>6, <1>8, <1>9, <1>10, InvFacts, SweepMoves

LEMMA TakeNextKeeps ==
    ASSUME SubsInv, NEW s \in Jobs, TakeNext(s)
    PROVE  SubsInv'
<1>1. Sound /\ s \in Sweepers
  BY SweepPhaseIsASweep DEF SubsInv, TakeNext, SweepPhases
<1>2. PICK row \in job[s].due :
          Become(s, [phase |-> IF sub.status = "active" THEN "ordering" ELSE "dropping",
                     row |-> row, due |-> job[s].due \ {row}])
  BY DEF TakeNext
<1> DEFINE h == [phase |-> IF sub.status = "active" THEN "ordering" ELSE "dropping",
                 row |-> row, due |-> job[s].due \ {row}]
<1>3. UNCHANGED <<rows, orders, today, declined, overtaken, exposed>> /\ job[s].phase = "placing"
  BY DEF TakeNext, ghosts
<1>4. job[s].due \subseteq Refs
  BY <1>1, <1>3 DEF Sound, StateIsSound, SweepPhases
<1>5. StateIsSound(s, h)
  BY <1>1, <1>2, <1>4, SubscriptionAssumption
     DEF StateIsSound, SweepPhases, AtOneRow, RequestPhases
<1>6. /\ job'[s] = h
      /\ \A t \in Sweepers \ {s} : InHand(t)' = InHand(t)
  BY <1>1, <1>2, <1>5, JobsStaySound, OtherHandsStay DEF Jobs
<1>7. InHand(s)' = InHand(s) /\ job'[s].phase # "recording"
  <2>1. job'[s].phase \in {"ordering", "dropping"}
    BY <1>6
  <2>2. job'[s].row = row /\ job'[s].due = job[s].due \ {row}
    BY <1>6
  <2>3. InHand(s)' = (job[s].due \ {row}) \cup {row}
    BY <2>1, <2>2, HandFactsPrime DEF AtOneRow
  <2>4. InHand(s) = job[s].due
    BY <1>3, HandFacts
  <2> QED
    BY <1>2, <2>1, <2>3, <2>4
<1>8. ASSUME NEW d \in Days \ exposed'
      PROVE  DayMoves(s, d)
  <2>1. CASE \A r \in InHand(s) : r.day # d
    BY <1>3, <1>7, <2>1 DEF DayMoves
  <2>2. CASE \E r \in InHand(s) : r.day = d
    <3>1. PICK r \in InHand(s) : r.day = d
      BY <2>2
    <3>2. HeldRowIsPending(s, r)
      BY <1>1, <1>3, <1>8, <3>1, InvFacts
    <3>3. HeldRowIsPending(s, r)'
      BY <1>3, <1>6, <1>7, <3>2 DEF HeldRowIsPending
    <3> QED
      BY <1>7, <3>1, <3>3 DEF DayMoves
  <2> QED
    BY <2>1, <2>2
<1> HIDE DEF h
<1> QED
  BY <1>1, <1>2, <1>3, <1>5, <1>7, <1>8, InvFacts, SweepMoves DEF h

LEMMA PlaceOrderKeeps ==
    ASSUME SubsInv, NEW s \in Jobs, PlaceOrder(s)
    PROVE  SubsInv'
<1> DEFINE row == job[s].row
           h == [job[s] EXCEPT !.phase = "recording"]
<1>1. Sound /\ s \in Sweepers
  BY SweepPhaseIsASweep DEF SubsInv, PlaceOrder, SweepPhases
<1>2. /\ Become(s, h) /\ UNCHANGED <<rows, today, declined, overtaken, exposed>>
      /\ orders' = [orders EXCEPT ![row.day] = @ + 1]
      /\ job[s].phase = "ordering"
  BY DEF PlaceOrder, ghosts
<1>3. /\ row \in Refs /\ row.day \in Days /\ row \notin job[s].due /\ job[s].due \subseteq Refs
      /\ job[s] = [phase |-> "ordering", row |-> row, due |-> job[s].due]
  BY <1>1, <1>2 DEF Sound, StateIsSound, AtOneRow, SweepPhases, Refs
<1>4. h = [phase |-> "recording", row |-> row, due |-> job[s].due]
  BY <1>3
<1>5. StateIsSound(s, h)
  BY <1>1, <1>3, <1>4, SubscriptionAssumption
     DEF StateIsSound, SweepPhases, AtOneRow, RequestPhases
<1>6. /\ job'[s] = h
      /\ \A t \in Sweepers \ {s} : InHand(t)' = InHand(t)
  BY <1>1, <1>2, <1>5, JobsStaySound, OtherHandsStay DEF Jobs
<1>7. InHand(s)' = InHand(s) /\ row \in InHand(s)
  BY <1>2, <1>4, <1>6, HandFacts, HandFactsPrime DEF AtOneRow, SweepPhases
<1>8. row.day <= today /\ row.day \notin Skipped
  BY <1>1, <1>7, InvFacts
<1>9. ASSUME NEW d \in Days \ exposed'
      PROVE  DayMoves(s, d)
  <2>1. CASE \A r \in InHand(s) : r.day # d
    BY <1>2, <1>3, <1>7, <2>1, InvFacts DEF DayMoves
  <2>2. CASE \E r \in InHand(s) : r.day = d
    <3>1. PICK r \in InHand(s) : r.day = d
      BY <2>2
    <3>2. HeldRowIsPending(s, r)
      BY <1>1, <1>2, <1>9, <3>1, InvFacts
    <3>3. r.day = row.day <=> r = row
      BY <1>1, <1>7, <3>1, <3>2 DEF HeldRowIsPending
    <3>4. orders'[d] = IF r = row THEN 1 ELSE 0
      BY <1>2, <1>3, <1>9, <3>1, <3>2, <3>3, InvFacts DEF HeldRowIsPending
    <3>5. (job'[s].phase = "recording" /\ job'[s].row = r) <=> r = row
      BY <1>4, <1>6
    <3>6. HeldRowIsPending(s, r)'
      BY <1>2, <1>6, <1>7, <3>1, <3>2, <3>4, <3>5 DEF HeldRowIsPending
    <3> QED
      BY <1>7, <3>1, <3>6 DEF DayMoves
  <2> QED
    BY <2>1, <2>2
<1>10. /\ orders' \in [Days -> Int]
       /\ \A d \in Skipped : orders'[d] = orders[d]
       /\ \A d \in Days : d > today => orders'[d] = orders[d]
  BY <1>2, <1>3, <1>8, InvFacts
<1> HIDE DEF h
<1> QED
  BY <1>1, <1>2, <1>5, <1>7, <1>9, <1>10, InvFacts, SweepMoves

(* The end of a row: it gets a last status, and leaves the hand.           *)
LEMMA RowDone ==
    ASSUME SubsInv, NEW s \in Sweepers, job[s].phase \in AtOneRow, NEW st,
           st \in {"ended", "failed", "order_placed"},
           SetRow(job[s].row, st), Become(s, Placing(job[s].due)),
           UNCHANGED <<orders, today, declined, overtaken>>,
           exposed \subseteq exposed', exposed' \subseteq Days,
           job[s].row.day \notin exposed' => (st = "order_placed" <=> job[s].phase = "recording")
    PROVE  SubsInv'
<1> DEFINE row == job[s].row
           due == job[s].due
<1>1. Sound /\ s \in Jobs
  BY DEF SubsInv, Jobs
<1>2. row \in Refs /\ row.day \in Days /\ row \notin due /\ due \subseteq Refs
  BY <1>1 DEF Sound, StateIsSound, AtOneRow, SweepPhases, Refs
<1>3. StateIsSound(s, Placing(due))
  BY <1>2, PlacingFacts
<1>4. /\ job'[s] = Placing(due)
      /\ \A t \in Sweepers \ {s} : InHand(t)' = InHand(t)
  BY <1>1, <1>3, JobsStaySound, OtherHandsStay DEF Jobs
<1>5. InHand(s)' = due /\ InHand(s) = due \cup {row} /\ job'[s].phase # "recording"
  BY <1>2, <1>4, PlacingFacts, HandFacts
<1>6. row.day \notin Skipped
  BY <1>5, InvFacts
<1>7. rows' = IF rows[row.day].id = row.id /\ rows[row.day].status # "none"
              THEN [rows EXCEPT ![row.day].status = st] ELSE rows
  BY DEF SetRow
<1>8. rows' \in [Days -> RowTypes] /\ \A d \in Days \ {row.day} : rows'[d] = rows[d]
  BY <1>2, <1>7, InvFacts DEF RowTypes, RowStatuses
<1>9. ASSUME NEW d \in Days \ exposed'
      PROVE  DayMoves(s, d)
  <2>1. CASE d = row.day
    <3>1. HeldRowIsPending(s, row)
      BY <1>5, <1>9, <2>1, InvFacts
    <3>2. rows'[d].status = st
      BY <1>2, <1>7, <2>1, <3>1, InvFacts DEF HeldRowIsPending
    <3>3. orders'[d] = IF st = "order_placed" THEN 1 ELSE 0
      BY <1>9, <2>1, <3>1 DEF HeldRowIsPending
    <3>4. \A t \in Sweepers : \A r \in InHand(t)' : r.day # d
      BY <1>2, <1>4, <1>5, <2>1, <3>1 DEF HeldRowIsPending
    <3> QED
      BY <3>2, <3>3, <3>4 DEF DayMoves, Settled
  <2>2. CASE d # row.day /\ \A r \in due : r.day # d
    BY <1>5, <1>8, <2>2 DEF DayMoves
  <2>3. CASE d # row.day /\ \E r \in due : r.day = d
    <3>1. PICK r \in due : r.day = d
      BY <2>3
    <3>2. HeldRowIsPending(s, r) /\ r # row
      BY <1>5, <1>9, <2>3, <3>1, InvFacts
    <3>3. rows'[d] = rows[d] /\ orders'[d] = orders[d]
      BY <1>8, <2>3
    <3>4. \A t \in Sweepers : \A q \in InHand(t)' : q.day = r.day => t = s /\ q = r
      BY <1>4, <1>5, <3>2 DEF HeldRowIsPending
    <3>5. HeldRowIsPending(s, r)'
      BY <1>5, <3>1, <3>2, <3>3, <3>4 DEF HeldRowIsPending
    <3> QED
      BY <1>5, <3>1, <3>5 DEF DayMoves
  <2> QED
    BY <2>1, <2>2, <2>3
<1>10. /\ \A r \in InHand(s)' : r.day <= today /\ r.day \notin Skipped
       /\ \A d \in Skipped : rows'[d] = rows[d]
  BY <1>5, <1>6, <1>8, InvFacts
<1> QED
  BY <1>3, <1>8, <1>9, <1>10, InvFacts, SweepMoves

LEMMA DropRowKeeps ==
    ASSUME SubsInv, NEW s \in Jobs, DropRow(s)
    PROVE  SubsInv'
<1>1. s \in Sweepers /\ job[s].phase \in AtOneRow
  BY SweepPhaseIsASweep DEF SubsInv, DropRow, SweepPhases, AtOneRow
<1> QED
  BY <1>1, RowDone, InvFacts DEF DropRow, ghosts

LEMMA OrderFailsKeeps ==
    ASSUME SubsInv, NEW s \in Jobs, OrderFails(s)
    PROVE  SubsInv'
<1>1. s \in Sweepers /\ job[s].phase \in AtOneRow
  BY SweepPhaseIsASweep DEF SubsInv, OrderFails, SweepPhases, AtOneRow
<1> QED
  BY <1>1, RowDone, InvFacts DEF OrderFails, ghosts

LEMMA RecordOrderKeeps ==
    ASSUME SubsInv, NEW s \in Jobs, RecordOrder(s)
    PROVE  SubsInv'
<1>1. s \in Sweepers /\ job[s].phase \in AtOneRow
  BY SweepPhaseIsASweep DEF SubsInv, RecordOrder, SweepPhases, AtOneRow
<1> QED
  BY <1>1, RowDone, InvFacts DEF RecordOrder, ghosts

LEMMA RecordFailsKeeps ==
    ASSUME SubsInv, NEW s \in Jobs, RecordFails(s)
    PROVE  SubsInv'
<1>1. s \in Sweepers /\ job[s].phase \in AtOneRow
  BY SweepPhaseIsASweep DEF SubsInv, RecordFails, SweepPhases, AtOneRow
<1>2. job[s].row.day \in Days
  BY <1>1 DEF SubsInv, Sound, StateIsSound, Jobs, Refs
<1>3. exposed' = exposed \cup {job[s].row.day}
  BY DEF RecordFails
<1>4. exposed \subseteq exposed' /\ exposed' \subseteq Days /\ job[s].row.day \in exposed'
  BY <1>2, <1>3, InvFacts
<1> QED
  BY <1>1, <1>4, RowDone DEF RecordFails

LEMMA CrashKeeps ==
    ASSUME SubsInv, NEW s \in Jobs, Crash(s)
    PROVE  SubsInv'
<1>1. /\ Become(s, Idle) /\ UNCHANGED <<rows, orders, today, declined, overtaken>>
      /\ exposed' = IF job[s].phase = "recording" THEN exposed \cup {job[s].row.day} ELSE exposed
  BY DEF Crash
<1>2. StateIsSound(s, Idle) /\ Idle.phase \notin SweepPhases
  BY GeneratingIsSound
<1>3. CASE job[s].phase \notin SweepPhases
  BY <1>1, <1>2, <1>3, JobStep DEF SweepPhases
<1>4. CASE job[s].phase \in SweepPhases
  <2>1. Sound /\ s \in Sweepers
    BY <1>4, SweepPhaseIsASweep DEF SubsInv
  <2>2. /\ job'[s] = Idle
        /\ \A t \in Sweepers \ {s} : InHand(t)' = InHand(t)
    BY <1>1, <1>2, <2>1, JobsStaySound, OtherHandsStay DEF Jobs
  <2>3. InHand(s)' = {}
    BY <1>2, <2>2, HandFactsPrime
  <2>4. job[s].phase \in AtOneRow => job[s].row.day \in Days
    BY <2>1 DEF Sound, StateIsSound, Refs
  <2>5. exposed \subseteq exposed' /\ exposed' \subseteq Days
    BY <1>1, <2>4, InvFacts DEF AtOneRow
  <2>6. ASSUME NEW d \in Days \ exposed'
        PROVE  DayMoves(s, d)
    <3>1. CASE \A r \in InHand(s) : r.day # d
      BY <1>1, <2>3, <3>1 DEF DayMoves
    <3>2. CASE \E r \in InHand(s) : r.day = d
      <4>1. PICK r \in InHand(s) : r.day = d
        BY <3>2
      <4>2. HeldRowIsPending(s, r)
        BY <2>1, <2>5, <2>6, <4>1, InvFacts
      <4>3. ~(job[s].phase = "recording" /\ job[s].row = r)
        BY <1>1, <2>6, <4>1
      <4>4. Settled(d)'
        BY <1>1, <4>1, <4>2, <4>3 DEF Settled, HeldRowIsPending
      <4>5. \A t \in Sweepers : \A q \in InHand(t)' : q.day # d
        BY <2>2, <2>3, <4>1, <4>2 DEF HeldRowIsPending
      <4> QED
        BY <4>4, <4>5 DEF DayMoves
    <3> QED
      BY <3>1, <3>2
  <2> QED
    BY <1>1, <1>2, <2>1, <2>3, <2>5, <2>6, InvFacts, SweepMoves
<1> QED
  BY <1>3, <1>4

-----------------------------------------------------------------------------
(* The invariant, and what it is for                                       *)

LEMMA InitKeeps ==
    ASSUME Init
    PROVE  SubsInv
<1>1. \A j \in Jobs : job[j] = Idle
  BY DEF Init
<1>2. \A s \in Sweepers : InHand(s) = {}
  <2> SUFFICES ASSUME NEW s \in Sweepers PROVE InHand(s) = {}
    OBVIOUS
  <2>1. job[s].phase \notin SweepPhases
    BY <1>1 DEF Jobs, Idle, SweepPhases
  <2> QED
    BY <2>1, HandFacts
<1>3. Sound
  <2>1. \A j \in Jobs : StateIsSound(j, job[j])
    BY <1>1, GeneratingIsSound
  <2>2. today \in 1..LastDay
    BY SubscriptionAssumption DEF Init
  <2>3. rows \in [Days -> RowTypes] /\ orders \in [Days -> Int]
    BY DEF Init, RowTypes, RowStatuses
  <2> QED
    BY <2>1, <2>2, <2>3 DEF Init, Sound
<1>4. HandsAreDue /\ SkipsStand /\ NothingIsEarly
  BY <1>2 DEF Init, HandsAreDue, SkipsStand, NothingIsEarly
<1>5. RowsAreRight
  BY <1>2 DEF Init, RowsAreRight, Settled
<1> QED
  BY <1>3, <1>4, <1>5 DEF SubsInv, OrdersInv

LEMMA StutterKeeps ==
    ASSUME SubsInv, UNCHANGED vars
    PROVE  SubsInv'
<1>1. UNCHANGED <<rows, orders, today, job, declined, overtaken, exposed>>
  BY DEF vars, ghosts
<1>2. Sound'
  BY <1>1 DEF SubsInv, Sound
<1>3. HandsStay
  BY <1>1, OtherHandsStay DEF HandsStay
<1>4. \A d \in Days \ exposed' : RowMoves(d)
  BY <1>1 DEF RowMoves
<1>5. today' \in Int /\ today' >= today
  BY <1>1, InvFacts
<1>6. OrdersInv'
  BY <1>1, <1>3, <1>4, <1>5, SkipsAreSkipped, RowsMove
<1> QED
  BY <1>2, <1>6 DEF SubsInv

LEMMA NextKeeps ==
    ASSUME SubsInv, Next
    PROVE  SubsInv'
<1>1. CASE \E j \in Requests : CreateSubscription(j) \/ ReadToDelete(j)
  BY <1>1, CreateSubscriptionKeeps, ReadToDeleteKeeps
<1>2. CASE \E j \in Requests, to \in Statuses : ReadToUpdate(j, to)
  BY <1>2, ReadToUpdateKeeps
<1>3. CASE \E j \in Requests, d \in Days, reason \in BOOLEAN : ReadToSkip(j, d, reason)
  BY <1>3, ReadToSkipKeeps
<1>4. CASE \E s \in Sweepers : SweepReads(s)
  BY <1>4, SweepReadsKeeps
<1>5. CASE \E j \in Jobs : Crash(j)
  BY <1>5, CrashKeeps
<1>6. CASE NextDay
  BY <1>6, NextDayKeeps
<1>7. ASSUME NEW j \in Jobs, Step(j)
      PROVE  SubsInv'
  <2>1. CASE InsertRows(j) \/ MarkGenerated(j)
    BY <2>1, InsertRowsKeeps, MarkGeneratedKeeps
  <2>2. CASE ClearPaused(j) \/ SaveSubscription(j) \/ CancelScheduled(j) \/ EndRows(j)
    BY <2>2, ClearPausedKeeps, SaveSubscriptionKeeps, CancelScheduledKeeps, EndRowsKeeps
  <2>3. CASE SaveSkip(j)
    BY <2>3, SaveSkipKeeps
  <2>4. CASE ListDue(j) \/ TakeNext(j) \/ DropRow(j) \/ PlaceOrder(j)
    BY <2>4, ListDueKeeps, TakeNextKeeps, DropRowKeeps, PlaceOrderKeeps
  <2>5. CASE OrderFails(j) \/ RecordOrder(j) \/ RecordFails(j)
    BY <2>5, OrderFailsKeeps, RecordOrderKeeps, RecordFailsKeeps
  <2> QED
    BY <1>7, <2>1, <2>2, <2>3, <2>4, <2>5 DEF Step
<1> QED
  BY <1>1, <1>2, <1>3, <1>4, <1>5, <1>6, <1>7 DEF Next

(***************************************************************************)
(* The invariant holds whatever the customer, the sweeps and the clock do. *)
(***************************************************************************)
THEOREM SubscriptionsStaySound == Spec => []SubsInv
<1>1. Init => SubsInv
  BY InitKeeps
<1>2. SubsInv /\ [Next]_vars => SubsInv'
  BY NextKeeps, StutterKeeps
<1> QED
  BY <1>1, <1>2, PTL DEF Spec

(***************************************************************************)
(* A day that the customer was told is skipped is never ordered, against   *)
(* every later pause, resume, generation and sweep (cancelOccurrence) -    *)
(* except the days whose skip was overtaken between its check and its save *)
(* by a pause or a deletion that cancelled the row, or by the start of the *)
(* day: of those the code promises more than it keeps.                     *)
(***************************************************************************)
THEOREM SkippedDaysAreNeverOrdered == Spec => []SkippedIsNotDelivered
<1>1. SubsInv => SkippedIsNotDelivered
  BY DEF SubsInv, OrdersInv, SkipsStand, SkippedIsNotDelivered
<1> QED
  BY <1>1, SubscriptionsStaySound, PTL

(***************************************************************************)
(* Once no sweep is at a delivery, its row says what became of it: one     *)
(* order, or none (placeDueSubscriptionOrders, on every day that is not    *)
(* exposed).                                                               *)
(***************************************************************************)
THEOREM TheRowsSayWhatWasOrdered == Spec => []RowsSayWhatWasOrdered
<1>1. SubsInv => RowsSayWhatWasOrdered
  BY DEF SubsInv, OrdersInv, RowsAreRight, Settled, RowsSayWhatWasOrdered
<1> QED
  BY <1>1, SubscriptionsStaySound, PTL

-----------------------------------------------------------------------------
(* Days                                                                    *)

(* A remainder is what is left over.                                       *)
LEMMA Remainder ==
    ASSUME NEW n \in Nat \ {0}, NEW q \in Nat, NEW r \in 0..(n - 1)
    PROVE  (n * q + r) % n = r
<1> DEFINE a == n * q + r
           p == a \div n
           s == a % n
<1>1. a \in Nat
  OBVIOUS
<1>2. p \in Int /\ s \in 0..(n - 1) /\ a = n * p + s
  BY <1>1
<1> HIDE DEF p, s
<1>3. n * q + r = n * p + s
  BY <1>2
<1>4. CASE q >= p + 1
  <2>1. n * q >= n * (p + 1)
    BY <1>2, <1>4
  <2> QED
    BY <1>2, <1>3, <2>1
<1>5. CASE p >= q + 1
  <2>1. n * p >= n * (q + 1)
    BY <1>2, <1>5
  <2> QED
    BY <1>2, <1>3, <2>1
<1>6. CASE p = q
  BY <1>2, <1>3, <1>6 DEF s
<1> QED
  BY <1>2, <1>4, <1>5, <1>6

(* In n days from any day on there is one with any given remainder.        *)
LEMMA EveryRemainderComes ==
    ASSUME NEW n \in Nat \ {0}, NEW from \in Nat, NEW r \in 0..(n - 1)
    PROVE  \E c \in from..(from + n - 1) : c % n = r
<1> DEFINE q == from \div n
           s == from % n
<1>1. q \in Int /\ s \in 0..(n - 1) /\ from = n * q + s
  OBVIOUS
<1> HIDE DEF q, s
<1>2. q \in Nat
  <2>1. SUFFICES ASSUME q <= -1 PROVE FALSE
    BY <1>1
  <2>2. n * q <= n * (-1)
    BY <1>1, <2>1
  <2> QED
    BY <1>1, <2>2
<1>3. CASE r >= s
  <2>1. n * q + r \in from..(from + n - 1)
    BY <1>1, <1>2, <1>3
  <2> QED
    BY <1>2, <2>1, Remainder
<1>4. CASE r < s
  <2>1. n * (q + 1) = n * q + n
    BY <1>2
  <2>2. n * (q + 1) + r \in from..(from + n - 1)
    BY <1>1, <1>2, <1>4, <2>1
  <2>3. q + 1 \in Nat
    BY <1>2
  <2>4. (n * (q + 1) + r) % n = r
    BY <2>3, Remainder
  <2> QED
    BY <2>2, <2>4
<1>5. r >= s \/ r < s
  BY <1>1
<1> QED
  BY <1>3, <1>4, <1>5

LEMMA LeastIsThere ==
    ASSUME NEW S \in SUBSET Nat, S # {}
    PROVE  Min(S) \in S /\ \A y \in S : Min(S) <= y
<1>1. PICK x \in S : \A y \in S : <<y, x>> \notin OpToRel(<, Nat)
  BY NatLessThanWellFounded, WFMin, Zenon
<1>2. \A y \in S : x <= y
  <2>1. \A y \in S : <<y, x>> \in Nat \X Nat /\ <<y, x>>[1] = y /\ <<y, x>>[2] = x
    OBVIOUS
  <2>2. \A y \in S : ~(y < x)
    BY <1>1, <2>1 DEF OpToRel
  <2> QED
    BY <2>2
<1>3. Min(S) = CHOOSE z \in S : \A y \in S : z <= y
  BY DEF Min
<1> QED
  BY <1>2, <1>3, Zenon

LEMMA GreatestIsThere ==
    ASSUME NEW h \in Nat, NEW S \in SUBSET (0..h), S # {}
    PROVE  Max(S) \in S /\ \A y \in S : y <= Max(S)
<1> DEFINE T == {h - x : x \in S}
<1>1. T \in SUBSET Nat /\ T # {}
  <2>1. \A x \in S : h - x \in Nat
    OBVIOUS
  <2> QED
    BY <2>1
<1>2. PICK x \in S : h - x = Min(T)
  BY <1>1, LeastIsThere
<1>3. \A y \in S : h - x <= h - y
  BY <1>1, <1>2, LeastIsThere
<1>4. \A y \in S : x >= y
  BY <1>3
<1>5. Max(S) = CHOOSE z \in S : \A y \in S : z >= y
  BY DEF Max
<1>6. Max(S) \in S /\ \A y \in S : Max(S) >= y
  BY <1>4, <1>5, Zenon
<1> QED
  BY <1>6

-----------------------------------------------------------------------------
(* The rule                                                                *)

OnRule(d) == d >= StartDate /\ RuleDay(d)

(* Which subscriptions keep to their rule: a month later may be off it,    *)
(* and so may the day after a resumption, before a start yet to come.      *)
KeepsTheRule == Frequency = "weekly" \/ (Frequency = "daily" /\ StartDate <= 2)

LEMMA TheFirstIsTheNext ==
    ASSUME NEW d \in Nat
    PROVE  /\ NextOnOrAfter(d) \in Nat /\ NextOnOrAfter(d) >= d
           /\ OnRule(NextOnOrAfter(d))
           /\ \A e \in Nat : e >= d /\ OnRule(e) => e >= NextOnOrAfter(d)
<1> DEFINE from == IF d < StartDate THEN StartDate ELSE d
<1>1. /\ StartDate \in Nat /\ from \in Nat /\ from >= d /\ from >= StartDate
      /\ \A e \in Nat : e >= d /\ e >= StartDate => e >= from
      /\ Week \in Nat \ {0} /\ Month \in Nat \ {0} /\ DayOfMonth \in 0..(Month - 1)
      /\ DaysOfWeek \subseteq 0..(Week - 1) /\ DaysOfWeek # {}
      /\ Frequency \in {"daily", "weekly", "monthly"}
  BY SubscriptionAssumption DEF SubscriptionAssumption
<1> DEFINE weekdays == {c \in from..(from + Week - 1) : c % Week \in DaysOfWeek}
           monthdays == {c \in from..(from + Month - 1) : c % Month = DayOfMonth}
<1>2. NextOnOrAfter(d) = CASE Frequency = "daily"   -> from
                           [] Frequency = "weekly"  -> Min(weekdays)
                           [] Frequency = "monthly" -> Min(monthdays)
  BY DEF NextOnOrAfter
<1> HIDE DEF from
<1>3. CASE Frequency = "daily"
  BY <1>1, <1>2, <1>3 DEF OnRule, RuleDay
<1>4. CASE Frequency = "weekly"
  <2>1. weekdays \in SUBSET Nat /\ weekdays # {}
    <3>1. PICK r \in DaysOfWeek : r \in 0..(Week - 1)
      BY <1>1
    <3>2. \E c \in from..(from + Week - 1) : c % Week = r
      BY <1>1, <3>1, EveryRemainderComes
    <3>3. weekdays # {}
      BY <3>1, <3>2
    <3>4. \A c \in from..(from + Week - 1) : c \in Nat
      BY <1>1
    <3> QED
      BY <3>3, <3>4
  <2>2. Min(weekdays) \in weekdays /\ \A y \in weekdays : Min(weekdays) <= y
    BY <2>1, LeastIsThere
  <2>3. NextOnOrAfter(d) = Min(weekdays)
    BY <1>2, <1>4
  <2> DEFINE m == Min(weekdays)
  <2> HIDE DEF m
  <2>4. m \in from..(from + Week - 1) /\ m % Week \in DaysOfWeek /\ \A y \in weekdays : m <= y
    BY <2>2 DEF m
  <2>5. ASSUME NEW e \in Nat, e >= from, e % Week \in DaysOfWeek
        PROVE  e >= m
    <3>1. CASE e <= from + Week - 1
      <4>1. e \in weekdays
        BY <1>1, <2>5, <3>1
      <4> QED
        BY <1>1, <2>4, <4>1
    <3>2. CASE e > from + Week - 1
      BY <1>1, <2>4, <3>2
    <3> QED
      BY <1>1, <3>1, <3>2
  <2>6. m \in Nat /\ m >= from
    BY <1>1, <2>4
  <2>7. OnRule(m)
    BY <1>1, <1>4, <2>4, <2>6 DEF OnRule, RuleDay
  <2>8. \A e \in Nat : e >= d /\ OnRule(e) => e >= m
    BY <1>1, <1>4, <2>5 DEF OnRule, RuleDay
  <2> QED
    BY <1>1, <2>3, <2>6, <2>7, <2>8 DEF m
<1>5. CASE Frequency = "monthly"
  <2>1. monthdays \in SUBSET Nat /\ monthdays # {}
    <3>1. monthdays # {}
      BY <1>1, EveryRemainderComes
    <3>2. \A c \in from..(from + Month - 1) : c \in Nat
      BY <1>1
    <3> QED
      BY <3>1, <3>2
  <2>2. Min(monthdays) \in monthdays /\ \A y \in monthdays : Min(monthdays) <= y
    BY <2>1, LeastIsThere
  <2>3. NextOnOrAfter(d) = Min(monthdays)
    BY <1>2, <1>5
  <2> DEFINE m == Min(monthdays)
  <2> HIDE DEF m
  <2>4. m \in from..(from + Month - 1) /\ m % Month = DayOfMonth /\ \A y \in monthdays : m <= y
    BY <2>2 DEF m
  <2>5. ASSUME NEW e \in Nat, e >= from, e % Month = DayOfMonth
        PROVE  e >= m
    <3>1. CASE e <= from + Month - 1
      <4>1. e \in monthdays
        BY <1>1, <2>5, <3>1
      <4> QED
        BY <1>1, <2>4, <4>1
    <3>2. CASE e > from + Month - 1
      BY <1>1, <2>4, <3>2
    <3> QED
      BY <1>1, <3>1, <3>2
  <2>6. m \in Nat /\ m >= from
    BY <1>1, <2>4
  <2>7. OnRule(m)
    BY <1>1, <1>5, <2>4, <2>6 DEF OnRule, RuleDay
  <2>8. \A e \in Nat : e >= d /\ OnRule(e) => e >= m
    BY <1>1, <1>5, <2>5 DEF OnRule, RuleDay
  <2> QED
    BY <1>1, <2>3, <2>6, <2>7, <2>8 DEF m
<1> QED
  BY <1>1, <1>3, <1>4, <1>5

LEMMA TheNextIsLater ==
    ASSUME NEW d \in Nat
    PROVE  /\ StepToNext(d) \in Nat /\ StepToNext(d) > d
           /\ KeepsTheRule /\ d # 0 => OnRule(StepToNext(d))
           /\ Frequency # "monthly" => \A e \in Nat : e > d /\ OnRule(e) => e >= StepToNext(d)
<1>1. Month \in Nat \ {0} /\ Frequency \in {"daily", "weekly", "monthly"} /\ StartDate \in Nat
  BY SubscriptionAssumption DEF SubscriptionAssumption
<1>2. CASE Frequency = "daily"
  BY <1>1, <1>2 DEF StepToNext, KeepsTheRule, OnRule, RuleDay
<1>3. CASE Frequency = "weekly"
  <2> DEFINE n == NextOnOrAfter(d + 1)
  <2>1. /\ n \in Nat /\ n >= d + 1 /\ OnRule(n)
        /\ \A e \in Nat : e >= d + 1 /\ OnRule(e) => e >= n
    BY TheFirstIsTheNext
  <2>2. StepToNext(d) = n
    BY <1>3 DEF StepToNext
  <2> HIDE DEF n
  <2> QED
    BY <2>1, <2>2
<1>4. CASE Frequency = "monthly"
  BY <1>1, <1>4 DEF StepToNext, KeepsTheRule
<1> QED
  BY <1>1, <1>2, <1>3, <1>4

-----------------------------------------------------------------------------
(* The days that are written: a recursive function on the naturals.  It    *)
(* exists, because what it should be can be said without recursion: the    *)
(* days up to the horizon that every set has which holds the first one,    *)
(* and with a day up to the horizon the next.                              *)

GoesOn(T, horizon) == \A y \in T : y <= horizon => StepToNext(y) \in T

Reached(d, horizon) ==
    {x \in 0..horizon : \A T \in SUBSET Nat : d \in T /\ GoesOn(T, horizon) => x \in T}

LEMMA ReachedIsRecursive ==
    ASSUME NEW horizon \in Nat, NEW d \in Nat
    PROVE  Reached(d, horizon) = IF d > horizon THEN {} ELSE {d} \cup Reached(StepToNext(d), horizon)
<1>1. StepToNext(d) \in Nat
  BY TheNextIsLater
<1>2. CASE d > horizon
  <2>1. {d} \in SUBSET Nat /\ GoesOn({d}, horizon)
    BY <1>2 DEF GoesOn
  <2>2. ASSUME NEW x \in Reached(d, horizon) PROVE FALSE
    <3>1. x \in 0..horizon /\ x \in {d}
      BY <2>1, <2>2 DEF Reached
    <3> QED
      BY <1>2, <3>1
  <2> QED
    BY <1>2, <2>2
<1>3. CASE ~(d > horizon)
  <2>1. d \in 0..horizon
    BY <1>3
  <2>2. ASSUME NEW x \in Reached(d, horizon), x # d
        PROVE  x \in Reached(StepToNext(d), horizon)
    <3>1. SUFFICES ASSUME NEW T \in SUBSET Nat, StepToNext(d) \in T, GoesOn(T, horizon)
                   PROVE  x \in T
      BY <2>2 DEF Reached
    <3>2. T \cup {d} \in SUBSET Nat /\ GoesOn(T \cup {d}, horizon)
      BY <3>1 DEF GoesOn
    <3>3. x \in T \cup {d}
      BY <2>2, <3>2 DEF Reached
    <3> QED
      BY <2>2, <3>3
  <2>3. d \in Reached(d, horizon)
    BY <2>1 DEF Reached
  <2>4. ASSUME NEW x \in Reached(StepToNext(d), horizon)
        PROVE  x \in Reached(d, horizon)
    <3>1. SUFFICES ASSUME NEW T \in SUBSET Nat, d \in T, GoesOn(T, horizon)
                   PROVE  x \in T
      BY <2>4 DEF Reached
    <3>2. StepToNext(d) \in T
      BY <1>3, <3>1 DEF GoesOn
    <3> QED
      BY <2>4, <3>1, <3>2 DEF Reached
  <2> QED
    BY <1>3, <2>2, <2>3, <2>4
<1> QED
  BY <1>2, <1>3

FirstToWrite(until) == IF until = 0 THEN NextOnOrAfter(StartDate) ELSE StepToNext(until)

(* So the generator writes what such a function has at the first day.      *)
LEMMA UpcomingIsRecursive ==
    ASSUME NEW until \in Nat, NEW horizon \in Nat
    PROVE  \E From : /\ \A d \in Nat : From[d] = IF d > horizon THEN {} ELSE {d} \cup From[StepToNext(d)]
                     /\ Upcoming(until, horizon) = From[FirstToWrite(until)]
<1> DEFINE IsFrom(g) == g = [d \in Nat |-> IF d > horizon THEN {} ELSE {d} \cup g[StepToNext(d)]]
           From == CHOOSE g : IsFrom(g)
           W == [d \in Nat |-> Reached(d, horizon)]
<1>1. IsFrom(W)
  <2>1. \A d \in Nat : StepToNext(d) \in Nat
    BY TheNextIsLater
  <2>2. \A d \in Nat : W[StepToNext(d)] = Reached(StepToNext(d), horizon)
    BY <2>1
  <2> QED
    BY <2>2, ReachedIsRecursive
<1>2. IsFrom(From)
  BY <1>1, Zenon
<1>3. Upcoming(until, horizon) = From[FirstToWrite(until)]
  BY DEF Upcoming, FirstToWrite
<1> HIDE DEF From
<1> QED
  BY <1>2, <1>3

(* What is written: days after the last one written and up to the horizon, *)
(* on the rule if it is kept, and all the days of the rule unless it is a  *)
(* monthly one.  The proofs are by a last day that has not the property.   *)
LEMMA UpcomingIs ==
    ASSUME NEW until \in Nat, NEW horizon \in Nat
    PROVE  /\ Upcoming(until, horizon) \subseteq 1..horizon
           /\ KeepsTheRule => \A d \in Upcoming(until, horizon) : OnRule(d)
           /\ Frequency # "monthly" =>
                 \A d \in 1..horizon : d > until /\ OnRule(d) => d \in Upcoming(until, horizon)
<1> DEFINE first == FirstToWrite(until)
<1>1. PICK From : /\ \A d \in Nat : From[d] = IF d > horizon THEN {} ELSE {d} \cup From[StepToNext(d)]
                  /\ Upcoming(until, horizon) = From[first]
  BY UpcomingIsRecursive
<1>2. StartDate \in Nat \ {0}
  BY SubscriptionAssumption DEF SubscriptionAssumption
<1>3. /\ first \in Nat \ {0}
      /\ KeepsTheRule => OnRule(first)
      /\ Frequency # "monthly" => \A e \in Nat : e > until /\ OnRule(e) => e >= first
  <2>1. CASE until = 0
    <3>1. first = NextOnOrAfter(StartDate)
      BY <2>1 DEF FirstToWrite
    <3>2. \A e \in Nat : OnRule(e) => e >= StartDate
      BY DEF OnRule
    <3> HIDE DEF first
    <3> QED
      BY <1>2, <3>1, <3>2, TheFirstIsTheNext
  <2>2. CASE until # 0
    <3>1. first = StepToNext(until)
      BY <2>2 DEF FirstToWrite
    <3> HIDE DEF first
    <3> QED
      BY <2>2, <3>1, TheNextIsLater
  <2> QED
    BY <2>1, <2>2
<1> HIDE DEF first
<1> DEFINE Right(d) == /\ From[d] \subseteq d..horizon
                       /\ KeepsTheRule /\ OnRule(d) => \A e \in From[d] : OnRule(e)
                       /\ Frequency # "monthly" =>
                             \A e \in d..horizon : OnRule(e) /\ (d = e \/ e >= StepToNext(d)) => e \in From[d]
<1> HIDE DEF Right
<1>4. ASSUME NEW d \in Nat, d > horizon PROVE Right(d)
  <2>1. From[d] = {}
    BY <1>1, <1>4
  <2>2. d..horizon = {}
    BY <1>4
  <2> QED
    BY <2>1, <2>2 DEF Right
<1>5. ASSUME NEW d \in Nat, d <= horizon, Right(StepToNext(d)) PROVE Right(d)
  <2> DEFINE n == StepToNext(d)
  <2>1. n \in Nat /\ n > d /\ (KeepsTheRule /\ OnRule(d) => OnRule(n))
    <3>1. OnRule(d) => d # 0
      BY <1>2 DEF OnRule
    <3> QED
      BY <3>1, TheNextIsLater
  <2>2. From[d] = {d} \cup From[n]
    <3>1. ~(d > horizon)
      BY <1>5
    <3> QED
      BY <1>1, <3>1
  <2>3. \A e \in Nat : e > n => (Frequency # "monthly" /\ OnRule(e) => e >= StepToNext(n))
    BY <2>1, TheNextIsLater
  <2> HIDE DEF n
  <2>4. From[n] \subseteq n..horizon
    BY <1>5 DEF Right, n
  <2>5. From[d] \subseteq d..horizon
    BY <1>5, <2>1, <2>2, <2>4
  <2>6. KeepsTheRule /\ OnRule(d) => \A e \in From[d] : OnRule(e)
    BY <1>5, <2>1, <2>2 DEF Right, n
  <2>7. ASSUME Frequency # "monthly", NEW e \in d..horizon, OnRule(e), d = e \/ e >= StepToNext(d)
        PROVE  e \in From[d]
    <3>1. CASE d = e
      BY <2>2, <3>1
    <3>2. CASE e >= n
      <4>1. e \in n..horizon /\ e \in Nat /\ (n = e \/ e > n)
        BY <1>5, <2>1, <2>7, <3>2
      <4>2. n = e \/ e >= StepToNext(n)
        BY <2>3, <2>7, <4>1
      <4>3. e \in From[n]
        BY <1>5, <2>7, <4>1, <4>2 DEF Right, n
      <4> QED
        BY <2>2, <4>3
    <3> QED
      BY <2>7, <3>1, <3>2 DEF n
  <2> QED
    BY <2>5, <2>6, <2>7 DEF Right
<1>6. \A d \in Nat : Right(d)
  <2> DEFINE Bad == {d \in 0..horizon : ~Right(d)}
  <2>1. SUFFICES ASSUME Bad # {} PROVE FALSE
    BY <1>4
  <2>2. PICK d \in Bad : \A e \in Bad : e <= d
    BY <2>1, GreatestIsThere
  <2>3. StepToNext(d) \in Nat /\ StepToNext(d) > d
    BY TheNextIsLater
  <2>4. Right(StepToNext(d))
    BY <1>4, <2>2, <2>3
  <2> QED
    BY <1>5, <2>2, <2>4
<1>7. Right(first)
  BY <1>3, <1>6
<1>8. From[first] \subseteq 1..horizon
  BY <1>3, <1>7 DEF Right
<1>9. KeepsTheRule => \A d \in From[first] : OnRule(d)
  BY <1>3, <1>7 DEF Right
<1>10. ASSUME Frequency # "monthly", NEW d \in 1..horizon, d > until, OnRule(d)
       PROVE  d \in From[first]
  <2>1. d >= first
    BY <1>3, <1>10
  <2>2. d = first \/ d >= StepToNext(first)
    BY <1>3, <1>10, <2>1, TheNextIsLater
  <2> QED
    BY <1>3, <1>7, <1>10, <2>1, <2>2 DEF Right
<1> QED
  BY <1>1, <1>8, <1>9, <1>10

-----------------------------------------------------------------------------
(* Types                                                                   *)

RowStates == [Days -> [status : RowStatuses, id : 0..MaxStarts]]

Clearing == {j \in Requests : job[j].phase = "clearing"}

(* Before there is a subscription there is nothing else.                   *)
Fresh ==
    sub = NoSub => /\ \A j \in Jobs : job[j] = Idle
                   /\ \A d \in Days : rows[d].status = "none"

(* A day's row is replaced at most once for each request.                  *)
RowsAreNumbered == \A d \in Days : rows[d].id + Cardinality(Clearing) <= starts

SomeIsNew == \A j \in Jobs : job[j].phase = "generating" => job[j].new # {}

TypeInv == TypeOK /\ Fresh /\ RowsAreNumbered /\ SomeIsNew

LEMMA Numbers ==
    /\ {StartDate, Horizon, LastDay, Week, Month} \subseteq Nat \ {0}
    /\ {MaxStarts, MaxCrashes} \subseteq Nat
    /\ Days = 1..(LastDay + Horizon)
    /\ Requests \cap Sweepers = {} /\ IsFiniteSet(Requests)
BY SubscriptionAssumption DEF SubscriptionAssumption, Days

LEMMA JobFacts ==
    ASSUME NEW h \in JobStates \cup {Idle}
    PROVE  /\ h.phase \in {"clearing", "deleting"} => h.copy \in Subs /\ h.since \in Days
           /\ h.phase = "saving" =>
                 h.copy \in Subs /\ h.new \in Subs /\ h.after \in {"generate", "cancel", "nothing"}
           /\ h.phase = "cancelling" => h.as \in {"paused", "ended"}
           /\ h.phase = "skipping" => h.row \in RowRefs
           /\ h.phase = "generating" => h.new \subseteq Days
           /\ h.phase = "marking" => h.until \in Days
           /\ h.phase = "placing" => h.due \subseteq RowRefs
           /\ h.phase \in AtOneRow => h.row \in RowRefs /\ h.due \subseteq RowRefs
           /\ h.phase = "idle" => h = Idle
BY DEF JobStates, Idle, AtOneRow

LEMMA JobsAre ==
    /\ \A c \in Subs, d \in Days : /\ [phase |-> "clearing", copy |-> c, since |-> d] \in JobStates
                                   /\ [phase |-> "deleting", copy |-> c, since |-> d] \in JobStates
    /\ \A c, n \in Subs, a \in {"generate", "cancel", "nothing"} :
          [phase |-> "saving", copy |-> c, new |-> n, after |-> a] \in JobStates
    /\ \A a \in {"paused", "ended"} : [phase |-> "cancelling", as |-> a] \in JobStates
    /\ \A r \in RowRefs, b \in BOOLEAN : [phase |-> "skipping", row |-> r, reason |-> b] \in JobStates
    /\ \A S \in SUBSET Days : [phase |-> "generating", new |-> S] \in JobStates
    /\ \A d \in Days : [phase |-> "marking", until |-> d] \in JobStates
    /\ [phase |-> "listing"] \in JobStates
    /\ \A S \in SUBSET RowRefs : [phase |-> "placing", due |-> S] \in JobStates
    /\ \A p \in AtOneRow, r \in RowRefs, S \in SUBSET RowRefs :
          [phase |-> p, row |-> r, due |-> S] \in JobStates
BY DEF JobStates, AtOneRow

LEMMA SubTypes ==
    /\ NoSub \notin Subs
    /\ \A s \in Subs : s.status \in Statuses /\ s.until \in 0..(LastDay + Horizon) /\ s.until \in Nat
    /\ \A s \in Statuses, u \in 0..(LastDay + Horizon) : [status |-> s, until |-> u] \in Subs
    /\ \A c \in Subs, s \in Statuses : [c EXCEPT !.status = s] = [status |-> s, until |-> c.until]
    /\ \A c \in Subs, u \in Days : [c EXCEPT !.until = u] = [status |-> c.status, until |-> u]
BY Numbers DEF Subs, NoSub, Statuses

LEMMA WhoWorksHasOne ==
    ASSUME TypeInv, NEW j \in Jobs, job[j].phase # "idle"
    PROVE  sub \in Subs
BY DEF TypeInv, TypeOK, Fresh, Idle

-----------------------------------------------------------------------------
LEMMA TypeStep ==
    ASSUME TypeInv, NEW j \in Jobs, NEW h \in JobStates \cup {Idle}, Become(j, h),
           h.phase = "generating" => h.new # {},
           sub' \in Subs, rows' \in RowStates, orders' \in [Days -> Nat], today' \in 1..LastDay,
           starts' \in 0..MaxStarts, crashes' \in 0..MaxCrashes, declined' \subseteq Days,
           overtaken' \subseteq Days, irregular' \in BOOLEAN, exposed' \subseteq Days, RowsAreNumbered'
    PROVE  TypeInv'
<1>1. /\ job' \in [Jobs -> JobStates \cup {Idle}]
      /\ job'[j] = h /\ \A k \in Jobs \ {j} : job'[k] = job[k]
  BY DEF TypeInv, TypeOK, Become
<1>2. TypeOK'
  BY <1>1 DEF TypeOK, RowStates
<1>3. Fresh'
  BY SubTypes DEF Fresh
<1>4. SomeIsNew'
  BY <1>1 DEF TypeInv, SomeIsNew
<1> QED
  BY <1>2, <1>3, <1>4 DEF TypeInv

LEMMA ClearingCounts ==
    /\ IsFiniteSet(Clearing) /\ Cardinality(Clearing) \in Nat
    /\ \A T \in SUBSET Clearing : Cardinality(T) \in Nat /\ Cardinality(T) <= Cardinality(Clearing)
    /\ \A j \in Clearing : Cardinality(Clearing \ {j}) = Cardinality(Clearing) - 1
    /\ \A j : \A T \in SUBSET (Clearing \cup {j}) :
          Cardinality(T) \in Nat /\ Cardinality(T) <= Cardinality(Clearing) + 1
<1>1. IsFiniteSet(Clearing) /\ Clearing \subseteq Requests
  BY Numbers, FS_Subset DEF Clearing
<1> DEFINE C == Clearing
<1>2. IsFiniteSet(C)
  BY <1>1
<1> HIDE DEF C
<1>3. Cardinality(C) \in Nat
  BY <1>2, FS_CardinalityType
<1>4. ASSUME NEW T \in SUBSET C PROVE Cardinality(T) \in Nat /\ Cardinality(T) <= Cardinality(C)
  BY <1>2, FS_Subset, FS_CardinalityType
<1>5. ASSUME NEW j \in C PROVE Cardinality(C \ {j}) = Cardinality(C) - 1
  BY <1>2, FS_RemoveElement
<1>6. ASSUME NEW j, NEW T \in SUBSET (C \cup {j})
      PROVE  Cardinality(T) \in Nat /\ Cardinality(T) <= Cardinality(C) + 1
  <2>1. /\ IsFiniteSet(C \cup {j}) /\ Cardinality(C \cup {j}) <= Cardinality(C) + 1
    BY <1>2, <1>3, FS_AddElement
  <2>2. Cardinality(T) \in Nat /\ Cardinality(T) <= Cardinality(C \cup {j})
    BY <2>1, FS_Subset, FS_CardinalityType
  <2>3. Cardinality(C \cup {j}) \in Nat
    BY <2>1, FS_CardinalityType
  <2> QED
    BY <1>3, <2>1, <2>2, <2>3
<1> QED
  BY <1>2, <1>3, <1>4, <1>5, <1>6 DEF C

(* A step that starts no clearing leaves the numbers.                      *)
LEMMA NumbersStay ==
    ASSUME TypeInv, NEW j \in Jobs, NEW h, Become(j, h), h.phase # "clearing",
           starts' \in Int, starts' >= starts,
           \A d \in Days : rows'[d].id = rows[d].id
    PROVE  RowsAreNumbered'
<1>1. job'[j] = h /\ \A k \in Jobs \ {j} : job'[k] = job[k]
  BY DEF TypeInv, TypeOK, Become
<1>2. Clearing' \in SUBSET Clearing
  BY <1>1 DEF Clearing, Jobs
<1> DEFINE n == Cardinality(Clearing)
           m == Cardinality(Clearing')
<1>3. m \in Nat /\ n \in Nat /\ m <= n
  BY <1>2, ClearingCounts
<1>4. starts \in Int /\ \A d \in Days : rows[d].id \in Int
  BY Numbers DEF TypeInv, TypeOK
<1>5. \A d \in Days : rows[d].id + n <= starts
  BY DEF TypeInv, RowsAreNumbered
<1> HIDE DEF n, m
<1>6. \A d \in Days : rows'[d].id + m <= starts'
  BY <1>3, <1>4, <1>5
<1> QED
  BY <1>6 DEF RowsAreNumbered, m

-----------------------------------------------------------------------------
(* Every step keeps the types                                              *)

LEMMA GeneratingHasType ==
    ASSUME TypeInv, NEW j \in Jobs, NEW u \in Nat
    PROVE  /\ Generating(j, u) \in JobStates \cup {Idle}
           /\ Generating(j, u).phase = "generating" =>
                 /\ Generating(j, u).new # {}
                 /\ Generating(j, u).new = Upcoming(u, today + Horizon)
           /\ Generating(j, u).phase \in {"generating", "listing", "idle"}
           /\ Generated(j) \in JobStates \cup {Idle}
           /\ Generated(j).phase \in {"listing", "idle"}
           /\ Upcoming(u, today + Horizon) \subseteq 1..(today + Horizon)
           /\ Upcoming(u, today + Horizon) # {} =>
                 Generating(j, u) = [phase |-> "generating", new |-> Upcoming(u, today + Horizon)]
           /\ Upcoming(u, today + Horizon) = {} => Generating(j, u) = Generated(j)
<1> DEFINE new == Upcoming(u, today + Horizon)
<1>1. /\ today + Horizon \in Nat
      /\ 1..(today + Horizon) \subseteq Days
  BY Numbers DEF TypeInv, TypeOK
<1>2. new \subseteq 1..(today + Horizon)
  BY <1>1, UpcomingIs
<1>3. Generating(j, u) = IF new = {} THEN Generated(j) ELSE [phase |-> "generating", new |-> new]
  BY DEF Generating
<1> HIDE DEF new
<1>4. Generated(j) \in JobStates \cup {Idle} /\ Generated(j).phase \in {"listing", "idle"}
  BY JobsAre DEF Generated, Idle
<1>5. new \in SUBSET Days
  BY <1>1, <1>2
<1>6. new # {} => [phase |-> "generating", new |-> new] \in JobStates
  BY <1>5, JobsAre
<1>7. CASE new = {}
  BY <1>2, <1>3, <1>4, <1>7 DEF new
<1>8. CASE new # {}
  BY <1>2, <1>3, <1>4, <1>6, <1>8 DEF new
<1> QED
  BY <1>7, <1>8

LEMMA CreateSubscriptionKeepsTypes ==
    ASSUME TypeInv, NEW j \in Requests, CreateSubscription(j)
    PROVE  TypeInv'
<1>1. /\ Become(j, Generating(j, 0)) /\ sub' = [status |-> "active", until |-> 0]
      /\ UNCHANGED <<rows, orders, today, starts, crashes, declined, overtaken, irregular, exposed>>
  BY DEF CreateSubscription, ghosts
<1>2. sub' \in Subs
  <2>1. "active" \in Statuses /\ 0 \in 0..(LastDay + Horizon)
    BY Numbers DEF Statuses
  <2> QED
    BY <1>1, <2>1, SubTypes
<1>3. j \in Jobs
  BY DEF Jobs
<1>4. RowsAreNumbered'
  BY <1>1, <1>3, GeneratingHasType, NumbersStay DEF TypeInv, TypeOK
<1> QED
  BY <1>1, <1>2, <1>3, <1>4, GeneratingHasType, TypeStep DEF TypeInv, TypeOK, RowStates

(* Steps that change none of the counts but the starts.                    *)
LEMMA RowsChangeTypes ==
    ASSUME TypeInv, NEW j \in Jobs, NEW h \in JobStates \cup {Idle}, Become(j, h),
           h.phase = "generating" => h.new # {}, h.phase # "clearing",
           sub' \in Subs, rows' \in RowStates, \A d \in Days : rows'[d].id = rows[d].id,
           orders' \in [Days -> Nat], starts' \in 0..MaxStarts, starts' >= starts,
           declined' \subseteq Days, overtaken' \subseteq Days,
           irregular' \in BOOLEAN, exposed' \subseteq Days,
           UNCHANGED <<today, crashes>>
    PROVE  TypeInv'
<1>1. RowsAreNumbered'
  BY NumbersStay
<1> QED
  BY <1>1, TypeStep DEF TypeInv, TypeOK

(* What a step leaves alone keeps its type.                                *)
LEMMA OthersStay ==
    ASSUME TypeInv
    PROVE  /\ rows' = rows => rows' \in RowStates /\ \A d \in Days : rows'[d].id = rows[d].id
           /\ orders' = orders => orders' \in [Days -> Nat]
           /\ starts' = starts => starts' \in 0..MaxStarts /\ starts' >= starts
           /\ declined' = declined => declined' \subseteq Days
           /\ overtaken' = overtaken => overtaken' \subseteq Days
           /\ irregular' = irregular => irregular' \in BOOLEAN
           /\ exposed' = exposed => exposed' \subseteq Days
<1>1. starts \in 0..MaxStarts /\ MaxStarts \in Nat
  BY Numbers DEF TypeInv, TypeOK
<1>2. starts' = starts => starts' \in 0..MaxStarts /\ starts' >= starts
  BY <1>1
<1> QED
  BY <1>2 DEF TypeInv, TypeOK, RowStates

LEMMA InsertRowsKeepsTypes ==
    ASSUME TypeInv, NEW j \in Jobs, InsertRows(j)
    PROVE  TypeInv'
<1> DEFINE new == job[j].new
           h == [phase |-> "marking", until |-> Max(new)]
<1>1. /\ Become(j, h) /\ job[j].phase = "generating"
      /\ rows' = [d \in Days |-> IF d \in new /\ rows[d].status = "none"
                                 THEN [rows[d] EXCEPT !.status = "scheduled"]
                                 ELSE rows[d]]
      /\ UNCHANGED <<sub, orders, today, starts, crashes, declined, overtaken, irregular, exposed>>
  BY DEF InsertRows, ghosts
<1>2. job[j] \in JobStates \cup {Idle}
  BY DEF TypeInv, TypeOK
<1>3. new \subseteq Days /\ new # {}
  BY <1>1, <1>2, JobFacts DEF TypeInv, SomeIsNew
<1>4. Max(new) \in Days
  <2>1. new \in SUBSET (0..(LastDay + Horizon)) /\ LastDay + Horizon \in Nat
    BY <1>3, Numbers
  <2> HIDE DEF new
  <2>2. Max(new) \in new
    BY <1>3, <2>1, GreatestIsThere
  <2> QED
    BY <1>3, <2>2
<1>5. h \in JobStates
  BY <1>4, JobsAre
<1>6. rows' \in RowStates /\ \A d \in Days : rows'[d].id = rows[d].id
  <2>1. rows \in RowStates
    BY DEF TypeInv, TypeOK, RowStates
  <2> HIDE DEF new
  <2>2. "scheduled" \in RowStatuses
    BY DEF RowStatuses
  <2> QED
    BY <1>1, <2>1, <2>2 DEF RowStates
<1>7. sub \in Subs
  BY <1>1, WhoWorksHasOne
<1>8. h.phase = "marking"
  OBVIOUS
<1> HIDE DEF h
<1> QED
  BY <1>1, <1>5, <1>6, <1>7, <1>8, OthersStay, RowsChangeTypes

LEMMA MarkGeneratedKeepsTypes ==
    ASSUME TypeInv, NEW j \in Jobs, MarkGenerated(j)
    PROVE  TypeInv'
<1>1. /\ Become(j, Generated(j)) /\ job[j].phase = "marking"
      /\ sub' = [sub EXCEPT !.until = job[j].until]
      /\ UNCHANGED <<rows, orders, today, starts, crashes, declined, overtaken, irregular, exposed>>
  BY DEF MarkGenerated, ghosts
<1>2. job[j] \in JobStates \cup {Idle}
  BY DEF TypeInv, TypeOK
<1>3. job[j].until \in Days /\ sub \in Subs
  BY <1>1, <1>2, JobFacts, WhoWorksHasOne
<1>4. job[j].until \in 0..(LastDay + Horizon)
  BY <1>3, Numbers
<1>5. sub' = [status |-> sub.status, until |-> job[j].until]
  BY <1>1, <1>3, SubTypes
<1>6. sub' \in Subs
  BY <1>3, <1>4, <1>5, SubTypes
<1>7. 0 \in Nat
  OBVIOUS
<1> QED
  BY <1>1, <1>6, <1>7, OthersStay, GeneratingHasType, RowsChangeTypes

(* A request that begins.                                                  *)
LEMMA StartsFacts ==
    ASSUME TypeInv, NEW j \in Requests, Start(j)
    PROVE  /\ j \in Jobs /\ job[j] = Idle
           /\ starts' = starts + 1 /\ starts' \in 0..MaxStarts /\ starts' >= starts
<1>1. starts \in 0..MaxStarts /\ MaxStarts \in Nat
  BY Numbers DEF TypeInv, TypeOK
<1>2. j \in Jobs /\ job[j] = Idle /\ starts < MaxStarts /\ starts' = starts + 1
  BY DEF Start, Jobs
<1> QED
  BY <1>1, <1>2

LEMMA ReadToUpdateKeepsTypes ==
    ASSUME TypeInv, NEW j \in Requests, NEW to \in Statuses, ReadToUpdate(j, to)
    PROVE  TypeInv'
<1> DEFINE h == IF sub.status = "paused" /\ to = "active"
                THEN [phase |-> "clearing", copy |-> sub, since |-> today]
                ELSE [phase |-> "saving", copy |-> sub, new |-> [sub EXCEPT !.status = to],
                      after |-> IF to = "active" THEN "nothing" ELSE "cancel"]
<1>1. /\ Become(j, h) /\ Start(j) /\ sub # NoSub /\ Crossing
      /\ UNCHANGED <<sub, rows, orders, today, crashes, declined, overtaken, exposed>>
  BY DEF ReadToUpdate
<1>2. sub \in Subs /\ today \in Days
  BY <1>1, Numbers DEF TypeInv, TypeOK
<1>3. [sub EXCEPT !.status = to] \in Subs
  <2>1. [sub EXCEPT !.status = to] = [status |-> to, until |-> sub.until]
    BY <1>2, SubTypes
  <2>2. [status |-> to, until |-> sub.until] \in Subs
    BY <1>2, SubTypes
  <2> QED
    BY <2>1, <2>2
<1>4. h \in JobStates
  BY <1>2, <1>3, JobsAre
<1>5. h.phase \in {"clearing", "saving"}
  OBVIOUS
<1>6. irregular' \in BOOLEAN
  BY <1>1 DEF Crossing, TypeInv, TypeOK
<1> HIDE DEF h
<1>7. /\ j \in Jobs /\ starts' = starts + 1 /\ starts' \in 0..MaxStarts
      /\ job'[j] = h /\ \A k \in Jobs \ {j} : job'[k] = job[k]
  BY <1>1, StartsFacts DEF Become, TypeInv, TypeOK
<1>8. RowsAreNumbered'
  <2>1. Clearing' \in SUBSET (Clearing \cup {j})
    BY <1>7 DEF Clearing, Jobs
  <2> DEFINE n == Cardinality(Clearing)
             m == Cardinality(Clearing')
  <2>2. m \in Nat /\ n \in Nat /\ m <= n + 1
    BY <2>1, ClearingCounts
  <2>3. starts \in Int /\ \A d \in Days : rows[d].id \in Int
    BY Numbers DEF TypeInv, TypeOK
  <2>4. \A d \in Days : rows[d].id + n <= starts
    BY DEF TypeInv, RowsAreNumbered
  <2> HIDE DEF n, m
  <2>5. \A d \in Days : rows[d].id + m <= starts'
    BY <1>7, <2>2, <2>3, <2>4
  <2> QED
    BY <1>1, <2>5 DEF RowsAreNumbered, m
<1> QED
  BY <1>1, <1>2, <1>4, <1>5, <1>6, <1>7, <1>8, TypeStep DEF TypeInv, TypeOK, RowStates

LEMMA ReadToDeleteKeepsTypes ==
    ASSUME TypeInv, NEW j \in Requests, ReadToDelete(j)
    PROVE  TypeInv'
<1> DEFINE h == [phase |-> "deleting", copy |-> sub, since |-> today]
<1>1. /\ Become(j, h) /\ Start(j) /\ sub # NoSub /\ Crossing
      /\ UNCHANGED <<sub, rows, orders, today, crashes, declined, overtaken, exposed>>
  BY DEF ReadToDelete
<1>2. sub \in Subs /\ today \in Days
  BY <1>1, Numbers DEF TypeInv, TypeOK
<1>3. h \in JobStates /\ h.phase = "deleting"
  BY <1>2, JobsAre
<1>4. irregular' \in BOOLEAN
  BY <1>1 DEF Crossing, TypeInv, TypeOK
<1> HIDE DEF h
<1>5. starts' >= starts
  BY <1>1, StartsFacts
<1> QED
  BY <1>1, <1>2, <1>3, <1>4, <1>5, StartsFacts, RowsChangeTypes DEF TypeInv, TypeOK, RowStates

LEMMA ReadToSkipKeepsTypes ==
    ASSUME TypeInv, NEW j \in Requests, NEW d \in Days, NEW reason \in BOOLEAN,
           ReadToSkip(j, d, reason)
    PROVE  TypeInv'
<1> DEFINE h == [phase |-> "skipping", row |-> [day |-> d, id |-> rows[d].id], reason |-> reason]
<1>1. /\ Become(j, h) /\ Start(j) /\ rows[d].status = "scheduled"
      /\ UNCHANGED <<sub, rows, orders, today, crashes, declined, overtaken, irregular, exposed>>
  BY DEF ReadToSkip, ghosts
<1>2. sub \in Subs
  BY <1>1 DEF TypeInv, TypeOK, Fresh
<1>3. [day |-> d, id |-> rows[d].id] \in RowRefs
  BY DEF RowRefs, TypeInv, TypeOK
<1>4. h \in JobStates /\ h.phase = "skipping"
  BY <1>3, JobsAre
<1> HIDE DEF h
<1>5. starts' >= starts
  BY <1>1, StartsFacts
<1> QED
  BY <1>1, <1>2, <1>4, <1>5, StartsFacts, RowsChangeTypes DEF TypeInv, TypeOK, RowStates

(* A row that is replaced takes the number of the clearing.                *)
LEMMA ClearPausedKeepsTypes ==
    ASSUME TypeInv, NEW j \in Jobs, j \in Requests, ClearPaused(j)
    PROVE  TypeInv'
<1> DEFINE c == job[j].copy
           since == job[j].since
           gone == {d \in Days : d > since /\ rows[d].status = "paused"}
           new == [status |-> "active", until |-> since]
           h == [phase |-> "saving", copy |-> c, new |-> new, after |-> "generate"]
<1>1. /\ Become(j, h) /\ job[j].phase = "clearing"
      /\ rows' = [d \in Days |-> IF d \in gone THEN [status |-> "none", id |-> rows[d].id + 1]
                                               ELSE rows[d]]
      /\ exposed' = exposed \cup {d \in gone : d <= today}
      /\ UNCHANGED <<sub, orders, today, starts, crashes, declined, overtaken, irregular>>
  BY DEF ClearPaused
<1>2. job[j] \in JobStates \cup {Idle}
  BY DEF TypeInv, TypeOK
<1>3. c \in Subs /\ since \in Days
  BY <1>1, <1>2, JobFacts
<1>4. new \in Subs
  <2>1. "active" \in Statuses /\ since \in 0..(LastDay + Horizon)
    BY <1>3, Numbers DEF Statuses
  <2> QED
    BY <2>1, SubTypes
<1>5. h \in JobStates /\ h.phase = "saving"
  BY <1>3, <1>4, JobsAre
<1> HIDE DEF h, new, c
<1>6. /\ job'[j] = h /\ \A k \in Jobs \ {j} : job'[k] = job[k]
  BY <1>1 DEF Become, TypeInv, TypeOK
<1>7. Clearing' = Clearing \ {j} /\ j \in Clearing
  BY <1>1, <1>5, <1>6 DEF Clearing, Jobs
<1> DEFINE n == Cardinality(Clearing)
<1>8. Cardinality(Clearing') = n - 1 /\ n \in Nat
  BY <1>7, ClearingCounts
<1>9. starts \in 0..MaxStarts /\ rows \in RowStates /\ \A d \in Days : rows[d].id \in Nat
  <2>1. starts \in 0..MaxStarts /\ rows \in RowStates
    BY DEF TypeInv, TypeOK, RowStates
  <2> QED
    BY <2>1, Numbers DEF RowStates
<1>10. \A d \in Days : rows[d].id + n <= starts
  BY DEF TypeInv, RowsAreNumbered
<1> HIDE DEF n
<1>11. n >= 1
  <2>1. Cardinality(Clearing') \in Nat
    BY <1>7, ClearingCounts
  <2> QED
    BY <1>8, <2>1
<1>12. \A d \in Days : rows[d].id + 1 \in 0..MaxStarts /\ rows[d].id + 1 + (n - 1) <= starts
  BY <1>8, <1>9, <1>10, <1>11, Numbers
<1>13. rows' \in RowStates
  <2>1. "none" \in RowStatuses
    BY DEF RowStatuses
  <2> HIDE DEF gone
  <2> QED
    BY <1>1, <1>9, <1>12, <2>1 DEF RowStates
<1>14. \A d \in Days : rows'[d].id = rows[d].id + 1 \/ rows'[d].id = rows[d].id
  BY <1>1
<1>15. \A d \in Days : rows'[d].id + (n - 1) <= starts'
  BY <1>1, <1>8, <1>9, <1>12, <1>14
<1>16. RowsAreNumbered'
  BY <1>8, <1>15 DEF RowsAreNumbered
<1>17. sub \in Subs
  BY <1>1, WhoWorksHasOne
<1>18. exposed' \subseteq Days
  BY <1>1 DEF TypeInv, TypeOK
<1> QED
  BY <1>1, <1>5, <1>13, <1>16, <1>17, <1>18, TypeStep DEF TypeInv, TypeOK

LEMMA CancelScheduledKeepsTypes ==
    ASSUME TypeInv, NEW j \in Jobs, CancelScheduled(j)
    PROVE  TypeInv'
<1> DEFINE as == job[j].as
<1>1. /\ Become(j, Idle) /\ job[j].phase = "cancelling"
      /\ rows' = [d \in Days |-> IF d >= today /\ rows[d].status = "scheduled"
                                 THEN [rows[d] EXCEPT !.status = as]
                                 ELSE rows[d]]
      /\ UNCHANGED <<sub, orders, today, starts, crashes, declined, overtaken, irregular, exposed>>
  BY DEF CancelScheduled, ghosts
<1>2. job[j] \in JobStates \cup {Idle}
  BY DEF TypeInv, TypeOK
<1>3. as \in RowStatuses
  BY <1>1, <1>2, JobFacts DEF RowStatuses
<1> HIDE DEF as
<1>4. rows \in RowStates
  BY DEF TypeInv, TypeOK, RowStates
<1>5. rows' \in RowStates /\ \A d \in Days : rows'[d].id = rows[d].id
  BY <1>1, <1>3, <1>4 DEF RowStates
<1>6. sub \in Subs
  BY <1>1, WhoWorksHasOne
<1>7. Idle.phase = "idle"
  BY DEF Idle
<1> QED
  BY <1>1, <1>5, <1>6, <1>7, OthersStay, RowsChangeTypes

LEMMA EndRowsKeepsTypes ==
    ASSUME TypeInv, NEW j \in Jobs, EndRows(j)
    PROVE  TypeInv'
<1> DEFINE c == job[j].copy
           new == [c EXCEPT !.status = "cancelled"]
           h == [phase |-> "saving", copy |-> c, new |-> new, after |-> "nothing"]
<1>1. /\ Become(j, h) /\ job[j].phase = "deleting"
      /\ rows' = [d \in Days |-> IF rows[d].status = "scheduled"
                                 THEN [rows[d] EXCEPT !.status = "ended"]
                                 ELSE rows[d]]
      /\ UNCHANGED <<sub, orders, today, starts, crashes, declined, overtaken, irregular, exposed>>
  BY DEF EndRows, ghosts
<1>2. job[j] \in JobStates \cup {Idle}
  BY DEF TypeInv, TypeOK
<1>3. c \in Subs
  BY <1>1, <1>2, JobFacts
<1> HIDE DEF c
<1>4. new \in Subs
  <2>1. new = [status |-> "cancelled", until |-> c.until] /\ "cancelled" \in Statuses
    BY <1>3, SubTypes DEF Statuses
  <2>2. [status |-> "cancelled", until |-> c.until] \in Subs
    BY <1>3, <2>1, SubTypes
  <2> QED
    BY <2>1, <2>2
<1> HIDE DEF new
<1>5. h \in JobStates /\ h.phase = "saving"
  BY <1>3, <1>4, JobsAre
<1> HIDE DEF h
<1>6. rows \in RowStates /\ "ended" \in RowStatuses
  BY DEF TypeInv, TypeOK, RowStates, RowStatuses
<1>7. rows' \in RowStates /\ \A d \in Days : rows'[d].id = rows[d].id
  BY <1>1, <1>6 DEF RowStates
<1>8. sub \in Subs
  BY <1>1, WhoWorksHasOne
<1> QED
  BY <1>1, <1>5, <1>7, <1>8, OthersStay, RowsChangeTypes

(* What a save leaves of the subscription.                                 *)
LEMMA SavedIs ==
    ASSUME TypeInv, NEW j \in Jobs, SaveSubscription(j)
    PROVE  /\ sub' \in Subs /\ sub \in Subs
           /\ job[j].copy \in Subs /\ job[j].new \in Subs
           /\ sub'.status = IF job[j].new.status # job[j].copy.status
                            THEN job[j].new.status ELSE sub.status
           /\ sub'.until = IF job[j].new.until # job[j].copy.until
                           THEN job[j].new.until ELSE sub.until
<1> DEFINE c == job[j].copy
           n == job[j].new
<1>1. /\ job[j].phase = "saving"
      /\ sub' = [f \in {"status", "until"} |-> IF n[f] # c[f] THEN n[f] ELSE sub[f]]
  BY DEF SaveSubscription
<1>2. job[j] \in JobStates \cup {Idle}
  BY DEF TypeInv, TypeOK
<1>3. c \in Subs /\ n \in Subs /\ sub \in Subs
  BY <1>1, <1>2, JobFacts, WhoWorksHasOne
<1> HIDE DEF c, n
<1> DEFINE st == IF n.status # c.status THEN n.status ELSE sub.status
           un == IF n.until # c.until THEN n.until ELSE sub.until
<1>4. sub' = [status |-> st, until |-> un]
  BY <1>1
<1>5. st \in Statuses /\ un \in 0..(LastDay + Horizon)
  BY <1>3, SubTypes
<1> HIDE DEF st, un
<1>6. sub' \in Subs /\ sub'.status = st /\ sub'.until = un
  BY <1>4, <1>5, SubTypes
<1> QED
  BY <1>3, <1>6 DEF st, un, c, n

(* And where it goes on.                                                   *)
LEMMA SaverIs ==
    ASSUME TypeInv, NEW j \in Jobs, SaveSubscription(j)
    PROVE  \E h \in JobStates \cup {Idle} :
              /\ Become(j, h)
              /\ h.phase = "generating" => h.new # {}
              /\ h.phase \in {"generating", "listing", "cancelling", "idle"}
              /\ job[j].after = "generate" => h = Generating(j, job[j].new.until)
              /\ job[j].after = "cancel" => h.phase = "cancelling"
              /\ job[j].after \notin {"generate", "cancel"} => h = Idle
<1> DEFINE n == job[j].new
           g == Generating(j, n.until)
           c == [phase |-> "cancelling", as |-> IF n.status = "paused" THEN "paused" ELSE "ended"]
<1>1. Become(j, CASE job[j].after = "generate" -> g
                  [] job[j].after = "cancel" -> c
                  [] OTHER -> Idle)
  BY DEF SaveSubscription
<1>2. n.until \in Nat
  BY SavedIs, SubTypes
<1>3. /\ g \in JobStates \cup {Idle} /\ (g.phase = "generating" => g.new # {})
      /\ g.phase \in {"generating", "listing", "idle"}
  BY <1>2, GeneratingHasType
<1>4. c \in JobStates /\ c.phase = "cancelling"
  BY JobsAre
<1>5. Idle.phase = "idle"
  BY DEF Idle
<1> HIDE DEF g, c
<1>6. CASE job[j].after = "generate"
  BY <1>1, <1>3, <1>6 DEF g
<1>7. CASE job[j].after = "cancel"
  BY <1>1, <1>4, <1>7
<1>8. CASE job[j].after \notin {"generate", "cancel"}
  BY <1>1, <1>5, <1>8
<1> QED
  BY <1>6, <1>7, <1>8

LEMMA SaveSubscriptionKeepsTypes ==
    ASSUME TypeInv, NEW j \in Jobs, SaveSubscription(j)
    PROVE  TypeInv'
<1>1. PICK h \in JobStates \cup {Idle} :
         /\ Become(j, h) /\ (h.phase = "generating" => h.new # {})
         /\ h.phase \in {"generating", "listing", "cancelling", "idle"}
  BY SaverIs
<1>2. /\ UNCHANGED <<rows, orders, today, starts, crashes, declined, overtaken, exposed>>
      /\ irregular' = (irregular \/ (sub.status = "cancelled" /\ job[j].new.status = "active"))
  BY DEF SaveSubscription
<1>3. irregular' \in BOOLEAN
  BY <1>2 DEF TypeInv, TypeOK
<1> QED
  BY <1>1, <1>2, <1>3, SavedIs, OthersStay, RowsChangeTypes

LEMMA SaveSkipKeepsTypes ==
    ASSUME TypeInv, NEW j \in Jobs, SaveSkip(j)
    PROVE  TypeInv'
<1> DEFINE d == job[j].row.day
<1>1. /\ Become(j, Idle) /\ job[j].phase = "skipping"
      /\ rows' \in {rows, [rows EXCEPT ![d].status = "skipped"]}
      /\ declined' \in {declined, declined \cup {d}}
      /\ overtaken' \in {overtaken, overtaken \cup {d}, overtaken \ {d}}
      /\ exposed' \in {exposed, exposed \cup {d}}
      /\ UNCHANGED <<sub, orders, today, starts, crashes, irregular>>
  BY DEF SaveSkip
<1>2. job[j] \in JobStates \cup {Idle}
  BY DEF TypeInv, TypeOK
<1>3. d \in Days
  BY <1>1, <1>2, JobFacts DEF RowRefs
<1> HIDE DEF d
<1>4. rows \in RowStates /\ "skipped" \in RowStatuses
  BY DEF TypeInv, TypeOK, RowStates, RowStatuses
<1>5. rows' \in RowStates /\ \A e \in Days : rows'[e].id = rows[e].id
  BY <1>1, <1>3, <1>4 DEF RowStates
<1>6. declined' \subseteq Days /\ overtaken' \subseteq Days /\ exposed' \subseteq Days
  BY <1>1, <1>3 DEF TypeInv, TypeOK
<1>7. sub \in Subs
  BY <1>1, WhoWorksHasOne
<1>8. Idle.phase = "idle"
  BY DEF Idle
<1> QED
  BY <1>1, <1>5, <1>6, <1>7, <1>8, OthersStay, RowsChangeTypes

LEMMA SweepReadsKeepsTypes ==
    ASSUME TypeInv, NEW s \in Sweepers, SweepReads(s)
    PROVE  TypeInv'
<1>1. /\ Become(s, IF sub.status = "active" THEN Generating(s, sub.until) ELSE [phase |-> "listing"])
      /\ sub # NoSub
      /\ UNCHANGED <<sub, rows, orders, today, starts, crashes, declined, overtaken, irregular, exposed>>
  BY DEF SweepReads, ghosts
<1>2. sub \in Subs /\ s \in Jobs
  BY <1>1 DEF TypeInv, TypeOK, Jobs
<1>3. sub.until \in Nat
  BY <1>2, SubTypes
<1> DEFINE l == [phase |-> "listing"]
<1>4. l \in JobStates /\ l.phase = "listing"
  BY JobsAre
<1>5. PICK h \in {Generating(s, sub.until), l} : Become(s, h)
  BY <1>1
<1> HIDE DEF l
<1>6. /\ h \in JobStates \cup {Idle} /\ (h.phase = "generating" => h.new # {})
      /\ h.phase \in {"generating", "listing", "idle"}
  BY <1>2, <1>3, <1>4, <1>5, GeneratingHasType
<1> QED
  BY <1>1, <1>2, <1>5, <1>6, OthersStay, RowsChangeTypes

-----------------------------------------------------------------------------
(* The sweep's steps over the rows                                         *)

LEMMA PlacingHasType ==
    ASSUME NEW S \in SUBSET RowRefs
    PROVE  Placing(S) \in JobStates \cup {Idle} /\ Placing(S).phase \in {"placing", "idle"}
<1>1. [phase |-> "placing", due |-> S] \in JobStates
  BY JobsAre
<1> QED
  BY <1>1 DEF Placing, Idle

LEMMA ListDueKeepsTypes ==
    ASSUME TypeInv, NEW s \in Jobs, s \in Sweepers, ListDue(s)
    PROVE  TypeInv'
<1> DEFINE due == {[day |-> d, id |-> rows[d].id] : d \in {e \in 1..today : rows[e].status = "scheduled"}}
           more == {r.day : r \in due \cap UNION {InHand(t) : t \in Sweepers \ {s}}}
<1>1. /\ Become(s, Placing(due)) /\ job[s].phase = "listing"
      /\ exposed' = exposed \cup more
      /\ UNCHANGED <<sub, rows, orders, today, starts, crashes, declined, overtaken, irregular>>
  BY DEF ListDue
<1>2. 1..today \subseteq Days
  BY Numbers DEF TypeInv, TypeOK
<1>3. due \in SUBSET RowRefs
  <2>1. \A d \in Days : rows[d].id \in 0..MaxStarts
    BY DEF TypeInv, TypeOK
  <2> QED
    BY <1>2, <2>1 DEF RowRefs
<1> HIDE DEF due
<1>4. more \subseteq Days
  BY <1>3 DEF RowRefs
<1> HIDE DEF more
<1>5. exposed' \subseteq Days
  BY <1>1, <1>4 DEF TypeInv, TypeOK
<1>6. sub \in Subs
  BY <1>1, WhoWorksHasOne
<1>7. Placing(due) \in JobStates \cup {Idle} /\ Placing(due).phase \in {"placing", "idle"}
  BY <1>3, PlacingHasType
<1> QED
  BY <1>1, <1>5, <1>6, <1>7, OthersStay, RowsChangeTypes

LEMMA TakeNextKeepsTypes ==
    ASSUME TypeInv, NEW s \in Jobs, TakeNext(s)
    PROVE  TypeInv'
<1> DEFINE due == job[s].due
<1>1. job[s].phase = "placing"
  BY DEF TakeNext
<1>2. PICK row \in due :
         Become(s, [phase |-> IF sub.status = "active" THEN "ordering" ELSE "dropping",
                    row |-> row, due |-> due \ {row}])
  BY DEF TakeNext
<1>3. UNCHANGED <<sub, rows, orders, today, starts, crashes, declined, overtaken, irregular, exposed>>
  BY DEF TakeNext, ghosts
<1>4. job[s] \in JobStates \cup {Idle}
  BY DEF TypeInv, TypeOK
<1>5. due \subseteq RowRefs
  BY <1>1, <1>4, JobFacts
<1> HIDE DEF due
<1> DEFINE p == IF sub.status = "active" THEN "ordering" ELSE "dropping"
           h == [phase |-> p, row |-> row, due |-> due \ {row}]
<1>6. p \in AtOneRow
  BY DEF AtOneRow
<1>7. row \in RowRefs /\ due \ {row} \in SUBSET RowRefs
  BY <1>2, <1>5
<1>8. p # "clearing" /\ p # "generating"
  OBVIOUS
<1>9. Become(s, h)
  BY <1>2
<1> HIDE DEF p
<1>10. h \in JobStates /\ h.phase = p
  BY <1>6, <1>7, JobsAre
<1> HIDE DEF h
<1>11. sub \in Subs
  BY <1>1, WhoWorksHasOne
<1> QED
  BY <1>3, <1>8, <1>9, <1>10, <1>11, OthersStay, RowsChangeTypes

LEMMA PlaceOrderKeepsTypes ==
    ASSUME TypeInv, NEW s \in Jobs, StateIsSound(s, job[s]), PlaceOrder(s)
    PROVE  TypeInv'
<1> DEFINE row == job[s].row
           due == job[s].due
           h == [phase |-> "recording", row |-> row, due |-> due]
<1>1. /\ Become(s, [job[s] EXCEPT !.phase = "recording"]) /\ job[s].phase = "ordering"
      /\ orders' = [orders EXCEPT ![row.day] = @ + 1]
      /\ UNCHANGED <<sub, rows, today, starts, crashes, declined, overtaken, irregular, exposed>>
  BY DEF PlaceOrder, ghosts
<1>2. job[s] \in JobStates \cup {Idle}
  BY DEF TypeInv, TypeOK
<1>3. row \in RowRefs /\ due \subseteq RowRefs
  BY <1>1, <1>2, JobFacts DEF AtOneRow
<1>4. job[s] = [phase |-> "ordering", row |-> row, due |-> due]
  BY <1>1 DEF StateIsSound, AtOneRow
<1> HIDE DEF row, due
<1>5. Become(s, h)
  BY <1>1, <1>4
<1>6. "recording" \in AtOneRow
  BY DEF AtOneRow
<1>7. h \in JobStates /\ h.phase = "recording"
  BY <1>3, <1>6, JobsAre
<1> HIDE DEF h
<1>8. row.day \in Days
  BY <1>3 DEF RowRefs
<1>9. orders' \in [Days -> Nat]
  BY <1>1, <1>8 DEF TypeInv, TypeOK
<1>10. sub \in Subs
  BY <1>1, WhoWorksHasOne
<1> QED
  BY <1>1, <1>5, <1>7, <1>9, <1>10, OthersStay, RowsChangeTypes

LEMMA SetRowTypes ==
    ASSUME TypeInv, NEW ref \in RowRefs, NEW st \in RowStatuses, SetRow(ref, st)
    PROVE  rows' \in RowStates /\ \A d \in Days : rows'[d].id = rows[d].id
<1>1. ref.day \in Days
  BY DEF RowRefs
<1>2. rows' \in {rows, [rows EXCEPT ![ref.day].status = st]}
  BY DEF SetRow
<1>3. rows \in RowStates
  BY DEF TypeInv, TypeOK, RowStates
<1> QED
  BY <1>1, <1>2, <1>3 DEF RowStates

LEMMA RowDoneKeepsTypes ==
    ASSUME TypeInv, NEW s \in Jobs, job[s].phase \in AtOneRow, NEW st \in RowStatuses,
           SetRow(job[s].row, st), Become(s, Placing(job[s].due)),
           exposed' \in {exposed, exposed \cup {job[s].row.day}},
           UNCHANGED <<sub, orders, today, starts, crashes, declined, overtaken, irregular>>
    PROVE  TypeInv'
<1>1. job[s] \in JobStates \cup {Idle}
  BY DEF TypeInv, TypeOK
<1>2. job[s].row \in RowRefs /\ job[s].due \subseteq RowRefs
  BY <1>1, JobFacts
<1>3. Placing(job[s].due) \in JobStates \cup {Idle} /\ Placing(job[s].due).phase \in {"placing", "idle"}
  BY <1>2, PlacingHasType
<1>4. exposed' \subseteq Days
  BY <1>2 DEF RowRefs, TypeInv, TypeOK
<1>5. sub \in Subs
  BY WhoWorksHasOne DEF AtOneRow
<1>6. rows' \in RowStates /\ \A d \in Days : rows'[d].id = rows[d].id
  BY <1>2, SetRowTypes
<1> QED
  BY <1>3, <1>4, <1>5, <1>6, OthersStay, RowsChangeTypes

LEMMA RowEndsKeepTypes ==
    ASSUME TypeInv, NEW s \in Jobs,
           DropRow(s) \/ OrderFails(s) \/ RecordOrder(s) \/ RecordFails(s)
    PROVE  TypeInv'
<1>1. {"ended", "failed", "order_placed"} \subseteq RowStatuses
  BY DEF RowStatuses
<1>2. CASE DropRow(s)
  BY <1>1, <1>2, RowDoneKeepsTypes DEF DropRow, ghosts, AtOneRow
<1>3. CASE OrderFails(s)
  BY <1>1, <1>3, RowDoneKeepsTypes DEF OrderFails, ghosts, AtOneRow
<1>4. CASE RecordOrder(s)
  BY <1>1, <1>4, RowDoneKeepsTypes DEF RecordOrder, ghosts, AtOneRow
<1>5. CASE RecordFails(s)
  BY <1>1, <1>5, RowDoneKeepsTypes DEF RecordFails, AtOneRow
<1> QED
  BY <1>2, <1>3, <1>4, <1>5

LEMMA NextDayKeepsTypes ==
    ASSUME TypeInv, NextDay
    PROVE  TypeInv'
<1>1. /\ UNCHANGED <<sub, rows, orders, job, starts, crashes, declined, overtaken, irregular, exposed>>
      /\ today < LastDay /\ today' = today + 1
  BY DEF NextDay, ghosts
<1>2. today' \in 1..LastDay
  BY <1>1, Numbers DEF TypeInv, TypeOK
<1>3. TypeOK'
  BY <1>1, <1>2 DEF TypeInv, TypeOK
<1>4. RowsAreNumbered'
  BY <1>1 DEF TypeInv, RowsAreNumbered, Clearing
<1> QED
  BY <1>1, <1>3, <1>4 DEF TypeInv, Fresh, SomeIsNew

LEMMA CrashKeepsTypes ==
    ASSUME TypeInv, NEW j \in Jobs, Crash(j)
    PROVE  TypeInv'
<1>1. /\ Become(j, Idle) /\ job[j] # Idle /\ crashes < MaxCrashes /\ crashes' = crashes + 1
      /\ irregular' = (irregular \/ j \in Updating)
      /\ exposed' = IF job[j].phase = "recording" THEN exposed \cup {job[j].row.day} ELSE exposed
      /\ UNCHANGED <<sub, rows, orders, today, starts, declined, overtaken>>
  BY DEF Crash
<1>2. job[j] \in JobStates \cup {Idle}
  BY DEF TypeInv, TypeOK
<1>3. exposed' \subseteq Days
  BY <1>1, <1>2, JobFacts DEF TypeInv, TypeOK, AtOneRow, RowRefs
<1>4. crashes' \in 0..MaxCrashes
  BY <1>1, Numbers DEF TypeInv, TypeOK
<1>5. irregular' \in BOOLEAN
  BY <1>1 DEF TypeInv, TypeOK
<1>6. sub \in Subs
  BY <1>1 DEF TypeInv, TypeOK, Fresh
<1>7. Idle.phase = "idle"
  BY DEF Idle
<1>8. RowsAreNumbered'
  BY <1>1, <1>7, OthersStay, NumbersStay DEF TypeInv, TypeOK
<1> QED
  BY <1>1, <1>3, <1>4, <1>5, <1>6, <1>7, <1>8, OthersStay, TypeStep DEF TypeInv, TypeOK

-----------------------------------------------------------------------------
LEMMA InitHasTypes ==
    ASSUME Init
    PROVE  TypeInv
<1>1. TypeOK
  <2>1. "none" \in RowStatuses /\ 0 \in 0..MaxStarts /\ 0 \in 0..MaxCrashes /\ 1 \in 1..LastDay
    BY Numbers DEF RowStatuses
  <2>2. rows \in RowStates /\ orders \in [Days -> Nat] /\ job \in [Jobs -> JobStates \cup {Idle}]
    BY <2>1 DEF Init, RowStates
  <2> QED
    BY <2>1, <2>2 DEF Init, TypeOK, RowStates
<1>2. Fresh /\ SomeIsNew
  BY DEF Init, Fresh, SomeIsNew, Idle
<1>3. Clearing = {}
  BY DEF Init, Clearing, Idle, Jobs
<1>4. RowsAreNumbered
  BY <1>3, FS_EmptySet DEF RowsAreNumbered, Init
<1> QED
  BY <1>1, <1>2, <1>4 DEF TypeInv

LEMMA NextKeepsTypes ==
    ASSUME SubsInv, TypeInv, Next
    PROVE  TypeInv'
<1>1. CASE \E j \in Requests : CreateSubscription(j) \/ ReadToDelete(j)
  BY <1>1, CreateSubscriptionKeepsTypes, ReadToDeleteKeepsTypes
<1>2. CASE \E j \in Requests, to \in Statuses : ReadToUpdate(j, to)
  BY <1>2, ReadToUpdateKeepsTypes
<1>3. CASE \E j \in Requests, d \in Days, reason \in BOOLEAN : ReadToSkip(j, d, reason)
  BY <1>3, ReadToSkipKeepsTypes
<1>4. CASE \E s \in Sweepers : SweepReads(s)
  BY <1>4, SweepReadsKeepsTypes
<1>5. CASE \E j \in Jobs : Crash(j)
  BY <1>5, CrashKeepsTypes
<1>6. CASE NextDay
  BY <1>6, NextDayKeepsTypes
<1>7. ASSUME NEW j \in Jobs, Step(j)
      PROVE  TypeInv'
  <2>1. StateIsSound(j, job[j])
    BY DEF SubsInv, Sound
  <2>2. CASE InsertRows(j) \/ MarkGenerated(j)
    BY <2>2, InsertRowsKeepsTypes, MarkGeneratedKeepsTypes
  <2>3. CASE ClearPaused(j)
    <3>1. j \in Requests
      BY <2>3, RequestPhaseIsARequest DEF SubsInv, ClearPaused, RequestPhases
    <3> QED
      BY <2>3, <3>1, ClearPausedKeepsTypes
  <2>4. CASE SaveSubscription(j) \/ CancelScheduled(j) \/ EndRows(j) \/ SaveSkip(j)
    BY <2>4, SaveSubscriptionKeepsTypes, CancelScheduledKeepsTypes, EndRowsKeepsTypes,
       SaveSkipKeepsTypes
  <2>5. CASE ListDue(j)
    <3>1. j \in Sweepers
      BY <2>1, <2>5 DEF StateIsSound, ListDue, Jobs
    <3> QED
      BY <2>5, <3>1, ListDueKeepsTypes
  <2>6. CASE TakeNext(j) \/ PlaceOrder(j)
    BY <2>1, <2>6, TakeNextKeepsTypes, PlaceOrderKeepsTypes
  <2>7. CASE DropRow(j) \/ OrderFails(j) \/ RecordOrder(j) \/ RecordFails(j)
    BY <2>7, RowEndsKeepTypes
  <2> QED
    BY <1>7, <2>2, <2>3, <2>4, <2>5, <2>6, <2>7 DEF Step
<1> QED
  BY <1>1, <1>2, <1>3, <1>4, <1>5, <1>6, <1>7 DEF Next

LEMMA StutterKeepsTypes ==
    ASSUME TypeInv, UNCHANGED vars
    PROVE  TypeInv'
<1>1. UNCHANGED <<sub, rows, orders, today, job, starts, crashes, declined, overtaken, irregular, exposed>>
  BY DEF vars, ghosts
<1>2. TypeOK' /\ Fresh' /\ SomeIsNew'
  BY <1>1 DEF TypeInv, TypeOK, Fresh, SomeIsNew
<1>3. RowsAreNumbered'
  BY <1>1 DEF TypeInv, RowsAreNumbered, Clearing
<1> QED
  BY <1>2, <1>3 DEF TypeInv

(***************************************************************************)
(* The types: above all, what a request or a sweep has in hand when it     *)
(* goes on is a day, a row or a copy that there was, the generator writes  *)
(* no day beyond its horizon, and no row is replaced without a request.    *)
(***************************************************************************)
THEOREM SubscriptionsAreTyped == Spec => []TypeOK
<1>1. Init => TypeInv
  BY InitHasTypes
<1>2. SubsInv /\ TypeInv /\ [Next]_vars => TypeInv'
  BY NextKeepsTypes, StutterKeepsTypes
<1>3. Spec => []TypeInv
  BY <1>1, <1>2, SubscriptionsStaySound, PTL DEF Spec
<1>4. TypeInv => TypeOK
  BY DEF TypeInv
<1> QED
  BY <1>3, <1>4, PTL

-----------------------------------------------------------------------------
(* Days of the rule                                                        *)

RowsOnRule == \A d \in Days : rows[d].status # "none" => OnRule(d)

JobsOnRule ==
    \A j \in Jobs : /\ job[j].phase = "generating" => \A d \in job[j].new : OnRule(d)
                    /\ job[j].phase = "skipping" => OnRule(job[j].row.day)

RuleInv == RowsOnRule /\ JobsOnRule

(* Most steps neither add rows nor take them away, and pause none.         *)
QuietRows ==
    \A d \in Days : /\ rows'[d].status = "none" <=> rows[d].status = "none"
                    /\ rows'[d].status = "paused" => rows[d].status = "paused"

LEMMA OneJobMoves ==
    ASSUME TypeInv, NEW j \in Jobs, NEW h, Become(j, h)
    PROVE  job'[j] = h /\ \A k \in Jobs \ {j} : job'[k] = job[k]
BY DEF TypeInv, TypeOK, Become

LEMMA RuleStep ==
    ASSUME TypeInv, RuleInv, NEW j \in Jobs, NEW h, Become(j, h),
           h.phase = "generating" => \A d \in h.new : OnRule(d),
           h.phase = "skipping" => OnRule(h.row.day),
           \A d \in Days : rows'[d].status # "none" => rows[d].status # "none" \/ OnRule(d)
    PROVE  RuleInv'
<1>1. RowsOnRule'
  BY DEF RuleInv, RowsOnRule
<1>2. JobsOnRule'
  BY OneJobMoves DEF RuleInv, JobsOnRule
<1> QED
  BY <1>1, <1>2 DEF RuleInv

(* The steps of the sweep after its list is made: what they are for the    *)
(* rows, and where they lead.                                              *)
SweepMovesOn(s) ==
    \/ ListDue(s) \/ TakeNext(s) \/ DropRow(s) \/ PlaceOrder(s)
    \/ OrderFails(s) \/ RecordOrder(s) \/ RecordFails(s)

LEMMA PlacingPhase ==
    ASSUME NEW S
    PROVE  Placing(S).phase \in {"placing", "idle"}
BY DEF Placing, Idle

LEMMA SettingARow ==
    ASSUME TypeInv, NEW ref, NEW st, st \notin {"none", "paused"}, SetRow(ref, st)
    PROVE  QuietRows
<1>1. rows = [d \in Days |-> rows[d]] /\ rows \in RowStates
  BY DEF TypeInv, TypeOK, RowStates
<1>2. CASE rows' = rows
  BY <1>2 DEF QuietRows
<1>3. CASE rows[ref.day].status # "none" /\ rows' = [rows EXCEPT ![ref.day].status = st]
  BY <1>1, <1>3 DEF QuietRows, RowStates
<1> QED
  BY <1>2, <1>3 DEF SetRow

LEMMA SweepMovesOnIs ==
    ASSUME TypeInv, SubsInv, NEW s \in Jobs, SweepMovesOn(s)
    PROVE  /\ s \in Sweepers /\ job[s].phase \in SweepPhases \cup {"listing"}
           /\ QuietRows /\ UNCHANGED <<sub, today, irregular>>
           /\ \E h : Become(s, h) /\ h.phase \in SweepPhases \cup {"idle"}
<1>1. StateIsSound(s, job[s])
  BY DEF SubsInv, Sound
<1>2. job[s].phase \in SweepPhases \cup {"listing"}
  BY DEF SweepMovesOn, ListDue, TakeNext, DropRow, PlaceOrder, OrderFails, RecordOrder, RecordFails,
         SweepPhases
<1>3. s \in Sweepers
  BY <1>1, <1>2 DEF StateIsSound, Jobs
<1> SUFFICES /\ QuietRows /\ UNCHANGED <<sub, today, irregular>>
             /\ \E h : Become(s, h) /\ h.phase \in SweepPhases \cup {"idle"}
  BY <1>2, <1>3
<1>4. \A S : Placing(S).phase \in SweepPhases \cup {"idle"}
  BY PlacingPhase DEF SweepPhases
<1>5. rows' = rows => QuietRows
  BY DEF QuietRows
<1>6. CASE ListDue(s)
  BY <1>4, <1>5, <1>6 DEF ListDue
<1>7. CASE TakeNext(s)
  <2>1. PICK row \in job[s].due :
           Become(s, [phase |-> IF sub.status = "active" THEN "ordering" ELSE "dropping",
                      row |-> row, due |-> job[s].due \ {row}])
    BY <1>7 DEF TakeNext
  <2>2. UNCHANGED <<sub, rows, today, irregular>>
    BY <1>7 DEF TakeNext, ghosts
  <2> QED
    BY <1>5, <2>1, <2>2 DEF SweepPhases
<1>8. CASE PlaceOrder(s)
  <2>1. job[s] = [phase |-> job[s].phase, row |-> job[s].row, due |-> job[s].due]
    BY <1>1, <1>8 DEF StateIsSound, PlaceOrder, AtOneRow
  <2>2. [job[s] EXCEPT !.phase = "recording"].phase = "recording"
    BY <2>1
  <2>3. UNCHANGED <<sub, rows, today, irregular>>
    BY <1>8 DEF PlaceOrder, ghosts
  <2>4. Become(s, [job[s] EXCEPT !.phase = "recording"])
    BY <1>8 DEF PlaceOrder
  <2> QED
    BY <1>5, <2>2, <2>3, <2>4 DEF SweepPhases
<1>9. CASE DropRow(s) \/ OrderFails(s) \/ RecordOrder(s) \/ RecordFails(s)
  <2>1. UNCHANGED <<sub, today, irregular>> /\ Become(s, Placing(job[s].due))
    BY <1>9 DEF DropRow, OrderFails, RecordOrder, RecordFails, ghosts
  <2>2. \E st \in {"ended", "failed", "order_placed"} : SetRow(job[s].row, st)
    BY <1>9 DEF DropRow, OrderFails, RecordOrder, RecordFails
  <2>3. QuietRows
    BY <2>2, SettingARow
  <2> QED
    BY <1>4, <2>1, <2>3
<1> QED
  BY <1>6, <1>7, <1>8, <1>9 DEF SweepMovesOn

(* The rows of the other steps.                                            *)
LEMMA RowsOf ==
    ASSUME TypeInv, NEW j \in Jobs
    PROVE  /\ EndRows(j) => QuietRows
           /\ CancelScheduled(j) => \A d \in Days : rows'[d].status = "none" <=> rows[d].status = "none"
           /\ SaveSkip(j) => /\ \A d \in Days : rows'[d] = rows[d] \/ rows'[d].status = "skipped"
                             /\ \A d \in Days \ {job[j].row.day} : rows'[d] = rows[d]
           /\ ClearPaused(j) =>
                 /\ \A d \in Days : rows'[d] = rows[d] \/ rows'[d].status = "none"
                 /\ \A d \in Days : d > job[j].since => rows'[d].status # "paused"
           /\ InsertRows(j) =>
                 /\ \A d \in Days : rows'[d] = rows[d] \/ (d \in job[j].new /\ rows'[d].status = "scheduled")
                 /\ \A d \in Days : d \in job[j].new => rows'[d].status # "none"
<1>1. rows \in RowStates /\ job[j] \in JobStates \cup {Idle}
  BY DEF TypeInv, TypeOK, RowStates
<1>2. ASSUME EndRows(j) PROVE QuietRows
  <2>1. rows' = [d \in Days |-> IF rows[d].status = "scheduled"
                                THEN [rows[d] EXCEPT !.status = "ended"]
                                ELSE rows[d]]
    BY <1>2 DEF EndRows
  <2> QED
    BY <1>1, <2>1 DEF QuietRows, RowStates
<1>3. ASSUME CancelScheduled(j)
      PROVE  \A d \in Days : rows'[d].status = "none" <=> rows[d].status = "none"
  <2> DEFINE as == job[j].as
  <2>1. as \in {"paused", "ended"}
    BY <1>1, <1>3, JobFacts DEF CancelScheduled
  <2>2. rows' = [d \in Days |-> IF d >= today /\ rows[d].status = "scheduled"
                                THEN [rows[d] EXCEPT !.status = as]
                                ELSE rows[d]]
    BY <1>3 DEF CancelScheduled
  <2> HIDE DEF as
  <2> QED
    BY <1>1, <2>1, <2>2 DEF RowStates
<1>4. ASSUME SaveSkip(j)
      PROVE  /\ \A d \in Days : rows'[d] = rows[d] \/ rows'[d].status = "skipped"
             /\ \A d \in Days \ {job[j].row.day} : rows'[d] = rows[d]
  <2> DEFINE e == job[j].row.day
  <2>1. rows' \in {rows, [rows EXCEPT ![e].status = "skipped"]}
    BY <1>4 DEF SaveSkip
  <2> HIDE DEF e
  <2>2. /\ \A d \in Days : rows'[d] = rows[d] \/ rows'[d].status = "skipped"
        /\ \A d \in Days \ {e} : rows'[d] = rows[d]
    BY <1>1, <2>1 DEF RowStates
  <2> QED
    BY <2>2 DEF e
<1>5. ASSUME ClearPaused(j)
      PROVE  /\ \A d \in Days : rows'[d] = rows[d] \/ rows'[d].status = "none"
             /\ \A d \in Days : d > job[j].since => rows'[d].status # "paused"
  <2> DEFINE gone == {d \in Days : d > job[j].since /\ rows[d].status = "paused"}
  <2>1. rows' = [d \in Days |-> IF d \in gone THEN [status |-> "none", id |-> rows[d].id + 1]
                                              ELSE rows[d]]
    BY <1>5 DEF ClearPaused
  <2>2. \A d \in Days : d > job[j].since /\ rows[d].status = "paused" => d \in gone
    OBVIOUS
  <2> HIDE DEF gone
  <2> QED
    BY <2>1, <2>2
<1>6. ASSUME InsertRows(j)
      PROVE  /\ \A d \in Days : rows'[d] = rows[d] \/ (d \in job[j].new /\ rows'[d].status = "scheduled")
             /\ \A d \in Days : d \in job[j].new => rows'[d].status # "none"
  <2> DEFINE new == job[j].new
  <2>1. rows' = [d \in Days |-> IF d \in new /\ rows[d].status = "none"
                                THEN [rows[d] EXCEPT !.status = "scheduled"]
                                ELSE rows[d]]
    BY <1>6 DEF InsertRows
  <2> HIDE DEF new
  <2>2. /\ \A d \in Days : rows'[d] = rows[d] \/ (d \in new /\ rows'[d].status = "scheduled")
        /\ \A d \in Days : d \in new => rows'[d].status # "none"
    BY <1>1, <2>1 DEF RowStates
  <2> QED
    BY <2>2 DEF new
<1> QED
  BY <1>2, <1>3, <1>4, <1>5, <1>6

(* What the generator is about to write is on the rule.                    *)
LEMMA GeneratingIsOnRule ==
    ASSUME KeepsTheRule, TypeInv, NEW j \in Jobs, NEW u \in Nat
    PROVE  /\ Generating(j, u).phase = "generating" => \A d \in Generating(j, u).new : OnRule(d)
           /\ Generating(j, u).phase # "skipping"
<1>1. today + Horizon \in Nat
  BY Numbers DEF TypeInv, TypeOK
<1>2. \A d \in Upcoming(u, today + Horizon) : OnRule(d)
  BY <1>1, UpcomingIs
<1> QED
  BY <1>2, GeneratingHasType

LEMMA RuleNext ==
    ASSUME KeepsTheRule, SubsInv, TypeInv, RuleInv, Next
    PROVE  RuleInv'
<1>1. CASE \E j \in Requests : CreateSubscription(j)
  <2>1. PICK j \in Requests : CreateSubscription(j)
    BY <1>1
  <2>2. /\ j \in Jobs /\ Become(j, Generating(j, 0)) /\ 0 \in Nat
        /\ rows' = rows
    BY <2>1 DEF CreateSubscription, Jobs
  <2> QED
    BY <2>2, GeneratingIsOnRule, RuleStep
<1>2. CASE \E j \in Requests : ReadToDelete(j) \/ \E to \in Statuses : ReadToUpdate(j, to)
  <2>1. PICK j \in Requests : ReadToDelete(j) \/ \E to \in Statuses : ReadToUpdate(j, to)
    BY <1>2
  <2>2. PICK h : Become(j, h) /\ h.phase \in {"clearing", "saving", "deleting"}
    <3>1. ASSUME ReadToDelete(j)
          PROVE  \E h : Become(j, h) /\ h.phase \in {"clearing", "saving", "deleting"}
      BY <3>1 DEF ReadToDelete
    <3>2. ASSUME NEW to \in Statuses, ReadToUpdate(j, to)
          PROVE  \E h : Become(j, h) /\ h.phase \in {"clearing", "saving", "deleting"}
      BY <3>2 DEF ReadToUpdate
    <3> QED
      BY <2>1, <3>1, <3>2
  <2>3. rows' = rows /\ j \in Jobs
    BY <2>1 DEF ReadToDelete, ReadToUpdate, Jobs
  <2> QED
    BY <2>2, <2>3, RuleStep
<1>3. CASE \E j \in Requests, d \in Days, reason \in BOOLEAN : ReadToSkip(j, d, reason)
  <2>1. PICK j \in Requests, d \in Days, reason \in BOOLEAN : ReadToSkip(j, d, reason)
    BY <1>3
  <2> DEFINE ref == [day |-> d, id |-> rows[d].id]
             h == [phase |-> "skipping", row |-> ref, reason |-> reason]
  <2>2. Become(j, h) /\ rows' = rows /\ j \in Jobs /\ rows[d].status = "scheduled"
    BY <2>1 DEF ReadToSkip, Jobs
  <2>3. OnRule(d)
    BY <2>2 DEF RuleInv, RowsOnRule
  <2>4. h.phase = "skipping" /\ h.row.day = d
    OBVIOUS
  <2> HIDE DEF h
  <2> QED
    BY <2>2, <2>3, <2>4, RuleStep
<1>4. CASE \E s \in Sweepers : SweepReads(s)
  <2>1. PICK s \in Sweepers : SweepReads(s)
    BY <1>4
  <2>2. s \in Jobs /\ sub \in Subs
    BY <2>1 DEF SweepReads, Jobs, TypeInv, TypeOK
  <2>3. PICK h \in {Generating(s, sub.until), [phase |-> "listing"]} : Become(s, h)
    BY <2>1 DEF SweepReads
  <2>4. sub.until \in Nat
    BY <2>2, SubTypes
  <2>5. (h.phase = "generating" => \A d \in h.new : OnRule(d)) /\ h.phase # "skipping"
    BY <2>2, <2>3, <2>4, GeneratingIsOnRule
  <2>6. rows' = rows
    BY <2>1 DEF SweepReads
  <2> QED
    BY <2>2, <2>3, <2>5, <2>6, RuleStep
<1>5. CASE \E j \in Jobs : Crash(j)
  BY <1>5, RuleStep DEF Crash, Idle
<1>6. CASE NextDay
  BY <1>6 DEF NextDay, RuleInv, RowsOnRule, JobsOnRule
<1>7. ASSUME NEW j \in Jobs, Step(j)
      PROVE  RuleInv'
  <2>1. CASE InsertRows(j)
    <3>1. \A d \in job[j].new : OnRule(d)
      BY <2>1 DEF RuleInv, JobsOnRule, InsertRows
    <3>2. \A d \in Days : rows'[d].status # "none" => rows[d].status # "none" \/ OnRule(d)
      BY <2>1, <3>1, RowsOf
    <3>3. PICK h : Become(j, h) /\ h.phase = "marking"
      BY <2>1 DEF InsertRows
    <3> QED
      BY <3>2, <3>3, RuleStep
  <2>2. CASE MarkGenerated(j)
    <3>1. Generated(j).phase \in {"listing", "idle"}
      BY DEF Generated, Idle
    <3> QED
      BY <2>2, <3>1, RuleStep DEF MarkGenerated
  <2>3. CASE ClearPaused(j)
    <3>1. PICK h : Become(j, h) /\ h.phase = "saving"
      BY <2>3 DEF ClearPaused
    <3> QED
      BY <2>3, <3>1, RowsOf, RuleStep
  <2>4. CASE SaveSubscription(j)
    <3>1. PICK h \in JobStates \cup {Idle} :
             /\ Become(j, h)
             /\ h.phase \in {"generating", "listing", "cancelling", "idle"}
             /\ job[j].after = "generate" => h = Generating(j, job[j].new.until)
             /\ job[j].after = "cancel" => h.phase = "cancelling"
             /\ job[j].after \notin {"generate", "cancel"} => h = Idle
      BY <2>4, SaverIs
    <3>2. job[j].new.until \in Nat
      BY <2>4, SavedIs, SubTypes
    <3>3. h.phase = "generating" => \A d \in h.new : OnRule(d)
      BY <3>1, <3>2, GeneratingIsOnRule DEF Idle
    <3>4. rows' = rows
      BY <2>4 DEF SaveSubscription
    <3> QED
      BY <3>1, <3>3, <3>4, RuleStep
  <2>5. CASE CancelScheduled(j)
    BY <2>5, RowsOf, RuleStep DEF CancelScheduled, Idle
  <2>6. CASE EndRows(j)
    <3>1. PICK h : Become(j, h) /\ h.phase = "saving"
      BY <2>6 DEF EndRows
    <3> QED
      BY <2>6, <3>1, RowsOf, RuleStep DEF QuietRows
  <2>7. CASE SaveSkip(j)
    <3>1. OnRule(job[j].row.day)
      BY <2>7 DEF RuleInv, JobsOnRule, SaveSkip
    <3>2. \A d \in Days : rows'[d].status # "none" => rows[d].status # "none" \/ OnRule(d)
      BY <2>7, <3>1, RowsOf
    <3> QED
      BY <2>7, <3>2, RuleStep DEF SaveSkip, Idle
  <2>8. CASE SweepMovesOn(j)
    <3>1. PICK h : Become(j, h) /\ h.phase \in SweepPhases \cup {"idle"}
      BY <2>8, SweepMovesOnIs
    <3>2. QuietRows
      BY <2>8, SweepMovesOnIs
    <3> QED
      BY <3>1, <3>2, RuleStep DEF QuietRows, SweepPhases
  <2> QED
    BY <1>7, <2>1, <2>2, <2>3, <2>4, <2>5, <2>6, <2>7, <2>8 DEF Step, SweepMovesOn
<1> QED
  BY <1>1, <1>2, <1>3, <1>4, <1>5, <1>6, <1>7 DEF Next

(***************************************************************************)
(* Deliveries fall on the days of the rule (nextOccurrenceOnOrAfter),      *)
(* through every pause, resumption, crash and sweep, for a weekly          *)
(* subscription and for a daily one that starts today or tomorrow.  The    *)
(* others do not: a month after the day of a resumption is any day, and    *)
(* the day after one may come before the start.                            *)
(***************************************************************************)
THEOREM DeliveriesKeepToTheRule ==
    ASSUME KeepsTheRule
    PROVE  Spec => []DeliveriesFollowTheRule
<1>1. Init => TypeInv /\ RuleInv
  <2>1. Init => RuleInv
    BY DEF Init, RuleInv, RowsOnRule, JobsOnRule, Idle
  <2> QED
    BY <2>1, InitHasTypes
<1>2. SubsInv /\ TypeInv /\ RuleInv /\ [Next]_vars => TypeInv' /\ RuleInv'
  <2>1. ASSUME RuleInv, UNCHANGED vars PROVE RuleInv'
    BY <2>1 DEF vars, RuleInv, RowsOnRule, JobsOnRule
  <2> QED
    BY <2>1, NextKeepsTypes, StutterKeepsTypes, RuleNext
<1>3. RuleInv => DeliveriesFollowTheRule
  BY DEF RuleInv, RowsOnRule, OnRule, DeliveriesFollowTheRule
<1> QED
  BY <1>1, <1>2, <1>3, SubscriptionsStaySound, PTL DEF Spec

-----------------------------------------------------------------------------
(* Gaps                                                                    *)

(* An update that has not finished: what it has read still holds.          *)
UpdateIsRight(j) ==
    /\ job[j].phase \in {"clearing", "saving", "deleting"} => job[j].copy.status = sub.status
    /\ job[j].phase = "clearing" => job[j].copy.status = "paused" /\ job[j].since <= today
    /\ (job[j].phase = "saving" /\ job[j].after = "generate") =>
          /\ job[j].copy.status = "paused"
          /\ job[j].new.status = "active" /\ job[j].new.until <= today
    /\ (job[j].phase = "saving" /\ job[j].after # "generate") =>
          /\ job[j].new.until = job[j].copy.until
          /\ job[j].new.status = "active" => job[j].after = "nothing" /\ job[j].copy.status # "paused"
    /\ job[j].phase = "cancelling" => sub.status # "active"

AtMostOneUpdate == \A j, k \in Updating : j = k

(* Nothing is generated beyond the horizon.                                *)
WithinHorizon ==
    /\ sub.until <= today + Horizon
    /\ \A j \in Jobs :
          /\ job[j].phase = "generating" => job[j].new \subseteq 1..(today + Horizon)
          /\ job[j].phase = "marking" => job[j].until <= today + Horizon

Resuming(j) == job[j].phase = "saving" /\ job[j].after = "generate"

NonePausedAhead ==
    (sub.status = "active" \/ \E j \in Requests : Resuming(j)) =>
        \A d \in Days : d > today => rows[d].status # "paused"

(* A day without a row will be written by the request under way, or is     *)
(* beyond what has been marked as written, or will be.                     *)
ComesWithRequest(d) == \E q \in Requests : job[q].phase = "generating" /\ d \in job[q].new

BeyondJob(d, j) ==
    /\ job[j].phase = "marking" => d > job[j].until
    /\ job[j].phase = "generating" => d \in job[j].new \/ d > Max(job[j].new)

NotMissing(d) ==
    \/ rows[d].status # "none"
    \/ ComesWithRequest(d)
    \/ d > sub.until /\ \A j \in Jobs : BeyondJob(d, j)

NoneMissing ==
    sub.status = "active" => \A d \in Days : d > today /\ OnRule(d) => NotMissing(d)

Regular ==
    /\ AtMostOneUpdate /\ (\A j \in Requests : UpdateIsRight(j))
    /\ WithinHorizon /\ NonePausedAhead /\ NoneMissing

GapInv == ~irregular => Regular

-----------------------------------------------------------------------------
LEMMA UpdatingIs ==
    ASSUME TypeInv
    PROVE  /\ Updating \subseteq Requests
           /\ \A j \in Requests : j \in Updating <=> job[j].phase \notin {"idle", "skipping"}
<1>1. \A j \in Requests : job[j] \in JobStates \cup {Idle}
  BY DEF TypeInv, TypeOK, Jobs
<1>2. \A j \in Requests : job[j] # Idle <=> job[j].phase # "idle"
  BY <1>1, JobFacts DEF Idle
<1> QED
  BY <1>2 DEF Updating

LEMMA UpdatingIsPrime ==
    ASSUME TypeInv'
    PROVE  /\ Updating' \subseteq Requests
           /\ \A j \in Requests : j \in Updating' <=> job'[j].phase \notin {"idle", "skipping"}
<1>1. \A j \in Requests : job'[j] \in JobStates \cup {Idle}
  BY DEF TypeInv, TypeOK, Jobs
<1>2. \A j \in Requests : job'[j] # Idle <=> job'[j].phase # "idle"
  BY <1>1, JobFacts DEF Idle
<1> QED
  BY <1>2 DEF Updating

LEMMA DayFacts ==
    ASSUME TypeInv
    PROVE  /\ today \in Nat /\ today + Horizon \in Nat /\ Horizon \in Nat \ {0}
           /\ 1..(today + Horizon) \subseteq Days
           /\ \A d \in Days : d \in Nat /\ d >= 1
BY Numbers DEF TypeInv, TypeOK

(* Who is not at an update when one is.                                    *)
LEMMA OthersDoNotUpdate ==
    ASSUME TypeInv, AtMostOneUpdate, NEW j \in Requests, job[j].phase \notin {"idle", "skipping"},
           NEW k \in Requests, k # j
    PROVE  job[k].phase \in {"idle", "skipping"}
BY UpdatingIs DEF AtMostOneUpdate

(* Most steps: the request goes on with its update or ends it, the         *)
(* subscription and the day stay, and the rows are quiet.                  *)
LEMMA UpdatesGoOn ==
    ASSUME TypeInv, TypeInv', AtMostOneUpdate, NEW j \in Jobs, NEW h, Become(j, h),
           h.phase \in {"idle", "skipping"} \/ j \in Sweepers \/ job[j].phase \notin {"idle", "skipping"}
                \/ Updating = {}
    PROVE  AtMostOneUpdate'
<1>1. job'[j] = h /\ \A k \in Jobs \ {j} : job'[k] = job[k]
  BY OneJobMoves
<1>2. \A k \in Requests : k \in Jobs /\ (k = j => j \notin Sweepers)
  BY Numbers DEF Jobs
<1>3. ASSUME NEW k \in Updating' PROVE k \in Updating \/ (k = j /\ Updating = {})
  BY <1>1, <1>2, <1>3, UpdatingIs, UpdatingIsPrime
<1> QED
  BY <1>3 DEF AtMostOneUpdate

LEMMA OthersStayRight ==
    ASSUME TypeInv, Regular, NEW j \in Jobs, NEW h, Become(j, h), today' >= today, today' \in Nat,
           NEW k \in Requests, k # j,
           sub'.status = sub.status \/ job[k].phase \in {"idle", "skipping"}
    PROVE  UpdateIsRight(k)'
<1>1. job'[k] = job[k]
  BY OneJobMoves DEF Jobs
<1>2. UpdateIsRight(k)
  BY DEF Regular
<1>3. CASE job[k].phase \in {"idle", "skipping"}
  BY <1>1, <1>3 DEF UpdateIsRight
<1>4. CASE sub'.status = sub.status /\ today' = today
  BY <1>1, <1>2, <1>4 DEF UpdateIsRight
<1>5. CASE sub'.status = sub.status /\ job[k].phase \notin {"idle", "skipping"}
  <2>1. job[k] \in JobStates \cup {Idle}
    BY DEF TypeInv, TypeOK, Jobs
  <2>2. /\ job[k].phase = "clearing" => job[k].since \in Nat
        /\ job[k].phase = "saving" => job[k].new.until \in Nat
    BY <2>1, JobFacts, SubTypes, DayFacts
  <2>3. job[k].phase = "clearing" => job[k].since <= today'
    BY <1>2, <2>2, DayFacts DEF UpdateIsRight
  <2>4. Resuming(k) => job[k].new.until <= today'
    BY <1>2, <2>2, DayFacts DEF UpdateIsRight, Resuming
  <2> QED
    BY <1>1, <1>2, <1>5, <2>3, <2>4 DEF UpdateIsRight, Resuming
<1> QED
  BY <1>3, <1>5

(* The jobs that have nothing to do with generating.                       *)
LEMMA HorizonStays ==
    ASSUME TypeInv, Regular, NEW j \in Jobs, NEW h, Become(j, h), UNCHANGED today,
           sub'.until = sub.until \/ sub'.until <= today + Horizon,
           h.phase = "generating" => h.new \subseteq 1..(today + Horizon),
           h.phase = "marking" => h.until <= today + Horizon
    PROVE  WithinHorizon'
<1>1. sub'.until <= today + Horizon
  BY DEF Regular, WithinHorizon
<1>2. ASSUME NEW k \in Jobs
      PROVE  /\ job'[k].phase = "generating" => job'[k].new \subseteq 1..(today + Horizon)
             /\ job'[k].phase = "marking" => job'[k].until <= today + Horizon
  BY OneJobMoves DEF Regular, WithinHorizon
<1> QED
  BY <1>1, <1>2 DEF WithinHorizon

LEMMA NotMissingStays ==
    ASSUME TypeInv, NEW j \in Jobs, NEW h, Become(j, h), NEW d \in Days, NotMissing(d),
           rows'[d].status = "none" => rows[d].status = "none",
           rows'[d].status = "none" /\ j \in Requests /\ job[j].phase = "generating" => d \notin job[j].new,
           rows'[d].status = "none" /\ d > sub.until /\ BeyondJob(d, j)  =>
               /\ d > sub'.until
               /\ h.phase = "marking" => d > h.until
               /\ h.phase = "generating" => d \in h.new \/ d > Max(h.new)
    PROVE  NotMissing(d)'
<1>1. job'[j] = h /\ \A k \in Jobs \ {j} : job'[k] = job[k]
  BY OneJobMoves
<1>2. CASE rows'[d].status # "none"
  BY <1>2 DEF NotMissing
<1>3. CASE rows'[d].status = "none" /\ ComesWithRequest(d)
  <2>1. PICK q \in Requests : job[q].phase = "generating" /\ d \in job[q].new
    BY <1>3 DEF ComesWithRequest
  <2>2. q # j /\ q \in Jobs
    BY <1>3, <2>1 DEF Jobs
  <2> QED
    BY <1>1, <2>1, <2>2 DEF NotMissing, ComesWithRequest
<1>4. CASE rows'[d].status = "none" /\ d > sub.until /\ \A k \in Jobs : BeyondJob(d, k)
  <2>1. d > sub'.until
    BY <1>4
  <2>2. ASSUME NEW k \in Jobs PROVE BeyondJob(d, k)'
    <3>1. CASE k = j
      BY <1>1, <1>4, <3>1 DEF BeyondJob
    <3>2. CASE k # j
      BY <1>1, <1>4, <3>2 DEF BeyondJob
    <3> QED
      BY <3>1, <3>2
  <2> QED
    BY <2>1, <2>2 DEF NotMissing
<1> QED
  BY <1>2, <1>3, <1>4 DEF NotMissing

(* No row goes away, and none becomes a paused one.                        *)
RowsLast ==
    \A d \in Days : /\ rows'[d].status = "none" => rows[d].status = "none"
                    /\ rows'[d].status = "paused" => rows[d].status = "paused"

LEMMA NonePausedStays ==
    ASSUME TypeInv, Regular, NEW j \in Jobs, NEW h, Become(j, h), UNCHANGED today, RowsLast,
           sub'.status = sub.status, h.phase = "saving" => h.after # "generate"
    PROVE  NonePausedAhead'
<1>1. job'[j] = h /\ \A k \in Jobs \ {j} : job'[k] = job[k]
  BY OneJobMoves
<1>2. ASSUME NEW k \in Requests, Resuming(k)' PROVE Resuming(k)
  BY <1>1, <1>2 DEF Resuming, Jobs
<1> QED
  BY <1>2 DEF Regular, NonePausedAhead, RowsLast

(* A step that is none of an update's and writes nothing that was          *)
(* generated.                                                              *)
LEMMA PlainStep ==
    ASSUME TypeInv, TypeInv', Regular, NEW j \in Jobs, NEW h, Become(j, h),
           UNCHANGED <<sub, today>>, RowsLast,
           h.phase \in {"idle", "skipping"} \/ (j \in Sweepers /\ h.phase \in SweepPhases \cup {"listing"}),
           j \in Requests => job[j].phase # "generating"
    PROVE  Regular'
<1>1. AtMostOneUpdate'
  BY UpdatesGoOn DEF Regular
<1>2. job'[j] = h
  BY OneJobMoves
<1>3. h.phase \notin {"clearing", "saving", "deleting", "cancelling", "generating", "marking"}
  BY DEF SweepPhases
<1>4. ASSUME NEW k \in Requests PROVE UpdateIsRight(k)'
  <2>1. CASE k = j
    BY <1>2, <1>3, <2>1 DEF UpdateIsRight
  <2>2. CASE k # j
    BY <2>2, DayFacts, OthersStayRight
  <2> QED
    BY <2>1, <2>2
<1>5. WithinHorizon'
  BY <1>3, HorizonStays
<1>6. NonePausedAhead'
  BY <1>3, NonePausedStays
<1>7. NoneMissing'
  <2> SUFFICES ASSUME sub.status = "active", NEW d \in Days, d > today, OnRule(d)
               PROVE  NotMissing(d)'
    BY DEF NoneMissing
  <2>1. NotMissing(d)
    BY DEF Regular, NoneMissing
  <2> QED
    BY <1>3, <2>1, NotMissingStays DEF RowsLast
<1> QED
  BY <1>1, <1>4, <1>5, <1>6, <1>7 DEF Regular

LEMMA CreateKeepsRegular ==
    ASSUME Frequency # "monthly", TypeInv, TypeInv', NEW j \in Requests, CreateSubscription(j)
    PROVE  Regular'
<1> DEFINE h == Generating(j, 0)
           new == Upcoming(0, today + Horizon)
<1>1. /\ sub = NoSub /\ sub' = [status |-> "active", until |-> 0] /\ Become(j, h)
      /\ UNCHANGED <<rows, today>> /\ j \in Jobs
  BY DEF CreateSubscription, Jobs
<1>2. \A k \in Jobs : job[k].phase = "idle"
  BY <1>1 DEF TypeInv, Fresh, Idle
<1>3. job'[j] = h /\ \A k \in Jobs \ {j} : job'[k].phase = "idle"
  BY <1>1, <1>2, OneJobMoves
<1>4. /\ h.phase \in {"generating", "listing", "idle"}
      /\ h.phase = "generating" => h.new = new
      /\ new # {} => h = [phase |-> "generating", new |-> new]
  BY <1>1, GeneratingHasType
<1>5. /\ new \subseteq 1..(today + Horizon)
      /\ \A d \in 1..(today + Horizon) : OnRule(d) => d \in new
  <2>1. \A d \in 1..(today + Horizon) : d > 0
    BY DayFacts
  <2> QED
    BY <2>1, DayFacts, UpcomingIs
<1> HIDE DEF h, new
<1>6. AtMostOneUpdate'
  <2>1. \A k \in Updating' : k = j
    BY <1>3, UpdatingIsPrime DEF Jobs
  <2> QED
    BY <2>1 DEF AtMostOneUpdate
<1>7. \A k \in Requests : UpdateIsRight(k)'
  BY <1>3, <1>4 DEF UpdateIsRight, Jobs
<1>8. WithinHorizon'
  <2>1. sub'.until <= today' + Horizon
    BY <1>1, DayFacts
  <2>2. ASSUME NEW k \in Jobs
        PROVE  /\ job'[k].phase = "generating" => job'[k].new \subseteq 1..(today + Horizon)
               /\ job'[k].phase # "marking"
    BY <1>3, <1>4, <1>5
  <2> QED
    BY <1>1, <2>1, <2>2 DEF WithinHorizon
<1>9. NonePausedAhead'
  BY <1>1 DEF NonePausedAhead, TypeInv, Fresh
<1>10. NoneMissing'
  <2> SUFFICES ASSUME NEW d \in Days, OnRule(d) PROVE NotMissing(d)'
    BY DEF NoneMissing
  <2>1. CASE d <= today + Horizon
    <3>1. d \in new
      BY <1>5, <2>1, DayFacts
    <3>2. job'[j].phase = "generating" /\ d \in job'[j].new
      BY <1>3, <1>4, <3>1
    <3> QED
      BY <3>2 DEF NotMissing, ComesWithRequest
  <2>2. CASE d > today + Horizon
    <3>1. d > sub'.until
      BY <1>1, DayFacts
    <3>2. h.phase = "generating" => d > Max(h.new)
      <4> SUFFICES ASSUME h.phase = "generating" PROVE d > Max(new)
        BY <1>4
      <4>1. new # {} /\ new \in SUBSET (0..(today + Horizon))
        <5>1. h.new # {}
          BY <1>1, GeneratingHasType DEF h
        <5> QED
          BY <1>4, <1>5, <5>1
      <4>2. Max(new) \in new
        BY <4>1, DayFacts, GreatestIsThere
      <4> QED
        <5> DEFINE m == Max(new)
        <5>1. m \in 1..(today + Horizon)
          BY <1>5, <4>2
        <5> HIDE DEF m
        <5>2. d > m
          BY <2>2, <5>1, DayFacts
        <5> QED
          BY <5>2 DEF m
    <3>3. \A k \in Jobs : BeyondJob(d, k)'
      BY <1>3, <1>4, <3>2 DEF BeyondJob
    <3> QED
      BY <3>1, <3>3 DEF NotMissing
  <2> QED
    BY <2>1, <2>2, DayFacts
<1> QED
  BY <1>6, <1>7, <1>8, <1>9, <1>10 DEF Regular

(* Marks and lists of the generator are within the horizon.                *)
LEMMA LastNewIsNear ==
    ASSUME TypeInv, Regular, NEW j \in Jobs, job[j].phase = "generating"
    PROVE  /\ Max(job[j].new) \in job[j].new /\ Max(job[j].new) \in Nat
           /\ Max(job[j].new) <= today + Horizon
<1> DEFINE new == job[j].new
<1>1. new # {} /\ new \subseteq 1..(today + Horizon)
  BY DEF TypeInv, SomeIsNew, Regular, WithinHorizon
<1> HIDE DEF new
<1>2. new \in SUBSET (0..(today + Horizon))
  BY <1>1, DayFacts
<1>3. Max(new) \in new
  BY <1>1, <1>2, DayFacts, GreatestIsThere
<1>4. Max(new) \in Nat /\ Max(new) <= today + Horizon
  <2> DEFINE m == Max(new)
  <2>1. m \in 1..(today + Horizon)
    BY <1>1, <1>3
  <2> HIDE DEF m
  <2>2. m \in Nat /\ m <= today + Horizon
    BY <2>1, DayFacts
  <2> QED
    BY <2>2 DEF m
<1> QED
  BY <1>3, <1>4 DEF new

LEMMA InsertRowsKeepsRegular ==
    ASSUME TypeInv, TypeInv', Regular, NEW j \in Jobs, InsertRows(j)
    PROVE  Regular'
<1> DEFINE m == Max(job[j].new)
           h == [phase |-> "marking", until |-> m]
<1>1. /\ Become(j, h) /\ job[j].phase = "generating" /\ UNCHANGED <<sub, today>>
  BY DEF InsertRows
<1>2. h.phase = "marking" /\ h.until = m
  OBVIOUS
<1>3. m \in Nat /\ m <= today + Horizon
  BY <1>1, LastNewIsNear
<1> HIDE DEF h
<1>4. /\ RowsLast
      /\ \A d \in Days : d \in job[j].new => rows'[d].status # "none"
  BY RowsOf DEF RowsLast
<1>5. AtMostOneUpdate'
  BY <1>1, UpdatesGoOn DEF Regular
<1>6. job'[j] = h
  BY <1>1, OneJobMoves
<1>7. ASSUME NEW k \in Requests PROVE UpdateIsRight(k)'
  <2>1. CASE k = j
    BY <1>2, <1>6, <2>1 DEF UpdateIsRight
  <2>2. CASE k # j
    BY <1>1, <2>2, DayFacts, OthersStayRight
  <2> QED
    BY <2>1, <2>2
<1>8. WithinHorizon'
  BY <1>1, <1>2, <1>3, HorizonStays
<1>9. NonePausedAhead'
  BY <1>1, <1>2, <1>4, NonePausedStays
<1>10. NoneMissing'
  <2> SUFFICES ASSUME sub.status = "active", NEW d \in Days, d > today, OnRule(d)
               PROVE  NotMissing(d)'
    BY <1>1 DEF NoneMissing
  <2>1. NotMissing(d)
    BY DEF Regular, NoneMissing
  <2>2. rows'[d].status = "none" => d \notin job[j].new
    BY <1>4
  <2>3. rows'[d].status = "none" /\ BeyondJob(d, j) => d > m
    BY <1>1, <2>2 DEF BeyondJob
  <2> HIDE DEF m
  <2> QED
    BY <1>1, <1>2, <1>4, <2>1, <2>2, <2>3, NotMissingStays DEF RowsLast
<1> QED
  BY <1>5, <1>7, <1>8, <1>9, <1>10 DEF Regular

LEMMA MarkGeneratedKeepsRegular ==
    ASSUME TypeInv, TypeInv', Regular, NEW j \in Jobs, MarkGenerated(j)
    PROVE  Regular'
<1> DEFINE h == Generated(j)
           m == job[j].until
<1>1. /\ Become(j, h) /\ job[j].phase = "marking" /\ sub' = [sub EXCEPT !.until = m]
      /\ UNCHANGED <<rows, today>>
  BY DEF MarkGenerated
<1>2. h.phase \in {"listing", "idle"} /\ (j \in Requests => h.phase = "idle")
  BY Numbers DEF Generated, Idle
<1>3. job[j] \in JobStates \cup {Idle} /\ sub \in Subs
  BY <1>1, WhoWorksHasOne DEF TypeInv, TypeOK
<1>4. m \in Days /\ m <= today + Horizon
  BY <1>1, <1>3, JobFacts DEF Regular, WithinHorizon
<1> HIDE DEF m, h
<1>5. sub'.status = sub.status /\ sub'.until = m
  <2>1. sub' = [status |-> sub.status, until |-> m]
    BY <1>1, <1>3, <1>4, SubTypes
  <2> QED
    BY <2>1
<1>6. RowsLast
  BY <1>1 DEF RowsLast
<1>7. AtMostOneUpdate'
  BY <1>1, <1>2, UpdatesGoOn DEF Regular, Jobs
<1>8. job'[j] = h
  BY <1>1, OneJobMoves
<1>9. ASSUME NEW k \in Requests PROVE UpdateIsRight(k)'
  <2>1. CASE k = j
    BY <1>2, <1>8, <2>1 DEF UpdateIsRight
  <2>2. CASE k # j
    BY <1>1, <1>5, <2>2, DayFacts, OthersStayRight
  <2> QED
    BY <2>1, <2>2
<1>10. WithinHorizon'
  BY <1>1, <1>2, <1>4, <1>5, HorizonStays
<1>11. NonePausedAhead'
  BY <1>1, <1>2, <1>5, <1>6, NonePausedStays
<1>12. NoneMissing'
  <2> SUFFICES ASSUME sub.status = "active", NEW d \in Days, d > today, OnRule(d)
               PROVE  NotMissing(d)'
    BY <1>1, <1>5 DEF NoneMissing
  <2>1. NotMissing(d)
    BY DEF Regular, NoneMissing
  <2>2. BeyondJob(d, j) => d > m
    BY <1>1 DEF BeyondJob, m
  <2> QED
    BY <1>1, <1>2, <1>5, <1>6, <2>1, <2>2, NotMissingStays DEF RowsLast
<1> QED
  BY <1>7, <1>9, <1>10, <1>11, <1>12 DEF Regular

-----------------------------------------------------------------------------
(* Updates                                                                 *)

(* An update that takes a step without touching the subscription.          *)
LEMMA UpdateGoesOn ==
    ASSUME TypeInv, TypeInv', Regular, NEW j \in Requests, NEW h, Become(j, h),
           UNCHANGED <<sub, today>>, RowsLast, AtMostOneUpdate', UpdateIsRight(j)',
           h.phase \notin {"generating", "marking"}, job[j].phase # "generating",
           h.phase = "saving" => h.after # "generate"
    PROVE  Regular'
<1>1. j \in Jobs
  BY DEF Jobs
<1>2. ASSUME NEW k \in Requests, k # j PROVE UpdateIsRight(k)'
  BY <1>1, <1>2, DayFacts, OthersStayRight
<1>3. WithinHorizon'
  BY <1>1, HorizonStays
<1>4. NonePausedAhead'
  BY <1>1, NonePausedStays
<1>5. NoneMissing'
  <2> SUFFICES ASSUME sub.status = "active", NEW d \in Days, d > today, OnRule(d)
               PROVE  NotMissing(d)'
    BY DEF NoneMissing
  <2>1. NotMissing(d)
    BY DEF Regular, NoneMissing
  <2> QED
    BY <1>1, <2>1, NotMissingStays DEF RowsLast
<1> QED
  BY <1>2, <1>3, <1>4, <1>5 DEF Regular

(* If it is the first one it stays regular.                                *)
LEMMA FirstToUpdate ==
    ASSUME TypeInv, Crossing, ~irregular', NEW j \in Requests
    PROVE  Updating = {} /\ job[j].phase \in {"idle", "skipping"}
BY UpdatingIs DEF Crossing

LEMMA ReadToUpdateKeepsRegular ==
    ASSUME TypeInv, TypeInv', Regular, ~irregular', NEW j \in Requests, NEW to \in Statuses,
           ReadToUpdate(j, to)
    PROVE  Regular'
<1> DEFINE new == [sub EXCEPT !.status = to]
           after == IF to = "active" THEN "nothing" ELSE "cancel"
           c == [phase |-> "clearing", copy |-> sub, since |-> today]
           w == [phase |-> "saving", copy |-> sub, new |-> new, after |-> after]
           h == IF sub.status = "paused" /\ to = "active" THEN c ELSE w
<1>1. /\ Become(j, h) /\ sub # NoSub /\ Crossing /\ UNCHANGED <<sub, rows, today>>
  BY DEF ReadToUpdate
<1>2. sub \in Subs /\ j \in Jobs
  BY <1>1 DEF TypeInv, TypeOK, Jobs
<1>3. Updating = {} /\ job[j].phase \in {"idle", "skipping"}
  BY <1>1, FirstToUpdate
<1>4. new = [status |-> to, until |-> sub.until]
  BY <1>2, SubTypes
<1>5. new.status = to /\ new.until = sub.until
  BY <1>4
<1>6. /\ c.phase = "clearing" /\ c.copy = sub /\ c.since = today
      /\ w.phase = "saving" /\ w.copy = sub /\ w.new = new /\ w.after = after
  OBVIOUS
<1>7. after \in {"nothing", "cancel"} /\ (to = "active" <=> after = "nothing")
  OBVIOUS
<1> HIDE DEF new, after, c, w
<1>8. \/ h = c /\ sub.status = "paused"
      \/ h = w /\ (to = "active" => sub.status # "paused")
  OBVIOUS
<1> HIDE DEF h
<1>9. AtMostOneUpdate'
  BY <1>1, <1>2, <1>3, UpdatesGoOn DEF Regular
<1>10. job'[j] = h
  BY <1>1, <1>2, OneJobMoves
<1>11. UpdateIsRight(j)'
  <2>1. today <= today
    BY DayFacts
  <2>2. CASE h = c /\ sub.status = "paused"
    BY <1>1, <1>6, <1>10, <2>1, <2>2 DEF UpdateIsRight
  <2>3. CASE h = w /\ (to = "active" => sub.status # "paused")
    BY <1>1, <1>5, <1>6, <1>7, <1>10, <2>3 DEF UpdateIsRight
  <2> QED
    BY <1>8, <2>2, <2>3
<1>12. RowsLast
  BY <1>1 DEF RowsLast
<1>13. h.phase \in {"clearing", "saving"} /\ (h.phase = "saving" => h.after # "generate")
  BY <1>6, <1>7, <1>8
<1> QED
  BY <1>1, <1>3, <1>9, <1>11, <1>12, <1>13, UpdateGoesOn

LEMMA ReadToDeleteKeepsRegular ==
    ASSUME TypeInv, TypeInv', Regular, ~irregular', NEW j \in Requests, ReadToDelete(j)
    PROVE  Regular'
<1> DEFINE h == [phase |-> "deleting", copy |-> sub, since |-> today]
<1>1. /\ Become(j, h) /\ Crossing /\ UNCHANGED <<sub, rows, today>>
  BY DEF ReadToDelete
<1>2. j \in Jobs
  BY DEF Jobs
<1>3. Updating = {} /\ job[j].phase \in {"idle", "skipping"}
  BY <1>1, FirstToUpdate
<1>4. h.phase = "deleting" /\ h.copy = sub
  OBVIOUS
<1> HIDE DEF h
<1>5. AtMostOneUpdate'
  BY <1>1, <1>2, <1>3, UpdatesGoOn DEF Regular
<1>6. job'[j] = h
  BY <1>1, <1>2, OneJobMoves
<1>7. UpdateIsRight(j)'
  BY <1>1, <1>4, <1>6 DEF UpdateIsRight
<1>8. RowsLast
  BY <1>1 DEF RowsLast
<1> QED
  BY <1>1, <1>3, <1>4, <1>5, <1>7, <1>8, UpdateGoesOn

LEMMA EndRowsKeepsRegular ==
    ASSUME TypeInv, TypeInv', Regular, NEW j \in Jobs, j \in Requests, EndRows(j)
    PROVE  Regular'
<1> DEFINE c == job[j].copy
           new == [c EXCEPT !.status = "cancelled"]
           h == [phase |-> "saving", copy |-> c, new |-> new, after |-> "nothing"]
<1>1. /\ Become(j, h) /\ job[j].phase = "deleting" /\ UNCHANGED <<sub, today>>
  BY DEF EndRows
<1>2. job[j] \in JobStates \cup {Idle} /\ c.status = sub.status
  BY <1>1 DEF TypeInv, TypeOK, Regular, UpdateIsRight
<1>3. c \in Subs
  BY <1>1, <1>2, JobFacts
<1> HIDE DEF c
<1>4. new = [status |-> "cancelled", until |-> c.until]
  BY <1>3, SubTypes DEF Statuses
<1>5. new.status = "cancelled" /\ new.until = c.until
  BY <1>4
<1> HIDE DEF new
<1>6. h.phase = "saving" /\ h.copy = c /\ h.new = new /\ h.after = "nothing"
  OBVIOUS
<1> HIDE DEF h
<1>7. AtMostOneUpdate'
  BY <1>1, UpdatesGoOn DEF Regular
<1>8. job'[j] = h
  BY <1>1, OneJobMoves
<1>9. UpdateIsRight(j)'
  BY <1>1, <1>2, <1>5, <1>6, <1>8 DEF UpdateIsRight
<1>10. RowsLast
  BY RowsOf DEF RowsLast, QuietRows
<1> QED
  BY <1>1, <1>6, <1>7, <1>9, <1>10, UpdateGoesOn

(* The rows of the pause go while the subscription is still paused.        *)
LEMMA ClearPausedKeepsRegular ==
    ASSUME TypeInv, TypeInv', Regular, NEW j \in Jobs, j \in Requests, ClearPaused(j)
    PROVE  Regular'
<1> DEFINE c == job[j].copy
           since == job[j].since
           new == [status |-> "active", until |-> since]
           h == [phase |-> "saving", copy |-> c, new |-> new, after |-> "generate"]
<1>1. /\ Become(j, h) /\ job[j].phase = "clearing" /\ UNCHANGED <<sub, today>>
  BY DEF ClearPaused
<1>2. /\ job[j] \in JobStates \cup {Idle}
      /\ c.status = sub.status /\ c.status = "paused" /\ since <= today
  BY <1>1 DEF TypeInv, TypeOK, Regular, UpdateIsRight
<1>3. since \in Nat
  BY <1>1, <1>2, JobFacts, DayFacts
<1>4. /\ h.phase = "saving" /\ h.copy = c /\ h.new = new /\ h.after = "generate"
      /\ new.status = "active" /\ new.until = since
  OBVIOUS
<1>5. \A d \in Days : d > since => rows'[d].status # "paused"
  BY RowsOf
<1> HIDE DEF h, new, c, since
<1>6. AtMostOneUpdate'
  BY <1>1, UpdatesGoOn DEF Regular
<1>7. job'[j] = h
  BY <1>1, OneJobMoves
<1>8. ASSUME NEW k \in Requests PROVE UpdateIsRight(k)'
  <2>1. CASE k = j
    BY <1>1, <1>2, <1>4, <1>7, <2>1 DEF UpdateIsRight
  <2>2. CASE k # j
    BY <1>1, <2>2, DayFacts, OthersStayRight
  <2> QED
    BY <2>1, <2>2
<1>9. WithinHorizon'
  BY <1>1, <1>4, HorizonStays
<1>10. NonePausedAhead'
  <2>1. \A d \in Days : d > today => rows'[d].status # "paused"
    BY <1>2, <1>3, <1>5, DayFacts
  <2> QED
    BY <1>1, <2>1 DEF NonePausedAhead
<1>11. NoneMissing'
  BY <1>1, <1>2 DEF NoneMissing
<1> QED
  BY <1>6, <1>8, <1>9, <1>10, <1>11 DEF Regular

LEMMA CancelScheduledKeepsRegular ==
    ASSUME TypeInv, TypeInv', Regular, NEW j \in Jobs, j \in Requests, CancelScheduled(j)
    PROVE  Regular'
<1>1. /\ Become(j, Idle) /\ job[j].phase = "cancelling" /\ UNCHANGED <<sub, today>>
      /\ Idle.phase = "idle"
  BY DEF CancelScheduled, Idle
<1>2. sub.status # "active"
  BY <1>1 DEF Regular, UpdateIsRight
<1>3. AtMostOneUpdate'
  BY <1>1, UpdatesGoOn DEF Regular
<1>4. job'[j] = Idle /\ \A k \in Jobs \ {j} : job'[k] = job[k]
  BY <1>1, OneJobMoves
<1>5. ASSUME NEW k \in Requests PROVE UpdateIsRight(k)'
  <2>1. CASE k = j
    BY <1>1, <1>4, <2>1 DEF UpdateIsRight
  <2>2. CASE k # j
    BY <1>1, <2>2, DayFacts, OthersStayRight
  <2> QED
    BY <2>1, <2>2
<1>6. WithinHorizon'
  BY <1>1, HorizonStays
<1>7. NonePausedAhead'
  <2>1. ASSUME NEW k \in Requests, Resuming(k)' PROVE FALSE
    <3>1. k # j
      BY <1>1, <1>4, <2>1 DEF Resuming
    <3>2. job[k].phase \in {"idle", "skipping"}
      BY <1>1, <3>1, OthersDoNotUpdate DEF Regular
    <3> QED
      BY <1>4, <2>1, <3>1, <3>2 DEF Resuming, Jobs
  <2> QED
    BY <1>1, <1>2, <2>1 DEF NonePausedAhead
<1>8. NoneMissing'
  BY <1>1, <1>2 DEF NoneMissing
<1> QED
  BY <1>3, <1>5, <1>6, <1>7, <1>8 DEF Regular

-----------------------------------------------------------------------------
(* Where the generator goes on from, all days of the rule are written or   *)
(* beyond the horizon.                                                     *)
LEMMA WrittenOrBeyond ==
    ASSUME Frequency # "monthly", TypeInv, NEW j \in Jobs, NEW u \in Nat, NEW h, h = Generating(j, u)
    PROVE  /\ h.phase \in {"generating", "listing", "idle"}
           /\ h.phase = "generating" => h.new \subseteq 1..(today + Horizon)
           /\ \A d \in Days : d > u /\ OnRule(d) =>
                 \/ h.phase = "generating" /\ d \in h.new
                 \/ d > today + Horizon /\ (h.phase = "generating" => d > Max(h.new))
<1> DEFINE new == Upcoming(u, today + Horizon)
<1>1. /\ h.phase \in {"generating", "listing", "idle"}
      /\ h.phase = "generating" => h.new = new /\ h.new # {}
      /\ new # {} => h.phase = "generating"
      /\ new \subseteq 1..(today + Horizon)
  BY GeneratingHasType
<1>2. \A d \in 1..(today + Horizon) : d > u /\ OnRule(d) => d \in new
  BY DayFacts, UpcomingIs
<1> HIDE DEF new
<1>3. ASSUME NEW d \in Days, d > today + Horizon, h.phase = "generating" PROVE d > Max(h.new)
  <2>1. new # {} /\ new \in SUBSET (0..(today + Horizon))
    BY <1>1, <1>3
  <2> DEFINE m == Max(new)
  <2>2. m \in 1..(today + Horizon)
    BY <1>1, <2>1, DayFacts, GreatestIsThere
  <2> HIDE DEF m
  <2>3. d > m
    BY <1>3, <2>2, DayFacts
  <2> QED
    BY <1>1, <1>3, <2>3 DEF m
<1>4. ASSUME NEW d \in Days, d > u, OnRule(d), ~(d > today + Horizon)
      PROVE  h.phase = "generating" /\ d \in h.new
  <2>1. d \in 1..(today + Horizon)
    BY <1>4, DayFacts
  <2> QED
    BY <1>1, <1>2, <1>4, <2>1
<1> QED
  BY <1>1, <1>3, <1>4

LEMMA SweepReadsKeepsRegular ==
    ASSUME Frequency # "monthly", TypeInv, TypeInv', Regular, NEW j \in Sweepers, SweepReads(j)
    PROVE  Regular'
<1> DEFINE g == Generating(j, sub.until)
           l == [phase |-> "listing"]
<1>1. /\ j \in Jobs /\ job[j] = Idle /\ sub \in Subs /\ UNCHANGED <<sub, rows, today>>
      /\ Become(j, IF sub.status = "active" THEN g ELSE l)
  BY DEF SweepReads, Jobs, TypeInv, TypeOK
<1>2. sub.until \in Nat
  BY <1>1, SubTypes
<1>3. l.phase = "listing" /\ RowsLast
  BY <1>1 DEF RowsLast
<1>4. job[j].phase = "idle" /\ j \notin Requests
  BY <1>1, Numbers DEF Idle
<1> HIDE DEF l
<1>5. CASE sub.status # "active"
  BY <1>1, <1>3, <1>4, <1>5, PlainStep
<1>6. CASE sub.status = "active"
  <2>1. Become(j, g)
    BY <1>1, <1>6
  <2>2. PICK h : h = g
    OBVIOUS
  <2>3. /\ h.phase \in {"generating", "listing", "idle"}
        /\ h.phase = "generating" => h.new \subseteq 1..(today + Horizon)
        /\ \A d \in Days : d > sub.until /\ OnRule(d) =>
              \/ h.phase = "generating" /\ d \in h.new
              \/ d > today + Horizon /\ (h.phase = "generating" => d > Max(h.new))
    BY <1>1, <1>2, <2>2, WrittenOrBeyond
  <2> HIDE DEF g
  <2>4. Become(j, h)
    BY <2>1, <2>2
  <2>5. AtMostOneUpdate'
    BY <1>1, <2>4, UpdatesGoOn DEF Regular
  <2>6. \A k \in Requests : UpdateIsRight(k)'
    BY <1>1, <1>4, <2>4, DayFacts, OthersStayRight
  <2>7. WithinHorizon'
    BY <1>1, <2>3, <2>4, HorizonStays
  <2>8. NonePausedAhead'
    BY <1>1, <1>3, <2>3, <2>4, NonePausedStays
  <2>9. NoneMissing'
    <3> SUFFICES ASSUME NEW d \in Days, d > today, OnRule(d)
                 PROVE  NotMissing(d)'
      BY <1>1 DEF NoneMissing
    <3>1. NotMissing(d)
      BY <1>6 DEF Regular, NoneMissing
    <3>2. d > sub.until => /\ h.phase # "marking"
                           /\ h.phase = "generating" => d \in h.new \/ d > Max(h.new)
      BY <2>3
    <3> QED
      BY <1>1, <1>4, <2>4, <3>1, <3>2, NotMissingStays
  <2> QED
    BY <2>5, <2>6, <2>7, <2>8, <2>9 DEF Regular
<1> QED
  BY <1>5, <1>6

(* The subscription becomes active again, and all days from tomorrow are   *)
(* about to be written.                                                    *)
LEMMA ResumingKeepsRegular ==
    ASSUME Frequency # "monthly", TypeInv, TypeInv', Regular, NEW j \in Requests, j \in Jobs,
           SaveSubscription(j), job[j].after = "generate"
    PROVE  Regular'
<1> DEFINE u == job[j].new.until
<1>1. /\ job[j].phase = "saving" /\ UNCHANGED <<rows, today>>
  BY DEF SaveSubscription
<1>2. /\ sub' \in Subs /\ sub \in Subs /\ job[j].new \in Subs
      /\ sub'.status = IF job[j].new.status # job[j].copy.status THEN job[j].new.status ELSE sub.status
      /\ sub'.until = IF u # job[j].copy.until THEN u ELSE sub.until
  BY SavedIs
<1>3. /\ job[j].copy.status = "paused" /\ job[j].new.status = "active" /\ u <= today
  BY <1>1 DEF Regular, UpdateIsRight
<1>4. PICK h : Become(j, h) /\ h = Generating(j, u)
  BY SaverIs
<1>5. u \in Nat
  BY <1>2, SubTypes
<1>6. sub'.status = "active"
  BY <1>2, <1>3
<1>7. sub'.until <= today + Horizon
  <2>1. sub.until <= today + Horizon
    BY DEF Regular, WithinHorizon
  <2>2. u <= today + Horizon
    BY <1>3, <1>5, DayFacts
  <2> QED
    BY <1>2, <2>1, <2>2
<1> HIDE DEF u
<1>8. /\ h.phase \in {"generating", "listing", "idle"}
      /\ h.phase = "generating" => h.new \subseteq 1..(today + Horizon)
      /\ \A d \in Days : d > u /\ OnRule(d) =>
            \/ h.phase = "generating" /\ d \in h.new
            \/ d > today + Horizon /\ (h.phase = "generating" => d > Max(h.new))
  BY <1>4, <1>5, WrittenOrBeyond
<1>9. job'[j] = h /\ \A k \in Jobs \ {j} : job'[k] = job[k]
  BY <1>4, OneJobMoves
<1>10. AtMostOneUpdate'
  BY <1>1, <1>4, UpdatesGoOn DEF Regular
<1>11. ASSUME NEW k \in Requests PROVE UpdateIsRight(k)'
  <2>1. CASE k = j
    BY <1>8, <1>9, <2>1 DEF UpdateIsRight
  <2>2. CASE k # j
    <3>1. job[k].phase \in {"idle", "skipping"}
      BY <1>1, <2>2, OthersDoNotUpdate DEF Regular
    <3> QED
      BY <1>1, <1>4, <2>2, <3>1, DayFacts, OthersStayRight
  <2> QED
    BY <2>1, <2>2
<1>12. WithinHorizon'
  BY <1>1, <1>4, <1>7, <1>8, HorizonStays
<1>13. NonePausedAhead'
  <2>1. \A d \in Days : d > today => rows[d].status # "paused"
    <3>1. Resuming(j)
      BY <1>1 DEF Resuming
    <3> QED
      BY <3>1 DEF Regular, NonePausedAhead
  <2> QED
    BY <1>1, <2>1 DEF NonePausedAhead
<1>14. NoneMissing'
  <2> SUFFICES ASSUME NEW d \in Days, d > today, OnRule(d)
               PROVE  NotMissing(d)'
    BY <1>1 DEF NoneMissing
  <2>1. d > u
    BY <1>3, <1>5, DayFacts
  <2>2. CASE h.phase = "generating" /\ d \in h.new
    BY <1>9, <2>2 DEF NotMissing, ComesWithRequest
  <2>3. CASE d > today + Horizon /\ (h.phase = "generating" => d > Max(h.new))
    <3>1. d > sub'.until
      <4>1. sub'.until \in Nat
        BY <1>2, SubTypes
      <4> QED
        BY <1>7, <2>3, <4>1, DayFacts
    <3>2. ASSUME NEW k \in Jobs PROVE BeyondJob(d, k)'
      <4>1. CASE k = j
        BY <1>8, <1>9, <2>3, <4>1 DEF BeyondJob
      <4>2. CASE k # j
        <5>1. job[k].phase = "marking" => job[k].until \in Nat /\ job[k].until <= today + Horizon
          <6>1. job[k] \in JobStates \cup {Idle}
            BY DEF TypeInv, TypeOK
          <6> QED
            BY <6>1, JobFacts, DayFacts DEF Regular, WithinHorizon
        <5>2. job[k].phase = "marking" => d > job[k].until
          BY <2>3, <5>1, DayFacts
        <5>3. job[k].phase = "generating" => d > Max(job[k].new)
          <6>1. job[k].phase = "generating" =>
                   Max(job[k].new) \in Nat /\ Max(job[k].new) <= today + Horizon
            BY LastNewIsNear
          <6> DEFINE m == Max(job[k].new)
          <6> HIDE DEF m
          <6>2. job[k].phase = "generating" => m \in Nat /\ m <= today + Horizon
            BY <6>1 DEF m
          <6>3. job[k].phase = "generating" => d > m
            BY <2>3, <6>2, DayFacts
          <6> QED
            BY <6>3 DEF m
        <5> QED
          BY <1>9, <4>2, <5>2, <5>3 DEF BeyondJob
      <4> QED
        BY <4>1, <4>2
    <3> QED
      BY <3>1, <3>2 DEF NotMissing
  <2> QED
    BY <1>8, <2>1, <2>2, <2>3
<1> QED
  BY <1>10, <1>11, <1>12, <1>13, <1>14 DEF Regular

(* Every other save leaves the subscription active only if it was.         *)
LEMMA OtherSavesKeepRegular ==
    ASSUME TypeInv, TypeInv', Regular, ~irregular', NEW j \in Requests, j \in Jobs,
           SaveSubscription(j), job[j].after # "generate"
    PROVE  Regular'
<1> DEFINE n == job[j].new
           c == job[j].copy
<1>1. /\ job[j].phase = "saving" /\ UNCHANGED <<rows, today>>
      /\ ~(sub.status = "cancelled" /\ n.status = "active")
  BY DEF SaveSubscription
<1>2. /\ sub' \in Subs /\ sub \in Subs /\ n \in Subs
      /\ sub'.status = IF n.status # c.status THEN n.status ELSE sub.status
      /\ sub'.until = IF n.until # c.until THEN n.until ELSE sub.until
  BY SavedIs
<1>3. /\ c.status = sub.status /\ n.until = c.until
      /\ n.status = "active" => job[j].after = "nothing" /\ c.status # "paused"
  BY <1>1 DEF Regular, UpdateIsRight
<1>4. PICK h : /\ Become(j, h) /\ h.phase \in {"cancelling", "idle"}
               /\ h.phase = "cancelling" => job[j].after = "cancel"
  <2>1. PICK h \in JobStates \cup {Idle} :
           /\ Become(j, h)
           /\ job[j].after = "cancel" => h.phase = "cancelling"
           /\ job[j].after \notin {"generate", "cancel"} => h = Idle
    BY SaverIs
  <2> QED
    BY <2>1 DEF Idle
<1>5. sub'.status = n.status /\ sub'.until = sub.until
  BY <1>2, <1>3
<1>6. sub'.status = "active" => sub.status = "active"
  BY <1>1, <1>2, <1>3, <1>5, SubTypes DEF Statuses
<1> HIDE DEF n, c
<1>7. job'[j] = h /\ \A k \in Jobs \ {j} : job'[k] = job[k]
  BY <1>4, OneJobMoves
<1>8. AtMostOneUpdate'
  BY <1>1, <1>4, UpdatesGoOn DEF Regular
<1>9. ASSUME NEW k \in Requests PROVE UpdateIsRight(k)'
  <2>1. CASE k = j
    <3>1. h.phase = "cancelling" => sub'.status # "active"
      BY <1>3, <1>4, <1>5
    <3> QED
      BY <1>4, <1>7, <2>1, <3>1 DEF UpdateIsRight
  <2>2. CASE k # j
    <3>1. job[k].phase \in {"idle", "skipping"}
      BY <1>1, <2>2, OthersDoNotUpdate DEF Regular
    <3> QED
      BY <1>1, <1>4, <2>2, <3>1, DayFacts, OthersStayRight
  <2> QED
    BY <2>1, <2>2
<1>10. WithinHorizon'
  BY <1>1, <1>4, <1>5, HorizonStays
<1>11. NonePausedAhead'
  <2>1. ASSUME NEW k \in Requests, Resuming(k)' PROVE FALSE
    <3>1. k # j
      BY <1>4, <1>7, <2>1 DEF Resuming
    <3>2. job[k].phase \in {"idle", "skipping"}
      BY <1>1, <3>1, OthersDoNotUpdate DEF Regular
    <3> QED
      BY <1>7, <2>1, <3>1, <3>2 DEF Resuming, Jobs
  <2> QED
    BY <1>1, <1>6, <2>1 DEF NonePausedAhead, Regular
<1>12. NoneMissing'
  <2> SUFFICES ASSUME sub.status = "active", NEW d \in Days, d > today, OnRule(d)
               PROVE  NotMissing(d)'
    BY <1>1, <1>6 DEF NoneMissing
  <2>1. NotMissing(d)
    BY DEF Regular, NoneMissing
  <2> QED
    BY <1>1, <1>4, <1>5, <2>1, NotMissingStays
<1> QED
  BY <1>8, <1>9, <1>10, <1>11, <1>12 DEF Regular

-----------------------------------------------------------------------------
(* Skips, the sweep over its list, crashes and days                        *)

LEMMA SkipsKeepRegular ==
    ASSUME TypeInv, TypeInv', Regular, NEW j \in Requests,
           SaveSkip(j) \/ \E d \in Days, reason \in BOOLEAN : ReadToSkip(j, d, reason)
    PROVE  Regular'
<1>1. j \in Jobs /\ Idle.phase = "idle"
  BY DEF Jobs, Idle
<1>2. CASE SaveSkip(j)
  <2>1. Become(j, Idle) /\ job[j].phase = "skipping" /\ UNCHANGED <<sub, today>>
    BY <1>2 DEF SaveSkip
  <2>2. RowsLast
    BY <1>1, <1>2, RowsOf DEF RowsLast
  <2> QED
    BY <1>1, <2>1, <2>2, PlainStep
<1>3. CASE \E d \in Days, reason \in BOOLEAN : ReadToSkip(j, d, reason)
  <2>1. PICK h : Become(j, h) /\ h.phase = "skipping"
    BY <1>3 DEF ReadToSkip
  <2>2. job[j].phase # "generating" /\ UNCHANGED <<sub, rows, today>>
    BY <1>1, <1>3 DEF ReadToSkip, Start
  <2>3. RowsLast
    BY <2>2 DEF RowsLast
  <2> QED
    BY <1>1, <2>1, <2>2, <2>3, PlainStep
<1> QED
  BY <1>2, <1>3

LEMMA SweepMovesOnKeepsRegular ==
    ASSUME SubsInv, TypeInv, TypeInv', Regular, NEW j \in Jobs, SweepMovesOn(j)
    PROVE  Regular'
<1>1. /\ j \in Sweepers /\ QuietRows /\ UNCHANGED <<sub, today>>
  BY SweepMovesOnIs
<1>2. PICK h : Become(j, h) /\ h.phase \in SweepPhases \cup {"idle"}
  BY SweepMovesOnIs
<1>3. RowsLast /\ j \notin Requests
  BY <1>1, Numbers DEF QuietRows, RowsLast
<1> QED
  BY <1>1, <1>2, <1>3, PlainStep

LEMMA CrashKeepsRegular ==
    ASSUME TypeInv, TypeInv', Regular, ~irregular', NEW j \in Jobs, Crash(j)
    PROVE  Regular'
<1>1. /\ Become(j, Idle) /\ j \notin Updating /\ UNCHANGED <<sub, rows, today>>
      /\ Idle.phase = "idle"
  BY DEF Crash, Idle
<1>2. j \in Requests => job[j].phase # "generating"
  BY <1>1, UpdatingIs
<1>3. RowsLast
  BY <1>1 DEF RowsLast
<1> QED
  BY <1>1, <1>2, <1>3, PlainStep

LEMMA NextDayKeepsRegular ==
    ASSUME TypeInv, Regular, NextDay
    PROVE  Regular'
<1>1. UNCHANGED <<sub, rows, job>> /\ today' = today + 1
  BY DEF NextDay
<1>2. AtMostOneUpdate'
  BY <1>1 DEF Regular, AtMostOneUpdate, Updating
<1>3. ASSUME NEW j \in Requests PROVE UpdateIsRight(j)'
  <2>1. job[j] \in JobStates \cup {Idle} /\ UpdateIsRight(j)
    BY DEF TypeInv, TypeOK, Jobs, Regular
  <2>2. /\ job[j].phase = "clearing" => job[j].since \in Nat
        /\ job[j].phase = "saving" => job[j].new.until \in Nat
    BY <2>1, JobFacts, SubTypes, DayFacts
  <2>3. /\ job[j].phase = "clearing" => job[j].since <= today + 1
        /\ Resuming(j) => job[j].new.until <= today + 1
    BY <2>1, <2>2, DayFacts DEF UpdateIsRight, Resuming
  <2> QED
    BY <1>1, <2>1, <2>3 DEF UpdateIsRight, Resuming
<1>4. WithinHorizon'
  <2>1. sub.until \in Nat
    BY SubTypes DEF TypeInv, TypeOK, NoSub
  <2>2. sub.until <= today + 1 + Horizon
    BY <2>1, DayFacts DEF Regular, WithinHorizon
  <2>3. ASSUME NEW j \in Jobs
        PROVE  /\ job[j].phase = "generating" => job[j].new \subseteq 1..(today + 1 + Horizon)
               /\ job[j].phase = "marking" => job[j].until <= today + 1 + Horizon
    <3>1. /\ job[j].phase = "generating" => job[j].new \subseteq 1..(today + Horizon)
          /\ job[j].phase = "marking" => job[j].until <= today + Horizon
      BY DEF Regular, WithinHorizon
    <3>2. 1..(today + Horizon) \subseteq 1..(today + 1 + Horizon)
      BY DayFacts
    <3>3. job[j].phase = "marking" => job[j].until \in Nat
      <4>1. job[j] \in JobStates \cup {Idle}
        BY DEF TypeInv, TypeOK
      <4> QED
        BY <4>1, JobFacts, DayFacts
    <3>4. job[j].phase = "marking" => job[j].until <= today + 1 + Horizon
      BY <3>1, <3>3, DayFacts
    <3> QED
      BY <3>1, <3>2, <3>4
  <2> QED
    BY <1>1, <2>2, <2>3 DEF WithinHorizon
<1>5. \A d \in Days : d > today + 1 => d > today
  BY DayFacts
<1>6. NonePausedAhead'
  BY <1>1, <1>5 DEF Regular, NonePausedAhead, Resuming
<1>7. NoneMissing'
  BY <1>1, <1>5 DEF Regular, NoneMissing, NotMissing, ComesWithRequest, BeyondJob
<1> QED
  BY <1>2, <1>3, <1>4, <1>6, <1>7 DEF Regular

-----------------------------------------------------------------------------
LEMMA StepKeepsRegular ==
    ASSUME Frequency # "monthly", SubsInv, TypeInv, TypeInv', Regular, ~irregular',
           NEW j \in Jobs, Step(j)
    PROVE  Regular'
<1>1. CASE InsertRows(j) \/ MarkGenerated(j)
  BY <1>1, InsertRowsKeepsRegular, MarkGeneratedKeepsRegular
<1>2. CASE ClearPaused(j) \/ CancelScheduled(j) \/ EndRows(j) \/ SaveSkip(j)
  <2>1. j \in Requests
    BY <1>2, RequestPhaseIsARequest
       DEF SubsInv, ClearPaused, CancelScheduled, EndRows, SaveSkip, RequestPhases
  <2> QED
    BY <1>2, <2>1, ClearPausedKeepsRegular, CancelScheduledKeepsRegular, EndRowsKeepsRegular,
       SkipsKeepRegular
<1>3. CASE SaveSubscription(j)
  <2>1. j \in Requests
    BY <1>3, RequestPhaseIsARequest DEF SubsInv, SaveSubscription, RequestPhases
  <2> QED
    BY <1>3, <2>1, ResumingKeepsRegular, OtherSavesKeepRegular
<1>4. CASE SweepMovesOn(j)
  BY <1>4, SweepMovesOnKeepsRegular
<1> QED
  BY <1>1, <1>2, <1>3, <1>4 DEF Step, SweepMovesOn

LEMMA NextKeepsRegular ==
    ASSUME Frequency # "monthly", SubsInv, TypeInv, TypeInv', Regular, ~irregular', Next
    PROVE  Regular'
<1>1. CASE \E j \in Requests : CreateSubscription(j) \/ ReadToDelete(j)
  BY <1>1, CreateKeepsRegular, ReadToDeleteKeepsRegular
<1>2. CASE \E j \in Requests, to \in Statuses : ReadToUpdate(j, to)
  BY <1>2, ReadToUpdateKeepsRegular
<1>3. CASE \E j \in Requests, d \in Days, reason \in BOOLEAN : ReadToSkip(j, d, reason)
  BY <1>3, SkipsKeepRegular
<1>4. CASE \E s \in Sweepers : SweepReads(s)
  BY <1>4, SweepReadsKeepsRegular
<1>5. CASE \E j \in Jobs : Crash(j)
  BY <1>5, CrashKeepsRegular
<1>6. CASE NextDay
  BY <1>6, NextDayKeepsRegular
<1>7. CASE \E j \in Jobs : Step(j)
  BY <1>7, StepKeepsRegular
<1> QED
  BY <1>1, <1>2, <1>3, <1>4, <1>5, <1>6, <1>7 DEF Next

(* What was irregular stays so.                                            *)
LEMMA IrregularStays ==
    ASSUME Next \/ UNCHANGED vars, irregular
    PROVE  irregular'
<1>1. ASSUME NEW j, Step(j) PROVE irregular'
  BY <1>1 DEF Step, InsertRows, MarkGenerated, ClearPaused, SaveSubscription, CancelScheduled,
     EndRows, SaveSkip, ListDue, TakeNext, DropRow, PlaceOrder, OrderFails, RecordOrder,
     RecordFails, ghosts
<1>2. ASSUME NEW j, Crash(j) PROVE irregular'
  BY <1>2 DEF Crash
<1>3. ASSUME NEW j, NEW to, ReadToUpdate(j, to) PROVE irregular'
  BY <1>3 DEF ReadToUpdate, Crossing
<1>4. ASSUME NEW j, NEW d, NEW reason, ReadToSkip(j, d, reason) PROVE irregular'
  BY <1>4 DEF ReadToSkip, ghosts
<1>5. ASSUME NEW j, CreateSubscription(j) \/ ReadToDelete(j) \/ SweepReads(j) PROVE irregular'
  BY <1>5 DEF CreateSubscription, ReadToDelete, SweepReads, Crossing, ghosts
<1>6. ASSUME NextDay \/ UNCHANGED vars PROVE irregular'
  BY <1>6 DEF NextDay, vars, ghosts
<1> QED
  BY <1>1, <1>2, <1>3, <1>4, <1>5, <1>6 DEF Next

LEMMA InitIsRegular ==
    ASSUME Init
    PROVE  Regular
<1>1. \A j \in Jobs : job[j] = Idle /\ job[j].phase = "idle"
  BY DEF Init, Idle
<1>2. \A d \in Days : rows[d].status = "none"
  BY DEF Init
<1>3. sub = NoSub /\ sub.status # "active" /\ sub.until <= today + Horizon
  BY Numbers DEF Init, NoSub
<1>4. AtMostOneUpdate /\ \A j \in Requests : UpdateIsRight(j)
  BY <1>1 DEF AtMostOneUpdate, Updating, UpdateIsRight, Jobs
<1>5. WithinHorizon
  BY <1>1, <1>3 DEF WithinHorizon
<1>6. NonePausedAhead /\ NoneMissing
  BY <1>2, <1>3 DEF NonePausedAhead, NoneMissing
<1> QED
  BY <1>4, <1>5, <1>6 DEF Regular

LEMMA StutterKeepsRegular ==
    ASSUME Regular, UNCHANGED vars
    PROVE  Regular'
<1>1. UNCHANGED <<sub, rows, today, job>>
  BY DEF vars
<1> QED
  BY <1>1 DEF Regular, AtMostOneUpdate, Updating, UpdateIsRight, WithinHorizon, NonePausedAhead,
     NoneMissing, NotMissing, ComesWithRequest, BeyondJob, Resuming

(***************************************************************************)
(* Resuming leaves no gap (updateSubscription, against every generation    *)
(* and sweep that began before or during the pause and goes on after it):  *)
(* up to the day that is marked as written, every day to come on the rule  *)
(* of a daily or weekly subscription has a delivery, and none of them is   *)
(* still cancelled for a pause.  A monthly one goes on from a day that may *)
(* be off its rule, so its days are not even those of the rule.            *)
(***************************************************************************)
THEOREM ResumingLeavesNoDayOut ==
    ASSUME Frequency # "monthly"
    PROVE  Spec => []ResumingLeavesNoGap
<1>1. Init => TypeInv /\ GapInv
  BY InitHasTypes, InitIsRegular DEF GapInv
<1>2. SubsInv /\ TypeInv /\ GapInv /\ [Next]_vars => TypeInv' /\ GapInv'
  <2> SUFFICES ASSUME SubsInv, TypeInv, GapInv, [Next]_vars PROVE TypeInv' /\ GapInv'
    OBVIOUS
  <2>1. TypeInv'
    BY NextKeepsTypes, StutterKeepsTypes
  <2>2. ASSUME ~irregular' PROVE Regular'
    <3>1. Regular
      BY <2>2, IrregularStays DEF GapInv
    <3> QED
      BY <2>1, <2>2, <3>1, NextKeepsRegular, StutterKeepsRegular
  <2> QED
    BY <2>1, <2>2 DEF GapInv
<1>3. TypeInv /\ GapInv => ResumingLeavesNoGap
  <2> SUFFICES ASSUME TypeInv, Regular, sub.status = "active", Updating = {},
                      NEW d \in Days, d > today, d <= sub.until, OnRule(d)
               PROVE  rows[d].status \notin {"none", "paused"}
    BY DEF GapInv, ResumingLeavesNoGap, OnRule
  <2>1. rows[d].status # "paused"
    BY DEF Regular, NonePausedAhead
  <2>2. NotMissing(d)
    BY DEF Regular, NoneMissing
  <2>3. ~ComesWithRequest(d)
    BY UpdatingIs DEF ComesWithRequest
  <2>4. ~(d > sub.until)
    <3>1. sub.until \in Nat
      BY SubTypes DEF TypeInv, TypeOK, NoSub
    <3> QED
      BY <3>1, DayFacts
  <2> QED
    BY <2>1, <2>2, <2>3, <2>4 DEF NotMissing
<1> QED
  BY <1>1, <1>2, <1>3, SubscriptionsStaySound, PTL DEF Spec
===============================================================================
