---------------------------- MODULE DispatchProofs ----------------------------
(***************************************************************************)
(* The rider who accepted is the rider the order names, for any number of  *)
(* riders, requests and jobs.  The invariant behind it says what a handler *)
(* that is about to save knows: unless it read the order before the last   *)
(* acceptance, an order that is accepted now was accepted in its copy, and *)
(* by the same rider; and no handler works on the copy of an order whose   *)
(* dispatch was cancelled, because that order is over.                     *)
(***************************************************************************)
EXTENDS Dispatch, TLAPS

HandlerKnows(h) ==
    /\ h.copy.status # "cancelled"
    /\ h.kind \in {"timeout", "watchdog", "resend", "assign"} => h.copy.status # "accepted"
    /\ h.kind = "reject" => h.rider \in Riders /\ h.copy.partner = h.rider
    /\ h.kind = "reassign" => h.copy.partner # h.rider

SaversKnow == \A j \in Jobs : job[j].phase = "saving" => HandlerKnows(job[j])

CopiesAreCurrent ==
    ~overtaken => \A j \in Jobs : (job[j].phase = "saving" /\ j \notin behind) =>
        /\ job[j].copy.acceptedAt <=> job[j].copy.status = "accepted"
        /\ doc.acceptedAt => job[j].copy.acceptedAt
        /\ doc.status = "accepted" =>
              job[j].copy.status = "accepted" /\ job[j].copy.partner = doc.partner

CancelledIsOver ==
    /\ doc.status = "cancelled" => stage = "closed"
    /\ \A j \in Jobs : job[j].phase = "releasing" => stage = "closed"

DispatchInv ==
    /\ TypeOK /\ CancelledIsOver
    /\ TheRiderWhoAcceptedIsTheRiderNamed /\ SaversKnow /\ CopiesAreCurrent

-----------------------------------------------------------------------------
(* What the phase of a job says of its other fields.                       *)
LEMMA JobFields ==
    ASSUME TypeOK, NEW j \in Jobs
    PROVE  /\ job[j].phase = "saving" =>
                 /\ job[j].kind \in Handlers
                 /\ job[j].rider \in Riders \cup {Nobody}
                 /\ job[j].copy \in Docs
           /\ job[j].phase \in {"holding", "fleet", "picking", "direct", "offering"} =>
                 job[j] \in [phase : {"holding", "fleet", "picking", "direct", "offering"},
                             copy : Docs, waited : BOOLEAN, barred : SUBSET Riders]
           /\ job[j].phase \in {"recheck", "releasing"} => job[j].rider \in Riders
           /\ job[j].phase = "expiring" => job[j].rider \in Riders \cup {Nobody}
  <1>1. job[j] \in JobStates \cup {NoJob}
    BY DEF TypeOK
  <1>. QED
    BY <1>1 DEF JobStates, NoJob

(* An attempt that goes on with another phase is still an attempt.         *)
LEMMA Onwards ==
    ASSUME TypeOK, NEW j \in Jobs,
           job[j].phase \in {"holding", "fleet", "picking", "direct", "offering"},
           NEW p \in {"picking", "offering"}, NEW s, s = [job[j] EXCEPT !.phase = p]
    PROVE  s \in JobStates /\ s.phase \notin {"saving", "releasing"}
  <1>1. job[j] \in [phase : {"holding", "fleet", "picking", "direct", "offering"},
                    copy : Docs, waited : BOOLEAN, barred : SUBSET Riders]
    BY JobFields
  <1>2. s \in [phase : {"holding", "fleet", "picking", "direct", "offering"},
               copy : Docs, waited : BOOLEAN, barred : SUBSET Riders]
    BY <1>1
  <1>3. s.phase = p
    BY <1>1
  <1>. QED
    BY <1>2, <1>3 DEF JobStates

LEMMA SmallStates ==
    /\ Starting \in JobStates /\ Starting.phase \notin {"saving", "releasing"}
    /\ Ending \in JobStates /\ Ending.phase \notin {"saving", "releasing"}
    /\ NoJob.phase \notin {"saving", "releasing"}
    /\ \A r \in Riders : LET s == [phase |-> "recheck", rider |-> r]
                         IN s \in JobStates /\ s.phase \notin {"saving", "releasing"}
  BY DEF Starting, Ending, NoJob, JobStates

LEMMA Moved ==
    ASSUME TypeOK, NEW j \in Jobs, NEW s \in JobStates \cup {NoJob}, Become(j, s)
    PROVE  /\ job' \in [Jobs -> JobStates \cup {NoJob}]
           /\ \A k \in Jobs : job'[k] = IF k = j THEN s ELSE job[k]
  BY DEF TypeOK, Become

(* Released(d) of an order is an order.                                    *)
LEMMA ReleasedIsTyped ==
    ASSUME NEW d \in Docs
    PROVE  /\ Released(d) \in Docs
           /\ Released(d).status = "unassigned" /\ Released(d).partner = Nobody
           /\ ~Released(d).acceptedAt
           /\ Released(d).manual = d.manual /\ Released(d).lock = d.lock
  BY DEF Released, Docs

(* A step after which every job that is saving was saving before, with the *)
(* same copy, and which leaves an accepted order as it is.                 *)
LEMMA CopiesStay ==
    ASSUME DispatchInv, overtaken' = overtaken,
           \A k \in Jobs : job'[k].phase = "saving" =>
               job'[k] = job[k] /\ (k \in behind => k \in behind'),
           ~overtaken => /\ doc'.acceptedAt => doc.acceptedAt
                         /\ (doc'.status = "accepted" =>
                                doc.status = "accepted" /\ doc'.partner = doc.partner)
    PROVE  SaversKnow' /\ CopiesAreCurrent'
  <1>1. SaversKnow'
    BY DEF DispatchInv, SaversKnow, HandlerKnows
  <1>2. ASSUME ~overtaken', NEW k \in Jobs, job'[k].phase = "saving", k \notin behind'
        PROVE  /\ job'[k].copy.acceptedAt <=> job'[k].copy.status = "accepted"
               /\ doc'.acceptedAt => job'[k].copy.acceptedAt
               /\ doc'.status = "accepted" =>
                     job'[k].copy.status = "accepted" /\ job'[k].copy.partner = doc'.partner
    BY <1>2 DEF DispatchInv, CopiesAreCurrent
  <1>. QED
    BY <1>1, <1>2 DEF CopiesAreCurrent

(* A step in which a rider gets the order: whoever is saving is behind.    *)
LEMMA CopiesFallBehind ==
    ASSUME DispatchInv, behind' = Savers,
           \A k \in Jobs : job'[k].phase = "saving" => job'[k] = job[k]
    PROVE  SaversKnow' /\ CopiesAreCurrent'
  BY DEF DispatchInv, SaversKnow, HandlerKnows, CopiesAreCurrent, Savers

(* A step that leaves who has the order as it is, or an order nobody has   *)
(* accepted.                                                               *)
LEMMA QuietStep ==
    ASSUME DispatchInv, UNCHANGED ghosts,
           \A k \in Jobs : job'[k].phase = "saving" => job'[k] = job[k],
           ~overtaken =>
               \/ /\ doc'.status = doc.status /\ doc'.partner = doc.partner
                  /\ doc'.acceptedAt = doc.acceptedAt
               \/ doc.status # "accepted" /\ doc'.status # "accepted" /\ ~doc'.acceptedAt
    PROVE  TheRiderWhoAcceptedIsTheRiderNamed' /\ SaversKnow' /\ CopiesAreCurrent'
  <1>1. holders' = holders /\ behind' = behind /\ overtaken' = overtaken
    BY DEF ghosts
  <1>2. SaversKnow' /\ CopiesAreCurrent'
    BY <1>1, CopiesStay
  <1>3. ASSUME ~overtaken
        PROVE  /\ holders' = IF doc'.status = "accepted" THEN {doc'.partner} ELSE {}
               /\ doc'.status = "accepted" => doc'.acceptedAt
               /\ doc'.acceptedAt => doc'.status \in {"accepted", "cancelled"}
    <2>1. /\ holders = IF doc.status = "accepted" THEN {doc.partner} ELSE {}
          /\ doc.status = "accepted" => doc.acceptedAt
          /\ doc.acceptedAt => doc.status \in {"accepted", "cancelled"}
      BY <1>3 DEF DispatchInv, TheRiderWhoAcceptedIsTheRiderNamed
    <2>. QED
      BY <1>1, <1>3, <2>1
  <1>. QED
    BY <1>1, <1>2, <1>3 DEF TheRiderWhoAcceptedIsTheRiderNamed

(* An order that is over stays over, and no other is cancelled.            *)
LEMMA OverStays ==
    ASSUME DispatchInv, stage = "closed" => stage' = "closed",
           doc'.status = "cancelled" => doc.status = "cancelled" \/ stage' = "closed",
           \A k \in Jobs : job'[k].phase = "releasing" =>
               job[k].phase = "releasing" \/ stage' = "closed"
    PROVE  CancelledIsOver'
  BY DEF DispatchInv, CancelledIsOver

(* A step of the attempt that job j makes.                                 *)
LEMMA AttemptStep ==
    ASSUME DispatchInv, NEW j \in Jobs, NEW s \in JobStates \cup {NoJob}, s.phase \notin {"saving", "releasing"},
           Become(j, s), UNCHANGED <<stage, ownFleet, outdated, ghosts>>,
           doc' \in Docs, age' \in 0..2, lockOld' \in BOOLEAN, barred' \subseteq Riders,
           queued' \subseteq Riders, starts' \in 0..MaxStarts,
           doc'.status \in {doc.status, "unassigned", "assigned"},
           ~overtaken =>
               \/ /\ doc'.status = doc.status /\ doc'.partner = doc.partner
                  /\ doc'.acceptedAt = doc.acceptedAt
               \/ doc.status # "accepted" /\ doc'.status # "accepted" /\ ~doc'.acceptedAt
    PROVE  DispatchInv'
  <1>1. /\ job' \in [Jobs -> JobStates \cup {NoJob}]
        /\ \A k \in Jobs : job'[k].phase = "saving" => job'[k] = job[k]
    BY Moved DEF DispatchInv
  <1>2. UNCHANGED ghosts
    OBVIOUS
  <1>3. TheRiderWhoAcceptedIsTheRiderNamed' /\ SaversKnow' /\ CopiesAreCurrent'
    BY <1>1, <1>2, QuietStep
  <1>4. TypeOK'
    BY <1>1 DEF DispatchInv, TypeOK, ghosts
  <1>5. CancelledIsOver'
    <2>1. \A k \in Jobs : job'[k].phase = "releasing" => job[k].phase = "releasing"
      BY Moved DEF DispatchInv
    <2>2. doc'.status = "cancelled" => doc.status = "cancelled"
      OBVIOUS
    <2>. QED
      BY <2>1, <2>2, OverStays
  <1>. QED
    BY <1>3, <1>4, <1>5 DEF DispatchInv

-----------------------------------------------------------------------------
(* One lemma for the actions of a kind.                                    *)

LEMMA AttemptKeepsIt ==
    ASSUME DispatchInv, NEW j \in Jobs, Attempt(j)
    PROVE  DispatchInv'
  <1>1. starts' \in 0..MaxStarts
    BY DispatchAssumption DEF Attempt, Start, DispatchInv, TypeOK
  <1>2. TypeOK
    BY DEF DispatchInv
  <1>. QED
    BY <1>1, <1>2, SmallStates, AttemptStep DEF Attempt, clocks, TypeOK

LEMMA TakeLockKeepsIt ==
    ASSUME DispatchInv, NEW j \in Jobs, TakeLock(j)
    PROVE  DispatchInv'
  <1>1. TypeOK
    BY DEF DispatchInv
  <1>2. /\ doc' \in Docs /\ lockOld' \in BOOLEAN
        /\ doc'.status = doc.status /\ doc'.partner = doc.partner
        /\ doc'.acceptedAt = doc.acceptedAt
    BY <1>1 DEF TakeLock, TypeOK, Docs
  <1>3. Locked(j) \in JobStates /\ Locked(j).phase \notin {"saving", "releasing"}
    BY <1>1, <1>2 DEF Locked, JobStates, TypeOK
  <1>4. PICK s \in JobStates \cup {NoJob} : Become(j, s) /\ s.phase \notin {"saving", "releasing"}
    <2>1. CASE Lockable /\ stage # "closed"
      BY <1>3, <2>1 DEF TakeLock
    <2>2. CASE ~(Lockable /\ stage # "closed")
      BY <2>2, SmallStates DEF TakeLock
    <2>. QED
      BY <2>1, <2>2
  <1>5. /\ UNCHANGED <<stage, ownFleet, outdated, ghosts>>
        /\ age' \in 0..2 /\ barred' \subseteq Riders /\ queued' \subseteq Riders
        /\ starts' \in 0..MaxStarts
    BY <1>1 DEF TakeLock, TypeOK
  <1>. QED
    BY <1>2, <1>4, <1>5, AttemptStep

LEMMA SmallFields ==
    ASSUME DispatchInv
    PROVE  /\ TypeOK /\ doc \in Docs /\ age \in 0..2 /\ lockOld \in BOOLEAN
           /\ barred \subseteq Riders /\ queued \subseteq Riders /\ starts \in 0..MaxStarts
           /\ [doc EXCEPT !.lock = FALSE] \in Docs
  BY DEF DispatchInv, TypeOK, Docs

(* The steps that let go of the lock, at most, and end or go on.           *)
LEMMA LettingGoKeepsIt ==
    ASSUME DispatchInv, NEW j \in Jobs,
           \/ Hold(j) \/ KeepHolder(j) \/ PickNobody(j) \/ KeepAssigned(j)
           \/ OfferToNobody(j) \/ Unlock(j) \/ Crash(j)
    PROVE  DispatchInv'
  <1>1. doc' \in Docs /\ doc'.status = doc.status /\ doc'.partner = doc.partner
        /\ doc'.acceptedAt = doc.acceptedAt
    BY SmallFields DEF Hold, KeepHolder, PickNobody, KeepAssigned, OfferToNobody, Unlock, Crash, Docs
  <1>2. /\ UNCHANGED <<stage, ownFleet, outdated, ghosts>>
        /\ age' = age /\ lockOld' = lockOld /\ barred' = barred /\ queued' = queued
        /\ starts' = starts
    BY DEF Hold, KeepHolder, PickNobody, KeepAssigned, OfferToNobody, Unlock, Crash, clocks
  <1>3. PICK s \in JobStates \cup {NoJob} : Become(j, s) /\ s.phase \notin {"saving", "releasing"}
    BY SmallStates
       DEF Hold, KeepHolder, PickNobody, KeepAssigned, OfferToNobody, Unlock, Crash
  <1>. QED
    BY <1>1, <1>2, <1>3, SmallFields, AttemptStep

LEMMA NobodyNearbyKeepsIt ==
    ASSUME DispatchInv, NEW j \in Jobs, NobodyNearby(j)
    PROVE  DispatchInv'
  <1>. DEFINE s == [job[j] EXCEPT !.phase = "offering"]
  <1>1. s \in JobStates /\ s.phase \notin {"saving", "releasing"}
    BY SmallFields, Onwards DEF NobodyNearby
  <1>2. /\ UNCHANGED <<stage, ownFleet, outdated, ghosts>> /\ doc' = doc
        /\ age' = age /\ lockOld' = lockOld /\ barred' = barred /\ queued' = queued
        /\ starts' = starts /\ Become(j, s)
    BY DEF NobodyNearby, clocks
  <1>. HIDE DEF s
  <1>. QED
    BY <1>1, <1>2, SmallFields, AttemptStep

(* A rider who was silent too long is released, unless he has accepted.    *)
LEMMA ReleaseHolderKeepsIt ==
    ASSUME DispatchInv, NEW j \in Jobs, ReleaseHolder(j)
    PROVE  DispatchInv'
  <1>. DEFINE s == [job[j] EXCEPT !.phase = "picking"]
  <1>1. s \in JobStates /\ s.phase \notin {"saving", "releasing"}
    BY SmallFields, Onwards DEF ReleaseHolder
  <1>2. /\ UNCHANGED <<stage, ownFleet, outdated, ghosts>>
        /\ age' = age /\ lockOld' = lockOld /\ barred' = barred /\ queued' = queued
        /\ starts' = starts /\ Become(j, s)
    BY DEF ReleaseHolder, clocks
  <1>. HIDE DEF s
  <1>3. CASE doc' = Released(doc) /\ ~doc.acceptedAt
    <2>1. doc' \in Docs /\ doc'.status = "unassigned" /\ ~doc'.acceptedAt
      BY <1>3, SmallFields, ReleasedIsTyped
    <2>2. ~overtaken => doc.status # "accepted"
      BY <1>3 DEF DispatchInv, TheRiderWhoAcceptedIsTheRiderNamed
    <2>. QED
      BY <1>1, <1>2, <2>1, <2>2, SmallFields, AttemptStep
  <1>4. CASE doc' = doc
    BY <1>1, <1>2, <1>4, SmallFields, AttemptStep
  <1>. QED
    BY <1>3, <1>4 DEF ReleaseHolder

LEMMA PickRiderKeepsIt ==
    ASSUME DispatchInv, NEW j \in Jobs, PickRider(j)
    PROVE  DispatchInv'
  <1>1. /\ UNCHANGED <<stage, ownFleet, outdated, ghosts>>
        /\ lockOld' = lockOld /\ barred' = barred /\ starts' = starts /\ Become(j, Ending)
    BY DEF PickRider
  <1>2. PICK r \in Fleet :
           IF Free(doc)
           THEN /\ doc' = [doc EXCEPT !.status = "assigned", !.partner = r,
                                      !.manual = FALSE, !.lock = FALSE]
                /\ age' = 0
                /\ queued' = queued \cup {r}
           ELSE UNCHANGED <<doc, age, queued>>
    BY DEF PickRider
  <1>3. r \in Riders
    BY DispatchAssumption
  <1>4. CASE Free(doc)
    <2>1. doc' \in Docs /\ doc'.status = "assigned" /\ ~doc'.acceptedAt /\ doc.status # "accepted"
      BY <1>2, <1>3, <1>4, SmallFields DEF Free, Docs
    <2>2. age' \in 0..2 /\ queued' \subseteq Riders
      BY <1>2, <1>3, <1>4, SmallFields
    <2>. QED
      BY <1>1, <2>1, <2>2, SmallFields, SmallStates, AttemptStep
  <1>5. CASE ~Free(doc)
    BY <1>1, <1>2, <1>5, SmallFields, SmallStates, AttemptStep
  <1>. QED
    BY <1>4, <1>5

LEMMA OfferKeepsIt ==
    ASSUME DispatchInv, NEW j \in Jobs, Offer(j)
    PROVE  DispatchInv'
  <1>1. /\ UNCHANGED <<stage, ownFleet, outdated, ghosts>>
        /\ age' = age /\ lockOld' = lockOld /\ barred' = barred /\ queued' = queued
        /\ starts' = starts /\ Become(j, Ending)
    BY DEF Offer, clocks
  <1>2. CASE doc.status # "accepted" /\ ~doc.acceptedAt
    <2>1. doc' \in Docs /\ doc'.status = "unassigned" /\ ~doc'.acceptedAt
      BY <1>2, SmallFields DEF Offer, Docs
    <2>. QED
      BY <1>1, <1>2, <2>1, SmallFields, SmallStates, AttemptStep
  <1>3. CASE ~(doc.status # "accepted" /\ ~doc.acceptedAt)
    <2>1. doc' = doc
      BY <1>3 DEF Offer
    <2>. QED
      BY <1>1, <2>1, SmallFields, SmallStates, AttemptStep
  <1>. QED
    BY <1>2, <1>3

(* The order gets a rider who accepts, or a rider gives it back.           *)
LEMMA GotIt ==
    ASSUME DispatchInv, NEW r \in Riders, overtaken' = overtaken, ~overtaken => doc.status # "accepted",
           doc'.status = "accepted", doc'.partner = r, doc'.acceptedAt, holders' = holders \cup {r}
    PROVE  TheRiderWhoAcceptedIsTheRiderNamed'
  <1>1. ~overtaken => holders = {}
    BY DEF DispatchInv, TheRiderWhoAcceptedIsTheRiderNamed
  <1>. QED
    BY <1>1 DEF TheRiderWhoAcceptedIsTheRiderNamed

LEMMA GaveItBack ==
    ASSUME DispatchInv, NEW r, overtaken' = overtaken,
           ~overtaken => (doc.status = "accepted" => doc.partner = r),
           doc'.status # "accepted", ~doc'.acceptedAt, holders' = holders \ {r}
    PROVE  TheRiderWhoAcceptedIsTheRiderNamed'
  <1>1. ~overtaken => holders \ {r} = {}
    BY DEF DispatchInv, TheRiderWhoAcceptedIsTheRiderNamed
  <1>. QED
    BY <1>1 DEF TheRiderWhoAcceptedIsTheRiderNamed

LEMMA DirectAssignKeepsIt ==
    ASSUME DispatchInv, NEW j \in Jobs, DirectAssign(j)
    PROVE  DispatchInv'
  <1>1. PICK r \in Riders :
           IF Free(doc)
           THEN /\ doc' = [doc EXCEPT !.status = "accepted", !.partner = r, !.acceptedAt = TRUE,
                                      !.manual = FALSE, !.lock = FALSE]
                /\ holders' = holders \cup {r}
                /\ behind' = Savers
                /\ age' = 0
                /\ Become(j, [phase |-> "recheck", rider |-> r])
           ELSE /\ UNCHANGED <<doc, holders, behind, age>>
                /\ Become(j, [job[j] EXCEPT !.phase = "offering"])
    BY DEF DirectAssign
  <1>2. /\ UNCHANGED <<stage, lockOld, barred, ownFleet, outdated, queued, starts, overtaken>>
        /\ job[j].phase = "direct"
    BY DEF DirectAssign
  <1>3. CASE Free(doc)
    <2>1. /\ doc' \in Docs /\ doc'.status = "accepted" /\ doc'.partner = r /\ doc'.acceptedAt
          /\ doc.status # "accepted"
      BY <1>1, <1>3, SmallFields DEF Free, Docs
    <2>. DEFINE s == [phase |-> "recheck", rider |-> r]
    <2>2. s \in JobStates /\ s.phase \notin {"saving", "releasing"} /\ Become(j, s)
      BY <1>1, <1>3, SmallStates
    <2>. HIDE DEF s
    <2>3. /\ job' \in [Jobs -> JobStates \cup {NoJob}]
          /\ \A k \in Jobs : job'[k].phase \in {"saving", "releasing"} => job'[k] = job[k]
      BY <2>2, SmallFields, Moved
    <2>4. behind' = Savers /\ holders' = holders \cup {r} /\ age' = 0
      BY <1>1, <1>3
    <2>5. TheRiderWhoAcceptedIsTheRiderNamed'
      BY <1>2, <2>1, <2>4, GotIt
    <2>6. SaversKnow' /\ CopiesAreCurrent'
      BY <2>3, <2>4, CopiesFallBehind
    <2>7. TypeOK'
      BY <1>2, <2>1, <2>3, <2>4, SmallFields DEF TypeOK, Savers
    <2>8. CancelledIsOver'
      BY <1>2, <2>1, <2>3, OverStays
    <2>. QED
      BY <2>5, <2>6, <2>7, <2>8 DEF DispatchInv
  <1>4. CASE ~Free(doc)
    <2>. DEFINE s == [job[j] EXCEPT !.phase = "offering"]
    <2>1. s \in JobStates /\ s.phase \notin {"saving", "releasing"} /\ Become(j, s)
      BY <1>1, <1>2, <1>4, SmallFields, Onwards
    <2>. HIDE DEF s
    <2>2. UNCHANGED ghosts /\ doc' = doc /\ age' = age
      BY <1>1, <1>2, <1>4 DEF ghosts
    <2>. QED
      BY <1>2, <2>1, <2>2, SmallFields, AttemptStep DEF ghosts
  <1>. QED
    BY <1>3, <1>4

(* A tie-break that goes against the rider.                                *)
LEMMA TieBreakGivesBack ==
    ASSUME DispatchInv, NEW r \in Riders, TieBreak(r),
           \A k \in Jobs : job'[k].phase \in {"saving", "releasing"} => job'[k] = job[k],
           stage' = stage
    PROVE  /\ TheRiderWhoAcceptedIsTheRiderNamed' /\ SaversKnow' /\ CopiesAreCurrent'
           /\ CancelledIsOver' /\ doc' \in Docs /\ barred' \subseteq Riders /\ holders' \subseteq Riders
           /\ UNCHANGED <<queued, behind, overtaken>>
  <1>1. /\ doc' \in Docs /\ doc'.status = "unassigned" /\ ~doc'.acceptedAt /\ doc.partner = r
        /\ holders' = holders \ {r} /\ UNCHANGED <<queued, behind, overtaken>>
        /\ barred' = barred \cup {r}
    BY SmallFields, ReleasedIsTyped DEF TieBreak
  <1>2. TheRiderWhoAcceptedIsTheRiderNamed'
    BY <1>1, GaveItBack
  <1>3. SaversKnow' /\ CopiesAreCurrent'
    BY <1>1, CopiesStay
  <1>4. CancelledIsOver'
    BY <1>1, OverStays
  <1>. QED
    BY <1>1, <1>2, <1>3, <1>4, SmallFields DEF TypeOK

LEMMA LoseTieBreakKeepsIt ==
    ASSUME DispatchInv, NEW j \in Jobs, LoseTieBreak(j)
    PROVE  DispatchInv'
  <1>. DEFINE s == [phase |-> "offering", copy |-> doc, waited |-> FALSE, barred |-> barred]
  <1>1. s \in JobStates /\ s.phase \notin {"saving", "releasing"}
    BY SmallFields DEF JobStates
  <1>2. Become(j, s) /\ UNCHANGED <<stage, clocks, ownFleet, outdated, starts>>
    BY DEF LoseTieBreak
  <1>. HIDE DEF s
  <1>3. /\ job' \in [Jobs -> JobStates \cup {NoJob}]
        /\ \A k \in Jobs : job'[k].phase \in {"saving", "releasing"} => job'[k] = job[k]
    BY <1>1, <1>2, SmallFields, Moved
  <1>4. job[j].rider \in Riders
    BY SmallFields, JobFields DEF LoseTieBreak
  <1>5. CASE TieBreak(job[j].rider)
    <2>1. /\ TheRiderWhoAcceptedIsTheRiderNamed' /\ SaversKnow' /\ CopiesAreCurrent'
          /\ CancelledIsOver' /\ doc' \in Docs /\ barred' \subseteq Riders /\ holders' \subseteq Riders
          /\ UNCHANGED <<queued, behind, overtaken>>
      BY <1>2, <1>3, <1>4, <1>5, TieBreakGivesBack
    <2>2. TypeOK'
      BY <1>2, <1>3, <2>1, SmallFields DEF TypeOK, clocks
    <2>. QED
      BY <2>1, <2>2 DEF DispatchInv
  <1>6. CASE UNCHANGED <<doc, barred, queued, ghosts>>
    BY <1>1, <1>2, <1>6, SmallFields, AttemptStep DEF clocks
  <1>. QED
    BY <1>5, <1>6 DEF LoseTieBreak

LEMMA TieBreakElsewhereKeepsIt ==
    ASSUME DispatchInv, NEW r \in Riders, TieBreakElsewhere(r)
    PROVE  DispatchInv'
  <1>1. UNCHANGED <<stage, clocks, ownFleet, job, outdated, starts>> /\ TieBreak(r)
    BY DEF TieBreakElsewhere
  <1>2. /\ TheRiderWhoAcceptedIsTheRiderNamed' /\ SaversKnow' /\ CopiesAreCurrent'
        /\ CancelledIsOver' /\ doc' \in Docs /\ barred' \subseteq Riders /\ holders' \subseteq Riders
        /\ UNCHANGED <<queued, behind, overtaken>>
    BY <1>1, TieBreakGivesBack
  <1>3. TypeOK'
    BY <1>1, <1>2, SmallFields DEF TypeOK, clocks
  <1>. QED
    BY <1>2, <1>3 DEF DispatchInv

LEMMA AcceptKeepsIt ==
    ASSUME DispatchInv, NEW r \in Riders, Accept(r)
    PROVE  DispatchInv'
  <1>1. /\ UNCHANGED <<stage, lockOld, barred, ownFleet, job, outdated, queued, starts, overtaken>>
        /\ holders' = holders \cup {r} /\ behind' = Savers /\ age' = 0
        /\ doc.status # "accepted"
    BY DEF Accept, Taken
  <1>2. doc' \in Docs /\ doc'.status = "accepted" /\ doc'.partner = r /\ doc'.acceptedAt
    BY SmallFields DEF Accept, Taken, Docs
  <1>3. TheRiderWhoAcceptedIsTheRiderNamed'
    BY <1>1, <1>2, GotIt
  <1>4. SaversKnow' /\ CopiesAreCurrent'
    BY <1>1, CopiesFallBehind
  <1>5. TypeOK'
    BY <1>1, <1>2, SmallFields DEF TypeOK, Savers
  <1>6. CancelledIsOver'
    BY <1>1, <1>2, OverStays
  <1>. QED
    BY <1>3, <1>4, <1>5, <1>6 DEF DispatchInv

LEMMA DeassignKeepsIt ==
    ASSUME DispatchInv, NEW j \in Jobs, Deassign(j)
    PROVE  DispatchInv'
  <1>1. /\ UNCHANGED <<stage, clocks, ownFleet, outdated, queued, behind, overtaken>>
        /\ barred' = barred \cup {doc.partner} /\ holders' = holders \ {doc.partner}
        /\ Become(j, Starting) /\ doc' = [Released(doc) EXCEPT !.lock = FALSE]
        /\ doc.partner # Nobody
    BY DEF Deassign
  <1>2. starts' \in 0..MaxStarts
    BY SmallFields, DispatchAssumption DEF Deassign, Start
  <1>3. doc' \in Docs /\ doc'.status = "unassigned" /\ ~doc'.acceptedAt
    BY <1>1, SmallFields, ReleasedIsTyped DEF Docs
  <1>4. doc.partner \in Riders
    BY <1>1, SmallFields DEF Docs
  <1>5. /\ job' \in [Jobs -> JobStates \cup {NoJob}]
        /\ \A k \in Jobs : job'[k].phase \in {"saving", "releasing"} => job'[k] = job[k]
    BY <1>1, SmallStates, SmallFields, Moved
  <1>6. TheRiderWhoAcceptedIsTheRiderNamed'
    BY <1>1, <1>3, GaveItBack
  <1>7. SaversKnow' /\ CopiesAreCurrent'
    BY <1>1, <1>3, <1>5, CopiesStay
  <1>8. TypeOK'
    BY <1>1, <1>2, <1>3, <1>4, <1>5, SmallFields DEF TypeOK, clocks
  <1>9. CancelledIsOver'
    BY <1>1, <1>3, <1>5, OverStays
  <1>. QED
    BY <1>6, <1>7, <1>8, <1>9 DEF DispatchInv

(* Time, the seller, and the rider on the road.                            *)
LEMMA AroundKeepsIt ==
    ASSUME DispatchInv, ClearOldLock \/ Due \/ PickUp \/ Close \/ Wait \/ LockAges
    PROVE  DispatchInv'
  <1>1. /\ job' = job /\ UNCHANGED ghosts
        /\ barred' = barred /\ queued' = queued /\ starts' = starts /\ ownFleet' = ownFleet
    BY DEF ClearOldLock, Due, PickUp, Close, Wait, LockAges
  <1>2. doc' \in Docs /\ doc'.status = doc.status /\ doc'.partner = doc.partner
        /\ doc'.acceptedAt = doc.acceptedAt
    BY SmallFields DEF ClearOldLock, Due, PickUp, Close, Wait, LockAges, Docs
  <1>3. /\ stage' \in {"waiting", "open", "picked", "closed"} /\ outdated' \subseteq Jobs
        /\ age' \in 0..2 /\ lockOld' \in BOOLEAN
    <2>1. /\ stage \in {"waiting", "open", "picked", "closed"} /\ outdated \subseteq Jobs
          /\ Savers \subseteq Jobs /\ age \in 0..2 /\ lockOld \in BOOLEAN
      BY SmallFields DEF TypeOK, Savers
    <2>2. stage' \in {stage, "open", "picked", "closed"} /\ outdated' \in {outdated, Savers}
      BY DEF ClearOldLock, Due, PickUp, Close, Wait, LockAges
    <2>3. age' \in {age, age + 1} /\ (age' # age => age < 2)
      BY DEF ClearOldLock, Due, PickUp, Close, Wait, LockAges, clocks
    <2>4. lockOld' \in BOOLEAN
      BY <2>1 DEF ClearOldLock, Due, PickUp, Close, Wait, LockAges, clocks
    <2>5. age' \in 0..2
      BY <2>1, <2>3
    <2>6. stage' \in {"waiting", "open", "picked", "closed"} /\ outdated' \subseteq Jobs
      BY <2>1, <2>2
    <2>. QED
      BY <2>4, <2>5, <2>6
  <1>4. TheRiderWhoAcceptedIsTheRiderNamed' /\ SaversKnow' /\ CopiesAreCurrent'
    BY <1>1, <1>2, QuietStep
  <1>5. TypeOK'
    BY <1>1, <1>2, <1>3, SmallFields DEF TypeOK, ghosts
  <1>6. CancelledIsOver'
    <2>1. stage = "closed" => stage' = "closed"
      BY DEF ClearOldLock, Due, PickUp, Close, Wait, LockAges
    <2>. QED
      BY <1>1, <1>2, <2>1, OverStays
  <1>. QED
    BY <1>4, <1>5, <1>6 DEF DispatchInv

-----------------------------------------------------------------------------
(* A handler that reads the order knows what it read.                      *)
LEMMA CopiedKeepsIt ==
    ASSUME DispatchInv, NEW j \in Jobs, NEW kind \in Handlers, NEW r \in Riders \cup {Nobody},
           Copied(j, kind, r), queued' \subseteq Riders, starts' \in 0..MaxStarts,
           doc.status # "cancelled",
           kind \in {"timeout", "watchdog", "resend", "assign"} => doc.status # "accepted",
           kind = "reject" => r \in Riders /\ doc.partner = r,
           kind = "reassign" => doc.partner # r
    PROVE  DispatchInv'
  <1>. DEFINE s == [phase |-> "saving", kind |-> kind, rider |-> r, copy |-> doc]
  <1>1. /\ UNCHANGED <<doc, stage, clocks, barred, ownFleet, holders, overtaken>>
        /\ outdated' = outdated \ {j} /\ behind' = behind \ {j} /\ Become(j, s)
    BY DEF Copied
  <1>2. s \in JobStates
    BY SmallFields DEF JobStates
  <1>3. HandlerKnows(s) /\ s.copy = doc /\ s.phase = "saving"
    BY DEF HandlerKnows
  <1>. HIDE DEF s
  <1>4. /\ job' \in [Jobs -> JobStates \cup {NoJob}]
        /\ \A k \in Jobs : job'[k] = IF k = j THEN s ELSE job[k]
    BY <1>1, <1>2, SmallFields, Moved
  <1>5. SaversKnow'
    <2>1. \A k \in Jobs : job'[k].phase = "saving" => HandlerKnows(job'[k])
      BY <1>3, <1>4 DEF DispatchInv, SaversKnow
    <2>. QED
      BY <2>1 DEF SaversKnow, HandlerKnows
  <1>6. TheRiderWhoAcceptedIsTheRiderNamed'
    BY <1>1 DEF DispatchInv, TheRiderWhoAcceptedIsTheRiderNamed
  <1>7. CopiesAreCurrent'
    <2>1. ASSUME ~overtaken, NEW k \in Jobs, job'[k].phase = "saving", k \notin behind'
          PROVE  /\ job'[k].copy.acceptedAt <=> job'[k].copy.status = "accepted"
                 /\ doc.acceptedAt => job'[k].copy.acceptedAt
                 /\ doc.status = "accepted" =>
                       job'[k].copy.status = "accepted" /\ job'[k].copy.partner = doc.partner
      <3>1. CASE k = j
        <4>1. job'[k].copy = doc
          BY <1>3, <1>4, <3>1
        <4>2. (doc.acceptedAt <=> doc.status = "accepted") /\ doc.acceptedAt \in BOOLEAN
          BY <2>1, SmallFields DEF DispatchInv, TheRiderWhoAcceptedIsTheRiderNamed, Docs
        <4>. QED
          BY <4>1, <4>2
      <3>2. CASE k # j
        BY <1>1, <1>4, <2>1, <3>2 DEF DispatchInv, CopiesAreCurrent
      <3>. QED
        BY <3>1, <3>2
    <2>. QED
      BY <1>1, <2>1 DEF CopiesAreCurrent
  <1>8. TypeOK'
    BY <1>1, <1>4, SmallFields DEF TypeOK, clocks
  <1>9. CancelledIsOver'
    BY <1>1, <1>3, <1>4, OverStays
  <1>. QED
    BY <1>5, <1>6, <1>7, <1>8, <1>9 DEF DispatchInv

LEMMA OpenIsNotCancelled == DispatchInv /\ stage # "closed" => doc.status # "cancelled"
  BY DEF DispatchInv, CancelledIsOver

LEMMA ReadersKeepIt ==
    ASSUME DispatchInv, NEW j \in Jobs, NEW r \in Riders,
           AssignReads(j, r) \/ ReassignReads(j, r) \/ RejectReads(j, r)
    PROVE  DispatchInv'
  <1>1. starts' \in 0..MaxStarts /\ queued' \subseteq Riders
    BY SmallFields, DispatchAssumption DEF AssignReads, ReassignReads, RejectReads, Start
  <1>2. {"assign", "reassign", "reject"} \subseteq Handlers
    BY DEF Handlers
  <1>4. CASE AssignReads(j, r)
    BY <1>1, <1>2, <1>4, OpenIsNotCancelled, CopiedKeepsIt DEF AssignReads
  <1>5. CASE ReassignReads(j, r)
    BY <1>1, <1>2, <1>5, OpenIsNotCancelled, CopiedKeepsIt DEF ReassignReads
  <1>6. CASE RejectReads(j, r)
    BY <1>1, <1>2, <1>6, OpenIsNotCancelled, CopiedKeepsIt DEF RejectReads
  <1>. QED
    BY <1>4, <1>5, <1>6

LEMMA CancelReadsKeepsIt ==
    ASSUME DispatchInv, NEW j \in Jobs, CancelReads(j) \/ ResendReads(j)
    PROVE  DispatchInv'
  <1>1. starts' \in 0..MaxStarts /\ queued' \subseteq Riders
    BY SmallFields, DispatchAssumption DEF CancelReads, ResendReads, Start
  <1>2. {"cancel", "resend"} \subseteq Handlers
    BY DEF Handlers
  <1>3. CASE CancelReads(j)
    BY <1>1, <1>2, <1>3, OpenIsNotCancelled, CopiedKeepsIt DEF CancelReads
  <1>4. CASE ResendReads(j)
    BY <1>1, <1>2, <1>4, OpenIsNotCancelled, CopiedKeepsIt DEF ResendReads
  <1>. QED
    BY <1>3, <1>4

LEMMA WatchdogReadsKeepsIt ==
    ASSUME DispatchInv, WatchdogReads
    PROVE  DispatchInv'
  <1>1. "watchdog" \in Handlers /\ Watchdog \in Jobs
    BY DispatchAssumption DEF Handlers
  <1>. QED
    BY <1>1, SmallFields, CopiedKeepsIt DEF WatchdogReads, Stuck

LEMMA TimeoutReadsKeepsIt ==
    ASSUME DispatchInv, NEW j \in Jobs, NEW p \in Riders, TimeoutReads(j, p)
    PROVE  DispatchInv'
  <1>1. starts' \in 0..MaxStarts /\ queued' \subseteq Riders /\ "timeout" \in Handlers
    BY SmallFields, DispatchAssumption DEF TimeoutReads, Start, Handlers
  <1>2. CASE Copied(j, "timeout", p) /\ doc.status = "assigned"
    BY <1>1, <1>2, CopiedKeepsIt
  <1>3. CASE /\ Become(j, IF doc.status = "unassigned" THEN Starting ELSE NoJob)
             /\ UNCHANGED <<doc, stage, clocks, barred, ownFleet, outdated, ghosts>>
    BY <1>1, <1>3, SmallFields, SmallStates, AttemptStep DEF clocks
  <1>. QED
    BY <1>2, <1>3 DEF TimeoutReads

-----------------------------------------------------------------------------
(* Saves                                                                   *)

LEMMA SavedFields ==
    ASSUME NEW copy \in Docs, NEW new \in Docs, doc \in Docs
    PROVE  /\ Saved(copy, new) \in Docs
           /\ Saved(copy, new).status = IF new.status # copy.status THEN new.status ELSE doc.status
           /\ Saved(copy, new).partner = IF new.partner # copy.partner THEN new.partner ELSE doc.partner
           /\ Saved(copy, new).acceptedAt =
                 IF new.acceptedAt # copy.acceptedAt THEN new.acceptedAt ELSE doc.acceptedAt
  BY DEF Saved, Docs

NewStatus(h) ==
    CASE h.kind \in {"assign", "reassign"} -> "assigned"
      [] h.kind = "cancel" -> IF h.copy.partner = Nobody THEN h.copy.status ELSE "cancelled"
      [] OTHER -> "unassigned"

LEMMA ChangedFields ==
    ASSUME NEW h, h.kind \in Handlers, h.rider \in Riders \cup {Nobody}, h.copy \in Docs
    PROVE  /\ Changed(h) \in Docs
           /\ Changed(h).status = NewStatus(h)
           /\ Changed(h).partner = IF h.kind \in {"assign", "reassign"} THEN h.rider ELSE Nobody
           /\ Changed(h).acceptedAt =
                 IF h.kind \in {"reject", "reassign"} THEN FALSE ELSE h.copy.acceptedAt
  <1>1. CASE h.kind = "cancel"
    BY <1>1 DEF Changed, NewStatus, Docs
  <1>2. CASE h.kind = "reject"
    <2>1. Changed(h) = Released(h.copy) /\ NewStatus(h) = "unassigned"
      BY <1>2 DEF Changed, NewStatus
    <2>2. /\ Released(h.copy) \in Docs /\ Released(h.copy).status = "unassigned"
          /\ Released(h.copy).partner = Nobody /\ Released(h.copy).acceptedAt = FALSE
      BY DEF Released, Docs
    <2>. QED
      BY <1>2, <2>1, <2>2
  <1>3. CASE h.kind \in {"timeout", "watchdog", "resend"}
    BY <1>3 DEF Changed, NewStatus, Docs
  <1>4. CASE h.kind \in {"assign", "reassign"}
    BY <1>4 DEF Changed, NewStatus, Docs
  <1>. QED
    BY <1>1, <1>2, <1>3, <1>4 DEF Handlers

LEMMA SaveFailsKeepsIt ==
    ASSUME DispatchInv, NEW j \in Jobs, SaveFails(j)
    PROVE  DispatchInv'
  <1>1. /\ UNCHANGED <<doc, stage, clocks, barred, ownFleet, queued, starts, holders, overtaken>>
        /\ Become(j, NoJob) /\ outdated' = outdated \ {j} /\ behind' = behind \ {j}
    BY DEF SaveFails
  <1>2. /\ job' \in [Jobs -> JobStates \cup {NoJob}]
        /\ \A k \in Jobs : job'[k].phase \in {"saving", "releasing"} => job'[k] = job[k] /\ k # j
    BY <1>1, SmallStates, SmallFields, Moved
  <1>3. SaversKnow' /\ CopiesAreCurrent'
    BY <1>1, <1>2, CopiesStay
  <1>4. TheRiderWhoAcceptedIsTheRiderNamed'
    BY <1>1 DEF DispatchInv, TheRiderWhoAcceptedIsTheRiderNamed
  <1>5. TypeOK'
    BY <1>1, <1>2, SmallFields DEF TypeOK, clocks
  <1>6. CancelledIsOver'
    BY <1>1, <1>2, OverStays
  <1>. QED
    BY <1>3, <1>4, <1>5, <1>6 DEF DispatchInv

(* What a handler that saves holds, and what it writes.                    *)
LEMMA SaveFields ==
    ASSUME DispatchInv, NEW j \in Jobs, Save(j), NEW h, h = job[j], NEW new, new = Changed(h)
    PROVE  /\ h.kind \in Handlers /\ h.rider \in Riders \cup {Nobody} /\ h.copy \in Docs
           /\ HandlerKnows(h) /\ h.phase = "saving"
           /\ new \in Docs
           /\ new.status = NewStatus(h)
           /\ new.partner = IF h.kind \in {"assign", "reassign"} THEN h.rider ELSE Nobody
           /\ new.acceptedAt = IF h.kind \in {"reject", "reassign"} THEN FALSE ELSE h.copy.acceptedAt
           /\ doc' \in Docs
           /\ doc'.status = IF new.status # h.copy.status THEN new.status ELSE doc.status
           /\ doc'.partner = IF new.partner # h.copy.partner THEN new.partner ELSE doc.partner
           /\ doc'.acceptedAt = IF new.acceptedAt # h.copy.acceptedAt THEN new.acceptedAt ELSE doc.acceptedAt
           /\ holders' = CASE h.kind = "reject" -> holders \ {h.rider}
                            [] h.kind \in {"reassign", "cancel"} -> holders \ {h.copy.partner}
                            [] OTHER -> holders
  <1>1. /\ h.kind \in Handlers /\ h.rider \in Riders \cup {Nobody} /\ h.copy \in Docs
        /\ HandlerKnows(h) /\ h.phase = "saving"
    BY JobFields DEF DispatchInv, Save, SaversKnow
  <1>2. /\ new \in Docs
        /\ new.status = NewStatus(h)
        /\ new.partner = IF h.kind \in {"assign", "reassign"} THEN h.rider ELSE Nobody
        /\ new.acceptedAt = IF h.kind \in {"reject", "reassign"} THEN FALSE ELSE h.copy.acceptedAt
    BY <1>1, ChangedFields
  <1>3. /\ doc' = Saved(h.copy, new)
        /\ holders' = CASE h.kind = "reject" -> holders \ {h.rider}
                         [] h.kind \in {"reassign", "cancel"} -> holders \ {h.copy.partner}
                         [] OTHER -> holders
    BY DEF Save
  <1>. QED
    BY <1>1, <1>2, <1>3, SmallFields, SavedFields

(* A handler whose copy already is what it wants writes nothing.           *)
LEMMA SaveOfNothing ==
    ASSUME DispatchInv, NEW j \in Jobs, Save(j), Changed(job[j]) = job[j].copy
    PROVE  /\ doc'.status = doc.status /\ doc'.partner = doc.partner
           /\ doc'.acceptedAt = doc.acceptedAt /\ holders' = holders /\ overtaken' = overtaken
  <1>. DEFINE h == job[j]
              new == Changed(h)
  <1>1. /\ h.kind \in Handlers /\ HandlerKnows(h)
        /\ new.partner = IF h.kind \in {"assign", "reassign"} THEN h.rider ELSE Nobody
        /\ doc'.status = doc.status /\ doc'.partner = doc.partner /\ doc'.acceptedAt = doc.acceptedAt
        /\ holders' = CASE h.kind = "reject" -> holders \ {h.rider}
                         [] h.kind \in {"reassign", "cancel"} -> holders \ {h.copy.partner}
                         [] OTHER -> holders
    BY SaveFields
  <1>2. overtaken' = overtaken
    BY SmallFields DEF TypeOK, Save
  <1>3. h.kind # "reject"
    BY <1>1, DispatchAssumption DEF HandlerKnows
  <1>4. h.kind # "reassign"
    BY <1>1 DEF HandlerKnows
  <1>5. ASSUME h.kind = "cancel"
        PROVE  holders' = holders
    <2>1. h.copy.partner = Nobody /\ Nobody \notin holders
      BY <1>1, <1>5, SmallFields, DispatchAssumption DEF TypeOK
    <2>. QED
      BY <1>1, <1>5, <2>1
  <1>. QED
    BY <1>1, <1>2, <1>3, <1>4, <1>5

(* A save that writes leaves the order without a rider who accepted it,    *)
(* unless it overtakes an acceptance.                                      *)
LEMMA SaveReleases ==
    ASSUME DispatchInv, NEW j \in Jobs, Save(j), Changed(job[j]) # job[j].copy, ~overtaken'
    PROVE  /\ ~overtaken /\ doc'.status # "accepted" /\ holders' = {}
           /\ doc'.acceptedAt => doc.acceptedAt /\ doc'.status = "cancelled"
  <1>. DEFINE h == job[j]
              new == Changed(h)
  <1>1. /\ h.kind \in Handlers /\ h.rider \in Riders \cup {Nobody} /\ h.copy \in Docs
        /\ HandlerKnows(h) /\ h.phase = "saving"
        /\ new.status = NewStatus(h)
        /\ new.acceptedAt = IF h.kind \in {"reject", "reassign"} THEN FALSE ELSE h.copy.acceptedAt
        /\ doc'.status = IF new.status # h.copy.status THEN new.status ELSE doc.status
        /\ doc'.acceptedAt = IF new.acceptedAt # h.copy.acceptedAt THEN new.acceptedAt ELSE doc.acceptedAt
        /\ holders' = CASE h.kind = "reject" -> holders \ {h.rider}
                         [] h.kind \in {"reassign", "cancel"} -> holders \ {h.copy.partner}
                         [] OTHER -> holders
    BY SaveFields
  <1>2. ~overtaken /\ j \notin behind
    BY DEF Save
  <1>3. holders = IF doc.status = "accepted" THEN {doc.partner} ELSE {}
    BY <1>2 DEF DispatchInv, TheRiderWhoAcceptedIsTheRiderNamed
  <1>4. /\ h.copy.acceptedAt <=> h.copy.status = "accepted"
        /\ doc.acceptedAt => h.copy.acceptedAt
        /\ doc.status = "accepted" => h.copy.status = "accepted" /\ h.copy.partner = doc.partner
    BY <1>1, <1>2 DEF DispatchInv, CopiesAreCurrent
  <1>7. h.kind = "cancel" => h.copy.partner # Nobody
    BY DEF Changed
  <1>. HIDE DEF h, new
  <1>5. doc'.status # "accepted" /\ (doc'.acceptedAt => doc.acceptedAt /\ doc'.status = "cancelled")
    <2>1. CASE h.kind = "cancel"
      BY <1>1, <1>4, <1>7, <2>1 DEF NewStatus, HandlerKnows
    <2>2. CASE h.kind # "cancel"
      BY <1>1, <1>4, <2>2 DEF NewStatus, Docs, HandlerKnows, Handlers
    <2>. QED
      BY <2>1, <2>2
  <1>6. holders' = {}
    BY <1>1, <1>3, <1>4 DEF HandlerKnows, Handlers
  <1>. QED
    BY <1>2, <1>5, <1>6

LEMMA SaveKeepsIt ==
    ASSUME DispatchInv, NEW j \in Jobs, Save(j)
    PROVE  DispatchInv'
  <1>. DEFINE h == job[j]
  <1>1. /\ h.kind \in Handlers /\ h.rider \in Riders \cup {Nobody} /\ h.copy \in Docs
        /\ doc' \in Docs
        /\ holders' = CASE h.kind = "reject" -> holders \ {h.rider}
                         [] h.kind \in {"reassign", "cancel"} -> holders \ {h.copy.partner}
                         [] OTHER -> holders
    BY SaveFields
  <1>2. PICK s \in JobStates \cup {NoJob} : Become(j, s) /\ s.phase \notin {"saving", "releasing"}
    BY SmallStates DEF Save
  <1>3. /\ job' \in [Jobs -> JobStates \cup {NoJob}]
        /\ \A k \in Jobs : job'[k].phase \in {"saving", "releasing"} => job'[k] = job[k] /\ k # j
    BY <1>2, SmallFields, Moved
  <1>4. TypeOK'
    <2>1. age' \in 0..2
      BY SmallFields DEF Save
    <2>2. h.copy.partner \in Riders \cup {Nobody}
      BY <1>1 DEF Docs
    <2>3. barred' \subseteq Riders
      BY <2>2, SmallFields DEF Save
    <2>4. holders' \subseteq Riders
      BY <1>1, SmallFields DEF TypeOK
    <2>7. overtaken' \in BOOLEAN
      BY SmallFields DEF TypeOK, Save
    <2>5. outdated' \subseteq Jobs /\ behind' \subseteq Jobs
      BY SmallFields DEF Save, TypeOK, Savers
    <2>6. UNCHANGED <<lockOld, ownFleet, queued, starts>> /\ stage' \in {stage, "closed"}
      BY DEF Save
    <2>. QED
      BY <1>1, <1>3, <2>1, <2>3, <2>4, <2>5, <2>6, <2>7, SmallFields DEF TypeOK
  <1>5. \A k \in Jobs : k \in behind /\ k # j => k \in behind'
    BY DEF Save
  <1>8. CancelledIsOver'
    <2>. DEFINE new == Changed(h)
    <2>1. /\ doc'.status = IF new.status # h.copy.status THEN new.status ELSE doc.status
          /\ new.status = NewStatus(h)
      BY SaveFields
    <2>2. stage' = IF h.kind = "cancel" THEN "closed" ELSE stage
      BY DEF Save
    <2>. HIDE DEF h, new
    <2>3. doc'.status = "cancelled" => doc.status = "cancelled" \/ stage' = "closed"
      BY <2>1, <2>2 DEF NewStatus
    <2>. QED
      BY <1>3, <2>2, <2>3, OverStays
  <1>6. CASE Changed(h) = h.copy
    <2>1. /\ doc'.status = doc.status /\ doc'.partner = doc.partner
          /\ doc'.acceptedAt = doc.acceptedAt /\ holders' = holders /\ overtaken' = overtaken
      BY <1>6, SaveOfNothing
    <2>2. SaversKnow' /\ CopiesAreCurrent'
      BY <1>3, <1>5, <2>1, CopiesStay
    <2>3. TheRiderWhoAcceptedIsTheRiderNamed'
      BY <2>1 DEF DispatchInv, TheRiderWhoAcceptedIsTheRiderNamed
    <2>. QED
      BY <1>4, <1>8, <2>2, <2>3 DEF DispatchInv
  <1>7. CASE Changed(h) # h.copy
    <2>1. ~overtaken' => /\ ~overtaken /\ doc'.status # "accepted" /\ holders' = {}
                         /\ doc'.acceptedAt => doc.acceptedAt /\ doc'.status = "cancelled"
      BY <1>7, SaveReleases
    <2>2. TheRiderWhoAcceptedIsTheRiderNamed'
      BY <2>1 DEF TheRiderWhoAcceptedIsTheRiderNamed
    <2>3. CASE overtaken'
      <3>1. CopiesAreCurrent'
        BY <2>3 DEF CopiesAreCurrent
      <3>2. SaversKnow'
        BY <1>3 DEF DispatchInv, SaversKnow, HandlerKnows
      <3>. QED
        BY <1>4, <1>8, <2>2, <3>1, <3>2 DEF DispatchInv
    <2>4. CASE ~overtaken'
      <3>1. overtaken' = overtaken
        BY <2>1, <2>4, <1>4, SmallFields DEF TypeOK
      <3>2. SaversKnow' /\ CopiesAreCurrent'
        BY <1>3, <1>5, <2>1, <2>4, <3>1, CopiesStay
      <3>. QED
        BY <1>4, <1>8, <2>2, <3>2 DEF DispatchInv
    <2>. QED
      BY <2>3, <2>4
  <1>. QED
    BY <1>6, <1>7

-----------------------------------------------------------------------------
(* The expiry                                                              *)

LEMMA ExpireReadsKeepsIt ==
    ASSUME DispatchInv, NEW j \in Jobs, ExpireReads(j)
    PROVE  DispatchInv'
  <1>. DEFINE s == [phase |-> "expiring", rider |-> doc.partner]
  <1>1. s \in JobStates /\ s.phase \notin {"saving", "releasing"}
    BY SmallFields DEF JobStates, Docs
  <1>2. /\ UNCHANGED <<stage, ownFleet, outdated, ghosts>> /\ doc' = doc
        /\ age' = age /\ lockOld' = lockOld /\ barred' = barred /\ queued' = queued
        /\ Become(j, s)
    BY DEF ExpireReads, clocks
  <1>3. starts' \in 0..MaxStarts
    BY SmallFields, DispatchAssumption DEF ExpireReads, Start
  <1>. HIDE DEF s
  <1>. QED
    BY <1>1, <1>2, <1>3, SmallFields, AttemptStep

(* The order is over, whatever its dispatch says.                          *)
LEMMA ExpireKeepsIt ==
    ASSUME DispatchInv, NEW j \in Jobs, Expire(j)
    PROVE  DispatchInv'
  <1>1. /\ UNCHANGED <<doc, clocks, barred, ownFleet, outdated, queued, starts, ghosts>>
        /\ job[j].phase = "expiring"
    BY DEF Expire
  <1>2. job[j].rider \in Riders \cup {Nobody}
    BY <1>1, SmallFields, JobFields
  <1>3. PICK s \in JobStates \cup {NoJob} :
           /\ Become(j, s) /\ s.phase # "saving"
           /\ \/ stage' = "closed"
              \/ stage' = stage /\ s.phase # "releasing"
    <2>1. CASE stage' = "closed"
      <3>1. CASE job[j].rider = Nobody
        BY <2>1, <3>1, SmallStates DEF Expire
      <3>2. CASE job[j].rider # Nobody
        <4>. DEFINE t == [phase |-> "releasing", rider |-> job[j].rider]
        <4>1. t \in JobStates /\ t.phase # "saving"
          BY <1>2, <3>2 DEF JobStates
        <4>. QED
          BY <2>1, <3>2, <4>1, SmallStates DEF Expire
      <3>. QED
        BY <3>1, <3>2
    <2>2. CASE stage' # "closed"
      BY <2>2, SmallStates DEF Expire
    <2>. QED
      BY <2>1, <2>2
  <1>4. /\ job' \in [Jobs -> JobStates \cup {NoJob}]
        /\ \A k \in Jobs : job'[k] = IF k = j THEN s ELSE job[k]
    BY <1>3, SmallFields, Moved
  <1>5. TheRiderWhoAcceptedIsTheRiderNamed' /\ SaversKnow' /\ CopiesAreCurrent'
    BY <1>1, <1>3, <1>4, QuietStep
  <1>6. CancelledIsOver'
    BY <1>1, <1>3, <1>4, OverStays
  <1>7. TypeOK'
    BY <1>1, <1>3, <1>4, SmallFields DEF TypeOK, clocks, ghosts
  <1>. QED
    BY <1>5, <1>6, <1>7 DEF DispatchInv

(* Whoever has the order loses it; whoever was on the list is told.        *)
LEMMA ReleaseStrandedKeepsIt ==
    ASSUME DispatchInv, NEW j \in Jobs, ReleaseStranded(j)
    PROVE  DispatchInv'
  <1>. DEFINE r == job[j].rider
  <1>1. /\ UNCHANGED <<stage, clocks, barred, ownFleet, outdated, queued, starts, behind>>
        /\ holders' = holders \ {r} /\ Become(j, NoJob)
        /\ overtaken' = (overtaken \/ (doc.status = "accepted" /\ doc.partner # r))
        /\ job[j].phase = "releasing"
    BY DEF ReleaseStranded
  <1>2. /\ doc' \in Docs /\ doc'.status = "cancelled" /\ doc'.partner = Nobody
        /\ doc'.acceptedAt = doc.acceptedAt
    BY SmallFields DEF ReleaseStranded, Docs
  <1>. HIDE DEF r
  <1>3. /\ job' \in [Jobs -> JobStates \cup {NoJob}]
        /\ \A k \in Jobs : job'[k].phase \in {"saving", "releasing"} => job'[k] = job[k]
    BY <1>1, SmallStates, SmallFields, Moved
  <1>4. stage = "closed"
    BY <1>1 DEF DispatchInv, CancelledIsOver
  <1>5. TheRiderWhoAcceptedIsTheRiderNamed'
    <2>1. ASSUME ~overtaken'
          PROVE  holders' = {}
      <3>1. /\ ~overtaken /\ (doc.status = "accepted" => doc.partner = r)
            /\ holders = IF doc.status = "accepted" THEN {doc.partner} ELSE {}
        BY <1>1, <2>1 DEF DispatchInv, TheRiderWhoAcceptedIsTheRiderNamed
      <3>. QED
        BY <1>1, <3>1
    <2>. QED
      BY <1>2, <2>1 DEF TheRiderWhoAcceptedIsTheRiderNamed
  <1>6. SaversKnow'
    BY <1>3 DEF DispatchInv, SaversKnow, HandlerKnows
  <1>7. CopiesAreCurrent'
    <2>1. ~overtaken' => ~overtaken
      BY <1>1
    <2>. QED
      BY <1>1, <1>2, <1>3, <2>1 DEF DispatchInv, CopiesAreCurrent
  <1>8. CancelledIsOver'
    BY <1>1, <1>3, <1>4, OverStays
  <1>9. TypeOK'
    <2>1. overtaken' \in BOOLEAN /\ holders' \subseteq Riders
      BY <1>1, SmallFields DEF TypeOK
    <2>. QED
      BY <1>1, <1>2, <1>3, <2>1, SmallFields DEF TypeOK, clocks
  <1>. QED
    BY <1>5, <1>6, <1>7, <1>8, <1>9 DEF DispatchInv

-----------------------------------------------------------------------------
LEMMA InitIsCurrent == Init => DispatchInv
  <1>. SUFFICES ASSUME Init PROVE DispatchInv
    OBVIOUS
  <1>1. doc \in Docs /\ 0 \in 0..MaxStarts
    BY DispatchAssumption DEF Init, Docs
  <1>2. \A j \in Jobs : job[j] = NoJob /\ job[j].phase \notin {"saving", "releasing"}
    BY DEF Init, NoJob
  <1>3. TypeOK
    <2>1. lockOld \in BOOLEAN /\ ownFleet \in BOOLEAN /\ overtaken \in BOOLEAN
      BY DEF Init
    <2>2. /\ stage \in {"waiting", "open", "picked", "closed"} /\ age \in 0..2
          /\ barred \subseteq Riders /\ queued \subseteq Riders /\ starts \in 0..MaxStarts
          /\ outdated \subseteq Jobs /\ holders \subseteq Riders /\ behind \subseteq Jobs
      BY <1>1 DEF Init
    <2>3. job \in [Jobs -> JobStates \cup {NoJob}]
      BY DEF Init
    <2>. QED
      BY <1>1, <2>1, <2>2, <2>3 DEF TypeOK
  <1>4. TheRiderWhoAcceptedIsTheRiderNamed
    BY DEF Init, TheRiderWhoAcceptedIsTheRiderNamed
  <1>5. SaversKnow /\ CopiesAreCurrent
    BY <1>2 DEF SaversKnow, CopiesAreCurrent
  <1>6. CancelledIsOver
    BY <1>2 DEF Init, CancelledIsOver
  <1>. QED
    BY <1>3, <1>4, <1>5, <1>6 DEF DispatchInv

LEMMA StepsKeepIt == DispatchInv /\ [Next]_vars => DispatchInv'
  <1>. SUFFICES ASSUME DispatchInv, [Next]_vars
                PROVE  DispatchInv'
    OBVIOUS
  <1>1. CASE UNCHANGED vars
    <2>1. /\ UNCHANGED <<doc, stage, age, lockOld, barred, ownFleet, job, outdated, queued, starts>>
          /\ UNCHANGED ghosts
      BY <1>1 DEF vars, clocks
    <2>2. TheRiderWhoAcceptedIsTheRiderNamed' /\ SaversKnow' /\ CopiesAreCurrent'
      BY <2>1, QuietStep
    <2>3. TypeOK'
      BY <2>1, SmallFields DEF TypeOK, ghosts
    <2>4. CancelledIsOver'
      BY <2>1, OverStays
    <2>. QED
      BY <2>2, <2>3, <2>4 DEF DispatchInv
  <1>2. ASSUME NEW j \in Jobs, JobStep(j)
        PROVE  DispatchInv'
    BY <1>2, TakeLockKeepsIt, LettingGoKeepsIt, ReleaseHolderKeepsIt, PickRiderKeepsIt,
       DirectAssignKeepsIt, NobodyNearbyKeepsIt, LoseTieBreakKeepsIt, OfferKeepsIt,
       SaveKeepsIt, SaveFailsKeepsIt, ExpireKeepsIt, ReleaseStrandedKeepsIt DEF JobStep
  <1>3. ASSUME NEW j \in Jobs, Attempt(j) \/ Deassign(j) \/ ExpireReads(j) \/ Crash(j)
        PROVE  DispatchInv'
    BY <1>3, AttemptKeepsIt, DeassignKeepsIt, ExpireReadsKeepsIt, LettingGoKeepsIt
  <1>4. ASSUME NEW j \in Jobs, NEW r \in Riders,
               \/ TimeoutReads(j, r)
               \/ AssignReads(j, r) \/ ReassignReads(j, r) \/ RejectReads(j, r)
        PROVE  DispatchInv'
    BY <1>4, TimeoutReadsKeepsIt, ReadersKeepIt
  <1>5. ASSUME NEW j \in Jobs, CancelReads(j) \/ ResendReads(j)
        PROVE  DispatchInv'
    BY <1>5, CancelReadsKeepsIt
  <1>6. ASSUME NEW r \in Riders, Accept(r) \/ TieBreakElsewhere(r)
        PROVE  DispatchInv'
    BY <1>6, AcceptKeepsIt, TieBreakElsewhereKeepsIt
  <1>7. CASE \/ WatchdogReads
             \/ ClearOldLock \/ Due \/ PickUp \/ Close \/ Wait \/ LockAges
    BY <1>7, WatchdogReadsKeepsIt, AroundKeepsIt
  <1>. QED
    BY <1>1, <1>2, <1>3, <1>4, <1>5, <1>6, <1>7 DEF Next, Begin

LEMMA DispatchInvAlways == Spec => []DispatchInv
  BY InitIsCurrent, StepsKeepIt, PTL DEF Spec

(* The order, the attempts and the handlers keep their shape.              *)
THEOREM DispatchIsTyped == Spec => []TypeOK
  <1>1. DispatchInv => TypeOK
    BY DEF DispatchInv
  <1>. QED
    BY <1>1, DispatchInvAlways, PTL

(***************************************************************************)
(* One trip, one rider: as long as no handler writes what it read before   *)
(* an acceptance over that acceptance, the one rider who accepted the      *)
(* order, or was given it accepted, is the rider it names - whatever       *)
(* attempts, timeouts, rejections, tie-breaks, hand-made assignments,      *)
(* cancellations and expiries overlap (the conditional updates of          *)
(* order-dispatch.service.js and acceptOrderDelivery).  It says nothing of *)
(* a rider to whom the order was only assigned.                            *)
(***************************************************************************)
THEOREM TheRiderWhoAcceptedIsAlwaysNamed == Spec => []TheRiderWhoAcceptedIsTheRiderNamed
  <1>1. DispatchInv => TheRiderWhoAcceptedIsTheRiderNamed
    BY DEF DispatchInv
  <1>. QED
    BY <1>1, DispatchInvAlways, PTL
=============================================================================
