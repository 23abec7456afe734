-------------------------- MODULE OrderPaymentProofs --------------------------
(***************************************************************************)
(* The seller acts on nothing unpaid, and the books follow the money, for  *)
(* any number of handlers that overlap.  The invariant behind it: what a   *)
(* handler is about to save about money is true at Razorpay already.  A    *)
(* capture is not undone and a refund is not taken back, so it still is    *)
(* when the handler saves, however old its copy of the order.              *)
(***************************************************************************)
EXTENDS OrderPayment, TLAPS

(* What a handler is about to do, when Razorpay stands at g and support    *)
(* has (hand) moved the order on.                                          *)
OnTrack(s, g, hand) ==
    /\ s.step \in {"fetch", "valid", "save"} => g # "unpaid"
    /\ s.step = "refunded" => g = "refunded"
    /\ s.step # "idle" /\ s.kind \in {"accept", "reject"} => g # "unpaid"
    /\ s.step = "move" => s.seen.status = "pending_payment" \/ hand \/ g # "unpaid"

HandlersFollowTheMoney == \A h \in Handlers : OnTrack(job[h], gateway, byHand)

PaidOrByHand == order.status \in {"created", "confirmed"} /\ ~byHand => gateway # "unpaid"

PayInv == TypeOK /\ PaidOrByHand /\ BooksFollowTheMoney /\ HandlersFollowTheMoney

Ends == {"cancel", "reject", "expire"}
EndSteps == {"restore", "putback", "status", "refund", "refunded", "failed", "kept"}

-----------------------------------------------------------------------------
LEMMA OrderFields ==
    ASSUME PayInv
    PROVE  /\ Exists => order \in Documents
           /\ ~Exists => order.status = "deleted"
           /\ gateway \in {"unpaid", "captured", "refunded"}
           /\ crashes \in 0..MaxCrashes
           /\ units \in {"held", "owed", "back", "lost"} /\ byHand \in BOOLEAN
           /\ job \in [Handlers -> Jobs \cup {Idle}]
  BY DEF PayInv, TypeOK, Exists, Deleted

LEMMA JobFields ==
    ASSUME PayInv, NEW h \in Handlers
    PROVE  /\ job[h].step # "idle" => job[h] \in Jobs /\ job[h].seen \in Documents
           /\ job[h].step \in {"fetch", "valid", "invalid"} => job[h].kind = "verify"
           /\ OnTrack(job[h], gateway, byHand)
  <1>1. job[h] \in Jobs \cup {Idle}
    BY DEF PayInv, TypeOK
  <1>2. job[h].step # "idle" => job[h] \in Jobs /\ job[h].seen \in Documents
    BY <1>1 DEF Jobs, Idle
  <1>3. job[h].step \in {"fetch", "valid", "invalid"} => job[h].kind = "verify"
    BY <1>1 DEF Jobs, Idle
  <1>. QED
    BY <1>2, <1>3 DEF PayInv, HandlersFollowTheMoney

(* Handlers go on from one of their steps to another.                      *)
LEMMA NextStep ==
    ASSUME PayInv, NEW h \in Handlers, NEW step, NEW s, s = [job[h] EXCEPT !.step = step],
           \/ At(h, {"verify"}, "fetch") /\ step \in {"valid", "invalid"}
           \/ (\E from \in {"restore", "putback"} : At(h, {"clean"}, from))
              /\ step \in {"putback", "delete"}
           \/ (\E from \in EndSteps : At(h, Ends, from)) /\ step \in EndSteps
    PROVE  s \in Jobs /\ s.step = step /\ s.kind = job[h].kind /\ job[h].step # "idle"
  <1>1. job[h] \in Jobs \cup {Idle}
    BY DEF PayInv, TypeOK
  <1>2. CASE At(h, {"verify"}, "fetch") /\ step \in {"valid", "invalid"}
    <2>1. job[h] \in [kind : {"verify"}, step : {"fetch", "valid", "invalid"}, seen : Documents]
      BY <1>1, <1>2 DEF At, Jobs, Idle
    <2>2. s \in [kind : {"verify"}, step : {"fetch", "valid", "invalid"}, seen : Documents]
      BY <1>2, <2>1
    <2>. QED
      BY <1>2, <2>1, <2>2 DEF Jobs, At
  <1>3. CASE /\ \E from \in {"restore", "putback"} : At(h, {"clean"}, from)
             /\ step \in {"putback", "delete"}
    <2>1. job[h] \in [kind : {"clean"}, step : {"restore", "putback", "delete"},
                      seen : Documents]
      BY <1>1, <1>3 DEF At, Jobs, Idle
    <2>2. s \in [kind : {"clean"}, step : {"restore", "putback", "delete"}, seen : Documents]
      BY <1>3, <2>1
    <2>. QED
      BY <2>1, <2>2 DEF Jobs
  <1>4. CASE (\E from \in EndSteps : At(h, Ends, from)) /\ step \in EndSteps
    <2>1. job[h] \in [kind : Ends, seen : Documents, step : EndSteps]
      BY <1>1, <1>4 DEF At, Jobs, Idle, Ends, EndSteps
    <2>2. s \in [kind : Ends, seen : Documents, step : EndSteps]
      BY <1>4, <2>1
    <2>. QED
      BY <2>1, <2>2 DEF Jobs, Ends, EndSteps
  <1>. QED
    BY <1>2, <1>3, <1>4

(* A handler that goes on is on its track as it was, as long as it does    *)
(* not claim a capture or a refund.                                        *)
LEMMA GoingOn ==
    ASSUME PayInv, NEW h \in Handlers, NEW s, s.kind = job[h].kind, job[h].step # "idle",
           NEW g, gateway # "unpaid" => g # "unpaid",
           s.step \notin {"fetch", "save", "move"},
           s.step = "valid" => g # "unpaid",
           s.step = "refunded" => g = "refunded"
    PROVE  OnTrack(s, g, byHand)
  BY JobFields DEF OnTrack

(* What one handler does leaves the others right.                          *)
LEMMA HandlerMoves ==
    ASSUME PayInv, NEW h \in Handlers, NEW s \in Jobs \cup {Idle}, job' = [job EXCEPT ![h] = s],
           gateway # "unpaid" => gateway' # "unpaid",
           gateway = "refunded" => gateway' = "refunded",
           byHand => byHand',
           OnTrack(s, gateway', byHand')
    PROVE  job' \in [Handlers -> Jobs \cup {Idle}] /\ HandlersFollowTheMoney'
  <1>1. job \in [Handlers -> Jobs \cup {Idle}]
    BY OrderFields
  <1>2. \A k \in Handlers : job'[k] = IF k = h THEN s ELSE job[k]
    BY <1>1
  <1>3. ASSUME NEW k \in Handlers
        PROVE  OnTrack(job'[k], gateway', byHand')
    <2>1. k # h => OnTrack(job[k], gateway, byHand)
      BY JobFields
    <2>2. k # h => OnTrack(job[k], gateway', byHand')
      BY <2>1 DEF OnTrack
    <2>. QED
      BY <1>2, <2>2
  <1>. QED
    BY <1>1, <1>3 DEF HandlersFollowTheMoney

LEMMA IdleStep ==
    ASSUME NEW g, NEW hand
    PROVE  Idle.step = "idle" /\ OnTrack(Idle, g, hand)
  BY DEF Idle, OnTrack

(* A handler that only looks, and one that saves what Razorpay knows.      *)
LEMMA Looking ==
    ASSUME PayInv, NEW h \in Handlers, NEW s \in Jobs \cup {Idle}, job' = [job EXCEPT ![h] = s],
           order' = order, byHand' = byHand, crashes' \in 0..MaxCrashes,
           units' \in {"held", "owed", "back", "lost"},
           gateway' = gateway \/ gateway' = "refunded",
           OnTrack(s, gateway', byHand)
    PROVE  PayInv'
  <1>1. gateway' \in {"unpaid", "captured", "refunded"} /\ byHand' \in BOOLEAN
    BY OrderFields
  <1>2. job' \in [Handlers -> Jobs \cup {Idle}] /\ HandlersFollowTheMoney'
    BY HandlerMoves
  <1>3. PaidOrByHand' /\ BooksFollowTheMoney'
    BY DEF PayInv, PaidOrByHand, BooksFollowTheMoney, Exists
  <1>4. TypeOK'
    BY <1>1, <1>2 DEF PayInv, TypeOK
  <1>. QED
    BY <1>2, <1>3, <1>4 DEF PayInv

LEMMA Saving ==
    ASSUME PayInv, NEW h \in Handlers, NEW s \in Jobs \cup {Idle}, job' = [job EXCEPT ![h] = s],
           gateway' = gateway, crashes' = crashes, byHand' \in BOOLEAN, byHand => byHand',
           units' \in {"held", "owed", "back", "lost"},
           OnTrack(s, gateway, byHand'),
           order' \in Documents \cup {Deleted},
           order'.status \in {"created", "confirmed"} /\ ~byHand' => gateway # "unpaid",
           order' \in Documents =>
               /\ order'.pay = "paid" => gateway # "unpaid"
               /\ order'.pay = "refunded" \/ order'.refund = "processed" => gateway = "refunded"
    PROVE  PayInv'
  <1>1. job' \in [Handlers -> Jobs \cup {Idle}] /\ HandlersFollowTheMoney'
    BY HandlerMoves
  <1>2. PaidOrByHand' /\ BooksFollowTheMoney'
    BY DEF PaidOrByHand, BooksFollowTheMoney, Exists
  <1>3. TypeOK'
    BY <1>1 DEF PayInv, TypeOK
  <1>. QED
    BY <1>1, <1>2, <1>3 DEF PayInv

-----------------------------------------------------------------------------
LEMMA ReadsKeepIt ==
    ASSUME PayInv, NEW h \in Handlers,
           \/ VerifyReads(h) \/ CleanReads(h) \/ AcceptReads(h) \/ RejectReads(h) \/ CancelReads(h)
    PROVE  PayInv'
  <1>1. /\ order' = order /\ gateway' = gateway /\ crashes' \in 0..MaxCrashes
        /\ byHand' = byHand /\ units' \in {"held", "owed", "back", "lost"}
    BY OrderFields DEF VerifyReads, CleanReads, AcceptReads, RejectReads, CancelReads
  <1>2. order \in Documents /\ Exists
    <2>1. Exists
      BY DEF VerifyReads, CleanReads, AcceptReads, RejectReads, CancelReads, Exposed, Exists, Deleted
    <2>. QED
      BY <2>1, OrderFields
  <1>3. Exposed => gateway # "unpaid"
    BY <1>2 DEF Exposed, PayInv, BooksFollowTheMoney
  <1>4. ASSUME NEW kind, NEW step, Read(h, kind, step),
               \/ kind = "verify" /\ step = "fetch" /\ gateway # "unpaid"
               \/ kind = "accept" /\ step = "save" /\ gateway # "unpaid"
               \/ kind = "reject" /\ step = "restore" /\ gateway # "unpaid"
               \/ kind \in {"clean", "cancel"} /\ step = "restore"
        PROVE  PayInv'
    <2>. DEFINE s == [kind |-> kind, step |-> step, seen |-> order]
    <2>1. s \in Jobs
      BY <1>2, <1>4 DEF Jobs
    <2>2. OnTrack(s, gateway, byHand)
      BY <1>4 DEF OnTrack
    <2>3. job' = [job EXCEPT ![h] = s]
      BY <1>4 DEF Read
    <2>. HIDE DEF s
    <2>. QED
      BY <1>1, <2>1, <2>2, <2>3, Looking
  <1>. QED
    BY <1>3, <1>4 DEF VerifyReads, CleanReads, AcceptReads, RejectReads, CancelReads

(* Support reads an order that was paid, that it moved on before, or that  *)
(* waits for its payment.                                                  *)
LEMMA AdvanceReadsKeepsIt ==
    ASSUME PayInv, NEW h \in Handlers, NEW to \in {"created", "confirmed"}, AdvanceReads(h, to)
    PROVE  PayInv'
  <1>. DEFINE s == [kind |-> "advance", step |-> "move", to |-> to, seen |-> order]
  <1>1. /\ order' = order /\ gateway' = gateway /\ crashes' \in 0..MaxCrashes
        /\ byHand' = byHand /\ units' \in {"held", "owed", "back", "lost"}
        /\ job' = [job EXCEPT ![h] = s]
    BY OrderFields DEF AdvanceReads
  <1>2. order \in Documents
    BY OrderFields DEF AdvanceReads
  <1>3. s \in Jobs
    BY <1>2 DEF Jobs
  <1>4. order.status # "cancelled"
    <2>1. Rank["cancelled"] = 100 /\ Rank[to] \in {10, 20}
      BY DEF Rank
    <2>. QED
      BY <2>1 DEF AdvanceReads
  <1>5. order.status = "pending_payment" \/ byHand \/ gateway # "unpaid"
    BY <1>2, <1>4 DEF PayInv, PaidOrByHand, Documents
  <1>6. OnTrack(s, gateway, byHand)
    BY <1>5 DEF OnTrack
  <1>. HIDE DEF s
  <1>. QED
    BY <1>1, <1>3, <1>6, Looking

LEMMA AnswersKeepIt ==
    ASSUME PayInv, NEW h \in Handlers,
           \/ VerifyFetches(h) \/ VerifyFetchFails(h)
           \/ Refund(h) \/ RefundFails(h) \/ NothingToRefund(h)
    PROVE  PayInv'
  <1>1. /\ order' = order /\ byHand' = byHand /\ crashes' \in 0..MaxCrashes
        /\ units' \in {"held", "owed", "back", "lost"}
    BY OrderFields DEF VerifyFetches, VerifyFetchFails, Refund, RefundFails, NothingToRefund
  <1>2. CASE VerifyFetchFails(h)
    BY <1>1, <1>2, IdleStep, Looking DEF VerifyFetchFails, Done
  <1>3. CASE VerifyFetches(h)
    <2>. DEFINE step == IF gateway = "captured" THEN "valid" ELSE "invalid"
                s == [job[h] EXCEPT !.step = step]
    <2>1. s \in Jobs /\ s.step = step /\ s.kind = job[h].kind /\ job[h].step # "idle"
      BY <1>3, NextStep DEF VerifyFetches
    <2>2. job' = [job EXCEPT ![h] = s] /\ gateway' = gateway
      BY <1>3 DEF VerifyFetches, Goto
    <2>3. step = "valid" => gateway # "unpaid"
      OBVIOUS
    <2>4. step \in {"valid", "invalid"}
      OBVIOUS
    <2>. HIDE DEF s, step
    <2>5. OnTrack(s, gateway, byHand)
      BY <2>1, <2>3, <2>4, GoingOn
    <2>. QED
      BY <1>1, <2>1, <2>2, <2>5, Looking
  <1>4. ASSUME NEW step \in {"refunded", "failed", "kept"}, Goto(h, step),
               At(h, Ends, "refund"), gateway' = gateway \/ gateway' = "refunded",
               step = "refunded" => gateway' = "refunded"
        PROVE  PayInv'
    <2>. DEFINE s == [job[h] EXCEPT !.step = step]
    <2>1. s \in Jobs /\ s.step = step /\ s.kind = job[h].kind /\ job[h].step # "idle"
      BY <1>4, NextStep DEF EndSteps
    <2>2. job' = [job EXCEPT ![h] = s]
      BY <1>4 DEF Goto
    <2>. HIDE DEF s
    <2>3. OnTrack(s, gateway', byHand)
      BY <1>4, <2>1, GoingOn
    <2>. QED
      BY <1>1, <1>4, <2>1, <2>2, <2>3, Looking
  <1>. QED
    BY <1>2, <1>3, <1>4 DEF Refund, RefundFails, NothingToRefund, Ends

LEMMA CrashKeepsIt ==
    ASSUME PayInv, NEW h \in Handlers, Crash(h)
    PROVE  PayInv'
  <1>1. crashes' \in 0..MaxCrashes /\ units' \in {"held", "owed", "back", "lost"}
    BY OrderFields, OrderPaymentAssumption DEF Crash, Failure
  <1>. QED
    BY <1>1, IdleStep, Looking DEF Crash, Done

(* What the order says of the money, as a fact about the saves that change *)
(* one field or two.                                                       *)
LEMMA OrderFollowsTheMoney ==
    ASSUME PayInv, Exists
    PROVE  /\ order.status \in {"created", "confirmed"} /\ ~byHand => gateway # "unpaid"
           /\ order.pay = "paid" => gateway # "unpaid"
           /\ order.pay = "refunded" \/ order.refund = "processed" => gateway = "refunded"
  BY DEF PayInv, PaidOrByHand, BooksFollowTheMoney

(* A handler whose order is gone, or that has nothing to write.            *)
LEMMA SavingNothing ==
    ASSUME PayInv, NEW h \in Handlers, NEW s \in Jobs \cup {Idle}, job' = [job EXCEPT ![h] = s],
           UNCHANGED <<order, units, gateway, byHand, crashes>>,
           OnTrack(s, gateway, byHand)
    PROVE  PayInv'
  BY OrderFields, Looking

LEMMA VerifySavesKeepsIt ==
    ASSUME PayInv, NEW h \in Handlers, VerifySaves(h) \/ VerifyRejects(h)
    PROVE  PayInv'
  <1>1. /\ job' = [job EXCEPT ![h] = Idle] /\ gateway' = gateway /\ crashes' = crashes
        /\ units' = units /\ byHand' = byHand
    BY DEF VerifySaves, VerifyRejects, Done
  <1>2. CASE order' = order
    BY <1>1, <1>2, IdleStep, SavingNothing
  <1>3. CASE VerifySaves(h) /\ Exists
    <2>1. gateway # "unpaid"
      BY <1>3, JobFields DEF VerifySaves, At, OnTrack
    <2>2. order' = [order EXCEPT !.pay = "paid", !.paymentId = TRUE,
                                 !.status = IF job[h].seen.status = "created"
                                            THEN order.status ELSE "created"]
      BY <1>3 DEF VerifySaves
    <2>3. /\ order' \in Documents /\ order'.pay = "paid" /\ order'.refund = order.refund
      BY <1>3, <2>2, OrderFields DEF Documents
    <2>. QED
      BY <1>1, <1>3, <2>1, <2>3, IdleStep, OrderFields, OrderFollowsTheMoney, Saving
  <1>4. CASE VerifyRejects(h) /\ Exists /\ order' # order
    <2>1. order' = [order EXCEPT !.pay = "failed"]
      BY <1>4 DEF VerifyRejects
    <2>2. /\ order' \in Documents /\ order'.pay = "failed" /\ order'.refund = order.refund
          /\ order'.status = order.status
      BY <1>4, <2>1, OrderFields DEF Documents
    <2>. QED
      BY <1>1, <1>4, <2>2, IdleStep, OrderFields, OrderFollowsTheMoney, Saving
  <1>. QED
    BY <1>2, <1>3, <1>4 DEF VerifySaves, VerifyRejects

(* A handler claims the units, or finds them claimed.                      *)
LEMMA RestoresKeepsIt ==
    ASSUME PayInv, NEW h \in Handlers, Restores(h)
    PROVE  PayInv'
  <1>. DEFINE step == IF Exists /\ ~order.restored THEN "putback" ELSE AfterRestore(job[h].kind)
              s == [job[h] EXCEPT !.step = step]
  <1>1. /\ gateway' = gateway /\ byHand' = byHand /\ crashes' = crashes
        /\ job' = [job EXCEPT ![h] = s]
        /\ units' \in {units, "owed"}
    BY DEF Restores, Goto
  <1>2. /\ \/ At(h, {"clean"}, "restore") /\ step \in {"putback", "delete"}
           \/ At(h, Ends, "restore") /\ step \in {"putback", "status", "refund"}
        /\ step \in {"putback", "delete", "status", "refund"}
    BY DEF Restores, AfterRestore, At, Restorers, Ends
  <1>. HIDE DEF step
  <1>3. s \in Jobs /\ s.step = step /\ s.kind = job[h].kind /\ job[h].step # "idle"
    BY <1>2, NextStep DEF EndSteps
  <1>. HIDE DEF s
  <1>4. OnTrack(s, gateway, byHand)
    BY <1>2, <1>3, GoingOn
  <1>5. CASE Exists /\ ~order.restored
    <2>1. order' = [order EXCEPT !.restored = TRUE]
      BY <1>5 DEF Restores
    <2>2. /\ order' \in Documents /\ order'.pay = order.pay /\ order'.refund = order.refund
          /\ order'.status = order.status
      BY <1>5, <2>1, OrderFields DEF Documents
    <2>. QED
      BY <1>1, <1>3, <1>4, <1>5, <2>2, OrderFields, OrderFollowsTheMoney, Saving
  <1>6. CASE ~(Exists /\ ~order.restored)
    <2>1. order' = order /\ units' = units
      BY <1>6 DEF Restores
    <2>. QED
      BY <1>1, <1>3, <1>4, <2>1, SavingNothing
  <1>. QED
    BY <1>5, <1>6

LEMMA PutsBackKeepsIt ==
    ASSUME PayInv, NEW h \in Handlers, PutsBack(h) \/ PutBackFails(h)
    PROVE  PayInv'
  <1>. DEFINE step == AfterRestore(job[h].kind)
              s == [job[h] EXCEPT !.step = step]
  <1>1. /\ order' = order /\ gateway' = gateway /\ byHand' = byHand
        /\ crashes' \in 0..MaxCrashes /\ job' = [job EXCEPT ![h] = s]
        /\ units' \in {"held", "owed", "back", "lost"}
    BY OrderFields, OrderPaymentAssumption DEF PutsBack, PutBackFails, Failure, Goto
  <1>2. /\ \/ At(h, {"clean"}, "putback") /\ step = "delete"
           \/ At(h, Ends, "putback") /\ step \in {"status", "refund"}
        /\ step \in {"delete", "status", "refund"}
    BY DEF PutsBack, PutBackFails, AfterRestore, At, Restorers, Ends
  <1>. HIDE DEF step
  <1>3. s \in Jobs /\ s.step = step /\ s.kind = job[h].kind /\ job[h].step # "idle"
    BY <1>2, NextStep DEF EndSteps
  <1>. HIDE DEF s
  <1>4. OnTrack(s, gateway, byHand)
    BY <1>2, <1>3, GoingOn
  <1>. QED
    BY <1>1, <1>3, <1>4, Looking

LEMMA CleanDeletesKeepsIt ==
    ASSUME PayInv, NEW h \in Handlers, CleanDeletes(h)
    PROVE  PayInv'
  <1>1. /\ job' = [job EXCEPT ![h] = Idle] /\ gateway' = gateway /\ crashes' = crashes
        /\ units' = units /\ byHand' = byHand /\ order' = Deleted
    BY DEF CleanDeletes, Done
  <1>2. Deleted.status = "deleted" /\ Deleted \notin Documents
    BY DEF Deleted, Documents
  <1>. QED
    BY <1>1, <1>2, IdleStep, OrderFields, Saving

(* A save of the status alone.                                             *)
LEMMA StatusSaved ==
    ASSUME PayInv, Exists, NEW status \in {"created", "confirmed", "cancelled"},
           order' = [order EXCEPT !.status = status]
    PROVE  /\ order' \in Documents /\ order'.status = status
           /\ order'.pay = "paid" => gateway # "unpaid"
           /\ order'.pay = "refunded" \/ order'.refund = "processed" => gateway = "refunded"
  <1>1. /\ order' \in Documents /\ order'.pay = order.pay /\ order'.refund = order.refund
        /\ order'.status = status
    BY OrderFields DEF Documents
  <1>. QED
    BY <1>1, OrderFollowsTheMoney

LEMMA AcceptSavesKeepsIt ==
    ASSUME PayInv, NEW h \in Handlers, AcceptSaves(h)
    PROVE  PayInv'
  <1>1. /\ gateway' = gateway /\ crashes' = crashes /\ units' = units /\ byHand' = byHand
        /\ job' = [job EXCEPT ![h] = Idle]
    BY DEF AcceptSaves, Done
  <1>2. gateway # "unpaid"
    BY JobFields DEF AcceptSaves, At, OnTrack
  <1>3. CASE Exists
    <2>1. order' = [order EXCEPT !.status = "confirmed"]
      BY <1>3 DEF AcceptSaves
    <2>2. /\ order' \in Documents
          /\ order'.pay = "paid" => gateway # "unpaid"
          /\ order'.pay = "refunded" \/ order'.refund = "processed" => gateway = "refunded"
      BY <1>3, <2>1, StatusSaved
    <2>. QED
      BY <1>1, <1>2, <2>2, IdleStep, OrderFields, Saving
  <1>4. CASE ~Exists
    BY <1>1, <1>4, IdleStep, SavingNothing DEF AcceptSaves
  <1>. QED
    BY <1>3, <1>4

(* Support saves: of an order that was not paid, by hand.                  *)
LEMMA AdvanceSavesKeepsIt ==
    ASSUME PayInv, NEW h \in Handlers, AdvanceSaves(h)
    PROVE  PayInv'
  <1>1. /\ gateway' = gateway /\ crashes' = crashes /\ units' = units
        /\ job' = [job EXCEPT ![h] = Idle]
        /\ byHand' = (byHand \/ job[h].seen.status = "pending_payment")
    BY DEF AdvanceSaves, Done
  <1>2. byHand' \in BOOLEAN /\ (byHand => byHand')
    BY <1>1, OrderFields
  <1>3. ~byHand' => gateway # "unpaid"
    BY <1>1, JobFields DEF AdvanceSaves, At, OnTrack
  <1>4. job[h].to \in {"created", "confirmed"}
    <2>1. job[h] \in Jobs /\ job[h].kind = "advance"
      BY JobFields DEF AdvanceSaves, At
    <2>. QED
      BY <2>1 DEF Jobs
  <1>5. CASE Exists
    <2>1. order' = [order EXCEPT !.status = job[h].to]
      BY <1>5 DEF AdvanceSaves
    <2>2. /\ order' \in Documents
          /\ order'.pay = "paid" => gateway # "unpaid"
          /\ order'.pay = "refunded" \/ order'.refund = "processed" => gateway = "refunded"
      BY <1>4, <1>5, <2>1, StatusSaved
    <2>. QED
      BY <1>1, <1>2, <1>3, <2>2, IdleStep, OrderFields, Saving
  <1>6. CASE ~Exists
    <2>1. order' = order
      BY <1>6 DEF AdvanceSaves
    <2>2. order = Deleted /\ Deleted.status = "deleted" /\ Deleted \notin Documents
      BY <1>6 DEF Exists, Deleted, Documents
    <2>. QED
      BY <1>1, <1>2, <2>1, <2>2, IdleStep, OrderFields, Saving
  <1>. QED
    BY <1>5, <1>6

(* The saves that cancel.                                                  *)
LEMMA RejectSavesKeepsIt ==
    ASSUME PayInv, NEW h \in Handlers, RejectSaves(h)
    PROVE  PayInv'
  <1>1. gateway' = gateway /\ crashes' = crashes /\ units' = units /\ byHand' = byHand
    BY DEF RejectSaves
  <1>2. CASE Exists
    <2>. DEFINE s == [job[h] EXCEPT !.step = "refund"]
    <2>1. s \in Jobs /\ s.step = "refund" /\ s.kind = job[h].kind /\ job[h].step # "idle"
      BY <1>2, NextStep DEF RejectSaves, Ends, EndSteps, At
    <2>2. job' = [job EXCEPT ![h] = s] /\ order' = [order EXCEPT !.status = "cancelled"]
      BY <1>2 DEF RejectSaves, Goto
    <2>. HIDE DEF s
    <2>3. OnTrack(s, gateway, byHand)
      BY <2>1, GoingOn
    <2>. QED
      BY <1>1, <1>2, <2>1, <2>2, <2>3, OrderFields, StatusSaved, Saving
  <1>3. CASE ~Exists
    BY <1>1, <1>3, IdleStep, SavingNothing DEF RejectSaves, Done
  <1>. QED
    BY <1>2, <1>3

LEMMA ExpireKeepsIt ==
    ASSUME PayInv, NEW h \in Handlers, Expire(h)
    PROVE  PayInv'
  <1>. DEFINE s == [kind |-> "expire", step |-> "restore", seen |-> order']
  <1>1. /\ gateway' = gateway /\ crashes' = crashes /\ units' = units /\ byHand' = byHand
        /\ job' = [job EXCEPT ![h] = s] /\ order' = [order EXCEPT !.status = "cancelled"]
    BY DEF Expire
  <1>2. Exists
    BY DEF Expire, Exists, Deleted
  <1>3. order' \in Documents
    BY <1>1, <1>2, StatusSaved
  <1>4. s \in Jobs /\ OnTrack(s, gateway, byHand)
    BY <1>3 DEF Jobs, OnTrack
  <1>. HIDE DEF s
  <1>. QED
    BY <1>1, <1>2, <1>4, OrderFields, StatusSaved, Saving

LEMMA EndSavesKeepsIt ==
    ASSUME PayInv, NEW h \in Handlers, EndSaves(h)
    PROVE  PayInv'
  <1>1. /\ job' = [job EXCEPT ![h] = Idle] /\ gateway' = gateway /\ crashes' = crashes
        /\ units' = units /\ byHand' = byHand
    BY DEF EndSaves, Done
  <1>2. CASE ~Exists
    BY <1>1, <1>2, IdleStep, SavingNothing DEF EndSaves
  <1>3. CASE Exists
    <2>1. /\ job[h].step \in {"refunded", "failed", "kept"}
          /\ job[h].step = "refunded" => gateway = "refunded"
      BY JobFields DEF EndSaves, At, OnTrack
    <2>2. /\ order' \in Documents
          /\ order'.status \in {order.status, "cancelled"}
          /\ order'.pay = IF job[h].step = "refunded" THEN "refunded" ELSE order.pay
          /\ order'.refund = "processed" => job[h].step = "refunded" \/ order.refund = "processed"
      BY <1>3, <2>1, OrderFields DEF EndSaves, Documents
    <2>. QED
      BY <1>1, <1>3, <2>1, <2>2, IdleStep, OrderFields, OrderFollowsTheMoney, Saving
  <1>. QED
    BY <1>2, <1>3

(* Razorpay: the customer pays, and the webhooks arrive.                   *)
LEMMA RazorpayKeepsIt ==
    ASSUME PayInv, CustomerPays \/ CapturedWebhook \/ RefundWebhook
    PROVE  PayInv'
  <1>1. job' = job /\ crashes' = crashes /\ units' = units /\ byHand' = byHand
    BY DEF CustomerPays, CapturedWebhook, RefundWebhook
  <1>2. CASE CustomerPays
    <2>1. gateway = "unpaid" /\ gateway' = "captured" /\ order' = order
      BY <1>2 DEF CustomerPays
    <2>2. HandlersFollowTheMoney' /\ PaidOrByHand'
      BY <1>1, <2>1 DEF PayInv, HandlersFollowTheMoney, OnTrack, PaidOrByHand
    <2>3. BooksFollowTheMoney'
      BY <2>1 DEF PayInv, BooksFollowTheMoney, Exists
    <2>4. TypeOK'
      BY <1>1, <2>1 DEF PayInv, TypeOK
    <2>. QED
      BY <2>2, <2>3, <2>4 DEF PayInv
  <1>3. CASE CapturedWebhook \/ RefundWebhook
    <2>1. gateway' = gateway /\ Exists /\ gateway # "unpaid"
      BY <1>3 DEF CapturedWebhook, RefundWebhook
    <2>2. /\ order' \in Documents /\ order'.status = order.status
          /\ \/ order'.pay = "paid" /\ order'.refund = order.refund
             \/ gateway = "refunded"
      BY <1>3, <2>1, OrderFields DEF CapturedWebhook, RefundWebhook, Documents
    <2>3. PaidOrByHand' /\ BooksFollowTheMoney'
      BY <2>1, <2>2, OrderFollowsTheMoney DEF PaidOrByHand, BooksFollowTheMoney
    <2>4. HandlersFollowTheMoney'
      BY <1>1, <2>1 DEF PayInv, HandlersFollowTheMoney
    <2>5. TypeOK'
      BY <1>1, <2>1, <2>2 DEF PayInv, TypeOK
    <2>. QED
      BY <2>3, <2>4, <2>5 DEF PayInv
  <1>. QED
    BY <1>2, <1>3

-----------------------------------------------------------------------------
LEMMA InitFollowsTheMoney == Init => PayInv
  <1>. SUFFICES ASSUME Init PROVE PayInv
    OBVIOUS
  <1>1. order \in Documents /\ 0 \in 0..MaxCrashes
    BY OrderPaymentAssumption DEF Init, Documents
  <1>2. TypeOK
    BY <1>1 DEF Init, TypeOK
  <1>3. PaidOrByHand /\ BooksFollowTheMoney
    BY DEF Init, PaidOrByHand, BooksFollowTheMoney
  <1>4. HandlersFollowTheMoney
    BY IdleStep DEF Init, HandlersFollowTheMoney
  <1>. QED
    BY <1>2, <1>3, <1>4 DEF PayInv

LEMMA StepsFollowTheMoney == PayInv /\ [Next]_vars => PayInv'
  <1>. SUFFICES ASSUME PayInv, [Next]_vars
                PROVE  PayInv'
    OBVIOUS
  <1>1. CASE UNCHANGED vars
    BY <1>1 DEF vars, PayInv, TypeOK, PaidOrByHand, BooksFollowTheMoney, Exists,
                HandlersFollowTheMoney
  <1>2. ASSUME NEW h \in Handlers, Begin(h)
        PROVE  PayInv'
    BY <1>2, ReadsKeepIt, AdvanceReadsKeepsIt, ExpireKeepsIt DEF Begin
  <1>3. ASSUME NEW h \in Handlers, Continue(h)
        PROVE  PayInv'
    BY <1>3, AnswersKeepIt, VerifySavesKeepsIt, RestoresKeepsIt, PutsBackKeepsIt,
       CleanDeletesKeepsIt, AcceptSavesKeepsIt, AdvanceSavesKeepsIt, RejectSavesKeepsIt,
       EndSavesKeepsIt DEF Continue
  <1>. QED
    BY <1>1, <1>2, <1>3, CrashKeepsIt, RazorpayKeepsIt DEF Next

LEMMA PayInvAlways == Spec => []PayInv
  BY InitFollowsTheMoney, StepsFollowTheMoney, PTL DEF Spec

(* The order, the payment and the handlers keep their shape.               *)
THEOREM OrderPaymentIsTyped == Spec => []TypeOK
  <1>1. PayInv => TypeOK
    BY DEF PayInv
  <1>. QED
    BY <1>1, PayInvAlways, PTL

(***************************************************************************)
(* "An unpaid order must never be actionable by the restaurant"            *)
(* (updateOrderStatusRestaurant), for any number of handlers: a slow       *)
(* verification, a late webhook or an old copy never takes an order that   *)
(* was not paid at Razorpay out of pending_payment; support may, by hand   *)
(* (updateOrderStatusAdmin), but the seller's own calls act on no such     *)
(* order.                                                                  *)
(***************************************************************************)
THEOREM TheSellerActsOnlyOnPaidOrders == Spec => []UnpaidIsNeverActionable
  <1>1. PayInv => UnpaidIsNeverActionable
    BY DEF PayInv, PaidOrByHand, HandlersFollowTheMoney, OnTrack, UnpaidIsNeverActionable
  <1>. QED
    BY <1>1, PayInvAlways, PTL

(***************************************************************************)
(* The books never run ahead of the money: what verifyPayment, the webhook *)
(* and applyCancellationRefund write of a payment has happened at Razorpay.*)
(***************************************************************************)
THEOREM TheBooksNeverRunAhead == Spec => []BooksFollowTheMoney
  <1>1. PayInv => BooksFollowTheMoney
    BY DEF PayInv
  <1>. QED
    BY <1>1, PayInvAlways, PTL
=============================================================================
