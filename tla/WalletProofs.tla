----------------------------- MODULE WalletProofs -----------------------------
(***************************************************************************)
(* Wallet implements Ledger, for any number of requests, orders and        *)
(* top-ups.  The invariant behind it: a request that is about to save and  *)
(* is not outdated holds the wallet as it is, and its movement is allowed  *)
(* on what it holds.  A save is therefore one step of the ledger.  The     *)
(* second half is about the orders: what a request that holds an order has *)
(* yet to do is the difference between the order and the wallet.           *)
(***************************************************************************)
EXTENDS Wallet, TLAPS

CopiesAreCurrent ==
    \A j \in Jobs : job[j].phase = "booking" =>
        /\ wallet.exists
        /\ Allowed(job[j].task, job[j].wallet)
        /\ j \notin outdated => job[j].wallet = wallet

WalletInv == TypeOK /\ CopiesAreCurrent

-----------------------------------------------------------------------------
LEMMA OrdersMovementsAreMovements ==
    Of("payment") \subseteq Movements /\ Of("refund") \subseteq Movements
  BY DEF Of, Movements

(* What the phase of a request says of its other fields.                   *)
LEMMA RequestFields ==
    ASSUME TypeOK, NEW j \in Jobs
    PROVE  /\ job[j].phase \in {"stamping", "opening", "creating", "booking", "closing"} =>
                 job[j].task \in Movements /\ job[j].by \in Callers /\ job[j].copy \in OrderDocs
           /\ job[j].phase = "booking" => job[j].wallet \in Wallets
           /\ job[j].phase = "closing" => job[j].refund \in {"none", "failed", "processed"}
           /\ job[j].phase = "undoing" => job[j].task \in Of("payment")
           /\ job[j].phase \in {"stamping", "closing"} => job[j].task \in Of("refund")
  <1>1. job[j] \in JobStates \cup {Idle}
    BY DEF TypeOK
  <1>. QED
    BY <1>1, OrdersMovementsAreMovements DEF JobStates, Idle, Callers

(* A movement booked on a wallet that allows it leaves a wallet.           *)
LEMMA PostedIsAWallet ==
    ASSUME NEW m \in Movements, NEW w \in Wallets, Allowed(m, w)
    PROVE  Posted(m, w) \in Wallets /\ Posted(m, w).exists = w.exists
  <1>1. Amount[m] \in Nat
    BY WalletAssumption
  <1>2. m.kind = "payment" => w.balance >= Amount[m]
    BY DEF Allowed
  <1>3. w.exists \in BOOLEAN /\ w.balance \in Nat /\ w.rows \in [Movements -> Nat]
    BY DEF Wallets
  <1>4. (IF m.kind = "payment" THEN w.balance - Amount[m] ELSE w.balance + Amount[m]) \in Nat
    BY <1>1, <1>2, <1>3
  <1>5. [w.rows EXCEPT ![m] = @ + 1] \in [Movements -> Nat]
    BY <1>3
  <1>. QED
    BY <1>3, <1>4, <1>5 DEF Posted, Wallets

(* Where a request goes on is a state of a request.                        *)
LEMMA OpeningIsAState ==
    ASSUME NEW m \in Movements, NEW by \in Callers, NEW copy \in OrderDocs
    PROVE  Opening(m, by, copy) \in JobStates
  BY DEF Opening, JobStates

LEMMA RefundingIsAState ==
    ASSUME NEW o \in Orders, NEW by \in Callers, NEW copy \in OrderDocs
    PROVE  Refunding(o, by, copy) \in JobStates /\ Refunding(o, by, copy).phase # "booking"
  <1>1. Refund(o) \in Movements /\ Refund(o) \in Of("refund")
    BY DEF Refund, Of, Movements
  <1>2. copy.refund \in {"none", "failed", "processed"}
    BY DEF OrderDocs
  <1>. QED
    BY <1>1, <1>2 DEF Refunding, Opening, JobStates

LEMMA FailedIsAState ==
    ASSUME TypeOK, NEW j \in Jobs, job[j].phase \in {"opening", "creating", "booking"}
    PROVE  Failed(job[j]) \in JobStates \cup {Idle} /\ Failed(job[j]).phase # "booking"
  <1>1. job[j].task \in Movements /\ job[j].by \in Callers /\ job[j].copy \in OrderDocs
    BY RequestFields
  <1>2. \A m \in Movements : m.kind \in {"payment", "refund"} => m \in Of(m.kind)
    BY DEF Movements, Of
  <1>. QED
    BY <1>1, <1>2 DEF Failed, JobStates, Idle

LEMMA SucceededIsAState ==
    ASSUME TypeOK, NEW j \in Jobs, job[j].phase = "booking"
    PROVE  Succeeded(job[j]) \in JobStates \cup {Idle} /\ Succeeded(job[j]).phase # "booking"
  <1>1. job[j].task \in Movements /\ job[j].by \in Callers /\ job[j].copy \in OrderDocs
    BY RequestFields
  <1>2. \A m \in Movements : m.kind \in {"payment", "refund"} => m \in Of(m.kind)
    BY DEF Movements, Of
  <1>. QED
    BY <1>1, <1>2 DEF Succeeded, JobStates, Idle

(* A request that moves and leaves the wallet alone keeps the invariant.   *)
LEMMA RequestMoves ==
    ASSUME WalletInv, NEW j \in Jobs, NEW s \in JobStates \cup {Idle},
           Become(j, s), wallet' = wallet, outdated' \in {outdated, outdated \ {j}},
           s.phase = "booking" => wallet.exists /\ Allowed(s.task, s.wallet) /\ s.wallet = wallet
    PROVE  /\ job' \in [Jobs -> JobStates \cup {Idle}]
           /\ outdated' \subseteq Jobs
           /\ CopiesAreCurrent'
  <1>1. job \in [Jobs -> JobStates \cup {Idle}] /\ outdated \subseteq Jobs
    BY DEF WalletInv, TypeOK
  <1>2. \A k \in Jobs : job'[k] = IF k = j THEN s ELSE job[k]
    BY <1>1 DEF Become
  <1>3. job' \in [Jobs -> JobStates \cup {Idle}]
    BY <1>1 DEF Become
  <1>5. ASSUME NEW k \in Jobs, job'[k].phase = "booking"
        PROVE  /\ wallet'.exists
               /\ Allowed(job[k].task, job[k].wallet)'
               /\ k \notin outdated' => job'[k].wallet = wallet'
    BY <1>2, <1>5 DEF WalletInv, CopiesAreCurrent, Allowed
  <1>. QED
    BY <1>1, <1>3, <1>5 DEF CopiesAreCurrent

(* An order moved to another stage is an order.                            *)
LEMMA StagedIsTyped ==
    ASSUME order \in [Orders -> OrderDocs], NEW o \in Orders,
           NEW s \in {"placed", "delivered", "cancelled", "expired", "deleted", "removed"}
    PROVE  Staged(o, s) \in [Orders -> OrderDocs]
  <1>1. [order[o] EXCEPT !.stage = s] \in OrderDocs
    BY DEF OrderDocs
  <1>. QED
    BY <1>1 DEF Staged

LEMMA Starting ==
    ASSUME TypeOK, NEW j \in Jobs, Start(j)
    PROVE  starts' \in 0..MaxStarts
  BY WalletAssumption DEF TypeOK, Start

(* The requests that only begin: they open the wallet next, or stamp.      *)
LEMMA BeginningKeepsIt ==
    ASSUME WalletInv, NEW j \in Jobs, Start(j), NEW s \in JobStates, s.phase # "booking",
           Become(j, s), wallet' = wallet, outdated' = outdated,
           order' \in [Orders -> OrderDocs], entangled' \subseteq Orders, unheard' = unheard
    PROVE  WalletInv'
  <1>1. /\ job' \in [Jobs -> JobStates \cup {Idle}]
        /\ outdated' \subseteq Jobs
        /\ CopiesAreCurrent'
    BY RequestMoves
  <1>2. starts' \in 0..MaxStarts
    BY Starting DEF WalletInv
  <1>3. wallet' \in Wallets
    BY DEF WalletInv, TypeOK
  <1>. QED
    BY <1>1, <1>2, <1>3 DEF WalletInv, TypeOK

(* The requests under way that leave the wallet and outdated alone.        *)
LEMMA MovingKeepsIt ==
    ASSUME WalletInv, NEW j \in Jobs, NEW s \in JobStates \cup {Idle},
           Become(j, s), wallet' = wallet, outdated' \in {outdated, outdated \ {j}},
           s.phase = "booking" => wallet.exists /\ Allowed(s.task, s.wallet) /\ s.wallet = wallet,
           order' \in [Orders -> OrderDocs], entangled' \subseteq Orders, starts' = starts,
           unheard' = unheard
    PROVE  WalletInv'
  <1>1. /\ job' \in [Jobs -> JobStates \cup {Idle}]
        /\ outdated' \subseteq Jobs
        /\ CopiesAreCurrent'
    BY RequestMoves
  <1>2. wallet' \in Wallets /\ starts' \in 0..MaxStarts
    BY DEF WalletInv, TypeOK
  <1>. QED
    BY <1>1, <1>2 DEF WalletInv, TypeOK

-----------------------------------------------------------------------------
(* One lemma per action that needs more than a line.                       *)

LEMMA CheckedIsAState ==
    ASSUME TypeOK, NEW j \in Jobs, job[j].phase \in {"opening", "creating"},
           NEW w \in Wallets
    PROVE  /\ Checked(job[j], w) \in JobStates \cup {Idle}
           /\ Checked(job[j], w).phase = "booking" =>
                 /\ Allowed(Checked(job[j], w).task, Checked(job[j], w).wallet)
                 /\ Checked(job[j], w).wallet = w
  <1>1. job[j].task \in Movements /\ job[j].by \in Callers /\ job[j].copy \in OrderDocs
    BY RequestFields
  <1>2. CASE Allowed(job[j].task, w)
    BY <1>1, <1>2 DEF Checked, JobStates
  <1>3. CASE ~Allowed(job[j].task, w)
    BY <1>3, FailedIsAState DEF Checked
  <1>. QED
    BY <1>2, <1>3

LEMMA OpenWalletKeepsIt ==
    ASSUME WalletInv, NEW j \in Jobs, OpenWallet(j)
    PROVE  WalletInv'
  <1>1. job[j].phase = "opening" /\ TypeOK /\ wallet \in Wallets
    BY DEF OpenWallet, WalletInv, TypeOK
  <1>2. job[j].task \in Movements /\ job[j].by \in Callers /\ job[j].copy \in OrderDocs
    BY <1>1, RequestFields
  <1>3. /\ wallet' = wallet /\ outdated' \in {outdated, outdated \ {j}} /\ starts' = starts
        /\ order' \in [Orders -> OrderDocs] /\ entangled' \subseteq Orders /\ unheard' = unheard
    BY <1>1 DEF OpenWallet, TypeOK
  <1>4. CASE wallet.exists
    <2>1. Become(j, Checked(job[j], wallet))
      BY <1>4 DEF OpenWallet
    <2>. QED
      BY <1>1, <1>3, <1>4, <2>1, CheckedIsAState, MovingKeepsIt
  <1>5. CASE ~wallet.exists
    <2>. DEFINE s == [job[j] EXCEPT !.phase = "creating"]
    <2>1. Become(j, s)
      BY <1>5 DEF OpenWallet
    <2>2. job[j] \in [phase : {"opening"}, task : Movements, by : Callers, copy : OrderDocs]
      BY <1>1 DEF TypeOK, JobStates, Idle
    <2>3. s \in [phase : {"creating"}, task : Movements, by : Callers, copy : OrderDocs]
      BY <2>2
    <2>4. s \in JobStates /\ s.phase # "booking"
      BY <2>3 DEF JobStates
    <2>. HIDE DEF s
    <2>. QED
      BY <1>3, <2>1, <2>4, MovingKeepsIt
  <1>. QED
    BY <1>4, <1>5

LEMMA CreateWalletKeepsIt ==
    ASSUME WalletInv, NEW j \in Jobs, CreateWallet(j)
    PROVE  WalletInv'
  <1>. DEFINE s == Checked(job[j], wallet')
  <1>1. job[j].phase = "creating" /\ TypeOK /\ ~wallet.exists
    BY DEF CreateWallet, WalletInv
  <1>2. wallet' \in Wallets /\ wallet'.exists
    BY <1>1 DEF CreateWallet, TypeOK, Wallets
  <1>3. /\ s \in JobStates \cup {Idle}
        /\ s.phase = "booking" => Allowed(s.task, s.wallet) /\ s.wallet = wallet'
    BY <1>1, <1>2, CheckedIsAState
  <1>4. job' = [job EXCEPT ![j] = s] /\ job \in [Jobs -> JobStates \cup {Idle}]
    BY <1>1 DEF CreateWallet, Become, TypeOK
  <1>. HIDE DEF s
  <1>5. \A k \in Jobs : job'[k] = IF k = j THEN s ELSE job[k]
    BY <1>4
  <1>6. \A k \in Jobs : job[k].phase # "booking"
    BY <1>1 DEF WalletInv, CopiesAreCurrent
  <1>7. CopiesAreCurrent'
    <2>1. SUFFICES ASSUME NEW k \in Jobs, job'[k].phase = "booking"
                   PROVE  /\ wallet'.exists
                          /\ Allowed(job'[k].task, job'[k].wallet)
                          /\ job'[k].wallet = wallet'
      BY DEF CopiesAreCurrent, Allowed
    <2>2. job'[k] = s
      BY <1>5, <1>6, <2>1
    <2>. QED
      BY <1>2, <1>3, <2>1, <2>2
  <1>8. TypeOK'
    BY <1>1, <1>2, <1>3, <1>4 DEF CreateWallet, TypeOK
  <1>. QED
    BY <1>7, <1>8 DEF WalletInv

(* The save, whatever the caller is told of it.                            *)
LEMMA SavingKeepsIt ==
    ASSUME WalletInv, NEW j \in Jobs, job[j].phase = "booking", j \notin outdated,
           wallet' = Posted(job[j].task, job[j].wallet), outdated' = Bookers \ {j},
           NEW s \in JobStates \cup {Idle}, s.phase # "booking", Become(j, s),
           UNCHANGED <<order, starts, entangled>>, unheard' \in [Movements -> Nat]
    PROVE  WalletInv'
  <1>1. job[j].phase = "booking" /\ j \notin outdated /\ TypeOK
    BY DEF WalletInv
  <1>2. /\ wallet.exists /\ Allowed(job[j].task, job[j].wallet) /\ job[j].wallet = wallet
    BY <1>1 DEF WalletInv, CopiesAreCurrent
  <1>3. job[j].task \in Movements /\ wallet \in Wallets
    BY <1>1, RequestFields DEF TypeOK
  <1>4. wallet' \in Wallets /\ wallet'.exists
    BY <1>2, <1>3, PostedIsAWallet
  <1>6. job' = [job EXCEPT ![j] = s] /\ job \in [Jobs -> JobStates \cup {Idle}]
    BY <1>1 DEF Become, TypeOK
  <1>7. \A k \in Jobs : job'[k] = IF k = j THEN s ELSE job[k]
    BY <1>6
  <1>8. CopiesAreCurrent'
    <2>1. SUFFICES ASSUME NEW k \in Jobs, job'[k].phase = "booking"
                   PROVE  /\ wallet'.exists
                          /\ Allowed(job'[k].task, job'[k].wallet)
                          /\ k \in outdated'
      BY DEF CopiesAreCurrent, Allowed
    <2>2. job'[k] = job[k] /\ k # j /\ job[k].phase = "booking"
      BY <1>7, <2>1
    <2>3. Allowed(job[k].task, job[k].wallet)
      BY <2>2 DEF WalletInv, CopiesAreCurrent
    <2>4. k \in outdated'
      BY <2>2 DEF Bookers
    <2>. QED
      BY <1>4, <2>2, <2>3, <2>4
  <1>9. TypeOK'
    BY <1>1, <1>4, <1>6 DEF TypeOK, Bookers
  <1>. QED
    BY <1>8, <1>9 DEF WalletInv

LEMMA BookKeepsIt ==
    ASSUME WalletInv, NEW j \in Jobs, Book(j)
    PROVE  WalletInv'
  <1>1. unheard' \in [Movements -> Nat]
    BY DEF Book, WalletInv, TypeOK
  <1>2. Succeeded(job[j]) \in JobStates \cup {Idle} /\ Succeeded(job[j]).phase # "booking"
    BY SucceededIsAState DEF Book, WalletInv
  <1>. QED
    BY <1>1, <1>2, SavingKeepsIt DEF Book

LEMMA BookUnheardKeepsIt ==
    ASSUME WalletInv, NEW j \in Jobs, BookUnheard(j)
    PROVE  WalletInv'
  <1>. DEFINE m == job[j].task
  <1>0. /\ m \in Movements /\ unheard \in [Movements -> Nat]
        /\ unheard' = [unheard EXCEPT ![m] = @ + 1]
    BY RequestFields DEF BookUnheard, WalletInv, TypeOK
  <1>. HIDE DEF m
  <1>1. unheard' \in [Movements -> Nat]
    BY <1>0
  <1>2. Failed(job[j]) \in JobStates \cup {Idle} /\ Failed(job[j]).phase # "booking"
    BY FailedIsAState DEF BookUnheard, WalletInv
  <1>. QED
    BY <1>1, <1>2, SavingKeepsIt DEF BookUnheard

LEMMA MovementFailsKeepsIt ==
    ASSUME WalletInv, NEW j \in Jobs, MovementFails(j)
    PROVE  WalletInv'
  <1>1. Failed(job[j]) \in JobStates \cup {Idle} /\ Failed(job[j]).phase # "booking"
    BY FailedIsAState DEF MovementFails, WalletInv
  <1>2. order' \in [Orders -> OrderDocs] /\ entangled' \subseteq Orders
    BY DEF MovementFails, WalletInv, TypeOK
  <1>. QED
    BY <1>1, <1>2, MovingKeepsIt DEF MovementFails

LEMMA IdleIsNotBooking == Idle \in JobStates \cup {Idle} /\ Idle.phase # "booking"
  BY DEF Idle

(* Requests that end without the wallet.                                   *)
LEMMA EndingKeepsIt ==
    ASSUME WalletInv, NEW j \in Jobs,
           DeleteUnpaidOrder(j) \/ CloseRefund(j) \/ Crash(j)
    PROVE  WalletInv'
  <1>1. order \in [Orders -> OrderDocs] /\ entangled \subseteq Orders
    BY DEF WalletInv, TypeOK
  <1>2. CASE DeleteUnpaidOrder(j)
    <2>1. job[j].task.of \in Orders
      BY <1>2, RequestFields DEF DeleteUnpaidOrder, WalletInv, Of
    <2>. QED
      BY <1>1, <1>2, <2>1, StagedIsTyped, IdleIsNotBooking, MovingKeepsIt DEF DeleteUnpaidOrder
  <1>3. CASE CloseRefund(j)
    <2>. DEFINE h == job[j]
                o == h.task.of
                d == [stage   |-> IF h.by \in {"user", "admin"} THEN "cancelled" ELSE order[o].stage,
                      payment |-> IF h.refund = "processed" THEN "refunded" ELSE order[o].payment,
                      refund  |-> IF h.refund # h.copy.refund THEN h.refund ELSE order[o].refund]
    <2>1. h.refund \in {"none", "failed", "processed"}
      BY <1>3, RequestFields DEF CloseRefund, WalletInv
    <2>2. o \in Orders => d \in OrderDocs
      BY <1>1, <2>1 DEF OrderDocs
    <2>3. order' = IF Gone(o) THEN order ELSE [order EXCEPT ![o] = d]
      BY <1>3 DEF CloseRefund
    <2>. HIDE DEF d, o
    <2>4. order' \in [Orders -> OrderDocs]
      BY <1>1, <2>2, <2>3
    <2>. QED
      BY <1>1, <1>3, <2>4, IdleIsNotBooking, MovingKeepsIt DEF CloseRefund
  <1>4. CASE Crash(j)
    <2>1. entangled' \subseteq Orders
      BY <1>1, <1>4 DEF Crash
    <2>. QED
      BY <1>1, <1>4, <2>1, IdleIsNotBooking, MovingKeepsIt DEF Crash
  <1>. QED
    BY <1>2, <1>3, <1>4

LEMMA StampCancellationKeepsIt ==
    ASSUME WalletInv, NEW j \in Jobs, StampCancellation(j)
    PROVE  WalletInv'
  <1>. DEFINE h == job[j]
  <1>1. h.phase = "stamping" /\ h.task.of \in Orders /\ h.by \in Callers /\ h.copy \in OrderDocs
    BY RequestFields DEF WalletInv, StampCancellation, Of
  <1>2. /\ order \in [Orders -> OrderDocs] /\ entangled' \subseteq Orders
        /\ wallet' = wallet /\ outdated' = outdated /\ starts' = starts /\ unheard' = unheard
    BY DEF WalletInv, TypeOK, StampCancellation
  <1>3. CASE Gone(h.task.of)
    BY <1>2, <1>3, IdleIsNotBooking, MovingKeepsIt DEF StampCancellation
  <1>4. CASE ~Gone(h.task.of)
    <2>1. order' \in [Orders -> OrderDocs]
      BY <1>1, <1>2, <1>4, StagedIsTyped DEF StampCancellation
    <2>2. Become(j, Refunding(h.task.of, h.by, h.copy))
      BY <1>4 DEF StampCancellation
    <2>3. /\ Refunding(h.task.of, h.by, h.copy) \in JobStates
          /\ Refunding(h.task.of, h.by, h.copy).phase # "booking"
      BY <1>1, RefundingIsAState
    <2>. QED
      BY <1>2, <2>1, <2>2, <2>3, MovingKeepsIt
  <1>. QED
    BY <1>3, <1>4

(* The requests of the app that open the wallet.                           *)
LEMMA AppKeepsIt ==
    ASSUME WalletInv, NEW j \in Jobs, NEW m \in Movements, Start(j),
           Become(j, Opening(m, "app", NoOrder)), wallet' = wallet, outdated' = outdated,
           order' \in [Orders -> OrderDocs], entangled' = entangled, unheard' = unheard
    PROVE  WalletInv'
  <1>1. "app" \in Callers /\ NoOrder \in OrderDocs
    BY DEF Callers, NoOrder, OrderDocs
  <1>2. Opening(m, "app", NoOrder) \in JobStates
    BY <1>1, OpeningIsAState
  <1>3. Opening(m, "app", NoOrder).phase # "booking"
    BY DEF Opening
  <1>4. entangled' \subseteq Orders
    BY DEF WalletInv, TypeOK
  <1>. QED
    BY <1>2, <1>3, <1>4, BeginningKeepsIt

LEMMA VerifyTopUpKeepsIt ==
    ASSUME WalletInv, NEW j \in Jobs, NEW p \in TopUps, VerifyTopUp(j, p)
    PROVE  WalletInv'
  <1>1. [kind |-> "topup", of |-> p] \in Movements
    BY DEF Movements
  <1>2. order' \in [Orders -> OrderDocs]
    BY DEF VerifyTopUp, WalletInv, TypeOK
  <1>. QED
    BY <1>1, <1>2, AppKeepsIt DEF VerifyTopUp

LEMMA RewardReferralKeepsIt ==
    ASSUME WalletInv, NEW j \in Jobs, NEW r \in Referees, RewardReferral(j, r)
    PROVE  WalletInv'
  <1>1. [kind |-> "reward", of |-> r] \in Movements
    BY DEF Movements
  <1>2. order' \in [Orders -> OrderDocs]
    BY DEF RewardReferral, WalletInv, TypeOK
  <1>. QED
    BY <1>1, <1>2, AppKeepsIt DEF RewardReferral

LEMMA AppsOrderKeepsIt ==
    ASSUME WalletInv, NEW j \in Jobs, NEW o \in Orders,
           AwardCashback(j, o) \/ PlaceOrder(j, o)
    PROVE  WalletInv'
  <1>1. Cashback(o) \in Movements /\ Payment(o) \in Movements
    BY DEF Cashback, Payment, Movements
  <1>2. order \in [Orders -> OrderDocs]
    BY DEF WalletInv, TypeOK
  <1>3. CASE AwardCashback(j, o)
    BY <1>1, <1>2, <1>3, AppKeepsIt DEF AwardCashback
  <1>4. CASE PlaceOrder(j, o)
    <2>1. order' \in [Orders -> OrderDocs]
      BY <1>2, <1>4, StagedIsTyped DEF PlaceOrder
    <2>. QED
      BY <1>1, <1>4, <2>1, AppKeepsIt DEF PlaceOrder
  <1>. QED
    BY <1>3, <1>4

LEMMA CancellingKeepsIt ==
    ASSUME WalletInv, NEW j \in Jobs, NEW o \in Orders,
           \/ ExpireOrder(j, o)
           \/ RefundByHand(j, o)
           \/ \E by \in {"user", "admin", "seller"} : ReadToCancel(j, o, by)
    PROVE  WalletInv'
  <1>1. order \in [Orders -> OrderDocs] /\ entangled \subseteq Orders
    BY DEF WalletInv, TypeOK
  <1>2. Entangles(o) => entangled' \subseteq Orders
    BY <1>1 DEF Entangles
  <1>3. \A by \in {"user", "admin", "seller", "sweep", "support"} : by \in Callers
    BY DEF Callers, Requesters
  <1>4. CASE ExpireOrder(j, o)
    <2>1. order' \in [Orders -> OrderDocs]
      BY <1>1, <1>4, StagedIsTyped DEF ExpireOrder
    <2>2. order'[o] \in OrderDocs
      BY <2>1
    <2>3. /\ Refunding(o, "sweep", order'[o]) \in JobStates
          /\ Refunding(o, "sweep", order'[o]).phase # "booking"
      BY <1>3, <2>2, RefundingIsAState
    <2>4. Become(j, Refunding(o, "sweep", order'[o]))
      BY <1>4 DEF ExpireOrder
    <2>5. entangled' \subseteq Orders
      BY <1>2, <1>4 DEF ExpireOrder
    <2>6. Start(j) /\ wallet' = wallet /\ outdated' = outdated /\ unheard' = unheard
      BY <1>4 DEF ExpireOrder
    <2>. QED
      BY <2>1, <2>3, <2>4, <2>5, <2>6, BeginningKeepsIt
  <1>5. CASE RefundByHand(j, o)
    <2>1. /\ Refunding(o, "support", order[o]) \in JobStates
          /\ Refunding(o, "support", order[o]).phase # "booking"
      BY <1>1, <1>3, RefundingIsAState
    <2>. QED
      BY <1>1, <1>2, <1>5, <2>1, BeginningKeepsIt DEF RefundByHand
  <1>6. ASSUME NEW by \in {"user", "admin", "seller"}, ReadToCancel(j, o, by)
        PROVE  WalletInv'
    <2>. DEFINE s == IF by = "seller"
                     THEN [Opening(Refund(o), by, order[o]) EXCEPT !.phase = "stamping"]
                     ELSE Refunding(o, by, order[o])
    <2>1. s \in JobStates /\ s.phase # "booking"
      <3>1. CASE by = "seller"
        <4>1. s = [phase |-> "stamping", task |-> Refund(o), by |-> by, copy |-> order[o]]
          BY <3>1 DEF Opening
        <4>2. Refund(o) \in Of("refund")
          BY DEF Refund, Of
        <4>. QED
          BY <1>1, <1>3, <4>1, <4>2 DEF JobStates
      <3>2. CASE by # "seller"
        BY <1>1, <1>3, <3>2, RefundingIsAState
      <3>. QED
        BY <3>1, <3>2
    <2>2. /\ Become(j, s) /\ Start(j)
          /\ UNCHANGED <<wallet, outdated, order, unheard>>
      BY <1>6 DEF ReadToCancel
    <2>3. entangled' \subseteq Orders
      BY <1>2, <1>6 DEF ReadToCancel
    <2>. HIDE DEF s
    <2>. QED
      BY <1>1, <2>1, <2>2, <2>3, BeginningKeepsIt
  <1>. QED
    BY <1>4, <1>5, <1>6

LEMMA DeliverKeepsIt ==
    ASSUME WalletInv, NEW o \in Orders, Deliver(o)
    PROVE  WalletInv'
  <1>1. order' \in [Orders -> OrderDocs]
    BY StagedIsTyped DEF Deliver, WalletInv, TypeOK
  <1>2. CopiesAreCurrent'
    BY DEF Deliver, WalletInv, CopiesAreCurrent, Allowed
  <1>. QED
    BY <1>1, <1>2 DEF Deliver, WalletInv, TypeOK

LEMMA DeleteOrderKeepsIt ==
    ASSUME WalletInv, NEW o \in Orders, DeleteOrder(o)
    PROVE  WalletInv'
  <1>1. order' \in [Orders -> OrderDocs]
    BY StagedIsTyped DEF DeleteOrder, WalletInv, TypeOK
  <1>3. entangled' \subseteq Orders
    BY DEF DeleteOrder, Entangles, WalletInv, TypeOK
  <1>2. CopiesAreCurrent'
    BY DEF DeleteOrder, WalletInv, CopiesAreCurrent, Allowed
  <1>. QED
    BY <1>1, <1>2, <1>3 DEF DeleteOrder, WalletInv, TypeOK

-----------------------------------------------------------------------------
LEMMA InitIsCurrent == Init => WalletInv
  <1>. SUFFICES ASSUME Init PROVE WalletInv
    OBVIOUS
  <1>1. wallet \in Wallets
    BY DEF Init, Wallets
  <1>2. NoOrder \in OrderDocs
    BY DEF NoOrder, OrderDocs
  <1>3. 0 \in 0..MaxStarts
    BY WalletAssumption
  <1>4. TypeOK
    BY <1>1, <1>2, <1>3 DEF Init, TypeOK
  <1>5. CopiesAreCurrent
    BY DEF Init, CopiesAreCurrent, Idle
  <1>. QED
    BY <1>4, <1>5 DEF WalletInv

LEMMA StepsKeepIt == WalletInv /\ [Next]_vars => WalletInv'
  <1>. SUFFICES ASSUME WalletInv, [Next]_vars
                PROVE  WalletInv'
    OBVIOUS
  <1>1. CASE UNCHANGED vars
    BY <1>1 DEF vars, WalletInv, TypeOK, CopiesAreCurrent, Allowed
  <1>2. CASE \E o \in Orders : Deliver(o) \/ DeleteOrder(o)
    BY <1>2, DeliverKeepsIt, DeleteOrderKeepsIt
  <1>3. ASSUME NEW j \in Jobs,
               \/ OpenWallet(j) \/ CreateWallet(j)
               \/ Book(j) \/ BookUnheard(j) \/ MovementFails(j)
               \/ DeleteUnpaidOrder(j) \/ StampCancellation(j) \/ CloseRefund(j) \/ Crash(j)
        PROVE  WalletInv'
    BY <1>3, OpenWalletKeepsIt, CreateWalletKeepsIt, BookKeepsIt, BookUnheardKeepsIt,
       MovementFailsKeepsIt, EndingKeepsIt, StampCancellationKeepsIt
  <1>4. ASSUME NEW j \in Jobs,
               \/ \E p \in TopUps : VerifyTopUp(j, p)
               \/ \E r \in Referees : RewardReferral(j, r)
        PROVE  WalletInv'
    BY <1>4, VerifyTopUpKeepsIt, RewardReferralKeepsIt
  <1>5. ASSUME NEW j \in Jobs, NEW o \in Orders,
               \/ PlaceOrder(j, o) \/ AwardCashback(j, o)
               \/ ExpireOrder(j, o) \/ RefundByHand(j, o)
               \/ \E by \in {"user", "admin", "seller"} : ReadToCancel(j, o, by)
        PROVE  WalletInv'
    BY <1>5, AppsOrderKeepsIt, CancellingKeepsIt
  <1>. QED
    BY <1>1, <1>2, <1>3, <1>4, <1>5 DEF Next

LEMMA WalletInvAlways == Spec => []WalletInv
  BY InitIsCurrent, StepsKeepIt, PTL DEF Spec

(* The wallet, the orders and the requests keep their shape: in particular *)
(* no sequence of overlapping requests, failures and crashes makes the     *)
(* balance negative.                                                       *)
THEOREM WalletIsTyped == Spec => []TypeOK
  <1>1. WalletInv => TypeOK
    BY DEF WalletInv
  <1>. QED
    BY <1>1, WalletInvAlways, PTL

-----------------------------------------------------------------------------
(* A movement the code allows on the wallet as it is may be booked in the  *)
(* ledger.                                                                 *)
LEMMA AllowedIsAdmissible ==
    ASSUME NEW m \in Movements, Allowed(m, wallet)
    PROVE  L!Admissible(m)
  <1>1. {o \in Orders : wallet.rows[Cashback(o)] > 0} = {o \in Orders : wallet.rows[L!Cashback(o)] > 0}
    BY DEF Cashback, L!Cashback
  <1>2. \A S : Cardinality(S) = L!Cardinality(S)
    BY DEF Cardinality, L!Cardinality
  <1>. QED
    BY <1>1, <1>2 DEF Allowed, L!Admissible

LEMMA BookIsAMovement ==
    ASSUME WalletInv, NEW j \in Jobs, Book(j) \/ BookUnheard(j)
    PROVE  L!LedgerNext
  <1>. DEFINE m == job[j].task
  <1>1. m \in Movements
    BY RequestFields DEF Book, BookUnheard, WalletInv
  <1>2. job[j].wallet = wallet /\ Allowed(m, wallet)
    BY DEF Book, BookUnheard, WalletInv, CopiesAreCurrent
  <1>3. m \in L!Movements
    BY <1>1 DEF Movements, L!Movements
  <1>4. L!Admissible(m)
    BY <1>1, <1>2, AllowedIsAdmissible
  <1>5. wallet' = Posted(m, wallet)
    BY <1>2 DEF Book, BookUnheard
  <1>. HIDE DEF m
  <1>6. L!BookMovement(m)
    BY <1>4, <1>5 DEF L!BookMovement, Posted
  <1>. QED
    BY <1>3, <1>6 DEF L!LedgerNext

LEMMA OthersAreQuiet ==
    ASSUME Next, \A j \in Jobs : ~(Book(j) \/ BookUnheard(j))
    PROVE  wallet'.balance = wallet.balance /\ wallet'.rows = wallet.rows
  <1>1. \A j \in Jobs : CreateWallet(j) => wallet'.balance = wallet.balance /\ wallet'.rows = wallet.rows
    BY DEF CreateWallet
  <1>2. \A j \in Jobs :
           \/ OpenWallet(j) \/ MovementFails(j) \/ DeleteUnpaidOrder(j)
           \/ StampCancellation(j) \/ CloseRefund(j) \/ Crash(j)
           => wallet' = wallet
    BY DEF OpenWallet, MovementFails, DeleteUnpaidOrder, StampCancellation, CloseRefund, Crash
  <1>3. \A j \in Jobs :
           \/ \E p \in TopUps : VerifyTopUp(j, p)
           \/ \E r \in Referees : RewardReferral(j, r)
           => wallet' = wallet
    BY DEF VerifyTopUp, RewardReferral
  <1>4. \A j \in Jobs, o \in Orders :
           \/ PlaceOrder(j, o) \/ AwardCashback(j, o) \/ ExpireOrder(j, o) \/ RefundByHand(j, o)
           \/ \E by \in {"user", "admin", "seller"} : ReadToCancel(j, o, by)
           => wallet' = wallet
    BY DEF PlaceOrder, AwardCashback, ExpireOrder, RefundByHand, ReadToCancel
  <1>5. \A o \in Orders : (Deliver(o) \/ DeleteOrder(o)) => wallet' = wallet
    BY DEF Deliver, DeleteOrder
  <1>. QED
    BY <1>1, <1>2, <1>3, <1>4, <1>5 DEF Next

(***************************************************************************)
(* The wallet implements the ledger: however many requests of whatever     *)
(* callers overlap, fail or die, every change of the balance is one        *)
(* movement booked on the wallet as it was - nothing lost, nothing spent   *)
(* that is not there, a top-up and an order's cashback once at most        *)
(* (the read, check, unshift and save of userWallet.service.js and         *)
(* cashback.service.js).                                                   *)
(***************************************************************************)
THEOREM WalletImplementsLedger == Spec => ImplementsLedger
  <1>1. Init => L!LedgerInit
    BY DEF Init, L!LedgerInit, Movements, L!Movements
  <1>2. WalletInv /\ [Next]_vars => [L!LedgerNext]_<<wallet.balance, wallet.rows>>
    <2>. SUFFICES ASSUME WalletInv, [Next]_vars
                  PROVE  L!LedgerNext \/ UNCHANGED <<wallet.balance, wallet.rows>>
      OBVIOUS
    <2>1. CASE \E j \in Jobs : Book(j) \/ BookUnheard(j)
      BY <2>1, BookIsAMovement
    <2>2. CASE Next /\ \A j \in Jobs : ~(Book(j) \/ BookUnheard(j))
      BY <2>2, OthersAreQuiet
    <2>3. CASE UNCHANGED vars
      BY <2>3 DEF vars
    <2>. QED
      BY <2>1, <2>2, <2>3
  <1>. QED
    BY <1>1, <1>2, WalletInvAlways, PTL DEF Spec, ImplementsLedger, L!LedgerSpec

-----------------------------------------------------------------------------
(***************************************************************************)
(* The orders and the wallet.  For an order that no two requests held at   *)
(* once and none died over, there is at most one request that moves its    *)
(* money, and what that request has yet to do is the difference between    *)
(* the two documents.  A movement booked and reported as failed is in the  *)
(* wallet all the same, and is not counted.                                *)
(***************************************************************************)
Paid(o) == wallet.rows[Payment(o)] - unheard[Payment(o)]
Returned(o) == wallet.rows[Refund(o)] - unheard[Refund(o)]

(* The order says that its refund was made, or that it failed.             *)
RefundIsSaid(o) == order[o].refund \in {"processed", "failed"}

AtRest(o) ==
    /\ Paid(o) = IF order[o].stage \in {"none", "deleted"} THEN 0 ELSE 1
    /\ Returned(o) = IF order[o].payment = "refunded" THEN 1 ELSE 0
    /\ order[o].stage \in {"none", "deleted"} => order[o].payment = "paid"
    /\ order[o].stage = "cancelled" => RefundIsSaid(o)

(* A request that is to charge the order ...                               *)
ChargeAgrees(o) ==
    /\ order[o].stage \in {"placed", "delivered"} /\ order[o].payment = "paid"
    /\ Paid(o) = 0 /\ Returned(o) = 0

(* ... and one that is to refund it.                                       *)
RefundAgrees(o, h) ==
    /\ order[o].stage \notin {"none", "deleted", "removed"} /\ Paid(o) = 1
    /\ h.copy.payment = order[o].payment /\ h.copy.refund = order[o].refund
    /\ h.phase = "stamping" =>
          h.by = "seller" /\ Returned(o) = IF order[o].payment = "refunded" THEN 1 ELSE 0
    /\ h.phase \in {"opening", "creating", "booking"} => Owed(order[o]) /\ Returned(o) = 0
    /\ h.phase = "closing" =>
          /\ h.refund \in {"processed", "failed"}
          /\ Returned(o) = IF h.refund = "processed" THEN 1 ELSE 0
          /\ h.refund = "failed" => order[o].payment = "paid"
    /\ order[o].stage = "cancelled" =>
          h.by \in {"user", "admin", "seller"} \/ RefundIsSaid(o)

JobAgrees(o, h) ==
    /\ h.task = Payment(o) => ChargeAgrees(o)
    /\ h.task = Refund(o) => RefundAgrees(o, h)

RefundedIsProcessed(o) == order[o].payment = "refunded" <=> order[o].refund = "processed"

OrderAgrees(o) ==
    /\ \A j, k \in HoldersOf(o) : j = k
    /\ RefundedIsProcessed(o)
    /\ HoldersOf(o) = {} => AtRest(o)
    /\ \A j \in HoldersOf(o) : JobAgrees(o, job[j])

AgreeInv == \A o \in Orders \ entangled : OrderAgrees(o)

LEMMA OrdersMovementsDiffer ==
    /\ \A o, p \in Orders : Payment(o) = Payment(p) => o = p
    /\ \A o, p \in Orders : Refund(o) = Refund(p) => o = p
    /\ \A o, p \in Orders : Payment(o) # Refund(p)
    /\ \A o \in Orders : Payment(o) \in Movements /\ Refund(o) \in Movements
    /\ \A o \in Orders : Payment(o).kind = "payment" /\ Refund(o).kind = "refund"
  <1>1. \A o \in Orders : /\ Payment(o) = [kind |-> "payment", of |-> o]
                          /\ Refund(o) = [kind |-> "refund", of |-> o]
    BY DEF Payment, Refund
  <1>2. \A o \in Orders : Payment(o) \in Movements /\ Refund(o) \in Movements
    BY <1>1 DEF Movements
  <1>. QED
    BY <1>1, <1>2

LEMMA Became ==
    ASSUME TypeOK, NEW j \in Jobs, NEW h, Become(j, h)
    PROVE  job'[j] = h /\ \A k \in Jobs \ {j} : job'[k] = job[k]
  BY DEF TypeOK, Become

(* What a step leaves alone keeps its agreement.                           *)
LEMMA Undisturbed ==
    ASSUME NEW o \in Orders, OrderAgrees(o), order'[o] = order[o],
           Paid(o)' = Paid(o), Returned(o)' = Returned(o), HoldersOf(o)' = HoldersOf(o),
           \A k \in HoldersOf(o) : job'[k] = job[k]
    PROVE  OrderAgrees(o)'
  <1>1. RefundedIsProcessed(o)' <=> RefundedIsProcessed(o)
    BY DEF RefundedIsProcessed
  <1>2. AtRest(o)' <=> AtRest(o)
    BY DEF AtRest, RefundIsSaid
  <1>3. ASSUME NEW k \in HoldersOf(o), JobAgrees(o, job[k])
        PROVE  JobAgrees(o, job[k])'
    BY <1>3 DEF JobAgrees, ChargeAgrees, RefundAgrees, RefundIsSaid, Owed
  <1>. QED
    BY <1>1, <1>2, <1>3 DEF OrderAgrees

(* A step of a request that has one order's money to move, or none's, is   *)
(* judged by that order alone.                                             *)
LEMMA HolderMoves ==
    ASSUME AgreeInv, NEW j \in Jobs, job[j] # Idle,
           \A k \in Jobs \ {j} : job'[k] = job[k],
           job'[j] # Idle => job'[j].task = job[j].task,
           entangled' = entangled,
           \A o \in Orders : job[j].task \notin {Payment(o), Refund(o)} =>
               order'[o] = order[o] /\ Paid(o)' = Paid(o) /\ Returned(o)' = Returned(o),
           \A o \in Orders \ entangled :
               (/\ job[j].task \in {Payment(o), Refund(o)}
                /\ JobAgrees(o, job[j]) /\ RefundedIsProcessed(o))
               => /\ RefundedIsProcessed(o)'
                  /\ job'[j] = Idle => AtRest(o)'
                  /\ job'[j] # Idle => JobAgrees(o, job[j])'
    PROVE  AgreeInv'
  <1>. SUFFICES ASSUME NEW o \in Orders \ entangled PROVE OrderAgrees(o)'
    BY DEF AgreeInv
  <1>1. OrderAgrees(o)
    BY DEF AgreeInv
  <1>2. CASE job[j].task \notin {Payment(o), Refund(o)}
    <2>1. HoldersOf(o)' = HoldersOf(o) /\ j \notin HoldersOf(o)
      BY <1>2 DEF HoldersOf
    <2>2. \A k \in HoldersOf(o) : job'[k] = job[k]
      BY <2>1 DEF HoldersOf
    <2>. QED
      BY <1>1, <1>2, <2>1, <2>2, Undisturbed
  <1>3. CASE job[j].task \in {Payment(o), Refund(o)}
    <2>1. HoldersOf(o) = {j}
      BY <1>1, <1>3 DEF OrderAgrees, HoldersOf
    <2>2. HoldersOf(o)' = IF job'[j] = Idle THEN {} ELSE {j}
      BY <1>3, <2>1 DEF HoldersOf
    <2>3. /\ RefundedIsProcessed(o)'
          /\ job'[j] = Idle => AtRest(o)'
          /\ job'[j] # Idle => JobAgrees(o, job[j])'
      BY <1>1, <1>3, <2>1 DEF OrderAgrees
    <2>. QED
      BY <2>2, <2>3 DEF OrderAgrees
  <1>. QED
    BY <1>2, <1>3

(* A request begins: at most one order gets a holder, and gets entangled   *)
(* if it has one.                                                          *)
LEMMA HolderBegins ==
    ASSUME AgreeInv, NEW j \in Jobs, job[j] = Idle, job'[j] # Idle,
           \A k \in Jobs \ {j} : job'[k] = job[k],
           NEW p \in Orders, job'[j].task \in {Payment(p), Refund(p)},
           UNCHANGED <<wallet, unheard>>, \A o \in Orders \ {p} : order'[o] = order[o],
           entangled \subseteq entangled', HoldersOf(p) # {} => p \in entangled',
           p \notin entangled' /\ AtRest(p) /\ RefundedIsProcessed(p) =>
               RefundedIsProcessed(p)' /\ JobAgrees(p, job[j])'
    PROVE  AgreeInv'
  <1>. SUFFICES ASSUME NEW o \in Orders \ entangled' PROVE OrderAgrees(o)'
    BY DEF AgreeInv
  <1>1. OrderAgrees(o)
    BY DEF AgreeInv
  <1>2. CASE o # p
    <2>1. job'[j].task \notin {Payment(o), Refund(o)}
      BY <1>2, OrdersMovementsDiffer
    <2>2. HoldersOf(o)' = HoldersOf(o) /\ j \notin HoldersOf(o)
      BY <2>1 DEF HoldersOf
    <2>3. \A k \in HoldersOf(o) : job'[k] = job[k]
      BY <2>2 DEF HoldersOf
    <2>. QED
      BY <1>1, <1>2, <2>2, <2>3, Undisturbed DEF Paid, Returned
  <1>3. CASE o = p
    <2>1. HoldersOf(o) = {} /\ AtRest(o) /\ RefundedIsProcessed(o)
      BY <1>1, <1>3 DEF OrderAgrees
    <2>2. HoldersOf(o)' = {j}
      BY <1>3, <2>1 DEF HoldersOf
    <2>. QED
      BY <1>3, <2>1, <2>2 DEF OrderAgrees
  <1>. QED
    BY <1>2, <1>3

(* Requests that move no order's money.                                    *)
LEMMA StrangerBegins ==
    ASSUME AgreeInv, NEW j \in Jobs, job[j] = Idle,
           \A k \in Jobs \ {j} : job'[k] = job[k],
           \A o \in Orders : job'[j].task \notin {Payment(o), Refund(o)},
           UNCHANGED <<wallet, unheard, order, entangled>>
    PROVE  AgreeInv'
  <1>. SUFFICES ASSUME NEW o \in Orders \ entangled PROVE OrderAgrees(o)'
    BY DEF AgreeInv
  <1>1. OrderAgrees(o)
    BY DEF AgreeInv
  <1>2. HoldersOf(o)' = HoldersOf(o) /\ j \notin HoldersOf(o)
    BY DEF HoldersOf
  <1>3. \A k \in HoldersOf(o) : job'[k] = job[k]
    BY <1>2 DEF HoldersOf
  <1>. QED
    BY <1>1, <1>2, <1>3, Undisturbed DEF Paid, Returned

(* A request whose movement failed.                                        *)
LEMMA FailedAgrees ==
    ASSUME WalletInv, NEW j \in Jobs, job[j].phase \in {"opening", "creating", "booking"},
           NEW o \in Orders, job[j].task \in {Payment(o), Refund(o)},
           JobAgrees(o, job[j]), order' = order,
           Paid(o)' = Paid(o), Returned(o)' = Returned(o),
           job'[j] = Failed(job[j])
    PROVE  /\ job'[j] = Idle => AtRest(o)'
           /\ job'[j] # Idle => JobAgrees(o, job[j])'
  <1>1. CASE job[j].task = Payment(o)
    <2>1. job'[j] = [phase |-> "undoing", task |-> Payment(o)] /\ job'[j] # Idle
      BY <1>1, OrdersMovementsDiffer DEF Failed, Idle
    <2>. QED
      BY <1>1, <2>1, OrdersMovementsDiffer DEF JobAgrees, ChargeAgrees
  <1>2. CASE job[j].task = Refund(o)
    <2>1. RefundAgrees(o, job[j]) /\ Owed(order[o]) /\ Returned(o) = 0 /\ Paid(o) = 1
      BY <1>2 DEF JobAgrees, RefundAgrees
    <2>2. CASE job[j].by \in {"user", "admin", "seller"}
      <3>1. job'[j] = [phase |-> "closing", task |-> Refund(o), by |-> job[j].by,
                       copy |-> job[j].copy, refund |-> "failed"] /\ job'[j] # Idle
        BY <1>2, <2>2, OrdersMovementsDiffer DEF Failed, Idle
      <3>2. RefundAgrees(o, job[j])'
        BY <2>1, <2>2, <3>1 DEF RefundAgrees, Owed
      <3>. QED
        BY <3>1, <3>2, OrdersMovementsDiffer DEF JobAgrees
    <2>3. CASE job[j].by \notin {"user", "admin", "seller"}
      <3>1. job'[j] = Idle
        BY <1>2, <2>3, OrdersMovementsDiffer DEF Failed
      <3>2. AtRest(o)'
        BY <2>1, <2>3 DEF RefundAgrees, AtRest, RefundIsSaid, Owed
      <3>. QED
        BY <3>1, <3>2
    <2>. QED
      BY <2>2, <2>3
  <1>. QED
    BY <1>1, <1>2

(* A request that goes on to the next read or to its save.                 *)
LEMMA GoingOnAgrees ==
    ASSUME NEW j \in Jobs, job[j].phase \in {"opening", "creating", "booking"},
           NEW o \in Orders, JobAgrees(o, job[j]), order' = order,
           Paid(o)' = Paid(o), Returned(o)' = Returned(o),
           job'[j].task = job[j].task, job'[j].by = job[j].by, job'[j].copy = job[j].copy,
           job'[j].phase \in {"creating", "booking"}
    PROVE  job'[j] # Idle /\ JobAgrees(o, job[j])'
  <1>1. job'[j] # Idle
    BY DEF Idle
  <1>2. job[j].task = Payment(o) => ChargeAgrees(o)'
    BY DEF JobAgrees, ChargeAgrees
  <1>3. job[j].task = Refund(o) => RefundAgrees(o, job[j])'
    BY DEF JobAgrees, RefundAgrees, RefundIsSaid, Owed
  <1>. QED
    BY <1>1, <1>2, <1>3 DEF JobAgrees

LEMMA CheckedAgrees ==
    ASSUME WalletInv, NEW j \in Jobs, job[j].phase \in {"opening", "creating"},
           NEW o \in Orders, job[j].task \in {Payment(o), Refund(o)},
           JobAgrees(o, job[j]), order' = order,
           Paid(o)' = Paid(o), Returned(o)' = Returned(o),
           NEW w, job'[j] = Checked(job[j], w)
    PROVE  /\ job'[j] = Idle => AtRest(o)'
           /\ job'[j] # Idle => JobAgrees(o, job[j])'
  <1>1. CASE Allowed(job[j].task, w)
    <2>1. job'[j] = [phase |-> "booking", task |-> job[j].task, by |-> job[j].by,
                     copy |-> job[j].copy, wallet |-> w]
      BY <1>1 DEF Checked
    <2>2. job'[j].task = job[j].task /\ job'[j].by = job[j].by /\ job'[j].copy = job[j].copy
          /\ job'[j].phase = "booking"
      BY <2>1
    <2>. QED
      BY <2>2, GoingOnAgrees
  <1>2. CASE ~Allowed(job[j].task, w)
    BY <1>2, FailedAgrees DEF Checked
  <1>. QED
    BY <1>1, <1>2

(* What a request makes of its task when it goes on.                       *)
LEMMA TaskStays ==
    ASSUME NEW h, NEW w
    PROVE  /\ Failed(h) # Idle => Failed(h).task = h.task
           /\ Checked(h, w) # Idle => Checked(h, w).task = h.task
           /\ Succeeded(h) # Idle => Succeeded(h).task = h.task
  BY DEF Failed, Checked, Succeeded

LEMMA BusyIsNotIdle ==
    ASSUME NEW j \in Jobs, job[j].phase # "idle"
    PROVE  job[j] # Idle
  BY DEF Idle

LEMMA OpenWalletAgrees ==
    ASSUME WalletInv, AgreeInv, NEW j \in Jobs, OpenWallet(j)
    PROVE  AgreeInv'
  <1>1. /\ job[j].phase = "opening" /\ TypeOK /\ job[j] # Idle
        /\ UNCHANGED <<wallet, unheard, order, entangled>>
    BY BusyIsNotIdle DEF OpenWallet, WalletInv
  <1>. DEFINE h == IF wallet.exists THEN Checked(job[j], wallet)
                   ELSE [job[j] EXCEPT !.phase = "creating"]
  <1>2. Become(j, h)
    BY DEF OpenWallet
  <1>3. job'[j] = h /\ \A k \in Jobs \ {j} : job'[k] = job[k]
    BY <1>1, <1>2, Became
  <1>4. CASE wallet.exists
    <2>1. job'[j] = Checked(job[j], wallet)
      BY <1>3, <1>4
    <2>. HIDE DEF h
    <2>2. ASSUME NEW o \in Orders \ entangled, job[j].task \in {Payment(o), Refund(o)},
                 JobAgrees(o, job[j]), RefundedIsProcessed(o)
          PROVE  /\ RefundedIsProcessed(o)'
                 /\ job'[j] = Idle => AtRest(o)'
                 /\ job'[j] # Idle => JobAgrees(o, job[j])'
      BY <1>1, <2>1, <2>2, CheckedAgrees DEF RefundedIsProcessed, Paid, Returned
    <2>. QED
      BY <1>1, <1>3, <2>1, <2>2, TaskStays, HolderMoves DEF Paid, Returned
  <1>5. CASE ~wallet.exists
    <2>1. job[j] \in [phase : {"opening"}, task : Movements, by : Callers, copy : OrderDocs]
      BY <1>1 DEF TypeOK, JobStates, Idle
    <2>2. /\ job'[j].phase = "creating" /\ job'[j].task = job[j].task
          /\ job'[j].by = job[j].by /\ job'[j].copy = job[j].copy
      BY <1>3, <1>5, <2>1
    <2>. HIDE DEF h
    <2>3. ASSUME NEW o \in Orders \ entangled, job[j].task \in {Payment(o), Refund(o)},
                 JobAgrees(o, job[j]), RefundedIsProcessed(o)
          PROVE  /\ RefundedIsProcessed(o)'
                 /\ job'[j] = Idle => AtRest(o)'
                 /\ job'[j] # Idle => JobAgrees(o, job[j])'
      BY <1>1, <2>2, <2>3, GoingOnAgrees DEF RefundedIsProcessed, Paid, Returned
    <2>. QED
      BY <1>1, <1>3, <2>2, <2>3, HolderMoves DEF Paid, Returned
  <1>. QED
    BY <1>4, <1>5

LEMMA CreateWalletAgrees ==
    ASSUME WalletInv, AgreeInv, NEW j \in Jobs, CreateWallet(j)
    PROVE  AgreeInv'
  <1>1. /\ job[j].phase = "creating" /\ TypeOK /\ job[j] # Idle
        /\ UNCHANGED <<order, entangled, unheard>> /\ wallet'.rows = wallet.rows
    BY BusyIsNotIdle DEF CreateWallet, WalletInv
  <1>2. Become(j, Checked(job[j], wallet'))
    BY DEF CreateWallet
  <1>3. job'[j] = Checked(job[j], wallet') /\ \A k \in Jobs \ {j} : job'[k] = job[k]
    BY <1>1, <1>2, Became
  <1>4. ASSUME NEW o \in Orders \ entangled, job[j].task \in {Payment(o), Refund(o)},
               JobAgrees(o, job[j]), RefundedIsProcessed(o)
        PROVE  /\ RefundedIsProcessed(o)'
               /\ job'[j] = Idle => AtRest(o)'
               /\ job'[j] # Idle => JobAgrees(o, job[j])'
    BY <1>1, <1>3, <1>4, CheckedAgrees DEF RefundedIsProcessed, Paid, Returned
  <1>5. job'[j] # Idle => job'[j].task = job[j].task
    BY <1>3, TaskStays
  <1>. QED
    BY <1>1, <1>3, <1>4, <1>5, HolderMoves DEF Paid, Returned

LEMMA MovementFailsAgrees ==
    ASSUME WalletInv, AgreeInv, NEW j \in Jobs, MovementFails(j)
    PROVE  AgreeInv'
  <1>1. /\ job[j].phase \in {"opening", "creating", "booking"} /\ TypeOK /\ job[j] # Idle
        /\ UNCHANGED <<wallet, unheard, order, entangled>>
    BY BusyIsNotIdle DEF MovementFails, WalletInv
  <1>2. Become(j, Failed(job[j]))
    BY DEF MovementFails
  <1>3. job'[j] = Failed(job[j]) /\ \A k \in Jobs \ {j} : job'[k] = job[k]
    BY <1>1, <1>2, Became
  <1>4. ASSUME NEW o \in Orders \ entangled, job[j].task \in {Payment(o), Refund(o)},
               JobAgrees(o, job[j]), RefundedIsProcessed(o)
        PROVE  /\ RefundedIsProcessed(o)'
               /\ job'[j] = Idle => AtRest(o)'
               /\ job'[j] # Idle => JobAgrees(o, job[j])'
    BY <1>1, <1>3, <1>4, FailedAgrees DEF RefundedIsProcessed, Paid, Returned
  <1>5. job'[j] # Idle => job'[j].task = job[j].task
    BY <1>3, TaskStays
  <1>. QED
    BY <1>1, <1>3, <1>4, <1>5, HolderMoves DEF Paid, Returned

LEMMA BookAgrees ==
    ASSUME WalletInv, AgreeInv, NEW j \in Jobs, Book(j)
    PROVE  AgreeInv'
  <1>. DEFINE m == job[j].task
  <1>1. /\ job[j].phase = "booking" /\ TypeOK /\ job[j] # Idle
        /\ UNCHANGED <<order, entangled, unheard>> /\ job[j].wallet = wallet
    BY BusyIsNotIdle DEF Book, WalletInv, CopiesAreCurrent
  <1>2. /\ m \in Movements /\ wallet.rows \in [Movements -> Nat]
        /\ unheard \in [Movements -> Nat]
    BY <1>1, RequestFields DEF TypeOK, Wallets
  <1>3. wallet'.rows = [wallet.rows EXCEPT ![m] = @ + 1]
    BY <1>1 DEF Book, Posted
  <1>4. \A n \in Movements : wallet'.rows[n] = wallet.rows[n] + (IF n = m THEN 1 ELSE 0)
    BY <1>2, <1>3
  <1>5. Become(j, Succeeded(job[j]))
    BY DEF Book
  <1>6. job'[j] = Succeeded(job[j]) /\ \A k \in Jobs \ {j} : job'[k] = job[k]
    BY <1>1, <1>5, Became
  <1>7. ASSUME NEW o \in Orders
        PROVE  /\ Paid(o) \in Int /\ Returned(o) \in Int
               /\ Paid(o)' = Paid(o) + (IF m = Payment(o) THEN 1 ELSE 0)
               /\ Returned(o)' = Returned(o) + (IF m = Refund(o) THEN 1 ELSE 0)
    BY <1>1, <1>2, <1>4, OrdersMovementsDiffer DEF Paid, Returned
  <1>8. ASSUME NEW o \in Orders \ entangled, m \in {Payment(o), Refund(o)},
               JobAgrees(o, job[j])
        PROVE  /\ job'[j] = Idle => AtRest(o)'
               /\ job'[j] # Idle => JobAgrees(o, job[j])'
    <2>1. CASE m = Payment(o)
      <3>1. job'[j] = Idle
        BY <1>6, <2>1, OrdersMovementsDiffer DEF Succeeded
      <3>2. Paid(o)' = 1 /\ Returned(o)' = 0
        BY <1>7, <1>8, <2>1, OrdersMovementsDiffer DEF JobAgrees, ChargeAgrees
      <3>3. order'[o].stage \in {"placed", "delivered"} /\ order'[o].payment = "paid"
        BY <1>1, <1>8, <2>1 DEF JobAgrees, ChargeAgrees
      <3>4. AtRest(o)'
        BY <3>2, <3>3 DEF AtRest
      <3>. QED
        BY <3>1, <3>4
    <2>2. CASE m = Refund(o)
      <3>1. job'[j] = [phase |-> "closing", task |-> m, by |-> job[j].by,
                       copy |-> job[j].copy, refund |-> "processed"] /\ job'[j] # Idle
        BY <1>6, <2>2, OrdersMovementsDiffer DEF Succeeded, Idle
      <3>2. RefundAgrees(o, job[j])
        BY <1>8, <2>2 DEF JobAgrees
      <3>3. Paid(o)' = 1 /\ Returned(o)' = 1
        BY <1>1, <1>7, <2>2, <3>2, OrdersMovementsDiffer DEF RefundAgrees
      <3>4. RefundAgrees(o, job[j])'
        BY <1>1, <3>1, <3>2, <3>3 DEF RefundAgrees, RefundIsSaid
      <3>. QED
        BY <2>2, <3>1, <3>4, OrdersMovementsDiffer DEF JobAgrees
    <2>. QED
      BY <1>8, <2>1, <2>2
  <1>9. \A o \in Orders : m \notin {Payment(o), Refund(o)} =>
            order'[o] = order[o] /\ Paid(o)' = Paid(o) /\ Returned(o)' = Returned(o)
    BY <1>1, <1>7
  <1>10. job'[j] # Idle => job'[j].task = job[j].task
    BY <1>6, TaskStays
  <1>11. \A o \in Orders : RefundedIsProcessed(o) => RefundedIsProcessed(o)'
    BY <1>1 DEF RefundedIsProcessed
  <1>. QED
    BY <1>1, <1>6, <1>8, <1>9, <1>10, <1>11, HolderMoves

(* The wallet has the movement and the order will not: not counted.        *)
LEMMA BookUnheardAgrees ==
    ASSUME WalletInv, AgreeInv, NEW j \in Jobs, BookUnheard(j)
    PROVE  AgreeInv'
  <1>. DEFINE m == job[j].task
  <1>1. /\ job[j].phase = "booking" /\ TypeOK /\ job[j] # Idle
        /\ UNCHANGED <<order, entangled>> /\ job[j].wallet = wallet
    BY BusyIsNotIdle DEF BookUnheard, WalletInv, CopiesAreCurrent
  <1>2. /\ m \in Movements /\ wallet.rows \in [Movements -> Nat]
        /\ unheard \in [Movements -> Nat]
    BY <1>1, RequestFields DEF TypeOK, Wallets
  <1>3. /\ wallet'.rows = [wallet.rows EXCEPT ![m] = @ + 1]
        /\ unheard' = [unheard EXCEPT ![m] = @ + 1]
    BY <1>1 DEF BookUnheard, Posted
  <1>4. \A n \in Movements : wallet'.rows[n] - unheard'[n] = wallet.rows[n] - unheard[n]
    BY <1>2, <1>3
  <1>5. \A o \in Orders : Paid(o)' = Paid(o) /\ Returned(o)' = Returned(o)
    BY <1>4, OrdersMovementsDiffer DEF Paid, Returned
  <1>6. Become(j, Failed(job[j]))
    BY DEF BookUnheard
  <1>7. job'[j] = Failed(job[j]) /\ \A k \in Jobs \ {j} : job'[k] = job[k]
    BY <1>1, <1>6, Became
  <1>8. ASSUME NEW o \in Orders \ entangled, job[j].task \in {Payment(o), Refund(o)},
               JobAgrees(o, job[j]), RefundedIsProcessed(o)
        PROVE  /\ RefundedIsProcessed(o)'
               /\ job'[j] = Idle => AtRest(o)'
               /\ job'[j] # Idle => JobAgrees(o, job[j])'
    BY <1>1, <1>5, <1>7, <1>8, FailedAgrees DEF RefundedIsProcessed
  <1>9. job'[j] # Idle => job'[j].task = job[j].task
    BY <1>7, TaskStays
  <1>. QED
    BY <1>1, <1>5, <1>7, <1>8, <1>9, HolderMoves

(* An order moved to another stage, and the others.                        *)
LEMMA StagedIs ==
    ASSUME TypeOK, NEW o \in Orders, NEW s
    PROVE  /\ Staged(o, s)[o].stage = s
           /\ Staged(o, s)[o].payment = order[o].payment
           /\ Staged(o, s)[o].refund = order[o].refund
           /\ \A p \in Orders \ {o} : Staged(o, s)[p] = order[p]
  <1>1. order[o] \in OrderDocs /\ order \in [Orders -> OrderDocs]
    BY DEF TypeOK
  <1>2. Staged(o, s)[o] = [order[o] EXCEPT !.stage = s]
    BY <1>1 DEF Staged
  <1>. QED
    BY <1>1, <1>2 DEF Staged, OrderDocs

(* A request that takes the order it read, or its own copy of it, to the   *)
(* refund.                                                                 *)
LEMMA RefundingAgrees ==
    ASSUME NEW o \in Orders, NEW by, NEW copy, NEW j \in Jobs,
           job'[j] = Refunding(o, by, copy),
           RefundedIsProcessed(o)', order'[o].payment \in {"paid", "refunded"},
           order'[o].stage \notin {"none", "deleted", "removed"}, Paid(o)' = 1,
           Returned(o)' = IF order'[o].payment = "refunded" THEN 1 ELSE 0,
           copy.payment = order'[o].payment, copy.refund = order'[o].refund,
           order'[o].stage = "cancelled" =>
               by \in {"user", "admin", "seller"} \/ RefundIsSaid(o)'
    PROVE  job'[j] # Idle /\ job'[j].task = Refund(o) /\ JobAgrees(o, job[j])'
  <1>1. CASE Owed(copy)
    <2>1. /\ job'[j] # Idle /\ job'[j].task = Refund(o) /\ job'[j].by = by
          /\ job'[j].copy = copy /\ job'[j].phase = "opening"
      BY <1>1 DEF Refunding, Opening, Idle
    <2>2. Owed(order[o])' /\ Returned(o)' = 0
      BY <1>1 DEF Owed
    <2>3. RefundAgrees(o, job[j])'
      BY <2>1, <2>2 DEF RefundAgrees, RefundIsSaid
    <2>. QED
      BY <2>1, <2>3, OrdersMovementsDiffer DEF JobAgrees
  <1>2. CASE ~Owed(copy)
    <2>1. /\ job'[j] # Idle /\ job'[j].task = Refund(o) /\ job'[j].by = by
          /\ job'[j].copy = copy /\ job'[j].phase = "closing" /\ job'[j].refund = copy.refund
      BY <1>2 DEF Refunding, Idle
    <2>2. copy.refund = "processed" /\ order'[o].payment = "refunded"
      BY <1>2 DEF Owed, RefundedIsProcessed
    <2>3. RefundAgrees(o, job[j])'
      BY <2>1, <2>2 DEF RefundAgrees, RefundIsSaid
    <2>. QED
      BY <2>1, <2>3, OrdersMovementsDiffer DEF JobAgrees
  <1>. QED
    BY <1>1, <1>2

LEMMA DeleteUnpaidOrderAgrees ==
    ASSUME WalletInv, AgreeInv, NEW j \in Jobs, DeleteUnpaidOrder(j)
    PROVE  AgreeInv'
  <1>. DEFINE p == job[j].task.of
  <1>1. job[j].phase = "undoing" /\ TypeOK /\ job[j] # Idle /\ UNCHANGED <<wallet, unheard, entangled>>
    BY BusyIsNotIdle DEF DeleteUnpaidOrder, WalletInv
  <1>2. p \in Orders /\ job[j].task = Payment(p)
    BY <1>1, RequestFields DEF Of, Payment
  <1>3. order' = Staged(p, "deleted") /\ Become(j, Idle)
    BY DEF DeleteUnpaidOrder
  <1>4. job'[j] = Idle /\ \A k \in Jobs \ {j} : job'[k] = job[k]
    BY <1>1, <1>3, Became
  <1>. HIDE DEF p
  <1>5. ASSUME NEW o \in Orders \ entangled, job[j].task \in {Payment(o), Refund(o)},
               JobAgrees(o, job[j]), RefundedIsProcessed(o)
        PROVE  RefundedIsProcessed(o)' /\ AtRest(o)'
    <2>1. o = p /\ ChargeAgrees(o)
      BY <1>2, <1>5, OrdersMovementsDiffer DEF JobAgrees
    <2>. QED
      BY <1>1, <1>2, <1>3, <1>5, <2>1, StagedIs
      DEF RefundedIsProcessed, AtRest, ChargeAgrees, Paid, Returned
  <1>6. \A o \in Orders : job[j].task \notin {Payment(o), Refund(o)} => order'[o] = order[o]
    BY <1>1, <1>2, <1>3, StagedIs
  <1>. QED
    BY <1>1, <1>4, <1>5, <1>6, HolderMoves DEF Paid, Returned

LEMMA StampCancellationAgrees ==
    ASSUME WalletInv, AgreeInv, NEW j \in Jobs, StampCancellation(j)
    PROVE  AgreeInv'
  <1>. DEFINE p == job[j].task.of
  <1>1. job[j].phase = "stamping" /\ TypeOK /\ job[j] # Idle /\ UNCHANGED <<wallet, unheard, entangled>>
    BY BusyIsNotIdle DEF StampCancellation, WalletInv
  <1>2. p \in Orders /\ job[j].task = Refund(p) /\ order[p].payment \in {"paid", "refunded"}
    BY <1>1, RequestFields DEF Of, Refund, TypeOK, OrderDocs
  <1>3. CASE Gone(p)
    <2>1. Become(j, Idle) /\ order' = order
      BY <1>3 DEF StampCancellation
    <2>2. job'[j] = Idle /\ \A k \in Jobs \ {j} : job'[k] = job[k]
      BY <1>1, <2>1, Became
    <2>. HIDE DEF p
    <2>3. \A o \in Orders \ entangled :
             job[j].task \in {Payment(o), Refund(o)} => ~JobAgrees(o, job[j])
      BY <1>2, <1>3, OrdersMovementsDiffer DEF JobAgrees, RefundAgrees, Gone
    <2>. QED
      BY <1>1, <2>1, <2>2, <2>3, HolderMoves DEF Paid, Returned
  <1>4. CASE ~Gone(p)
    <2>1. /\ order' = Staged(p, "cancelled")
          /\ Become(j, Refunding(p, job[j].by, job[j].copy))
      BY <1>4 DEF StampCancellation
    <2>2. /\ job'[j] = Refunding(p, job[j].by, job[j].copy)
          /\ \A k \in Jobs \ {j} : job'[k] = job[k]
      BY <1>1, <2>1, Became
    <2>. HIDE DEF p
    <2>3. /\ order'[p].stage = "cancelled" /\ order'[p].payment = order[p].payment
          /\ order'[p].refund = order[p].refund
          /\ \A o \in Orders \ {p} : order'[o] = order[o]
      BY <1>1, <1>2, <2>1, StagedIs
    <2>4. job'[j] # Idle /\ job'[j].task = Refund(p)
      BY <2>2 DEF Refunding, Opening, Idle
    <2>5. ASSUME NEW o \in Orders \ entangled, job[j].task \in {Payment(o), Refund(o)},
                 JobAgrees(o, job[j]), RefundedIsProcessed(o)
          PROVE  RefundedIsProcessed(o)' /\ JobAgrees(o, job[j])'
      <3>1. o = p /\ RefundAgrees(o, job[j])
        BY <1>2, <2>5, OrdersMovementsDiffer DEF JobAgrees
      <3>2. RefundedIsProcessed(o)'
        BY <2>3, <2>5, <3>1 DEF RefundedIsProcessed
      <3>3. /\ Paid(o)' = 1
            /\ Returned(o)' = IF order'[o].payment = "refunded" THEN 1 ELSE 0
            /\ job[j].copy.payment = order'[o].payment /\ job[j].copy.refund = order'[o].refund
            /\ job[j].by = "seller"
        BY <1>1, <2>3, <3>1 DEF RefundAgrees, Paid, Returned
      <3>. QED
        BY <1>2, <2>2, <2>3, <3>1, <3>2, <3>3, RefundingAgrees
    <2>6. \A o \in Orders : job[j].task \notin {Payment(o), Refund(o)} => order'[o] = order[o]
      BY <1>2, <2>3
    <2>. QED
      BY <1>1, <1>2, <2>2, <2>4, <2>5, <2>6, HolderMoves DEF Paid, Returned
  <1>. QED
    BY <1>3, <1>4

LEMMA CloseRefundAgrees ==
    ASSUME WalletInv, AgreeInv, NEW j \in Jobs, CloseRefund(j)
    PROVE  AgreeInv'
  <1>. DEFINE h == job[j]
              p == h.task.of
              d == [stage   |-> IF h.by \in {"user", "admin"} THEN "cancelled" ELSE order[p].stage,
                    payment |-> IF h.refund = "processed" THEN "refunded" ELSE order[p].payment,
                    refund  |-> IF h.refund # h.copy.refund THEN h.refund ELSE order[p].refund]
  <1>1. h.phase = "closing" /\ TypeOK /\ h # Idle /\ UNCHANGED <<wallet, unheard, entangled>>
    BY BusyIsNotIdle DEF CloseRefund, WalletInv
  <1>2. p \in Orders /\ h.task = Refund(p) /\ order \in [Orders -> OrderDocs]
    BY <1>1, RequestFields DEF Of, Refund, TypeOK
  <1>3. Become(j, Idle) /\ order' = IF Gone(p) THEN order
                                    ELSE [order EXCEPT ![p] = d]
    BY DEF CloseRefund
  <1>4. job'[j] = Idle /\ \A k \in Jobs \ {j} : job'[k] = job[k]
    BY <1>1, <1>3, Became
  <1>5. /\ d.stage = IF h.by \in {"user", "admin"} THEN "cancelled" ELSE order[p].stage
        /\ d.payment = IF h.refund = "processed" THEN "refunded" ELSE order[p].payment
        /\ d.refund = IF h.refund # h.copy.refund THEN h.refund ELSE order[p].refund
    OBVIOUS
  <1>. HIDE DEF d, p
  <1>6. ASSUME NEW o \in Orders \ entangled, h.task \in {Payment(o), Refund(o)},
               JobAgrees(o, h), RefundedIsProcessed(o)
        PROVE  RefundedIsProcessed(o)' /\ AtRest(o)'
    <2>1. o = p /\ RefundAgrees(o, h)
      BY <1>2, <1>6, OrdersMovementsDiffer DEF JobAgrees
    <2>2. order'[o] = d
      BY <1>2, <1>3, <2>1 DEF RefundAgrees, Gone
    <2>3. /\ h.refund \in {"processed", "failed"} /\ d.refund = h.refund
          /\ d.payment = (IF h.refund = "processed" THEN "refunded" ELSE "paid")
          /\ d.stage \notin {"none", "deleted", "removed"}
          /\ Paid(o) = 1 /\ Returned(o) = IF h.refund = "processed" THEN 1 ELSE 0
      BY <1>1, <1>5, <2>1 DEF RefundAgrees
    <2>. QED
      BY <1>1, <2>2, <2>3 DEF RefundedIsProcessed, AtRest, RefundIsSaid, Paid, Returned
  <1>7. \A o \in Orders : h.task \notin {Payment(o), Refund(o)} => order'[o] = order[o]
    BY <1>2, <1>3
  <1>. QED
    BY <1>1, <1>4, <1>6, <1>7, HolderMoves DEF Paid, Returned

LEMMA StrangersAgree ==
    ASSUME WalletInv, AgreeInv, NEW j \in Jobs,
           \/ \E p \in TopUps : VerifyTopUp(j, p)
           \/ \E r \in Referees : RewardReferral(j, r)
           \/ \E o \in Orders : AwardCashback(j, o)
    PROVE  AgreeInv'
  <1>1. PICK m \in Movements :
           /\ m.kind \in {"topup", "reward", "cashback"}
           /\ Become(j, Opening(m, "app", NoOrder))
    BY DEF VerifyTopUp, RewardReferral, AwardCashback, Cashback, Movements
  <1>2. TypeOK /\ job[j] = Idle /\ UNCHANGED <<wallet, unheard, order, entangled>>
    BY DEF WalletInv, VerifyTopUp, RewardReferral, AwardCashback, Start
  <1>3. job'[j] = Opening(m, "app", NoOrder) /\ \A k \in Jobs \ {j} : job'[k] = job[k]
    BY <1>1, <1>2, Became
  <1>4. \A o \in Orders : job'[j].task \notin {Payment(o), Refund(o)}
    BY <1>1, <1>3, OrdersMovementsDiffer DEF Opening
  <1>. QED
    BY <1>2, <1>3, <1>4, StrangerBegins

LEMMA PlaceOrderAgrees ==
    ASSUME WalletInv, AgreeInv, NEW j \in Jobs, NEW p \in Orders, PlaceOrder(j, p)
    PROVE  AgreeInv'
  <1>1. /\ TypeOK /\ job[j] = Idle /\ order[p].stage = "none"
        /\ order' = Staged(p, "placed") /\ UNCHANGED <<wallet, unheard, entangled>>
        /\ Become(j, Opening(Payment(p), "app", NoOrder))
    BY DEF WalletInv, PlaceOrder, Start
  <1>2. /\ job'[j] = Opening(Payment(p), "app", NoOrder)
        /\ \A k \in Jobs \ {j} : job'[k] = job[k]
    BY <1>1, Became
  <1>3. job'[j] # Idle /\ job'[j].task = Payment(p)
    BY <1>2 DEF Opening, Idle
  <1>4. /\ order'[p].stage = "placed" /\ order'[p].payment = order[p].payment
        /\ order'[p].refund = order[p].refund
        /\ \A o \in Orders \ {p} : order'[o] = order[o]
    BY <1>1, StagedIs
  <1>5. ASSUME HoldersOf(p) # {} PROVE p \in entangled'
    <2>1. SUFFICES ASSUME p \notin entangled PROVE FALSE
      BY <1>1
    <2>2. PICK k \in HoldersOf(p) : JobAgrees(p, job[k])
      BY <1>5, <2>1 DEF AgreeInv, OrderAgrees
    <2>. QED
      BY <1>1, <2>2 DEF HoldersOf, JobAgrees, ChargeAgrees, RefundAgrees
  <1>6. ASSUME AtRest(p), RefundedIsProcessed(p)
        PROVE  RefundedIsProcessed(p)' /\ JobAgrees(p, job[j])'
    <2>1. ChargeAgrees(p)'
      BY <1>1, <1>4, <1>6 DEF AtRest, ChargeAgrees, Paid, Returned
    <2>. QED
      BY <1>3, <1>4, <1>6, <2>1, OrdersMovementsDiffer DEF JobAgrees, RefundedIsProcessed
  <1>. QED
    BY <1>1, <1>2, <1>3, <1>4, <1>5, <1>6, HolderBegins

(* Those who read an order to give its money back.                         *)
LEMMA ReadToCancelAgrees ==
    ASSUME WalletInv, AgreeInv, NEW j \in Jobs, NEW p \in Orders,
           NEW by \in {"user", "admin", "seller"}, ReadToCancel(j, p, by)
    PROVE  AgreeInv'
  <1>. DEFINE h == IF by = "seller" THEN [Opening(Refund(p), by, order[p]) EXCEPT !.phase = "stamping"]
                                    ELSE Refunding(p, by, order[p])
  <1>1. /\ TypeOK /\ job[j] = Idle /\ order[p].stage = "placed" /\ UNCHANGED <<wallet, unheard, order>>
        /\ Become(j, h) /\ Entangles(p)
    BY DEF WalletInv, ReadToCancel, Start
  <1>2. job'[j] = h /\ \A k \in Jobs \ {j} : job'[k] = job[k]
    BY <1>1, Became
  <1>3. entangled \subseteq entangled' /\ (HoldersOf(p) # {} => p \in entangled')
    BY <1>1 DEF Entangles
  <1>4. order[p].payment \in {"paid", "refunded"}
    BY <1>1 DEF TypeOK, OrderDocs
  <1>5. CASE by = "seller"
    <2>1. /\ job'[j].phase = "stamping" /\ job'[j].task = Refund(p) /\ job'[j].by = "seller"
          /\ job'[j].copy = order[p] /\ job'[j] # Idle
      BY <1>2, <1>5 DEF Opening, Idle
    <2>. HIDE DEF h
    <2>2. ASSUME AtRest(p), RefundedIsProcessed(p)
          PROVE  RefundedIsProcessed(p)' /\ JobAgrees(p, job[j])'
      <3>1. RefundAgrees(p, job[j])'
        BY <1>1, <2>1, <2>2 DEF AtRest, RefundAgrees, Paid, Returned
      <3>. QED
        BY <1>1, <2>1, <2>2, <3>1, OrdersMovementsDiffer DEF JobAgrees, RefundedIsProcessed
    <2>. QED
      BY <1>1, <1>2, <1>3, <2>1, <2>2, HolderBegins
  <1>6. CASE by # "seller"
    <2>1. job'[j] = Refunding(p, by, order[p])
      BY <1>2, <1>6
    <2>. HIDE DEF h
    <2>2. job'[j] # Idle /\ job'[j].task = Refund(p)
      BY <2>1 DEF Refunding, Opening, Idle
    <2>3. ASSUME AtRest(p), RefundedIsProcessed(p)
          PROVE  RefundedIsProcessed(p)' /\ JobAgrees(p, job[j])'
      <3>1. RefundedIsProcessed(p)'
        BY <1>1, <2>3 DEF RefundedIsProcessed
      <3>2. /\ Paid(p)' = 1
            /\ Returned(p)' = IF order'[p].payment = "refunded" THEN 1 ELSE 0
        BY <1>1, <2>3 DEF AtRest, Paid, Returned
      <3>. QED
        BY <1>1, <1>4, <2>1, <3>1, <3>2, RefundingAgrees
    <2>. QED
      BY <1>1, <1>2, <1>3, <2>2, <2>3, HolderBegins
  <1>. QED
    BY <1>5, <1>6

LEMMA ExpireOrderAgrees ==
    ASSUME WalletInv, AgreeInv, NEW j \in Jobs, NEW p \in Orders, ExpireOrder(j, p)
    PROVE  AgreeInv'
  <1>1. /\ TypeOK /\ job[j] = Idle /\ order[p].stage = "placed" /\ UNCHANGED <<wallet, unheard>>
        /\ order' = Staged(p, "expired")
        /\ Become(j, Refunding(p, "sweep", order'[p])) /\ Entangles(p)
    BY DEF WalletInv, ExpireOrder, Start
  <1>2. /\ job'[j] = Refunding(p, "sweep", order'[p])
        /\ \A k \in Jobs \ {j} : job'[k] = job[k]
    BY <1>1, Became
  <1>3. entangled \subseteq entangled' /\ (HoldersOf(p) # {} => p \in entangled')
    BY <1>1 DEF Entangles
  <1>4. /\ order'[p].stage = "expired" /\ order'[p].payment = order[p].payment
        /\ order'[p].refund = order[p].refund /\ order[p].payment \in {"paid", "refunded"}
        /\ \A o \in Orders \ {p} : order'[o] = order[o]
    BY <1>1, StagedIs DEF TypeOK, OrderDocs
  <1>5. job'[j] # Idle /\ job'[j].task = Refund(p)
    BY <1>2 DEF Refunding, Opening, Idle
  <1>6. ASSUME AtRest(p), RefundedIsProcessed(p)
        PROVE  RefundedIsProcessed(p)' /\ JobAgrees(p, job[j])'
    <2>1. RefundedIsProcessed(p)'
      BY <1>4, <1>6 DEF RefundedIsProcessed
    <2>2. /\ Paid(p)' = 1
          /\ Returned(p)' = IF order'[p].payment = "refunded" THEN 1 ELSE 0
      BY <1>1, <1>4, <1>6 DEF AtRest, Paid, Returned
    <2>. QED
      BY <1>2, <1>4, <2>1, <2>2, RefundingAgrees
  <1>. QED
    BY <1>1, <1>2, <1>3, <1>4, <1>5, <1>6, HolderBegins

LEMMA RefundByHandAgrees ==
    ASSUME WalletInv, AgreeInv, NEW j \in Jobs, NEW p \in Orders, RefundByHand(j, p)
    PROVE  AgreeInv'
  <1>1. /\ TypeOK /\ job[j] = Idle /\ UNCHANGED <<wallet, unheard, order>>
        /\ order[p].stage \in {"placed", "delivered", "cancelled", "expired"}
        /\ Become(j, Refunding(p, "support", order[p])) /\ Entangles(p)
    BY DEF WalletInv, RefundByHand, Start
  <1>2. /\ job'[j] = Refunding(p, "support", order[p])
        /\ \A k \in Jobs \ {j} : job'[k] = job[k]
    BY <1>1, Became
  <1>3. entangled \subseteq entangled' /\ (HoldersOf(p) # {} => p \in entangled')
    BY <1>1 DEF Entangles
  <1>4. order[p].payment \in {"paid", "refunded"}
    BY <1>1 DEF TypeOK, OrderDocs
  <1>5. job'[j] # Idle /\ job'[j].task = Refund(p)
    BY <1>2 DEF Refunding, Opening, Idle
  <1>6. ASSUME AtRest(p), RefundedIsProcessed(p)
        PROVE  RefundedIsProcessed(p)' /\ JobAgrees(p, job[j])'
    <2>1. RefundedIsProcessed(p)'
      BY <1>1, <1>6 DEF RefundedIsProcessed
    <2>2. /\ Paid(p)' = 1
          /\ Returned(p)' = IF order'[p].payment = "refunded" THEN 1 ELSE 0
          /\ order'[p].stage = "cancelled" => RefundIsSaid(p)'
      BY <1>1, <1>6 DEF AtRest, RefundIsSaid, Paid, Returned
    <2>. QED
      BY <1>1, <1>2, <1>4, <2>1, <2>2, RefundingAgrees
  <1>. QED
    BY <1>1, <1>2, <1>3, <1>5, <1>6, HolderBegins

LEMMA DeliverAgrees ==
    ASSUME WalletInv, AgreeInv, NEW p \in Orders, Deliver(p)
    PROVE  AgreeInv'
  <1>1. /\ TypeOK /\ order[p].stage = "placed" /\ order' = Staged(p, "delivered")
        /\ UNCHANGED <<wallet, unheard, job, entangled>>
    BY DEF WalletInv, Deliver
  <1>2. /\ order'[p].stage = "delivered" /\ order'[p].payment = order[p].payment
        /\ order'[p].refund = order[p].refund
        /\ \A o \in Orders \ {p} : order'[o] = order[o]
    BY <1>1, StagedIs
  <1>. SUFFICES ASSUME NEW o \in Orders \ entangled PROVE OrderAgrees(o)'
    BY <1>1 DEF AgreeInv
  <1>3. OrderAgrees(o)
    BY DEF AgreeInv
  <1>4. HoldersOf(o)' = HoldersOf(o) /\ \A k \in HoldersOf(o) : job'[k] = job[k]
    BY <1>1 DEF HoldersOf
  <1>5. CASE o # p
    BY <1>1, <1>2, <1>3, <1>4, <1>5, Undisturbed DEF Paid, Returned
  <1>6. CASE o = p
    <2>1. RefundedIsProcessed(o)'
      BY <1>2, <1>3, <1>6 DEF OrderAgrees, RefundedIsProcessed
    <2>2. AtRest(o) => AtRest(o)'
      BY <1>1, <1>2, <1>6 DEF AtRest, RefundIsSaid, Paid, Returned
    <2>3. ASSUME NEW k \in HoldersOf(o), JobAgrees(o, job[k])
          PROVE  JobAgrees(o, job[k])'
      BY <1>1, <1>2, <1>6, <2>3 DEF JobAgrees, ChargeAgrees, RefundAgrees, RefundIsSaid,
         Owed, Paid, Returned
    <2>. QED
      BY <1>3, <1>4, <2>1, <2>2, <2>3 DEF OrderAgrees
  <1>. QED
    BY <1>5, <1>6

LEMMA DeleteOrderAgrees ==
    ASSUME WalletInv, AgreeInv, NEW p \in Orders, DeleteOrder(p)
    PROVE  AgreeInv'
  <1>1. /\ TypeOK /\ order[p].stage \in {"placed", "delivered", "cancelled", "expired"}
        /\ order' = Staged(p, "removed") /\ Entangles(p)
        /\ UNCHANGED <<wallet, unheard, job>>
    BY DEF WalletInv, DeleteOrder
  <1>2. /\ order'[p].stage = "removed" /\ order'[p].payment = order[p].payment
        /\ order'[p].refund = order[p].refund
        /\ \A o \in Orders \ {p} : order'[o] = order[o]
    BY <1>1, StagedIs
  <1>3. entangled \subseteq entangled' /\ (HoldersOf(p) # {} => p \in entangled')
    BY <1>1 DEF Entangles
  <1>. SUFFICES ASSUME NEW o \in Orders \ entangled' PROVE OrderAgrees(o)'
    BY DEF AgreeInv
  <1>4. OrderAgrees(o)
    BY <1>3 DEF AgreeInv
  <1>5. HoldersOf(o)' = HoldersOf(o) /\ \A k \in HoldersOf(o) : job'[k] = job[k]
    BY <1>1 DEF HoldersOf
  <1>6. CASE o # p
    BY <1>1, <1>2, <1>4, <1>5, <1>6, Undisturbed DEF Paid, Returned
  <1>7. CASE o = p
    <2>1. HoldersOf(o) = {} /\ AtRest(o) /\ RefundedIsProcessed(o)
      BY <1>3, <1>4, <1>7 DEF OrderAgrees
    <2>2. RefundedIsProcessed(o)'
      BY <1>2, <1>7, <2>1 DEF RefundedIsProcessed
    <2>3. AtRest(o)'
      BY <1>1, <1>2, <1>7, <2>1 DEF AtRest, Paid, Returned
    <2>. QED
      BY <1>5, <2>1, <2>2, <2>3 DEF OrderAgrees
  <1>. QED
    BY <1>6, <1>7

LEMMA CrashAgrees ==
    ASSUME WalletInv, AgreeInv, NEW j \in Jobs, Crash(j)
    PROVE  AgreeInv'
  <1>1. /\ TypeOK /\ Become(j, Idle) /\ UNCHANGED <<wallet, unheard, order>>
        /\ entangled' = entangled \cup {o \in Orders : j \in HoldersOf(o)}
    BY DEF WalletInv, Crash
  <1>2. job'[j] = Idle /\ \A k \in Jobs \ {j} : job'[k] = job[k]
    BY <1>1, Became
  <1>. SUFFICES ASSUME NEW o \in Orders \ entangled' PROVE OrderAgrees(o)'
    BY DEF AgreeInv
  <1>3. OrderAgrees(o) /\ j \notin HoldersOf(o)
    BY <1>1 DEF AgreeInv
  <1>4. HoldersOf(o)' = HoldersOf(o) /\ \A k \in HoldersOf(o) : job'[k] = job[k]
    BY <1>2, <1>3 DEF HoldersOf
  <1>. QED
    BY <1>1, <1>3, <1>4, Undisturbed DEF Paid, Returned

LEMMA StutterAgrees ==
    ASSUME AgreeInv, UNCHANGED vars
    PROVE  AgreeInv'
  <1>1. UNCHANGED <<wallet, unheard, order, job, entangled>>
    BY DEF vars
  <1>. SUFFICES ASSUME NEW o \in Orders \ entangled PROVE OrderAgrees(o)'
    BY <1>1 DEF AgreeInv
  <1>2. OrderAgrees(o)
    BY DEF AgreeInv
  <1>3. HoldersOf(o)' = HoldersOf(o) /\ \A k \in HoldersOf(o) : job'[k] = job[k]
    BY <1>1 DEF HoldersOf
  <1>. QED
    BY <1>1, <1>2, <1>3, Undisturbed DEF Paid, Returned

LEMMA InitAgrees == Init => AgreeInv
  <1>. SUFFICES ASSUME Init, NEW o \in Orders PROVE OrderAgrees(o)
    BY DEF AgreeInv
  <1>1. HoldersOf(o) = {}
    BY DEF Init, HoldersOf
  <1>2. Paid(o) = 0 /\ Returned(o) = 0
    BY OrdersMovementsDiffer DEF Init, Paid, Returned
  <1>3. order[o] = NoOrder
    BY DEF Init
  <1>. QED
    BY <1>1, <1>2, <1>3 DEF OrderAgrees, AtRest, RefundedIsProcessed, NoOrder

LEMMA StepsAgree == WalletInv /\ AgreeInv /\ [Next]_vars => AgreeInv'
  <1>. SUFFICES ASSUME WalletInv, AgreeInv, [Next]_vars PROVE AgreeInv'
    OBVIOUS
  <1>1. CASE UNCHANGED vars
    BY <1>1, StutterAgrees
  <1>2. CASE \E o \in Orders : Deliver(o) \/ DeleteOrder(o)
    BY <1>2, DeliverAgrees, DeleteOrderAgrees
  <1>3. ASSUME NEW j \in Jobs,
               \/ OpenWallet(j) \/ CreateWallet(j)
               \/ Book(j) \/ BookUnheard(j) \/ MovementFails(j)
               \/ DeleteUnpaidOrder(j) \/ StampCancellation(j) \/ CloseRefund(j) \/ Crash(j)
        PROVE  AgreeInv'
    BY <1>3, OpenWalletAgrees, CreateWalletAgrees, BookAgrees, BookUnheardAgrees,
       MovementFailsAgrees, DeleteUnpaidOrderAgrees, StampCancellationAgrees, CloseRefundAgrees, CrashAgrees
  <1>4. ASSUME NEW j \in Jobs,
               \/ \E p \in TopUps : VerifyTopUp(j, p)
               \/ \E r \in Referees : RewardReferral(j, r)
               \/ \E o \in Orders : AwardCashback(j, o)
        PROVE  AgreeInv'
    BY <1>4, StrangersAgree
  <1>5. ASSUME NEW j \in Jobs, NEW o \in Orders,
               \/ PlaceOrder(j, o) \/ ExpireOrder(j, o) \/ RefundByHand(j, o)
               \/ \E by \in {"user", "admin", "seller"} : ReadToCancel(j, o, by)
        PROVE  AgreeInv'
    BY <1>5, PlaceOrderAgrees, ExpireOrderAgrees, RefundByHandAgrees, ReadToCancelAgrees
  <1>. QED
    BY <1>1, <1>2, <1>3, <1>4, <1>5 DEF Next

LEMMA AgreeAlways == Spec => []AgreeInv
  BY WalletInvAlways, InitAgrees, StepsAgree, PTL DEF Spec

(***************************************************************************)
(* An order nobody is at work on agrees with the wallet: charged once if   *)
(* it was accepted, whether or not support has deleted it since, never     *)
(* charged if createOrder took it back, refunded once if it says so.  The  *)
(* wallet may have more: exactly the movements that were booked and        *)
(* reported as failed, because the answer is read after the save           *)
(* (userWallet.service.js:167, :188).  Nothing is said of an order that    *)
(* two requests held at once or that one held when it died                 *)
(* (order.service.js saves the order before it charges and after it        *)
(* refunds, and neither write is conditional on the other document).       *)
(***************************************************************************)
THEOREM OrdersAndWalletAlwaysAgree == Spec => []OrdersAndWalletAgree
  <1>1. AgreeInv => OrdersAndWalletAgree
    BY DEF AgreeInv, OrderAgrees, AtRest, Paid, Returned, OrdersAndWalletAgree
  <1>. QED
    BY <1>1, AgreeAlways, PTL

(* A cancelled order whose refund did not succeed says that it failed (the *)
(* catch of applyCancellationRefund), under the same condition.            *)
THEOREM NoRefundIsEverForgotten == Spec => []NoRefundIsForgotten
  <1>1. AgreeInv => NoRefundIsForgotten
    BY DEF AgreeInv, OrderAgrees, AtRest, RefundIsSaid, NoRefundIsForgotten
  <1>. QED
    BY <1>1, AgreeAlways, PTL
=============================================================================
