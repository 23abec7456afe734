--------------------------- MODULE FulfilmentProofs ---------------------------
(***************************************************************************)
(* Proofs about Fulfilment, for every order, every number of pickers and   *)
(* cancellers, and every report: the type invariant and the four           *)
(* invariants that keep the money, the bill, the bag and the shelf         *)
(* together.                                                               *)
(***************************************************************************)
EXTENDS Fulfilment, FiniteSetTheorems, WellFoundedInduction, TLAPS

-----------------------------------------------------------------------------
(* A sum is the number of tokens, f[x] of them for every x.                *)
Units(x, n) == {x} \X (1..n)
Tokens(f, S) == UNION {Units(x, f[x]) : x \in S}
Sum(f, S) == Cardinality(Tokens(f, S))

-----------------------------------------------------------------------------
(* The inductive invariant                                                 *)

(* The phases a call of each kind goes through.                            *)
PhasesOf(kind) ==
    CASE kind = "none"   -> {"idle"}
      [] kind = "pick"   -> {"pay", "save", "return"}
      [] kind = "cancel" -> {"restore", "return", "pay", "save"}
      [] kind = "seller" -> {"restore", "return", "save", "pay", "final"}

(* A seller's cancellation is past its first save.                         *)
SavedOnce(j) == j.kind = "seller" /\ j.at \in {"pay", "final"}

(* What a document says went back did go back; so did what the gateway     *)
(* tells of.                                                               *)
Covered(d) == d.refund = "processed" => d.refunded <= given

MoneyInv ==
    /\ Covered(order)
    /\ \A c \in Callers : Covered(job[c].doc)
    /\ \A n \in refunds : n <= given

(* What a call does to its copy.                                           *)
CopyOf(j) ==
    /\ j.at \in PhasesOf(j.kind)
    /\ j.kind = "pick" =>
          /\ j.doc.total = Bill(j.doc.ful)
          /\ j.doc.status = j.read.status /\ j.doc.pay = j.read.pay
          /\ j.at # "return" => \A l \in Lines : j.owe[l] = Owed(j.read.ful[l], j.doc.ful[l])
    /\ j.kind \in {"cancel", "seller"} =>
          /\ j.doc.ful = j.read.ful /\ j.doc.total = j.read.total
          /\ j.doc.status = "cancelled"
          /\ j.doc.pay \in {j.read.pay, "refunded"}
          /\ ~SavedOnce(j) => j.read.status = "open"

CopyInv == \A c \in Callers : CopyOf(job[c])

(* What a copy that was read earlier still says of the document: of the    *)
(* same version, the goods and the bill; of any, that money which had gone *)
(* back is not there any more.                                             *)
AgeOf(j) ==
    j.at # "idle" =>
        /\ j.read.v <= order.v /\ j.doc.v = j.read.v
        /\ j.read.v = order.v => j.read.ful = order.ful /\ j.read.total = order.total
        /\ j.read.pay # "paid" => order.pay # "paid"
        /\ SavedOnce(j) => order.status = "cancelled"

AgeInv == \A c \in Callers : AgeOf(job[c])

(* Units of a line that no call has to put back any more: they are on the  *)
(* shelf, or lost to it.                                                   *)
Gone(l) == back[l] + lost[l]

(* Units that a call has yet to put back; those that it will, or some call *)
(* did or failed to.                                                       *)
Pending(c, l) == IF job[c].at = "return" THEN job[c].owe[l] ELSE 0
PendingOf(l) == [c \in Callers |-> Pending(c, l)]
Returned(l) == Gone(l) + Sum(PendingOf(l), Callers)

UnitsInv ==
    \A l \in Lines :
        /\ Returned(l) >= Ordered[l] - order.ful[l]
        /\ order.restored => Returned(l) >= Ordered[l]
        /\ \A c \in Callers : job[c].kind = "pick" =>
              Returned(l) >= Ordered[l] - job[c].read.ful[l]

(* The shortfall a document states was given back, or it says that this    *)
(* failed.                                                                 *)
PaidBy(j) ==
    j.kind = "pick" /\ j.at = "save" /\ j.doc.pay = "paid"
        => given >= j.doc.shortfall \/ (j.told /\ j.doc.refund = "failed")

ShortfallInv ==
    /\ order.status = "open" /\ order.pay = "paid"
          => given >= order.shortfall \/ order.refund = "failed"
    /\ \A c \in Callers : PaidBy(job[c])

IInv ==
    /\ TypeOK
    /\ MoneyInv
    /\ CopyInv
    /\ AgeInv
    /\ BillMatchesTheBag
    /\ UnitsInv
    /\ ShortfallInv
-----------------------------------------------------------------------------
(* Sums                                                                    *)

(* A number of tokens of one thing is a finite set of that size.           *)
LEMMA UnitsSize ==
    ASSUME NEW x, NEW n \in Nat
    PROVE  IsFiniteSet(Units(x, n)) /\ Cardinality(Units(x, n)) = n
<1>1. IsFiniteSet({x}) /\ Cardinality({x}) = 1
  BY FS_Singleton
<1>2. IsFiniteSet(1..n) /\ Cardinality(1..n) = n
  BY FS_Interval
<1>3. IsFiniteSet({x} \X (1..n)) /\ Cardinality({x} \X (1..n)) = 1 * n
  BY <1>1, <1>2, FS_Product
<1> QED
  BY <1>3 DEF Units

LEMMA TokensAreFinite ==
    ASSUME NEW S, IsFiniteSet(S), NEW f, \A x \in S : f[x] \in Nat
    PROVE  IsFiniteSet(Tokens(f, S)) /\ Sum(f, S) \in Nat
<1> DEFINE T == {Units(x, f[x]) : x \in S}
<1>1. IsFiniteSet(T)
  <2> DEFINE g == [x \in S |-> Units(x, f[x])]
  <2>1. g \in Surjection(S, T)
    BY DEF Surjection
  <2> QED
    BY <2>1, FS_Surjection
<1>2. \A U \in T : IsFiniteSet(U)
  BY UnitsSize
<1> HIDE DEF T
<1>3. IsFiniteSet(UNION T)
  BY <1>1, <1>2, FS_UNION
<1>4. IsFiniteSet(Tokens(f, S))
  BY <1>3 DEF T, Tokens
<1> QED
  BY <1>4, FS_CardinalityType DEF Sum

(* A sum is one of its terms and the sum of the others.                    *)
LEMMA SumSplits ==
    ASSUME NEW S, IsFiniteSet(S), NEW f, \A x \in S : f[x] \in Nat, NEW x \in S
    PROVE  Sum(f, S) = f[x] + Sum(f, S \ {x})
<1> DEFINE A == Tokens(f, S \ {x})  B == Units(x, f[x])
<1>1. IsFiniteSet(A) /\ Cardinality(A) \in Nat
  <2>1. IsFiniteSet(S \ {x})
    BY FS_RemoveElement
  <2> QED
    BY <2>1, TokensAreFinite DEF Sum
<1>2. IsFiniteSet(B) /\ Cardinality(B) = f[x]
  BY UnitsSize
<1>3. Tokens(f, S) = A \cup B
  BY DEF Tokens
<1>4. A \cap B = {}
  BY DEF Tokens, Units
<1> HIDE DEF A, B
<1>5. Cardinality(A \cup B) = Cardinality(A) + Cardinality(B) - Cardinality(A \cap B)
  BY <1>1, <1>2, FS_Union
<1>6. Cardinality(A \cap B) = 0
  BY <1>4, FS_EmptySet, Zenon
<1>7. f[x] \in Nat
  OBVIOUS
<1>8. Cardinality(A \cup B) = f[x] + Cardinality(A)
  BY <1>1, <1>2, <1>5, <1>6, <1>7
<1> QED
  BY <1>3, <1>8 DEF Sum, A

(* What happens to a sum when one of its terms changes.                    *)
LEMMA SumMoves ==
    ASSUME NEW S, IsFiniteSet(S), NEW f, NEW g, NEW x \in S,
           \A y \in S : f[y] \in Nat /\ g[y] \in Nat,
           \A y \in S \ {x} : g[y] = f[y]
    PROVE  Sum(g, S) = Sum(f, S) - f[x] + g[x]
<1>1. Tokens(g, S \ {x}) = Tokens(f, S \ {x})
  BY DEF Tokens
<1>2. Sum(g, S \ {x}) = Sum(f, S \ {x})
  BY <1>1 DEF Sum
<1>3. Sum(f, S \ {x}) \in Nat
  BY FS_RemoveElement, TokensAreFinite
<1> QED
  BY <1>2, <1>3, SumSplits

LEMMA SumOfNothing ==
    ASSUME NEW S, NEW f, \A x \in S : f[x] = 0
    PROVE  Sum(f, S) = 0
<1>1. \A x \in S : Units(x, f[x]) = {}
  BY DEF Units
<1>2. Tokens(f, S) = {}
  BY <1>1 DEF Tokens
<1> QED
  BY <1>2, FS_EmptySet DEF Sum

(* The bill is a fold, which is a recursive function on the subsets of     *)
(* Lines.  There is one such function, namely Sum, so that the one that is *)
(* chosen obeys its definition; and as every nonempty set of natural       *)
(* numbers has a least element, so does every set of subsets, and a        *)
(* smallest subset without a natural number for its sum cannot be.         *)
LEMMA BillIsNat ==
    ASSUME NEW f \in [Lines -> Nat]
    PROVE  Bill(f) \in Nat
<1> DEFINE Folds(g) == g = [s \in SUBSET Lines |->
                              IF s = {} THEN 0
                              ELSE f[CHOOSE x \in s : TRUE] + g[s \ {CHOOSE x \in s : TRUE}]]
           fold == CHOOSE g : Folds(g)
<1>1. IsFiniteSet(Lines) /\ \A s \in SUBSET Lines : IsFiniteSet(s)
  BY FS_Subset, FulfilmentAssumption DEF FulfilmentAssumption
<1>2. Folds([s \in SUBSET Lines |-> Sum(f, s)])
  <2>1. Sum(f, {}) = 0
    BY SumOfNothing
  <2>2. ASSUME NEW s \in SUBSET Lines, s # {}, NEW x, x = CHOOSE y \in s : TRUE
        PROVE  s \ {x} \in SUBSET Lines /\ Sum(f, s) = f[x] + Sum(f, s \ {x})
    <3>1. x \in s
      BY <2>2
    <3> QED
      BY <1>1, <3>1, SumSplits
  <2> QED
    BY <2>1, <2>2
<1>3. Folds(fold)
  BY <1>2, Zenon
<1> HIDE DEF fold
<1>4. \A s \in SUBSET Lines : fold[s] \in Nat
  <2> DEFINE Bad == {s \in SUBSET Lines : fold[s] \notin Nat}
  <2>1. SUFFICES ASSUME Bad # {} PROVE FALSE
    OBVIOUS
  <2>2. Bad \subseteq FiniteSubsetsOf(Lines)
    BY <1>1 DEF FiniteSubsetsOf
  <2> HIDE DEF Bad
  <2>3. PICK s \in Bad : \A t \in Bad : <<t, s>> \notin StrictSubsetOrdering(Lines)
    BY <2>1, <2>2, FS_StrictSubsetOrderingWellFounded, WFMin, Zenon
  <2> USE DEF Bad
  <2>4. s # {}
    <3>1. fold[{}] = 0
      BY <1>3
    <3> QED
      BY <3>1
  <2> DEFINE x == CHOOSE y \in s : TRUE
  <2>5. x \in s
    BY <2>4
  <2>6. s \ {x} \in SUBSET Lines /\ <<s \ {x}, s>> \in StrictSubsetOrdering(Lines)
    BY <2>5 DEF StrictSubsetOrdering
  <2>7. fold[s \ {x}] \in Nat
    BY <2>3, <2>6
  <2>8. fold[s] = f[x] + fold[s \ {x}]
    BY <1>3, <2>4
  <2> QED
    BY <2>5, <2>7, <2>8
<1>5. Bill(f) = fold[Lines]
  BY DEF Bill, FoldFunction, FoldFunctionOnSet, MapThenFoldSet, fold
<1> QED
  BY <1>4, <1>5

-----------------------------------------------------------------------------
(* Types                                                                   *)

LEMMA FreshIsTyped ==
    ASSUME NEW m \in Methods
    PROVE  Fresh(m) \in Documents
<1>1. Ordered \in [Lines -> Nat] /\ Bill(Ordered) \in Nat
  BY BillIsNat, FulfilmentAssumption DEF FulfilmentAssumption
<1> QED
  BY <1>1 DEF Fresh, Documents

LEMMA IdleIsTyped ==
    ASSUME method \in Methods
    PROVE  Idle \in Jobs
BY FreshIsTyped DEF Idle, Jobs, Nothing

LEMMA SavedIsTyped ==
    ASSUME TypeOK, NEW j \in Jobs
    PROVE  Saved(j) \in Documents /\ NextVersion(Saved(j)) \in Documents
<1>1. /\ order \in Documents /\ j.doc \in Documents
  BY DEF TypeOK, Jobs
<1>2. Saved(j) \in Documents
  BY <1>1 DEF Saved, Documents
<1> QED
  BY <1>2 DEF NextVersion, Documents

(* One call goes on, and the others are where they were.                   *)
LEMMA OneJobMoves ==
    ASSUME TypeOK, NEW c \in Callers, NEW h, job' = [job EXCEPT ![c] = h]
    PROVE  /\ job'[c] = h
           /\ \A d \in Callers \ {c} : job'[d] = job[d]
           /\ h \in Jobs => job' \in [Callers -> Jobs]
BY DEF TypeOK

LEMMA PickReadsIsTyped ==
    ASSUME TypeOK, NEW p \in Pickers, NEW r \in Reports, PickReads(p, r)
    PROVE  TypeOK'
<1> DEFINE found == [l \in Lines |-> IF l \in DOMAIN r THEN r[l] ELSE order.ful[l]]
           full == IF order.original # 0 THEN order.original ELSE order.total
<1>1. order \in Documents /\ p \in Callers
  BY DEF TypeOK, Callers
<1>2. found \in [Lines -> Nat] /\ full \in Nat
  BY <1>1, FulfilmentAssumption DEF FulfilmentAssumption, Documents
<1>3. Bill(found) \in Nat
  BY <1>2, BillIsNat
<1>4. Owed(full, Bill(found)) \in Nat /\ \A l \in Lines : Owed(order.ful[l], found[l]) \in Nat
  BY <1>1, <1>2, <1>3 DEF Owed, Documents
<1> DEFINE doc == [order EXCEPT !.ful = found, !.total = Bill(found), !.original = full,
                                !.shortfall = Owed(full, Bill(found))]
           h == [at |-> "pay", kind |-> "pick", read |-> order, doc |-> doc,
                 owe |-> [l \in Lines |-> Owed(order.ful[l], found[l])], told |-> FALSE]
<1>5. job' = [job EXCEPT ![p] = h]
  BY DEF PickReads
<1>6. doc \in Documents
  <2> HIDE DEF found, full
  <2> QED
    BY <1>1, <1>2, <1>3, <1>4 DEF Documents
<1>7. h \in Jobs
  <2> HIDE DEF doc, found, full
  <2> QED
    BY <1>1, <1>4, <1>6 DEF Jobs
<1> HIDE DEF h
<1>8. job' \in [Callers -> Jobs]
  BY <1>1, <1>5, <1>7, OneJobMoves
<1> QED
  BY <1>8, FulfilmentAssumption DEF PickReads, Call, TypeOK, FulfilmentAssumption

LEMMA PickPaysIsTyped ==
    ASSUME TypeOK, NEW p \in Pickers, PickPays(p)
    PROVE  TypeOK'
<1> USE DEF TypeOK, Callers
<1> DEFINE d == job[p].doc
           already == IF d.refund = "processed" THEN d.refunded ELSE 0
           owed == d.shortfall - already
<1>1. job[p] \in Jobs /\ d \in Documents
  BY DEF Jobs
<1>2. already \in Nat /\ owed \in Int /\ already + owed \in Nat /\ (owed > 0 => owed \in Nat)
  BY <1>1 DEF Documents
<1>3. job' \in [Callers -> Jobs]
  <2> HIDE DEF already, owed
  <2>1. ASSUME NEW how \in {"processed", "failed"}, NEW n \in Nat,
               job' = [job EXCEPT ![p].at = "save", ![p].doc.refund = how,
                                  ![p].doc.refunded = n, ![p].told = TRUE]
        PROVE  job' \in [Callers -> Jobs]
    BY <1>1, <2>1 DEF Jobs, Documents
  <2>2. CASE job' = [job EXCEPT ![p].at = "save"]
    BY <1>1, <2>2 DEF Jobs
  <2> QED
    BY <1>2, <2>1, <2>2 DEF PickPays, already, owed
<1>4. given' \in Nat /\ refunds' \subseteq Nat /\ failures' \in 0..MaxFailures
  BY <1>1, <1>2, FulfilmentAssumption DEF PickPays, GiveMoney, MoneyFails, Failure, FulfilmentAssumption
<1> QED
  BY <1>3, <1>4 DEF PickPays

LEMMA PickSavesIsTyped ==
    ASSUME TypeOK, NEW p \in Pickers, PickSaves(p)
    PROVE  TypeOK'
<1>1. p \in Callers /\ job[p] \in Jobs
  BY DEF TypeOK, Callers
<1>2. order' \in Documents
  BY <1>1, SavedIsTyped DEF PickSaves, NextVersion, Documents, Jobs
<1>3. job' \in [Callers -> Jobs]
  <2>1. CASE Return(p)
    BY <2>1, IdleIsTyped DEF Return, TypeOK
  <2>2. CASE job' = [job EXCEPT ![p].at = "return"]
    BY <1>1, <2>2 DEF TypeOK, Jobs
  <2> QED
    BY <2>1, <2>2 DEF PickSaves
<1>4. blind' \in BOOLEAN
  BY DEF PickSaves, TypeOK
<1> QED
  BY <1>2, <1>3, <1>4 DEF TypeOK, PickSaves

LEMMA PickSaveFailsIsTyped ==
    ASSUME TypeOK, NEW p \in Pickers, PickSaveFails(p)
    PROVE  TypeOK'
<1>1. job' \in [Callers -> Jobs]
  BY IdleIsTyped DEF PickSaveFails, Return, TypeOK
<1> QED
  BY <1>1 DEF TypeOK, PickSaveFails

LEMMA RestockedIsTyped ==
    ASSUME TypeOK, NEW c \in Callers, NEW l \in Lines, Restocked(c, l)
    PROVE  job' \in [Callers -> Jobs]
<1>1. job[c] \in Jobs
  BY DEF TypeOK
<1> DEFINE left == [job[c].owe EXCEPT ![l] = 0]
<1>2. left \in [Lines -> Nat]
  BY <1>1 DEF Jobs
<1> HIDE DEF left
<1>3. CASE job' = [job EXCEPT ![c].owe = left]
  BY <1>1, <1>2, <1>3 DEF TypeOK, Jobs
<1>4. CASE Return(c)
  BY <1>4, IdleIsTyped DEF Return, TypeOK
<1>5. CASE job' = [job EXCEPT ![c].owe = left,
                              ![c].at = IF job[c].kind = "seller" THEN "save" ELSE "pay"]
  BY <1>1, <1>2, <1>5 DEF TypeOK, Jobs
<1> QED
  BY <1>3, <1>4, <1>5 DEF Restocked, left

LEMMA PutsBackIsTyped ==
    ASSUME TypeOK, NEW c \in Callers, NEW l \in Lines, PutsBack(c, l)
    PROVE  TypeOK'
<1>1. job' \in [Callers -> Jobs]
  BY RestockedIsTyped DEF PutsBack
<1>2. back' \in [Lines -> Nat]
  BY DEF PutsBack, TypeOK, Jobs
<1> QED
  BY <1>1, <1>2 DEF TypeOK, PutsBack, Restocked

LEMMA RestockFailsIsTyped ==
    ASSUME TypeOK, NEW c \in Callers, NEW l \in Lines, RestockFails(c, l)
    PROVE  TypeOK'
<1>1. job' \in [Callers -> Jobs]
  BY RestockedIsTyped DEF RestockFails
<1>2. lost' \in [Lines -> Nat]
  BY DEF RestockFails, TypeOK, Jobs
<1>3. failures' \in 0..MaxFailures
  BY FulfilmentAssumption DEF RestockFails, Failure, TypeOK, FulfilmentAssumption
<1> QED
  BY <1>1, <1>2, <1>3 DEF TypeOK, RestockFails, Restocked

LEMMA DiesIsTyped ==
    ASSUME TypeOK, NEW c \in Callers, Dies(c)
    PROVE  TypeOK'
<1>1. job' \in [Callers -> Jobs]
  BY IdleIsTyped DEF Dies, Return, TypeOK
<1>2. lost' \in [Lines -> Nat]
  BY DEF Dies, TypeOK, Jobs
<1>3. failures' \in 0..MaxFailures
  BY FulfilmentAssumption DEF Dies, Failure, TypeOK, FulfilmentAssumption
<1> QED
  BY <1>1, <1>2, <1>3 DEF TypeOK, Dies

LEMMA CancelReadsIsTyped ==
    ASSUME TypeOK, NEW c \in Cancellers, NEW kind \in {"cancel", "seller"}, CancelReads(c, kind)
    PROVE  TypeOK'
<1>1. order \in Documents /\ [order EXCEPT !.status = "cancelled"] \in Documents
  BY DEF TypeOK, Documents
<1>2. job' \in [Callers -> Jobs]
  BY <1>1 DEF CancelReads, TypeOK, Jobs, Nothing
<1> QED
  BY <1>2, FulfilmentAssumption DEF TypeOK, CancelReads, Call, FulfilmentAssumption

LEMMA CancelRestoresIsTyped ==
    ASSUME TypeOK, NEW c \in Cancellers, CancelRestores(c)
    PROVE  TypeOK'
<1>1. c \in Callers /\ job[c] \in Jobs /\ order \in Documents
  BY DEF TypeOK, Callers
<1>2. order.ful \in [Lines -> Nat] /\ order' \in Documents
  BY <1>1 DEF CancelRestores, Documents
<1>3. job' \in [Callers -> Jobs]
  <2>1. ASSUME NEW at \in {"save", "pay", "return"}, job' = [job EXCEPT ![c].at = at]
        PROVE  job' \in [Callers -> Jobs]
    BY <1>1, <2>1 DEF TypeOK, Jobs
  <2>2. ASSUME NEW at \in {"save", "pay", "return"},
               job' = [job EXCEPT ![c].at = at, ![c].owe = order.ful]
        PROVE  job' \in [Callers -> Jobs]
    BY <1>1, <1>2, <2>2 DEF TypeOK, Jobs
  <2>3. CASE order.restored
    BY <2>1, <2>3 DEF CancelRestores
  <2>4. CASE ~order.restored
    BY <2>2, <2>4 DEF CancelRestores
  <2> QED
    BY <2>3, <2>4
<1> QED
  BY <1>2, <1>3 DEF TypeOK, CancelRestores

LEMMA CancelPaysIsTyped ==
    ASSUME TypeOK, NEW c \in Cancellers, CancelPays(c)
    PROVE  TypeOK'
<1> USE DEF TypeOK, Callers
<1>1. job[c] \in Jobs /\ job[c].doc \in Documents /\ job[c].doc.total \in Nat
  BY DEF Jobs, Documents
<1>2. job' \in [Callers -> Jobs]
  <2>1. ASSUME NEW next \in {"final", "save"}, NEW how \in {"processed", "failed"},
               NEW pay \in {"cod_pending", "paid", "refunded"}, NEW n \in Nat,
               job' = [job EXCEPT ![c].at = next, ![c].doc.refund = how, ![c].doc.pay = pay,
                                  ![c].doc.refunded = n, ![c].told = TRUE]
        PROVE  job' \in [Callers -> Jobs]
    BY <1>1, <2>1 DEF Jobs, Documents
  <2>2. ASSUME NEW next \in {"final", "save"}, job' = [job EXCEPT ![c].at = next]
        PROVE  job' \in [Callers -> Jobs]
    BY <1>1, <2>2 DEF Jobs
  <2>3. job[c].doc.pay \in {"cod_pending", "paid", "refunded"}
    BY <1>1 DEF Documents
  <2> QED
    <3> DEFINE d == job[c].doc
               next == IF job[c].kind = "seller" THEN "final" ELSE "save"
    <3>1. next \in {"final", "save"}
      OBVIOUS
    <3>2. \/ \E how \in {"processed", "failed"}, pay \in {"cod_pending", "paid", "refunded"} :
                job' = [job EXCEPT ![c].at = next, ![c].doc.refund = how, ![c].doc.pay = pay,
                                   ![c].doc.refunded = d.total, ![c].told = TRUE]
          \/ job' = [job EXCEPT ![c].at = next]
      BY <2>3 DEF CancelPays
    <3> HIDE DEF next
    <3>3. ASSUME NEW how \in {"processed", "failed"},
                 NEW pay \in {"cod_pending", "paid", "refunded"},
                 job' = [job EXCEPT ![c].at = next, ![c].doc.refund = how, ![c].doc.pay = pay,
                                    ![c].doc.refunded = d.total, ![c].told = TRUE]
          PROVE  job' \in [Callers -> Jobs]
      BY <1>1, <2>1, <3>1, <3>3
    <3>4. CASE job' = [job EXCEPT ![c].at = next]
      BY <2>2, <3>1, <3>4
    <3> QED
      BY <3>2, <3>3, <3>4
<1>3. given' \in Nat /\ refunds' \subseteq Nat /\ failures' \in 0..MaxFailures
  BY <1>1, FulfilmentAssumption DEF CancelPays, GiveMoney, MoneyFails, Failure, FulfilmentAssumption
<1> QED
  BY <1>2, <1>3 DEF CancelPays

LEMMA CancelSavesIsTyped ==
    ASSUME TypeOK, NEW c \in Cancellers, CancelSaves(c)
    PROVE  TypeOK'
<1>1. c \in Callers /\ job[c] \in Jobs
  BY DEF TypeOK, Callers
<1>2. order' \in Documents
  BY <1>1, SavedIsTyped DEF CancelSaves
<1>3. job' \in [Callers -> Jobs]
  BY <1>1, IdleIsTyped DEF CancelSaves, Return, TypeOK, Jobs
<1> QED
  BY <1>2, <1>3 DEF TypeOK, CancelSaves

LEMMA RefundWebhookIsTyped ==
    ASSUME TypeOK, NEW n \in refunds, RefundWebhook(n)
    PROVE  TypeOK'
<1>1. n \in Nat /\ order' \in Documents
  BY DEF RefundWebhook, TypeOK, Documents
<1> QED
  BY <1>1 DEF TypeOK, RefundWebhook

LEMMA NextIsTyped ==
    ASSUME TypeOK, [Next]_vars
    PROVE  TypeOK'
BY PickReadsIsTyped, PickPaysIsTyped, PickSavesIsTyped, PickSaveFailsIsTyped, PutsBackIsTyped,
   RestockFailsIsTyped, DiesIsTyped,
   CancelReadsIsTyped, CancelRestoresIsTyped, CancelPaysIsTyped, CancelSavesIsTyped,
   RefundWebhookIsTyped DEF Next, vars, TypeOK

-----------------------------------------------------------------------------
(* What the steps do, field by field                                       *)

OthersStay(c) == \A d \in Callers \ {c} : job'[d] = job[d]

(* Units that were put back or will be are never fewer.                    *)
LEMMA ReturnedMoves ==
    ASSUME TypeOK, TypeOK', NEW c \in Callers, OthersStay(c), NEW l \in Lines
    PROVE  /\ Returned(l) \in Int /\ Returned(l)' \in Int
           /\ Returned(l)' = Returned(l) + Gone(l)' + Pending(c, l)' - Gone(l) - Pending(c, l)
<1>1. \A d \in Callers : Pending(d, l) \in Nat /\ Pending(d, l)' \in Nat
  BY DEF Pending, TypeOK, Jobs
<1> DEFINE f == PendingOf(l)
           g == PendingOf(l)'
<1>2. \A d \in Callers : f[d] = Pending(d, l) /\ g[d] = Pending(d, l)'
  BY DEF PendingOf
<1>3. \A d \in Callers \ {c} : g[d] = f[d]
  BY <1>2 DEF OthersStay, Pending
<1>4. IsFiniteSet(Callers)
  BY FulfilmentAssumption DEF FulfilmentAssumption
<1> HIDE DEF f, g
<1>5. \A d \in Callers : f[d] \in Nat /\ g[d] \in Nat
  BY <1>1, <1>2
<1>6. Sum(g, Callers) = Sum(f, Callers) - f[c] + g[c]
  BY <1>3, <1>4, <1>5, SumMoves
<1>7. Sum(f, Callers) \in Nat
  BY <1>4, <1>5, TokensAreFinite
<1>8. Gone(l) \in Nat /\ Gone(l)' \in Nat
  BY DEF Gone, TypeOK
<1>9. Returned(l) = Gone(l) + Sum(f, Callers) /\ Returned(l)' = Gone(l)' + Sum(g, Callers)
  BY DEF Returned, f, g, Sum, Tokens, Units
<1> QED
  BY <1>1, <1>2, <1>6, <1>7, <1>8, <1>9

LEMMA ReturnedStays ==
    ASSUME UNCHANGED <<job, back, lost>>, NEW l
    PROVE  Returned(l)' = Returned(l)
BY DEF Returned, Gone, PendingOf, Pending, Sum, Tokens, Units

(* A save puts the changed fields over those of the document.              *)
LEMMA SavedFields ==
    ASSUME TypeOK, NEW j \in Jobs
    PROVE  LET s == Saved(j) IN
           /\ \A l \in Lines : s.ful[l] = IF j.doc.ful[l] # j.read.ful[l] THEN j.doc.ful[l]
                                                                         ELSE order.ful[l]
           /\ s.ful \in [Lines -> Nat]
           /\ s.status = IF j.doc.status # j.read.status THEN j.doc.status ELSE order.status
           /\ s.total = IF j.doc.total # j.read.total THEN j.doc.total ELSE order.total
           /\ s.pay = IF j.doc.pay # j.read.pay THEN j.doc.pay ELSE order.pay
           /\ s.refund = IF j.told THEN j.doc.refund ELSE order.refund
           /\ s.refunded = IF j.told THEN j.doc.refunded ELSE order.refunded
           /\ s.original = order.original /\ s.shortfall = order.shortfall
           /\ s.restored = order.restored /\ s.v = order.v
<1>1. order \in Documents /\ j.doc \in Documents /\ j.read \in Documents
  BY DEF TypeOK, Jobs
<1> QED
  BY <1>1 DEF Saved, Documents

(* A step leaves behind a document that is no younger, and the copies of   *)
(* the calls that do not move say of it what they said before.             *)
OrderAges ==
    /\ order'.v >= order.v
    /\ order'.v = order.v => order'.ful = order.ful /\ order'.total = order.total
    /\ order.pay # "paid" => order'.pay # "paid"
    /\ order.status = "cancelled" => order'.status = "cancelled"

LEMMA MoneyStays ==
    ASSUME TypeOK, TypeOK', MoneyInv, NEW c \in Callers, OthersStay(c), given' >= given,
           Covered(order)', Covered(job[c].doc)', \A n \in refunds' : n <= given'
    PROVE  MoneyInv'
<1>1. given \in Nat /\ given' \in Nat
  BY DEF TypeOK
<1>2. ASSUME NEW d \in Callers \ {c} PROVE Covered(job[d].doc)'
  <2>1. job'[d] = job[d] /\ Covered(job[d].doc) /\ job[d].doc.refunded \in Nat
    BY DEF OthersStay, MoneyInv, TypeOK, Jobs, Documents
  <2> QED
    BY <1>1, <2>1 DEF Covered
<1>3. \A d \in Callers : Covered(job[d].doc)'
  BY <1>2
<1> QED
  BY <1>3 DEF MoneyInv, Covered

LEMMA CopyStays ==
    ASSUME CopyInv, NEW c \in Callers, OthersStay(c), CopyOf(job'[c])
    PROVE  CopyInv'
<1>1. ASSUME NEW d \in Callers \ {c} PROVE CopyOf(job'[d])
  BY DEF OthersStay, CopyInv
<1>2. \A d \in Callers : CopyOf(job'[d])
  BY <1>1
<1>3. CopyInv' <=> \A d \in Callers : CopyOf(job'[d])
  BY DEF CopyInv, CopyOf, SavedOnce
<1> QED
  BY <1>2, <1>3

LEMMA AgeStays ==
    ASSUME TypeOK, TypeOK', AgeInv, NEW c \in Callers, OthersStay(c), OrderAges, AgeOf(job[c])'
    PROVE  AgeInv'
<1>1. ASSUME NEW d \in Callers \ {c} PROVE AgeOf(job[d])'
  <2>1. job'[d] = job[d] /\ AgeOf(job[d])
    BY DEF OthersStay, AgeInv
  <2>2. job[d].read.v \in Nat /\ order.v \in Nat /\ order'.v \in Nat
    BY DEF TypeOK, Jobs, Documents
  <2> QED
    BY <2>1, <2>2 DEF AgeOf, OrderAges, SavedOnce
<1>2. \A d \in Callers : AgeOf(job[d])'
  BY <1>1
<1> QED
  BY <1>2 DEF AgeInv

LEMMA UnitsStay ==
    ASSUME TypeOK, TypeOK', UnitsInv, NEW c \in Callers, OthersStay(c),
           \A l \in Lines : Returned(l)' >= Returned(l),
           \A l \in Lines : Returned(l)' >= Ordered[l] - order'.ful[l],
           order'.restored => order.restored \/ \A l \in Lines : Returned(l)' >= Ordered[l],
           job'[c].kind = "pick" =>
               (job[c].kind = "pick" /\ job'[c].read = job[c].read) \/ job'[c].read = order
    PROVE  UnitsInv'
<1> SUFFICES ASSUME NEW l \in Lines
             PROVE  /\ order'.restored => Returned(l)' >= Ordered[l]
                    /\ \A d \in Callers : job'[d].kind = "pick" =>
                          Returned(l)' >= Ordered[l] - job'[d].read.ful[l]
  BY DEF UnitsInv
<1>1. Returned(l) \in Int /\ Returned(l)' \in Int /\ Returned(l)' >= Returned(l)
  BY ReturnedMoves
<1>2. Ordered[l] \in Nat
  BY FulfilmentAssumption DEF FulfilmentAssumption
<1>3. order'.restored => Returned(l)' >= Ordered[l]
  BY <1>1, <1>2 DEF UnitsInv
<1>4. ASSUME NEW d \in Callers, job'[d].kind = "pick"
      PROVE  Returned(l)' >= Ordered[l] - job'[d].read.ful[l]
  <2>1. \/ job[d].kind = "pick" /\ job'[d].read = job[d].read
        \/ job'[d].read = order
    BY <1>4 DEF OthersStay
  <2>2. Returned(l) >= Ordered[l] - job'[d].read.ful[l]
    BY <2>1 DEF UnitsInv
  <2>3. job'[d].read.ful[l] \in Nat
    BY DEF TypeOK, Jobs, Documents
  <2> QED
    BY <1>1, <1>2, <2>2, <2>3
<1> QED
  BY <1>3, <1>4

LEMMA ShortfallStays ==
    ASSUME TypeOK, TypeOK', ShortfallInv, NEW c \in Callers, OthersStay(c), given' >= given,
           order'.status = "open" /\ order'.pay = "paid"
               => given' >= order'.shortfall \/ order'.refund = "failed",
           PaidBy(job[c])'
    PROVE  ShortfallInv'
<1>1. ASSUME NEW d \in Callers \ {c} PROVE PaidBy(job[d])'
  <2>1. job'[d] = job[d] /\ PaidBy(job[d])
    BY DEF OthersStay, ShortfallInv
  <2>2. job[d].doc.shortfall \in Nat /\ given \in Nat /\ given' \in Nat
    BY DEF TypeOK, Jobs, Documents
  <2> QED
    BY <2>1, <2>2 DEF PaidBy
<1>2. \A d \in Callers : PaidBy(job[d])'
  BY <1>1
<1> QED
  BY <1>2 DEF ShortfallInv

-----------------------------------------------------------------------------
(* Every step keeps the inductive invariant                                *)

LEMMA PickReadsKeeps ==
    ASSUME IInv, TypeOK', NEW p \in Pickers, NEW r \in Reports, PickReads(p, r)
    PROVE  IInv'
<1> USE DEF IInv
<1> DEFINE found == [l \in Lines |-> IF l \in DOMAIN r THEN r[l] ELSE order.ful[l]]
           full == IF order.original # 0 THEN order.original ELSE order.total
           doc == [order EXCEPT !.ful = found, !.total = Bill(found), !.original = full,
                                !.shortfall = Owed(full, Bill(found))]
           owe == [l \in Lines |-> Owed(order.ful[l], found[l])]
           h == [at |-> "pay", kind |-> "pick", read |-> order, doc |-> doc, owe |-> owe,
                 told |-> FALSE]
           k == job'[p]
<1>1. p \in Callers /\ order \in Documents /\ job[p].at = "idle"
  BY DEF TypeOK, Callers, PickReads
<1>2. k = h /\ OthersStay(p)
  <2>1. job' = [job EXCEPT ![p] = h]
    BY DEF PickReads
  <2> HIDE DEF h
  <2> QED
    BY <1>1, <2>1, OneJobMoves DEF OthersStay
<1>3. /\ UNCHANGED <<order, back, lost, given, refunds, blind>>
      /\ given \in Nat
  BY DEF PickReads, TypeOK
<1>4. /\ doc.ful = found /\ doc.total = Bill(found) /\ doc.status = order.status
      /\ doc.pay = order.pay /\ doc.refund = order.refund /\ doc.refunded = order.refunded
      /\ doc.v = order.v
  <2> HIDE DEF found, full
  <2> QED
    BY <1>1 DEF Documents
<1> HIDE DEF doc, found
<1>5. /\ k.at = "pay" /\ k.kind = "pick" /\ k.read = order /\ k.doc = doc
      /\ \A l \in Lines : k.owe[l] = Owed(order.ful[l], found[l])
  BY <1>2
<1> HIDE DEF owe, h
<1>6. MoneyInv'
  <2>1. Covered(order)' /\ Covered(job[p].doc)'
    BY <1>3, <1>4, <1>5 DEF MoneyInv, Covered
  <2> QED
    BY <1>1, <1>2, <1>3, <2>1, MoneyStays DEF MoneyInv
<1>7. CopyInv'
  <2>1. CopyOf(k)
    BY <1>4, <1>5 DEF CopyOf, PhasesOf
  <2> QED
    BY <1>1, <1>2, <2>1, CopyStays
<1>8. AgeInv'
  <2>1. OrderAges
    BY <1>1, <1>3 DEF OrderAges, Documents
  <2>2. AgeOf(job[p])'
    BY <1>1, <1>3, <1>4, <1>5 DEF AgeOf, SavedOnce, Documents
  <2> QED
    BY <1>1, <1>2, <2>1, <2>2, AgeStays
<1>9. UnitsInv'
  <2>1. ASSUME NEW l \in Lines PROVE Returned(l)' = Returned(l) /\ Returned(l) \in Int
    <3>1. /\ Pending(p, l) = 0 /\ Pending(p, l)' = 0
          /\ Gone(l) \in Nat /\ Gone(l)' = Gone(l)
      BY <1>1, <1>3, <1>5 DEF Pending, Gone, TypeOK
    <3> QED
      BY <1>1, <1>2, <1>3, <3>1, ReturnedMoves
  <2>2. \A l \in Lines : Returned(l)' >= Ordered[l] - order'.ful[l]
    BY <1>3, <2>1 DEF UnitsInv
  <2> QED
    BY <1>1, <1>2, <1>3, <1>5, <2>1, <2>2, UnitsStay
<1>10. ShortfallInv'
  <2>1. PaidBy(job[p])'
    BY <1>5 DEF PaidBy
  <2> QED
    BY <1>1, <1>2, <1>3, <2>1, ShortfallStays DEF ShortfallInv
<1>11. BillMatchesTheBag'
  BY <1>3 DEF BillMatchesTheBag
<1> QED
  BY <1>6, <1>7, <1>8, <1>9, <1>10, <1>11

(* What a picker's refund does to its copy and to the money.               *)
PaidPick(j, k) ==
    /\ j.at = "pay" /\ j.kind = "pick" /\ k.at = "save" /\ k.kind = "pick"
    /\ k.read = j.read /\ k.owe = j.owe
    /\ k.doc.ful = j.doc.ful /\ k.doc.total = j.doc.total /\ k.doc.v = j.doc.v
    /\ k.doc.status = j.doc.status /\ k.doc.pay = j.doc.pay
    /\ k.doc.shortfall = j.doc.shortfall

LEMMA PickPaysDoes ==
    ASSUME TypeOK, NEW p \in Pickers, PickPays(p), MoneyInv
    PROVE  /\ OthersStay(p) /\ PaidPick(job[p], job'[p])
           /\ given' >= given /\ \A n \in refunds' : n <= given'
           /\ Covered(job[p].doc)' /\ PaidBy(job[p])'
<1> DEFINE j == job[p]
           k == job'[p]
           d == j.doc
           already == IF d.refund = "processed" THEN d.refunded ELSE 0
           owed == d.shortfall - already
           Record(how, n) ==
               job' = [job EXCEPT ![p].at = "save", ![p].doc.refund = how, ![p].doc.refunded = n,
                                  ![p].told = TRUE]
<1>1. p \in Callers /\ j \in Jobs /\ d \in Documents /\ given \in Nat /\ refunds \subseteq Nat
  BY DEF TypeOK, Callers, Jobs
<1>2. /\ already \in Nat /\ already <= given /\ d.shortfall \in Nat /\ owed \in Int
      /\ \A n \in refunds : n <= given
      /\ d.refund = "processed" => d.refunded <= given
  BY <1>1 DEF MoneyInv, Covered, Documents
<1>3. j.at = "pay" /\ j.kind = "pick"
  BY DEF PickPays
<1>4. ASSUME NEW how, NEW n, Record(how, n)
      PROVE  /\ OthersStay(p) /\ PaidPick(j, k)
             /\ k.told /\ k.doc.refund = how /\ k.doc.refunded = n
  BY <1>1, <1>3, <1>4 DEF TypeOK, Jobs, Documents, OthersStay, PaidPick
<1>5. ASSUME job' = [job EXCEPT ![p].at = "save"]
      PROVE  OthersStay(p) /\ PaidPick(j, k) /\ k.doc = d
  BY <1>1, <1>3, <1>5 DEF TypeOK, Jobs, Documents, OthersStay, PaidPick
<1>6. \/ owed > 0 /\ GiveMoney(owed) /\ Record("processed", already + owed)
      \/ MoneyFails /\ Record("failed", already)
      \/ /\ ~(d.pay = "paid" /\ owed > 0)
         /\ job' = [job EXCEPT ![p].at = "save"] /\ UNCHANGED <<given, refunds>>
  BY DEF PickPays
<1>7. (Covered(job[p].doc)' <=> (k.doc.refund = "processed" => k.doc.refunded <= given'))
      /\ (PaidBy(job[p])' <=>
             (k.kind = "pick" /\ k.at = "save" /\ k.doc.pay = "paid"
                => given' >= k.doc.shortfall \/ (k.told /\ k.doc.refund = "failed")))
  BY DEF Covered, PaidBy
<1> HIDE DEF Record
<1>8. CASE owed > 0 /\ GiveMoney(owed) /\ Record("processed", already + owed)
  <2>1. given' = given + owed /\ refunds' \subseteq refunds \cup {owed}
    BY <1>8 DEF GiveMoney
  <2>2. already + owed = d.shortfall
    BY <1>2
  <2>3. OthersStay(p) /\ PaidPick(j, k) /\ k.doc.refunded = already + owed
    BY <1>4, <1>8
  <2>4. k.doc.shortfall = d.shortfall
    BY <2>3 DEF PaidPick
  <2> HIDE DEF already, owed, j, k, d
  <2>5. given' >= d.shortfall /\ given' >= given /\ \A n \in refunds' : n <= given'
    BY <1>1, <1>2, <1>8, <2>1, <2>2
  <2> QED
    BY <1>7, <2>2, <2>3, <2>4, <2>5 DEF j, k
<1>9. CASE MoneyFails /\ Record("failed", already)
  <2>1. /\ OthersStay(p) /\ PaidPick(j, k) /\ k.told /\ k.doc.refund = "failed"
        /\ UNCHANGED <<given, refunds>>
    BY <1>4, <1>9 DEF MoneyFails
  <2> QED
    BY <1>1, <1>2, <1>7, <2>1
<1>10. CASE /\ ~(d.pay = "paid" /\ owed > 0)
            /\ job' = [job EXCEPT ![p].at = "save"] /\ UNCHANGED <<given, refunds>>
  <2>1. OthersStay(p) /\ PaidPick(j, k) /\ k.doc = d
    BY <1>5, <1>10
  <2>2. d.pay = "paid" => given >= d.shortfall
    <3> HIDE DEF d, already
    <3> QED
      BY <1>1, <1>2, <1>10
  <2> QED
    BY <1>1, <1>2, <1>7, <1>10, <2>1, <2>2
<1> QED
  BY <1>6, <1>8, <1>9, <1>10

LEMMA PickPaysKeeps ==
    ASSUME IInv, TypeOK', NEW p \in Pickers, PickPays(p)
    PROVE  IInv'
<1> USE DEF IInv
<1> DEFINE j == job[p]
           k == job'[p]
<1>1. p \in Callers /\ order \in Documents /\ j \in Jobs /\ UNCHANGED <<order, back, lost, blind>>
  BY DEF TypeOK, Callers, PickPays
<1>2. /\ OthersStay(p) /\ PaidPick(j, k)
      /\ given' >= given /\ \A n \in refunds' : n <= given'
      /\ Covered(job[p].doc)' /\ PaidBy(job[p])'
  BY PickPaysDoes
<1>3. MoneyInv'
  <2>1. Covered(order)'
    BY <1>1, <1>2 DEF MoneyInv, Covered, Documents, TypeOK
  <2> QED
    BY <1>1, <1>2, <2>1, MoneyStays
<1>4. CopyInv'
  <2>1. CopyOf(j) => CopyOf(k)
    BY <1>2 DEF CopyOf, PaidPick, PhasesOf
  <2> QED
    BY <1>1, <1>2, <2>1, CopyStays DEF CopyInv
<1>5. AgeInv'
  <2>1. OrderAges
    BY <1>1 DEF OrderAges, Documents
  <2>2. AgeOf(job[p]) => AgeOf(job[p])'
    BY <1>1, <1>2 DEF AgeOf, PaidPick, SavedOnce
  <2> QED
    BY <1>1, <1>2, <2>1, <2>2, AgeStays DEF AgeInv
<1>6. UnitsInv'
  <2>1. ASSUME NEW l \in Lines PROVE Returned(l)' = Returned(l) /\ Returned(l) \in Int
    <3>1. /\ Pending(p, l) = 0 /\ Pending(p, l)' = 0
          /\ Gone(l) \in Nat /\ Gone(l)' = Gone(l)
      BY <1>1, <1>2 DEF Pending, PaidPick, Gone, TypeOK
    <3> QED
      BY <1>1, <1>2, <3>1, ReturnedMoves
  <2>2. \A l \in Lines : Returned(l)' >= Ordered[l] - order'.ful[l]
    BY <1>1, <2>1 DEF UnitsInv
  <2> QED
    BY <1>1, <1>2, <2>1, <2>2, UnitsStay DEF PaidPick
<1>7. ShortfallInv'
  <2>1. order.shortfall \in Nat /\ given \in Nat /\ given' \in Nat
    BY <1>1 DEF TypeOK, Documents
  <2> QED
    BY <1>1, <1>2, <2>1, ShortfallStays DEF ShortfallInv
<1>8. BillMatchesTheBag'
  BY <1>1 DEF BillMatchesTheBag
<1> QED
  BY <1>3, <1>4, <1>5, <1>6, <1>7, <1>8

(* A call that has returned.                                               *)
LEMMA IdleSaysNothing ==
    ASSUME TypeOK, NEW c \in Callers, Return(c)
    PROVE  /\ OthersStay(c) /\ job'[c].at = "idle" /\ job'[c].kind = "none"
           /\ CopyOf(job'[c]) /\ AgeOf(job[c])' /\ PaidBy(job[c])' /\ Covered(job[c].doc)'
           /\ \A l \in Lines : Pending(c, l)' = 0
<1>1. job'[c] = Idle /\ OthersStay(c)
  BY DEF Return, TypeOK, OthersStay
<1>2. job'[c].at = "idle" /\ job'[c].kind = "none" /\ job'[c].doc.refund = "none"
  BY <1>1 DEF Idle, Fresh
<1> QED
  BY <1>1, <1>2 DEF CopyOf, PhasesOf, AgeOf, PaidBy, Covered, Pending

(* A picker's save, of the document and of its job.                        *)
LEMMA PickSavesDoes ==
    ASSUME TypeOK, NEW p \in Pickers, PickSaves(p)
    PROVE  LET j == job[p]  k == job'[p] IN
           /\ OthersStay(p) /\ j.at = "save" /\ j.kind = "pick"
           /\ \/ /\ Return(p) /\ j.owe = Nothing
              \/ /\ k.at = "return" /\ k.kind = "pick" /\ k.owe = j.owe
                 /\ k.read = j.read /\ k.doc = j.doc
           /\ \A l \in Lines : Pending(p, l) = 0 /\ Pending(p, l)' = j.owe[l]
           /\ Stale(j) => ~Conditional(j)
           /\ UNCHANGED <<back, lost, given, refunds>>
           /\ blind' = (blind \/ (Unguarded(j) /\ Stale(j)))
           /\ order'.v = order.v + 1
           /\ order'.shortfall = j.doc.shortfall
           /\ \A f \in {"ful", "status", "total", "pay", "refund", "refunded", "restored"} :
                 order'[f] = Saved(j)[f]
<1> DEFINE j == job[p]
           k == job'[p]
<1>1. p \in Callers /\ j \in Jobs /\ order \in Documents /\ Saved(j) \in Documents
  BY SavedIsTyped DEF TypeOK, Callers
<1>2. /\ j.at = "save" /\ j.kind = "pick" /\ UNCHANGED <<back, lost, given, refunds>>
      /\ Stale(j) => ~Conditional(j)
      /\ blind' = (blind \/ (Unguarded(j) /\ Stale(j)))
  BY DEF PickSaves
<1>3. /\ \/ Return(p) /\ j.owe = Nothing
         \/ /\ k.at = "return" /\ k.kind = "pick" /\ k.owe = j.owe
            /\ k.read = j.read /\ k.doc = j.doc
      /\ OthersStay(p)
  <2>1. CASE Return(p) /\ j.owe = Nothing
    BY <1>1, <2>1, IdleSaysNothing
  <2>2. CASE job' = [job EXCEPT ![p].at = "return"]
    BY <1>1, <1>2, <2>2 DEF TypeOK, OthersStay, Jobs
  <2> QED
    BY <2>1, <2>2 DEF PickSaves
<1>4. \A l \in Lines : Pending(p, l) = 0 /\ Pending(p, l)' = j.owe[l]
  BY <1>1, <1>2, <1>3, IdleSaysNothing DEF Pending, Nothing
<1>5. /\ order'.v = order.v + 1 /\ order'.shortfall = j.doc.shortfall
      /\ \A f \in {"ful", "status", "total", "pay", "refund", "refunded", "restored"} :
            order'[f] = Saved(j)[f]
  <2>1. order' = NextVersion([Saved(j) EXCEPT !.original = j.doc.original,
                                             !.shortfall = j.doc.shortfall])
    BY DEF PickSaves
  <2>2. Saved(j).v = order.v
    BY <1>1, SavedFields
  <2> QED
    BY <1>1, <2>1, <2>2 DEF NextVersion, Documents
<1> QED
  BY <1>2, <1>3, <1>4, <1>5

(* The version check: a picker's copy that is not of the current version   *)
(* and yet saved was not guarded, and the bill may then be another's.      *)
LEMMA PickSavesTheBill ==
    ASSUME IInv, NEW p \in Pickers, PickSaves(p)
    PROVE  BillMatchesTheBag'
<1> DEFINE j == job[p]
<1>1. p \in Callers /\ j \in Jobs /\ order \in Documents
  BY DEF IInv, TypeOK, Callers
<1>2. /\ CopyOf(j) /\ AgeOf(j) /\ j.at = "save" /\ j.kind = "pick"
      /\ order'.ful = Saved(j).ful /\ order'.total = Saved(j).total
      /\ Stale(j) => ~Conditional(j)
      /\ blind' = (blind \/ (Unguarded(j) /\ Stale(j)))
  BY <1>1, PickSavesDoes DEF IInv, CopyInv, AgeInv
<1>3. CASE Stale(j)
  <2>1. Unguarded(j)
    <3>1. j.owe \in [Lines -> Nat]
      BY <1>1 DEF Jobs
    <3>2. CASE \A l \in Lines : ~(j.owe[l] > 0)
      BY <3>1, <3>2 DEF Unguarded, Nothing
    <3> QED
      BY <1>2, <1>3, <3>2 DEF Unguarded, Conditional
  <2> QED
    BY <1>2, <1>3, <2>1 DEF BillMatchesTheBag
<1>4. CASE ~Stale(j)
  <2>1. j.read.ful = order.ful /\ j.read.total = order.total
    BY <1>2, <1>4 DEF Stale, AgeOf
  <2>2. /\ Saved(j).ful \in [Lines -> Nat] /\ j.doc.ful \in [Lines -> Nat]
        /\ \A l \in Lines : Saved(j).ful[l] = j.doc.ful[l]
        /\ Saved(j).total = j.doc.total
    BY <1>1, <2>1, SavedFields DEF IInv, Jobs, Documents
  <2>3. Saved(j).ful = j.doc.ful
    BY <2>2
  <2>4. order'.total = Bill(order'.ful)
    BY <1>2, <2>2, <2>3 DEF CopyOf
  <2>5. BillMatchesTheBag' <=> (~blind' => order'.total = Bill(order'.ful))
    BY DEF BillMatchesTheBag
  <2> QED
    BY <2>4, <2>5
<1> QED
  BY <1>3, <1>4

LEMMA PickSavesKeeps ==
    ASSUME IInv, TypeOK', NEW p \in Pickers, PickSaves(p)
    PROVE  IInv'
<1> USE DEF IInv
<1> DEFINE j == job[p]
           k == job'[p]
<1>1. p \in Callers /\ order \in Documents /\ j \in Jobs /\ order' \in Documents /\ given \in Nat
      /\ j.doc \in Documents /\ j.read \in Documents
  BY DEF TypeOK, Callers, Jobs
<1>2. /\ OthersStay(p) /\ j.at = "save" /\ j.kind = "pick"
      /\ \/ Return(p) /\ j.owe = Nothing
         \/ /\ k.at = "return" /\ k.kind = "pick" /\ k.owe = j.owe
            /\ k.read = j.read /\ k.doc = j.doc
      /\ \A l \in Lines : Pending(p, l) = 0 /\ Pending(p, l)' = j.owe[l]
      /\ UNCHANGED <<back, lost, given, refunds>>
      /\ order'.v = order.v + 1 /\ order'.shortfall = j.doc.shortfall
  BY PickSavesDoes
<1>3. CopyOf(j) /\ AgeOf(j) /\ PaidBy(j) /\ Covered(j.doc)
  BY <1>1 DEF CopyInv, AgeInv, ShortfallInv, MoneyInv
<1>4. /\ order'.status = order.status /\ order'.pay = order.pay
      /\ order'.restored = order.restored
      /\ order'.refund = IF j.told THEN j.doc.refund ELSE order.refund
      /\ order'.refunded = IF j.told THEN j.doc.refunded ELSE order.refunded
      /\ \A l \in Lines : order'.ful[l] = IF j.doc.ful[l] # j.read.ful[l] THEN j.doc.ful[l]
                                                                         ELSE order.ful[l]
  BY <1>1, <1>2, <1>3, PickSavesDoes, SavedFields DEF CopyOf
<1>5. MoneyInv'
  <2>1. Covered(order)'
    BY <1>2, <1>3, <1>4 DEF MoneyInv, Covered
  <2>2. Covered(job[p].doc)'
    BY <1>1, <1>2, <1>3, IdleSaysNothing DEF Covered
  <2> QED
    BY <1>1, <1>2, <2>1, <2>2, MoneyStays DEF MoneyInv
<1>6. CopyInv'
  <2>1. CopyOf(k)
    BY <1>1, <1>2, <1>3, IdleSaysNothing DEF CopyOf, PhasesOf
  <2> QED
    BY <1>1, <1>2, <2>1, CopyStays
<1>7. AgeInv'
  <2>1. OrderAges
    BY <1>1, <1>2, <1>4 DEF OrderAges, Documents
  <2>2. AgeOf(job[p])'
    <3>1. CASE Return(p)
      BY <1>1, <3>1, IdleSaysNothing
    <3>2. CASE k.at = "return" /\ k.kind = "pick" /\ k.read = j.read /\ k.doc = j.doc
      <4>1. j.read.v \in Nat /\ order.v \in Nat /\ j.at # "idle"
        BY <1>1, <1>2 DEF Documents
      <4> QED
        BY <1>2, <1>3, <1>4, <3>2, <4>1 DEF AgeOf, SavedOnce
    <3> QED
      BY <1>2, <3>1, <3>2
  <2> QED
    BY <1>1, <1>2, <2>1, <2>2, AgeStays
<1>8. UnitsInv'
  <2>1. ASSUME NEW l \in Lines
        PROVE  /\ Returned(l)' >= Returned(l)
               /\ order.restored => Returned(l)' >= Ordered[l]
               /\ Returned(l)' >= Ordered[l] - order'.ful[l]
    <3>1. /\ j.owe[l] \in Nat /\ Gone(l) \in Nat /\ Gone(l)' = Gone(l)
          /\ Ordered[l] \in Nat
          /\ order.ful[l] \in Nat /\ j.read.ful[l] \in Nat /\ j.doc.ful[l] \in Nat
      BY <1>1, <1>2, FulfilmentAssumption
         DEF Jobs, Documents, Gone, TypeOK, FulfilmentAssumption
    <3>2. Returned(l)' = Returned(l) + j.owe[l] /\ Returned(l) \in Int
      BY <1>1, <1>2, <3>1, ReturnedMoves
    <3>3. /\ Returned(l) >= Ordered[l] - order.ful[l]
          /\ Returned(l) >= Ordered[l] - j.read.ful[l]
          /\ order.restored => Returned(l) >= Ordered[l]
      BY <1>1, <1>2 DEF UnitsInv
    <3>4. j.owe[l] >= j.read.ful[l] - j.doc.ful[l]
      BY <1>2, <1>3, <3>1 DEF CopyOf, Owed
    <3>5. order'.ful[l] \in {j.doc.ful[l], order.ful[l]}
      BY <1>4
    <3> QED
      BY <3>1, <3>2, <3>3, <3>4, <3>5
  <2>2. k.kind = "pick" => k.read = j.read
    BY <1>1, <1>2, IdleSaysNothing
  <2> QED
    BY <1>1, <1>2, <1>4, <2>1, <2>2, UnitsStay
<1>9. ShortfallInv'
  <2>1. PaidBy(job[p])'
    BY <1>1, <1>2, IdleSaysNothing DEF PaidBy
  <2>2. ASSUME order'.status = "open", order'.pay = "paid"
        PROVE  given' >= order'.shortfall \/ order'.refund = "failed"
    <3>1. j.doc.pay = "paid"
      BY <1>2, <1>3, <1>4, <2>2 DEF AgeOf, CopyOf
    <3> QED
      BY <1>2, <1>3, <1>4, <3>1 DEF PaidBy
  <2> QED
    BY <1>1, <1>2, <2>1, <2>2, ShortfallStays
<1>10. BillMatchesTheBag'
  BY PickSavesTheBill
<1> QED
  BY <1>5, <1>6, <1>7, <1>8, <1>9, <1>10

LEMMA PickSaveFailsKeeps ==
    ASSUME IInv, TypeOK', NEW p \in Pickers, PickSaveFails(p)
    PROVE  IInv'
<1> USE DEF IInv
<1>1. p \in Callers /\ order \in Documents /\ given \in Nat
  BY DEF TypeOK, Callers
<1>2. /\ Return(p) /\ job[p].at = "save"
      /\ UNCHANGED <<order, back, lost, given, refunds, blind>>
  BY DEF PickSaveFails
<1>3. /\ OthersStay(p) /\ job'[p].at = "idle" /\ job'[p].kind = "none"
      /\ CopyOf(job'[p]) /\ AgeOf(job[p])' /\ PaidBy(job[p])' /\ Covered(job[p].doc)'
      /\ \A l \in Lines : Pending(p, l)' = 0
  BY <1>1, <1>2, IdleSaysNothing
<1>4. MoneyInv'
  <2>1. Covered(order)'
    BY <1>2 DEF MoneyInv, Covered
  <2> QED
    BY <1>1, <1>2, <1>3, <2>1, MoneyStays DEF MoneyInv
<1>5. CopyInv'
  BY <1>1, <1>3, CopyStays
<1>6. AgeInv'
  <2>1. OrderAges
    BY <1>1, <1>2 DEF OrderAges, Documents
  <2> QED
    BY <1>1, <1>3, <2>1, AgeStays
<1>7. UnitsInv'
  <2>1. ASSUME NEW l \in Lines PROVE Returned(l)' = Returned(l) /\ Returned(l) \in Int
    <3>1. /\ Pending(p, l) = 0
          /\ Gone(l) \in Nat /\ Gone(l)' = Gone(l)
      BY <1>2 DEF Pending, Gone, TypeOK
    <3> QED
      BY <1>1, <1>2, <1>3, <3>1, ReturnedMoves
  <2>2. \A l \in Lines : Returned(l)' >= Ordered[l] - order'.ful[l]
    BY <1>2, <2>1 DEF UnitsInv
  <2> QED
    BY <1>1, <1>2, <1>3, <2>1, <2>2, UnitsStay
<1>8. ShortfallInv'
  BY <1>1, <1>2, <1>3, ShortfallStays DEF ShortfallInv
<1>9. BillMatchesTheBag'
  BY <1>2 DEF BillMatchesTheBag
<1> QED
  BY <1>4, <1>5, <1>6, <1>7, <1>8, <1>9

(* Units of one line reach the shelf; a cancellation goes on when none are *)
(* left.                                                                   *)
LEMMA RestockedDoes ==
    ASSUME TypeOK, CopyInv, NEW c \in Callers, NEW l \in Lines, Restocked(c, l),
           \A m \in Lines : Gone(m)' = Gone(m) + (IF m = l THEN job[c].owe[l] ELSE 0)
    PROVE  LET j == job[c]  k == job'[c] IN
           /\ OthersStay(c) /\ j.at = "return"
           /\ \/ Return(c) /\ j.kind = "pick"
              \/ /\ k.kind = j.kind /\ k.read = j.read /\ k.doc = j.doc
                 /\ \/ k.at = "return"
                    \/ k.at = "save" /\ j.kind = "seller"
                    \/ k.at = "pay" /\ j.kind = "cancel"
           /\ \A m \in Lines : Gone(m)' + Pending(c, m)' = Gone(m) + Pending(c, m)
           /\ UNCHANGED <<order, given, refunds, blind>>
<1> DEFINE j == job[c]
           k == job'[c]
           left == [j.owe EXCEPT ![l] = 0]
<1>1. j \in Jobs /\ j.owe \in [Lines -> Nat] /\ j.at = "return"
      /\ \A m \in Lines : Gone(m) \in Nat
  BY DEF TypeOK, Jobs, Gone, Restocked
<1>2. j.kind \in {"pick", "cancel", "seller"}
  BY <1>1 DEF CopyInv, CopyOf, PhasesOf, Jobs
<1>3. /\ left \in [Lines -> Nat] /\ left[l] = 0
      /\ \A m \in Lines \ {l} : left[m] = j.owe[m]
      /\ \A m \in Lines : Gone(m)' = Gone(m) + (IF m = l THEN j.owe[l] ELSE 0)
  BY <1>1
<1>9. \A m \in Lines : Gone(m)' + left[m] = Gone(m) + j.owe[m]
  <2> HIDE DEF left
  <2> TAKE m \in Lines
  <2>1. Gone(m) \in Nat /\ j.owe[m] \in Nat
    BY <1>1
  <2>2. CASE m = l
    BY <1>3, <2>1, <2>2
  <2>3. CASE m # l
    <3>1. left[m] = j.owe[m] /\ Gone(m)' = Gone(m) + 0
      BY <1>3, <2>3
    <3> QED
      BY <2>1, <3>1
  <2> QED
    BY <2>2, <2>3
<1>4. UNCHANGED <<order, given, refunds, blind>>
  BY DEF Restocked
<1>5. \/ left # Nothing /\ job' = [job EXCEPT ![c].owe = left]
      \/ left = Nothing /\ j.kind = "pick" /\ Return(c)
      \/ /\ left = Nothing /\ j.kind # "pick"
         /\ job' = [job EXCEPT ![c].owe = left,
                               ![c].at = IF j.kind = "seller" THEN "save" ELSE "pay"]
  BY DEF Restocked
<1> HIDE DEF left
<1>6. CASE left # Nothing /\ job' = [job EXCEPT ![c].owe = left]
  <2>1. /\ OthersStay(c) /\ k.kind = j.kind /\ k.read = j.read /\ k.doc = j.doc
        /\ k.at = "return" /\ k.owe = left
    BY <1>1, <1>6 DEF TypeOK, OthersStay, Jobs
  <2>2. \A m \in Lines : Pending(c, m) = j.owe[m] /\ Pending(c, m)' = left[m]
    BY <1>1, <2>1 DEF Pending
  <2> QED
    BY <1>1, <1>9, <1>4, <2>1, <2>2
<1>7. CASE left = Nothing /\ j.kind = "pick" /\ Return(c)
  <2>1. OthersStay(c) /\ \A m \in Lines : Pending(c, m) = j.owe[m] /\ Pending(c, m)' = left[m]
    BY <1>1, <1>7, IdleSaysNothing DEF Pending, Nothing
  <2> QED
    BY <1>1, <1>9, <1>4, <1>7, <2>1
<1>8. CASE /\ left = Nothing /\ j.kind # "pick"
           /\ job' = [job EXCEPT ![c].owe = left,
                                 ![c].at = IF j.kind = "seller" THEN "save" ELSE "pay"]
  <2>1. /\ OthersStay(c) /\ k.kind = j.kind /\ k.read = j.read /\ k.doc = j.doc
        /\ k.at = IF j.kind = "seller" THEN "save" ELSE "pay"
    BY <1>1, <1>8 DEF TypeOK, OthersStay, Jobs
  <2>2. \A m \in Lines : Pending(c, m) = j.owe[m] /\ Pending(c, m)' = left[m]
    BY <1>1, <1>8, <2>1 DEF Pending, Nothing
  <2> QED
    BY <1>1, <1>2, <1>9, <1>4, <1>8, <2>1, <2>2
<1> QED
  BY <1>5, <1>6, <1>7, <1>8

LEMMA RestockedKeeps ==
    ASSUME IInv, TypeOK', NEW c \in Callers, NEW l \in Lines, Restocked(c, l),
           \A m \in Lines : Gone(m)' = Gone(m) + (IF m = l THEN job[c].owe[l] ELSE 0)
    PROVE  IInv'
<1> USE DEF IInv
<1> DEFINE j == job[c]
           k == job'[c]
<1>1. order \in Documents /\ given \in Nat /\ CopyOf(j) /\ AgeOf(j) /\ Covered(j.doc)
  BY DEF TypeOK, CopyInv, AgeInv, MoneyInv
<1>2. /\ OthersStay(c) /\ j.at = "return"
      /\ \/ Return(c) /\ j.kind = "pick"
         \/ /\ k.kind = j.kind /\ k.read = j.read /\ k.doc = j.doc
            /\ \/ k.at = "return"
               \/ k.at = "save" /\ j.kind = "seller"
               \/ k.at = "pay" /\ j.kind = "cancel"
      /\ \A m \in Lines : Gone(m)' + Pending(c, m)' = Gone(m) + Pending(c, m)
      /\ UNCHANGED <<order, given, refunds, blind>>
  BY RestockedDoes
<1>3. /\ CopyOf(k) /\ AgeOf(job[c])' /\ PaidBy(job[c])' /\ Covered(job[c].doc)'
      /\ k.kind = "pick" => k.kind = j.kind /\ k.read = j.read
  <2>1. CASE Return(c)
    BY <2>1, IdleSaysNothing
  <2>2. CASE /\ k.kind = j.kind /\ k.read = j.read /\ k.doc = j.doc
             /\ \/ k.at = "return"
                \/ k.at = "save" /\ j.kind = "seller"
                \/ k.at = "pay" /\ j.kind = "cancel"
    <3>1. ~SavedOnce(j) /\ ~SavedOnce(k)
      BY <1>2, <2>2 DEF SavedOnce
    <3>2. CopyOf(k)
      <4>1. j.kind \in {"none", "pick", "cancel", "seller"}
        BY DEF TypeOK, Jobs
      <4> QED
        BY <1>1, <1>2, <2>2, <3>1, <4>1 DEF CopyOf, PhasesOf
    <3>3. AgeOf(job[c])'
      BY <1>1, <1>2, <2>2, <3>1 DEF AgeOf, SavedOnce
    <3> QED
      BY <1>1, <1>2, <2>2, <3>2, <3>3 DEF PaidBy, Covered
  <2> QED
    BY <1>2, <2>1, <2>2
<1>4. MoneyInv'
  <2>1. Covered(order)'
    BY <1>2 DEF MoneyInv, Covered
  <2> QED
    BY <1>1, <1>2, <1>3, <2>1, MoneyStays DEF MoneyInv
<1>5. CopyInv'
  BY <1>2, <1>3, CopyStays
<1>6. AgeInv'
  <2>1. OrderAges
    BY <1>1, <1>2 DEF OrderAges, Documents
  <2> QED
    BY <1>2, <1>3, <2>1, AgeStays
<1>7. UnitsInv'
  <2>1. ASSUME NEW m \in Lines PROVE Returned(m)' >= Returned(m)
    <3>1. /\ Pending(c, m) \in Nat /\ Pending(c, m)' \in Nat
          /\ Gone(m) \in Nat /\ Gone(m)' \in Nat
      BY DEF Pending, Gone, TypeOK, Jobs
    <3>2. Gone(m)' + Pending(c, m)' = Gone(m) + Pending(c, m)
      BY <1>2
    <3>3. /\ Returned(m) \in Int /\ Returned(m)' \in Int
          /\ Returned(m)' = Returned(m) + Gone(m)' + Pending(c, m)' - Gone(m) - Pending(c, m)
      BY <1>2, ReturnedMoves
    <3> QED
      BY <3>1, <3>2, <3>3
  <2>2. ASSUME NEW m \in Lines PROVE Returned(m)' >= Ordered[m] - order'.ful[m]
    <3>1. /\ Returned(m) \in Int /\ Returned(m)' \in Int
          /\ Ordered[m] \in Nat /\ order.ful[m] \in Nat
      BY <1>1, <1>2, ReturnedMoves, FulfilmentAssumption DEF FulfilmentAssumption, Documents
    <3>2. Returned(m) >= Ordered[m] - order.ful[m] /\ order'.ful = order.ful
      BY <1>2 DEF UnitsInv
    <3> QED
      BY <2>1, <3>1, <3>2
  <2> QED
    BY <1>2, <1>3, <2>1, <2>2, UnitsStay
<1>8. ShortfallInv'
  BY <1>1, <1>2, <1>3, ShortfallStays DEF ShortfallInv
<1>9. BillMatchesTheBag'
  BY <1>2 DEF BillMatchesTheBag
<1> QED
  BY <1>4, <1>5, <1>6, <1>7, <1>8, <1>9

LEMMA PutsBackKeeps ==
    ASSUME IInv, TypeOK', NEW c \in Callers, NEW l \in Lines, PutsBack(c, l)
    PROVE  IInv'
<1>1. \A m \in Lines : Gone(m)' = Gone(m) + (IF m = l THEN job[c].owe[l] ELSE 0)
  <2> TAKE m \in Lines
  <2>1. /\ back[m] \in Nat /\ lost[m] \in Nat /\ job[c].owe[l] \in Nat
        /\ lost' = lost /\ back'[m] = IF m = l THEN back[m] + job[c].owe[l] ELSE back[m]
    BY DEF PutsBack, IInv, TypeOK, Jobs
  <2> QED
    BY <2>1 DEF Gone
<1> QED
  BY <1>1, RestockedKeeps DEF PutsBack

LEMMA RestockFailsKeeps ==
    ASSUME IInv, TypeOK', NEW c \in Callers, NEW l \in Lines, RestockFails(c, l)
    PROVE  IInv'
<1>1. \A m \in Lines : Gone(m)' = Gone(m) + (IF m = l THEN job[c].owe[l] ELSE 0)
  <2> TAKE m \in Lines
  <2>1. /\ back[m] \in Nat /\ lost[m] \in Nat /\ job[c].owe[l] \in Nat
        /\ back' = back /\ lost'[m] = IF m = l THEN lost[m] + job[c].owe[l] ELSE lost[m]
    BY DEF RestockFails, IInv, TypeOK, Jobs
  <2> QED
    BY <2>1 DEF Gone
<1> QED
  BY <1>1, RestockedKeeps DEF RestockFails

(* What a dead call had still to put back is lost.                         *)
LEMMA DiesKeeps ==
    ASSUME IInv, TypeOK', NEW c \in Callers, Dies(c)
    PROVE  IInv'
<1> USE DEF IInv
<1>1. order \in Documents /\ given \in Nat
  BY DEF TypeOK
<1>2. Return(c) /\ UNCHANGED <<order, back, given, refunds, blind>>
  BY DEF Dies
<1>3. /\ OthersStay(c) /\ job'[c].at = "idle" /\ job'[c].kind = "none"
      /\ CopyOf(job'[c]) /\ AgeOf(job[c])' /\ PaidBy(job[c])' /\ Covered(job[c].doc)'
      /\ \A l \in Lines : Pending(c, l)' = 0
  BY <1>1, <1>2, IdleSaysNothing
<1>4. MoneyInv'
  <2>1. Covered(order)'
    BY <1>2 DEF MoneyInv, Covered
  <2> QED
    BY <1>1, <1>2, <1>3, <2>1, MoneyStays DEF MoneyInv
<1>5. CopyInv'
  BY <1>1, <1>3, CopyStays
<1>6. AgeInv'
  <2>1. OrderAges
    BY <1>1, <1>2 DEF OrderAges, Documents
  <2> QED
    BY <1>1, <1>3, <2>1, AgeStays
<1>7. UnitsInv'
  <2>1. ASSUME NEW l \in Lines PROVE Returned(l)' = Returned(l) /\ Returned(l) \in Int
    <3>1. /\ back[l] \in Nat /\ lost[l] \in Nat /\ Pending(c, l) \in Nat /\ back' = back
          /\ lost'[l] = lost[l] + Pending(c, l)
      BY <1>2 DEF Pending, TypeOK, Jobs, Dies
    <3>2. Gone(l) \in Nat /\ Gone(l)' = Gone(l) + Pending(c, l)
      BY <3>1 DEF Gone
    <3> QED
      BY <1>1, <1>3, <3>1, <3>2, ReturnedMoves
  <2>2. \A l \in Lines : Returned(l)' >= Ordered[l] - order'.ful[l]
    BY <1>2, <2>1 DEF UnitsInv
  <2> QED
    BY <1>1, <1>2, <1>3, <2>1, <2>2, UnitsStay
<1>8. ShortfallInv'
  BY <1>1, <1>2, <1>3, ShortfallStays DEF ShortfallInv
<1>9. BillMatchesTheBag'
  BY <1>2 DEF BillMatchesTheBag
<1> QED
  BY <1>4, <1>5, <1>6, <1>7, <1>8, <1>9

LEMMA CancelReadsKeeps ==
    ASSUME IInv, TypeOK', NEW c \in Cancellers, NEW kind \in {"cancel", "seller"},
           CancelReads(c, kind)
    PROVE  IInv'
<1> USE DEF IInv
<1> DEFINE doc == [order EXCEPT !.status = "cancelled"]
           h == [at |-> "restore", kind |-> kind, read |-> order, doc |-> doc,
                 owe |-> Nothing, told |-> FALSE]
           k == job'[c]
<1>1. c \in Callers /\ order \in Documents /\ job[c].at = "idle" /\ order.status = "open"
  BY DEF TypeOK, Callers, CancelReads
<1>2. k = h /\ OthersStay(c)
  <2>1. job' = [job EXCEPT ![c] = h]
    BY DEF CancelReads
  <2> HIDE DEF h
  <2> QED
    BY <1>1, <2>1, OneJobMoves DEF OthersStay
<1>3. UNCHANGED <<order, back, lost, given, refunds, blind>> /\ given \in Nat
  BY DEF CancelReads, TypeOK
<1>4. /\ doc.ful = order.ful /\ doc.total = order.total /\ doc.status = "cancelled"
      /\ doc.pay = order.pay /\ doc.refund = order.refund /\ doc.refunded = order.refunded
      /\ doc.v = order.v
  BY <1>1 DEF Documents
<1> HIDE DEF doc
<1>5. k.at = "restore" /\ k.kind = kind /\ k.read = order /\ k.doc = doc
  BY <1>2
<1> HIDE DEF h
<1>6. MoneyInv'
  <2>1. Covered(order)' /\ Covered(job[c].doc)'
    BY <1>3, <1>4, <1>5 DEF MoneyInv, Covered
  <2> QED
    BY <1>1, <1>2, <1>3, <2>1, MoneyStays DEF MoneyInv
<1>7. CopyInv'
  <2>1. CopyOf(k)
    BY <1>1, <1>4, <1>5 DEF CopyOf, PhasesOf, SavedOnce
  <2> QED
    BY <1>1, <1>2, <2>1, CopyStays
<1>8. AgeInv'
  <2>1. OrderAges
    BY <1>1, <1>3 DEF OrderAges, Documents
  <2>2. AgeOf(job[c])'
    BY <1>1, <1>3, <1>4, <1>5 DEF AgeOf, SavedOnce, Documents
  <2> QED
    BY <1>1, <1>2, <2>1, <2>2, AgeStays
<1>9. UnitsInv'
  <2>1. ASSUME NEW l \in Lines PROVE Returned(l)' = Returned(l) /\ Returned(l) \in Int
    <3>1. /\ Pending(c, l) = 0 /\ Pending(c, l)' = 0
          /\ Gone(l) \in Nat /\ Gone(l)' = Gone(l)
      BY <1>1, <1>3, <1>5 DEF Pending, Gone, TypeOK
    <3> QED
      BY <1>1, <1>2, <1>3, <3>1, ReturnedMoves
  <2>2. \A l \in Lines : Returned(l)' >= Ordered[l] - order'.ful[l]
    BY <1>3, <2>1 DEF UnitsInv
  <2> QED
    BY <1>1, <1>2, <1>3, <1>5, <2>1, <2>2, UnitsStay
<1>10. ShortfallInv'
  <2>1. PaidBy(job[c])'
    BY <1>5 DEF PaidBy
  <2> QED
    BY <1>1, <1>2, <1>3, <2>1, ShortfallStays DEF ShortfallInv
<1>11. BillMatchesTheBag'
  BY <1>3 DEF BillMatchesTheBag
<1> QED
  BY <1>6, <1>7, <1>8, <1>9, <1>10, <1>11

(* The claim, and what it makes the cancellation put back.                 *)
LEMMA CancelRestoresDoes ==
    ASSUME TypeOK, CopyInv, NEW c \in Cancellers, CancelRestores(c)
    PROVE  LET j == job[c]  k == job'[c] IN
           /\ OthersStay(c) /\ j.at = "restore" /\ j.kind \in {"cancel", "seller"}
           /\ k.kind = j.kind /\ k.read = j.read /\ k.doc = j.doc
           /\ k.at \in {"return", IF j.kind = "seller" THEN "save" ELSE "pay"}
           /\ \A l \in Lines : /\ Pending(c, l) = 0
                               /\ Pending(c, l)' = IF order.restored THEN 0 ELSE order.ful[l]
           /\ UNCHANGED <<back, lost, given, refunds, blind>>
           /\ order'.restored
           /\ \A f \in {"status", "ful", "total", "shortfall", "pay", "refund", "refunded", "v"} :
                 order'[f] = order[f]
<1> DEFINE j == job[c]
           k == job'[c]
           next == IF j.kind = "seller" THEN "save" ELSE "pay"
<1>1. c \in Callers /\ j \in Jobs /\ order \in Documents /\ j.at = "restore"
      /\ order.ful \in [Lines -> Nat]
  BY DEF TypeOK, Callers, CancelRestores, Documents
<1>2. j.kind \in {"cancel", "seller"}
  BY <1>1 DEF CopyInv, CopyOf, PhasesOf, Jobs
<1>3. /\ UNCHANGED <<back, lost, given, refunds, blind>>
      /\ order'.restored
      /\ \A f \in {"status", "ful", "total", "shortfall", "pay", "refund", "refunded", "v"} :
            order'[f] = order[f]
  BY <1>1 DEF CancelRestores, Documents
<1>4. next \in {"save", "pay"}
  OBVIOUS
<1>5. \/ order.restored /\ job' = [job EXCEPT ![c].at = next]
      \/ /\ ~order.restored
         /\ job' = [job EXCEPT ![c].at = IF order.ful = Nothing THEN next ELSE "return",
                               ![c].owe = order.ful]
  BY DEF CancelRestores
<1> HIDE DEF next
<1>6. \A l \in Lines : Pending(c, l) = 0
  BY <1>1 DEF Pending
<1>7. CASE order.restored /\ job' = [job EXCEPT ![c].at = next]
  <2>1. OthersStay(c) /\ k.kind = j.kind /\ k.read = j.read /\ k.doc = j.doc /\ k.at = next
    BY <1>1, <1>7 DEF TypeOK, OthersStay, Jobs
  <2>2. \A l \in Lines : Pending(c, l)' = 0
    BY <1>4, <2>1 DEF Pending
  <2> QED
    BY <1>1, <1>2, <1>3, <1>6, <1>7, <2>1, <2>2 DEF next
<1>8. CASE /\ ~order.restored
           /\ job' = [job EXCEPT ![c].at = IF order.ful = Nothing THEN next ELSE "return",
                                 ![c].owe = order.ful]
  <2>1. /\ OthersStay(c) /\ k.kind = j.kind /\ k.read = j.read /\ k.doc = j.doc
        /\ k.at = (IF order.ful = Nothing THEN next ELSE "return")
        /\ k.owe = order.ful
    BY <1>1, <1>8 DEF TypeOK, OthersStay, Jobs
  <2>2. \A l \in Lines : Pending(c, l)' = order.ful[l]
    BY <1>4, <2>1 DEF Pending, Nothing
  <2>3. k.at \in {"return", next}
    BY <2>1
  <2> QED
    BY <1>1, <1>2, <1>3, <1>6, <1>8, <2>1, <2>2, <2>3 DEF next
<1> QED
  BY <1>5, <1>7, <1>8

LEMMA CancelRestoresKeeps ==
    ASSUME IInv, TypeOK', NEW c \in Cancellers, CancelRestores(c)
    PROVE  IInv'
<1> USE DEF IInv
<1> DEFINE j == job[c]
           k == job'[c]
<1>1. c \in Callers /\ order \in Documents /\ order' \in Documents /\ given \in Nat
  BY DEF TypeOK, Callers
<1>2. CopyOf(j) /\ AgeOf(j) /\ Covered(j.doc)
  BY <1>1 DEF CopyInv, AgeInv, MoneyInv
<1>3. /\ OthersStay(c) /\ j.at = "restore" /\ j.kind \in {"cancel", "seller"}
      /\ k.kind = j.kind /\ k.read = j.read /\ k.doc = j.doc
      /\ k.at \in {"return", IF j.kind = "seller" THEN "save" ELSE "pay"}
      /\ \A l \in Lines : /\ Pending(c, l) = 0
                          /\ Pending(c, l)' = IF order.restored THEN 0 ELSE order.ful[l]
      /\ UNCHANGED <<back, lost, given, refunds, blind>>
      /\ order'.restored
      /\ \A f \in {"status", "ful", "total", "shortfall", "pay", "refund", "refunded", "v"} :
            order'[f] = order[f]
  BY CancelRestoresDoes
<1>4. /\ order'.status = order.status /\ order'.ful = order.ful /\ order'.total = order.total
      /\ order'.shortfall = order.shortfall /\ order'.pay = order.pay
      /\ order'.refund = order.refund /\ order'.refunded = order.refunded /\ order'.v = order.v
  BY <1>3
<1>5. ~SavedOnce(j) /\ ~SavedOnce(k)
  BY <1>3 DEF SavedOnce
<1>6. MoneyInv'
  <2>1. Covered(order)' /\ Covered(job[c].doc)'
    BY <1>2, <1>3, <1>4 DEF MoneyInv, Covered
  <2> QED
    BY <1>1, <1>3, <2>1, MoneyStays DEF MoneyInv
<1>7. CopyInv'
  <2>1. CopyOf(k)
    BY <1>2, <1>3, <1>5 DEF CopyOf, PhasesOf
  <2> QED
    BY <1>1, <1>3, <2>1, CopyStays
<1>8. AgeInv'
  <2>1. OrderAges
    BY <1>1, <1>4 DEF OrderAges, Documents
  <2>2. AgeOf(job[c])'
    BY <1>2, <1>3, <1>4, <1>5 DEF AgeOf, SavedOnce
  <2> QED
    BY <1>1, <1>3, <2>1, <2>2, AgeStays
<1>9. UnitsInv'
  <2>1. ASSUME NEW l \in Lines
        PROVE  /\ Returned(l)' >= Returned(l)
               /\ Returned(l)' >= Ordered[l] - order'.ful[l]
               /\ order.restored \/ Returned(l)' >= Ordered[l]
    <3>1. /\ order.ful[l] \in Nat /\ Gone(l) \in Nat /\ Ordered[l] \in Nat
          /\ Gone(l)' = Gone(l)
      BY <1>1, <1>3, FulfilmentAssumption DEF Documents, Gone, TypeOK, FulfilmentAssumption
    <3>2. /\ Returned(l)' = Returned(l) + (IF order.restored THEN 0 ELSE order.ful[l])
          /\ Returned(l) \in Int
      <4>1. /\ Returned(l) \in Int
            /\ Returned(l)' = Returned(l) + Gone(l)' + Pending(c, l)' - Gone(l) - Pending(c, l)
        BY <1>1, <1>3, ReturnedMoves
      <4>2. Pending(c, l) = 0 /\ Pending(c, l)' = IF order.restored THEN 0 ELSE order.ful[l]
        BY <1>3
      <4> QED
        BY <3>1, <4>1, <4>2
    <3>3. Returned(l) >= Ordered[l] - order.ful[l] /\ order'.ful[l] = order.ful[l]
      BY <1>4 DEF UnitsInv
    <3> QED
      BY <3>1, <3>2, <3>3
  <2> QED
    BY <1>1, <1>3, <2>1, UnitsStay
<1>10. ShortfallInv'
  <2>1. PaidBy(job[c])'
    BY <1>3 DEF PaidBy
  <2> QED
    BY <1>1, <1>3, <1>4, <2>1, ShortfallStays DEF ShortfallInv
<1>11. BillMatchesTheBag'
  BY <1>3, <1>4 DEF BillMatchesTheBag
<1> QED
  BY <1>6, <1>7, <1>8, <1>9, <1>10, <1>11

(* What a cancellation's refund does to its copy and to the money.         *)
PaidCancel(j, k) ==
    /\ j.at = "pay" /\ j.kind \in {"cancel", "seller"} /\ k.kind = j.kind
    /\ k.at = IF j.kind = "seller" THEN "final" ELSE "save"
    /\ k.read = j.read
    /\ k.doc.ful = j.doc.ful /\ k.doc.total = j.doc.total /\ k.doc.v = j.doc.v
    /\ k.doc.status = j.doc.status /\ k.doc.pay \in {j.doc.pay, "refunded"}

LEMMA CancelPaysDoes ==
    ASSUME TypeOK, MoneyInv, CopyInv, NEW c \in Cancellers, CancelPays(c)
    PROVE  /\ OthersStay(c) /\ PaidCancel(job[c], job'[c])
           /\ given' >= given /\ \A n \in refunds' : n <= given'
           /\ Covered(job[c].doc)'
<1> DEFINE j == job[c]
           k == job'[c]
           d == j.doc
           next == IF j.kind = "seller" THEN "final" ELSE "save"
           Record(how, pay) ==
               job' = [job EXCEPT ![c].at = next, ![c].doc.refund = how, ![c].doc.pay = pay,
                                  ![c].doc.refunded = d.total, ![c].told = TRUE]
<1>1. /\ c \in Callers /\ j \in Jobs /\ d \in Documents /\ d.total \in Nat
      /\ given \in Nat /\ refunds \subseteq Nat
  BY DEF TypeOK, Callers, Jobs, Documents
<1>2. j.at = "pay" /\ j.kind \in {"cancel", "seller"}
  BY <1>1 DEF CopyInv, CopyOf, PhasesOf, Jobs, CancelPays
<1>3. /\ \A n \in refunds : n <= given
      /\ d.refund = "processed" => d.refunded <= given
  BY <1>1 DEF MoneyInv, Covered
<1>4. ASSUME NEW how, NEW pay \in {d.pay, "refunded"}, Record(how, pay)
      PROVE  /\ OthersStay(c) /\ PaidCancel(j, k)
             /\ k.doc.refund = how /\ k.doc.refunded = d.total
  <2> HIDE DEF next
  <2>1. /\ OthersStay(c) /\ k.at = next /\ k.kind = j.kind /\ k.read = j.read
        /\ k.doc.ful = d.ful /\ k.doc.total = d.total /\ k.doc.v = d.v
        /\ k.doc.status = d.status /\ k.doc.pay = pay
        /\ k.doc.refund = how /\ k.doc.refunded = d.total
    BY <1>1, <1>4 DEF TypeOK, Jobs, Documents, OthersStay
  <2> QED
    BY <1>2, <1>4, <2>1 DEF PaidCancel, next
<1>5. ASSUME job' = [job EXCEPT ![c].at = next]
      PROVE  OthersStay(c) /\ PaidCancel(j, k) /\ k.doc = d
  <2> HIDE DEF next
  <2>1. /\ OthersStay(c) /\ k.at = next /\ k.kind = j.kind /\ k.read = j.read /\ k.doc = d
    BY <1>1, <1>5 DEF TypeOK, Jobs, OthersStay
  <2> QED
    BY <1>2, <2>1 DEF PaidCancel, next
<1>6. \/ GiveMoney(d.total) /\ Record("processed", "refunded")
      \/ MoneyFails /\ Record("failed", d.pay)
      \/ job' = [job EXCEPT ![c].at = next] /\ UNCHANGED <<given, refunds>>
  BY DEF CancelPays
<1>7. Covered(job[c].doc)' <=> (k.doc.refund = "processed" => k.doc.refunded <= given')
  BY DEF Covered
<1> HIDE DEF Record, next
<1>8. CASE GiveMoney(d.total) /\ Record("processed", "refunded")
  <2>1. given' = given + d.total /\ refunds' \subseteq refunds \cup {d.total}
    BY <1>8 DEF GiveMoney
  <2>2. OthersStay(c) /\ PaidCancel(j, k) /\ k.doc.refunded = d.total
    BY <1>4, <1>8
  <2> QED
    BY <1>1, <1>3, <1>7, <2>1, <2>2
<1>9. CASE MoneyFails /\ Record("failed", d.pay)
  <2>1. /\ OthersStay(c) /\ PaidCancel(j, k) /\ k.doc.refund = "failed"
        /\ UNCHANGED <<given, refunds>>
    BY <1>4, <1>9 DEF MoneyFails
  <2> QED
    BY <1>1, <1>3, <1>7, <2>1
<1>10. CASE job' = [job EXCEPT ![c].at = next] /\ UNCHANGED <<given, refunds>>
  BY <1>1, <1>3, <1>5, <1>7, <1>10
<1> QED
  BY <1>6, <1>8, <1>9, <1>10

LEMMA CancelPaysKeeps ==
    ASSUME IInv, TypeOK', NEW c \in Cancellers, CancelPays(c)
    PROVE  IInv'
<1> USE DEF IInv
<1> DEFINE j == job[c]
           k == job'[c]
<1>1. c \in Callers /\ order \in Documents /\ UNCHANGED <<order, back, lost, blind>>
      /\ given \in Nat /\ given' \in Nat
  BY DEF TypeOK, Callers, CancelPays
<1>2. CopyOf(j) /\ AgeOf(j)
  BY <1>1 DEF CopyInv, AgeInv
<1>3. /\ OthersStay(c) /\ PaidCancel(j, k)
      /\ given' >= given /\ \A n \in refunds' : n <= given'
      /\ Covered(job[c].doc)'
  BY CancelPaysDoes
<1>4. MoneyInv'
  <2>1. Covered(order)'
    BY <1>1, <1>3 DEF MoneyInv, Covered, Documents
  <2> QED
    BY <1>1, <1>3, <2>1, MoneyStays
<1>5. SavedOnce(j) <=> SavedOnce(k)
  BY <1>3 DEF SavedOnce, PaidCancel
<1>6. CopyInv'
  <2>1. CopyOf(k)
    BY <1>2, <1>3, <1>5 DEF CopyOf, PaidCancel, PhasesOf
  <2> QED
    BY <1>1, <1>3, <2>1, CopyStays
<1>7. AgeInv'
  <2>1. OrderAges
    BY <1>1 DEF OrderAges, Documents
  <2>2. AgeOf(job[c])'
    BY <1>1, <1>2, <1>3, <1>5 DEF AgeOf, PaidCancel, SavedOnce
  <2> QED
    BY <1>1, <1>3, <2>1, <2>2, AgeStays
<1>8. UnitsInv'
  <2>1. ASSUME NEW l \in Lines PROVE Returned(l)' = Returned(l) /\ Returned(l) \in Int
    <3>1. /\ Pending(c, l) = 0 /\ Pending(c, l)' = 0
          /\ Gone(l) \in Nat /\ Gone(l)' = Gone(l)
      BY <1>1, <1>3 DEF Pending, PaidCancel, Gone, TypeOK
    <3> QED
      BY <1>1, <1>3, <3>1, ReturnedMoves
  <2>2. \A l \in Lines : Returned(l)' >= Ordered[l] - order'.ful[l]
    BY <1>1, <2>1 DEF UnitsInv
  <2> QED
    BY <1>1, <1>3, <2>1, <2>2, UnitsStay DEF PaidCancel
<1>9. ShortfallInv'
  <2>1. order.shortfall \in Nat /\ PaidBy(job[c])'
    BY <1>1, <1>3 DEF PaidBy, PaidCancel, Documents
  <2> QED
    BY <1>1, <1>3, <2>1, ShortfallStays DEF ShortfallInv
<1>10. BillMatchesTheBag'
  BY <1>1 DEF BillMatchesTheBag
<1> QED
  BY <1>4, <1>6, <1>7, <1>8, <1>9, <1>10

(* A cancellation's save: the goods and the bill stay, the order is        *)
(* cancelled.                                                              *)
LEMMA CancelSavesDoes ==
    ASSUME IInv, NEW c \in Cancellers, CancelSaves(c)
    PROVE  LET j == job[c]  k == job'[c] IN
           /\ OthersStay(c) /\ j.at \in {"save", "final"} /\ j.kind \in {"cancel", "seller"}
           /\ \/ Return(c)
              \/ /\ j.at = "save" /\ k.kind = "seller" /\ k.at = "pay"
                 /\ k.read = j.doc /\ k.doc = j.doc
           /\ \A l \in Lines : Pending(c, l) = 0 /\ Pending(c, l)' = 0
           /\ UNCHANGED <<back, lost, given, refunds, blind>>
           /\ order'.v = IF j.at = "save" THEN order.v + 1 ELSE order.v
           /\ order'.status = "cancelled"
           /\ order'.ful = order.ful /\ order'.total = order.total
           /\ order'.pay \in {order.pay, "refunded"}
           /\ j.doc.pay # j.read.pay => order'.pay = "refunded"
           /\ order'.restored = order.restored
           /\ \/ order'.refund = j.doc.refund /\ order'.refunded = j.doc.refunded
              \/ order'.refund = order.refund /\ order'.refunded = order.refunded
<1> DEFINE j == job[c]
           k == job'[c]
           s == Saved(j)
<1>1. /\ TypeOK /\ c \in Callers /\ j \in Jobs /\ order \in Documents /\ s \in Documents
      /\ CopyOf(j) /\ AgeOf(j)
  BY SavedIsTyped DEF IInv, TypeOK, Callers, CopyInv, AgeInv
<1>2. /\ j.at \in {"save", "final"} /\ j.kind \in {"cancel", "seller"}
      /\ UNCHANGED <<back, lost, given, refunds, blind>>
  BY <1>1 DEF CancelSaves, CopyOf, PhasesOf, Jobs
<1>3. /\ OthersStay(c)
      /\ \/ Return(c)
         \/ /\ j.at = "save" /\ k.kind = "seller" /\ k.at = "pay"
            /\ k.read = j.doc /\ k.doc = j.doc
  <2>1. CASE Return(c)
    BY <1>1, <2>1, IdleSaysNothing
  <2>2. CASE /\ j.kind = "seller" /\ j.at = "save"
             /\ job' = [job EXCEPT ![c].at = "pay", ![c].read = j.doc]
    BY <1>1, <2>2 DEF TypeOK, OthersStay, Jobs
  <2> QED
    BY <2>1, <2>2 DEF CancelSaves
<1>4. \A l \in Lines : Pending(c, l) = 0 /\ Pending(c, l)' = 0
  BY <1>1, <1>2, <1>3, IdleSaysNothing DEF Pending
<1>5. /\ order'.status = s.status /\ order'.ful = s.ful /\ order'.total = s.total
      /\ order'.pay = s.pay /\ order'.refund = s.refund /\ order'.refunded = s.refunded
      /\ order'.restored = s.restored
      /\ order'.v = IF j.at = "save" THEN s.v + 1 ELSE s.v
  <2>1. order' = IF j.at = "save" THEN NextVersion(s) ELSE s
    BY DEF CancelSaves
  <2> HIDE DEF s
  <2> QED
    BY <1>1, <2>1 DEF NextVersion, Documents
<1>6. /\ \A l \in Lines : s.ful[l] = IF j.doc.ful[l] # j.read.ful[l] THEN j.doc.ful[l]
                                                                    ELSE order.ful[l]
      /\ s.ful \in [Lines -> Nat]
      /\ s.status = IF j.doc.status # j.read.status THEN j.doc.status ELSE order.status
      /\ s.total = IF j.doc.total # j.read.total THEN j.doc.total ELSE order.total
      /\ s.pay = IF j.doc.pay # j.read.pay THEN j.doc.pay ELSE order.pay
      /\ s.refund = IF j.told THEN j.doc.refund ELSE order.refund
      /\ s.refunded = IF j.told THEN j.doc.refunded ELSE order.refunded
      /\ s.restored = order.restored /\ s.v = order.v
  BY <1>1, SavedFields
<1> HIDE DEF s
<1>7. s.ful = order.ful
  BY <1>1, <1>2, <1>6 DEF CopyOf, Documents
<1>8. s.total = order.total /\ s.pay \in {order.pay, "refunded"}
      /\ (j.doc.pay # j.read.pay => s.pay = "refunded")
  BY <1>1, <1>2, <1>6 DEF CopyOf
<1>9. s.status = "cancelled"
  BY <1>1, <1>2, <1>6 DEF CopyOf, AgeOf, SavedOnce
<1> QED
  BY <1>2, <1>3, <1>4, <1>5, <1>6, <1>7, <1>8, <1>9

LEMMA CancelSavesKeeps ==
    ASSUME IInv, TypeOK', NEW c \in Cancellers, CancelSaves(c)
    PROVE  IInv'
<1> USE DEF IInv
<1> DEFINE j == job[c]
           k == job'[c]
<1>1. /\ c \in Callers /\ order \in Documents /\ order' \in Documents /\ given \in Nat
      /\ j \in Jobs /\ j.read \in Documents /\ j.doc \in Documents
  BY DEF TypeOK, Callers, Jobs
<1>2. CopyOf(j) /\ AgeOf(j) /\ Covered(j.doc)
  BY <1>1 DEF CopyInv, AgeInv, MoneyInv
<1>3. /\ OthersStay(c) /\ j.at \in {"save", "final"} /\ j.kind \in {"cancel", "seller"}
      /\ \/ Return(c)
         \/ /\ j.at = "save" /\ k.kind = "seller" /\ k.at = "pay"
            /\ k.read = j.doc /\ k.doc = j.doc
      /\ \A l \in Lines : Pending(c, l) = 0 /\ Pending(c, l)' = 0
      /\ UNCHANGED <<back, lost, given, refunds, blind>>
      /\ order'.v = IF j.at = "save" THEN order.v + 1 ELSE order.v
      /\ order'.status = "cancelled"
      /\ order'.ful = order.ful /\ order'.total = order.total
      /\ order'.pay \in {order.pay, "refunded"}
      /\ j.doc.pay # j.read.pay => order'.pay = "refunded"
      /\ order'.restored = order.restored
      /\ \/ order'.refund = j.doc.refund /\ order'.refunded = j.doc.refunded
         \/ order'.refund = order.refund /\ order'.refunded = order.refunded
  BY CancelSavesDoes
<1>4. MoneyInv'
  <2>1. Covered(order)'
    BY <1>2, <1>3 DEF MoneyInv, Covered
  <2>2. Covered(job[c].doc)'
    BY <1>1, <1>2, <1>3, IdleSaysNothing DEF Covered
  <2> QED
    BY <1>1, <1>3, <2>1, <2>2, MoneyStays DEF MoneyInv
<1>5. CopyInv'
  <2>1. CASE Return(c)
    BY <1>1, <1>3, <2>1, IdleSaysNothing, CopyStays
  <2>2. CASE k.kind = "seller" /\ k.at = "pay" /\ k.read = j.doc /\ k.doc = j.doc
    <3>1. CopyOf(k)
      BY <1>2, <1>3, <2>2 DEF CopyOf, PhasesOf, SavedOnce
    <3> QED
      BY <1>1, <1>3, <3>1, CopyStays
  <2> QED
    BY <1>3, <2>1, <2>2
<1>6. AgeInv'
  <2>1. OrderAges
    BY <1>1, <1>3 DEF OrderAges, Documents
  <2>2. AgeOf(job[c])'
    <3>1. CASE Return(c)
      BY <1>1, <3>1, IdleSaysNothing
    <3>2. CASE /\ j.at = "save" /\ k.kind = "seller" /\ k.at = "pay"
               /\ k.read = j.doc /\ k.doc = j.doc
      <4>1. k.read.v = j.read.v /\ j.read.v <= order.v /\ order'.v = order.v + 1
        BY <1>2, <1>3, <3>2 DEF AgeOf
      <4>2. j.read.v \in Nat /\ order.v \in Nat
        BY <1>1 DEF Documents
      <4>3. k.read.v <= order'.v /\ k.read.v # order'.v /\ k.doc.v = k.read.v
        BY <3>2, <4>1, <4>2
      <4>4. k.read.pay # "paid" => order'.pay # "paid"
        BY <1>2, <1>3, <3>2 DEF AgeOf
      <4> QED
        BY <1>3, <4>3, <4>4 DEF AgeOf
    <3> QED
      BY <1>3, <3>1, <3>2
  <2> QED
    BY <1>1, <1>3, <2>1, <2>2, AgeStays
<1>7. UnitsInv'
  <2>1. ASSUME NEW l \in Lines PROVE Returned(l)' = Returned(l) /\ Returned(l) \in Int
    <3>1. Gone(l) \in Nat /\ Gone(l)' = Gone(l)
      BY <1>3 DEF Gone, TypeOK
    <3> QED
      BY <1>1, <1>3, <3>1, ReturnedMoves
  <2>2. \A l \in Lines : Returned(l)' >= Ordered[l] - order'.ful[l]
    BY <1>3, <2>1 DEF UnitsInv
  <2>3. k.kind # "pick"
    BY <1>1, <1>3, IdleSaysNothing
  <2> QED
    BY <1>1, <1>3, <2>1, <2>2, <2>3, UnitsStay
<1>8. ShortfallInv'
  <2>1. PaidBy(job[c])'
    BY <1>1, <1>3, IdleSaysNothing DEF PaidBy
  <2> QED
    BY <1>1, <1>3, <2>1, ShortfallStays
<1>9. BillMatchesTheBag'
  BY <1>3 DEF BillMatchesTheBag
<1> QED
  BY <1>4, <1>5, <1>6, <1>7, <1>8, <1>9

(* No call moves when the gateway tells of a refund.                       *)
LEMMA RefundWebhookKeeps ==
    ASSUME IInv, TypeOK', NEW n \in refunds, RefundWebhook(n)
    PROVE  IInv'
<1> USE DEF IInv
<1>1. order \in Documents /\ n <= given
  BY DEF TypeOK, MoneyInv
<1>2. /\ UNCHANGED <<job, back, lost, given, refunds, blind>>
      /\ order'.ful = order.ful /\ order'.total = order.total /\ order'.v = order.v
      /\ order'.restored = order.restored /\ order'.status = order.status
      /\ order'.pay = "refunded" /\ order'.refund = "processed" /\ order'.refunded = n
  BY <1>1 DEF RefundWebhook, Documents
<1>3. MoneyInv'
  BY <1>1, <1>2 DEF MoneyInv, Covered
<1>4. CopyInv'
  BY <1>2 DEF CopyInv, CopyOf, SavedOnce
<1>5. AgeInv'
  BY <1>2 DEF AgeInv, AgeOf, SavedOnce
<1>6. UnitsInv'
  BY <1>2, ReturnedStays DEF UnitsInv
<1>7. ShortfallInv'
  BY <1>2 DEF ShortfallInv, PaidBy
<1>8. BillMatchesTheBag'
  BY <1>2 DEF BillMatchesTheBag
<1> QED
  BY <1>3, <1>4, <1>5, <1>6, <1>7, <1>8

LEMMA StutterKeeps ==
    ASSUME IInv, TypeOK', UNCHANGED vars
    PROVE  IInv'
<1> USE DEF IInv, vars
<1>1. MoneyInv' /\ CopyInv' /\ AgeInv' /\ ShortfallInv' /\ BillMatchesTheBag'
  BY DEF MoneyInv, Covered, CopyInv, CopyOf, SavedOnce, AgeInv, AgeOf, ShortfallInv, PaidBy,
         BillMatchesTheBag
<1>2. UnitsInv'
  BY ReturnedStays DEF UnitsInv
<1> QED
  BY <1>1, <1>2

LEMMA NextKeeps ==
    ASSUME IInv, [Next]_vars
    PROVE  IInv'
<1>1. TypeOK'
  BY NextIsTyped DEF IInv
<1> QED
  BY <1>1, PickReadsKeeps, PickPaysKeeps, PickSavesKeeps, PickSaveFailsKeeps, PutsBackKeeps,
     RestockFailsKeeps, DiesKeeps,
     CancelReadsKeeps, CancelRestoresKeeps, CancelPaysKeeps, CancelSavesKeeps,
     RefundWebhookKeeps, StutterKeeps DEF Next

(* Nothing is owed, given or put back yet, and all that was ordered is in  *)
(* the bag.                                                                *)
LEMMA InitIsSound ==
    ASSUME Init
    PROVE  IInv
<1>1. order = Fresh(method) /\ order \in Documents /\ method \in Methods
  BY FreshIsTyped DEF Init
<1>2. TypeOK
  <2>1. job \in [Callers -> Jobs]
    BY <1>1, IdleIsTyped DEF Init
  <2>2. calls \in 0..MaxCalls /\ failures \in 0..MaxFailures
    BY FulfilmentAssumption DEF Init, FulfilmentAssumption
  <2>3. back \in [Lines -> Nat] /\ lost \in [Lines -> Nat]
    BY DEF Init, Nothing
  <2> QED
    BY <1>1, <2>1, <2>2, <2>3 DEF Init, TypeOK
<1>3. /\ order.ful = Ordered /\ order.total = Bill(Ordered) /\ order.shortfall = 0
      /\ order.refund = "none" /\ ~order.restored
  BY <1>1 DEF Fresh
<1>4. \A c \in Callers : /\ job[c].at = "idle" /\ job[c].kind = "none"
                         /\ job[c].doc.refund = "none"
  BY DEF Init, Idle, Fresh
<1>5. MoneyInv /\ CopyInv /\ AgeInv /\ BillMatchesTheBag
  BY <1>3, <1>4 DEF MoneyInv, Covered, CopyInv, CopyOf, PhasesOf, AgeInv, AgeOf, Init,
                    BillMatchesTheBag
<1>6. UnitsInv
  <2>1. ASSUME NEW l \in Lines PROVE Returned(l) = 0 /\ Ordered[l] \in Nat
    <3>1. \A c \in Callers : PendingOf(l)[c] = 0
      BY <1>4 DEF PendingOf, Pending
    <3>2. Sum(PendingOf(l), Callers) = 0
      BY <3>1, SumOfNothing
    <3> QED
      BY <3>2, FulfilmentAssumption DEF Returned, Gone, Init, Nothing, FulfilmentAssumption
  <2> QED
    BY <1>3, <1>4, <2>1 DEF UnitsInv
<1>7. ShortfallInv
  BY <1>3, <1>4 DEF ShortfallInv, PaidBy, Init
<1> QED
  BY <1>2, <1>5, <1>6, <1>7 DEF IInv

-----------------------------------------------------------------------------
(* The results                                                             *)

(* The inductive invariant holds of every run.                             *)
THEOREM FulfilmentIsSound == Spec => []IInv
<1>1. Init => IInv
  BY InitIsSound
<1>2. IInv /\ [Next]_vars => IInv'
  BY NextKeeps
<1> QED
  BY <1>1, <1>2, PTL DEF Spec

(* Every document, of the order and of every call that works on a copy of  *)
(* it, keeps the shape the schema gives it; amounts, quantities, prices    *)
(* and what has been put back never become negative (adjustOrderFulfilment *)
(* computes them by subtraction).                                          *)
THEOREM FulfilmentIsTyped == Spec => []TypeOK
<1>1. IInv => TypeOK
  BY DEF IInv
<1> QED
  BY <1>1, FulfilmentIsSound, PTL

(* "A gateway that refuses is never written down as processed" (comment    *)
(* above the refund in adjustOrderFulfilment): for any number of pickers,  *)
(* cancellations and webhooks, the document never claims that more money   *)
(* went back than did.                                                     *)
THEOREM NothingIsRecordedThatWasNotGiven == Spec => []RecordedIsGiven
<1>1. IInv => RecordedIsGiven
  BY DEF IInv, MoneyInv, Covered, RecordedIsGiven
<1> QED
  BY <1>1, FulfilmentIsSound, PTL

(* The total of the document is the price of the quantities on it, however *)
(* many pickers save copies they read earlier, as long as every stale save *)
(* of a pick replaces a batch allocation, which the version check refuses  *)
(* (adjustOrderFulfilment, order.save).                                    *)
THEOREM TheBillFollowsTheBag == Spec => []BillMatchesTheBag
<1>1. IInv => BillMatchesTheBag
  BY DEF IInv
<1> QED
  BY <1>1, FulfilmentIsSound, PTL

(* "Units reserved at order time that will not be delivered go back"       *)
(* (header of order-fulfilment.service.js): once nobody is at work, what   *)
(* is not in the bag is on the shelf, of every line of every order, but    *)
(* for the units whose restock failed or whose server died before it.      *)
THEOREM WhatIsNotDeliveredGoesBack == Spec => []UndeliveredUnitsAreBack
<1>1. IInv => UndeliveredUnitsAreBack
  <2> SUFFICES ASSUME IInv, Quiet, NEW l \in Lines
               PROVE  back[l] + lost[l]
                        >= Ordered[l] - (IF order.restored THEN 0 ELSE order.ful[l])
    BY DEF UndeliveredUnitsAreBack
  <2>1. \A c \in Callers : PendingOf(l)[c] = 0
    BY DEF Quiet, PendingOf, Pending
  <2>2. Sum(PendingOf(l), Callers) = 0
    BY <2>1, SumOfNothing
  <2>3. /\ back[l] + lost[l] \in Nat /\ order.ful[l] \in Nat /\ Ordered[l] \in Nat
    BY FulfilmentAssumption DEF IInv, TypeOK, Documents, FulfilmentAssumption
  <2>4. Returned(l) = back[l] + lost[l]
    BY <2>2, <2>3 DEF Returned, Gone
  <2> QED
    BY <2>3, <2>4 DEF IInv, UnitsInv
<1> QED
  BY <1>1, FulfilmentIsSound, PTL

(* A customer who paid and whose order went short has the difference, or   *)
(* the document says that the refund failed: "a failed refund is visible   *)
(* as 'failed' rather than silently dropped" (refundShortfall).            *)
THEOREM ShortfallIsNotDropped == Spec => []ShortfallIsGivenOrSaidToFail
<1>1. IInv => ShortfallIsGivenOrSaidToFail
  BY DEF IInv, ShortfallInv, ShortfallIsGivenOrSaidToFail
<1> QED
  BY <1>1, FulfilmentIsSound, PTL
=============================================================================
