-------------------------- MODULE StockBatchesProofs --------------------------
(***************************************************************************)
(* Proofs about StockBatches, for any finite number of intakes, orders and *)
(* sweeps, and any sizes: the type invariant, that an intake on sale       *)
(* accounts for all its units, that nothing expired is picked, and that    *)
(* the count loses no more than what was sold or written off.              *)
(***************************************************************************)
EXTENDS StockBatches, FiniteSetTheorems, WellFoundedInduction, TLAPS

-----------------------------------------------------------------------------
(* A sum is the number of tokens, f[x] of them for every x.                *)
Units(x, n) == {x} \X (1..n)
Tokens(f, S) == UNION {Units(x, f[x]) : x \in S}
Sum(f, S) == Cardinality(Tokens(f, S))

-----------------------------------------------------------------------------
(* The inductive invariant                                                 *)

AllocOf(b) == [o \in Orders |-> order[o].alloc[b]]
Quantity == [o \in Orders |-> order[o].quantity]
(* What the sweeps have claimed and not yet taken out of the count.        *)
Claimed == [s \in Sweeps |-> sweep[s].units]
WrittenOff == {b \in Batches : batch[b].status = "written_off"}

(* An intake on sale accounts for all its units, and none has more than    *)
(* arrived.                                                                *)
BatchOf(b) ==
    /\ batch[b].status = "absent" => batch[b].left = 0 /\ b \notin counted
    /\ batch[b].status = "active" => batch[b].left + Sum(AllocOf(b), Orders) = Size[b]
    /\ batch[b].left <= Size[b]

BatchInv == \A b \in Batches : BatchOf(b)

(* An order is only allocated units while it picks, of intakes that were   *)
(* in date when it read the list and that it has not asked for yet.        *)
OrderOf(o) ==
    /\ order[o].at = "idle" => order[o].quantity = 0
    /\ order[o].at \in {"idle", "reserved"} => \A b \in Batches : order[o].alloc[b] = 0
    /\ order[o].old \subseteq expired
    /\ \A b \in order[o].old : order[o].alloc[b] = 0
    /\ \A b \in Batches : order[o].alloc[b] > 0 => batch[b].status # "absent"
    /\ order[o].at = "picking" => \A b \in Batches :
          order[o].seen[b] > 0 => order[o].alloc[b] = 0 /\ b \notin order[o].old /\ batch[b].status # "absent"

OrderInv == \A o \in Orders : OrderOf(o)

(* A sweep that has claimed an intake is the one that wrote it off.        *)
SweepOf(s) ==
    /\ sweep[s].at # "idle" => sweep[s].todo # {}
    /\ \A b \in sweep[s].todo : batch[b].status # "absent"
    /\ sweep[s].at \in {"zero", "subtract"} => batch[First(sweep[s].todo)].status = "written_off"
    /\ sweep[s].at \in {"idle", "claim"} => sweep[s].units = 0

SweepInv == \A s \in Sweeps : SweepOf(s)

(* What the count has lost, and is about to lose, was sold or written off. *)
CountInv ==
    count + Sum(Quantity, Orders) + Sum(Size, WrittenOff) >= Sum(Size, counted) + Sum(Claimed, Sweeps)

IInv == TypeOK /\ BatchInv /\ OrderInv /\ SweepInv /\ CountInv

-----------------------------------------------------------------------------
(* Sums                                                                    *)

(* A number of tokens of one thing is a finite set of that size.           *)
LEMMA UnitsSize ==
    ASSUME NEW x, NEW n \in Nat
    PROVE  IsFiniteSet(Units(x, n)) /\ Cardinality(Units(x, n)) = n
<1>1. IsFiniteSet({x}) /\ Cardinality({x}) = 1
  BY FS_Singleton
<1>2. IsFiniteSet(1..n) /\ Cardinality(1..n) = n
  BY FS_Interval
<1>3. IsFiniteSet({x} \X (1..n)) /\ Cardinality({x} \X (1..n)) = 1 * n
  BY <1>1, <1>2, FS_Product
<1> QED
  BY <1>3 DEF Units

LEMMA TokensAreFinite ==
    ASSUME NEW S, IsFiniteSet(S), NEW f, \A x \in S : f[x] \in Nat
    PROVE  IsFiniteSet(Tokens(f, S)) /\ Sum(f, S) \in Nat
<1> DEFINE T == {Units(x, f[x]) : x \in S}
<1>1. IsFiniteSet(T)
  <2> DEFINE g == [x \in S |-> Units(x, f[x])]
  <2>1. g \in Surjection(S, T)
    BY DEF Surjection
  <2> QED
    BY <2>1, FS_Surjection
<1>2. \A U \in T : IsFiniteSet(U)
  BY UnitsSize
<1> HIDE DEF T
<1>3. IsFiniteSet(UNION T)
  BY <1>1, <1>2, FS_UNION
<1>4. IsFiniteSet(Tokens(f, S))
  BY <1>3 DEF T, Tokens
<1> QED
  BY <1>4, FS_CardinalityType DEF Sum

(* A sum is one of its terms and the sum of the others.                    *)
LEMMA SumSplits ==
    ASSUME NEW S, IsFiniteSet(S), NEW f, \A x \in S : f[x] \in Nat, NEW x \in S
    PROVE  Sum(f, S) = f[x] + Sum(f, S \ {x})
<1> DEFINE A == Tokens(f, S \ {x})  B == Units(x, f[x])
<1>1. IsFiniteSet(A) /\ Cardinality(A) \in Nat
  <2>1. IsFiniteSet(S \ {x})
    BY FS_RemoveElement
  <2> QED
    BY <2>1, TokensAreFinite DEF Sum
<1>2. IsFiniteSet(B) /\ Cardinality(B) = f[x]
  BY UnitsSize
<1>3. Tokens(f, S) = A \cup B
  BY DEF Tokens
<1>4. A \cap B = {}
  BY DEF Tokens, Units
<1> HIDE DEF A, B
<1>5. Cardinality(A \cup B) = Cardinality(A) + Cardinality(B) - Cardinality(A \cap B)
  BY <1>1, <1>2, FS_Union
<1>6. Cardinality(A \cap B) = 0
  BY <1>4, FS_EmptySet, Zenon
<1>7. f[x] \in Nat
  OBVIOUS
<1>8. Cardinality(A \cup B) = f[x] + Cardinality(A)
  BY <1>1, <1>2, <1>5, <1>6, <1>7
<1> QED
  BY <1>3, <1>8 DEF Sum, A

(* What happens to a sum when one of its terms changes.                    *)
LEMMA SumMoves ==
    ASSUME NEW S, IsFiniteSet(S), NEW f, NEW g, NEW x \in S,
           \A y \in S : f[y] \in Nat /\ g[y] \in Nat,
           \A y \in S \ {x} : g[y] = f[y]
    PROVE  Sum(g, S) = Sum(f, S) - f[x] + g[x]
<1>1. Tokens(g, S \ {x}) = Tokens(f, S \ {x})
  BY DEF Tokens
<1>2. Sum(g, S \ {x}) = Sum(f, S \ {x})
  BY <1>1 DEF Sum
<1>3. Sum(f, S \ {x}) \in Nat
  BY FS_RemoveElement, TokensAreFinite
<1> QED
  BY <1>2, <1>3, SumSplits

LEMMA SumOfNothing ==
    ASSUME NEW S, NEW f, \A x \in S : f[x] = 0
    PROVE  Sum(f, S) = 0
<1>1. \A x \in S : Units(x, f[x]) = {}
  BY DEF Units
<1>2. Tokens(f, S) = {}
  BY <1>1 DEF Tokens
<1> QED
  BY <1>2, FS_EmptySet DEF Sum

LEMMA SumGrows ==
    ASSUME NEW S, IsFiniteSet(S), NEW x, x \notin S, NEW f, \A y \in S \cup {x} : f[y] \in Nat
    PROVE  Sum(f, S \cup {x}) = Sum(f, S) + f[x] /\ Sum(f, S) \in Nat
<1>1. IsFiniteSet(S \cup {x}) /\ (S \cup {x}) \ {x} = S
  BY FS_AddElement
<1>2. Sum(f, S) \in Nat
  BY TokensAreFinite
<1>3. Sum(f, S \cup {x}) = f[x] + Sum(f, S)
  BY <1>1, SumSplits
<1> QED
  BY <1>2, <1>3

(* The sum of the community modules is a recursive function on the subsets *)
(* of S.  There is one such function, namely Sum: it exists, and a smallest *)
(* subset on which another one differs from it cannot be.                  *)
LEMMA FoldIsSum ==
    ASSUME NEW S, IsFiniteSet(S), NEW f, \A x \in S : f[x] \in Nat
    PROVE  SumFunctionOnSet(f, S) = Sum(f, S)
<1> DEFINE IsFold(g) == g = [s \in SUBSET S |->
                               IF s = {} THEN 0
                               ELSE f[CHOOSE x \in s : TRUE] + g[s \ {CHOOSE x \in s : TRUE}]]
           fold == CHOOSE g : IsFold(g)
<1>1. \A s \in SUBSET S : IsFiniteSet(s)
  BY FS_Subset
<1>2. Sum(f, {}) = 0
  BY SumOfNothing
<1>3. ASSUME NEW s \in SUBSET S, s # {}, NEW x, x = CHOOSE y \in s : TRUE
      PROVE  x \in s /\ s \ {x} \in SUBSET S /\ Sum(f, s) = f[x] + Sum(f, s \ {x})
  <2>1. x \in s
    BY <1>3
  <2> QED
    BY <1>1, <2>1, SumSplits
<1>4. IsFold([s \in SUBSET S |-> Sum(f, s)])
  BY <1>2, <1>3
<1>5. IsFold(fold)
  BY <1>4, Zenon
<1> HIDE DEF fold
<1>6. \A s \in SUBSET S : fold[s] = Sum(f, s)
  <2> DEFINE Bad == {s \in SUBSET S : fold[s] # Sum(f, s)}
  <2>1. SUFFICES ASSUME Bad # {} PROVE FALSE
    OBVIOUS
  <2>2. Bad \subseteq FiniteSubsetsOf(S)
    BY <1>1 DEF FiniteSubsetsOf
  <2> HIDE DEF Bad
  <2>3. PICK s \in Bad : \A t \in Bad : <<t, s>> \notin StrictSubsetOrdering(S)
    BY <2>1, <2>2, FS_StrictSubsetOrderingWellFounded, WFMin, Zenon
  <2> USE DEF Bad
  <2>4. s # {}
    <3>1. fold[{}] = 0
      BY <1>5
    <3> QED
      BY <1>2, <3>1
  <2> DEFINE x == CHOOSE y \in s : TRUE
  <2>5. x \in s /\ Sum(f, s) = f[x] + Sum(f, s \ {x})
    BY <1>3, <2>4
  <2>6. s \ {x} \in SUBSET S /\ <<s \ {x}, s>> \in StrictSubsetOrdering(S)
    BY <2>5 DEF StrictSubsetOrdering
  <2>7. fold[s \ {x}] = Sum(f, s \ {x})
    BY <2>3, <2>6
  <2>8. fold[s] = f[x] + fold[s \ {x}]
    BY <1>5, <2>4
  <2> QED
    BY <2>5, <2>7, <2>8
<1>7. SumFunctionOnSet(f, S) = fold[S]
  BY DEF SumFunctionOnSet, FoldFunctionOnSet, MapThenFoldSet, fold
<1> QED
  BY <1>6, <1>7

(* The least rank of some intakes is one of them.                          *)
LEMMA FirstIsThere ==
    ASSUME NEW S \in SUBSET Nat, S # {}
    PROVE  First(S) \in S
<1>1. PICK x \in S : \A y \in S : <<y, x>> \notin OpToRel(<, Nat)
  BY NatLessThanWellFounded, WFMin, Zenon
<1>2. \A y \in S : x <= y
  <2>1. \A y \in S : <<y, x>> \in Nat \X Nat /\ <<y, x>>[1] = y /\ <<y, x>>[2] = x
    OBVIOUS
  <2>2. \A y \in S : ~(y < x)
    BY <1>1, <2>1 DEF OpToRel
  <2> QED
    BY <2>2
<1> QED
  BY <1>2 DEF First, Min

-----------------------------------------------------------------------------
(* Types                                                                   *)

LEMMA ConstantsAreTyped ==
    /\ IsFiniteSet(Orders) /\ IsFiniteSet(Batches) /\ IsFiniteSet(Sweeps)
    /\ Batches \subseteq Nat
    /\ \A b \in Batches : Size[b] \in Nat
    /\ Quantities \cup {0} \subseteq Nat
    /\ MaxCrashes \in Nat
BY StockBatchesAssumption DEF StockBatchesAssumption

LEMMA OrderIsTyped ==
    ASSUME TypeOK, NEW o \in Orders
    PROVE  /\ order[o].quantity \in Nat /\ order[o].old \subseteq Dated
           /\ order[o].seen \in [Batches -> Nat] /\ order[o].alloc \in [Batches -> Nat]
<1>1. /\ order[o].quantity \in Quantities \cup {0} /\ order[o].old \subseteq Dated
      /\ order[o].seen \in [Batches -> Nat] /\ order[o].alloc \in [Batches -> Nat]
  BY DEF TypeOK
<1> QED
  BY <1>1, ConstantsAreTyped

LEMMA AllocatedIsNat ==
    ASSUME TypeOK, NEW o \in Orders
    PROVE  Allocated(o) \in Nat /\ Outstanding(o) \in Int
<1>1. order[o].alloc \in [Batches -> Nat] /\ order[o].quantity \in Nat
  BY OrderIsTyped
<1>2. IsFiniteSet(Batches)
  BY StockBatchesAssumption DEF StockBatchesAssumption
<1>3. Sum(order[o].alloc, Batches) \in Nat
  BY <1>1, <1>2, TokensAreFinite
<1>4. Allocated(o) = Sum(order[o].alloc, Batches)
  BY <1>1, <1>2, FoldIsSum DEF Allocated, SumFunction
<1> QED
  BY <1>1, <1>3, <1>4 DEF Outstanding

(* What a Pick asks for: some units of one intake, no more than were seen. *)
LEMMA PickAsks ==
    ASSUME TypeOK, NEW o \in Orders, Pick(o)
    PROVE  \E b \in Batches, n \in Nat \ {0} :
               /\ order[o].seen[b] > 0 /\ n <= order[o].seen[b] /\ Take(o, b, n)
<1> DEFINE b == First(Listed(o))
           n == Min({order[o].seen[b], Outstanding(o)})
<1>1. Listed(o) \in SUBSET Nat /\ Listed(o) # {} /\ Outstanding(o) > 0
  BY StockBatchesAssumption DEF Pick, Listed, StockBatchesAssumption
<1>2. b \in Listed(o)
  BY <1>1, FirstIsThere
<1> HIDE DEF b
<1>3. b \in Batches /\ order[o].seen[b] > 0 /\ order[o].seen[b] \in Nat
  BY <1>2 DEF Listed, TypeOK
<1>4. Outstanding(o) \in Int
  BY AllocatedIsNat
<1>5. n \in Nat \ {0} /\ n <= order[o].seen[b]
  <2> DEFINE x == order[o].seen[b]  y == Outstanding(o)
  <2>1. x \in Nat \ {0} /\ y \in Nat \ {0}
    BY <1>1, <1>3, <1>4
  <2> HIDE DEF x, y
  <2>2. \E z \in {x, y} : \A u \in {x, y} : z <= u
    BY <2>1
  <2>3. Min({x, y}) \in {x, y} /\ \A u \in {x, y} : Min({x, y}) <= u
    BY <2>2 DEF Min
  <2> QED
    BY <2>1, <2>3 DEF x, y
<1>6. Take(o, b, n)
  BY DEF Pick, b
<1> HIDE DEF n
<1> QED
  BY <1>3, <1>5, <1>6

BatchRecords == [status : {"absent", "active", "written_off"}, left : Nat]
OrderRecords ==
    [at : {"idle", "reserved", "picking", "held", "returning", "ended"},
     quantity : Quantities \cup {0}, old : SUBSET Dated,
     seen : [Batches -> Nat], alloc : [Batches -> Nat]]
SweepRecords ==
    [at : {"idle", "claim", "zero", "subtract"}, todo : SUBSET Batches, units : Nat]

LEMMA TypesByName ==
    TypeOK <=> /\ count \in Nat
               /\ batch \in [Batches -> BatchRecords]
               /\ counted \subseteq Batches
               /\ expired \subseteq Dated
               /\ order \in [Orders -> OrderRecords]
               /\ sweep \in [Sweeps -> SweepRecords]
               /\ crashes \in 0..MaxCrashes
BY DEF TypeOK, BatchRecords, OrderRecords, SweepRecords

LEMMA OrderTypes ==
    ASSUME TypeOK, count' \in Nat, batch' \in [Batches -> BatchRecords],
           order' \in [Orders -> OrderRecords], UNCHANGED <<counted, expired, sweep, crashes>>
    PROVE  TypeOK'
BY DEF TypeOK, BatchRecords, OrderRecords

LEMMA SweepTypes ==
    ASSUME TypeOK, count' \in Nat, batch' \in [Batches -> BatchRecords],
           sweep' \in [Sweeps -> SweepRecords], crashes' \in 0..MaxCrashes,
           UNCHANGED <<counted, expired, order>>
    PROVE  TypeOK'
BY DEF TypeOK, BatchRecords, SweepRecords

(* A conditional update claims the units, or passes the intake over.       *)
LEMMA TakeIsTyped ==
    ASSUME TypeOK, NEW o \in Orders, NEW b \in Batches, NEW n \in Nat, Take(o, b, n)
    PROVE  batch' \in [Batches -> BatchRecords] /\ order' \in [Orders -> OrderRecords]
<1>1. /\ batch \in [Batches -> BatchRecords] /\ order \in [Orders -> OrderRecords]
      /\ batch[b].left \in Nat
  BY TypesByName DEF BatchRecords
<1>2. CASE batch[b].left >= n
  <2>1. batch[b].left - n \in Nat
    BY <1>1, <1>2
  <2>2. batch' = [batch EXCEPT ![b].left = batch[b].left - n]
    BY <1>2 DEF Take
  <2>3. batch' \in [Batches -> BatchRecords]
    BY <1>1, <2>1, <2>2 DEF BatchRecords
  <2>4. order' = [order EXCEPT ![o].seen[b] = 0, ![o].alloc[b] = n]
    BY <1>2 DEF Take
  <2>5. order' \in [Orders -> OrderRecords]
    BY <1>1, <2>4 DEF OrderRecords
  <2> QED
    BY <2>3, <2>5
<1>3. CASE ~(batch[b].left >= n)
  <2>1. order' = [order EXCEPT ![o].seen[b] = 0] /\ batch' = batch
    BY <1>3 DEF Take
  <2>2. 0 \in Nat
    OBVIOUS
  <2>3. order' \in [Orders -> OrderRecords]
    BY <1>1, <2>1, <2>2 DEF OrderRecords
  <2> QED
    BY <1>1, <2>1, <2>3
<1> QED
  BY <1>2, <1>3

LEMMA OrderStepIsTyped ==
    ASSUME TypeOK, NEW o \in Orders, OrderStep(o)
    PROVE  TypeOK'
<1>1. /\ count \in Nat /\ batch \in [Batches -> BatchRecords] /\ order \in [Orders -> OrderRecords]
      /\ expired \subseteq Dated
  BY TypesByName
<1>2. /\ UNCHANGED <<counted, expired, sweep, crashes>>
  BY DEF OrderStep, Reserve, ReadBatches, Pick, Picked, GiveUp, Restock, ReturnTo
<1>3. ASSUME NEW n \in Quantities, Reserve(o, n) PROVE TypeOK'
  <2>1. n \in Nat /\ count' \in Nat /\ n \in Quantities \cup {0} /\ expired \in SUBSET Dated
    BY <1>1, <1>3, ConstantsAreTyped DEF Reserve
  <2> DEFINE q == [order[o] EXCEPT !.at = "reserved", !.quantity = n, !.old = expired]
  <2>2. q \in OrderRecords
    BY <1>1, <2>1 DEF OrderRecords
  <2>3. order' \in [Orders -> OrderRecords]
    <3>1. order' = [order EXCEPT ![o] = q]
      BY <1>1, <1>3 DEF Reserve, OrderRecords
    <3> HIDE DEF q
    <3> QED
      BY <1>1, <2>2, <3>1
  <2>4. batch' = batch
    BY <1>3 DEF Reserve
  <2> QED
    BY <1>1, <1>2, <2>1, <2>3, <2>4, OrderTypes
<1>4. CASE ReadBatches(o)
  <2> DEFINE saw == [b \in Batches |-> IF Sellable(b) THEN batch[b].left ELSE 0]
  <2>1. saw \in [Batches -> Nat]
    BY <1>1 DEF BatchRecords
  <2>2. /\ order' = [order EXCEPT ![o].at = "picking", ![o].seen = saw]
        /\ count' = count /\ batch' = batch
    BY <1>4 DEF ReadBatches
  <2> HIDE DEF saw
  <2>3. order' \in [Orders -> OrderRecords]
    BY <1>1, <2>1, <2>2 DEF OrderRecords
  <2> QED
    BY <1>1, <1>2, <2>2, <2>3, OrderTypes
<1>5. CASE Pick(o)
  <2>1. PICK b \in Batches, n \in Nat \ {0} : Take(o, b, n)
    BY <1>5, PickAsks
  <2>2. batch' \in [Batches -> BatchRecords] /\ order' \in [Orders -> OrderRecords]
    BY <2>1, TakeIsTyped
  <2>3. count' = count
    BY <1>5 DEF Pick
  <2> QED
    BY <1>1, <1>2, <2>2, <2>3, OrderTypes
<1>6. CASE Picked(o)
  <2>1. NoUnits \in [Batches -> Nat]
    BY DEF NoUnits
  <2>2. /\ order' = [order EXCEPT ![o].at = "held", ![o].seen = NoUnits]
        /\ count' = count /\ batch' = batch
    BY <1>6 DEF Picked
  <2>3. order' \in [Orders -> OrderRecords]
    BY <1>1, <2>1, <2>2 DEF OrderRecords
  <2> QED
    BY <1>1, <1>2, <2>2, <2>3, OrderTypes
<1>7. CASE GiveUp(o)
  <2>1. order' = [order EXCEPT ![o].at = "returning"] /\ count' = count /\ batch' = batch
    BY <1>7 DEF GiveUp
  <2>2. order' \in [Orders -> OrderRecords]
    BY <1>1, <2>1 DEF OrderRecords
  <2> QED
    BY <1>1, <1>2, <2>1, <2>2, OrderTypes
<1>8. ASSUME NEW b \in Batches, ReturnTo(o, b) PROVE TypeOK'
  <2>1. batch[b].left + order[o].alloc[b] \in Nat
    BY <1>1 DEF BatchRecords, OrderRecords
  <2>2. batch' \in [Batches -> BatchRecords]
    <3>1. batch' = batch \/ batch' = [batch EXCEPT ![b].left = batch[b].left + order[o].alloc[b]]
      BY <1>8 DEF ReturnTo
    <3> QED
      BY <1>1, <2>1, <3>1 DEF BatchRecords
  <2>3. order' = [order EXCEPT ![o].alloc[b] = 0] /\ count' = count
    BY <1>8 DEF ReturnTo
  <2>4. 0 \in Nat
    OBVIOUS
  <2>5. order' \in [Orders -> OrderRecords]
    BY <1>1, <2>3, <2>4 DEF OrderRecords
  <2> QED
    BY <1>1, <1>2, <2>2, <2>3, <2>5, OrderTypes
<1>9. CASE Restock(o)
  <2>1. count + order[o].quantity \in Nat
    BY <1>1, OrderIsTyped
  <2>2. /\ order' = [order EXCEPT ![o].at = "ended", ![o].quantity = 0]
        /\ count' = count + order[o].quantity /\ batch' = batch
    BY <1>9 DEF Restock
  <2>3. order' \in [Orders -> OrderRecords]
    BY <1>1, <2>2 DEF OrderRecords
  <2> QED
    BY <1>1, <1>2, <2>1, <2>2, <2>3, OrderTypes
<1> QED
  BY <1>3, <1>4, <1>5, <1>6, <1>7, <1>8, <1>9 DEF OrderStep

(* A sweep at work looks at the first of the intakes it found.             *)
LEMMA SweepLooks ==
    ASSUME TypeOK, SweepInv, NEW s \in Sweeps, sweep[s].at # "idle"
    PROVE  First(sweep[s].todo) \in sweep[s].todo /\ First(sweep[s].todo) \in Batches
<1>1. sweep[s].todo # {}
  BY DEF SweepInv, SweepOf
<1>2. sweep[s].todo \subseteq Batches /\ sweep[s].todo \in SUBSET Nat
  BY ConstantsAreTyped DEF TypeOK
<1> QED
  BY <1>1, <1>2, FirstIsThere

LEMMA SweepStepIsTyped ==
    ASSUME TypeOK, SweepInv, NEW s \in Sweeps, SweepStep(s)
    PROVE  TypeOK'
<1> DEFINE w == sweep[s]
           b == First(w.todo)
<1>1. /\ count \in Nat /\ batch \in [Batches -> BatchRecords] /\ sweep \in [Sweeps -> SweepRecords]
      /\ expired \subseteq Dated /\ Dated \subseteq Batches /\ crashes \in 0..MaxCrashes
      /\ w.todo \subseteq Batches /\ w.units \in Nat
  BY TypesByName, StockBatchesAssumption DEF StockBatchesAssumption, SweepRecords
<1>2. UNCHANGED <<counted, expired, order>>
  BY DEF SweepStep, FindExpired, ClaimWriteOff, Zero, Subtract, CrashSweep
<1>3. w.at # "idle" => b \in Batches
  BY SweepLooks
<1>4. NextBatch(s) => sweep' \in [Sweeps -> SweepRecords]
  <2> DEFINE rest == w.todo \ {b}
             at == IF rest = {} THEN "idle" ELSE "claim"
  <2>1. [at |-> at, todo |-> rest, units |-> 0] \in SweepRecords
    BY <1>1 DEF SweepRecords
  <2>2. NextBatch(s) => sweep' = [sweep EXCEPT ![s] = [at |-> at, todo |-> rest, units |-> 0]]
    BY DEF NextBatch
  <2> HIDE DEF rest, at
  <2> QED
    BY <1>1, <2>1, <2>2
<1>5. CASE FindExpired(s)
  <2> DEFINE found == {c \in expired : batch[c].status = "active" /\ batch[c].left > 0}
  <2>1. found \subseteq Batches
    BY <1>1
  <2>2. /\ sweep' = [sweep EXCEPT ![s].at = "claim", ![s].todo = found]
        /\ count' = count /\ batch' = batch /\ crashes' = crashes
    BY <1>5 DEF FindExpired
  <2> HIDE DEF found
  <2>3. sweep' \in [Sweeps -> SweepRecords]
    BY <1>1, <2>1, <2>2 DEF SweepRecords
  <2> QED
    BY <1>1, <1>2, <2>2, <2>3, SweepTypes
<1>6. CASE ClaimWriteOff(s)
  <2>1. b \in Batches
    BY <1>3, <1>6 DEF ClaimWriteOff
  <2>2. \/ /\ batch' = [batch EXCEPT ![b].status = "written_off"]
           /\ sweep' = [sweep EXCEPT ![s].at = "zero", ![s].units = batch[b].left]
        \/ NextBatch(s) /\ UNCHANGED batch
    BY <1>6 DEF ClaimWriteOff
  <2>3. count' = count /\ crashes' = crashes
    BY <1>6 DEF ClaimWriteOff
  <2> HIDE DEF b, w
  <2>4. batch[b].left \in Nat
    BY <1>1, <2>1 DEF BatchRecords
  <2>5. batch' \in [Batches -> BatchRecords]
    BY <1>1, <2>1, <2>2 DEF BatchRecords
  <2>6. sweep' \in [Sweeps -> SweepRecords]
    <3>1. CASE sweep' = [sweep EXCEPT ![s].at = "zero", ![s].units = batch[b].left]
      BY <1>1, <2>4, <3>1 DEF SweepRecords
    <3> QED
      BY <1>4, <2>2, <3>1
  <2> QED
    BY <1>1, <1>2, <2>3, <2>5, <2>6, SweepTypes
<1>7. CASE Zero(s)
  <2>1. batch' = [batch EXCEPT ![b].left = 0] /\ count' = count /\ crashes' = crashes
    BY <1>7 DEF Zero
  <2>2. NextBatch(s) \/ sweep' = [sweep EXCEPT ![s].at = "subtract"]
    BY <1>7 DEF Zero
  <2>3. 0 \in Nat
    OBVIOUS
  <2> HIDE DEF b
  <2>4. batch' \in [Batches -> BatchRecords]
    BY <1>1, <2>1, <2>3 DEF BatchRecords
  <2>5. sweep' \in [Sweeps -> SweepRecords]
    BY <1>1, <1>4, <2>2 DEF SweepRecords
  <2> QED
    BY <1>1, <1>2, <2>1, <2>4, <2>5, SweepTypes
<1>8. CASE Subtract(s)
  <2>1. count' \in Nat
    BY <1>1, <1>8 DEF Subtract
  <2>2. NextBatch(s) /\ batch' = batch /\ crashes' = crashes
    BY <1>8 DEF Subtract
  <2> QED
    BY <1>1, <1>2, <1>4, <2>1, <2>2, SweepTypes
<1>9. CASE CrashSweep(s)
  <2>1. crashes' \in 0..MaxCrashes
    BY <1>1, <1>9, ConstantsAreTyped DEF CrashSweep
  <2>2. sweep' = [sweep EXCEPT ![s] = Asleep] /\ batch' = batch /\ count' = count
    BY <1>9 DEF CrashSweep
  <2>3. Asleep \in SweepRecords
    BY DEF Asleep, SweepRecords
  <2>4. sweep' \in [Sweeps -> SweepRecords]
    BY <1>1, <2>2, <2>3
  <2> QED
    BY <1>1, <1>2, <2>1, <2>2, <2>4, SweepTypes
<1> QED
  BY <1>5, <1>6, <1>7, <1>8, <1>9 DEF SweepStep

LEMMA IntakeStepIsTyped ==
    ASSUME TypeOK, NEW b \in Batches, Receive(b) \/ CountReceived(b) \/ Expire(b)
    PROVE  TypeOK'
<1>1. CASE Receive(b)
  BY <1>1, ConstantsAreTyped DEF Receive, TypeOK
<1>2. CASE CountReceived(b)
  BY <1>2, ConstantsAreTyped DEF CountReceived, TypeOK
<1>3. CASE Expire(b)
  BY <1>3 DEF Expire, TypeOK
<1> QED
  BY <1>1, <1>2, <1>3

-----------------------------------------------------------------------------
(* What a step leaves alone                                                *)

(* Nothing arrives twice, and what was written off stays so.               *)
Onward ==
    \A b \in Batches :
        /\ batch[b].status # "absent" => batch'[b].status # "absent"
        /\ batch[b].status = "written_off" => batch'[b].status = "written_off"

LEMMA TakeIsOnward ==
    ASSUME TypeOK, NEW o \in Orders, NEW b \in Batches, NEW n \in Nat, Take(o, b, n)
    PROVE  \A c \in Batches : batch'[c].status = batch[c].status
<1> DEFINE less == batch[b].left - n
<1>1. batch' = batch \/ batch' = [batch EXCEPT ![b].left = less]
  BY DEF Take
<1> HIDE DEF less
<1> QED
  BY <1>1 DEF TypeOK

LEMMA OrderStepIsOnward ==
    ASSUME TypeOK, NEW o \in Orders, OrderStep(o)
    PROVE  Onward /\ \A b \in Batches : batch'[b].status = batch[b].status
<1>1. CASE Pick(o)
  BY <1>1, PickAsks, TakeIsOnward DEF Onward
<1>2. ASSUME NEW b \in Batches, ReturnTo(o, b) PROVE \A c \in Batches : batch'[c].status = batch[c].status
  BY <1>2 DEF ReturnTo, TypeOK
<1>3. CASE UNCHANGED batch
  BY <1>3 DEF Onward
<1> QED
  BY <1>1, <1>2, <1>3 DEF OrderStep, Reserve, ReadBatches, Picked, GiveUp, Restock, Onward

LEMMA SweepStepIsOnward ==
    ASSUME TypeOK, SweepInv, NEW s \in Sweeps, SweepStep(s)
    PROVE  Onward
<1> DEFINE b == First(sweep[s].todo)
<1>1. CASE ClaimWriteOff(s)
  <2>1. b \in Batches
    BY <1>1, SweepLooks DEF ClaimWriteOff
  <2>2. \/ batch[b].status = "active" /\ batch' = [batch EXCEPT ![b].status = "written_off"]
        \/ batch' = batch
    BY <1>1 DEF ClaimWriteOff
  <2> HIDE DEF b
  <2> QED
    BY <2>1, <2>2 DEF Onward, TypeOK
<1>2. CASE Zero(s)
  <2>1. b \in Batches
    BY <1>2, SweepLooks DEF Zero
  <2>2. batch' = [batch EXCEPT ![b].left = 0]
    BY <1>2 DEF Zero
  <2> HIDE DEF b
  <2> QED
    BY <2>1, <2>2 DEF Onward, TypeOK
<1> QED
  BY <1>1, <1>2 DEF SweepStep, FindExpired, Subtract, CrashSweep, Onward

LEMMA IntakeStepIsOnward ==
    ASSUME TypeOK, NEW b \in Batches, Receive(b) \/ CountReceived(b) \/ Expire(b)
    PROVE  Onward
BY DEF Receive, CountReceived, Expire, Onward, TypeOK, Absent

LEMMA BatchStays ==
    ASSUME BatchInv, NEW b \in Batches, batch'[b] = batch[b], b \in counted' => b \in counted,
           \A o \in Orders : order'[o].alloc[b] = order[o].alloc[b]
    PROVE  BatchOf(b)'
<1>1. AllocOf(b)' = AllocOf(b)
  BY DEF AllocOf
<1> QED
  BY <1>1 DEF BatchInv, BatchOf

LEMMA OrderStays ==
    ASSUME TypeOK, OrderInv, NEW o \in Orders, order'[o] = order[o],
           expired \subseteq expired', Onward
    PROVE  OrderOf(o)'
BY DEF OrderOf, OrderInv, TypeOK, Onward

LEMMA SweepStays ==
    ASSUME TypeOK, SweepInv, NEW s \in Sweeps, sweep'[s] = sweep[s], Onward
    PROVE  SweepOf(s)'
<1>1. sweep[s].at # "idle" => First(sweep[s].todo) \in Batches
  BY SweepLooks
<1>2. sweep[s].todo \subseteq Batches
  BY DEF TypeOK
<1> QED
  BY <1>1, <1>2 DEF SweepOf, SweepInv, Onward

LEMMA CountStays ==
    ASSUME CountInv, count' = count, counted' = counted, WrittenOff' = WrittenOff,
           Quantity' = Quantity, Claimed' = Claimed
    PROVE  CountInv'
BY DEF CountInv

LEMMA TotalsAreNats ==
    ASSUME TypeOK
    PROVE  /\ \A b \in Batches : Sum(AllocOf(b), Orders) \in Nat
           /\ Sum(Quantity, Orders) \in Nat
           /\ Sum(Size, WrittenOff) \in Nat
           /\ Sum(Size, counted) \in Nat
           /\ Sum(Claimed, Sweeps) \in Nat
<1>1. \A S \in SUBSET Batches : Sum(Size, S) \in Nat
  BY ConstantsAreTyped, FS_Subset, TokensAreFinite
<1>2. WrittenOff \in SUBSET Batches /\ counted \in SUBSET Batches
  BY DEF WrittenOff, TypeOK
<1>3. \A o \in Orders : Quantity[o] \in Nat
  BY OrderIsTyped DEF Quantity
<1>4. \A s \in Sweeps : Claimed[s] \in Nat
  BY DEF Claimed, TypeOK
<1>5. \A b \in Batches : \A o \in Orders : AllocOf(b)[o] \in Nat
  BY OrderIsTyped DEF AllocOf
<1> QED
  BY <1>1, <1>2, <1>3, <1>4, <1>5, ConstantsAreTyped, TokensAreFinite

-----------------------------------------------------------------------------
(* Intakes                                                                 *)

(* An order claims units, or returns them: the two sides of an intake's    *)
(* account move together.                                                  *)
LEMMA AllocMoves ==
    ASSUME TypeOK, NEW b \in Batches, NEW o \in Orders, NEW n \in Nat,
           order'[o].alloc[b] = n,
           \A p \in Orders \ {o} : order'[p].alloc[b] = order[p].alloc[b]
    PROVE  Sum(AllocOf(b), Orders)' = Sum(AllocOf(b), Orders) - order[o].alloc[b] + n
<1> DEFINE f == [p \in Orders |-> order[p].alloc[b]]
           g == [p \in Orders |-> order'[p].alloc[b]]
<1>1. \A p \in Orders : f[p] = order[p].alloc[b] /\ g[p] = order'[p].alloc[b] /\ f[p] \in Nat
  BY OrderIsTyped
<1>2. AllocOf(b) = f /\ AllocOf(b)' = g
  BY DEF AllocOf
<1> HIDE DEF f, g
<1>3. \A p \in Orders : f[p] \in Nat /\ g[p] \in Nat
  BY <1>1
<1>4. \A p \in Orders \ {o} : g[p] = f[p]
  BY <1>1
<1>5. Sum(g, Orders) = Sum(f, Orders) - f[o] + g[o]
  BY <1>3, <1>4, ConstantsAreTyped, SumMoves
<1> QED
  BY <1>1, <1>2, <1>5

LEMMA IntakeKeepsBatches ==
    ASSUME IInv, NEW b \in Batches, Receive(b) \/ CountReceived(b) \/ Expire(b)
    PROVE  BatchInv'
<1> USE DEF IInv
<1>1. CASE Receive(b)
  <2>1. \A c \in Batches \ {b} : batch'[c] = batch[c]
    BY <1>1 DEF Receive, TypeOK
  <2>2. order' = order /\ counted' = counted
    BY <1>1 DEF Receive
  <2>3. \A c \in Batches \ {b} : BatchOf(c)'
    BY <2>1, <2>2, BatchStays
  <2>4. BatchOf(b)'
    <3>1. \A o \in Orders : AllocOf(b)[o] = 0
      BY <1>1, OrderIsTyped DEF Receive, Absent, OrderInv, OrderOf, AllocOf
    <3>2. AllocOf(b)' = AllocOf(b)
      BY <2>2 DEF AllocOf
    <3>3. Sum(AllocOf(b), Orders) = 0
      BY <3>1, SumOfNothing
    <3>4. batch'[b].status = "active" /\ batch'[b].left = Size[b] /\ Size[b] \in Nat
      BY <1>1, ConstantsAreTyped DEF Receive, TypeOK
    <3> QED
      BY <3>2, <3>3, <3>4 DEF BatchOf
  <2> QED
    BY <2>3, <2>4 DEF BatchInv
<1>2. CASE CountReceived(b)
  <2>1. order' = order /\ batch' = batch /\ counted' = counted \cup {b}
    BY <1>2 DEF CountReceived
  <2>2. \A c \in Batches \ {b} : BatchOf(c)'
    BY <2>1, BatchStays
  <2>3. batch[b].status # "absent"
    <3>1. batch[b] # Absent /\ batch[b] \in BatchRecords
      BY <1>2, TypesByName DEF CountReceived
    <3>2. batch[b].status = "absent" => batch[b].left = 0
      BY DEF BatchInv, BatchOf
    <3> QED
      BY <3>1, <3>2 DEF Absent, BatchRecords
  <2>4. BatchOf(b)'
    <3>1. AllocOf(b)' = AllocOf(b)
      BY <2>1 DEF AllocOf
    <3> QED
      BY <2>1, <2>3, <3>1 DEF BatchInv, BatchOf
  <2> QED
    BY <2>2, <2>4 DEF BatchInv
<1>3. CASE Expire(b)
  BY <1>3, BatchStays DEF Expire, BatchInv
<1> QED
  BY <1>1, <1>2, <1>3

LEMMA TakeKeepsBatches ==
    ASSUME IInv, NEW o \in Orders, NEW b \in Batches, NEW n \in Nat, Take(o, b, n),
           order[o].alloc[b] = 0, batch[b].status # "absent", counted' = counted
    PROVE  BatchInv'
<1> USE DEF IInv
<1>1. CASE batch[b].left >= n
  <2>1. batch' = [batch EXCEPT ![b].left = batch[b].left - n]
    BY <1>1 DEF Take
  <2>2. order' = [order EXCEPT ![o].seen[b] = 0, ![o].alloc[b] = n]
    BY <1>1 DEF Take
  <2>3. /\ \A c \in Batches \ {b} : batch'[c] = batch[c]
        /\ batch'[b].left = batch[b].left - n /\ batch'[b].status = batch[b].status
    BY <2>1 DEF TypeOK
  <2>4. /\ \A p \in Orders \ {o} : order'[p] = order[p]
        /\ \A c \in Batches \ {b} : order'[o].alloc[c] = order[o].alloc[c]
        /\ order'[o].alloc[b] = n
    BY <2>2 DEF TypeOK
  <2>5. \A c \in Batches \ {b} : BatchOf(c)'
    <3>1. \A c \in Batches \ {b} : \A p \in Orders : order'[p].alloc[c] = order[p].alloc[c]
      BY <2>4
    <3> QED
      BY <2>3, <3>1, BatchStays
  <2>6. BatchOf(b)'
    <3>1. Sum(AllocOf(b), Orders)' = Sum(AllocOf(b), Orders) + n /\ Sum(AllocOf(b), Orders) \in Nat
      BY <2>4, AllocMoves, TotalsAreNats
    <3>2. batch[b].left \in Nat /\ Size[b] \in Nat
      BY ConstantsAreTyped DEF TypeOK
    <3>3. batch[b].status = "active" => batch[b].left + Sum(AllocOf(b), Orders) = Size[b]
      BY DEF BatchInv, BatchOf
    <3>4. batch[b].left <= Size[b]
      BY DEF BatchInv, BatchOf
    <3>5. batch'[b].left <= Size[b]
      BY <2>3, <3>2, <3>4
    <3>6. batch'[b].status = "active" => batch'[b].left + Sum(AllocOf(b), Orders)' = Size[b]
      BY <2>3, <3>1, <3>2, <3>3
    <3> QED
      BY <2>3, <3>5, <3>6 DEF BatchOf
  <2> QED
    BY <2>5, <2>6 DEF BatchInv
<1>2. CASE ~(batch[b].left >= n)
  <2>1. batch' = batch /\ order' = [order EXCEPT ![o].seen[b] = 0]
    BY <1>2 DEF Take
  <2>2. \A p \in Orders : order'[p].alloc = order[p].alloc
    BY <2>1 DEF TypeOK
  <2> QED
    BY <2>1, <2>2, BatchStays DEF BatchInv
<1> QED
  BY <1>1, <1>2

LEMMA ReturnKeepsBatches ==
    ASSUME IInv, NEW o \in Orders, NEW b \in Batches, ReturnTo(o, b)
    PROVE  BatchInv'
<1> USE DEF IInv
<1> DEFINE n == order[o].alloc[b]
<1>1. order' = [order EXCEPT ![o].alloc[b] = 0] /\ counted' = counted
  BY DEF ReturnTo
<1>2. /\ \A p \in Orders \ {o} : order'[p] = order[p]
      /\ \A c \in Batches \ {b} : order'[o].alloc[c] = order[o].alloc[c]
      /\ order'[o].alloc[b] = 0
  BY <1>1 DEF TypeOK
<1>3. n \in Nat /\ n > 0 /\ batch[b].left \in Nat /\ Size[b] \in Nat
  BY OrderIsTyped, ConstantsAreTyped DEF ReturnTo, TypeOK
<1>4. \/ /\ batch[b].status = "active"
         /\ batch' = [batch EXCEPT ![b].left = batch[b].left + n]
      \/ /\ batch[b].status # "active"
         /\ batch' = batch
  BY DEF ReturnTo
<1>5. /\ Sum(AllocOf(b), Orders)' = Sum(AllocOf(b), Orders) - n + 0
      /\ Sum(AllocOf(b), Orders) \in Nat
  BY <1>2, AllocMoves, TotalsAreNats
<1>6. Sum(AllocOf(b), Orders) - n >= 0
  <2> DEFINE f == [p \in Orders |-> order'[p].alloc[b]]
  <2>1. \A p \in Orders : f[p] \in Nat
    BY <1>2, OrderIsTyped
  <2>2. Sum(f, Orders) \in Nat
    BY <2>1, ConstantsAreTyped, TokensAreFinite
  <2>3. Sum(AllocOf(b), Orders)' = Sum(f, Orders)
    BY DEF AllocOf
  <2> HIDE DEF f, n
  <2> QED
    BY <1>3, <1>5, <2>2, <2>3
<1>7. \A c \in Batches \ {b} : batch'[c] = batch[c]
  BY <1>4 DEF TypeOK
<1>8. \A c \in Batches \ {b} : BatchOf(c)'
  <2>1. \A c \in Batches \ {b} : \A p \in Orders : order'[p].alloc[c] = order[p].alloc[c]
    BY <1>2
  <2> QED
    BY <1>1, <1>7, <2>1, BatchStays
<1> HIDE DEF n
<1>9. BatchOf(b)'
  <2>1. batch[b].status # "absent"
    BY <1>3 DEF OrderInv, OrderOf, n
  <2>2. batch[b].status = "active" => batch[b].left + Sum(AllocOf(b), Orders) = Size[b]
    BY DEF BatchInv, BatchOf
  <2>3. batch[b].left <= Size[b]
    BY DEF BatchInv, BatchOf
  <2>4. CASE batch[b].status = "active" /\ batch' = [batch EXCEPT ![b].left = batch[b].left + n]
    <3>1. batch'[b].status = "active" /\ batch'[b].left = batch[b].left + n
      BY <2>4 DEF TypeOK
    <3>2. batch'[b].left + Sum(AllocOf(b), Orders)' = Size[b] /\ batch'[b].left <= Size[b]
      BY <1>3, <1>5, <1>6, <2>2, <2>4, <3>1
    <3> QED
      BY <3>1, <3>2 DEF BatchOf
  <2>5. CASE batch[b].status # "active" /\ batch' = batch
    BY <2>1, <2>3, <2>5 DEF BatchOf
  <2> QED
    BY <1>4, <2>4, <2>5
<1> QED
  BY <1>8, <1>9 DEF BatchInv

LEMMA OrderStepKeepsBatches ==
    ASSUME IInv, NEW o \in Orders, OrderStep(o)
    PROVE  BatchInv'
<1> USE DEF IInv
<1>1. CASE Pick(o)
  <2>1. PICK b \in Batches, n \in Nat \ {0} : order[o].seen[b] > 0 /\ Take(o, b, n)
    BY <1>1, PickAsks
  <2>2. order[o].alloc[b] = 0 /\ batch[b].status # "absent"
    BY <1>1, <2>1 DEF OrderInv, OrderOf, Pick
  <2> QED
    BY <1>1, <2>1, <2>2, TakeKeepsBatches DEF Pick
<1>2. ASSUME NEW n \in Quantities, Reserve(o, n) PROVE BatchInv'
  <2>1. batch' = batch /\ counted' = counted /\ \A p \in Orders : order'[p].alloc = order[p].alloc
    BY <1>2 DEF Reserve, TypeOK
  <2> QED
    BY <2>1, BatchStays DEF BatchInv
<1>3. CASE ReadBatches(o) \/ Picked(o) \/ GiveUp(o) \/ Restock(o)
  <2>1. batch' = batch /\ counted' = counted
    BY <1>3 DEF ReadBatches, Picked, GiveUp, Restock
  <2>2. \A p \in Orders : order'[p].alloc = order[p].alloc
    <3> DEFINE saw == [b \in Batches |-> IF Sellable(b) THEN batch[b].left ELSE 0]
    <3>1. \/ order' = [order EXCEPT ![o].at = "picking", ![o].seen = saw]
          \/ order' = [order EXCEPT ![o].at = "held", ![o].seen = NoUnits]
          \/ order' = [order EXCEPT ![o].at = "returning"]
          \/ order' = [order EXCEPT ![o].at = "ended", ![o].quantity = 0]
      BY <1>3 DEF ReadBatches, Picked, GiveUp, Restock
    <3> HIDE DEF saw
    <3> QED
      BY <3>1 DEF TypeOK
  <2> QED
    BY <2>1, <2>2, BatchStays DEF BatchInv
<1> QED
  BY <1>1, <1>2, <1>3, ReturnKeepsBatches DEF OrderStep

LEMMA SweepStepKeepsBatches ==
    ASSUME IInv, NEW s \in Sweeps, SweepStep(s)
    PROVE  BatchInv'
<1> USE DEF IInv
<1> DEFINE b == First(sweep[s].todo)
<1>1. order' = order /\ counted' = counted
  BY DEF SweepStep, FindExpired, ClaimWriteOff, Zero, Subtract, CrashSweep
<1>2. ASSUME batch' = batch PROVE BatchInv'
  BY <1>1, <1>2, BatchStays DEF BatchInv
<1>3. ASSUME NEW c \in Batches, batch'[c].status = "written_off", batch'[c].left <= batch[c].left,
             batch'[c].left \in Nat, \A d \in Batches \ {c} : batch'[d] = batch[d]
      PROVE  BatchInv'
  <2>1. \A d \in Batches \ {c} : BatchOf(d)'
    BY <1>1, <1>3, BatchStays
  <2>2. batch[c].left <= Size[c] /\ batch[c].left \in Nat /\ Size[c] \in Nat
    BY <1>3, ConstantsAreTyped DEF BatchInv, BatchOf, TypeOK
  <2>3. BatchOf(c)'
    BY <1>3, <2>2 DEF BatchOf
  <2> QED
    BY <2>1, <2>3 DEF BatchInv
<1>4. CASE ClaimWriteOff(s)
  <2>1. CASE batch[b].status = "active"
    <3>1. b \in Batches
      BY <1>4, SweepLooks DEF ClaimWriteOff
    <3>2. batch' = [batch EXCEPT ![b].status = "written_off"]
      BY <1>4, <2>1 DEF ClaimWriteOff
    <3> HIDE DEF b
    <3>3. batch[b].left \in Nat
      BY <3>1 DEF TypeOK
    <3>4. /\ batch'[b].status = "written_off" /\ batch'[b].left = batch[b].left
          /\ \A c \in Batches \ {b} : batch'[c] = batch[c]
      BY <3>1, <3>2 DEF TypeOK
    <3> QED
      BY <1>3, <3>1, <3>3, <3>4
  <2>2. CASE batch[b].status # "active"
    BY <1>2, <1>4, <2>2 DEF ClaimWriteOff
  <2> QED
    BY <2>1, <2>2
<1>5. CASE Zero(s)
  <2>1. b \in Batches /\ batch' = [batch EXCEPT ![b].left = 0]
    BY <1>5, SweepLooks DEF Zero
  <2>2. batch[b].status = "written_off"
    BY <1>5 DEF Zero, SweepInv, SweepOf
  <2> HIDE DEF b
  <2>3. batch[b].left \in Nat
    BY <2>1 DEF TypeOK
  <2>4. /\ batch'[b].status = "written_off" /\ batch'[b].left = 0
        /\ \A c \in Batches \ {b} : batch'[c] = batch[c]
    BY <2>1, <2>2 DEF TypeOK
  <2> QED
    BY <1>3, <2>1, <2>3, <2>4
<1> QED
  BY <1>2, <1>4, <1>5 DEF SweepStep, FindExpired, Subtract, CrashSweep

-----------------------------------------------------------------------------
(* Orders                                                                  *)

(* An order that is not picking has no list to pick from.                  *)
LEMMA OthersKeepOrders ==
    ASSUME IInv, order' = order, expired \subseteq expired', Onward
    PROVE  OrderInv'
<1>1. \A o \in Orders : OrderOf(o)'
  BY OrderStays DEF IInv
<1> QED
  BY <1>1 DEF OrderInv

LEMMA PickKeepsOrders ==
    ASSUME IInv, NEW o \in Orders, Pick(o)
    PROVE  OrderOf(o)'
<1> USE DEF IInv
<1>1. PICK b \in Batches, n \in Nat \ {0} : order[o].seen[b] > 0 /\ Take(o, b, n)
  BY PickAsks
<1>2. \A c \in Batches : batch'[c].status = batch[c].status
  BY <1>1, TakeIsOnward
<1>3. OrderOf(o) /\ order[o].at = "picking" /\ expired' = expired
  BY DEF OrderInv, Pick
<1>4. order[o].alloc[b] = 0 /\ b \notin order[o].old /\ batch[b].status # "absent"
  BY <1>1, <1>3 DEF OrderOf
<1>5. order[o].old \subseteq Batches
  BY StockBatchesAssumption, OrderIsTyped DEF StockBatchesAssumption
<1>6. /\ order'[o].at = "picking" /\ order'[o].old = order[o].old
      /\ order'[o].seen[b] = 0
      /\ order'[o].alloc[b] = n \/ order'[o].alloc[b] = order[o].alloc[b]
      /\ \A c \in Batches \ {b} : /\ order'[o].seen[c] = order[o].seen[c]
                                  /\ order'[o].alloc[c] = order[o].alloc[c]
  <2>1. \/ order' = [order EXCEPT ![o].seen[b] = 0, ![o].alloc[b] = n]
        \/ order' = [order EXCEPT ![o].seen[b] = 0]
    BY <1>1 DEF Take
  <2> QED
    BY <1>3, <2>1 DEF TypeOK
<1>7. \A c \in order'[o].old : order'[o].alloc[c] = 0
  BY <1>3, <1>4, <1>5, <1>6 DEF OrderOf
<1>8. \A c \in Batches : order'[o].alloc[c] > 0 => batch'[c].status # "absent"
  BY <1>2, <1>3, <1>4, <1>6 DEF OrderOf
<1>9. \A c \in Batches : order'[o].seen[c] > 0 =>
         order'[o].alloc[c] = 0 /\ c \notin order'[o].old /\ batch'[c].status # "absent"
  BY <1>2, <1>3, <1>6 DEF OrderOf
<1> QED
  BY <1>3, <1>6, <1>7, <1>8, <1>9 DEF OrderOf

LEMMA OrderStepKeepsOrders ==
    ASSUME IInv, NEW o \in Orders, OrderStep(o)
    PROVE  OrderInv'
<1> USE DEF IInv
<1>1. Onward /\ \A b \in Batches : batch'[b].status = batch[b].status
  BY OrderStepIsOnward
<1>2. expired' = expired /\ \A p \in Orders \ {o} : order'[p] = order[p]
  BY DEF OrderStep, Reserve, ReadBatches, Pick, Take, Picked, GiveUp, Restock, ReturnTo, TypeOK
<1>3. \A p \in Orders \ {o} : OrderOf(p)'
  BY <1>1, <1>2, OrderStays
<1> SUFFICES OrderOf(o)'
  BY <1>3 DEF OrderInv
<1>4. OrderOf(o) /\ \A b \in Batches : order[o].alloc[b] \in Nat
  BY OrderIsTyped DEF OrderInv
<1>5. Dated \subseteq Batches /\ expired \subseteq Dated
  BY StockBatchesAssumption DEF StockBatchesAssumption, TypeOK
<1>6. ASSUME NEW n \in Quantities, Reserve(o, n) PROVE OrderOf(o)'
  <2>1. /\ order[o].at = "idle"
        /\ order'[o].at = "reserved" /\ order'[o].old = expired
        /\ order'[o].alloc = order[o].alloc
    BY <1>6 DEF Reserve, TypeOK
  <2> QED
    BY <1>1, <1>2, <1>4, <1>5, <2>1 DEF OrderOf
<1>7. CASE ReadBatches(o)
  <2>1. /\ order[o].at = "reserved"
        /\ order'[o].at = "picking" /\ order'[o].old = order[o].old
        /\ order'[o].alloc = order[o].alloc
        /\ \A b \in Batches : order'[o].seen[b] = IF Sellable(b) THEN batch[b].left ELSE 0
    BY <1>7 DEF ReadBatches, TypeOK
  <2>2. \A b \in Batches : order'[o].seen[b] > 0 => batch[b].status = "active" /\ b \notin expired
    BY <2>1 DEF Sellable
  <2> QED
    BY <1>1, <1>2, <1>4, <2>1, <2>2 DEF OrderOf
<1>8. CASE Pick(o)
  BY <1>8, PickKeepsOrders
<1>9. CASE Picked(o) \/ GiveUp(o)
  <2>1. /\ order'[o].at \in {"held", "returning"} /\ order'[o].old = order[o].old
        /\ order'[o].alloc = order[o].alloc
    BY <1>9 DEF Picked, GiveUp, TypeOK
  <2> QED
    BY <1>1, <1>2, <1>4, <2>1 DEF OrderOf
<1>10. ASSUME NEW b \in Batches, ReturnTo(o, b) PROVE OrderOf(o)'
  <2>1. /\ order'[o].at = "returning" /\ order'[o].old = order[o].old
        /\ order'[o].alloc[b] = 0
        /\ \A c \in Batches \ {b} : order'[o].alloc[c] = order[o].alloc[c]
    BY <1>10 DEF ReturnTo, TypeOK
  <2>2. order[o].old \subseteq Batches
    BY <1>4, <1>5 DEF OrderOf
  <2> QED
    BY <1>1, <1>2, <1>4, <2>1, <2>2 DEF OrderOf
<1>11. CASE Restock(o)
  <2>1. /\ order'[o].at = "ended" /\ order'[o].old = order[o].old
        /\ order'[o].alloc = order[o].alloc
    BY <1>11 DEF Restock, TypeOK
  <2> QED
    BY <1>1, <1>2, <1>4, <2>1 DEF OrderOf
<1> QED
  BY <1>6, <1>7, <1>8, <1>9, <1>10, <1>11 DEF OrderStep

-----------------------------------------------------------------------------
(* Sweeps                                                                  *)

LEMMA OthersKeepSweeps ==
    ASSUME IInv, sweep' = sweep, Onward
    PROVE  SweepInv'
<1>1. \A s \in Sweeps : SweepOf(s)'
  BY SweepStays DEF IInv
<1> QED
  BY <1>1 DEF SweepInv

LEMMA SweepStepKeepsSweeps ==
    ASSUME IInv, NEW s \in Sweeps, SweepStep(s)
    PROVE  SweepInv'
<1> USE DEF IInv
<1> DEFINE b == First(sweep[s].todo)
<1>1. Onward
  BY SweepStepIsOnward
<1>2. \A r \in Sweeps \ {s} : sweep'[r] = sweep[r]
  BY DEF SweepStep, FindExpired, ClaimWriteOff, Zero, Subtract, CrashSweep, NextBatch, TypeOK
<1>3. \A r \in Sweeps \ {s} : SweepOf(r)'
  BY <1>1, <1>2, SweepStays
<1> SUFFICES SweepOf(s)'
  BY <1>3 DEF SweepInv
<1>4. SweepOf(s) /\ sweep[s].todo \subseteq Batches
  BY DEF SweepInv, TypeOK
<1>5. ASSUME NextBatch(s) PROVE SweepOf(s)'
  <2>1. /\ sweep'[s].todo = sweep[s].todo \ {b} /\ sweep'[s].units = 0
        /\ sweep'[s].at = IF sweep[s].todo \ {b} = {} THEN "idle" ELSE "claim"
    BY <1>5 DEF NextBatch, TypeOK
  <2> HIDE DEF b
  <2> QED
    BY <1>1, <1>4, <2>1 DEF SweepOf, Onward
<1>6. CASE FindExpired(s)
  <2> DEFINE found == {c \in expired : batch[c].status = "active" /\ batch[c].left > 0}
  <2>1. found # {} /\ \A c \in found : batch[c].status # "absent"
    BY <1>6 DEF FindExpired
  <2>2. /\ sweep[s].at = "idle" /\ batch' = batch
        /\ sweep' = [sweep EXCEPT ![s].at = "claim", ![s].todo = found]
    BY <1>6 DEF FindExpired
  <2> HIDE DEF found
  <2>3. sweep'[s].at = "claim" /\ sweep'[s].todo = found /\ sweep'[s].units = sweep[s].units
    BY <2>2 DEF TypeOK
  <2> QED
    BY <1>4, <2>1, <2>2, <2>3 DEF SweepOf
<1>7. CASE ClaimWriteOff(s)
  <2>1. CASE batch[b].status = "active"
    <3>1. b \in sweep[s].todo /\ b \in Batches /\ sweep[s].at = "claim"
      BY <1>7, SweepLooks DEF ClaimWriteOff
    <3>2. /\ batch' = [batch EXCEPT ![b].status = "written_off"]
          /\ sweep' = [sweep EXCEPT ![s].at = "zero", ![s].units = batch[b].left]
      BY <1>7, <2>1 DEF ClaimWriteOff
    <3>3. sweep'[s].at = "zero" /\ sweep'[s].todo = sweep[s].todo
      BY <3>2 DEF TypeOK
    <3>4. batch'[b].status = "written_off"
      BY <3>1, <3>2 DEF TypeOK
    <3>5. First(sweep'[s].todo) = b
      BY <3>3
    <3> HIDE DEF b
    <3> QED
      BY <1>1, <1>4, <3>1, <3>3, <3>4, <3>5 DEF SweepOf, Onward
  <2>2. CASE batch[b].status # "active"
    BY <1>5, <1>7, <2>2 DEF ClaimWriteOff
  <2> QED
    BY <2>1, <2>2
<1>8. CASE Zero(s)
  <2>1. CASE sweep' = [sweep EXCEPT ![s].at = "subtract"]
    <3>1. b \in sweep[s].todo /\ b \in Batches /\ sweep[s].at = "zero"
      BY <1>8, SweepLooks DEF Zero
    <3>2. sweep'[s].at = "subtract" /\ sweep'[s].todo = sweep[s].todo
      BY <2>1 DEF TypeOK
    <3>3. batch[b].status = "written_off"
      BY <1>4, <3>1 DEF SweepOf
    <3>4. First(sweep'[s].todo) = b
      BY <3>2
    <3> HIDE DEF b
    <3> QED
      BY <1>1, <1>4, <3>1, <3>2, <3>3, <3>4 DEF SweepOf, Onward
  <2> QED
    BY <1>5, <1>8, <2>1 DEF Zero
<1>9. CASE Subtract(s)
  BY <1>5, <1>9 DEF Subtract
<1>10. CASE CrashSweep(s)
  <2>1. sweep'[s] = Asleep
    BY <1>10 DEF CrashSweep, TypeOK
  <2> QED
    BY <2>1 DEF Asleep, SweepOf
<1> QED
  BY <1>6, <1>7, <1>8, <1>9, <1>10 DEF SweepStep

-----------------------------------------------------------------------------
(* The count                                                               *)

(* An order's share of the count, and a sweep's, change one at a time.     *)
LEMMA QuantityMoves ==
    ASSUME TypeOK, NEW o \in Orders, NEW n \in Nat, order'[o].quantity = n,
           \A p \in Orders \ {o} : order'[p].quantity = order[p].quantity
    PROVE  Sum(Quantity, Orders)' = Sum(Quantity, Orders) - order[o].quantity + n
<1> DEFINE f == [p \in Orders |-> order[p].quantity]
           g == [p \in Orders |-> order'[p].quantity]
<1>1. \A p \in Orders : f[p] = order[p].quantity /\ g[p] = order'[p].quantity /\ f[p] \in Nat
  BY OrderIsTyped
<1>2. Quantity = f /\ Quantity' = g
  BY DEF Quantity
<1> HIDE DEF f, g
<1>3. \A p \in Orders : f[p] \in Nat /\ g[p] \in Nat
  BY <1>1
<1>4. \A p \in Orders \ {o} : g[p] = f[p]
  BY <1>1
<1>5. Sum(g, Orders) = Sum(f, Orders) - f[o] + g[o]
  BY <1>3, <1>4, ConstantsAreTyped, SumMoves
<1> QED
  BY <1>1, <1>2, <1>5

LEMMA ClaimMoves ==
    ASSUME TypeOK, NEW s \in Sweeps, NEW n \in Nat, sweep'[s].units = n,
           \A r \in Sweeps \ {s} : sweep'[r] = sweep[r]
    PROVE  Sum(Claimed, Sweeps)' = Sum(Claimed, Sweeps) - sweep[s].units + n
<1> DEFINE f == [r \in Sweeps |-> sweep[r].units]
           g == [r \in Sweeps |-> sweep'[r].units]
<1>1. \A r \in Sweeps : f[r] = sweep[r].units /\ g[r] = sweep'[r].units /\ f[r] \in Nat
  BY DEF TypeOK
<1>2. Claimed = f /\ Claimed' = g
  BY DEF Claimed
<1> HIDE DEF f, g
<1>3. \A r \in Sweeps : f[r] \in Nat /\ g[r] \in Nat
  BY <1>1
<1>4. \A r \in Sweeps \ {s} : g[r] = f[r]
  BY <1>1
<1>5. Sum(g, Sweeps) = Sum(f, Sweeps) - f[s] + g[s]
  BY <1>3, <1>4, ConstantsAreTyped, SumMoves
<1> QED
  BY <1>1, <1>2, <1>5

LEMMA IntakeKeepsCount ==
    ASSUME IInv, NEW b \in Batches, Receive(b) \/ CountReceived(b) \/ Expire(b)
    PROVE  CountInv'
<1> USE DEF IInv
<1>1. order' = order /\ sweep' = sweep
  BY DEF Receive, CountReceived, Expire
<1>2. Quantity' = Quantity /\ Claimed' = Claimed
  BY <1>1 DEF Quantity, Claimed
<1>3. \A c \in Batches : (batch'[c].status = "written_off" <=> batch[c].status = "written_off")
  BY DEF Receive, CountReceived, Expire, Absent, TypeOK
<1>4. WrittenOff' = WrittenOff
  BY <1>3 DEF WrittenOff
<1>5. CASE Receive(b) \/ Expire(b)
  BY <1>2, <1>4, <1>5, CountStays DEF Receive, Expire
<1>6. CASE CountReceived(b)
  <2>1. count' = count + Size[b] /\ counted' = counted \cup {b} /\ b \notin counted
    BY <1>6 DEF CountReceived
  <2>2. IsFiniteSet(counted) /\ \A c \in counted \cup {b} : Size[c] \in Nat
    BY ConstantsAreTyped, FS_Subset DEF TypeOK
  <2>3. Sum(Size, counted') = Sum(Size, counted) + Size[b]
    BY <2>1, <2>2, SumGrows
  <2>4. /\ count \in Nat /\ Size[b] \in Nat
        /\ Sum(Quantity, Orders) \in Nat /\ Sum(Size, WrittenOff) \in Nat
        /\ Sum(Size, counted) \in Nat /\ Sum(Claimed, Sweeps) \in Nat
    BY ConstantsAreTyped, TotalsAreNats DEF TypeOK
  <2>5. count' + Sum(Quantity, Orders) + Sum(Size, WrittenOff) >= Sum(Size, counted') + Sum(Claimed, Sweeps)
    BY <2>1, <2>3, <2>4 DEF CountInv
  <2> QED
    BY <1>2, <1>4, <2>5 DEF CountInv
<1> QED
  BY <1>5, <1>6

LEMMA OrderStepKeepsCount ==
    ASSUME IInv, NEW o \in Orders, OrderStep(o)
    PROVE  CountInv'
<1> USE DEF IInv
<1>1. counted' = counted /\ sweep' = sweep
  BY DEF OrderStep, Reserve, ReadBatches, Pick, Picked, GiveUp, Restock, ReturnTo
<1>2. Claimed' = Claimed
  BY <1>1 DEF Claimed
<1>3. WrittenOff' = WrittenOff
  BY OrderStepIsOnward DEF WrittenOff
<1>4. /\ count \in Nat /\ order[o].quantity \in Nat
      /\ Sum(Quantity, Orders) \in Nat /\ Sum(Size, WrittenOff) \in Nat
      /\ Sum(Size, counted) \in Nat /\ Sum(Claimed, Sweeps) \in Nat
  BY OrderIsTyped, TotalsAreNats DEF TypeOK
<1>5. ASSUME count' + Sum(Quantity, Orders)' = count + Sum(Quantity, Orders) PROVE CountInv'
  <2>1. count' + Sum(Quantity, Orders)' + Sum(Size, WrittenOff) >= Sum(Size, counted) + Sum(Claimed, Sweeps)
    BY <1>5 DEF CountInv
  <2> QED
    BY <1>1, <1>2, <1>3, <2>1 DEF CountInv
<1>6. ASSUME NEW n \in Quantities, Reserve(o, n) PROVE CountInv'
  <2>1. n \in Nat /\ count' = count - n /\ count >= n /\ order[o].quantity = 0
    BY <1>6, ConstantsAreTyped DEF Reserve, OrderInv, OrderOf
  <2>2. order'[o].quantity = n /\ \A p \in Orders \ {o} : order'[p].quantity = order[p].quantity
    BY <1>6 DEF Reserve, TypeOK
  <2>3. Sum(Quantity, Orders)' = Sum(Quantity, Orders) - order[o].quantity + n
    BY <2>1, <2>2, QuantityMoves
  <2>4. count' + Sum(Quantity, Orders)' = count + Sum(Quantity, Orders)
    BY <1>4, <2>1, <2>3
  <2> QED
    BY <1>5, <2>4
<1>7. CASE Restock(o)
  <2>1. count' = count + order[o].quantity
    BY <1>7 DEF Restock
  <2>2. order'[o].quantity = 0 /\ \A p \in Orders \ {o} : order'[p].quantity = order[p].quantity
    BY <1>7 DEF Restock, TypeOK
  <2>3. Sum(Quantity, Orders)' = Sum(Quantity, Orders) - order[o].quantity + 0
    BY <2>2, QuantityMoves
  <2>4. count' + Sum(Quantity, Orders)' = count + Sum(Quantity, Orders)
    BY <1>4, <2>1, <2>3
  <2> QED
    BY <1>5, <2>4
<1>8. ASSUME count' = count, \A p \in Orders : order'[p].quantity = order[p].quantity PROVE CountInv'
  <2>1. Quantity' = Quantity
    BY <1>8 DEF Quantity
  <2> QED
    BY <1>1, <1>2, <1>3, <1>8, <2>1, CountStays
<1>9. CASE ReadBatches(o)
  <2> DEFINE saw == [b \in Batches |-> IF Sellable(b) THEN batch[b].left ELSE 0]
  <2>1. count' = count /\ order' = [order EXCEPT ![o].at = "picking", ![o].seen = saw]
    BY <1>9 DEF ReadBatches
  <2> HIDE DEF saw
  <2>2. \A p \in Orders : order'[p].quantity = order[p].quantity
    BY <2>1 DEF TypeOK
  <2> QED
    BY <1>8, <2>1, <2>2
<1>10. CASE Pick(o)
  <2>1. PICK b \in Batches, n \in Nat \ {0} : Take(o, b, n)
    BY <1>10, PickAsks
  <2>2. \A p \in Orders : order'[p].quantity = order[p].quantity
    <3>1. \/ order' = [order EXCEPT ![o].seen[b] = 0, ![o].alloc[b] = n]
          \/ order' = [order EXCEPT ![o].seen[b] = 0]
      BY <2>1 DEF Take
    <3>2. order \in [Orders -> OrderRecords]
      BY TypesByName
    <3>3. \A p \in Orders \ {o} : order'[p] = order[p]
      BY <3>1, <3>2
    <3>4. order'[o].quantity = order[o].quantity
      BY <3>1, <3>2 DEF OrderRecords
    <3> QED
      BY <3>3, <3>4
  <2> QED
    BY <1>8, <1>10, <2>2 DEF Pick
<1>11. CASE Picked(o) \/ GiveUp(o)
  <2>1. count' = count /\ \A p \in Orders : order'[p].quantity = order[p].quantity
    BY <1>11 DEF Picked, GiveUp, TypeOK
  <2> QED
    BY <1>8, <2>1
<1>12. ASSUME NEW b \in Batches, ReturnTo(o, b) PROVE CountInv'
  <2>1. count' = count /\ \A p \in Orders : order'[p].quantity = order[p].quantity
    BY <1>12 DEF ReturnTo, TypeOK
  <2> QED
    BY <1>8, <2>1
<1> QED
  BY <1>6, <1>7, <1>9, <1>10, <1>11, <1>12 DEF OrderStep

LEMMA SweepStepKeepsCount ==
    ASSUME IInv, NEW s \in Sweeps, SweepStep(s)
    PROVE  CountInv'
<1> USE DEF IInv
<1> DEFINE b == First(sweep[s].todo)
<1>1. counted' = counted /\ order' = order
  BY DEF SweepStep, FindExpired, ClaimWriteOff, Zero, Subtract, CrashSweep
<1>2. Quantity' = Quantity
  BY <1>1 DEF Quantity
<1>3. \A r \in Sweeps \ {s} : sweep'[r] = sweep[r]
  BY DEF SweepStep, FindExpired, ClaimWriteOff, Zero, Subtract, CrashSweep, NextBatch, TypeOK
<1>4. /\ count \in Nat /\ sweep[s].units \in Nat
      /\ Sum(Quantity, Orders) \in Nat /\ Sum(Size, WrittenOff) \in Nat
      /\ Sum(Size, counted) \in Nat /\ Sum(Claimed, Sweeps) \in Nat
  BY TotalsAreNats DEF TypeOK
<1>5. sweep[s].at \in {"idle", "claim"} => sweep[s].units = 0
  BY DEF SweepInv, SweepOf
<1>6. NextBatch(s) => sweep'[s].units = 0
  BY DEF NextBatch, TypeOK
<1>7. ASSUME sweep'[s].units = 0, WrittenOff' = WrittenOff, count' \in Nat,
             count' >= count - sweep[s].units
      PROVE  CountInv'
  <2>1. Sum(Claimed, Sweeps)' = Sum(Claimed, Sweeps) - sweep[s].units + 0
    BY <1>3, <1>7, ClaimMoves
  <2>2. count' + Sum(Quantity, Orders) + Sum(Size, WrittenOff) >= Sum(Size, counted) + Sum(Claimed, Sweeps)'
    BY <1>4, <1>7, <2>1 DEF CountInv
  <2> QED
    BY <1>1, <1>2, <1>7, <2>2 DEF CountInv
<1>8. ASSUME sweep'[s].units = sweep[s].units, WrittenOff' = WrittenOff, count' = count
      PROVE  CountInv'
  <2>1. Claimed' = Claimed
    BY <1>3, <1>8 DEF Claimed
  <2> QED
    BY <1>1, <1>2, <1>8, <2>1, CountStays
<1>9. batch' = batch => WrittenOff' = WrittenOff
  BY DEF WrittenOff
<1>10. CASE FindExpired(s)
  <2>1. sweep'[s].units = sweep[s].units /\ count' = count /\ batch' = batch
    BY <1>10 DEF FindExpired, TypeOK
  <2> QED
    BY <1>8, <1>9, <2>1
<1>11. CASE ClaimWriteOff(s)
  <2>1. b \in Batches /\ sweep[s].at = "claim" /\ count' = count
    BY <1>11, SweepLooks DEF ClaimWriteOff
  <2>2. CASE batch[b].status = "active"
    <3>1. /\ batch' = [batch EXCEPT ![b].status = "written_off"]
          /\ sweep' = [sweep EXCEPT ![s].at = "zero", ![s].units = batch[b].left]
      BY <1>11, <2>2 DEF ClaimWriteOff
    <3> HIDE DEF b
    <3>2. batch[b].left \in Nat /\ batch[b].left <= Size[b] /\ Size[b] \in Nat
      BY <2>1, ConstantsAreTyped DEF BatchInv, BatchOf, TypeOK
    <3>3. sweep'[s].units = batch[b].left
      BY <3>1 DEF TypeOK
    <3>4. Sum(Claimed, Sweeps)' = Sum(Claimed, Sweeps) - sweep[s].units + batch[b].left
      BY <1>3, <3>2, <3>3, ClaimMoves
    <3>5. \A c \in Batches : (batch'[c].status = "written_off" <=> c = b \/ batch[c].status = "written_off")
      BY <2>1, <3>1 DEF TypeOK
    <3>6. WrittenOff' = WrittenOff \cup {b} /\ b \notin WrittenOff
      BY <2>1, <2>2, <3>5 DEF WrittenOff
    <3>7. IsFiniteSet(WrittenOff) /\ \A c \in WrittenOff \cup {b} : Size[c] \in Nat
      BY <2>1, ConstantsAreTyped, FS_Subset DEF WrittenOff
    <3>8. Sum(Size, WrittenOff') = Sum(Size, WrittenOff) + Size[b]
      BY <3>6, <3>7, SumGrows
    <3>9. count + Sum(Quantity, Orders) + Sum(Size, WrittenOff') >= Sum(Size, counted) + Sum(Claimed, Sweeps)'
      BY <1>4, <1>5, <2>1, <3>2, <3>4, <3>8 DEF CountInv
    <3> QED
      BY <1>1, <1>2, <2>1, <3>9 DEF CountInv
  <2>3. CASE batch[b].status # "active"
    <3>1. NextBatch(s) /\ batch' = batch
      BY <1>11, <2>3 DEF ClaimWriteOff
    <3> QED
      BY <1>5, <1>6, <1>8, <1>9, <2>1, <3>1
  <2> QED
    BY <2>2, <2>3
<1>12. CASE Zero(s)
  <2>1. count' = count /\ batch' = [batch EXCEPT ![b].left = 0]
    BY <1>12 DEF Zero
  <2> HIDE DEF b
  <2>2. \A c \in Batches : batch'[c].status = batch[c].status
    BY <2>1 DEF TypeOK
  <2>3. WrittenOff' = WrittenOff
    BY <2>2 DEF WrittenOff
  <2>4. sweep'[s].units = sweep[s].units
    BY <1>6, <1>12 DEF Zero, TypeOK
  <2> QED
    BY <1>8, <2>1, <2>3, <2>4
<1>13. CASE Subtract(s)
  <2>1. NextBatch(s) /\ batch' = batch /\ count' = IF count >= sweep[s].units THEN count - sweep[s].units ELSE count
    BY <1>13 DEF Subtract
  <2>2. count' \in Nat /\ count' >= count - sweep[s].units
    BY <1>4, <2>1
  <2> QED
    BY <1>6, <1>7, <1>9, <2>1, <2>2
<1>14. CASE CrashSweep(s)
  <2>1. count' = count /\ batch' = batch /\ sweep'[s].units = 0
    BY <1>14 DEF CrashSweep, Asleep, TypeOK
  <2>2. count' \in Nat /\ count' >= count - sweep[s].units
    BY <1>4, <2>1
  <2> QED
    BY <1>7, <1>9, <2>1, <2>2
<1> QED
  BY <1>10, <1>11, <1>12, <1>13, <1>14 DEF SweepStep

-----------------------------------------------------------------------------
(* The invariant                                                           *)

LEMMA StartsSound == Init => IInv
<1> SUFFICES ASSUME Init PROVE IInv
  OBVIOUS
<1>1. TypeOK
  BY ConstantsAreTyped DEF Init, TypeOK, Absent, NewOrder, NoUnits, Asleep
<1>2. BatchInv
  BY ConstantsAreTyped DEF Init, BatchInv, BatchOf, Absent
<1>3. OrderInv
  BY DEF Init, OrderInv, OrderOf, NewOrder, NoUnits
<1>4. SweepInv
  BY DEF Init, SweepInv, SweepOf, Asleep
<1>5. CountInv
  <2>1. counted = {} /\ \A s \in Sweeps : Claimed[s] = 0
    BY DEF Init, Claimed, Asleep
  <2>2. Sum(Size, counted) = 0 /\ Sum(Claimed, Sweeps) = 0
    BY <2>1, SumOfNothing
  <2>3. count \in Nat /\ Sum(Quantity, Orders) \in Nat /\ Sum(Size, WrittenOff) \in Nat
    BY <1>1, TotalsAreNats DEF TypeOK
  <2> QED
    BY <2>2, <2>3 DEF CountInv
<1> QED
  BY <1>1, <1>2, <1>3, <1>4, <1>5 DEF IInv

LEMMA StepsStaySound == IInv /\ [Next]_vars => IInv'
<1> SUFFICES ASSUME IInv, [Next]_vars PROVE IInv'
  OBVIOUS
<1>1. ASSUME NEW b \in Batches, Receive(b) \/ CountReceived(b) \/ Expire(b) PROVE IInv'
  <2>1. Onward /\ TypeOK'
    BY <1>1, IntakeStepIsOnward, IntakeStepIsTyped DEF IInv
  <2>2. order' = order /\ sweep' = sweep /\ expired \subseteq expired'
    BY <1>1 DEF Receive, CountReceived, Expire
  <2>3. OrderInv' /\ SweepInv'
    BY <2>1, <2>2, OthersKeepOrders, OthersKeepSweeps
  <2> QED
    BY <1>1, <2>1, <2>3, IntakeKeepsBatches, IntakeKeepsCount DEF IInv
<1>2. ASSUME NEW o \in Orders, OrderStep(o) PROVE IInv'
  <2>1. Onward /\ TypeOK'
    BY <1>2, OrderStepIsOnward, OrderStepIsTyped DEF IInv
  <2>2. sweep' = sweep
    BY <1>2 DEF OrderStep, Reserve, ReadBatches, Pick, Picked, GiveUp, Restock, ReturnTo
  <2>3. SweepInv'
    BY <2>1, <2>2, OthersKeepSweeps
  <2> QED
    BY <1>2, <2>1, <2>3, OrderStepKeepsBatches, OrderStepKeepsOrders, OrderStepKeepsCount DEF IInv
<1>3. ASSUME NEW s \in Sweeps, SweepStep(s) PROVE IInv'
  <2>1. Onward /\ TypeOK'
    BY <1>3, SweepStepIsOnward, SweepStepIsTyped DEF IInv
  <2>2. order' = order /\ expired' = expired
    BY <1>3 DEF SweepStep, FindExpired, ClaimWriteOff, Zero, Subtract, CrashSweep
  <2>3. OrderInv'
    BY <2>1, <2>2, OthersKeepOrders
  <2> QED
    BY <1>3, <2>1, <2>3, SweepStepKeepsBatches, SweepStepKeepsSweeps, SweepStepKeepsCount DEF IInv
<1>4. CASE UNCHANGED vars
  <2>1. TypeOK'
    BY <1>4 DEF IInv, TypeOK, vars
  <2>2. Onward
    BY <1>4 DEF Onward, vars
  <2>3. OrderInv' /\ SweepInv'
    BY <1>4, <2>2, OthersKeepOrders, OthersKeepSweeps DEF vars
  <2>4. BatchInv'
    BY <1>4, BatchStays DEF vars, IInv, BatchInv
  <2>5. CountInv'
    BY <1>4, CountStays DEF vars, IInv, WrittenOff, Quantity, Claimed
  <2> QED
    BY <2>1, <2>3, <2>4, <2>5 DEF IInv
<1> QED
  BY <1>1, <1>2, <1>3, <1>4 DEF Next

(***************************************************************************)
(* Every reachable state satisfies the inductive invariant, whatever the   *)
(* intakes, the orders and the sweeps.                                     *)
(***************************************************************************)
THEOREM BatchesAreSound == Spec => []IInv
BY StartsSound, StepsStaySound, PTL DEF Spec

(***************************************************************************)
(* The state keeps its types: the count and what an intake has left never  *)
(* go below zero, although each is updated by orders and sweeps that read  *)
(* it earlier (reserveStockForItems, allocateFefo, writeOffExpiredBatches).*)
(***************************************************************************)
THEOREM BatchesAreTyped == Spec => []TypeOK
<1>1. IInv => TypeOK
  BY DEF IInv
<1> QED
  BY <1>1, BatchesAreSound, PTL

(***************************************************************************)
(* What an intake on sale has left and what the orders were allocated from *)
(* it is what arrived (allocateFefo, returnAllocations): a recall finds    *)
(* every unit.                                                             *)
(***************************************************************************)
THEOREM EveryUnitIsTraced == Spec => []ActiveBatchesAddUp
<1>1. IInv => ActiveBatchesAddUp
  <2> SUFFICES ASSUME IInv, NEW b \in Batches, batch[b].status = "active"
               PROVE  batch[b].left + SumFunction([o \in Orders |-> order[o].alloc[b]]) = Size[b]
    BY DEF ActiveBatchesAddUp
  <2>1. \A o \in Orders : AllocOf(b)[o] \in Nat
    BY OrderIsTyped DEF AllocOf, IInv
  <2>2. SumFunctionOnSet(AllocOf(b), Orders) = Sum(AllocOf(b), Orders)
    BY <2>1, ConstantsAreTyped, FoldIsSum
  <2>3. SumFunction(AllocOf(b)) = SumFunctionOnSet(AllocOf(b), Orders)
    BY DEF SumFunction, AllocOf
  <2>4. batch[b].left + Sum(AllocOf(b), Orders) = Size[b]
    BY DEF IInv, BatchInv, BatchOf
  <2> QED
    BY <2>2, <2>3, <2>4 DEF AllocOf
<1> QED
  BY <1>1, BatchesAreSound, PTL

(***************************************************************************)
(* No order holds a unit of an intake that was past its date when the      *)
(* order came, whether or not the sweep has run (allocateFefo).            *)
(***************************************************************************)
THEOREM NothingExpiredIsSold == Spec => []ExpiredUnitsAreNotPicked
<1>1. IInv => ExpiredUnitsAreNotPicked
  BY DEF IInv, OrderInv, OrderOf, ExpiredUnitsAreNotPicked
<1> QED
  BY <1>1, BatchesAreSound, PTL

(***************************************************************************)
(* The count has lost no more than the orders hold and the intakes that    *)
(* were written off ever had: no intake is taken out of it twice, however  *)
(* many sweeps run at once and wherever they die (writeOffExpiredBatches). *)
(***************************************************************************)
THEOREM NothingIsWrittenOffTwice == Spec => []CountLosesOnlyWhatExpired
<1>1. IInv => CountLosesOnlyWhatExpired
  <2> SUFFICES ASSUME IInv PROVE CountLosesOnlyWhatExpired
    OBVIOUS
  <2>1. /\ IsFiniteSet(WrittenOff) /\ IsFiniteSet(counted)
        /\ \A b \in WrittenOff : Size[b] \in Nat
        /\ \A b \in counted : Size[b] \in Nat
    BY ConstantsAreTyped, FS_Subset DEF IInv, TypeOK, WrittenOff
  <2>2. \A o \in Orders : Quantity[o] \in Nat
    BY OrderIsTyped DEF IInv, Quantity
  <2>3. /\ SumFunctionOnSet(Size, WrittenOff) = Sum(Size, WrittenOff)
        /\ SumFunctionOnSet(Size, counted) = Sum(Size, counted)
        /\ SumFunctionOnSet(Quantity, Orders) = Sum(Quantity, Orders)
    BY <2>1, <2>2, ConstantsAreTyped, FoldIsSum
  <2>4. SumFunction(Quantity) = SumFunctionOnSet(Quantity, Orders)
    BY DEF SumFunction, Quantity
  <2>5. /\ count \in Nat /\ Sum(Quantity, Orders) \in Nat /\ Sum(Size, WrittenOff) \in Nat
        /\ Sum(Size, counted) \in Nat /\ Sum(Claimed, Sweeps) \in Nat
    BY TotalsAreNats DEF IInv, TypeOK
  <2>6. count + Sum(Quantity, Orders) + Sum(Size, WrittenOff) >= Sum(Size, counted)
    BY <2>5 DEF IInv, CountInv
  <2>7. count + SumFunction(Quantity) + SumFunctionOnSet(Size, WrittenOff) >= SumFunctionOnSet(Size, counted)
    BY <2>3, <2>4, <2>6
  <2> QED
    BY <2>7 DEF CountLosesOnlyWhatExpired, Quantity, WrittenOff
<1> QED
  BY <1>1, BatchesAreSound, PTL
=============================================================================
