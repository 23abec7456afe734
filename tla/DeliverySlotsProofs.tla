-------------------------- MODULE DeliverySlotsProofs --------------------------
(***************************************************************************)
(* A capped window is never overbooked, and an order that stands keeps its *)
(* seat, for any number of customers and passes.  Orders that were too     *)
(* late, or were put back after they had been cancelled, are left out of   *)
(* both (see DeliverySlots).  The invariant behind them: of the orders in  *)
(* time, which never come back, a pass only ever means to give back the    *)
(* seats of those that are gone for good, so every order that stands or is *)
(* about to be saved has its seat; and a seat is only taken while the row, *)
(* which holds all of theirs, has room.                                    *)
(***************************************************************************)
EXTENDS DeliverySlots, FiniteSetTheorems, TLAPS

(* Not standing, and never again.                                          *)
Gone(o) == order[o] # "live" /\ req[o] \in {"saved", "done", "failed", "refused"}

Seated(o) == req[o] = "claimed" \/ order[o] = "live"

InTime == Customers \ (overdue \cup revived)

LifeOfAnOrder ==
    \A o \in Customers :
        /\ order[o] # "absent" => req[o] \in {"saved", "done"}
        /\ req[o] = "saved" => order[o] # "absent"
        /\ o \in aged \ overdue => req[o] \in {"saved", "done", "failed", "refused"}

PassesAreRight ==
    \A r \in Readers : \A o \in InTime :
        /\ (pass[r].phase = "reading" /\ "orders" \in pass[r].got) =>
              /\ o \in pass[r].known \ pass[r].live => Gone(o)
              /\ o \notin pass[r].known /\ o \in aged => Gone(o)
        /\ (pass[r].phase \in {"creating", "pulling"} /\ o \in pass[r].giveBack) => Gone(o)

SeatsAreKept ==
    /\ \A o \in InTime : Seated(o) => o \in seats
    /\ Cardinality({o \in InTime : Seated(o)}) <= Capacity

(* A seat is only put where there is a row.                                *)
RowIsThere ==
    /\ \A o \in Customers : req[o] = "claiming" => row
    /\ \A r \in Readers :
          /\ pass[r].phase = "reading" /\ pass[r].row => row
          /\ pass[r].phase \in {"pulling", "adopting"} => row

SlotsInv == TypeOK /\ RowIsThere /\ LifeOfAnOrder /\ PassesAreRight /\ SeatsAreKept

-----------------------------------------------------------------------------
Reading == [phase : {"reading"}, got : SUBSET {"orders", "ledger"}, row : BOOLEAN,
            held : SUBSET Orders, known : SUBSET Orders, live : SUBSET Orders]
Writing == [phase : {"creating", "pulling", "adopting", "done"}, full : BOOLEAN,
            giveBack : SUBSET Orders, adopt : SUBSET Orders]

LEMMA PassFields ==
    ASSUME SlotsInv, NEW r \in Readers
    PROVE  /\ pass[r].phase = "reading" => pass[r] \in Reading
           /\ pass[r].phase \in {"creating", "pulling", "adopting", "done"} => pass[r] \in Writing
  <1>1. pass[r] \in Passes \cup {NoPass}
    BY DEF SlotsInv, TypeOK
  <1>. QED
    BY <1>1 DEF Passes, NoPass, Reading, Writing

LEMMA PassesAreStates == Reading \cup Writing \subseteq Passes
  BY DEF Reading, Writing, Passes

LEMMA CustomersAreOrders ==
    Customers \subseteq Orders /\ Customers \subseteq Readers /\ Browsers \subseteq Readers
  BY DEF Orders, Readers

(* Seats that are not given up, of orders that are not new.                *)
LEMMA SeatsStay ==
    ASSUME SlotsInv, InTime' \subseteq InTime,
           \A x \in InTime' : Seated(x)' => Seated(x) /\ x \in seats'
    PROVE  SeatsAreKept'
  <1>. DEFINE S == {x \in InTime : Seated(x)}
              T == {x \in InTime' : Seated(x)'}
  <1>1. IsFiniteSet(S)
    BY DeliverySlotsAssumption, CustomersAreOrders, FS_Subset DEF InTime
  <1>2. T \subseteq S
    OBVIOUS
  <1>3. Cardinality(T) \in Nat /\ Cardinality(S) \in Nat /\ Cardinality(T) <= Cardinality(S)
    BY <1>1, <1>2, FS_Subset, FS_CardinalityType
  <1>4. Cardinality(S) <= Capacity
    BY DEF SlotsInv, SeatsAreKept
  <1>5. Cardinality(T) <= Capacity
    BY <1>3, <1>4, DeliverySlotsAssumption
  <1>. QED
    BY <1>5 DEF SeatsAreKept

(* One pass moves, or none; nobody who is gone comes back.                 *)
LEMMA PassMoves ==
    ASSUME SlotsInv, NEW r \in Readers, NEW p, pass' = [pass EXCEPT ![r] = p],
           aged' = aged, overdue' = overdue, revived' = revived,
           \A x \in Customers : Gone(x) => Gone(x)',
           \A x \in InTime :
              /\ (p.phase = "reading" /\ "orders" \in p.got) =>
                    /\ x \in p.known \ p.live => Gone(x)
                    /\ x \notin p.known /\ x \in aged => Gone(x)
              /\ (p.phase \in {"creating", "pulling"} /\ x \in p.giveBack) => Gone(x)
    PROVE  PassesAreRight'
  <1>1. \A k \in Readers : pass'[k] = IF k = r THEN p ELSE pass[k]
    BY DEF SlotsInv, TypeOK
  <1>2. InTime' = InTime /\ InTime \subseteq Customers
    BY DEF InTime
  <1>3. ASSUME NEW k \in Readers, NEW x \in InTime
        PROVE  /\ (pass'[k].phase = "reading" /\ "orders" \in pass'[k].got) =>
                     /\ x \in pass'[k].known \ pass'[k].live => Gone(x)'
                     /\ x \notin pass'[k].known /\ x \in aged' => Gone(x)'
               /\ (pass'[k].phase \in {"creating", "pulling"} /\ x \in pass'[k].giveBack) => Gone(x)'
    <2>1. CASE k = r
      BY <1>1, <1>2, <2>1
    <2>2. CASE k # r
      BY <1>1, <1>2, <2>2 DEF SlotsInv, PassesAreRight
    <2>. QED
      BY <2>1, <2>2
  <1>. QED
    BY <1>2, <1>3 DEF PassesAreRight

LEMMA PassesStay ==
    ASSUME SlotsInv, pass' = pass, aged' = aged, overdue' = overdue, revived' = revived,
           \A x \in Customers : Gone(x) => Gone(x)'
    PROVE  PassesAreRight'
  <1>1. InTime' = InTime /\ InTime \subseteq Customers
    BY DEF InTime
  <1>. QED
    BY <1>1 DEF SlotsInv, PassesAreRight

LEMMA RowsStay ==
    ASSUME SlotsInv, NEW r \in Readers, NEW p, pass' = [pass EXCEPT ![r] = p], row => row',
           p.phase = "reading" /\ p.row => row',
           p.phase \in {"pulling", "adopting"} => row',
           \A o \in Customers : req'[o] = "claiming" => req[o] = "claiming"
    PROVE  RowIsThere'
  <1>1. \A k \in Readers : pass'[k] = IF k = r THEN p ELSE pass[k]
    BY DEF SlotsInv, TypeOK
  <1>. QED
    BY <1>1 DEF SlotsInv, RowIsThere

(* What a pass does, on its own.                                           *)
LEMMA PassStepKeeps ==
    ASSUME SlotsInv, NEW r \in Readers, NEW p \in Passes, pass' = [pass EXCEPT ![r] = p],
           UNCHANGED <<aged, order, req, overdue, revived>>,
           row' \in BOOLEAN, row => row', seats' \subseteq Orders, seats' # {} => row',
           p.phase = "reading" /\ p.row => row',
           p.phase \in {"pulling", "adopting"} => row',
           \A x \in InTime :
              /\ Seated(x) => x \in seats'
              /\ (p.phase = "reading" /\ "orders" \in p.got) =>
                    /\ x \in p.known \ p.live => Gone(x)
                    /\ x \notin p.known /\ x \in aged => Gone(x)
              /\ (p.phase \in {"creating", "pulling"} /\ x \in p.giveBack) => Gone(x)
    PROVE  SlotsInv'
  <1>1. \A x : (Gone(x) <=> Gone(x)') /\ (Seated(x) <=> Seated(x)')
    BY DEF Gone, Seated
  <1>2. InTime' = InTime
    BY DEF InTime
  <1>3. PassesAreRight'
    BY <1>1, PassMoves
  <1>4. SeatsAreKept'
    BY <1>1, <1>2, SeatsStay
  <1>5. RowIsThere'
    BY RowsStay
  <1>6. LifeOfAnOrder'
    BY DEF SlotsInv, LifeOfAnOrder
  <1>7. TypeOK'
    BY DEF SlotsInv, TypeOK, HasId
  <1>. QED
    BY <1>3, <1>4, <1>5, <1>6, <1>7 DEF SlotsInv

LEMMA SeatsOfTypeOK ==
    ASSUME SlotsInv
    PROVE  /\ row \in BOOLEAN /\ seats \subseteq Orders /\ (seats # {} => row)
           /\ \A x \in InTime : Seated(x) => x \in seats
  BY DEF SlotsInv, TypeOK, SeatsAreKept

(* The seats of orders in time that a pass may give back are those of      *)
(* orders that are gone.                                                   *)
LEMMA DecisionIsRight ==
    ASSUME SlotsInv, NEW p \in Reading, p.row => row,
           \A x \in InTime :
              /\ x \in p.known \ p.live => Gone(x)
              /\ x \notin p.known /\ x \in aged => Gone(x)
    PROVE  /\ Decided(p) \in Passes
           /\ Decided(p).phase = "creating" \/ (Decided(p).phase = "pulling" /\ row)
           /\ \A x \in InTime : x \in Decided(p).giveBack => Gone(x)
  <1>1. /\ Decided(p).giveBack = {o \in p.held \ p.live : o \in p.known \/ o \in aged}
        /\ Decided(p).phase = IF p.row THEN "pulling" ELSE "creating"
    BY DEF Decided, GiveBack
  <1>2. Decided(p) \in Writing
    BY DEF Decided, GiveBack, Reading, Writing
  <1>3. Decided(p) \in Passes
    BY <1>2, PassesAreStates
  <1>. QED
    BY <1>1, <1>3

LEMMA AnswerKeeps ==
    ASSUME SlotsInv, NEW r \in Readers, NEW p \in Reading, Answered(r, p),
           UNCHANGED <<row, seats, aged, order, req, overdue, revived>>, p.row => row,
           "orders" \in p.got => \A x \in InTime :
              /\ x \in p.known \ p.live => Gone(x)
              /\ x \notin p.known /\ x \in aged => Gone(x)
    PROVE  SlotsInv'
  <1>1. CASE p.got = {"orders", "ledger"}
    <2>1. pass' = [pass EXCEPT ![r] = Decided(p)]
      BY <1>1 DEF Answered
    <2>2. /\ Decided(p) \in Passes
          /\ Decided(p).phase = "creating" \/ (Decided(p).phase = "pulling" /\ row)
          /\ \A x \in InTime : x \in Decided(p).giveBack => Gone(x)
      BY <1>1, DecisionIsRight
    <2>. QED
      BY <2>1, <2>2, SeatsOfTypeOK, PassStepKeeps
  <1>2. CASE p.got # {"orders", "ledger"}
    <2>1. pass' = [pass EXCEPT ![r] = p]
      BY <1>2 DEF Answered
    <2>2. p \in Passes /\ p.phase = "reading"
      BY PassesAreStates DEF Reading
    <2>. QED
      BY <2>1, <2>2, SeatsOfTypeOK, PassStepKeeps
  <1>. QED
    BY <1>1, <1>2

LEMMA ReadLedgerKeeps ==
    ASSUME SlotsInv, NEW r \in Readers, ReadLedger(r)
    PROVE  SlotsInv'
  <1>. DEFINE p == [pass[r] EXCEPT !.got = pass[r].got \cup {"ledger"}, !.row = row, !.held = seats]
  <1>1. pass[r] \in Reading
    BY PassFields DEF ReadLedger
  <1>2. /\ p \in Reading /\ p.row = row /\ p.known = pass[r].known /\ p.live = pass[r].live
        /\ p.got = pass[r].got \cup {"ledger"}
    BY <1>1, SeatsOfTypeOK DEF Reading
  <1>3. Answered(r, p) /\ UNCHANGED <<row, seats, aged, order, req, overdue, revived>>
    BY DEF ReadLedger, requests
  <1>4. "orders" \in pass[r].got => \A x \in InTime :
              /\ x \in pass[r].known \ pass[r].live => Gone(x)
              /\ x \notin pass[r].known /\ x \in aged => Gone(x)
    BY DEF SlotsInv, PassesAreRight, ReadLedger
  <1>. HIDE DEF p
  <1>. QED
    BY <1>2, <1>3, <1>4, AnswerKeeps

LEMMA ReadOrdersKeeps ==
    ASSUME SlotsInv, NEW r \in Readers, ReadOrders(r)
    PROVE  SlotsInv'
  <1>. DEFINE p == [pass[r] EXCEPT !.got = pass[r].got \cup {"orders"},
                                   !.known = {o \in Orders : order[o] # "absent"},
                                   !.live = Live]
  <1>1. pass[r] \in Reading
    BY PassFields DEF ReadOrders
  <1>2. /\ p \in Reading /\ p.row = pass[r].row
        /\ p.known = {o \in Orders : order[o] # "absent"} /\ p.live = Live
    BY <1>1 DEF Reading, Live
  <1>3. Answered(r, p) /\ UNCHANGED <<row, seats, aged, order, req, overdue, revived>>
    BY DEF ReadOrders, requests
  <1>4. pass[r].row => row
    BY DEF SlotsInv, RowIsThere, ReadOrders
  <1>5. ASSUME NEW x \in InTime
        PROVE  /\ x \in p.known \ p.live => Gone(x)
               /\ x \notin p.known /\ x \in aged => Gone(x)
    <2>1. x \in Customers /\ x \in Orders /\ x \notin overdue
      BY CustomersAreOrders DEF InTime
    <2>2. /\ order[x] # "absent" => req[x] \in {"saved", "done"}
          /\ x \in aged => req[x] \in {"saved", "done", "failed", "refused"}
      BY <2>1 DEF SlotsInv, LifeOfAnOrder
    <2>3. x \in p.known \ p.live => order[x] # "absent" /\ order[x] # "live"
      BY <1>2, <2>1 DEF Live
    <2>4. x \notin p.known => order[x] = "absent"
      BY <1>2, <2>1
    <2>. QED
      BY <2>2, <2>3, <2>4 DEF Gone
  <1>. HIDE DEF p
  <1>. QED
    BY <1>2, <1>3, <1>4, <1>5, AnswerKeeps

LEMMA CreateRowKeeps ==
    ASSUME SlotsInv, NEW r \in Readers, CreateRow(r)
    PROVE  SlotsInv'
  <1>. DEFINE p == [phase |-> "done", full |-> pass[r].full, giveBack |-> {}, adopt |-> {}]
  <1>1. pass[r] \in Writing
    BY PassFields DEF CreateRow
  <1>2. p \in Passes /\ p.phase = "done"
    BY <1>1 DEF Writing, Passes
  <1>3. pass' = [pass EXCEPT ![r] = p] /\ UNCHANGED <<aged, order, req, overdue, revived>>
    BY DEF CreateRow, Written, requests
  <1>. HIDE DEF p
  <1>4. CASE UNCHANGED <<row, seats>>
    BY <1>2, <1>3, <1>4, SeatsOfTypeOK, PassStepKeeps
  <1>5. CASE ~row /\ row' = TRUE /\ seats' = pass[r].adopt
    <2>1. \A x \in InTime : ~Seated(x)
      BY <1>5, SeatsOfTypeOK
    <2>2. pass[r].adopt \subseteq Orders
      BY <1>1 DEF Writing
    <2>. QED
      BY <1>2, <1>3, <1>5, <2>1, <2>2, PassStepKeeps
  <1>. QED
    BY <1>4, <1>5 DEF CreateRow

LEMMA PullKeeps ==
    ASSUME SlotsInv, NEW r \in Readers, Pull(r)
    PROVE  SlotsInv'
  <1>. DEFINE p == [phase |-> "adopting", full |-> pass[r].full, giveBack |-> {}, adopt |-> pass[r].adopt]
  <1>1. pass[r] \in Writing
    BY PassFields DEF Pull
  <1>2. p \in Passes /\ p.phase = "adopting"
    BY <1>1 DEF Writing, Passes
  <1>3. pass' = [pass EXCEPT ![r] = p] /\ UNCHANGED <<row, aged, order, req, overdue, revived>>
    BY DEF Pull, Written, requests
  <1>. HIDE DEF p
  <1>4. \A x \in InTime : Seated(x) => x \in seats'
    <2>1. \A x \in InTime : x \in pass[r].giveBack => Gone(x)
      BY DEF SlotsInv, PassesAreRight, Pull
    <2>2. \A x \in InTime : Gone(x) => ~Seated(x)
      BY DEF Gone, Seated
    <2>. QED
      BY <2>1, <2>2, SeatsOfTypeOK DEF Pull
  <1>5. row
    BY DEF SlotsInv, RowIsThere, Pull
  <1>6. seats' \subseteq Orders
    BY SeatsOfTypeOK DEF Pull
  <1>. QED
    BY <1>2, <1>3, <1>4, <1>5, <1>6, SeatsOfTypeOK, PassStepKeeps

LEMMA AdoptKeeps ==
    ASSUME SlotsInv, NEW r \in Readers, Adopt(r)
    PROVE  SlotsInv'
  <1>. DEFINE p == [phase |-> "done", full |-> pass[r].full, giveBack |-> {}, adopt |-> {}]
  <1>1. pass[r] \in Writing
    BY PassFields DEF Adopt
  <1>2. p \in Passes /\ p.phase = "done"
    BY <1>1 DEF Writing, Passes
  <1>3. pass' = [pass EXCEPT ![r] = p] /\ UNCHANGED <<row, aged, order, req, overdue, revived>>
    BY DEF Adopt, Written, requests
  <1>. HIDE DEF p
  <1>4. seats' = seats \cup pass[r].adopt /\ seats' \subseteq Orders
    BY <1>1, SeatsOfTypeOK DEF Adopt, Writing
  <1>5. row
    BY DEF SlotsInv, RowIsThere, Adopt
  <1>. QED
    BY <1>2, <1>3, <1>4, <1>5, SeatsOfTypeOK, PassStepKeeps

LEMMA PassStepsKeep ==
    ASSUME SlotsInv, NEW r \in Readers, PassStep(r)
    PROVE  SlotsInv'
  BY ReadLedgerKeeps, ReadOrdersKeeps, CreateRowKeeps, PullKeeps, AdoptKeeps DEF PassStep

(* A pass begins, and ends.                                                *)
Begun == [phase |-> "reading", got |-> {}, row |-> FALSE, held |-> {}, known |-> {}, live |-> {}]

LEMMA BegunAndEnded ==
    /\ Begun \in Passes /\ Begun.phase = "reading" /\ Begun.got = {} /\ ~Begun.row
    /\ NoPass.phase = "none"
  BY DEF Begun, Passes, NoPass

LEMMA BrowsingKeeps ==
    ASSUME SlotsInv, NEW b \in Browsers, Browse(b) \/ ShowList(b)
    PROVE  SlotsInv'
  <1>1. PICK p \in {Begun, NoPass} : pass' = [pass EXCEPT ![b] = p]
    BY DEF Browse, ShowList, StartPass, EndPass, Begun
  <1>2. UNCHANGED <<row, seats, aged, order, req, overdue, revived>>
    BY DEF Browse, ShowList, requests
  <1>3. b \in Readers
    BY CustomersAreOrders
  <1>4. CASE p = Begun
    BY <1>1, <1>2, <1>3, <1>4, BegunAndEnded, SeatsOfTypeOK, PassStepKeeps
  <1>5. CASE p = NoPass
    <2>1. \A x : (Gone(x) <=> Gone(x)') /\ (Seated(x) <=> Seated(x)')
      BY <1>2 DEF Gone, Seated
    <2>2. PassesAreRight'
      BY <1>1, <1>2, <1>3, <1>5, <2>1, BegunAndEnded, PassMoves
    <2>3. SeatsAreKept'
      <3>1. InTime' = InTime
        BY <1>2 DEF InTime
      <3>. QED
        BY <1>2, <2>1, <3>1, SeatsOfTypeOK, SeatsStay
    <2>4. RowIsThere'
      BY <1>1, <1>2, <1>3, <1>5, BegunAndEnded, RowsStay
    <2>5. LifeOfAnOrder'
      BY <1>2 DEF SlotsInv, LifeOfAnOrder
    <2>6. TypeOK'
      BY <1>1, <1>2, <1>5 DEF SlotsInv, TypeOK, HasId
    <2>. QED
      BY <2>2, <2>3, <2>4, <2>5, <2>6 DEF SlotsInv
  <1>. QED
    BY <1>4, <1>5

-----------------------------------------------------------------------------
(* What a request does.                                                    *)

Phases == {"idle", "resolving", "resolved", "claiming", "claimed",
           "saved", "releasing", "done", "refused", "failed"}
OrderStates == {"absent", "live", "cancelled"}

(* The checks that every step of a request has to pass.                    *)
LEMMA RequestKeeps ==
    ASSUME SlotsInv, NEW o \in Orders, NEW q \in Phases, NEW d \in OrderStates,
           req' = [req EXCEPT ![o] = q], order' = [order EXCEPT ![o] = d],
           UNCHANGED <<aged, overdue, revived>>,
           row' \in BOOLEAN, row => row', seats' \subseteq Orders, seats' # {} => row',
           pass' \in [Readers -> Passes \cup {NoPass}],
           HasId(o) => q \notin {"idle", "resolving", "resolved"},
           o \in Customers =>
               /\ d # "absent" => q \in {"saved", "done"}
               /\ q = "saved" => d # "absent"
               /\ o \in aged \ overdue => q \in {"saved", "done", "failed", "refused"},
           PassesAreRight', RowIsThere', SeatsAreKept'
    PROVE  SlotsInv'
  <1>1. /\ req \in [Orders -> Phases] /\ order \in [Orders -> OrderStates]
        /\ aged \subseteq {x \in Orders : HasId(x)} /\ overdue \subseteq Slow /\ revived \subseteq Revivable
    BY DEF SlotsInv, TypeOK, Phases, OrderStates
  <1>2. /\ req' \in [Orders -> Phases] /\ order' \in [Orders -> OrderStates]
        /\ \A x \in Orders : /\ req'[x] = IF x = o THEN q ELSE req[x]
                             /\ order'[x] = IF x = o THEN d ELSE order[x]
    BY <1>1
  <1>3. aged' \subseteq {x \in Orders : HasId(x)'}
    BY <1>1, <1>2 DEF HasId
  <1>4. TypeOK'
    BY <1>1, <1>2, <1>3 DEF TypeOK, Phases, OrderStates
  <1>5. LifeOfAnOrder'
    BY <1>2, CustomersAreOrders DEF SlotsInv, LifeOfAnOrder
  <1>. QED
    BY <1>4, <1>5 DEF SlotsInv

(* Nobody who is gone comes back, and nobody else's seat is touched.       *)
LEMMA OneOrderMoves ==
    ASSUME SlotsInv, NEW o \in Orders, NEW q \in Phases, NEW d \in OrderStates,
           req' = [req EXCEPT ![o] = q], order' = [order EXCEPT ![o] = d],
           Gone(o) => d # "live" /\ q \in {"saved", "done", "failed", "refused"}
    PROVE  /\ \A x \in Customers : Gone(x) => Gone(x)'
           /\ \A x \in Orders : x # o => (Seated(x)' <=> Seated(x))
           /\ Seated(o)' <=> (q = "claimed" \/ d = "live")
           /\ \A x \in Customers : req'[x] = IF x = o THEN q ELSE req[x]
  <1>1. \A x \in Orders : /\ req'[x] = IF x = o THEN q ELSE req[x]
                         /\ order'[x] = IF x = o THEN d ELSE order[x]
    BY DEF SlotsInv, TypeOK
  <1>. QED
    BY <1>1, CustomersAreOrders DEF Gone, Seated

LEMMA SameOrder ==
    ASSUME SlotsInv, NEW o \in Orders
    PROVE  /\ order[o] \in OrderStates /\ req[o] \in Phases
           /\ order = [order EXCEPT ![o] = order[o]]
           /\ req = [req EXCEPT ![o] = req[o]]
           /\ pass \in [Readers -> Passes \cup {NoPass}]
  BY DEF SlotsInv, TypeOK, OrderStates, Phases

(* A step of one order that is no claim.                                   *)
LEMMA QuietRequest ==
    ASSUME SlotsInv, NEW o \in Orders, NEW q \in Phases, NEW d \in OrderStates,
           req' = [req EXCEPT ![o] = q], order' = [order EXCEPT ![o] = d],
           UNCHANGED <<aged, overdue, revived, pass>>,
           row' \in BOOLEAN, row => row', seats' \subseteq Orders, seats' # {} => row',
           HasId(o) => q \notin {"idle", "resolving", "resolved"},
           o \in Customers =>
               /\ d # "absent" => q \in {"saved", "done"}
               /\ q = "saved" => d # "absent"
               /\ o \in aged \ overdue => q \in {"saved", "done", "failed", "refused"}
               /\ q = "claiming" => row',
           Gone(o) => d # "live" /\ q \in {"saved", "done", "failed", "refused"},
           o \in Customers /\ (q = "claimed" \/ d = "live") => Seated(o) /\ (o \in seats => o \in seats'),
           \A x \in seats : x # o => x \in seats'
    PROVE  SlotsInv'
  <1>1. /\ \A x \in Customers : Gone(x) => Gone(x)'
        /\ \A x \in Orders : x # o => (Seated(x)' <=> Seated(x))
        /\ Seated(o)' <=> (q = "claimed" \/ d = "live")
        /\ \A x \in Customers : req'[x] = IF x = o THEN q ELSE req[x]
    BY OneOrderMoves
  <1>2. PassesAreRight'
    BY <1>1, PassesStay
  <1>3. RowIsThere'
    BY <1>1 DEF SlotsInv, RowIsThere
  <1>4. InTime' = InTime /\ InTime \subseteq Customers /\ InTime \subseteq Orders
    BY CustomersAreOrders DEF InTime
  <1>5. \A x \in InTime' : Seated(x)' => Seated(x) /\ x \in seats'
    BY <1>1, <1>4, SeatsOfTypeOK
  <1>6. SeatsAreKept'
    BY <1>4, <1>5, SeatsStay
  <1>7. pass' \in [Readers -> Passes \cup {NoPass}]
    BY DEF SlotsInv, TypeOK
  <1>. QED
    BY <1>2, <1>3, <1>6, <1>7, RequestKeeps

LEMMA LifeOf ==
    ASSUME SlotsInv, NEW o \in Customers
    PROVE  /\ o \in Orders /\ o \in Readers
           /\ order[o] # "absent" => req[o] \in {"saved", "done"}
           /\ req[o] = "saved" => order[o] # "absent"
           /\ o \in aged \ overdue => req[o] \in {"saved", "done", "failed", "refused"}
           /\ req[o] = "claiming" => row
  BY CustomersAreOrders DEF SlotsInv, LifeOfAnOrder, RowIsThere

LEMMA PlainStepsKeep ==
    ASSUME SlotsInv, NEW o \in Customers,
           EnsureRow(o) \/ SaveFails(o) \/ ReleaseSeat(o) \/ Charged(o) \/ ChargeFails(o) \/ Crash(o)
    PROVE  SlotsInv'
  <1>1. /\ o \in Orders
        /\ order[o] # "absent" => req[o] \in {"saved", "done"}
        /\ req[o] = "saved" => order[o] # "absent"
        /\ o \in aged \ overdue => req[o] \in {"saved", "done", "failed", "refused"}
    BY LifeOf
  <1>2. /\ order[o] \in OrderStates /\ order = [order EXCEPT ![o] = order[o]]
        /\ row \in BOOLEAN /\ seats \subseteq Orders /\ (seats # {} => row)
    BY <1>1, SameOrder, SeatsOfTypeOK
  <1>3. UNCHANGED <<aged, overdue, revived, pass>>
    BY DEF EnsureRow, SaveFails, ReleaseSeat, Charged, ChargeFails, Crash
  <1>4. CASE EnsureRow(o)
    BY <1>1, <1>2, <1>3, <1>4, QuietRequest DEF EnsureRow, Goto, Phases, HasId, Gone, Seated
  <1>5. CASE SaveFails(o)
    BY <1>1, <1>2, <1>3, <1>5, QuietRequest DEF SaveFails, Goto, Phases, HasId, Gone, Seated
  <1>6. CASE ReleaseSeat(o)
    BY <1>1, <1>2, <1>3, <1>6, QuietRequest DEF ReleaseSeat, Goto, Phases, HasId, Gone, Seated
  <1>7. CASE Charged(o)
    BY <1>1, <1>2, <1>3, <1>7, QuietRequest DEF Charged, Goto, Phases, HasId, Gone, Seated
  <1>8. CASE ChargeFails(o)
    BY <1>1, <1>2, <1>3, <1>8, QuietRequest
       DEF ChargeFails, Goto, Phases, OrderStates, HasId, Gone, Seated
  <1>9. CASE Crash(o)
    BY <1>1, <1>2, <1>3, <1>9, QuietRequest DEF Crash, Goto, Phases, HasId, Gone, Seated
  <1>. QED
    BY <1>4, <1>5, <1>6, <1>7, <1>8, <1>9

LEMMA SaveKeeps ==
    ASSUME SlotsInv, NEW o \in Customers, Save(o)
    PROVE  SlotsInv'
  <1>1. o \in Orders /\ (o \in aged \ overdue => req[o] # "claimed") /\ req[o] = "claimed"
    BY LifeOf DEF Save
  <1>2. /\ req' = [req EXCEPT ![o] = "saved"] /\ order' = [order EXCEPT ![o] = "live"]
        /\ UNCHANGED <<row, seats, aged, overdue, revived, pass>>
    BY DEF Save, Goto
  <1>. QED
    BY <1>1, <1>2, SeatsOfTypeOK, QuietRequest DEF Phases, OrderStates, HasId, Gone, Seated

(* The last place is taken while the row, which holds the seats of all     *)
(* that stand, has room.                                                   *)
LEMMA ClaimSeatKeeps ==
    ASSUME SlotsInv, NEW o \in Customers, ClaimSeat(o)
    PROVE  SlotsInv'
  <1>1. /\ o \in Orders /\ row /\ order[o] = "absent"
        /\ ~(o \in aged \ overdue)
    BY LifeOf DEF ClaimSeat
  <1>2. /\ UNCHANGED <<row, aged, order, pass, overdue, revived>> /\ req[o] = "claiming"
        /\ row \in BOOLEAN /\ seats \subseteq Orders
        /\ order[o] \in OrderStates /\ order' = [order EXCEPT ![o] = order[o]]
        /\ pass \in [Readers -> Passes \cup {NoPass}]
    BY <1>1, SameOrder, SeatsOfTypeOK DEF ClaimSeat
  <1>3. CASE req' = [req EXCEPT ![o] = "refused"] /\ seats' = seats
    BY <1>1, <1>2, <1>3, QuietRequest DEF Phases, HasId, Gone, Seated
  <1>4. CASE /\ req' = [req EXCEPT ![o] = "claimed"] /\ seats' = seats \cup {o}
             /\ Cardinality(seats) < Capacity
    <2>1. ~Gone(o) /\ "claimed" \in Phases /\ "absent" \in OrderStates
      BY <1>2 DEF Gone, Phases, OrderStates
    <2>2. /\ \A x \in Customers : Gone(x) => Gone(x)'
          /\ \A x \in Orders : x # o => (Seated(x)' <=> Seated(x))
          /\ \A x \in Customers : req'[x] = IF x = o THEN "claimed" ELSE req[x]
      <3>1. order' = [order EXCEPT ![o] = "absent"]
        BY <1>1, <1>2
      <3>. QED
        BY <1>1, <1>4, <2>1, <3>1, OneOrderMoves
    <2>3. PassesAreRight'
      BY <1>2, <2>2, PassesStay
    <2>4. RowIsThere'
      BY <1>1, <1>2, <2>2 DEF SlotsInv, RowIsThere
    <2>5. InTime' = InTime /\ InTime \subseteq Orders
      BY <1>2, CustomersAreOrders DEF InTime
    <2>6. \A x \in InTime' : Seated(x)' => x \in seats'
      BY <1>4, <2>2, <2>5, SeatsOfTypeOK
    <2>7. Cardinality({x \in InTime' : Seated(x)'}) <= Capacity
      <3>. DEFINE T == {x \in InTime' : Seated(x)'}
      <3>1. IsFiniteSet(seats) /\ T \subseteq seats'
        BY <1>2, <2>6, DeliverySlotsAssumption, FS_Subset
      <3>. HIDE DEF T
      <3>2. Cardinality(seats) \in Nat
        BY <3>1, FS_CardinalityType
      <3>3. /\ IsFiniteSet(seats \cup {o})
            /\ Cardinality(seats \cup {o}) = IF o \in seats THEN Cardinality(seats) ELSE Cardinality(seats) + 1
        BY ONLY <3>1, FS_AddElement
      <3>4. /\ IsFiniteSet(seats') /\ Cardinality(seats) \in Nat
            /\ Cardinality(seats') <= Cardinality(seats) + 1
        BY <1>4, <3>2, <3>3
      <3>5. Cardinality(T) <= Cardinality(seats') /\ Cardinality(T) \in Nat /\ Cardinality(seats') \in Nat
        BY <3>1, <3>4, FS_Subset, FS_CardinalityType
      <3>6. Cardinality(T) <= Capacity
        BY <1>4, <3>4, <3>5, DeliverySlotsAssumption
      <3>. QED
        BY <3>6 DEF T
    <2>8. SeatsAreKept'
      BY <2>6, <2>7 DEF SeatsAreKept
    <2>9. seats' \subseteq Orders
      BY <1>1, <1>2, <1>4
    <2>. QED
      BY <1>1, <1>2, <1>4, <2>1, <2>3, <2>4, <2>8, <2>9, RequestKeeps
  <1>. QED
    BY <1>3, <1>4 DEF ClaimSeat, Goto

(* The request's own pass begins and ends.                                 *)
LEMMA ResolvingKeeps ==
    ASSUME SlotsInv, NEW o \in Customers, Resolve(o) \/ Resolved(o)
    PROVE  SlotsInv'
  <1>1. /\ o \in Orders /\ o \in Readers
        /\ order[o] # "absent" => req[o] \in {"saved", "done"}
        /\ o \in aged \ overdue => req[o] \in {"saved", "done", "failed", "refused"}
    BY LifeOf
  <1>2. /\ req[o] \in {"idle", "resolving"}
        /\ UNCHANGED <<row, seats, aged, order, overdue, revived>>
    BY DEF Resolve, Resolved
  <1>3. PICK p \in {Begun, NoPass} : pass' = [pass EXCEPT ![o] = p]
    BY DEF Resolve, Resolved, StartPass, EndPass, Begun
  <1>4. PICK q \in {"resolving", "refused", "resolved"} : req' = [req EXCEPT ![o] = q]
    BY DEF Resolve, Resolved, Goto
  <1>5. /\ order[o] = "absent" /\ ~(o \in aged \ overdue)
        /\ order' = [order EXCEPT ![o] = "absent"]
        /\ pass \in [Readers -> Passes \cup {NoPass}]
    BY <1>1, <1>2, SameOrder
  <1>6. /\ p.phase \in {"reading", "none"} /\ (p.phase = "reading" => p.got = {} /\ ~p.row)
        /\ p \in Passes \cup {NoPass}
    BY <1>3, BegunAndEnded
  <1>7. q \in Phases /\ "absent" \in OrderStates /\ ~Gone(o) /\ q # "claimed"
    BY <1>2, <1>4 DEF Phases, OrderStates, Gone
  <1>8. /\ \A x \in Customers : Gone(x) => Gone(x)'
        /\ \A x \in Orders : x # o => (Seated(x)' <=> Seated(x))
        /\ ~Seated(o)'
        /\ \A x \in Customers : req'[x] = IF x = o THEN q ELSE req[x]
    BY <1>1, <1>4, <1>5, <1>7, OneOrderMoves
  <1>9. PassesAreRight'
    BY <1>1, <1>2, <1>3, <1>6, <1>8, PassMoves
  <1>10. RowIsThere'
    <2>1. \A x \in Customers : req'[x] = "claiming" => req[x] = "claiming"
      BY <1>4, <1>8
    <2>. QED
      BY <1>1, <1>2, <1>3, <1>6, <2>1, RowsStay
  <1>11. SeatsAreKept'
    <2>1. InTime' = InTime /\ InTime \subseteq Orders
      BY <1>2, CustomersAreOrders DEF InTime
    <2>2. \A x \in InTime' : Seated(x)' => Seated(x) /\ x \in seats'
      BY <1>2, <1>8, <2>1, SeatsOfTypeOK
    <2>. QED
      BY <2>1, <2>2, SeatsStay
  <1>12. ~HasId(o)
    BY <1>2 DEF HasId
  <1>13. pass' \in [Readers -> Passes \cup {NoPass}]
    BY <1>3, <1>5, <1>6
  <1>. QED
    BY <1>1, <1>2, <1>4, <1>5, <1>7, <1>9, <1>10, <1>11, <1>12, <1>13, SeatsOfTypeOK, RequestKeeps

LEMMA OthersKeep ==
    ASSUME SlotsInv, NEW o \in Orders,
           Cancel(o) \/ Delete(o) \/ (o \in Standing /\ PlaceStanding(o))
    PROVE  SlotsInv'
  <1>1. /\ order[o] \in OrderStates /\ req[o] \in Phases /\ req = [req EXCEPT ![o] = req[o]]
        /\ row \in BOOLEAN /\ seats \subseteq Orders /\ (seats # {} => row)
    BY SameOrder, SeatsOfTypeOK
  <1>2. UNCHANGED <<row, seats, aged, pass, overdue, revived>>
    BY DEF Cancel, Delete, PlaceStanding
  <1>3. o \in Customers => /\ order[o] # "absent" => req[o] \in {"saved", "done"}
                           /\ req[o] = "saved" => order[o] # "absent"
                           /\ o \in aged \ overdue => req[o] \in {"saved", "done", "failed", "refused"}
                           /\ req[o] = "claiming" => row
    BY LifeOf
  <1>4. CASE Cancel(o)
    <2>1. order' = [order EXCEPT ![o] = "cancelled"] /\ req' = [req EXCEPT ![o] = req[o]] /\ order[o] = "live"
      BY <1>1, <1>4 DEF Cancel
    <2>2. o \in Customers => req[o] # "claimed"
      BY <1>3, <2>1
    <2>3. HasId(o) => req[o] \notin {"idle", "resolving", "resolved"}
      BY DEF HasId
    <2>4. ~Gone(o) /\ "cancelled" \in OrderStates
      BY <2>1 DEF Gone, OrderStates
    <2>. QED
      BY <1>1, <1>2, <1>3, <2>1, <2>2, <2>3, <2>4, QuietRequest
  <1>5. CASE Delete(o)
    <2>1. /\ order' = [order EXCEPT ![o] = "absent"] /\ req' = [req EXCEPT ![o] = req[o]]
          /\ req[o] = "done" /\ "absent" \in OrderStates
      BY <1>1, <1>5 DEF Delete, OrderStates
    <2>3. HasId(o) => req[o] \notin {"idle", "resolving", "resolved"}
      BY DEF HasId
    <2>. QED
      BY <1>1, <1>2, <1>3, <2>1, <2>3, QuietRequest
  <1>6. CASE o \in Standing /\ PlaceStanding(o)
    <2>1. o \notin Customers
      BY <1>6, DeliverySlotsAssumption
    <2>2. /\ order' = [order EXCEPT ![o] = "live"] /\ req' = [req EXCEPT ![o] = "done"]
          /\ "live" \in OrderStates /\ "done" \in Phases
      BY <1>6 DEF PlaceStanding, Goto, OrderStates, Phases
    <2>3. ~Gone(o)
      BY <1>6 DEF PlaceStanding, Gone
    <2>. QED
      BY <1>1, <1>2, <2>1, <2>2, <2>3, QuietRequest
  <1>. QED
    BY <1>4, <1>5, <1>6

(* An id comes of age: either nobody can take its order for gone, or the   *)
(* order is no longer in time.                                             *)
LEMMA AgeKeeps ==
    ASSUME SlotsInv, NEW o \in Orders, Age(o)
    PROVE  SlotsInv'
  <1>. DEFINE late == InFlight(o) \/ \E r \in Readers : Missed(r, o)
  <1>1. /\ UNCHANGED <<row, seats, pass, order, req, revived>> /\ aged' = aged \cup {o} /\ HasId(o)
        /\ late => o \in Slow /\ overdue' = overdue \cup {o}
        /\ ~late => overdue' = overdue
    BY DEF Age
  <1>2. /\ InTime' \subseteq InTime /\ (late => o \notin InTime') /\ InTime' \subseteq Customers
        /\ overdue \subseteq overdue'
    BY <1>1 DEF InTime
  <1>3. \A x : (Gone(x)' <=> Gone(x)) /\ (Seated(x)' <=> Seated(x))
    BY <1>1 DEF Gone, Seated
  <1>4. TypeOK'
    BY <1>1 DEF SlotsInv, TypeOK, HasId
  <1>5. RowIsThere'
    BY <1>1 DEF SlotsInv, RowIsThere
  <1>6. ASSUME ~late
        PROVE  req[o] \in {"saved", "done", "failed", "refused"}
    BY <1>1, <1>6, SameOrder DEF InFlight, HasId, Phases
  <1>7. LifeOfAnOrder'
    <2>1. ASSUME NEW x \in Customers, x \in aged' \ overdue'
          PROVE  req[x] \in {"saved", "done", "failed", "refused"}
      <3>1. CASE x = o
        BY <1>1, <1>6, <2>1, <3>1
      <3>2. CASE x # o
        BY <1>1, <1>2, <2>1, <3>2 DEF SlotsInv, LifeOfAnOrder
      <3>. QED
        BY <3>1, <3>2
    <2>2. \A x \in Customers : /\ order[x] # "absent" => req[x] \in {"saved", "done"}
                               /\ req[x] = "saved" => order[x] # "absent"
      BY DEF SlotsInv, LifeOfAnOrder
    <2>. QED
      BY <1>1, <2>1, <2>2 DEF LifeOfAnOrder
  <1>8. PassesAreRight'
    <2>1. ASSUME NEW r \in Readers, NEW x \in InTime',
                 pass[r].phase = "reading", "orders" \in pass[r].got,
                 x \notin pass[r].known, x \in aged'
          PROVE  Gone(x)
      <3>1. x # o
        BY <1>2, <2>1 DEF Missed
      <3>. QED
        BY <1>1, <1>2, <2>1, <3>1 DEF SlotsInv, PassesAreRight
    <2>2. \A r \in Readers : \A x \in InTime' :
             /\ (pass[r].phase = "reading" /\ "orders" \in pass[r].got)
                   => (x \in pass[r].known \ pass[r].live => Gone(x))
             /\ (pass[r].phase \in {"creating", "pulling"} /\ x \in pass[r].giveBack) => Gone(x)
      BY <1>2 DEF SlotsInv, PassesAreRight
    <2>. QED
      BY <1>1, <1>3, <2>1, <2>2 DEF PassesAreRight
  <1>9. SeatsAreKept'
    <2>1. \A x \in InTime' : Seated(x)' => Seated(x) /\ x \in seats'
      BY <1>1, <1>2, <1>3, SeatsOfTypeOK
    <2>. QED
      BY <1>2, <2>1, SeatsStay
  <1>. QED
    BY <1>4, <1>5, <1>7, <1>8, <1>9 DEF SlotsInv

(* An order that comes back is no longer counted, and nothing else moves.  *)
LEMMA ReviveKeeps ==
    ASSUME SlotsInv, NEW o \in Orders, Revive(o)
    PROVE  SlotsInv'
  <1>1. /\ UNCHANGED <<row, seats, aged, req, pass, overdue>> /\ revived' = revived \cup {o}
        /\ o \in Revivable /\ order[o] = "cancelled"
        /\ order' = [order EXCEPT ![o] = "live"]
    BY DEF Revive
  <1>2. \A x \in Orders : order'[x] = IF x = o THEN "live" ELSE order[x]
    BY <1>1 DEF SlotsInv, TypeOK
  <1>3. InTime' \subseteq InTime /\ o \notin InTime' /\ InTime' \subseteq Orders
    BY <1>1, CustomersAreOrders DEF InTime
  <1>4. \A x \in InTime' : (Gone(x)' <=> Gone(x)) /\ (Seated(x)' <=> Seated(x))
    BY <1>1, <1>2, <1>3 DEF Gone, Seated
  <1>5. TypeOK'
    BY <1>1 DEF SlotsInv, TypeOK, HasId
  <1>6. RowIsThere'
    BY <1>1 DEF SlotsInv, RowIsThere
  <1>7. LifeOfAnOrder'
    BY <1>1, <1>2, CustomersAreOrders DEF SlotsInv, LifeOfAnOrder
  <1>8. PassesAreRight'
    BY <1>1, <1>3, <1>4 DEF SlotsInv, PassesAreRight
  <1>9. SeatsAreKept'
    BY <1>1, <1>3, <1>4, SeatsOfTypeOK, SeatsStay
  <1>. QED
    BY <1>5, <1>6, <1>7, <1>8, <1>9 DEF SlotsInv

-----------------------------------------------------------------------------
LEMMA SlotsInvInit == Init => SlotsInv
  <1>. SUFFICES ASSUME Init PROVE SlotsInv
    OBVIOUS
  <1>1. TypeOK
    BY DEF Init, TypeOK
  <1>2. RowIsThere /\ PassesAreRight
    BY CustomersAreOrders DEF Init, RowIsThere, PassesAreRight, NoPass, InTime
  <1>3. LifeOfAnOrder
    BY CustomersAreOrders DEF Init, LifeOfAnOrder
  <1>4. SeatsAreKept
    <2>1. {o \in InTime : Seated(o)} = {}
      BY CustomersAreOrders DEF Init, InTime, Seated
    <2>2. Cardinality({o \in InTime : Seated(o)}) <= Capacity
      BY <2>1, FS_EmptySet, DeliverySlotsAssumption
    <2>. QED
      BY <2>1, <2>2 DEF SeatsAreKept
  <1>. QED
    BY <1>1, <1>2, <1>3, <1>4 DEF SlotsInv

LEMMA SlotsInvStep == SlotsInv /\ [Next]_vars => SlotsInv'
  <1>. SUFFICES ASSUME SlotsInv, [Next]_vars PROVE SlotsInv'
    OBVIOUS
  <1>1. CASE UNCHANGED vars
    <2>1. UNCHANGED <<row, seats, order, req, aged, pass, overdue, revived>>
      BY <1>1 DEF vars
    <2>. QED
      BY <2>1 DEF SlotsInv, TypeOK, HasId, RowIsThere, LifeOfAnOrder, PassesAreRight,
                  SeatsAreKept, InTime, Seated, Gone
  <1>2. ASSUME NEW o \in Customers, RequestStep(o) \/ Crash(o)
        PROVE  SlotsInv'
    <2>1. o \in Readers
      BY CustomersAreOrders
    <2>. QED
      BY <1>2, <2>1, ResolvingKeeps, PassStepsKeep, PlainStepsKeep, ClaimSeatKeeps, SaveKeeps
         DEF RequestStep
  <1>3. ASSUME NEW b \in Browsers, BrowserStep(b)
        PROVE  SlotsInv'
    BY <1>3, CustomersAreOrders, BrowsingKeeps, PassStepsKeep DEF BrowserStep
  <1>4. ASSUME NEW s \in Standing, PlaceStanding(s)
        PROVE  SlotsInv'
    BY <1>4, OthersKeep DEF Orders
  <1>5. ASSUME NEW o \in Orders, Cancel(o) \/ Revive(o) \/ Delete(o) \/ Age(o)
        PROVE  SlotsInv'
    BY <1>5, OthersKeep, ReviveKeeps, AgeKeeps
  <1>. QED
    BY <1>1, <1>2, <1>3, <1>4, <1>5 DEF Next

LEMMA SlotsInvAlways == Spec => []SlotsInv
  BY SlotsInvInit, SlotsInvStep, PTL DEF Spec

(***************************************************************************)
(* The ledger row, the orders, the requests and the passes always have     *)
(* their types, for any number of customers, readers and standing orders.  *)
(***************************************************************************)
THEOREM DeliverySlotsIsTyped == Spec => []TypeOK
  <1>1. SlotsInv => TypeOK
    BY DEF SlotsInv
  <1>. QED
    BY <1>1, SlotsInvAlways, PTL

(***************************************************************************)
(* No pass of reconcileSeats, however old what it has read, gives back the *)
(* seat of a standing order, whatever other passes and requests do in      *)
(* between, except an order that was on its way in for longer than         *)
(* ABANDONED_CLAIM_MS and one that a handler with an old copy put back     *)
(* after it had been cancelled.                                            *)
(***************************************************************************)
THEOREM StandingOrdersAlwaysKeepTheirSeat == Spec => []StandingOrdersKeepTheirSeat
  <1>1. SlotsInv => StandingOrdersKeepTheirSeat
    BY DEF SlotsInv, SeatsAreKept, StandingOrdersKeepTheirSeat, InTime, Seated
  <1>. QED
    BY <1>1, SlotsInvAlways, PTL

(***************************************************************************)
(* The orders that booked the window never outnumber its capacity: of any  *)
(* number of customers paying for the last place, one gets it              *)
(* (claimSlotSeat).  The same two kinds of orders are not counted.         *)
(***************************************************************************)
THEOREM TheWindowIsNeverOverbooked == Spec => []NeverOverbooked
  <1>1. SlotsInv => NeverOverbooked
    <2>. SUFFICES ASSUME SlotsInv PROVE NeverOverbooked
      OBVIOUS
    <2>. DEFINE L == (Live \cap Customers) \ (overdue \cup revived)
                S == {o \in InTime : Seated(o)}
    <2>1. L \subseteq S
      BY DEF Live, InTime, Seated
    <2>2. IsFiniteSet(S)
      BY DeliverySlotsAssumption, CustomersAreOrders, FS_Subset DEF InTime
    <2>3. Cardinality(L) \in Nat /\ Cardinality(S) \in Nat /\ Cardinality(L) <= Cardinality(S)
      BY <2>1, <2>2, FS_Subset, FS_CardinalityType
    <2>4. Cardinality(S) <= Capacity
      BY DEF SlotsInv, SeatsAreKept
    <2>5. Cardinality(L) <= Capacity
      BY <2>3, <2>4, DeliverySlotsAssumption
    <2>. QED
      BY <2>5 DEF NeverOverbooked
  <1>. QED
    BY <1>1, SlotsInvAlways, PTL
=============================================================================
