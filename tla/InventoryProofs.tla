--------------------------- MODULE InventoryProofs ---------------------------
(***************************************************************************)
(* Proofs about Inventory, for every set of orders, products, handlers,    *)
(* baskets and counts: the type invariant, and the inductive invariant     *)
(* that says where the units of an order are; then what the end of an      *)
(* order leaves behind; then that Inventory implements Shelf, and that     *)
(* stock is therefore conserved.                                           *)
(***************************************************************************)
EXTENDS Inventory, FiniteSetTheorems, TLAPS

-----------------------------------------------------------------------------
(* What is known of a request by where its createOrder is.                 *)
RequestInv(o) ==
    /\ todo[o] \subseteq {i \in Items : cart[o][i] > 0}
    /\ taken[o] \subseteq Lines(o)
    /\ taken[o] \cap todo[o] = {}
    /\ put[o] \subseteq Lines(o)
    /\ req[o] = "idle" => taken[o] = {}
    /\ req[o] \in {"idle", "reserving", "releasing"} => status[o] = "none"
    /\ req[o] = "reserving" => Lines(o) \subseteq taken[o] \cup todo[o]
    /\ req[o] = "releasing" => taken[o] = {}
    /\ req[o] \in {"saved", "undoing"} => status[o] # "none"
    /\ put[o] # {} => \/ req[o] = "releasing"
                      \/ req[o] = "undoing" /\ restoredAt[o]

(* What is known of a document.                                            *)
DocumentInv(o) ==
    /\ status[o] # "none" => taken[o] = Lines(o)
    /\ restoredAt[o] => status[o] # "none"

(* What is known of a handler.                                             *)
HandlerInv(h) ==
    /\ ~Busy(h) => put[h] = {}
    /\ Busy(h) =>
         /\ status[job[h].order] # "none"
         /\ put[h] \subseteq Lines(job[h].order)
         /\ put[h] # {} => job[h].phase = "returning" /\ restoredAt[job[h].order]

(* The units of an order's product are in the hands of one agent.          *)
OneHand ==
    \A o \in Orders : \A a, b \in Agents :
        WorksFor(a, o) /\ WorksFor(b, o) /\ a # b => put[a] \cap put[b] = {}

(* What is lost is nowhere else.                                           *)
LostInv ==
    \A o \in Orders, i \in Tracked : <<o, i>> \in lost =>
        /\ i \in Lines(o)
        /\ ~HeldByRequest(o, i)
        /\ ~HeldByDocument(o, i)
        /\ ~InHand(o, i)
        /\ req[o] \notin {"idle", "reserving"}

IInv ==
    /\ TypeOK
    /\ \A o \in Orders : RequestInv(o) /\ DocumentInv(o)
    /\ \A h \in Handlers : HandlerInv(h)
    /\ OneHand
    /\ LostInv

-----------------------------------------------------------------------------
(* Every record a handler keeps is a job, and Idle is none.                *)
LEMMA JobFacts ==
    /\ Idle \notin Jobs
    /\ \A j \in Jobs : /\ j.phase \in {"loaded", "returning"}
                      /\ j.kind \in {"cancel", "delete", "expire"}
                      /\ j.order \in Orders
                      /\ j.collected \in BOOLEAN
                      /\ [j EXCEPT !.phase = "returning"] \in Jobs
BY DEF Idle, Jobs

(* A claim keeps the types, whoever makes it.                              *)
LEMMA ClaimTyped ==
    ASSUME TypeOK, NEW a \in Agents, NEW o \in Orders, NEW saw,
           ClaimRestore(a, o, saw)
    PROVE  /\ restoredAt' \in [Orders -> BOOLEAN]
           /\ put' \in [Agents -> SUBSET Tracked]
<1>1. Lines(o) \subseteq Tracked
  BY DEF Lines
<1>2. CASE UNCHANGED <<restoredAt, put>>
  BY <1>2 DEF TypeOK
<1>3. CASE /\ restoredAt' = [restoredAt EXCEPT ![o] = TRUE]
           /\ put' = [put EXCEPT ![a] = Lines(o)]
  BY <1>1, <1>3 DEF TypeOK
<1> QED
  BY <1>2, <1>3 DEF ClaimRestore

(* Types are kept by every step of createOrder.                            *)
LEMMA RequestTyped ==
    ASSUME InventoryAssumption, TypeOK, NEW o \in Orders, RequestStep(o)
    PROVE  TypeOK'
<1> USE DEF TypeOK, request, document, ghost, Agents
<1>1. ASSUME NEW c \in Baskets, Place(o, c) PROVE TypeOK'
  BY <1>1 DEF InventoryAssumption, Place, Phases
<1>2. ASSUME NEW i \in Items, ReserveLine(o, i) PROVE TypeOK'
  <2>1. /\ i \in Tracked
        /\ stockQty[i] - cart[o][i] \in Nat
    BY <1>2 DEF ReserveLine, Tracked
  <2>2. stockQty' \in [Tracked -> Nat]
    BY <1>2, <2>1 DEF ReserveLine
  <2> QED BY <1>2, <2>1, <2>2 DEF ReserveLine
<1>3. ASSUME NEW i \in Items, PassUntracked(o, i) PROVE TypeOK'
  BY <1>3 DEF PassUntracked
<1>4. CASE RefuseLine(o)
  BY <1>4 DEF RefuseLine, StartRelease, Phases
<1>5. CASE SeatOrSaveFails(o)
  BY <1>5 DEF SeatOrSaveFails, StartRelease, Phases
<1>6. CASE SaveOrder(o)
  BY <1>6 DEF SaveOrder, Phases, Statuses
<1>7. CASE ReleaseDone(o)
  BY <1>7 DEF ReleaseDone, Phases
<1>8. CASE Charged(o)
  BY <1>8 DEF Charged, Phases
<1>9. CASE ChargeFails(o)
  <2>1. o \in Agents
    OBVIOUS
  <2>2. /\ restoredAt' \in [Orders -> BOOLEAN]
        /\ put' \in [Agents -> SUBSET Tracked]
    BY <1>9, <2>1, ClaimTyped DEF ChargeFails
  <2> QED BY <1>9, <2>2 DEF ChargeFails, Phases
<1>10. CASE DeleteUncharged(o)
  BY <1>10 DEF DeleteUncharged, Phases, Statuses
<1> QED
  BY <1>1, <1>2, <1>3, <1>4, <1>5, <1>6, <1>7, <1>8, <1>9, <1>10 DEF RequestStep

(* Types are kept by every step of a handler that ends an order.           *)
LEMMA HandlerTyped ==
    ASSUME TypeOK, NEW h \in Handlers, HandlerStep(h)
    PROVE  TypeOK'
<1> USE DEF TypeOK, request, document, ghost
<1>1. ASSUME NEW o \in Orders, NEW kind \in {"cancel", "delete", "expire"}, Load(h, o, kind)
      PROVE  job' \in [Handlers -> Jobs \cup {Idle}]
  BY <1>1 DEF Load, Jobs
<1>2. ASSUME NEW o \in Orders, LoadToCancel(h, o) PROVE TypeOK'
  BY <1>1, <1>2 DEF LoadToCancel
<1>3. ASSUME NEW o \in Orders, LoadToDelete(h, o) PROVE TypeOK'
  BY <1>1, <1>3 DEF LoadToDelete
<1>4. ASSUME NEW o \in Orders, Expire(h, o) PROVE TypeOK'
  BY <1>1, <1>4 DEF Expire, Statuses
<1>5. CASE Restore(h)
  <2>1. job[h] \in Jobs /\ job[h].order \in Orders /\ h \in Agents
    BY <1>5, JobFacts DEF Restore, Busy, Agents
  <2>2. /\ restoredAt' \in [Orders -> BOOLEAN]
        /\ put' \in [Agents -> SUBSET Tracked]
    BY <1>5, <2>1, ClaimTyped DEF Restore
  <2>3. job' \in [Handlers -> Jobs \cup {Idle}]
    BY <1>5, <2>1, JobFacts DEF Restore
  <2> QED BY <1>5, <2>2, <2>3 DEF Restore
<1>6. CASE Finish(h)
  <2>1. job[h].order \in Orders
    BY <1>6, JobFacts DEF Finish, Busy
  <2>2. status' \in [Orders -> Statuses]
    BY <1>6, <2>1 DEF Finish, Statuses
  <2> QED BY <1>6, <2>2 DEF Finish
<1> QED
  BY <1>2, <1>3, <1>4, <1>5, <1>6 DEF HandlerStep

(* ... and by everything else that can happen.                             *)
LEMMA OtherTyped ==
    ASSUME InventoryAssumption, TypeOK, Next,
           \A o \in Orders : ~RequestStep(o),
           \A h \in Handlers : ~HandlerStep(h)
    PROVE  TypeOK'
<1> USE DEF TypeOK, request, document, ghost
<1>0. Shock => shocks' \in 0..MaxShocks
  BY DEF InventoryAssumption, Shock
<1>1. ASSUME NEW a \in Agents, NEW o \in Orders, NEW i \in Tracked, PutBack(a, o, i)
      PROVE  TypeOK'
  <2>1. cart[o][i] \in Nat
    BY DEF Tracked
  <2>2. stockQty' \in [Tracked -> Nat]
    BY <1>1, <2>1 DEF PutBack
  <2> QED BY <1>1, <2>2 DEF PutBack
<1>2. ASSUME NEW a \in Agents, NEW o \in Orders, NEW i \in Tracked, PutBackFails(a, o, i)
      PROVE  TypeOK'
  BY <1>0, <1>2 DEF PutBackFails
<1>3. ASSUME NEW o \in Orders, RiderReads(o) PROVE TypeOK'
  BY <1>3 DEF RiderReads
<1>4. ASSUME NEW o \in Orders, RiderSaves(o) PROVE TypeOK'
  BY <1>4 DEF RiderSaves, Statuses
<1>5. ASSUME NEW i \in Tracked, NEW n \in Counts, AdjustStock(i, n) PROVE TypeOK'
  <2>1. n \in Nat
    BY DEF InventoryAssumption
  <2> QED BY <1>0, <1>5, <2>1 DEF AdjustStock
<1>6. ASSUME NEW o \in Orders, RequestThrows(o) \/ CrashRequest(o) PROVE TypeOK'
  <2>1. lost' \subseteq Orders \X Tracked
    BY <1>6 DEF RequestThrows, CrashRequest, Abandon, Agents
  <2> QED BY <1>0, <1>6, <2>1 DEF RequestThrows, CrashRequest, Abandon, Phases
<1>7. ASSUME NEW h \in Handlers, CrashHandler(h) PROVE TypeOK'
  <2>1. job[h].order \in Orders
    BY <1>7, JobFacts DEF CrashHandler, Busy
  <2>2. lost' \subseteq Orders \X Tracked
    BY <1>7, <2>1 DEF CrashHandler, Agents
  <2> QED BY <1>0, <1>7, <2>1, <2>2 DEF CrashHandler
<1> QED
  BY <1>1, <1>2, <1>3, <1>4, <1>5, <1>6, <1>7 DEF Next

(* A stutter keeps the types.                                              *)
LEMMA StutterTyped ==
    ASSUME TypeOK, UNCHANGED vars
    PROVE  TypeOK'
BY DEF TypeOK, vars, request, document, ghost

(* The initial state is of the right types.                                *)
LEMMA InitTyped ==
    ASSUME InventoryAssumption, Init
    PROVE  TypeOK
BY DEF InventoryAssumption, Init, TypeOK, Phases, Statuses, Tracked

(* Every step keeps the types.                                             *)
LEMMA StepTyped ==
    ASSUME InventoryAssumption, TypeOK, [Next]_vars
    PROVE  TypeOK'
BY RequestTyped, HandlerTyped, OtherTyped, StutterTyped

(***************************************************************************)
(* In every state the services can reach, the database and the memory of   *)
(* every handler are of the types Inventory declares; in particular no     *)
(* count of a product ever goes negative (reserveStockForItems).           *)
(***************************************************************************)
THEOREM Typed == Spec => []TypeOK
<1>1. Init => TypeOK
  BY InitTyped, InventoryAssumption
<1>2. TypeOK /\ [Next]_vars => TypeOK'
  BY StepTyped, InventoryAssumption
<1> QED
  BY <1>1, <1>2, PTL DEF Spec

(* Place keeps the inductive invariant.                                    *)
LEMMA PlaceKeeps ==
    ASSUME InventoryAssumption, IInv, TypeOK', NEW o \in Orders, NEW c \in Baskets, Place(o, c)
    PROVE  IInv'
<1> USE JobFacts DEF InventoryAssumption, IInv, TypeOK, Place, Exists, Agents, Tracked, Lines, Busy, WorksFor, request, document, ghost, Shock
<1>1. ASSUME NEW p \in Orders PROVE RequestInv(p)'
  BY DEF RequestInv, DocumentInv
<1>2. ASSUME NEW p \in Orders PROVE DocumentInv(p)'
  BY DEF RequestInv, DocumentInv
<1>3. ASSUME NEW k \in Handlers PROVE HandlerInv(k)'
  BY DEF HandlerInv, RequestInv, DocumentInv
<1>4. OneHand'
  BY DEF OneHand, HandlerInv, RequestInv
<1>5. LostInv'
  BY DEF LostInv, HeldByRequest, HeldByDocument, InHand, HandlerInv, RequestInv, DocumentInv
<1> QED BY <1>1, <1>2, <1>3, <1>4, <1>5

(* ReserveLine keeps the inductive invariant.                              *)
LEMMA ReserveLineKeeps ==
    ASSUME InventoryAssumption, IInv, TypeOK', NEW o \in Orders, NEW i \in Items, ReserveLine(o, i)
    PROVE  IInv'
<1> USE JobFacts DEF InventoryAssumption, IInv, TypeOK, ReserveLine, Exists, Agents, Tracked, Lines, Busy, WorksFor, request, document, ghost, Shock
<1>1. ASSUME NEW p \in Orders PROVE RequestInv(p)'
  BY DEF RequestInv, DocumentInv
<1>2. ASSUME NEW p \in Orders PROVE DocumentInv(p)'
  BY DEF RequestInv, DocumentInv
<1>3. ASSUME NEW k \in Handlers PROVE HandlerInv(k)'
  BY DEF HandlerInv, RequestInv, DocumentInv
<1>4. OneHand'
  BY DEF OneHand, HandlerInv, RequestInv
<1>5. LostInv'
  BY DEF LostInv, HeldByRequest, HeldByDocument, InHand, HandlerInv, RequestInv, DocumentInv
<1> QED BY <1>1, <1>2, <1>3, <1>4, <1>5

(* PassUntracked keeps the inductive invariant.                            *)
LEMMA PassUntrackedKeeps ==
    ASSUME InventoryAssumption, IInv, TypeOK', NEW o \in Orders, NEW i \in Items, PassUntracked(o, i)
    PROVE  IInv'
<1> USE JobFacts DEF InventoryAssumption, IInv, TypeOK, PassUntracked, Exists, Agents, Tracked, Lines, Busy, WorksFor, request, document, ghost, Shock
<1>1. ASSUME NEW p \in Orders PROVE RequestInv(p)'
  BY DEF RequestInv, DocumentInv
<1>2. ASSUME NEW p \in Orders PROVE DocumentInv(p)'
  BY DEF RequestInv, DocumentInv
<1>3. ASSUME NEW k \in Handlers PROVE HandlerInv(k)'
  BY DEF HandlerInv, RequestInv, DocumentInv
<1>4. OneHand'
  BY DEF OneHand, HandlerInv, RequestInv
<1>5. LostInv'
  BY DEF LostInv, HeldByRequest, HeldByDocument, InHand, HandlerInv, RequestInv, DocumentInv
<1> QED BY <1>1, <1>2, <1>3, <1>4, <1>5

(* RefuseLine keeps the inductive invariant.                               *)
LEMMA RefuseLineKeeps ==
    ASSUME InventoryAssumption, IInv, TypeOK', NEW o \in Orders, RefuseLine(o)
    PROVE  IInv'
<1> USE JobFacts DEF InventoryAssumption, IInv, TypeOK, RefuseLine, StartRelease, Exists, Agents, Tracked, Lines, Busy, WorksFor, request, document, ghost, Shock
<1>1. ASSUME NEW p \in Orders PROVE RequestInv(p)'
  BY DEF RequestInv, DocumentInv
<1>2. ASSUME NEW p \in Orders PROVE DocumentInv(p)'
  BY DEF RequestInv, DocumentInv
<1>3. ASSUME NEW k \in Handlers PROVE HandlerInv(k)'
  BY DEF HandlerInv, RequestInv, DocumentInv
<1>4. OneHand'
  BY DEF OneHand, HandlerInv, RequestInv
<1>5. LostInv'
  BY DEF LostInv, HeldByRequest, HeldByDocument, InHand, HandlerInv, RequestInv, DocumentInv
<1> QED BY <1>1, <1>2, <1>3, <1>4, <1>5

(* SeatOrSaveFails keeps the inductive invariant.                          *)
LEMMA SeatOrSaveFailsKeeps ==
    ASSUME InventoryAssumption, IInv, TypeOK', NEW o \in Orders, SeatOrSaveFails(o)
    PROVE  IInv'
<1> USE JobFacts DEF InventoryAssumption, IInv, TypeOK, SeatOrSaveFails, StartRelease, Exists, Agents, Tracked, Lines, Busy, WorksFor, request, document, ghost, Shock
<1>1. ASSUME NEW p \in Orders PROVE RequestInv(p)'
  BY DEF RequestInv, DocumentInv
<1>2. ASSUME NEW p \in Orders PROVE DocumentInv(p)'
  BY DEF RequestInv, DocumentInv
<1>3. ASSUME NEW k \in Handlers PROVE HandlerInv(k)'
  BY DEF HandlerInv, RequestInv, DocumentInv
<1>4. OneHand'
  BY DEF OneHand, HandlerInv, RequestInv
<1>5. LostInv'
  BY DEF LostInv, HeldByRequest, HeldByDocument, InHand, HandlerInv, RequestInv, DocumentInv
<1> QED BY <1>1, <1>2, <1>3, <1>4, <1>5

(* SaveOrder keeps the inductive invariant.                                *)
LEMMA SaveOrderKeeps ==
    ASSUME InventoryAssumption, IInv, TypeOK', NEW o \in Orders, SaveOrder(o)
    PROVE  IInv'
<1> USE JobFacts DEF InventoryAssumption, IInv, TypeOK, SaveOrder, Exists, Agents, Tracked, Lines, Busy, WorksFor, request, document, ghost, Shock
<1>1. ASSUME NEW p \in Orders PROVE RequestInv(p)'
  BY DEF RequestInv, DocumentInv
<1>2. ASSUME NEW p \in Orders PROVE DocumentInv(p)'
  BY DEF RequestInv, DocumentInv
<1>3. ASSUME NEW k \in Handlers PROVE HandlerInv(k)'
  BY DEF HandlerInv, RequestInv, DocumentInv
<1>4. OneHand'
  BY DEF OneHand, HandlerInv, RequestInv
<1>5. LostInv'
  BY DEF LostInv, HeldByRequest, HeldByDocument, InHand, HandlerInv, RequestInv, DocumentInv
<1> QED BY <1>1, <1>2, <1>3, <1>4, <1>5

(* ReleaseDone keeps the inductive invariant.                              *)
LEMMA ReleaseDoneKeeps ==
    ASSUME InventoryAssumption, IInv, TypeOK', NEW o \in Orders, ReleaseDone(o)
    PROVE  IInv'
<1> USE JobFacts DEF InventoryAssumption, IInv, TypeOK, ReleaseDone, Exists, Agents, Tracked, Lines, Busy, WorksFor, request, document, ghost, Shock
<1>1. ASSUME NEW p \in Orders PROVE RequestInv(p)'
  BY DEF RequestInv, DocumentInv
<1>2. ASSUME NEW p \in Orders PROVE DocumentInv(p)'
  BY DEF RequestInv, DocumentInv
<1>3. ASSUME NEW k \in Handlers PROVE HandlerInv(k)'
  BY DEF HandlerInv, RequestInv, DocumentInv
<1>4. OneHand'
  BY DEF OneHand, HandlerInv, RequestInv
<1>5. LostInv'
  BY DEF LostInv, HeldByRequest, HeldByDocument, InHand, HandlerInv, RequestInv, DocumentInv
<1> QED BY <1>1, <1>2, <1>3, <1>4, <1>5

(* Charged keeps the inductive invariant.                                  *)
LEMMA ChargedKeeps ==
    ASSUME InventoryAssumption, IInv, TypeOK', NEW o \in Orders, Charged(o)
    PROVE  IInv'
<1> USE JobFacts DEF InventoryAssumption, IInv, TypeOK, Charged, Exists, Agents, Tracked, Lines, Busy, WorksFor, request, document, ghost, Shock
<1>1. ASSUME NEW p \in Orders PROVE RequestInv(p)'
  BY DEF RequestInv, DocumentInv
<1>2. ASSUME NEW p \in Orders PROVE DocumentInv(p)'
  BY DEF RequestInv, DocumentInv
<1>3. ASSUME NEW k \in Handlers PROVE HandlerInv(k)'
  BY DEF HandlerInv, RequestInv, DocumentInv
<1>4. OneHand'
  BY DEF OneHand, HandlerInv, RequestInv
<1>5. LostInv'
  BY DEF LostInv, HeldByRequest, HeldByDocument, InHand, HandlerInv, RequestInv, DocumentInv
<1> QED BY <1>1, <1>2, <1>3, <1>4, <1>5

(* ChargeFails keeps the inductive invariant.                              *)
LEMMA ChargeFailsKeeps ==
    ASSUME InventoryAssumption, IInv, TypeOK', NEW o \in Orders, ChargeFails(o)
    PROVE  IInv'
<1> USE JobFacts DEF InventoryAssumption, IInv, TypeOK, ChargeFails, ClaimRestore, Exists, Agents, Tracked, Lines, Busy, WorksFor, request, document, ghost, Shock
<1>1. ASSUME NEW p \in Orders PROVE RequestInv(p)'
  BY DEF RequestInv, DocumentInv
<1>2. ASSUME NEW p \in Orders PROVE DocumentInv(p)'
  BY DEF RequestInv, DocumentInv
<1>3. ASSUME NEW k \in Handlers PROVE HandlerInv(k)'
  <2>1. CASE UNCHANGED <<restoredAt, put>>
    BY <2>1 DEF HandlerInv, RequestInv, DocumentInv
  <2>2. CASE ~restoredAt[o] /\ taken[o] # {} /\ Exists(o) /\ restoredAt' = [restoredAt EXCEPT ![o] = TRUE] /\ put' = [put EXCEPT ![o] = Lines(o)]
    BY <2>2 DEF HandlerInv, RequestInv, DocumentInv
  <2> QED BY <2>1, <2>2
<1>4. OneHand'
  <2>1. CASE UNCHANGED <<restoredAt, put>>
    BY <2>1 DEF OneHand, HandlerInv, RequestInv, DocumentInv
  <2>2. CASE ~restoredAt[o] /\ taken[o] # {} /\ Exists(o) /\ restoredAt' = [restoredAt EXCEPT ![o] = TRUE] /\ put' = [put EXCEPT ![o] = Lines(o)]
    BY <2>2 DEF OneHand, HandlerInv, RequestInv, DocumentInv
  <2> QED BY <2>1, <2>2
<1>5. LostInv'
  <2>1. CASE UNCHANGED <<restoredAt, put>>
    BY <2>1 DEF LostInv, HeldByRequest, HeldByDocument, InHand, HandlerInv, RequestInv, DocumentInv
  <2>2. CASE ~restoredAt[o] /\ taken[o] # {} /\ Exists(o) /\ restoredAt' = [restoredAt EXCEPT ![o] = TRUE] /\ put' = [put EXCEPT ![o] = Lines(o)]
    BY <2>2 DEF LostInv, HeldByRequest, HeldByDocument, InHand, HandlerInv, RequestInv, DocumentInv
  <2> QED BY <2>1, <2>2
<1> QED BY <1>1, <1>2, <1>3, <1>4, <1>5

(* DeleteUncharged keeps the inductive invariant.                          *)
LEMMA DeleteUnchargedKeeps ==
    ASSUME InventoryAssumption, IInv, TypeOK', NEW o \in Orders, DeleteUncharged(o)
    PROVE  IInv'
<1> USE JobFacts DEF InventoryAssumption, IInv, TypeOK, DeleteUncharged, Exists, Agents, Tracked, Lines, Busy, WorksFor, request, document, ghost, Shock
<1>1. ASSUME NEW p \in Orders PROVE RequestInv(p)'
  BY DEF RequestInv, DocumentInv
<1>2. ASSUME NEW p \in Orders PROVE DocumentInv(p)'
  BY DEF RequestInv, DocumentInv
<1>3. ASSUME NEW k \in Handlers PROVE HandlerInv(k)'
  BY DEF HandlerInv, RequestInv, DocumentInv
<1>4. OneHand'
  BY DEF OneHand, HandlerInv, RequestInv
<1>5. LostInv'
  BY DEF LostInv, HeldByRequest, HeldByDocument, InHand, HandlerInv, RequestInv, DocumentInv
<1> QED BY <1>1, <1>2, <1>3, <1>4, <1>5

(* PutBack keeps the inductive invariant.                                  *)
LEMMA PutBackKeeps ==
    ASSUME InventoryAssumption, IInv, TypeOK', NEW a \in Agents, NEW o \in Orders, NEW i \in Tracked, PutBack(a, o, i)
    PROVE  IInv'
<1> USE JobFacts DEF InventoryAssumption, IInv, TypeOK, PutBack, Exists, Agents, Tracked, Lines, Busy, WorksFor, request, document, ghost, Shock
<1>1. ASSUME NEW p \in Orders PROVE RequestInv(p)'
  BY DEF RequestInv, DocumentInv
<1>2. ASSUME NEW p \in Orders PROVE DocumentInv(p)'
  BY DEF RequestInv, DocumentInv
<1>3. ASSUME NEW k \in Handlers PROVE HandlerInv(k)'
  BY DEF HandlerInv, RequestInv, DocumentInv
<1>4. OneHand'
  BY DEF OneHand, HandlerInv, RequestInv
<1>5. LostInv'
  BY DEF LostInv, HeldByRequest, HeldByDocument, InHand, HandlerInv, RequestInv, DocumentInv
<1> QED BY <1>1, <1>2, <1>3, <1>4, <1>5

(* PutBackFails keeps the inductive invariant.                             *)
LEMMA PutBackFailsKeeps ==
    ASSUME InventoryAssumption, IInv, TypeOK', NEW a \in Agents, NEW o \in Orders, NEW i \in Tracked, PutBackFails(a, o, i)
    PROVE  IInv'
<1> USE JobFacts DEF InventoryAssumption, IInv, TypeOK, PutBackFails, Exists, Agents, Tracked, Lines, Busy, WorksFor, request, document, ghost, Shock
<1>1. ASSUME NEW p \in Orders PROVE RequestInv(p)'
  BY DEF RequestInv, DocumentInv
<1>2. ASSUME NEW p \in Orders PROVE DocumentInv(p)'
  BY DEF RequestInv, DocumentInv
<1>3. ASSUME NEW k \in Handlers PROVE HandlerInv(k)'
  BY DEF HandlerInv, RequestInv, DocumentInv
<1>4. OneHand'
  BY DEF OneHand, HandlerInv, RequestInv
<1>5. LostInv'
  <2>1. ASSUME NEW p \in Orders, NEW j \in Tracked, <<p, j>> \in lost'
        PROVE  /\ j \in Lines(p)'
               /\ req'[p] \notin {"idle", "reserving"}
    BY <2>1 DEF LostInv, HandlerInv, RequestInv, DocumentInv
  <2>2. ASSUME NEW p \in Orders, NEW j \in Tracked, <<p, j>> \in lost'
        PROVE  ~HeldByDocument(p, j)'
    BY <2>2 DEF LostInv, HeldByDocument, HandlerInv, RequestInv, DocumentInv
  <2>3. ASSUME NEW p \in Orders, NEW j \in Tracked, <<p, j>> \in lost'
        PROVE  ~InHand(p, j)'
    <3>1. CASE <<p, j>> \in lost
      BY <3>1 DEF LostInv, InHand
    <3>2. CASE <<p, j>> \notin lost
      BY <2>3, <3>2 DEF OneHand, InHand, HandlerInv, RequestInv, DocumentInv
    <3> QED BY <3>1, <3>2
  <2> QED BY <2>1, <2>2, <2>3 DEF LostInv, HeldByRequest
<1> QED BY <1>1, <1>2, <1>3, <1>4, <1>5

(* LoadToCancel keeps the inductive invariant.                             *)
LEMMA LoadToCancelKeeps ==
    ASSUME InventoryAssumption, IInv, TypeOK', NEW h \in Handlers, NEW o \in Orders, LoadToCancel(h, o)
    PROVE  IInv'
<1> USE JobFacts DEF InventoryAssumption, IInv, TypeOK, LoadToCancel, Load, Exists, Agents, Tracked, Lines, Busy, WorksFor, request, document, ghost, Shock
<1>1. ASSUME NEW p \in Orders PROVE RequestInv(p)'
  BY DEF RequestInv, DocumentInv
<1>2. ASSUME NEW p \in Orders PROVE DocumentInv(p)'
  BY DEF RequestInv, DocumentInv
<1>3. ASSUME NEW k \in Handlers PROVE HandlerInv(k)'
  BY DEF HandlerInv, RequestInv, DocumentInv
<1>4. OneHand'
  BY DEF OneHand, HandlerInv, RequestInv
<1>5. LostInv'
  BY DEF LostInv, HeldByRequest, HeldByDocument, InHand, HandlerInv, RequestInv, DocumentInv
<1> QED BY <1>1, <1>2, <1>3, <1>4, <1>5

(* LoadToDelete keeps the inductive invariant.                             *)
LEMMA LoadToDeleteKeeps ==
    ASSUME InventoryAssumption, IInv, TypeOK', NEW h \in Handlers, NEW o \in Orders, LoadToDelete(h, o)
    PROVE  IInv'
<1> USE JobFacts DEF InventoryAssumption, IInv, TypeOK, LoadToDelete, Load, Exists, Agents, Tracked, Lines, Busy, WorksFor, request, document, ghost, Shock
<1>1. ASSUME NEW p \in Orders PROVE RequestInv(p)'
  BY DEF RequestInv, DocumentInv
<1>2. ASSUME NEW p \in Orders PROVE DocumentInv(p)'
  BY DEF RequestInv, DocumentInv
<1>3. ASSUME NEW k \in Handlers PROVE HandlerInv(k)'
  BY DEF HandlerInv, RequestInv, DocumentInv
<1>4. OneHand'
  BY DEF OneHand, HandlerInv, RequestInv
<1>5. LostInv'
  BY DEF LostInv, HeldByRequest, HeldByDocument, InHand, HandlerInv, RequestInv, DocumentInv
<1> QED BY <1>1, <1>2, <1>3, <1>4, <1>5

(* Expire keeps the inductive invariant.                                   *)
LEMMA ExpireKeeps ==
    ASSUME InventoryAssumption, IInv, TypeOK', NEW h \in Handlers, NEW o \in Orders, Expire(h, o)
    PROVE  IInv'
<1> USE JobFacts DEF InventoryAssumption, IInv, TypeOK, Expire, Load, Exists, Agents, Tracked, Lines, Busy, WorksFor, request, document, ghost, Shock
<1>1. ASSUME NEW p \in Orders PROVE RequestInv(p)'
  BY DEF RequestInv, DocumentInv
<1>2. ASSUME NEW p \in Orders PROVE DocumentInv(p)'
  BY DEF RequestInv, DocumentInv
<1>3. ASSUME NEW k \in Handlers PROVE HandlerInv(k)'
  BY DEF HandlerInv, RequestInv, DocumentInv
<1>4. OneHand'
  BY DEF OneHand, HandlerInv, RequestInv
<1>5. LostInv'
  BY DEF LostInv, HeldByRequest, HeldByDocument, InHand, HandlerInv, RequestInv, DocumentInv
<1> QED BY <1>1, <1>2, <1>3, <1>4, <1>5

(* Restore keeps the inductive invariant.                                  *)
LEMMA RestoreKeeps ==
    ASSUME InventoryAssumption, IInv, TypeOK', NEW h \in Handlers, Restore(h)
    PROVE  IInv'
<1> USE JobFacts DEF InventoryAssumption, IInv, TypeOK, Restore, ClaimRestore, Exists, Agents, Tracked, Lines, Busy, WorksFor, request, document, ghost, Shock
<1>1. ASSUME NEW p \in Orders PROVE RequestInv(p)'
  <2>1. CASE UNCHANGED <<restoredAt, put>>
    BY <2>1 DEF HandlerInv, RequestInv, DocumentInv
  <2>2. CASE ~restoredAt[job[h].order] /\ taken[job[h].order] # {} /\ Exists(job[h].order) /\ restoredAt' = [restoredAt EXCEPT ![job[h].order] = TRUE] /\ put' = [put EXCEPT ![h] = Lines(job[h].order)]
    BY <2>2 DEF HandlerInv, RequestInv, DocumentInv
  <2> QED BY <2>1, <2>2
<1>2. ASSUME NEW p \in Orders PROVE DocumentInv(p)'
  BY DEF RequestInv, DocumentInv
<1>3. ASSUME NEW k \in Handlers PROVE HandlerInv(k)'
  <2>1. CASE UNCHANGED <<restoredAt, put>>
    BY <2>1 DEF HandlerInv, RequestInv, DocumentInv
  <2>2. CASE ~restoredAt[job[h].order] /\ taken[job[h].order] # {} /\ Exists(job[h].order) /\ restoredAt' = [restoredAt EXCEPT ![job[h].order] = TRUE] /\ put' = [put EXCEPT ![h] = Lines(job[h].order)]
    BY <2>2 DEF HandlerInv, RequestInv, DocumentInv
  <2> QED BY <2>1, <2>2
<1>4. OneHand'
  BY DEF OneHand, HandlerInv, RequestInv
<1>5. LostInv'
  BY DEF LostInv, HeldByRequest, HeldByDocument, InHand, HandlerInv, RequestInv, DocumentInv
<1> QED BY <1>1, <1>2, <1>3, <1>4, <1>5

(* Finish keeps the inductive invariant.                                   *)
LEMMA FinishKeeps ==
    ASSUME InventoryAssumption, IInv, TypeOK', NEW h \in Handlers, Finish(h)
    PROVE  IInv'
<1> USE JobFacts DEF InventoryAssumption, IInv, TypeOK, Finish, Exists, Agents, Tracked, Lines, Busy, WorksFor, request, document, ghost, Shock
<1>1. ASSUME NEW p \in Orders PROVE RequestInv(p)'
  <2>1. status'[p] = "none" <=> status[p] = "none"
    BY DEF HandlerInv
  <2> QED BY <2>1 DEF RequestInv, DocumentInv
<1>2. ASSUME NEW p \in Orders PROVE DocumentInv(p)'
  <2>1. status'[p] = "none" <=> status[p] = "none"
    BY DEF HandlerInv
  <2> QED BY <2>1 DEF RequestInv, DocumentInv
<1>3. ASSUME NEW k \in Handlers PROVE HandlerInv(k)'
  BY DEF HandlerInv, RequestInv, DocumentInv
<1>4. OneHand'
  BY DEF OneHand, HandlerInv, RequestInv
<1>5. LostInv'
  BY DEF LostInv, HeldByRequest, HeldByDocument, InHand, HandlerInv, RequestInv, DocumentInv
<1> QED BY <1>1, <1>2, <1>3, <1>4, <1>5

(* RiderReads keeps the inductive invariant.                               *)
LEMMA RiderReadsKeeps ==
    ASSUME InventoryAssumption, IInv, TypeOK', NEW o \in Orders, RiderReads(o)
    PROVE  IInv'
<1> USE JobFacts DEF InventoryAssumption, IInv, TypeOK, RiderReads, Exists, Agents, Tracked, Lines, Busy, WorksFor, request, document, ghost, Shock
<1>1. ASSUME NEW p \in Orders PROVE RequestInv(p)'
  BY DEF RequestInv, DocumentInv
<1>2. ASSUME NEW p \in Orders PROVE DocumentInv(p)'
  BY DEF RequestInv, DocumentInv
<1>3. ASSUME NEW k \in Handlers PROVE HandlerInv(k)'
  BY DEF HandlerInv, RequestInv, DocumentInv
<1>4. OneHand'
  BY DEF OneHand, HandlerInv, RequestInv
<1>5. LostInv'
  BY DEF LostInv, HeldByRequest, HeldByDocument, InHand, HandlerInv, RequestInv, DocumentInv
<1> QED BY <1>1, <1>2, <1>3, <1>4, <1>5

(* RiderSaves keeps the inductive invariant.                               *)
LEMMA RiderSavesKeeps ==
    ASSUME InventoryAssumption, IInv, TypeOK', NEW o \in Orders, RiderSaves(o)
    PROVE  IInv'
<1> USE JobFacts DEF InventoryAssumption, IInv, TypeOK, RiderSaves, Exists, Agents, Tracked, Lines, Busy, WorksFor, request, document, ghost, Shock
<1>1. ASSUME NEW p \in Orders PROVE RequestInv(p)'
  BY DEF RequestInv, DocumentInv
<1>2. ASSUME NEW p \in Orders PROVE DocumentInv(p)'
  BY DEF RequestInv, DocumentInv
<1>3. ASSUME NEW k \in Handlers PROVE HandlerInv(k)'
  <2>1. \A p \in Orders : status[p] # "none" => status'[p] # "none"
    OBVIOUS
  <2>2. CASE ~Busy(k)
    BY <2>2 DEF HandlerInv
  <2>3. CASE Busy(k)
    <3>1. job[k].order \in Orders
      BY <2>3
    <3>2. HandlerInv(k)
      OBVIOUS
    <3>3. UNCHANGED <<job, put, cart, restoredAt>>
      OBVIOUS
    <3>4. status'[job[k].order] # "none"
      BY <2>1, <2>3, <3>1, <3>2 DEF HandlerInv
    <3> HIDE DEF RiderSaves, TypeOK
    <3> QED BY <2>3, <3>2, <3>3, <3>4 DEF HandlerInv
  <2> QED BY <2>2, <2>3
<1>4. OneHand'
  BY DEF OneHand, HandlerInv, RequestInv
<1>5. LostInv'
  BY DEF LostInv, HeldByRequest, HeldByDocument, InHand, HandlerInv, RequestInv, DocumentInv
<1> QED BY <1>1, <1>2, <1>3, <1>4, <1>5

(* AdjustStock keeps the inductive invariant.                              *)
LEMMA AdjustStockKeeps ==
    ASSUME InventoryAssumption, IInv, TypeOK', NEW i \in Tracked, NEW n \in Counts, AdjustStock(i, n)
    PROVE  IInv'
<1> USE JobFacts DEF InventoryAssumption, IInv, TypeOK, AdjustStock, Exists, Agents, Tracked, Lines, Busy, WorksFor, request, document, ghost, Shock
<1>1. ASSUME NEW p \in Orders PROVE RequestInv(p)'
  BY DEF RequestInv, DocumentInv
<1>2. ASSUME NEW p \in Orders PROVE DocumentInv(p)'
  BY DEF RequestInv, DocumentInv
<1>3. ASSUME NEW k \in Handlers PROVE HandlerInv(k)'
  BY DEF HandlerInv, RequestInv, DocumentInv
<1>4. OneHand'
  BY DEF OneHand, HandlerInv, RequestInv
<1>5. LostInv'
  BY DEF LostInv, HeldByRequest, HeldByDocument, InHand, HandlerInv, RequestInv, DocumentInv
<1> QED BY <1>1, <1>2, <1>3, <1>4, <1>5

(* A request that throws or dies, as far as the proofs need to know.       *)
GivesUp(o, how) ==
    /\ req[o] \in {"reserving", "releasing", "saved", "undoing"}
    /\ req' = [req EXCEPT ![o] = how]
    /\ Abandon(o)

(* That is what the two actions do.                                        *)
LEMMA RequestsGiveUp ==
    ASSUME NEW o \in Orders, RequestThrows(o) \/ CrashRequest(o)
    PROVE  \E how \in {"threw", "dead"} : GivesUp(o, how)
BY DEF RequestThrows, CrashRequest, GivesUp

(* A request that throws or dies keeps the inductive invariant.            *)
LEMMA CrashRequestKeeps ==
    ASSUME InventoryAssumption, IInv, TypeOK', NEW o \in Orders,
           NEW how \in {"threw", "dead"}, GivesUp(o, how)
    PROVE  IInv'
<1> USE JobFacts DEF InventoryAssumption, IInv, TypeOK, GivesUp, Abandon, Exists, Agents, Tracked, Lines, Busy, WorksFor, request, document, ghost, Shock
<1>1. ASSUME NEW p \in Orders PROVE RequestInv(p)'
  BY DEF RequestInv, DocumentInv
<1>2. ASSUME NEW p \in Orders PROVE DocumentInv(p)'
  BY DEF RequestInv, DocumentInv
<1>3. ASSUME NEW k \in Handlers PROVE HandlerInv(k)'
  BY DEF HandlerInv, RequestInv, DocumentInv
<1>4. OneHand'
  BY DEF OneHand, HandlerInv, RequestInv
<1>5. LostInv'
  <2>1. ASSUME NEW p \in Orders, NEW j \in Tracked, <<p, j>> \in lost'
        PROVE  /\ j \in Lines(p)'
               /\ req'[p] \notin {"idle", "reserving"}
    BY <2>1 DEF LostInv, HandlerInv, RequestInv, DocumentInv
  <2>2. ASSUME NEW p \in Orders, NEW j \in Tracked, <<p, j>> \in lost'
        PROVE  ~HeldByDocument(p, j)'
    BY <2>2 DEF LostInv, HeldByDocument, HandlerInv, RequestInv, DocumentInv
  <2>3. ASSUME NEW p \in Orders, NEW j \in Tracked, <<p, j>> \in lost'
        PROVE  ~InHand(p, j)'
    <3>1. CASE <<p, j>> \in lost
      BY <3>1 DEF LostInv, InHand
    <3>2. CASE <<p, j>> \notin lost
      BY <2>3, <3>2 DEF OneHand, InHand, HandlerInv, RequestInv, DocumentInv
    <3> QED BY <3>1, <3>2
  <2> QED BY <2>1, <2>2, <2>3 DEF LostInv, HeldByRequest
<1> QED BY <1>1, <1>2, <1>3, <1>4, <1>5

(* CrashHandler keeps the inductive invariant.                             *)
LEMMA CrashHandlerKeeps ==
    ASSUME InventoryAssumption, IInv, TypeOK', NEW h \in Handlers, CrashHandler(h)
    PROVE  IInv'
<1> USE JobFacts DEF InventoryAssumption, IInv, TypeOK, CrashHandler, Exists, Agents, Tracked, Lines, Busy, WorksFor, request, document, ghost, Shock
<1>1. ASSUME NEW p \in Orders PROVE RequestInv(p)'
  BY DEF RequestInv, DocumentInv
<1>2. ASSUME NEW p \in Orders PROVE DocumentInv(p)'
  BY DEF RequestInv, DocumentInv
<1>3. ASSUME NEW k \in Handlers PROVE HandlerInv(k)'
  BY DEF HandlerInv, RequestInv, DocumentInv
<1>4. OneHand'
  BY DEF OneHand, HandlerInv, RequestInv
<1>5. LostInv'
  <2>1. ASSUME NEW p \in Orders, NEW j \in Tracked, <<p, j>> \in lost'
        PROVE  /\ j \in Lines(p)'
               /\ req'[p] \notin {"idle", "reserving"}
    BY <2>1 DEF LostInv, HandlerInv, RequestInv, DocumentInv
  <2>2. ASSUME NEW p \in Orders, NEW j \in Tracked, <<p, j>> \in lost'
        PROVE  ~HeldByDocument(p, j)'
    BY <2>2 DEF LostInv, HeldByDocument, HandlerInv, RequestInv, DocumentInv
  <2>3. ASSUME NEW p \in Orders, NEW j \in Tracked, <<p, j>> \in lost'
        PROVE  ~InHand(p, j)'
    <3>1. CASE <<p, j>> \in lost
      BY <3>1 DEF LostInv, InHand
    <3>2. CASE <<p, j>> \notin lost
      BY <2>3, <3>2 DEF OneHand, InHand, HandlerInv, RequestInv, DocumentInv
    <3> QED BY <3>1, <3>2
  <2> QED BY <2>1, <2>2, <2>3 DEF LostInv, HeldByRequest
<1> QED BY <1>1, <1>2, <1>3, <1>4, <1>5

(* A stutter keeps the inductive invariant.                                *)
LEMMA StutterKeeps ==
    ASSUME IInv, UNCHANGED vars
    PROVE  IInv'
BY StutterTyped
   DEF IInv, RequestInv, DocumentInv, HandlerInv, OneHand, LostInv, HeldByRequest,
       HeldByDocument, InHand, WorksFor, Busy, Lines, vars, request, document, ghost

(* The inductive invariant holds initially.                                *)
LEMMA InitKeeps ==
    ASSUME InventoryAssumption, Init
    PROVE  IInv
<1>1. TypeOK
  BY InitTyped
<1>2. \A o \in Orders : RequestInv(o) /\ DocumentInv(o)
  BY DEF Init, RequestInv, DocumentInv, Agents
<1>3. \A h \in Handlers : HandlerInv(h)
  BY DEF Init, HandlerInv, Busy, Agents
<1> QED
  BY <1>1, <1>2, <1>3 DEF IInv, Init, OneHand, LostInv

(* Every step keeps the inductive invariant.                               *)
LEMMA StepKeeps ==
    ASSUME InventoryAssumption, IInv, [Next]_vars
    PROVE  IInv'
<1>1. TypeOK'
  BY StepTyped DEF IInv
<1>2. CASE UNCHANGED vars
  BY <1>2, StutterKeeps
<1>3. ASSUME NEW o \in Orders, RequestStep(o) PROVE IInv'
  BY <1>1, <1>3, PlaceKeeps, ReserveLineKeeps, PassUntrackedKeeps, RefuseLineKeeps,
     SeatOrSaveFailsKeeps, SaveOrderKeeps, ReleaseDoneKeeps, ChargedKeeps,
     ChargeFailsKeeps, DeleteUnchargedKeeps
     DEF RequestStep
<1>4. ASSUME NEW h \in Handlers, HandlerStep(h) PROVE IInv'
  BY <1>1, <1>4, LoadToCancelKeeps, LoadToDeleteKeeps, ExpireKeeps, RestoreKeeps,
     FinishKeeps
     DEF HandlerStep
<1>5. ASSUME NEW a \in Agents, NEW o \in Orders, NEW i \in Tracked,
             PutBack(a, o, i) \/ PutBackFails(a, o, i)
      PROVE  IInv'
  BY <1>1, <1>5, PutBackKeeps, PutBackFailsKeeps
<1>6. ASSUME NEW o \in Orders, RiderReads(o) \/ RiderSaves(o) \/ RequestThrows(o) \/ CrashRequest(o)
      PROVE  IInv'
  BY <1>1, <1>6, RiderReadsKeeps, RiderSavesKeeps, RequestsGiveUp, CrashRequestKeeps
<1>7. ASSUME NEW i \in Tracked, NEW n \in Counts, AdjustStock(i, n) PROVE IInv'
  BY <1>1, <1>7, AdjustStockKeeps
<1>8. ASSUME NEW h \in Handlers, CrashHandler(h) PROVE IInv'
  BY <1>1, <1>8, CrashHandlerKeeps
<1> QED
  BY <1>2, <1>3, <1>4, <1>5, <1>6, <1>7, <1>8 DEF Next

(***************************************************************************)
(* In every reachable state the units of an order are in exactly one       *)
(* place: with the request that reserved them, on the saved document, in   *)
(* the hands of the one agent that won the claim, or lost                  *)
(* (reserveStockForItems, releaseReservations, restoreOrderStock).         *)
(***************************************************************************)
THEOREM OnePlace == Spec => []IInv
<1>1. Init => IInv
  BY InitKeeps, InventoryAssumption
<1>2. IInv /\ [Next]_vars => IInv'
  BY StepKeeps, InventoryAssumption
<1> QED
  BY <1>1, <1>2, PTL DEF Spec

-----------------------------------------------------------------------------
(***************************************************************************)
(* The end of an order: a request that failed, and an order that was       *)
(* cancelled, expired or deleted, leave nothing off the shelf that is not  *)
(* accounted for.  The invariant follows a document from the claim of      *)
(* restoreOrderStock to the status its handler writes.                     *)
(***************************************************************************)
(* Nobody can put anything back for this order any more, or ever should.   *)
Settled(o) == restoredAt[o] \/ taken[o] = {} \/ collected[o]

(* Some handler took the status of o to expire it and has yet to restore.  *)
Expiring(h, o) ==
    Busy(h) /\ job[h].order = o /\ job[h].kind = "expire" /\ job[h].phase = "loaded"

DocumentEnds(o) ==
    /\ status[o] = "deleted" => Settled(o)
    /\ status[o] = "cancelled" =>
          Settled(o) \/ o \in stranded \/ \E h \in Handlers : Expiring(h, o)
    /\ req[o] \in {"undoing", "rejected"} /\ status[o] # "none" => Settled(o)

HandlerEnds(h) ==
    Busy(h) =>
      /\ job[h].collected => collected[job[h].order]
      /\ job[h].phase = "returning" => Settled(job[h].order)

EndInv ==
    /\ \A o \in Orders : DocumentEnds(o)
    /\ \A h \in Handlers : HandlerEnds(h)

-----------------------------------------------------------------------------
(* What is settled stays settled.                                          *)
LEMMA SettledStays ==
    ASSUME InventoryAssumption, IInv, [Next]_vars, NEW o \in Orders,
           status[o] # "none", Settled(o)
    PROVE  Settled(o)'
<1> USE DEF IInv, TypeOK, request, document, ghost, Settled
<1>1. CASE UNCHANGED vars
  BY <1>1 DEF vars
<1>2. ASSUME NEW p \in Orders, RequestStep(p) PROVE Settled(o)'
  BY <1>2 DEF RequestStep, Place, ReserveLine, PassUntracked, RefuseLine, SeatOrSaveFails,
     StartRelease, SaveOrder, ReleaseDone, Charged, ChargeFails, ClaimRestore,
     DeleteUncharged, RequestInv
<1>3. ASSUME NEW h \in Handlers, HandlerStep(h) PROVE Settled(o)'
  BY <1>3 DEF HandlerStep, LoadToCancel, LoadToDelete, Expire, Restore, ClaimRestore, Finish
<1>4. ASSUME NEW a \in Agents, NEW p \in Orders, NEW i \in Tracked,
             PutBack(a, p, i) \/ PutBackFails(a, p, i)
      PROVE  Settled(o)'
  BY <1>4 DEF PutBack, PutBackFails
<1>5. ASSUME NEW p \in Orders, RiderReads(p) \/ RiderSaves(p) \/ RequestThrows(p) \/ CrashRequest(p)
      PROVE  Settled(o)'
  BY <1>5 DEF RiderReads, RiderSaves, RequestThrows, CrashRequest, Abandon
<1>6. ASSUME NEW i \in Tracked, NEW n \in Counts, AdjustStock(i, n) PROVE Settled(o)'
  BY <1>6 DEF AdjustStock
<1>7. ASSUME NEW h \in Handlers, CrashHandler(h) PROVE Settled(o)'
  BY <1>7 DEF CrashHandler
<1> QED
  BY <1>1, <1>2, <1>3, <1>4, <1>5, <1>6, <1>7 DEF Next

(* The same, for every order.                                              *)
LEMMA EverySettledStays ==
    ASSUME InventoryAssumption, IInv, [Next]_vars
    PROVE  \A o \in Orders : status[o] # "none" /\ Settled(o) => Settled(o)'
BY SettledStays

(* A handler at work has loaded an order that was saved.                   *)
LEMMA BusyFacts ==
    ASSUME IInv, NEW h \in Handlers, Busy(h)
    PROVE  /\ job[h] \in Jobs
           /\ job[h].order \in Orders
           /\ job[h].phase \in {"loaded", "returning"}
           /\ job[h].kind \in {"cancel", "delete", "expire"}
           /\ status[job[h].order] # "none"
<1>1. job[h] \in Jobs
  BY DEF IInv, TypeOK, Busy
<1>2. status[job[h].order] # "none"
  BY DEF IInv, HandlerInv
<1> QED
  BY <1>1, <1>2, JobFacts

(* A step that gives no handler anything new to know.                      *)
LEMMA HandlersStay ==
    ASSUME InventoryAssumption, IInv, EndInv, UNCHANGED job,
           \A o \in Orders : collected[o] => collected'[o],
           \A o \in Orders : status[o] # "none" /\ Settled(o) => Settled(o)'
    PROVE  \A h \in Handlers : HandlerEnds(h)'
<1> SUFFICES ASSUME NEW h \in Handlers, Busy(h) PROVE HandlerEnds(h)'
  BY DEF HandlerEnds, Busy
<1>1. job[h].order \in Orders /\ status[job[h].order] # "none"
  BY BusyFacts
<1> QED
  BY <1>1 DEF EndInv, HandlerEnds, Busy

(* A step that neither ends an order nor gives a request up.               *)
LEMMA DocumentStays ==
    ASSUME EndInv, NEW o \in Orders, UNCHANGED job, stranded \subseteq stranded',
           status'[o] \in {"cancelled", "deleted"} => status'[o] = status[o],
           req'[o] \in {"undoing", "rejected"} /\ status'[o] # "none"
               => \/ req[o] \in {"undoing", "rejected"} /\ status[o] # "none"
                  \/ Settled(o)',
           status[o] # "none" /\ Settled(o) => Settled(o)'
    PROVE  DocumentEnds(o)'
<1>1. \A h \in Handlers : Expiring(h, o)' <=> Expiring(h, o)
  BY DEF Expiring, Busy
<1> QED
  BY <1>1 DEF EndInv, DocumentEnds

(* The steps of createOrder keep EndInv.                                   *)
LEMMA RequestStepEnds ==
    ASSUME InventoryAssumption, IInv, EndInv, NEW p \in Orders, RequestStep(p),
           \A o \in Orders : status[o] # "none" /\ Settled(o) => Settled(o)'
    PROVE  EndInv'
<1> USE DEF IInv, TypeOK, document, ghost
<1>1. UNCHANGED <<job, collected, stranded>>
  BY DEF RequestStep, Place, ReserveLine, PassUntracked, RefuseLine, SeatOrSaveFails,
     StartRelease, SaveOrder, ReleaseDone, Charged, ChargeFails, DeleteUncharged
<1>2. \A h \in Handlers : HandlerEnds(h)'
  BY <1>1, HandlersStay
<1>3. ASSUME NEW o \in Orders PROVE DocumentEnds(o)'
  <2>1. CASE o # p
    <3>1. status'[o] = status[o] /\ req'[o] = req[o]
      BY <2>1 DEF RequestStep, Place, ReserveLine, PassUntracked, RefuseLine,
         SeatOrSaveFails, StartRelease, SaveOrder, ReleaseDone, Charged, ChargeFails,
         DeleteUncharged
    <3> QED
      BY <1>1, <3>1, DocumentStays
  <2>2. CASE o = p /\ ChargeFails(p)
    <3>1. Settled(p)'
      <4>1. status[p] # "none"
        BY <2>2 DEF ChargeFails, RequestInv
      <4>2. CASE taken[p] # {} /\ Exists(p) /\ ~restoredAt[p]
        BY <2>2, <4>2 DEF ChargeFails, ClaimRestore, Settled
      <4>3. CASE taken[p] = {} \/ restoredAt[p]
        BY <2>2, <4>1, <4>3 DEF Settled
      <4>4. CASE ~Exists(p)
        BY <4>1, <4>4 DEF Exists, Statuses, EndInv, DocumentEnds
      <4> QED
        BY <4>2, <4>3, <4>4
    <3>2. status' = status
      BY <2>2 DEF ChargeFails
    <3> QED
      BY <1>1, <2>2, <3>1, <3>2, DocumentStays
  <2>3. CASE o = p /\ DeleteUncharged(p)
    <3>1. req[p] = "undoing" /\ status[p] # "none"
      BY <2>3 DEF DeleteUncharged, RequestInv
    <3>2. Settled(p)'
      BY <3>1 DEF EndInv, DocumentEnds
    <3> QED
      BY <2>3, <3>2 DEF DocumentEnds
  <2>4. CASE o = p /\ ~ChargeFails(p) /\ ~DeleteUncharged(p)
    <3>1. /\ status'[p] \in {status[p], "placed"}
          /\ req'[p] \in {"undoing", "rejected"} => status'[p] = "none"
      BY <2>4 DEF RequestStep, Place, ReserveLine, PassUntracked, RefuseLine,
         SeatOrSaveFails, StartRelease, SaveOrder, ReleaseDone, Charged, RequestInv
    <3> QED
      BY <1>1, <2>4, <3>1, DocumentStays
  <2> QED
    BY <2>1, <2>2, <2>3, <2>4
<1> QED
  BY <1>2, <1>3 DEF EndInv

(* A handler reads an order: it knows what the document says.              *)
LEMMA LoadEnds ==
    ASSUME InventoryAssumption, IInv, EndInv, NEW h \in Handlers, NEW p \in Orders,
           NEW kind, Load(h, p, kind), ~Busy(h),
           UNCHANGED <<req, taken, restoredAt, collected, stranded>>,
           \/ UNCHANGED status
           \/ /\ kind = "expire"
              /\ status[p] = "placed"
              /\ status' = [status EXCEPT ![p] = "cancelled"]
    PROVE  EndInv'
<1> USE DEF IInv, TypeOK
<1>1. /\ job'[h] = [phase |-> "loaded", kind |-> kind, order |-> p,
                    collected |-> collected[p]]
      /\ \A k \in Handlers \ {h} : job'[k] = job[k]
  BY DEF Load
<1>2. \A o \in Orders : Settled(o)' <=> Settled(o)
  BY DEF Settled
<1>3. ASSUME NEW k \in Handlers PROVE HandlerEnds(k)'
  <2>1. CASE k = h
    BY <1>1, <2>1 DEF HandlerEnds
  <2>2. CASE k # h /\ Busy(k)
    <3>1. job[k].order \in Orders
      BY <2>2, BusyFacts
    <3> QED
      BY <1>1, <1>2, <2>2, <3>1 DEF EndInv, HandlerEnds, Busy
  <2>3. CASE k # h /\ ~Busy(k)
    BY <1>1, <2>3 DEF HandlerEnds, Busy
  <2> QED
    BY <2>1, <2>2, <2>3
<1>4. ASSUME NEW o \in Orders, NEW k \in Handlers, Expiring(k, o) PROVE Expiring(k, o)'
  <2>1. k # h
    BY <1>4 DEF Expiring
  <2> QED
    BY <1>1, <1>4, <2>1 DEF Expiring, Busy
<1>5. kind = "expire" => Expiring(h, p)'
  BY <1>1 DEF Expiring, Busy, Idle
<1>6. ASSUME NEW o \in Orders PROVE DocumentEnds(o)'
  <2>1. CASE status'[o] = status[o]
    BY <1>2, <1>4, <2>1 DEF EndInv, DocumentEnds
  <2>2. CASE status'[o] # status[o]
    <3>1. o = p /\ kind = "expire" /\ status'[o] = "cancelled" /\ status[o] # "none"
      BY <2>2
    <3> QED
      BY <1>2, <1>5, <3>1 DEF EndInv, DocumentEnds
  <2> QED
    BY <2>1, <2>2
<1> QED
  BY <1>3, <1>6 DEF EndInv

(* The steps of a handler keep EndInv.                                     *)
LEMMA HandlerStepEnds ==
    ASSUME InventoryAssumption, IInv, EndInv, NEW h \in Handlers, HandlerStep(h),
           \A o \in Orders : status[o] # "none" /\ Settled(o) => Settled(o)'
    PROVE  EndInv'
<1> USE DEF document, request, ghost
<1>1. ASSUME NEW o \in Orders, LoadToCancel(h, o) \/ LoadToDelete(h, o) PROVE EndInv'
  BY <1>1, LoadEnds DEF LoadToCancel, LoadToDelete
<1>2. ASSUME NEW o \in Orders, Expire(h, o) PROVE EndInv'
  BY <1>2, LoadEnds DEF Expire
<1>3. CASE Restore(h)
  <2>0. PICK o \in Orders : o = job[h].order
    BY <1>3, BusyFacts DEF Restore
  <2>1. job[h] \in Jobs /\ status[o] # "none"
    BY <1>3, <2>0, BusyFacts DEF Restore
  <2>2. Settled(o)'
    <3>1. CASE taken[o] = {} \/ restoredAt[o] \/ job[h].collected
      BY <1>3, <2>0, <2>1, <3>1 DEF Restore, Settled, EndInv, HandlerEnds
    <3>2. CASE ~Exists(o)
      <4>1. status[o] = "deleted"
        BY <2>1, <3>2 DEF IInv, TypeOK, Exists, Statuses
      <4> QED
        BY <2>1, <4>1 DEF EndInv, DocumentEnds
    <3>3. CASE ~job[h].collected /\ taken[o] # {} /\ Exists(o) /\ ~restoredAt[o]
      BY <1>3, <2>0, <2>1, <3>3 DEF IInv, TypeOK, Restore, ClaimRestore, Settled
    <3> QED
      BY <3>1, <3>2, <3>3
  <2>3. /\ job'[h] = [job[h] EXCEPT !.phase = "returning"]
        /\ \A k \in Handlers \ {h} : job'[k] = job[k]
        /\ UNCHANGED <<req, status, collected, stranded>>
    BY <1>3 DEF IInv, TypeOK, Restore
  <2>4. job'[h].order = o /\ job'[h].collected = job[h].collected
    BY <2>0, <2>1, <2>3 DEF Jobs
  <2>5. ASSUME NEW p \in Orders PROVE DocumentEnds(p)'
    <3>1. CASE p = o
      BY <2>2, <3>1 DEF DocumentEnds
    <3>2. CASE p # o
      <4>1. ASSUME NEW k \in Handlers, Expiring(k, p) PROVE Expiring(k, p)'
        BY <2>0, <2>3, <3>2, <4>1 DEF Expiring, Busy
      <4> QED
        BY <2>3, <4>1 DEF EndInv, DocumentEnds
    <3> QED
      BY <3>1, <3>2
  <2>6. ASSUME NEW k \in Handlers PROVE HandlerEnds(k)'
    <3>1. CASE k = h
      BY <1>3, <2>0, <2>2, <2>3, <2>4, <3>1 DEF EndInv, HandlerEnds, Restore
    <3>2. CASE k # h /\ Busy(k)
      BY <2>3, <3>2, BusyFacts DEF EndInv, HandlerEnds, Busy
    <3>3. CASE k # h /\ ~Busy(k)
      BY <2>3, <3>3 DEF HandlerEnds, Busy
    <3> QED
      BY <3>1, <3>2, <3>3
  <2> QED
    BY <2>5, <2>6 DEF EndInv
<1>4. CASE Finish(h)
  <2>0. PICK o \in Orders : o = job[h].order
    BY <1>4, BusyFacts DEF Finish
  <2>1. job[h].phase = "returning" /\ status[o] # "none"
    BY <1>4, <2>0, BusyFacts DEF Finish
  <2>2. Settled(o)'
    BY <1>4, <2>0, <2>1 DEF Finish, EndInv, HandlerEnds
  <2>3. /\ \A p \in Orders : p # o => status'[p] = status[p]
        /\ job'[h] = Idle
        /\ \A k \in Handlers \ {h} : job'[k] = job[k]
        /\ UNCHANGED <<req, collected, stranded>>
    BY <1>4, <2>0 DEF IInv, TypeOK, Finish
  <2>4. ASSUME NEW p \in Orders PROVE DocumentEnds(p)'
    <3>1. CASE p = o
      BY <2>2, <3>1 DEF DocumentEnds
    <3>2. CASE p # o
      <4>1. ASSUME NEW k \in Handlers, Expiring(k, p) PROVE Expiring(k, p)'
        BY <2>0, <2>3, <3>2, <4>1 DEF Expiring, Busy
      <4> QED
        BY <2>3, <3>2, <4>1 DEF EndInv, DocumentEnds
    <3> QED
      BY <3>1, <3>2
  <2>5. ASSUME NEW k \in Handlers PROVE HandlerEnds(k)'
    <3>1. CASE k = h \/ ~Busy(k)
      BY <2>3, <3>1 DEF HandlerEnds, Busy
    <3>2. CASE k # h /\ Busy(k)
      BY <2>3, <3>2, BusyFacts DEF EndInv, HandlerEnds, Busy
    <3> QED
      BY <3>1, <3>2
  <2> QED
    BY <2>4, <2>5 DEF EndInv
<1> QED
  BY <1>1, <1>2, <1>3, <1>4 DEF HandlerStep

(* Everything else keeps EndInv.                                           *)
LEMMA OtherStepEnds ==
    ASSUME InventoryAssumption, IInv, EndInv, Next,
           \A o \in Orders : ~RequestStep(o),
           \A h \in Handlers : ~HandlerStep(h),
           \A o \in Orders : status[o] # "none" /\ Settled(o) => Settled(o)'
    PROVE  EndInv'
<1> USE DEF IInv, TypeOK, request, document, ghost
<1>1. ASSUME NEW a \in Agents, NEW p \in Orders, NEW i \in Tracked,
             PutBack(a, p, i) \/ PutBackFails(a, p, i)
      PROVE  EndInv'
  <2>1. UNCHANGED <<req, status, job, collected, stranded>>
    BY <1>1 DEF PutBack, PutBackFails
  <2> QED
    BY <2>1, HandlersStay, DocumentStays DEF EndInv
<1>2. ASSUME NEW p \in Orders, RiderReads(p) \/ RiderSaves(p) PROVE EndInv'
  <2>1. UNCHANGED <<req, job, stranded>>
    BY <1>2 DEF RiderReads, RiderSaves
  <2>2. \A o \in Orders : collected[o] => collected'[o]
    BY <1>2 DEF RiderReads, RiderSaves
  <2>3. ASSUME NEW o \in Orders
        PROVE  /\ status'[o] \in {status[o], "picked_up"}
               /\ status[o] = "none" => status'[o] = "none"
    BY <1>2 DEF RiderReads, RiderSaves, Exists
  <2> QED
    BY <2>1, <2>2, <2>3, HandlersStay, DocumentStays DEF EndInv
<1>3. ASSUME NEW p \in Orders, RequestThrows(p) \/ CrashRequest(p) PROVE EndInv'
  <2>1. UNCHANGED <<status, job, collected, stranded>>
    BY <1>3 DEF RequestThrows, CrashRequest, Abandon
  <2>2. \A o \in Orders : req'[o] \in {req[o], "threw", "dead"}
    BY <1>3 DEF RequestThrows, CrashRequest, Abandon
  <2> QED
    BY <2>1, <2>2, HandlersStay, DocumentStays DEF EndInv
<1>4. ASSUME NEW i \in Tracked, NEW n \in Counts, AdjustStock(i, n) PROVE EndInv'
  <2>1. UNCHANGED <<req, status, job, collected, stranded>>
    BY <1>4 DEF AdjustStock
  <2> QED
    BY <2>1, HandlersStay, DocumentStays DEF EndInv
<1>5. ASSUME NEW h \in Handlers, CrashHandler(h) PROVE EndInv'
  BY <1>5, JobFacts
     DEF CrashHandler, Busy, EndInv, DocumentEnds, HandlerEnds, Expiring, Settled
<1> QED
  BY <1>1, <1>2, <1>3, <1>4, <1>5 DEF Next

(* Every step keeps EndInv.                                                *)
LEMMA StepEnds ==
    ASSUME InventoryAssumption, IInv, EndInv, [Next]_vars
    PROVE  EndInv'
<1>1. CASE UNCHANGED vars
  BY <1>1 DEF vars, request, document, ghost, EndInv, DocumentEnds, HandlerEnds, Expiring,
     Settled, Busy
<1>2. CASE Next
  BY <1>2, EverySettledStays, RequestStepEnds, HandlerStepEnds, OtherStepEnds
<1> QED
  BY <1>1, <1>2

(* EndInv holds initially.                                                 *)
LEMMA InitEnds ==
    ASSUME InventoryAssumption, Init
    PROVE  EndInv
BY DEF Init, EndInv, DocumentEnds, HandlerEnds, Busy

(* EndInv holds in every reachable state.                                  *)
LEMMA EndsAlways == Spec => []EndInv
<1>1. Init => EndInv
  BY InitEnds, InventoryAssumption
<1>2. IInv /\ EndInv /\ [Next]_vars => EndInv'
  BY StepEnds, InventoryAssumption
<1> QED
  BY <1>1, <1>2, OnePlace, PTL DEF Spec

(***************************************************************************)
(* An order that ended before it was collected, and that nobody is working *)
(* on, holds nothing but what was lost: the restore that won the claim put *)
(* it all back (restoreOrderStock).                                        *)
(***************************************************************************)
THEOREM EndedReturns == Spec => []EndedOrdersReturnTheirStock
<1>1. IInv /\ EndInv => EndedOrdersReturnTheirStock
  <2> SUFFICES ASSUME IInv, EndInv, NEW o \in Orders, NEW i \in Tracked,
                      status[o] \in {"cancelled", "deleted"}, ~collected[o],
                      \A h \in Handlers : ~WorksFor(h, o),
                      req[o] # "undoing", o \notin stranded, Holds(o, i)
               PROVE  <<o, i>> \in lost
    BY DEF EndedOrdersReturnTheirStock
  <2>1. \A h \in Handlers : ~Expiring(h, o)
    BY InventoryAssumption DEF InventoryAssumption, WorksFor, Expiring
  <2>2. ~HeldByDocument(o, i) /\ ~HeldByRequest(o, i)
    BY <2>1 DEF IInv, EndInv, DocumentEnds, RequestInv, Settled, HeldByDocument, HeldByRequest
  <2>3. ~InHand(o, i)
    BY DEF IInv, RequestInv, InHand, WorksFor, Agents
  <2> QED
    BY <2>2, <2>3 DEF Holds
<1> QED
  BY <1>1, OnePlace, EndsAlways, PTL

(* A rider has to do with an order once its createOrder is over.           *)
RiderInv ==
    \A o \in Orders : rider[o] \/ collected[o] => req[o] \in {"done", "threw", "dead"}

(* RiderInv holds initially, and every step keeps it.                      *)
LEMMA RidersCome == Spec => []RiderInv
<1>1. Init => RiderInv
  BY DEF Init, RiderInv
<1>2. IInv /\ RiderInv /\ [Next]_vars => RiderInv'
  <2> SUFFICES ASSUME IInv, RiderInv, [Next]_vars PROVE RiderInv'
    OBVIOUS
  <2> USE DEF IInv, TypeOK, request, document, ghost, RiderInv
  <2>1. CASE UNCHANGED vars
    BY <2>1 DEF vars
  <2>2. ASSUME NEW o \in Orders, RequestStep(o) PROVE RiderInv'
    BY <2>2 DEF RequestStep, Place, ReserveLine, PassUntracked, RefuseLine, SeatOrSaveFails,
       StartRelease, SaveOrder, ReleaseDone, Charged, ChargeFails, DeleteUncharged
  <2>3. ASSUME NEW h \in Handlers, HandlerStep(h) PROVE RiderInv'
    BY <2>3 DEF HandlerStep, LoadToCancel, LoadToDelete, Expire, Restore, Finish
  <2>4. ASSUME NEW a \in Agents, NEW o \in Orders, NEW i \in Tracked,
               PutBack(a, o, i) \/ PutBackFails(a, o, i)
        PROVE  RiderInv'
    BY <2>4 DEF PutBack, PutBackFails
  <2>5. ASSUME NEW o \in Orders, RiderReads(o) \/ RiderSaves(o) \/ RequestThrows(o) \/ CrashRequest(o)
        PROVE  RiderInv'
    BY <2>5 DEF RiderReads, RiderSaves, RequestThrows, CrashRequest, Abandon
  <2>6. ASSUME NEW i \in Tracked, NEW n \in Counts, AdjustStock(i, n) PROVE RiderInv'
    BY <2>6 DEF AdjustStock
  <2>7. ASSUME NEW h \in Handlers, CrashHandler(h) PROVE RiderInv'
    BY <2>7 DEF CrashHandler
  <2> QED
    BY <2>1, <2>2, <2>3, <2>4, <2>5, <2>6, <2>7 DEF Next
<1> QED
  BY <1>1, <1>2, OnePlace, PTL DEF Spec

(***************************************************************************)
(* An order that createOrder has refused, and undone, holds nothing but    *)
(* what is on its way back or was lost (createOrder, releaseReservations,  *)
(* restoreOrderStock).  It says nothing of requests that end in an         *)
(* exception the code does not catch, which give nothing back.             *)
(***************************************************************************)
THEOREM RejectedReturns == Spec => []RejectedHoldsNothing
<1>1. IInv /\ EndInv /\ RiderInv => RejectedHoldsNothing
  <2> SUFFICES ASSUME IInv, EndInv, RiderInv, NEW o \in Orders, NEW i \in Tracked,
                      req[o] = "rejected", Holds(o, i)
               PROVE  InHand(o, i) \/ <<o, i>> \in lost
    BY DEF RejectedHoldsNothing
  <2>1. ~HeldByRequest(o, i)
    BY DEF HeldByRequest
  <2>2. ~HeldByDocument(o, i)
    BY DEF EndInv, RiderInv, DocumentEnds, Settled, HeldByDocument
  <2> QED
    BY <2>1, <2>2 DEF Holds
<1> QED
  BY <1>1, OnePlace, EndsAlways, RidersCome, PTL

-----------------------------------------------------------------------------
(* What Shelf promises conserves units: for every product, what is on the  *)
(* shelf and what the orders hold of it is what the shop owns.             *)

(* The units of a product that are off the shelf, one token for each.      *)
Units(o, n) == {o} \X (1..n)
OffTheShelf(i) == UNION {Units(o, Held[o][i]) : o \in Orders}

Balanced == \A i \in Tracked : stockQty[i] + Cardinality(OffTheShelf(i)) = owned[i]

LEMMA BalancedIsConserved == Balanced <=> Promise!Conserved
BY DEF Balanced, OffTheShelf, Units, Cardinality, Promise!Conserved, Promise!OffTheShelf,
       Promise!Units, Promise!Cardinality

(* A number of tokens of one order is a finite set of that size.           *)
LEMMA UnitsSize ==
    ASSUME NEW o, NEW n \in Nat
    PROVE  IsFiniteSet(Units(o, n)) /\ Cardinality(Units(o, n)) = n
<1>1. IsFiniteSet({o}) /\ Cardinality({o}) = 1
  BY FS_Singleton
<1>2. IsFiniteSet(1..n) /\ Cardinality(1..n) = n
  BY FS_Interval
<1>3. IsFiniteSet({o} \X (1..n)) /\ Cardinality({o} \X (1..n)) = 1 * n
  BY <1>1, <1>2, FS_Product
<1> QED
  BY <1>3 DEF Units

(* What the orders other than o have off the shelf.                        *)
OthersOff(o, i) == UNION {Units(p, Held[p][i]) : p \in Orders \ {o}}

(* The units off the shelf are those of o and those of the others, which   *)
(* are disjoint, so that their numbers add up.                             *)
LEMMA SplitOff ==
    ASSUME Promise!TypeOK, NEW o \in Orders, NEW i \in Tracked
    PROVE  /\ IsFiniteSet(OthersOff(o, i))
           /\ IsFiniteSet(OffTheShelf(i))
           /\ Cardinality(OffTheShelf(i)) = Cardinality(OthersOff(o, i)) + Held[o][i]
<1>1. \A p \in Orders : Held[p][i] \in Nat
  BY DEF Promise!TypeOK
<1>2. \A p \in Orders : IsFiniteSet(Units(p, Held[p][i]))
  BY <1>1, UnitsSize
<1>3. IsFiniteSet(OthersOff(o, i))
  <2> DEFINE S == {Units(p, Held[p][i]) : p \in Orders \ {o}}
  <2>1. IsFiniteSet(Orders \ {o})
    BY FS_RemoveElement, InventoryAssumption DEF InventoryAssumption
  <2>2. IsFiniteSet(S)
    <3> DEFINE f == [p \in Orders \ {o} |-> Units(p, Held[p][i])]
    <3>1. f \in Surjection(Orders \ {o}, S)
      BY DEF Surjection
    <3> QED
      BY <2>1, <3>1, FS_Surjection
  <2>3. \A T \in S : IsFiniteSet(T)
    BY <1>2
  <2> HIDE DEF S
  <2>4. IsFiniteSet(UNION S)
    BY <2>2, <2>3, FS_UNION
  <2> QED
    BY <2>4 DEF S, OthersOff
<1>4. OffTheShelf(i) = OthersOff(o, i) \cup Units(o, Held[o][i])
  BY DEF OffTheShelf, OthersOff
<1>5. OthersOff(o, i) \cap Units(o, Held[o][i]) = {}
  BY DEF OthersOff, Units
<1>6. IsFiniteSet(Units(o, Held[o][i])) /\ Cardinality(Units(o, Held[o][i])) = Held[o][i]
  BY <1>1, UnitsSize
<1>7. /\ IsFiniteSet(OffTheShelf(i))
      /\ Cardinality(OffTheShelf(i)) =
           Cardinality(OthersOff(o, i)) + Cardinality(Units(o, Held[o][i]))
                                        - Cardinality({})
  BY <1>3, <1>4, <1>5, <1>6, FS_Union
<1>8. Cardinality({}) = 0
  BY FS_EmptySet
<1>9. Cardinality(OthersOff(o, i)) \in Nat
  BY <1>3, FS_CardinalityType
<1> QED
  BY <1>1, <1>3, <1>6, <1>7, <1>8, <1>9

LEMMA PromiseIsTyped ==
    Promise!TypeOK /\ [Promise!Next]_(Promise!vars) => (Promise!TypeOK)'
<1> SUFFICES ASSUME Promise!TypeOK, [Promise!Next]_(Promise!vars)
             PROVE  (Promise!TypeOK)'
  OBVIOUS
<1>1. ASSUME NEW o \in Orders, NEW i \in Tracked, NEW n \in 1..stockQty[i], Promise!Take(o, i, n)
      PROVE  (Promise!TypeOK)'
  BY <1>1 DEF Promise!TypeOK, Promise!Take
<1>2. ASSUME NEW o \in Orders, NEW i \in Tracked, Promise!GiveBack(o, i)
      PROVE  (Promise!TypeOK)'
  BY <1>2 DEF Promise!TypeOK, Promise!GiveBack
<1>3. ASSUME NEW i \in Tracked, Promise!Book(i)
      PROVE  (Promise!TypeOK)'
  BY <1>3 DEF Promise!TypeOK, Promise!Book
<1>4. CASE UNCHANGED Promise!vars
  BY <1>4 DEF Promise!TypeOK, Promise!vars
<1> QED
  BY <1>1, <1>2, <1>3, <1>4 DEF Promise!Next

SplitEverywhere ==
    \A o \in Orders, i \in Tracked :
        Promise!TypeOK => Cardinality(OffTheShelf(i)) = Cardinality(OthersOff(o, i)) + Held[o][i]

LEMMA SplitAlways == SplitEverywhere
BY SplitOff DEF SplitEverywhere

(* A step that changes what one order holds of one product changes the     *)
(* number of units off the shelf by the same amount, and no other number.  *)
LEMMA OneLineMoves ==
    ASSUME Promise!TypeOK, (Promise!TypeOK)',
           NEW o \in Orders, NEW i \in Tracked, NEW n \in Nat,
           Held' = [Held EXCEPT ![o][i] = n]
    PROVE  /\ Cardinality(OffTheShelf(i)') = Cardinality(OffTheShelf(i)) - Held[o][i] + n
           /\ \A j \in Tracked \ {i} : OffTheShelf(j)' = OffTheShelf(j)
<1>1. Held[o] \in [Tracked -> Nat] /\ Held \in [Orders -> [Tracked -> Nat]]
  BY DEF Promise!TypeOK
<1>2. /\ Held'[o][i] = n
      /\ \A p \in Orders \ {o} : Held'[p] = Held[p]
      /\ \A j \in Tracked \ {i} : \A p \in Orders : Held'[p][j] = Held[p][j]
  BY <1>1
<1>3. OthersOff(o, i)' = OthersOff(o, i)
  BY <1>2 DEF OthersOff
<1>4. \A j \in Tracked \ {i} : OffTheShelf(j)' = OffTheShelf(j)
  BY <1>2 DEF OffTheShelf
<1>5. /\ IsFiniteSet(OthersOff(o, i))
      /\ Cardinality(OffTheShelf(i)) = Cardinality(OthersOff(o, i)) + Held[o][i]
  BY SplitOff
<1>6. Cardinality(OffTheShelf(i)') = Cardinality(OthersOff(o, i)') + Held'[o][i]
  <2>1. SplitEverywhere'
    BY SplitAlways, PTL
  <2> QED
    BY <2>1 DEF SplitEverywhere
<1>7. Cardinality(OthersOff(o, i)) \in Nat /\ Held[o][i] \in Nat
  BY <1>1, <1>5, FS_CardinalityType
<1> QED
  BY <1>2, <1>3, <1>4, <1>5, <1>6, <1>7

(* The number of units off the shelf is a number, orders or not.           *)
LEMMA OffIsCounted ==
    ASSUME Promise!TypeOK, NEW i \in Tracked
    PROVE  Cardinality(OffTheShelf(i)) \in Nat
<1>1. CASE Orders = {}
  BY <1>1, FS_EmptySet DEF OffTheShelf
<1>2. CASE Orders # {}
  <2>1. PICK o \in Orders : TRUE
    BY <1>2
  <2> QED
    BY <2>1, SplitOff, FS_CardinalityType
<1> QED
  BY <1>1, <1>2

LEMMA TakeConserves ==
    ASSUME Promise!TypeOK, (Promise!TypeOK)', Balanced,
           NEW o \in Orders, NEW i \in Tracked, NEW n \in 1..stockQty[i], Promise!Take(o, i, n)
    PROVE  Balanced'
<1>1. n \in Nat /\ Held[o][i] = 0 /\ Held' = [Held EXCEPT ![o][i] = n]
  BY DEF Promise!Take, Promise!TypeOK
<1>2. /\ Cardinality(OffTheShelf(i)') = Cardinality(OffTheShelf(i)) - Held[o][i] + n
      /\ \A j \in Tracked \ {i} : OffTheShelf(j)' = OffTheShelf(j)
  BY <1>1, OneLineMoves
<1>3. \A j \in Tracked : Cardinality(OffTheShelf(j)) \in Nat
  BY SplitOff, FS_CardinalityType
<1>4. SUFFICES ASSUME NEW j \in Tracked
               PROVE  stockQty'[j] + Cardinality(OffTheShelf(j)') = owned'[j]
  BY DEF Balanced
<1>5. CASE j = i
  BY <1>1, <1>2, <1>3, <1>5 DEF Promise!Take, Promise!TypeOK, Balanced
<1>6. CASE j # i
  BY <1>2, <1>6 DEF Promise!Take, Promise!TypeOK, Balanced
<1> QED
  BY <1>5, <1>6

LEMMA GiveBackConserves ==
    ASSUME Promise!TypeOK, (Promise!TypeOK)', Balanced,
           NEW o \in Orders, NEW i \in Tracked, Promise!GiveBack(o, i)
    PROVE  Balanced'
<1>1. Held[o][i] \in Nat /\ Held' = [Held EXCEPT ![o][i] = 0]
  BY DEF Promise!GiveBack, Promise!TypeOK
<1>2. /\ Cardinality(OffTheShelf(i)') = Cardinality(OffTheShelf(i)) - Held[o][i] + 0
      /\ \A j \in Tracked \ {i} : OffTheShelf(j)' = OffTheShelf(j)
  BY <1>1, OneLineMoves
<1>3. \A j \in Tracked : Cardinality(OffTheShelf(j)) \in Nat
  BY SplitOff, FS_CardinalityType
<1>4. SUFFICES ASSUME NEW j \in Tracked
               PROVE  stockQty'[j] + Cardinality(OffTheShelf(j)') = owned'[j]
  BY DEF Balanced
<1>5. CASE j = i
  BY <1>1, <1>2, <1>3, <1>5 DEF Promise!GiveBack, Promise!TypeOK, Balanced
<1>6. CASE j # i
  BY <1>2, <1>6 DEF Promise!GiveBack, Promise!TypeOK, Balanced
<1> QED
  BY <1>5, <1>6

LEMMA StepConserves ==
    ASSUME Promise!TypeOK, Balanced, [Promise!Next]_(Promise!vars)
    PROVE  Balanced'
<1>0. (Promise!TypeOK)'
  BY PromiseIsTyped
<1>1. ASSUME NEW o \in Orders, NEW i \in Tracked, NEW n \in 1..stockQty[i], Promise!Take(o, i, n)
      PROVE  Balanced'
  BY <1>0, <1>1, TakeConserves
<1>2. ASSUME NEW o \in Orders, NEW i \in Tracked, Promise!GiveBack(o, i)
      PROVE  Balanced'
  BY <1>0, <1>2, GiveBackConserves
<1>3. ASSUME NEW i \in Tracked, Promise!Book(i)
      PROVE  Balanced'
  <2>1. \A j \in Tracked : OffTheShelf(j)' = OffTheShelf(j)
    BY <1>3 DEF Promise!Book, OffTheShelf
  <2>2. \A j \in Tracked : stockQty'[j] - stockQty[j] = owned'[j] - owned[j]
    BY <1>3 DEF Promise!Book, Promise!TypeOK
  <2>3. \A j \in Tracked : Cardinality(OffTheShelf(j)) \in Nat
    BY OffIsCounted
  <2>4. ASSUME NEW j \in Tracked
        PROVE  stockQty'[j] + Cardinality(OffTheShelf(j)') = owned'[j]
    <3>1. stockQty[j] \in Int /\ stockQty'[j] \in Int /\ owned[j] \in Int /\ owned'[j] \in Int
      BY <1>0 DEF Promise!TypeOK
    <3>2. stockQty[j] + Cardinality(OffTheShelf(j)) = owned[j]
      BY DEF Balanced
    <3>3. OffTheShelf(j)' = OffTheShelf(j)
      BY <2>1
    <3> QED
      BY <2>2, <2>3, <3>1, <3>2, <3>3
  <2> QED
    BY <2>4 DEF Balanced
<1>4. CASE UNCHANGED Promise!vars
  BY <1>4 DEF Balanced, OffTheShelf, Promise!vars
<1> QED
  BY <1>1, <1>2, <1>3, <1>4 DEF Promise!Next

LEMMA StartConserved ==
    ASSUME Promise!Init
    PROVE  Promise!TypeOK /\ Balanced
<1>1. Promise!TypeOK
  BY InventoryAssumption DEF Promise!Init, Promise!TypeOK, InventoryAssumption
<1>2. \A i \in Tracked : OffTheShelf(i) = {}
  BY DEF Promise!Init, OffTheShelf, Units
<1>3. \A i \in Tracked : Cardinality(OffTheShelf(i)) = 0
  BY <1>2, FS_EmptySet
<1>4. \A i \in Tracked : stockQty[i] = owned[i] /\ stockQty[i] \in Nat
  BY <1>1 DEF Promise!Init, Promise!TypeOK
<1> QED
  BY <1>1, <1>3, <1>4 DEF Balanced

(***************************************************************************)
(* The abstract shelf never has more or fewer units than the shop booked:  *)
(* whatever keeps the promise of module Shelf neither invents nor loses a  *)
(* unit (reserveStockForItems and restoreOrderStock).                      *)
(***************************************************************************)
THEOREM ShelfConserves == Promise!Spec => []Promise!Conserved
<1>1. Promise!Init => Promise!TypeOK /\ Balanced
  BY StartConserved
<1>2. Promise!TypeOK /\ Balanced /\ [Promise!Next]_(Promise!vars) => (Promise!TypeOK)' /\ Balanced'
  BY PromiseIsTyped, StepConserves
<1>3. Balanced => Promise!Conserved
  BY BalancedIsConserved
<1> QED
  BY <1>1, <1>2, <1>3, PTL DEF Promise!Spec


-----------------------------------------------------------------------------
(* Inventory implements Shelf.  Three actions of Inventory are actions of  *)
(* Shelf: ReserveLine is Take, PutBack is GiveBack, AdjustStock is Book.   *)
(* All the others move the units of an order from one place to another, or *)
(* only the place they are said to be in, and leave what the order holds   *)
(* as it was.                                                              *)

(* A step is quiet when it changes neither a count nor what an order holds. *)
Quiet == Held' = Held /\ UNCHANGED <<stockQty, owned>>

(* Moving units between the places of an order is quiet.                   *)
LEMMA SamePlaceIsQuiet ==
    ASSUME UNCHANGED <<stockQty, owned>>,
           \A o \in Orders, i \in Tracked :
               /\ Holds(o, i)' <=> Holds(o, i)
               /\ Holds(o, i) => cart'[o][i] = cart[o][i]
    PROVE  Quiet
BY DEF Quiet, Held

(* Nobody holds a product that its request has yet to reserve.             *)
LEMMA NotYetHeld ==
    ASSUME InventoryAssumption, IInv, NEW o \in Orders, NEW i \in Tracked,
           req[o] \in {"idle", "reserving"}, i \notin taken[o]
    PROVE  ~Holds(o, i)
<1> USE DEF IInv
<1>1. /\ status[o] = "none"
      /\ put[o] = {}
  BY DEF RequestInv
<1>2. ASSUME NEW a \in Agents, WorksFor(a, o) PROVE i \notin put[a]
  <2>1. CASE a \in Orders
    BY <1>1, <1>2, <2>1 DEF WorksFor
  <2>2. CASE a \in Handlers /\ a \notin Orders
    BY <1>1, <1>2, <2>2 DEF WorksFor, HandlerInv
  <2> QED
    BY <2>1, <2>2 DEF Agents
<1>3. <<o, i>> \notin lost
  BY DEF LostInv
<1> QED
  BY <1>1, <1>2, <1>3 DEF Holds, HeldByRequest, HeldByDocument, InHand

(* Place is quiet.                                                         *)
LEMMA PlaceIsQuiet ==
    ASSUME InventoryAssumption, IInv, NEW o \in Orders, NEW c \in Baskets,
           Place(o, c)
    PROVE  Quiet
<1> USE JobFacts
        DEF InventoryAssumption, IInv, TypeOK, Place, Exists, Agents,
            Tracked, Lines, Busy, WorksFor, request, document, ghost
<1>1. \A i \in Tracked : ~Holds(o, i)
  BY NotYetHeld DEF RequestInv
<1>2. ASSUME NEW i \in Tracked PROVE ~Holds(o, i)'
  <2>1. ~HeldByRequest(o, i)' /\ ~HeldByDocument(o, i)'
    BY DEF HeldByRequest, HeldByDocument, RequestInv
  <2>2. InHand(o, i)' <=> InHand(o, i)
    BY DEF InHand
  <2> QED
    BY <1>1, <2>1, <2>2 DEF Holds
<1>3. ASSUME NEW p \in Orders \ {o}, NEW j \in Tracked
      PROVE  (Holds(p, j)' <=> Holds(p, j)) /\ cart'[p] = cart[p]
  BY DEF Holds, HeldByRequest, HeldByDocument, InHand, HandlerInv, RequestInv, DocumentInv
<1> QED
  BY <1>1, <1>2, <1>3, SamePlaceIsQuiet

(* PassUntracked is quiet.                                                 *)
LEMMA PassUntrackedIsQuiet ==
    ASSUME InventoryAssumption, IInv, NEW o \in Orders, NEW i \in Items,
           PassUntracked(o, i)
    PROVE  Quiet
<1> USE JobFacts
        DEF InventoryAssumption, IInv, TypeOK, PassUntracked, Exists, Agents,
            Tracked, Lines, Busy, WorksFor, request, document, ghost
<1>1. ASSUME NEW p \in Orders, NEW j \in Tracked
      PROVE  Holds(p, j)' <=> Holds(p, j)
  BY DEF Holds, HeldByRequest, HeldByDocument, InHand, HandlerInv, RequestInv, DocumentInv
<1> QED
  BY <1>1, SamePlaceIsQuiet

(* StartRelease is quiet.                                                  *)
LEMMA StartReleaseIsQuiet ==
    ASSUME InventoryAssumption, IInv, NEW o \in Orders, StartRelease(o), req[o] = "reserving"
    PROVE  Quiet
<1> USE DEF InventoryAssumption, IInv, TypeOK, StartRelease, Agents, document, ghost
<1>1. /\ status[o] = "none"
      /\ put[o] = {}
  BY DEF RequestInv
<1>2. ASSUME NEW p \in Orders \ {o}, NEW j \in Tracked
      PROVE  Holds(p, j)' <=> Holds(p, j)
  BY DEF Holds, HeldByRequest, HeldByDocument, InHand, WorksFor, Busy
<1>3. ASSUME NEW h \in Handlers PROVE ~WorksFor(h, o) /\ ~WorksFor(h, o)'
  BY <1>1 DEF WorksFor, Busy, HandlerInv
<1>4. ASSUME NEW j \in Tracked PROVE Holds(o, j)' <=> Holds(o, j)
  <2>1. InHand(o, j)' <=> j \in taken[o]
    BY <1>3 DEF InHand, WorksFor
  <2>2. ~InHand(o, j)
    BY <1>1, <1>3 DEF InHand, WorksFor
  <2>3. ~HeldByDocument(o, j) /\ ~HeldByDocument(o, j)' /\ ~HeldByRequest(o, j)'
    BY <1>1 DEF HeldByDocument, HeldByRequest
  <2>4. HeldByRequest(o, j) <=> j \in taken[o]
    BY DEF HeldByRequest
  <2>5. UNCHANGED lost
    OBVIOUS
  <2> QED
    BY <2>1, <2>2, <2>3, <2>4, <2>5 DEF Holds
<1> QED
  BY <1>2, <1>4, SamePlaceIsQuiet

(* SaveOrder is quiet.                                                     *)
LEMMA SaveOrderIsQuiet ==
    ASSUME InventoryAssumption, IInv, NEW o \in Orders,
           SaveOrder(o)
    PROVE  Quiet
<1> USE JobFacts
        DEF InventoryAssumption, IInv, TypeOK, SaveOrder, Exists, Agents,
            Tracked, Lines, Busy, WorksFor, request, document, ghost
<1>1. ASSUME NEW p \in Orders, NEW j \in Tracked
      PROVE  Holds(p, j)' <=> Holds(p, j)
  BY DEF Holds, HeldByRequest, HeldByDocument, InHand, HandlerInv, RequestInv, DocumentInv
<1> QED
  BY <1>1, SamePlaceIsQuiet

(* ReleaseDone and Charged are quiet.                                      *)
LEMMA RequestEndsIsQuiet ==
    ASSUME InventoryAssumption, IInv, NEW o \in Orders,
           ReleaseDone(o) \/ Charged(o)
    PROVE  Quiet
<1> USE JobFacts
        DEF InventoryAssumption, IInv, TypeOK, ReleaseDone, Charged, Exists, Agents,
            Tracked, Lines, Busy, WorksFor, request, document, ghost
<1>1. ASSUME NEW p \in Orders, NEW j \in Tracked
      PROVE  Holds(p, j)' <=> Holds(p, j)
  BY DEF Holds, HeldByRequest, HeldByDocument, InHand, HandlerInv, RequestInv, DocumentInv
<1> QED
  BY <1>1, SamePlaceIsQuiet

(* ChargeFails is quiet.                                                   *)
LEMMA ChargeFailsIsQuiet ==
    ASSUME InventoryAssumption, IInv, NEW o \in Orders,
           ChargeFails(o)
    PROVE  Quiet
<1> USE JobFacts
        DEF InventoryAssumption, IInv, TypeOK, ChargeFails, ClaimRestore, Exists, Agents,
            Tracked, Lines, Busy, WorksFor, request, document, ghost
<1>1. ASSUME NEW p \in Orders, NEW j \in Tracked
      PROVE  Holds(p, j)' <=> Holds(p, j)
  <2>1. CASE UNCHANGED <<restoredAt, put>>
    BY <2>1 DEF Holds, HeldByRequest, HeldByDocument, InHand, HandlerInv, RequestInv, DocumentInv
  <2>2. CASE /\ ~restoredAt[o] /\ Exists(o)
             /\ restoredAt' = [restoredAt EXCEPT ![o] = TRUE]
             /\ put' = [put EXCEPT ![o] = Lines(o)]
    BY <2>2 DEF Holds, HeldByRequest, HeldByDocument, InHand, HandlerInv, RequestInv, DocumentInv
  <2> QED
    BY <2>1, <2>2
<1> QED
  BY <1>1, SamePlaceIsQuiet

(* DeleteUncharged is quiet.                                               *)
LEMMA DeleteUnchargedIsQuiet ==
    ASSUME InventoryAssumption, IInv, NEW o \in Orders,
           DeleteUncharged(o)
    PROVE  Quiet
<1> USE JobFacts
        DEF InventoryAssumption, IInv, TypeOK, DeleteUncharged, Exists, Agents,
            Tracked, Lines, Busy, WorksFor, request, document, ghost
<1>1. ASSUME NEW p \in Orders, NEW j \in Tracked
      PROVE  Holds(p, j)' <=> Holds(p, j)
  BY DEF Holds, HeldByRequest, HeldByDocument, InHand, HandlerInv, RequestInv, DocumentInv
<1> QED
  BY <1>1, SamePlaceIsQuiet

(* PutBackFails is quiet.                                                  *)
LEMMA PutBackFailsIsQuiet ==
    ASSUME InventoryAssumption, IInv, NEW a \in Agents, NEW o \in Orders, NEW i \in Tracked,
           PutBackFails(a, o, i)
    PROVE  Quiet
<1> USE JobFacts
        DEF InventoryAssumption, IInv, TypeOK, PutBackFails, Exists, Agents,
            Tracked, Lines, Busy, WorksFor, request, document, ghost
<1>1. ASSUME NEW p \in Orders, NEW j \in Tracked
      PROVE  Holds(p, j)' <=> Holds(p, j)
  BY DEF Holds, HeldByRequest, HeldByDocument, InHand, HandlerInv, RequestInv, DocumentInv
<1> QED
  BY <1>1, SamePlaceIsQuiet

(* LoadToCancel and LoadToDelete are quiet.                                *)
LEMMA LoadIsQuiet ==
    ASSUME InventoryAssumption, IInv, NEW h \in Handlers, NEW o \in Orders,
           LoadToCancel(h, o) \/ LoadToDelete(h, o)
    PROVE  Quiet
<1>1. /\ put[h] = {} /\ ~Busy(h)
      /\ UNCHANGED <<cart, req, taken, status, restoredAt, put, lost, stockQty, owned>>
      /\ \A k \in Handlers \ {h} : job'[k] = job[k]
  BY DEF LoadToCancel, LoadToDelete, Load, IInv, TypeOK, HandlerInv, request, document, ghost
<1>2. ASSUME NEW p \in Orders, NEW j \in Tracked
      PROVE  InHand(p, j)' <=> InHand(p, j)
  BY <1>1 DEF InHand, WorksFor, Busy, Agents
<1> QED
  BY <1>1, <1>2, SamePlaceIsQuiet DEF Holds, HeldByRequest, HeldByDocument

(* Expire is quiet.                                                        *)
LEMMA ExpireIsQuiet ==
    ASSUME InventoryAssumption, IInv, NEW h \in Handlers, NEW o \in Orders,
           Expire(h, o)
    PROVE  Quiet
<1> USE JobFacts
        DEF InventoryAssumption, IInv, TypeOK, Expire, Load, Exists, Agents,
            Tracked, Lines, Busy, WorksFor, request, document, ghost
<1>1. ASSUME NEW p \in Orders, NEW j \in Tracked
      PROVE  Holds(p, j)' <=> Holds(p, j)
  BY DEF Holds, HeldByRequest, HeldByDocument, InHand, HandlerInv, RequestInv, DocumentInv
<1> QED
  BY <1>1, SamePlaceIsQuiet

(* Restore is quiet.                                                       *)
LEMMA RestoreIsQuiet ==
    ASSUME InventoryAssumption, IInv, NEW h \in Handlers,
           Restore(h)
    PROVE  Quiet
<1> USE JobFacts
        DEF InventoryAssumption, IInv, TypeOK, Restore, ClaimRestore, Exists, Agents,
            Tracked, Lines, Busy, WorksFor, request, document, ghost
<1>1. ASSUME NEW p \in Orders, NEW j \in Tracked
      PROVE  Holds(p, j)' <=> Holds(p, j)
  BY DEF Holds, HeldByRequest, HeldByDocument, InHand, HandlerInv, RequestInv, DocumentInv
<1> QED
  BY <1>1, SamePlaceIsQuiet

(* Finish is quiet.                                                        *)
LEMMA FinishIsQuiet ==
    ASSUME InventoryAssumption, IInv, NEW h \in Handlers,
           Finish(h)
    PROVE  Quiet
<1> USE JobFacts
        DEF InventoryAssumption, IInv, TypeOK, Finish, Exists, Agents,
            Tracked, Lines, Busy, WorksFor, request, document, ghost
<1>1. ASSUME NEW p \in Orders, NEW j \in Tracked
      PROVE  Holds(p, j)' <=> Holds(p, j)
  BY DEF Holds, HeldByRequest, HeldByDocument, InHand, HandlerInv, RequestInv, DocumentInv
<1> QED
  BY <1>1, SamePlaceIsQuiet

(* RiderReads is quiet.                                                    *)
LEMMA RiderReadsIsQuiet ==
    ASSUME InventoryAssumption, IInv, NEW o \in Orders,
           RiderReads(o)
    PROVE  Quiet
<1> USE JobFacts
        DEF InventoryAssumption, IInv, TypeOK, RiderReads, Exists, Agents,
            Tracked, Lines, Busy, WorksFor, request, document, ghost
<1>1. ASSUME NEW p \in Orders, NEW j \in Tracked
      PROVE  Holds(p, j)' <=> Holds(p, j)
  BY DEF Holds, HeldByRequest, HeldByDocument, InHand, HandlerInv, RequestInv, DocumentInv
<1> QED
  BY <1>1, SamePlaceIsQuiet

(* RiderSaves is quiet.                                                    *)
LEMMA RiderSavesIsQuiet ==
    ASSUME InventoryAssumption, IInv, NEW o \in Orders,
           RiderSaves(o)
    PROVE  Quiet
<1> USE JobFacts
        DEF InventoryAssumption, IInv, TypeOK, RiderSaves, Exists, Agents,
            Tracked, Lines, Busy, WorksFor, request, document, ghost
<1>1. ASSUME NEW p \in Orders, NEW j \in Tracked
      PROVE  Holds(p, j)' <=> Holds(p, j)
  BY DEF Holds, HeldByRequest, HeldByDocument, InHand, HandlerInv, RequestInv, DocumentInv
<1> QED
  BY <1>1, SamePlaceIsQuiet

(* A request that throws or dies is quiet.                                 *)
LEMMA CrashRequestIsQuiet ==
    ASSUME InventoryAssumption, IInv, NEW o \in Orders,
           NEW how \in {"threw", "dead"}, GivesUp(o, how)
    PROVE  Quiet
<1> USE JobFacts
        DEF InventoryAssumption, IInv, TypeOK, GivesUp, Abandon, Exists, Agents,
            Tracked, Lines, Busy, WorksFor, request, document, ghost
<1>1. ASSUME NEW p \in Orders, NEW j \in Tracked
      PROVE  Holds(p, j)' <=> Holds(p, j)
  BY DEF Holds, HeldByRequest, HeldByDocument, InHand, HandlerInv, RequestInv, DocumentInv
<1> QED
  BY <1>1, SamePlaceIsQuiet

(* CrashHandler is quiet.                                                  *)
LEMMA CrashHandlerIsQuiet ==
    ASSUME InventoryAssumption, IInv, NEW h \in Handlers,
           CrashHandler(h)
    PROVE  Quiet
<1> USE JobFacts
        DEF InventoryAssumption, IInv, TypeOK, CrashHandler, Exists, Agents,
            Tracked, Lines, Busy, WorksFor, request, document, ghost
<1>1. ASSUME NEW p \in Orders, NEW j \in Tracked
      PROVE  Holds(p, j)' <=> Holds(p, j)
  BY DEF Holds, HeldByRequest, HeldByDocument, InHand, HandlerInv, RequestInv, DocumentInv
<1> QED
  BY <1>1, SamePlaceIsQuiet

-----------------------------------------------------------------------------
(* A change of one cell of a table, written with EXCEPT.                   *)
LEMMA OneCell ==
    ASSUME NEW t, NEW o \in Orders, NEW i \in Tracked, NEW v,
           t = [p \in Orders |-> [j \in Tracked |-> t[p][j]]]
    PROVE  [p \in Orders |-> [j \in Tracked |-> IF p = o /\ j = i THEN v ELSE t[p][j]]]
               = [t EXCEPT ![o][i] = v]
<1> DEFINE cell(p) == [j \in Tracked |-> IF p = o /\ j = i THEN v ELSE t[p][j]]
<1>1. cell(o) = [t[o] EXCEPT ![i] = v]
  OBVIOUS
<1>2. \A p \in Orders : p # o => cell(p) = t[p]
  OBVIOUS
<1>3. [t EXCEPT ![o][i] = v] = [t EXCEPT ![o] = cell(o)]
  BY <1>1
<1> HIDE DEF cell
<1>4. [p \in Orders |-> cell(p)] = [t EXCEPT ![o] = cell(o)]
  BY <1>2
<1> QED
  BY <1>3, <1>4 DEF cell

(* ReserveLine is Take.                                                    *)
LEMMA ReserveLineTakes ==
    ASSUME InventoryAssumption, IInv, NEW o \in Orders, NEW i \in Items, ReserveLine(o, i)
    PROVE  /\ i \in Tracked
           /\ \E n \in 1..stockQty[i] : Promise!Take(o, i, n)
<1> USE DEF InventoryAssumption, IInv, TypeOK
<1>1. /\ i \in Tracked
      /\ ~Holds(o, i)
      /\ cart[o][i] \in 1..stockQty[i]
  BY NotYetHeld DEF ReserveLine, Tracked, RequestInv
<1>2. /\ Holds(o, i)'
      /\ \A p \in Orders, j \in Tracked :
             <<p, j>> # <<o, i>> => (Holds(p, j)' <=> Holds(p, j))
  BY <1>1 DEF ReserveLine, Holds, HeldByRequest, HeldByDocument, InHand, WorksFor, Busy,
     RequestInv, document, ghost
<1>3. cart' = cart
  BY DEF ReserveLine
<1>4. Held' = [Held EXCEPT ![o][i] = cart[o][i]]
  <2>1. ASSUME NEW p \in Orders
        PROVE  Held'[p] = [j \in Tracked |->
                             IF p = o /\ j = i THEN cart[o][i] ELSE Held[p][j]]
    BY <1>1, <1>2, <1>3 DEF Held
  <2> DEFINE moved == [p \in Orders |-> [j \in Tracked |->
                          IF p = o /\ j = i THEN cart[o][i] ELSE Held[p][j]]]
  <2>8. Held' = moved
    BY <2>1 DEF Held
  <2>9. Held = [p \in Orders |-> [j \in Tracked |-> Held[p][j]]]
    BY DEF Held
  <2> HIDE DEF PutBack, InventoryAssumption, IInv, TypeOK
  <2> QED
    BY <1>1, <2>8, <2>9, OneCell
<1>5. Held[o][i] = 0
  BY <1>1 DEF Held
<1> QED
  BY <1>1, <1>4, <1>5 DEF Promise!Take, ReserveLine

(* PutBack is GiveBack.                                                    *)
LEMMA PutBackGivesBack ==
    ASSUME InventoryAssumption, IInv, NEW a \in Agents, NEW o \in Orders, NEW i \in Tracked,
           PutBack(a, o, i)
    PROVE  Promise!GiveBack(o, i)
<1> USE JobFacts DEF InventoryAssumption, IInv, TypeOK, PutBack
<1>1. Holds(o, i) /\ cart[o][i] > 0
  BY DEF Holds, InHand, WorksFor, Busy, RequestInv, HandlerInv, Lines, Agents
<1>2. ~HeldByRequest(o, i)' /\ ~HeldByDocument(o, i)'
  BY DEF HeldByRequest, HeldByDocument, WorksFor, Busy, RequestInv, DocumentInv,
     HandlerInv, Agents, request, document
<1>3. ~InHand(o, i)'
  BY DEF InHand, OneHand, WorksFor, Busy, Agents
<1>4. <<o, i>> \notin lost'
  BY DEF LostInv, InHand, ghost
<1>5. \A p \in Orders, j \in Tracked :
          <<p, j>> # <<o, i>> => (Holds(p, j)' <=> Holds(p, j))
  BY DEF Holds, HeldByRequest, HeldByDocument, InHand, WorksFor, Busy, Agents,
     request, document, ghost
<1>6. cart' = cart
  BY DEF request
<1>7. Held' = [Held EXCEPT ![o][i] = 0]
  <2>1. ~Holds(o, i)'
    BY <1>2, <1>3, <1>4 DEF Holds
  <2>2. ASSUME NEW p \in Orders
        PROVE  Held'[p] = [j \in Tracked |-> IF p = o /\ j = i THEN 0 ELSE Held[p][j]]
    BY <1>5, <1>6, <2>1 DEF Held
  <2> DEFINE moved == [p \in Orders |-> [j \in Tracked |->
                          IF p = o /\ j = i THEN 0 ELSE Held[p][j]]]
  <2>8. Held' = moved
    BY <2>2 DEF Held
  <2>9. Held = [p \in Orders |-> [j \in Tracked |-> Held[p][j]]]
    BY DEF Held
  <2> HIDE DEF PutBack, InventoryAssumption, IInv, TypeOK
  <2> QED
    BY <1>1, <2>8, <2>9, OneCell
<1>8. Held[o][i] = cart[o][i]
  BY <1>1 DEF Held
<1> QED
  BY <1>1, <1>7, <1>8 DEF Promise!GiveBack

(* AdjustStock is Book.                                                    *)
LEMMA AdjustStockBooks ==
    ASSUME InventoryAssumption, IInv, NEW i \in Tracked, NEW n \in Counts, AdjustStock(i, n)
    PROVE  Promise!Book(i)
<1> USE DEF InventoryAssumption, IInv, TypeOK, AdjustStock
<1>1. Held' = Held
  BY DEF Held, Holds, HeldByRequest, HeldByDocument, InHand, WorksFor, Busy,
     request, document
<1>2. stockQty'[i] = n /\ n \in Nat
  OBVIOUS
<1> QED
  BY <1>1, <1>2 DEF Promise!Book

-----------------------------------------------------------------------------
(* Every step is a step of Shelf or none.                                  *)
LEMMA StepKeepsThePromise ==
    ASSUME InventoryAssumption, IInv, [Next]_vars
    PROVE  [Promise!Next]_(Promise!vars)
<1>1. SUFFICES ASSUME ~Quiet PROVE Promise!Next
  BY DEF Quiet, Promise!vars
<1>2. ~UNCHANGED vars
  BY <1>1 DEF Quiet, vars, Held, Holds, HeldByRequest, HeldByDocument, InHand, WorksFor,
     Busy, request, document, ghost
<1>3. ASSUME NEW o \in Orders, RequestStep(o) PROVE Promise!Next
  <2>1. ~StartRelease(o) \/ req[o] # "reserving"
    BY <1>1, StartReleaseIsQuiet, InventoryAssumption
  <2>2. PICK i \in Items : ReserveLine(o, i)
    BY <1>1, <1>3, <2>1, PlaceIsQuiet, PassUntrackedIsQuiet, SaveOrderIsQuiet,
       RequestEndsIsQuiet, ChargeFailsIsQuiet, DeleteUnchargedIsQuiet
       DEF RequestStep, RefuseLine, SeatOrSaveFails
  <2> QED
    BY <2>2, ReserveLineTakes DEF Promise!Next
<1>4. ASSUME NEW h \in Handlers, HandlerStep(h) PROVE FALSE
  BY <1>1, <1>4, LoadIsQuiet, ExpireIsQuiet, RestoreIsQuiet, FinishIsQuiet DEF HandlerStep
<1>5. ASSUME NEW a \in Agents, NEW o \in Orders, NEW i \in Tracked,
             PutBack(a, o, i) \/ PutBackFails(a, o, i)
      PROVE  Promise!Next
  BY <1>1, <1>5, PutBackGivesBack, PutBackFailsIsQuiet DEF Promise!Next
<1>6. ASSUME NEW i \in Tracked, NEW n \in Counts, AdjustStock(i, n) PROVE Promise!Next
  BY <1>6, AdjustStockBooks DEF Promise!Next
<1>7. ASSUME NEW o \in Orders, RiderReads(o) \/ RiderSaves(o) \/ RequestThrows(o) \/ CrashRequest(o)
      PROVE  FALSE
  BY <1>1, <1>7, RiderReadsIsQuiet, RiderSavesIsQuiet, RequestsGiveUp, CrashRequestIsQuiet
<1>8. ASSUME NEW h \in Handlers, CrashHandler(h) PROVE FALSE
  BY <1>1, <1>8, CrashHandlerIsQuiet
<1> QED
  BY <1>2, <1>3, <1>4, <1>5, <1>6, <1>7, <1>8 DEF Next

(* The initial states map to the initial state of Shelf.                   *)
LEMMA InitKeepsThePromise ==
    ASSUME InventoryAssumption, Init
    PROVE  Promise!Init
<1>1. \A o \in Orders, i \in Tracked : ~Holds(o, i)
  BY DEF InventoryAssumption, Init, Holds, HeldByRequest, HeldByDocument, InHand
<1> QED
  BY <1>1 DEF Init, Promise!Init, Held

(***************************************************************************)
(* Inventory implements Shelf: whatever the requests, the handlers that    *)
(* end orders, the crashes and the failed updates do, and in whatever      *)
(* order, a line of an order is taken off the shelf whole, only when it is *)
(* all there, and comes back whole and once (reserveStockForItems,         *)
(* releaseReservations and restoreOrderStock of inventory.service.js).     *)
(***************************************************************************)
THEOREM InventoryKeepsThePromise == Spec => KeepsThePromise
<1>1. Init => Promise!Init
  BY InitKeepsThePromise, InventoryAssumption
<1>2. IInv /\ [Next]_vars => [Promise!Next]_(Promise!vars)
  BY StepKeepsThePromise, InventoryAssumption
<1> QED
  BY <1>1, <1>2, OnePlace, PTL DEF Spec, KeepsThePromise, Promise!Spec

(***************************************************************************)
(* Stock is conserved: at every moment the count of a product and what the *)
(* orders hold of it are what the shop booked, so that no restock invents  *)
(* a unit and none is sold twice (the conditional $inc of                  *)
(* reserveStockForItems, the claim of restoreOrderStock).                  *)
(***************************************************************************)
THEOREM StockIsConserved == Spec => []Conserved
<1> QED
  BY InventoryKeepsThePromise, ShelfConserves, PTL DEF KeepsThePromise, Conserved
=============================================================================
