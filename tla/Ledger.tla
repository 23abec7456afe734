-------------------------------- MODULE Ledger --------------------------------
(***************************************************************************)
(* What a customer's wallet promises: a balance and the movements that     *)
(* make it up, each booked in one step, so that no two of them can see the *)
(* same balance.  A payment is only booked from what is there, a top-up    *)
(* once per gateway order, a cashback once per order and no more often     *)
(* than the settings allow.                                                *)
(*                                                                         *)
(* The code has no such step: every movement reads the wallet, changes the *)
(* copy and saves it (Wallet.tla, which implements this module).           *)
(***************************************************************************)
EXTENDS Integers, FiniteSets

CONSTANTS
    Orders,
    TopUps,         \* gateway orders that put money into the wallet
    Referees,       \* customers this customer brought in
    Amount,         \* of each movement
    CashbackLimit   \* FoodCashbackSettings.perUserLimit; 0 is no limit

Movements ==
    [kind : {"payment", "refund", "cashback"}, of : Orders]
    \cup [kind : {"topup"}, of : TopUps]
    \cup [kind : {"reward"}, of : Referees]

VARIABLES
    balance,
    booked      \* how often each movement stands in the wallet

Cashback(o) == [kind |-> "cashback", of |-> o]

Admissible(m) ==
    CASE m.kind = "payment"  -> balance >= Amount[m]
      [] m.kind = "topup"    -> booked[m] = 0
      [] m.kind = "cashback" ->
            /\ booked[m] = 0
            /\ CashbackLimit > 0 =>
                  Cardinality({o \in Orders : booked[Cashback(o)] > 0}) < CashbackLimit
      [] OTHER -> TRUE

LedgerInit ==
    /\ balance = 0
    /\ booked = [m \in Movements |-> 0]

BookMovement(m) ==
    /\ Admissible(m)
    /\ booked' = [booked EXCEPT ![m] = @ + 1]
    /\ balance' = IF m.kind = "payment" THEN balance - Amount[m] ELSE balance + Amount[m]

LedgerNext == \E m \in Movements : BookMovement(m)

LedgerSpec == LedgerInit /\ [][LedgerNext]_<<balance, booked>>
=============================================================================
