-------------------------- MODULE WithdrawalContract --------------------------
(***************************************************************************)
(* What the withdrawal pipeline promises about money, whatever the         *)
(* interleaving of merchants, processing loop and failures: a withdrawal   *)
(* is charged to its merchant at most once per approval, and paid out at   *)
(* most once per charge, except for the transfers whose outcome was lost   *)
(* before it reached the transaction table.                                *)
(***************************************************************************)
EXTENDS Naturals

CONSTANT Trx            \* the withdrawal requests

VARIABLES approved,     \* approved[t]: times the merchant approved t
          charged,      \* charged[t]: transfers from the merchant for t
          paid,         \* paid[t]: transfers to the customer for t
          lostCharge,   \* lostCharge[t]: charges the program did not record
          lostPay       \* lostPay[t]: payments the program did not record

contractVars == <<approved, charged, paid, lostCharge, lostPay>>

Zero == [t \in Trx |-> 0]

Init == /\ approved = Zero
        /\ charged = Zero
        /\ paid = Zero
        /\ lostCharge = Zero
        /\ lostPay = Zero

Approve(t) ==
    /\ approved' = [approved EXCEPT ![t] = @ + 1]
    /\ UNCHANGED <<charged, paid, lostCharge, lostPay>>

\* A charge spends an approval or an earlier unrecorded charge; it may be
\* itself unrecorded.
Charge(t) ==
    /\ charged[t] < approved[t] + lostCharge[t]
    /\ charged' = [charged EXCEPT ![t] = @ + 1]
    /\ \/ UNCHANGED lostCharge
       \/ lostCharge' = [lostCharge EXCEPT ![t] = @ + 1]
    /\ UNCHANGED <<approved, paid, lostPay>>

\* A payment spends a charge or an earlier unrecorded payment.
Pay(t) ==
    /\ paid[t] < charged[t] + lostPay[t]
    /\ paid' = [paid EXCEPT ![t] = @ + 1]
    /\ \/ UNCHANGED lostPay
       \/ lostPay' = [lostPay EXCEPT ![t] = @ + 1]
    /\ UNCHANGED <<approved, charged, lostCharge>>

LoseCharge(t) ==
    /\ lostCharge[t] < charged[t]
    /\ lostCharge' = [lostCharge EXCEPT ![t] = @ + 1]
    /\ UNCHANGED <<approved, charged, paid, lostPay>>

LosePay(t) ==
    /\ lostPay[t] < paid[t]
    /\ lostPay' = [lostPay EXCEPT ![t] = @ + 1]
    /\ UNCHANGED <<approved, charged, paid, lostCharge>>

Next == \E t \in Trx : \/ Approve(t) \/ Charge(t) \/ Pay(t)
                       \/ LoseCharge(t) \/ LosePay(t)

Spec == Init /\ [][Next]_contractVars

===============================================================================
