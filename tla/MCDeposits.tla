------------------------------- MODULE MCDeposits -------------------------------
(* Instances of Deposits for TLC. *)
EXTENDS Deposits

CONSTANTS m1, m2, a1, a2

\* Every record belongs to the same merchant.
OneMerchant == [k \in Keys |-> m1]
\* The last record is a user of the second merchant.
TwoMerchants == [k \in Keys |-> IF k = MaxKey THEN m2 ELSE m1]
===============================================================================
