----------------------------- MODULE MCWithdrawals -----------------------------
(* Instances of Withdrawals for TLC. *)
EXTENDS Withdrawals

CONSTANTS m1, m2

\* One merchant asks for two withdrawals of different size.
OneOwner == [t \in Trx |-> m1]
Rising == [t \in Trx |-> t]
===============================================================================
