----------------------------- MODULE MCConnections -----------------------------
(* Instances of Connections for TLC. *)
EXTENDS Connections

CONSTANT m1

\* One merchant asks for two withdrawals of different size.
OneOwner == [t \in Trx |-> m1]
Rising == [t \in Trx |-> t]
===============================================================================
