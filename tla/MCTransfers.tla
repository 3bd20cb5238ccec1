------------------------------- MODULE MCTransfers -------------------------------
(* Instances of Transfers for TLC. *)
EXTENDS Transfers, TLC

CONSTANTS sending, receiving, plain, multi, key

\* One wallet with one key, and one with a multisignature account.
OneOfEach == (multi :> key) @@ [a \in {sending, receiving, plain, key} |-> a]

\* The multisignature account has no gas yet, the wallet with one key and the
\* processor's own key have enough for two transactions, the others for one.
SomeGas == [a \in Addresses |-> CASE a = multi -> 0
                                   [] a \in {plain, key} -> 2
                                   [] OTHER -> 1]

Transfer_Symmetry == Permutations(Requests)
===============================================================================
