------------------------------ MODULE MCAccounts ------------------------------
(* Values of the constants of Accounts for TLC.                              *)
EXTENDS Accounts, TLC

CONSTANTS r1, r2, r3

(* Requests are alike; no property tells them apart.                         *)
Symmetry == Permutations(Requests)
=============================================================================
