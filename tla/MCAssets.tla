------------------------------- MODULE MCAssets -------------------------------
(* Values of the constants of Assets for TLC.                                *)
EXTENDS Assets, TLC

CONSTANTS r1, r2, r3, m1, m2

(* The foreign account belongs to a user of the merchant with wallets.       *)
HolderOf == [i \in Foreign |-> m1]

(* Requests are alike; no property tells them apart.                         *)
Symmetry == Permutations(Requests)
===============================================================================
