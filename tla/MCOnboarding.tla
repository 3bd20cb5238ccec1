------------------------------ MODULE MCOnboarding ------------------------------
(***************************************************************************)
(* Values for TLC.  Nothing orders requests or users.                      *)
(***************************************************************************)
EXTENDS Onboarding, TLC

CONSTANTS r1, r2, r3, r4, u1, u2

Symmetry == Permutations(Requests) \cup Permutations(Users)
=============================================================================
