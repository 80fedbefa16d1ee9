-------------------------- MODULE MCRecoveryWatch --------------------------
(***************************************************************************)
(* TLC instance of RecoveryWatch: two claims, one after the other, and two *)
(* checks that may overlap.                                                *)
(***************************************************************************)
EXTENDS RecoveryWatch, TLC

Symmetry == Permutations(Checks)
=============================================================================
