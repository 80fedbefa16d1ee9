----------------------------- MODULE MCRecovery -----------------------------
(***************************************************************************)
(* Small instances of Recovery.  Requests, keys and handlers are           *)
(* interchangeable; the properties are invariant under renaming them.      *)
(***************************************************************************)
EXTENDS Recovery, TLC

Symmetry ==
    Permutations(Requests) \union Permutations(Keys) \union Permutations(Handlers)
=============================================================================
