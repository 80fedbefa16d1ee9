----------------------------- MODULE MCPasskey -----------------------------
(***************************************************************************)
(* Small instances of Passkey.  Ids and handlers are interchangeable.      *)
(***************************************************************************)
EXTENDS Passkey, TLC

Symmetry ==
    UNION {Permutations(S) : S \in {Ceremonies, Challenges, Operations, Handlers}}
=============================================================================
