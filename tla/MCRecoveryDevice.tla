-------------------------- MODULE MCRecoveryDevice --------------------------
(***************************************************************************)
(* TLC instance of RecoveryDevice.  Requests, keys and coroutines are      *)
(* interchangeable; the properties are invariant under renaming them.      *)
(***************************************************************************)
EXTENDS RecoveryDevice, TLC

Symmetry == Permutations(Claims) \union Permutations(Keys) \union Permutations(Coroutines)

\* States that no later step and no property can tell apart count as one.  A
\* claim leaves a phase for good, and keys are never made twice, so it does not
\* matter any more whether a claim that is no longer asked was opened or
\* approved, whether an ended claim was given up unless its key is the trusted
\* one, nor whether a complete() is under way that can only be refused.
Asked == {c \in Claims : claim[c].phase \in {"absent", "asked"}}
View == <<time, key, claim, approved \intersect Asked, opened \intersect Asked,
          {c \in gaveUp : claim[c].phase = "waiting" \/ claim[c].key = key},
          {c \in late : Server!Alive(c)}, stored, popup, task>>
=============================================================================
