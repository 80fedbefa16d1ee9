--------------------------- MODULE MCServerShare ---------------------------
(***************************************************************************)
(* TLC instance of ServerShare: one key generation, one signature, two     *)
(* reshares.  Calls in flight are interchangeable, and so are reshares.    *)
(***************************************************************************)
EXTENDS ServerShare, TLC

Symmetric == Permutations(Handlers) \union Permutations(ReshareIds)
=============================================================================
