--------------------------- MODULE MCDeviceProof ---------------------------
(***************************************************************************)
(* A small instance of DeviceProof, with the ratio of the two limits in    *)
(* auth.rs.                                                                *)
(***************************************************************************)
EXTENDS DeviceProof, TLC

Symmetry == Permutations(Proofs) \union Permutations(Handlers)
=============================================================================
