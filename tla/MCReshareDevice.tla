-------------------------- MODULE MCReshareDevice --------------------------
(***************************************************************************)
(* TLC instance of ReshareDevice: two reshares, two calls in flight.       *)
(***************************************************************************)
EXTENDS ReshareDevice
=============================================================================
