------------------------------ MODULE MCGateway ------------------------------
(***************************************************************************)
(* One request at a time of one user, on a device with a fast clock.       *)
(***************************************************************************)
EXTENDS Gateway, TLC

CONSTANT d1

MCSkew == d1 :> 1

=============================================================================
