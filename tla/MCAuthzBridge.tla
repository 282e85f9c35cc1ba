---------------------------- MODULE MCAuthzBridge ----------------------------
(***************************************************************************)
(* One device whose clock runs ahead of the gateway's, one user.           *)
(***************************************************************************)
EXTENDS AuthzBridge, TLC

CONSTANT d1

MCSkew == d1 :> 1

=============================================================================
