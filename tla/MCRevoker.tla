----------------------------- MODULE MCRevoker ------------------------------
(***************************************************************************)
(* Two users; a search for the email of the first finds the second before  *)
(* it.                                                                     *)
(***************************************************************************)
EXTENDS Revoker, TLC

CONSTANTS e1, u1, u2

MCFirstMatch == e1 :> u2

=============================================================================
