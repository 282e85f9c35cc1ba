------------------------------ MODULE MCPeers -------------------------------
(***************************************************************************)
(* Two keys, workers and runs of the script, each interchangeable.         *)
(***************************************************************************)
EXTENDS Peers, TLC

Symmetry == Permutations(Keys) \cup Permutations(Workers) \cup Permutations(Runs)

=============================================================================
