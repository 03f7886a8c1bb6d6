---------------------------- MODULE MCPeerTable ----------------------------
(* Symmetry for model checking the safety of PeerTable. *)
EXTENDS PeerTable, TLC

\* Peers differ in name only where none of them is lively.
Symmetry == Permutations(Peers)
=============================================================================
