--------------------------- MODULE MCPeerSociety ---------------------------
(***************************************************************************)
(* Small instances of PeerSociety.                                         *)
(***************************************************************************)
EXTENDS PeerSociety, TLC

\* The peers are interchangeable.
Symmetry == Permutations(Peers)
=============================================================================
