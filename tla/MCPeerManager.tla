--------------------------- MODULE MCPeerManager ---------------------------
(* PeerManager for TLC: the nodes are model values. *)
EXTENDS PeerManager, TLC

=============================================================================
