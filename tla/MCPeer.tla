------------------------------- MODULE MCPeer -------------------------------
(* Peer for TLC. *)
EXTENDS Peer

=============================================================================
