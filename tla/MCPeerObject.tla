--------------------------- MODULE MCPeerObject -----------------------------
(* A small instance of PeerObject for TLC. *)
EXTENDS PeerObject
=============================================================================
