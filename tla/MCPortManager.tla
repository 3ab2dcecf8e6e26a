--------------------------- MODULE MCPortManager ---------------------------
(* Instances of PortManager for TLC. *)
EXTENDS PortManager

CONSTANTS s1, s2, peer

(* Two sessions of one peer, which may share a port. *)
MCPeerOf == [s \in Session |-> peer]
=============================================================================
