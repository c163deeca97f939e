---------------------------- MODULE MCPeerManager ----------------------------
(* Small instances of PeerManager for TLC. *)
EXTENDS PeerManager

CONSTANTS u1, u2, u3, c1

TwoUrls    == {u1, u2}
ThreeUrls  == {u1, u2, u3}
OneCaller  == {c1}
NoHeights  == {0}
=============================================================================
