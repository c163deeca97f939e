---------------------------- MODULE MCMajorityVote ----------------------------
(* Small instances of MajorityVote for TLC. *)
EXTENDS MajorityVote

CONSTANTS h1, h2, h3, l1, yes, no

FourPeers == {h1, h2, h3, l1}
OneLiar   == {l1}
Bodies    == {yes, no}
=============================================================================
