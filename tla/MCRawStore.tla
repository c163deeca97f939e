------------------------------ MODULE MCRawStore ------------------------------
(* Small instances of RawStore for TLC. *)
EXTENDS RawStore, TLC

CONSTANTS b1, b2

Forks    == {b1, b2}
OneFork  == {b1}
Symmetry == Permutations(Forks)
NoStray  == {}
Stray    == {2, 3}
StrayTwo == {2}
=============================================================================
