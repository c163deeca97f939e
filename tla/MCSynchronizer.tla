---------------------------- MODULE MCSynchronizer ----------------------------
(* Small instances of Synchronizer for TLC. *)
EXTENDS Synchronizer

OneRange    == <<0, 12>>
ThreeRanges == <<0, 4, 8, 12>>
Uneven      == <<0, 3, 6>>
Two         == {2}
GoodOnly    == {"good"}
GoodBad     == {"good", "bad"}
NothingLeft == {}
SomeLeft    == {4, 7}
=============================================================================
