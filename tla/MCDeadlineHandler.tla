-------------------------- MODULE MCDeadlineHandler --------------------------
(* Small instances of DeadlineHandler for TLC. *)
EXTENDS DeadlineHandler

CONSTANTS r1, r2, r3, r4

ThreeRequests == {r1, r2, r3}
FourRequests  == {r1, r2, r3, r4}
=============================================================================
