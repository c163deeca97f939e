-------------------------------- MODULE MCLedger --------------------------------
(***************************************************************************)
(* Two owners and an account nobody has a key of; blocks of up to two      *)
(* transactions, so that one may follow another that made it possible or   *)
(* impossible.  The reward falls to 2 in the second month of one block.    *)
(***************************************************************************)
EXTENDS Ledger, TLC

CONSTANTS a1, a2, a3, k1, k2

MCId == {a1, a2, a3}
MCKey == {k1, k2}
MCIdOf == k1 :> a1 @@ k2 :> a2
=============================================================================
