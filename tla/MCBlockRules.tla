----------------------------- MODULE MCBlockRules -----------------------------
(***************************************************************************)
(* Signatures of one byte; seconds in 6 bits and amounts in 4, so that     *)
(* deadlines, limits and sums do wrap.                                      *)
(***************************************************************************)
EXTENDS BlockRules

MCGenesisSignature == <<0>>
MCSignatureAfter(sig) == <<IF sig = <<1>> THEN 0 ELSE 1>>

T(ts, deadline, fee, amount) ==
    [ts |-> ts, deadline |-> deadline, fee |-> fee, amount |-> amount,
     hasId |-> TRUE, signed |-> TRUE]

MCTransaction ==
    {T(0, 1, 1, 3), T(3, 7, 2, 5), T(63, 1, 2, 3), T(1, 1, 4, 12)}
      \cup {[T(2, 1, 2, 3) EXCEPT !.hasId = FALSE], [T(2, 1, 2, 3) EXCEPT !.signed = FALSE]}

=============================================================================
