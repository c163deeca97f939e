---------------------------------- MODULE Bank ----------------------------------
(***************************************************************************)
(* What the ledger promises: balances that are never overdrawn, and two    *)
(* kinds of change, each in one step: money is forged for an account, or   *)
(* the owner of an account, known by his public key, pays an amount to     *)
(* somebody and a fee to nobody.                                           *)
(***************************************************************************)
EXTENDS Integers

CONSTANTS Id, Key, IdOf, Amount, Fee

VARIABLE balance

Init == balance = [a \in Id |-> 0]

Forge(a) ==
    /\ balance'[a] >= balance[a]
    /\ balance' = [balance EXCEPT ![a] = balance'[a]]

Pay(k, b, x, f) ==
    /\ balance[IdOf[k]] >= x + f
    /\ LET debited == [balance EXCEPT ![IdOf[k]] = @ - (x + f)]
       IN  balance' = [debited EXCEPT ![b] = @ + x]

Next == \/ \E a \in Id : Forge(a)
        \/ \E k \in Key, b \in Id, x \in Amount, f \in Fee : Pay(k, b, x, f)

Spec == Init /\ [][Next]_balance
=============================================================================
