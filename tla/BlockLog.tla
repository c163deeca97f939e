------------------------------- MODULE BlockLog -------------------------------
(***************************************************************************)
(* What the raw store (pkg/store/raw.go) promises to the rest of the node: *)
(* a durable log with one block per height, from genesis on, that only     *)
(* grows at its end; and a set of pending blocks, from which the next entry *)
(* is always taken and out of which nothing is dropped before it is in the *)
(* log.  The process may die at any time: what is lost is at most the      *)
(* contents of the entry being appended, whose place is then taken by an   *)
(* empty block.                                                            *)
(***************************************************************************)
EXTENDS Integers, Sequences

CONSTANTS Block, GenesisBlock, EmptyBlock, NoBlock, MaxHeight

VARIABLES log, pending

Heights == 0..MaxHeight

\* The height of the next entry.
End == Len(log)

Init ==
    /\ log = <<>>
    /\ pending = [h \in Heights |-> NoBlock]

\* Some blocks are committed to the queue, over what it held for the height.
Submit ==
    /\ pending' \in [Heights -> Block \cup {NoBlock}]
    /\ \A h \in Heights : pending[h] # NoBlock => pending'[h] # NoBlock
    /\ UNCHANGED log

\* The log grows by the genesis block or by the pending block for its end.
Grow ==
    /\ End <= MaxHeight
    /\ LET b == IF End = 0 THEN GenesisBlock ELSE pending[End]
       IN  b # NoBlock /\ log' = Append(log, b)
    /\ UNCHANGED pending

\* The process died while the entry was written: the entry is left empty.
Tear ==
    /\ End <= MaxHeight
    /\ End = 0 \/ pending[End] # NoBlock
    /\ log' = Append(log, EmptyBlock)
    /\ UNCHANGED pending

\* Blocks that are in the log are no longer pending.
Discard ==
    /\ pending' \in [Heights -> Block \cup {NoBlock}]
    /\ \A h \in Heights :
          \/ pending'[h] = pending[h]
          \/ pending'[h] = NoBlock /\ h < End /\ log[h + 1] = pending[h]
    /\ UNCHANGED log

Next == Submit \/ Grow \/ Tear \/ Discard

Spec == Init /\ [][Next]_<<log, pending>>
=============================================================================
