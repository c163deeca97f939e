----------------------------- MODULE Synchronizer -----------------------------
(***************************************************************************)
(* pkg/p2p/synchronizer.go: downloading the chain in ranges.               *)
(*                                                                         *)
(* The milestones of the configuration cut the chain into ranges.  The     *)
(* batch of a range circulates through three stages, each with as many     *)
(* goroutines as there are milestones, so every batch can be worked on at  *)
(* once: fetch the ids that follow its start (agreed on by a majority of   *)
(* peers), fetch their blocks (from one peer), validate and store them.    *)
(* A block is validated against its predecessor, which at the edges of a   *)
(* batch belongs to another batch: such blocks meet in glueBlocks.  A      *)
(* batch circulates until its start has reached its end; nothing cuts a    *)
(* batch at its end, so a range may run into the next one.                 *)
(*                                                                         *)
(* Abstractions.  The chain of the majority is 0..ChainLen and the id of a *)
(* block is its position in it.  A block a peer serves for a position is   *)
(* "good" (the block of the chain), "bad" (its own checks fail, or its     *)
(* hash is not the one its successor names) or a "fork" (valid after its   *)
(* predecessor, but not the block of the chain).  A peer's answer that is  *)
(* an error, empty or not linked to the ids is asked for again: no step.   *)
(* The raw store is its log and its queue (module BlockLog); storing and   *)
(* consuming hold the store's lock and are one step here.                  *)
(***************************************************************************)
EXTENDS Integers, Sequences, FiniteSets

CONSTANTS
    Milestones,   \* heights of the configured milestones, genesis first
    StartHeight,  \* rawStore.Current.Height when the node starts
    Leftover,     \* heights in the store's queue when the node starts
    ChainLen,     \* height of the majority's chain
    MaxIds,       \* ids in one answer (100)
    Chunks,       \* how many blocks an answer may hold
    Kinds,        \* what peers may serve for a position
    NoBlock

ASSUME MilestoneAssumption ==
    /\ Milestones \in Seq(Nat)
    /\ Len(Milestones) >= 1 /\ Milestones[1] = 0
    /\ \A i \in 1..Len(Milestones) - 1 : Milestones[i] < Milestones[i + 1]

ASSUME ChainAssumption ==
    /\ ChainLen \in Nat /\ Milestones[Len(Milestones)] <= ChainLen
    /\ StartHeight \in 0..ChainLen
    /\ Leftover \subseteq StartHeight + 1..ChainLen
    /\ MaxIds \in Nat \ {0} /\ Chunks \subseteq Nat \ {0}
    /\ Kinds \subseteq {"good", "bad", "fork"} /\ "good" \in Kinds

VARIABLES
    batch,  \* the batch of each range: where it is and what it holds
    glue,   \* glueBlocks: height -> block
    log,    \* raw store: the consumed blocks, log[h + 1] at height h
    queue   \* raw store: stored and not yet consumed, height -> block

vars == <<batch, glue, log, queue>>

Heights == 0..ChainLen
Last    == Milestones[Len(Milestones)]
NoId    == -1
Block   == [pos : Heights, height : Heights, kind : {"good", "bad", "fork"}]
Meta    == [id : Heights \cup {NoId}, height : Heights]
GoodAt(h) == [pos |-> h, height |-> h, kind |-> "good"]

ASSUME NoBlockAssumption == NoBlock \notin Block

-----------------------------------------------------------------------------
(* Ranges *)

\* alignMilestonesWithCurrent: the indices that get a range ...
Ranges == {i \in 1..Len(Milestones) - 1 : Milestones[i + 1] > StartHeight}

\* ... and where it begins: at the milestone, or at the current block when the
\* range is partly stored.
FromOf(i) ==
    LET h == IF StartHeight > Milestones[i] THEN StartHeight ELSE Milestones[i]
    IN  [id |-> h, height |-> h]

ToOf(i) == Milestones[i + 1]

Stages == {"empty", "ids", "blocks", "glued", "done"}

TypeOK ==
    /\ batch \in [Ranges -> [stage : Stages, from : Meta, ids : 0..MaxIds,
                             fetched : Seq(Block), chain : Seq(Block)]]
    /\ glue \in [Heights -> Block \cup {NoBlock}]
    /\ log \in Seq(Block)
    /\ queue \in [Heights -> Block \cup {NoBlock}]

\* NewSynchronizer: the current block glues the first range to the store.
Init ==
    /\ batch = [r \in Ranges |-> [stage |-> "empty", from |-> FromOf(r), ids |-> 0,
                                  fetched |-> <<>>, chain |-> <<>>]]
    /\ glue = [h \in Heights |-> IF h = StartHeight THEN GoodAt(h) ELSE NoBlock]
    /\ log = [i \in 1..StartHeight + 1 |-> GoodAt(i - 1)]
    /\ queue = [h \in Heights |-> IF h \in Leftover THEN GoodAt(h) ELSE NoBlock]

-----------------------------------------------------------------------------
(* Fetching *)

Smaller(a, b) == IF a < b THEN a ELSE b

\* fetchBlockIDs: the ids the majority names after the start of the range.  It
\* asks again and again when there are none.
FetchBlockIDs(r) ==
    /\ batch[r].stage = "empty"
    /\ batch[r].from.id \in 0..ChainLen - 1
    /\ batch' = [batch EXCEPT
                   ![r].stage = "ids",
                   ![r].ids = Smaller(MaxIds, ChainLen - batch[r].from.id)]
    /\ UNCHANGED <<glue, log, queue>>

\* MUTANT of SetHeights: the first block gets the height of the start.
SetHeights_OffByOne(from, kinds, n) ==
    [i \in 1..n |-> [pos |-> from.id + i, height |-> from.height + i - 1,
                     kind |-> kinds[i]]]

\* countValidBlocksAndSetHeight on the answer of a peer whose blocks are of the
\* given kinds: blocks get their height from the start of the range, and those
\* beyond the ids are cut off.
SetHeights(from, kinds, n) ==
    [i \in 1..n |-> [pos |-> from.id + i, height |-> from.height + i, kind |-> kinds[i]]]

\* fetchBlocks: some blocks after the start, from one peer.
FetchBlocks(r, kinds) ==
    LET n == Smaller(Len(kinds), batch[r].ids)
    IN  /\ batch[r].stage = "ids"
        /\ batch' = [batch EXCEPT
                       ![r].stage = "blocks",
                       ![r].fetched = SetHeights(batch[r].from, kinds, n)]
        /\ UNCHANGED <<glue, log, queue>>

-----------------------------------------------------------------------------
(* Validating *)

Cached(g, h) == IF h \in Heights /\ g[h] # NoBlock THEN <<g[h]>> ELSE <<>>

\* MUTANT of Glue: no look for the block after the batch.
Glue_NoSuccessor(r) ==
    LET bs    == batch[r].fetched
        first == bs[1]
        last  == bs[Len(bs)]
        pred  == Cached(glue, first.height - 1)
        g     == IF pred # <<>> THEN glue ELSE [glue EXCEPT ![first.height] = first]
    IN  /\ batch[r].stage = "blocks"
        /\ batch' = [batch EXCEPT ![r].stage = "glued", ![r].chain = pred \o bs]
        /\ glue' = [g EXCEPT ![last.height] = last]
        /\ UNCHANGED <<log, queue>>

\* validateBlocks, under the lock of glueBlocks: the batch is extended by the
\* block before it and the block after it, where those are cached; otherwise
\* its own edges are cached for the batches that bring them.
Glue(r) ==
    LET bs    == batch[r].fetched
        first == bs[1]
        last  == bs[Len(bs)]
        pred  == Cached(glue, first.height - 1)
        g     == IF pred # <<>> THEN glue ELSE [glue EXCEPT ![first.height] = first]
        succ  == Cached(g, last.height + 1)
    IN  /\ batch[r].stage = "blocks"
        /\ batch' = [batch EXCEPT ![r].stage = "glued", ![r].chain = pred \o bs \o succ]
        /\ glue' = IF succ # <<>> THEN [g EXCEPT ![last.height + 1] = NoBlock]
                                  ELSE [g EXCEPT ![last.height] = last]
        /\ UNCHANGED <<log, queue>>

\* PreValidate: b passes its own checks and names p as its predecessor.
PreValidate(b, p) == b.kind # "bad" /\ p.kind = "good" /\ b.pos = p.pos + 1

\* MUTANT of Valid: the last block is not looked at.
Valid_SkipsLast(c) == \A i \in 2..Len(c) - 1 : PreValidate(c[i], c[i - 1])

\* All blocks after the first are validated against the one before.
Valid(c) == \A i \in 2..Len(c) : PreValidate(c[i], c[i - 1])

\* MUTANT of Refetch: the batch is not queued again.
Refetch_Forgets(r) ==
    /\ batch[r].stage = "glued" /\ ~Valid(batch[r].chain)
    /\ batch' = [batch EXCEPT ![r].stage = "done", ![r].ids = 0,
                              ![r].fetched = <<>>, ![r].chain = <<>>]
    /\ UNCHANGED <<glue, log, queue>>

\* refetchBlockRangeAndBlockPeers: the whole batch is fetched again.
Refetch(r) ==
    /\ batch[r].stage = "glued" /\ ~Valid(batch[r].chain)
    /\ batch' = [batch EXCEPT ![r].stage = "empty", ![r].ids = 0,
                              ![r].fetched = <<>>, ![r].chain = <<>>]
    /\ UNCHANGED <<glue, log, queue>>

\* The queue with the blocks bs stored under their heights.
Queued(bs) ==
    [h \in Heights |->
        IF \E i \in 1..Len(bs) : bs[i].height = h
        THEN bs[CHOOSE i \in 1..Len(bs) : bs[i].height = h]
        ELSE queue[h]]

\* StoreAndMaybeConsume: the blocks go to the queue; if one of them is the next,
\* the log takes what the queue holds up to its first gap.
StoreAndMaybeConsume(bs) ==
    LET q     == Queued(bs)
        next  == Len(log)
        ready == \E i \in 1..Len(bs) : bs[i].height = next
    IN  \E top \in next - 1..ChainLen :
          /\ IF ready
             THEN /\ \A h \in next..top : q[h] # NoBlock
                  /\ top < ChainLen => q[top + 1] = NoBlock
             ELSE top = next - 1
          /\ log' = log \o [i \in 1..top - next + 1 |-> q[next + i - 1]]
          /\ queue' = [h \in Heights |-> IF h \in next..top THEN NoBlock ELSE q[h]]

\* PreValidate fills in the id of a block, so one that was never validated has
\* none; and nobody of the majority knows the id of a fork.
IdOf(c) == LET b == c[Len(c)]
           IN  IF Len(c) > 1 /\ b.kind = "good" THEN b.pos ELSE NoId

\* The rest of validateBlocks: all but the first block are stored, and the range
\* moves on by the blocks fetched, but to the id of the last block validated.
Store(r) ==
    LET b    == batch[r]
        from == [id |-> IdOf(b.chain), height |-> b.from.height + Len(b.fetched)]
    IN  /\ b.stage = "glued" /\ Valid(b.chain)
        /\ StoreAndMaybeConsume(Tail(b.chain))
        /\ batch' = [batch EXCEPT ![r] =
                       [stage |-> IF from.height < ToOf(r) THEN "empty" ELSE "done",
                        from |-> from, ids |-> 0, fetched |-> <<>>, chain |-> <<>>]]
        /\ UNCHANGED glue

-----------------------------------------------------------------------------
Answers == UNION {[1..n -> Kinds] : n \in Chunks}
Honest  == UNION {[1..n -> {"good"}] : n \in Chunks}

Fetch(r) == FetchBlockIDs(r) \/ \E kinds \in Answers : FetchBlocks(r, kinds)
Validate(r) == Glue(r) \/ Refetch(r) \/ Store(r)

Next == \E r \in Ranges : Fetch(r) \/ Validate(r)

\* Goroutines are scheduled, and peers are drawn at random, so a range that is
\* fetched over and over meets an honest peer.
Fairness ==
    \A r \in Ranges :
        /\ WF_vars(Fetch(r)) /\ WF_vars(Validate(r))
        /\ SF_vars(\E kinds \in Honest : FetchBlocks(r, kinds))

Spec == Init /\ [][Next]_vars
FairSpec == Spec /\ Fairness

-----------------------------------------------------------------------------
(* Properties *)

\* Every block is stored under its own height: the heights that ranges count
\* from their starts, through retries, glued blocks and each other's blocks,
\* agree with the chain; hence the log is a chain of linked blocks.
StoredAtOwnHeight ==
    /\ \A i \in 1..Len(log) : log[i].pos = i - 1
    /\ \A h \in Heights : queue[h] # NoBlock => queue[h].pos = h

\* Nothing that fails its checks is stored, though blocks are cached and
\* handed to other ranges before they are validated.
OnlyValidStored ==
    /\ \A i \in 1..Len(log) : log[i].kind # "bad"
    /\ \A h \in Heights : queue[h] # NoBlock => queue[h].kind # "bad"

\* When every range is finished the chain is stored without a gap up to the
\* last milestone.
DoneMeansStored ==
    (\A r \in Ranges : batch[r].stage = "done") => Len(log) > Last

\* The node catches up to the last milestone.
Synced == <>(Len(log) > Last)
=============================================================================
