------------------------------ MODULE BlockRules ------------------------------
(***************************************************************************)
(* The rules a block must pass (src/pkg/block/block.go): PreValidate, which *)
(* the synchronizer asks before it hands a block on, and Validate, which    *)
(* the raw store calls when it files the block and which only sets its base *)
(* target and its cumulative difficulty.  Between the two the block waits   *)
(* in a queue (modules Synchronizer and RawStore say how it gets there).    *)
(*                                                                          *)
(* Digests are taken to be injective: a block is known by its place in the  *)
(* chain, the payload hash by the transactions it was taken over.  Machine  *)
(* integers keep their width: times have no sign, amounts have one in the   *)
(* block's totals and none in a transaction.                                *)
(***************************************************************************)
EXTENDS Integers, Sequences, SequencesExt

CONSTANTS
    TimeRange,               \* 2^32 in the code: timestamps are uint32
    AmountRange,             \* 2^64 in the code
    MaxTimestampDifference,  \* 15 seconds
    Minute,                  \* 60: a deadline is in minutes
    OneBurst, FeeQuant, PreDymaxionForkHeight,
    BlockTime,               \* 240 seconds
    LargeWindow,             \* 24 blocks
    AdjustHeight,            \* env.AdjustDifficutlyHeight, 2700
    MaxBaseTarget,           \* also env.InitialBaseTarget
    MaxBig64,                \* 2^64 - 1
    SignatureAfter(_),       \* CalculateGenerationSignature of a predecessor
    Transaction,             \* the transactions a block may carry
    Total,                   \* the totals a block may state
    Gap,                     \* how long after its predecessor a block may be
    GenesisSignature,        \* of the genesis block
    MaxHeight, MaxQueue, MaxTxs, MaxTxHeight   \* bounds of the model

ASSUME SizesAssumption ==
    /\ {MaxTimestampDifference, Minute, OneBurst, FeeQuant,
        PreDymaxionForkHeight, MaxHeight, MaxQueue, MaxTxs, MaxTxHeight} \subseteq Nat
    /\ {TimeRange, AmountRange, BlockTime, LargeWindow, AdjustHeight, MaxBaseTarget} \subseteq Nat \ {0}
    /\ 4 <= AdjustHeight /\ LargeWindow <= AdjustHeight
    /\ MaxBig64 \in Nat /\ MaxBaseTarget <= MaxBig64
    /\ Gap \subseteq Nat \ {0}

\* The numbers of a transaction have no sign.
ASSUME TransactionAssumption ==
    \A tx \in Transaction : {tx.ts, tx.deadline, tx.fee, tx.amount} \subseteq Nat

VARIABLES
    now,        \* the clock of this node, in seconds since the chain began
    filed,      \* the validated blocks, the genesis block first
    queue,      \* the pre-validated blocks not filed yet
    genSig,     \* the generation signature of the last block of the two
    running     \* FALSE after an index out of range

vars == <<now, filed, queue, genSig, running>>

-----------------------------------------------------------------------------
(* Machine integers. *)

Seconds(x) == x % TimeRange
Time == 0 .. TimeRange - 1

Sint(x) == ((x + AmountRange \div 2) % AmountRange) - AmountRange \div 2

AtLeast(x, low) == IF x < low THEN low ELSE x
AtMost(x, high) == IF x > high THEN high ELSE x

-----------------------------------------------------------------------------
(* What a transaction must pass (src/pkg/transaction/transaction.go). *)

GetExpiration(tx) == Seconds(tx.ts + Minute * tx.deadline)

\* A slip: the expiration is compared with a moment the sender chose.
validateTimestampOwn(tx, blockTs) ==
    /\ tx.ts <= Seconds(now + MaxTimestampDifference)
    /\ tx.ts <= Seconds(blockTs + MaxTimestampDifference)
    /\ GetExpiration(tx) >= tx.ts

validateTimestamp(tx, blockTs) ==
    /\ tx.ts <= Seconds(now + MaxTimestampDifference)
    /\ tx.ts <= Seconds(blockTs + MaxTimestampDifference)
    /\ GetExpiration(tx) >= blockTs

MinimumFee(height) ==
    IF height = 0 THEN 0 ELSE IF height < PreDymaxionForkHeight THEN OneBurst ELSE FeeQuant

ValidTransaction(tx, height, blockTs) ==
    /\ validateTimestamp(tx, blockTs)
    /\ tx.fee >= MinimumFee(height)
    /\ tx.hasId
    /\ tx.signed

-----------------------------------------------------------------------------
(* What a block must pass. *)

\* The blocks up to the one a new block is to follow, and its height.
Known == filed \o queue
Tip == Last(Known)
Height == Len(Known)

SumOf(txs, Part(_)) == FoldLeft(LAMBDA sum, tx : sum + Part(tx), 0, txs)
AmountsOf(txs) == SumOf(txs, LAMBDA tx : tx.amount)
FeesOf(txs) == SumOf(txs, LAMBDA tx : tx.fee)

\* A slip: the fee is added to the wrong total.
validateTransactionsOneTotal(blockTs, b) ==
    /\ \A i \in DOMAIN b.txs : ValidTransaction(b.txs[i], Height, blockTs)
    /\ Sint(AmountsOf(b.txs)) <= b.totalAmount + b.totalFee
    /\ b.payload = b.txs

validateTransactions(blockTs, b) ==
    /\ \A i \in DOMAIN b.txs : ValidTransaction(b.txs[i], Height, blockTs)
    /\ Sint(AmountsOf(b.txs)) <= b.totalAmount
    /\ Sint(FeesOf(b.txs)) <= b.totalFee
    /\ b.payload = b.txs

InHeaderRules(h) ==
    /\ h.version = 3
    /\ h.ts > Tip.ts
    /\ h.ts <= Seconds(now + MaxTimestampDifference)
    /\ h.previous = Height
    /\ h.previousHash = Height

\* The loop runs over the signature the block has, and reads the expected one
\* at the same places: a shorter signature passes, a longer one panics.
SignatureMatches(h) ==
    LET expected == SignatureAfter(genSig)
    IN  \A i \in (DOMAIN h.genSig) \cap (DOMAIN expected) : h.genSig[i] = expected[i]

SignaturePanics(h) == Len(h.genSig) > Len(SignatureAfter(genSig))

\* A block without transactions has neither its totals nor its payload hash
\* looked at.
PreValidate(h, b) ==
    /\ running
    /\ InHeaderRules(h) /\ SignatureMatches(h)
    /\ IF SignaturePanics(h)
       THEN running' = FALSE /\ UNCHANGED <<now, filed, queue, genSig>>
       ELSE /\ b.txs = <<>> \/ validateTransactions(h.ts, b)
            /\ queue' = Append(queue, [ts |-> h.ts, txs |-> b.txs,
                                       totalAmount |-> b.totalAmount, totalFee |-> b.totalFee])
            /\ genSig' = h.genSig
            /\ UNCHANGED <<now, filed, running>>

-----------------------------------------------------------------------------
(* SetBaseTargetAndCumulativeDifficulty. *)

LastOf(blocks, n) == SubSeq(blocks, Len(blocks) - n + 1, Len(blocks))

\* Heights 4 to AdjustHeight: the mean of four targets, scaled by the time the
\* four blocks took, within a tenth of the mean.
SmallTarget(w, ts) ==
    LET mean == (w[1].target + w[2].target + w[3].target + w[4].target) \div 4
        dt   == Seconds(ts - w[1].ts)
        new  == AtMost((mean * dt) \div (BlockTime * 4), MaxBaseTarget)
        up   == AtLeast(new, (mean * 9) \div 10)
    IN  AtMost(AtLeast(up, 1), (mean * 11) \div 10)

\* A slip: the divisor counts one block too many.
LargeAverageLong(w) ==
    LET n == LargeWindow
        avg[i \in 1 .. n] ==
            IF i = n THEN w[n].target
            ELSE (avg[i + 1] * (n + 1 - i) + w[i].target) \div (n + 3 - i)
    IN  avg[1]

\* The loop of the average over a window: it starts with the newest block.
LargeAverage(w) ==
    LET n == LargeWindow
        avg[i \in 1 .. n] ==
            IF i = n THEN w[n].target
            ELSE (avg[i + 1] * (n + 1 - i) + w[i].target) \div (n + 2 - i)
    IN  avg[1]

\* A slip: the limit of the raise is left out, for a slow network.
LargeTargetUncapped(w, ts) ==
    LET expected == LargeWindow * BlockTime
        dt  == Seconds(ts - w[1].ts)
        current == w[LargeWindow].target
        new == (LargeAverage(w) * dt) \div expected
    IN  AtLeast(AtLeast(new, 1), (current * 8) \div 10)

\* A slip: the dampening is taken from the wrong end of the time span.
LargeTargetSwapped(w, ts) ==
    LET expected == LargeWindow * BlockTime
        span == Seconds(ts - w[1].ts)
        dt  == IF span < expected \div 2 THEN expected * 2
               ELSE IF span > expected * 2 THEN expected \div 2 ELSE span
        current == w[LargeWindow].target
        new == AtMost((LargeAverage(w) * dt) \div expected, MaxBaseTarget)
    IN  AtMost(AtLeast(AtLeast(new, 1), (current * 8) \div 10), (current * 12) \div 10)

\* Later heights: the average of LargeWindow targets, scaled by the time the
\* window took (a half to twice what is expected), within a fifth of the
\* predecessor's target.
LargeTarget(w, ts) ==
    LET expected == LargeWindow * BlockTime
        dt  == AtMost(AtLeast(Seconds(ts - w[1].ts), expected \div 2), expected * 2)
        current == w[LargeWindow].target
        new == AtMost((LargeAverage(w) * dt) \div expected, MaxBaseTarget)
        up  == AtLeast(AtLeast(new, 1), (current * 8) \div 10)
    IN  AtMost(up, (current * 12) \div 10)

\* The target of a block of that time after these blocks.
BaseTarget(blocks, ts) ==
    IF Len(blocks) < 4 THEN MaxBaseTarget
    ELSE IF Len(blocks) < AdjustHeight THEN SmallTarget(LastOf(blocks, 4), ts)
    ELSE LargeTarget(LastOf(blocks, LargeWindow), ts)

\* A slip: the block's own share is left out below the height of the mean.
CumulativeDifficultyLate(blocks, target) ==
    Last(blocks).difficulty + IF Len(blocks) < 4 THEN 0 ELSE MaxBig64 \div target

CumulativeDifficulty(blocks, target) == Last(blocks).difficulty + MaxBig64 \div target

Validate ==
    /\ running /\ queue # <<>>
    /\ LET b == Head(queue)
           target == BaseTarget(filed, b.ts)
       IN  filed' = Append(filed, [ts |-> b.ts, target |-> target,
                                   difficulty |-> CumulativeDifficulty(filed, target)])
    /\ queue' = Tail(queue)
    /\ UNCHANGED <<now, genSig, running>>

-----------------------------------------------------------------------------
(* The clock, and the blocks peers offer. *)

\* The clock is not modelled past the last second a uint32 can hold, nor past
\* the moment from which every block of Gap is offered in time.
Tick ==
    /\ running
    /\ now + 1 \in Time /\ \E g \in Gap : now + MaxTimestampDifference < Tip.ts + g
    /\ now' = now + 1
    /\ UNCHANGED <<filed, queue, genSig, running>>

Signatures ==
    LET expected == SignatureAfter(genSig)
    IN  {<<>>, Front(expected), expected, Append(expected, 0), [expected EXCEPT ![Len(expected)] = 1 - @]}

Headers ==
    [version : {2, 3}, ts : {Seconds(Tip.ts + g) : g \in Gap \cup {0}},
     previous : {Height - 1, Height}, previousHash : {Height - 1, Height}, genSig : Signatures]

\* One of the blocks in the queue carries transactions, up to MaxTxHeight.
Bodies ==
    IF queue = <<>> /\ Height <= MaxTxHeight THEN BoundedSeq(Transaction, MaxTxs) ELSE {<<>>}

\* Every header, and with a right signature every body.
Offer ==
    /\ Height <= MaxHeight /\ Len(queue) < MaxQueue
    /\ \E h \in Headers :
        \/ PreValidate(h, [txs |-> <<>>, payload |-> <<>>, totalAmount |-> 0, totalFee |-> 0])
        \/ /\ h.genSig = SignatureAfter(genSig)
           /\ \E txs \in Bodies : \E payload \in {<<>>, txs}, amount, fee \in Total :
                PreValidate(h, [txs |-> txs, payload |-> payload,
                                totalAmount |-> amount, totalFee |-> fee])

Genesis == [ts |-> 0, target |-> MaxBaseTarget, difficulty |-> 0]

Init ==
    /\ now = 0
    /\ filed = <<Genesis>>
    /\ queue = <<>>
    /\ genSig = GenesisSignature
    /\ running = TRUE

Next == Tick \/ Offer \/ Validate

Spec == Init /\ [][Next]_vars

-----------------------------------------------------------------------------
(* What the rules are for. *)

Filed == [ts : Time, target : Nat, difficulty : Nat]
Queued == [ts : Time, txs : Seq(Transaction), totalAmount : Total \cup {0}, totalFee : Total \cup {0}]

\* The last block a node knows is a filed one or a queued one, never none.
TypeOK ==
    /\ now \in Time
    /\ filed \in Seq(Filed) /\ filed # <<>>
    /\ queue \in Seq(Queued)
    /\ running \in BOOLEAN

\* A base target never leaves 1 to the greatest one, whatever times blocks
\* come at: at 0 the difficulty of the block would be a division by zero
\* (the limits of block.go:258-323, on integers rounded down and on two
\* different bases).
TargetInRange == \A i \in DOMAIN filed : filed[i].target \in 1 .. MaxBaseTarget

\* A block that comes later never gets a smaller base target than one that
\* comes earlier would have got: the limits must not turn the order round
\* (block.go:254-268 and 292-316).
LaterIsEasier ==
    \A ts \in Time :
        Last(filed).ts < ts /\ ts + 1 \in Time =>
            BaseTarget(filed, ts) <= BaseTarget(filed, ts + 1)

\* A network whose blocks come exactly on time keeps its base target: neither
\* rounding nor the change from four blocks to a window makes it drift.
SteadyStaysSteady ==
    LET n == IF Len(filed) < AdjustHeight THEN 4 ELSE LargeWindow
        w == LastOf(filed, n)
        ts == w[1].ts + n * BlockTime
    IN  Len(filed) >= 4 /\ ts \in Time /\ (\A i \in 1 .. n : w[i].target = w[n].target) =>
            BaseTarget(filed, ts) = w[n].target

\* Every block filed makes the chain heavier, so that of two chains one of
\* which continues the other the longer one wins.
DifficultyGrows ==
    [][Len(filed') > Len(filed) => Last(filed').difficulty > Last(filed).difficulty]_vars

\* What was pre-validated was in time, in numbers that do not wrap: after its
\* predecessor, at most MaxTimestampDifference ahead of the clock, and with
\* transactions that are not older than their deadline and not younger than
\* the block.  The code computes the limits in uint32 (block.go:134,
\* transaction.go:220), where a wrapped limit must only ever reject.
InTime ==
    \A i \in DOMAIN queue :
        LET b == queue[i]
            before == Known[Len(filed) + i - 1]
        IN  /\ before.ts < b.ts /\ b.ts <= now + MaxTimestampDifference
            /\ \A k \in DOMAIN b.txs :
                /\ b.txs[k].ts <= b.ts + MaxTimestampDifference
                /\ b.ts <= b.txs[k].ts + Minute * b.txs[k].deadline

\* What a block says it moves covers what its transactions move, as long as
\* the sums fit in the signed totals (block.go:210-218).
TotalsCover ==
    \A i \in DOMAIN queue :
        LET b == queue[i]
            fits(x) == x < AmountRange \div 2
        IN  b.txs # <<>> /\ fits(AmountsOf(b.txs)) /\ fits(FeesOf(b.txs)) =>
                AmountsOf(b.txs) <= b.totalAmount /\ FeesOf(b.txs) <= b.totalFee

=============================================================================
