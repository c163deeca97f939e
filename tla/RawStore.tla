------------------------------- MODULE RawStore -------------------------------
(***************************************************************************)
(* pkg/store: the raw block store, the queue in front of it and the chain  *)
(* index behind it.                                                        *)
(*                                                                         *)
(* The raw store keeps one file per height.  Blocks arrive out of order    *)
(* (every range of the chain is downloaded on its own), so they are first  *)
(* committed to a queue on disk; when the block that follows the current   *)
(* one arrives, the queue is consumed: each block is validated against the *)
(* cache of its predecessors, indexed in the chain store, written to its   *)
(* file and deleted from the queue.  Files, queue and index are three      *)
(* stores with no common transaction, and the process may die between any  *)
(* two writes.  An operator may ask for a rebuild of the index at any      *)
(* time; it runs beside the writer and takes no lock.                      *)
(*                                                                         *)
(* Abstractions.  A block is the pair of its height and an element of      *)
(* Block (which of the blocks known for that height it is); a file of zero *)
(* bytes parses as EmptyBlock.  The cache keeps heights only.  A badger    *)
(* transaction is atomic and durable when committed; a transaction of the  *)
(* queue may be committed early, when it has grown too big.                *)
(***************************************************************************)
EXTENDS Integers, Sequences, FiniteSets

CONSTANTS
    Block,        \* the blocks peers may serve for a height
    GenesisBlock, \* the block of the first milestone
    EmptyBlock,   \* what a file of zero bytes parses to
    NoBlock,      \* no file, no key
    MaxHeight,    \* bound: the highest height the model reaches
    MaxBatch,     \* bound: blocks handed over by one call
    CacheSize,    \* 24 in the code
    StrayFiles    \* heights above genesis with a file of an earlier run

ASSUME BlockAssumption ==
    /\ NoBlock \notin Block \cup {GenesisBlock, EmptyBlock}
    /\ EmptyBlock \notin Block \cup {GenesisBlock}
    /\ GenesisBlock \notin Block
    /\ Block # {}

ASSUME BoundAssumption ==
    /\ MaxHeight \in Nat \ {0}
    /\ MaxBatch \in Nat \ {0}
    /\ CacheSize \in Nat \ {0}
    /\ StrayFiles \subseteq 1..MaxHeight

VARIABLES
    files,    \* on disk: the file of each height
    queue,    \* on disk: committed keys of raw.queue
    chain,    \* on disk: the chain index, height -> block
    ids,      \* on disk: the id keys of the chain index
    pc,       \* what the holder of the store's lock does next
    current,  \* rawStore.Current
    cache,    \* heights in rawStore.blockCache
    batch,    \* blocks StoreAndMaybeConsume has still to queue
    txn,      \* writes of the open queue transaction
    deleted,  \* deletes of the open queue transaction
    ready,    \* readyToConsume
    at,       \* height consume works on
    rebuild   \* the iterator of a running ChainStore.Rebuild

disk  == <<files, queue, chain, ids>>
mem   == <<current, cache, batch, txn, deleted, ready, at>>
vars  == <<disk, pc, mem, rebuild>>

Heights == 0..MaxHeight
Stored  == Block \cup {GenesisBlock, EmptyBlock}
NoRebuild == [next |-> -1, got |-> NoBlock]
Queued  == [height : 1..MaxHeight, block : Block]
Empty   == [h \in Heights |-> NoBlock]

PCs == {"down", "genesis", "writeGenesis", "idle", "enqueue", "get",
        "create", "write", "delete"}

TypeOK ==
    /\ files \in [Heights -> Stored \cup {NoBlock}]
    /\ queue \in [Heights -> Block \cup {NoBlock}]
    /\ chain \in [Heights -> Stored \cup {NoBlock}]
    /\ ids \subseteq Heights \X Stored
    /\ pc \in PCs
    /\ current \in [height : -1..MaxHeight, block : Stored \cup {NoBlock}]
    /\ cache \in Seq(Heights)
    /\ batch \in Seq(Queued)
    /\ txn \in [Heights -> Block \cup {NoBlock}]
    /\ deleted \subseteq Heights
    /\ ready \in BOOLEAN
    /\ at \in 0..MaxHeight + 1
    /\ rebuild \in [next : -1..MaxHeight + 1, got : Stored \cup {NoBlock}]

-----------------------------------------------------------------------------
\* The queue with the writes of a transaction committed.
Committed(q, t) == [h \in Heights |-> IF t[h] # NoBlock THEN t[h] ELSE q[h]]

\* The queue with the deletes of a transaction committed.
Dropped(q, D) == [h \in Heights |-> IF h \in D THEN NoBlock ELSE q[h]]

\* What txn.Get sees: the committed queue less the deletes of its own.
View(h) == IF h \in Heights \ deleted THEN queue[h] ELSE NoBlock

\* MUTANT of CachePush: the oldest block is never dropped.
CachePush_Grows(c, h) == Append(c, h)

\* blockCache.store: append, dropping the oldest when the cache is full.
CachePush(c, h) ==
    IF Len(c) < CacheSize THEN Append(c, h) ELSE Append(Tail(c), h)

\* cacheLatestBlocks: what the cache is refilled with when Current is loaded.
CacheLatest(c) ==
    IF c >= CacheSize THEN [i \in 1..CacheSize |-> c - CacheSize + i - 1]
                      ELSE [i \in 1..c + 1 |-> i - 1]

\* NewRawStore has returned: the store is in use.
Loaded == pc \notin {"down", "genesis", "writeGenesis"}

\* A walk over the sorted files keeps those up to the first gap.
IsTop(t, f) ==
    /\ \A h \in 0..t : f[h] # NoBlock
    /\ t < MaxHeight => f[t + 1] = NoBlock

-----------------------------------------------------------------------------
\* An earlier run may have left files (and their index) behind.
Init ==
    /\ \E b \in Block :
          /\ files = [h \in Heights |-> IF h \in StrayFiles THEN b ELSE NoBlock]
          /\ ids = {<<h, b>> : h \in StrayFiles}
    /\ chain = files
    /\ queue = Empty
    /\ pc = "down"
    /\ current = [height |-> -1, block |-> NoBlock]
    /\ cache = <<>> /\ batch = <<>> /\ txn = Empty /\ deleted = {}
    /\ ready = FALSE /\ at = 0
    /\ rebuild = NoRebuild

\* MUTANT of Start: files above a gap are kept.
Start_KeepsOrphans(top) ==
    /\ pc = "down"
    /\ IsTop(top, files)
    /\ current' = [height |-> top,
                   block |-> IF top = -1 THEN NoBlock ELSE files[top]]
    /\ IF top = -1 THEN pc' = "genesis" /\ cache' = <<>>
                   ELSE pc' = "idle" /\ cache' = CacheLatest(top)
    /\ UNCHANGED <<disk, batch, txn, deleted, ready, at, rebuild>>

\* NewRawStore: remove orphans, then load the current block or go on to
\* create the genesis block.
Start(top) ==
    /\ pc = "down"
    /\ IsTop(top, files)
    /\ files' = [h \in Heights |-> IF h > top THEN NoBlock ELSE files[h]]
    /\ current' = [height |-> top,
                   block |-> IF top = -1 THEN NoBlock ELSE files[top]]
    /\ IF top = -1 THEN pc' = "genesis" /\ cache' = <<>>
                   ELSE pc' = "idle" /\ cache' = CacheLatest(top)
    /\ UNCHANGED <<queue, chain, ids, batch, txn, deleted, ready, at, rebuild>>

\* Store of the genesis block: the file is created ...
CreateGenesis ==
    /\ pc = "genesis"
    /\ pc' = "writeGenesis"
    /\ files' = [files EXCEPT ![0] = EmptyBlock]
    /\ UNCHANGED <<queue, chain, ids, mem, rebuild>>

\* ... and filled, and the cache gets its only block.
WriteGenesis ==
    /\ pc = "writeGenesis"
    /\ pc' = "idle"
    /\ files' = [files EXCEPT ![0] = GenesisBlock]
    /\ current' = [height |-> 0, block |-> GenesisBlock]
    /\ cache' = CacheLatest(0)
    /\ UNCHANGED <<queue, chain, ids, batch, txn, deleted, ready, at, rebuild>>

-----------------------------------------------------------------------------
\* StoreAndMaybeConsume takes the lock and opens the queue transaction.
StoreAndMaybeConsume(b) ==
    /\ pc = "idle"
    /\ pc' = "enqueue"
    /\ batch' = b
    /\ txn' = Empty
    /\ ready' = FALSE
    /\ UNCHANGED <<disk, current, cache, deleted, at, rebuild>>

\* MUTANT of SetNext: only the last block decides whether to consume.
SetNext_LastDecides(t) ==
    LET b == Head(batch)
    IN  /\ txn' = [t EXCEPT ![b.height] = b.block]
        /\ batch' = Tail(batch)
        /\ ready' = (b.height = current.height + 1)

\* The next block of the batch goes into the transaction t.
SetNext(t) ==
    LET b == Head(batch)
    IN  /\ txn' = [t EXCEPT ![b.height] = b.block]
        /\ batch' = Tail(batch)
        /\ ready' = (ready \/ b.height = current.height + 1)

\* txn.Set of the next block.
Enqueue ==
    /\ pc = "enqueue" /\ batch # <<>>
    /\ SetNext(txn)
    /\ UNCHANGED <<disk, pc, current, cache, deleted, at, rebuild>>

\* The same when the transaction is too big: it is committed, a new one opened.
EnqueueTooBig ==
    /\ pc = "enqueue" /\ batch # <<>>
    /\ txn # Empty
    /\ queue' = Committed(queue, txn)
    /\ SetNext(Empty)
    /\ UNCHANGED <<files, chain, ids, pc, current, cache, deleted, at, rebuild>>

\* MUTANT of EnqueueCommit: consume starts at the lowest queued height.
EnqueueCommit_FromLowest ==
    /\ pc = "enqueue" /\ batch = <<>>
    /\ queue' = Committed(queue, txn)
    /\ txn' = Empty
    /\ ready' = FALSE
    /\ IF ready
       THEN /\ pc' = "get"
            /\ at' = CHOOSE h \in Heights :
                        queue'[h] # NoBlock /\ \A g \in 0..h - 1 : queue'[g] = NoBlock
       ELSE pc' = "idle" /\ UNCHANGED at
    /\ UNCHANGED <<files, chain, ids, current, cache, batch, deleted, rebuild>>

\* The last commit of store, and the decision to consume.
EnqueueCommit ==
    /\ pc = "enqueue" /\ batch = <<>>
    /\ queue' = Committed(queue, txn)
    /\ txn' = Empty
    /\ ready' = FALSE
    /\ IF ready THEN pc' = "get" /\ at' = current.height + 1
                ELSE pc' = "idle" /\ UNCHANGED at
    /\ UNCHANGED <<files, chain, ids, current, cache, batch, deleted, rebuild>>

\* MUTANT of Index: the id key is not written.
Index_NoId ==
    /\ pc = "get" /\ View(at) # NoBlock
    /\ pc' = "create"
    /\ chain' = [chain EXCEPT ![at] = View(at)]
    /\ cache' = CachePush(cache, at)
    /\ UNCHANGED <<files, queue, ids, current, batch, txn, deleted, ready, at,
                   rebuild>>

\* consume finds the next block: validate it, index it, cache it.
Index ==
    /\ pc = "get" /\ View(at) # NoBlock
    /\ pc' = "create"
    /\ chain' = [chain EXCEPT ![at] = View(at)]
    /\ ids' = ids \cup {<<at, View(at)>>}
    /\ cache' = CachePush(cache, at)
    /\ UNCHANGED <<files, queue, current, batch, txn, deleted, ready, at, rebuild>>

\* WriteFile creates (or truncates) the file ...
CreateFile ==
    /\ pc = "create"
    /\ pc' = "write"
    /\ files' = [files EXCEPT ![at] = EmptyBlock]
    /\ UNCHANGED <<queue, chain, ids, mem, rebuild>>

\* ... and fills it, or fails to: the error is dropped and Current moves on.
WriteFile(written) ==
    /\ pc = "write"
    /\ pc' = "delete"
    /\ files' = [files EXCEPT ![at] = written]
    /\ current' = [height |-> at, block |-> View(at)]
    /\ UNCHANGED <<queue, chain, ids, cache, batch, txn, deleted, ready, at,
                   rebuild>>

\* txn.Delete of the consumed block ...
Delete ==
    /\ pc = "delete"
    /\ pc' = "get"
    /\ deleted' = deleted \cup {at}
    /\ at' = at + 1
    /\ UNCHANGED <<disk, current, cache, batch, txn, ready, rebuild>>

\* MUTANT of DeleteTooBig: the next block's key is deleted as well.
DeleteTooBig_OneMore ==
    /\ pc = "delete" /\ deleted # {}
    /\ pc' = "get"
    /\ queue' = Dropped(queue, deleted \cup {at + 1})
    /\ deleted' = {at}
    /\ at' = at + 1
    /\ UNCHANGED <<files, chain, ids, current, cache, batch, txn, ready, rebuild>>

\* ... which may first have to commit the deletes made so far.
DeleteTooBig ==
    /\ pc = "delete" /\ deleted # {}
    /\ pc' = "get"
    /\ queue' = Dropped(queue, deleted)
    /\ deleted' = {at}
    /\ at' = at + 1
    /\ UNCHANGED <<files, chain, ids, current, cache, batch, txn, ready, rebuild>>

\* consume meets a missing block: commit the deletes and unlock.
EndConsume ==
    /\ pc = "get" /\ View(at) = NoBlock
    /\ pc' = "idle"
    /\ queue' = Dropped(queue, deleted)
    /\ deleted' = {}
    /\ at' = 0
    /\ UNCHANGED <<files, chain, ids, current, cache, batch, txn, ready, rebuild>>

-----------------------------------------------------------------------------
\* ChainStore.Rebuild, from the shell's goroutine, once the store is loaded.
StartRebuild ==
    /\ Loaded
    /\ rebuild = NoRebuild
    /\ rebuild' = [next |-> 0, got |-> NoBlock]
    /\ UNCHANGED <<disk, pc, mem>>

\* rit.Next() reads the next file; the iteration ends where there is none.
RebuildRead ==
    /\ rebuild # NoRebuild /\ rebuild.got = NoBlock
    /\ rebuild' = IF rebuild.next \in Heights /\ files[rebuild.next] # NoBlock
                  THEN [rebuild EXCEPT !.got = files[rebuild.next]]
                  ELSE NoRebuild
    /\ UNCHANGED <<disk, pc, mem>>

\* MUTANT of RebuildStore: the iterator moves on two heights.
RebuildStore_Skips ==
    /\ rebuild.got # NoBlock
    /\ chain' = [chain EXCEPT ![rebuild.next] = rebuild.got]
    /\ ids' = ids \cup {<<rebuild.next, rebuild.got>>}
    /\ rebuild' = [next |-> rebuild.next + 2, got |-> NoBlock]
    /\ UNCHANGED <<files, queue, pc, mem>>

\* ... and its block is stored in the index.
RebuildStore ==
    /\ rebuild.got # NoBlock
    /\ chain' = [chain EXCEPT ![rebuild.next] = rebuild.got]
    /\ ids' = ids \cup {<<rebuild.next, rebuild.got>>}
    /\ rebuild' = [next |-> rebuild.next + 1, got |-> NoBlock]
    /\ UNCHANGED <<files, queue, pc, mem>>

-----------------------------------------------------------------------------
(* The look-ups of the server: each is one read transaction of the index *)

\* MUTANT of BulkThaw: the answer begins with the block that was asked for.
BulkThaw_FromItself(h, limit) ==
    LET n == CHOOSE n \in 0..limit :
                /\ \A i \in 1..n : h + i <= MaxHeight /\ chain[h + i] # NoBlock
                /\ n < limit => h + n >= MaxHeight \/ chain[h + n + 1] = NoBlock
    IN  [i \in 1..n |-> chain[h + i - 1]]

\* BulkThaw: what the index holds behind height h without a gap, up to a limit.
BulkThaw(h, limit) ==
    LET n == CHOOSE n \in 0..limit :
                /\ \A i \in 1..n : h + i <= MaxHeight /\ chain[h + i] # NoBlock
                /\ n < limit => h + n >= MaxHeight \/ chain[h + n + 1] = NoBlock
    IN  [i \in 1..n |-> chain[h + i]]

\* getNextBlockIds and getNextBlocks with the id of block b at height h: the id
\* leads to a height, and the height to a block; nothing is found without both.
FindBlocksAfter(h, b, limit) ==
    IF <<h, b>> \in ids /\ chain[h] # NoBlock THEN BulkThaw(h, limit) ELSE <<>>

-----------------------------------------------------------------------------
\* The process dies (a crash, a panic, the shell's "shutdown").
Crash ==
    /\ pc # "down"
    /\ pc' = "down"
    /\ current' = [height |-> -1, block |-> NoBlock]
    /\ cache' = <<>> /\ batch' = <<>> /\ txn' = Empty /\ deleted' = {}
    /\ ready' = FALSE /\ at' = 0
    /\ rebuild' = NoRebuild
    /\ UNCHANGED disk

-----------------------------------------------------------------------------
\* What the synchronizer hands over: n blocks with consecutive heights.
BatchesOf(n) ==
    {[i \in 1..n |-> [height |-> lo + i - 1, block |-> f[i]]] :
        lo \in 1..MaxHeight - n + 1, f \in [1..n -> Block]}

Batches == UNION {BatchesOf(n) : n \in 1..MaxBatch}

Boot == (\E top \in -1..MaxHeight : Start(top)) \/ CreateGenesis \/ WriteGenesis

Writer ==
    \/ Enqueue \/ EnqueueTooBig \/ EnqueueCommit
    \/ Index \/ CreateFile \/ WriteFile(View(at))
    \/ Delete \/ DeleteTooBig \/ EndConsume

Submit == \E b \in Batches : StoreAndMaybeConsume(b)

Rebuild == StartRebuild \/ RebuildRead \/ RebuildStore

\* The store alone; dying at any point; with the disk full as well; with the
\* shell's rebuild while blocks are consumed; dying, and with a rebuild only while
\* none are; and all of it together.
NextRunning == Boot \/ Submit \/ Writer
NextCrash   == NextRunning \/ Crash
NextFull    == NextCrash \/ WriteFile(EmptyBlock)
NextShell   == NextRunning \/ Rebuild
NextQuiet   ==
    \/ Boot \/ Writer \/ Crash
    \/ rebuild = NoRebuild /\ Submit
    \/ pc = "idle" /\ Rebuild
Next        == NextFull \/ Rebuild

SpecRunning == Init /\ [][NextRunning]_vars
                    /\ WF_vars(Boot) /\ WF_vars(Writer)
SpecCrash   == Init /\ [][NextCrash]_vars
SpecFull    == Init /\ [][NextFull]_vars
SpecShell   == Init /\ [][NextShell]_vars
SpecQuiet   == Init /\ [][NextQuiet]_vars
Spec        == Init /\ [][Next]_vars
-----------------------------------------------------------------------------
(* Properties *)

\* A running store has a file for every height up to Current and, but for the
\* one being written, none above: Store writes and consume advances in step,
\* and a restart removes what an interrupted run left above a gap.
FilesContiguous ==
    Loaded => \A h \in Heights :
                /\ h <= current.height => files[h] # NoBlock
                /\ h > current.height /\ files[h] # NoBlock
                       => pc = "write" /\ h = current.height + 1

\* A filed block can be found: consume indexes a block before it writes the
\* file, so whenever the process dies the index holds, by height and by id,
\* every block a restart will take for stored.
FiledIsIndexed ==
    \A h \in Heights : files[h] \in Block =>
        chain[h] = files[h] /\ <<h, files[h]>> \in ids

\* A peer that asks for what follows a filed block gets, up to the limit, the
\* filed blocks that do, in order and up to Current at least: the two keys a
\* block is indexed with and the file of each height agree, though the server
\* reads the index without the store's lock and after any death.
AnswersFollow ==
    Loaded => \A h \in 1..current.height, limit \in 1..MaxHeight :
        files[h] \in Block =>
            LET answer == FindBlocksAfter(h, files[h], limit)
            IN  \A i \in 1..limit :
                   h + i <= current.height =>
                      /\ i <= Len(answer)
                      /\ files[h + i] \in Block => answer[i] = files[h + i]

\* Once unlocked, the queue does not hold the block the chain waits for:
\* consume ran when that block arrived and stopped at a gap only.
IdleDrained ==
    pc = "idle" /\ current.height < MaxHeight => queue[current.height + 1] = NoBlock

\* Blocks a validation of height h may need: up to CacheSize before h.
Predecessors(h) ==
    LET n == IF h < CacheSize THEN h ELSE CacheSize
    IN  [i \in 1..n |-> h - n + i - 1]

\* Validate is given the direct predecessors of the block (the base target is
\* computed from the last 4 or the last 24 of them).
CacheIsPredecessors ==
    pc = "get" /\ View(at) # NoBlock => cache = Predecessors(at)

\* A rebuild derives the index from the raw storage: when it is through, what
\* the index holds for a height up to Current is the block in its file.
RebuildRestores ==
    [][rebuild # NoRebuild /\ rebuild' = NoRebuild /\ pc' # "down"
         => \A h \in 0..current.height : chain[h] = files[h]]_vars

\* A block leaves the queue only after its file holds it, so a death of the
\* process loses no block that was accepted.
LeavesQueueWhenFiled ==
    [][\A h \in Heights : queue[h] # NoBlock /\ queue'[h] = NoBlock
                             => files[h] = queue[h]]_vars

\* The chain is append-only: what a file up to the first gap holds is neither
\* replaced nor removed, by later batches for the same height or by a restart.
InPrefix(h) == \A g \in 0..h : files[g] # NoBlock
AppendOnly ==
    [][\A h \in Heights : InPrefix(h) /\ files[h] # EmptyBlock
                             => files'[h] = files[h]]_vars

\* Without crashes every block the chain waits for is consumed once queued.
NextIsConsumed ==
    \A h \in 1..MaxHeight :
        (Loaded /\ current.height = h - 1 /\ queue[h] # NoBlock)
            ~> (current.height >= h)

-----------------------------------------------------------------------------
(* Refinement *)

\* The blocks of the files up to the first gap, but for one being written.
Log ==
    LET kept == {h \in Heights : InPrefix(h) /\
                                 ~(pc \in {"write", "writeGenesis"} /\ h = at)}
    IN  [i \in 1..Cardinality(kept) |-> files[i - 1]]

\* The raw store is a durable log fed by a set of pending blocks.
BlockLogSpec == INSTANCE BlockLog WITH log <- Log, pending <- queue
ImplementsBlockLog == BlockLogSpec!Spec
=============================================================================
