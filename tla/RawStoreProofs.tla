---------------------------- MODULE RawStoreProofs ----------------------------
(***************************************************************************)
(* Proofs about RawStore, for every set of blocks, height bound and cache  *)
(* size.                                                                   *)
(***************************************************************************)
EXTENDS RawStore, FiniteSetTheorems, SequenceTheorems, TLAPS

\* Where the writer stands relative to Current, and what that says of the file
\* it works on.
WriterInv ==
    /\ Loaded => current.height \in Heights
    /\ pc = "genesis" => \A h \in Heights : files[h] = NoBlock
    /\ pc = "writeGenesis" =>
          /\ \A h \in Heights : h # 0 => files[h] = NoBlock
          /\ files[0] = EmptyBlock
    /\ pc \in {"get", "create", "write"} => at = current.height + 1
    /\ pc \in {"create", "write"} => at \in Heights /\ View(at) # NoBlock
    /\ pc = "create" => files[at] = NoBlock
    /\ pc = "write" => files[at] = EmptyBlock
    /\ pc = "delete" => at = current.height

\* The rebuild has read a block only at a height that exists.
RebuildInv == rebuild.got # NoBlock => rebuild.next \in Heights

IInv == TypeOK /\ FilesContiguous /\ WriterInv /\ RebuildInv

-----------------------------------------------------------------------------
(* Lemmas on the operators *)

\* Pushing a height keeps the cache a sequence of heights.
LEMMA CachePushType ==
    ASSUME NEW c \in Seq(Heights), NEW h \in Heights
    PROVE  CachePush(c, h) \in Seq(Heights)
<1>1. CASE Len(c) < CacheSize
  BY <1>1 DEF CachePush
<1>2. CASE ~(Len(c) < CacheSize)
  <2>1. c # <<>>
    BY <1>2, BoundAssumption
  <2>2. Tail(c) \in Seq(Heights)
    BY <2>1
  <2> QED
    BY <1>2, <2>2 DEF CachePush
<1> QED
  BY <1>1, <1>2

\* Refilling the cache from the files gives a sequence of heights.
LEMMA CacheLatestType ==
    ASSUME NEW c \in Heights
    PROVE  CacheLatest(c) \in Seq(Heights)
<1>1. CASE c >= CacheSize
  <2>1. [i \in 1..CacheSize |-> c - CacheSize + i - 1] \in [1..CacheSize -> Heights]
    BY <1>1, BoundAssumption DEF Heights
  <2> QED
    BY <1>1, <2>1, BoundAssumption DEF CacheLatest
<1>2. CASE ~(c >= CacheSize)
  <2>1. [i \in 1..c + 1 |-> i - 1] \in [1..c + 1 -> Heights]
    BY BoundAssumption DEF Heights
  <2>2. c + 1 \in Nat
    BY BoundAssumption DEF Heights
  <2> QED
    BY <1>2, <2>1, <2>2 DEF CacheLatest
<1> QED
  BY <1>1, <1>2

\* A batch is a sequence of queued blocks.
LEMMA BatchType == \A b \in Batches : b \in Seq(Queued)
<1> SUFFICES ASSUME NEW b \in Batches PROVE b \in Seq(Queued)
  OBVIOUS
<1>1. PICK n \in 1..MaxBatch : b \in BatchesOf(n)
  BY DEF Batches
<1>2. PICK lo \in 1..MaxHeight - n + 1, f \in [1..n -> Block] :
          b = [i \in 1..n |-> [height |-> lo + i - 1, block |-> f[i]]]
  BY <1>1 DEF BatchesOf
<1>3. \A i \in 1..n : lo + i - 1 \in 1..MaxHeight /\ f[i] \in Block
  BY <1>2, BoundAssumption
<1>4. b \in [1..n -> Queued]
  BY <1>2, <1>3 DEF Queued
<1> QED
  BY <1>4, BoundAssumption

-----------------------------------------------------------------------------
(* The inductive invariant *)

LEMMA InitInv == Init => IInv
<1> SUFFICES ASSUME Init PROVE IInv
  OBVIOUS
<1>1. PICK b \in Block :
        /\ files = [h \in Heights |-> IF h \in StrayFiles THEN b ELSE NoBlock]
        /\ ids = {<<h, b>> : h \in StrayFiles}
  BY DEF Init
<1>2. ids \subseteq Heights \X Stored
  BY <1>1, BoundAssumption DEF Heights, Stored
<1>3. TypeOK
  BY <1>1, <1>2, BoundAssumption, SMTT(20)
  DEF Init, TypeOK, Heights, Stored, PCs, Empty, NoRebuild
<1> QED
  BY <1>3 DEF Init, IInv, FilesContiguous, WriterInv, RebuildInv, Loaded, NoRebuild

LEMMA StepInv == IInv /\ [Next]_vars => IInv'
<1> SUFFICES ASSUME IInv, [Next]_vars PROVE IInv'
  OBVIOUS
<1> USE BlockAssumption, BoundAssumption DEF IInv, Heights, Loaded
<1>1. ASSUME NEW top \in -1..MaxHeight, Start(top) PROVE IInv'
  <2>1. cache' \in Seq(Heights)
    <3>1. CASE top = -1
      BY <1>1, <3>1 DEF Start
    <3>2. CASE top # -1
      <4>1. top \in Heights
        BY <3>2
      <4> QED
        BY <1>1, <3>2, <4>1, CacheLatestType DEF Start
    <3> QED
      BY <3>1, <3>2
  <2>2. files' \in [Heights -> Stored \cup {NoBlock}]
    BY <1>1 DEF Start, TypeOK
  <2>5. current' \in [height : -1..MaxHeight, block : Stored \cup {NoBlock}]
    <3>1. top # -1 => files[top] \in Stored \cup {NoBlock}
      BY DEF TypeOK
    <3> QED
      BY <1>1, <3>1 DEF Start
  <2>6. pc' \in PCs
    BY <1>1 DEF Start, PCs
  <2>7. TypeOK'
    BY <1>1, <2>1, <2>2, <2>5, <2>6 DEF Start, TypeOK
  <2>3. FilesContiguous'
    BY <1>1 DEF Start, FilesContiguous, IsTop, TypeOK
  <2>4. WriterInv'
    BY <1>1 DEF Start, WriterInv, IsTop, TypeOK
  <2> QED
    BY <1>1, <2>3, <2>4, <2>7 DEF Start, RebuildInv
<1>2. CASE CreateGenesis
  <2>1. TypeOK'
    BY <1>2 DEF CreateGenesis, TypeOK, PCs, Stored, mem
  <2> QED
    BY <1>2, <2>1 DEF CreateGenesis, TypeOK, FilesContiguous, WriterInv, RebuildInv, mem
<1>3. CASE WriteGenesis
  <2>1. cache' \in Seq(Heights)
    BY <1>3, CacheLatestType DEF WriteGenesis
  <2>2. TypeOK'
    BY <1>3, <2>1 DEF WriteGenesis, TypeOK, PCs, Stored
  <2> QED
    BY <1>3, <2>2 DEF WriteGenesis, TypeOK, FilesContiguous, WriterInv, RebuildInv, Stored
<1>4. ASSUME NEW b \in Batches, StoreAndMaybeConsume(b) PROVE IInv'
  <2>1. b \in Seq(Queued)
    BY BatchType
  <2>2. TypeOK'
    BY <1>4, <2>1 DEF StoreAndMaybeConsume, TypeOK, PCs, Empty, disk
  <2> QED
    BY <1>4, <2>2
    DEF StoreAndMaybeConsume, FilesContiguous, WriterInv, RebuildInv, disk
<1>5. CASE Enqueue
  <2>1. Head(batch) \in Queued /\ Tail(batch) \in Seq(Queued)
    BY <1>5 DEF Enqueue, TypeOK
  <2>2. TypeOK'
    BY <1>5, <2>1 DEF Enqueue, SetNext, TypeOK, Queued, disk
  <2> QED
    BY <1>5, <2>2 DEF Enqueue, SetNext, FilesContiguous, WriterInv, RebuildInv, disk
<1>6. CASE EnqueueTooBig
  <2>1. Head(batch) \in Queued /\ Tail(batch) \in Seq(Queued)
    BY <1>6 DEF EnqueueTooBig, TypeOK
  <2>2. TypeOK'
    BY <1>6, <2>1 DEF EnqueueTooBig, SetNext, TypeOK, Queued, Empty, Committed
  <2> QED
    BY <1>6, <2>2 DEF EnqueueTooBig, SetNext, FilesContiguous, WriterInv, RebuildInv
<1>7. CASE EnqueueCommit
  <2>1. TypeOK'
    <3>1. queue' \in [Heights -> Block \cup {NoBlock}]
      BY <1>7 DEF EnqueueCommit, TypeOK, Committed
    <3>2. pc' \in PCs /\ at' \in 0..MaxHeight + 1
      BY <1>7 DEF EnqueueCommit, TypeOK, PCs, WriterInv
    <3>3. txn' \in [Heights -> Block \cup {NoBlock}]
      BY <1>7 DEF EnqueueCommit, Empty
    <3> QED
      BY <1>7, <3>1, <3>2, <3>3 DEF EnqueueCommit, TypeOK
  <2> QED
    BY <1>7, <2>1 DEF EnqueueCommit, FilesContiguous, WriterInv, RebuildInv
<1>8. CASE Index
  <2>1. at \in Heights /\ View(at) \in Block
    BY <1>8 DEF Index, View, TypeOK
  <2>2. cache' \in Seq(Heights)
    BY <1>8, <2>1, CachePushType DEF Index, TypeOK
  <2>3. TypeOK'
    BY <1>8, <2>1, <2>2 DEF Index, TypeOK, PCs, Stored
  <2> QED
    BY <1>8, <2>1, <2>3 DEF Index, FilesContiguous, WriterInv, RebuildInv, View, TypeOK
<1>9. CASE CreateFile
  <2>1. TypeOK'
    BY <1>9 DEF CreateFile, TypeOK, PCs, Stored, mem
  <2> QED
    BY <1>9, <2>1
    DEF CreateFile, FilesContiguous, WriterInv, RebuildInv, View, TypeOK, mem
<1>10. ASSUME NEW w \in {View(at), EmptyBlock}, WriteFile(w) PROVE IInv'
  <2>1. at \in Heights /\ View(at) \in Block
    BY <1>10 DEF WriteFile, WriterInv, View, TypeOK
  <2>2. TypeOK'
    BY <1>10, <2>1 DEF WriteFile, TypeOK, PCs, Stored
  <2> QED
    BY <1>10, <2>1, <2>2
    DEF WriteFile, FilesContiguous, WriterInv, RebuildInv, TypeOK
<1>11. CASE Delete
  <2>1. TypeOK'
    BY <1>11 DEF Delete, TypeOK, PCs, WriterInv, disk
  <2> QED
    BY <1>11, <2>1 DEF Delete, FilesContiguous, WriterInv, RebuildInv, disk
<1>12. CASE DeleteTooBig
  <2>1. TypeOK'
    BY <1>12 DEF DeleteTooBig, TypeOK, PCs, WriterInv, Dropped
  <2> QED
    BY <1>12, <2>1 DEF DeleteTooBig, FilesContiguous, WriterInv, RebuildInv
<1>13. CASE EndConsume
  <2>1. TypeOK'
    BY <1>13 DEF EndConsume, TypeOK, PCs, Dropped
  <2> QED
    BY <1>13, <2>1 DEF EndConsume, FilesContiguous, WriterInv, RebuildInv
<1>14. CASE StartRebuild
  <2>1. TypeOK'
    BY <1>14 DEF StartRebuild, TypeOK, mem, disk
  <2> QED
    BY <1>14, <2>1
    DEF StartRebuild, FilesContiguous, WriterInv, RebuildInv, View, mem, disk
<1>15. CASE RebuildRead
  <2>1. /\ rebuild' \in [next : -1..MaxHeight + 1, got : Stored \cup {NoBlock}]
        /\ RebuildInv'
    <3>1. CASE rebuild.next \in Heights /\ files[rebuild.next] # NoBlock
      BY <1>15, <3>1 DEF RebuildRead, TypeOK, RebuildInv
    <3>2. CASE ~(rebuild.next \in Heights /\ files[rebuild.next] # NoBlock)
      BY <1>15, <3>2 DEF RebuildRead, RebuildInv, NoRebuild
    <3> QED
      BY <3>1, <3>2
  <2>2. TypeOK'
    BY <1>15, <2>1 DEF RebuildRead, TypeOK, mem, disk
  <2> QED
    BY <1>15, <2>1, <2>2
    DEF RebuildRead, FilesContiguous, WriterInv, View, mem, disk
<1>16. CASE RebuildStore
  <2>1. rebuild.next \in Heights /\ rebuild.got \in Stored
    BY <1>16 DEF RebuildStore, RebuildInv, TypeOK
  <2>2. TypeOK'
    BY <1>16, <2>1 DEF RebuildStore, TypeOK, mem
  <2> QED
    BY <1>16, <2>2
    DEF RebuildStore, FilesContiguous, WriterInv, RebuildInv, View, mem
<1>17. CASE Crash
  <2>1. TypeOK'
    <3>1. rebuild' \in [next : -1..MaxHeight + 1, got : Stored \cup {NoBlock}]
      BY <1>17 DEF Crash, NoRebuild
    <3>2. current' \in [height : -1..MaxHeight, block : Stored \cup {NoBlock}]
      BY <1>17 DEF Crash
    <3>3. cache' \in Seq(Heights) /\ batch' \in Seq(Queued)
      BY <1>17 DEF Crash
    <3>4. files' = files /\ queue' = queue /\ chain' = chain /\ ids' = ids
      BY <1>17 DEF Crash, disk
    <3>5. /\ txn' \in [Heights -> Block \cup {NoBlock}] /\ deleted' \subseteq Heights
          /\ ready' \in BOOLEAN /\ at' \in 0..MaxHeight + 1 /\ pc' \in PCs
      BY <1>17 DEF Crash, Empty, PCs
    <3> QED
      BY <3>1, <3>2, <3>3, <3>4, <3>5 DEF TypeOK
  <2> QED
    BY <1>17, <2>1
    DEF Crash, FilesContiguous, WriterInv, RebuildInv, NoRebuild, disk
<1>18. CASE UNCHANGED vars
  BY <1>18
  DEF vars, disk, mem, TypeOK, FilesContiguous, WriterInv, RebuildInv, View
<1> QED
  BY <1>1, <1>2, <1>3, <1>4, <1>5, <1>6, <1>7, <1>8, <1>9, <1>10, <1>11, <1>12,
     <1>13, <1>14, <1>15, <1>16, <1>17, <1>18
  DEF Next, NextFull, NextCrash, NextRunning, Boot, Submit, Writer, Rebuild

\* Every state of every variant of the store satisfies the invariant.
THEOREM Invariant == Spec => []IInv
<1> QED
  BY InitInv, StepInv, PTL DEF Spec

\* All variables keep their types: above all, no height leaves its range, even
\* when the process dies, the disk is full and the index is being rebuilt.
THEOREM TypeCorrect == Spec => []TypeOK
<1>1. IInv => TypeOK
  BY DEF IInv
<1> QED
  BY Invariant, <1>1, PTL

\* There is a file for exactly the heights up to Current, but for the one being
\* written: no crash, failed write, rebuild or batch opens a gap in the files.
THEOREM Contiguous == Spec => []FilesContiguous
<1>1. IInv => FilesContiguous
  BY DEF IInv
<1> QED
  BY Invariant, <1>1, PTL

-----------------------------------------------------------------------------
(* The store that may die at any point, with a disk that takes its writes *)

\* What is known of the block the writer works on, and of those whose deletion
\* from the queue is not yet committed.
OrderInv ==
    /\ FiledIsIndexed
    /\ rebuild = NoRebuild
    /\ pc \in {"create", "write", "delete"} =>
          chain[at] = View(at) /\ <<at, View(at)>> \in ids
    /\ pc = "delete" => files[at] = View(at) /\ View(at) # NoBlock
    /\ pc \notin {"get", "create", "write", "delete"} => deleted = {}
    /\ \A h \in deleted : h < at /\ files[h] = queue[h]
    /\ \A h \in Heights \ {0} : files[h] # NoBlock => chain[h] # NoBlock

CInv == IInv /\ OrderInv

LEMMA InitOrder == Init => CInv
<1> SUFFICES ASSUME Init PROVE CInv
  OBVIOUS
<1>1. PICK b \in Block :
        /\ files = [h \in Heights |-> IF h \in StrayFiles THEN b ELSE NoBlock]
        /\ ids = {<<h, b>> : h \in StrayFiles}
  BY DEF Init
<1>2. FiledIsIndexed
  BY <1>1, BlockAssumption DEF Init, FiledIsIndexed
<1> QED
  BY <1>2, InitInv DEF Init, CInv, OrderInv

LEMMA StepOrder == CInv /\ [NextCrash]_vars => CInv'
<1> SUFFICES ASSUME CInv, [NextCrash]_vars PROVE CInv'
  OBVIOUS
<1> USE BlockAssumption, BoundAssumption DEF CInv, Heights, Loaded
<1>0. IInv /\ IInv'
  BY StepInv DEF Next, NextFull
<1>00. TypeOK /\ WriterInv /\ FilesContiguous
  BY <1>0 DEF IInv
<1> SUFFICES OrderInv'
  BY <1>0
<1>1. ASSUME NEW top \in -1..MaxHeight, Start(top) PROVE OrderInv'
  <2>1. FiledIsIndexed'
    BY <1>1, <1>00 DEF Start, OrderInv, FiledIsIndexed, TypeOK
  <2>2. pc' \in {"genesis", "idle"} /\ deleted' = {} /\ rebuild' = NoRebuild
    BY <1>1 DEF Start, OrderInv
  <2>3. (\A h \in Heights \ {0} : files[h] # NoBlock => chain[h] # NoBlock)'
    BY <1>1, <1>00 DEF Start, OrderInv, TypeOK
  <2> QED
    BY <2>1, <2>2, <2>3 DEF OrderInv
<1>2. CASE CreateGenesis
  BY <1>2, <1>00 DEF CreateGenesis, OrderInv, FiledIsIndexed, View, TypeOK, mem
<1>3. CASE WriteGenesis
  BY <1>3, <1>00 DEF WriteGenesis, OrderInv, FiledIsIndexed, View, TypeOK
<1>4. ASSUME NEW b \in Batches, StoreAndMaybeConsume(b) PROVE OrderInv'
  BY <1>4, <1>00 DEF StoreAndMaybeConsume, OrderInv, FiledIsIndexed, View, disk
<1>5. CASE Enqueue
  BY <1>5, <1>00 DEF Enqueue, SetNext, OrderInv, FiledIsIndexed, View, disk
<1>6. CASE EnqueueTooBig
  BY <1>6, <1>00 DEF EnqueueTooBig, SetNext, OrderInv, FiledIsIndexed, View
<1>7. CASE EnqueueCommit
  BY <1>7, <1>00 DEF EnqueueCommit, OrderInv, FiledIsIndexed, View
<1>8. CASE Index
  <2>1. at \in Heights /\ files[at] = NoBlock
    BY <1>8, <1>00 DEF Index, View, WriterInv, FilesContiguous
  <2>2. FiledIsIndexed'
    BY <1>8, <2>1, <1>00 DEF Index, OrderInv, FiledIsIndexed, TypeOK
  <2> QED
    BY <1>8, <2>1, <2>2, <1>00 DEF Index, OrderInv, View, TypeOK
<1>9. CASE CreateFile
  <2>1. \A h \in deleted : h # at
    BY <1>00 DEF OrderInv, TypeOK
  <2> QED
    BY <1>9, <2>1, <1>00
    DEF CreateFile, OrderInv, FiledIsIndexed, View, TypeOK, WriterInv, mem
<1>10. CASE WriteFile(View(at))
  <2>1. at \in Heights /\ View(at) \in Block
    BY <1>10, <1>00 DEF WriteFile, WriterInv, View, TypeOK
  <2>2. FiledIsIndexed'
    BY <1>10, <2>1, <1>00 DEF WriteFile, OrderInv, FiledIsIndexed, TypeOK
  <2>3. \A h \in deleted : h # at
    BY <1>00 DEF OrderInv, TypeOK
  <2> QED
    BY <1>10, <2>1, <2>2, <2>3, <1>00 DEF WriteFile, OrderInv, View, TypeOK
<1>11. CASE Delete
  BY <1>11, <1>00 DEF Delete, OrderInv, FiledIsIndexed, View, TypeOK, WriterInv, disk
<1>12. CASE DeleteTooBig
  BY <1>12, <1>00
  DEF DeleteTooBig, Dropped, OrderInv, FiledIsIndexed, View, TypeOK, WriterInv
<1>13. CASE EndConsume
  BY <1>13, <1>00 DEF EndConsume, OrderInv, FiledIsIndexed, View
<1>14. CASE Crash
  BY <1>14, <1>00 DEF Crash, OrderInv, FiledIsIndexed, View, disk
<1>15. CASE UNCHANGED vars
  BY <1>15 DEF vars, disk, mem, OrderInv, FiledIsIndexed, View
<1> QED
  BY <1>1, <1>2, <1>3, <1>4, <1>5, <1>6, <1>7, <1>8, <1>9, <1>10, <1>11, <1>12,
     <1>13, <1>14, <1>15
  DEF NextCrash, NextRunning, Boot, Submit, Writer

LEMMA OrderInvariant == SpecCrash => []CInv
<1> QED
  BY InitOrder, StepOrder, PTL DEF SpecCrash

\* Whenever the process dies, the index holds every block a restart will take
\* for stored, under its height and under its id.
THEOREM Indexed == SpecCrash => []FiledIsIndexed
<1>1. CInv => FiledIsIndexed
  BY DEF CInv, OrderInv
<1> QED
  BY OrderInvariant, <1>1, PTL

\* No accepted block is lost to a crash: it leaves the queue only after its file
\* holds it.
THEOREM NoBlockLost == SpecCrash => LeavesQueueWhenFiled
<1>1. CInv /\ [NextCrash]_vars =>
        [\A h \in Heights : queue[h] # NoBlock /\ queue'[h] = NoBlock
                               => files[h] = queue[h]]_vars
  <2> SUFFICES ASSUME CInv, NextCrash, NEW h \in Heights,
                      queue[h] # NoBlock, queue'[h] = NoBlock
               PROVE  files[h] = queue[h]
    OBVIOUS
  <2>1. CASE EnqueueTooBig \/ EnqueueCommit
    BY <2>1 DEF EnqueueTooBig, EnqueueCommit, Committed
  <2>2. CASE DeleteTooBig \/ EndConsume
    BY <2>2 DEF DeleteTooBig, EndConsume, Dropped, CInv, OrderInv
  <2>3. CASE queue' = queue
    BY <2>3
  <2> QED
    BY <2>1, <2>2, <2>3
    DEF NextCrash, NextRunning, Boot, Submit, Writer, Start, CreateGenesis,
        WriteGenesis, StoreAndMaybeConsume, Enqueue, Index, CreateFile, WriteFile,
        Delete, Crash, disk
<1> QED
  BY OrderInvariant, <1>1, PTL DEF SpecCrash, LeavesQueueWhenFiled

\* The chain is append-only: neither a later batch for a known height nor a
\* restart replaces or removes a stored block.
THEOREM ChainAppendOnly == SpecCrash => AppendOnly
<1>1. CInv /\ [NextCrash]_vars =>
        [\A h \in Heights : InPrefix(h) /\ files[h] # EmptyBlock
                               => files'[h] = files[h]]_vars
  <2> SUFFICES ASSUME CInv, NextCrash, NEW h \in Heights,
                      InPrefix(h), files[h] # EmptyBlock
               PROVE  files'[h] = files[h]
    OBVIOUS
  <2>0. TypeOK /\ WriterInv
    BY DEF CInv, IInv
  <2>1. ASSUME NEW top \in -1..MaxHeight, Start(top) PROVE files'[h] = files[h]
    BY <2>1, BoundAssumption DEF Start, IsTop, InPrefix, Heights
  <2>2. CASE CreateGenesis \/ CreateFile
    <3>1. files[h] # NoBlock
      BY DEF InPrefix, Heights
    <3>2. pc = "genesis" => files[0] = NoBlock
      BY <2>0, BoundAssumption DEF WriterInv, Heights
    <3> QED
      BY <2>0, <2>2, <3>1, <3>2 DEF CreateGenesis, CreateFile, WriterInv, TypeOK
  <2>3. CASE WriteGenesis \/ WriteFile(View(at))
    BY <2>0, <2>3 DEF WriteGenesis, WriteFile, WriterInv, TypeOK
  <2>4. CASE files' = files
    BY <2>4
  <2> QED
    BY <2>1, <2>2, <2>3, <2>4
    DEF NextCrash, NextRunning, Boot, Submit, Writer, StoreAndMaybeConsume, Enqueue,
        EnqueueTooBig, EnqueueCommit, Index, Delete, DeleteTooBig, EndConsume,
        Crash, disk
<1> QED
  BY OrderInvariant, <1>1, PTL DEF SpecCrash, AppendOnly

-----------------------------------------------------------------------------
(* The server's look-ups *)

\* The least-number principle, from the well-foundedness of finite sets.
LEMMA LeastElement ==
    ASSUME NEW T \in SUBSET Nat, T # {}
    PROVE  \E least \in T : \A n \in T : least <= n
<1> DEFINE Below == {0..n : n \in T}
<1>1. Below \subseteq FiniteSubsetsOf(Nat) /\ Below # {}
  <2>1. ASSUME NEW n \in T PROVE 0..n \in FiniteSubsetsOf(Nat)
    <3>1. IsFiniteSet(0..n)
      BY FS_Interval
    <3> QED
      BY <3>1 DEF FiniteSubsetsOf
  <2>2. Below # {}
    <3>1. PICK n \in T : TRUE
      OBVIOUS
    <3>2. 0..n \in Below
      OBVIOUS
    <3> QED
      BY <3>2
  <2> QED
    BY <2>1, <2>2
<1>2. IsWellFoundedOn(StrictSubsetOrdering(Nat), FiniteSubsetsOf(Nat))
  BY FS_StrictSubsetOrderingWellFounded
<1>3. PICK b \in Below : \A c \in Below : <<c, b>> \notin StrictSubsetOrdering(Nat)
  BY <1>1, <1>2, WFMin
<1>4. PICK least \in T : b = 0..least
  OBVIOUS
<1>5. ASSUME NEW n \in T PROVE least <= n
  <2> SUFFICES ASSUME n < least PROVE FALSE
    OBVIOUS
  <2>1. 0..n \subseteq b /\ 0..n # b /\ 0..n \in SUBSET Nat /\ b \in SUBSET Nat
    BY <1>4
  <2>2. <<0..n, b>> \in StrictSubsetOrdering(Nat)
    BY <2>1 DEF StrictSubsetOrdering
  <2> QED
    BY <1>3, <2>2
<1> QED
  BY <1>5

\* BulkThaw stops at the first gap, which some number of blocks reaches.
LEMMA BulkThawReaches ==
    ASSUME TypeOK, NEW h \in Heights, NEW limit \in Nat, NEW t \in 0..limit,
           h + t <= MaxHeight, \A i \in 1..t : chain[h + i] # NoBlock
    PROVE  /\ t <= Len(BulkThaw(h, limit))
           /\ \A i \in 1..t : BulkThaw(h, limit)[i] = chain[h + i]
<1> DEFINE Gap(n) == h + n >= MaxHeight \/ chain[h + n + 1] = NoBlock
           Fits(n) == /\ \A i \in 1..n : h + i <= MaxHeight /\ chain[h + i] # NoBlock
                      /\ n < limit => Gap(n)
           Stops == {n \in 0..limit : n = limit \/ Gap(n)}
<1>0. h \in Nat /\ MaxHeight \in Nat
  BY BoundAssumption DEF Heights
<1>1. PICK first \in Stops : \A n \in Stops : first <= n
  <2>1. Stops \in SUBSET Nat /\ Stops # {}
    OBVIOUS
  <2> QED
    BY <2>1, LeastElement
<1>2. \A k \in 0..first - 1 : h + k < MaxHeight /\ chain[h + k + 1] # NoBlock
  BY <1>0, <1>1
<1>3. \A i \in 1..first : h + i <= MaxHeight /\ chain[h + i] # NoBlock
  <2> SUFFICES ASSUME NEW i \in 1..first
               PROVE  h + i <= MaxHeight /\ chain[h + i] # NoBlock
    OBVIOUS
  <2>1. i - 1 \in 0..first - 1 /\ h + (i - 1) + 1 = h + i
    BY <1>0
  <2> QED
    BY <1>0, <1>2, <2>1
<1>4. \E n \in 0..limit : Fits(n)
  BY <1>1, <1>3
<1> DEFINE found == CHOOSE n \in 0..limit : Fits(n)
<1>5. found \in 0..limit /\ Fits(found)
  BY <1>4
<1>6. BulkThaw(h, limit) = [i \in 1..found |-> chain[h + i]]
  BY DEF BulkThaw
<1> HIDE DEF found
<1>7. t <= found
  <2> SUFFICES ASSUME found < t PROVE FALSE
    BY <1>5
  <2>1. found + 1 \in 1..t /\ h + (found + 1) = h + found + 1
    BY <1>0, <1>5
  <2>2. chain[h + found + 1] # NoBlock /\ h + found < MaxHeight
    BY <1>0, <1>5, <2>1
  <2> QED
    BY <1>0, <1>5, <2>2
<1> QED
  BY <1>5, <1>6, <1>7

\* Wherever the process died before, a peer that asks for what follows a filed
\* block gets the filed blocks that do.
THEOREM Answers == SpecCrash => []AnswersFollow
<1>1. CInv => AnswersFollow
  <2> SUFFICES ASSUME CInv, Loaded, NEW h \in 1..current.height,
                      NEW limit \in 1..MaxHeight, files[h] \in Block,
                      NEW i \in 1..limit, h + i <= current.height
               PROVE  LET answer == FindBlocksAfter(h, files[h], limit)
                      IN  /\ i <= Len(answer)
                          /\ files[h + i] \in Block => answer[i] = files[h + i]
    BY DEF AnswersFollow
  <2> USE BlockAssumption, BoundAssumption
  <2>0. TypeOK /\ FilesContiguous /\ WriterInv /\ OrderInv
    BY DEF CInv, IInv
  <2>1. current.height \in Heights /\ h \in Heights
    BY <2>0 DEF WriterInv, Heights
  <2>2. FindBlocksAfter(h, files[h], limit) = BulkThaw(h, limit)
    BY <2>0, <2>1 DEF OrderInv, FiledIsIndexed, FindBlocksAfter
  <2>3. \A g \in 1..i : chain[h + g] # NoBlock
    <3> SUFFICES ASSUME NEW g \in 1..i PROVE chain[h + g] # NoBlock
      OBVIOUS
    <3>1. h + g \in Heights \ {0} /\ h + g <= current.height
      BY <2>1 DEF Heights
    <3>2. files[h + g] # NoBlock
      BY <2>0, <3>1 DEF FilesContiguous
    <3> QED
      BY <2>0, <3>1, <3>2 DEF OrderInv
  <2>4. limit \in Nat /\ i \in 0..limit /\ i \in 1..i /\ h + i <= MaxHeight
    BY <2>1 DEF Heights
  <2>5. /\ i <= Len(BulkThaw(h, limit))
        /\ BulkThaw(h, limit)[i] = chain[h + i]
    BY <2>0, <2>1, <2>3, <2>4, BulkThawReaches, ZenonT(40)
  <2>6. files[h + i] \in Block => chain[h + i] = files[h + i]
    <3>1. h + i \in Heights
      BY <2>1, <2>4 DEF Heights
    <3> QED
      BY <2>0, <3>1 DEF OrderInv, FiledIsIndexed
  <2> QED
    BY <2>2, <2>5, <2>6
<1> QED
  BY OrderInvariant, <1>1, PTL

-----------------------------------------------------------------------------
(* The store that is not interrupted *)

\* The block the chain waits for is consumed next, or it is not there: if it
\* came with the batch at hand, the batch has told so.
WaitInv ==
    LET next == current.height + 1
    IN  /\ pc \in {"down", "genesis", "writeGenesis"} => queue = Empty
        /\ pc \in {"idle", "enqueue"} /\ next \in Heights /\ queue[next] # NoBlock =>
               pc = "enqueue" /\ ready
        /\ pc = "enqueue" /\ next \in Heights /\ txn[next] # NoBlock => ready
        /\ \A h \in deleted : h < at
        /\ pc \in {"down", "genesis", "writeGenesis", "idle", "enqueue"} => deleted = {}

LEMMA StepWait == IInv /\ WaitInv /\ [NextRunning]_vars => WaitInv'
<1> SUFFICES ASSUME IInv, WaitInv, [NextRunning]_vars PROVE WaitInv'
  OBVIOUS
<1> USE BlockAssumption, BoundAssumption DEF Heights
<1>0. TypeOK /\ WriterInv /\ TypeOK'
  BY StepInv DEF IInv, Next, NextFull, NextCrash
<1>1. ASSUME NEW top \in -1..MaxHeight, Start(top) PROVE WaitInv'
  BY <1>0, <1>1 DEF Start, WaitInv, TypeOK, Empty
<1>2. CASE CreateGenesis
  BY <1>0, <1>2 DEF CreateGenesis, WaitInv, mem
<1>3. CASE WriteGenesis
  BY <1>0, <1>3 DEF WriteGenesis, WaitInv, Empty
<1>4. ASSUME NEW b \in Batches, StoreAndMaybeConsume(b) PROVE WaitInv'
  BY <1>0, <1>4 DEF StoreAndMaybeConsume, WaitInv, Empty, disk
<1>5. CASE Enqueue
  BY <1>0, <1>5 DEF Enqueue, SetNext, WaitInv, TypeOK, disk
<1>6. CASE EnqueueTooBig
  BY <1>0, <1>6 DEF EnqueueTooBig, SetNext, Committed, WaitInv, TypeOK, Empty
<1>7. CASE EnqueueCommit
  BY <1>0, <1>7 DEF EnqueueCommit, Committed, WaitInv, TypeOK, Empty
<1>8. CASE Index
  BY <1>0, <1>8 DEF Index, WaitInv
<1>9. CASE CreateFile
  BY <1>0, <1>9 DEF CreateFile, WaitInv, mem
<1>10. CASE WriteFile(View(at))
  BY <1>0, <1>10 DEF WriteFile, WaitInv
<1>11. CASE Delete
  BY <1>0, <1>11 DEF Delete, WaitInv, TypeOK, disk
<1>12. CASE DeleteTooBig
  BY <1>0, <1>12 DEF DeleteTooBig, WaitInv, TypeOK
<1>13. CASE EndConsume
  BY <1>0, <1>13 DEF EndConsume, Dropped, View, WaitInv, WriterInv, TypeOK
<1>14. CASE UNCHANGED vars
  BY <1>14 DEF vars, disk, mem, WaitInv
<1> QED
  BY <1>1, <1>2, <1>3, <1>4, <1>5, <1>6, <1>7, <1>8, <1>9, <1>10, <1>11, <1>12,
     <1>13, <1>14
  DEF NextRunning, Boot, Submit, Writer

\* As long as the process lives, the block the chain waits for is never left in
\* the queue when the store is unlocked, in whatever order batches arrive.
THEOREM NothingLeft == SpecRunning => []IdleDrained
<1>1. Init => IInv /\ WaitInv
  BY InitInv DEF Init, WaitInv, Empty
<1>2. IInv /\ WaitInv /\ [NextRunning]_vars => (IInv /\ WaitInv)'
  <2>1. IInv /\ [NextRunning]_vars => IInv'
    BY StepInv DEF Next, NextFull, NextCrash
  <2> QED
    BY <2>1, StepWait
<1>3. IInv /\ WaitInv => IdleDrained
  <2> SUFFICES ASSUME IInv, WaitInv, pc = "idle", current.height < MaxHeight
               PROVE  queue[current.height + 1] = NoBlock
    BY DEF IdleDrained
  <2>1. current.height + 1 \in Heights
    BY BoundAssumption DEF IInv, WriterInv, Loaded, Heights
  <2> QED
    BY <2>1 DEF WaitInv
<1> QED
  BY <1>1, <1>2, <1>3, PTL DEF SpecRunning

-----------------------------------------------------------------------------
(* The raw store implements the block log *)

Writing(h) == pc \in {"write", "writeGenesis"} /\ h = at

\* The log ends with the file of height t.
EndsAt(t) == \A h \in Heights : InPrefix(h) /\ ~Writing(h) <=> h <= t

Kept == {h \in Heights : InPrefix(h) /\ ~Writing(h)}

\* Outside Store at is 0: a new process starts with that, the end of consume goes back
\* to it, and the genesis block, written before the store is loaded, has that height.
GenesisInv == pc \in {"down", "genesis", "writeGenesis", "idle", "enqueue"} => at = 0

LInv == CInv /\ GenesisInv

LEMMA StepGenesis == LInv /\ [NextCrash]_vars => LInv'
<1> SUFFICES ASSUME LInv, [NextCrash]_vars PROVE GenesisInv'
  BY StepOrder DEF LInv
<1> USE DEF LInv, GenesisInv
<1>1. CASE UNCHANGED vars
  BY <1>1 DEF vars, mem
<1>2. CASE Boot
  BY <1>2 DEF Boot, Start, CreateGenesis, WriteGenesis, mem
<1>3. CASE Submit
  BY <1>3 DEF Submit, StoreAndMaybeConsume
<1>4. CASE Writer
  BY <1>4 DEF Writer, Enqueue, EnqueueTooBig, EnqueueCommit, Index, CreateFile, WriteFile,
              Delete, DeleteTooBig, EndConsume, mem, disk
<1>5. CASE Crash
  BY <1>5 DEF Crash
<1> QED
  BY <1>1, <1>2, <1>3, <1>4, <1>5 DEF NextCrash, NextRunning

LEMMA LogInvariant == SpecCrash => []LInv
<1>1. Init => LInv
  BY InitOrder DEF Init, LInv, GenesisInv
<1> QED
  BY <1>1, StepGenesis, PTL DEF SpecCrash

\* The blocks kept, counted.
LEMMA CountKept ==
    ASSUME NEW K \in SUBSET Heights, NEW t \in -1..MaxHeight, \A h \in Heights : h \in K <=> h <= t
    PROVE  Cardinality(K) = t + 1
<1> USE BoundAssumption DEF Heights
<1>1. K = 0..t
  <2>1. \A h \in K : h \in 0..t
    OBVIOUS
  <2>2. \A h \in 0..t : h \in K
    OBVIOUS
  <2> QED
    BY <2>1, <2>2
<1> QED
  BY <1>1, FS_Interval

LEMMA LogIs ==
    ASSUME NEW t \in -1..MaxHeight, EndsAt(t)
    PROVE  Log = [i \in 1..t + 1 |-> files[i - 1]]
<1>1. Cardinality(Kept) = t + 1
  BY CountKept DEF EndsAt, Kept
<1> QED
  BY <1>1 DEF Log, Kept, Writing

LEMMA LogIsNext ==
    ASSUME NEW t \in -1..MaxHeight, EndsAt(t)'
    PROVE  Log' = [i \in 1..t + 1 |-> files'[i - 1]]
<1>1. Cardinality(Kept') = t + 1
  BY CountKept DEF EndsAt, Kept
<1> QED
  BY <1>1 DEF Log, Kept, Writing

\* Where the log ends, in a state of the invariant.
LEMMA LogEnd ==
    ASSUME LInv
    PROVE  /\ Loaded => EndsAt(current.height)
           /\ pc \in {"genesis", "writeGenesis"} => EndsAt(-1)
<1> USE BoundAssumption DEF LInv, CInv, IInv, Heights
<1>1. CASE Loaded
  <2>1. current.height \in Heights
    BY <1>1 DEF WriterInv
  <2>2. \A h \in Heights : h <= current.height => InPrefix(h) /\ ~Writing(h)
    BY <1>1, <2>1 DEF InPrefix, Writing, FilesContiguous, WriterInv, Loaded
  <2>3. \A h \in Heights : h > current.height /\ ~Writing(h) => files[h] = NoBlock \/ pc = "write"
    BY <1>1, <2>1 DEF FilesContiguous
  <2>4. \A h \in Heights : h > current.height /\ InPrefix(h) => Writing(h)
    BY <1>1, <2>1 DEF InPrefix, Writing, FilesContiguous, WriterInv, Loaded
  <2> QED
    BY <1>1, <2>1, <2>2, <2>4 DEF EndsAt, Loaded
<1>2. CASE pc = "genesis"
  BY <1>2 DEF EndsAt, InPrefix, WriterInv, Loaded
<1>3. CASE pc = "writeGenesis"
  BY <1>3 DEF EndsAt, InPrefix, WriterInv, Writing, GenesisInv, Loaded
<1> QED
  BY <1>1, <1>2, <1>3 DEF Loaded

\* A log that ends where it did, with the same files, has not changed.
LEMMA SameLog ==
    ASSUME NEW t \in -1..MaxHeight, EndsAt(t), EndsAt(t)', \A h \in 0..t : files'[h] = files[h]
    PROVE  Log' = Log
<1>1. \A i \in 1..t + 1 : i - 1 \in 0..t
  OBVIOUS
<1> QED
  BY <1>1, LogIs, LogIsNext

LEMMA LogGrows ==
    ASSUME TypeOK, TypeOK', NEW t \in -1..MaxHeight - 1, EndsAt(t), EndsAt(t + 1)',
           \A h \in 0..t : files'[h] = files[h], files'[t + 1] # NoBlock,
           \A h \in 0..t : files[h] # NoBlock
    PROVE  Log' = Append(Log, files'[t + 1]) /\ Len(Log) = t + 1
<1> USE BoundAssumption DEF Heights
<1>1. Log = [i \in 1..t + 1 |-> files[i - 1]]
  BY LogIs
<1>2. Log' = [i \in 1..t + 2 |-> files'[i - 1]]
  BY LogIsNext
<1>3. \A i \in 1..t + 1 : i - 1 \in 0..t
  OBVIOUS
<1>4. Log \in [1..t + 1 -> Stored] /\ files'[t + 1] \in Stored
  BY <1>1, <1>3 DEF TypeOK
<1>5. Log \in Seq(Stored) /\ Len(Log) = t + 1
  BY <1>4
<1>6. Log' \in [1..t + 2 -> Stored]
  <2>1. \A h \in 0..t + 1 : files'[h] \in Stored
    <3>1. \A h \in 0..t : files'[h] \in Stored
      BY DEF TypeOK
    <3> QED
      BY <1>4, <3>1
  <2>2. \A i \in 1..t + 2 : i - 1 \in 0..t + 1
    OBVIOUS
  <2> QED
    BY <1>2, <2>1, <2>2
<1>7. Log' \in Seq(Stored) /\ Len(Log') = t + 2
  BY <1>6
<1>8. Append(Log, files'[t + 1]) \in Seq(Stored) /\ Len(Append(Log, files'[t + 1])) = t + 2
  BY <1>4, <1>5, AppendProperties
<1>9. \A i \in 1..t + 2 : Log'[i] = Append(Log, files'[t + 1])[i]
  BY <1>1, <1>2, <1>3, <1>4, <1>5, AppendProperties
<1> QED
  BY <1>5, <1>7, <1>8, <1>9, SeqEqual

-----------------------------------------------------------------------------
\* The steps that leave the log and the queue alone.
LEMMA StepStays ==
    ASSUME LInv, LInv',
           \/ \E top \in -1..MaxHeight : Start(top)
           \/ CreateGenesis \/ Submit \/ Enqueue \/ Index \/ CreateFile \/ Delete
    PROVE  Log' = Log /\ queue' = queue
<1> USE BoundAssumption DEF LInv, CInv, IInv, Heights
<1>1. ASSUME NEW top \in -1..MaxHeight, Start(top) PROVE Log' = Log
  <2>1. EndsAt(top)
    <3>1. \A h \in Heights : h <= top => InPrefix(h)
      BY <1>1 DEF Start, IsTop, InPrefix
    <3>2. \A h \in Heights : InPrefix(h) => h <= top
      <4> SUFFICES ASSUME NEW h \in Heights, InPrefix(h), h > top PROVE FALSE
        OBVIOUS
      <4>1. top + 1 \in 0..h /\ top < MaxHeight
        OBVIOUS
      <4> QED
        BY <1>1, <4>1 DEF Start, IsTop, InPrefix
    <3> QED
      BY <1>1, <3>1, <3>2 DEF Start, EndsAt, Writing
  <2>2. EndsAt(top)'
    <3>1. \A h \in Heights : h > top => files'[h] = NoBlock
      BY <1>1 DEF Start
    <3>2. \A h \in Heights : h <= top => files'[h] = files[h] /\ files[h] # NoBlock
      BY <1>1 DEF Start, IsTop
    <3>3. \A h \in Heights : ~Writing(h)'
      BY <1>1 DEF Start, Writing
    <3>4. \A h \in Heights : InPrefix(h)' <=> h <= top
      BY <3>1, <3>2 DEF InPrefix
    <3> QED
      BY <3>3, <3>4 DEF EndsAt
  <2>3. \A h \in 0..top : files'[h] = files[h]
    BY <1>1 DEF Start
  <2> QED
    BY <2>1, <2>2, <2>3, SameLog
<1>2. ASSUME CreateGenesis PROVE Log' = Log
  <2>1. EndsAt(-1) /\ EndsAt(-1)'
    BY <1>2, LogEnd DEF CreateGenesis, EndsAt, InPrefix, Writing, WriterInv, GenesisInv, TypeOK, mem
  <2> QED
    BY <2>1, SameLog
<1>3. ASSUME Submit \/ Enqueue \/ Index \/ CreateFile \/ Delete PROVE Log' = Log
  <2>1. Loaded /\ Loaded' /\ current' = current /\ current.height \in Heights
    BY <1>3 DEF Submit, StoreAndMaybeConsume, Enqueue, Index, CreateFile, Delete, Loaded, WriterInv, mem
  <2>2. EndsAt(current.height)
    BY <2>1, LogEnd
  <2>3. EndsAt(current.height)'
    <3>1. \A h \in Heights : (InPrefix(h) /\ ~Writing(h))' <=> InPrefix(h) /\ ~Writing(h)
      <4>1. CASE CreateFile
        BY <4>1, <2>1 DEF CreateFile, InPrefix, Writing, WriterInv, TypeOK, mem, FilesContiguous, Loaded
      <4>2. CASE Submit \/ Enqueue \/ Index \/ Delete
        BY <4>2 DEF Submit, StoreAndMaybeConsume, Enqueue, Index, Delete, disk, InPrefix, Writing
      <4> QED
        BY <1>3, <4>1, <4>2
    <3> QED
      BY <2>1, <2>2, <3>1 DEF EndsAt
  <2>4. \A h \in 0..current.height : files'[h] = files[h]
    BY <1>3, <2>1 DEF Submit, StoreAndMaybeConsume, Enqueue, Index, CreateFile, Delete, WriterInv, disk, TypeOK
  <2> QED
    BY <2>1, <2>2, <2>3, <2>4, SameLog
<1> QED
  BY <1>1, <1>2, <1>3 DEF Start, CreateGenesis, Submit, StoreAndMaybeConsume, Enqueue, Index, CreateFile, Delete, disk

\* The log grows by a block whose file is filled; the genesis block is one.
LEMMA StepGrows ==
    ASSUME LInv, LInv', WriteGenesis \/ WriteFile(View(at))
    PROVE  BlockLogSpec!Grow
<1> USE BoundAssumption, BlockAssumption DEF LInv, CInv, IInv, Heights
<1>1. CASE WriteGenesis
  <2>1. EndsAt(-1)
    BY <1>1, LogEnd DEF WriteGenesis
  <2>2. EndsAt(0)'
    <3>1. \A h \in Heights : files'[h] # NoBlock <=> h = 0
      BY <1>1 DEF WriteGenesis, WriterInv, TypeOK
    <3>2. \A h \in Heights : InPrefix(h)' <=> h = 0
      BY <3>1 DEF InPrefix
    <3> QED
      BY <1>1, <3>2 DEF WriteGenesis, EndsAt, Writing
  <2>3. Log' = Append(Log, files'[0]) /\ Len(Log) = 0
    <3>1. -1 \in -1..MaxHeight - 1 /\ -1 + 1 = 0
      OBVIOUS
    <3>2. files'[0] # NoBlock
      BY <1>1 DEF WriteGenesis, TypeOK
    <3> QED
      BY <2>1, <2>2, <3>1, <3>2, LogGrows
  <2>4. files'[0] = GenesisBlock /\ queue' = queue
    BY <1>1 DEF WriteGenesis, TypeOK
  <2> QED
    BY <2>3, <2>4 DEF BlockLogSpec!Grow, BlockLogSpec!End
<1>2. CASE WriteFile(View(at))
  <2>1. PICK t \in 0..MaxHeight - 1 : at = t + 1 /\ current.height = t
    BY <1>2 DEF WriteFile, WriterInv, Loaded
  <2>2. /\ View(at) = queue[at] /\ queue[at] # NoBlock
        /\ Loaded /\ Loaded' /\ current'.height = t + 1 /\ pc' = "delete"
    BY <1>2, <2>1 DEF WriteFile, WriterInv, View, Loaded
  <2>3. EndsAt(t)
    BY <2>1, <2>2, LogEnd
  <2>4. EndsAt(t + 1)'
    <3>1. \A h \in Heights : h <= t + 1 => files'[h] # NoBlock
      BY <2>2 DEF FilesContiguous
    <3>2. \A h \in Heights : h > t + 1 => files'[h] = NoBlock
      BY <2>2 DEF FilesContiguous
    <3>3. \A h \in Heights : InPrefix(h)' <=> h <= t + 1
      BY <2>1, <3>1, <3>2 DEF InPrefix
    <3>4. \A h \in Heights : ~Writing(h)'
      BY <2>2 DEF Writing
    <3> QED
      BY <3>3, <3>4 DEF EndsAt
  <2>5. /\ files'[t + 1] = queue[t + 1] /\ queue' = queue
        /\ \A h \in 0..t : files'[h] = files[h] /\ files[h] # NoBlock
    BY <1>2, <2>1, <2>2 DEF WriteFile, FilesContiguous, TypeOK
  <2>6. Log' = Append(Log, files'[t + 1]) /\ Len(Log) = t + 1
    BY <2>1, <2>2, <2>3, <2>4, <2>5, LogGrows
  <2> QED
    BY <2>1, <2>2, <2>5, <2>6 DEF BlockLogSpec!Grow, BlockLogSpec!End
<1> QED
  BY <1>1, <1>2

\* A death leaves the entry being written empty, or else the log as it was.
LEMMA StepTears ==
    ASSUME LInv, LInv', Crash
    PROVE  BlockLogSpec!Tear \/ (Log' = Log /\ queue' = queue)
<1> USE BoundAssumption, BlockAssumption DEF LInv, CInv, IInv, Heights
<1>0. queue' = queue /\ files' = files /\ pc' = "down" /\ \A h \in Heights : ~Writing(h)'
  BY DEF Crash, disk, Writing
<1>1. CASE pc = "writeGenesis"
  <2>1. EndsAt(-1) /\ at = 0
    BY <1>1, LogEnd DEF GenesisInv
  <2>2. EndsAt(0)'
    <3>1. \A h \in Heights : InPrefix(h)' <=> h = 0
      BY <1>0, <1>1 DEF InPrefix, WriterInv
    <3> QED
      BY <1>0, <3>1 DEF EndsAt
  <2>3. Log' = Append(Log, files'[0]) /\ Len(Log) = 0
    <3>1. -1 \in -1..MaxHeight - 1 /\ -1 + 1 = 0
      OBVIOUS
    <3>2. files'[0] = EmptyBlock
      BY <1>0, <1>1 DEF WriterInv
    <3> QED
      BY <2>1, <2>2, <3>1, <3>2, LogGrows
  <2> QED
    BY <1>0, <1>1, <2>3 DEF WriterInv, BlockLogSpec!Tear, BlockLogSpec!End
<1>2. CASE pc = "write"
  <2>1. PICK t \in 0..MaxHeight - 1 : at = t + 1 /\ current.height = t
    BY <1>2 DEF WriterInv, Loaded
  <2>2. Loaded /\ queue[t + 1] # NoBlock /\ files[t + 1] = EmptyBlock
    BY <1>2, <2>1 DEF WriterInv, View, Loaded
  <2>3. EndsAt(t)
    BY <2>1, <2>2, LogEnd
  <2>4. EndsAt(t + 1)'
    <3>1. \A h \in Heights : h <= t + 1 => files[h] # NoBlock
      BY <2>1, <2>2 DEF FilesContiguous
    <3>2. \A h \in Heights : h > t + 1 => files[h] = NoBlock
      BY <2>1, <2>2 DEF FilesContiguous
    <3>3. \A h \in Heights : InPrefix(h)' <=> h <= t + 1
      BY <1>0, <2>1, <3>1, <3>2 DEF InPrefix
    <3> QED
      BY <1>0, <3>3 DEF EndsAt
  <2>5. \A h \in 0..t : files[h] # NoBlock
    BY <2>1, <2>2 DEF FilesContiguous
  <2>6. Log' = Append(Log, files'[t + 1]) /\ Len(Log) = t + 1
    BY <1>0, <2>1, <2>2, <2>3, <2>4, <2>5, LogGrows
  <2> QED
    BY <1>0, <2>1, <2>2, <2>6 DEF BlockLogSpec!Tear, BlockLogSpec!End
<1>3. CASE pc \notin {"writeGenesis", "write"}
  <2>1. Kept' = Kept
    BY <1>0, <1>3 DEF Kept, InPrefix, Writing
  <2> QED
    BY <1>0, <2>1 DEF Log, Kept, Writing
<1> QED
  BY <1>1, <1>2, <1>3

\* Commits of the queue: blocks come in, and blocks that are in the log go.
LEMMA StepCommits ==
    ASSUME LInv, LInv', EnqueueTooBig \/ EnqueueCommit \/ DeleteTooBig \/ EndConsume
    PROVE  BlockLogSpec!Submit \/ BlockLogSpec!Discard
<1> USE BoundAssumption, BlockAssumption DEF LInv, CInv, IInv, Heights
<1>1. Log' = Log
  <2>1. Kept' = Kept
    BY DEF EnqueueTooBig, EnqueueCommit, DeleteTooBig, EndConsume, Kept, InPrefix, Writing
  <2>2. files' = files
    BY DEF EnqueueTooBig, EnqueueCommit, DeleteTooBig, EndConsume
  <2> QED
    BY <2>1, <2>2 DEF Log, Kept, Writing
<1>2. queue' \in [Heights -> Block \cup {NoBlock}]
  BY DEF TypeOK
<1>3. CASE EnqueueTooBig \/ EnqueueCommit
  <2>1. \A h \in Heights : queue[h] # NoBlock => queue'[h] # NoBlock
    BY <1>3 DEF EnqueueTooBig, EnqueueCommit, Committed
  <2> QED
    BY <1>1, <1>2, <2>1 DEF BlockLogSpec!Submit, BlockLogSpec!Heights
<1>4. CASE DeleteTooBig \/ EndConsume
  <2>1. PICK t \in Heights : t = current.height
    BY <1>4 DEF DeleteTooBig, EndConsume, WriterInv, Loaded
  <2>2. Loaded /\ EndsAt(t)
    BY <1>4, <2>1, LogEnd DEF DeleteTooBig, EndConsume, Loaded
  <2>3. Log = [i \in 1..t + 1 |-> files[i - 1]] /\ Len(Log) = t + 1
    <3>1. t \in -1..MaxHeight
      OBVIOUS
    <3>2. Log = [i \in 1..t + 1 |-> files[i - 1]]
      BY <2>2, <3>1, LogIs
    <3> QED
      BY <3>2
  <2>4. \A h \in deleted : h \in Heights /\ h < t + 1 /\ files[h] = queue[h]
    BY <1>4, <2>1 DEF DeleteTooBig, EndConsume, OrderInv, WriterInv, TypeOK
  <2>5. \A h \in deleted : h < Len(Log) /\ Log[h + 1] = queue[h]
    <3> SUFFICES ASSUME NEW h \in deleted PROVE h < Len(Log) /\ Log[h + 1] = queue[h]
      OBVIOUS
    <3>1. h + 1 \in 1..t + 1 /\ h + 1 - 1 = h
      BY <2>4
    <3> QED
      BY <2>3, <2>4, <3>1
  <2>6. \A h \in Heights : queue'[h] = IF h \in deleted THEN NoBlock ELSE queue[h]
    BY <1>4 DEF DeleteTooBig, EndConsume, Dropped
  <2> QED
    BY <1>1, <1>2, <2>5, <2>6 DEF BlockLogSpec!Discard, BlockLogSpec!Heights, BlockLogSpec!End
<1> QED
  BY <1>3, <1>4

LEMMA StepLog == LInv /\ [NextCrash]_vars => [BlockLogSpec!Next]_<<Log, queue>>
<1> SUFFICES ASSUME LInv, [NextCrash]_vars
             PROVE  BlockLogSpec!Next \/ (Log' = Log /\ queue' = queue)
  OBVIOUS
<1>0. LInv'
  BY StepGenesis
<1>1. CASE UNCHANGED vars
  <2>1. files' = files /\ Kept' = Kept
    BY <1>1 DEF vars, disk, mem, Kept, InPrefix, Writing
  <2> QED
    BY <1>1, <2>1 DEF Log, Kept, Writing, vars, disk
<1>2. CASE WriteGenesis \/ WriteFile(View(at))
  BY <1>0, <1>2, StepGrows DEF BlockLogSpec!Next
<1>3. CASE Crash
  BY <1>0, <1>3, StepTears DEF BlockLogSpec!Next
<1>4. CASE EnqueueTooBig \/ EnqueueCommit \/ DeleteTooBig \/ EndConsume
  BY <1>0, <1>4, StepCommits DEF BlockLogSpec!Next
<1>5. CASE \/ \E top \in -1..MaxHeight : Start(top)
           \/ CreateGenesis \/ Submit \/ Enqueue \/ Index \/ CreateFile \/ Delete
  BY <1>0, <1>5, StepStays
<1> QED
  BY <1>1, <1>2, <1>3, <1>4, <1>5 DEF NextCrash, NextRunning, Boot, Writer

LEMMA InitLog == Init => BlockLogSpec!Init
<1> SUFFICES ASSUME Init PROVE BlockLogSpec!Init
  OBVIOUS
<1> USE BoundAssumption, BlockAssumption DEF Heights
<1>1. EndsAt(-1)
  <2>1. files[0] = NoBlock
    BY DEF Init
  <2> QED
    BY <2>1 DEF EndsAt, InPrefix
<1>2. Log = [i \in 1..-1 + 1 |-> files[i - 1]]
  <2>1. -1 \in -1..MaxHeight
    OBVIOUS
  <2> QED
    BY <1>1, <2>1, LogIs
<1>3. Log = <<>>
  BY <1>2
<1> QED
  BY <1>3 DEF Init, Empty, BlockLogSpec!Init, BlockLogSpec!Heights

\* The raw store is a durable log: wherever the process dies, the files go through
\* whole entries of pending blocks, of which at most the last is left empty, and no
\* block leaves the queue before it is an entry.
THEOREM StoreImplementsBlockLog == SpecCrash => ImplementsBlockLog
<1> QED
  BY InitLog, StepLog, LogInvariant, PTL DEF SpecCrash, ImplementsBlockLog, BlockLogSpec!Spec

-----------------------------------------------------------------------------
(* The cache of a process that is not interrupted *)

LEMMA PredecessorsType ==
    ASSUME NEW h \in Nat
    PROVE  /\ Predecessors(h) \in Seq(Int)
           /\ Len(Predecessors(h)) = IF h < CacheSize THEN h ELSE CacheSize
           /\ \A i \in 1..Len(Predecessors(h)) :
                  Predecessors(h)[i] = h - Len(Predecessors(h)) + i - 1
<1> DEFINE n == IF h < CacheSize THEN h ELSE CacheSize
<1>1. n \in Nat
  BY BoundAssumption
<1> HIDE DEF n
<1>2. Predecessors(h) = [i \in 1..n |-> h - n + i - 1]
  BY DEF Predecessors, n
<1>3. Predecessors(h) \in [1..n -> Int]
  BY <1>1, <1>2
<1>4. Predecessors(h) \in Seq(Int) /\ Len(Predecessors(h)) = n
  BY <1>1, <1>3
<1> QED
  BY <1>2, <1>4 DEF n

\* The block validated is the last of the predecessors of the next one.
LEMMA PushNext ==
    ASSUME NEW h \in Nat
    PROVE  CachePush(Predecessors(h), h) = Predecessors(h + 1)
<1> DEFINE p == Predecessors(h)
           q == Predecessors(h + 1)
<1>1. /\ p \in Seq(Int) /\ Len(p) = IF h < CacheSize THEN h ELSE CacheSize
      /\ \A i \in 1..Len(p) : p[i] = h - Len(p) + i - 1
  BY PredecessorsType
<1>2. /\ q \in Seq(Int) /\ Len(q) = IF h + 1 < CacheSize THEN h + 1 ELSE CacheSize
      /\ \A i \in 1..Len(q) : q[i] = h + 1 - Len(q) + i - 1
  <2>1. h + 1 \in Nat
    OBVIOUS
  <2> QED
    BY <2>1, PredecessorsType
<1> HIDE DEF p, q
<1> USE BoundAssumption
<1>3. CASE h < CacheSize
  <2>1. Len(p) = h /\ Len(q) = h + 1
    BY <1>1, <1>2, <1>3
  <2>2. Append(p, h) \in Seq(Int) /\ Len(Append(p, h)) = h + 1
    BY <1>1, <2>1, AppendProperties
  <2>3. \A i \in 1..h + 1 : Append(p, h)[i] = q[i]
    BY <1>1, <1>2, <2>1, AppendProperties, SMTT(20)
  <2>4. Append(p, h) = q
    BY <1>2, <2>1, <2>2, <2>3, SeqEqual
  <2> QED
    BY <1>3, <2>1, <2>4 DEF CachePush, p, q
<1>4. CASE h >= CacheSize
  <2>1. Len(p) = CacheSize /\ Len(q) = CacheSize /\ p # <<>>
    BY <1>1, <1>2, <1>4
  <2>2. /\ Tail(p) \in Seq(Int) /\ Len(Tail(p)) = CacheSize - 1
        /\ \A i \in 1..CacheSize - 1 : Tail(p)[i] = p[i + 1]
    BY <1>1, <2>1, HeadTailProperties
  <2>3. Append(Tail(p), h) \in Seq(Int) /\ Len(Append(Tail(p), h)) = CacheSize
    BY <2>2, AppendProperties
  <2>4. \A i \in 1..CacheSize : Append(Tail(p), h)[i] = q[i]
    <3>1. \A i \in 1..CacheSize - 1 : Append(Tail(p), h)[i] = p[i + 1]
      BY <2>2, AppendProperties
    <3>2. Append(Tail(p), h)[CacheSize] = h
      BY <2>2, AppendProperties
    <3>3. \A i \in 1..CacheSize - 1 : p[i + 1] = h - CacheSize + (i + 1) - 1
      BY <1>1, <2>1, SMTT(20)
    <3> QED
      BY <1>2, <2>1, <3>1, <3>2, <3>3
  <2>5. Append(Tail(p), h) = q
    BY <1>2, <2>1, <2>3, <2>4, SeqEqual
  <2>6. CachePush(p, h) = Append(Tail(p), h)
    BY <2>1 DEF CachePush
  <2> QED
    BY <2>5, <2>6 DEF p, q
<1> QED
  BY <1>3, <1>4

\* The cache is ahead of Current from the validation of a block to its filing.
CacheInv ==
    /\ pc = "down" => files[0] = NoBlock
    /\ pc \in {"idle", "enqueue", "get", "delete"} => cache = Predecessors(current.height + 1)
    /\ pc \in {"create", "write"} => cache = Predecessors(at + 1)

LEMMA StepCache == IInv /\ CacheInv /\ [NextRunning]_vars => CacheInv'
<1> SUFFICES ASSUME IInv, CacheInv, [NextRunning]_vars PROVE CacheInv'
  OBVIOUS
<1> USE BlockAssumption, BoundAssumption DEF Heights
<1>0. TypeOK /\ WriterInv
  BY DEF IInv
<1>1. ASSUME NEW top \in -1..MaxHeight, Start(top) PROVE CacheInv'
  <2>1. top = -1
    BY <1>1 DEF Start, IsTop, CacheInv
  <2> QED
    BY <1>1, <2>1 DEF Start, CacheInv
<1>2. CASE CreateGenesis
  BY <1>2 DEF CreateGenesis, CacheInv
<1>3. CASE WriteGenesis
  <2>1. CacheLatest(0) = [i \in 1..1 |-> i - 1] /\ Predecessors(1) = [i \in 1..1 |-> i - 1]
    BY DEF CacheLatest, Predecessors
  <2> QED
    BY <1>3, <2>1 DEF WriteGenesis, CacheInv
<1>4. ASSUME NEW b \in Batches, StoreAndMaybeConsume(b) PROVE CacheInv'
  BY <1>4 DEF StoreAndMaybeConsume, CacheInv
<1>5. CASE Enqueue \/ EnqueueTooBig \/ EnqueueCommit
  BY <1>5 DEF Enqueue, EnqueueTooBig, EnqueueCommit, SetNext, CacheInv
<1>6. CASE Index
  <2>1. at \in Nat /\ cache = Predecessors(at)
    BY <1>0, <1>6 DEF Index, CacheInv, WriterInv, TypeOK
  <2>2. cache' = Predecessors(at + 1)
    BY <1>6, <2>1, PushNext DEF Index
  <2> QED
    BY <1>6, <2>2 DEF Index, CacheInv
<1>7. CASE CreateFile
  BY <1>7 DEF CreateFile, CacheInv, mem
<1>8. CASE WriteFile(View(at))
  BY <1>8 DEF WriteFile, CacheInv
<1>9. CASE Delete \/ DeleteTooBig \/ EndConsume
  BY <1>9 DEF Delete, DeleteTooBig, EndConsume, CacheInv
<1>10. CASE UNCHANGED vars
  BY <1>10 DEF vars, disk, mem, CacheInv
<1> QED
  BY <1>1, <1>2, <1>3, <1>4, <1>5, <1>6, <1>7, <1>8, <1>9, <1>10
  DEF NextRunning, Boot, Submit, Writer

\* As long as the process lives, each block is validated with its direct
\* predecessors, up to as many as the cache holds.
THEOREM CacheFollows == SpecRunning => []CacheIsPredecessors
<1>1. Init => IInv /\ CacheInv
  BY InitInv, BoundAssumption DEF Init, CacheInv, Heights
<1>2. IInv /\ CacheInv /\ [NextRunning]_vars => (IInv /\ CacheInv)'
  <2>1. IInv /\ [NextRunning]_vars => IInv'
    BY StepInv DEF Next, NextFull, NextCrash
  <2> QED
    BY <2>1, StepCache
<1>3. IInv /\ CacheInv => CacheIsPredecessors
  BY DEF IInv, CacheInv, CacheIsPredecessors, WriterInv
<1> QED
  BY <1>1, <1>2, <1>3, PTL DEF SpecRunning

-----------------------------------------------------------------------------
(* A rebuild between batches *)

\* What a rebuild has passed is right, and so is what it has in hand.
PassedInv ==
    rebuild # NoRebuild =>
        /\ pc = "idle" /\ rebuild.next \in Nat
        /\ \A h \in Heights : h < rebuild.next => chain[h] = files[h]
        /\ rebuild.got # NoBlock => rebuild.got = files[rebuild.next]

LEMMA StepPassed == IInv /\ PassedInv /\ [NextQuiet]_vars => PassedInv'
<1> SUFFICES ASSUME IInv, PassedInv, [NextQuiet]_vars PROVE PassedInv'
  OBVIOUS
<1> USE BlockAssumption, BoundAssumption DEF Heights
<1>0. TypeOK /\ WriterInv /\ RebuildInv
  BY DEF IInv
<1>1. CASE Boot \/ Writer
  <2>1. pc # "idle" /\ rebuild' = rebuild
    BY <1>1 DEF Boot, Start, CreateGenesis, WriteGenesis, mem, disk, Writer, Enqueue, EnqueueTooBig,
       EnqueueCommit, Index, CreateFile, WriteFile, Delete, DeleteTooBig, EndConsume
  <2> QED
    BY <2>1 DEF PassedInv
<1>2. CASE rebuild = NoRebuild /\ Submit
  BY <1>2 DEF Submit, StoreAndMaybeConsume, PassedInv
<1>3. CASE Crash
  BY <1>3 DEF Crash, PassedInv
<1>4. CASE pc = "idle" /\ StartRebuild
  BY <1>4 DEF StartRebuild, PassedInv, disk
<1>5. CASE pc = "idle" /\ RebuildRead
  BY <1>0, <1>5 DEF RebuildRead, PassedInv, disk, TypeOK, NoRebuild
<1>6. CASE pc = "idle" /\ RebuildStore
  <2>1. rebuild # NoRebuild /\ rebuild.next \in Heights
    BY <1>0, <1>6 DEF RebuildStore, RebuildInv, NoRebuild
  <2>2. \A h \in Heights : h < rebuild.next + 1 => chain'[h] = files[h]
    BY <1>0, <1>6, <2>1 DEF RebuildStore, PassedInv, TypeOK
  <2> QED
    BY <1>6, <2>1, <2>2 DEF RebuildStore, PassedInv
<1>7. CASE UNCHANGED vars
  BY <1>7 DEF vars, disk, mem, PassedInv
<1> QED
  BY <1>1, <1>2, <1>3, <1>4, <1>5, <1>6, <1>7 DEF NextQuiet, Rebuild

\* A rebuild that no batch disturbs leaves an index that agrees with the files.
THEOREM RebuildIsComplete == SpecQuiet => RebuildRestores
<1>1. Init => IInv /\ PassedInv
  BY InitInv DEF Init, PassedInv
<1>2. IInv /\ PassedInv /\ [NextQuiet]_vars => (IInv /\ PassedInv)'
  <2>1. IInv /\ [NextQuiet]_vars => IInv'
    BY StepInv DEF NextQuiet, Next, NextFull, NextCrash, NextRunning
  <2> QED
    BY <2>1, StepPassed
<1>3. IInv /\ PassedInv /\ [NextQuiet]_vars =>
        [rebuild # NoRebuild /\ rebuild' = NoRebuild /\ pc' # "down"
           => \A h \in 0..current.height : chain[h] = files[h]]_vars
  <2> SUFFICES ASSUME IInv, PassedInv, NextQuiet, rebuild # NoRebuild, rebuild' = NoRebuild,
                      pc' # "down", NEW h \in 0..current.height
               PROVE  chain[h] = files[h]
    OBVIOUS
  <2> USE BlockAssumption, BoundAssumption DEF Heights
  <2>1. pc = "idle" /\ Loaded /\ current.height \in Heights
    BY DEF PassedInv, IInv, WriterInv, Loaded
  <2>2. RebuildRead
    BY <2>1 DEF NextQuiet, Boot, Start, CreateGenesis, WriteGenesis, Writer, Enqueue, EnqueueTooBig,
       EnqueueCommit, Index, CreateFile, WriteFile, Delete, DeleteTooBig, EndConsume, Crash,
       Rebuild, StartRebuild, RebuildStore, NoRebuild, PassedInv
  <2>3. rebuild.next \notin Heights \/ files[rebuild.next] = NoBlock
    BY <2>2 DEF RebuildRead, NoRebuild, PassedInv
  <2>4. rebuild.next > current.height
    BY <2>1, <2>3 DEF PassedInv, IInv, FilesContiguous
  <2> QED
    BY <2>1, <2>4 DEF PassedInv
<1> QED
  BY <1>1, <1>2, <1>3, PTL DEF SpecQuiet, RebuildRestores
=============================================================================
