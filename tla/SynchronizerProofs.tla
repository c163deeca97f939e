-------------------------- MODULE SynchronizerProofs --------------------------
(***************************************************************************)
(* Proofs about Synchronizer, for every list of milestones, every chain    *)
(* and every interleaving of the ranges: what is stored is valid whatever  *)
(* peers serve; it is stored at its own height when answers end within     *)
(* their ranges; and nothing is left out when peers are honest as well.    *)
(***************************************************************************)
EXTENDS Synchronizer, SequenceTheorems, FiniteSetTheorems, TLAPS

\* Blocks and starts of ranges, whatever their heights.
AnyBlock == [pos : Int, height : Int, kind : Kinds]
AnyMeta  == [id : Int, height : Int]
Checked  == {b \in AnyBlock : b.kind # "bad"}

\* The shape of the state.
Shape ==
    /\ batch \in [Ranges -> [stage : Stages, from : AnyMeta, ids : Int,
                             fetched : Seq(AnyBlock), chain : Seq(AnyBlock)]]
    /\ glue \in [Heights -> AnyBlock \cup {NoBlock}]

\* A fetched batch is never empty, and nothing unchecked is in the raw store.
StoreInv ==
    /\ \A r \in Ranges :
          /\ batch[r].stage = "ids" => batch[r].ids >= 1
          /\ batch[r].stage = "blocks" => batch[r].fetched # <<>>
          /\ batch[r].stage = "glued" => batch[r].chain # <<>>
    /\ log \in Seq(Checked)
    /\ queue \in [Heights -> Checked \cup {NoBlock}]

IInv == Shape /\ StoreInv

-----------------------------------------------------------------------------
(* Lemmas *)

LEMMA Bounds == ChainLen \in Nat /\ MaxIds \in Nat \ {0} /\ StartHeight \in Nat
  BY ChainAssumption

LEMMA RangeType ==
    ASSUME NEW r \in Ranges
    PROVE  FromOf(r) \in AnyMeta /\ ToOf(r) \in Int
<1>1. r \in 1..Len(Milestones) /\ r + 1 \in 1..Len(Milestones)
  BY MilestoneAssumption DEF Ranges
<1>2. Milestones[r] \in Nat /\ Milestones[r + 1] \in Nat
  BY <1>1, MilestoneAssumption
<1> QED
  BY <1>2, Bounds DEF FromOf, ToOf, AnyMeta

\* An answer of a peer is a non-empty sequence of kinds.
LEMMA AnswerType ==
    ASSUME NEW k \in Answers
    PROVE  k \in Seq(Kinds) /\ Len(k) >= 1
<1>1. PICK n \in Chunks : k \in [1..n -> Kinds]
  BY DEF Answers
<1>2. n \in Nat \ {0}
  BY ChainAssumption
<1> QED
  BY <1>1, <1>2

\* The blocks of an answer, once cut to the ids.
LEMMA SetHeightsType ==
    ASSUME NEW from \in AnyMeta, NEW k \in Seq(Kinds), NEW n \in 1..Len(k)
    PROVE  /\ SetHeights(from, k, n) \in Seq(AnyBlock)
           /\ SetHeights(from, k, n) # <<>>
<1>1. \A i \in 1..n : k[i] \in Kinds
  <2>1. \A i \in 1..Len(k) : k[i] \in Kinds
    OBVIOUS
  <2>2. \A i \in 1..n : i \in 1..Len(k)
    OBVIOUS
  <2> QED
    BY <2>1, <2>2
<1>2. SetHeights(from, k, n) \in [1..n -> AnyBlock]
  BY <1>1 DEF SetHeights, AnyBlock, AnyMeta
<1>3. n \in Nat \ {0}
  OBVIOUS
<1> QED
  BY <1>2, <1>3

\* What the cache of glue blocks gives is a sequence of at most one block.
LEMMA CachedType ==
    ASSUME NEW g \in [Heights -> AnyBlock \cup {NoBlock}], NEW h
    PROVE  Cached(g, h) \in Seq(AnyBlock)
<1>1. CASE h \in Heights /\ g[h] # NoBlock
  <2>1. g[h] \in AnyBlock
    BY <1>1
  <2> QED
    BY <1>1, <2>1 DEF Cached
<1>2. CASE ~(h \in Heights /\ g[h] # NoBlock)
  BY <1>2 DEF Cached
<1> QED
  BY <1>1, <1>2

\* All blocks of a valid chain but the first passed their checks.
LEMMA ValidTail ==
    ASSUME NEW c \in Seq(AnyBlock), c # <<>>, Valid(c)
    PROVE  Tail(c) \in Seq(Checked)
<1>1. Tail(c) \in Seq(AnyBlock) /\ Len(Tail(c)) = Len(c) - 1
  OBVIOUS
<1>2. \A i \in 1..Len(Tail(c)) : Tail(c)[i] = c[i + 1]
  OBVIOUS
<1>3. \A i \in 1..Len(Tail(c)) : Tail(c)[i] \in Checked
  <2> SUFFICES ASSUME NEW i \in 1..Len(Tail(c)) PROVE Tail(c)[i] \in Checked
    OBVIOUS
  <2>1. i + 1 \in 2..Len(c)
    BY <1>1
  <2>2. PreValidate(c[i + 1], c[i + 1 - 1])
    BY <2>1 DEF Valid
  <2>3. c[i + 1] \in AnyBlock
    BY <2>1
  <2> QED
    BY <1>2, <2>2, <2>3 DEF PreValidate, Checked
<1> DEFINE t == Tail(c)
<1>4. t \in [1..Len(t) -> AnyBlock] /\ Len(t) \in Nat
  BY <1>1, LenProperties
<1> HIDE DEF t
<1>5. t \in [1..Len(t) -> Checked]
  BY <1>3, <1>4 DEF t
<1>6. t \in Seq(Checked)
  BY <1>4, <1>5, SeqDef
<1> QED
  BY <1>6 DEF t

\* Storing checked blocks keeps everything in the raw store checked.
LEMMA StoreKeepsChecked ==
    ASSUME StoreInv, NEW bs \in Seq(Checked), StoreAndMaybeConsume(bs)
    PROVE  log' \in Seq(Checked) /\ queue' \in [Heights -> Checked \cup {NoBlock}]
<1> DEFINE q == Queued(bs)
           next == Len(log)
<1>1. q \in [Heights -> Checked \cup {NoBlock}]
  <2>1. \A h \in Heights : q[h] \in Checked \cup {NoBlock}
    <3> SUFFICES ASSUME NEW h \in Heights PROVE q[h] \in Checked \cup {NoBlock}
      OBVIOUS
    <3>1. CASE \E i \in 1..Len(bs) : bs[i].height = h
      <4> DEFINE j == CHOOSE i \in 1..Len(bs) : bs[i].height = h
      <4>1. j \in 1..Len(bs)
        BY <3>1
      <4>2. bs[j] \in Checked
        BY <4>1
      <4> QED
        BY <3>1, <4>2 DEF Queued
    <3>2. CASE ~ \E i \in 1..Len(bs) : bs[i].height = h
      BY <3>2 DEF Queued, StoreInv
    <3> QED
      BY <3>1, <3>2
  <2> QED
    BY <2>1 DEF Queued
<1>2. next \in Nat
  BY DEF StoreInv
<1>3. PICK top \in next - 1..ChainLen :
        /\ \A h \in next..top : q[h] # NoBlock
        /\ log' = log \o [i \in 1..top - next + 1 |-> q[next + i - 1]]
        /\ queue' = [h \in Heights |-> IF h \in next..top THEN NoBlock ELSE q[h]]
  <2>1. CASE \E i \in 1..Len(bs) : bs[i].height = next
    BY <2>1 DEF StoreAndMaybeConsume
  <2>2. CASE ~ \E i \in 1..Len(bs) : bs[i].height = next
    <3>1. PICK top \in next - 1..ChainLen :
            /\ top = next - 1
            /\ log' = log \o [i \in 1..top - next + 1 |-> q[next + i - 1]]
            /\ queue' = [h \in Heights |-> IF h \in next..top THEN NoBlock ELSE q[h]]
      BY <2>2 DEF StoreAndMaybeConsume
    <3>2. \A h \in next..top : FALSE
      BY <1>2, <3>1
    <3> QED
      BY <3>1, <3>2
  <2> QED
    BY <2>1, <2>2
<1>4. \A h \in next..top : q[h] \in Checked
  <2>1. \A h \in next..top : h \in Heights
    BY <1>2, <1>3, Bounds DEF Heights
  <2> QED
    BY <1>1, <1>3, <2>1
<1> HIDE DEF q
<1>5. [i \in 1..top - next + 1 |-> q[next + i - 1]] \in Seq(Checked)
  <2>1. top - next + 1 \in Nat
    BY <1>2, <1>3, Bounds
  <2>2. \A i \in 1..top - next + 1 : next + i - 1 \in next..top
    BY <1>2, <1>3, Bounds
  <2> DEFINE m == top - next + 1
  <2>3. [i \in 1..m |-> q[next + i - 1]] \in [1..m -> Checked]
    BY <1>4, <2>2
  <2>4. m \in Nat
    BY <2>1
  <2> HIDE DEF m
  <2>5. [i \in 1..m |-> q[next + i - 1]] \in Seq(Checked)
    BY <2>3, <2>4, SeqDef
  <2> QED
    BY <2>5 DEF m
<1>6. log' \in Seq(Checked)
  BY <1>3, <1>5 DEF StoreInv
<1>7. queue' \in [Heights -> Checked \cup {NoBlock}]
  BY <1>1, <1>3
<1> QED
  BY <1>6, <1>7

-----------------------------------------------------------------------------
(* The inductive invariant *)

LEMMA InitInv == Init => IInv
<1> SUFFICES ASSUME Init PROVE IInv
  OBVIOUS
<1>1. \A h \in Heights : GoodAt(h) \in Checked
  BY Bounds, ChainAssumption DEF GoodAt, Checked, AnyBlock, Heights
<1>2. log \in Seq(Checked)
  <2>1. \A i \in 1..StartHeight + 1 : i - 1 \in Heights
    BY ChainAssumption DEF Heights
  <2>2. log \in [1..StartHeight + 1 -> Checked]
    BY <1>1, <2>1 DEF Init
  <2> QED
    BY <2>2, Bounds
<1>3. glue \in [Heights -> AnyBlock \cup {NoBlock}]
  BY <1>1 DEF Init, Checked
<1>4. queue \in [Heights -> Checked \cup {NoBlock}]
  BY <1>1 DEF Init
<1>5. batch \in [Ranges -> [stage : Stages, from : AnyMeta, ids : Int,
                             fetched : Seq(AnyBlock), chain : Seq(AnyBlock)]]
  BY RangeType DEF Init, Stages
<1>6. \A r \in Ranges : batch[r].stage = "empty"
  BY DEF Init
<1> QED
  BY <1>2, <1>3, <1>4, <1>5, <1>6 DEF IInv, Shape, StoreInv

LEMMA StepInv == IInv /\ [Next]_vars => IInv'
<1> SUFFICES ASSUME IInv, [Next]_vars PROVE IInv'
  OBVIOUS
<1> USE DEF IInv
<1>1. ASSUME NEW r \in Ranges, FetchBlockIDs(r) PROVE IInv'
  <2>1. Smaller(MaxIds, ChainLen - batch[r].from.id) \in Int
        /\ Smaller(MaxIds, ChainLen - batch[r].from.id) >= 1
    BY <1>1, Bounds DEF FetchBlockIDs, Smaller
  <2>2. Shape'
    BY <1>1, <2>1, ZenonT(40) DEF FetchBlockIDs, Shape, Stages
  <2> QED
    BY <1>1, <2>1, <2>2 DEF FetchBlockIDs, Shape, StoreInv
<1>2. ASSUME NEW r \in Ranges, NEW k \in Answers, FetchBlocks(r, k) PROVE IInv'
  <2> DEFINE n == Smaller(Len(k), batch[r].ids)
             f == SetHeights(batch[r].from, k, n)
  <2>1. n \in 1..Len(k)
    BY <1>2, AnswerType DEF FetchBlocks, Shape, StoreInv, Smaller
  <2>2. f \in Seq(AnyBlock) /\ f # <<>>
    BY <2>1, AnswerType, SetHeightsType DEF Shape
  <2>3. batch' = [batch EXCEPT ![r].stage = "blocks", ![r].fetched = f]
        /\ UNCHANGED <<glue, log, queue>>
    BY <1>2 DEF FetchBlocks
  <2> HIDE DEF n, f
  <2>4. Shape'
    BY <2>2, <2>3, ZenonT(40) DEF Shape, Stages
  <2> QED
    BY <2>2, <2>3, <2>4 DEF Shape, StoreInv
<1>3. ASSUME NEW r \in Ranges, Glue(r) PROVE IInv'
  <2> DEFINE bs    == batch[r].fetched
             first == bs[1]
             last  == bs[Len(bs)]
             pred  == Cached(glue, first.height - 1)
             g     == IF pred # <<>> THEN glue ELSE [glue EXCEPT ![first.height] = first]
             succ  == Cached(g, last.height + 1)
             c     == pred \o bs \o succ
  <2>1. bs \in Seq(AnyBlock) /\ bs # <<>>
    BY <1>3 DEF Glue, Shape, StoreInv
  <2>2. first \in AnyBlock /\ last \in AnyBlock
    BY <2>1
  <2>3. pred \in Seq(AnyBlock)
    BY CachedType DEF Shape
  <2>4. g \in [Heights -> AnyBlock \cup {NoBlock}]
    BY <2>2 DEF Shape
  <2>5. succ \in Seq(AnyBlock)
    BY <2>4, CachedType
  <2>6. /\ batch' = [batch EXCEPT ![r].stage = "glued", ![r].chain = c]
        /\ glue' = IF succ # <<>> THEN [g EXCEPT ![last.height + 1] = NoBlock]
                                  ELSE [g EXCEPT ![last.height] = last]
        /\ UNCHANGED <<log, queue>>
    BY <1>3 DEF Glue
  <2>7. c \in Seq(AnyBlock) /\ c # <<>>
    <3> HIDE DEF pred, succ, bs
    <3> QED
      BY <2>1, <2>3, <2>5
  <2> HIDE DEF bs, first, last, pred, g, succ, c
  <2>8. Shape'
    BY <2>2, <2>4, <2>6, <2>7, ZenonT(40) DEF Shape, Stages
  <2> QED
    BY <2>6, <2>7, <2>8 DEF Shape, StoreInv
<1>4. ASSUME NEW r \in Ranges, Refetch(r) PROVE IInv'
  <2>1. /\ batch' = [batch EXCEPT ![r].stage = "empty", ![r].ids = 0,
                                   ![r].fetched = <<>>, ![r].chain = <<>>]
        /\ UNCHANGED <<glue, log, queue>>
    BY <1>4 DEF Refetch
  <2>2. /\ batch' \in [Ranges -> [stage : Stages, from : AnyMeta, ids : Int,
                                   fetched : Seq(AnyBlock), chain : Seq(AnyBlock)]]
        /\ \A t \in Ranges : batch'[t] = batch[t] \/ batch'[t].stage = "empty"
    <3> DEFINE b == [batch[r] EXCEPT !.stage = "empty", !.ids = 0,
                                     !.fetched = <<>>, !.chain = <<>>]
    <3>1. b \in [stage : Stages, from : AnyMeta, ids : Int,
                 fetched : Seq(AnyBlock), chain : Seq(AnyBlock)]
      <4>1. batch[r] \in [stage : Stages, from : AnyMeta, ids : Int,
                          fetched : Seq(AnyBlock), chain : Seq(AnyBlock)]
        BY DEF Shape
      <4>2. "empty" \in Stages /\ <<>> \in Seq(AnyBlock) /\ 0 \in Int
        BY DEF Stages
      <4> QED
        BY <4>1, <4>2
    <3>2. b.stage = "empty"
      BY DEF Shape
    <3>3. batch' = [batch EXCEPT ![r] = b]
      BY <2>1 DEF Shape
    <3> HIDE DEF b
    <3> QED
      BY <3>1, <3>2, <3>3 DEF Shape
  <2>3. Shape'
    BY <2>1, <2>2 DEF Shape
  <2> QED
    BY <2>1, <2>2, <2>3 DEF Shape, StoreInv
<1>5. ASSUME NEW r \in Ranges, Store(r) PROVE IInv'
  <2> DEFINE c    == batch[r].chain
             from == [id |-> IdOf(c),
                      height |-> batch[r].from.height + Len(batch[r].fetched)]
             b    == [stage |-> IF from.height < ToOf(r) THEN "empty" ELSE "done",
                      from |-> from, ids |-> 0, fetched |-> <<>>, chain |-> <<>>]
  <2>1. c \in Seq(AnyBlock) /\ c # <<>> /\ Valid(c)
    BY <1>5 DEF Store, Shape, StoreInv
  <2>2. IdOf(c) \in Int
    <3>1. c[Len(c)] \in AnyBlock
      BY <2>1
    <3> QED
      BY <3>1 DEF IdOf, AnyBlock, NoId
  <2>3. from \in AnyMeta
    BY <2>2 DEF Shape, AnyMeta
  <2>4. batch' = [batch EXCEPT ![r] = b] /\ glue' = glue
        /\ StoreAndMaybeConsume(Tail(c))
    BY <1>5 DEF Store
  <2>5. b \in [stage : Stages, from : AnyMeta, ids : Int,
               fetched : Seq(AnyBlock), chain : Seq(AnyBlock)]
        /\ b.stage \in {"empty", "done"}
    <3> HIDE DEF from
    <3> QED
      BY <2>3 DEF Stages
  <2>6. log' \in Seq(Checked) /\ queue' \in [Heights -> Checked \cup {NoBlock}]
    <3> HIDE DEF c
    <3> QED
      BY <2>1, <2>4, ValidTail, StoreKeepsChecked
  <2> HIDE DEF b, c, from
  <2>7. Shape'
    BY <2>4, <2>5 DEF Shape
  <2> QED
    BY <2>4, <2>5, <2>6, <2>7 DEF Shape, StoreInv
<1>6. CASE UNCHANGED vars
  BY <1>6 DEF vars, Shape, StoreInv
<1> QED
  BY <1>1, <1>2, <1>3, <1>4, <1>5, <1>6 DEF Next, Fetch, Validate

\* Nothing that fails its checks reaches the queue or the chain, however blocks
\* are passed between ranges before they are validated.
THEOREM ValidOnly == Spec => []OnlyValidStored
<1>1. IInv => OnlyValidStored
  <2> SUFFICES ASSUME IInv PROVE OnlyValidStored
    OBVIOUS
  <2>1. \A i \in 1..Len(log) : log[i] \in Checked
    BY DEF IInv, StoreInv
  <2> QED
    BY <2>1 DEF IInv, StoreInv, OnlyValidStored, Checked
<1> QED
  BY InitInv, StepInv, <1>1, PTL DEF Spec

-----------------------------------------------------------------------------
(* The ranges *)

\* Induction, for a set of numbers: were x left out of S, so would be x - 1,
\* and stepping down would map the numbers up to x that are left out into
\* themselves and never reach x.
LEMMA SetInduction ==
    ASSUME NEW S, 0 \in S, \A k \in Nat : k \in S => k + 1 \in S
    PROVE  \A k \in Nat : k \in S
  <1> SUFFICES ASSUME NEW x \in Nat, x \notin S PROVE FALSE
    OBVIOUS
  <1> DEFINE T == {y \in 0 .. x : y \notin S}
             down == [y \in T |-> y - 1]
  <1>1. IsFiniteSet(T)
    <2>1. IsFiniteSet(0 .. x) /\ T \in SUBSET (0 .. x)
      BY FS_Interval
    <2> HIDE DEF T
    <2> QED
      BY <2>1, FS_Subset
  <1>2. \A y \in T : y - 1 \in T
    <2> TAKE y \in T
    <2>1. y \in Nat /\ y # 0 /\ y <= x
      OBVIOUS
    <2>2. y - 1 \in Nat /\ (y - 1) + 1 = y /\ y - 1 <= x
      BY <2>1
    <2> QED
      BY <2>2
  <1>3. down \in Injection(T, T)
    <2>1. down \in [T -> T]
      BY <1>2
    <2>2. \A y, z \in T : down[y] = down[z] => y = z
      OBVIOUS
    <2> QED
      BY <2>1, <2>2, Zenon DEF Injection, IsInjective
  <1>4. down \in Surjection(T, T)
    <2> HIDE DEF T, down
    <2> QED
      BY <1>1, <1>3, FS_Injection
  <1>5. x \in T
    OBVIOUS
  <1>6. PICK y \in T : down[y] = x
    <2> HIDE DEF T, down
    <2> QED
      BY <1>4, <1>5, Zenon DEF Surjection
  <1> QED
    BY <1>6

\* Where the range r begins.
Start(r) == FromOf(r).height

LEMMA RangeFacts ==
    ASSUME NEW r \in Ranges
    PROVE  /\ r \in 1..Len(Milestones) /\ r + 1 \in 1..Len(Milestones)
           /\ Milestones[r] \in Nat /\ ToOf(r) \in Nat
           /\ Start(r) \in Nat /\ Start(r) < ToOf(r)
           /\ Start(r) >= StartHeight /\ Start(r) >= Milestones[r]
           /\ FromOf(r).id = Start(r)
           /\ Start(r) = StartHeight \/ Start(r) = Milestones[r]
<1>1. r \in 1..Len(Milestones) /\ r + 1 \in 1..Len(Milestones)
      /\ r \in 1..Len(Milestones) - 1
  BY MilestoneAssumption DEF Ranges
<1>2. Milestones[r] \in Nat /\ Milestones[r + 1] \in Nat
  BY <1>1, MilestoneAssumption
<1>3. Milestones[r] < Milestones[r + 1]
  BY <1>1, MilestoneAssumption
<1>4. Milestones[r + 1] > StartHeight
  BY DEF Ranges
<1> QED
  BY <1>1, <1>2, <1>3, <1>4, Bounds DEF FromOf, ToOf, Start

\* Milestones grow, not only from one to the next.
LEMMA MilestonesGrow ==
    \A i, j \in 1..Len(Milestones) : i < j => Milestones[i] < Milestones[j]
<1> DEFINE P(k) == \A i \in 1..Len(Milestones) :
                     i + k + 1 \in 1..Len(Milestones)
                       => Milestones[i] < Milestones[i + k + 1]
           S == {k \in Nat : P(k)}
<1>1. \A i \in 1..Len(Milestones) : Milestones[i] \in Nat
  BY MilestoneAssumption
<1>2. \A i \in 1..Len(Milestones) : i + 1 \in 1..Len(Milestones)
         => Milestones[i] < Milestones[i + 1]
  BY MilestoneAssumption
<1>3. P(0)
  <2>1. \A i \in 1..Len(Milestones) : i + 0 + 1 = i + 1
    OBVIOUS
  <2> QED
    BY <1>2, <2>1
<1>4. ASSUME NEW k \in Nat, P(k) PROVE P(k + 1)
  <2> SUFFICES ASSUME NEW i \in 1..Len(Milestones),
                      i + (k + 1) + 1 \in 1..Len(Milestones)
               PROVE  Milestones[i] < Milestones[i + (k + 1) + 1]
    OBVIOUS
  <2> DEFINE j == i + k + 1
  <2>1. j \in 1..Len(Milestones) /\ j + 1 \in 1..Len(Milestones)
        /\ i + (k + 1) + 1 = j + 1
    BY MilestoneAssumption
  <2>2. Milestones[i] < Milestones[j]
    BY <1>4, <2>1
  <2>3. Milestones[j] < Milestones[j + 1]
    BY <1>2, <2>1
  <2> HIDE DEF j, P
  <2>4. Milestones[i] \in Nat /\ Milestones[j] \in Nat /\ Milestones[j + 1] \in Nat
    BY <1>1, <2>1
  <2>5. Milestones[i] < Milestones[j + 1]
    BY <2>2, <2>3, <2>4
  <2> QED
    BY <2>1, <2>5
<1> HIDE DEF P
<1>5. \A k \in Nat : k \in S
  <2>1. 0 \in S /\ \A k \in Nat : k \in S => k + 1 \in S
    BY <1>3, <1>4
  <2> QED
    BY <2>1, SetInduction
<1>6. \A k \in Nat : P(k)
  BY <1>5
<1> SUFFICES ASSUME NEW i \in 1..Len(Milestones), NEW j \in 1..Len(Milestones), i < j
             PROVE  Milestones[i] < Milestones[j]
  OBVIOUS
<1>7. (j - i) - 1 \in Nat /\ i + ((j - i) - 1) + 1 = j
  OBVIOUS
<1> QED
  BY <1>6, <1>7 DEF P

\* Ranges follow one another and do not overlap.
LEMMA RangesApart ==
    ASSUME NEW r \in Ranges, NEW s \in Ranges, r < s
    PROVE  ToOf(r) <= Start(s)
<1>1. r + 1 = s \/ Milestones[r + 1] < Milestones[s]
  <2>1. r + 1 \in 1..Len(Milestones) /\ s \in 1..Len(Milestones) /\ r \in Nat
    BY RangeFacts
  <2>2. r + 1 = s \/ r + 1 < s
    BY <2>1
  <2> QED
    BY <2>1, <2>2, MilestonesGrow
<1>2. Milestones[r + 1] \in Nat /\ Milestones[s] \in Nat /\ Start(s) \in Nat
      /\ Start(s) >= Milestones[s]
  <2>1. r + 1 \in 1..Len(Milestones)
    BY RangeFacts
  <2>2. Milestones[r + 1] \in Nat
    BY <2>1, MilestoneAssumption
  <2> QED
    BY <2>2, RangeFacts
<1> QED
  BY <1>1, <1>2 DEF ToOf

\* A height belongs to one range at most.
LEMMA OneRangeEach ==
    ASSUME NEW r \in Ranges, NEW s \in Ranges, NEW h \in Int,
           Start(r) < h, h <= ToOf(r), Start(s) < h, h <= ToOf(s)
    PROVE  r = s
<1>1. r \in Nat /\ s \in Nat /\ Start(r) \in Nat /\ Start(s) \in Nat
      /\ ToOf(r) \in Nat /\ ToOf(s) \in Nat
  BY RangeFacts
<1>2. CASE r < s
  BY <1>1, <1>2, RangesApart
<1>3. CASE s < r
  BY <1>1, <1>3, RangesApart
<1> QED
  BY <1>1, <1>2, <1>3

\* The end of a range is a height of the chain.
LEMMA EndInChain ==
    ASSUME NEW r \in Ranges PROVE ToOf(r) <= Last /\ ToOf(r) <= ChainLen /\ Last \in Nat
<1>1. Len(Milestones) \in 1..Len(Milestones)
  BY MilestoneAssumption
<1>2. Milestones[Len(Milestones)] \in Nat /\ Milestones[Len(Milestones)] <= ChainLen
  BY <1>1, MilestoneAssumption, ChainAssumption
<1>3. r + 1 \in 1..Len(Milestones) /\ ToOf(r) \in Nat
  BY RangeFacts
<1>4. r + 1 = Len(Milestones) \/ ToOf(r) < Milestones[Len(Milestones)]
  <2>1. r + 1 = Len(Milestones) \/ r + 1 < Len(Milestones)
    BY <1>1, <1>3
  <2> QED
    BY <1>1, <1>3, <2>1, MilestonesGrow DEF ToOf
<1> QED
  BY <1>2, <1>3, <1>4, Bounds DEF Last, ToOf

\* A range that does not begin at the start of the node has one before it, which
\* ends where it begins.
LEMMA RangeBefore ==
    ASSUME NEW r \in Ranges, Start(r) # StartHeight
    PROVE  r - 1 \in Ranges /\ ToOf(r - 1) = Start(r)
<1>1. Start(r) = Milestones[r] /\ Milestones[r] > StartHeight /\ r \in 1..Len(Milestones) - 1
  BY RangeFacts, Bounds DEF Ranges
<1>2. r # 1
  BY <1>1, MilestoneAssumption, Bounds
<1>3. r - 1 \in 1..Len(Milestones) - 1 /\ (r - 1) + 1 = r
  BY <1>1, <1>2, MilestoneAssumption
<1> QED
  BY <1>1, <1>3 DEF Ranges, ToOf

\* A range that follows another begins where that ends.
LEMMA RangeAfter ==
    ASSUME NEW r \in Ranges, r + 1 \in Ranges
    PROVE  Start(r + 1) = ToOf(r) /\ Start(r + 1) # StartHeight
<1>1. Milestones[r + 1] > StartHeight /\ ToOf(r) = Milestones[r + 1] /\ ToOf(r) \in Nat
  BY RangeFacts DEF Ranges, ToOf
<1>2. Start(r + 1) = StartHeight \/ Start(r + 1) = Milestones[r + 1]
  BY RangeFacts
<1>3. Start(r + 1) >= Milestones[r + 1]
  BY RangeFacts
<1> QED
  BY <1>1, <1>2, <1>3, Bounds

\* Every height between the start of the node and the last milestone is in a range.
LEMMA EveryHeightInRange ==
    ASSUME NEW h \in StartHeight + 1..Last
    PROVE  \E r \in Ranges : Start(r) < h /\ h <= ToOf(r)
<1> DEFINE P(k) == k \in 1..Len(Milestones) /\ h <= Milestones[k]
                     => \E r \in Ranges : Start(r) < h /\ h <= ToOf(r)
           S == {k \in Nat : P(k)}
<1>0. Len(Milestones) \in Nat /\ h \in Int /\ h > StartHeight /\ StartHeight \in Nat
      /\ Milestones[1] = 0 /\ Len(Milestones) >= 1
      /\ \A k \in 1..Len(Milestones) : Milestones[k] \in Nat
  BY MilestoneAssumption, Bounds
<1>1. P(0)
  BY <1>0
<1>2. ASSUME NEW k \in Nat, P(k) PROVE P(k + 1)
  <2> SUFFICES ASSUME k + 1 \in 1..Len(Milestones), h <= Milestones[k + 1]
               PROVE  \E r \in Ranges : Start(r) < h /\ h <= ToOf(r)
    OBVIOUS
  <2>1. k \in 1..Len(Milestones) - 1
    <3>1. k # 0
      BY <1>0
    <3> QED
      BY <1>0, <3>1
  <2>2. CASE h <= Milestones[k]
    BY <1>2, <2>1, <2>2, <1>0
  <2>3. CASE ~(h <= Milestones[k])
    <3> HIDE DEF P
    <3>1. Milestones[k] \in Nat /\ Milestones[k + 1] \in Nat
      BY <1>0, <2>1
    <3>2. k \in Ranges
      BY <1>0, <2>1, <3>1 DEF Ranges
    <3>3. Start(k) < h /\ h <= ToOf(k)
      BY <1>0, <2>3, <3>1 DEF Start, FromOf, ToOf
    <3> QED
      BY <3>2, <3>3
  <2> QED
    BY <2>2, <2>3
<1>3. h <= Milestones[Len(Milestones)] /\ Len(Milestones) \in 1..Len(Milestones)
  <2>1. Last \in Nat /\ h <= Last
    <3>1. Last \in Nat
      BY <1>0 DEF Last
    <3> QED
      BY <3>1, <1>0
  <2> QED
    BY <1>0, <2>1 DEF Last
<1> HIDE DEF P
<1>4. \A k \in Nat : k \in S
  <2>1. 0 \in S /\ \A k \in Nat : k \in S => k + 1 \in S
    BY <1>1, <1>2
  <2> QED
    BY <2>1, SetInduction
<1>5. P(Len(Milestones))
  BY <1>0, <1>4
<1> QED
  BY <1>3, <1>5 DEF P

-----------------------------------------------------------------------------
(* Heights, when every answer ends within its range.  Then a range advances *)
(* by c blocks at a time, its edges are cached under their own heights, and *)
(* nothing of a range is cached before the range gets there.                *)

\* c blocks at a time lead from x to t exactly.
Steps(c, x, t) == \E k \in Nat : t = x + k * c

\* Every answer gives c blocks and every range is cut into such answers.  (The
\* milestones of the configuration are multiples of the 100 ids of an answer.)
Aligned(c) ==
    /\ c \in Nat \ {0}
    /\ \A n \in Chunks : Smaller(n, MaxIds) = c
    /\ \A r \in Ranges : Steps(c, Start(r), ToOf(r))

\* s holds the blocks of the heights lo..hi, each at its height.
Row(s, lo, hi) ==
    /\ Len(s) = (hi - lo) + 1
    /\ \A i \in 1..Len(s) : s[i].pos = (lo + i) - 1 /\ s[i].height = (lo + i) - 1

\* Where the batch of a range b is, and that it holds the blocks that follow.
BatchInv(c, r, b) ==
    LET x == b.from.height
    IN  b.stage # "done" =>
          /\ Start(r) <= x /\ x < ToOf(r) /\ Steps(c, x, ToOf(r))
          /\ b.from.id \in {x, NoId}
          /\ b.stage = "ids" => b.from.id = x /\ b.ids = Smaller(MaxIds, ChainLen - x)
          /\ b.stage \in {"blocks", "glued"} => Row(b.fetched, x + 1, x + c)
          /\ b.stage = "glued" =>
               \E lo \in {x, x + 1}, hi \in {x + c, x + c + 1} :
                  Row(b.chain, lo, hi) /\ (hi = x + c \/ x + c = ToOf(r))

HeightInv(c) ==
    /\ \A r \in Ranges : BatchInv(c, r, batch[r])
    /\ \A h \in Heights : glue[h] # NoBlock => glue[h].pos = h /\ glue[h].height = h
    /\ \A r \in Ranges : \A h \in Heights :
         Start(r) < h /\ h <= ToOf(r) /\ glue[h] # NoBlock /\ batch[r].stage # "done"
           => h <= batch[r].from.height + c
    /\ StoredAtOwnHeight

LEMMA StepsOn ==
    ASSUME NEW c \in Nat \ {0}, NEW x \in Nat, NEW t \in Nat, Steps(c, x, t), x < t
    PROVE  x + c <= t /\ Steps(c, x + c, t)
<1>1. PICK k \in Nat : t = x + k * c
  BY DEF Steps
<1>2. k # 0
  BY <1>1
<1>3. PICK j \in Nat : k = j + 1
  <2>1. k - 1 \in Nat /\ k = (k - 1) + 1
    BY <1>2
  <2> QED
    BY <2>1
<1>4. k * c = j * c + c
  BY <1>3
<1>5. j * c \in Nat
  OBVIOUS
<1>6. t = (x + c) + j * c
  BY <1>1, <1>4, <1>5
<1> QED
  BY <1>5, <1>6 DEF Steps

\* A row and the row that follows make a row.
LEMMA RowConcat ==
    ASSUME NEW s \in Seq(AnyBlock), NEW t \in Seq(AnyBlock),
           NEW lo \in Int, NEW m \in Int, NEW hi \in Int,
           Row(s, lo, m), Row(t, m + 1, hi)
    PROVE  Row(s \o t, lo, hi)
<1>1. Len(s) \in Nat /\ Len(t) \in Nat /\ Len(s \o t) = Len(s) + Len(t)
      /\ Len(s) = (m - lo) + 1 /\ Len(t) = (hi - (m + 1)) + 1
  BY DEF Row
<1>2. \A i \in 1..Len(s \o t) :
        (s \o t)[i] = IF i <= Len(s) THEN s[i] ELSE t[i - Len(s)]
  OBVIOUS
<1> SUFFICES ASSUME NEW i \in 1..Len(s \o t)
             PROVE  /\ (s \o t)[i].pos = (lo + i) - 1
                    /\ (s \o t)[i].height = (lo + i) - 1
  BY <1>1 DEF Row
<1>3. CASE i <= Len(s)
  <2>1. i \in 1..Len(s)
    BY <1>1, <1>3
  <2> QED
    BY <1>2, <1>3, <2>1 DEF Row
<1>4. CASE ~(i <= Len(s))
  <2>1. i - Len(s) \in 1..Len(t)
    BY <1>1, <1>4
  <2>2. t[i - Len(s)].pos = ((m + 1) + (i - Len(s))) - 1
        /\ t[i - Len(s)].height = ((m + 1) + (i - Len(s))) - 1
    BY <2>1 DEF Row
  <2>3. ((m + 1) + (i - Len(s))) - 1 = (lo + i) - 1
    BY <1>1
  <2> QED
    BY <1>2, <1>4, <2>2, <2>3
<1> QED
  BY <1>3, <1>4

\* What the cache gives for a height is the row of that height, or nothing.
LEMMA CachedRow ==
    ASSUME NEW g \in [Heights -> AnyBlock \cup {NoBlock}], NEW h \in Int,
           \A k \in Heights : g[k] # NoBlock => g[k].pos = k /\ g[k].height = k
    PROVE  /\ h \in Heights /\ g[h] # NoBlock => Row(Cached(g, h), h, h) /\ Cached(g, h) # <<>>
           /\ ~(h \in Heights /\ g[h] # NoBlock) =>
                Cached(g, h) = <<>> /\ Row(Cached(g, h), h + 1, h) /\ Row(Cached(g, h), h, h - 1)
<1>1. CASE h \in Heights /\ g[h] # NoBlock
  <2>1. Cached(g, h) = <<g[h]>>
    BY <1>1 DEF Cached
  <2>2. Len(<<g[h]>>) = 1 /\ <<g[h]>>[1] = g[h] /\ <<g[h]>> # <<>>
    OBVIOUS
  <2>3. g[h].pos = h /\ g[h].height = h
    BY <1>1
  <2>4. Row(<<g[h]>>, h, h)
    BY <2>2, <2>3 DEF Row
  <2> QED
    BY <1>1, <2>1, <2>2, <2>4
<1>2. CASE ~(h \in Heights /\ g[h] # NoBlock)
  <2>1. Cached(g, h) = <<>>
    BY <1>2 DEF Cached
  <2> QED
    BY <1>2, <2>1 DEF Row
<1> QED
  BY <1>1, <1>2

\* What validateBlocks finds: where the batch is and what it holds.
LEMMA BeforeGlue ==
    ASSUME IInv, NEW c, Aligned(c), HeightInv(c), NEW r \in Ranges, Glue(r),
           NEW x, x = batch[r].from.height, NEW f, f = batch[r].fetched
    PROVE  /\ c \in Nat \ {0} /\ x \in Nat /\ x + c \in Heights /\ x \in Heights
           /\ Start(r) <= x /\ x < ToOf(r) /\ x + c <= ToOf(r) /\ ToOf(r) \in Nat
           /\ f \in Seq(AnyBlock) /\ Row(f, x + 1, x + c) /\ Len(f) = c
           /\ f[1] \in AnyBlock /\ f[1].pos = x + 1 /\ f[1].height = x + 1
           /\ f[c] \in AnyBlock /\ f[c].pos = x + c /\ f[c].height = x + c
<1>1. batch[r].stage = "blocks"
  BY DEF Glue
<1>2. c \in Nat \ {0}
  BY DEF Aligned
<1>3. /\ Start(r) <= x /\ x < ToOf(r) /\ Steps(c, x, ToOf(r)) /\ Row(f, x + 1, x + c)
  BY <1>1 DEF HeightInv, BatchInv
<1>4. f \in Seq(AnyBlock) /\ x \in Int
  BY DEF IInv, Shape, AnyMeta
<1>5. ToOf(r) \in Nat /\ Start(r) \in Nat /\ ToOf(r) <= ChainLen
  BY RangeFacts, EndInChain
<1>6. x \in Nat
  BY <1>3, <1>4, <1>5
<1>7. x + c <= ToOf(r)
  BY <1>2, <1>3, <1>5, <1>6, StepsOn
<1>8. Len(f) = c
  <2>1. Len(f) = ((x + c) - (x + 1)) + 1
    BY <1>3 DEF Row
  <2> QED
    BY <2>1, <1>2, <1>6
<1>9. 1 \in 1..Len(f) /\ c \in 1..Len(f)
  BY <1>2, <1>8
<1>10. f[1] \in AnyBlock /\ f[c] \in AnyBlock
  BY <1>4, <1>9
<1>11. /\ f[1].pos = ((x + 1) + 1) - 1 /\ f[1].height = ((x + 1) + 1) - 1
       /\ f[c].pos = ((x + 1) + c) - 1 /\ f[c].height = ((x + 1) + c) - 1
  BY <1>3, <1>9 DEF Row
<1>12. ((x + 1) + 1) - 1 = x + 1 /\ ((x + 1) + c) - 1 = x + c
  BY <1>2, <1>6
<1>13. x + c \in Heights /\ x \in Heights
  BY <1>2, <1>5, <1>6, <1>7, Bounds DEF Heights
<1> QED
  BY <1>2, <1>3, <1>4, <1>5, <1>6, <1>7, <1>8, <1>10, <1>11, <1>12, <1>13

\* The chain that is glued: the batch, with the block before it and the block
\* after it where those are cached.
LEMMA GluedChain ==
    ASSUME IInv, NEW c, Aligned(c), HeightInv(c), NEW r \in Ranges, Glue(r),
           NEW x, x = batch[r].from.height
    PROVE  /\ \A s \in Ranges : s # r => batch'[s] = batch[s]
           /\ batch'[r].stage = "glued" /\ batch'[r].from = batch[r].from
           /\ batch'[r].fetched = batch[r].fetched
           /\ log' = log /\ queue' = queue
           /\ \E lo \in {x, x + 1}, hi \in {x + c, x + c + 1} :
                /\ Row(batch'[r].chain, lo, hi)
                /\ lo = x <=> glue[x] # NoBlock
                /\ hi = x + c + 1 <=> x + c + 1 \in Heights /\ glue[x + c + 1] # NoBlock
<1> DEFINE f     == batch[r].fetched
           first == f[1]
           last  == f[Len(f)]
           pred  == Cached(glue, first.height - 1)
           g     == IF pred # <<>> THEN glue ELSE [glue EXCEPT ![first.height] = first]
           succ  == Cached(g, last.height + 1)
           chain == pred \o f \o succ
<1>1. /\ c \in Nat \ {0} /\ x \in Nat /\ x + c \in Heights /\ x \in Heights
      /\ f \in Seq(AnyBlock) /\ Row(f, x + 1, x + c) /\ Len(f) = c
      /\ f[1] \in AnyBlock /\ f[1].pos = x + 1 /\ f[1].height = x + 1
      /\ f[c] \in AnyBlock /\ f[c].pos = x + c /\ f[c].height = x + c
  BY BeforeGlue, SMTT(20)
<1>2. batch' = [batch EXCEPT ![r].stage = "glued", ![r].chain = chain]
      /\ UNCHANGED <<log, queue>>
  BY DEF Glue
<1>3. batch \in [Ranges -> [stage : Stages, from : AnyMeta, ids : Int,
                             fetched : Seq(AnyBlock), chain : Seq(AnyBlock)]]
      /\ glue \in [Heights -> AnyBlock \cup {NoBlock}]
  BY DEF IInv, Shape
<1>4. first.height - 1 = x /\ last.height + 1 = x + c + 1 /\ first.height = x + 1
  BY <1>1
<1>5. \A k \in Heights : glue[k] # NoBlock => glue[k].pos = k /\ glue[k].height = k
  BY DEF HeightInv
<1>6. PICK lo \in {x, x + 1} : /\ lo = x <=> glue[x] # NoBlock
                               /\ Row(pred, lo, x) /\ pred \in Seq(AnyBlock)
                               /\ lo = x + 1 => pred = <<>>
                               /\ lo = x => pred # <<>>
  <2>1. pred = Cached(glue, x)
    BY <1>4
  <2>2. pred \in Seq(AnyBlock)
    BY <1>3, CachedType
  <2>3. CASE glue[x] # NoBlock
    <3>1. Row(Cached(glue, x), x, x) /\ Cached(glue, x) # <<>>
      BY <1>1, <1>3, <1>5, <2>3, CachedRow
    <3> QED
      BY <2>1, <2>2, <2>3, <3>1, <1>1
  <2>4. CASE glue[x] = NoBlock
    <3>1. Row(Cached(glue, x), x + 1, x) /\ Cached(glue, x) = <<>>
      BY <1>1, <1>3, <1>5, <2>4, CachedRow
    <3>2. x # x + 1
      BY <1>1
    <3> QED
      BY <2>1, <2>2, <2>4, <3>1, <3>2
  <2> QED
    BY <2>3, <2>4
<1>7. /\ g \in [Heights -> AnyBlock \cup {NoBlock}]
      /\ \A k \in Heights : g[k] # NoBlock => g[k].pos = k /\ g[k].height = k
      /\ \A k \in Heights : k # x + 1 => g[k] = glue[k]
  <2>1. CASE pred # <<>>
    BY <1>3, <1>5, <2>1
  <2>2. CASE pred = <<>>
    <3>1. g = [glue EXCEPT ![x + 1] = first]
      BY <1>4, <2>2
    <3> HIDE DEF g
    <3> QED
      BY <1>1, <1>3, <1>5, <3>1
  <2> QED
    BY <2>1, <2>2
<1> HIDE DEF g
<1>8. PICK hi \in {x + c, x + c + 1} :
        /\ hi = x + c + 1 <=> x + c + 1 \in Heights /\ glue[x + c + 1] # NoBlock
        /\ Row(succ, x + c + 1, hi) /\ succ \in Seq(AnyBlock)
  <2>1. succ = Cached(g, x + c + 1)
    BY <1>4
  <2>2. succ \in Seq(AnyBlock)
    BY <1>7, CachedType
  <2>3. x + c + 1 \in Int /\ x + c + 1 # x + 1 /\ x + c + 1 # x + c /\ (x + c + 1) - 1 = x + c
    BY <1>1, SMTT(20)
  <2>4. CASE x + c + 1 \in Heights /\ glue[x + c + 1] # NoBlock
    <3>1. g[x + c + 1] # NoBlock
      BY <1>7, <2>3, <2>4
    <3>2. Row(Cached(g, x + c + 1), x + c + 1, x + c + 1)
      BY <1>7, <2>3, <2>4, <3>1, CachedRow
    <3> QED
      BY <2>1, <2>2, <2>4, <3>2
  <2>5. CASE ~(x + c + 1 \in Heights /\ glue[x + c + 1] # NoBlock)
    <3>1. ~(x + c + 1 \in Heights /\ g[x + c + 1] # NoBlock)
      BY <1>7, <2>3, <2>5
    <3>2. Row(Cached(g, x + c + 1), x + c + 1, (x + c + 1) - 1)
      BY <1>7, <2>3, <3>1, CachedRow
    <3> QED
      BY <2>1, <2>2, <2>3, <2>5, <3>2
  <2> QED
    BY <2>4, <2>5
<1> HIDE DEF f, pred, succ
<1>ends. /\ x \in Int /\ x + c \in Int
         /\ lo \in Int /\ hi \in Int
  <2>1. x \in Nat /\ c \in Nat
    BY <1>1
  <2>2. lo = x \/ lo = x + 1
    OBVIOUS
  <2>3. hi = x + c \/ hi = x + c + 1
    OBVIOUS
  <2> QED
    BY ONLY <2>1, <2>2, <2>3
<1>9. Row(pred \o f, lo, x + c) /\ pred \o f \in Seq(AnyBlock)
  <2>1. lo \in Int /\ x \in Int /\ x + c \in Int
    BY ONLY <1>ends
  <2>2. Row(pred \o f, lo, x + c)
    BY <1>1, <1>6, <2>1, RowConcat
  <2>3. pred \o f \in Seq(AnyBlock)
    BY <1>1, <1>6
  <2> QED
    BY <2>2, <2>3
<1>10. Row(chain, lo, hi)
  <2>1. lo \in Int /\ x + c \in Int /\ hi \in Int
    BY ONLY <1>ends
  <2> QED
    BY <1>8, <1>9, <2>1, RowConcat
<1> HIDE DEF chain
<1>11. batch'[r].chain = chain /\ batch'[r].stage = "glued" /\ batch'[r].from = batch[r].from
       /\ batch'[r].fetched = batch[r].fetched
       /\ \A s \in Ranges : s # r => batch'[s] = batch[s]
  BY <1>2, <1>3
<1> QED
  BY <1>2, <1>6, <1>8, <1>10, <1>11

\* The cache after that: the edges of the batch, as far as they were not glued,
\* and no longer the block after it.
LEMMA GluedCache ==
    ASSUME IInv, NEW c, Aligned(c), HeightInv(c), NEW r \in Ranges, Glue(r),
           NEW x, x = batch[r].from.height, NEW f, f = batch[r].fetched
    PROVE  /\ \A h \in Heights : h \notin {x + 1, x + c, x + c + 1} => glue'[h] = glue[h]
           /\ x + c + 1 \in Heights => glue'[x + c + 1] = NoBlock
           /\ glue'[x + 1] \in {glue[x + 1], f[1]}
           /\ glue'[x + c] \in {glue[x + c], f[c]}
           /\ glue[x] = NoBlock => glue'[x + 1] = f[1]
           /\ ~(x + c + 1 \in Heights /\ glue[x + c + 1] # NoBlock) => glue'[x + c] = f[c]
<1> DEFINE first == f[1]
           last  == f[Len(f)]
           pred  == Cached(glue, first.height - 1)
           g     == IF pred # <<>> THEN glue ELSE [glue EXCEPT ![first.height] = first]
           succ  == Cached(g, last.height + 1)
<1>1. /\ c \in Nat \ {0} /\ x \in Nat /\ x + c \in Heights /\ x \in Heights
      /\ Len(f) = c
      /\ f[1] \in AnyBlock /\ f[1].height = x + 1
      /\ f[c] \in AnyBlock /\ f[c].height = x + c
  BY BeforeGlue
<1>2. glue' = IF succ # <<>> THEN [g EXCEPT ![last.height + 1] = NoBlock]
                            ELSE [g EXCEPT ![last.height] = last]
  BY DEF Glue
<1>3. glue \in [Heights -> AnyBlock \cup {NoBlock}]
  BY DEF IInv, Shape
<1>4. /\ first.height - 1 = x /\ last.height + 1 = x + c + 1 /\ first.height = x + 1
      /\ last.height = x + c /\ last = f[c]
  BY <1>1
<1>5. pred # <<>> <=> glue[x] # NoBlock
  BY <1>1, <1>4 DEF Cached
<1>6. (pred # <<>> => g = glue) /\ (pred = <<>> => g = [glue EXCEPT ![x + 1] = f[1]])
  BY <1>4
<1> HIDE DEF g, pred
<1>7. succ # <<>> <=> x + c + 1 \in Heights /\ g[x + c + 1] # NoBlock
  BY <1>4 DEF Cached
<1>8. /\ succ # <<>> => glue' = [g EXCEPT ![x + c + 1] = NoBlock]
      /\ succ = <<>> => glue' = [g EXCEPT ![x + c] = f[c]]
  BY <1>2, <1>4
<1> HIDE DEF succ, first, last
<1>9. x + 1 \in Heights /\ x + c + 1 # x + 1 /\ x + c + 1 # x + c /\ (x + 1 = x + c => c = 1)
  <2>1. c >= 1 /\ x + c <= ChainLen /\ c \in Nat /\ x \in Nat /\ ChainLen \in Nat
    BY <1>1, Bounds DEF Heights
  <2> QED
    BY <2>1 DEF Heights
<1>10. g \in [Heights -> AnyBlock \cup {NoBlock}]
       /\ (\A h \in Heights : h # x + 1 => g[h] = glue[h])
       /\ g[x + 1] \in {glue[x + 1], f[1]}
       /\ (glue[x] = NoBlock => g[x + 1] = f[1])
  <2>1. CASE pred # <<>>
    BY <1>3, <1>5, <1>6, <2>1
  <2>2. CASE pred = <<>>
    BY <1>1, <1>3, <1>5, <1>6, <1>9, <2>2
  <2> QED
    BY <2>1, <2>2
<1>11. g[x + c] \in {glue[x + c], f[c]}
  BY <1>1, <1>9, <1>10
<1>12. CASE succ # <<>>
  <2>1. /\ \A h \in Heights : h # x + c + 1 => glue'[h] = g[h]
        /\ glue'[x + c + 1] = NoBlock
        /\ x + c + 1 \in Heights /\ glue[x + c + 1] # NoBlock
    BY <1>7, <1>8, <1>9, <1>10, <1>12
  <2>2. glue'[x + 1] = g[x + 1] /\ glue'[x + c] = g[x + c]
    BY <1>1, <1>9, <2>1
  <2>3. \A h \in Heights : h \notin {x + 1, x + c, x + c + 1} => glue'[h] = glue[h]
    BY <1>10, <2>1
  <2> QED
    BY <1>10, <1>11, <2>1, <2>2, <2>3
<1>13. CASE succ = <<>>
  <2>1. /\ \A h \in Heights : h # x + c => glue'[h] = g[h]
        /\ glue'[x + c] = f[c]
        /\ ~(x + c + 1 \in Heights /\ glue[x + c + 1] # NoBlock)
    BY <1>1, <1>7, <1>8, <1>9, <1>10, <1>13
  <2>2. x + c + 1 \in Heights => glue'[x + c + 1] = NoBlock
    BY <1>9, <1>10, <2>1
  <2>3. x + 1 # x + c => glue'[x + 1] = g[x + 1]
    BY <1>9, <2>1
  <2>4. x + 1 = x + c => f[1] = f[c]
    BY <1>9
  <2>5. glue'[x + 1] \in {glue[x + 1], f[1]} /\ (glue[x] = NoBlock => glue'[x + 1] = f[1])
    <3>1. CASE x + 1 = x + c
      BY <2>1, <2>4, <3>1
    <3>2. CASE x + 1 # x + c
      BY <1>10, <2>3, <3>2
    <3> QED
      BY <3>1, <3>2
  <2>6. \A h \in Heights : h \notin {x + 1, x + c, x + c + 1} => glue'[h] = glue[h]
    BY <1>10, <2>1
  <2> QED
    BY <2>1, <2>2, <2>5, <2>6
<1> QED
  BY <1>12, <1>13

\* The queue holds a block that is stored, and what it held elsewhere.
LEMMA QueuedFacts ==
    ASSUME NEW bs \in Seq(AnyBlock), NEW h \in Heights
    PROVE  \/ \E i \in 1..Len(bs) : bs[i].height = h /\ Queued(bs)[h] = bs[i]
           \/ (\A i \in 1..Len(bs) : bs[i].height # h) /\ Queued(bs)[h] = queue[h]
<1>1. CASE \E i \in 1..Len(bs) : bs[i].height = h
  <2> DEFINE j == CHOOSE i \in 1..Len(bs) : bs[i].height = h
  <2>1. j \in 1..Len(bs) /\ bs[j].height = h
    BY <1>1
  <2>2. Queued(bs)[h] = bs[j]
    BY <1>1 DEF Queued
  <2> HIDE DEF j
  <2> QED
    BY <2>1, <2>2
<1>2. CASE ~ \E i \in 1..Len(bs) : bs[i].height = h
  BY <1>2 DEF Queued
<1> QED
  BY <1>1, <1>2

\* Storing extends the log by what the queue holds next.
LEMMA StoreFacts ==
    ASSUME IInv, NEW bs \in Seq(AnyBlock), StoreAndMaybeConsume(bs)
    PROVE  /\ Len(log') \in Nat /\ Len(log') >= Len(log) /\ Len(log) \in Nat
           /\ \A i \in 1..Len(log) : log'[i] = log[i]
           /\ \A i \in 1..Len(log') : i > Len(log) =>
                /\ i - 1 \in Heights /\ log'[i] = Queued(bs)[i - 1]
                /\ Queued(bs)[i - 1] # NoBlock
           /\ \A h \in Heights :
                \/ h >= Len(log) /\ h < Len(log') /\ queue'[h] = NoBlock
                \/ (h < Len(log) \/ h >= Len(log')) /\ queue'[h] = Queued(bs)[h]
           /\ (\E i \in 1..Len(bs) : bs[i].height = Len(log)) =>
                (Len(log') \in Heights => queue'[Len(log')] = NoBlock)
           /\ (\A i \in 1..Len(bs) : bs[i].height # Len(log)) => log' = log
<1> DEFINE q     == Queued(bs)
           next  == Len(log)
           ready == \E i \in 1..Len(bs) : bs[i].height = next
<1>1. next \in Nat /\ log \in Seq(Checked)
  BY DEF IInv, StoreInv
<1>2. PICK top \in next - 1..ChainLen :
        /\ ready => /\ \A h \in next..top : q[h] # NoBlock
                    /\ top < ChainLen => q[top + 1] = NoBlock
        /\ ~ready => top = next - 1
        /\ log' = log \o [i \in 1..top - next + 1 |-> q[next + i - 1]]
        /\ queue' = [h \in Heights |-> IF h \in next..top THEN NoBlock ELSE q[h]]
  <2>1. CASE ready
    BY <2>1 DEF StoreAndMaybeConsume
  <2>2. CASE ~ready
    BY <2>2 DEF StoreAndMaybeConsume
  <2> QED
    BY <2>1, <2>2
<1> DEFINE m == top - next + 1
           t == [i \in 1..m |-> q[next + i - 1]]
<1> HIDE DEF q, ready
<1>3. m \in Nat /\ top = (next + m) - 1 /\ top \in Int /\ top <= ChainLen
  BY <1>1, <1>2, Bounds
<1>4. \A h \in next..top : q[h] # NoBlock
  <2>1. CASE ready
    BY <1>2, <2>1
  <2>2. CASE ~ready
    <3>1. \A h \in next..top : FALSE
      BY <1>1, <1>2, <2>2
    <3> QED
      BY <3>1
  <2> QED
    BY <2>1, <2>2
<1>5. \A i \in 1..m : next + i - 1 \in next..top /\ next + i - 1 \in Heights
  BY <1>1, <1>3, Bounds DEF Heights
<1> DEFINE V == {q[k] : k \in next..top}
<1>6. t \in Seq(V) /\ Len(t) = m /\ log' = log \o t
  <2>1. t \in [1..m -> V]
    BY <1>5
  <2>2. log' = log \o t
    BY <1>2
  <2> HIDE DEF m, t, V
  <2>3. t \in Seq(V) /\ Len(t) = m
    BY <1>3, <2>1, SeqDef
  <2> QED
    BY <2>2, <2>3
<1>7. \A i \in 1..m : t[i] = q[next + i - 1]
  OBVIOUS
<1> HIDE DEF m, t, V
<1>8. Len(log') = next + m
      /\ \A i \in 1..next + m : log'[i] = IF i <= next THEN log[i] ELSE t[i - next]
  <2>1. log \in Seq(Checked \cup V) /\ t \in Seq(Checked \cup V)
    BY <1>1, <1>6
  <2>2. Len(log \o t) = Len(log) + Len(t)
        /\ \A i \in 1..Len(log) + Len(t) :
             (log \o t)[i] = IF i <= Len(log) THEN log[i] ELSE t[i - Len(log)]
    BY <2>1, ConcatProperties
  <2> QED
    BY <1>6, <2>2
<1>9. /\ \A i \in 1..next : log'[i] = log[i]
      /\ \A i \in 1..Len(log') : i > next =>
           i - 1 \in Heights /\ log'[i] = q[i - 1] /\ q[i - 1] # NoBlock
  <2>1. \A i \in 1..next : i \in 1..next + m
    BY <1>1, <1>3
  <2>2. ASSUME NEW i \in 1..Len(log'), i > next
        PROVE  i - 1 \in Heights /\ log'[i] = q[i - 1] /\ q[i - 1] # NoBlock
    <3>1. i - next \in 1..m /\ next + (i - next) - 1 = i - 1 /\ ~(i <= next) /\ i \in 1..next + m
      BY <1>1, <1>3, <1>8, <2>2
    <3>2. log'[i] = t[i - next]
      BY <1>8, <3>1
    <3>3. t[i - next] = q[i - 1]
      BY <1>7, <3>1
    <3>4. i - 1 \in next..top /\ i - 1 \in Heights
      BY <1>5, <3>1
    <3> QED
      BY <1>4, <3>2, <3>3, <3>4
  <2> QED
    BY <1>8, <2>1, <2>2
<1>10. ASSUME NEW h \in Heights
       PROVE  \/ h >= next /\ h < Len(log') /\ queue'[h] = NoBlock
              \/ (h < next \/ h >= Len(log')) /\ queue'[h] = q[h]
  <2>1. h \in next..top <=> h >= next /\ h < Len(log')
    BY <1>1, <1>3, <1>8, Bounds DEF Heights
  <2>2. queue'[h] = IF h \in next..top THEN NoBlock ELSE q[h]
    BY <1>2
  <2>3. h \in Int /\ Len(log') \in Int
    BY <1>1, <1>3, <1>8, Bounds DEF Heights
  <2> QED
    BY <1>1, <2>1, <2>2, <2>3
<1>11. ready /\ Len(log') \in Heights => queue'[Len(log')] = NoBlock
  <2> SUFFICES ASSUME ready, Len(log') \in Heights PROVE queue'[Len(log')] = NoBlock
    OBVIOUS
  <2>1. Len(log') = top + 1 /\ top < ChainLen
    BY <1>1, <1>3, <1>8, Bounds DEF Heights
  <2>2. q[top + 1] = NoBlock
    BY <1>2, <2>1
  <2> QED
    BY <1>10, <2>1, <2>2
<1>12. ~ready => log' = log
  <2> SUFFICES ASSUME ~ready PROVE log' = log
    OBVIOUS
  <2>1. m = 0
    BY <1>1, <1>2, <1>3
  <2>2. t = <<>>
    BY <1>6, <2>1
  <2> QED
    BY <1>1, <1>6, <2>2
<1>13. Len(log') \in Nat /\ Len(log') >= next
  BY <1>1, <1>3, <1>8
<1> QED
  BY <1>1, <1>9, <1>10, <1>11, <1>12, <1>13 DEF ready, q

\* Storing blocks at their own heights keeps everything at its own height.
LEMMA StoreKeepsHeights ==
    ASSUME IInv, StoredAtOwnHeight, NEW bs \in Seq(AnyBlock), StoreAndMaybeConsume(bs),
           \A i \in 1..Len(bs) : bs[i].pos = bs[i].height
    PROVE  StoredAtOwnHeight'
<1>1. ASSUME NEW h \in Heights, Queued(bs)[h] # NoBlock PROVE Queued(bs)[h].pos = h
  <2>1. CASE \E i \in 1..Len(bs) : bs[i].height = h /\ Queued(bs)[h] = bs[i]
    BY <2>1
  <2>2. CASE Queued(bs)[h] = queue[h]
    BY <1>1, <2>2 DEF StoredAtOwnHeight
  <2> QED
    BY <2>1, <2>2, QueuedFacts
<1>2. /\ Len(log') \in Nat /\ Len(log) \in Nat
      /\ \A i \in 1..Len(log) : log'[i] = log[i]
      /\ \A i \in 1..Len(log') : i > Len(log) =>
           i - 1 \in Heights /\ log'[i] = Queued(bs)[i - 1] /\ Queued(bs)[i - 1] # NoBlock
      /\ \A h \in Heights : queue'[h] = NoBlock \/ queue'[h] = Queued(bs)[h]
  BY StoreFacts
<1>3. ASSUME NEW i \in 1..Len(log') PROVE log'[i].pos = i - 1
  <2>1. CASE i <= Len(log)
    <3>1. i \in 1..Len(log)
      BY <1>2, <2>1
    <3>2. log[i].pos = i - 1
      BY <3>1 DEF StoredAtOwnHeight
    <3> QED
      BY <1>2, <3>1, <3>2
  <2>2. CASE i > Len(log)
    BY <1>1, <1>2, <2>2
  <2> QED
    BY <1>2, <2>1, <2>2
<1>4. ASSUME NEW h \in Heights, queue'[h] # NoBlock PROVE queue'[h].pos = h
  BY <1>1, <1>2, <1>4
<1> QED
  BY <1>3, <1>4 DEF StoredAtOwnHeight

\* The blocks of a row are at their own heights, and so is what follows its first.
LEMMA RowTail ==
    ASSUME NEW s \in Seq(AnyBlock), s # <<>>, NEW lo \in Int, NEW hi \in Int, Row(s, lo, hi)
    PROVE  /\ Tail(s) \in Seq(AnyBlock) /\ Len(Tail(s)) = hi - lo
           /\ \A i \in 1..Len(Tail(s)) : Tail(s)[i].pos = lo + i /\ Tail(s)[i].height = lo + i
<1>1. /\ Tail(s) \in Seq(AnyBlock) /\ Len(Tail(s)) = Len(s) - 1
      /\ \A i \in 1..Len(Tail(s)) : Tail(s)[i] = s[i + 1]
  OBVIOUS
<1>2. Len(s) = (hi - lo) + 1
  BY DEF Row
<1>3. ASSUME NEW i \in 1..Len(Tail(s))
      PROVE  Tail(s)[i].pos = lo + i /\ Tail(s)[i].height = lo + i
  <2>1. i + 1 \in 1..Len(s) /\ (lo + (i + 1)) - 1 = lo + i
    BY <1>1
  <2>2. s[i + 1].pos = (lo + (i + 1)) - 1 /\ s[i + 1].height = (lo + (i + 1)) - 1
    BY <2>1 DEF Row
  <2> QED
    BY <1>1, <2>1, <2>2
<1> QED
  BY <1>1, <1>2, <1>3

LEMMA HeightInit == ASSUME Init, NEW c, Aligned(c) PROVE HeightInv(c)
<1>1. \A r \in Ranges : batch[r].stage = "empty" /\ batch[r].from = FromOf(r)
  BY DEF Init
<1>2. ASSUME NEW r \in Ranges PROVE BatchInv(c, r, batch[r])
  <2>1. batch[r].from.id = Start(r) /\ batch[r].from.height = Start(r)
    BY <1>1, RangeFacts DEF Start
  <2>2. Start(r) \in Nat /\ Start(r) < ToOf(r) /\ Steps(c, Start(r), ToOf(r))
    BY RangeFacts DEF Aligned
  <2> QED
    BY <1>1, <2>1, <2>2 DEF BatchInv
<1>3. \A h \in Heights : glue[h] # NoBlock => h = StartHeight /\ glue[h] = GoodAt(h)
  BY DEF Init
<1>4. \A r \in Ranges : \A h \in Heights : Start(r) < h => glue[h] = NoBlock
  <2> SUFFICES ASSUME NEW r \in Ranges, NEW h \in Heights, Start(r) < h
               PROVE  h # StartHeight
    BY <1>3
  <2>1. Start(r) \in Nat /\ Start(r) >= StartHeight
    BY RangeFacts
  <2> QED
    BY <2>1, Bounds
<1>5. StoredAtOwnHeight
  <2>1. Len(log) = StartHeight + 1 /\ \A i \in 1..StartHeight + 1 : log[i].pos = i - 1
    BY Bounds DEF Init, GoodAt
  <2>2. \A h \in Heights : queue[h] # NoBlock => queue[h].pos = h
    BY DEF Init, GoodAt
  <2> QED
    BY <2>1, <2>2 DEF StoredAtOwnHeight
<1>6. \A h \in Heights : glue[h] # NoBlock => glue[h].pos = h /\ glue[h].height = h
  <2>1. \A h \in Heights : GoodAt(h).pos = h /\ GoodAt(h).height = h
    BY DEF GoodAt
  <2> QED
    BY <1>3, <2>1
<1> QED
  BY <1>2, <1>4, <1>5, <1>6 DEF HeightInv

LEMMA HeightStep ==
    ASSUME IInv, NEW c, Aligned(c), HeightInv(c), [Next]_vars
    PROVE  HeightInv(c)'
<1>0. c \in Nat \ {0} /\ \A r \in Ranges : BatchInv(c, r, batch[r])
  BY DEF Aligned, HeightInv
<1>00. batch \in [Ranges -> [stage : Stages, from : AnyMeta, ids : Int,
                              fetched : Seq(AnyBlock), chain : Seq(AnyBlock)]]
       /\ glue \in [Heights -> AnyBlock \cup {NoBlock}]
  BY DEF IInv, Shape
\* A step of one range that leaves the glue blocks and the store alone.
<1>1. ASSUME NEW r \in Ranges, UNCHANGED <<glue, log, queue>>,
             \A s \in Ranges : s # r => batch'[s] = batch[s],
             batch'[r].from = batch[r].from, batch[r].stage # "done",
             BatchInv(c, r, batch'[r])
      PROVE  HeightInv(c)'
  <2>1. ASSUME NEW s \in Ranges PROVE BatchInv(c, s, batch'[s])
    <3>1. CASE s = r
      BY <1>1, <3>1
    <3>2. CASE s # r
      BY <1>0, <1>1, <3>2
    <3> QED
      BY <3>1, <3>2
  <2>2. ASSUME NEW s \in Ranges
        PROVE  batch'[s].from = batch[s].from
               /\ (batch'[s].stage # "done" => batch[s].stage # "done")
    BY <1>1
  <2>3. StoredAtOwnHeight'
    BY <1>1 DEF HeightInv, StoredAtOwnHeight
  <2> QED
    BY <1>1, <2>1, <2>2, <2>3 DEF HeightInv, BatchInv
<1>2. ASSUME NEW r \in Ranges, FetchBlockIDs(r) PROVE HeightInv(c)'
  <2>1. /\ batch[r].stage = "empty"
        /\ batch[r].from.id \in 0..ChainLen - 1
        /\ batch' = [batch EXCEPT ![r].stage = "ids",
                                   ![r].ids = Smaller(MaxIds, ChainLen - batch[r].from.id)]
        /\ UNCHANGED <<glue, log, queue>>
    BY <1>2 DEF FetchBlockIDs
  <2>2. /\ \A s \in Ranges : s # r => batch'[s] = batch[s]
        /\ batch'[r].from = batch[r].from /\ batch'[r].stage = "ids"
        /\ batch'[r].ids = Smaller(MaxIds, ChainLen - batch[r].from.id)
    BY <1>00, <2>1
  <2>3. batch[r].from.id # NoId
    BY <2>1, Bounds DEF NoId
  <2>4. BatchInv(c, r, batch'[r])
    BY <1>0, <2>1, <2>2, <2>3 DEF BatchInv
  <2> QED
    BY <1>1, <2>1, <2>2, <2>4
<1>3. ASSUME NEW r \in Ranges, NEW k \in Answers, FetchBlocks(r, k) PROVE HeightInv(c)'
  <2> DEFINE x == batch[r].from.height
             n == Smaller(Len(k), batch[r].ids)
             f == SetHeights(batch[r].from, k, n)
  <2>1. /\ batch[r].stage = "ids"
        /\ batch' = [batch EXCEPT ![r].stage = "blocks", ![r].fetched = f]
        /\ UNCHANGED <<glue, log, queue>>
    BY <1>3 DEF FetchBlocks
  <2>2. /\ Start(r) <= x /\ x < ToOf(r) /\ Steps(c, x, ToOf(r))
        /\ batch[r].from.id = x /\ batch[r].ids = Smaller(MaxIds, ChainLen - x)
    BY <1>0, <2>1 DEF BatchInv
  <2>3. x \in Nat /\ ToOf(r) \in Nat /\ ToOf(r) <= ChainLen
    <3>1. x \in Int
      BY <1>00 DEF AnyMeta
    <3> QED
      BY <2>2, <3>1, RangeFacts, EndInChain
  <2>4. x + c <= ToOf(r)
    BY <1>0, <2>2, <2>3, StepsOn
  <2>5. n = c
    <3>1. Len(k) \in Nat /\ Smaller(Len(k), MaxIds) = c
      <4>1. PICK j \in Chunks : k \in [1..j -> Kinds]
        BY DEF Answers
      <4>2. j \in Nat
        BY ChainAssumption
      <4>3. Len(k) = j
        BY <4>1, <4>2
      <4> QED
        BY <4>2, <4>3 DEF Aligned
    <3>2. ChainLen - x \in Int /\ ChainLen - x >= c
      BY <1>0, <2>3, <2>4, Bounds
    <3> QED
      BY <1>0, <2>2, <3>1, <3>2, Bounds DEF Smaller
  <2>6. Row(f, x + 1, x + c)
    <3>1. f = [i \in 1..c |-> [pos |-> x + i, height |-> x + i, kind |-> k[i]]]
      BY <2>2, <2>5 DEF SetHeights
    <3> HIDE DEF f, x
    <3>2. Len(f) = c /\ \A i \in 1..c : f[i].pos = x + i /\ f[i].height = x + i
      BY <1>0, <3>1
    <3>3. c = ((x + c) - (x + 1)) + 1 /\ \A i \in 1..c : ((x + 1) + i) - 1 = x + i
      BY <1>0, <2>3
    <3> QED
      BY <3>2, <3>3 DEF Row
  <2> HIDE DEF f
  <2>7. /\ \A s \in Ranges : s # r => batch'[s] = batch[s]
        /\ batch'[r].from = batch[r].from /\ batch'[r].stage = "blocks"
        /\ batch'[r].fetched = f
    BY <1>00, <2>1
  <2>8. BatchInv(c, r, batch'[r])
    BY <2>2, <2>6, <2>7 DEF BatchInv
  <2> QED
    BY <1>1, <2>1, <2>7, <2>8
<1>4. ASSUME NEW r \in Ranges, Refetch(r) PROVE HeightInv(c)'
  <2>1. /\ batch[r].stage = "glued"
        /\ batch' = [batch EXCEPT ![r].stage = "empty", ![r].ids = 0,
                                   ![r].fetched = <<>>, ![r].chain = <<>>]
        /\ UNCHANGED <<glue, log, queue>>
    BY <1>4 DEF Refetch
  <2>2. /\ \A s \in Ranges : s # r => batch'[s] = batch[s]
        /\ batch'[r].from = batch[r].from /\ batch'[r].stage = "empty"
    BY <1>00, <2>1
  <2>3. BatchInv(c, r, batch'[r])
    BY <1>0, <2>1, <2>2 DEF BatchInv
  <2> QED
    BY <1>1, <2>1, <2>2, <2>3
<1>6. CASE UNCHANGED vars
  <2>1. batch' = batch /\ glue' = glue /\ log' = log /\ queue' = queue
    BY <1>6 DEF vars
  <2>2. StoredAtOwnHeight'
    BY <2>1 DEF HeightInv, StoredAtOwnHeight
  <2> QED
    BY <2>1, <2>2 DEF HeightInv, BatchInv
<1>7. ASSUME NEW r \in Ranges, Glue(r) PROVE HeightInv(c)'
  <2> DEFINE x == batch[r].from.height
             f == batch[r].fetched
  <2>1. batch[r].stage = "blocks"
    BY <1>7 DEF Glue
  <2>2. /\ x \in Nat /\ x + c \in Heights
        /\ Start(r) <= x /\ x < ToOf(r) /\ x + c <= ToOf(r) /\ ToOf(r) \in Nat
        /\ f[1].pos = x + 1 /\ f[1].height = x + 1
        /\ f[c].pos = x + c /\ f[c].height = x + c
    BY <1>7, BeforeGlue
  <2>3. /\ \A s \in Ranges : s # r => batch'[s] = batch[s]
        /\ batch'[r].stage = "glued" /\ batch'[r].from = batch[r].from
        /\ batch'[r].fetched = f /\ log' = log /\ queue' = queue
        /\ \E lo \in {x, x + 1}, hi \in {x + c, x + c + 1} :
             /\ Row(batch'[r].chain, lo, hi)
             /\ hi = x + c + 1 <=> x + c + 1 \in Heights /\ glue[x + c + 1] # NoBlock
    BY <1>7, GluedChain
  <2>4. /\ \A h \in Heights : h \notin {x + 1, x + c, x + c + 1} => glue'[h] = glue[h]
        /\ x + c + 1 \in Heights => glue'[x + c + 1] = NoBlock
        /\ glue'[x + 1] \in {glue[x + 1], f[1]}
        /\ glue'[x + c] \in {glue[x + c], f[c]}
    BY <1>7, GluedCache
  <2>5. \A h \in Heights : glue[h] # NoBlock => glue[h].pos = h /\ glue[h].height = h
    BY DEF HeightInv
  <2>6. \A s \in Ranges : \A h \in Heights :
          Start(s) < h /\ h <= ToOf(s) /\ glue[h] # NoBlock /\ batch[s].stage # "done"
            => h <= batch[s].from.height + c
    BY DEF HeightInv
  <2>7. /\ Start(r) <= x /\ Steps(c, x, ToOf(r))
        /\ batch[r].from.id \in {x, NoId} /\ Row(f, x + 1, x + c)
    BY <1>0, <2>1 DEF BatchInv
  <2> HIDE DEF x, f
  <2>8. x + c < ToOf(r) => ~(x + c + 1 \in Heights /\ glue[x + c + 1] # NoBlock)
    <3> SUFFICES ASSUME x + c < ToOf(r), x + c + 1 \in Heights, glue[x + c + 1] # NoBlock
                 PROVE  FALSE
      OBVIOUS
    <3>1. Start(r) < x + c + 1 /\ x + c + 1 <= ToOf(r) /\ ~(x + c + 1 <= x + c)
      BY <1>0, <2>2, RangeFacts
    <3>2. x + c + 1 <= batch[r].from.height + c
      BY <2>1, <2>6, <3>1
    <3> QED
      BY <3>1, <3>2 DEF x
  <2>9. BatchInv(c, r, batch'[r])
    <3>1. PICK lo \in {x, x + 1}, hi \in {x + c, x + c + 1} :
            /\ Row(batch'[r].chain, lo, hi)
            /\ hi = x + c + 1 <=> x + c + 1 \in Heights /\ glue[x + c + 1] # NoBlock
      BY <2>3
    <3>2. hi = x + c \/ x + c = ToOf(r)
      BY <1>0, <2>2, <2>8, <3>1
    <3>3. batch'[r].from.height = x /\ batch'[r].from.id \in {x, NoId}
      BY <2>3, <2>7 DEF x
    <3>4. \E lo1 \in {x, x + 1}, hi1 \in {x + c, x + c + 1} :
            Row(batch'[r].chain, lo1, hi1) /\ (hi1 = x + c \/ x + c = ToOf(r))
      BY <3>1, <3>2
    <3>5. Start(r) <= x /\ x < ToOf(r)
      BY <2>2
    <3> HIDE DEF x
    <3> QED
      BY <2>3, <2>7, <3>3, <3>4, <3>5 DEF BatchInv
  <2>10. ASSUME NEW s \in Ranges PROVE BatchInv(c, s, batch'[s])
    <3>1. CASE s = r
      BY <2>9, <3>1
    <3>2. CASE s # r
      BY <1>0, <2>3, <3>2
    <3> QED
      BY <3>1, <3>2
  <2>11. ASSUME NEW h \in Heights, glue'[h] # NoBlock
         PROVE  glue'[h].pos = h /\ glue'[h].height = h
    <3>1. CASE h = x + 1
      BY <2>2, <2>4, <2>5, <2>11, <3>1
    <3>2. CASE h = x + c
      BY <2>2, <2>4, <2>5, <2>11, <3>2
    <3>3. CASE h = x + c + 1
      BY <2>4, <2>11, <3>3
    <3>4. CASE h \notin {x + 1, x + c, x + c + 1}
      BY <2>4, <2>5, <2>11, <3>4
    <3> QED
      BY <3>1, <3>2, <3>3, <3>4
  <2>12. ASSUME NEW s \in Ranges, NEW h \in Heights, Start(s) < h, h <= ToOf(s),
                glue'[h] # NoBlock, batch'[s].stage # "done"
         PROVE  h <= batch'[s].from.height + c
    <3>1. batch'[s].from = batch[s].from /\ batch[s].stage # "done"
      BY <2>1, <2>3, <2>12
    <3>2. CASE h \in {x + 1, x + c}
      <4>1. h \in Int /\ Start(r) < h /\ h <= ToOf(r) /\ h <= x + c
        BY <1>0, <2>2, <3>2, RangeFacts
      <4>2. s = r
        BY <2>12, <4>1, OneRangeEach
      <4> QED
        BY <3>1, <4>1, <4>2 DEF x
    <3>3. CASE h \notin {x + 1, x + c}
      <4>1. glue[h] # NoBlock
        BY <2>4, <2>12, <3>3
      <4> QED
        BY <2>6, <2>12, <3>1, <4>1
    <3> QED
      BY <3>2, <3>3
  <2>13. StoredAtOwnHeight'
    BY <2>3 DEF HeightInv, StoredAtOwnHeight
  <2> QED
    BY <2>10, <2>11, <2>12, <2>13 DEF HeightInv, BatchInv
<1>8. ASSUME NEW r \in Ranges, Store(r) PROVE HeightInv(c)'
  <2> DEFINE x == batch[r].from.height
             s == batch[r].chain
             b == [stage |-> IF x + Len(batch[r].fetched) < ToOf(r) THEN "empty" ELSE "done",
                   from |-> [id |-> IdOf(s), height |-> x + Len(batch[r].fetched)],
                   ids |-> 0, fetched |-> <<>>, chain |-> <<>>]
  <2>1. /\ batch[r].stage = "glued" /\ StoreAndMaybeConsume(Tail(s))
        /\ batch' = [batch EXCEPT ![r] = b] /\ glue' = glue
    BY <1>8 DEF Store
  <2>2. /\ Start(r) <= x /\ x < ToOf(r) /\ Steps(c, x, ToOf(r))
        /\ Row(batch[r].fetched, x + 1, x + c)
    BY <1>0, <2>1 DEF BatchInv
  <2>3. PICK lo \in {x, x + 1}, hi \in {x + c, x + c + 1} :
          Row(s, lo, hi) /\ (hi = x + c \/ x + c = ToOf(r))
    BY <1>0, <2>1 DEF BatchInv
  <2>4. x \in Nat /\ ToOf(r) \in Nat
    <3>1. x \in Int
      BY <1>00 DEF AnyMeta
    <3> QED
      BY <2>2, <3>1, RangeFacts
  <2>5. s \in Seq(AnyBlock) /\ s # <<>> /\ batch[r].fetched \in Seq(AnyBlock)
    BY <1>00, <2>1 DEF IInv, StoreInv
  <2>6. x + Len(batch[r].fetched) = x + c
    <3>1. Len(batch[r].fetched) = ((x + c) - (x + 1)) + 1
      BY <2>2 DEF Row
    <3> QED
      BY <1>0, <2>4, <3>1
  <2>7. x + c <= ToOf(r) /\ Steps(c, x + c, ToOf(r))
    BY <1>0, <2>2, <2>4, StepsOn
  <2>8. lo \in Int /\ hi \in Int
    BY <1>0, <2>3, <2>4
  <2>9. x + c < ToOf(r) => IdOf(s) \in {x + c, NoId}
    <3> SUFFICES ASSUME x + c < ToOf(r) PROVE IdOf(s) \in {x + c, NoId}
      OBVIOUS
    <3>1. hi = x + c
      BY <1>0, <2>3, <2>4
    <3>2. Len(s) \in 1..Len(s) /\ Len(s) = (hi - lo) + 1
      BY <2>3, <2>5 DEF Row
    <3>3. s[Len(s)].pos = (lo + Len(s)) - 1
      BY <2>3, <3>2 DEF Row
    <3>4. s[Len(s)].pos = x + c
      BY <2>8, <3>1, <3>2, <3>3
    <3> QED
      BY <3>4 DEF IdOf
  <2> HIDE DEF x, s
  <2>10. /\ b.from.height = x + c /\ b.from.id = IdOf(s)
         /\ b.stage = IF x + c < ToOf(r) THEN "empty" ELSE "done"
    BY <2>6
  <2>11. BatchInv(c, r, b)
    <3> HIDE DEF b
    <3>1. CASE x + c < ToOf(r)
      <4>1. b.stage = "empty" /\ Start(r) <= x + c
        BY <1>0, <2>2, <2>4, <2>10, <3>1, RangeFacts
      <4> QED
        BY <2>7, <2>9, <2>10, <3>1, <4>1 DEF BatchInv
    <3>2. CASE ~(x + c < ToOf(r))
      BY <2>10, <3>2 DEF BatchInv
    <3> QED
      BY <3>1, <3>2
  <2> HIDE DEF b
  <2>12. batch'[r] = b /\ \A t \in Ranges : t # r => batch'[t] = batch[t]
    BY <1>00, <2>1
  <2>13. ASSUME NEW t \in Ranges PROVE BatchInv(c, t, batch'[t])
    BY <1>0, <2>11, <2>12
  <2>14. \A h \in Heights : glue'[h] # NoBlock => glue'[h].pos = h /\ glue'[h].height = h
    BY <2>1 DEF HeightInv
  <2>15. ASSUME NEW t \in Ranges, NEW h \in Heights, Start(t) < h, h <= ToOf(t),
                glue'[h] # NoBlock, batch'[t].stage # "done"
         PROVE  h <= batch'[t].from.height + c
    <3>1. batch[t].stage # "done"
      BY <2>1, <2>12, <2>15
    <3>2. h <= batch[t].from.height + c
      BY <2>1, <2>15, <3>1 DEF HeightInv
    <3>3. CASE t = r
      <4>1. h <= x + c /\ h \in Int
        BY <3>2, <3>3, Bounds DEF x, Heights
      <4>2. h <= (x + c) + c
        BY <1>0, <2>4, <4>1
      <4> QED
        BY <2>10, <2>12, <3>3, <4>2
    <3>4. CASE t # r
      BY <2>12, <3>2, <3>4
    <3> QED
      BY <3>3, <3>4
  <2>16. StoredAtOwnHeight'
    <3>1. /\ Tail(s) \in Seq(AnyBlock)
          /\ \A i \in 1..Len(Tail(s)) : Tail(s)[i].pos = lo + i /\ Tail(s)[i].height = lo + i
      BY <2>3, <2>5, <2>8, RowTail
    <3>2. StoredAtOwnHeight
      BY DEF HeightInv
    <3> QED
      BY <2>1, <3>1, <3>2, StoreKeepsHeights
  <2> QED
    BY <2>13, <2>14, <2>15, <2>16 DEF HeightInv, BatchInv
<1> QED
  BY <1>2, <1>3, <1>4, <1>6, <1>7, <1>8 DEF Next, Fetch, Validate

\* As long as answers end within their ranges, every block is stored under its
\* own height and the log is a chain of linked blocks: for any milestones, any
\* interleaving of the ranges, and peers that serve bad blocks and forks.
THEOREM HeightsAgree ==
    ASSUME NEW CONSTANT c, Aligned(c)
    PROVE  Spec => []StoredAtOwnHeight
<1>1. Init => IInv /\ HeightInv(c)
  BY InitInv, HeightInit
<1>2. IInv /\ HeightInv(c) /\ [Next]_vars => (IInv /\ HeightInv(c))'
  <2> SUFFICES ASSUME IInv, HeightInv(c), [Next]_vars PROVE IInv' /\ HeightInv(c)'
    OBVIOUS
  <2> QED
    BY StepInv, HeightStep
<1>3. IInv /\ HeightInv(c) => StoredAtOwnHeight
  BY DEF HeightInv
<1> QED
  BY <1>1, <1>2, <1>3, PTL DEF Spec

-----------------------------------------------------------------------------
(* Completeness, when peers are honest.  A block that is neither stored nor *)
(* on its way in a glued chain is still ahead of its range, or it is the    *)
(* first of its range and waits, cached, for the end of the range before.   *)

\* How far the edges of a range have been handed to the cache.
Taken(c, b) == IF b.stage = "glued" THEN b.from.height + c ELSE b.from.height

Stored(h) == h < Len(log) \/ queue[h] # NoBlock

\* The batch b is about to store height h.
InTail(b, h) == b.stage = "glued" /\ \E i \in 2..Len(b.chain) : b.chain[i].height = h

\* A chain lacks its predecessor only at the beginning of a later range.
BatchDone(c, r, b) ==
    /\ b.stage = "done" => b.from.height = ToOf(r)
    /\ b.from.height = Start(r) \/ b.from.height >= Start(r) + c
    /\ b.stage = "glued" =>
         \/ b.chain[1].height = b.from.height
         \/ b.from.height = Start(r) /\ b.from.height # StartHeight

\* The edges that later batches need are in the cache.
EdgesInv(c) ==
    /\ glue[StartHeight] # NoBlock
    /\ \A r \in Ranges : \A h \in Heights :
         Start(r) < h /\ h <= ToOf(r) /\ glue[h] # NoBlock => h <= Taken(c, batch[r])
    /\ \A r \in Ranges :
         Start(r) < Taken(c, batch[r]) /\ Taken(c, batch[r]) < ToOf(r)
           => glue[Taken(c, batch[r])] # NoBlock
    /\ \A r \in Ranges : r + 1 \in Ranges =>
         /\ Taken(c, batch[r]) = ToOf(r) /\ Taken(c, batch[r + 1]) = Start(r + 1)
              => glue[ToOf(r)] # NoBlock
         /\ Taken(c, batch[r]) < ToOf(r) /\ Taken(c, batch[r + 1]) # Start(r + 1)
              => glue[ToOf(r) + 1] # NoBlock

Waits(c, h) == \E r \in Ranges : /\ r + 1 \in Ranges /\ h = ToOf(r) + 1
                                /\ Taken(c, batch[r]) < ToOf(r)

Ahead(c, h) == \E r \in Ranges : Start(r) < h /\ h <= ToOf(r) /\ Taken(c, batch[r]) < h

NothingLost(c) ==
    \A h \in StartHeight + 1..Last :
        Stored(h) \/ (\E r \in Ranges : InTail(batch[r], h)) \/ Ahead(c, h) \/ Waits(c, h)

\* The store takes all it can, but for what it held when the node started.
QueueInv ==
    /\ Len(log) > StartHeight
    /\ Len(log) \in Heights /\ queue[Len(log)] # NoBlock =>
         /\ Len(log) = StartHeight + 1
         /\ \A r \in Ranges : Start(r) = StartHeight => batch[r].from.height = StartHeight

DoneInv(c) ==
    /\ \A r \in Ranges : BatchDone(c, r, batch[r])
    /\ EdgesInv(c)
    /\ NothingLost(c)
    /\ QueueInv

Honesty(c) == Aligned(c) /\ c >= 2 /\ Kinds = {"good"}

LEMMA TakenFacts ==
    ASSUME IInv, NEW c, Aligned(c), HeightInv(c), NEW r \in Ranges, BatchDone(c, r, batch[r])
    PROVE  /\ c \in Nat \ {0} /\ Taken(c, batch[r]) \in Nat
           /\ Start(r) <= Taken(c, batch[r]) /\ Taken(c, batch[r]) <= ToOf(r)
           /\ Taken(c, batch[r]) = Start(r) \/ Taken(c, batch[r]) >= Start(r) + c
           /\ Start(r) \in Nat /\ ToOf(r) \in Nat /\ Start(r) < ToOf(r)
           /\ batch[r].from.height \in Nat
<1> DEFINE x == batch[r].from.height
<1>1. c \in Nat \ {0}
  BY DEF Aligned
<1>2. Start(r) \in Nat /\ ToOf(r) \in Nat /\ Start(r) < ToOf(r)
  BY RangeFacts
<1>3. x \in Int
  BY DEF IInv, Shape, AnyMeta
<1>4. x = Start(r) \/ x >= Start(r) + c
  BY DEF BatchDone
<1>5. CASE batch[r].stage = "done"
  <2>1. x = ToOf(r) /\ Taken(c, batch[r]) = x
    BY <1>5 DEF BatchDone, Taken
  <2> QED
    BY <1>1, <1>2, <1>4, <2>1
<1>6. CASE batch[r].stage # "done"
  <2>1. Start(r) <= x /\ x < ToOf(r) /\ Steps(c, x, ToOf(r))
    BY <1>6 DEF HeightInv, BatchInv
  <2> HIDE DEF x
  <2>2. x \in Nat
    BY <1>2, <1>3, <2>1
  <2>3. x + c <= ToOf(r)
    BY <1>1, <1>2, <2>1, <2>2, StepsOn
  <2>4. Taken(c, batch[r]) = x \/ Taken(c, batch[r]) = x + c
    BY DEF Taken, x
  <2> QED
    BY <1>1, <1>2, <1>4, <2>1, <2>2, <2>3, <2>4 DEF x
<1> QED
  BY <1>5, <1>6

\* A block of the chain is not the absence of a block.
LEMMA BlockIsBlock ==
    ASSUME NEW b \in AnyBlock, b.pos \in Heights, b.height \in Heights
    PROVE  b # NoBlock
<1>1. b \in Block
  BY ChainAssumption DEF AnyBlock, Block
<1> QED
  BY <1>1, NoBlockAssumption

LEMMA DoneInit == ASSUME Init, NEW c, Honesty(c) PROVE DoneInv(c)
<1>1. \A r \in Ranges : /\ batch[r].stage = "empty" /\ batch[r].from.height = Start(r)
                        /\ Taken(c, batch[r]) = Start(r)
  BY DEF Init, Start, Taken
<1>2. \A r \in Ranges : BatchDone(c, r, batch[r])
  BY <1>1 DEF BatchDone
<1>3. StartHeight \in Heights /\ StartHeight \in Nat
  BY ChainAssumption DEF Heights
<1>4. GoodAt(StartHeight) # NoBlock
  <2>1. GoodAt(StartHeight) \in AnyBlock /\ GoodAt(StartHeight).pos = StartHeight
        /\ GoodAt(StartHeight).height = StartHeight
    BY <1>3, ChainAssumption DEF GoodAt, AnyBlock
  <2> QED
    BY <1>3, <2>1, BlockIsBlock
<1>5. glue[StartHeight] = GoodAt(StartHeight)
      /\ \A h \in Heights : h # StartHeight => glue[h] = NoBlock
  BY <1>3 DEF Init
<1>6. \A r \in Ranges : /\ Start(r) \in Nat /\ StartHeight <= Start(r) /\ Start(r) < ToOf(r)
                        /\ ToOf(r) \in Nat
  BY RangeFacts
<1>7. ASSUME NEW r \in Ranges, NEW h \in Heights, Start(r) < h, glue[h] # NoBlock PROVE FALSE
  <2>1. h # StartHeight
    BY <1>3, <1>6, <1>7
  <2> QED
    BY <1>5, <1>7, <2>1
<1>8. EdgesInv(c)
  <2>1. \A r \in Ranges : ~(Start(r) < Taken(c, batch[r]))
    BY <1>1, <1>6
  <2>2. \A r \in Ranges : Taken(c, batch[r]) # ToOf(r)
    BY <1>1, <1>6
  <2>3. glue[StartHeight] # NoBlock
    BY <1>4, <1>5
  <2> QED
    BY <1>1, <1>7, <2>1, <2>2, <2>3 DEF EdgesInv
<1>9. NothingLost(c)
  <2> SUFFICES ASSUME NEW h \in StartHeight + 1..Last PROVE Ahead(c, h)
    BY DEF NothingLost
  <2>1. PICK r \in Ranges : Start(r) < h /\ h <= ToOf(r)
    BY EveryHeightInRange
  <2> QED
    BY <1>1, <2>1 DEF Ahead
<1>10. QueueInv
  <2>1. Len(log) = StartHeight + 1
    BY <1>3 DEF Init
  <2> QED
    BY <1>1, <1>3, <2>1 DEF QueueInv
<1> QED
  BY <1>2, <1>8, <1>9, <1>10 DEF DoneInv

\* A glued chain of the majority's blocks is valid.
LEMMA HonestChainsValid ==
    ASSUME IInv, NEW c, Honesty(c), HeightInv(c), NEW r \in Ranges, batch[r].stage = "glued"
    PROVE  Valid(batch[r].chain)
<1> DEFINE s == batch[r].chain
           x == batch[r].from.height
<1>1. x \in Int /\ s \in Seq(AnyBlock) /\ c \in Nat
  BY DEF IInv, Shape, AnyMeta, Honesty, Aligned
<1>2. PICK lo \in {x, x + 1}, hi \in {x + c, x + c + 1} : Row(s, lo, hi)
  BY DEF HeightInv, BatchInv
<1> HIDE DEF s, x
<1> SUFFICES ASSUME NEW i \in 2..Len(s) PROVE PreValidate(s[i], s[i - 1])
  BY DEF Valid, s
<1>3. i \in 1..Len(s) /\ i - 1 \in 1..Len(s) /\ lo \in Int
  BY <1>1
<1>4. s[i].kind = "good" /\ s[i - 1].kind = "good"
  <2>1. s[i] \in AnyBlock /\ s[i - 1] \in AnyBlock
    BY <1>1, <1>3
  <2> QED
    BY <2>1 DEF AnyBlock, Honesty
<1>5. s[i].pos = (lo + i) - 1 /\ s[i - 1].pos = (lo + (i - 1)) - 1
  BY <1>2, <1>3 DEF Row
<1>6. (lo + i) - 1 = ((lo + (i - 1)) - 1) + 1
  BY <1>3
<1> QED
  BY <1>4, <1>5, <1>6 DEF PreValidate

\* A step that neither glues nor stores loses nothing.
LEMMA QuietStep ==
    ASSUME NEW c, DoneInv(c), UNCHANGED <<glue, log, queue>>,
           \A s \in Ranges : /\ batch'[s].from = batch[s].from
                             /\ batch'[s].stage = "done" <=> batch[s].stage = "done"
                             /\ batch'[s].stage = "glued" <=> batch[s].stage = "glued"
                             /\ batch[s].stage = "glued" => batch'[s].chain = batch[s].chain
    PROVE  DoneInv(c)'
<1>1. \A s \in Ranges : Taken(c, batch'[s]) = Taken(c, batch[s])
  BY DEF Taken
<1>2. \A s \in Ranges : BatchDone(c, s, batch'[s])
  BY DEF DoneInv, BatchDone
<1>3. EdgesInv(c)'
  BY <1>1 DEF DoneInv, EdgesInv
<1>4. NothingLost(c)'
  <2> SUFFICES ASSUME NEW h \in StartHeight + 1..Last
               PROVE  (Stored(h) \/ (\E r \in Ranges : InTail(batch[r], h))
                         \/ Ahead(c, h) \/ Waits(c, h))'
    BY DEF NothingLost
  <2>1. Stored(h) => Stored(h)'
    BY DEF Stored
  <2>2. \A r \in Ranges : InTail(batch[r], h) => InTail(batch'[r], h)
    BY DEF InTail
  <2>3. Ahead(c, h) => Ahead(c, h)'
    BY <1>1 DEF Ahead
  <2>4. Waits(c, h) => Waits(c, h)'
    BY <1>1 DEF Waits
  <2> QED
    BY <2>1, <2>2, <2>3, <2>4 DEF DoneInv, NothingLost
<1>5. QueueInv'
  BY DEF DoneInv, QueueInv
<1> QED
  BY <1>2, <1>3, <1>4, <1>5 DEF DoneInv

\* Two ranges that share a height, or where a range ends, in terms of what was
\* taken: the height after the end of one range is not an edge of another.
LEMMA AfterTheEnd ==
    ASSUME NEW r \in Ranges, NEW s \in Ranges, s # r, NEW t \in Nat, NEW c \in Nat, c >= 2,
           Start(s) < t, t <= ToOf(s), t >= Start(s) + c
    PROVE  t # ToOf(r) + 1
<1>1. /\ Start(r) \in Nat /\ ToOf(r) \in Nat /\ Start(s) \in Nat /\ ToOf(s) \in Nat
      /\ Start(r) < ToOf(r) /\ r \in Nat /\ s \in Nat
  BY RangeFacts
<1>2. CASE r < s
  BY <1>1, <1>2, RangesApart
<1>3. CASE s < r
  BY <1>1, <1>3, RangesApart
<1> QED
  BY <1>1, <1>2, <1>3

\* Gluing: the cache keeps the edges that are still needed, and a block that is
\* taken is in the chain or waits for the range before.
LEMMA GlueEdges ==
    ASSUME IInv, NEW c, Honesty(c), HeightInv(c), DoneInv(c), NEW r \in Ranges, Glue(r)
    PROVE  /\ EdgesInv(c)'
           /\ \A s \in Ranges : BatchDone(c, s, batch'[s])
           /\ batch[r].from.height > Start(r) => glue[batch[r].from.height] # NoBlock
           /\ batch[r].from.height = StartHeight => glue[batch[r].from.height] # NoBlock
           /\ batch[r].from.height + c < ToOf(r) =>
                ~(batch[r].from.height + c + 1 \in Heights
                    /\ glue[batch[r].from.height + c + 1] # NoBlock)
<1> DEFINE x == batch[r].from.height
           f == batch[r].fetched
           T(s) == Taken(c, batch[s])
           U(s) == Taken(c, batch'[s])
<1>0. Aligned(c) /\ c \in Nat /\ c >= 2
  BY DEF Honesty, Aligned
<1>1. /\ x \in Nat /\ x + c \in Heights /\ x \in Heights
      /\ Start(r) <= x /\ x < ToOf(r) /\ x + c <= ToOf(r)
      /\ f[1] \in AnyBlock /\ f[1].pos = x + 1 /\ f[1].height = x + 1
      /\ f[c] \in AnyBlock /\ f[c].pos = x + c /\ f[c].height = x + c
  BY <1>0, BeforeGlue
<1>2. PICK lo \in {x, x + 1}, hi \in {x + c, x + c + 1} :
        /\ Row(batch'[r].chain, lo, hi)
        /\ lo = x <=> glue[x] # NoBlock
        /\ hi = x + c + 1 <=> x + c + 1 \in Heights /\ glue[x + c + 1] # NoBlock
  BY <1>0, GluedChain
<1>3. /\ \A s \in Ranges : s # r => batch'[s] = batch[s]
      /\ batch'[r].stage = "glued" /\ batch'[r].from = batch[r].from
  BY <1>0, GluedChain
<1>4. /\ \A h \in Heights : h \notin {x + 1, x + c, x + c + 1} => glue'[h] = glue[h]
      /\ x + c + 1 \in Heights => glue'[x + c + 1] = NoBlock
      /\ glue'[x + 1] \in {glue[x + 1], f[1]}
      /\ glue'[x + c] \in {glue[x + c], f[c]}
      /\ glue[x] = NoBlock => glue'[x + 1] = f[1]
      /\ ~(x + c + 1 \in Heights /\ glue[x + c + 1] # NoBlock) => glue'[x + c] = f[c]
  BY <1>0, GluedCache
<1>5. batch[r].stage = "blocks"
  BY DEF Glue
<1>6. T(r) = x /\ U(r) = x + c /\ \A s \in Ranges : s # r => U(s) = T(s)
  BY <1>3, <1>5 DEF Taken
<1>7. \A s \in Ranges :
        /\ T(s) \in Nat /\ Start(s) <= T(s) /\ T(s) <= ToOf(s)
        /\ T(s) = Start(s) \/ T(s) >= Start(s) + c
        /\ Start(s) \in Nat /\ ToOf(s) \in Nat /\ Start(s) < ToOf(s)
  BY <1>0, TakenFacts DEF DoneInv
<1>8. /\ glue[StartHeight] # NoBlock
      /\ \A s \in Ranges : \A h \in Heights :
           Start(s) < h /\ h <= ToOf(s) /\ glue[h] # NoBlock => h <= T(s)
      /\ \A s \in Ranges : Start(s) < T(s) /\ T(s) < ToOf(s) => glue[T(s)] # NoBlock
      /\ \A s \in Ranges : s + 1 \in Ranges =>
           /\ T(s) = ToOf(s) /\ T(s + 1) = Start(s + 1) => glue[ToOf(s)] # NoBlock
           /\ T(s) < ToOf(s) /\ T(s + 1) # Start(s + 1) => glue[ToOf(s) + 1] # NoBlock
  BY DEF DoneInv, EdgesInv
<1>9. f[1] # NoBlock /\ f[c] # NoBlock /\ x + 1 \in Heights
  <2>1. x + 1 \in Heights
    BY <1>0, <1>1, Bounds DEF Heights
  <2> QED
    BY <1>1, <2>1, BlockIsBlock
<1>10. \A s \in Ranges : BatchDone(c, s, batch[s])
  BY DEF DoneInv
<1>11. x = Start(r) \/ x >= Start(r) + c
  BY <1>6, <1>7
<1>12. StartHeight \in Nat /\ StartHeight <= Start(r) /\ StartHeight \in Heights
  BY RangeFacts, ChainAssumption DEF Heights
<1>13. \A h \in Heights : h \in Nat /\ h <= ChainLen
  BY Bounds DEF Heights
<1>14. \A s \in Ranges : ToOf(s) <= ChainLen /\ ToOf(s) \in Heights
  BY <1>7, EndInChain, Bounds DEF Heights
<1> HIDE DEF x, f, T, U
\* What is cached stays cached, but for the block after the batch.
<1>15. ASSUME NEW h \in Heights, glue[h] # NoBlock, h # x + c + 1 PROVE glue'[h] # NoBlock
  <2>1. CASE h = x + 1
    BY <1>4, <1>9, <1>15, <2>1
  <2>2. CASE h = x + c
    BY <1>4, <1>9, <1>15, <2>2
  <2> QED
    BY <1>4, <1>15, <2>1, <2>2
\* Within its range, nothing is cached ahead of the batch.
<1>16. x + c < ToOf(r) => ~(x + c + 1 \in Heights /\ glue[x + c + 1] # NoBlock)
  <2> SUFFICES ASSUME x + c < ToOf(r), x + c + 1 \in Heights, glue[x + c + 1] # NoBlock
               PROVE  FALSE
    OBVIOUS
  <2>1. Start(r) < x + c + 1 /\ x + c + 1 <= ToOf(r) /\ ~(x + c + 1 <= x)
    BY <1>0, <1>1, <1>7
  <2>2. x + c + 1 <= T(r)
    BY <1>8, <2>1
  <2> QED
    BY <1>6, <2>1, <2>2
<1>17. x > Start(r) => glue[x] # NoBlock
  <2> SUFFICES ASSUME x > Start(r) PROVE glue[x] # NoBlock
    OBVIOUS
  <2>1. Start(r) < T(r) /\ T(r) < ToOf(r)
    BY <1>1, <1>6
  <2> QED
    BY <1>6, <1>8, <2>1
<1>18. glue'[StartHeight] # NoBlock
  <2>1. StartHeight # x + c + 1
    BY <1>0, <1>1, <1>7, <1>12
  <2> QED
    BY <1>8, <1>12, <1>15, <2>1
<1>19. ASSUME NEW s \in Ranges, NEW h \in Heights, Start(s) < h, h <= ToOf(s), glue'[h] # NoBlock
       PROVE  h <= U(s)
  <2>1. CASE h \in {x + 1, x + c}
    <3>1. h \in Int /\ Start(r) < h /\ h <= ToOf(r) /\ h <= x + c
      BY <1>0, <1>1, <1>7, <2>1
    <3>2. s = r
      BY <1>19, <3>1, OneRangeEach
    <3> QED
      BY <1>6, <3>1, <3>2
  <2>2. CASE h \notin {x + 1, x + c}
    <3>1. glue[h] # NoBlock
      BY <1>4, <1>19, <2>2
    <3>2. h <= T(s)
      BY <1>8, <1>19, <3>1
    <3>3. T(s) <= U(s)
      BY <1>0, <1>1, <1>6, <1>7
    <3>4. T(s) \in Nat /\ U(s) \in Nat /\ h \in Nat
      BY <1>0, <1>1, <1>6, <1>7, <1>13
    <3> QED
      BY <3>2, <3>3, <3>4
  <2> QED
    BY <2>1, <2>2
<1>20. ASSUME NEW s \in Ranges, Start(s) < U(s), U(s) < ToOf(s) PROVE glue'[U(s)] # NoBlock
  <2>1. CASE s = r
    <3>1. x + c < ToOf(r)
      BY <1>6, <1>20, <2>1
    <3>2. glue'[x + c] = f[c]
      BY <1>4, <1>16, <3>1
    <3> QED
      BY <1>6, <1>9, <2>1, <3>2
  <2>2. CASE s # r
    <3>1. U(s) = T(s) /\ T(s) \in Nat /\ T(s) \in Heights /\ T(s) >= Start(s) + c
      <4>1. U(s) = T(s) /\ T(s) \in Nat /\ T(s) <= ToOf(s) /\ ToOf(s) <= ChainLen
            /\ (T(s) = Start(s) \/ T(s) >= Start(s) + c)
        BY <1>6, <1>7, <1>14, <2>2
      <4>2. T(s) \in Heights
        BY <1>7, <1>14, <4>1, Bounds DEF Heights
      <4> QED
        BY <1>7, <1>20, <4>1, <4>2
    <3>2. T(s) # x + c + 1
      <4>1. CASE x + c < ToOf(r)
        <5>1. Start(r) < x + c + 1 /\ x + c + 1 <= ToOf(r) /\ x + c + 1 \in Int
          BY <1>0, <1>1, <1>7, <4>1
        <5>2. x + c + 1 = T(s) => Start(s) < x + c + 1 /\ x + c + 1 <= ToOf(s)
          BY <1>7, <1>20, <3>1
        <5> QED
          BY <2>2, <5>1, <5>2, OneRangeEach
      <4>2. CASE x + c = ToOf(r)
        <5>1. T(s) # ToOf(r) + 1
          BY <1>0, <1>7, <1>20, <2>2, <3>1, AfterTheEnd
        <5> QED
          BY <4>2, <5>1
      <4> QED
        BY <1>0, <1>1, <1>7, <4>1, <4>2
    <3> QED
      BY <1>8, <1>15, <1>20, <3>1, <3>2
  <2> QED
    BY <2>1, <2>2
<1>21. ASSUME NEW s \in Ranges, s + 1 \in Ranges, U(s) = ToOf(s), U(s + 1) = Start(s + 1)
       PROVE  glue'[ToOf(s)] # NoBlock
  <2>0. Start(s + 1) = ToOf(s) /\ s + 1 # s
    BY <1>21, RangeAfter, RangeFacts
  <2>1. CASE s = r
    <3>1. x + c = ToOf(r) /\ T(r + 1) = Start(r + 1) /\ r + 1 \in Ranges
      BY <1>6, <1>21, <2>0, <2>1
    <3>2. ~(x + c + 1 \in Heights /\ glue[x + c + 1] # NoBlock)
      <4> SUFFICES ASSUME x + c + 1 \in Heights, glue[x + c + 1] # NoBlock PROVE FALSE
        OBVIOUS
      <4>1. /\ Start(r + 1) < x + c + 1 /\ x + c + 1 <= ToOf(r + 1)
            /\ ~(x + c + 1 <= T(r + 1))
        <5>1. Start(r + 1) = x + c /\ Start(r + 1) < ToOf(r + 1)
              /\ Start(r + 1) \in Nat /\ ToOf(r + 1) \in Nat
          BY <1>7, <2>0, <2>1, <3>1
        <5> QED
          BY <3>1, <5>1
      <4>2. x + c + 1 <= T(r + 1)
        BY <1>8, <3>1, <4>1
      <4> QED
        BY <4>1, <4>2
    <3>3. glue'[x + c] = f[c]
      BY <1>4, <3>2
    <3> QED
      BY <1>9, <2>1, <3>1, <3>3
  <2>2. CASE s + 1 = r
    BY <1>0, <1>1, <1>6, <1>7, <1>21, <2>2
  <2>3. CASE s # r /\ s + 1 # r
    <3>1. U(s) = T(s) /\ U(s + 1) = T(s + 1)
      BY <1>6, <1>21, <2>3
    <3>2. glue[ToOf(s)] # NoBlock
      BY <1>8, <1>21, <3>1
    <3>3. ToOf(s) # x + c + 1
      <4>1. Start(s) < ToOf(s) /\ ToOf(s) \in Nat /\ ToOf(s) >= Start(s) + c
        <5>1. T(s) = ToOf(s)
          BY <1>21, <3>1
        <5>2. Start(s) < ToOf(s) /\ ToOf(s) \in Nat /\ Start(s) \in Nat
              /\ (T(s) = Start(s) \/ T(s) >= Start(s) + c)
          BY <1>7
        <5> QED
          BY <5>1, <5>2
      <4>2. CASE x + c < ToOf(r)
        <5>1. Start(r) < x + c + 1 /\ x + c + 1 <= ToOf(r) /\ x + c + 1 \in Int
          BY <1>0, <1>1, <1>7, <4>2
        <5>2. x + c + 1 = ToOf(s) => Start(s) < x + c + 1 /\ x + c + 1 <= ToOf(s)
          BY <4>1
        <5> QED
          BY <2>3, <5>1, <5>2, OneRangeEach
      <4>3. CASE x + c = ToOf(r)
        <5>1. ToOf(s) # ToOf(r) + 1
          BY <1>0, <2>3, <4>1, AfterTheEnd
        <5> QED
          BY <4>3, <5>1
      <4> QED
        BY <1>0, <1>1, <1>7, <4>2, <4>3
    <3> QED
      BY <1>14, <1>15, <3>2, <3>3
  <2> QED
    BY <2>1, <2>2, <2>3
<1>22. ASSUME NEW s \in Ranges, s + 1 \in Ranges, U(s) < ToOf(s), U(s + 1) # Start(s + 1)
       PROVE  glue'[ToOf(s) + 1] # NoBlock
  <2>0. Start(s + 1) = ToOf(s) /\ s + 1 # s
    BY <1>22, RangeAfter, RangeFacts
  <2>1. ToOf(s) + 1 \in Heights
    <3>1. ToOf(s) < ToOf(s + 1) /\ ToOf(s) \in Nat /\ ToOf(s + 1) <= ChainLen /\ ToOf(s + 1) \in Nat
      BY <1>7, <1>14, <1>22, <2>0
    <3> QED
      BY <3>1, Bounds DEF Heights
  <2>2. CASE s = r
    <3>1. T(r) < ToOf(r) /\ T(r + 1) # Start(r + 1) /\ x + c < ToOf(r) /\ r + 1 \in Ranges
      BY <1>1, <1>6, <1>22, <2>0, <2>2
    <3>2. glue[ToOf(r) + 1] # NoBlock
      BY <1>8, <3>1
    <3>3. ToOf(r) + 1 # x + c + 1
      BY <1>0, <1>1, <1>7, <3>1
    <3> QED
      BY <1>15, <2>1, <2>2, <3>2, <3>3
  <2>3. CASE s + 1 = r
    <3>1. T(s) < ToOf(s) /\ ToOf(s) = Start(r)
      BY <1>6, <1>22, <2>0, <2>3
    <3>2. CASE x = Start(r)
      <4>1. glue[x] = NoBlock
        <5> SUFFICES ASSUME glue[x] # NoBlock PROVE FALSE
          OBVIOUS
        <5>1. x = ToOf(s) /\ Start(s) < x /\ ~(x <= T(s))
          BY <1>7, <3>1, <3>2
        <5>2. x <= T(s)
          BY <1>1, <1>8, <1>7, <5>1
        <5> QED
          BY <5>1, <5>2
      <4> QED
        BY <1>4, <1>9, <3>1, <3>2, <4>1
    <3>3. CASE x # Start(r)
      <4>1. glue[ToOf(s) + 1] # NoBlock
        BY <1>6, <1>8, <1>22, <2>3, <3>1, <3>3
      <4>2. ToOf(s) + 1 # x + c + 1
        BY <1>0, <1>1, <1>7, <3>1
      <4> QED
        BY <1>15, <2>1, <4>1, <4>2
    <3> QED
      BY <3>2, <3>3
  <2>4. CASE s # r /\ s + 1 # r
    <3>1. U(s) = T(s) /\ U(s + 1) = T(s + 1)
      BY <1>6, <1>22, <2>4
    <3>2. glue[ToOf(s) + 1] # NoBlock
      BY <1>8, <1>22, <3>1
    <3>3. ToOf(s) # x + c
      <4>1. Start(r) < x + c /\ x + c <= ToOf(r) /\ x + c \in Int
        BY <1>0, <1>1, <1>7
      <4>2. x + c = ToOf(s) => Start(s) < x + c /\ x + c <= ToOf(s)
        BY <1>7
      <4> QED
        BY <2>4, <4>1, <4>2, OneRangeEach
    <3>4. ToOf(s) + 1 # x + c + 1
      BY <1>0, <1>1, <1>7, <3>3
    <3> QED
      BY <1>15, <2>1, <3>2, <3>4
  <2> QED
    BY <2>2, <2>3, <2>4
<1>23. EdgesInv(c)'
  BY <1>18, <1>19, <1>20, <1>21, <1>22 DEF EdgesInv, U
<1>24. x = StartHeight => glue[x] # NoBlock
  BY <1>8
<1>25. BatchDone(c, r, batch'[r])
  <2>1. batch'[r].chain[1].height = lo
    <3>1. Len(batch'[r].chain) = (hi - lo) + 1 /\ hi >= lo /\ lo \in Nat /\ hi \in Nat
      BY <1>0, <1>1, <1>2 DEF Row
    <3>2. 1 \in 1..Len(batch'[r].chain)
      BY <3>1
    <3>3. batch'[r].chain[1].height = (lo + 1) - 1
      BY <1>2, <3>2 DEF Row
    <3> QED
      BY <3>1, <3>3
  <2>2. lo = x \/ (x = Start(r) /\ x # StartHeight)
    <3>1. lo # x => glue[x] = NoBlock
      BY <1>2
    <3> QED
      BY <1>1, <1>7, <1>17, <1>24, <3>1
  <2>3. batch'[r].from.height = x
    BY <1>3 DEF x
  <2> QED
    BY <1>3, <1>11, <2>1, <2>2, <2>3 DEF BatchDone
<1>26. \A s \in Ranges : BatchDone(c, s, batch'[s])
  BY <1>3, <1>10, <1>25
<1> QED
  BY <1>16, <1>17, <1>23, <1>24, <1>26 DEF x

LEMMA GlueLosesNothing ==
    ASSUME IInv, NEW c, Honesty(c), HeightInv(c), DoneInv(c), NEW r \in Ranges, Glue(r)
    PROVE  NothingLost(c)'
<1> DEFINE x == batch[r].from.height
           T(s) == Taken(c, batch[s])
           U(s) == Taken(c, batch'[s])
<1>0. Aligned(c) /\ c \in Nat /\ c >= 2
  BY DEF Honesty, Aligned
<1>1. /\ x \in Nat /\ Start(r) <= x /\ x < ToOf(r) /\ x + c <= ToOf(r)
  BY <1>0, BeforeGlue
<1>2. PICK lo \in {x, x + 1}, hi \in {x + c, x + c + 1} :
        /\ Row(batch'[r].chain, lo, hi)
        /\ lo = x <=> glue[x] # NoBlock
        /\ hi = x + c + 1 <=> x + c + 1 \in Heights /\ glue[x + c + 1] # NoBlock
  BY <1>0, GluedChain
<1>3. /\ \A s \in Ranges : s # r => batch'[s] = batch[s]
      /\ batch'[r].stage = "glued" /\ batch'[r].from = batch[r].from
      /\ log' = log /\ queue' = queue
  BY <1>0, GluedChain
<1>4. batch[r].stage = "blocks"
  BY DEF Glue
<1>5. T(r) = x /\ U(r) = x + c /\ \A s \in Ranges : s # r => U(s) = T(s)
  BY <1>3, <1>4 DEF Taken
<1>6. \A s \in Ranges :
        /\ T(s) \in Nat /\ Start(s) <= T(s) /\ T(s) <= ToOf(s)
        /\ Start(s) \in Nat /\ ToOf(s) \in Nat /\ Start(s) < ToOf(s)
  BY <1>0, TakenFacts DEF DoneInv
<1>7. /\ glue[StartHeight] # NoBlock
      /\ \A s \in Ranges : s + 1 \in Ranges =>
           /\ T(s) = ToOf(s) /\ T(s + 1) = Start(s + 1) => glue[ToOf(s)] # NoBlock
           /\ T(s) < ToOf(s) /\ T(s + 1) # Start(s + 1) => glue[ToOf(s) + 1] # NoBlock
  BY DEF DoneInv, EdgesInv
<1>8. x > Start(r) => glue[x] # NoBlock
  BY GlueEdges
<1> HIDE DEF x, T, U
<1> SUFFICES ASSUME NEW h \in StartHeight + 1..Last
             PROVE  \/ Stored(h)' \/ \E s \in Ranges : InTail(batch'[s], h)
                    \/ \E s \in Ranges : Start(s) < h /\ h <= ToOf(s) /\ U(s) < h
                    \/ \E s \in Ranges : s + 1 \in Ranges /\ h = ToOf(s) + 1 /\ U(s) < ToOf(s)
  BY DEF NothingLost, Ahead, Waits, U
<1>9. h \in Int
  BY Bounds
\* The chain covers the heights after its first.
<1>10. lo + 1 <= h /\ h <= hi => InTail(batch'[r], h)
  <2> SUFFICES ASSUME lo + 1 <= h, h <= hi
               PROVE  \E i \in 2..Len(batch'[r].chain) : batch'[r].chain[i].height = h
    BY <1>3 DEF InTail
  <2>1. Len(batch'[r].chain) = (hi - lo) + 1 /\ lo \in Nat /\ hi \in Nat
    BY <1>0, <1>1, <1>2 DEF Row
  <2>2. (h - lo) + 1 \in 2..Len(batch'[r].chain) /\ (h - lo) + 1 \in 1..Len(batch'[r].chain)
    BY <1>9, <2>1
  <2>3. batch'[r].chain[(h - lo) + 1].height = (lo + ((h - lo) + 1)) - 1
    BY <1>2, <2>2 DEF Row
  <2>4. (lo + ((h - lo) + 1)) - 1 = h
    BY <1>9, <2>1
  <2> QED
    BY <2>2, <2>3, <2>4
<1>11. CASE Stored(h)
  BY <1>3, <1>11 DEF Stored
<1>12. CASE \E s \in Ranges : InTail(batch[s], h)
  BY <1>3, <1>4, <1>12 DEF InTail
<1>13. CASE Ahead(c, h)
  <2>1. PICK s \in Ranges : Start(s) < h /\ h <= ToOf(s) /\ T(s) < h
    BY <1>13 DEF Ahead, T
  <2>2. CASE s # r
    BY <1>5, <2>1, <2>2
  <2>3. CASE s = r /\ x + c < h
    BY <1>5, <2>1, <2>3
  <2>4. CASE s = r /\ h <= x + c /\ lo + 1 <= h
    BY <1>0, <1>1, <1>2, <1>9, <1>10, <2>4
  <2>5. CASE s = r /\ h <= x + c /\ ~(lo + 1 <= h)
    <3>1. h = x + 1 /\ lo = x + 1
      BY <1>1, <1>2, <1>5, <1>9, <2>1, <2>5
    <3>2. glue[x] = NoBlock
      BY <1>1, <1>2, <3>1
    <3>3. x = Start(r) /\ x # StartHeight
      BY <1>1, <1>6, <1>7, <1>8, <3>2
    <3>4. r - 1 \in Ranges /\ ToOf(r - 1) = x
      BY <3>3, RangeBefore
    <3>5. r \in Nat /\ (r - 1) + 1 = r /\ r - 1 # r
      BY RangeFacts
    <3>6. T(r - 1) # ToOf(r - 1)
      BY <1>5, <1>7, <3>2, <3>3, <3>4, <3>5
    <3>7. U(r - 1) < ToOf(r - 1)
      <4>1. U(r - 1) = T(r - 1) /\ T(r - 1) \in Nat /\ ToOf(r - 1) \in Nat /\ T(r - 1) <= ToOf(r - 1)
        BY <1>5, <1>6, <3>4, <3>5
      <4> QED
        BY <3>6, <4>1
    <3> QED
      BY <3>1, <3>4, <3>5, <3>7
  <2> QED
    BY <1>0, <1>1, <1>2, <1>9, <2>2, <2>3, <2>4, <2>5
<1>14. CASE Waits(c, h)
  <2>1. PICK s \in Ranges : s + 1 \in Ranges /\ h = ToOf(s) + 1 /\ T(s) < ToOf(s)
    BY <1>14 DEF Waits, T
  <2>2. CASE s # r
    BY <1>5, <2>1, <2>2
  <2>3. CASE s = r /\ x + c < ToOf(r)
    BY <1>5, <2>1, <2>3
  <2>4. CASE s = r /\ x + c = ToOf(r)
    <3>1. Start(r + 1) = ToOf(r) /\ r + 1 # r /\ r + 1 \in Ranges
      BY <2>1, <2>4, RangeAfter, RangeFacts
    <3>2. CASE T(r + 1) = Start(r + 1)
      <4>1. Start(r + 1) < h /\ h <= ToOf(r + 1) /\ U(r + 1) < h
        <5>1. Start(r + 1) < ToOf(r + 1) /\ Start(r + 1) \in Nat /\ ToOf(r + 1) \in Nat
              /\ U(r + 1) = Start(r + 1) /\ h = Start(r + 1) + 1
          BY <1>5, <1>6, <2>1, <2>4, <3>1, <3>2
        <5> QED
          BY <5>1
      <4> QED
        BY <3>1, <4>1
    <3>3. CASE T(r + 1) # Start(r + 1)
      <4>1. glue[ToOf(r) + 1] # NoBlock
        BY <1>7, <2>1, <2>4, <3>1, <3>3
      <4>2. x + c + 1 = ToOf(r) + 1 /\ x + c + 1 \in Heights
        <5>1. ToOf(r) < ToOf(r + 1) /\ ToOf(r) \in Nat /\ ToOf(r + 1) \in Nat /\ ToOf(r + 1) <= ChainLen
          BY <1>6, <3>1, EndInChain
        <5>2. ToOf(r) + 1 \in Heights
          BY <5>1, Bounds DEF Heights
        <5> QED
          BY <2>4, <5>2
      <4>3. hi = x + c + 1
        BY <1>2, <4>1, <4>2
      <4>4. h = hi /\ lo + 1 <= h
        BY <1>0, <1>1, <1>2, <2>1, <2>4, <4>2, <4>3
      <4> QED
        BY <1>9, <1>10, <4>4
    <3> QED
      BY <3>2, <3>3
  <2> QED
    BY <1>0, <1>1, <1>6, <2>2, <2>3, <2>4
<1> QED
  BY <1>11, <1>12, <1>13, <1>14 DEF DoneInv, NothingLost

\* Storing: what was in the chain is in the store, and the store is full up to
\* its first gap.
LEMMA StoreDone ==
    ASSUME IInv, NEW c, Honesty(c), HeightInv(c), DoneInv(c), NEW r \in Ranges, Store(r)
    PROVE  DoneInv(c)'
<1> DEFINE x == batch[r].from.height
           s == batch[r].chain
           b == [stage |-> IF x + Len(batch[r].fetched) < ToOf(r) THEN "empty" ELSE "done",
                 from |-> [id |-> IdOf(s), height |-> x + Len(batch[r].fetched)],
                 ids |-> 0, fetched |-> <<>>, chain |-> <<>>]
           bs == Tail(s)
<1>0. Aligned(c) /\ c \in Nat /\ c >= 2 /\ c \in Nat \ {0}
  BY DEF Honesty, Aligned
<1>1. /\ batch[r].stage = "glued" /\ StoreAndMaybeConsume(bs)
      /\ batch' = [batch EXCEPT ![r] = b] /\ glue' = glue
  BY DEF Store
<1>2. /\ Start(r) <= x /\ x < ToOf(r) /\ Steps(c, x, ToOf(r))
      /\ Row(batch[r].fetched, x + 1, x + c)
  BY <1>1 DEF HeightInv, BatchInv
<1>3. PICK lo \in {x, x + 1}, hi \in {x + c, x + c + 1} : Row(s, lo, hi)
  BY <1>1 DEF HeightInv, BatchInv
<1>4. x \in Nat /\ ToOf(r) \in Nat /\ Start(r) \in Nat
  BY <1>0, TakenFacts DEF DoneInv
<1>5. s \in Seq(AnyBlock) /\ s # <<>> /\ log \in Seq(Checked)
      /\ batch \in [Ranges -> [stage : Stages, from : AnyMeta, ids : Int,
                               fetched : Seq(AnyBlock), chain : Seq(AnyBlock)]]
  BY <1>1 DEF IInv, Shape, StoreInv
<1>6. x + Len(batch[r].fetched) = x + c
  <2>1. Len(batch[r].fetched) = ((x + c) - (x + 1)) + 1
    BY <1>2 DEF Row
  <2> QED
    BY <1>0, <1>4, <2>1
<1>7. x + c <= ToOf(r)
  BY <1>0, <1>2, <1>4, StepsOn
<1>8. /\ bs \in Seq(AnyBlock) /\ Len(bs) = hi - lo /\ lo \in Nat /\ hi \in Nat /\ hi - lo >= 1
      /\ \A i \in 1..Len(bs) : bs[i].pos = lo + i /\ bs[i].height = lo + i
  <2>1. lo \in Nat /\ hi \in Nat /\ hi - lo >= 1
    BY <1>0, <1>3, <1>4
  <2>2. lo \in Int /\ hi \in Int
    BY <2>1
  <2> HIDE DEF s
  <2>3. /\ Tail(s) \in Seq(AnyBlock) /\ Len(Tail(s)) = hi - lo
        /\ \A i \in 1..Len(Tail(s)) : Tail(s)[i].pos = lo + i /\ Tail(s)[i].height = lo + i
    BY <1>3, <1>5, <2>2, RowTail
  <2> QED
    BY <2>1, <2>3
<1>9. s[1].height = lo
  <2>1. Len(s) = (hi - lo) + 1
    BY <1>3 DEF Row
  <2>2. 1 \in 1..Len(s)
    BY <1>8, <2>1
  <2>3. s[1].height = (lo + 1) - 1
    BY <1>3, <2>2 DEF Row
  <2> QED
    BY <1>8, <2>3
<1>10. BatchDone(c, r, batch[r]) /\ \A t \in Ranges : BatchDone(c, t, batch[t])
  BY DEF DoneInv
<1>11. lo = x \/ (x = Start(r) /\ x # StartHeight)
  BY <1>1, <1>9, <1>10 DEF BatchDone
<1>12. x = Start(r) \/ x >= Start(r) + c
  BY <1>10 DEF BatchDone
<1>13. \A h \in Int : InTail(batch[r], h) => \E i \in 1..Len(bs) : bs[i].height = h
  <2> SUFFICES ASSUME NEW h \in Int, NEW i \in 2..Len(s), s[i].height = h
               PROVE  \E j \in 1..Len(bs) : bs[j].height = h
    BY DEF InTail
  <2>1. Len(s) = (hi - lo) + 1
    BY <1>3 DEF Row
  <2>2. i - 1 \in 1..Len(bs) /\ i \in 1..Len(s)
    BY <1>8, <2>1
  <2>3. s[i].height = (lo + i) - 1
    BY <1>3, <2>2 DEF Row
  <2>4. bs[i - 1].height = lo + (i - 1)
    BY <1>8, <2>2
  <2>5. lo + (i - 1) = (lo + i) - 1
    BY <1>8
  <2> QED
    BY <2>2, <2>3, <2>4, <2>5
<1> HIDE DEF s, bs
<1>14. /\ b.from.height = x + c /\ b.stage = (IF x + c < ToOf(r) THEN "empty" ELSE "done")
  BY <1>6
<1> HIDE DEF b
<1>15. batch'[r] = b /\ \A t \in Ranges : t # r => batch'[t] = batch[t]
  BY <1>1, <1>5
<1>16. \A t \in Ranges : Taken(c, batch'[t]) = Taken(c, batch[t])
  <2>1. Taken(c, batch[r]) = x + c
    BY <1>1 DEF Taken
  <2>2. Taken(c, b) = x + c
    BY <1>14 DEF Taken
  <2> QED
    BY <1>15, <2>1, <2>2
<1>17. \A t \in Ranges : BatchDone(c, t, batch'[t])
  <2>1. BatchDone(c, r, b)
    <3>1. b.stage = "done" => x + c = ToOf(r)
      BY <1>0, <1>4, <1>7, <1>14
    <3>2. x + c >= Start(r) + c
      BY <1>0, <1>2, <1>4
    <3>3. b.stage # "glued"
      BY <1>14
    <3> QED
      BY <1>14, <3>1, <3>2, <3>3 DEF BatchDone
  <2> QED
    BY <1>10, <1>15, <2>1
<1>18. EdgesInv(c)'
  BY <1>1, <1>16 DEF DoneInv, EdgesInv
<1>19. /\ Len(log') \in Nat /\ Len(log') >= Len(log) /\ Len(log) \in Nat
       /\ \A h \in Heights :
            \/ h >= Len(log) /\ h < Len(log') /\ queue'[h] = NoBlock
            \/ (h < Len(log) \/ h >= Len(log')) /\ queue'[h] = Queued(bs)[h]
       /\ (\E i \in 1..Len(bs) : bs[i].height = Len(log)) =>
            (Len(log') \in Heights => queue'[Len(log')] = NoBlock)
       /\ (\A i \in 1..Len(bs) : bs[i].height # Len(log)) => log' = log
  BY <1>1, <1>8, StoreFacts
<1>20. ASSUME NEW h \in Heights,
              queue[h] # NoBlock \/ \E i \in 1..Len(bs) : bs[i].height = h
       PROVE  Stored(h)'
  <2>1. Queued(bs)[h] # NoBlock
    <3>1. CASE \E i \in 1..Len(bs) : bs[i].height = h /\ Queued(bs)[h] = bs[i]
      <4>1. PICK i \in 1..Len(bs) : bs[i].height = h /\ Queued(bs)[h] = bs[i]
        BY <3>1
      <4>2. bs[i] \in AnyBlock /\ bs[i].pos = h /\ bs[i].height = h
        BY <1>8, <4>1
      <4> QED
        BY <4>1, <4>2, BlockIsBlock
    <3>2. CASE (\A i \in 1..Len(bs) : bs[i].height # h) /\ Queued(bs)[h] = queue[h]
      BY <1>20, <3>2
    <3> QED
      BY <1>8, <3>1, <3>2, QueuedFacts
  <2> QED
    BY <1>19, <2>1 DEF Stored
<1>21. NothingLost(c)'
  <2> SUFFICES ASSUME NEW h \in StartHeight + 1..Last
               PROVE  (Stored(h) \/ (\E t \in Ranges : InTail(batch[t], h))
                         \/ Ahead(c, h) \/ Waits(c, h))'
    BY DEF NothingLost
  <2>1. h \in Heights /\ h \in Int
    <3>1. h \in Int /\ h > StartHeight /\ StartHeight \in Nat
      BY Bounds
    <3>2. h <= Last /\ Last \in Nat /\ Last <= ChainLen
      <4>1. Last \in Nat /\ Last <= ChainLen
        <5>1. Len(Milestones) \in 1..Len(Milestones)
          BY MilestoneAssumption
        <5> QED
          BY <5>1, MilestoneAssumption, ChainAssumption DEF Last
      <4> QED
        BY <4>1, Bounds
    <3> QED
      BY <3>1, <3>2, Bounds DEF Heights
  <2>2. CASE Stored(h)
    <3>1. CASE h < Len(log)
      BY <1>19, <2>1, <3>1 DEF Stored
    <3>2. CASE queue[h] # NoBlock
      BY <1>20, <2>1, <3>2
    <3> QED
      BY <2>2, <3>1, <3>2 DEF Stored
  <2>3. CASE \E t \in Ranges : InTail(batch[t], h)
    <3>1. PICK t \in Ranges : InTail(batch[t], h)
      BY <2>3
    <3>2. CASE t = r
      BY <1>13, <1>20, <2>1, <3>1, <3>2
    <3>3. CASE t # r
      <4>1. InTail(batch'[t], h)
        BY <1>15, <3>1, <3>3
      <4> QED
        BY <4>1
    <3> QED
      BY <3>2, <3>3
  <2>4. CASE Ahead(c, h)
    <3>1. Ahead(c, h)'
      BY <1>16, <2>4 DEF Ahead
    <3> QED
      BY <3>1
  <2>5. CASE Waits(c, h)
    <3>1. Waits(c, h)'
      BY <1>16, <2>5 DEF Waits
    <3> QED
      BY <3>1
  <2> QED
    BY <2>2, <2>3, <2>4, <2>5 DEF DoneInv, NothingLost
<1>22. QueueInv'
  <2>1. Len(log) > StartHeight /\ StartHeight \in Nat
    BY Bounds DEF DoneInv, QueueInv
  <2>2. Len(log') > StartHeight
    BY <1>19, <2>1
  <2> SUFFICES ASSUME Len(log') \in Heights, queue'[Len(log')] # NoBlock
               PROVE  /\ Len(log') = StartHeight + 1
                      /\ \A t \in Ranges : Start(t) = StartHeight
                                             => batch'[t].from.height = StartHeight
    BY <2>2 DEF QueueInv
  <2>3. \A i \in 1..Len(bs) : bs[i].height # Len(log)
    BY <1>19
  <2>4. log' = log
    BY <1>19, <2>3
  <2>5. queue'[Len(log)] = Queued(bs)[Len(log)] /\ Len(log) \in Heights
    BY <1>19, <2>4
  <2>6. queue[Len(log)] # NoBlock
    <3>1. Queued(bs)[Len(log)] = queue[Len(log)]
      <4>1. bs \in Seq(AnyBlock) /\ Len(log) \in Heights
        BY <1>8, <2>5
      <4>2. \/ \E i \in 1..Len(bs) : bs[i].height = Len(log)
            \/ Queued(bs)[Len(log)] = queue[Len(log)]
        BY <4>1, QueuedFacts
      <4> QED
        BY <2>3, <4>2
    <3>2. queue'[Len(log)] # NoBlock
      BY <2>4
    <3> QED
      BY <2>5, <3>1, <3>2
  <2>7. /\ Len(log) = StartHeight + 1
        /\ \A t \in Ranges : Start(t) = StartHeight => batch[t].from.height = StartHeight
    BY <2>5, <2>6 DEF DoneInv, QueueInv
  <2>8. Start(r) # StartHeight
    <3> SUFFICES ASSUME Start(r) = StartHeight PROVE FALSE
      OBVIOUS
    <3>1. x = StartHeight
      BY <2>7
    <3>2. lo = x
      BY <1>11, <3>1
    <3>3. 1 \in 1..Len(bs) /\ bs[1].height = lo + 1
      BY <1>8
    <3> QED
      BY <2>3, <2>7, <3>1, <3>2, <3>3
  <2> QED
    BY <1>15, <2>4, <2>7, <2>8
<1> QED
  BY <1>17, <1>18, <1>21, <1>22 DEF DoneInv

LEMMA DoneStep ==
    ASSUME IInv, NEW c, Honesty(c), HeightInv(c), DoneInv(c), [Next]_vars
    PROVE  DoneInv(c)'
<1>0. Aligned(c)
      /\ batch \in [Ranges -> [stage : Stages, from : AnyMeta, ids : Int,
                               fetched : Seq(AnyBlock), chain : Seq(AnyBlock)]]
  BY DEF Honesty, IInv, Shape
<1>1. ASSUME NEW r \in Ranges, FetchBlockIDs(r) PROVE DoneInv(c)'
  <2>1. /\ batch[r].stage = "empty" /\ UNCHANGED <<glue, log, queue>>
        /\ batch' = [batch EXCEPT ![r].stage = "ids",
                                   ![r].ids = Smaller(MaxIds, ChainLen - batch[r].from.id)]
    BY <1>1 DEF FetchBlockIDs
  <2>2. /\ \A s \in Ranges : s # r => batch'[s] = batch[s]
        /\ batch'[r].from = batch[r].from /\ batch'[r].stage = "ids"
    BY <1>0, <2>1
  <2> QED
    BY <2>1, <2>2, QuietStep
<1>2. ASSUME NEW r \in Ranges, NEW k \in Answers, FetchBlocks(r, k) PROVE DoneInv(c)'
  <2>1. PICK f : /\ batch[r].stage = "ids" /\ UNCHANGED <<glue, log, queue>>
                 /\ batch' = [batch EXCEPT ![r].stage = "blocks", ![r].fetched = f]
    BY <1>2 DEF FetchBlocks
  <2>2. /\ \A s \in Ranges : s # r => batch'[s] = batch[s]
        /\ batch'[r].from = batch[r].from /\ batch'[r].stage = "blocks"
    BY <1>0, <2>1
  <2> QED
    BY <2>1, <2>2, QuietStep
<1>3. ASSUME NEW r \in Ranges, Glue(r) PROVE DoneInv(c)'
  <2>1. batch[r].stage = "blocks"
    BY <1>3 DEF Glue
  <2>2. /\ \A s \in Ranges : s # r => batch'[s] = batch[s]
        /\ batch'[r].from = batch[r].from /\ log' = log /\ queue' = queue
    BY <1>0, <1>3, GluedChain
  <2>3. QueueInv'
    BY <2>2 DEF DoneInv, QueueInv
  <2>4. EdgesInv(c)' /\ \A s \in Ranges : BatchDone(c, s, batch'[s])
    BY <1>3, GlueEdges
  <2>5. NothingLost(c)'
    BY <1>3, GlueLosesNothing
  <2> QED
    BY <2>3, <2>4, <2>5 DEF DoneInv
<1>4. ASSUME NEW r \in Ranges, Refetch(r) PROVE DoneInv(c)'
  BY <1>4, HonestChainsValid DEF Refetch
<1>5. ASSUME NEW r \in Ranges, Store(r) PROVE DoneInv(c)'
  BY <1>5, StoreDone
<1>6. CASE UNCHANGED vars
  BY <1>6, QuietStep DEF vars
<1> QED
  BY <1>1, <1>2, <1>3, <1>4, <1>5, <1>6 DEF Next, Fetch, Validate

\* When every range is finished, no height is ahead, on its way or waiting.
LEMMA DoneIsStored ==
    ASSUME IInv, NEW c, Aligned(c), HeightInv(c), DoneInv(c)
    PROVE  DoneMeansStored
<1> SUFFICES ASSUME \A r \in Ranges : batch[r].stage = "done", ~(Len(log) > Last)
             PROVE  FALSE
  BY DEF DoneMeansStored
<1>1. Len(log) \in Nat /\ Len(log) > StartHeight /\ StartHeight \in Nat
  BY Bounds DEF IInv, StoreInv, DoneInv, QueueInv
<1>2. \A r \in Ranges : /\ batch[r].from.height = ToOf(r) /\ Taken(c, batch[r]) = ToOf(r)
                        /\ \A h : ~InTail(batch[r], h)
                        /\ Start(r) \in Nat /\ ToOf(r) \in Nat /\ Start(r) < ToOf(r)
                        /\ StartHeight <= Start(r)
  BY RangeFacts DEF DoneInv, BatchDone, Taken, InTail
<1>3. Last \in Nat /\ Last <= ChainLen
  <2>1. Len(Milestones) \in 1..Len(Milestones)
    BY MilestoneAssumption
  <2> QED
    BY <2>1, MilestoneAssumption, ChainAssumption DEF Last
<1> DEFINE n == Len(log)
<1>4. n \in StartHeight + 1..Last /\ n \in Heights
  BY <1>1, <1>3, Bounds DEF Heights
<1>5. ~Ahead(c, n)
  BY <1>1, <1>2 DEF Ahead
<1>6. ~Waits(c, n)
  BY <1>2 DEF Waits
<1>7. Stored(n)
  BY <1>2, <1>4, <1>5, <1>6 DEF DoneInv, NothingLost
<1>8. queue[n] # NoBlock
  BY <1>1, <1>7 DEF Stored
<1>9. n = StartHeight + 1
      /\ \A r \in Ranges : Start(r) = StartHeight => batch[r].from.height = StartHeight
  BY <1>4, <1>8 DEF DoneInv, QueueInv
<1>10. PICK r \in Ranges : Start(r) < n /\ n <= ToOf(r)
  BY <1>4, EveryHeightInRange
<1>11. Start(r) = StartHeight
  BY <1>1, <1>2, <1>9, <1>10
<1> QED
  BY <1>2, <1>9, <1>10, <1>11

\* When all ranges are finished the chain is stored up to the last milestone:
\* with honest peers whose answers, of two blocks or more, end within their
\* ranges, for any milestones and any interleaving, and whatever the store held.
THEOREM FinishedMeansStored ==
    ASSUME NEW CONSTANT c, Honesty(c)
    PROVE  Spec => []DoneMeansStored
<1>0. Aligned(c)
  BY DEF Honesty
<1> DEFINE Inv == IInv /\ HeightInv(c) /\ DoneInv(c)
<1>1. Init => Inv
  BY <1>0, InitInv, HeightInit, DoneInit
<1>2. Inv /\ [Next]_vars => Inv'
  <2> SUFFICES ASSUME Inv, [Next]_vars PROVE Inv'
    OBVIOUS
  <2> QED
    BY <1>0, StepInv, HeightStep, DoneStep
<1>3. Inv => DoneMeansStored
  BY <1>0, DoneIsStored
<1> HIDE DEF Inv
<1> QED
  BY <1>1, <1>2, <1>3, PTL DEF Spec

-----------------------------------------------------------------------------
(* Progress, as far as it is safety *)

\* A range that is to be fetched knows the id of its start.
IdInv == \A r \in Ranges : batch[r].stage = "empty" => batch[r].from.id = batch[r].from.height

\* The stages find what their guards ask for: an id of the chain with others
\* after it, ids, and a chain that is valid.
NoRangeStuck ==
    \A r \in Ranges :
        /\ batch[r].stage = "empty" => batch[r].from.id \in 0..ChainLen - 1
        /\ batch[r].stage = "ids" => batch[r].ids >= 1
        /\ batch[r].stage = "glued" => Valid(batch[r].chain)

LEMMA IdStep ==
    ASSUME IInv, NEW c, Honesty(c), HeightInv(c), IdInv, [Next]_vars
    PROVE  IdInv'
<1>0. Aligned(c) /\ c \in Nat /\ c >= 2 /\ Kinds = {"good"}
      /\ batch \in [Ranges -> [stage : Stages, from : AnyMeta, ids : Int,
                               fetched : Seq(AnyBlock), chain : Seq(AnyBlock)]]
  BY DEF Honesty, Aligned, IInv, Shape
<1>1. ASSUME NEW r \in Ranges, \A s \in Ranges : s # r => batch'[s] = batch[s],
             batch'[r].stage = "empty" => batch'[r].from.id = batch'[r].from.height
      PROVE  IdInv'
  BY <1>1 DEF IdInv
<1>2. ASSUME NEW r \in Ranges, FetchBlockIDs(r) PROVE IdInv'
  <2>1. batch' = [batch EXCEPT ![r].stage = "ids",
                               ![r].ids = Smaller(MaxIds, ChainLen - batch[r].from.id)]
    BY <1>2 DEF FetchBlockIDs
  <2>2. batch'[r].stage = "ids" /\ \A s \in Ranges : s # r => batch'[s] = batch[s]
    BY <1>0, <2>1
  <2> QED
    BY <1>1, <2>2
<1>3. ASSUME NEW r \in Ranges, NEW k \in Answers, FetchBlocks(r, k) PROVE IdInv'
  <2>1. PICK f : batch' = [batch EXCEPT ![r].stage = "blocks", ![r].fetched = f]
    BY <1>3 DEF FetchBlocks
  <2>2. batch'[r].stage = "blocks" /\ \A s \in Ranges : s # r => batch'[s] = batch[s]
    BY <1>0, <2>1
  <2> QED
    BY <1>1, <2>2
<1>4. ASSUME NEW r \in Ranges, Glue(r) PROVE IdInv'
  <2>1. batch'[r].stage = "glued" /\ \A s \in Ranges : s # r => batch'[s] = batch[s]
    BY <1>0, <1>4, GluedChain
  <2> QED
    BY <1>1, <2>1
<1>5. ASSUME NEW r \in Ranges, Refetch(r) PROVE IdInv'
  BY <1>5, HonestChainsValid DEF Refetch
<1>6. ASSUME NEW r \in Ranges, Store(r) PROVE IdInv'
  <2> DEFINE x == batch[r].from.height
             s == batch[r].chain
             y == x + Len(batch[r].fetched)
             b == [stage |-> IF y < ToOf(r) THEN "empty" ELSE "done",
                   from |-> [id |-> IdOf(s), height |-> y],
                   ids |-> 0, fetched |-> <<>>, chain |-> <<>>]
  <2>1. batch[r].stage = "glued" /\ batch' = [batch EXCEPT ![r] = b]
    BY <1>6 DEF Store
  <2>2. x \in Int /\ s \in Seq(AnyBlock) /\ ToOf(r) \in Nat
    BY <1>0, RangeFacts DEF AnyMeta
  <2>3. PICK lo \in {x, x + 1}, hi \in {x + c, x + c + 1} :
          Row(s, lo, hi) /\ (hi = x + c \/ x + c = ToOf(r))
    BY <2>1 DEF HeightInv, BatchInv
  <2>4. Len(batch[r].fetched) = ((x + c) - (x + 1)) + 1
    BY <2>1 DEF HeightInv, BatchInv, Row
  <2>5. y = x + c
    BY <1>0, <2>2, <2>4
  <2> HIDE DEF x, s, y
  <2>6. y < ToOf(r) => IdOf(s) = y
    <3> SUFFICES ASSUME y < ToOf(r) PROVE IdOf(s) = y
      OBVIOUS
    <3>1. hi = x + c /\ lo \in Int /\ hi \in Int /\ hi - lo >= 1
      BY <1>0, <2>2, <2>3, <2>5
    <3>2. Len(s) = (hi - lo) + 1 /\ Len(s) \in 1..Len(s) /\ Len(s) > 1
      BY <2>3, <3>1 DEF Row
    <3>3. s[Len(s)].pos = (lo + Len(s)) - 1
      BY <2>3, <3>2 DEF Row
    <3>4. s[Len(s)].pos = y
      BY <2>5, <3>1, <3>2, <3>3
    <3>5. s[Len(s)].kind = "good"
      <4>1. s[Len(s)] \in AnyBlock
        BY <2>2, <3>2
      <4> QED
        BY <1>0, <4>1 DEF AnyBlock
    <3> QED
      BY <3>2, <3>4, <3>5 DEF IdOf
  <2>7. b.stage = "empty" => b.from.id = b.from.height
    BY <2>6
  <2> HIDE DEF b
  <2>8. batch'[r] = b /\ \A t \in Ranges : t # r => batch'[t] = batch[t]
    BY <1>0, <2>1
  <2> QED
    BY <1>1, <2>7, <2>8
<1>7. CASE UNCHANGED vars
  BY <1>7 DEF vars, IdInv
<1> QED
  BY <1>2, <1>3, <1>4, <1>5, <1>6, <1>7 DEF Next, Fetch, Validate

\* With honest peers and aligned answers no range ever gets stuck: what a stage
\* takes from its channel it can work on, and no batch has to be fetched again.
THEOREM RangesGoOn ==
    ASSUME NEW CONSTANT c, Honesty(c)
    PROVE  Spec => []NoRangeStuck
<1>0. Aligned(c)
  BY DEF Honesty
<1> DEFINE Inv == IInv /\ HeightInv(c) /\ IdInv
<1>1. Init => Inv
  <2> SUFFICES ASSUME Init PROVE Inv
    OBVIOUS
  <2>1. \A r \in Ranges : batch[r].from = FromOf(r)
    BY DEF Init
  <2>2. IdInv
    BY <2>1, RangeFacts DEF IdInv, Start
  <2> QED
    BY <1>0, <2>2, InitInv, HeightInit
<1>2. Inv /\ [Next]_vars => Inv'
  <2> SUFFICES ASSUME Inv, [Next]_vars PROVE Inv'
    OBVIOUS
  <2> QED
    BY <1>0, StepInv, HeightStep, IdStep
<1>3. Inv => NoRangeStuck
  <2> SUFFICES ASSUME Inv, NEW r \in Ranges
               PROVE  /\ batch[r].stage = "empty" => batch[r].from.id \in 0..ChainLen - 1
                      /\ batch[r].stage = "ids" => batch[r].ids >= 1
                      /\ batch[r].stage = "glued" => Valid(batch[r].chain)
    BY DEF NoRangeStuck
  <2>1. batch[r].stage = "empty" => batch[r].from.id \in 0..ChainLen - 1
    <3> SUFFICES ASSUME batch[r].stage = "empty" PROVE batch[r].from.id \in 0..ChainLen - 1
      OBVIOUS
    <3>1. batch[r].from.id = batch[r].from.height
      BY DEF IdInv
    <3>2. Start(r) <= batch[r].from.height /\ batch[r].from.height < ToOf(r)
      BY DEF HeightInv, BatchInv
    <3>3. batch[r].from.height \in Int
      BY DEF IInv, Shape, AnyMeta
    <3>4. Start(r) \in Nat /\ ToOf(r) \in Nat /\ ToOf(r) <= ChainLen /\ ChainLen \in Nat
      BY RangeFacts, EndInChain, Bounds
    <3> QED
      BY <3>1, <3>2, <3>3, <3>4
  <2>2. batch[r].stage = "ids" => batch[r].ids >= 1
    BY DEF IInv, StoreInv
  <2> QED
    BY <2>1, <2>2, HonestChainsValid
<1> HIDE DEF Inv
<1> QED
  BY <1>1, <1>2, <1>3, PTL DEF Spec
=============================================================================
