---------------------------- MODULE BlockRulesProofs ----------------------------
(***************************************************************************)
(* Proofs about the rules of a block, for every window, every greatest      *)
(* target, every width of the numbers and every sequence of block times:    *)
(* the base target and the cumulative difficulty, the order of the blocks,  *)
(* what is in time, and the totals.  The average over the window is a loop, *)
(* here a recursive function, and the totals are folds: that they have a    *)
(* value, and which, is proved by induction over the window and over the    *)
(* places of a sequence, with sets in the place of predicates.              *)
(***************************************************************************)
EXTENDS BlockRules, FiniteSetTheorems, TLAPS

-----------------------------------------------------------------------------
(* Numbers. *)

\* Induction, for a set of numbers: were x left out of S, so would be x - 1,
\* and stepping down would map the numbers up to x that are left out into
\* themselves and never reach x.
LEMMA SetInduction ==
    ASSUME NEW S, 0 \in S, \A k \in Nat : k \in S => k + 1 \in S
    PROVE  \A k \in Nat : k \in S
  <1> SUFFICES ASSUME NEW x \in Nat, x \notin S PROVE FALSE
    OBVIOUS
  <1> DEFINE T == {y \in 0 .. x : y \notin S}
             down == [y \in T |-> y - 1]
  <1>1. IsFiniteSet(T)
    <2>1. IsFiniteSet(0 .. x) /\ T \in SUBSET (0 .. x)
      BY FS_Interval
    <2> HIDE DEF T
    <2> QED
      BY <2>1, FS_Subset
  <1>2. \A y \in T : y - 1 \in T
    <2> TAKE y \in T
    <2>1. y \in Nat /\ y # 0 /\ y <= x
      OBVIOUS
    <2>2. y - 1 \in Nat /\ (y - 1) + 1 = y /\ y - 1 <= x
      BY <2>1
    <2> QED
      BY <2>2
  <1>3. down \in Injection(T, T)
    <2>1. down \in [T -> T]
      BY <1>2
    <2>2. \A y, z \in T : down[y] = down[z] => y = z
      OBVIOUS
    <2> QED
      BY <2>1, <2>2, Zenon DEF Injection, IsInjective
  <1>4. down \in Surjection(T, T)
    <2> HIDE DEF T, down
    <2> QED
      BY <1>1, <1>3, FS_Injection
  <1>5. x \in T
    OBVIOUS
  <1>6. PICK y \in T : down[y] = x
    <2> HIDE DEF T, down
    <2> QED
      BY <1>4, <1>5, Zenon DEF Surjection
  <1> QED
    BY <1>6

\* A quotient lies where the product says.
LEMMA Quotient ==
    ASSUME NEW x \in Nat, NEW d \in Nat \ {0}
    PROVE  x \div d \in Nat /\ d * (x \div d) <= x /\ x < d * (x \div d) + d
  OBVIOUS

\* A weighted mean of two numbers lies between the limits of both.
LEMMA MeanInRange ==
    ASSUME NEW M \in Nat \ {0}, NEW a \in 1 .. M, NEW b \in 1 .. M, NEW m \in Nat
    PROVE  (a * m + b) \div (m + 1) \in 1 .. M
  <1> DEFINE x == a * m + b
             q == x \div (m + 1)
  <1>1. x \in Nat /\ m + 1 <= x /\ x <= M * (m + 1)
    <2>1. a * m \in Nat /\ m <= a * m /\ a * m <= M * m
      <3>1. a * m = (a - 1) * m + m /\ M * m = (M - a) * m + a * m
        OBVIOUS
      <3>2. (a - 1) * m \in Nat /\ (M - a) * m \in Nat /\ a * m \in Nat /\ M * m \in Nat
        OBVIOUS
      <3> QED
        BY <3>1, <3>2
    <2>2. M * (m + 1) = M * m + M
      OBVIOUS
    <2> QED
      BY <2>1, <2>2
  <1>2. q \in Nat /\ (m + 1) * q <= x /\ x < (m + 1) * q + (m + 1)
    <2>1. x \in Nat /\ m + 1 \in Nat \ {0}
      BY <1>1
    <2> HIDE DEF x
    <2> QED
      BY <2>1, Quotient
  <1>3. q # 0
    BY <1>1, <1>2
  <1>4. q <= M
    <2>1. SUFFICES ASSUME M + 1 <= q PROVE FALSE
      BY <1>2
    <2>2. (m + 1) * (M + 1) <= (m + 1) * q
      BY <2>1, <1>2
    <2>3. (m + 1) * (M + 1) = M * (m + 1) + m + 1
      OBVIOUS
    <2> QED
      BY <1>1, <1>2, <2>2, <2>3
  <1> QED
    BY <1>2, <1>3, <1>4

-----------------------------------------------------------------------------
(* The average over a window. *)

\* One pass of the loop: the average from place i on.
Pass(w, f, i) ==
    IF i = LargeWindow THEN w[LargeWindow].target
    ELSE (f[i + 1] * (LargeWindow + 1 - i) + w[i].target) \div (LargeWindow + 2 - i)

Window(w) == \A i \in 1 .. LargeWindow : w[i].target \in 1 .. MaxBaseTarget

\* A pass keeps the average in the range of the targets.
LEMMA PassInRange ==
    ASSUME NEW w, Window(w), NEW f, NEW i \in 1 .. LargeWindow,
           i # LargeWindow => f[i + 1] \in 1 .. MaxBaseTarget
    PROVE  Pass(w, f, i) \in 1 .. MaxBaseTarget
  <1>0. LargeWindow \in Nat \ {0} /\ MaxBaseTarget \in Nat \ {0}
    BY SizesAssumption
  <1>1. CASE i = LargeWindow
    BY <1>0, <1>1 DEF Pass, Window
  <1>2. CASE i # LargeWindow
    <2> DEFINE m == LargeWindow + 1 - i
               a == f[i + 1]
               b == w[i].target
    <2>1. m \in Nat /\ LargeWindow + 2 - i = m + 1
      BY <1>0
    <2>2. a \in 1 .. MaxBaseTarget /\ b \in 1 .. MaxBaseTarget
      BY <1>2 DEF Window
    <2>3. Pass(w, f, i) = (a * m + b) \div (m + 1)
      BY <1>2, <2>1 DEF Pass
    <2> HIDE DEF m, a, b
    <2> QED
      BY <1>0, <2>1, <2>2, <2>3, MeanInRange
  <1> QED
    BY <1>1, <1>2

\* The loop has a result: passes can be chained from the newest block down.
LEMMA LoopExists ==
    ASSUME NEW w, Window(w)
    PROVE  \E f : f = [i \in 1 .. LargeWindow |-> Pass(w, f, i)]
  <1> DEFINE N == LargeWindow
             T == 1 .. MaxBaseTarget
             Chained(f, k) == \A i \in (N - k) .. N : f[i] = Pass(w, f, i)
             S == {k \in Nat : k < N => \E f \in [(N - k) .. N -> T] : Chained(f, k)}
  <1>0. N \in Nat \ {0} /\ MaxBaseTarget \in Nat \ {0}
    BY SizesAssumption
  <1>1. 0 \in S
    <2> DEFINE f == [i \in (N - 0) .. N |-> w[N].target]
    <2>1. f \in [(N - 0) .. N -> T]
      BY <1>0 DEF Window
    <2>2. Chained(f, 0)
      BY <1>0 DEF Pass
    <2> QED
      BY <2>1, <2>2
  <1>2. \A k \in Nat : k \in S => k + 1 \in S
    <2> SUFFICES ASSUME NEW k \in Nat, k \in S, k + 1 < N
                 PROVE  \E g \in [(N - (k + 1)) .. N -> T] : Chained(g, k + 1)
      OBVIOUS
    <2> DEFINE j == N - (k + 1)
    <2>1. PICK f \in [(N - k) .. N -> T] : Chained(f, k)
      BY <1>0
    <2>2. j \in 1 .. N /\ j # N /\ j + 1 = N - k /\ j + 1 \in (N - k) .. N
      BY <1>0
    <2> DEFINE g == [i \in j .. N |-> IF i = j THEN Pass(w, f, j) ELSE f[i]]
    <2>3. Pass(w, f, j) \in T
      <3>1. f[j + 1] \in T
        BY <2>1, <2>2
      <3> HIDE DEF j
      <3> QED
        BY <2>2, <3>1, PassInRange
    <2>4. g \in [j .. N -> T]
      <3>1. \A i \in j .. N : i # j => i \in (N - k) .. N
        BY <1>0, <2>2
      <3> HIDE DEF j, N, T
      <3> QED
        BY <2>1, <2>3, <3>1
    <2>5. Chained(g, k + 1)
      <3> SUFFICES ASSUME NEW i \in j .. N PROVE g[i] = Pass(w, g, i)
        OBVIOUS
      <3>1. i # N => i + 1 \in j .. N /\ i + 1 # j
        BY <1>0, <2>2
      <3>2. i # N => g[i + 1] = f[i + 1]
        BY <3>1
      <3>3. Pass(w, g, i) = Pass(w, f, i)
        <4> HIDE DEF g
        <4> QED
          BY <3>2, Zenon DEF Pass
      <3>4. CASE i = j
        BY <3>3, <3>4
      <3>5. CASE i # j
        <4>1. i \in (N - k) .. N
          BY <1>0, <2>2, <3>5
        <4> QED
          BY <2>1, <3>3, <3>5, <4>1
      <3> QED
        BY <3>4, <3>5
    <2> QED
      BY <2>4, <2>5
  <1>3. N - 1 \in S
    <2>1. N - 1 \in Nat
      BY <1>0
    <2> HIDE DEF S
    <2> QED
      BY <1>1, <1>2, <2>1, SetInduction
  <1>4. PICK f \in [1 .. N -> T] : \A i \in 1 .. N : f[i] = Pass(w, f, i)
    BY <1>0, <1>3
  <1> QED
    BY <1>4

\* So the average of a window is in the range of its targets.
LEMMA AverageInRange ==
    ASSUME NEW w, Window(w)
    PROVE  LargeAverage(w) \in 1 .. MaxBaseTarget
  <1> DEFINE N == LargeWindow
             T == 1 .. MaxBaseTarget
             avg == CHOOSE f : f = [i \in 1 .. N |-> Pass(w, f, i)]
             S == {k \in Nat : k < N => avg[N - k] \in T}
  <1>0. N \in Nat \ {0} /\ MaxBaseTarget \in Nat \ {0}
    BY SizesAssumption
  <1>1. avg = [i \in 1 .. N |-> Pass(w, avg, i)]
    BY LoopExists
  <1>2. \A i \in 1 .. N : avg[i] = Pass(w, avg, i)
    <2> HIDE DEF avg
    <2> QED
      BY <1>1
  <1>3. LargeAverage(w) = avg[1]
    BY DEF LargeAverage, Pass
  <1> HIDE DEF avg
  <1>4. 0 \in S
    <2>1. avg[N] \in T
      BY <1>0, <1>2, PassInRange
    <2> QED
      BY <1>0, <2>1
  <1>5. \A k \in Nat : k \in S => k + 1 \in S
    <2> SUFFICES ASSUME NEW k \in Nat, k \in S, k + 1 < N PROVE avg[N - (k + 1)] \in T
      OBVIOUS
    <2> DEFINE j == N - (k + 1)
    <2>1. j \in 1 .. N /\ j + 1 = N - k
      BY <1>0
    <2>2. avg[j + 1] \in T
      BY <1>0, <2>1
    <2> HIDE DEF j
    <2>3. avg[j] \in T
      BY <1>2, <2>1, <2>2, PassInRange
    <2> QED
      BY <2>3 DEF j
  <1>6. N - 1 \in S
    <2>1. N - 1 \in Nat
      BY <1>0
    <2> HIDE DEF S
    <2> QED
      BY <1>4, <1>5, <2>1, SetInduction
  <1> QED
    BY <1>0, <1>3, <1>6

-----------------------------------------------------------------------------
(* The limits of a base target. *)

\* What the two kinds of limit give.
LEMMA Limits ==
    ASSUME NEW x \in Int, NEW y \in Int
    PROVE  /\ AtLeast(x, y) \in {x, y} /\ AtLeast(x, y) >= x /\ AtLeast(x, y) >= y
           /\ AtMost(x, y) \in {x, y} /\ AtMost(x, y) <= x /\ AtMost(x, y) <= y
  BY DEF AtLeast, AtMost

\* A time span is a number, whatever it wrapped from.
LEMMA SecondsType ==
    ASSUME NEW x \in Int
    PROVE  Seconds(x) \in Nat
  BY SizesAssumption DEF Seconds

\* A scaled target, cut off at the greatest one, is a number.
LEMMA ScaledType ==
    ASSUME NEW a \in Nat, NEW dt \in Nat, NEW d \in Nat \ {0}
    PROVE  AtMost((a * dt) \div d, MaxBaseTarget) \in 0 .. MaxBaseTarget
  <1>1. a * dt \in Nat
    OBVIOUS
  <1>2. (a * dt) \div d \in Nat
    BY <1>1, Quotient
  <1> QED
    BY <1>2, SizesAssumption DEF AtMost

\* A target of the first rule, from a mean in range.
LEMMA SmallInRange ==
    ASSUME NEW w, \A i \in 1 .. 4 : w[i].target \in 1 .. MaxBaseTarget,
           w[1].ts \in Nat, NEW ts \in Nat
    PROVE  SmallTarget(w, ts) \in 1 .. MaxBaseTarget
  <1> DEFINE mean == (w[1].target + w[2].target + w[3].target + w[4].target) \div 4
             dt   == Seconds(ts - w[1].ts)
             new  == AtMost((mean * dt) \div (BlockTime * 4), MaxBaseTarget)
             up   == AtLeast(new, (mean * 9) \div 10)
  <1>1. mean \in 1 .. MaxBaseTarget
    BY SizesAssumption
  <1>2. dt \in Nat
    BY SecondsType
  <1> HIDE DEF mean, dt
  <1>3. new \in 0 .. MaxBaseTarget
    BY <1>1, <1>2, ScaledType, SizesAssumption
  <1>4. (mean * 9) \div 10 \in 0 .. MaxBaseTarget /\ (mean * 11) \div 10 \in Nat \ {0}
    BY <1>1, SizesAssumption
  <1> HIDE DEF new
  <1>5. AtMost(AtLeast(up, 1), (mean * 11) \div 10) \in 1 .. MaxBaseTarget
    BY <1>3, <1>4, SizesAssumption DEF AtMost, AtLeast
  <1> QED
    BY <1>5 DEF SmallTarget, mean, dt, new

\* A target of the second rule, from a window of targets in range.
LEMMA LargeInRange ==
    ASSUME NEW w, Window(w), w[1].ts \in Nat, NEW ts \in Nat
    PROVE  LargeTarget(w, ts) \in 1 .. MaxBaseTarget
  <1> DEFINE expected == LargeWindow * BlockTime
             dt  == AtMost(AtLeast(Seconds(ts - w[1].ts), expected \div 2), expected * 2)
             current == w[LargeWindow].target
             new == AtMost((LargeAverage(w) * dt) \div expected, MaxBaseTarget)
             up  == AtLeast(AtLeast(new, 1), (current * 8) \div 10)
  <1>1. expected \in Nat \ {0}
    BY SizesAssumption
  <1>2. current \in 1 .. MaxBaseTarget
    BY SizesAssumption DEF Window
  <1> HIDE DEF expected, current
  <1>3. dt \in Nat
    <2>1. Seconds(ts - w[1].ts) \in Nat
      BY SecondsType
    <2> QED
      BY <1>1, <2>1 DEF AtMost, AtLeast
  <1> HIDE DEF dt
  <1>4. new \in 0 .. MaxBaseTarget
    BY <1>1, <1>3, AverageInRange, ScaledType
  <1>5. (current * 8) \div 10 \in 0 .. MaxBaseTarget /\ (current * 12) \div 10 \in Nat \ {0}
    BY <1>2, SizesAssumption
  <1> HIDE DEF new
  <1>6. AtMost(up, (current * 12) \div 10) \in 1 .. MaxBaseTarget
    BY <1>4, <1>5, SizesAssumption DEF AtMost, AtLeast
  <1> QED
    BY <1>6 DEF LargeTarget, expected, current, dt, new

-----------------------------------------------------------------------------
(* The invariant. *)

IInv == TypeOK /\ TargetInRange

\* The last n blocks of a chain are blocks of it.
LEMMA LastOfFacts ==
    ASSUME NEW s \in Seq(Filed), NEW n \in Nat \ {0}, n <= Len(s),
           \A i \in DOMAIN s : s[i].target \in 1 .. MaxBaseTarget
    PROVE  \A i \in 1 .. n : /\ LastOf(s, n)[i].target \in 1 .. MaxBaseTarget
                             /\ LastOf(s, n)[i].ts \in Nat
  <1> SUFFICES ASSUME NEW i \in 1 .. n
               PROVE  /\ LastOf(s, n)[i].target \in 1 .. MaxBaseTarget
                      /\ LastOf(s, n)[i].ts \in Nat
    OBVIOUS
  <1> DEFINE k == Len(s) - n + i
  <1>1. LastOf(s, n)[i] = s[k]
    BY DEF LastOf
  <1>2. k \in DOMAIN s
    OBVIOUS
  <1>3. s[k] \in Filed
    BY <1>2
  <1>4. s[k].ts \in Nat
    <2> HIDE DEF k
    <2>1. s[k].ts \in Time
      BY <1>3 DEF Filed
    <2> QED
      BY <2>1, SizesAssumption DEF Time
  <1> QED
    BY <1>1, <1>2, <1>4

\* Whatever the chain is, the target of the next block is in range.
LEMMA BaseTargetInRange ==
    ASSUME IInv, NEW ts \in Time
    PROVE  BaseTarget(filed, ts) \in 1 .. MaxBaseTarget
  <1>1. ts \in Nat
    BY SizesAssumption DEF Time
  <1>2. filed \in Seq(Filed) /\ \A i \in DOMAIN filed : filed[i].target \in 1 .. MaxBaseTarget
    BY DEF IInv, TypeOK, TargetInRange
  <1>3. CASE Len(filed) < 4
    BY <1>3, SizesAssumption, SMTT(20) DEF BaseTarget
  <1>4. CASE Len(filed) >= 4 /\ Len(filed) < AdjustHeight
    <2> DEFINE w == LastOf(filed, 4)
    <2>1. \A i \in 1 .. 4 : w[i].target \in 1 .. MaxBaseTarget /\ w[i].ts \in Nat
      BY <1>2, <1>4, LastOfFacts
    <2>2. BaseTarget(filed, ts) = SmallTarget(w, ts)
      BY <1>2, <1>4 DEF BaseTarget
    <2> HIDE DEF w
    <2> QED
      BY <1>1, <2>1, <2>2, SmallInRange
  <1>5. CASE Len(filed) >= 4 /\ Len(filed) >= AdjustHeight
    <2> DEFINE w == LastOf(filed, LargeWindow)
    <2>1. LargeWindow \in Nat \ {0} /\ LargeWindow <= Len(filed)
      BY <1>2, <1>5, SizesAssumption, SMTT(20)
    <2>2. \A i \in 1 .. LargeWindow : w[i].target \in 1 .. MaxBaseTarget /\ w[i].ts \in Nat
      BY <1>2, <2>1, LastOfFacts
    <2>3. BaseTarget(filed, ts) = LargeTarget(w, ts)
      BY <1>2, <1>5, SizesAssumption, SMTT(20) DEF BaseTarget
    <2> HIDE DEF w
    <2>4. Window(w) /\ w[1].ts \in Nat
      BY <2>1, <2>2 DEF Window
    <2> QED
      BY <1>1, <2>3, <2>4, LargeInRange
  <1> QED
    BY <1>2, <1>3, <1>4, <1>5, SizesAssumption, SMTT(20)

\* The block validation files: of a type, with a target in range, and heavier
\* than the last one.
LEMMA ValidateFacts ==
    ASSUME IInv, Validate
    PROVE  \E b \in Filed : /\ filed' = Append(filed, b)
                            /\ b.target \in 1 .. MaxBaseTarget
                            /\ b.difficulty > Last(filed).difficulty
  <1> DEFINE ts == Head(queue).ts
             target == BaseTarget(filed, ts)
             own == MaxBig64 \div target
             b == [ts |-> ts, target |-> target, difficulty |-> Last(filed).difficulty + own]
  <1>1. ts \in Time
    <2>1. Head(queue) \in Queued
      BY DEF IInv, TypeOK, Validate
    <2> QED
      BY <2>1 DEF Queued
  <1>2. target \in 1 .. MaxBaseTarget
    BY <1>1, BaseTargetInRange
  <1> HIDE DEF target
  <1>3. own \in Nat \ {0}
    <2>1. /\ own \in Nat /\ MaxBig64 < target * own + target
          /\ target <= MaxBig64 /\ target \in Nat
      BY <1>2, Quotient, SizesAssumption
    <2> HIDE DEF own
    <2>2. own = 0 => target * own = 0
      BY <2>1
    <2> QED
      BY <2>1, <2>2, SizesAssumption
  <1> HIDE DEF own
  <1>4. Last(filed).difficulty \in Nat
    <2>1. filed[Len(filed)] \in Filed
      BY DEF IInv, TypeOK
    <2> QED
      BY <2>1 DEF Last, Filed
  <1>5. b \in Filed
    BY <1>1, <1>2, <1>3, <1>4 DEF Filed
  <1>6. filed' = Append(filed, b)
    BY DEF Validate, CumulativeDifficulty, target, own
  <1> QED
    BY <1>2, <1>3, <1>4, <1>5, <1>6

\* What is known ends in a block of a time.
LEMMA TipTime ==
    ASSUME TypeOK
    PROVE  Tip.ts \in Time
  <1>1. CASE queue = <<>>
    <2>1. Known = filed
      BY <1>1 DEF Known, TypeOK
    <2>2. filed[Len(filed)] \in Filed
      BY DEF TypeOK
    <2> QED
      BY <2>1, <2>2 DEF Tip, Last, Filed
  <1>2. CASE queue # <<>>
    <2>1. queue[Len(queue)] \in Queued
      BY <1>2 DEF TypeOK
    <2>2. Len(Known) = Len(filed) + Len(queue) /\ Len(queue) \in Nat \ {0} /\ Len(filed) \in Nat
      BY <1>2 DEF Known, TypeOK
    <2>3. Known[Len(Known)] = queue[Len(queue)]
      BY <2>2 DEF Known, TypeOK
    <2> QED
      BY <2>1, <2>3 DEF Tip, Last, Queued
  <1> QED
    BY <1>1, <1>2

\* A block offered is of the type of the queue, and joins it or stops the node.
LEMMA OfferFacts ==
    ASSUME TypeOK, Offer
    PROVE  /\ UNCHANGED <<now, filed>>
           /\ queue' = queue \/ \E b \in Queued : queue' = Append(queue, b)
           /\ running' \in BOOLEAN
  <1>1. PICK h \in Headers :
          \/ PreValidate(h, [txs |-> <<>>, payload |-> <<>>, totalAmount |-> 0, totalFee |-> 0])
          \/ \E txs \in Bodies : \E payload \in {<<>>, txs}, amount, fee \in Total :
                PreValidate(h, [txs |-> txs, payload |-> payload,
                                totalAmount |-> amount, totalFee |-> fee])
    BY DEF Offer
  <1>2. h.ts \in Time
    <2>1. PICK g \in Gap \cup {0} : h.ts = Seconds(Tip.ts + g)
      BY DEF Headers
    <2>2. Tip.ts + g \in Nat
      BY TipTime, SizesAssumption DEF Time
    <2> HIDE DEF Tip
    <2> QED
      BY <2>1, <2>2, SizesAssumption DEF Seconds, Time
  <1>3. ASSUME NEW txs \in Seq(Transaction), NEW payload,
               NEW amount \in Total \cup {0}, NEW fee \in Total \cup {0},
               PreValidate(h, [txs |-> txs, payload |-> payload,
                               totalAmount |-> amount, totalFee |-> fee])
        PROVE  /\ UNCHANGED <<now, filed>>
               /\ queue' = queue \/ \E b \in Queued : queue' = Append(queue, b)
               /\ running' \in BOOLEAN
    <2> DEFINE q == [ts |-> h.ts, txs |-> txs, totalAmount |-> amount, totalFee |-> fee]
    <2>1. q \in Queued
      BY <1>2, <1>3 DEF Queued
    <2>2. CASE SignaturePanics(h)
      BY <1>3, <2>2 DEF PreValidate
    <2>3. CASE ~SignaturePanics(h)
      <3>1. queue' = Append(queue, q) /\ UNCHANGED <<now, filed, running>>
        BY <1>3, <2>3 DEF PreValidate
      <3> QED
        BY <2>1, <3>1 DEF TypeOK
    <2> QED
      BY <2>2, <2>3
  <1>4. Bodies \subseteq Seq(Transaction)
    <2>1. ASSUME NEW txs \in BoundedSeq(Transaction, MaxTxs)
          PROVE  txs \in Seq(Transaction)
      <3>1. PICK n \in 0 .. MaxTxs : txs \in [1 .. n -> Transaction]
        BY DEF BoundedSeq, SeqOf
      <3> QED
        BY <3>1, SizesAssumption, SMTT(20)
    <2>2. <<>> \in Seq(Transaction)
      OBVIOUS
    <2> QED
      BY <2>1, <2>2 DEF Bodies
  <1>5. <<>> \in Seq(Transaction)
    OBVIOUS
  <1> QED
    BY <1>1, <1>3, <1>4, <1>5

LEMMA Initially == Init => IInv
  <1> SUFFICES ASSUME Init PROVE IInv
    OBVIOUS
  <1>1. 0 \in Time /\ Genesis \in Filed
    BY SizesAssumption DEF Time, Genesis, Filed
  <1>2. filed = <<Genesis>> /\ filed \in Seq(Filed) /\ filed # <<>> /\ queue \in Seq(Queued)
    BY <1>1 DEF Init
  <1>3. TypeOK
    BY <1>1, <1>2 DEF TypeOK, Init
  <1>4. TargetInRange
    BY <1>2, SizesAssumption, SMTT(20) DEF TargetInRange, Genesis
  <1> QED
    BY <1>3, <1>4 DEF IInv

LEMMA Preserved == IInv /\ [Next]_vars => IInv'
  <1> SUFFICES ASSUME IInv, [Next]_vars PROVE IInv'
    OBVIOUS
  <1>1. CASE Tick
    BY <1>1 DEF Tick, IInv, TypeOK, TargetInRange
  <1>2. CASE Offer
    <2>1. /\ UNCHANGED <<now, filed>>
          /\ queue' = queue \/ \E b \in Queued : queue' = Append(queue, b)
          /\ running' \in BOOLEAN
      BY <1>2, OfferFacts DEF IInv
    <2>2. queue' \in Seq(Queued)
      BY <2>1 DEF IInv, TypeOK
    <2> QED
      BY <2>1, <2>2 DEF IInv, TypeOK, TargetInRange
  <1>3. CASE Validate
    <2>1. PICK b \in Filed : filed' = Append(filed, b) /\ b.target \in 1 .. MaxBaseTarget
      BY <1>3, ValidateFacts
    <2>2. filed' \in Seq(Filed) /\ filed' # <<>>
      BY <2>1 DEF IInv, TypeOK
    <2>3. queue' \in Seq(Queued) /\ now' = now /\ running' = running
      BY <1>3 DEF Validate, IInv, TypeOK
    <2>4. TargetInRange'
      <3> SUFFICES ASSUME NEW i \in DOMAIN filed' PROVE filed'[i].target \in 1 .. MaxBaseTarget
        BY DEF TargetInRange
      <3>1. CASE i \in DOMAIN filed
        BY <2>1, <3>1 DEF IInv, TypeOK, TargetInRange
      <3>2. CASE i \notin DOMAIN filed
        <4>1. filed'[i] = b
          BY <2>1, <3>2 DEF IInv, TypeOK
        <4> QED
          BY <2>1, <4>1
      <3> QED
        BY <3>1, <3>2
    <2> QED
      BY <2>2, <2>3, <2>4 DEF IInv, TypeOK
  <1>4. CASE UNCHANGED vars
    BY <1>4 DEF vars, IInv, TypeOK, TargetInRange
  <1> QED
    BY <1>1, <1>2, <1>3, <1>4 DEF Next

THEOREM Invariant == Spec => []IInv
  <1>1. Init => IInv
    BY Initially
  <1>2. IInv /\ [Next]_vars => IInv'
    BY Preserved
  <1> QED
    BY <1>1, <1>2, PTL DEF Spec

\* Times, targets and difficulties are numbers of their width, and there is
\* always a block to continue.
THEOREM TypeCorrect == Spec => []TypeOK
  <1>1. IInv => TypeOK
    BY DEF IInv
  <1> QED
    BY <1>1, Invariant, PTL

\* No times of blocks, no window and no greatest target take a base target to
\* 0 or past the greatest.
THEOREM TargetStaysInRange == Spec => []TargetInRange
  <1>1. IInv => TargetInRange
    BY DEF IInv
  <1> QED
    BY <1>1, Invariant, PTL

\* Every block filed makes the chain heavier.
THEOREM DifficultyAlwaysGrows == Spec => DifficultyGrows
  <1> DEFINE Grows == Len(filed') > Len(filed) =>
                        Last(filed').difficulty > Last(filed).difficulty
  <1>1. IInv /\ [Next]_vars => [Grows]_vars
    <2> SUFFICES ASSUME IInv, Next PROVE Grows
      OBVIOUS
    <2>1. CASE Tick
      BY <2>1 DEF Tick, IInv, TypeOK
    <2>2. CASE Offer
      <3>1. filed' = filed
        BY <2>2, OfferFacts DEF IInv
      <3> QED
        BY <3>1 DEF IInv, TypeOK
    <2>3. CASE Validate
      <3>1. PICK b \in Filed : filed' = Append(filed, b) /\ b.difficulty > Last(filed).difficulty
        BY <2>3, ValidateFacts
      <3>2. Last(filed') = b
        BY <3>1 DEF Last, IInv, TypeOK
      <3> QED
        BY <3>1, <3>2
    <2> QED
      BY <2>1, <2>2, <2>3 DEF Next
  <1> QED
    BY <1>1, Invariant, PTL DEF Spec, DifficultyGrows


-----------------------------------------------------------------------------
(* The order of the blocks, and what is in time. *)

\* What pre-validation at a time leaves of a block, in numbers that did not wrap.
Passed(b, time) ==
    /\ b.ts <= time + MaxTimestampDifference
    /\ \A k \in DOMAIN b.txs :
         /\ b.txs[k].ts <= b.ts + MaxTimestampDifference
         /\ b.ts <= b.txs[k].ts + Minute * b.txs[k].deadline
    /\ b.txs # <<>> => /\ Sint(AmountsOf(b.txs)) <= b.totalAmount
                       /\ Sint(FeesOf(b.txs)) <= b.totalFee

Ordered(blocks) == \A i, j \in DOMAIN blocks : i < j => blocks[i].ts < blocks[j].ts

\* The known blocks are in the order of their times, and those in the queue passed.
OrderInv ==
    /\ Ordered(filed \o queue)
    /\ \A i \in DOMAIN queue : Passed(queue[i], now)

LEMMA Joined ==
    ASSUME NEW S, NEW T, NEW s \in Seq(S), NEW t \in Seq(T)
    PROVE  /\ s \o t \in Seq(S \cup T)
           /\ Len(s) \in Nat /\ Len(t) \in Nat
           /\ DOMAIN (s \o t) = 1 .. Len(s) + Len(t)
           /\ Len(s \o t) = Len(s) + Len(t)
           /\ \A i \in 1 .. Len(s) : (s \o t)[i] = s[i] /\ s[i] \in S
           /\ \A i \in 1 .. Len(t) : (s \o t)[Len(s) + i] = t[i] /\ t[i] \in T
  OBVIOUS

LEMMA KnownTimes ==
    ASSUME TypeOK
    PROVE  /\ filed \in Seq(Filed) /\ filed # <<>> /\ queue \in Seq(Queued)
           /\ filed \o queue \in Seq(Filed \cup Queued) /\ filed \o queue # <<>>
           /\ \A i \in DOMAIN (filed \o queue) : (filed \o queue)[i].ts \in Nat
  <1>1. filed \in Seq(Filed) /\ filed # <<>> /\ queue \in Seq(Queued)
    BY DEF TypeOK
  <1>2. \A b \in Filed \cup Queued : b.ts \in Nat
    <2>1. Time \subseteq Nat
      BY SizesAssumption DEF Time
    <2> QED
      BY <2>1 DEF Filed, Queued
  <1> HIDE DEF Filed, Queued
  <1>3. filed \o queue \in Seq(Filed \cup Queued) /\ Len(filed \o queue) # 0
    BY <1>1, Joined
  <1> QED
    BY <1>1, <1>2, <1>3

\* A later block keeps the order.
LEMMA OrderedAppend ==
    ASSUME NEW S, NEW s \in Seq(S), s # <<>>, NEW b,
           \A i \in DOMAIN s : s[i].ts \in Int, b.ts \in Int,
           Ordered(s), s[Len(s)].ts < b.ts
    PROVE  Ordered(Append(s, b))
  <1> DEFINE n == Len(s)
             t == Append(s, b)
  <1>1. /\ n \in Nat \ {0} /\ DOMAIN s = 1 .. n /\ DOMAIN t = 1 .. n + 1
        /\ \A i \in 1 .. n : t[i] = s[i]
        /\ t[n + 1] = b
    OBVIOUS
  <1> HIDE DEF t
  <1>2. ASSUME NEW i \in DOMAIN t, NEW j \in DOMAIN t, i < j
        PROVE  t[i].ts < t[j].ts
    <2>1. CASE j \in 1 .. n
      BY <1>1, <1>2, <2>1 DEF Ordered
    <2>2. CASE j = n + 1
      <3>1. i \in 1 .. n /\ n \in 1 .. n
        BY <1>1, <1>2, <2>2
      <3>2. s[i].ts <= s[n].ts
        BY <1>1, <3>1 DEF Ordered
      <3> HIDE DEF n
      <3> QED
        BY <1>1, <2>2, <3>1, <3>2
    <2> QED
      BY <1>1, <1>2, <2>1, <2>2
  <1>3. Ordered(t)
    BY <1>2 DEF Ordered
  <1> QED
    BY <1>3 DEF t

\* Filing the first block of the queue leaves the times where they are.
LEMMA MovedOn ==
    ASSUME NEW S, NEW T, NEW s \in Seq(S), NEW t \in Seq(T), t # <<>>, NEW b \in S,
           b.ts = Head(t).ts
    PROVE  /\ DOMAIN (Append(s, b) \o Tail(t)) = DOMAIN (s \o t)
           /\ \A i \in DOMAIN (s \o t) : (Append(s, b) \o Tail(t))[i].ts = (s \o t)[i].ts
  <1> DEFINE n == Len(s)
             m == Len(t)
             u == Append(s, b)
             v == Tail(t)
  <1>1. /\ n \in Nat /\ m \in Nat \ {0}
        /\ u \in Seq(S) /\ Len(u) = n + 1 /\ u[n + 1] = b /\ \A i \in 1 .. n : u[i] = s[i]
        /\ v \in Seq(T) /\ Len(v) = m - 1 /\ \A i \in 1 .. m - 1 : v[i] = t[i + 1]
        /\ Head(t) = t[1]
    OBVIOUS
  <1> HIDE DEF n, m, u, v
  <1>2. DOMAIN (s \o t) = 1 .. n + m /\ DOMAIN (u \o v) = 1 .. n + m
    <2>1. (n + 1) + (m - 1) = n + m
      BY <1>1
    <2>2. DOMAIN (s \o t) = 1 .. n + m
      <3>1. DOMAIN (s \o t) = 1 .. Len(s) + Len(t)
        BY Joined
      <3> QED
        BY <3>1 DEF n, m
    <2>3. DOMAIN (u \o v) = 1 .. Len(u) + Len(v)
      <3>1. u \in Seq(S) /\ v \in Seq(T)
        BY <1>1
      <3> QED
        BY <3>1
    <2>4. Len(u) + Len(v) = n + m
      BY <1>1, <2>1
    <2> QED
      BY <2>2, <2>3, <2>4
  <1>a. n + m \in Nat
    BY <1>1
  <1>3. ASSUME NEW i \in 1 .. n + m PROVE (u \o v)[i].ts = (s \o t)[i].ts
    <2>a. i \in Int /\ (i \in 1 .. n \/ i = n + 1 \/ i > n + 1)
      BY <1>1, <1>a, <1>3
    <2>1. CASE i \in 1 .. n
      <3>1. i \in 1 .. n + 1
        BY <1>1, <2>1
      <3>2. (u \o v)[i] = u[i] /\ (s \o t)[i] = s[i]
        BY <1>1, <2>1, <3>1, Joined DEF n
      <3> QED
        BY <1>1, <2>1, <3>2
    <2>2. CASE i = n + 1
      <3>1. n + 1 \in 1 .. n + 1 /\ 1 \in 1 .. m
        BY <1>1
      <3>2. (u \o v)[n + 1] = u[n + 1] /\ (s \o t)[n + 1] = t[1]
        BY <1>1, <3>1, Joined DEF n, m
      <3> QED
        BY <1>1, <2>2, <3>2
    <2>3. CASE i > n + 1
      <3> DEFINE j == i - n - 1
      <3>1. j \in 1 .. m - 1 /\ j + 1 \in 1 .. m /\ i = (n + 1) + j /\ i = n + (j + 1)
        BY <1>1, <1>3, <2>3
      <3> HIDE DEF j
      <3>2. (u \o v)[(n + 1) + j] = v[j] /\ (s \o t)[n + (j + 1)] = t[j + 1]
        BY <1>1, <3>1, Joined DEF n, m
      <3> QED
        BY <1>1, <3>1, <3>2
    <2> QED
      BY <2>a, <2>1, <2>2, <2>3
  <1> QED
    BY <1>2, <1>3 DEF u, v

\* A number of seconds never grows by being cut to its width.
LEMMA SecondsAtMost ==
    ASSUME NEW x \in Nat
    PROVE  Seconds(x) \in Time /\ Seconds(x) \in Nat /\ Seconds(x) <= x
  <1> DEFINE d == TimeRange
  <1>1. d \in Nat \ {0}
    BY SizesAssumption
  <1>b. Seconds(x) = x % d /\ Time = 0 .. d - 1
    BY DEF Seconds, Time
  <1> HIDE DEF d
  <1>2. x % d \in 0 .. d - 1 /\ x = d * (x \div d) + (x % d)
    BY <1>1
  <1>3. x \div d \in Nat
    BY <1>1, Quotient
  <1>4. d * (x \div d) \in Nat
    BY <1>1, <1>3
  <1>5. x % d \in Nat /\ x % d <= x
    BY <1>1, <1>2, <1>4
  <1> QED
    BY <1>b, <1>2, <1>5

\* What passed the checks on transactions is in time.
LEMMA TransactionInTime ==
    ASSUME NEW tx \in Transaction, NEW height, NEW ts \in Time, ValidTransaction(tx, height, ts)
    PROVE  tx.ts <= ts + MaxTimestampDifference /\ ts <= tx.ts + Minute * tx.deadline
  <1> DEFINE limit == ts + MaxTimestampDifference
             expiration == tx.ts + Minute * tx.deadline
  <1>1. ts \in Nat /\ limit \in Nat /\ tx.ts \in Nat /\ expiration \in Nat
    BY SizesAssumption, TransactionAssumption DEF Time
  <1>2. tx.ts <= Seconds(limit) /\ Seconds(expiration) >= ts
    BY DEF ValidTransaction, validateTimestamp, GetExpiration
  <1> HIDE DEF limit, expiration
  <1>3. /\ Seconds(limit) \in Nat /\ Seconds(limit) <= limit
        /\ Seconds(expiration) \in Nat /\ Seconds(expiration) <= expiration
    BY <1>1, SecondsAtMost, SizesAssumption DEF Time
  <1>4. tx.ts <= limit /\ ts <= expiration
    BY <1>1, <1>2, <1>3
  <1> QED
    BY <1>4 DEF limit, expiration

\* A block that joins the queue follows the last known one, and passed.
LEMMA OfferPasses ==
    ASSUME TypeOK, Offer, queue' # queue
    PROVE  \E b \in Queued : queue' = Append(queue, b) /\ Tip.ts < b.ts /\ Passed(b, now)
  <1>1. PICK h \in Headers :
          \/ PreValidate(h, [txs |-> <<>>, payload |-> <<>>, totalAmount |-> 0, totalFee |-> 0])
          \/ \E txs \in Bodies : \E payload \in {<<>>, txs}, amount, fee \in Total :
                PreValidate(h, [txs |-> txs, payload |-> payload,
                                totalAmount |-> amount, totalFee |-> fee])
    BY DEF Offer
  <1>2. h.ts \in Time
    <2>1. PICK g \in Gap \cup {0} : h.ts = Seconds(Tip.ts + g)
      BY DEF Headers
    <2>2. Tip.ts + g \in Nat
      BY TipTime, SizesAssumption DEF Time
    <2> HIDE DEF Tip
    <2> QED
      BY <2>1, <2>2, SecondsAtMost
  <1>3. ASSUME NEW txs \in Seq(Transaction), NEW payload,
               NEW amount \in Total \cup {0}, NEW fee \in Total \cup {0},
               PreValidate(h, [txs |-> txs, payload |-> payload,
                               totalAmount |-> amount, totalFee |-> fee])
        PROVE  \E b \in Queued : queue' = Append(queue, b) /\ Tip.ts < b.ts /\ Passed(b, now)
    <2> DEFINE b == [ts |-> h.ts, txs |-> txs, totalAmount |-> amount, totalFee |-> fee]
               body == [txs |-> txs, payload |-> payload,
                        totalAmount |-> amount, totalFee |-> fee]
    <2>1. b \in Queued
      BY <1>2 DEF Queued
    <2>2. /\ queue' = Append(queue, b)
          /\ txs = <<>> \/ validateTransactions(h.ts, body)
      BY <1>3 DEF PreValidate
    <2>3. Tip.ts \in Nat /\ h.ts \in Nat /\ h.ts > Tip.ts
      BY <1>2, <1>3, TipTime, SizesAssumption DEF PreValidate, InHeaderRules, Time
    <2>4. h.ts <= now + MaxTimestampDifference
      <3> DEFINE limit == now + MaxTimestampDifference
      <3>1. h.ts <= Seconds(limit)
        BY <1>3 DEF PreValidate, InHeaderRules
      <3>2. limit \in Nat
        <4>1. now \in Nat /\ MaxTimestampDifference \in Nat
          BY SizesAssumption DEF TypeOK, Time
        <4> QED
          BY <4>1
      <3> HIDE DEF limit
      <3>3. Seconds(limit) \in Nat /\ Seconds(limit) <= limit
        BY <3>2, SecondsAtMost
      <3>4. h.ts <= limit
        BY <2>3, <3>1, <3>2, <3>3
      <3> QED
        BY <3>4 DEF limit
    <2>5. ASSUME NEW k \in DOMAIN txs
          PROVE  /\ txs[k].ts <= h.ts + MaxTimestampDifference
                 /\ h.ts <= txs[k].ts + Minute * txs[k].deadline
      <3>1. txs # <<>> /\ txs[k] \in Transaction
        BY <2>5
      <3>2. ValidTransaction(txs[k], Height, h.ts)
        BY <2>2, <2>5, <3>1 DEF validateTransactions
      <3> QED
        BY <1>2, <3>1, <3>2, TransactionInTime
    <2>6. txs # <<>> => Sint(AmountsOf(txs)) <= amount /\ Sint(FeesOf(txs)) <= fee
      BY <2>2 DEF validateTransactions
    <2>7. Passed(b, now)
      BY <2>4, <2>5, <2>6 DEF Passed
    <2>8. Tip.ts < b.ts
      <3> HIDE DEF Tip
      <3> QED
        BY <2>3
    <2> QED
      BY <2>1, <2>2, <2>7, <2>8
  <1>4. Bodies \subseteq Seq(Transaction)
    <2>1. ASSUME NEW txs \in BoundedSeq(Transaction, MaxTxs)
          PROVE  txs \in Seq(Transaction)
      <3>1. PICK n \in 0 .. MaxTxs : txs \in [1 .. n -> Transaction]
        BY DEF BoundedSeq, SeqOf
      <3> QED
        BY <3>1, SizesAssumption, SMTT(20)
    <2>2. <<>> \in Seq(Transaction)
      OBVIOUS
    <2> QED
      BY <2>1, <2>2 DEF Bodies
  <1>5. <<>> \in Seq(Transaction)
    OBVIOUS
  <1> QED
    BY <1>1, <1>3, <1>4, <1>5

LEMMA OrderInit == Init => OrderInv
  BY DEF Init, OrderInv, Ordered, Genesis

LEMMA OrderStep == IInv /\ OrderInv /\ [Next]_vars => OrderInv'
  <1> SUFFICES ASSUME IInv, OrderInv, [Next]_vars PROVE OrderInv'
    OBVIOUS
  <1>0. TypeOK
    BY DEF IInv
  <1>a. filed \in Seq(Filed) /\ filed # <<>> /\ queue \in Seq(Queued)
    BY <1>0, KnownTimes
  <1>1. CASE UNCHANGED vars
    BY <1>1 DEF vars, OrderInv
  <1>2. CASE Tick
    <2>1. now \in Nat /\ now' = now + 1 /\ filed' = filed /\ queue' = queue
      BY <1>0, <1>2, SizesAssumption DEF Tick, TypeOK, Time
    <2>2. ASSUME NEW i \in DOMAIN queue PROVE Passed(queue[i], now + 1)
      <3>1. queue[i].ts \in Nat /\ Passed(queue[i], now)
        <4>1. queue[i] \in Queued
          BY <1>a, <2>2
        <4> QED
          BY <2>2, <4>1, SizesAssumption DEF OrderInv, Queued, Time
      <3> DEFINE b == queue[i]
      <3> HIDE DEF b
      <3>2. b.ts \in Nat /\ Passed(b, now)
        BY <3>1 DEF b
      <3>3. b.ts <= now + 1 + MaxTimestampDifference
        <4>1. b.ts <= now + MaxTimestampDifference /\ MaxTimestampDifference \in Nat
          BY <3>2, SizesAssumption DEF Passed
        <4> QED
          BY <2>1, <3>2, <4>1
      <3>4. Passed(b, now + 1)
        BY <3>2, <3>3 DEF Passed
      <3> QED
        BY <3>4 DEF b
    <2> QED
      BY <2>1, <2>2 DEF OrderInv
  <1>3. CASE Offer /\ queue' = queue
    <2>1. UNCHANGED <<now, filed, queue>>
      BY <1>0, <1>3, OfferFacts
    <2> QED
      BY <2>1 DEF OrderInv
  <1>4. CASE Offer /\ queue' # queue
    <2>1. PICK b \in Queued : queue' = Append(queue, b) /\ Tip.ts < b.ts /\ Passed(b, now)
      BY <1>0, <1>4, OfferPasses
    <2>2. now' = now /\ filed' = filed
      BY <1>0, <1>4, OfferFacts
    <2>3. Ordered(Append(filed \o queue, b))
      <3> DEFINE known == filed \o queue
      <3>1. known \in Seq(Filed \cup Queued) /\ known # <<>> /\ \A i \in DOMAIN known : known[i].ts \in Int
        BY <1>0, KnownTimes
      <3>2. b.ts \in Int
        BY <2>1, SizesAssumption DEF Queued, Time
      <3>3. known[Len(known)].ts < b.ts
        BY <2>1 DEF Tip, Last, Known
      <3>4. Ordered(known)
        BY DEF OrderInv
      <3> HIDE DEF known, Filed, Queued
      <3>5. Ordered(Append(known, b))
        BY <3>1, <3>2, <3>3, <3>4, OrderedAppend
      <3> QED
        BY <3>5 DEF known
    <2>4. filed \o Append(queue, b) = Append(filed \o queue, b)
      <3> HIDE DEF Filed, Queued
      <3> QED
        BY <1>a, <2>1
    <2>5. ASSUME NEW i \in DOMAIN Append(queue, b) PROVE Passed(Append(queue, b)[i], now)
      <3>1. CASE i \in DOMAIN queue
        <4>1. Append(queue, b)[i] = queue[i] /\ Passed(queue[i], now)
          BY <1>a, <3>1 DEF OrderInv
        <4> QED
          BY <4>1
      <3>2. CASE i \notin DOMAIN queue
        <4>1. Append(queue, b)[i] = b
          BY <1>a, <2>5, <3>2
        <4> QED
          BY <2>1, <4>1
      <3> QED
        BY <3>1, <3>2
    <2> QED
      BY <2>1, <2>2, <2>3, <2>4, <2>5 DEF OrderInv
  <1>5. CASE Validate
    <2>1. PICK b \in Filed : filed' = Append(filed, b) /\ b.ts = Head(queue).ts
      <3>1. PICK b \in Filed : filed' = Append(filed, b)
        BY <1>5, ValidateFacts DEF IInv
      <3>2. PICK target, difficulty :
              filed' = Append(filed, [ts |-> Head(queue).ts, target |-> target,
                                      difficulty |-> difficulty])
        BY <1>5 DEF Validate
      <3> DEFINE c == [ts |-> Head(queue).ts, target |-> target, difficulty |-> difficulty]
      <3>3. c.ts = Head(queue).ts
        OBVIOUS
      <3>4. filed' = Append(filed, c)
        BY <3>2
      <3> HIDE DEF Filed, c
      <3>5. b = c
        <4>1. Append(filed, b)[Len(filed) + 1] = b /\ Append(filed, c)[Len(filed) + 1] = c
          BY <1>a
        <4> QED
          BY <3>1, <3>4, <4>1
      <3> QED
        BY <3>1, <3>3, <3>5
    <2>2. queue # <<>> /\ queue' = Tail(queue) /\ now' = now
      BY <1>5 DEF Validate
    <2>3. Ordered(Append(filed, b) \o Tail(queue))
      <3> HIDE DEF Filed, Queued
      <3> DEFINE known == filed \o queue
                 after == Append(filed, b) \o Tail(queue)
      <3>1. DOMAIN after = DOMAIN known /\ \A i \in DOMAIN known : after[i].ts = known[i].ts
        BY <1>a, <2>1, <2>2, MovedOn
      <3>2. Ordered(known)
        BY DEF OrderInv
      <3> HIDE DEF known, after
      <3>3. Ordered(after)
        BY <3>1, <3>2 DEF Ordered
      <3> QED
        BY <3>3 DEF after
    <2>4. \A i \in DOMAIN Tail(queue) : i + 1 \in DOMAIN queue /\ Tail(queue)[i] = queue[i + 1]
      <3> HIDE DEF Queued
      <3> QED
        BY <1>a, <2>2
    <2>5. \A i \in DOMAIN Tail(queue) : Passed(Tail(queue)[i], now)
      BY <2>4 DEF OrderInv
    <2> QED
      BY <2>1, <2>2, <2>3, <2>5 DEF OrderInv
  <1> QED
    BY <1>1, <1>2, <1>3, <1>4, <1>5 DEF Next

LEMMA OrderInvariant == Spec => []OrderInv
  BY OrderInit, OrderStep, Invariant, PTL DEF Spec

\* What waits to be filed was in time when it came and is so in whole numbers,
\* though the limits are computed in a width in which they wrap.
THEOREM QueuedInTime == Spec => []InTime
  <1>1. TypeOK /\ OrderInv => InTime
    <2> SUFFICES ASSUME TypeOK, OrderInv, NEW i \in DOMAIN queue
                 PROVE  /\ Known[Len(filed) + i - 1].ts < queue[i].ts
                        /\ Passed(queue[i], now)
      BY DEF InTime, Passed
    <2> HIDE DEF Filed, Queued
    <2>1. /\ filed \in Seq(Filed) /\ filed # <<>> /\ queue \in Seq(Queued)
          /\ Len(filed) \in Nat \ {0} /\ Len(queue) \in Nat /\ i \in 1 .. Len(queue)
      BY KnownTimes
    <2>2. /\ Len(filed) + i - 1 \in DOMAIN (filed \o queue)
          /\ Len(filed) + i \in DOMAIN (filed \o queue)
          /\ (filed \o queue)[Len(filed) + i] = queue[i]
      BY <2>1, Joined
    <2>3. Len(filed) + i - 1 < Len(filed) + i
      BY <2>1
    <2> QED
      BY <2>2, <2>3 DEF OrderInv, Ordered, Known
  <1> QED
    BY <1>1, TypeCorrect, OrderInvariant, PTL

-----------------------------------------------------------------------------
(* The sums over a block's transactions, and its totals. *)

\* The sums of val over the subsets of D, the greatest place added last.
IsSum(sums, val, D) ==
    sums = [s \in SUBSET D |-> IF s = {} THEN 0 ELSE sums[s \ {Max(s)}] + val[Max(s)]]

\* A set of places has a greatest one.
LEMMA Greatest ==
    ASSUME NEW n \in Nat, NEW s \in SUBSET (1 .. n), s # {}
    PROVE  Max(s) \in s /\ \A y \in s : Max(s) >= y
  <1> DEFINE HasMax(t) == \E x \in t : \A y \in t : x >= y
             S == {k \in Nat : \A t \in SUBSET (1 .. k) : t # {} => HasMax(t)}
  <1>1. 0 \in S
    <2>1. \A t \in SUBSET (1 .. 0) : t = {}
      <3>1. 1 .. 0 = {}
        OBVIOUS
      <3> QED
        BY <3>1
    <2> QED
      BY <2>1
  <1>2. \A k \in Nat : k \in S => k + 1 \in S
    <2> SUFFICES ASSUME NEW k \in Nat, k \in S, NEW t \in SUBSET (1 .. k + 1), t # {}
                 PROVE  HasMax(t)
      OBVIOUS
    <2>1. CASE k + 1 \in t
      BY <2>1
    <2>2. CASE k + 1 \notin t
      <3>1. t \in SUBSET (1 .. k)
        BY <2>2
      <3> QED
        BY <3>1
    <2> QED
      BY <2>1, <2>2
  <1>3. n \in S
    <2> HIDE DEF S
    <2> QED
      BY <1>1, <1>2, SetInduction
  <1>4. HasMax(s)
    BY <1>3
  <1> QED
    BY <1>4 DEF Max

LEMMA SumExists ==
    ASSUME NEW n \in Nat, NEW val \in [1 .. n -> Nat]
    PROVE  \E sums : IsSum(sums, val, 1 .. n)
  <1> DEFINE D == SUBSET (1 .. n)
             Sum(f, s) == IF s = {} THEN 0 ELSE f[s \ {Max(s)}] + val[Max(s)]
             Below(k) == {s \in D : s \subseteq 1 .. k}
             Summed(f, k) == \A s \in Below(k) : f[s] = Sum(f, s)
             Reached(k) == \E f \in [D -> Nat] : Summed(f, k)
             S == {k \in Nat : Reached(k)}
  <1>1. ASSUME NEW s \in D, s # {}
        PROVE  Max(s) \in s /\ Max(s) \in 1 .. n /\ s \ {Max(s)} \in D
    BY <1>1, Greatest
  <1>2. ASSUME NEW f \in [D -> Nat], NEW s \in D
        PROVE  Sum(f, s) \in Nat
    BY <1>1
  <1>3. 0 \in S
    <2> DEFINE f == [s \in D |-> 0]
    <2>1. f \in [D -> Nat] /\ 1 .. 0 = {}
      OBVIOUS
    <2>2. \A s \in Below(0) : s = {} /\ f[s] = 0
      BY <2>1
    <2>3. Summed(f, 0)
      <3> HIDE DEF f
      <3> QED
        BY <2>2
    <2> QED
      BY <2>1, <2>3
  <1>4. \A k \in Nat : k \in S => k + 1 \in S
    <2> SUFFICES ASSUME NEW k \in Nat, Reached(k)
                 PROVE  Reached(k + 1)
      <3> HIDE DEF Reached
      <3> QED
        OBVIOUS
    <2>1. PICK f \in [D -> Nat] : Summed(f, k)
      OBVIOUS
    <2> DEFINE g == [s \in D |-> Sum(f, s)]
    <2>2. g \in [D -> Nat]
      <3> HIDE DEF D, Sum
      <3> QED
        BY <1>2
    <2>3. ASSUME NEW s \in Below(k + 1), s # {}
          PROVE  s \ {Max(s)} \in Below(k)
      <3>1. Max(s) \in s /\ s \subseteq 1 .. k + 1 /\ \A y \in s : Max(s) >= y
        BY <2>3, Greatest
      <3>a. ASSUME NEW y \in s \ {Max(s)} PROVE y \in 1 .. k
        <4>1. y \in 1 .. k + 1 /\ Max(s) \in 1 .. k + 1 /\ y # Max(s) /\ y <= Max(s)
          BY <3>1
        <4> QED
          BY <4>1
      <3>2. s \ {Max(s)} \subseteq 1 .. k
        BY <3>a
      <3> QED
        BY <1>1, <2>3, <3>2
    <2>4. ASSUME NEW s \in Below(k + 1) PROVE g[s] = Sum(g, s)
      <3>1. CASE s = {}
        BY <3>1
      <3>2. CASE s # {}
        <4>1. g[s \ {Max(s)}] = f[s \ {Max(s)}]
          BY <1>1, <2>1, <2>3, <3>2
        <4>2. g[s] = Sum(f, s)
          OBVIOUS
        <4> HIDE DEF g
        <4> QED
          BY <3>2, <4>1, <4>2
      <3> QED
        BY <3>1, <3>2
    <2> QED
      BY <2>2, <2>4
  <1>5. n \in S
    <2> HIDE DEF S
    <2> QED
      BY <1>3, <1>4, SetInduction
  <1>6. PICK f \in [D -> Nat] : \A s \in D : f[s] = Sum(f, s)
    BY <1>5
  <1>7. f = [s \in D |-> Sum(f, s)]
    <2> HIDE DEF Sum, D
    <2> QED
      BY <1>6
  <1> QED
    BY <1>7 DEF IsSum

\* Sums of numbers without a sign have none.
LEMMA SumNat ==
    ASSUME NEW n \in Nat, NEW val \in [1 .. n -> Nat], NEW sums, IsSum(sums, val, 1 .. n)
    PROVE  sums[1 .. n] \in Nat
  <1> DEFINE Summed(k) == k <= n => sums[1 .. k] \in Nat
             S == {k \in Nat : Summed(k)}
  <1>1. 0 \in S
    BY DEF IsSum
  <1>2. \A k \in Nat : k \in S => k + 1 \in S
    <2> SUFFICES ASSUME NEW k \in Nat, Summed(k), k + 1 <= n
                 PROVE  sums[1 .. k + 1] \in Nat
      <3>1. \A k \in Nat : Summed(k) => Summed(k + 1)
        OBVIOUS
      <3> HIDE DEF Summed
      <3> QED
        BY <3>1
    <2> DEFINE s == 1 .. k + 1
    <2>0. k + 1 \in 1 .. n /\ k \in 0 .. n /\ sums[1 .. k] \in Nat
      OBVIOUS
    <2>1. s \in SUBSET (1 .. n) /\ s # {} /\ k + 1 \in s
      <3>1. k + 1 \in s /\ \A y \in s : y \in 1 .. n
        BY <2>0
      <3> QED
        BY <3>1
    <2>2. Max(s) = k + 1
      <3>1. \A y \in s : y \in Int /\ k + 1 >= y
        OBVIOUS
      <3> HIDE DEF s
      <3>2. Max(s) \in s /\ Max(s) >= k + 1
        BY <2>1, Greatest
      <3> QED
        BY <3>1, <3>2
    <2>3. s \ {k + 1} = 1 .. k
      BY <2>0
    <2>4. sums[s] = sums[s \ {Max(s)}] + val[Max(s)]
      <3> HIDE DEF s
      <3> QED
        BY <2>1 DEF IsSum
    <2>5. val[k + 1] \in Nat
      BY <2>0
    <2>6. sums[s] = sums[1 .. k] + val[k + 1]
      <3> HIDE DEF s
      <3> QED
        BY <2>2, <2>3, <2>4
    <2> QED
      BY <2>0, <2>5, <2>6
  <1>3. n \in S
    <2> HIDE DEF S
    <2> QED
      BY <1>1, <1>2, SetInduction
  <1> QED
    BY <1>3

LEMMA AmountsType ==
    ASSUME NEW txs \in Seq(Transaction)
    PROVE  AmountsOf(txs) \in Nat
  <1> DEFINE n == Len(txs)
             val == [i \in 1 .. n |-> txs[i].amount]
             Sums(it) == it = [s \in SUBSET DOMAIN txs |->
                           IF s = {} THEN 0 ELSE it[s \ {Max(s)}] + txs[Max(s)].amount]
  <1>1. n \in Nat /\ DOMAIN txs = 1 .. n /\ val \in [1 .. n -> Nat]
    BY TransactionAssumption
  <1>2. AmountsOf(txs) = (CHOOSE it : Sums(it))[1 .. n]
    <2>1. AmountsOf(txs) = (CHOOSE it : Sums(it))[DOMAIN txs]
      BY DEF AmountsOf, SumOf, FoldLeft, MapThenFoldSet
    <2> HIDE DEF Sums, n
    <2> QED
      BY <1>1, <2>1
  <1>3. ASSUME NEW it PROVE Sums(it) <=> IsSum(it, val, 1 .. n)
    <2>1. \A s \in SUBSET (1 .. n) : s # {} => txs[Max(s)].amount = val[Max(s)]
      BY <1>1, Greatest
    <2> HIDE DEF n, val
    <2> QED
      BY <1>1, <2>1 DEF IsSum
  <1> HIDE DEF Sums, val, n
  <1>4. Sums(CHOOSE it : Sums(it))
    <2>1. \E it : Sums(it)
      BY <1>1, <1>3, SumExists
    <2> QED
      BY <2>1
  <1> QED
    BY <1>1, <1>2, <1>3, <1>4, SumNat

LEMMA FeesType ==
    ASSUME NEW txs \in Seq(Transaction)
    PROVE  FeesOf(txs) \in Nat
  <1> DEFINE n == Len(txs)
             val == [i \in 1 .. n |-> txs[i].fee]
             Sums(it) == it = [s \in SUBSET DOMAIN txs |->
                           IF s = {} THEN 0 ELSE it[s \ {Max(s)}] + txs[Max(s)].fee]
  <1>1. n \in Nat /\ DOMAIN txs = 1 .. n /\ val \in [1 .. n -> Nat]
    BY TransactionAssumption
  <1>2. FeesOf(txs) = (CHOOSE it : Sums(it))[1 .. n]
    <2>1. FeesOf(txs) = (CHOOSE it : Sums(it))[DOMAIN txs]
      BY DEF FeesOf, SumOf, FoldLeft, MapThenFoldSet
    <2> HIDE DEF Sums, n
    <2> QED
      BY <1>1, <2>1
  <1>3. ASSUME NEW it PROVE Sums(it) <=> IsSum(it, val, 1 .. n)
    <2>1. \A s \in SUBSET (1 .. n) : s # {} => txs[Max(s)].fee = val[Max(s)]
      BY <1>1, Greatest
    <2> HIDE DEF n, val
    <2> QED
      BY <1>1, <2>1 DEF IsSum
  <1> HIDE DEF Sums, val, n
  <1>4. Sums(CHOOSE it : Sums(it))
    <2>1. \E it : Sums(it)
      BY <1>1, <1>3, SumExists
    <2> QED
      BY <2>1
  <1> QED
    BY <1>1, <1>2, <1>3, <1>4, SumNat

\* A sum that fits keeps its value in the signed width of a total.
LEMMA SintFits ==
    ASSUME NEW x \in Nat, x < AmountRange \div 2
    PROVE  Sint(x) = x
  <1> DEFINE h == AmountRange \div 2
  <1>1. AmountRange \in Nat \ {0} /\ h \in Nat /\ 2 * h <= AmountRange
    BY SizesAssumption, Quotient
  <1>2. x + h \in 0 .. AmountRange - 1
    BY <1>1
  <1>3. (x + h) % AmountRange = x + h
    <2> HIDE DEF h
    <2> QED
      BY <1>1, <1>2
  <1> QED
    BY <1>1, <1>3 DEF Sint

\* What waits to be filed says it moves at least what its transactions move.
THEOREM TotalsAlwaysCover == Spec => []TotalsCover
  <1>1. TypeOK /\ OrderInv => TotalsCover
    <2> SUFFICES ASSUME TypeOK, OrderInv, NEW i \in DOMAIN queue, queue[i].txs # <<>>,
                        AmountsOf(queue[i].txs) < AmountRange \div 2,
                        FeesOf(queue[i].txs) < AmountRange \div 2
                 PROVE  /\ AmountsOf(queue[i].txs) <= queue[i].totalAmount
                        /\ FeesOf(queue[i].txs) <= queue[i].totalFee
      BY DEF TotalsCover
    <2> DEFINE b == queue[i]
    <2>1. b.txs \in Seq(Transaction)
      <3>1. b \in Queued
        BY DEF TypeOK
      <3> QED
        BY <3>1 DEF Queued
    <2>2. Sint(AmountsOf(b.txs)) <= b.totalAmount /\ Sint(FeesOf(b.txs)) <= b.totalFee
      BY DEF OrderInv, Passed
    <2> HIDE DEF b
    <2>3. AmountsOf(b.txs) \in Nat /\ FeesOf(b.txs) \in Nat
      BY <2>1, AmountsType, FeesType
    <2>4. Sint(AmountsOf(b.txs)) = AmountsOf(b.txs) /\ Sint(FeesOf(b.txs)) = FeesOf(b.txs)
      BY <2>3, SintFits DEF b
    <2> QED
      BY <2>2, <2>4 DEF b
  <1> QED
    BY <1>1, TypeCorrect, OrderInvariant, PTL

-----------------------------------------------------------------------------
(* The target as a function of the time: later is easier, on time is steady. *)

LEMMA TimesMonotone ==
    ASSUME NEW a \in Nat, NEW x \in Nat, NEW y \in Nat, x <= y
    PROVE  a * x \in Nat /\ a * y \in Nat /\ a * x <= a * y
  <1>1. y - x \in Nat /\ y = x + (y - x)
    OBVIOUS
  <1>2. a * (x + (y - x)) = a * x + a * (y - x)
    OBVIOUS
  <1>3. a * x \in Nat /\ a * (y - x) \in Nat
    BY <1>1
  <1> QED
    BY <1>1, <1>2, <1>3

LEMMA QuotientMonotone ==
    ASSUME NEW x \in Nat, NEW y \in Nat, x <= y, NEW d \in Nat \ {0}
    PROVE  x \div d \in Nat /\ y \div d \in Nat /\ x \div d <= y \div d
  <1> DEFINE q == x \div d
             r == y \div d
  <1>1. /\ q \in Nat /\ d * q <= x /\ x < d * q + d
        /\ r \in Nat /\ d * r <= y /\ y < d * r + d
    BY Quotient
  <1> HIDE DEF q, r
  <1>2. q <= r
    <2>1. SUFFICES ASSUME r + 1 <= q PROVE FALSE
      BY <1>1
    <2>2. d * (r + 1) <= d * q
      BY <1>1, <2>1, TimesMonotone
    <2>3. d * (r + 1) = d * r + d
      BY <1>1
    <2>4. d * q \in Nat /\ d * r \in Nat
      BY <1>1
    <2> QED
      BY <1>1, <2>2, <2>3, <2>4
  <1> QED
    BY <1>1, <1>2 DEF q, r

LEMMA QuotientExact ==
    ASSUME NEW a \in Nat, NEW d \in Nat \ {0}
    PROVE  (a * d) \div d = a
  <1> DEFINE q == (a * d) \div d
  <1>1. a * d \in Nat
    OBVIOUS
  <1>2. q \in Nat /\ d * q <= a * d /\ a * d < d * q + d
    BY <1>1, Quotient
  <1> HIDE DEF q
  <1>3. a * d = d * a /\ d * (q + 1) = d * q + d /\ d * (a + 1) = d * a + d
    BY <1>2
  <1>4. d * q \in Nat /\ d * a \in Nat
    BY <1>2
  <1>5. ~(q + 1 <= a)
    <2> SUFFICES ASSUME q + 1 <= a PROVE FALSE
      OBVIOUS
    <2>1. d * (q + 1) <= d * a
      BY <1>2, TimesMonotone
    <2> QED
      BY <1>2, <1>3, <1>4, <2>1
  <1>6. ~(a + 1 <= q)
    <2> SUFFICES ASSUME a + 1 <= q PROVE FALSE
      OBVIOUS
    <2>1. d * (a + 1) <= d * q
      BY <1>2, TimesMonotone
    <2> QED
      BY <1>2, <1>3, <1>4, <2>1
  <1> QED
    BY <1>2, <1>5, <1>6 DEF q

\* A span that fits the width of a time is its own number of seconds.
LEMMA SecondsExact ==
    ASSUME NEW x \in Time
    PROVE  Seconds(x) = x
  <1> DEFINE d == TimeRange
  <1>1. d \in Nat \ {0} /\ x \in 0 .. d - 1
    BY SizesAssumption DEF Time
  <1> HIDE DEF d
  <1>2. x % d = x
    BY <1>1
  <1> QED
    BY <1>2 DEF Seconds, d

\* Both rules scale a target by a time span and cut it off at the greatest.
LEMMA ScaledMonotone ==
    ASSUME NEW a \in Nat, NEW x \in Nat, NEW y \in Nat, x <= y, NEW d \in Nat \ {0}
    PROVE  AtMost((a * x) \div d, MaxBaseTarget) <= AtMost((a * y) \div d, MaxBaseTarget)
  <1> DEFINE q == (a * x) \div d
             r == (a * y) \div d
  <1>1. a * x \in Nat /\ a * y \in Nat /\ a * x <= a * y
    BY TimesMonotone
  <1>2. q \in Nat /\ r \in Nat /\ q <= r
    <2> DEFINE ax == a * x
               ay == a * y
    <2>1. ax \in Nat /\ ay \in Nat /\ ax <= ay
      BY <1>1
    <2> HIDE DEF ax, ay
    <2>2. ax \div d \in Nat /\ ay \div d \in Nat /\ ax \div d <= ay \div d
      BY <2>1, QuotientMonotone
    <2> QED
      BY <2>2 DEF ax, ay
  <1> HIDE DEF q, r
  <1>3. AtMost(q, MaxBaseTarget) <= AtMost(r, MaxBaseTarget)
    BY <1>2, SizesAssumption DEF AtMost
  <1> QED
    BY <1>3 DEF q, r

LEMMA SmallMonotone ==
    ASSUME NEW w, \A i \in 1 .. 4 : w[i].target \in 1 .. MaxBaseTarget,
           NEW ts, NEW later,
           Seconds(ts - w[1].ts) \in Nat, Seconds(later - w[1].ts) \in Nat,
           Seconds(ts - w[1].ts) <= Seconds(later - w[1].ts)
    PROVE  SmallTarget(w, ts) <= SmallTarget(w, later)
  <1> DEFINE mean == (w[1].target + w[2].target + w[3].target + w[4].target) \div 4
             new(t) == AtMost((mean * Seconds(t - w[1].ts)) \div (BlockTime * 4), MaxBaseTarget)
             target(n) == AtMost(AtLeast(AtLeast(n, (mean * 9) \div 10), 1), (mean * 11) \div 10)
  <1>1. mean \in 1 .. MaxBaseTarget /\ BlockTime * 4 \in Nat \ {0}
    BY SizesAssumption
  <1>2. SmallTarget(w, ts) = target(new(ts)) /\ SmallTarget(w, later) = target(new(later))
    BY DEF SmallTarget
  <1> HIDE DEF mean
  <1>3. new(ts) \in Int /\ new(later) \in Int /\ new(ts) <= new(later)
    <2> DEFINE x == Seconds(ts - w[1].ts)
               y == Seconds(later - w[1].ts)
               d == BlockTime * 4
    <2>1. x \in Nat /\ y \in Nat /\ x <= y /\ d \in Nat \ {0} /\ mean \in Nat
      BY <1>1
    <2>2. /\ new(ts) = AtMost((mean * x) \div d, MaxBaseTarget)
          /\ new(later) = AtMost((mean * y) \div d, MaxBaseTarget)
      OBVIOUS
    <2> HIDE DEF x, y, d, new
    <2>3. new(ts) \in 0 .. MaxBaseTarget /\ new(later) \in 0 .. MaxBaseTarget
      BY <2>1, <2>2, ScaledType
    <2>4. AtMost((mean * x) \div d, MaxBaseTarget) <= AtMost((mean * y) \div d, MaxBaseTarget)
      BY <2>1, ScaledMonotone
    <2> QED
      BY <2>2, <2>3, <2>4
  <1>4. (mean * 9) \div 10 \in Int /\ (mean * 11) \div 10 \in Int
    BY <1>1, SizesAssumption
  <1> HIDE DEF new
  <1>5. target(new(ts)) <= target(new(later))
    BY <1>3, <1>4 DEF AtMost, AtLeast
  <1> QED
    BY <1>2, <1>5

LEMMA LargeMonotone ==
    ASSUME NEW w, Window(w), NEW ts, NEW later,
           Seconds(ts - w[1].ts) \in Nat, Seconds(later - w[1].ts) \in Nat,
           Seconds(ts - w[1].ts) <= Seconds(later - w[1].ts)
    PROVE  LargeTarget(w, ts) <= LargeTarget(w, later)
  <1> DEFINE expected == LargeWindow * BlockTime
             current == w[LargeWindow].target
             span(t) == AtMost(AtLeast(Seconds(t - w[1].ts), expected \div 2), expected * 2)
             new(t) == AtMost((LargeAverage(w) * span(t)) \div expected, MaxBaseTarget)
             target(n) == AtMost(AtLeast(AtLeast(n, 1), (current * 8) \div 10), (current * 12) \div 10)
  <1>1. expected \in Nat \ {0}
    BY SizesAssumption
  <1>2. current \in 1 .. MaxBaseTarget
    BY SizesAssumption DEF Window
  <1>3. LargeTarget(w, ts) = target(new(ts)) /\ LargeTarget(w, later) = target(new(later))
    BY DEF LargeTarget
  <1> HIDE DEF expected, current
  <1>4. span(ts) \in Nat /\ span(later) \in Nat /\ span(ts) <= span(later)
    BY <1>1 DEF AtMost, AtLeast
  <1> HIDE DEF span
  <1>5. LargeAverage(w) \in Nat
    BY AverageInRange
  <1>6. new(ts) \in Int /\ new(later) \in Int /\ new(ts) <= new(later)
    <2> DEFINE a == LargeAverage(w)
               x == span(ts)
               y == span(later)
    <2>1. a \in Nat /\ x \in Nat /\ y \in Nat /\ x <= y
      BY <1>4, <1>5
    <2>2. /\ new(ts) = AtMost((a * x) \div expected, MaxBaseTarget)
          /\ new(later) = AtMost((a * y) \div expected, MaxBaseTarget)
      OBVIOUS
    <2> HIDE DEF a, x, y, new
    <2>3. new(ts) \in 0 .. MaxBaseTarget /\ new(later) \in 0 .. MaxBaseTarget
      BY <1>1, <2>1, <2>2, ScaledType
    <2>4. AtMost((a * x) \div expected, MaxBaseTarget) <= AtMost((a * y) \div expected, MaxBaseTarget)
      BY <1>1, <2>1, ScaledMonotone
    <2> QED
      BY <2>2, <2>3, <2>4
  <1>7. (current * 8) \div 10 \in Int /\ (current * 12) \div 10 \in Int
    BY <1>2, SizesAssumption
  <1> HIDE DEF new
  <1>8. target(new(ts)) <= target(new(later))
    BY <1>6, <1>7 DEF AtMost, AtLeast
  <1> QED
    BY <1>3, <1>8

\* No block of a window is younger than the last block of the chain.
LEMMA WindowTimes ==
    ASSUME TypeOK, OrderInv, NEW n \in Nat \ {0}, n <= Len(filed)
    PROVE  /\ LastOf(filed, n)[1].ts \in Time /\ Last(filed).ts \in Time
           /\ LastOf(filed, n)[1].ts <= Last(filed).ts
  <1> DEFINE l == Len(filed)
             k == l - n + 1
  <1>1. filed \in Seq(Filed) /\ queue \in Seq(Queued)
    BY DEF TypeOK
  <1>2. LastOf(filed, n)[1] = filed[k] /\ Last(filed) = filed[l]
    BY <1>1 DEF LastOf, Last
  <1>3. l \in Nat /\ k \in 1 .. l /\ l \in 1 .. l
    BY <1>1
  <1> HIDE DEF k
  <1>4. filed[k].ts \in Time /\ filed[l].ts \in Time
    <2>1. filed[k] \in Filed /\ filed[l] \in Filed
      <3> HIDE DEF Filed
      <3> QED
        BY <1>1, <1>3
    <2> QED
      BY <2>1 DEF Filed
  <1>5. filed[k].ts <= filed[l].ts
    <2> DEFINE known == filed \o queue
    <2>1. known[k] = filed[k] /\ known[l] = filed[l] /\ k \in DOMAIN known /\ l \in DOMAIN known
      <3> HIDE DEF Filed, Queued
      <3>1. Len(queue) \in Nat /\ DOMAIN known = 1 .. Len(filed) + Len(queue)
        BY <1>1, Joined
      <3>2. known[k] = filed[k] /\ known[l] = filed[l]
        BY <1>1, <1>3, Joined
      <3> QED
        BY <1>3, <3>1, <3>2
    <2>2. k < l => known[k].ts < known[l].ts
      BY <2>1 DEF OrderInv, Ordered
    <2>3. filed[k].ts \in Int /\ filed[l].ts \in Int
      <3>1. Time \subseteq Int
        BY DEF Time
      <3> QED
        BY <1>4, <3>1
    <2> HIDE DEF known
    <2> QED
      BY <1>3, <2>1, <2>2, <2>3
  <1> QED
    BY <1>2, <1>4, <1>5

\* The time a window took to a block after it does not wrap.
LEMMA SpanExact ==
    ASSUME NEW first \in Time, NEW ts \in Time, first <= ts
    PROVE  Seconds(ts - first) = ts - first /\ ts - first \in Nat
  <1>1. TimeRange \in Nat \ {0} /\ first \in Nat /\ ts \in Nat
    BY SizesAssumption DEF Time
  <1>2. ts - first \in Time /\ ts - first \in Nat
    BY <1>1 DEF Time
  <1> DEFINE x == ts - first
  <1> HIDE DEF x
  <1>3. x \in Time => Seconds(x) = x
    BY SecondsExact
  <1> QED
    BY <1>2, <1>3 DEF x

\* A block that comes later never gets a smaller target, for all times that
\* come after the last block, and for every chain the rules let through.
THEOREM LaterIsAlwaysEasier == Spec => []LaterIsEasier
  <1>1. IInv /\ OrderInv => LaterIsEasier
    <2> SUFFICES ASSUME IInv, OrderInv, NEW ts \in Time, Last(filed).ts < ts, ts + 1 \in Time
                 PROVE  BaseTarget(filed, ts) <= BaseTarget(filed, ts + 1)
      BY DEF LaterIsEasier
    <2>1. /\ TypeOK /\ filed \in Seq(Filed)
          /\ \A i \in DOMAIN filed : filed[i].target \in 1 .. MaxBaseTarget
      BY DEF IInv, TypeOK, TargetInRange
    <2>2. ASSUME NEW n \in Nat \ {0}, n <= Len(filed)
          PROVE  LET w == LastOf(filed, n)
                 IN  /\ w[1].ts \in Nat /\ Seconds(ts - w[1].ts) \in Nat
                     /\ Seconds((ts + 1) - w[1].ts) \in Nat
                     /\ Seconds(ts - w[1].ts) <= Seconds((ts + 1) - w[1].ts)
      <3> DEFINE first == LastOf(filed, n)[1].ts
      <3>1. first \in Time /\ first <= Last(filed).ts /\ Last(filed).ts \in Time
        BY <2>1, <2>2, WindowTimes
      <3>2. first \in Nat /\ ts \in Nat /\ first <= ts /\ first <= ts + 1
        <4>1. Last(filed).ts \in Int /\ first \in Nat /\ ts \in Nat
          BY <3>1, SizesAssumption DEF Time
        <4> HIDE DEF first
        <4> QED
          BY <3>1, <4>1
      <3> HIDE DEF first
      <3>3. Seconds(ts - first) = ts - first /\ Seconds((ts + 1) - first) = (ts + 1) - first
        BY <3>1, <3>2, SpanExact
      <3>4. /\ first \in Nat /\ Seconds(ts - first) \in Nat
            /\ Seconds((ts + 1) - first) \in Nat
            /\ Seconds(ts - first) <= Seconds((ts + 1) - first)
        BY <3>2, <3>3
      <3> QED
        BY <3>4 DEF first
    <2>3. CASE Len(filed) < 4
      BY <2>3, SizesAssumption DEF BaseTarget
    <2>4. CASE Len(filed) >= 4 /\ Len(filed) < AdjustHeight
      <3> DEFINE w == LastOf(filed, 4)
      <3>1. \A i \in 1 .. 4 : w[i].target \in 1 .. MaxBaseTarget
        BY <2>1, <2>4, LastOfFacts
      <3>2. /\ BaseTarget(filed, ts) = SmallTarget(w, ts)
            /\ BaseTarget(filed, ts + 1) = SmallTarget(w, ts + 1)
        BY <2>1, <2>4 DEF BaseTarget
      <3>3. /\ Seconds(ts - w[1].ts) \in Nat /\ Seconds((ts + 1) - w[1].ts) \in Nat
            /\ Seconds(ts - w[1].ts) <= Seconds((ts + 1) - w[1].ts)
        BY <2>2, <2>4
      <3> HIDE DEF w
      <3> QED
        BY <3>1, <3>2, <3>3, SmallMonotone
    <2>5. CASE Len(filed) >= 4 /\ Len(filed) >= AdjustHeight
      <3> DEFINE w == LastOf(filed, LargeWindow)
      <3>1. LargeWindow \in Nat \ {0} /\ LargeWindow <= Len(filed)
        BY <2>1, <2>5, SizesAssumption, SMTT(20)
      <3>2. Window(w)
        BY <2>1, <3>1, LastOfFacts DEF Window
      <3>3. /\ BaseTarget(filed, ts) = LargeTarget(w, ts)
            /\ BaseTarget(filed, ts + 1) = LargeTarget(w, ts + 1)
        BY <2>1, <2>5, SizesAssumption, SMTT(20) DEF BaseTarget
      <3>4. /\ Seconds(ts - w[1].ts) \in Nat /\ Seconds((ts + 1) - w[1].ts) \in Nat
            /\ Seconds(ts - w[1].ts) <= Seconds((ts + 1) - w[1].ts)
        BY <2>2, <3>1
      <3> HIDE DEF w
      <3> QED
        BY <3>2, <3>3, <3>4, LargeMonotone
    <2> QED
      BY <2>1, <2>3, <2>4, <2>5, SizesAssumption, SMTT(20)
  <1> QED
    BY <1>1, Invariant, OrderInvariant, PTL

\* The average of equal targets is that target.
LEMMA AverageOfEqual ==
    ASSUME NEW t \in 1 .. MaxBaseTarget, NEW w, \A i \in 1 .. LargeWindow : w[i].target = t
    PROVE  LargeAverage(w) = t
  <1> DEFINE N == LargeWindow
             avg == CHOOSE f : f = [i \in 1 .. N |-> Pass(w, f, i)]
             S == {k \in Nat : k < N => avg[N - k] = t}
  <1>0. N \in Nat \ {0} /\ t \in Nat
    BY SizesAssumption
  <1>1. avg = [i \in 1 .. N |-> Pass(w, avg, i)]
    <2>1. Window(w)
      BY DEF Window
    <2> QED
      BY <2>1, LoopExists
  <1>2. \A i \in 1 .. N : avg[i] = Pass(w, avg, i)
    <2> HIDE DEF avg
    <2> QED
      BY <1>1
  <1>3. LargeAverage(w) = avg[1]
    BY DEF LargeAverage, Pass
  <1> HIDE DEF avg
  <1>4. 0 \in S
    BY <1>0, <1>2 DEF Pass
  <1>5. \A k \in Nat : k \in S => k + 1 \in S
    <2> SUFFICES ASSUME NEW k \in Nat, k \in S, k + 1 < N PROVE avg[N - (k + 1)] = t
      OBVIOUS
    <2> DEFINE j == N - (k + 1)
               m == N + 1 - j
    <2>1. j \in 1 .. N /\ j # N /\ j + 1 = N - k /\ m \in Nat /\ N + 2 - j = m + 1
      BY <1>0
    <2>2. avg[j + 1] = t
      BY <1>0, <2>1
    <2> HIDE DEF j
    <2>3. avg[j] = (t * m + t) \div (m + 1)
      BY <1>2, <2>1, <2>2 DEF Pass
    <2>4. t * m + t = t * (m + 1)
      BY <1>0, <2>1
    <2> HIDE DEF m
    <2>5. (t * (m + 1)) \div (m + 1) = t
      BY <1>0, <2>1, QuotientExact
    <2>6. avg[j] = t
      BY <2>3, <2>4, <2>5
    <2> QED
      BY <2>6 DEF j
  <1>6. N - 1 \in S
    <2>1. N - 1 \in Nat
      BY <1>0
    <2> HIDE DEF S
    <2> QED
      BY <1>4, <1>5, <2>1, SetInduction
  <1> QED
    BY <1>0, <1>3, <1>6

\* A target scaled by the time that was expected is the same target.
LEMMA ScaledExact ==
    ASSUME NEW t \in 1 .. MaxBaseTarget, NEW d \in Nat \ {0}
    PROVE  AtMost((t * d) \div d, MaxBaseTarget) = t
  <1>1. (t * d) \div d = t
    BY SizesAssumption, QuotientExact
  <1> QED
    BY <1>1, SizesAssumption DEF AtMost

LEMMA SmallSteady ==
    ASSUME NEW t \in 1 .. MaxBaseTarget, NEW w, \A i \in 1 .. 4 : w[i].target = t,
           NEW ts, Seconds(ts - w[1].ts) = BlockTime * 4
    PROVE  SmallTarget(w, ts) = t
  <1>1. t \in Nat /\ t >= 1 /\ (t + t + t + t) \div 4 = t
    BY SizesAssumption
  <1> DEFINE d == BlockTime * 4
             new == AtMost((t * d) \div d, MaxBaseTarget)
  <1>2. d \in Nat \ {0}
    BY SizesAssumption
  <1>3. SmallTarget(w, ts) = AtMost(AtLeast(AtLeast(new, (t * 9) \div 10), 1), (t * 11) \div 10)
    <2> DEFINE mean == (w[1].target + w[2].target + w[3].target + w[4].target) \div 4
    <2>1. mean = t
      BY <1>1
    <2>2. SmallTarget(w, ts) =
            AtMost(AtLeast(AtLeast(AtMost((mean * d) \div d, MaxBaseTarget),
                                   (mean * 9) \div 10), 1), (mean * 11) \div 10)
      BY DEF SmallTarget
    <2> HIDE DEF mean, d
    <2> QED
      BY <2>1, <2>2
  <1> HIDE DEF d
  <1>4. new = t
    BY <1>2, ScaledExact
  <1> HIDE DEF new
  <1>5. (t * 9) \div 10 <= t /\ (t * 11) \div 10 >= t /\ (t * 9) \div 10 \in Int /\ (t * 11) \div 10 \in Int
    BY <1>1
  <1> QED
    BY <1>1, <1>3, <1>4, <1>5 DEF AtMost, AtLeast

LEMMA LargeSteady ==
    ASSUME NEW t \in 1 .. MaxBaseTarget, NEW w, \A i \in 1 .. LargeWindow : w[i].target = t,
           NEW ts, Seconds(ts - w[1].ts) = LargeWindow * BlockTime
    PROVE  LargeTarget(w, ts) = t
  <1> DEFINE d == LargeWindow * BlockTime
             dt == AtMost(AtLeast(d, d \div 2), d * 2)
             new == AtMost((t * dt) \div d, MaxBaseTarget)
  <1>1. d \in Nat \ {0} /\ t \in Nat /\ t >= 1 /\ w[LargeWindow].target = t
    BY SizesAssumption
  <1>2. LargeTarget(w, ts) = AtMost(AtLeast(AtLeast(new, 1), (t * 8) \div 10), (t * 12) \div 10)
    BY <1>1, AverageOfEqual DEF LargeTarget
  <1> HIDE DEF d
  <1>3. dt = d
    BY <1>1 DEF AtMost, AtLeast
  <1>4. new = t
    BY <1>1, <1>3, ScaledExact
  <1> HIDE DEF new
  <1>5. (t * 8) \div 10 <= t /\ (t * 12) \div 10 >= t /\ (t * 8) \div 10 \in Int /\ (t * 12) \div 10 \in Int
    BY <1>1
  <1> QED
    BY <1>1, <1>2, <1>4, <1>5 DEF AtMost, AtLeast

\* Blocks that come exactly on time leave the target where it is, whatever it
\* is and whichever of the two rules sets it.
THEOREM SteadyAlwaysStays == Spec => []SteadyStaysSteady
  <1>1. IInv => SteadyStaysSteady
    <2> DEFINE n == IF Len(filed) < AdjustHeight THEN 4 ELSE LargeWindow
               w == LastOf(filed, n)
               ts == w[1].ts + n * BlockTime
               t == w[n].target
    <2> SUFFICES ASSUME IInv, Len(filed) >= 4, ts \in Time, \A i \in 1 .. n : w[i].target = t
                 PROVE  BaseTarget(filed, ts) = t
      BY DEF SteadyStaysSteady
    <2>1. /\ filed \in Seq(Filed)
          /\ \A i \in DOMAIN filed : filed[i].target \in 1 .. MaxBaseTarget
      BY DEF IInv, TypeOK, TargetInRange
    <2>2. n \in Nat \ {0} /\ n <= Len(filed) /\ BlockTime \in Nat \ {0}
      BY <2>1, SizesAssumption, SMTT(20)
    <2>3. \A i \in 1 .. n : w[i].target \in 1 .. MaxBaseTarget /\ w[i].ts \in Nat
      <3> HIDE DEF n
      <3> QED
        BY <2>1, <2>2, LastOfFacts
    <2>4. t \in 1 .. MaxBaseTarget /\ w[1].ts \in Nat
      <3> HIDE DEF w, n
      <3> QED
        BY <2>2, <2>3
    <2>5. Seconds(ts - w[1].ts) = n * BlockTime
      <3> DEFINE first == w[1].ts
                 span == n * BlockTime
      <3>1. first \in Nat /\ span \in Nat /\ ts = first + span /\ ts \in Time
        BY <2>2, <2>4
      <3> HIDE DEF first, span, ts
      <3>2. ts - first = span /\ span \in Time
        <4>1. TimeRange \in Nat /\ ts \in 0 .. TimeRange - 1
          BY <3>1, SizesAssumption DEF Time
        <4>2. span \in 0 .. TimeRange - 1
          BY <3>1, <4>1
        <4> QED
          BY <3>1, <4>2 DEF Time
      <3>4. Seconds(span) = span
        BY <3>2, SecondsExact
      <3>5. Seconds(ts - first) = span
        BY <3>2, <3>4
      <3> QED
        BY <3>5 DEF first, span
    <2>6. CASE Len(filed) < AdjustHeight
      <3>1. n = 4
        BY <2>6
      <3>2. BaseTarget(filed, ts) = SmallTarget(w, ts)
        BY <2>1, <2>6, <3>1 DEF BaseTarget
      <3>3. n * BlockTime = BlockTime * 4
        BY <2>2, <3>1
      <3> HIDE DEF w, n, t, ts
      <3> QED
        BY <2>4, <2>5, <3>1, <3>2, <3>3, SmallSteady
    <2>7. CASE ~(Len(filed) < AdjustHeight)
      <3>1. n = LargeWindow
        BY <2>7
      <3>2. BaseTarget(filed, ts) = LargeTarget(w, ts)
        BY <2>1, <2>7, <3>1 DEF BaseTarget
      <3> HIDE DEF w, n, t, ts
      <3> QED
        BY <2>4, <2>5, <3>1, <3>2, LargeSteady
    <2> QED
      BY <2>6, <2>7
  <1> QED
    BY <1>1, Invariant, PTL
=============================================================================
