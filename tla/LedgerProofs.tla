------------------------------ MODULE LedgerProofs ------------------------------
(***************************************************************************)
(* Proofs about the ledger: its types, the index of the public keys, and   *)
(* that it implements a bank.  The database changes at a commit only, so   *)
(* the invariant says what the open transaction holds at each point of a   *)
(* transfer: the database, the database with the sender's debit, or both   *)
(* the debit and the credit.                                               *)
(*                                                                         *)
(* The last part is about the bytes of the transactions it books, and      *)
(* shares the sums over finite sets: what a prefix of the calls of ToBytes *)
(* fills is such a sum, and for each kind it ends at the promised size.    *)
(***************************************************************************)
EXTENDS Ledger, TransactionBytes, FiniteSetTheorems, SequenceTheorems, TLAPS

Debited(t) == Debit(Activate(db, t.key), IdOf[t.key], t.amount + t.fee)

\* The sender of the transfer that is going on can pay it.
CanPay(t) == Exists(db, IdOf[t.key]) /\ db.accounts[IdOf[t.key]].balance >= t.amount + t.fee

AfterSender == IF Forging THEN db ELSE Debited(Now)

TxnInv ==
    /\ pc \in {"idle", "sender", "down"} => txn = db
    /\ pc \in {"receiver", "commit"} /\ ~Forging => CanPay(Now)
    /\ pc = "receiver" => txn = AfterSender
    /\ pc = "commit" => txn = Credit(AfterSender, Now.to, Now.amount)

IInv == TypeOK /\ KeysAgree(db) /\ KeysAgree(txn) /\ TxnInv

-----------------------------------------------------------------------------
(* Sums over a finite set. *)

\* Induction, for a set of numbers: were x left out of S, so would be x - 1,
\* and stepping down would map the numbers up to x that are left out into
\* themselves and never reach x.
LEMMA SetInduction ==
    ASSUME NEW S, 0 \in S, \A k \in Nat : k \in S => k + 1 \in S
    PROVE  \A k \in Nat : k \in S
  <1> SUFFICES ASSUME NEW x \in Nat, x \notin S PROVE FALSE
    OBVIOUS
  <1> DEFINE T == {y \in 0 .. x : y \notin S}
             down == [y \in T |-> y - 1]
  <1>1. IsFiniteSet(T)
    <2>1. IsFiniteSet(0 .. x) /\ T \in SUBSET (0 .. x)
      BY FS_Interval
    <2> HIDE DEF T
    <2> QED
      BY <2>1, FS_Subset
  <1>2. \A y \in T : y - 1 \in T
    <2> TAKE y \in T
    <2>1. y \in Nat /\ y # 0 /\ y <= x
      OBVIOUS
    <2>2. y - 1 \in Nat /\ (y - 1) + 1 = y /\ y - 1 <= x
      BY <2>1
    <2> QED
      BY <2>2
  <1>3. down \in Injection(T, T)
    <2>1. down \in [T -> T]
      BY <1>2
    <2>2. \A y, z \in T : down[y] = down[z] => y = z
      OBVIOUS
    <2> QED
      BY <2>1, <2>2, Zenon DEF Injection, IsInjective
  <1>4. down \in Surjection(T, T)
    <2> HIDE DEF T, down
    <2> QED
      BY <1>1, <1>3, FS_Injection
  <1>5. x \in T
    OBVIOUS
  <1>6. PICK y \in T : down[y] = x
    <2> HIDE DEF T, down
    <2> QED
      BY <1>4, <1>5, Zenon DEF Surjection
  <1> QED
    BY <1>6

\* Induction, for a set of finite sets: each is in it as soon as all those with
\* one member less are.
LEMMA FiniteInduction ==
    ASSUME NEW D, IsFiniteSet(D), NEW C,
           \A s \in SUBSET D : (\A x \in s : s \ {x} \in C) => s \in C
    PROVE  \A s \in SUBSET D : s \in C
  <1> DEFINE Sized(k) == \A s \in SUBSET D : Cardinality(s) = k => s \in C
             S == {k \in Nat : Sized(k)}
  <1>1. \A s \in SUBSET D : IsFiniteSet(s) /\ Cardinality(s) \in Nat
    BY FS_Subset, FS_CardinalityType
  <1>2. 0 \in S
    BY <1>1, FS_EmptySet
  <1>3. \A k \in Nat : k \in S => k + 1 \in S
    <2> SUFFICES ASSUME NEW k \in Nat, Sized(k), NEW s \in SUBSET D, Cardinality(s) = k + 1
                 PROVE  s \in C
      <3>1. (\A k \in Nat : Sized(k) => Sized(k + 1)) => \A k \in Nat : k \in S => k + 1 \in S
        <4> HIDE DEF Sized
        <4> QED
          OBVIOUS
      <3> QED
        BY <3>1
    <2>1. ASSUME NEW x \in s PROVE s \ {x} \in C
      <3>1. Cardinality(s \ {x}) = k
        BY <1>1, FS_RemoveElement
      <3> QED
        BY <3>1
    <2> QED
      BY <2>1
  <1>4. \A k \in Nat : Sized(k)
    <2>1. \A k \in Nat : k \in S
      <3> HIDE DEF S
      <3> QED
        BY <1>2, <1>3, SetInduction
    <2> HIDE DEF Sized
    <2> QED
      BY <2>1
  <1> QED
    BY <1>1, <1>4

Pick(s) == CHOOSE x \in s : TRUE

\* The sums of v over the subsets of D, one member after the other.
IsSum(sums, v, D) ==
    sums = [s \in SUBSET D |-> IF s = {} THEN 0 ELSE v[Pick(s)] + sums[s \ {Pick(s)}]]

Sum(v, D) == (CHOOSE sums : IsSum(sums, v, D))[D]

Summable(v, D) == IsFiniteSet(D) /\ \A x \in D : v[x] \in Int

LEMMA PickIn ==
    ASSUME NEW s, s # {}
    PROVE  Pick(s) \in s
  BY DEF Pick

LEMMA SumExists ==
    ASSUME NEW v, NEW D, Summable(v, D)
    PROVE  \E sums \in [SUBSET D -> Int] : IsSum(sums, v, D)
  <1> DEFINE One(f, s) == IF s = {} THEN 0 ELSE v[Pick(s)] + f[s \ {Pick(s)}]
             Summed(f, k) == \A s \in SUBSET D : Cardinality(s) <= k => f[s] = One(f, s)
             Reached(k) == \E f \in [SUBSET D -> Int] : Summed(f, k)
             S == {k \in Nat : Reached(k)}
  <1>1. \A s \in SUBSET D : IsFiniteSet(s) /\ Cardinality(s) \in Nat
    BY FS_Subset, FS_CardinalityType DEF Summable
  <1>2. \A s \in SUBSET D : s # {} => /\ Pick(s) \in s /\ s \ {Pick(s)} \in SUBSET D
                                       /\ v[Pick(s)] \in Int
                                       /\ Cardinality(s \ {Pick(s)}) = Cardinality(s) - 1
    BY <1>1, PickIn, FS_RemoveElement DEF Summable
  <1>3. ASSUME NEW f \in [SUBSET D -> Int], NEW s \in SUBSET D PROVE One(f, s) \in Int
    <2>1. CASE s = {}
      BY <2>1
    <2>2. CASE s # {}
      <3>1. f[s \ {Pick(s)}] \in Int /\ v[Pick(s)] \in Int
        BY <1>2, <2>2
      <3>2. One(f, s) = v[Pick(s)] + f[s \ {Pick(s)}]
        BY <2>2
      <3> QED
        BY <3>1, <3>2
    <2> QED
      BY <2>1, <2>2
  <1>4. 0 \in S
    <2> DEFINE f == [s \in SUBSET D |-> 0]
    <2>1. f \in [SUBSET D -> Int] /\ \A s \in SUBSET D : f[s] = 0
      OBVIOUS
    <2>2. \A s \in SUBSET D : Cardinality(s) <= 0 => s = {}
      BY <1>1, FS_EmptySet
    <2>3. Summed(f, 0)
      <3> HIDE DEF f
      <3> QED
        BY <2>1, <2>2
    <2> QED
      BY <2>1, <2>3
  <1>5. \A k \in Nat : k \in S => k + 1 \in S
    <2> SUFFICES ASSUME NEW k \in Nat, Reached(k) PROVE Reached(k + 1)
      <3> HIDE DEF Reached
      <3> QED
        OBVIOUS
    <2>1. PICK f \in [SUBSET D -> Int] : Summed(f, k)
      OBVIOUS
    <2> DEFINE g == [s \in SUBSET D |-> One(f, s)]
    <2>2. g \in [SUBSET D -> Int]
      <3> HIDE DEF One
      <3> QED
        BY <1>3
    <2>3. ASSUME NEW s \in SUBSET D, Cardinality(s) <= k + 1 PROVE g[s] = One(g, s)
      <3>1. CASE s = {}
        BY <3>1
      <3>2. CASE s # {}
        <4> DEFINE t == s \ {Pick(s)}
        <4>1. t \in SUBSET D /\ Cardinality(t) <= k
          BY <1>1, <1>2, <2>3, <3>2
        <4>2. g[t] = One(f, t) /\ f[t] = One(f, t)
          <5> HIDE DEF One, t
          <5> QED
            BY <2>1, <4>1
        <4>3. g[s] = v[Pick(s)] + f[t]
          BY <3>2
        <4>4. One(g, s) = v[Pick(s)] + g[t]
          BY <3>2
        <4> QED
          BY <4>2, <4>3, <4>4
      <3> QED
        BY <3>1, <3>2
    <2> QED
      BY <2>2, <2>3
  <1>6. Cardinality(D) \in S /\ \A s \in SUBSET D : Cardinality(s) <= Cardinality(D)
    <2>1. Cardinality(D) \in Nat
      BY FS_CardinalityType DEF Summable
    <2>2. Cardinality(D) \in S
      <3> HIDE DEF S
      <3> QED
        BY <1>4, <1>5, <2>1, SetInduction
    <2> QED
      BY <2>2, FS_Subset DEF Summable
  <1>7. PICK f \in [SUBSET D -> Int] : \A s \in SUBSET D : f[s] = One(f, s)
    BY <1>6
  <1>8. f = [s \in SUBSET D |-> One(f, s)]
    <2> HIDE DEF One
    <2> QED
      BY <1>7
  <1> QED
    BY <1>8 DEF IsSum

\* What one more member does to a sum, in the order it is taken.
LEMMA SumUnfolds ==
    ASSUME NEW v, NEW D, NEW sums, IsSum(sums, v, D)
    PROVE  /\ sums[{}] = 0
           /\ \A s \in SUBSET D : s # {} => sums[s] = v[Pick(s)] + sums[s \ {Pick(s)}]
  <1> DEFINE One(s) == IF s = {} THEN 0 ELSE v[Pick(s)] + sums[s \ {Pick(s)}]
  <1>1. sums = [s \in SUBSET D |-> One(s)]
    BY DEF IsSum
  <1> HIDE DEF One
  <1>2. \A s \in SUBSET D : sums[s] = One(s)
    BY <1>1
  <1> QED
    BY <1>2 DEF One

LEMMA SumsType ==
    ASSUME NEW v, NEW D, Summable(v, D), NEW sums, IsSum(sums, v, D)
    PROVE  \A s \in SUBSET D : sums[s] \in Int
  <1> DEFINE C == {s \in SUBSET D : sums[s] \in Int}
  <1>1. ASSUME NEW s \in SUBSET D, \A x \in s : s \ {x} \in C PROVE s \in C
    <2>1. CASE s = {}
      BY <2>1, SumUnfolds
    <2>2. CASE s # {}
      <3>1. Pick(s) \in s /\ v[Pick(s)] \in Int /\ sums[s \ {Pick(s)}] \in Int
        BY <1>1, <2>2, PickIn DEF Summable
      <3>2. sums[s] = v[Pick(s)] + sums[s \ {Pick(s)}]
        <4>1. s \in SUBSET D
          BY <1>1
        <4> HIDE DEF C
        <4> QED
          BY <2>2, <4>1, SumUnfolds
      <3> QED
        BY <3>1, <3>2
    <2> QED
      BY <2>1, <2>2
  <1>2. \A s \in SUBSET D : s \in C
    <2> HIDE DEF C
    <2> QED
      BY <1>1, FiniteInduction DEF Summable
  <1> QED
    BY <1>2

\* Any member may be the last one added.
LEMMA SumsRemove ==
    ASSUME NEW v, NEW D, Summable(v, D), NEW sums, IsSum(sums, v, D)
    PROVE  \A s \in SUBSET D : \A x \in s : sums[s] = v[x] + sums[s \ {x}]
  <1> DEFINE C == {s \in SUBSET D : \A x \in s : sums[s] = v[x] + sums[s \ {x}]}
  <1>1. ASSUME NEW s \in SUBSET D, \A x \in s : s \ {x} \in C PROVE s \in C
    <2> SUFFICES ASSUME NEW x \in s PROVE sums[s] = v[x] + sums[s \ {x}]
      OBVIOUS
    <2> DEFINE p == Pick(s)
    <2>1. p \in s /\ sums[s] = v[p] + sums[s \ {p}]
      BY PickIn, SumUnfolds
    <2> HIDE DEF p
    <2>2. CASE x = p
      BY <2>1, <2>2
    <2>3. CASE x # p
      <3> DEFINE t == (s \ {p}) \ {x}
      <3>1. s \ {p} \in C /\ s \ {x} \in C
        BY <1>1, <2>1
      <3>2. sums[s \ {p}] = v[x] + sums[t]
        BY <2>3, <3>1
      <3>3. (s \ {x}) \ {p} = t /\ t \in SUBSET D
        OBVIOUS
      <3>4. sums[s \ {x}] = v[p] + sums[t]
        <4>1. sums[s \ {x}] = v[p] + sums[(s \ {x}) \ {p}]
          BY <2>1, <2>3, <3>1
        <4> HIDE DEF t
        <4> QED
          BY <3>3, <4>1
      <3> HIDE DEF t
      <3>5. v[x] \in Int /\ v[p] \in Int /\ sums[t] \in Int
        BY <2>1, <3>3, SumsType DEF Summable
      <3> HIDE DEF C
      <3>6. sums[s] = v[p] + (v[x] + sums[t])
        BY <2>1, <3>2
      <3>7. v[p] + (v[x] + sums[t]) = v[x] + (v[p] + sums[t])
        BY <3>5
      <3> QED
        BY <3>4, <3>6, <3>7
    <2> QED
      BY <2>2, <2>3
  <1>2. \A s \in SUBSET D : s \in C
    <2> HIDE DEF C
    <2> QED
      BY <1>1, FiniteInduction DEF Summable
  <1> QED
    BY <1>2

\* A sum depends on the values at the members only.
LEMMA SumsSame ==
    ASSUME NEW v, NEW w, NEW D, NEW E, NEW A, A \subseteq D, A \subseteq E, IsFiniteSet(A),
           \A x \in A : v[x] = w[x],
           NEW f, IsSum(f, v, D), NEW g, IsSum(g, w, E)
    PROVE  \A s \in SUBSET A : f[s] = g[s]
  <1> DEFINE C == {s \in SUBSET A : f[s] = g[s]}
  <1>1. ASSUME NEW s \in SUBSET A, \A x \in s : s \ {x} \in C PROVE s \in C
    <2>0. s \in SUBSET D /\ s \in SUBSET E
      OBVIOUS
    <2>1. f[{}] = 0 /\ g[{}] = 0
      BY SumUnfolds
    <2>2. s # {} => /\ f[s] = v[Pick(s)] + f[s \ {Pick(s)}]
                    /\ g[s] = w[Pick(s)] + g[s \ {Pick(s)}]
      BY <2>0, SumUnfolds
    <2>3. s # {} => v[Pick(s)] = w[Pick(s)] /\ f[s \ {Pick(s)}] = g[s \ {Pick(s)}]
      BY <1>1, PickIn
    <2> QED
      BY <2>1, <2>2, <2>3
  <1>2. \A s \in SUBSET A : s \in C
    <2> HIDE DEF C
    <2> QED
      BY <1>1, FiniteInduction
  <1> QED
    BY <1>2

LEMMA SumFacts ==
    ASSUME NEW v, NEW D, Summable(v, D)
    PROVE  IsSum(CHOOSE sums : IsSum(sums, v, D), v, D)
  BY SumExists

\* The sum over nothing, over one member less, and of the same values.
LEMMA SumEmpty ==
    ASSUME NEW v
    PROVE  Sum(v, {}) = 0
  <1>1. Summable(v, {})
    BY FS_EmptySet DEF Summable
  <1> QED
    BY <1>1, SumFacts, SumUnfolds DEF Sum

LEMMA SumType ==
    ASSUME NEW v, NEW D, Summable(v, D)
    PROVE  Sum(v, D) \in Int
  BY SumFacts, SumsType DEF Sum

\* Summed numbers without a sign make one without a sign.
LEMMA SumNat ==
    ASSUME NEW v, NEW D, IsFiniteSet(D), \A x \in D : v[x] \in Nat
    PROVE  Sum(v, D) \in Nat
  <1> DEFINE f == CHOOSE sums : IsSum(sums, v, D)
             C == {s \in SUBSET D : f[s] \in Nat}
  <1>1. IsSum(f, v, D) /\ Sum(v, D) = f[D]
    BY SumFacts DEF Sum, Summable
  <1> HIDE DEF f
  <1>2. ASSUME NEW s \in SUBSET D, \A x \in s : s \ {x} \in C PROVE s \in C
    <2>1. f[{}] = 0 /\ (s # {} => f[s] = v[Pick(s)] + f[s \ {Pick(s)}])
      <3> HIDE DEF C
      <3> QED
        BY <1>1, SumUnfolds
    <2>2. s # {} => v[Pick(s)] \in Nat /\ f[s \ {Pick(s)}] \in Nat
      BY <1>2, PickIn
    <2>3. f[s] \in Nat
      <3> HIDE DEF C
      <3>1. CASE s = {}
        BY <2>1, <3>1
      <3>2. CASE s # {}
        BY <2>1, <2>2, <3>2
      <3> QED
        BY <3>1, <3>2
    <2> QED
      BY <2>3
  <1>3. \A s \in SUBSET D : s \in C
    <2> HIDE DEF C
    <2> QED
      BY <1>2, FiniteInduction
  <1> QED
    BY <1>1, <1>3

LEMMA SumSame ==
    ASSUME NEW v, NEW w, NEW D, Summable(v, D), \A x \in D : v[x] = w[x]
    PROVE  Sum(v, D) = Sum(w, D)
  <1> DEFINE f == CHOOSE sums : IsSum(sums, v, D)
             g == CHOOSE sums : IsSum(sums, w, D)
  <1>1. Summable(w, D)
    BY DEF Summable
  <1>2. IsSum(f, v, D) /\ IsSum(g, w, D)
    BY <1>1, SumFacts
  <1>3. Sum(v, D) = f[D] /\ Sum(w, D) = g[D]
    BY DEF Sum
  <1> HIDE DEF f, g
  <1>4. \A s \in SUBSET D : f[s] = g[s]
    <2>1. IsFiniteSet(D) /\ D \subseteq D
      BY DEF Summable
    <2> QED
      BY <1>2, <2>1, SumsSame
  <1> QED
    BY <1>3, <1>4

\* The sums over D are determined by their equation.
LEMMA SumUnique ==
    ASSUME NEW v, NEW D, Summable(v, D), NEW f, IsSum(f, v, D)
    PROVE  Sum(v, D) = f[D]
  <1> DEFINE g == CHOOSE sums : IsSum(sums, v, D)
  <1>1. IsSum(g, v, D) /\ Sum(v, D) = g[D]
    BY SumFacts DEF Sum
  <1> HIDE DEF g
  <1>2. IsFiniteSet(D) /\ D \subseteq D
    BY DEF Summable
  <1>3. \A s \in SUBSET D : f[s] = g[s]
    BY <1>1, <1>2, SumsSame
  <1> QED
    BY <1>1, <1>3

LEMMA SumZero ==
    ASSUME NEW v, NEW D, IsFiniteSet(D), \A x \in D : v[x] = 0
    PROVE  Sum(v, D) = 0
  <1> DEFINE f == CHOOSE sums : IsSum(sums, v, D)
             C == {s \in SUBSET D : f[s] = 0}
  <1>1. IsSum(f, v, D) /\ Sum(v, D) = f[D]
    BY SumFacts DEF Sum, Summable
  <1> HIDE DEF f
  <1>2. ASSUME NEW s \in SUBSET D, \A x \in s : s \ {x} \in C PROVE s \in C
    <2>1. f[{}] = 0 /\ (s # {} => f[s] = v[Pick(s)] + f[s \ {Pick(s)}])
      <3> HIDE DEF C
      <3> QED
        BY <1>1, SumUnfolds
    <2>2. s # {} => v[Pick(s)] = 0 /\ f[s \ {Pick(s)}] = 0
      BY <1>2, PickIn
    <2>3. f[s] = 0
      <3> HIDE DEF C
      <3>1. CASE s = {}
        BY <2>1, <3>1
      <3>2. CASE s # {}
        BY <2>1, <2>2, <3>2
      <3> QED
        BY <3>1, <3>2
    <2> QED
      BY <2>3
  <1>3. \A s \in SUBSET D : s \in C
    <2> HIDE DEF C
    <2> QED
      BY <1>2, FiniteInduction
  <1> QED
    BY <1>1, <1>3

LEMMA SumRemove ==
    ASSUME NEW v, NEW D, Summable(v, D), NEW x \in D
    PROVE  Sum(v, D) = v[x] + Sum(v, D \ {x})
  <1> DEFINE f == CHOOSE sums : IsSum(sums, v, D)
             g == CHOOSE sums : IsSum(sums, v, D \ {x})
  <1>1. Summable(v, D \ {x})
    BY FS_RemoveElement DEF Summable
  <1>2. IsSum(f, v, D) /\ IsSum(g, v, D \ {x})
    BY <1>1, SumFacts
  <1>3. Sum(v, D) = f[D] /\ Sum(v, D \ {x}) = g[D \ {x}]
    BY DEF Sum
  <1> HIDE DEF f, g
  <1>4. f[D] = v[x] + f[D \ {x}]
    BY <1>2, SumsRemove
  <1>5. f[D \ {x}] = g[D \ {x}]
    <2> DEFINE E == D \ {x}
    <2>1. E \subseteq D /\ IsFiniteSet(E)
      BY <1>1 DEF Summable
    <2>2. IsSum(g, v, E)
      BY <1>2
    <2> HIDE DEF E
    <2>3. \A s \in SUBSET E : f[s] = g[s]
      BY <1>2, <2>1, <2>2, SumsSame
    <2> QED
      BY <2>3 DEF E
  <1> QED
    BY <1>3, <1>4, <1>5

\* One value changes: the sum changes by as much.
LEMMA SumChanged ==
    ASSUME NEW v, NEW w, NEW D, Summable(v, D), Summable(w, D), NEW x \in D,
           \A y \in D \ {x} : v[y] = w[y]
    PROVE  Sum(w, D) = Sum(v, D) + w[x] - v[x]
  <1>1. Summable(v, D \ {x})
    BY FS_RemoveElement DEF Summable
  <1>2. Sum(v, D \ {x}) = Sum(w, D \ {x}) /\ Sum(v, D \ {x}) \in Int
    BY <1>1, SumSame, SumType
  <1>3. Sum(v, D) = v[x] + Sum(v, D \ {x}) /\ Sum(w, D) = w[x] + Sum(w, D \ {x})
    BY SumRemove
  <1>4. v[x] \in Int /\ w[x] \in Int
    BY DEF Summable
  <1> QED
    BY <1>2, <1>3, <1>4
-----------------------------------------------------------------------------
(* The database. *)

\* An account that exists is a proper record, one that does not has no key.
LEMMA AccountFacts ==
    ASSUME NEW d \in DB, NEW a \in Id
    PROVE  /\ Exists(d, a) => d.accounts[a] \in Account
           /\ ~Exists(d, a) => d.accounts[a] = NoAccount /\ d.accounts[a].key = NoKey
           /\ d.accounts[a].key \in Key => Exists(d, a)
  BY KeysAssumption DEF DB, Exists, Account, NoAccount

\* The account found for a key is the one its hash names.
LEMMA SenderIsOwner ==
    ASSUME NEW d \in DB, KeysAgree(d), NEW k \in Key, Sender(d, k) # Nobody
    PROVE  Sender(d, k) = IdOf[k] /\ Exists(d, IdOf[k])
  <1>1. CASE d.index[k] # Nobody
    <2>1. d.index[k] = IdOf[k] /\ d.accounts[IdOf[k]].key = k
      BY <1>1 DEF KeysAgree
    <2>2. Exists(d, IdOf[k])
      BY <2>1, AccountFacts, KeysAssumption
    <2> QED
      BY <1>1, <2>1, <2>2 DEF Sender, ByKey
  <1>2. CASE d.index[k] = Nobody
    BY <1>2 DEF Sender, ByKey, ById
  <1> QED
    BY <1>1, <1>2

\* The sender's side of a transfer leaves a database, with its index.
LEMMA DebitKeepsDB ==
    ASSUME NEW d \in DB, KeysAgree(d), NEW k \in Key, NEW x \in Nat,
           Exists(d, IdOf[k]), d.accounts[IdOf[k]].balance >= x
    PROVE  LET e == Debit(Activate(d, k), IdOf[k], x) IN
           /\ e \in DB /\ KeysAgree(e)
           /\ Exists(e, IdOf[k])
           /\ e.accounts[IdOf[k]].balance = d.accounts[IdOf[k]].balance - x
           /\ \A a \in Id \ {IdOf[k]} : e.accounts[a] = d.accounts[a]
  <1> DEFINE o == IdOf[k]
             e == Debit(Activate(d, k), o, x)
             r == [key |-> k, balance |-> d.accounts[o].balance - x]
  <1>1. o \in Id /\ d.accounts[o] \in Account
    BY AccountFacts, KeysAssumption
  <1>2. /\ e.accounts = [d.accounts EXCEPT ![o] = r]
        /\ e.index = [d.index EXCEPT ![k] = o]
        /\ e = [accounts |-> e.accounts, index |-> e.index]
    <2>1. CASE d.index[k] # Nobody
      <3>1. d.index[k] = o /\ d.accounts[o].key = k
        BY <2>1 DEF KeysAgree
      <3>2. Activate(d, k) = d
        BY <2>1 DEF Activate, ByKey
      <3> QED
        BY <1>1, <3>1, <3>2 DEF Debit, DB
    <2>2. CASE d.index[k] = Nobody
      <3> DEFINE f == Activate(d, k)
      <3>1. /\ f.accounts = [d.accounts EXCEPT ![o] = [key |-> k, balance |-> d.accounts[o].balance]]
            /\ f.index = [d.index EXCEPT ![k] = o]
        BY <2>2 DEF Activate, ByKey
      <3>2. f.accounts[o] = [key |-> k, balance |-> d.accounts[o].balance]
        BY <1>1, <3>1 DEF DB
      <3>3. e.accounts = [f.accounts EXCEPT ![o] = r] /\ e.index = f.index
            /\ e = [accounts |-> e.accounts, index |-> e.index]
        BY <3>2 DEF Debit
      <3> QED
        BY <1>1, <3>1, <3>3 DEF DB
    <2> QED
      BY <2>1, <2>2
  <1>3. r \in Account
    BY <1>1 DEF Account
  <1>4. e \in DB
    BY <1>1, <1>2, <1>3 DEF DB
  <1>5. \A a \in Id \ {o} : e.accounts[a] = d.accounts[a]
    BY <1>1, <1>2 DEF DB
  <1>6. e.accounts[o] = r
    BY <1>1, <1>2 DEF DB
  <1>7. KeysAgree(e)
    <2> SUFFICES ASSUME NEW j \in Key
                 PROVE  /\ e.index[j] # Nobody => e.index[j] = IdOf[j] /\ e.accounts[IdOf[j]].key = j
                        /\ \A a \in Id : e.accounts[a].key = j => e.index[j] = a
      BY DEF KeysAgree
    <2>1. CASE j = k
      <3>1. e.index[j] = o /\ e.accounts[o].key = k
        BY <1>2, <1>6, <2>1 DEF DB
      <3>2. \A a \in Id \ {o} : e.accounts[a].key # k
        <4> SUFFICES ASSUME NEW a \in Id \ {o}, d.accounts[a].key = k PROVE FALSE
          BY <1>5
        <4>1. d.index[k] = a
          BY DEF KeysAgree
        <4> QED
          BY <4>1, KeysAssumption DEF KeysAgree
      <3> QED
        BY <2>1, <3>1, <3>2
    <2>2. CASE j # k
      <3>1. e.index[j] = d.index[j] /\ IdOf[j] # o /\ IdOf[j] \in Id
        BY <1>2, <2>2, KeysAssumption DEF DB
      <3>2. e.accounts[IdOf[j]] = d.accounts[IdOf[j]]
        BY <1>5, <3>1
      <3>3. e.accounts[o].key # j
        BY <1>6, <2>2
      <3> QED
        BY <1>5, <3>1, <3>2, <3>3 DEF KeysAgree
    <2> QED
      BY <2>1, <2>2
  <1>8. Exists(e, o)
    BY <1>4, <1>6, <1>1, AccountFacts
  <1> QED
    BY <1>4, <1>5, <1>6, <1>7, <1>8

\* So does the receiver's side; it changes one balance.
LEMMA CreditKeepsDB ==
    ASSUME NEW d \in DB, KeysAgree(d), NEW b \in Id, NEW x \in Nat
    PROVE  LET e == Credit(d, b, x) IN
           /\ e \in DB /\ KeysAgree(e)
           /\ Exists(e, b) /\ e.accounts[b].balance = BalanceOf(d, b) + x
           /\ \A a \in Id \ {b} : e.accounts[a] = d.accounts[a]
  <1> DEFINE e == Credit(d, b, x)
             r == [key |-> d.accounts[b].key, balance |-> BalanceOf(d, b) + x]
  <1>1. /\ Exists(d, b) => d.accounts[b] \in Account
        /\ ~Exists(d, b) => d.accounts[b] = NoAccount
    BY AccountFacts
  <1>2. e.accounts = [d.accounts EXCEPT ![b] = r] /\ e.index = d.index
        /\ e = [accounts |-> e.accounts, index |-> e.index]
    BY <1>1 DEF Credit, BalanceOf, NewAccount, NoAccount, Account, DB
  <1>3. r \in Account
    BY <1>1 DEF BalanceOf, NoAccount, Account
  <1>4. e \in DB
    BY <1>2, <1>3 DEF DB
  <1>5. \A a \in Id : e.accounts[a].key = d.accounts[a].key
    BY <1>2 DEF DB
  <1>6. KeysAgree(e)
    BY <1>2, <1>5, KeysAssumption DEF KeysAgree
  <1>7. e.accounts[b] = r /\ \A a \in Id \ {b} : e.accounts[a] = d.accounts[a]
    BY <1>2 DEF DB
  <1>8. Exists(e, b)
    BY <1>3, <1>7 DEF Exists, NoAccount, Account
  <1> QED
    BY <1>4, <1>6, <1>7, <1>8

LEMMA CreditBalances ==
    ASSUME NEW d \in DB, KeysAgree(d), NEW b \in Id, NEW x \in Nat
    PROVE  LET e == Credit(d, b, x) IN
           /\ BalanceOf(e, b) = BalanceOf(d, b) + x
           /\ \A a \in Id \ {b} : BalanceOf(e, a) = BalanceOf(d, a)
  <1> DEFINE e == Credit(d, b, x)
  <1>1. /\ Exists(e, b) /\ e.accounts[b].balance = BalanceOf(d, b) + x
        /\ \A a \in Id \ {b} : e.accounts[a] = d.accounts[a]
    BY CreditKeepsDB
  <1> HIDE DEF e
  <1>2. BalanceOf(e, b) = e.accounts[b].balance
    BY <1>1 DEF BalanceOf
  <1>3. \A a \in Id \ {b} : BalanceOf(e, a) = BalanceOf(d, a)
    BY <1>1 DEF BalanceOf, Exists
  <1> QED
    BY <1>1, <1>2, <1>3 DEF e

\* What is left of a block after its head is a list of transfers again.
LEMMA HeadAndTail ==
    ASSUME todo \in Seq(Transfer), todo # <<>>
    PROVE  /\ Now \in Transfer /\ Tail(todo) \in Seq(Transfer)
           /\ Forging => Now.to \in Id /\ Now.amount \in Nat /\ Now.fee = 0
           /\ ~Forging => Now \in Transaction /\ Now.amount \in Nat /\ Now.fee \in Nat
  <1>1. Now \in Transfer /\ Tail(todo) \in Seq(Transfer)
    BY DEF Now
  <1> QED
    BY <1>1, NumbersAssumption, KeysAssumption DEF Transfer, Transaction, Forging
-----------------------------------------------------------------------------
(* The fees of a block. *)

FeeAt(s) == [i \in DOMAIN s |-> s[i].fee]

LEMMA FeesIsSum ==
    ASSUME NEW s, IsFiniteSet(DOMAIN s), \A i \in DOMAIN s : s[i].fee \in Int
    PROVE  Fees(s) = Sum(FeeAt(s), DOMAIN s)
  <1> DEFINE D == DOMAIN s
             Sums(it) == it = [t \in SUBSET D |->
                           IF t = {} THEN 0
                           ELSE s[CHOOSE x \in t : TRUE].fee + it[t \ {CHOOSE x \in t : TRUE}]]
             f == CHOOSE it : Sums(it)
  <1>1. Fees(s) = f[D]
    BY DEF Fees, FeeOf, MapThenSumSet, MapThenFoldSet
  <1>2. ASSUME NEW it PROVE Sums(it) <=> IsSum(it, FeeAt(s), D)
    <2>1. \A t \in SUBSET D : t # {} => Pick(t) \in D /\ FeeAt(s)[Pick(t)] = s[Pick(t)].fee
      BY PickIn DEF FeeAt
    <2> QED
      BY <2>1 DEF IsSum, Pick
  <1>3. Summable(FeeAt(s), D)
    BY DEF Summable, FeeAt
  <1> HIDE DEF Sums
  <1>4. IsSum(f, FeeAt(s), D)
    <2>1. \E it : IsSum(it, FeeAt(s), D)
      BY <1>3, SumExists
    <2>2. Sums(f)
      BY <1>2, <2>1
    <2> QED
      BY <1>2, <2>2
  <1> HIDE DEF f
  <1> QED
    BY <1>1, <1>3, <1>4, SumUnique

LEMMA FeesType ==
    ASSUME NEW s \in Seq(Transfer)
    PROVE  /\ IsFiniteSet(DOMAIN s) /\ \A i \in DOMAIN s : s[i].fee \in Nat
           /\ Fees(s) \in Nat
  <1>1. IsFiniteSet(DOMAIN s)
    <2>1. DOMAIN s = 1 .. Len(s) /\ Len(s) \in Nat
      <3> HIDE DEF Transfer
      <3> QED
        OBVIOUS
    <2> QED
      BY <2>1, FS_Interval
  <1>2. \A i \in DOMAIN s : s[i].fee \in Nat
    <2>1. \A i \in DOMAIN s : s[i] \in Transfer
      <3> HIDE DEF Transfer
      <3> QED
        OBVIOUS
    <2>2. \A t \in Transfer : t.fee \in Nat
      <3>1. \A t \in Transaction : t.fee \in Nat
        BY NumbersAssumption DEF Transaction
      <3>2. \A t \in [key : {NoKey}, to : Id, amount : Nat, fee : {0}] : t.fee \in Nat
        OBVIOUS
      <3> QED
        BY <3>1, <3>2 DEF Transfer
    <2> QED
      BY <2>1, <2>2
  <1>3. Fees(s) = Sum(FeeAt(s), DOMAIN s)
    BY <1>1, <1>2, FeesIsSum
  <1>4. Sum(FeeAt(s), DOMAIN s) \in Nat
    BY <1>1, <1>2, SumNat DEF FeeAt
  <1> QED
    BY <1>1, <1>2, <1>3, <1>4

\* The fees of a block are the first one's and those of the rest: the sum over
\* the places from the second on is the sum over the places of the rest.
LEMMA FeesShift ==
    ASSUME NEW s \in Seq(Transfer), s # <<>>
    PROVE  Fees(s) = Head(s).fee + Fees(Tail(s))
  <1> DEFINE n == Len(s)
             t == Tail(s)
             v == FeeAt(s)
             w == FeeAt(t)
             Shifted(k) == k < n => Sum(v, 2 .. k + 1) = Sum(w, 1 .. k)
             S == {k \in Nat : Shifted(k)}
  <1>1. /\ n \in Nat \ {0} /\ DOMAIN s = 1 .. n /\ DOMAIN t = 1 .. n - 1
        /\ t \in Seq(Transfer) /\ s[1] = Head(s)
        /\ \A i \in 1 .. n - 1 : t[i] = s[i + 1]
    <2> HIDE DEF Transfer
    <2> QED
      OBVIOUS
  <1>2. /\ \A i \in 1 .. n : v[i] = s[i].fee /\ v[i] \in Nat
        /\ \A i \in 1 .. n - 1 : w[i] = v[i + 1] /\ w[i] \in Nat
    <2>1. \A i \in 1 .. n : v[i] = s[i].fee /\ v[i] \in Nat
      BY <1>1, FeesType DEF FeeAt
    <2>2. \A i \in 1 .. n - 1 : w[i] = s[i + 1].fee /\ i + 1 \in 1 .. n
      BY <1>1 DEF FeeAt
    <2> HIDE DEF v, w
    <2> QED
      BY <2>1, <2>2
  <1>3. Fees(s) = Sum(v, 1 .. n) /\ Fees(t) = Sum(w, 1 .. n - 1)
    <2>1. Fees(s) = Sum(v, DOMAIN s)
      BY FeesType, FeesIsSum
    <2>2. Fees(t) = Sum(w, DOMAIN t)
      <3> HIDE DEF t
      <3> QED
        BY <1>1, FeesType, FeesIsSum
    <2> HIDE DEF v, w, t
    <2> QED
      BY <1>1, <2>1, <2>2
  <1> HIDE DEF v, w, t, n
  <1>4. ASSUME NEW k \in Nat, k <= n PROVE Summable(v, 2 .. k) /\ Summable(v, 1 .. k)
    <2>1. IsFiniteSet(2 .. k) /\ IsFiniteSet(1 .. k)
      BY FS_Interval
    <2>2. (\A x \in 2 .. k : v[x] \in Int) /\ (\A x \in 1 .. k : v[x] \in Int)
      BY <1>1, <1>2, <1>4
    <2> QED
      BY <2>1, <2>2 DEF Summable
  <1>5. ASSUME NEW k \in Nat, k <= n - 1 PROVE Summable(w, 1 .. k)
    <2>1. IsFiniteSet(1 .. k)
      BY FS_Interval
    <2>2. \A x \in 1 .. k : w[x] \in Int
      BY <1>1, <1>2, <1>5
    <2> QED
      BY <2>1, <2>2 DEF Summable
  <1>6. 0 \in S
    <2>1. 2 .. 0 + 1 = {} /\ 1 .. 0 = {}
      OBVIOUS
    <2> QED
      BY <2>1, SumEmpty
  <1>7. \A k \in Nat : k \in S => k + 1 \in S
    <2> SUFFICES ASSUME NEW k \in Nat, Shifted(k), k + 1 < n
                 PROVE  Sum(v, 2 .. (k + 1) + 1) = Sum(w, 1 .. k + 1)
      <3>1. (\A k \in Nat : Shifted(k) => Shifted(k + 1)) => \A k \in Nat : k \in S => k + 1 \in S
        <4> HIDE DEF Shifted
        <4> QED
          OBVIOUS
      <3> QED
        BY <3>1
    <2>1. /\ (2 .. (k + 1) + 1) \ {k + 2} = 2 .. k + 1 /\ k + 2 \in 2 .. (k + 1) + 1
          /\ (1 .. k + 1) \ {k + 1} = 1 .. k /\ k + 1 \in 1 .. k + 1
          /\ k + 1 + 1 = k + 2
      OBVIOUS
    <2>2. k + 2 \in Nat /\ k + 2 <= n /\ k + 1 <= n - 1 /\ k + 1 \in Nat
      BY <1>1
    <2>3. Sum(v, 2 .. (k + 1) + 1) = v[k + 2] + Sum(v, 2 .. k + 1)
      BY <1>4, <2>1, <2>2, SumRemove
    <2>4. Sum(w, 1 .. k + 1) = w[k + 1] + Sum(w, 1 .. k)
      BY <1>5, <2>1, <2>2, SumRemove
    <2>5. w[k + 1] = v[k + 2]
      BY <1>2, <2>1, <2>2
    <2>6. Sum(v, 2 .. k + 1) = Sum(w, 1 .. k)
      BY <1>1
    <2> QED
      BY <2>3, <2>4, <2>5, <2>6
  <1>8. Sum(v, 2 .. n) = Sum(w, 1 .. n - 1)
    <2>1. n - 1 \in Nat /\ n - 1 + 1 = n /\ n - 1 < n
      BY <1>1
    <2>2. n - 1 \in S
      <3> HIDE DEF S
      <3> QED
        BY <1>6, <1>7, <2>1, SetInduction
    <2> QED
      BY <2>1, <2>2
  <1>9. Sum(v, 1 .. n) = v[1] + Sum(v, 2 .. n)
    <2>1. (1 .. n) \ {1} = 2 .. n /\ 1 \in 1 .. n
      BY <1>1
    <2> QED
      BY <1>1, <1>4, <2>1, SumRemove
  <1>10. v[1] = Head(s).fee
    BY <1>1, <1>2
  <1> QED
    BY <1>3, <1>8, <1>9, <1>10 DEF t

-----------------------------------------------------------------------------
LEMMA InitInv == Init => IInv
  BY KeysAssumption
  DEF Init, IInv, TypeOK, DB, Account, NoAccount, KeysAgree, TxnInv

\* What holds of a database holds while the process is down or idle, and a block
\* is a list of transfers.
LEMMA ExecuteInv ==
    ASSUME IInv, NEW k \in Key, NEW len \in 0 .. MaxTx, NEW txs \in [1 .. len -> Transaction],
           Execute(k, txs)
    PROVE  IInv'
  <1> USE DEF IInv, TypeOK, KeysAgree, TxnInv, Execute
  <1>1. CASE height < RewardRecipientStartHeight
    <2> DEFINE f == ForgeTransfer(k, BlockReward(height, txs))
    <2>2. txs \in Seq(Transfer)
      BY NumbersAssumption DEF Transfer
    <2>1. f \in Transfer
      <3>1. RewardOf(height) \in Nat
        BY RewardAssumption, NumbersAssumption
      <3>2. BlockReward(height, txs) \in Nat
        BY <2>2, <3>1, FeesType DEF BlockReward
      <3> QED
        BY <3>2, KeysAssumption DEF Transfer, ForgeTransfer
    <2>3. <<f>> \o txs \in Seq(Transfer) /\ <<f>> \o txs # <<>>
      BY <2>1, <2>2
    <2>4. todo' = <<f>> \o txs /\ pc' = "sender" /\ txn' = db /\ db' = db /\ height' \in Nat
      BY <1>1
    <2> QED
      BY <2>3, <2>4
  <1>2. CASE ~(height < RewardRecipientStartHeight)
    BY <1>2
  <1> QED
    BY <1>1, <1>2

LEMMA DieInv ==
    ASSUME IInv, Die
    PROVE  IInv'
  BY DEF IInv, TypeOK, KeysAgree, TxnInv, Die

LEMMA SendFromInv ==
    ASSUME IInv, SendFrom
    PROVE  IInv'
  <1> USE DEF IInv, TypeOK, SendFrom
  <1>1. Now \in Transaction /\ Now.key \in Key /\ Now.amount + Now.fee \in Nat
    BY HeadAndTail DEF Transaction
  <1>2. txn = db
    BY DEF TxnInv
  <1>3. Sender(db, Now.key) = IdOf[Now.key] /\ Exists(db, IdOf[Now.key])
    BY <1>1, <1>2, SenderIsOwner
  <1>4. CanPay(Now)
    BY <1>2, <1>3 DEF CanPay
  <1>5. txn' = Debited(Now)
    BY <1>2, <1>3 DEF Debited
  <1>6. txn' \in DB /\ KeysAgree(txn')
    BY <1>1, <1>3, <1>4, <1>5, DebitKeepsDB DEF CanPay, Debited
  <1>7. Now' = Now /\ Forging' = Forging
    BY DEF Now, Forging
  <1>8. TxnInv'
    BY <1>4, <1>5, <1>7 DEF TxnInv, CanPay, AfterSender, Debited
  <1> QED
    BY <1>6, <1>8 DEF KeysAgree

LEMMA SkipSenderInv ==
    ASSUME IInv, SkipSender
    PROVE  IInv'
  <1>1. Now' = Now /\ (Forging <=> Forging')
    BY DEF SkipSender, Now, Forging
  <1> QED
    BY <1>1 DEF IInv, TypeOK, KeysAgree, TxnInv, SkipSender, AfterSender

LEMMA ReceiveInv ==
    ASSUME IInv, Receive
    PROVE  IInv'
  <1> USE DEF IInv, TypeOK, Receive
  <1>1. Now.to \in Id /\ Now.amount \in Nat
    BY HeadAndTail DEF Transaction
  <1>2. txn' \in DB /\ KeysAgree(txn')
    BY <1>1, CreditKeepsDB
  <1>3. Now' = Now /\ Forging' = Forging
    BY DEF Now, Forging
  <1>4. TxnInv'
    BY <1>3 DEF TxnInv, CanPay, AfterSender, Debited
  <1> QED
    BY <1>2, <1>4 DEF KeysAgree

LEMMA CommitInv ==
    ASSUME IInv, Commit
    PROVE  IInv'
  <1> USE DEF IInv, TypeOK, Commit
  <1>1. todo' \in Seq(Transfer)
    BY HeadAndTail
  <1>2. txn' = txn /\ db' = txn
    OBVIOUS
  <1>3. KeysAgree(db)' /\ KeysAgree(txn)'
    BY <1>2 DEF KeysAgree
  <1>4. TxnInv'
    BY <1>2 DEF TxnInv
  <1> QED
    BY <1>1, <1>2, <1>3, <1>4

\* Every action keeps the invariant.
LEMMA StepInv == IInv /\ [Next]_vars => IInv'
<1> SUFFICES ASSUME IInv, [Next]_vars PROVE IInv'
  OBVIOUS
<1>1. CASE SendFails \/ Crash
  BY <1>1, DieInv DEF SendFails, Crash
<1>2. CASE Restart
  BY <1>2 DEF Restart, IInv, TypeOK, KeysAgree, TxnInv
<1>3. CASE UNCHANGED vars
  BY <1>3 DEF vars, IInv, TypeOK, KeysAgree, TxnInv, CanPay, AfterSender, Debited, Now, Forging
<1> QED
  BY <1>1, <1>2, <1>3, ExecuteInv, SendFromInv, SkipSenderInv, ReceiveInv, CommitInv DEF Next

LEMMA Invariant == Spec => []IInv
<1> QED
  BY InitInv, StepInv, PTL DEF Spec

\* The database, also the part of it that is not committed yet, is always a map
\* of accounts and an index, and no balance is ever negative.
THEOREM TypeCorrect == Spec => []TypeOK
<1>1. IInv => TypeOK
  BY DEF IInv
<1> QED
  BY Invariant, <1>1, PTL

\* A public key leads to the account it is the key of, and to no other, whatever
\* was undone and wherever a block was cut off.
THEOREM KeysAlwaysIndexed == Spec => []KeysIndexed
<1>1. IInv => KeysIndexed
  BY DEF IInv, KeysIndexed
<1> QED
  BY Invariant, <1>1, PTL

-----------------------------------------------------------------------------
\* The balances of the ledger, as the bank sees them.
Balances == [a \in Id |-> BalanceOf(db, a)]

\* A commit of a forged transfer forges; a commit of another one is a payment.
LEMMA CommitPays ==
    ASSUME IInv, Commit
    PROVE  B!Next
  <1> USE DEF IInv, TypeOK, Commit
  <1> DEFINE b == Now.to
  <1>1. Now \in Transfer /\ b \in Id /\ Now.amount \in Nat
    BY HeadAndTail DEF Transaction
  <1>2. db' = Credit(AfterSender, b, Now.amount)
    BY DEF TxnInv
  <1>3. CASE Forging
    <2>1. db' = Credit(db, b, Now.amount)
      BY <1>2, <1>3 DEF AfterSender
    <2>2. /\ BalanceOf(db', b) = BalanceOf(db, b) + Now.amount
          /\ \A a \in Id \ {b} : BalanceOf(db', a) = BalanceOf(db, a)
      BY <1>1, <2>1, CreditBalances
    <2>3. BalanceOf(db, b) \in Nat
      BY <1>1, AccountFacts DEF BalanceOf, Account
    <2>4. B!Forge(b)
      BY <1>1, <2>2, <2>3, SMTT(20) DEF B!Forge
    <2> QED
      BY <1>1, <2>4 DEF B!Next
  <1>4. CASE ~Forging
    <2> DEFINE k == Now.key
               o == IdOf[k]
               x == Now.amount
               f == Now.fee
               d == Debited(Now)
    <2>1. k \in Key /\ x \in Amount /\ f \in Fee /\ x \in Nat /\ f \in Nat /\ o \in Id
      BY <1>1, <1>4, HeadAndTail, KeysAssumption, NumbersAssumption DEF Transaction
    <2>2. Exists(db, o) /\ db.accounts[o].balance >= x + f
      BY <1>4 DEF TxnInv, CanPay
    <2>3. /\ d \in DB /\ KeysAgree(d) /\ Exists(d, o)
          /\ d.accounts[o].balance = db.accounts[o].balance - (x + f)
          /\ \A a \in Id \ {o} : d.accounts[a] = db.accounts[a]
      BY <2>1, <2>2, DebitKeepsDB, SMTT(20) DEF Debited
    <2>4. /\ BalanceOf(d, o) = BalanceOf(db, o) - (x + f)
          /\ \A a \in Id \ {o} : BalanceOf(d, a) = BalanceOf(db, a)
      BY <2>2, <2>3 DEF BalanceOf, Exists
    <2>5. db' = Credit(d, b, x)
      BY <1>2, <1>4 DEF AfterSender
    <2>6. /\ BalanceOf(db', b) = BalanceOf(d, b) + x
          /\ \A a \in Id \ {b} : BalanceOf(db', a) = BalanceOf(d, a)
      BY <1>1, <2>1, <2>3, <2>5, CreditBalances
    <2>7. BalanceOf(db, o) >= x + f
      BY <2>2 DEF BalanceOf
    <2>8. B!Pay(k, b, x, f)
      BY <1>1, <2>1, <2>4, <2>6, <2>7 DEF B!Pay
    <2> QED
      BY <1>1, <2>1, <2>8 DEF B!Next
  <1> QED
    BY <1>3, <1>4

\* The ledger implements the bank: a transfer is one whole step of it, made by
\* the owner of the key out of what he has, or no step at all.
THEOREM LedgerImplementsBank == Spec => ImplementsBank
<1>1. Init => B!Init
  BY DEF Init, B!Init, BalanceOf, Exists
<1>2. IInv /\ [Next]_vars => [B!Next]_Balances
  <2> SUFFICES ASSUME IInv, [Next]_vars PROVE B!Next \/ UNCHANGED Balances
    OBVIOUS
  <2>1. CASE Commit
    BY <2>1, CommitPays
  <2>2. CASE db' = db
    BY <2>2 DEF Balances, BalanceOf, Exists
  <2> QED
    BY <2>1, <2>2 DEF Next, vars, Execute, SendFrom, SkipSender, SendFails, Die, Receive,
       Crash, Restart
<1> QED
  BY <1>1, <1>2, Invariant, PTL DEF Spec, ImplementsBank, B!Spec, Balances

-----------------------------------------------------------------------------
(* The sum of the balances. *)

TotalOf(d) == MapThenSumSet(LAMBDA a : BalanceOf(d, a), Id)

BalancesOf(d) == [a \in Id |-> BalanceOf(d, a)]

\* Besides the sum itself: a forged transfer comes first in its block only.
MoneyInv ==
    /\ TotalOf(db) = rewards + Owed + lost
    /\ rewards \in Int /\ lost \in Int
    /\ todo # <<>> => Tail(todo) \in Seq(Transaction)

LEMMA TotalIsSum ==
    ASSUME NEW d \in DB
    PROVE  /\ Summable(BalancesOf(d), Id)
           /\ TotalOf(d) = Sum(BalancesOf(d), Id)
  <1> DEFINE v == BalancesOf(d)
             Sums(it) == it = [t \in SUBSET Id |->
                           IF t = {} THEN 0
                           ELSE BalanceOf(d, CHOOSE x \in t : TRUE) + it[t \ {CHOOSE x \in t : TRUE}]]
             f == CHOOSE it : Sums(it)
  <1>1. TotalOf(d) = f[Id]
    BY DEF TotalOf, MapThenSumSet, MapThenFoldSet
  <1>2. ASSUME NEW it PROVE Sums(it) <=> IsSum(it, v, Id)
    <2>1. \A t \in SUBSET Id : t # {} => Pick(t) \in Id /\ v[Pick(t)] = BalanceOf(d, Pick(t))
      BY PickIn DEF BalancesOf
    <2> HIDE DEF v
    <2> QED
      BY <2>1 DEF IsSum, Pick
  <1>3. Summable(v, Id)
    <2>1. \A a \in Id : BalanceOf(d, a) \in Int
      BY AccountFacts DEF BalanceOf, Account
    <2> QED
      BY <2>1, KeysAssumption DEF Summable, BalancesOf
  <1> HIDE DEF Sums, v
  <1>4. IsSum(f, v, Id)
    <2>1. \E it : IsSum(it, v, Id)
      BY <1>3, SumExists
    <2>2. Sums(f)
      BY <1>2, <2>1
    <2> QED
      BY <1>2, <2>2
  <1> HIDE DEF f
  <1> QED
    BY <1>1, <1>3, <1>4, SumUnique DEF v

\* A credit raises the sum by its amount, whoever gets it.
LEMMA CreditAdds ==
    ASSUME NEW d \in DB, KeysAgree(d), NEW b \in Id, NEW x \in Nat
    PROVE  TotalOf(Credit(d, b, x)) = TotalOf(d) + x
  <1> DEFINE e == Credit(d, b, x)
             v == BalancesOf(d)
             w == BalancesOf(e)
  <1>1. /\ e \in DB /\ BalanceOf(e, b) = BalanceOf(d, b) + x
        /\ \A a \in Id \ {b} : BalanceOf(e, a) = BalanceOf(d, a)
    BY CreditKeepsDB, CreditBalances
  <1> HIDE DEF e
  <1>2. w[b] = v[b] + x /\ \A a \in Id \ {b} : v[a] = w[a]
    BY <1>1 DEF BalancesOf
  <1>3. /\ Summable(v, Id) /\ Summable(w, Id)
        /\ TotalOf(d) = Sum(v, Id) /\ TotalOf(e) = Sum(w, Id)
    BY <1>1, TotalIsSum
  <1> HIDE DEF v, w
  <1>4. Sum(w, Id) = Sum(v, Id) + w[b] - v[b]
    BY <1>2, <1>3, SumChanged
  <1>5. v[b] \in Int /\ Sum(v, Id) \in Int
    BY <1>3, SumType DEF Summable
  <1>6. TotalOf(e) = TotalOf(d) + x
    BY <1>2, <1>3, <1>4, <1>5
  <1> QED
    BY <1>6 DEF e

\* A debit lowers it by as much as the sender pays.
LEMMA DebitTakes ==
    ASSUME NEW d \in DB, KeysAgree(d), NEW k \in Key, NEW x \in Nat,
           Exists(d, IdOf[k]), d.accounts[IdOf[k]].balance >= x
    PROVE  TotalOf(Debit(Activate(d, k), IdOf[k], x)) = TotalOf(d) - x
  <1> DEFINE o == IdOf[k]
             e == Debit(Activate(d, k), o, x)
             v == BalancesOf(d)
             w == BalancesOf(e)
  <1>1. /\ e \in DB /\ Exists(e, o)
        /\ e.accounts[o].balance = d.accounts[o].balance - x
        /\ \A a \in Id \ {o} : e.accounts[a] = d.accounts[a]
    BY DebitKeepsDB
  <1>2. o \in Id
    BY KeysAssumption
  <1> HIDE DEF e, o
  <1>3. /\ BalanceOf(e, o) = BalanceOf(d, o) - x
        /\ \A a \in Id \ {o} : BalanceOf(e, a) = BalanceOf(d, a)
    BY <1>1 DEF BalanceOf, Exists, o
  <1>4. w[o] = v[o] - x /\ \A a \in Id \ {o} : v[a] = w[a]
    BY <1>2, <1>3 DEF BalancesOf
  <1>5. /\ Summable(v, Id) /\ Summable(w, Id)
        /\ TotalOf(d) = Sum(v, Id) /\ TotalOf(e) = Sum(w, Id)
    BY <1>1, TotalIsSum
  <1> HIDE DEF v, w
  <1>6. Sum(w, Id) = Sum(v, Id) + w[o] - v[o]
    BY <1>2, <1>4, <1>5, SumChanged
  <1>7. v[o] \in Int /\ Sum(v, Id) \in Int
    BY <1>2, <1>5, SumType DEF Summable
  <1>8. TotalOf(e) = TotalOf(d) - x
    BY <1>4, <1>5, <1>6, <1>7
  <1> QED
    BY <1>8 DEF e, o

LEMMA MoneyInit == Init => MoneyInv
  <1> SUFFICES ASSUME Init PROVE MoneyInv
    OBVIOUS
  <1>1. IInv /\ db \in DB
    BY InitInv DEF IInv, TypeOK
  <1> DEFINE v == BalancesOf(db)
  <1>2. TotalOf(db) = Sum(v, Id) /\ Summable(v, Id) /\ \A a \in Id : v[a] = 0
    BY <1>1, TotalIsSum DEF Init, BalancesOf, BalanceOf, Exists
  <1> HIDE DEF v
  <1>3. Sum(v, Id) = 0
    BY <1>2, SumZero DEF Summable
  <1> QED
    BY <1>2, <1>3 DEF Init, MoneyInv, Owed

\* The debt to the senders of a block is what is left of its fees.
LEMMA OwedFacts ==
    ASSUME IInv, MoneyInv
    PROVE  /\ Owed \in Int
           /\ todo = <<>> => Owed = 0
           /\ todo # <<>> => /\ Tail(todo) \in Seq(Transfer) /\ Fees(Tail(todo)) \in Int
                             /\ Forging => Owed = 0
                             /\ ~Forging => Owed = Now.fee + Fees(Tail(todo))
  <1>1. todo \in Seq(Transfer)
    BY DEF IInv, TypeOK
  <1>2. Fees(todo) \in Nat
    BY <1>1, FeesType
  <1>3. todo # <<>> => /\ Tail(todo) \in Seq(Transfer)
                       /\ Fees(todo) = Now.fee + Fees(Tail(todo))
    BY <1>1, HeadAndTail, FeesShift DEF Now
  <1>4. todo # <<>> => Fees(Tail(todo)) \in Int
    <2> DEFINE rest == Tail(todo)
    <2>1. todo # <<>> => rest \in Seq(Transfer)
      BY <1>3
    <2> HIDE DEF rest
    <2>2. rest \in Seq(Transfer) => Fees(rest) \in Int
      BY FeesType
    <2> QED
      BY <2>1, <2>2 DEF rest
  <1> QED
    BY <1>2, <1>3, <1>4 DEF Owed

\* What a list of transactions is owed when its turn comes.
LEMMA OwedOf ==
    ASSUME NEW s \in Seq(Transaction)
    PROVE  Fees(<<>>) = 0 /\ (s # <<>> => Head(s).key # NoKey /\ Tail(s) \in Seq(Transaction))
  <1>1. Fees(<<>>) = Sum(FeeAt(<<>>), DOMAIN <<>>)
    BY FS_EmptySet, FeesIsSum
  <1>2. DOMAIN <<>> = {}
    OBVIOUS
  <1>3. s # <<>> => Head(s) \in Transaction /\ Tail(s) \in Seq(Transaction)
    <2> HIDE DEF Transaction
    <2> QED
      OBVIOUS
  <1> QED
    BY <1>1, <1>2, <1>3, SumEmpty, KeysAssumption DEF Transaction

LEMMA CommitMoney ==
    ASSUME IInv, MoneyInv, Commit
    PROVE  MoneyInv'
  <1> DEFINE rest == Tail(todo)
             x == Now.amount
             f == Now.fee
  <1>1. /\ db \in DB /\ KeysAgree(db) /\ todo \in Seq(Transfer) /\ todo # <<>>
        /\ db' = txn /\ todo' = rest /\ lost' = lost /\ pc = "commit"
        /\ rewards' = IF Forging THEN rewards + x - Fees(rest) ELSE rewards
    BY DEF IInv, TypeOK, Commit
  <1>2. /\ Now.to \in Id /\ x \in Nat /\ rest \in Seq(Transaction)
        /\ ~Forging => Now \in Transaction /\ f \in Nat
    BY <1>1, HeadAndTail DEF Transaction, MoneyInv
  <1>3. db' = Credit(AfterSender, Now.to, x)
    BY <1>1 DEF IInv, TxnInv
  <1>4. /\ Fees(rest) \in Int /\ Owed \in Int /\ (Forging => Owed = 0)
        /\ ~Forging => Owed = f + Fees(rest)
    BY <1>1, OwedFacts
  <1>5. Owed' = Fees(rest) /\ (rest # <<>> => Tail(rest) \in Seq(Transaction))
    <2>1. Fees(<<>>) = 0 /\ (rest # <<>> => Head(rest).key # NoKey /\ Tail(rest) \in Seq(Transaction))
      BY <1>2, OwedOf
    <2>2. Owed' = IF rest = <<>> \/ Head(rest).key = NoKey THEN 0 ELSE Fees(rest)
      BY <1>1 DEF Owed, Forging, Now
    <2> HIDE DEF rest
    <2> QED
      BY <2>1, <2>2
  <1>6. TotalOf(db) = rewards + Owed + lost /\ rewards \in Int /\ lost \in Int
    BY DEF MoneyInv
  <1>7. TotalOf(db') = rewards' + Fees(rest) + lost' /\ rewards' \in Int
    <2>1. CASE Forging
      <3>1. TotalOf(db') = TotalOf(db) + x
        BY <1>1, <1>2, <1>3, <2>1, CreditAdds DEF AfterSender
      <3>2. rewards' = rewards + x - Fees(rest)
        BY <1>1, <2>1
      <3> HIDE DEF rest, x
      <3> QED
        BY <1>1, <1>2, <1>4, <1>6, <2>1, <3>1, <3>2
    <2>2. CASE ~Forging
      <3> DEFINE k == Now.key
                 d == Debited(Now)
      <3>1. k \in Key /\ x + f \in Nat /\ Exists(db, IdOf[k]) /\ db.accounts[IdOf[k]].balance >= x + f
        BY <1>1, <1>2, <2>2 DEF Transaction, IInv, TxnInv, CanPay
      <3>2. d \in DB /\ KeysAgree(d) /\ TotalOf(d) = TotalOf(db) - (x + f)
        BY <1>1, <3>1, DebitKeepsDB, DebitTakes DEF Debited
      <3>3. db' = Credit(d, Now.to, x)
        BY <1>3, <2>2 DEF AfterSender
      <3> HIDE DEF d
      <3>4. TotalOf(db') = TotalOf(d) + x
        BY <1>2, <3>2, <3>3, CreditAdds
      <3>5. rewards' = rewards
        BY <1>1, <2>2
      <3> HIDE DEF rest, x, f
      <3> QED
        BY <1>1, <1>2, <1>4, <1>6, <2>2, <3>2, <3>4, <3>5, SMTT(20)
    <2> QED
      BY <2>1, <2>2
  <1> QED
    BY <1>1, <1>5, <1>6, <1>7 DEF MoneyInv

LEMMA ExecuteMoney ==
    ASSUME IInv, MoneyInv, NEW k \in Key, NEW len \in 0 .. MaxTx,
           NEW txs \in [1 .. len -> Transaction], Execute(k, txs)
    PROVE  MoneyInv'
  <1>1. /\ db' = db /\ rewards' = rewards /\ lost' = lost /\ todo = <<>>
        /\ \/ todo' = <<>>
           \/ todo' = <<ForgeTransfer(k, BlockReward(height, txs))>> \o txs
    BY DEF Execute, IInv, TypeOK
  <1>2. Owed = 0
    BY <1>1 DEF Owed
  <1>3. Owed' = 0 /\ (todo' # <<>> => Tail(todo') \in Seq(Transaction))
    <2>1. CASE todo' = <<>>
      BY <2>1 DEF Owed
    <2>2. CASE todo' = <<ForgeTransfer(k, BlockReward(height, txs))>> \o txs
      <3> DEFINE f == ForgeTransfer(k, BlockReward(height, txs))
      <3>1. f.key = NoKey
        BY DEF ForgeTransfer
      <3>2. txs \in Seq(Transaction)
        BY NumbersAssumption
      <3> HIDE DEF f, Transaction
      <3>3. Head(<<f>> \o txs) = f /\ Tail(<<f>> \o txs) = txs
        BY <3>2
      <3> QED
        BY <2>2, <3>1, <3>2, <3>3 DEF Owed, Forging, Now, f
    <2> QED
      BY <1>1, <2>1, <2>2
  <1> QED
    BY <1>1, <1>2, <1>3 DEF MoneyInv

LEMMA DieMoney ==
    ASSUME IInv, MoneyInv, Die
    PROVE  MoneyInv'
  <1>1. Owed \in Int /\ todo' = <<>> /\ db' = db /\ rewards' = rewards /\ lost' = lost + Owed
    BY OwedFacts DEF Die
  <1>2. Owed' = 0
    BY <1>1 DEF Owed
  <1> QED
    BY <1>1, <1>2 DEF MoneyInv

LEMMA MoneyStep == IInv /\ MoneyInv /\ [Next]_vars => MoneyInv'
  <1> SUFFICES ASSUME IInv, MoneyInv, [Next]_vars PROVE MoneyInv'
    OBVIOUS
  <1>1. CASE UNCHANGED <<db, todo, rewards, lost>>
    BY <1>1 DEF MoneyInv, Owed, Forging, Now
  <1>2. CASE SendFrom \/ SkipSender \/ Receive \/ Restart \/ UNCHANGED vars
    BY <1>1, <1>2 DEF SendFrom, SkipSender, Receive, Restart, vars
  <1>3. CASE SendFails \/ Crash
    BY <1>3, DieMoney DEF SendFails, Crash
  <1> QED
    BY <1>2, <1>3, ExecuteMoney, CommitMoney DEF Next

\* Whatever a block moves, whoever pays whom, and wherever it is cut off: the
\* balances are what was forged, and the fees the forger has before their time.
THEOREM MoneyAlwaysConserved == Spec => []MoneyConserved
  <1>1. MoneyInv => MoneyConserved
    BY DEF MoneyInv, MoneyConserved, Total, TotalOf
  <1>2. Spec => []MoneyInv
    BY MoneyInit, MoneyStep, Invariant, PTL DEF Spec
  <1> QED
    BY <1>1, <1>2, PTL

-----------------------------------------------------------------------------
(* The bytes of a transaction: how many a sequence of calls takes. *)

IsSequence(s) == \E S : s \in Seq(S)
IsCall(o, len) == Width(o, len) \in Nat /\ o.op # "limit"
AreCalls(s, len) == IsSequence(s) /\ \A k \in 1..Len(s) : IsCall(s[k], len)

LEMMA SequenceFacts ==
    /\ \A s : IsSequence(s) => Len(s) \in Nat /\ DOMAIN s = 1..Len(s)
    /\ \A s, u : IsSequence(s) /\ IsSequence(u) =>
          /\ IsSequence(s \o u) /\ Len(s \o u) = Len(s) + Len(u)
          /\ \A k \in 1..Len(s) : (s \o u)[k] = s[k]
          /\ \A k \in 1..Len(u) : (s \o u)[Len(s) + k] = u[k]
  <1>1. \A s : IsSequence(s) => Len(s) \in Nat /\ DOMAIN s = 1..Len(s)
    BY DEF IsSequence
  <1>2. ASSUME NEW s, NEW u, IsSequence(s), IsSequence(u)
        PROVE  /\ IsSequence(s \o u) /\ Len(s \o u) = Len(s) + Len(u)
               /\ \A k \in 1..Len(s) : (s \o u)[k] = s[k]
               /\ \A k \in 1..Len(u) : (s \o u)[Len(s) + k] = u[k]
    <2>1. PICK S : s \in Seq(S)
      BY <1>2 DEF IsSequence
    <2>2. PICK T : u \in Seq(T)
      BY <1>2 DEF IsSequence
    <2> DEFINE U == S \cup T
    <2>3. s \in Seq(U) /\ u \in Seq(U)
      BY <2>1, <2>2
    <2> HIDE DEF U
    <2>4. s \o u \in Seq(U)
      BY <2>3
    <2> QED
      BY <2>3, <2>4 DEF IsSequence
  <1> QED
    BY <1>1, <1>2

\* Bytes that the first k calls of s fill.
Filled(s, len, k) == Sum([j \in 1..Len(s) |-> Width(s[j], len)], 1..k)
Bytes(s, len) == Filled(s, len, Len(s))

LEMMA FilledFacts ==
    ASSUME NEW len, NEW s, AreCalls(s, len)
    PROVE  /\ Filled(s, len, 0) = 0
           /\ \A k \in 0..Len(s) : Filled(s, len, k) \in Nat
           /\ \A k \in 1..Len(s) : /\ Width(s[k], len) \in Nat
                                   /\ Filled(s, len, k) = Filled(s, len, k - 1) + Width(s[k], len)
  <1> DEFINE v == [j \in 1..Len(s) |-> Width(s[j], len)]
  <1>1. Len(s) \in Nat /\ \A j \in 1..Len(s) : Width(s[j], len) \in Nat
    BY SequenceFacts DEF AreCalls, IsCall
  <1>2. \A j \in 1..Len(s) : v[j] \in Nat /\ v[j] = Width(s[j], len)
    BY <1>1
  <1>3. \A k : Filled(s, len, k) = Sum(v, 1..k)
    BY DEF Filled
  <1> HIDE DEF v
  <1>4. \A k \in 0..Len(s) : IsFiniteSet(1..k) /\ \A x \in 1..k : v[x] \in Nat
    BY <1>1, <1>2, FS_Interval
  <1>5. Filled(s, len, 0) = 0
    <2>1. 1..0 = {}
      OBVIOUS
    <2> QED
      BY <1>3, <2>1, SumEmpty
  <1>6. \A k \in 0..Len(s) : Filled(s, len, k) \in Nat
    BY <1>3, <1>4, SumNat
  <1>7. ASSUME NEW k \in 1..Len(s)
        PROVE  Filled(s, len, k) = Filled(s, len, k - 1) + Width(s[k], len)
    <2>1. Summable(v, 1..k) /\ k \in 1..k
      BY <1>1, <1>4 DEF Summable
    <2>2. Sum(v, 1..k) = v[k] + Sum(v, (1..k) \ {k})
      BY <2>1, SumRemove
    <2>3. (1..k) \ {k} = 1..(k - 1)
      BY <1>1
    <2>4. Filled(s, len, k) = v[k] + Filled(s, len, k - 1)
      BY <1>3, <2>2, <2>3
    <2>5. v[k] = Width(s[k], len) /\ v[k] \in Nat /\ Filled(s, len, k - 1) \in Nat
      BY <1>1, <1>2, <1>6
    <2> QED
      BY <2>4, <2>5
  <1> QED
    BY <1>2, <1>5, <1>6, <1>7

\* The cursor never goes back.
LEMMA FilledGrows ==
    ASSUME NEW len, NEW s, AreCalls(s, len), NEW k \in 0..Len(s), NEW m \in k..Len(s)
    PROVE  Filled(s, len, k) <= Filled(s, len, m)
  <1> DEFINE P(d) == k + d <= Len(s) => Filled(s, len, k) <= Filled(s, len, k + d)
             S == {d \in Nat : P(d)}
  <1>1. Len(s) \in Nat /\ k \in Nat /\ Filled(s, len, k) \in Nat
    <2>1. Filled(s, len, k) \in Nat
      BY FilledFacts
    <2> QED
      BY <2>1, SequenceFacts DEF AreCalls
  <1>2. P(0)
    BY <1>1
  <1>3. ASSUME NEW d \in Nat, P(d) PROVE P(d + 1)
    <2> SUFFICES ASSUME k + (d + 1) <= Len(s)
                 PROVE  Filled(s, len, k) <= Filled(s, len, k + (d + 1))
      OBVIOUS
    <2> DEFINE n == k + (d + 1)
    <2>1. n \in 1..Len(s) /\ n - 1 = k + d /\ n - 1 \in 0..Len(s) /\ k + d <= Len(s)
      BY <1>1
    <2>2. /\ Filled(s, len, n) = Filled(s, len, n - 1) + Width(s[n], len)
          /\ Width(s[n], len) \in Nat /\ Filled(s, len, n - 1) \in Nat
      BY <2>1, FilledFacts
    <2>3. Filled(s, len, k) <= Filled(s, len, n - 1)
      BY <1>3, <2>1
    <2> HIDE DEF n
    <2>4. Filled(s, len, k) <= Filled(s, len, n)
      BY <1>1, <2>2, <2>3
    <2> QED
      BY <2>4 DEF n
  <1>4. \A d \in Nat : d \in S
    <2>1. 0 \in S /\ \A d \in Nat : d \in S => d + 1 \in S
      <3> HIDE DEF P
      <3> QED
        BY <1>2, <1>3
    <2> HIDE DEF S
    <2> QED
      BY <2>1, SetInduction
  <1>5. m - k \in Nat /\ k + (m - k) = m /\ m <= Len(s)
    BY <1>1
  <1>6. P(m - k)
    BY <1>4, <1>5
  <1> QED
    BY <1>5, <1>6

LEMMA FilledConcat ==
    ASSUME NEW len, NEW s, AreCalls(s, len), NEW u, AreCalls(u, len)
    PROVE  /\ AreCalls(s \o u, len)
           /\ \A k \in 0..Len(s) : Filled(s \o u, len, k) = Filled(s, len, k)
           /\ Bytes(s \o u, len) = Bytes(s, len) + Bytes(u, len)
  <1> DEFINE su == s \o u
             P(k) == k <= Len(s) => Filled(su, len, k) = Filled(s, len, k)
             Q(k) == k <= Len(u) => Filled(su, len, Len(s) + k) = Bytes(s, len) + Filled(u, len, k)
             S == {k \in Nat : P(k)}
             T == {k \in Nat : Q(k)}
  <1>1. /\ Len(s) \in Nat /\ Len(u) \in Nat
        /\ IsSequence(su) /\ Len(su) = Len(s) + Len(u)
        /\ \A k \in 1..Len(s) : su[k] = s[k]
        /\ \A k \in 1..Len(u) : su[Len(s) + k] = u[k]
    BY SequenceFacts DEF AreCalls
  <1>0. AreCalls(su, len)
    <2> SUFFICES ASSUME NEW k \in 1..Len(su) PROVE IsCall(su[k], len)
      BY <1>1 DEF AreCalls
    <2>1. CASE k \in 1..Len(s)
      BY <1>1, <2>1 DEF AreCalls
    <2>2. CASE k \notin 1..Len(s)
      <3> DEFINE j == k - Len(s)
      <3>1. j \in 1..Len(u) /\ Len(s) + j = k
        BY <1>1, <2>2
      <3>2. su[k] = u[j]
        BY <1>1, <3>1
      <3> HIDE DEF j
      <3> QED
        BY <3>1, <3>2 DEF AreCalls
    <2> QED
      BY <2>1, <2>2
  <1> HIDE DEF su
  <1>2. P(0)
    BY <1>1, <1>0, FilledFacts
  <1>3. ASSUME NEW k \in Nat, P(k) PROVE P(k + 1)
    <2> SUFFICES ASSUME k + 1 <= Len(s) PROVE Filled(su, len, k + 1) = Filled(s, len, k + 1)
      OBVIOUS
    <2> DEFINE n == k + 1
    <2>1. n \in 1..Len(s) /\ n \in 1..Len(su) /\ n - 1 = k /\ k <= Len(s)
      BY <1>1
    <2>2. su[n] = s[n]
      BY <1>1, <2>1
    <2>3. Filled(su, len, n) = Filled(su, len, n - 1) + Width(su[n], len)
      BY <1>1, <1>0, <2>1, FilledFacts
    <2>4. Filled(s, len, n) = Filled(s, len, n - 1) + Width(s[n], len)
      BY <2>1, FilledFacts
    <2>5. Filled(su, len, n - 1) = Filled(s, len, n - 1)
      BY <1>3, <2>1
    <2> HIDE DEF n
    <2>6. Filled(su, len, n) = Filled(s, len, n)
      BY <2>2, <2>3, <2>4, <2>5
    <2> QED
      BY <2>6 DEF n
  <1>4. \A k \in Nat : P(k)
    <2>1. 0 \in S /\ \A k \in Nat : k \in S => k + 1 \in S
      <3> HIDE DEF P
      <3> QED
        BY <1>2, <1>3
    <2>2. \A k \in Nat : k \in S
      <3> HIDE DEF S
      <3> QED
        BY <2>1, SetInduction
    <2> HIDE DEF P
    <2> QED
      BY <2>2
  <1>5. Q(0)
    <2>1. Len(s) + 0 = Len(s) /\ Filled(su, len, Len(s)) = Bytes(s, len)
      BY <1>1, <1>4 DEF Bytes
    <2>2. Bytes(s, len) \in Nat /\ Filled(u, len, 0) = 0
      BY <1>1, <1>0, FilledFacts DEF Bytes
    <2> QED
      BY <2>1, <2>2
  <1>6. ASSUME NEW k \in Nat, Q(k) PROVE Q(k + 1)
    <2> SUFFICES ASSUME k + 1 <= Len(u)
                 PROVE  Filled(su, len, Len(s) + (k + 1)) = Bytes(s, len) + Filled(u, len, k + 1)
      OBVIOUS
    <2> DEFINE n == k + 1
               m == Len(s) + n
    <2>1. n \in 1..Len(u) /\ m \in 1..Len(su) /\ n - 1 = k /\ m - 1 = Len(s) + k /\ k <= Len(u)
          /\ n - 1 \in 0..Len(u)
      BY <1>1
    <2>2. su[m] = u[n]
      BY <1>1, <2>1
    <2>3. Filled(su, len, m) = Filled(su, len, m - 1) + Width(su[m], len)
      BY <1>1, <1>0, <2>1, FilledFacts
    <2>4. /\ Filled(u, len, n) = Filled(u, len, n - 1) + Width(u[n], len)
          /\ Filled(u, len, n - 1) \in Nat /\ Width(u[n], len) \in Nat
      BY <2>1, FilledFacts
    <2>5. Filled(su, len, m - 1) = Bytes(s, len) + Filled(u, len, n - 1)
      BY <1>6, <2>1
    <2>6. Bytes(s, len) \in Nat
      BY <1>1, <1>0, FilledFacts DEF Bytes
    <2> HIDE DEF n, m
    <2>7. Filled(su, len, m) = Bytes(s, len) + Filled(u, len, n)
      BY <2>2, <2>3, <2>4, <2>5, <2>6
    <2> QED
      BY <2>7 DEF n, m
  <1>7. \A k \in Nat : Q(k)
    <2>1. 0 \in T /\ \A k \in Nat : k \in T => k + 1 \in T
      <3> HIDE DEF Q
      <3> QED
        BY <1>5, <1>6
    <2>2. \A k \in Nat : k \in T
      <3> HIDE DEF T
      <3> QED
        BY <2>1, SetInduction
    <2> HIDE DEF Q
    <2> QED
      BY <2>2
  <1>8. Bytes(su, len) = Bytes(s, len) + Bytes(u, len)
    BY <1>1, <1>7 DEF Bytes
  <1> QED
    BY <1>0, <1>4, <1>8 DEF su

\* A call of a field that is not the signature, and what a sequence of them fills.
Plain(o, len) == IsCall(o, len) /\ o.f # "signature"
Measured(s, len, n) == /\ AreCalls(s, len) /\ \A k \in 1..Len(s) : s[k].f # "signature"
                       /\ n \in Nat /\ Bytes(s, len) = n

LEMMA CallFacts ==
    ASSUME NEW len, NEW w \in Nat, NEW f
    PROVE  /\ Width(Num(w, f), len) = w /\ Num(w, f).f = f
           /\ Width(Raw(w, f), len) = w /\ Raw(w, f).f = f
           /\ Width(Count(w, f), len) = w /\ Count(w, f).f = f
           /\ Width(Body(w, f), len) = w * len[f] /\ Body(w, f).f = f
           /\ len[f] \in Nat => w * len[f] \in Nat
           /\ \A o \in {Num(w, f), Raw(w, f), Count(w, f), Body(w, f)} : o.op # "limit"
  <1>1. Width(Num(w, f), len) = w /\ Width(Raw(w, f), len) = w /\ Width(Count(w, f), len) = w
    BY DEF Width, Num, Raw, Count
  <1>2. Width(Body(w, f), len) = w * len[f]
    BY DEF Width, Body
  <1>3. Num(w, f).f = f /\ Raw(w, f).f = f /\ Count(w, f).f = f /\ Body(w, f).f = f
    BY DEF Num, Raw, Count, Body
  <1>4. len[f] \in Nat => w * len[f] \in Nat
    OBVIOUS
  <1>5. \A o \in {Num(w, f), Raw(w, f), Count(w, f), Body(w, f)} : o.op # "limit"
    BY DEF Num, Raw, Count, Body
  <1> QED
    BY <1>1, <1>2, <1>3, <1>4, <1>5

LEMMA PlainFacts ==
    ASSUME NEW len, NEW w \in Nat, NEW f, f # "signature"
    PROVE  /\ Plain(Num(w, f), len) /\ Width(Num(w, f), len) = w
           /\ Plain(Raw(w, f), len) /\ Width(Raw(w, f), len) = w
           /\ Plain(Count(w, f), len) /\ Width(Count(w, f), len) = w
           /\ len[f] \in Nat => Plain(Body(w, f), len) /\ Width(Body(w, f), len) = w * len[f]
  BY CallFacts DEF Plain, IsCall

LEMMA PagedFacts ==
    ASSUME NEW len, NEW p, NEW f, f # "signature"
    PROVE  /\ PageWidth(len[p]) \in Nat
           /\ Plain(Paged(p, f), len) /\ Width(Paged(p, f), len) = PageWidth(len[p])
  <1>1. PageWidth(len[p]) \in Nat
    BY DEF PageWidth
  <1>2. Width(Paged(p, f), len) = PageWidth(len[p])
    BY DEF Width, Paged
  <1>3. Paged(p, f).f = f /\ Paged(p, f).op # "limit"
    BY DEF Paged
  <1> QED
    BY <1>1, <1>2, <1>3 DEF Plain, IsCall

\* Calls one after the other.
LEMMA MeasuredNone == ASSUME NEW len PROVE Measured(<<>>, len, 0)
  <1>1. IsSequence(<<>>) /\ Len(<<>>) = 0
    BY DEF IsSequence
  <1>2. AreCalls(<<>>, len)
    BY <1>1 DEF AreCalls
  <1>3. Bytes(<<>>, len) = 0
    BY <1>1, <1>2, FilledFacts DEF Bytes
  <1> QED
    BY <1>1, <1>2, <1>3 DEF Measured

LEMMA MeasuredConcat ==
    ASSUME NEW len, NEW s, NEW u, NEW m, NEW n, Measured(s, len, m), Measured(u, len, n)
    PROVE  Measured(s \o u, len, m + n)
  <1>1. AreCalls(s \o u, len) /\ Bytes(s \o u, len) = m + n
    BY FilledConcat DEF Measured
  <1>2. ASSUME NEW k \in 1..Len(s \o u) PROVE (s \o u)[k].f # "signature"
    <2>1. /\ Len(s) \in Nat /\ Len(u) \in Nat /\ Len(s \o u) = Len(s) + Len(u)
          /\ \A j \in 1..Len(s) : (s \o u)[j] = s[j]
          /\ \A j \in 1..Len(u) : (s \o u)[Len(s) + j] = u[j]
      BY SequenceFacts DEF Measured, AreCalls
    <2>2. CASE k \in 1..Len(s)
      BY <2>1, <2>2 DEF Measured
    <2>3. CASE k \notin 1..Len(s)
      <3> DEFINE j == k - Len(s)
      <3>1. j \in 1..Len(u) /\ Len(s) + j = k
        BY <2>1, <2>3
      <3>2. (s \o u)[k] = u[j]
        BY <2>1, <3>1
      <3> HIDE DEF j
      <3> QED
        BY <3>1, <3>2 DEF Measured
    <2> QED
      BY <2>2, <2>3
  <1> QED
    BY <1>1, <1>2 DEF Measured

LEMMA MeasuredOne ==
    ASSUME NEW len, NEW o, Plain(o, len)
    PROVE  Measured(<<o>>, len, Width(o, len))
  <1> DEFINE s == <<o>>
  <1>1. Len(s) = 1 /\ s[1] = o
    OBVIOUS
  <1>2. IsSequence(s)
    <2>1. s \in Seq({o})
      OBVIOUS
    <2> QED
      BY <2>1 DEF IsSequence
  <1> HIDE DEF s
  <1>3. AreCalls(s, len)
    BY <1>1, <1>2 DEF AreCalls, Plain
  <1>4. Filled(s, len, 1) = Filled(s, len, 1 - 1) + Width(s[1], len)
    BY <1>1, <1>3, FilledFacts
  <1>5. Filled(s, len, 0) = 0
    BY <1>3, FilledFacts
  <1>6. Bytes(s, len) = Width(o, len)
    BY <1>1, <1>4, <1>5 DEF Bytes, Plain, IsCall
  <1>7. Measured(s, len, Width(o, len))
    BY <1>1, <1>3, <1>6 DEF Measured, Plain, IsCall
  <1> QED
    BY <1>7 DEF s

LEMMA PairConcat == ASSUME NEW a, NEW b PROVE <<a, b>> = <<a>> \o <<b>>
  <1> DEFINE s == <<a, b>>
             t == <<a>> \o <<b>>
  <1>1. <<a>> \in Seq({a, b}) /\ <<b>> \in Seq({a, b}) /\ s \in Seq({a, b})
    OBVIOUS
  <1>2. Len(t) = 2 /\ t[1] = a /\ t[2] = b /\ t \in Seq({a, b})
    BY <1>1
  <1>3. Len(s) = 2 /\ s[1] = a /\ s[2] = b
    OBVIOUS
  <1> HIDE DEF s, t
  <1>4. s = t
    BY <1>1, <1>2, <1>3, SeqEqual
  <1> QED
    BY <1>4 DEF s, t

LEMMA MeasuredTwo ==
    ASSUME NEW len, NEW a, NEW b,
           Plain(a, len), Plain(b, len)
    PROVE  Measured(<<a, b>>, len, Width(a, len) + Width(b, len))
  <1>1. Measured(<<a>>, len, Width(a, len)) /\ Measured(<<b>>, len, Width(b, len))
    BY MeasuredOne
  <1>2. <<a, b>> = <<a>> \o <<b>>
    BY PairConcat
  <1>3. Measured(<<a>> \o <<b>>, len, (Width(a, len)) + Width(b, len))
    BY <1>1, MeasuredConcat
  <1> QED
    BY <1>2, <1>3

LEMMA MeasuredThree ==
    ASSUME NEW len, NEW a, NEW b, NEW c,
           Plain(a, len), Plain(b, len), Plain(c, len)
    PROVE  Measured(<<a, b, c>>, len, Width(a, len) + Width(b, len) + Width(c, len))
  <1>1. Measured(<<a, b>>, len, Width(a, len) + Width(b, len)) /\ Measured(<<c>>, len, Width(c, len))
    BY MeasuredTwo, MeasuredOne
  <1>2. <<a, b, c>> = <<a, b>> \o <<c>>
    OBVIOUS
  <1>3. Measured(<<a, b>> \o <<c>>, len, (Width(a, len) + Width(b, len)) + Width(c, len))
    BY <1>1, MeasuredConcat
  <1> QED
    BY <1>2, <1>3

LEMMA MeasuredFour ==
    ASSUME NEW len, NEW a, NEW b, NEW c, NEW d,
           Plain(a, len), Plain(b, len), Plain(c, len), Plain(d, len)
    PROVE  Measured(<<a, b, c, d>>, len, Width(a, len) + Width(b, len) + Width(c, len) + Width(d, len))
  <1>1. Measured(<<a, b, c>>, len, Width(a, len) + Width(b, len) + Width(c, len)) /\ Measured(<<d>>, len, Width(d, len))
    BY MeasuredThree, MeasuredOne
  <1>2. <<a, b, c, d>> = <<a, b, c>> \o <<d>>
    OBVIOUS
  <1>3. Measured(<<a, b, c>> \o <<d>>, len, (Width(a, len) + Width(b, len) + Width(c, len)) + Width(d, len))
    BY <1>1, MeasuredConcat
  <1> QED
    BY <1>2, <1>3

LEMMA MeasuredFive ==
    ASSUME NEW len, NEW a, NEW b, NEW c, NEW d, NEW e,
           Plain(a, len), Plain(b, len), Plain(c, len), Plain(d, len), Plain(e, len)
    PROVE  Measured(<<a, b, c, d, e>>, len, Width(a, len) + Width(b, len) + Width(c, len) + Width(d, len) + Width(e, len))
  <1>1. Measured(<<a, b, c, d>>, len, Width(a, len) + Width(b, len) + Width(c, len) + Width(d, len)) /\ Measured(<<e>>, len, Width(e, len))
    BY MeasuredFour, MeasuredOne
  <1>2. <<a, b, c, d, e>> = <<a, b, c, d>> \o <<e>>
    OBVIOUS
  <1>3. Measured(<<a, b, c, d>> \o <<e>>, len, (Width(a, len) + Width(b, len) + Width(c, len) + Width(d, len)) + Width(e, len))
    BY <1>1, MeasuredConcat
  <1> QED
    BY <1>2, <1>3

LEMMA MeasuredSix ==
    ASSUME NEW len, NEW a, NEW b, NEW c, NEW d, NEW e, NEW g,
           Plain(a, len), Plain(b, len), Plain(c, len), Plain(d, len), Plain(e, len), Plain(g, len)
    PROVE  Measured(<<a, b, c, d, e, g>>, len, Width(a, len) + Width(b, len) + Width(c, len) + Width(d, len) + Width(e, len) + Width(g, len))
  <1>1. Measured(<<a, b, c, d, e>>, len, Width(a, len) + Width(b, len) + Width(c, len) + Width(d, len) + Width(e, len)) /\ Measured(<<g>>, len, Width(g, len))
    BY MeasuredFive, MeasuredOne
  <1>2. <<a, b, c, d, e, g>> = <<a, b, c, d, e>> \o <<g>>
    OBVIOUS
  <1>3. Measured(<<a, b, c, d, e>> \o <<g>>, len, (Width(a, len) + Width(b, len) + Width(c, len) + Width(d, len) + Width(e, len)) + Width(g, len))
    BY <1>1, MeasuredConcat
  <1> QED
    BY <1>2, <1>3

LEMMA MeasuredText ==
    ASSUME NEW len, NEW w \in Nat, NEW f, f # "signature", len[f] \in Nat
    PROVE  Measured(Text(w, f), len, w + len[f])
  <1>1. /\ Plain(Count(w, f), len) /\ Width(Count(w, f), len) = w
        /\ Plain(Body(1, f), len) /\ Width(Body(1, f), len) = 1 * len[f]
    BY PlainFacts
  <1>2. Measured(<<Count(w, f), Body(1, f)>>, len, w + 1 * len[f])
    BY <1>1, MeasuredTwo
  <1>3. w + 1 * len[f] = w + len[f]
    OBVIOUS
  <1> QED
    BY <1>2, <1>3 DEF Text

\* The sums that the sizes are made of.
LEMMA SumOne ==
    ASSUME NEW v, NEW a, v[a] \in Nat
    PROVE  Sum(v, {a}) = v[a]
  <1>1. Summable(v, {a}) /\ {a} \ {a} = {}
    <2>1. IsFiniteSet({a})
      BY FS_Singleton
    <2>2. {a} \ {a} = {}
      OBVIOUS
    <2> QED
      BY <2>1, <2>2 DEF Summable
  <1>2. Sum(v, {a}) = v[a] + Sum(v, {a} \ {a})
    BY <1>1, SumRemove
  <1> QED
    BY <1>1, <1>2, SumEmpty

LEMMA SumTwo ==
    ASSUME NEW v, NEW a, NEW b, a # b, v[a] \in Nat, v[b] \in Nat
    PROVE  Sum(v, {a, b}) = v[a] + v[b]
  <1>1. IsFiniteSet({a, b}) /\ {a, b} \ {a} = {b}
    <2>1. IsFiniteSet({b}) /\ {b} \cup {a} = {a, b}
      BY FS_Singleton
    <2> QED
      BY <2>1, FS_AddElement
  <1>2. Summable(v, {a, b})
    BY <1>1 DEF Summable
  <1>3. Sum(v, {a, b}) = v[a] + Sum(v, {a, b} \ {a})
    BY <1>2, SumRemove
  <1>4. Sum(v, {b}) = v[b]
    BY SumOne
  <1> QED
    BY <1>1, <1>3, <1>4

LEMMA SumThree ==
    ASSUME NEW v, NEW a, NEW b, NEW c, a # b, b # c, a # c,
           v[a] \in Nat, v[b] \in Nat, v[c] \in Nat, NEW x, x = v[a] + v[b] + v[c]
    PROVE  Sum(v, {a, b, c}) = x
  <1>1. IsFiniteSet({a, b, c}) /\ {a, b, c} \ {a} = {b, c}
    <2>1. IsFiniteSet({b, c})
      <3>1. IsFiniteSet({c}) /\ {c} \cup {b} = {b, c}
        BY FS_Singleton
      <3> QED
        BY <3>1, FS_AddElement
    <2>2. {b, c} \cup {a} = {a, b, c}
      OBVIOUS
    <2> QED
      BY <2>1, <2>2, FS_AddElement
  <1>2. Summable(v, {a, b, c})
    BY <1>1 DEF Summable
  <1>3. Sum(v, {a, b, c}) = v[a] + Sum(v, {a, b, c} \ {a})
    BY <1>2, SumRemove
  <1>4. Sum(v, {b, c}) = v[b] + v[c]
    BY SumTwo
  <1>5. Sum(v, {a, b, c} \ {a}) = v[b] + v[c]
    BY <1>1, <1>4, Zenon
  <1> QED
    BY <1>3, <1>5

LEMMA SumFour ==
    ASSUME NEW v, NEW a, NEW b, NEW c, NEW d, a # b, a # c, a # d, b # c, b # d, c # d,
           v[a] \in Nat, v[b] \in Nat, v[c] \in Nat, v[d] \in Nat,
           NEW x, x = v[a] + v[b] + v[c] + v[d]
    PROVE  Sum(v, {a, b, c, d}) = x
  <1>1. IsFiniteSet({a, b, c, d}) /\ {a, b, c, d} \ {a} = {b, c, d}
    <2>1. IsFiniteSet({d}) /\ {d} \cup {c} = {c, d}
      BY FS_Singleton
    <2>2. IsFiniteSet({c, d}) /\ {c, d} \cup {b} = {b, c, d}
      BY <2>1, FS_AddElement
    <2>3. IsFiniteSet({b, c, d}) /\ {b, c, d} \cup {a} = {a, b, c, d}
      BY <2>2, FS_AddElement
    <2> QED
      BY <2>3, FS_AddElement
  <1>2. Summable(v, {a, b, c, d})
    BY <1>1 DEF Summable
  <1>3. Sum(v, {a, b, c, d}) = v[a] + Sum(v, {a, b, c, d} \ {a})
    BY <1>2, SumRemove
  <1>4. Sum(v, {b, c, d}) = v[b] + v[c] + v[d]
    BY SumThree
  <1>5. Sum(v, {a, b, c, d} \ {a}) = v[b] + v[c] + v[d]
    BY <1>1, <1>4, Zenon
  <1> QED
    BY <1>3, <1>5

\* The bytes per element, and those of the lengths of pages, that a size counts.
UnitBytes(unit, n) == MapThenSumSet(LAMBDA f : unit[f] * n[f], DOMAIN unit)
PageBytes(pages, n) == MapThenSumSet(LAMBDA p : PageWidth(n[p]), pages)

LEMMA UnitBytesIsSum ==
    ASSUME NEW unit, NEW n, IsFiniteSet(DOMAIN unit), \A f \in DOMAIN unit : unit[f] * n[f] \in Nat
    PROVE  UnitBytes(unit, n) = Sum([f \in DOMAIN unit |-> unit[f] * n[f]], DOMAIN unit)
  <1> DEFINE D == DOMAIN unit
             v == [f \in D |-> unit[f] * n[f]]
             Sums(it) == it = [s \in SUBSET D |->
                           IF s = {} THEN 0
                           ELSE unit[CHOOSE x \in s : TRUE] * n[CHOOSE x \in s : TRUE]
                                  + it[s \ {CHOOSE x \in s : TRUE}]]
             f == CHOOSE it : Sums(it)
  <1>1. UnitBytes(unit, n) = f[D]
    BY DEF UnitBytes, MapThenSumSet, MapThenFoldSet
  <1>2. Summable(v, D)
    BY DEF Summable
  <1>3. ASSUME NEW it PROVE Sums(it) <=> IsSum(it, v, D)
    <2>1. \A s \in SUBSET D : s # {} => v[Pick(s)] = unit[Pick(s)] * n[Pick(s)]
      BY PickIn
    <2> HIDE DEF v, D
    <2> QED
      BY <2>1 DEF IsSum, Pick
  <1> HIDE DEF Sums, D, v
  <1>4. \E it : IsSum(it, v, D)
    BY <1>2, SumExists
  <1>5. IsSum(f, v, D)
    BY <1>3, <1>4
  <1> HIDE DEF f
  <1>6. Sum(v, D) = f[D]
    BY <1>2, <1>5, SumUnique
  <1> QED
    BY <1>1, <1>6 DEF v, D

LEMMA PageBytesIsSum ==
    ASSUME NEW pages, NEW n, IsFiniteSet(pages)
    PROVE  PageBytes(pages, n) = Sum([p \in pages |-> PageWidth(n[p])], pages)
  <1> DEFINE v == [p \in pages |-> PageWidth(n[p])]
             Sums(it) == it = [s \in SUBSET pages |->
                           IF s = {} THEN 0
                           ELSE PageWidth(n[CHOOSE x \in s : TRUE])
                                  + it[s \ {CHOOSE x \in s : TRUE}]]
             f == CHOOSE it : Sums(it)
  <1>1. PageBytes(pages, n) = f[pages]
    BY DEF PageBytes, MapThenSumSet, MapThenFoldSet
  <1>2. Summable(v, pages)
    BY DEF Summable, PageWidth
  <1>3. ASSUME NEW it PROVE Sums(it) <=> IsSum(it, v, pages)
    <2>1. \A s \in SUBSET pages : s # {} => v[Pick(s)] = PageWidth(n[Pick(s)])
      BY PickIn
    <2> HIDE DEF v
    <2> QED
      BY <2>1 DEF IsSum, Pick
  <1> HIDE DEF Sums, v
  <1>4. \E it : IsSum(it, v, pages)
    BY <1>2, SumExists
  <1>5. IsSum(f, v, pages)
    BY <1>3, <1>4
  <1> HIDE DEF f
  <1>6. Sum(v, pages) = f[pages]
    BY <1>2, <1>5, SumUnique
  <1> QED
    BY <1>1, <1>6 DEF v

-----------------------------------------------------------------------------
(* The size that a kind of transaction promises is what its writer fills. *)

Fits(k, n) == Measured(k.write, n, k.fixed + UnitBytes(k.unit, n) + PageBytes(k.pages, n))

LEMMA KindFits ==
    ASSUME NEW type, NEW sub, NEW write, NEW read, NEW fixed \in Nat, NEW unit, NEW n,
           IsFiniteSet(DOMAIN unit), \A f \in DOMAIN unit : unit[f] * n[f] \in Nat,
           Measured(write, n, fixed + Sum([f \in DOMAIN unit |-> unit[f] * n[f]], DOMAIN unit))
    PROVE  Fits(Kind(type, sub, write, read, fixed, unit), n)
  <1> DEFINE k == Kind(type, sub, write, read, fixed, unit)
             sum == Sum([f \in DOMAIN unit |-> unit[f] * n[f]], DOMAIN unit)
  <1>1. k.write = write /\ k.fixed = fixed /\ k.unit = unit /\ k.pages = {}
    BY DEF Kind
  <1>2. PageBytes({}, n) = 0
    <2>1. IsFiniteSet({})
      BY FS_EmptySet
    <2> QED
      BY <2>1, PageBytesIsSum, SumEmpty
  <1>3. UnitBytes(unit, n) = sum
    BY UnitBytesIsSum
  <1>4. sum \in Nat
    BY SumNat
  <1> HIDE DEF k, sum
  <1>5. k.fixed + UnitBytes(k.unit, n) + PageBytes(k.pages, n) = fixed + sum
    BY <1>1, <1>2, <1>3, <1>4
  <1>6. Measured(k.write, n, fixed + sum)
    BY <1>1 DEF sum
  <1>7. Fits(k, n)
    BY <1>5, <1>6 DEF Fits
  <1> QED
    BY <1>7 DEF k

LEMMA FitsNone ==
    ASSUME NEW type, NEW sub, NEW write, NEW read, NEW fixed \in Nat, NEW n, Measured(write, n, fixed)
    PROVE  Fits(Kind(type, sub, write, read, fixed, NoField), n)
  <1>1. DOMAIN NoField = {} /\ IsFiniteSet({})
    BY FS_EmptySet DEF NoField, PerByte
  <1>2. Sum([f \in {} |-> NoField[f] * n[f]], {}) = 0 /\ fixed + 0 = fixed
    BY SumEmpty
  <1> QED
    BY <1>1, <1>2, KindFits

LEMMA FitsOne ==
    ASSUME NEW type, NEW sub, NEW write, NEW read, NEW fixed \in Nat, NEW unit, NEW n, NEW a,
           DOMAIN unit = {a}, unit[a] \in Nat, n[a] \in Nat,
           Measured(write, n, fixed + unit[a] * n[a])
    PROVE  Fits(Kind(type, sub, write, read, fixed, unit), n)
  <1> DEFINE v == [f \in DOMAIN unit |-> unit[f] * n[f]]
  <1>1. unit[a] * n[a] \in Nat
    OBVIOUS
  <1>2. v[a] = unit[a] * n[a]
    OBVIOUS
  <1> HIDE DEF v
  <1>3. IsFiniteSet({a}) /\ Sum(v, {a}) = unit[a] * n[a]
    BY <1>1, <1>2, SumOne, FS_Singleton
  <1>4. Measured(write, n, fixed + Sum(v, DOMAIN unit))
    BY <1>3
  <1>5. IsFiniteSet(DOMAIN unit) /\ \A f \in DOMAIN unit : unit[f] * n[f] \in Nat
    BY <1>1, <1>3
  <1> QED
    BY <1>4, <1>5, KindFits DEF v

LEMMA FitsTwo ==
    ASSUME NEW type, NEW sub, NEW write, NEW read, NEW fixed \in Nat, NEW n, NEW a, NEW b, a # b,
           n[a] \in Nat, n[b] \in Nat, NEW x, x = fixed + n[a] + n[b], Measured(write, n, x)
    PROVE  Fits(Kind(type, sub, write, read, fixed, PerByte({a, b})), n)
  <1> DEFINE unit == PerByte({a, b})
             v == [f \in DOMAIN unit |-> unit[f] * n[f]]
  <1>1. DOMAIN unit = {a, b} /\ \A f \in {a, b} : unit[f] = 1
    BY DEF PerByte
  <1> HIDE DEF unit
  <1>2. v[a] = n[a] /\ v[b] = n[b] /\ \A f \in DOMAIN unit : unit[f] * n[f] \in Nat
    <2>1. \A f \in {a, b} : 1 * n[f] = n[f] /\ n[f] \in Nat
      OBVIOUS
    <2>2. \A f \in DOMAIN unit : unit[f] * n[f] = n[f] /\ n[f] \in Nat
      BY <1>1, <2>1
    <2> QED
      BY <1>1, <2>2
  <1> HIDE DEF v
  <1>3. Sum(v, {a, b}) = n[a] + n[b]
    <2>1. v[a] \in Nat /\ v[b] \in Nat
      BY <1>2
    <2>2. Sum(v, {a, b}) = v[a] + v[b]
      BY <2>1, SumTwo
    <2> QED
      BY <1>2, <2>2
  <1>4. IsFiniteSet(DOMAIN unit)
    <2>1. IsFiniteSet({a}) /\ {a} \cup {b} = {a, b}
      BY FS_Singleton
    <2> QED
      BY <1>1, <2>1, FS_AddElement
  <1>5. fixed + Sum(v, DOMAIN unit) = x
    BY <1>1, <1>3
  <1>6. Measured(write, n, fixed + Sum(v, DOMAIN unit))
    BY <1>5
  <1>7. Fits(Kind(type, sub, write, read, fixed, unit), n)
    BY <1>2, <1>4, <1>6, KindFits DEF v
  <1> QED
    BY <1>7 DEF unit

LEMMA FitsThree ==
    ASSUME NEW type, NEW sub, NEW write, NEW read, NEW fixed \in Nat, NEW n, NEW a, NEW b, NEW c,
           a # b, b # c, a # c, n[a] \in Nat, n[b] \in Nat, n[c] \in Nat,
           NEW x, x = fixed + n[a] + n[b] + n[c], Measured(write, n, x)
    PROVE  Fits(Kind(type, sub, write, read, fixed, PerByte({a, b, c})), n)
  <1> DEFINE unit == PerByte({a, b, c})
             v == [f \in DOMAIN unit |-> unit[f] * n[f]]
  <1>1. DOMAIN unit = {a, b, c} /\ \A f \in {a, b, c} : unit[f] = 1
    BY DEF PerByte
  <1> HIDE DEF unit
  <1>2. v[a] = n[a] /\ v[b] = n[b] /\ v[c] = n[c] /\ \A f \in DOMAIN unit : unit[f] * n[f] \in Nat
    <2>1. \A f \in {a, b, c} : 1 * n[f] = n[f] /\ n[f] \in Nat
      OBVIOUS
    <2>2. \A f \in DOMAIN unit : unit[f] * n[f] = n[f] /\ n[f] \in Nat
      BY <1>1, <2>1
    <2> QED
      BY <1>1, <2>2
  <1> HIDE DEF v
  <1>3. Sum(v, {a, b, c}) = n[a] + n[b] + n[c]
    <2>1. v[a] \in Nat /\ v[b] \in Nat /\ v[c] \in Nat
      BY <1>2
    <2>2. Sum(v, {a, b, c}) = v[a] + v[b] + v[c]
      BY <2>1, SumThree
    <2> QED
      BY <1>2, <2>2
  <1>4. IsFiniteSet(DOMAIN unit)
    <2>1. IsFiniteSet({a}) /\ {a} \cup {b} = {a, b}
      BY FS_Singleton
    <2>2. IsFiniteSet({a, b}) /\ {a, b} \cup {c} = {a, b, c}
      BY <2>1, FS_AddElement
    <2>3. IsFiniteSet({a, b, c})
      BY <2>2, FS_AddElement
    <2> QED
      BY <1>1, <2>3
  <1>5. fixed + Sum(v, DOMAIN unit) = x
    BY <1>1, <1>3
  <1>6. Measured(write, n, fixed + Sum(v, DOMAIN unit))
    BY <1>5
  <1>7. Fits(Kind(type, sub, write, read, fixed, unit), n)
    BY <1>2, <1>4, <1>6, KindFits DEF v
  <1> QED
    BY <1>7 DEF unit

\* Numbers one after the other.
LEMMA NumOne ==
    ASSUME NEW n, NEW v \in Nat,
           NEW a, a # "signature"
    PROVE  Measured(<<Num(v, a)>>, n, v)
  <1>1. Plain(Num(v, a), n) /\ Width(Num(v, a), n) = v
    BY PlainFacts
  <1> QED
    BY <1>1, MeasuredOne

LEMMA NumTwo ==
    ASSUME NEW n, NEW v \in Nat, NEW w \in Nat,
           NEW a, NEW b, a # "signature", b # "signature"
    PROVE  Measured(<<Num(v, a), Num(w, b)>>, n, v + w)
  <1>1. /\ Plain(Num(v, a), n) /\ Width(Num(v, a), n) = v
        /\ Plain(Num(w, b), n) /\ Width(Num(w, b), n) = w
    BY PlainFacts
  <1> QED
    BY <1>1, MeasuredTwo

LEMMA NumThree ==
    ASSUME NEW n, NEW v \in Nat, NEW w \in Nat, NEW x \in Nat,
           NEW a, NEW b, NEW c, a # "signature", b # "signature", c # "signature"
    PROVE  Measured(<<Num(v, a), Num(w, b), Num(x, c)>>, n, v + w + x)
  <1>1. /\ Plain(Num(v, a), n) /\ Width(Num(v, a), n) = v
        /\ Plain(Num(w, b), n) /\ Width(Num(w, b), n) = w
        /\ Plain(Num(x, c), n) /\ Width(Num(x, c), n) = x
    BY PlainFacts
  <1> QED
    BY <1>1, MeasuredThree

LEMMA NumFour ==
    ASSUME NEW n, NEW v \in Nat, NEW w \in Nat, NEW x \in Nat, NEW y \in Nat,
           NEW a, NEW b, NEW c, NEW d, a # "signature", b # "signature", c # "signature", d # "signature"
    PROVE  Measured(<<Num(v, a), Num(w, b), Num(x, c), Num(y, d)>>, n, v + w + x + y)
  <1>1. /\ Plain(Num(v, a), n) /\ Width(Num(v, a), n) = v
        /\ Plain(Num(w, b), n) /\ Width(Num(w, b), n) = w
        /\ Plain(Num(x, c), n) /\ Width(Num(x, c), n) = x
        /\ Plain(Num(y, d), n) /\ Width(Num(y, d), n) = y
    BY PlainFacts
  <1> QED
    BY <1>1, MeasuredFour

\* Kinds without a field of variable length.
LEMMA FixedFit ==
    ASSUME NEW n
    PROVE  /\ Fits(OrdinaryPayment, n) /\ Fits(ArbitaryMessage, n) /\ Fits(RewardRecipientAssignment, n)
           /\ Fits(AskOrderPlacement, n) /\ Fits(BidOrderPlacement, n)
           /\ Fits(AskOrderCancellation, n) /\ Fits(BidOrderCancellation, n)
           /\ Fits(DigitalGoodsDelisting, n) /\ Fits(DigitalGoodsPriceChange, n)
           /\ Fits(DigitalGoodsQuantityChange, n) /\ Fits(DigitalGoodsPurchase, n)
           /\ Fits(DigitalGoodsFeedback, n) /\ Fits(DigitalGoodsRefund, n)
           /\ Fits(EffectiveBalanceLeasing, n)
           /\ Fits(EscrowSign, n) /\ Fits(EscrowResult, n)
           /\ Fits(SubscriptionSubscribe, n) /\ Fits(SubscriptionCancel, n) /\ Fits(SubscriptionPayment, n)
  <1>1. Fits(OrdinaryPayment, n) /\ Fits(ArbitaryMessage, n) /\ Fits(RewardRecipientAssignment, n)
    BY MeasuredNone, FitsNone DEF OrdinaryPayment, ArbitaryMessage, RewardRecipientAssignment, Mirrored
  <1>2. Fits(AskOrderPlacement, n) /\ Fits(BidOrderPlacement, n)
    <2>1. Measured(<<Num(8, "asset"), Num(8, "quantity"), Num(8, "price")>>, n, 8 + 8 + 8)
      BY NumThree
    <2> QED
      BY <2>1, FitsNone DEF AskOrderPlacement, BidOrderPlacement, Mirrored
  <1>3. Fits(AskOrderCancellation, n) /\ Fits(BidOrderCancellation, n)
    <2>1. Measured(<<Num(8, "order")>>, n, 8)
      BY NumOne
    <2> QED
      BY <2>1, FitsNone DEF AskOrderCancellation, BidOrderCancellation, Mirrored
  <1>4. Fits(DigitalGoodsDelisting, n) /\ Fits(SubscriptionCancel, n) /\ Fits(SubscriptionPayment, n)
    <2>1. Measured(<<Num(8, "id")>>, n, 8)
      BY NumOne
    <2> QED
      BY <2>1, FitsNone DEF DigitalGoodsDelisting, SubscriptionCancel, SubscriptionPayment, Mirrored
  <1>5. Fits(DigitalGoodsPriceChange, n)
    <2>1. Measured(<<Num(8, "id"), Num(8, "price")>>, n, 8 + 8)
      BY NumTwo
    <2> QED
      BY <2>1, FitsNone DEF DigitalGoodsPriceChange, Mirrored
  <1>6. Fits(DigitalGoodsQuantityChange, n)
    <2>1. Measured(<<Num(8, "id"), Num(4, "delta")>>, n, 8 + 4)
      BY NumTwo
    <2> QED
      BY <2>1, FitsNone DEF DigitalGoodsQuantityChange, Mirrored
  <1>7. Fits(DigitalGoodsPurchase, n)
    <2>1. Measured(<<Num(8, "id"), Num(4, "quantity"), Num(8, "price"), Num(4, "deliveryDeadline")>>,
                   n, 8 + 4 + 8 + 4)
      BY NumFour
    <2> QED
      BY <2>1, FitsNone DEF DigitalGoodsPurchase, Mirrored
  <1>8. Fits(DigitalGoodsFeedback, n) /\ Fits(DigitalGoodsRefund, n)
    <2>1. Measured(<<Num(8, "purchase")>>, n, 8)
      BY NumOne
    <2>2. Measured(<<Num(8, "purchase"), Num(8, "refund")>>, n, 8 + 8)
      BY NumTwo
    <2> QED
      BY <2>1, <2>2, FitsNone DEF DigitalGoodsFeedback, DigitalGoodsRefund, Mirrored
  <1>9. Fits(EffectiveBalanceLeasing, n) /\ Fits(SubscriptionSubscribe, n)
    <2>1. Measured(<<Num(2, "period")>>, n, 2) /\ Measured(<<Num(4, "frequency")>>, n, 4)
      BY NumOne
    <2> QED
      BY <2>1, FitsNone DEF EffectiveBalanceLeasing, SubscriptionSubscribe, Mirrored
  <1>10. Fits(EscrowSign, n) /\ Fits(EscrowResult, n)
    <2>1. Measured(<<Num(8, "id"), Num(1, "decision")>>, n, 8 + 1)
      BY NumTwo
    <2> QED
      BY <2>1, FitsNone DEF EscrowSign, EscrowResult, Mirrored
  <1> QED
    BY <1>1, <1>2, <1>3, <1>4, <1>5, <1>6, <1>7, <1>8, <1>9, <1>10

\* Kinds with fields of variable length.
LEMMA OneTextFits ==
    ASSUME NEW type, NEW sub, NEW write, NEW read, NEW fixed \in Nat, NEW n, NEW a, n[a] \in Nat,
           Measured(write, n, fixed + n[a])
    PROVE  Fits(Kind(type, sub, write, read, fixed, PerByte({a})), n)
  <1> DEFINE unit == PerByte({a})
  <1>1. DOMAIN unit = {a} /\ unit[a] = 1
    BY DEF PerByte
  <1> HIDE DEF unit
  <1>2. fixed + unit[a] * n[a] = fixed + n[a]
    BY <1>1
  <1>3. Measured(write, n, fixed + unit[a] * n[a])
    BY <1>2
  <1>4. Fits(Kind(type, sub, write, read, fixed, unit), n)
    BY <1>1, <1>3, FitsOne
  <1> QED
    BY <1>4 DEF unit

LEMMA AliasFits ==
    ASSUME NEW n
    PROVE  /\ n["name"] \in Nat => Fits(AliasBuy, n) /\ Fits(AliasSell, n)
           /\ n["alias"] \in Nat /\ n["uri"] \in Nat => Fits(AliasAssignment, n)
           /\ n["name"] \in Nat /\ n["description"] \in Nat => Fits(AccountInfo, n)
  <1>1. ASSUME n["name"] \in Nat PROVE Fits(AliasBuy, n) /\ Fits(AliasSell, n)
    <2>1. Measured(Text(1, "name"), n, 1 + n["name"]) /\ Measured(<<Num(8, "price")>>, n, 8)
      BY <1>1, MeasuredText, NumOne
    <2>2. Measured(Text(1, "name") \o <<Num(8, "price")>>, n, (1 + n["name"]) + 8)
      BY <2>1, MeasuredConcat
    <2>3. (1 + n["name"]) + 8 = (1 + 8) + n["name"]
      BY <1>1
    <2>4. Measured(Text(1, "name") \o <<Num(8, "price")>>, n, (1 + 8) + n["name"])
      BY <2>2, <2>3
    <2>5. Fits(AliasBuy, n)
      BY <1>1, <2>1, OneTextFits DEF AliasBuy, Mirrored
    <2> QED
      BY <1>1, <2>4, <2>5, OneTextFits DEF AliasSell, Mirrored
  <1>2. ASSUME NEW a, NEW b, a # b, a # "signature", b # "signature", n[a] \in Nat, n[b] \in Nat,
               NEW type, NEW sub, NEW read
        PROVE  Fits(Kind(type, sub, Text(1, a) \o Text(2, b), read, 1 + 2, PerByte({a, b})), n)
    <2>1. Measured(Text(1, a), n, 1 + n[a]) /\ Measured(Text(2, b), n, 2 + n[b])
      BY <1>2, MeasuredText
    <2>2. Measured(Text(1, a) \o Text(2, b), n, (1 + n[a]) + (2 + n[b]))
      BY <2>1, MeasuredConcat
    <2>3. (1 + n[a]) + (2 + n[b]) = (1 + 2) + n[a] + n[b]
      BY <1>2
    <2>4. Measured(Text(1, a) \o Text(2, b), n, (1 + 2) + n[a] + n[b])
      BY <2>2, <2>3
    <2>5. 1 + 2 \in Nat
      OBVIOUS
    <2> QED
      BY <1>2, <2>4, <2>5, FitsTwo, Zenon
  <1>3. n["alias"] \in Nat /\ n["uri"] \in Nat => Fits(AliasAssignment, n)
    BY <1>2 DEF AliasAssignment, Mirrored
  <1>4. n["name"] \in Nat /\ n["description"] \in Nat => Fits(AccountInfo, n)
    BY <1>2 DEF AccountInfo, Mirrored
  <1> QED
    BY <1>1, <1>3, <1>4

LEMMA AssetsFit ==
    ASSUME NEW n
    PROVE  /\ n["name"] \in Nat /\ n["description"] \in Nat => Fits(AssetIssuance, n)
           /\ n["comment"] \in Nat => Fits(AssetTransfer(0), n)
           /\ \A v : v # 0 => Fits(AssetTransfer(v), n)
  <1>1. ASSUME n["name"] \in Nat, n["description"] \in Nat PROVE Fits(AssetIssuance, n)
    <2> DEFINE texts == Text(1, "name") \o Text(2, "description")
               nums == <<Num(8, "quantity"), Num(1, "decimals")>>
    <2>1. Measured(Text(1, "name"), n, 1 + n["name"])
          /\ Measured(Text(2, "description"), n, 2 + n["description"])
      BY <1>1, MeasuredText
    <2>2. Measured(texts, n, (1 + n["name"]) + (2 + n["description"]))
      BY <2>1, MeasuredConcat
    <2>3. Measured(nums, n, 8 + 1)
      BY NumTwo
    <2>4. Measured(texts \o nums, n, ((1 + n["name"]) + (2 + n["description"])) + (8 + 1))
      BY <2>2, <2>3, MeasuredConcat
    <2>5. ((1 + n["name"]) + (2 + n["description"])) + (8 + 1)
             = (1 + 2 + 8 + 1) + n["name"] + n["description"]
      BY <1>1
    <2>6. Measured(texts \o nums, n, (1 + 2 + 8 + 1) + n["name"] + n["description"])
      BY <2>4, <2>5
    <2>7. AssetIssuance = Kind(2, 0, texts \o nums, texts \o nums, 1 + 2 + 8 + 1,
                               PerByte({"name", "description"}))
      BY DEF AssetIssuance, Mirrored
    <2>8. 1 + 2 + 8 + 1 \in Nat /\ "name" # "description"
      OBVIOUS
    <2> HIDE DEF texts, nums
    <2> QED
      BY <1>1, <2>6, <2>7, <2>8, FitsTwo, Zenon
  <1>2. Measured(<<Num(8, "asset"), Num(8, "quantity")>>, n, 8 + 8)
    BY NumTwo
  <1>3. ASSUME n["comment"] \in Nat PROVE Fits(AssetTransfer(0), n)
    <2> DEFINE write == <<Num(8, "asset"), Num(8, "quantity")>> \o Text(2, "comment")
    <2>1. Measured(Text(2, "comment"), n, 2 + n["comment"])
      BY <1>3, MeasuredText
    <2>2. Measured(write, n, (8 + 8) + (2 + n["comment"]))
      BY <1>2, <2>1, MeasuredConcat
    <2>3. (8 + 8) + (2 + n["comment"]) = (8 + 8 + 2) + n["comment"]
      BY <1>3
    <2>4. Measured(write, n, (8 + 8 + 2) + n["comment"])
      BY <2>2, <2>3
    <2>5. AssetTransfer(0) = Kind(2, 1, write, write, 8 + 8 + 2, PerByte({"comment"}))
      BY DEF AssetTransfer, Mirrored
    <2> HIDE DEF write
    <2> QED
      BY <1>3, <2>4, <2>5, OneTextFits
  <1>4. ASSUME NEW v, v # 0 PROVE Fits(AssetTransfer(v), n)
    BY <1>2, <1>4, FitsNone DEF AssetTransfer, Mirrored
  <1> QED
    BY <1>1, <1>3, <1>4

LEMMA GoodsFit ==
    ASSUME NEW n
    PROVE  /\ n["name"] \in Nat /\ n["description"] \in Nat /\ n["tags"] \in Nat
                => Fits(DigitalGoodsListing, n)
           /\ n["data"] \in Nat => Fits(DigitalGoodsDelivery, n)
  <1>1. ASSUME n["name"] \in Nat, n["description"] \in Nat, n["tags"] \in Nat
        PROVE  Fits(DigitalGoodsListing, n)
    <2> DEFINE texts == Text(2, "name") \o Text(2, "description") \o Text(2, "tags")
               nums == <<Num(4, "quantity"), Num(8, "price")>>
               a == n["name"]
               b == n["description"]
               c == n["tags"]
    <2>1. /\ Measured(Text(2, "name"), n, 2 + a) /\ Measured(Text(2, "description"), n, 2 + b)
          /\ Measured(Text(2, "tags"), n, 2 + c)
      BY <1>1, MeasuredText
    <2>2. Measured(Text(2, "name") \o Text(2, "description"), n, (2 + a) + (2 + b))
      BY <2>1, MeasuredConcat
    <2>3. Measured(texts, n, ((2 + a) + (2 + b)) + (2 + c))
      BY <2>1, <2>2, MeasuredConcat
    <2>4. Measured(nums, n, 4 + 8)
      BY NumTwo
    <2>5. Measured(texts \o nums, n, (((2 + a) + (2 + b)) + (2 + c)) + (4 + 8))
      BY <2>3, <2>4, MeasuredConcat
    <2>6. (((2 + a) + (2 + b)) + (2 + c)) + (4 + 8) = (2 + 2 + 2 + 4 + 8) + a + b + c
      BY <1>1
    <2>7. Measured(texts \o nums, n, (2 + 2 + 2 + 4 + 8) + n["name"] + n["description"] + n["tags"])
      BY <2>5, <2>6
    <2>8. DigitalGoodsListing = Kind(3, 0, texts \o nums, texts \o nums, 2 + 2 + 2 + 4 + 8,
                                     PerByte({"name", "description", "tags"}))
      BY DEF DigitalGoodsListing, Mirrored
    <2>9. 2 + 2 + 2 + 4 + 8 \in Nat /\ "name" # "description" /\ "description" # "tags" /\ "name" # "tags"
      OBVIOUS
    <2> HIDE DEF texts, nums
    <2> QED
      BY <1>1, <2>7, <2>8, <2>9, FitsThree, Zenon
  <1>2. ASSUME n["data"] \in Nat PROVE Fits(DigitalGoodsDelivery, n)
    <2> DEFINE write == <<Num(8, "purchase"), Count(4, "data"), Body(1, "data"),
                          Raw(32, "nonce"), Num(8, "discount")>>
    <2>1. /\ Plain(Num(8, "purchase"), n) /\ Width(Num(8, "purchase"), n) = 8
          /\ Plain(Count(4, "data"), n) /\ Width(Count(4, "data"), n) = 4
          /\ Plain(Body(1, "data"), n) /\ Width(Body(1, "data"), n) = 1 * n["data"]
          /\ Plain(Raw(32, "nonce"), n) /\ Width(Raw(32, "nonce"), n) = 32
          /\ Plain(Num(8, "discount"), n) /\ Width(Num(8, "discount"), n) = 8
      BY <1>2, PlainFacts
    <2>2. Measured(write, n, 8 + 4 + 1 * n["data"] + 32 + 8)
      BY <2>1, MeasuredFive
    <2>3. 8 + 4 + 1 * n["data"] + 32 + 8 = (8 + 4 + 32 + 8) + n["data"]
      BY <1>2
    <2>4. Measured(write, n, (8 + 4 + 32 + 8) + n["data"])
      BY <2>2, <2>3
    <2>5. DigitalGoodsDelivery = Kind(3, 5, write, write, 8 + 4 + 32 + 8, PerByte({"data"}))
      BY DEF DigitalGoodsDelivery
    <2>6. 8 + 4 + 32 + 8 \in Nat
      OBVIOUS
    <2> HIDE DEF write
    <2> QED
      BY <1>2, <2>4, <2>5, <2>6, OneTextFits, Zenon
  <1> QED
    BY <1>1, <1>2

\* Fields of several bytes per element.
LEMMA ListsFit ==
    ASSUME NEW n
    PROVE  /\ n["recipients"] \in Nat => Fits(MultiOutCreation, n) /\ Fits(MultiSameOutCreation, n)
           /\ n["signers"] \in Nat => Fits(EscrowCreation, n)
  <1>1. ASSUME NEW u \in Nat, NEW w \in Nat, NEW f, f # "signature", n[f] \in Nat
        PROVE  Measured(<<Count(w, f), Body(u, f)>>, n, w + u * n[f])
    <2>1. /\ Plain(Count(w, f), n) /\ Width(Count(w, f), n) = w
          /\ Plain(Body(u, f), n) /\ Width(Body(u, f), n) = u * n[f]
      BY <1>1, PlainFacts
    <2> QED
      BY <2>1, MeasuredTwo
  <1>2. ASSUME n["recipients"] \in Nat PROVE Fits(MultiOutCreation, n) /\ Fits(MultiSameOutCreation, n)
    <2>1. Measured(<<Count(1, "recipients"), Body(8 + 8, "recipients")>>, n, 1 + (8 + 8) * n["recipients"])
      BY <1>1, <1>2
    <2>2. Measured(<<Count(1, "recipients"), Body(8, "recipients")>>, n, 1 + 8 * n["recipients"])
      BY <1>1, <1>2
    <2>3. \A u : DOMAIN [recipients |-> u] = {"recipients"} /\ [recipients |-> u]["recipients"] = u
      OBVIOUS
    <2>4. Fits(MultiOutCreation, n)
      BY <1>2, <2>1, <2>3, FitsOne DEF MultiOutCreation, Mirrored
    <2>5. Fits(MultiSameOutCreation, n)
      BY <1>2, <2>2, <2>3, FitsOne DEF MultiSameOutCreation, Mirrored
    <2> QED
      BY <2>4, <2>5
  <1>3. ASSUME n["signers"] \in Nat PROVE Fits(EscrowCreation, n)
    <2> DEFINE write == <<Num(8, "escrowAmount"), Num(4, "escrowDeadline"), Num(1, "action"),
                          Num(1, "required"), Count(1, "signers"), Body(8, "signers")>>
               unit == [signers |-> 8]
    <2>1. /\ Plain(Num(8, "escrowAmount"), n) /\ Width(Num(8, "escrowAmount"), n) = 8
          /\ Plain(Num(4, "escrowDeadline"), n) /\ Width(Num(4, "escrowDeadline"), n) = 4
          /\ Plain(Num(1, "action"), n) /\ Width(Num(1, "action"), n) = 1
          /\ Plain(Num(1, "required"), n) /\ Width(Num(1, "required"), n) = 1
          /\ Plain(Count(1, "signers"), n) /\ Width(Count(1, "signers"), n) = 1
          /\ Plain(Body(8, "signers"), n) /\ Width(Body(8, "signers"), n) = 8 * n["signers"]
      BY <1>3, PlainFacts
    <2>2. Measured(write, n, 8 + 4 + 1 + 1 + 1 + 8 * n["signers"])
      BY <2>1, MeasuredSix
    <2>3. DOMAIN unit = {"signers"} /\ unit["signers"] = 8
      OBVIOUS
    <2>4. EscrowCreation = Kind(21, 0, write, write, 8 + 4 + 1 + 1 + 1, unit)
      BY DEF EscrowCreation, Mirrored
    <2> HIDE DEF write, unit
    <2>5. Measured(write, n, (8 + 4 + 1 + 1 + 1) + unit["signers"] * n["signers"])
      BY <2>2, <2>3
    <2> QED
      BY <1>3, <2>3, <2>4, <2>5, FitsOne
  <1> QED
    BY <1>2, <1>3

\* Code and data of an automated transaction, with lengths of changing width.
LEMMA CreationMeasured ==
    ASSUME NEW n, n["code"] \in Nat, n["data"] \in Nat
    PROVE  Measured(CreationBytes, n, (2 + 2 + 2 + 2 + 2 + 2)
                      + (8 + PageWidth(n["codePages"]) + n["code"] + PageWidth(n["dataPages"]) + n["data"]))
  <1> DEFINE first == <<Num(2, "version"), Num(2, "reserved"), Count(2, "codePages"), Count(2, "dataPages"),
                        Num(2, "callStackPages"), Num(2, "userStackPages")>>
             rest == <<Num(8, "minActivation"), Paged("codePages", "code"), Body(1, "code"),
                       Paged("dataPages", "data"), Body(1, "data")>>
  <1>1. Measured(first, n, 2 + 2 + 2 + 2 + 2 + 2)
    <2>1. /\ Plain(Num(2, "version"), n) /\ Width(Num(2, "version"), n) = 2
          /\ Plain(Num(2, "reserved"), n) /\ Width(Num(2, "reserved"), n) = 2
          /\ Plain(Count(2, "codePages"), n) /\ Width(Count(2, "codePages"), n) = 2
          /\ Plain(Count(2, "dataPages"), n) /\ Width(Count(2, "dataPages"), n) = 2
          /\ Plain(Num(2, "callStackPages"), n) /\ Width(Num(2, "callStackPages"), n) = 2
          /\ Plain(Num(2, "userStackPages"), n) /\ Width(Num(2, "userStackPages"), n) = 2
      BY PlainFacts
    <2> QED
      BY <2>1, MeasuredSix
  <1>2. Measured(rest, n, 8 + PageWidth(n["codePages"]) + n["code"] + PageWidth(n["dataPages"]) + n["data"])
    <2>1. /\ Plain(Num(8, "minActivation"), n) /\ Width(Num(8, "minActivation"), n) = 8
          /\ Plain(Body(1, "code"), n) /\ Width(Body(1, "code"), n) = n["code"]
          /\ Plain(Body(1, "data"), n) /\ Width(Body(1, "data"), n) = n["data"]
      <3>1. \A f \in {"code", "data"} : 1 * n[f] = n[f]
        OBVIOUS
      <3> QED
        BY <3>1, PlainFacts
    <2>2. /\ Plain(Paged("codePages", "code"), n)
          /\ Width(Paged("codePages", "code"), n) = PageWidth(n["codePages"])
          /\ Plain(Paged("dataPages", "data"), n)
          /\ Width(Paged("dataPages", "data"), n) = PageWidth(n["dataPages"])
      BY PagedFacts
    <2> QED
      BY <2>1, <2>2, MeasuredFive
  <1>3. CreationBytes = first \o rest
    BY DEF CreationBytes
  <1> HIDE DEF first, rest
  <1> QED
    BY <1>1, <1>2, <1>3, MeasuredConcat

LEMMA AutomatedFits ==
    ASSUME NEW n, \A f \in {"name", "description", "code", "data"} : n[f] \in Nat
    PROVE  Fits(AutomatedTransactionsCreation, n)
  <1> DEFINE k == AutomatedTransactionsCreation
             F == {"name", "description", "code", "data"}
             P == {"codePages", "dataPages"}
             unit == PerByte(F)
             texts == Text(1, "name") \o Text(2, "description")
             v == [f \in DOMAIN unit |-> unit[f] * n[f]]
             w == [p \in P |-> PageWidth(n[p])]
             cp == PageWidth(n["codePages"])
             dp == PageWidth(n["dataPages"])
             fixed == 1 + 2 + 6 * 2 + 8
  <1>1. /\ k.write = texts \o CreationBytes /\ k.fixed = fixed
        /\ k.unit = unit /\ k.pages = P
    BY DEF AutomatedTransactionsCreation, Kind
  <1>2. n["name"] \in Nat /\ n["description"] \in Nat /\ n["code"] \in Nat /\ n["data"] \in Nat
    OBVIOUS
  <1>3. cp \in Nat /\ dp \in Nat
    BY DEF PageWidth
  <1>4. Measured(texts, n, (1 + n["name"]) + (2 + n["description"]))
    <2>1. Measured(Text(1, "name"), n, 1 + n["name"])
          /\ Measured(Text(2, "description"), n, 2 + n["description"])
      BY <1>2, MeasuredText
    <2> QED
      BY <2>1, MeasuredConcat
  <1>5. Measured(CreationBytes, n, (2 + 2 + 2 + 2 + 2 + 2) + (8 + cp + n["code"] + dp + n["data"]))
    BY <1>2, CreationMeasured
  <1> DEFINE all == ((1 + n["name"]) + (2 + n["description"]))
                      + ((2 + 2 + 2 + 2 + 2 + 2) + (8 + cp + n["code"] + dp + n["data"]))
  <1>6. Measured(texts \o CreationBytes, n, all)
    <2> HIDE DEF texts, cp, dp
    <2> QED
      BY <1>4, <1>5, MeasuredConcat
  <1>7. UnitBytes(unit, n) = n["name"] + n["description"] + n["code"] + n["data"]
    <2>1. DOMAIN unit = F /\ \A f \in F : unit[f] = 1
      BY DEF PerByte
    <2>2. \A f \in F : 1 * n[f] = n[f] /\ n[f] \in Nat
      OBVIOUS
    <2> HIDE DEF unit
    <2>3. \A f \in F : unit[f] * n[f] = n[f] /\ v[f] = n[f]
      BY <2>1, <2>2
    <2>4. IsFiniteSet(F)
      <3>1. IsFiniteSet({"data"}) /\ {"data"} \cup {"code"} = {"code", "data"}
        BY FS_Singleton
      <3>2. IsFiniteSet({"code", "data"}) /\ {"code", "data"} \cup {"description"} = {"description", "code", "data"}
        BY <3>1, FS_AddElement
      <3>3. IsFiniteSet({"description", "code", "data"}) /\ {"description", "code", "data"} \cup {"name"} = F
        BY <3>2, FS_AddElement
      <3> QED
        BY <3>3, FS_AddElement
    <2>5. UnitBytes(unit, n) = Sum(v, DOMAIN unit)
      BY <2>1, <2>2, <2>3, <2>4, UnitBytesIsSum
    <2> HIDE DEF v
    <2>6. v["name"] = n["name"] /\ v["description"] = n["description"] /\ v["code"] = n["code"] /\ v["data"] = n["data"]
      BY <2>3
    <2>7. Sum(v, {"name", "description", "code", "data"})
            = n["name"] + n["description"] + n["code"] + n["data"]
      <3>1. v["name"] \in Nat /\ v["description"] \in Nat /\ v["code"] \in Nat /\ v["data"] \in Nat
        BY <1>2, <2>6
      <3>2. n["name"] + n["description"] + n["code"] + n["data"]
              = v["name"] + v["description"] + v["code"] + v["data"]
        BY <2>6
      <3>3. Sum(v, {"name", "description", "code", "data"})
              = v["name"] + v["description"] + v["code"] + v["data"]
        <4> DEFINE y == v["name"] + v["description"] + v["code"] + v["data"]
        <4>1. y = v["name"] + v["description"] + v["code"] + v["data"]
          OBVIOUS
        <4> HIDE DEF y
        <4>2. Sum(v, {"name", "description", "code", "data"}) = y
          BY <3>1, <4>1, SumFour
        <4> QED
          BY <4>1, <4>2
      <3> QED
        BY <3>2, <3>3
    <2> QED
      BY <2>1, <2>5, <2>7
  <1>8. PageBytes(P, n) = cp + dp
    <2>1. IsFiniteSet(P)
      <3>1. IsFiniteSet({"dataPages"}) /\ {"dataPages"} \cup {"codePages"} = P
        BY FS_Singleton
      <3> QED
        BY <3>1, FS_AddElement
    <2>2. PageBytes(P, n) = Sum(w, P)
      BY <2>1, PageBytesIsSum
    <2>3. w["codePages"] = cp /\ w["dataPages"] = dp
      OBVIOUS
    <2> HIDE DEF w, cp, dp
    <2>4. w["codePages"] \in Nat /\ w["dataPages"] \in Nat
      BY <1>3, <2>3
    <2>5. Sum(w, {"codePages", "dataPages"}) = w["codePages"] + w["dataPages"]
      BY <2>4, SumTwo
    <2> QED
      BY <2>2, <2>3, <2>5
  <1> HIDE DEF k, unit, texts, cp, dp, P
  <1>9. all = k.fixed + UnitBytes(k.unit, n) + PageBytes(k.pages, n)
    <2>1. all = fixed + (n["name"] + n["description"] + n["code"] + n["data"]) + (cp + dp)
      BY <1>2, <1>3
    <2> HIDE DEF all, fixed
    <2> QED
      BY <1>1, <1>7, <1>8, <2>1
  <1> HIDE DEF all
  <1>10. Fits(k, n)
    BY <1>1, <1>6, <1>9 DEF Fits
  <1> QED
    BY <1>10 DEF k

\* What is counted of each kind.
LEMMA EveryKindFits ==
    ASSUME NEW v, NEW kind \in DOMAIN typeNameToTransaction(0), NEW n,
           \A f \in Fields(kind, v) : n[f] \in Nat
    PROVE  Fits(typeNameToTransaction(v)[kind], n)
  <1> DEFINE k == typeNameToTransaction(v)[kind]
  <1>1. \A f \in (DOMAIN k.unit) \cup k.pages : n[f] \in Nat
    BY DEF Fields
  <1>2. CASE kind \in {"OrdinaryPayment", "ArbitaryMessage", "RewardRecipientAssignment", "AskOrderPlacement",
                       "BidOrderPlacement", "AskOrderCancellation", "BidOrderCancellation"}
    BY <1>2, FixedFit DEF typeNameToTransaction
  <1>3. CASE kind \in {"DigitalGoodsDelisting", "DigitalGoodsPriceChange", "DigitalGoodsQuantityChange", "DigitalGoodsPurchase",
                       "DigitalGoodsFeedback", "DigitalGoodsRefund"}
    BY <1>3, FixedFit DEF typeNameToTransaction
  <1>4. CASE kind \in {"EffectiveBalanceLeasing", "EscrowSign", "EscrowResult", "SubscriptionSubscribe",
                       "SubscriptionCancel", "SubscriptionPayment"}
    BY <1>4, FixedFit DEF typeNameToTransaction
  <1>5. CASE kind = "AliasBuy"
    <2>1. k = AliasBuy
      BY <1>5 DEF typeNameToTransaction
    <2>2. DOMAIN AliasBuy.unit = {"name"}
      BY DEF AliasBuy, Mirrored, Kind, PerByte
    <2> QED
      BY <1>1, <2>1, <2>2, AliasFits
  <1>6. CASE kind = "AliasSell"
    <2>1. k = AliasSell
      BY <1>6 DEF typeNameToTransaction
    <2>2. DOMAIN AliasSell.unit = {"name"}
      BY DEF AliasSell, Mirrored, Kind, PerByte
    <2> QED
      BY <1>1, <2>1, <2>2, AliasFits
  <1>7. CASE kind = "AliasAssignment"
    <2>1. k = AliasAssignment
      BY <1>7 DEF typeNameToTransaction
    <2>2. DOMAIN AliasAssignment.unit = {"alias", "uri"}
      BY DEF AliasAssignment, Mirrored, Kind, PerByte
    <2> QED
      BY <1>1, <2>1, <2>2, AliasFits
  <1>8. CASE kind = "AccountInfo"
    <2>1. k = AccountInfo
      BY <1>8 DEF typeNameToTransaction
    <2>2. DOMAIN AccountInfo.unit = {"name", "description"}
      BY DEF AccountInfo, Mirrored, Kind, PerByte
    <2> QED
      BY <1>1, <2>1, <2>2, AliasFits
  <1>9. CASE kind = "AssetIssuance"
    <2>1. k = AssetIssuance
      BY <1>9 DEF typeNameToTransaction
    <2>2. DOMAIN AssetIssuance.unit = {"name", "description"}
      BY DEF AssetIssuance, Mirrored, Kind, PerByte
    <2> QED
      BY <1>1, <2>1, <2>2, AssetsFit
  <1>10. CASE kind = "AssetTransfer"
    <2>1. k = AssetTransfer(v)
      BY <1>10 DEF typeNameToTransaction
    <2>2. DOMAIN AssetTransfer(0).unit = {"comment"}
      BY DEF AssetTransfer, Mirrored, Kind, PerByte
    <2>3. CASE v = 0
      BY <1>1, <2>1, <2>2, <2>3, AssetsFit
    <2> QED
      BY <2>1, <2>3, AssetsFit
  <1>11. CASE kind = "DigitalGoodsListing"
    <2>1. k = DigitalGoodsListing
      BY <1>11 DEF typeNameToTransaction
    <2>2. DOMAIN DigitalGoodsListing.unit = {"name", "description", "tags"}
      BY DEF DigitalGoodsListing, Mirrored, Kind, PerByte
    <2> QED
      BY <1>1, <2>1, <2>2, GoodsFit
  <1>12. CASE kind = "DigitalGoodsDelivery"
    <2>1. k = DigitalGoodsDelivery
      BY <1>12 DEF typeNameToTransaction
    <2>2. DOMAIN DigitalGoodsDelivery.unit = {"data"}
      BY DEF DigitalGoodsDelivery, Kind, PerByte
    <2> QED
      BY <1>1, <2>1, <2>2, GoodsFit
  <1>13. CASE kind = "MultiOutCreation"
    <2>1. k = MultiOutCreation
      BY <1>13 DEF typeNameToTransaction
    <2>2. DOMAIN MultiOutCreation.unit = {"recipients"}
      BY DEF MultiOutCreation, Mirrored, Kind
    <2> QED
      BY <1>1, <2>1, <2>2, ListsFit
  <1>14. CASE kind = "MultiSameOutCreation"
    <2>1. k = MultiSameOutCreation
      BY <1>14 DEF typeNameToTransaction
    <2>2. DOMAIN MultiSameOutCreation.unit = {"recipients"}
      BY DEF MultiSameOutCreation, Mirrored, Kind
    <2> QED
      BY <1>1, <2>1, <2>2, ListsFit
  <1>15. CASE kind = "EscrowCreation"
    <2>1. k = EscrowCreation
      BY <1>15 DEF typeNameToTransaction
    <2>2. DOMAIN EscrowCreation.unit = {"signers"}
      BY DEF EscrowCreation, Mirrored, Kind
    <2> QED
      BY <1>1, <2>1, <2>2, ListsFit
  <1>16. CASE kind = "AutomatedTransactionsCreation"
    <2>1. k = AutomatedTransactionsCreation
      BY <1>16 DEF typeNameToTransaction
    <2>2. DOMAIN AutomatedTransactionsCreation.unit = {"name", "description", "code", "data"}
      BY DEF AutomatedTransactionsCreation, Kind, PerByte
    <2> QED
      BY <1>1, <2>1, <2>2, AutomatedFits
  <1> QED
    BY <1>2, <1>3, <1>4, <1>5, <1>6, <1>7, <1>8, <1>9, <1>10, <1>11, <1>12, <1>13, <1>14, <1>15, <1>16 DEF typeNameToTransaction

-----------------------------------------------------------------------------
(* Header, attachment and appendices of a transaction. *)

\* The tenth call and no other is the signature, and it fills 64 bytes from 96 on.
Signed10(s, len, n) ==
    /\ AreCalls(s, len) /\ n \in Nat /\ Bytes(s, len) = n
    /\ 10 <= Len(s) /\ Filled(s, len, 9) = 96 /\ Width(s[10], len) = 64
    /\ \A k \in 1..Len(s) : s[k].f = "signature" <=> k = 10

LEMMA SignedConcat ==
    ASSUME NEW len, NEW s, NEW u, NEW m, NEW n, Signed10(s, len, m), Measured(u, len, n)
    PROVE  Signed10(s \o u, len, m + n)
  <1> DEFINE su == s \o u
  <1>1. /\ Len(s) \in Nat /\ Len(u) \in Nat /\ Len(su) = Len(s) + Len(u)
        /\ \A j \in 1..Len(s) : su[j] = s[j]
        /\ \A j \in 1..Len(u) : su[Len(s) + j] = u[j]
    BY SequenceFacts DEF Measured, Signed10, AreCalls
  <1>2. /\ AreCalls(su, len) /\ Bytes(su, len) = m + n
        /\ \A k \in 0..Len(s) : Filled(su, len, k) = Filled(s, len, k)
    BY FilledConcat DEF Measured, Signed10
  <1> HIDE DEF su
  <1>3. 10 <= Len(su) /\ su[10] = s[10] /\ Filled(su, len, 9) = 96
    BY <1>1, <1>2 DEF Signed10
  <1>4. ASSUME NEW k \in 1..Len(su) PROVE su[k].f = "signature" <=> k = 10
    <2>1. CASE k \in 1..Len(s)
      BY <1>1, <2>1 DEF Signed10
    <2>2. CASE k \notin 1..Len(s)
      <3> DEFINE j == k - Len(s)
      <3>1. j \in 1..Len(u) /\ Len(s) + j = k
        BY <1>1, <2>2
      <3>2. su[k] = u[j]
        BY <1>1, <3>1
      <3>3. u[j].f # "signature"
        BY <3>1 DEF Measured
      <3>4. k # 10
        BY <1>1, <2>2 DEF Signed10
      <3> QED
        BY <3>2, <3>3, <3>4
    <2> QED
      BY <2>1, <2>2
  <1>5. m + n \in Nat /\ Width(su[10], len) = 64
    BY <1>3 DEF Signed10, Measured
  <1> QED
    BY <1>2, <1>3, <1>4, <1>5 DEF Signed10, su

LEMMA FirstCallsSigned ==
    ASSUME NEW n
    PROVE  Signed10(<<Num(1, "type"), Num(1, "subTypeAndVersion"), Num(4, "timestamp"), Num(2, "deadline"),
                      Raw(32, "senderPublicKey"), Num(8, "recipient"), Num(8, "amount"), Num(8, "fee"),
                      Raw(32, "referencedTransactionFullHash"), Raw(64, "signature")>>,
                    n, 2 + 4 + 2 + 32 + 8 + 8 + 8 + 32 + 64)
  <1> DEFINE six == <<Num(1, "type"), Num(1, "subTypeAndVersion"), Num(4, "timestamp"), Num(2, "deadline"),
                      Raw(32, "senderPublicKey"), Num(8, "recipient")>>
             three == <<Num(8, "amount"), Num(8, "fee"), Raw(32, "referencedTransactionFullHash")>>
             nine == six \o three
             last == Raw(64, "signature")
             ten == nine \o <<last>>
  <1>1. Measured(six, n, 1 + 1 + 4 + 2 + 32 + 8)
    <2>1. /\ Plain(Num(1, "type"), n) /\ Width(Num(1, "type"), n) = 1
          /\ Plain(Num(1, "subTypeAndVersion"), n) /\ Width(Num(1, "subTypeAndVersion"), n) = 1
          /\ Plain(Num(4, "timestamp"), n) /\ Width(Num(4, "timestamp"), n) = 4
      BY PlainFacts, SMTT(20)
    <2>2. /\ Plain(Num(2, "deadline"), n) /\ Width(Num(2, "deadline"), n) = 2
          /\ Plain(Raw(32, "senderPublicKey"), n) /\ Width(Raw(32, "senderPublicKey"), n) = 32
          /\ Plain(Num(8, "recipient"), n) /\ Width(Num(8, "recipient"), n) = 8
      BY PlainFacts, SMTT(20)
    <2> QED
      BY <2>1, <2>2, MeasuredSix, SMTT(20)
  <1>2. Measured(three, n, 8 + 8 + 32)
    <2>1. /\ Plain(Num(8, "amount"), n) /\ Width(Num(8, "amount"), n) = 8
          /\ Plain(Num(8, "fee"), n) /\ Width(Num(8, "fee"), n) = 8
          /\ Plain(Raw(32, "referencedTransactionFullHash"), n)
          /\ Width(Raw(32, "referencedTransactionFullHash"), n) = 32
      BY PlainFacts, SMTT(20)
    <2> QED
      BY <2>1, MeasuredThree, SMTT(20)
  <1>3. Len(six) = 6 /\ Len(three) = 3
    OBVIOUS
  <1>4. <<Num(1, "type"), Num(1, "subTypeAndVersion"), Num(4, "timestamp"), Num(2, "deadline"),
          Raw(32, "senderPublicKey"), Num(8, "recipient"), Num(8, "amount"), Num(8, "fee"),
          Raw(32, "referencedTransactionFullHash"), Raw(64, "signature")>> = ten
    OBVIOUS
  <1> HIDE DEF six, three
  <1>5. Measured(nine, n, 96)
    <2>1. Measured(nine, n, (1 + 1 + 4 + 2 + 32 + 8) + (8 + 8 + 32))
      BY <1>1, <1>2, MeasuredConcat
    <2>2. (1 + 1 + 4 + 2 + 32 + 8) + (8 + 8 + 32) = 96
      OBVIOUS
    <2> QED
      BY <2>1, <2>2
  <1>6. Len(nine) = 9
    <2>1. IsSequence(six) /\ IsSequence(three)
      BY <1>1, <1>2 DEF Measured, AreCalls
    <2>2. Len(six \o three) = Len(six) + Len(three)
      BY <2>1, SequenceFacts
    <2> QED
      BY <1>3, <2>2
  <1>7. Width(last, n) = 64 /\ last.f = "signature" /\ last.op # "limit"
    BY DEF Width, Raw
  <1> HIDE DEF nine, last
  <1>8. AreCalls(<<last>>, n) /\ Bytes(<<last>>, n) = 64 /\ Len(<<last>>) = 1 /\ <<last>>[1] = last
    <2> DEFINE s == <<last>>
    <2>1. Len(s) = 1 /\ s[1] = last
      OBVIOUS
    <2>2. IsSequence(s)
      <3>1. s \in Seq({last})
        OBVIOUS
      <3> QED
        BY <3>1 DEF IsSequence
    <2> HIDE DEF s
    <2>3. AreCalls(s, n)
      BY <1>7, <2>1, <2>2 DEF AreCalls, IsCall
    <2>4. Filled(s, n, 1) = Filled(s, n, 1 - 1) + Width(s[1], n) /\ Filled(s, n, 0) = 0
      BY <2>1, <2>3, FilledFacts
    <2>5. Bytes(s, n) = 64
      BY <1>7, <2>1, <2>4 DEF Bytes
    <2> QED
      BY <2>1, <2>3, <2>5 DEF s
  <1>9. AreCalls(nine, n) /\ Bytes(nine, n) = 96 /\ \A k \in 1..9 : nine[k].f # "signature"
    BY <1>5, <1>6 DEF Measured
  <1>10. /\ AreCalls(ten, n) /\ Bytes(ten, n) = 96 + 64
         /\ Filled(ten, n, 9) = Filled(nine, n, 9)
    <2>1. 9 \in 0..Len(nine)
      BY <1>6
    <2> QED
      BY <1>8, <1>9, <2>1, FilledConcat
  <1>11. Len(ten) = 10 /\ ten[10] = last /\ \A k \in 1..9 : ten[k] = nine[k]
    <2>1. IsSequence(nine) /\ IsSequence(<<last>>)
      BY <1>8, <1>9 DEF AreCalls
    <2>2. /\ Len(ten) = Len(nine) + Len(<<last>>)
          /\ \A k \in 1..Len(nine) : ten[k] = nine[k]
          /\ \A k \in 1..Len(<<last>>) : ten[Len(nine) + k] = <<last>>[k]
      BY <2>1, SequenceFacts
    <2> HIDE DEF ten
    <2>3. ten[9 + 1] = last
      BY <1>6, <1>8, <2>2
    <2> QED
      BY <1>6, <1>8, <2>2, <2>3
  <1> HIDE DEF ten
  <1>12. Signed10(ten, n, 2 + 4 + 2 + 32 + 8 + 8 + 8 + 32 + 64)
    <2>1. Filled(ten, n, 9) = 96
      BY <1>6, <1>9, <1>10 DEF Bytes
    <2>2. ASSUME NEW k \in 1..Len(ten) PROVE ten[k].f = "signature" <=> k = 10
      <3>1. CASE k = 10
        BY <1>7, <1>11, <3>1
      <3>2. CASE k # 10
        <4>1. k \in 1..9
          BY <1>11, <3>2
        <4> QED
          BY <1>9, <1>11, <3>2, <4>1
      <3> QED
        BY <3>1, <3>2
    <2>3. 2 + 4 + 2 + 32 + 8 + 8 + 8 + 32 + 64 = 96 + 64
      OBVIOUS
    <2> QED
      BY <1>7, <1>10, <1>11, <2>1, <2>2, <2>3 DEF Signed10
  <1> QED
    BY <1>4, <1>12

LEMMA HeaderSigned ==
    ASSUME NEW t, NEW n, t.version \in Nat
    PROVE  Signed10(WriteHeader(t), n, HeaderSizeInBytes(t))
  <1> DEFINE ten == <<Num(1, "type"), Num(1, "subTypeAndVersion"), Num(4, "timestamp"), Num(2, "deadline"),
                      Raw(32, "senderPublicKey"), Num(8, "recipient"), Num(8, "amount"), Num(8, "fee"),
                      Raw(32, "referencedTransactionFullHash"), Raw(64, "signature")>>
             flags == IF t.version > 0
                      THEN <<Num(4, "flags"), Num(4, "ecBlockHeight"), Num(8, "ecBlockId")>> ELSE <<>>
             byte == IF t.version > 0 /\ HasVersionByte(t) THEN <<Num(1, "attachmentVersion")>> ELSE <<>>
             f == IF t.version > 0 THEN 4 + 4 + 8 ELSE 0
             b == IF t.version > 0 /\ HasVersionByte(t) THEN 1 ELSE 0
             first == 2 + 4 + 2 + 32 + 8 + 8 + 8 + 32 + 64
  <1>1. Signed10(ten, n, first)
    BY FirstCallsSigned
  <1>2. Measured(flags, n, f)
    BY NumThree, MeasuredNone
  <1>3. Measured(byte, n, b)
    BY NumOne, MeasuredNone
  <1>4. WriteHeader(t) = (ten \o flags) \o byte
    BY DEF WriteHeader
  <1>5. (first + f) + b = HeaderSizeInBytes(t)
    BY DEF HeaderSizeInBytes
  <1> HIDE DEF ten, flags, byte, f, b, first
  <1>6. Signed10(ten \o flags, n, first + f)
    BY <1>1, <1>2, SignedConcat
  <1>7. Signed10((ten \o flags) \o byte, n, (first + f) + b)
    BY <1>3, <1>6, SignedConcat
  <1> QED
    BY <1>4, <1>5, <1>7

\* What the encoder writes beyond the size of an appendix: hexadecimal digits,
\* which WriteBytesWithInt32Len counts twice.
Extra(t, p) == IF p \in (t.parts \ t.text) \cap {"enc", "self"} THEN t.n[p] ELSE 0

LEMMA VersionedMeasured ==
    ASSUME NEW t, t.version \in Nat, NEW p \in Parts, NEW rest, NEW n, NEW m, Measured(rest, n, m)
    PROVE  Measured(Versioned(t, p, rest), n, (IF t.version > 0 THEN 1 ELSE 0) + m)
  <1> DEFINE byte == IF t.version > 0 THEN <<Num(1, VersionOf[p])>> ELSE <<>>
             b == IF t.version > 0 THEN 1 ELSE 0
  <1>1. VersionOf[p] # "signature"
    BY DEF VersionOf, Parts
  <1>2. Measured(byte, n, b)
    BY <1>1, NumOne, MeasuredNone
  <1>3. Versioned(t, p, rest) = byte \o rest
    BY DEF Versioned
  <1> HIDE DEF byte
  <1> QED
    BY <1>2, <1>3, MeasuredConcat

LEMMA PartMeasured ==
    ASSUME NEW t, t.version \in Nat, NEW p \in Parts, p \in t.parts, t.n[p] \in Nat
    PROVE  Measured(WritePart(t, p), t.n, PartSize(t, p) + Extra(t, p))
  <1> DEFINE n == t.n
             b == IF t.version > 0 THEN 1 ELSE 0
  <1>1. b \in Nat /\ p # "signature" /\ n[p] \in Nat
    BY DEF Parts
  <1>2. Measured(<<Count(4, p), Body(1, p)>>, n, 4 + n[p])
    BY <1>1, MeasuredText DEF Text
  <1>3. CASE p = "msg"
    <2>1. WritePart(t, p) = Versioned(t, p, <<Count(4, p), Body(1, p)>>)
      BY <1>3 DEF WritePart, WriteStringBytesWithInt32Len
    <2>2. Measured(WritePart(t, p), n, b + (4 + n[p]))
      BY <1>2, <2>1, VersionedMeasured
    <2>3. PartSize(t, p) + Extra(t, p) = b + (4 + n[p])
      BY <1>1, <1>3 DEF PartSize, Extra
    <2> QED
      BY <2>2, <2>3
  <1>4. CASE p = "pk"
    <2>1. WritePart(t, p) = Versioned(t, p, <<Raw(32, "publicKey")>>)
      BY <1>4 DEF WritePart
    <2>2. Measured(<<Raw(32, "publicKey")>>, n, 32)
      <3>1. Plain(Raw(32, "publicKey"), n) /\ Width(Raw(32, "publicKey"), n) = 32
        BY PlainFacts
      <3> QED
        BY <3>1, MeasuredOne
    <2>3. Measured(WritePart(t, p), n, b + 32)
      BY <2>1, <2>2, VersionedMeasured
    <2>4. PartSize(t, p) + Extra(t, p) = b + 32
      BY <1>1, <1>4 DEF PartSize, Extra
    <2> QED
      BY <2>3, <2>4
  <1>5. CASE p \in {"enc", "self"}
    <2> DEFINE data == WriteBytesWithInt32Len(t, p)
               nonce == Raw(32, NonceOf[p])
    <2>1. WritePart(t, p) = Versioned(t, p, data \o <<nonce>>)
      BY <1>5 DEF WritePart
    <2>2. Measured(<<nonce>>, n, 32)
      <3>1. NonceOf[p] # "signature"
        BY <1>5 DEF NonceOf
      <3>2. Plain(nonce, n) /\ Width(nonce, n) = 32
        BY <3>1, PlainFacts
      <3> HIDE DEF nonce
      <3> QED
        BY <3>2, MeasuredOne
    <2>3. Extra(t, p) \in Nat
      BY <1>1 DEF Extra
    <2>4. Measured(data, n, 4 + n[p] + Extra(t, p))
      <3>1. CASE p \in t.text
        <4>1. data = <<Count(4, p), Body(1, p)>> /\ Extra(t, p) = 0
          BY <3>1 DEF WriteBytesWithInt32Len, Extra
        <4>2. 4 + n[p] + Extra(t, p) = 4 + n[p]
          BY <1>1, <4>1
        <4> QED
          BY <1>2, <4>1, <4>2
      <3>2. CASE p \notin t.text
        <4>1. data = <<Count(4, p), Body(2, p)>> /\ Extra(t, p) = n[p]
          BY <1>5, <3>2 DEF WriteBytesWithInt32Len, Extra
        <4>2. /\ Plain(Count(4, p), n) /\ Width(Count(4, p), n) = 4
              /\ Plain(Body(2, p), n) /\ Width(Body(2, p), n) = 2 * n[p]
          BY <1>1, PlainFacts
        <4>3. Measured(<<Count(4, p), Body(2, p)>>, n, 4 + 2 * n[p])
          BY <4>2, MeasuredTwo
        <4>4. 4 + n[p] + Extra(t, p) = 4 + 2 * n[p]
          BY <1>1, <4>1
        <4> QED
          BY <4>1, <4>3, <4>4
      <3> QED
        BY <3>1, <3>2
    <2> HIDE DEF data, nonce
    <2>5. Measured(data \o <<nonce>>, n, (4 + n[p] + Extra(t, p)) + 32)
      BY <2>2, <2>4, MeasuredConcat
    <2>6. Measured(WritePart(t, p), n, b + ((4 + n[p] + Extra(t, p)) + 32))
      BY <2>1, <2>5, VersionedMeasured
    <2>7. PartSize(t, p) + Extra(t, p) = b + ((4 + n[p] + Extra(t, p)) + 32)
      <3>1. PartSize(t, p) = (4 + n[p] + 32) + b
        BY <1>5 DEF PartSize
      <3> HIDE DEF n, b
      <3> QED
        BY <1>1, <2>3, <3>1
    <2> QED
      BY <2>6, <2>7
  <1> QED
    BY <1>3, <1>4, <1>5 DEF Parts

\* A transaction that is written: its kind and version are some the code knows,
\* and all fields have a length.
Written(t) ==
    /\ t.kind \in DOMAIN typeNameToTransaction(0) /\ t.version \in Nat
    /\ \A f \in Fields(t.kind, t.version) \cup Parts : t.n[f] \in Nat

LEMMA AppendixMeasured ==
    ASSUME NEW t, Written(t)
    PROVE  /\ AppendixSizeInBytes(t) \in Nat /\ Extra(t, "enc") \in Nat /\ Extra(t, "self") \in Nat
           /\ Measured(WriteAppendix(t), t.n,
                       AppendixSizeInBytes(t) + (Extra(t, "enc") + Extra(t, "self")))
  <1> DEFINE part(p) == IF p \in t.parts THEN WritePart(t, p) ELSE <<>>
             s(p) == IF p \in t.parts THEN PartSize(t, p) ELSE 0
             x(p) == Extra(t, p)
             enc == Extra(t, "enc")
             self == Extra(t, "self")
  <1>1. ASSUME NEW p \in Parts PROVE Measured(part(p), t.n, s(p) + x(p)) /\ s(p) \in Nat /\ x(p) \in Nat
    <2>1. t.version \in Nat /\ t.n[p] \in Nat
      BY DEF Written
    <2>2. x(p) \in Nat
      BY <2>1 DEF Extra
    <2>3. PartSize(t, p) \in Nat
      <3>1. CASE p = "msg"
        BY <2>1, <3>1 DEF PartSize
      <3>2. CASE p = "pk"
        BY <2>1, <3>2 DEF PartSize
      <3>3. CASE p \in {"enc", "self"}
        BY <2>1, <3>3 DEF PartSize
      <3> QED
        BY <3>1, <3>2, <3>3 DEF Parts
    <2>4. CASE p \in t.parts
      BY <2>1, <2>2, <2>3, <2>4, PartMeasured
    <2>5. CASE p \notin t.parts
      <3>1. x(p) = 0 /\ s(p) = 0 /\ part(p) = <<>>
        BY <2>5 DEF Extra
      <3> HIDE DEF x, s, part
      <3>2. s(p) + x(p) = 0
        BY <3>1
      <3> QED
        BY <3>1, <3>2, MeasuredNone
    <2> QED
      BY <2>4, <2>5
  <1>2. x("msg") = 0 /\ x("pk") = 0
    BY DEF Extra
  <1>3. /\ WriteAppendix(t) = ((part("msg") \o part("enc")) \o part("pk")) \o part("self")
        /\ AppendixSizeInBytes(t) = s("msg") + s("enc") + s("pk") + s("self")
    BY DEF WriteAppendix, AppendixSizeInBytes
  <1>4. /\ s("msg") \in Nat /\ s("enc") \in Nat /\ s("pk") \in Nat /\ s("self") \in Nat
        /\ x("enc") \in Nat /\ x("self") \in Nat
        /\ Measured(part("msg"), t.n, s("msg") + x("msg")) /\ Measured(part("enc"), t.n, s("enc") + x("enc"))
        /\ Measured(part("pk"), t.n, s("pk") + x("pk")) /\ Measured(part("self"), t.n, s("self") + x("self"))
    BY <1>1 DEF Parts
  <1> HIDE DEF part, s, x
  <1>5. Measured(part("msg") \o part("enc"), t.n, (s("msg") + x("msg")) + (s("enc") + x("enc")))
    BY <1>4, MeasuredConcat
  <1>6. Measured((part("msg") \o part("enc")) \o part("pk"), t.n,
                 ((s("msg") + x("msg")) + (s("enc") + x("enc"))) + (s("pk") + x("pk")))
    BY <1>4, <1>5, MeasuredConcat
  <1>7. Measured(((part("msg") \o part("enc")) \o part("pk")) \o part("self"), t.n,
                 (((s("msg") + x("msg")) + (s("enc") + x("enc"))) + (s("pk") + x("pk")))
                   + (s("self") + x("self")))
    BY <1>4, <1>6, MeasuredConcat
  <1>8. (((s("msg") + x("msg")) + (s("enc") + x("enc"))) + (s("pk") + x("pk"))) + (s("self") + x("self"))
          = (s("msg") + s("enc") + s("pk") + s("self")) + (x("enc") + x("self"))
    BY <1>2, <1>4
  <1>9. x("enc") = Extra(t, "enc") /\ x("self") = Extra(t, "self")
    BY DEF x
  <1> QED
    BY <1>3, <1>4, <1>7, <1>8, <1>9

\* All together: the calls fill the size, and more exactly for hexadecimal secrets.
LEMMA SizeIsExact ==
    ASSUME NEW t, Written(t)
    PROVE  /\ NewEncoderSize(t) \in Nat
           /\ \E n \in Nat : /\ Signed10(ToBytes(t), t.n, NewEncoderSize(t) + n)
                             /\ n > 0 <=> HexSecret(t)
  <1> DEFINE k == KindOf(t)
             body == AttachmentSizeInBytes(t)
             n == Extra(t, "enc") + Extra(t, "self")
             h == HeaderSizeInBytes(t)
             a == AppendixSizeInBytes(t)
  <1>1. Signed10(WriteHeader(t), t.n, h) /\ h \in Nat
    BY HeaderSigned DEF Written, Signed10
  <1>2. Measured(k.write, t.n, body) /\ body \in Nat
    <2>1. Fits(k, t.n)
      BY EveryKindFits DEF Written, KindOf
    <2>2. body = k.fixed + UnitBytes(k.unit, t.n) + PageBytes(k.pages, t.n)
      BY DEF AttachmentSizeInBytes, UnitBytes, PageBytes
    <2> HIDE DEF k, body
    <2>3. Measured(k.write, t.n, body)
      BY <2>1, <2>2 DEF Fits
    <2> QED
      BY <2>3 DEF Measured
  <1>3. Measured(WriteAppendix(t), t.n, a + n) /\ a \in Nat /\ n \in Nat
    BY AppendixMeasured
  <1>4. NewEncoderSize(t) = h + body + a
    BY DEF NewEncoderSize
  <1>5. ToBytes(t) = (WriteHeader(t) \o k.write) \o WriteAppendix(t)
    BY DEF ToBytes
  <1>6. n > 0 <=> HexSecret(t)
    <2>1. \A p \in {"enc", "self"} : t.n[p] \in Nat
      BY DEF Written, Parts
    <2>2. \A p \in {"enc", "self"} : Extra(t, p) \in Nat /\ (Extra(t, p) > 0 <=> p \in t.parts \ t.text /\ t.n[p] > 0)
      BY <2>1 DEF Extra
    <2>3. n > 0 <=> Extra(t, "enc") > 0 \/ Extra(t, "self") > 0
      BY <2>2
    <2> QED
      BY <2>2, <2>3 DEF HexSecret
  <1> HIDE DEF k, body, n, h, a
  <1>7. Signed10(WriteHeader(t) \o k.write, t.n, h + body)
    BY <1>1, <1>2, SignedConcat
  <1>8. Signed10(ToBytes(t), t.n, (h + body) + (a + n))
    BY <1>3, <1>5, <1>7, SignedConcat
  <1>9. (h + body) + (a + n) = NewEncoderSize(t) + n /\ NewEncoderSize(t) \in Nat
    BY <1>1, <1>2, <1>3, <1>4
  <1> QED
    BY <1>3, <1>6, <1>8, <1>9

-----------------------------------------------------------------------------
(* The encoder at work. *)

\* What is written so far: a prefix of the calls, each where the ones before end.
Progress(t) ==
    LET s == ToBytes(t)
        p == Len(items)
    IN  /\ IsSequence(items) /\ p <= Len(s)
        /\ IsSequence(left) /\ Len(left) = Len(s) - p /\ \A j \in 1..Len(left) : left[j] = s[p + j]
        /\ size = NewEncoderSize(t) /\ cursor = Filled(s, t.n, p) /\ cursor <= size
        /\ \A k \in 1..p : /\ items[k].f = s[k].f /\ items[k].w = Width(s[k], t.n)
                           /\ items[k].at = Filled(s, t.n, k - 1)

EncoderInv ==
    /\ Written(tx)
    /\ phase = "writePanic" => HexSecret(tx)
    /\ phase = "write" => Progress(tx)

LEMMA GivenIsWritten == TransactionInit => Written(tx)
  <1> SUFFICES ASSUME NEW kind \in DOMAIN typeNameToTransaction(0), NEW v \in Versions, NEW a \in Appendices,
                      NEW len \in [Fields(kind, v) -> UNION {Lengths[f] : f \in Fields(kind, v)}],
                      \A f \in DOMAIN len : len[f] \in Lengths[f],
                      tx = [kind |-> kind, version |-> v, parts |-> a.parts, text |-> a.text,
                            n |-> [f \in Fields(kind, v) \cup Parts |->
                                     IF f \in Parts THEN a.n[f] ELSE len[f]]]
               PROVE  Written(tx)
    BY DEF TransactionInit
  <1>1. /\ tx.kind = kind /\ tx.version = v
        /\ tx.n = [f \in Fields(kind, v) \cup Parts |-> IF f \in Parts THEN a.n[f] ELSE len[f]]
    OBVIOUS
  <1>2. v \in Nat
    BY VersionsAssumption
  <1>3. ASSUME NEW f \in Fields(kind, v) \cup Parts PROVE tx.n[f] \in Nat
    <2>1. \A p \in Parts : a.n[p] \in Nat
      BY AppendicesAssumption
    <2>2. DOMAIN len = Fields(kind, v) /\ \A g \in Fields(kind, v) : len[g] \in Nat
      BY LengthsAssumption
    <2> QED
      BY <1>1, <2>1, <2>2
  <1> QED
    BY <1>1, <1>2, <1>3 DEF Written

LEMMA WritingBegins == TransactionInit => EncoderInv
  <1> SUFFICES ASSUME TransactionInit PROVE EncoderInv
    OBVIOUS
  <1>1. Written(tx)
    BY GivenIsWritten
  <1> DEFINE s == ToBytes(tx)
  <1>2. PICK n \in Nat : Signed10(s, tx.n, NewEncoderSize(tx) + n)
    BY <1>1, SizeIsExact
  <1>3. NewEncoderSize(tx) \in Nat
    BY <1>1, SizeIsExact
  <1>4. phase = "write" /\ left = s /\ size = NewEncoderSize(tx) /\ cursor = 0 /\ items = <<>>
    BY DEF TransactionInit
  <1> HIDE DEF s
  <1>5. AreCalls(s, tx.n) /\ IsSequence(s) /\ Len(s) \in Nat
    BY <1>2, SequenceFacts DEF Signed10, AreCalls
  <1>6. IsSequence(items) /\ Len(items) = 0
    BY <1>4 DEF IsSequence
  <1>7. Filled(s, tx.n, 0) = 0
    BY <1>5, FilledFacts
  <1>8. Progress(tx)
    <2>1. /\ IsSequence(left) /\ Len(left) = Len(s) - Len(items) /\ Len(items) <= Len(s)
          /\ \A j \in 1..Len(left) : left[j] = s[Len(items) + j]
      BY <1>4, <1>5, <1>6
    <2>2. cursor = Filled(s, tx.n, Len(items)) /\ cursor <= size
      BY <1>3, <1>4, <1>6, <1>7
    <2>3. \A k \in 1..Len(items) : FALSE
      BY <1>6
    <2> QED
      BY <1>4, <1>6, <2>1, <2>2, <2>3 DEF Progress, s
  <1> QED
    BY <1>1, <1>4, <1>8 DEF EncoderInv

\* The next call of the encoder.
LEMMA NextCall ==
    ASSUME Written(tx), Progress(tx), left # <<>>
    PROVE  LET s == ToBytes(tx)
               p == Len(items) + 1
           IN  /\ AreCalls(s, tx.n) /\ Len(s) \in Nat /\ Len(items) \in Nat
               /\ p \in 1..Len(s) /\ Call = s[p] /\ IsCall(Call, tx.n)
               /\ Filled(s, tx.n, p) = cursor + Width(Call, tx.n)
  <1> DEFINE s == ToBytes(tx)
             p == Len(items) + 1
  <1>1. PICK n \in Nat : Signed10(s, tx.n, NewEncoderSize(tx) + n)
    BY SizeIsExact
  <1>2. AreCalls(s, tx.n)
    BY <1>1 DEF Signed10
  <1> HIDE DEF s
  <1>3. Len(s) \in Nat /\ Len(items) \in Nat /\ Len(left) \in Nat
    BY <1>2, SequenceFacts DEF AreCalls, Progress
  <1>4. Len(left) = Len(s) - Len(items) /\ \A j \in 1..Len(left) : left[j] = s[Len(items) + j]
    BY DEF Progress, s
  <1>5. Len(left) # 0 /\ Call = left[1]
    <2>1. PICK S : left \in Seq(S)
      BY DEF Progress, IsSequence
    <2> QED
      BY <2>1 DEF Call
  <1>6. p \in 1..Len(s) /\ Call = s[p]
    BY <1>3, <1>4, <1>5
  <1>7. IsCall(Call, tx.n)
    BY <1>2, <1>6 DEF AreCalls
  <1>8. cursor = Filled(s, tx.n, Len(items))
    BY DEF Progress, s
  <1>9. Filled(s, tx.n, p) = cursor + Width(Call, tx.n)
    <2>1. Filled(s, tx.n, p) = Filled(s, tx.n, p - 1) + Width(s[p], tx.n)
      BY <1>2, <1>6, FilledFacts
    <2>2. p - 1 = Len(items)
      BY <1>3
    <2> HIDE DEF p
    <2> QED
      BY <1>6, <1>8, <2>1, <2>2
  <1> QED
    BY <1>2, <1>3, <1>6, <1>7, <1>9 DEF s

LEMMA WriteStep ==
    ASSUME EncoderInv, Write
    PROVE  EncoderInv'
  <1> DEFINE s == ToBytes(tx)
             n == tx.n
             p == Len(items)
             q == p + 1
             w == Width(Call, n)
  <1>1. /\ Written(tx) /\ Progress(tx) /\ phase = "write" /\ left # <<>> /\ ~Overrun(n)
        /\ tx' = tx /\ phase' = phase /\ size' = size /\ cursor' = cursor + w /\ left' = Tail(left)
    BY DEF EncoderInv, Write
  <1>2. PICK e : items' = Append(items, e) /\ e.at = cursor /\ e.w = w /\ e.f = Call.f
    BY DEF Write
  <1>3. /\ AreCalls(s, n) /\ Len(s) \in Nat /\ p \in Nat /\ q \in 1..Len(s)
        /\ Call = s[q] /\ IsCall(Call, n) /\ Filled(s, n, q) = cursor + w
    BY <1>1, NextCall
  <1>4. /\ IsSequence(items) /\ IsSequence(left) /\ Len(left) = Len(s) - p
        /\ \A j \in 1..Len(left) : left[j] = s[p + j]
        /\ size = NewEncoderSize(tx) /\ cursor = Filled(s, n, p)
        /\ \A k \in 1..p : items[k].f = s[k].f /\ items[k].w = Width(s[k], n)
                           /\ items[k].at = Filled(s, n, k - 1)
    BY <1>1 DEF Progress
  <1>5. cursor + w <= size
    <2>1. ~(cursor + w > size)
      BY <1>1, <1>3 DEF Overrun, IsCall
    <2>2. size \in Nat /\ cursor + w \in Nat
      <3>1. size \in Nat
        BY <1>1, <1>4, SizeIsExact
      <3>2. Filled(s, n, q) \in Nat
        <4>1. q \in 0..Len(s)
          BY <1>3
        <4> HIDE DEF q
        <4> QED
          BY <1>3, <4>1, FilledFacts
      <3> QED
        BY <1>3, <3>1, <3>2
    <2> QED
      BY <2>1, <2>2
  <1>6. IsSequence(items') /\ Len(items') = q /\ items'[q] = e /\ \A k \in 1..p : items'[k] = items[k]
    <2>1. PICK S : items \in Seq(S)
      BY <1>4 DEF IsSequence
    <2> DEFINE T == S \cup {e}
    <2>2. items \in Seq(T) /\ e \in T
      BY <2>1
    <2> HIDE DEF T
    <2>3. Append(items, e) \in Seq(T)
      BY <2>2
    <2> QED
      BY <1>2, <2>2, <2>3 DEF IsSequence
  <1>7. /\ IsSequence(left') /\ Len(left') = Len(left) - 1
        /\ \A j \in 1..Len(left') : left'[j] = left[j + 1]
    <2>1. PICK S : left \in Seq(S)
      BY <1>4 DEF IsSequence
    <2>2. Tail(left) \in Seq(S)
      BY <1>1, <2>1
    <2> QED
      BY <1>1, <2>1, <2>2 DEF IsSequence
  <1> HIDE DEF s, n
  <1>8. Len(left') = Len(s) - q /\ \A j \in 1..Len(left') : left'[j] = s[q + j]
    <2>1. Len(left') = Len(s) - q
      BY <1>3, <1>4, <1>7
    <2>2. ASSUME NEW j \in 1..Len(left') PROVE left'[j] = s[q + j]
      <3>1. j + 1 \in 1..Len(left) /\ p + (j + 1) = q + j
        BY <1>3, <1>4, <1>7
      <3>2. left'[j] = left[j + 1] /\ left[j + 1] = s[p + (j + 1)]
        BY <1>4, <1>7, <3>1
      <3> QED
        BY <3>1, <3>2
    <2> QED
      BY <2>1, <2>2
  <1>9. ASSUME NEW k \in 1..q
        PROVE  /\ items'[k].f = s[k].f /\ items'[k].w = Width(s[k], n)
               /\ items'[k].at = Filled(s, n, k - 1)
    <2>1. CASE k = q
      <3>1. k - 1 = p
        BY <1>3, <2>1
      <3> HIDE DEF p, q, w
      <3>2. items'[k] = e /\ s[k] = Call /\ Width(s[k], n) = w
        BY <1>3, <1>6, <2>1 DEF w
      <3> QED
        BY <1>2, <1>4, <3>1, <3>2
    <2>2. CASE k # q
      <3>1. k \in 1..p
        BY <1>3, <2>2
      <3> HIDE DEF p, q
      <3> QED
        BY <1>4, <1>6, <3>1
    <2> QED
      BY <2>1, <2>2
  <1>10. Progress(tx)'
    <2>1. ToBytes(tx)' = s /\ (tx.n)' = n /\ NewEncoderSize(tx)' = size' /\ Len(items)' = q
      <3>1. tx' = tx
        BY <1>1
      <3>2. ToBytes(tx') = s /\ tx'.n = n /\ NewEncoderSize(tx') = size'
        BY <1>1, <1>4, <3>1 DEF s, n
      <3> QED
        BY <1>6, <3>2
    <2>2. q <= Len(s)
      BY <1>3
    <2>3. cursor' = Filled(s, n, q) /\ cursor' <= size'
      BY <1>1, <1>3, <1>5
    <2> HIDE DEF q, p, w
    <2> QED
      BY <1>6, <1>7, <1>8, <1>9, <2>1, <2>2, <2>3 DEF Progress
  <1>11. Written(tx)' /\ phase' = "write"
    BY <1>1
  <1> QED
    BY <1>10, <1>11 DEF EncoderInv

\* The encoder panics only where there is more to write than there is room.
LEMMA PanicStep ==
    ASSUME EncoderInv, Panic
    PROVE  EncoderInv'
  <1>1. Written(tx) /\ tx' = tx /\ phase' # "write"
    BY DEF EncoderInv, Panic
  <1>2. ASSUME phase' = "writePanic" PROVE HexSecret(tx)
    <2> DEFINE s == ToBytes(tx)
               n == tx.n
               p == Len(items) + 1
    <2>1. phase = "write" /\ Overrun(n) /\ Progress(tx)
      BY <1>2 DEF EncoderInv, Panic
    <2>2. left # <<>> /\ cursor + Width(Call, n) > size
      BY <2>1 DEF Overrun
    <2>3. /\ AreCalls(s, n) /\ Len(s) \in Nat /\ p \in 1..Len(s)
          /\ Filled(s, n, p) = cursor + Width(Call, n)
      BY <1>1, <2>1, <2>2, NextCall
    <2>4. PICK x \in Nat : Signed10(s, n, NewEncoderSize(tx) + x) /\ (x > 0 <=> HexSecret(tx))
      BY <1>1, SizeIsExact
    <2>5. size = NewEncoderSize(tx) /\ size \in Nat
      BY <1>1, <2>1, SizeIsExact DEF Progress
    <2>6. Bytes(s, n) = size + x
      BY <2>4, <2>5 DEF Signed10
    <2> HIDE DEF s, n, p
    <2>7. p \in 0..Len(s) /\ Len(s) \in p..Len(s) /\ Len(s) \in 0..Len(s)
      BY <2>3
    <2>8. Filled(s, n, p) <= Bytes(s, n)
      BY <2>3, <2>7, FilledGrows DEF Bytes
    <2>9. Filled(s, n, p) \in Nat
      BY <2>3, <2>7, FilledFacts
    <2>10. x > 0
      BY <2>2, <2>3, <2>5, <2>6, <2>8, <2>9
    <2> QED
      BY <2>4, <2>10
  <1>3. Written(tx') /\ (phase' = "writePanic" => HexSecret(tx'))
    BY <1>1, <1>2
  <1> QED
    BY <1>1, <1>3 DEF EncoderInv

LEMMA EncoderInvariance == TransactionSpec => []EncoderInv
  <1>1. EncoderInv /\ [TransactionNext]_transactionVars => EncoderInv'
    <2> SUFFICES ASSUME EncoderInv, [TransactionNext]_transactionVars PROVE EncoderInv'
      OBVIOUS
    <2>1. CASE Write
      BY <2>1, WriteStep
    <2>2. CASE Panic
      BY <2>2, PanicStep
    <2>3. CASE StartRead \/ Read \/ ReadLimit \/ StartRewrite \/ Rewrite \/ Finish
      <3>1. tx' = tx /\ phase' \notin {"write", "writePanic"}
        BY <2>3 DEF StartRead, Read, ReadLimit, StartRewrite, Rewrite, Finish
      <3>2. Written(tx')
        BY <3>1 DEF EncoderInv
      <3> QED
        BY <3>1, <3>2 DEF EncoderInv
    <2>4. CASE UNCHANGED transactionVars
      BY <2>4 DEF transactionVars, EncoderInv, Progress
    <2> QED
      BY <2>1, <2>2, <2>3, <2>4 DEF TransactionNext
  <1> QED
    BY <1>1, WritingBegins, PTL DEF TransactionSpec

LEMMA WrittenExactly == EncoderInv => EncodesExactly
  <1> SUFFICES ASSUME EncoderInv, phase = "write", left = <<>>
               PROVE  /\ cursor = size /\ ~HexSecret(tx)
                      /\ \A k \in DOMAIN items :
                            items[k].f = "signature" <=> items[k].at = 96 /\ items[k].w = 64
    BY DEF EncoderInv, EncodesExactly
  <1> DEFINE s == ToBytes(tx)
             n == tx.n
             p == Len(items)
  <1>1. Written(tx) /\ Progress(tx)
    BY DEF EncoderInv
  <1>2. PICK x \in Nat : Signed10(s, n, NewEncoderSize(tx) + x) /\ (x > 0 <=> HexSecret(tx))
    BY <1>1, SizeIsExact
  <1>3. size = NewEncoderSize(tx) /\ size \in Nat /\ cursor = Filled(s, n, p) /\ cursor <= size
    BY <1>1, SizeIsExact DEF Progress
  <1>4. AreCalls(s, n) /\ Bytes(s, n) = size + x
    BY <1>2, <1>3 DEF Signed10
  <1> HIDE DEF s, n
  <1>5. p = Len(s) /\ Len(s) \in Nat
    <2>1. Len(left) = 0 /\ Len(left) = Len(s) - p /\ IsSequence(items)
      BY <1>1 DEF Progress, s
    <2>2. p \in Nat /\ Len(s) \in Nat
      BY <1>4, <2>1, SequenceFacts DEF AreCalls
    <2> HIDE DEF p
    <2> QED
      BY <2>1, <2>2
  <1>6. x = 0 /\ cursor = size
    <2>1. cursor = Bytes(s, n)
      BY <1>3, <1>5 DEF Bytes
    <2> QED
      BY <1>3, <1>4, <2>1
  <1>7. DOMAIN items = 1..Len(s)
    BY <1>1, <1>5, SequenceFacts DEF Progress
  <1>8. ASSUME NEW k \in 1..Len(s)
        PROVE  items[k].f = "signature" <=> items[k].at = 96 /\ items[k].w = 64
    <2>1. items[k].f = s[k].f /\ items[k].w = Width(s[k], n) /\ items[k].at = Filled(s, n, k - 1)
      BY <1>1, <1>5 DEF Progress, s, n
    <2>2. /\ 10 <= Len(s) /\ Filled(s, n, 9) = 96 /\ Width(s[10], n) = 64
          /\ s[k].f = "signature" <=> k = 10
      BY <1>2 DEF Signed10
    <2>3. CASE k = 10
      BY <2>1, <2>2, <2>3
    <2>4. CASE k > 10
      <3>1. Filled(s, n, 10) <= Filled(s, n, k - 1)
        <4>1. 10 \in 0..Len(s) /\ k - 1 \in 10..Len(s)
          BY <1>5, <2>4
        <4> QED
          BY <1>4, <4>1, FilledGrows
      <3>2. Filled(s, n, 10) = Filled(s, n, 10 - 1) + Width(s[10], n)
        <4>1. 10 \in 1..Len(s)
          BY <1>5, <2>2
        <4> QED
          BY <1>4, <4>1, FilledFacts
      <3>3. Filled(s, n, 10) = 160
        BY <2>2, <3>2
      <3>4. Filled(s, n, k - 1) \in Nat
        <4>1. k - 1 \in 0..Len(s)
          BY <1>5
        <4> QED
          BY <1>4, <4>1, FilledFacts
      <3>5. Filled(s, n, k - 1) # 96
        BY <3>1, <3>3, <3>4
      <3> QED
        BY <2>1, <2>2, <2>4, <3>5
    <2>5. CASE k < 10
      <3>1. ASSUME Filled(s, n, k - 1) = 96, Width(s[k], n) = 64 PROVE FALSE
        <4>1. k \in 0..Len(s) /\ 9 \in k..Len(s) /\ k \in 1..Len(s)
          BY <1>5, <2>2, <2>5
        <4>2. Filled(s, n, k) <= Filled(s, n, 9)
          BY <1>4, <4>1, FilledGrows
        <4>3. Filled(s, n, k) = Filled(s, n, k - 1) + Width(s[k], n)
          BY <1>4, <4>1, FilledFacts
        <4> QED
          BY <2>2, <3>1, <4>2, <4>3
      <3> QED
        BY <2>1, <2>2, <2>5, <3>1
    <2> QED
      BY <2>3, <2>4, <2>5
  <1> QED
    BY <1>2, <1>6, <1>7, <1>8

\* Whatever the transaction and the lengths of its fields, ToBytes writes as many
\* bytes as the three size functions promise, or panics, and then only for a secret
\* in hexadecimal digits; and its signature is where ValidateAndGetBytes clears it.
THEOREM EveryKindEncodesExactly == TransactionSpec => []EncodesExactly
  BY EncoderInvariance, WrittenExactly, PTL
====
