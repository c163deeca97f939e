---------------------------- MODULE ATMachineProofs ----------------------------
(***************************************************************************)
(* Proofs about the virtual machine: whatever the code, its stacks stay in *)
(* their places while it runs, and it behaves as the abstract machine with *)
(* data and two stacks; and its registers compute as numbers of their      *)
(* width do.  For the last, the bytes that bigIntToPaddedBuffer writes are *)
(* sums over sets of powers of two, so that the second half begins with    *)
(* what is needed of such sums, of powers and of division.                 *)
(***************************************************************************)
EXTENDS ATMachine, FiniteSetTheorems, SequenceTheorems, TLAPS

LEMMA LengthIsNat == ASSUME NEW op \in Ops PROVE Length(op) \in Nat \ {0}
  <1> USE DEF Length, NoOps, AddrOps, UnaryOps, PairOps, BinaryOps, ReverseOps, TripleOps,
              Branch1Ops, Branch2Ops, Fun1Ops, Fun2Ops
  <1>1. CASE op \in NoOps \cup AddrOps \cup {"SetVal"}
    BY <1>1, SMT
  <1>2. CASE op \in PairOps \cup TripleOps
    BY <1>2, SMT
  <1>3. CASE op \in Branch1Ops \cup Branch2Ops
    BY <1>3, SMT
  <1>4. CASE op \in {"ExtFun"} \cup Fun1Ops \cup Fun2Ops \cup {"ExtFunRetDat2"}
    BY <1>4, SMT
  <1> QED
    BY <1>1, <1>2, <1>3, <1>4 DEF Ops

\* What is known of an instruction that is executed.
Fetched(i) == i.op \in Ops /\ i.imm \in Int /\ pc \in 0..CSize - 1

\* The addresses of an instruction that runs are words of data.
LEMMA AddressesValid ==
  ASSUME NEW i, ~Overflows(i), NEW n \in 1..Arity(i.op) PROVE i.addr[n] \in Address
  BY DEF Overflows, Valid

LEMMA Arities ==
  ASSUME NEW i
  PROVE  /\ i.op \in AddrOps \cup {"SetVal"} \cup Branch1Ops \cup Fun1Ops => 1 \in 1..Arity(i.op)
         /\ i.op \in PairOps \cup Branch2Ops \cup Fun2Ops => {1, 2} \subseteq 1..Arity(i.op)
         /\ i.op \in TripleOps \cup {"ExtFunRetDat2"} => {1, 2, 3} \subseteq 1..Arity(i.op)
  BY DEF Arity, NoOps, AddrOps, UnaryOps, PairOps, BinaryOps, ReverseOps, TripleOps,
         Branch1Ops, Branch2Ops, Fun1Ops, Fun2Ops

-----------------------------------------------------------------------------
IInv == TypeOK /\ StacksInBounds

LEMMA Sizes == /\ CSize \in Nat \ {0} /\ DataWords \in Nat \ {0}
               /\ CallWords \in Nat \ {0} /\ UserWords \in Nat \ {0}
  BY CodeAssumption

\* Slots of the stacks are cells of their own.
LEMMA Slots ==
  /\ \A n \in 1..CallWords : CallSlot(n) \in Cell /\ CallSlot(n) \notin Address
  /\ \A n \in 1..UserWords : UserSlot(n) \in Cell /\ UserSlot(n) \notin Address
  /\ \A n \in 1..CallWords, m \in 1..UserWords : CallSlot(n) # UserSlot(m)
  /\ \A n, m \in 1..CallWords : CallSlot(n) = CallSlot(m) => n = m
  /\ \A n, m \in 1..UserWords : UserSlot(n) = UserSlot(m) => n = m
  /\ Address \subseteq Cell
  BY Sizes DEF CallSlot, UserSlot, Cell, Address

\* The limits that an instruction that runs has passed.
LEMMA RunFacts ==
  ASSUME NEW i, Runs(i)
  PROVE  /\ i.op \in IndirectOps /\ OperandsOk(i) => Index(i) \in Address
         /\ i.op = "PshDat" => us # UserWords
         /\ i.op = "PopDat" => us # 0
         /\ i.op = "RetSub" => cs # 0
         /\ i.op # "ExtFun" => OperandsOk(i)
  BY DEF Runs, Overflows, OperandsOk

\* A step that writes one word outside the call stack at most, and goes to an integer.
LEMMA DataStep ==
  ASSUME IInv, pc' \in Int, Counts, UNCHANGED <<pce, cs, mode>>,
         us' \in 0..UserWords, pcs' \in 0..CSize,
         NEW k \in Cell, \A n \in 1..CallWords : CallSlot(n) # k,
         NEW v, mem' = mem \/ mem' = [mem EXCEPT ![k] = v]
  PROVE  IInv'
  <1>1. mem' = [c \in Cell |-> mem'[c]] /\ \A n \in 1..CallWords : mem'[CallSlot(n)] = mem[CallSlot(n)]
    BY Slots DEF IInv, TypeOK
  <1>2. \A n \in 1..CallWords : CallSlot(n)' = CallSlot(n)
    BY DEF CallSlot
  <1> QED
    BY <1>1, <1>2 DEF IInv, TypeOK, StacksInBounds, Counts

\* A step that ends the run, or goes to the handler, and writes nothing.
LEMMA EndStep ==
  ASSUME IInv, pc' \in Int, UNCHANGED <<pcs, cs, us, mem>>, pce' \in Address,
         \/ mode' = mode /\ pce' = pce
         \/ mode' \in {"stopped", "finished", "overflow", "invalidCode", "unexpectedError", "panic"},
         steps' \in Nat
  PROVE  IInv'
  BY DEF IInv, TypeOK, StacksInBounds

LEMMA StepKeepsInv ==
  ASSUME IInv, mode = "run", NEW i, Fetched(i), processOp(i) PROVE IInv'
  <1>0. /\ pc \in Int /\ pc + Length(i.op) \in Int /\ steps + 1 \in Nat /\ pce \in Address
        /\ pcs \in 0..CSize /\ us \in 0..UserWords /\ 0 \in Address /\ pce = 0
    BY LengthIsNat, Sizes DEF Fetched, IInv, TypeOK, Address, StacksInBounds
  <1> DEFINE Free(k) == k \in Cell /\ \A n \in 1..CallWords : CallSlot(n) # k
  <1>a. (\A k \in Address : Free(k)) /\ \A m \in 1..UserWords : Free(UserSlot(m))
    BY Slots
  <1>1. CASE Overflow(i)
    BY <1>0, <1>1, EndStep DEF Overflow, HandleOverflow, Keeps, Counts, Ends, IInv, TypeOK
  <1>2. CASE Panic(i)
    BY <1>0, <1>2, EndStep DEF Panic, Ends, IInv, TypeOK
  <1>3. CASE Runs(i) /\ (SetVal(i) \/ Unary(i) \/ Binary(i) \/ Indirect(i) \/ ExtFun(i))
    <2>1. \A v : \A k \in Address : Stores(i, k, v) => IInv'
      BY <1>0, <1>a, DataStep DEF Stores, Next_, Keeps
    <2>2. \A n \in 1..Arity(i.op) : i.addr[n] \in Address
      BY <1>3, AddressesValid DEF Runs
    <2>3. CASE SetVal(i)
      BY <2>1, <2>2, <2>3, Arities DEF SetVal
    <2>4. CASE Unary(i)
      BY <2>1, <2>2, <2>4, Arities DEF Unary, AddrOps
    <2>5. CASE Binary(i)
      <3>1. i.addr[1] \in Address /\ i.addr[2] \in Address
        BY <2>2, <2>5, Arities DEF Binary, PairOps
      <3> QED
        BY <2>1, <2>5, <3>1 DEF Binary
    <2>6. CASE Indirect(i)
      <3>1. i.addr[1] \in Address
        BY <2>2, <2>6, Arities DEF Indirect, IndirectOps, PairOps
      <3>2. Index(i) \in Address
        BY <1>3, <2>6, RunFacts DEF Indirect, IndirectOps, PairOps, TripleOps
      <3> QED
        BY <2>1, <2>6, <3>1, <3>2 DEF Indirect
    <2>7. CASE ExtFun(i)
      <3>1. CASE i.op \in {"ExtFunRet", "ExtFunRetDat", "ExtFunRetDat2"}
        <4>1. i.addr[1] \in Address
          BY <2>2, <3>1, Arities DEF Fun1Ops, Fun2Ops
        <4> QED
          BY <2>1, <2>7, <3>1, <4>1 DEF ExtFun
      <3>2. CASE i.op \notin {"ExtFunRet", "ExtFunRetDat", "ExtFunRetDat2"}
        BY <1>0, <1>a, <2>7, <3>2, DataStep DEF ExtFun, Next_, Keeps
      <3> QED
        BY <3>1, <3>2
    <2> QED
      BY <1>3, <2>3, <2>4, <2>5, <2>6, <2>7
  <1>4. CASE DivideByZero(i) \/ Invalid(i) \/ (ErrAdr(i) /\ Runs(i))
    <2>1. ErrAdr(i) /\ Runs(i) => i.addr[1] \in Address
      BY AddressesValid, Arities DEF Runs, ErrAdr, AddrOps
    <2> QED
      BY <1>0, <1>4, <2>1, EndStep DEF DivideByZero, Invalid, ErrAdr, Ends, IInv, TypeOK
  <1>5. CASE PshDat(i) /\ Runs(i)
    <2>1. us + 1 \in 1..UserWords
      BY <1>0, <1>5, RunFacts, Sizes DEF PshDat
    <2>2. Free(UserSlot(us + 1)) /\ us' \in 0..UserWords
      BY <1>a, <1>5, <2>1, Sizes DEF PshDat
    <2>3. pc' \in Int /\ Counts /\ UNCHANGED <<pce, pcs, cs, mode>>
      BY <1>0, <1>5 DEF PshDat, Next_
    <2> QED
      BY <1>0, <1>5, <2>2, <2>3, DataStep DEF PshDat
  <1>6. CASE PopDat(i) /\ Runs(i)
    <2>1. i.addr[1] \in Address
      BY <1>6, AddressesValid, Arities DEF PopDat, Runs, AddrOps
    <2>2. us - 1 \in 0..UserWords
      BY <1>0, <1>6, RunFacts, Sizes DEF PopDat
    <2> QED
      BY <1>0, <1>a, <1>6, <2>1, <2>2, DataStep DEF PopDat, Next_
  <1>7. CASE JmpSub(i) /\ Runs(i)
    <2>1. i.addr[1] \in Address /\ i.addr[1] \in Int
      BY <1>7, AddressesValid, Arities DEF JmpSub, Runs, AddrOps, Address
    <2>2. CASE cs = CallWords
      <3>1. CallSlot(cs + 1) \in Address
        BY <2>2, Sizes DEF CallSlot, Address
      <3> QED
        BY <1>0, <1>7, <2>1, <2>2, <3>1, Slots, Sizes
           DEF JmpSub, HandleOverflow, Ends, Counts, IInv, TypeOK, StacksInBounds
    <2>3. CASE cs # CallWords
      <3>1. cs + 1 \in 1..CallWords
        BY <2>3, Sizes DEF IInv, TypeOK, StacksInBounds
      <3> QED
        BY <1>0, <1>7, <2>1, <2>3, <3>1, Slots, Sizes
           DEF JmpSub, Counts, IInv, TypeOK, StacksInBounds
    <2> QED
      BY <2>2, <2>3
  <1>8. CASE RetSub(i) /\ Runs(i)
    <2>1. cs \in 1..CallWords
      BY <1>8, Sizes, RunFacts DEF RetSub, IInv, TypeOK, StacksInBounds
    <2>2. mem[CallSlot(cs)] \in Int
      BY <2>1 DEF IInv, TypeOK
    <2>3. \A n \in 1..CallWords : n <= cs' => mem'[CallSlot(n)'] \in Int
      BY <1>8, <2>1 DEF RetSub, IInv, TypeOK, CallSlot
    <2>4. pc' \in Int /\ cs' \in 0..CallWords /\ steps' \in Nat
      BY <1>0, <1>8, <2>1, <2>2, Sizes DEF RetSub, Counts
    <2> QED
      BY <1>0, <1>8, <2>3, <2>4, Sizes DEF RetSub, IInv, TypeOK, StacksInBounds
  <1>9. CASE Runs(i) /\ (JmpAdr(i) \/ Branch(i) \/ Sleep(i) \/ DoesNotHalt(i) \/ ExtFunCutOff(i))
    <2>1. \A t \in Int : Jumps(t) => IInv'
      BY <1>0, <1>a, DataStep DEF Jumps, Keeps
    <2>2. JmpAdr(i) => i.addr[1] \in Int
      BY <1>9, AddressesValid, Arities DEF JmpAdr, Runs, AddrOps, Address
    <2>3. pc + i.imm \in Int
      BY DEF Fetched
    <2> QED
      BY <1>0, <1>9, <2>1, <2>2, <2>3 DEF JmpAdr, Branch, Sleep, DoesNotHalt, ExtFunCutOff
  <1>10. CASE Halt(i)
    BY <1>0, <1>10, EndStep DEF Halt, Ends, Counts, Keeps, IInv, TypeOK
  <1>11. CASE SetPcs(i)
    <2>1. pc + 1 \in 0..CSize
      BY Sizes DEF Fetched
    <2>2. Length("SetPcs") = 1
      BY DEF Length, NoOps, AddrOps, UnaryOps, PairOps, BinaryOps, ReverseOps, TripleOps,
             Branch1Ops, Branch2Ops, Fun1Ops, Fun2Ops
    <2> QED
      BY <1>0, <1>a, <1>11, <2>1, <2>2, DataStep DEF SetPcs, Next_
  <1>12. CASE Nop(i)
    <2>1. CASE \E q \in pc + 1..CSize : Jumps(q)
      BY <1>0, <1>a, <2>1, Sizes, DataStep DEF Jumps, Keeps
    <2>2. CASE Ends("panic") /\ UNCHANGED <<pc, pce, pcs, cs, us, mem, ext, steps>>
      BY <1>0, <2>2, EndStep DEF Ends, IInv, TypeOK
    <2> QED
      BY <1>12, <2>1, <2>2 DEF Nop
  <1> QED
    BY <1>1, <1>2, <1>3, <1>4, <1>5, <1>6, <1>7, <1>8, <1>9, <1>10, <1>11, <1>12 DEF processOp

LEMMA FetchedInCode ==
  ASSUME pc \in 0..CSize - 1, NEW i \in Code[pc] PROVE Fetched(i)
  BY CodeAssumption DEF Fetched

LEMMA Invariance == Spec => []IInv
  <1>1. Init => IInv
    BY Sizes, 0 \in 0..1 DEF Init, IInv, TypeOK, StacksInBounds, Address, Cell
  <1>2. IInv /\ [execute]_vars => IInv'
    <2>1. CASE execute
      <3>1. IInv /\ BeforeCode => IInv'
        BY EndStep DEF BeforeCode, Ends, IInv, TypeOK
      <3>2. IInv /\ BehindCode => IInv'
        BY DEF BehindCode, vars, IInv, TypeOK, StacksInBounds, CallSlot
      <3> QED
        BY <2>1, <3>1, <3>2, StepKeepsInv, FetchedInCode DEF execute
    <2>2. CASE UNCHANGED vars
      BY <2>2 DEF vars, IInv, TypeOK, StacksInBounds, CallSlot
    <2> QED
      BY <2>1, <2>2
  <1> QED
    BY <1>1, <1>2, PTL DEF Spec

\* The types of the machine, with the places of both stack pointers and with what
\* the call stack holds (processOp).
THEOREM TypeCorrect == Spec => []TypeOK
  BY Invariance, PTL DEF IInv

\* While it runs, the machine's call stack is in its place, and there is no handler
\* that could let it go on after an overflow (JmpSub, ErrAdr).
THEOREM StacksStayInBounds == Spec => []StacksInBounds
  BY Invariance, PTL DEF IInv

-----------------------------------------------------------------------------
(* The machine implements the one with data and two stacks *)
CallsHeld == IF cs > CallWords THEN CallWords ELSE cs
Data == [k \in Address |-> mem[k]]
Calls == [n \in 1..CallsHeld |-> mem[CallSlot(n)]]
User == [n \in 1..us |-> mem[UserSlot(n)]]
Words == {mem[k] : k \in Cell} \cup {mem'[k] : k \in Cell}

LEMMA StacksAreSequences ==
  ASSUME IInv
  PROVE  /\ Calls \in Seq(Words) /\ Len(Calls) = CallsHeld /\ CallsHeld \in 0..CallWords
         /\ User \in Seq(Words) /\ Len(User) = us
  <1>1. CallsHeld \in 0..CallWords /\ us \in 0..UserWords
    BY Sizes DEF CallsHeld, IInv, TypeOK
  <1>2. /\ \A n \in 1..CallWords : mem[CallSlot(n)] \in Words
        /\ \A n \in 1..UserWords : mem[UserSlot(n)] \in Words
    BY Slots DEF Words
  <1>3. Calls \in [1..CallsHeld -> Words] /\ User \in [1..us -> Words]
    BY <1>1, <1>2, Sizes DEF Calls, User
  <1> QED
    BY <1>1, <1>3

\* Where the slots in use are not written, the stacks stay.
LEMMA StacksKept ==
  ASSUME IInv, UNCHANGED us, CallsHeld' = CallsHeld,
         \A c \in Cell \ Address : mem'[c] = mem[c]
  PROVE  UNCHANGED <<Calls, User>>
  <1>1. CallsHeld \in 0..CallWords /\ us \in 0..UserWords
    BY Sizes DEF CallsHeld, IInv, TypeOK
  <1>2. /\ \A n \in 1..CallsHeld : mem'[CallSlot(n)] = mem[CallSlot(n)]
        /\ \A n \in 1..us : mem'[UserSlot(n)] = mem[UserSlot(n)]
    BY <1>1, Slots, Sizes
  <1> QED
    BY <1>2 DEF Calls, User, CallSlot, UserSlot

LEMMA ComputeStep ==
  ASSUME IInv, mode = "run", UNCHANGED <<cs, us, mode>>,
         NEW k \in Address, NEW v, mem' = mem \/ mem' = [mem EXCEPT ![k] = v]
  PROVE  Abstract!Next
  <1>1. UNCHANGED <<Calls, User>>
    BY StacksKept, Slots DEF CallsHeld, IInv, TypeOK
  <1>2. \A j \in Address \ {k} : Data'[j] = Data[j]
    BY Slots DEF Data, IInv, TypeOK
  <1>3. Abstract!Compute
    BY <1>1, <1>2 DEF Abstract!Compute, Abstract!Address, Address, Data, Calls, User, CallsHeld
  <1> QED
    BY <1>3 DEF Abstract!Next

LEMMA StopStep ==
  ASSUME IInv, mode = "run", mode' # "run", UNCHANGED <<mem, cs, us>>
  PROVE  Abstract!Next
  <1>1. Abstract!Stop
    BY DEF Abstract!Stop, CallSlot, UserSlot
  <1> QED
    BY <1>1 DEF Abstract!Next

\* The actions of the abstract machine, in the words of this module.
LEMMA AbstractPush ==
  ASSUME Len(User) < UserWords, NEW k \in Address, User' = Append(User, Data[k]),
         Data' = Data, Calls' = Calls, UNCHANGED mode
  PROVE  Abstract!Push
  BY DEF Abstract!Push, Abstract!Address, Address, Data, Calls, User, CallsHeld

LEMMA AbstractPop ==
  ASSUME NEW k \in Address, User = Append(User', Data'[k]), Calls' = Calls, UNCHANGED mode,
         \A j \in Address \ {k} : Data'[j] = Data[j]
  PROVE  Abstract!Pop
  BY DEF Abstract!Pop, Abstract!Address, Address, Data, Calls, User, CallsHeld

LEMMA AbstractCall ==
  ASSUME Len(Calls) < CallWords, Calls' = Append(Calls, pc + 5), pc' \in Address,
         Data' = Data, User' = User, UNCHANGED mode
  PROVE  Abstract!Call
  BY DEF Abstract!Call, Abstract!Address, Address, Data, Calls, User, CallsHeld

LEMMA AbstractReturn ==
  ASSUME Calls = Append(Calls', pc'), Data' = Data, User' = User, UNCHANGED mode
  PROVE  Abstract!Return
  BY DEF Abstract!Return, Data, Calls, User, CallsHeld

\* A function on 1..n that has a word more is the sequence with it appended.
LEMMA AppendWord ==
  ASSUME NEW S, NEW s \in Seq(S), NEW v \in S, NEW t,
         t = [n \in 1..Len(s) + 1 |-> IF n = Len(s) + 1 THEN v ELSE s[n]]
  PROVE  t = Append(s, v)
  <1>1. Len(s) \in Nat /\ \A n \in 1..Len(s) : s[n] \in S
    BY LenProperties, ElementOfSeq
  <1>2. t \in [1..Len(s) + 1 -> S]
    BY <1>1
  <1>3. t \in Seq(S) /\ Len(t) = Len(s) + 1
    BY <1>1, <1>2
  <1>4. \A n \in 1..Len(t) : t[n] = Append(s, v)[n]
    BY <1>1, <1>3, AppendProperties
  <1>5. Append(s, v) \in Seq(S) /\ Len(Append(s, v)) = Len(s) + 1
    BY AppendProperties
  <1> QED
    BY <1>3, <1>4, <1>5, SeqEqual

LEMMA PushStep ==
  ASSUME IInv, mode = "run", NEW i, Runs(i), PshDat(i)
  PROVE  Abstract!Next
  <1>1. us + 1 \in 1..UserWords /\ i.addr[1] \in Address
    BY RunFacts, AddressesValid, Arities, Sizes DEF PshDat, Runs, AddrOps, IInv, TypeOK
  <1>0. us \in Nat
    BY DEF IInv, TypeOK
  <1> DEFINE v == mem[i.addr[1]]
  <1>2. mem' = [mem EXCEPT ![UserSlot(us + 1)] = v] /\ us' = us + 1 /\ UNCHANGED <<cs, mode>>
    BY DEF PshDat, At
  <1>3. UserSlot(us + 1) \in Cell \ Address /\ v \in Words
    BY <1>1, Slots DEF Words
  <1>4. \A c \in Cell : mem'[c] = IF c = UserSlot(us + 1) THEN v ELSE mem[c]
    BY <1>2, <1>3 DEF IInv, TypeOK
  <1> HIDE DEF v
  <1>5. Data' = Data
    BY <1>3, <1>4, Slots DEF Data
  <1>6. Data[i.addr[1]] = v
    BY <1>1 DEF Data, v
  <1>7. Calls' = Calls
    <2>1. \A n \in 1..CallWords : CallSlot(n) \in Cell /\ CallSlot(n) # UserSlot(us + 1)
      BY <1>1, Slots
    <2>2. \A n \in 1..CallsHeld : n \in 1..CallWords
      BY StacksAreSequences, Sizes
    <2>3. \A n \in 1..CallsHeld : mem'[CallSlot(n)] = mem[CallSlot(n)]
      BY <1>4, <2>1, <2>2
    <2> QED
      BY <1>2, <2>3 DEF Calls, CallSlot, CallsHeld
  <1>8. User' = Append(User, v)
    <2>1. \A n \in 1..us : mem'[UserSlot(n)] = User[n]
      <3>1. \A n \in 1..us : n \in 1..UserWords /\ n # us + 1
        BY <1>0, <1>1, Sizes
      <3>2. \A n \in 1..us : UserSlot(n) # UserSlot(us + 1) /\ UserSlot(n) \in Cell
        BY <1>1, <3>1, Slots
      <3> QED
        BY <1>4, <3>2 DEF User
    <2>2. mem'[UserSlot(us + 1)] = v
      BY <1>3, <1>4
    <2>3. User' = [n \in 1..us + 1 |-> mem'[UserSlot(n)]]
      BY <1>2 DEF User, UserSlot
    <2>4. \A n \in 1..us + 1 : n # us + 1 => n \in 1..us
      BY <1>0
    <2>5. User' = [n \in 1..us + 1 |-> IF n = us + 1 THEN v ELSE User[n]]
      BY <2>1, <2>2, <2>3, <2>4
    <2> QED
      BY <1>3, <2>5, StacksAreSequences, AppendWord, ZenonT(40)
  <1>9. Len(User) < UserWords
    BY <1>1, StacksAreSequences, Sizes
  <1>10. Abstract!Push
    BY <1>1, <1>2, <1>5, <1>6, <1>7, <1>8, <1>9, AbstractPush
  <1> QED
    BY <1>10 DEF Abstract!Next

LEMMA PopStep ==
  ASSUME IInv, IInv', mode = "run", NEW i, Runs(i), PopDat(i)
  PROVE  Abstract!Next
  <1>1. us \in 1..UserWords /\ i.addr[1] \in Address
    BY RunFacts, AddressesValid, Arities, Sizes DEF PopDat, Runs, AddrOps, IInv, TypeOK
  <1> DEFINE v == mem[UserSlot(us)]
  <1>2. mem' = [mem EXCEPT ![i.addr[1]] = v] /\ us' = us - 1 /\ UNCHANGED <<cs, mode>>
    BY DEF PopDat
  <1>3. i.addr[1] \in Cell /\ v \in Words
    BY <1>1, Slots DEF Words
  <1>4. \A c \in Cell : mem'[c] = IF c = i.addr[1] THEN v ELSE mem[c]
    BY <1>2, <1>3 DEF IInv, TypeOK
  <1>5. /\ \A n \in 1..CallWords : mem'[CallSlot(n)] = mem[CallSlot(n)]
        /\ \A n \in 1..UserWords : mem'[UserSlot(n)] = mem[UserSlot(n)]
    BY <1>1, <1>4, Slots
  <1> HIDE DEF v
  <1>7. Data'[i.addr[1]] = v /\ \A j \in Address \ {i.addr[1]} : Data'[j] = Data[j]
    BY <1>1, <1>3, <1>4, Slots DEF Data
  <1>8. Calls' = Calls
    <2>1. \A n \in 1..CallsHeld : mem'[CallSlot(n)] = mem[CallSlot(n)]
      BY <1>5, StacksAreSequences, Sizes
    <2> QED
      BY <1>2, <2>1 DEF Calls, CallSlot, CallsHeld
  <1>9. User = Append(User', v)
    <2>1. User' = [n \in 1..us - 1 |-> mem'[UserSlot(n)]]
      BY <1>2 DEF User, UserSlot
    <2>2. \A n \in 1..us - 1 : n \in 1..UserWords /\ n # us /\ n \in 1..us
      BY <1>1, Sizes
    <2>3. \A n \in 1..us - 1 : User'[n] = User[n]
      BY <1>5, <2>1, <2>2 DEF User
    <2>4. us \in 1..us /\ User[us] = v
      BY <1>1 DEF User, v
    <2>5. User' \in [1..us - 1 -> Words]
      BY <1>5, <2>1, <2>2, Slots DEF Words
    <2>6. User' \in Seq(Words) /\ Len(User') = us - 1
      BY <1>1, <2>5
    <2>7. \A n \in 1..us : n # us => n \in 1..us - 1
      BY <1>1
    <2>8. User = [n \in 1..us |-> IF n = us THEN v ELSE User'[n]]
      BY <2>3, <2>4, <2>7 DEF User
    <2>9. us = Len(User') + 1
      BY <1>1, <2>6
    <2> QED
      BY <1>3, <2>6, <2>8, <2>9, AppendWord, ZenonT(40)
  <1>10. Abstract!Pop
    BY <1>1, <1>2, <1>7, <1>8, <1>9, AbstractPop
  <1> QED
    BY <1>10 DEF Abstract!Next

LEMMA CallStep ==
  ASSUME IInv, mode = "run", NEW i, Runs(i), JmpSub(i)
  PROVE  Abstract!Next
  <1>1. cs \in 0..CallWords /\ pce = 0 /\ i.addr[1] \in Address
    BY AddressesValid, Arities, Sizes DEF JmpSub, Runs, AddrOps, IInv, TypeOK, StacksInBounds
  <1>2. Length("JmpSub") = 5
    BY DEF Length, NoOps, AddrOps, UnaryOps, PairOps, BinaryOps, ReverseOps, TripleOps,
           Branch1Ops, Branch2Ops, Fun1Ops, Fun2Ops
  <1> DEFINE v == pc + (IF cs = CallWords THEN -1 ELSE 5)
             slot == CallSlot(cs + 1)
  <1>3. slot \in Cell
    BY <1>1, Sizes DEF CallSlot, Cell, JmpSub
  <1>4. mem' = [mem EXCEPT ![slot] = v] /\ cs' = cs + 1 /\ us' = us
    BY <1>2 DEF JmpSub
  <1>5. \A c \in Cell : mem'[c] = IF c = slot THEN v ELSE mem[c]
    BY <1>3, <1>4 DEF IInv, TypeOK
  <1>6. User' = User
    <2>0. us \in 0..UserWords
      BY DEF IInv, TypeOK
    <2>1. ASSUME NEW n \in 1..us PROVE UserSlot(n) \in Cell /\ UserSlot(n) # slot
      <3>1. n \in 1..UserWords
        BY <2>0, Sizes
      <3>2. UserSlot(n) \in Cell
        BY <3>1, Slots
      <3>3. UserSlot(n) >= DataWords + CallWords /\ slot < DataWords + CallWords
        BY <1>1, <3>1, Sizes DEF UserSlot, CallSlot
      <3> QED
        BY <3>2, <3>3, <1>3, Sizes DEF Cell
    <2>2. \A n \in 1..us : mem'[UserSlot(n)] = mem[UserSlot(n)]
      BY <1>5, <2>1
    <2> QED
      BY <1>4, <2>2 DEF User, UserSlot
  <1>7. \A n \in 1..cs : CallSlot(n) \in Cell /\ CallSlot(n) # slot
    BY <1>1, Sizes DEF CallSlot, Cell
  <1>8. \A n \in 1..cs : mem'[CallSlot(n)] = mem[CallSlot(n)]
    BY <1>5, <1>7
  <1>9. CallsHeld = cs
    BY <1>1, Sizes DEF CallsHeld
  <1>10. CASE cs = CallWords
    <2>1. slot = DataWords - 1 /\ v = pc - 1
      BY <1>10, Sizes DEF CallSlot, IInv, TypeOK
    <2>2. Calls' = Calls
      BY <1>4, <1>8, <1>9, <1>10, Sizes DEF Calls, CallsHeld, CallSlot
    <2>3. Data' = [Data EXCEPT ![DataWords - 1] = pc - 1]
      BY <1>5, <2>1, Slots DEF Data
    <2>4. Len(Calls) = CallWords
      BY <1>9, <1>10, StacksAreSequences
    <2>5. mode' # "run"
      BY <1>1, <1>10 DEF JmpSub, HandleOverflow, Ends
    <2>6. Abstract!Stop
      BY <1>6, <2>2, <2>3, <2>4, <2>5 DEF Abstract!Stop, Data, Calls, User, CallsHeld
    <2> QED
      BY <2>6 DEF Abstract!Next
  <1>11. CASE cs # CallWords
    <2>1. slot \notin Address /\ v = pc + 5 /\ cs + 1 \in 1..CallWords
      BY <1>1, <1>11, Sizes DEF CallSlot, Address
    <2>2. Data' = Data
      BY <1>5, <2>1, Slots DEF Data
    <2>3. CallsHeld' = cs + 1
      BY <1>4, <2>1, Sizes DEF CallsHeld
    <2>4. Calls' = [n \in 1..cs + 1 |-> mem'[CallSlot(n)]]
      BY <2>3 DEF Calls, CallSlot
    <2>5. \A n \in 1..cs + 1 : n # cs + 1 => n \in 1..cs
      BY <1>1
    <2>6. mem'[slot] = v /\ v \in Words
      BY <1>3, <1>5 DEF Words
    <2>7. Calls' = [n \in 1..cs + 1 |-> IF n = cs + 1 THEN v ELSE Calls[n]]
      BY <1>8, <1>9, <2>4, <2>5, <2>6 DEF Calls
    <2>8. Calls' = Append(Calls, pc + 5)
      BY <1>9, <2>1, <2>6, <2>7, StacksAreSequences, AppendWord
    <2>9. Len(Calls) < CallWords
      BY <1>1, <1>9, <1>11, StacksAreSequences, Sizes
    <2>10. pc' \in Address /\ UNCHANGED mode
      BY <1>1, <1>11 DEF JmpSub
    <2>11. Abstract!Call
      BY <1>6, <2>2, <2>8, <2>9, <2>10, AbstractCall
    <2> QED
      BY <2>11 DEF Abstract!Next
  <1> QED
    BY <1>10, <1>11

LEMMA ReturnStep ==
  ASSUME IInv, mode = "run", NEW i, Runs(i), RetSub(i)
  PROVE  Abstract!Next
  <1>1. cs \in 1..CallWords
    BY RunFacts, Sizes DEF RetSub, IInv, TypeOK, StacksInBounds
  <1>2. pc' = mem[CallSlot(cs)] /\ cs' = cs - 1 /\ UNCHANGED <<mem, us, mode>>
    BY DEF RetSub
  <1>3. CallsHeld = cs /\ CallsHeld' = cs - 1
    BY <1>1, <1>2, Sizes DEF CallsHeld
  <1>4. Data' = Data /\ User' = User
    BY <1>2 DEF Data, User, UserSlot
  <1>5. Calls' = [n \in 1..cs - 1 |-> mem[CallSlot(n)]]
    BY <1>2, <1>3 DEF Calls, CallSlot
  <1>6. Calls = [n \in 1..cs |-> mem[CallSlot(n)]]
    BY <1>3 DEF Calls
  <1>7. \A n \in 1..cs : n \in 1..CallWords /\ (n # cs => n \in 1..cs - 1)
    BY <1>1, Sizes
  <1>8. \A n \in 1..cs : mem[CallSlot(n)] \in Words
    BY <1>7, Slots DEF Words
  <1>9. \A n \in 1..cs - 1 : n \in 1..cs
    BY <1>1
  <1>10. Calls' \in [1..cs - 1 -> Words]
    BY <1>5, <1>8, <1>9
  <1>11. Calls' \in Seq(Words) /\ Len(Calls') = cs - 1
    BY <1>1, <1>10
  <1>12. cs = Len(Calls') + 1 /\ pc' \in Words
    BY <1>1, <1>2, <1>8, <1>11
  <1>13. Calls = [n \in 1..cs |-> IF n = cs THEN pc' ELSE Calls'[n]]
    BY <1>2, <1>5, <1>6, <1>7
  <1>14. Calls = Append(Calls', pc')
    BY <1>11, <1>12, <1>13, AppendWord, ZenonT(40)
  <1>15. Abstract!Return
    BY <1>2, <1>4, <1>14, AbstractReturn
  <1> QED
    BY <1>15 DEF Abstract!Next

LEMMA StepImplements ==
  ASSUME IInv, IInv', mode = "run", NEW i, Fetched(i), processOp(i)
  PROVE  Abstract!Next \/ UNCHANGED Abstract!vars
  <1>0. 0 \in Address /\ pce = 0
    BY Sizes DEF Address, IInv, StacksInBounds
  <1>1. CASE Overflow(i) \/ Panic(i) \/ DivideByZero(i) \/ Invalid(i) \/ ErrAdr(i) \/ Halt(i)
    <2>1. mode' # "run" /\ UNCHANGED <<mem, cs, us>>
      BY <1>0, <1>1
         DEF Overflow, HandleOverflow, Panic, DivideByZero, Invalid, ErrAdr, Halt, Keeps, Ends
    <2> QED
      BY <2>1, StopStep
  <1>2. CASE Runs(i) /\ (SetVal(i) \/ Unary(i) \/ Binary(i) \/ Indirect(i) \/ ExtFun(i))
    <2>1. \A v : \A k \in Address : Stores(i, k, v) => Abstract!Next
      BY ComputeStep DEF Stores, Keeps
    <2>2. \A n \in 1..Arity(i.op) : i.addr[n] \in Address
      BY <1>2, AddressesValid DEF Runs
    <2>3. CASE SetVal(i)
      BY <2>1, <2>2, <2>3, Arities DEF SetVal
    <2>4. CASE Unary(i)
      BY <2>1, <2>2, <2>4, Arities DEF Unary, AddrOps
    <2>5. CASE Binary(i)
      <3>1. i.addr[1] \in Address /\ i.addr[2] \in Address
        BY <2>2, <2>5, Arities DEF Binary, PairOps
      <3> QED
        BY <2>1, <2>5, <3>1 DEF Binary
    <2>6. CASE Indirect(i)
      <3>1. i.addr[1] \in Address
        BY <2>2, <2>6, Arities DEF Indirect, IndirectOps, PairOps
      <3>2. Index(i) \in Address
        BY <1>2, <2>6, RunFacts DEF Indirect, IndirectOps, PairOps, TripleOps
      <3> QED
        BY <2>1, <2>6, <3>1, <3>2 DEF Indirect
    <2>7. CASE ExtFun(i)
      <3>1. CASE i.op \in {"ExtFunRet", "ExtFunRetDat", "ExtFunRetDat2"}
        <4>1. i.addr[1] \in Address
          BY <2>2, <3>1, Arities DEF Fun1Ops, Fun2Ops
        <4> QED
          BY <2>1, <2>7, <3>1, <4>1 DEF ExtFun
      <3>2. CASE i.op \notin {"ExtFunRet", "ExtFunRetDat", "ExtFunRetDat2"}
        BY <1>0, <2>7, <3>2, ComputeStep DEF ExtFun, Keeps
      <3> QED
        BY <3>1, <3>2
    <2> QED
      BY <1>2, <2>3, <2>4, <2>5, <2>6, <2>7
  <1>3. CASE JmpAdr(i) \/ Branch(i) \/ Sleep(i) \/ DoesNotHalt(i) \/ ExtFunCutOff(i)
    <2>1. UNCHANGED <<mem, cs, us, mode>>
      BY <1>3 DEF JmpAdr, Branch, Sleep, DoesNotHalt, ExtFunCutOff, Jumps, Keeps
    <2> QED
      BY <1>0, <2>1, ComputeStep
  <1>4. CASE SetPcs(i)
    BY <1>0, <1>4, ComputeStep DEF SetPcs
  <1>5. CASE Nop(i)
    <2>1. CASE \E q \in pc + 1..CSize : Jumps(q)
      BY <1>0, <2>1, ComputeStep DEF Jumps, Keeps
    <2>2. CASE Ends("panic") /\ UNCHANGED <<pc, pce, pcs, cs, us, mem, ext, steps>>
      BY <2>2, StopStep DEF Ends
    <2> QED
      BY <1>5, <2>1, <2>2 DEF Nop
  <1> QED
    BY <1>1, <1>2, <1>3, <1>4, <1>5, PushStep, PopStep, CallStep, ReturnStep DEF processOp

\* Whatever the code and the sizes of the memory, the machine (processOp, execute)
\* implements the abstract one with words of data and two stacks.
THEOREM MachineImplementsStackMachine == Spec => ImplementsStackMachine
  <1>1. Init => Abstract!Init
    BY Sizes DEF Init, Abstract!Init, Abstract!Address, Address, Cell
  <1>2. IInv /\ IInv' /\ [execute]_vars => [Abstract!Next]_Abstract!vars
    <2> SUFFICES ASSUME IInv, IInv', [execute]_vars PROVE [Abstract!Next]_Abstract!vars
      OBVIOUS
    <2>1. CASE UNCHANGED vars
      BY <2>1 DEF vars, Abstract!vars, CallSlot, UserSlot
    <2>2. CASE execute
      <3>1. CASE BeforeCode
        BY <2>2, <3>1, StopStep DEF execute, BeforeCode, Ends
      <3>2. CASE BehindCode
        BY <3>2 DEF BehindCode, vars, Abstract!vars, CallSlot, UserSlot
      <3>3. CASE pc \in 0..CSize - 1 /\ \E i \in Code[pc] : processOp(i)
        BY <2>2, <3>3, StepImplements, FetchedInCode DEF execute
      <3> QED
        BY <2>2, <3>1, <3>2, <3>3 DEF execute
    <2> QED
      BY <2>1, <2>2
  <1> QED
    BY <1>1, <1>2, Invariance, PTL DEF Spec, ImplementsStackMachine, Abstract!Spec
-----------------------------------------------------------------------------
(* What the registers compute. *)

\* Induction, for a set of numbers: were x left out of S, so would be x - 1,
\* and stepping down would map the numbers up to x that are left out into
\* themselves and never reach x.
LEMMA SetInduction ==
    ASSUME NEW S, 0 \in S, \A k \in Nat : k \in S => k + 1 \in S
    PROVE  \A k \in Nat : k \in S
  <1> SUFFICES ASSUME NEW x \in Nat, x \notin S PROVE FALSE
    OBVIOUS
  <1> DEFINE T == {y \in 0 .. x : y \notin S}
             down == [y \in T |-> y - 1]
  <1>1. IsFiniteSet(T)
    <2>1. IsFiniteSet(0 .. x) /\ T \in SUBSET (0 .. x)
      BY FS_Interval
    <2> HIDE DEF T
    <2> QED
      BY <2>1, FS_Subset
  <1>2. \A y \in T : y - 1 \in T
    <2> TAKE y \in T
    <2>1. y \in Nat /\ y # 0 /\ y <= x
      OBVIOUS
    <2>2. y - 1 \in Nat /\ (y - 1) + 1 = y /\ y - 1 <= x
      BY <2>1
    <2> QED
      BY <2>2
  <1>3. down \in Injection(T, T)
    <2>1. down \in [T -> T]
      BY <1>2
    <2>2. \A y, z \in T : down[y] = down[z] => y = z
      OBVIOUS
    <2> QED
      BY <2>1, <2>2, Zenon DEF Injection, IsInjective
  <1>4. down \in Surjection(T, T)
    <2> HIDE DEF T, down
    <2> QED
      BY <1>1, <1>3, FS_Injection
  <1>5. x \in T
    OBVIOUS
  <1>6. PICK y \in T : down[y] = x
    <2> HIDE DEF T, down
    <2> QED
      BY <1>4, <1>5, Zenon DEF Surjection
  <1> QED
    BY <1>6

\* Induction, for a set of finite sets: each is in it as soon as all those with
\* one member less are.
LEMMA FiniteInduction ==
    ASSUME NEW D, IsFiniteSet(D), NEW C,
           \A s \in SUBSET D : (\A x \in s : s \ {x} \in C) => s \in C
    PROVE  \A s \in SUBSET D : s \in C
  <1> DEFINE Sized(k) == \A s \in SUBSET D : Cardinality(s) = k => s \in C
             S == {k \in Nat : Sized(k)}
  <1>1. \A s \in SUBSET D : IsFiniteSet(s) /\ Cardinality(s) \in Nat
    BY FS_Subset, FS_CardinalityType
  <1>2. 0 \in S
    BY <1>1, FS_EmptySet
  <1>3. \A k \in Nat : k \in S => k + 1 \in S
    <2> SUFFICES ASSUME NEW k \in Nat, Sized(k), NEW s \in SUBSET D, Cardinality(s) = k + 1
                 PROVE  s \in C
      <3>1. (\A k \in Nat : Sized(k) => Sized(k + 1)) => \A k \in Nat : k \in S => k + 1 \in S
        <4> HIDE DEF Sized
        <4> QED
          OBVIOUS
      <3> QED
        BY <3>1
    <2>1. ASSUME NEW x \in s PROVE s \ {x} \in C
      <3>1. Cardinality(s \ {x}) = k
        BY <1>1, FS_RemoveElement
      <3> QED
        BY <3>1
    <2> QED
      BY <2>1
  <1>4. \A k \in Nat : Sized(k)
    <2>1. \A k \in Nat : k \in S
      <3> HIDE DEF S
      <3> QED
        BY <1>2, <1>3, SetInduction
    <2> HIDE DEF Sized
    <2> QED
      BY <2>1
  <1> QED
    BY <1>1, <1>4

K == WordBytes * RegWords     \* bytes of a register

LEMMA Widths == /\ ByteBits \in Nat \ {0, 1} /\ WordBytes \in Nat \ {0} /\ RegWords \in Nat \ {0}
                /\ K \in Nat \ {0} /\ RegBits = ByteBits * K /\ RegBits \in Nat \ {0, 1}
  <1>1. ByteBits \in Nat \ {0, 1} /\ WordBytes \in Nat \ {0} /\ RegWords \in Nat \ {0}
    BY WidthsAssumption
  <1>2. K \in Nat \ {0}
    BY <1>1 DEF K
  <1>3. RegBits = ByteBits * K
    BY <1>1 DEF K, RegBits, WordBits
  <1>4. ByteBits * K >= 2
    <2>1. ByteBits * K = ByteBits * (K - 1) + ByteBits /\ ByteBits * (K - 1) \in Nat
      BY <1>1, <1>2
    <2> QED
      BY <1>1, <2>1
  <1>5. ByteBits * K \in Nat
    BY <1>1, <1>2
  <1> QED
    BY <1>1, <1>2, <1>3, <1>4, <1>5

\* The recursion of the powers has a solution: one more of them is right at each pass.
LEMMA Powers == /\ Pow2 \in [0..RegBits -> Nat \ {0}]
                /\ Pow2[0] = 1
                /\ \A k \in 1..RegBits : Pow2[k] = 2 * Pow2[k - 1]
  <1> DEFINE N == RegBits
             T == [0..N -> Nat \ {0}]
             One(f, k) == IF k = 0 THEN 1 ELSE 2 * f[k - 1]
             Right(f, n) == \A k \in 0..N : k <= n => f[k] = One(f, k)
             Reached(n) == \E f \in T : Right(f, n)
             S == {n \in Nat : Reached(n)}
  <1>0. N \in Nat
    BY Widths
  <1>1. ASSUME NEW f \in T, NEW k \in 0..N PROVE One(f, k) \in Nat \ {0}
    <2>1. CASE k = 0
      BY <2>1
    <2>2. CASE k # 0
      <3>1. k - 1 \in 0..N
        BY <1>0, <2>2
      <3>2. f[k - 1] \in Nat \ {0}
        BY <3>1
      <3> QED
        BY <2>2, <3>2
    <2> QED
      BY <2>1, <2>2
  <1>2. 0 \in S
    <2> DEFINE f == [k \in 0..N |-> 1]
    <2>1. f \in T /\ Right(f, 0)
      BY <1>0
    <2> QED
      BY <2>1
  <1>3. \A n \in Nat : n \in S => n + 1 \in S
    <2> SUFFICES ASSUME NEW n \in Nat, Reached(n) PROVE Reached(n + 1)
      <3> HIDE DEF Reached
      <3> QED
        OBVIOUS
    <2>0. PICK f \in T : Right(f, n)
      OBVIOUS
    <2> DEFINE g == [k \in 0..N |-> One(f, k)]
    <2>1. g \in T
      <3> HIDE DEF One
      <3> QED
        BY <1>1
    <2>2. ASSUME NEW k \in 0..N, k <= n + 1 PROVE g[k] = One(g, k)
      <3>1. CASE k = 0
        BY <3>1
      <3>2. CASE k # 0
        <4>1. k - 1 \in 0..N /\ k - 1 <= n
          BY <1>0, <2>2, <3>2
        <4>2. g[k - 1] = One(f, k - 1) /\ f[k - 1] = One(f, k - 1)
          <5> HIDE DEF One
          <5> QED
            BY <2>0, <4>1
        <4>3. g[k] = 2 * f[k - 1]
          BY <3>2
        <4> QED
          BY <3>2, <4>2, <4>3
      <3> QED
        BY <3>1, <3>2
    <2> QED
      BY <2>1, <2>2
  <1>4. PICK f \in T : Right(f, N)
    <2>1. N \in S
      <3> HIDE DEF S
      <3> QED
        BY <1>0, <1>2, <1>3, SetInduction
    <2> QED
      BY <2>1
  <1>5. f = [k \in 0..N |-> One(f, k)]
    <2>1. \A k \in 0..N : f[k] = One(f, k)
      BY <1>0, <1>4
    <2> HIDE DEF One
    <2> QED
      BY <2>1
  <1>6. Pow2 = [k \in 0..N |-> One(Pow2, k)]
    BY <1>5 DEF Pow2
  <1> DEFINE P == {k \in Nat : k <= N => Pow2[k] \in Nat \ {0}}
  <1>7. \A k \in 0..N : Pow2[k] = One(Pow2, k)
    <2> HIDE DEF One
    <2> QED
      BY <1>6, Zenon
  <1>8. Pow2[0] = 1 /\ \A k \in 1..N : Pow2[k] = 2 * Pow2[k - 1]
    BY <1>0, <1>7
  <1>9. 0 \in P /\ \A k \in Nat : k \in P => k + 1 \in P
    <2>1. 0 \in P
      BY <1>8
    <2>2. ASSUME NEW k \in Nat, k \in P, k + 1 <= N PROVE Pow2[k + 1] \in Nat \ {0}
      <3>1. k + 1 \in 1..N /\ (k + 1) - 1 = k
        BY <1>0, <2>2
      <3>2. Pow2[k + 1] = 2 * Pow2[k]
        BY <1>8, <3>1
      <3> QED
        BY <1>0, <2>2, <3>2
    <2> QED
      BY <2>1, <2>2
  <1>10. \A k \in 0..N : Pow2[k] \in Nat \ {0}
    <2>1. \A k \in Nat : k \in P
      <3> HIDE DEF P
      <3> QED
        BY <1>9, SetInduction
    <2> QED
      BY <2>1
  <1>11. Pow2 \in T
    <2> HIDE DEF One
    <2> QED
      BY <1>6, <1>10, Zenon
  <1> QED
    BY <1>8, <1>11

LEMMA PowerOfSum ==
    ASSUME NEW a \in Nat, NEW b \in Nat, a + b <= RegBits
    PROVE  Pow2[a + b] = Pow2[a] * Pow2[b]
  <1> DEFINE Right(k) == a + k <= RegBits => Pow2[a + k] = Pow2[a] * Pow2[k]
             S == {k \in Nat : Right(k)}
  <1>0. RegBits \in Nat
    BY Widths
  <1>1. 0 \in S
    <2>1. a + 0 = a /\ a \in 0..RegBits
      BY <1>0
    <2>2. Pow2[a] \in Nat /\ Pow2[0] = 1
      BY <2>1, Powers
    <2> QED
      BY <2>1, <2>2
  <1>2. ASSUME NEW k \in Nat, k \in S, a + (k + 1) <= RegBits
        PROVE  Pow2[a + (k + 1)] = Pow2[a] * Pow2[k + 1]
    <2>1. /\ a + (k + 1) \in 1..RegBits /\ (a + (k + 1)) - 1 = a + k
          /\ k + 1 \in 1..RegBits /\ (k + 1) - 1 = k
          /\ k \in 0..RegBits /\ a \in 0..RegBits /\ a + k <= RegBits
      BY <1>0, <1>2
    <2>2. Pow2[a + (k + 1)] = 2 * Pow2[a + k] /\ Pow2[k + 1] = 2 * Pow2[k]
      BY <2>1, Powers
    <2>3. Pow2[a] \in Nat /\ Pow2[k] \in Nat
      BY <2>1, Powers
    <2>4. Pow2[a + k] = Pow2[a] * Pow2[k]
      BY <1>2, <2>1
    <2>5. 2 * (Pow2[a] * Pow2[k]) = Pow2[a] * (2 * Pow2[k])
      BY <2>3
    <2> QED
      BY <2>2, <2>4, <2>5
  <1>3. \A k \in Nat : k \in S
    <2>1. \A k \in Nat : k \in S => k + 1 \in S
      <3>1. \A k \in Nat : k \in S => Right(k + 1)
        BY <1>2
      <3> HIDE DEF Right
      <3> QED
        BY <3>1
    <2> HIDE DEF S
    <2> QED
      BY <1>1, <2>1, SetInduction
  <1> QED
    BY <1>3

LEMMA PowersGrow ==
    ASSUME NEW a \in Nat, NEW b \in Nat, a <= b, b <= RegBits
    PROVE  Pow2[a] <= Pow2[b]
  <1>1. /\ b - a \in Nat /\ a + (b - a) = b /\ b - a \in 0..RegBits /\ a \in 0..RegBits
    BY Widths
  <1>2. Pow2[b] = Pow2[a] * Pow2[b - a]
    BY <1>1, PowerOfSum
  <1>3. Pow2[a] \in Nat /\ Pow2[b - a] \in Nat \ {0}
    BY <1>1, Powers
  <1>4. \A x \in Nat, y \in Nat \ {0} : x <= x * y
    <2> TAKE x \in Nat, y \in Nat \ {0}
    <2>1. x * y = x * (y - 1) + x /\ x * (y - 1) \in Nat
      OBVIOUS
    <2> QED
      BY <2>1
  <1> QED
    BY <1>2, <1>3, <1>4

\* Quotient and rest of a division.
LEMMA Division ==
    ASSUME NEW x \in Int, NEW d \in Nat \ {0}
    PROVE  x \div d \in Int /\ x % d \in 0..d - 1 /\ x = d * (x \div d) + (x % d)
  <1>1. x \div d \in Int
    OBVIOUS
  <1>2. x % d \in 0..d - 1
    OBVIOUS
  <1>3. x = d * (x \div d) + (x % d)
    OBVIOUS
  <1> QED
    BY <1>1, <1>2, <1>3

LEMMA DivisionUnique ==
    ASSUME NEW d \in Nat \ {0}, NEW q \in Int, NEW r \in 0..d - 1, NEW x \in Int, x = d * q + r
    PROVE  x \div d = q /\ x % d = r
  <1> DEFINE p == x \div d
             s == x % d
  <1>1. p \in Int /\ s \in 0..d - 1 /\ x = d * p + s
    BY Division
  <1> HIDE DEF p, s
  <1>2. d * q + r = d * p + s
    BY <1>1
  <1>3. ~(p < q)
    <2> SUFFICES ASSUME p < q PROVE FALSE
      OBVIOUS
    <2>1. d * (q - (p + 1)) \in Nat /\ d * q = d * p + d + d * (q - (p + 1))
      BY <1>1
    <2> QED
      BY <1>1, <1>2, <2>1
  <1>4. ~(q < p)
    <2> SUFFICES ASSUME q < p PROVE FALSE
      OBVIOUS
    <2>1. d * (p - (q + 1)) \in Nat /\ d * p = d * q + d + d * (p - (q + 1))
      BY <1>1
    <2> QED
      BY <1>1, <1>2, <2>1
  <1>5. p = q /\ s = r
    BY <1>1, <1>2, <1>3, <1>4
  <1> QED
    BY <1>5 DEF p, s

\* What is cut off before a sum does not matter if it is cut off after it as well.
LEMMA RestOfSum ==
    ASSUME NEW n \in Int, NEW h \in Int, NEW d \in Nat \ {0}
    PROVE  ((n % d) + h) % d = (n + h) % d
  <1> DEFINE p == n \div d
             m == (n % d) + h
             q == m \div d
             r == m % d
  <1>1. p \in Int /\ n % d \in Int /\ n = d * p + (n % d)
    BY Division
  <1>2. m \in Int /\ q \in Int /\ r \in 0..d - 1 /\ m = d * q + r
    BY <1>1, Division
  <1>3. n + h = d * p + m
    BY <1>1
  <1> HIDE DEF p, m, q, r
  <1>4. d * p + (d * q + r) = d * (p + q) + r
    BY <1>1, <1>2
  <1>5. n + h = d * (p + q) + r
    BY <1>2, <1>3, <1>4
  <1>6. (n + h) % d = r
    <2>1. n + h \in Int /\ p + q \in Int /\ r \in 0..d - 1
      BY <1>1, <1>2
    <2> HIDE DEF p, q, r, m
    <2> QED
      BY <1>5, <2>1, DivisionUnique, SMTT(20)
  <1> QED
    BY <1>6 DEF m, r

\* A bit stays when the bits from a higher one on are cut off.
LEMMA BitOfRest ==
    ASSUME NEW n \in Int, NEW p \in Nat \ {0}, NEW t \in Nat \ {0}, NEW d \in Int, d = p * (2 * t)
    PROVE  ((n % d) \div p) % 2 = (n \div p) % 2
  <1> DEFINE a == n \div p
             b == n % p
             q == n \div d
             e == a \div 2
             f == a % 2
  <1>1. d \in Nat \ {0}
    <2>1. 2 * t \in Nat \ {0}
      OBVIOUS
    <2> QED
      BY <2>1
  <1>2. a \in Int /\ b \in 0..p - 1 /\ n = p * a + b
    BY Division
  <1>3. q \in Int /\ n % d \in Int /\ n = d * q + (n % d)
    BY ONLY <1>1, n \in Int, Division
  <1>4. e \in Int /\ f \in 0..1 /\ a = 2 * e + f
    BY <1>2, Division
  <1> DEFINE u == n % d
  <1>5. u \in Int /\ n = d * q + u
    BY <1>3
  <1> HIDE DEF a, b, q, e, f, u
  <1>6. t * q \in Int /\ d * q = p * (2 * (t * q))
    BY <1>3
  <1>7. u = p * (a - 2 * (t * q)) + b
    <2> DEFINE w == t * q
    <2>1. w \in Int /\ n = p * (2 * w) + u /\ n = p * a + b
      BY <1>2, <1>5, <1>6
    <2> HIDE DEF w
    <2>2. p * (a - 2 * w) = p * a - p * (2 * w)
      BY <1>2, <2>1
    <2>3. p * a \in Int /\ p * (2 * w) \in Int
      BY <1>2, <2>1
    <2>4. u = p * (a - 2 * w) + b
      BY <1>2, <1>5, <2>1, <2>2, <2>3
    <2> QED
      BY <2>4 DEF w
  <1>8. a - 2 * (t * q) \in Int
    BY <1>2, <1>6
  <1>9. u \div p = a - 2 * (t * q)
    BY <1>2, <1>5, <1>7, <1>8, DivisionUnique
  <1>10. e - t * q \in Int /\ a - 2 * (t * q) = 2 * (e - t * q) + f
    BY <1>4, <1>6
  <1>11. (a - 2 * (t * q)) % 2 = f
    BY <1>4, <1>8, <1>10, DivisionUnique
  <1> QED
    BY <1>9, <1>11 DEF u, f, a

Pick(s) == CHOOSE x \in s : TRUE

\* The sums of v over the subsets of D, one member after the other.
IsSum(sums, v, D) ==
    sums = [s \in SUBSET D |-> IF s = {} THEN 0 ELSE v[Pick(s)] + sums[s \ {Pick(s)}]]

Summable(v, D) == IsFiniteSet(D) /\ \A x \in D : v[x] \in Int

LEMMA PickIn ==
    ASSUME NEW s, s # {}
    PROVE  Pick(s) \in s
  BY DEF Pick

LEMMA SumExists ==
    ASSUME NEW v, NEW D, Summable(v, D)
    PROVE  \E sums \in [SUBSET D -> Int] : IsSum(sums, v, D)
  <1> DEFINE One(f, s) == IF s = {} THEN 0 ELSE v[Pick(s)] + f[s \ {Pick(s)}]
             Summed(f, k) == \A s \in SUBSET D : Cardinality(s) <= k => f[s] = One(f, s)
             Reached(k) == \E f \in [SUBSET D -> Int] : Summed(f, k)
             S == {k \in Nat : Reached(k)}
  <1>1. \A s \in SUBSET D : IsFiniteSet(s) /\ Cardinality(s) \in Nat
    BY FS_Subset, FS_CardinalityType DEF Summable
  <1>2. \A s \in SUBSET D : s # {} => /\ Pick(s) \in s /\ s \ {Pick(s)} \in SUBSET D
                                       /\ v[Pick(s)] \in Int
                                       /\ Cardinality(s \ {Pick(s)}) = Cardinality(s) - 1
    BY <1>1, PickIn, FS_RemoveElement DEF Summable
  <1>3. ASSUME NEW f \in [SUBSET D -> Int], NEW s \in SUBSET D PROVE One(f, s) \in Int
    <2>1. CASE s = {}
      BY <2>1
    <2>2. CASE s # {}
      <3>1. f[s \ {Pick(s)}] \in Int /\ v[Pick(s)] \in Int
        BY <1>2, <2>2
      <3>2. One(f, s) = v[Pick(s)] + f[s \ {Pick(s)}]
        BY <2>2
      <3> QED
        BY <3>1, <3>2
    <2> QED
      BY <2>1, <2>2
  <1>4. 0 \in S
    <2> DEFINE f == [s \in SUBSET D |-> 0]
    <2>1. f \in [SUBSET D -> Int] /\ \A s \in SUBSET D : f[s] = 0
      OBVIOUS
    <2>2. \A s \in SUBSET D : Cardinality(s) <= 0 => s = {}
      BY <1>1, FS_EmptySet
    <2>3. Summed(f, 0)
      <3> HIDE DEF f
      <3> QED
        BY <2>1, <2>2
    <2> QED
      BY <2>1, <2>3
  <1>5. \A k \in Nat : k \in S => k + 1 \in S
    <2> SUFFICES ASSUME NEW k \in Nat, Reached(k) PROVE Reached(k + 1)
      <3> HIDE DEF Reached
      <3> QED
        OBVIOUS
    <2>1. PICK f \in [SUBSET D -> Int] : Summed(f, k)
      OBVIOUS
    <2> DEFINE g == [s \in SUBSET D |-> One(f, s)]
    <2>2. g \in [SUBSET D -> Int]
      <3> HIDE DEF One
      <3> QED
        BY <1>3
    <2>3. ASSUME NEW s \in SUBSET D, Cardinality(s) <= k + 1 PROVE g[s] = One(g, s)
      <3>1. CASE s = {}
        BY <3>1
      <3>2. CASE s # {}
        <4> DEFINE t == s \ {Pick(s)}
        <4>1. t \in SUBSET D /\ Cardinality(t) <= k
          BY <1>1, <1>2, <2>3, <3>2
        <4>2. g[t] = One(f, t) /\ f[t] = One(f, t)
          <5> HIDE DEF One, t
          <5> QED
            BY <2>1, <4>1
        <4>3. g[s] = v[Pick(s)] + f[t]
          BY <3>2
        <4>4. One(g, s) = v[Pick(s)] + g[t]
          BY <3>2
        <4> QED
          BY <4>2, <4>3, <4>4
      <3> QED
        BY <3>1, <3>2
    <2> QED
      BY <2>2, <2>3
  <1>6. Cardinality(D) \in S /\ \A s \in SUBSET D : Cardinality(s) <= Cardinality(D)
    <2>1. Cardinality(D) \in Nat
      BY FS_CardinalityType DEF Summable
    <2>2. Cardinality(D) \in S
      <3> HIDE DEF S
      <3> QED
        BY <1>4, <1>5, <2>1, SetInduction
    <2> QED
      BY <2>2, FS_Subset DEF Summable
  <1>7. PICK f \in [SUBSET D -> Int] : \A s \in SUBSET D : f[s] = One(f, s)
    BY <1>6
  <1>8. f = [s \in SUBSET D |-> One(f, s)]
    <2> HIDE DEF One
    <2> QED
      BY <1>7
  <1> QED
    BY <1>8 DEF IsSum

\* What one more member does to a sum, in the order it is taken.
LEMMA SumUnfolds ==
    ASSUME NEW v, NEW D, NEW sums, IsSum(sums, v, D)
    PROVE  /\ sums[{}] = 0
           /\ \A s \in SUBSET D : s # {} => sums[s] = v[Pick(s)] + sums[s \ {Pick(s)}]
  <1> DEFINE One(s) == IF s = {} THEN 0 ELSE v[Pick(s)] + sums[s \ {Pick(s)}]
  <1>1. sums = [s \in SUBSET D |-> One(s)]
    BY DEF IsSum
  <1> HIDE DEF One
  <1>2. \A s \in SUBSET D : sums[s] = One(s)
    BY <1>1
  <1> QED
    BY <1>2 DEF One

LEMMA SumsType ==
    ASSUME NEW v, NEW D, Summable(v, D), NEW sums, IsSum(sums, v, D)
    PROVE  \A s \in SUBSET D : sums[s] \in Int
  <1> DEFINE C == {s \in SUBSET D : sums[s] \in Int}
  <1>1. ASSUME NEW s \in SUBSET D, \A x \in s : s \ {x} \in C PROVE s \in C
    <2>1. CASE s = {}
      BY <2>1, SumUnfolds
    <2>2. CASE s # {}
      <3>1. Pick(s) \in s /\ v[Pick(s)] \in Int /\ sums[s \ {Pick(s)}] \in Int
        BY <1>1, <2>2, PickIn DEF Summable
      <3>2. sums[s] = v[Pick(s)] + sums[s \ {Pick(s)}]
        <4>1. s \in SUBSET D
          BY <1>1
        <4> HIDE DEF C
        <4> QED
          BY <2>2, <4>1, SumUnfolds
      <3> QED
        BY <3>1, <3>2
    <2> QED
      BY <2>1, <2>2
  <1>2. \A s \in SUBSET D : s \in C
    <2> HIDE DEF C
    <2> QED
      BY <1>1, FiniteInduction DEF Summable
  <1> QED
    BY <1>2

\* A sum that is right is the one that is chosen, and it is a number; the sum of zeros is zero.
LEMMA SumFacts ==
    ASSUME NEW D, IsFiniteSet(D), NEW v, \A x \in D : v[x] \in Int,
           NEW f, f = (CHOOSE sums : IsSum(sums, v, D))
    PROVE  /\ f[D] \in Int
           /\ (\A x \in D : v[x] = 0) => f[D] = 0
  <1>1. Summable(v, D)
    BY DEF Summable
  <1>2. IsSum(f, v, D)
    <2>1. \E sums : IsSum(sums, v, D)
      BY <1>1, SumExists
    <2> QED
      BY <2>1
  <1>3. f[D] \in Int
    BY <1>1, <1>2, SumsType
  <1>4. ASSUME \A x \in D : v[x] = 0 PROVE f[D] = 0
    <2> DEFINE C == {s \in SUBSET D : f[s] = 0}
    <2>1. ASSUME NEW s \in SUBSET D, \A x \in s : s \ {x} \in C PROVE s \in C
      <3>1. CASE s = {}
        BY <1>2, <3>1, SumUnfolds
      <3>2. CASE s # {}
        <4>1. Pick(s) \in s /\ f[s \ {Pick(s)}] = 0
          BY <2>1, <3>2, PickIn
        <4>2. f[s] = v[Pick(s)] + f[s \ {Pick(s)}]
          BY <1>2, <2>1, <3>2, SumUnfolds
        <4> QED
          BY <1>4, <4>1, <4>2
      <3> QED
        BY <3>1, <3>2
    <2>2. \A s \in SUBSET D : s \in C
      <3> HIDE DEF C
      <3> QED
        BY <2>1, FiniteInduction
    <2> QED
      BY <2>2
  <1> QED
    BY <1>3, <1>4

BytesFree(n) == (0..(WordBytes * RegWords - 1)) \ BytesOf(Cut(n))
SignBit(n) == (WithSign(n) \div Pow2[ByteBits - 1]) % 2

LEMMA PaddingIsSum ==
    ASSUME NEW n, SignBit(n) \in Int
    PROVE  /\ Padding(n) \in Int
           /\ SignBit(n) = 0 \/ BytesFree(n) = {} => Padding(n) = 0
  <1> DEFINE D == BytesFree(n)
             bit == SignBit(n)
             v == [x \in D |-> bit * Pow2[ByteBits * x]]
             Sums(it) == it = [s \in SUBSET D |->
                           IF s = {} THEN 0
                           ELSE bit * Pow2[ByteBits * (CHOOSE x \in s : TRUE)]
                                  + it[s \ {CHOOSE x \in s : TRUE}]]
             f == CHOOSE it : Sums(it)
             g == CHOOSE it : IsSum(it, v, D)
  <1>1. Padding(n) = f[D]
    BY DEF Padding, SignBit, BytesFree, MapThenSumSet, MapThenFoldSet
  <1>2. IsFiniteSet(D) /\ D \subseteq 0..K - 1
    <2>1. K \in Nat /\ 0 \in Int /\ K - 1 \in Int
      BY Widths
    <2>2. IsFiniteSet(0..K - 1)
      BY <2>1, FS_Interval
    <2>3. D \subseteq 0..K - 1
      BY DEF BytesFree, K
    <2> QED
      BY <2>2, <2>3, FS_Subset
  <1>3. ASSUME NEW x \in D PROVE bit * Pow2[ByteBits * x] \in Int
    <2>1. ByteBits * x \in 0..RegBits
      <3>1. x \in Nat /\ x <= K
        BY <1>2, Widths
      <3>2. ByteBits * K = ByteBits * x + ByteBits * (K - x) /\ ByteBits * (K - x) \in Nat
            /\ ByteBits * x \in Nat
        BY <3>1, Widths
      <3> QED
        BY <3>2, Widths
    <2>2. Pow2[ByteBits * x] \in Int
      BY <2>1, Powers
    <2> QED
      BY <2>2
  <1>4. ASSUME NEW it PROVE Sums(it) <=> IsSum(it, v, D)
    <2>1. \A s \in SUBSET D : s # {} => v[Pick(s)] = bit * Pow2[ByteBits * Pick(s)]
      BY PickIn
    <2> HIDE DEF v, D, bit
    <2> QED
      BY <2>1 DEF IsSum, Pick
  <1> HIDE DEF Sums, D, bit
  <1>5. f = g
    <2>1. \A x \in D : v[x] \in Int
      BY <1>3
    <2>2. \E it : IsSum(it, v, D)
      BY <1>2, <2>1, SumExists DEF Summable
    <2> QED
      BY <1>4, <2>2
  <1>6. \A x \in D : v[x] \in Int /\ v[x] = bit * Pow2[ByteBits * x]
    BY <1>3
  <1> HIDE DEF v
  <1>7. g[D] \in Int /\ ((\A x \in D : v[x] = 0) => g[D] = 0)
    <2> HIDE DEF f
    <2> QED
      BY <1>2, <1>6, SumFacts
  <1>8. bit = 0 \/ D = {} => \A x \in D : v[x] = 0
    <2>1. ASSUME bit = 0, NEW x \in D PROVE bit * Pow2[ByteBits * x] = 0
      <3>1. ByteBits * x \in 0..RegBits
        <4>1. x \in Nat /\ x <= K
          BY <1>2, Widths
        <4>2. ByteBits * K = ByteBits * x + ByteBits * (K - x) /\ ByteBits * (K - x) \in Nat
              /\ ByteBits * x \in Nat
          BY <4>1, Widths
        <4> QED
          BY <4>2, Widths
      <3>2. Pow2[ByteBits * x] \in Int
        BY <3>1, Powers
      <3> QED
        BY <2>1, <3>2
    <2> QED
      BY <1>6, <2>1
  <1> QED
    BY <1>1, <1>5, <1>7, <1>8 DEF D, bit

\* The parts of a register that the code computes with.
Modulus == Pow2[RegBits]
SignValue == Pow2[RegBits - 1]

LEMMA RegPowers ==
    /\ Modulus \in Nat \ {0} /\ SignValue \in Nat \ {0} /\ Modulus = 2 * SignValue
    /\ Pow2[ByteBits - 1] \in Nat \ {0}
    /\ \E t \in Nat \ {0} : Modulus = Pow2[ByteBits - 1] * (2 * t)
  <1>1. /\ RegBits \in 1..RegBits /\ RegBits - 1 \in 0..RegBits
        /\ ByteBits - 1 \in Nat /\ RegBits - ByteBits \in Nat /\ ByteBits \in Nat
        /\ ByteBits + (RegBits - ByteBits) = RegBits
        /\ ByteBits \in 1..RegBits /\ ByteBits - 1 \in 0..RegBits /\ RegBits - ByteBits \in 0..RegBits
    <2>1. ByteBits * K = ByteBits * (K - 1) + ByteBits /\ ByteBits * (K - 1) \in Nat
      BY Widths
    <2>2. RegBits - ByteBits \in Nat
      BY <2>1, Widths
    <2> QED
      BY <2>2, Widths
  <1>2. Modulus = 2 * SignValue
    BY <1>1, Powers DEF Modulus, SignValue
  <1>3. /\ Modulus \in Nat \ {0} /\ SignValue \in Nat \ {0}
        /\ Pow2[ByteBits - 1] \in Nat \ {0} /\ Pow2[RegBits - ByteBits] \in Nat \ {0}
    <2>1. \A k \in 0..RegBits : Pow2[k] \in Nat \ {0}
      BY Powers
    <2>2. RegBits \in 0..RegBits
      BY <1>1
    <2> QED
      BY <1>1, <2>1, <2>2 DEF Modulus, SignValue
  <1>4. Pow2[ByteBits] = 2 * Pow2[ByteBits - 1]
    BY <1>1, Powers
  <1>5. Modulus = Pow2[ByteBits] * Pow2[RegBits - ByteBits]
    BY <1>1, PowerOfSum DEF Modulus
  <1>6. Modulus = Pow2[ByteBits - 1] * (2 * Pow2[RegBits - ByteBits])
    BY <1>3, <1>4, <1>5
  <1> QED
    BY <1>2, <1>3, <1>6

\* A number that is cut to a register keeps its sign bit, if it fits.
LEMMA CutFacts ==
    ASSUME NEW n \in Int
    PROVE  /\ Cut(n) \in 0..Modulus - 1
           /\ n < 0 /\ n >= - SignValue => Cut(n) >= SignValue
           /\ n < 0 /\ n > - Modulus => Cut(n) # 0
  <1> DEFINE M == Modulus
             H == SignValue
             q == n \div M
             u == Cut(n)
  <1>1. M \in Nat \ {0} /\ H \in Nat \ {0} /\ M = 2 * H
    BY RegPowers
  <1>2. q \in Int /\ u \in 0..M - 1 /\ n = M * q + u
    BY <1>1, Division DEF Cut, Modulus
  <1> HIDE DEF M, H, q, u
  <1>3. ASSUME n < 0 PROVE u >= n + M
    <2>1. q <= -1
      <3> SUFFICES ASSUME q >= 0 PROVE FALSE
        BY <1>2
      <3>1. M * q >= 0 /\ M * q \in Int
        BY <1>1, <1>2
      <3> QED
        BY <1>2, <1>3, <3>1
    <2>2. M * q = M * (q + 1) - M /\ M * (q + 1) <= 0 /\ M * (q + 1) \in Int
      <3>1. M * (-(q + 1)) \in Nat /\ M * (q + 1) = - (M * (-(q + 1)))
        BY <1>1, <1>2, <2>1
      <3>2. M * q = M * (q + 1) - M
        BY <1>1, <1>2
      <3> QED
        BY <3>1, <3>2
    <2> QED
      BY <1>1, <1>2, <2>2
  <1>4. u \in 0..M - 1 /\ (n < 0 /\ n >= - H => u >= H) /\ (n < 0 /\ n > - M => u # 0)
    BY <1>1, <1>2, <1>3
  <1> QED
    BY <1>4 DEF u, M, H

LEMMA SignedOfCut ==
    ASSUME NEW n \in Int
    PROVE  /\ Signed(Cut(n), RegBits) = Signed(n, RegBits)
           /\ Signed(n, RegBits) \in RegValue
  <1>1. Modulus \in Nat \ {0} /\ SignValue \in Nat \ {0} /\ Modulus = 2 * SignValue
    BY RegPowers
  <1>2. ((n % Modulus) + SignValue) % Modulus = (n + SignValue) % Modulus
    BY <1>1, RestOfSum
  <1>3. (n + SignValue) % Modulus \in 0..Modulus - 1
    BY <1>1
  <1>4. Signed(n, RegBits) = ((n + SignValue) % Modulus) - SignValue
    BY DEF Signed, Modulus, SignValue
  <1>5. Signed(Cut(n), RegBits) = (((n % Modulus) + SignValue) % Modulus) - SignValue
    BY DEF Signed, Cut, Modulus, SignValue
  <1>6. Signed(n, RegBits) \in RegValue
    BY <1>1, <1>3, <1>4 DEF RegValue, SignValue
  <1> QED
    BY <1>2, <1>4, <1>5, <1>6

\* The bytes that a number takes: the first of them if it is not zero, and all of them
\* as soon as it takes the last.
LEMMA BytesFacts ==
    ASSUME NEW n \in Int
    PROVE  /\ IsFiniteSet(BytesOf(Cut(n))) /\ Cardinality(BytesOf(Cut(n))) \in 0..K
           /\ Cardinality(BytesOf(Cut(n))) = K => BytesOf(Cut(n)) = 0..K - 1
           /\ Cardinality(BytesOf(Cut(n))) = 0 => Cut(n) = 0
           /\ Cut(n) >= SignValue => BytesOf(Cut(n)) = 0..K - 1 /\ Cardinality(BytesOf(Cut(n))) = K
  <1> DEFINE u == Cut(n)
             B == BytesOf(u)
             W == 0..K - 1
  <1>1. K \in Nat \ {0} /\ ByteBits \in Nat \ {0, 1} /\ RegBits = ByteBits * K /\ RegBits \in Nat
    BY Widths
  <1>2. u \in Nat
    BY CutFacts, RegPowers
  <1>3. B = {j \in W : u >= Pow2[ByteBits * j] /\ u > 0}
    BY DEF BytesOf, K
  <1>4. IsFiniteSet(W) /\ Cardinality(W) = K
    <2>1. 0 \in Int /\ K - 1 \in Int /\ 0 <= K - 1 /\ (K - 1) - 0 + 1 = K
      BY <1>1
    <2> HIDE DEF W
    <2> QED
      BY <2>1, FS_Interval DEF W
  <1> HIDE DEF u, W
  <1>5. B \subseteq W
    BY <1>3
  <1> HIDE DEF B
  <1>6. /\ IsFiniteSet(B) /\ Cardinality(B) <= K
        /\ Cardinality(B) = K => B = W
    BY <1>4, <1>5, FS_Subset
  <1>7. Cardinality(B) \in Nat
    BY <1>6, FS_CardinalityType
  <1>8. ASSUME u > 0 PROVE Cardinality(B) # 0
    <2>1. 0 \in W
      BY <1>1 DEF W
    <2>2. ByteBits * 0 = 0 /\ Pow2[0] = 1
      BY <1>1, Powers
    <2>3. 0 \in B
      BY <1>2, <1>3, <1>8, <2>1, <2>2
    <2> QED
      BY <1>6, <2>3, FS_EmptySet
  <1>9. ASSUME u >= SignValue PROVE B = W
    <2>1. ASSUME NEW j \in W PROVE u >= Pow2[ByteBits * j]
      <3>1. j \in Nat /\ K - 1 - j \in Nat
        BY <1>1 DEF W
      <3>2. /\ ByteBits * K = ByteBits * j + ByteBits + ByteBits * (K - 1 - j)
            /\ ByteBits * j \in Nat /\ ByteBits * (K - 1 - j) \in Nat
        BY <1>1, <3>1
      <3>3. /\ ByteBits * j <= RegBits - 1 /\ RegBits - 1 <= RegBits /\ RegBits - 1 \in Nat
            /\ ByteBits * j \in 0..RegBits
        BY <1>1, <3>2
      <3>4. Pow2[ByteBits * j] <= SignValue
        BY <3>2, <3>3, PowersGrow DEF SignValue
      <3>5. Pow2[ByteBits * j] \in Int
        BY <3>3, Powers
      <3> QED
        BY <1>2, <1>9, <3>4, <3>5, RegPowers
    <2>2. u > 0
      BY <1>2, <1>9, RegPowers
    <2> QED
      BY <1>3, <2>1, <2>2
  <1>10. /\ IsFiniteSet(B) /\ Cardinality(B) \in 0..K /\ (Cardinality(B) = K => B = W)
         /\ (Cardinality(B) = 0 => u = 0) /\ (u >= SignValue => B = W /\ Cardinality(B) = K)
    BY <1>1, <1>2, <1>4, <1>6, <1>7, <1>8, <1>9
  <1> QED
    BY <1>10 DEF B, u, W

\* With its sign, a number has the bits of a register at most once more; a number that
\* fits has its sign already.
LEMMA WithSignFacts ==
    ASSUME NEW n \in Int, ~NoByteForSign(n)
    PROVE  /\ WithSign(n) \in Int
           /\ n >= - SignValue => WithSign(n) = Cut(n)
  <1> DEFINE u == Cut(n)
             c == Cardinality(BytesOf(u))
             top == Pow2[ByteBits * c - 1]
  <1>1. u \in Nat /\ c \in 0..K /\ (c = 0 => u = 0)
        /\ (u >= SignValue => c = K)
    <2>1. u \in Nat
      BY CutFacts, RegPowers
    <2>2. c \in 0..K /\ (c = 0 => u = 0) /\ (u >= SignValue => c = K)
      BY BytesFacts, Zenon
    <2> QED
      BY <2>1, <2>2
  <1>2. WithSign(n) = IF n < 0 /\ (u \div top) % 2 = 0 THEN u + top ELSE u
    BY DEF WithSign
  <1>3. n < 0 => c # 0
    <2> SUFFICES ASSUME n < 0, c = 0 PROVE FALSE
      OBVIOUS
    <2>1. u = 0
      BY <1>1
    <2> QED
      BY <2>1 DEF NoByteForSign
  <1> HIDE DEF u, c
  <1>4. ASSUME c # 0 PROVE ByteBits * c - 1 \in 0..RegBits
    <2>1. c - 1 \in Nat /\ K - c \in Nat
      BY <1>1, <1>4, Widths
    <2>2. c \in Nat /\ ByteBits \in Nat \ {0, 1} /\ K \in Nat \ {0} /\ RegBits = ByteBits * K
      BY <1>1, Widths
    <2>3. ByteBits * c = ByteBits * (c - 1) + ByteBits /\ ByteBits * (c - 1) \in Nat
      BY <2>1, <2>2
    <2>4. ByteBits * K = ByteBits * c + ByteBits * (K - c) /\ ByteBits * (K - c) \in Nat
      BY <2>1, <2>2
    <2> QED
      BY <2>2, <2>3, <2>4
  <1>5. ASSUME n < 0 PROVE top \in Nat \ {0}
    BY <1>3, <1>4, <1>5, Powers
  <1>6. WithSign(n) \in Int
    BY <1>1, <1>2, <1>5
  <1>7. ASSUME n >= - SignValue, n < 0 PROVE (u \div top) % 2 # 0
    <2>1. u >= SignValue /\ u \in 0..Modulus - 1
      BY <1>7, CutFacts DEF u
    <2>2. top = SignValue
      BY <1>1, <2>1, Widths DEF SignValue
    <2> DEFINE H == SignValue
    <2>3. H \in Nat \ {0} /\ Modulus = 2 * H
      BY RegPowers
    <2> HIDE DEF H, top
    <2>4. u = H * 1 + (u - H) /\ u - H \in 0..H - 1
      BY <1>1, <2>1, <2>3 DEF H
    <2>5. u \div H = 1
      BY <1>1, <2>3, <2>4, DivisionUnique
    <2>6. top = H
      BY <2>2 DEF H
    <2> QED
      BY <2>5, <2>6
  <1>8. n >= - SignValue => WithSign(n) = u
    BY <1>2, <1>7
  <1> QED
    BY <1>6, <1>8 DEF u

\* The number that the code writes back is the number modulo the register.
LEMMA BufferFacts ==
    ASSUME NEW n \in Int, ~NoByteForSign(n)
    PROVE  /\ BigIntToPaddedBuffer(n) \in RegValue
           /\ WrittenRight(n) => BigIntToPaddedBuffer(n) = Signed(n, RegBits)
  <1>1. WithSign(n) \in Int
    BY WithSignFacts
  <1>2. SignBit(n) \in Int
    <2>1. WithSign(n) \div Pow2[ByteBits - 1] \in Int
      BY <1>1, RegPowers, Division
    <2> QED
      BY <2>1 DEF SignBit
  <1>3. Padding(n) \in Int
    BY <1>2, PaddingIsSum
  <1>4. BigIntToPaddedBuffer(n) \in RegValue
    BY <1>1, <1>3, SignedOfCut DEF BigIntToPaddedBuffer
  <1>5. ASSUME WrittenRight(n) PROVE Padding(n) = 0
    <2>1. n >= - SignValue
      BY <1>5 DEF WrittenRight, SignValue
    <2>2. WithSign(n) = Cut(n)
      BY <2>1, WithSignFacts
    <2>3. CASE Cardinality(BytesOf(Cut(n))) = K
      <3>1. BytesFree(n) = {}
        BY <2>3, BytesFacts DEF BytesFree, K
      <3> QED
        BY <1>2, <3>1, PaddingIsSum
    <2>4. CASE Cardinality(BytesOf(Cut(n))) # K
      <3>1. (n \div Pow2[ByteBits - 1]) % 2 = 0
        BY <1>5, <2>4 DEF WrittenRight, K
      <3>2. PICK t \in Nat \ {0} : Modulus = Pow2[ByteBits - 1] * (2 * t)
        BY RegPowers
      <3>3. ((n % Modulus) \div Pow2[ByteBits - 1]) % 2 = (n \div Pow2[ByteBits - 1]) % 2
        <4>1. Pow2[ByteBits - 1] \in Nat \ {0}
          BY RegPowers
        <4> DEFINE p == Pow2[ByteBits - 1]
        <4>2. p \in Nat \ {0} /\ Modulus \in Int /\ Modulus = p * (2 * t) /\ t \in Nat \ {0}
          BY <3>2, <4>1, RegPowers
        <4> HIDE DEF p
        <4>3. ((n % Modulus) \div p) % 2 = (n \div p) % 2
          BY ONLY n \in Int, <4>2, BitOfRest, Zenon
        <4> QED
          BY <4>3 DEF p
      <3>4. SignBit(n) = 0
        BY <2>2, <3>1, <3>3 DEF SignBit, Cut, Modulus
      <3> QED
        BY <1>2, <3>4, PaddingIsSum
    <2> QED
      BY <2>3, <2>4
  <1>6. ASSUME WrittenRight(n) PROVE BigIntToPaddedBuffer(n) = Signed(n, RegBits)
    <2>1. WithSign(n) = Cut(n)
      BY <1>6, WithSignFacts DEF WrittenRight, SignValue
    <2>2. Cut(n) \in Int
      BY CutFacts, RegPowers
    <2>3. WithSign(n) + Padding(n) = Cut(n)
      BY <1>5, <1>6, <2>1, <2>2
    <2> QED
      BY <2>3, SignedOfCut DEF BigIntToPaddedBuffer
  <1> QED
    BY <1>4, <1>6

-----------------------------------------------------------------------------
(* What the functions give. *)

LEMMA RegRange ==
    ASSUME NEW x \in RegValue
    PROVE  x \in Int /\ - SignValue <= x /\ x < SignValue
  <1>1. SignValue \in Int
    BY RegPowers
  <1>2. RegValue = - SignValue..SignValue - 1
    BY DEF RegValue, SignValue
  <1> QED
    BY <1>1, <1>2

LEMMA ZeroInRange == 0 \in RegValue
  <1>1. SignValue \in Nat \ {0}
    BY RegPowers
  <1> QED
    BY <1>1 DEF RegValue, SignValue

LEMMA QuoFacts ==
    ASSUME NEW x \in Int, NEW y \in Int \ {0}
    PROVE  /\ Quo(x, y) \in Int
           /\ \A b \in Nat : - b <= x /\ x <= b => - b <= Quo(x, y) /\ Quo(x, y) <= b
  <1> DEFINE abs(n) == IF n < 0 THEN - n ELSE n
             q == abs(x) \div abs(y)
  <1>1. abs(x) \in Nat /\ abs(y) \in Nat \ {0}
    OBVIOUS
  <1>2. q \in Nat /\ q <= abs(x)
    <2> DEFINE a == abs(x)
               b == abs(y)
    <2>1. a \in Nat /\ b \in Nat \ {0}
      BY <1>1
    <2> HIDE DEF a, b
    <2>2. a \div b \in Int /\ a % b \in 0..b - 1 /\ a = b * (a \div b) + (a % b)
      BY <2>1, Division
    <2> DEFINE c == a \div b
               r == a % b
    <2>3. c \in Int /\ r \in Nat /\ r < b /\ a = b * c + r
      BY <2>1, <2>2
    <2> HIDE DEF c, r
    <2>4. c >= 0
      <3> SUFFICES ASSUME c < 0 PROVE FALSE
        BY <2>3
      <3>1. b * c = b * (c + 1) - b /\ b * (- (c + 1)) \in Nat /\ b * (c + 1) = - (b * (- (c + 1)))
        BY <2>1, <2>3
      <3> QED
        BY <2>1, <2>3, <3>1
    <2>5. b * c = (b - 1) * c + c /\ (b - 1) * c \in Nat
      BY <2>1, <2>3, <2>4
    <2>6. c \in Nat /\ c <= a
      BY <2>1, <2>3, <2>4, <2>5
    <2> QED
      BY <2>6 DEF a, b, c
  <1>3. Quo(x, y) = IF (x < 0) = (y < 0) THEN q ELSE - q
    BY DEF Quo
  <1> HIDE DEF q
  <1> QED
    BY <1>2, <1>3

LEMMA SignedType ==
    ASSUME NEW n \in Int, NEW bits \in 1..RegBits
    PROVE  Signed(n, bits) \in Int
  <1>1. bits \in 0..RegBits /\ bits - 1 \in 0..RegBits
    BY Widths
  <1>2. Pow2[bits] \in Nat \ {0} /\ Pow2[bits - 1] \in Nat \ {0}
    BY <1>1, Powers
  <1>3. (n + Pow2[bits - 1]) % Pow2[bits] \in Int
    BY <1>2
  <1> QED
    BY <1>2, <1>3 DEF Signed

LEMMA WordFacts ==
    /\ WordBits \in 1..RegBits
    /\ \A k \in 0..RegWords - 1 : WordBits * k \in 0..RegBits
    /\ Pow2[WordBits] \in Nat \ {0}
    /\ \A n \in Int : Wrap(n) \in Int
  <1>1. WordBits \in Nat \ {0}
    BY Widths DEF WordBits
  <1>2. RegBits = WordBits * RegWords /\ RegWords \in Nat \ {0}
    BY Widths DEF RegBits
  <1>3. \A k \in 0..RegWords : WordBits * k \in 0..RegBits
    <2> TAKE k \in 0..RegWords
    <2>1. RegWords - k \in Nat /\ k \in Nat
      BY <1>2
    <2>2. WordBits * RegWords = WordBits * k + WordBits * (RegWords - k)
          /\ WordBits * k \in Nat /\ WordBits * (RegWords - k) \in Nat
      BY <1>1, <1>2, <2>1
    <2> QED
      BY <1>2, <2>2, Widths
  <1>4. WordBits \in 1..RegBits
    <2>1. WordBits * 1 \in 0..RegBits
      BY <1>2, <1>3
    <2> QED
      BY <1>1, <2>1
  <1>5. Pow2[WordBits] \in Nat \ {0}
    <2>1. WordBits \in 0..RegBits
      BY <1>4
    <2> QED
      BY <2>1, Powers
  <1>6. \A n \in Int : Wrap(n) \in Int
    BY <1>4, SignedType DEF Wrap
  <1>7. \A k \in 0..RegWords - 1 : WordBits * k \in 0..RegBits
    BY <1>2, <1>3
  <1> QED
    BY <1>4, <1>5, <1>6, <1>7

LEMMA FromBitsType ==
    ASSUME NEW S \in SUBSET (0..RegBits - 1)
    PROVE  FromBits(S) \in RegValue
  <1> DEFINE v == [x \in S |-> Pow2[x]]
             Sums(it) == it = [s \in SUBSET S |->
                           IF s = {} THEN 0
                           ELSE Pow2[CHOOSE x \in s : TRUE] + it[s \ {CHOOSE x \in s : TRUE}]]
             f == CHOOSE it : Sums(it)
             g == CHOOSE it : IsSum(it, v, S)
             sum == MapThenSumSet(LAMBDA k : Pow2[k], S)
  <1>1. sum = f[S]
    BY DEF MapThenSumSet, MapThenFoldSet
  <1>2. IsFiniteSet(S)
    <2>1. 0 \in Int /\ RegBits - 1 \in Int
      BY Widths
    <2>2. IsFiniteSet(0..RegBits - 1)
      BY <2>1, FS_Interval
    <2> QED
      BY <2>2, FS_Subset
  <1>3. \A x \in S : v[x] \in Int /\ v[x] = Pow2[x]
    <2>1. \A x \in S : x \in 0..RegBits
      BY Widths
    <2> QED
      BY <2>1, Powers
  <1>4. ASSUME NEW it PROVE Sums(it) <=> IsSum(it, v, S)
    <2>1. \A s \in SUBSET S : s # {} => v[Pick(s)] = Pow2[Pick(s)]
      BY PickIn
    <2> HIDE DEF v
    <2> QED
      BY <2>1 DEF IsSum, Pick
  <1> HIDE DEF Sums, v
  <1>5. f = g
    <2>1. \E it : IsSum(it, v, S)
      BY <1>2, <1>3, SumExists DEF Summable
    <2> QED
      BY <1>4, <2>1
  <1>6. g[S] \in Int
    <2> HIDE DEF f
    <2> QED
      BY <1>2, <1>3, SumFacts
  <1>7. sum \in Int
    BY <1>1, <1>5, <1>6
  <1> HIDE DEF sum
  <1>8. Signed(sum, RegBits) \in RegValue
    BY <1>7, SignedOfCut
  <1> QED
    BY <1>8 DEF FromBits, sum

LEMMA BitwiseType ==
    ASSUME NEW x \in Int, NEW y \in Int
    PROVE  Or(x, y) \in RegValue /\ And(x, y) \in RegValue /\ Xor(x, y) \in RegValue
  <1>1. BitsOf(x) \subseteq 0..RegBits - 1 /\ BitsOf(y) \subseteq 0..RegBits - 1
    BY DEF BitsOf
  <1> QED
    BY <1>1, FromBitsType DEF Or, And, Xor

\* A number that is above minus the modulus keeps a byte for its sign.
LEMMA SignHasByte ==
    ASSUME NEW n \in Int, n > - Modulus
    PROVE  ~NoByteForSign(n)
  BY CutFacts DEF NoByteForSign

LEMMA ComputeType ==
    ASSUME NEW do \in BinaryDo, NEW x \in RegValue, NEW y \in RegValue,
           do = "Div" => y # 0,
           do = "Add" => ~NoByteForSign(x + y),
           do = "Mul" => ~NoByteForSign(x * y)
    PROVE  Compute(do, x, y) \in RegValue
  <1>1. /\ x \in Int /\ - SignValue <= x /\ x < SignValue
        /\ y \in Int /\ - SignValue <= y /\ y < SignValue
    BY RegRange
  <1>2. SignValue \in Nat \ {0} /\ Modulus = 2 * SignValue
    BY RegPowers
  <1>3. CASE do = "Set"
    BY <1>3 DEF Compute
  <1>4. CASE do \in {"Or", "And", "Xor"}
    BY <1>1, <1>4, BitwiseType DEF Compute
  <1>5. CASE do = "Add"
    <2>1. x + y \in Int
      BY <1>1
    <2>2. BigIntToPaddedBuffer(x + y) \in RegValue
      BY <1>5, <2>1, BufferFacts
    <2> QED
      BY <1>5, <2>2 DEF Compute
  <1>6. CASE do = "Sub"
    <2>1. x - y \in Int /\ x - y > - Modulus
      BY <1>1, <1>2
    <2>2. BigIntToPaddedBuffer(x - y) \in RegValue
      BY <2>1, SignHasByte, BufferFacts
    <2> QED
      BY <1>6, <2>2 DEF Compute
  <1>7. CASE do = "Mul"
    <2>1. x * y \in Int
      BY <1>1
    <2>2. BigIntToPaddedBuffer(x * y) \in RegValue
      BY <1>7, <2>1, BufferFacts
    <2> QED
      BY <1>7, <2>2 DEF Compute
  <1>8. CASE do = "Div"
    <2>1. Quo(x, y) \in Int /\ - SignValue <= Quo(x, y)
      <3>1. y \in Int \ {0} /\ SignValue \in Nat /\ - SignValue <= x /\ x <= SignValue
        BY <1>1, <1>2, <1>8
      <3> QED
        BY <1>1, <3>1, QuoFacts
    <2>2. Quo(x, y) > - Modulus
      BY <1>2, <2>1
    <2>3. BigIntToPaddedBuffer(Quo(x, y)) \in RegValue
      BY <2>1, <2>2, SignHasByte, BufferFacts
    <2> QED
      BY <1>8, <2>3 DEF Compute
  <1> QED
    BY <1>3, <1>4, <1>5, <1>6, <1>7, <1>8 DEF BinaryDo

LEMMA DigestBitsFacts ==
    ASSUME NEW a \in Algorithm
    PROVE  /\ Pow2[DigestBits[a]] \in Nat \ {0} /\ Pow2[DigestBits[a]] <= Modulus
           /\ a \in {"md5", "ripemd160", "sha256"}
  <1>1. DigestBits[a] \in 1..RegBits /\ a \in {"md5", "ripemd160", "sha256"}
    BY WidthsAssumption
  <1>2. DigestBits[a] \in Nat /\ DigestBits[a] \in 0..RegBits /\ RegBits \in Nat /\ DigestBits[a] <= RegBits
    BY <1>1, Widths
  <1>3. Pow2[DigestBits[a]] <= Modulus
    BY <1>2, PowersGrow DEF Modulus
  <1> QED
    BY <1>1, <1>2, <1>3, Powers

LEMMA DigestType ==
    ASSUME NEW a \in Algorithm, NEW reg \in [Register -> RegValue]
    PROVE  /\ DigestOf(a, reg) \in Int
           /\ ReplaceLow(reg["B"], DigestOf(a, reg), DigestBits[a]) \in RegValue
  <1> DEFINE x == reg["A"]
             p == Pow2[DigestBits[a]]
             input == IF a = "md5" THEN x % p ELSE x
  <1>1. p \in Nat \ {0} /\ p <= Modulus /\ Modulus \in Nat \ {0}
    BY DigestBitsFacts, RegPowers
  <1>2. x \in RegValue /\ x \in Int /\ reg["B"] \in Int
    BY RegRange DEF Register
  <1>3. input \in RegValue \cup 0..Modulus - 1
    <2> HIDE DEF p, x
    <2>1. x % p \in 0..Modulus - 1
      BY <1>1, <1>2
    <2> QED
      BY <1>2, <2>1
  <1>4. Digest(a, input) \in Int
    <2> HIDE DEF input
    <2> QED
      BY <1>3, DigestAssumption DEF Modulus
  <1>5. DigestOf(a, reg) = Digest(a, input) % p
    BY DEF DigestOf
  <1> HIDE DEF input, p
  <1>6. DigestOf(a, reg) \in Int
    BY <1>1, <1>4, <1>5
  <1>7. (reg["B"] - (reg["B"] % p)) + (DigestOf(a, reg) % p) \in Int
    BY <1>1, <1>2, <1>6
  <1> QED
    BY <1>6, <1>7, SignedOfCut DEF ReplaceLow, p

\* Words are read from a register and written to it.
LEMMA WordType ==
    ASSUME NEW x \in RegValue, NEW k \in 0..RegWords - 1
    PROVE  /\ GetWord(x, k) \in Int
           /\ \A w \in Int : SetWord(x, k, w) \in RegValue
  <1> DEFINE at == Pow2[WordBits * k]
             p == Pow2[WordBits]
  <1>1. at \in Nat \ {0} /\ p \in Nat \ {0}
    BY WordFacts, Powers
  <1>2. x \in Int
    BY RegRange
  <1>3. x \div at \in Int
    BY <1>1, <1>2, Division
  <1>4. GetWord(x, k) \in Int
    BY <1>3, WordFacts DEF GetWord
  <1>5. ASSUME NEW w \in Int PROVE SetWord(x, k, w) \in RegValue
    <2> DEFINE c == (w % p) - ((x \div at) % p)
    <2>1. c \in Int
      BY <1>1, <1>3
    <2>2. SetWord(x, k, w) = Signed(x + c * at, RegBits)
      BY DEF SetWord
    <2> HIDE DEF c, at
    <2>3. x + c * at \in Int
      BY <1>1, <1>2, <2>1
    <2> QED
      BY <2>2, <2>3, SignedOfCut
  <1> QED
    BY <1>4, <1>5

-----------------------------------------------------------------------------
(* The functions keep the registers, the counter and the balance *)
Held == [reg : [Register -> RegValue], val : Int, balance : Int]

Typed(answer) == answer.ext \in Held /\ answer.rc \in Int

LEMMA WithRegHeld ==
    ASSUME NEW e \in Held, NEW r \in Register, NEW n \in RegValue
    PROVE  WithReg(e, r, n) \in Held
  BY DEF WithReg, Held

LEMMA AnswerTyped ==
    ASSUME NEW e \in Held, NEW n \in Int
    PROVE  Typed(Answer(e, n))
  BY DEF Typed, Answer

LEMMA FunTyped ==
    ASSUME NEW f, IsFun(f), NEW e \in Held, ~FunPanics(f, e)
    PROVE  Typed(Fun(f, e))
  <1> DEFINE reg == e.reg
             x == reg[f.r]
             y == reg[Other(f.r)]
  <1>0. f.do \in Algorithm => f.do \in {"md5", "ripemd160", "sha256"}
    BY DigestBitsFacts
  <1>1. /\ f.r \in Register /\ reg \in [Register -> RegValue] /\ e.val \in Int /\ e.balance \in Int
        /\ Other(f.r) \in Register /\ {"A", "B"} = Register
    BY DEF IsFun, Held, Other, Register
  <1>2. x \in RegValue /\ y \in RegValue /\ x \in Int /\ y \in Int
    BY <1>1, RegRange
  <1>3. CASE f.do \in {"val", "balance", "unknown", "IsZero", "IsEqual"} \/ (f.do = "number" /\ f.i \in Int)
    <2>1. \A b : Bool(b) \in Int
      BY DEF Bool
    <2>2. \E n \in Int : Fun(f, e) = Answer(e, n)
      BY <1>0, <1>1, <1>3, <2>1 DEF Fun, BinaryDo
    <2> QED
      BY <2>2, AnswerTyped
  <1>4. CASE f.do = "count"
    <2>1. [e EXCEPT !.val = 0] \in Held /\ [e EXCEPT !.val = @ + 1] \in Held
      BY DEF Held
    <2>2. e.val + 1 \in Int
      BY <1>1
    <2>3. \/ Fun(f, e) = Answer([e EXCEPT !.val = 0], 0)
          \/ Fun(f, e) = Answer([e EXCEPT !.val = @ + 1], e.val + 1)
      BY <1>0, <1>4 DEF Fun, BinaryDo
    <2> QED
      BY <2>1, <2>2, <2>3, AnswerTyped
  <1>5. CASE f.do = "Get" /\ f.i \in 0..RegWords - 1
    <2>1. Fun(f, e) = Answer(e, GetWord(x, f.i))
      BY <1>0, <1>5 DEF Fun, BinaryDo
    <2> QED
      BY <1>2, <1>5, <2>1, WordType, AnswerTyped
  <1>6. CASE f.do = "Clear"
    <2>1. Fun(f, e) = Answer(WithReg(e, f.r, 0), 0)
      BY <1>0, <1>6 DEF Fun, BinaryDo
    <2> QED
      BY <1>1, <2>1, ZeroInRange, WithRegHeld, AnswerTyped
  <1>7. CASE f.do \in {"ClearAB", "Swap"}
    <2>1. [e EXCEPT !.reg = [r \in Register |-> 0]] \in Held
      BY ZeroInRange DEF Held
    <2>2. [e EXCEPT !.reg = [r \in Register |-> reg[Other(r)]]] \in Held
      <3>1. \A r \in Register : Other(r) \in Register
        BY DEF Other, Register
      <3>2. [r \in Register |-> reg[Other(r)]] \in [Register -> RegValue]
        BY <1>1, <3>1
      <3> QED
        BY <3>2 DEF Held
    <2>3. \/ Fun(f, e) = Answer([e EXCEPT !.reg = [r \in Register |-> 0]], 0)
          \/ Fun(f, e) = Answer([e EXCEPT !.reg = [r \in Register |-> reg[Other(r)]]], 0)
      BY <1>0, <1>7 DEF Fun, BinaryDo
    <2> QED
      BY <2>1, <2>2, <2>3, AnswerTyped
  <1>8. CASE f.do \in BinaryDo
    <2>1. CASE f.do = "Div" /\ y = 0
      <3>1. Fun(f, e) = Answer(e, -2)
        BY <1>0, <2>1 DEF Fun, BinaryDo
      <3> QED
        BY <3>1, AnswerTyped
    <2>2. CASE ~(f.do = "Div" /\ y = 0)
      <3>1. /\ f.do = "Add" => ~NoByteForSign(x + y)
            /\ f.do = "Mul" => ~NoByteForSign(x * y)
        <4>1. CASE f.r = "A"
          BY <4>1 DEF FunPanics, Other
        <4>2. CASE f.r = "B"
          <5>1. x + y = reg["A"] + reg["B"] /\ x * y = reg["A"] * reg["B"]
            BY <1>2, <4>2 DEF Other
          <5> QED
            BY <5>1 DEF FunPanics
        <4> QED
          BY <1>1, <4>1, <4>2
      <3>2. Compute(f.do, x, y) \in RegValue
        BY <1>2, <1>8, <2>2, <3>1, ComputeType
      <3>3. Fun(f, e) = Answer(WithReg(e, f.r, Compute(f.do, x, y)), 0)
        BY <1>0, <1>8, <2>2 DEF Fun, BinaryDo
      <3> QED
        BY <1>1, <3>2, <3>3, WithRegHeld, AnswerTyped
    <2> QED
      BY <2>1, <2>2
  <1>9. CASE f.do \in Algorithm
    <2>1. f.do \in {"md5", "ripemd160", "sha256"}
      BY <1>9, DigestBitsFacts
    <2>2. Fun(f, e) = Answer(WithReg(e, "B", ReplaceLow(reg["B"], DigestOf(f.do, reg), DigestBits[f.do])), 0)
      BY <1>9, <2>1 DEF Fun, BinaryDo
    <2> QED
      BY <1>1, <1>9, <2>2, DigestType, WithRegHeld, AnswerTyped
  <1>10. CASE f.do = "Check" /\ f.i \in Algorithm
    <2>1. Bool(DigestOf(f.i, reg) = reg["B"] % Pow2[DigestBits[f.i]]) \in Int
      BY DEF Bool
    <2>2. f.do \notin Algorithm
      BY <1>10, DigestBitsFacts
    <2>3. Fun(f, e) = Answer(e, Bool(DigestOf(f.i, reg) = reg["B"] % Pow2[DigestBits[f.i]]))
      BY <1>10, <2>2 DEF Fun, BinaryDo
    <2> QED
      BY <2>1, <2>3, AnswerTyped
  <1> QED
    BY <1>3, <1>4, <1>5, <1>6, <1>7, <1>8, <1>9, <1>10 DEF IsFun

LEMMA Fun1Typed ==
    ASSUME NEW f, IsFun1(f), NEW v \in Int, NEW e \in Held
    PROVE  Typed(Fun1(f, v, e))
  <1>1. v * 2 \in Int /\ Quo(v, 2) \in Int
    BY QuoFacts
  <1>2. [e EXCEPT !.balance = 0] \in Held
    BY DEF Held
  <1>3. CASE f.do \in {"double", "halve", "payBalance", "unknown"}
    BY <1>1, <1>2, <1>3, AnswerTyped DEF Fun1
  <1>4. CASE f.do = "SetWord" /\ f.r \in Register /\ f.i \in 0..RegWords - 1
    <2>1. e.reg[f.r] \in RegValue
      BY <1>4 DEF Held
    <2>2. SetWord(e.reg[f.r], f.i, v) \in RegValue
      BY <1>4, <2>1, WordType
    <2> QED
      BY <1>4, <2>2, WithRegHeld, AnswerTyped DEF Fun1
  <1> QED
    BY <1>3, <1>4 DEF IsFun1

LEMMA Fun2Typed ==
    ASSUME NEW f, IsFun2(f), NEW v \in Int, NEW w \in Int, ~Fun2Panics(f, w), NEW e \in Held
    PROVE  Typed(Fun2(f, v, w, e))
  <1>1. v * w \in Int /\ v + w \in Int
    OBVIOUS
  <1>2. f.do = "divide" => Quo(v, w) \in Int
    BY QuoFacts DEF Fun2Panics
  <1>3. CASE f.do \in {"multiply", "divide", "sum", "unknown"}
    BY <1>1, <1>2, <1>3, AnswerTyped DEF Fun2
  <1>4. CASE f.do = "pay"
    <2>1. e.balance \in Int /\ Wrap(e.balance - v) \in Int
      BY WordFacts DEF Held
    <2>2. [e EXCEPT !.balance = IF v > @ THEN 0 ELSE Wrap(@ - v)] \in Held
      BY <2>1 DEF Held
    <2> QED
      BY <1>4, <2>2, AnswerTyped DEF Fun2
  <1>5. CASE f.do = "SetWords" /\ f.r \in Register /\ {f.i, f.i + 1} \subseteq 0..RegWords - 1
    <2>1. e.reg[f.r] \in RegValue
      BY <1>5 DEF Held
    <2>2. SetWord(e.reg[f.r], f.i, v) \in RegValue
      BY <1>5, <2>1, WordType
    <2>3. SetWord(SetWord(e.reg[f.r], f.i, v), f.i + 1, w) \in RegValue
      BY <1>5, <2>2, WordType
    <2> QED
      BY <1>5, <2>3, WithRegHeld, AnswerTyped DEF Fun2
  <1> QED
    BY <1>3, <1>4, <1>5 DEF IsFun2

-----------------------------------------------------------------------------
(* The registers hold numbers of their width, and the memory holds numbers *)
RegistersHeld == ext \in Held /\ mem \in [Cell -> Int]

\* The functions that an instruction may name.
Callable(i) == /\ i.op \in {"ExtFun", "ExtFunRet"} => IsFun(i.fun)
               /\ i.op \in {"ExtFunDat", "ExtFunRetDat"} => IsFun1(i.fun)
               /\ i.op \in {"ExtFunDat2", "ExtFunRetDat2"} => IsFun2(i.fun)

LEMMA BinaryTyped ==
  ASSUME NEW op \in BinaryOps, NEW x \in Int, NEW y \in Int,
         op = "DivDat" => y # 0, op = "ModDat" => x # 0
  PROVE  BinaryResult(op, x, y) \in Int
  <1>1. CASE op \in {"SetDat", "AddDat", "SubDat"}
    <2>1. x + y \in Int /\ x - y \in Int
      OBVIOUS
    <2> QED
      BY <1>1, <2>1 DEF BinaryResult
  <1>2. CASE op = "MulDat"
    <2>1. x * y \in Int
      OBVIOUS
    <2> QED
      BY <1>2, <2>1 DEF BinaryResult
  <1>3. CASE op = "DivDat"
    <2>1. Quo(x, y) \in Int
      BY <1>3, QuoFacts
    <2> QED
      BY <1>3, <2>1 DEF BinaryResult
  <1>4. CASE op \in {"BorDat", "AndDat", "XorDat"}
    <2>1. Or(x, y) \in Int /\ And(x, y) \in Int /\ Xor(x, y) \in Int
      BY BitwiseType, RegRange
    <2> QED
      BY <1>4, <2>1 DEF BinaryResult
  <1>5. CASE op = "ModDat"
    <2>1. Quo(y, x) \in Int
      BY <1>5, QuoFacts
    <2>2. Rem(y, x) \in Int
      BY <2>1 DEF Rem
    <2> QED
      BY <1>5, <2>2 DEF BinaryResult
  <1>6. CASE op \in {"ShlDat", "ShrDat"}
    <2> DEFINE n == x % Pow2[WordBits]
    <2>1. Pow2[WordBits] \in Nat \ {0} /\ WordBits \in Nat /\ WordBits <= RegBits /\ RegBits \in Nat
      BY WordFacts, Widths
    <2>2. n \in Nat
      BY <2>1
    <2>3. n < WordBits => y * Pow2[n] \in Int /\ y \div Pow2[n] \in Int
      <3>1. n < WordBits => n \in 0..RegBits
        BY <2>1, <2>2
      <3> HIDE DEF n
      <3>2. n < WordBits => Pow2[n] \in Nat \ {0}
        BY <3>1, Powers
      <3> QED
        BY <3>2, Division
    <2>4. \A left \in BOOLEAN : Shift(y, x, left) \in Int
      <3> HIDE DEF n
      <3>1. \A left \in BOOLEAN :
              Shift(y, x, left) = IF n < WordBits THEN (IF left THEN y * Pow2[n] ELSE y \div Pow2[n])
                                  ELSE IF left \/ y >= 0 THEN 0 ELSE -1
        BY DEF Shift, n
      <3> QED
        BY <2>3, <3>1
    <2> QED
      BY <1>6, <2>4 DEF BinaryResult
  <1> QED
    BY <1>1, <1>2, <1>3, <1>4, <1>5, <1>6 DEF BinaryOps, ReverseOps

LEMMA StoreTyped ==
  ASSUME RegistersHeld, NEW i, NEW k, NEW v \in Int, Stores(i, k, v)
  PROVE  mem' \in [Cell -> Int]
  <1>1. Wrap(v) \in Int
    BY WordFacts
  <1> QED
    BY <1>1 DEF Stores, RegistersHeld

\* What an instruction reads of the memory is a number.
LEMMA ReadTyped ==
  ASSUME RegistersHeld, NEW i, OperandsOk(i)
  PROVE  \A n \in 1..Arity(i.op) : At(i, n) \in Int
  BY Slots DEF OperandsOk, Valid, At, RegistersHeld

LEMMA StepKeepsRegisters ==
  ASSUME IInv, RegistersHeld, mode = "run", NEW i, Fetched(i), Callable(i), processOp(i)
  PROVE  RegistersHeld'
  <1>1. CASE UNCHANGED <<mem, ext>>
    BY <1>1 DEF RegistersHeld, Cell
  <1>2. CASE Overflow(i) \/ Panic(i) \/ DivideByZero(i) \/ RetSub(i) \/ JmpAdr(i) \/ Branch(i)
             \/ Sleep(i) \/ Halt(i) \/ DoesNotHalt(i) \/ ErrAdr(i) \/ SetPcs(i) \/ ExtFunCutOff(i) \/ Nop(i) \/ Invalid(i)
    BY <1>1, <1>2 DEF Overflow, Panic, DivideByZero, RetSub, JmpAdr, Branch, Sleep, Halt,
             DoesNotHalt, ErrAdr, SetPcs, ExtFunCutOff, Nop, Invalid, Jumps
  <1> DEFINE Writes == mem' \in [Cell -> Int]
  <1>3. Writes /\ ext' \in Held => RegistersHeld'
    BY DEF RegistersHeld, Cell
  <1>4. \A k : \A v \in Int : Stores(i, k, v) => Writes
    BY StoreTyped
  <1>5. Runs(i) /\ i.op # "ExtFun" => OperandsOk(i) /\ \A n \in 1..Arity(i.op) : At(i, n) \in Int
    BY RunFacts, ReadTyped
  <1>6. ext \in Held /\ mem \in [Cell -> Int]
    BY DEF RegistersHeld
  <1>7. ~(OpPanics(i) /\ Runs(i))
    BY DEF Runs
  <1> HIDE DEF Writes
  <1>8. CASE Runs(i) /\ SetVal(i)
    BY <1>3, <1>4, <1>6, <1>8 DEF SetVal, Fetched
  <1>9. CASE Runs(i) /\ Unary(i)
    <2>1. At(i, 1) \in Int
      BY <1>5, <1>9, Arities DEF Unary, UnaryOps, AddrOps
    <2> QED
      BY <1>3, <1>4, <1>6, <1>9, <2>1 DEF Unary, UnaryOps
  <1>10. CASE Runs(i) /\ Binary(i)
    <2>1. i.op \in BinaryOps /\ OperandsOk(i) /\ At(i, 1) \in Int /\ At(i, 2) \in Int
      BY <1>5, <1>10, Arities DEF Binary, PairOps, BinaryOps, ReverseOps
    <2>2. (i.op = "DivDat" => At(i, 2) # 0) /\ (i.op = "ModDat" => At(i, 1) # 0)
      BY <1>7, <1>10, <2>1 DEF Binary, OpPanics
    <2>3. BinaryResult(i.op, At(i, 1), At(i, 2)) \in Int
      BY <2>1, <2>2, BinaryTyped
    <2> QED
      BY <1>3, <1>4, <1>6, <1>10, <2>3 DEF Binary
  <1>11. CASE Runs(i) /\ Indirect(i)
    <2>1. Index(i) \in Address /\ At(i, Arity(i.op)) \in Int
      <3>1. i.op \in IndirectOps /\ i.op # "ExtFun"
        BY <1>11 DEF Indirect, IndirectOps, TripleOps
      <3>2. Arity(i.op) \in 1..Arity(i.op)
        BY <3>1, Arities DEF IndirectOps, PairOps, TripleOps, Arity, NoOps, AddrOps, UnaryOps,
           BinaryOps, ReverseOps, Branch1Ops, Branch2Ops, Fun1Ops, Fun2Ops
      <3> QED
        BY <1>5, <1>11, <3>1, <3>2, RunFacts
    <2>2. mem[Index(i)] \in Int
      BY <1>6, <2>1, Slots
    <2> QED
      BY <1>3, <1>4, <1>6, <1>11, <2>1, <2>2 DEF Indirect
  <1>12. CASE Runs(i) /\ PshDat(i)
    <2>1. At(i, 1) \in Int
      BY <1>5, <1>12, Arities DEF PshDat, AddrOps
    <2> QED
      BY <1>3, <1>6, <1>12, <2>1 DEF PshDat, Writes
  <1>13. CASE Runs(i) /\ PopDat(i)
    <2>1. us \in 1..UserWords
      BY <1>13, RunFacts, Sizes DEF PopDat, IInv, TypeOK
    <2>2. mem[UserSlot(us)] \in Int
      BY <1>6, <2>1, Slots
    <2> QED
      BY <1>3, <1>6, <1>13, <2>2 DEF PopDat, Writes
  <1>14. CASE Runs(i) /\ JmpSub(i)
    <2>1. pc + (IF cs = CallWords THEN -1 ELSE Length(i.op)) \in Int
      BY LengthIsNat DEF Fetched
    <2> QED
      BY <1>3, <1>6, <1>14, <2>1 DEF JmpSub, Writes
  <1>15. CASE Runs(i) /\ ExtFun(i)
    <2> DEFINE answer == CASE i.op \in {"ExtFun", "ExtFunRet"} -> Fun(i.fun, ext)
                           [] i.op = "ExtFunDat" -> Fun1(i.fun, At(i, 1), ext)
                           [] i.op = "ExtFunRetDat" -> Fun1(i.fun, At(i, 2), ext)
                           [] i.op = "ExtFunDat2" -> Fun2(i.fun, At(i, 1), At(i, 2), ext)
                           [] i.op = "ExtFunRetDat2" -> Fun2(i.fun, At(i, 2), At(i, 3), ext)
    <2>0. OperandsOk(i)
      <3>1. i.op = "ExtFun" => OperandsOk(i)
        BY <1>15 DEF ExtFun, OperandsOk, Arity, NoOps, AddrOps, UnaryOps, PairOps, BinaryOps,
           ReverseOps, TripleOps, Branch1Ops, Branch2Ops, Fun1Ops, Fun2Ops
      <3> QED
        BY <1>5, <1>15, <3>1
    <2>1. \A n \in 1..Arity(i.op) : At(i, n) \in Int
      BY <2>0, ReadTyped
    <2>2. Typed(answer)
      <3>1. CASE i.op \in {"ExtFun", "ExtFunRet"}
        <4>1. ~FunPanics(i.fun, ext) /\ IsFun(i.fun)
          BY <1>7, <1>15, <2>0, <3>1 DEF OpPanics, Callable
        <4>2. Typed(Fun(i.fun, ext))
          BY <1>6, <4>1, FunTyped
        <4> QED
          BY <3>1, <4>2
      <3>2. CASE i.op \in {"ExtFunDat", "ExtFunRetDat"}
        <4>1. /\ i.op = "ExtFunDat" => At(i, 1) \in Int
              /\ i.op = "ExtFunRetDat" => At(i, 2) \in Int
          BY <2>1, <3>2, Arities DEF Fun1Ops, Fun2Ops
        <4> QED
          BY <1>6, <3>2, <4>1, Fun1Typed DEF Callable
      <3>3. CASE i.op = "ExtFunDat2"
        <4>1. At(i, 1) \in Int /\ At(i, 2) \in Int
          BY <2>1, <3>3, Arities DEF Fun2Ops
        <4>2. ~Fun2Panics(i.fun, At(i, 2)) /\ IsFun2(i.fun)
          BY <1>7, <1>15, <2>0, <3>3 DEF OpPanics, Callable
        <4>3. Typed(Fun2(i.fun, At(i, 1), At(i, 2), ext))
          BY <1>6, <4>1, <4>2, Fun2Typed
        <4> QED
          BY <3>3, <4>3
      <3>4. CASE i.op = "ExtFunRetDat2"
        <4>1. At(i, 2) \in Int /\ At(i, 3) \in Int
          BY <2>1, <3>4, Arities
        <4>2. ~Fun2Panics(i.fun, At(i, 3)) /\ IsFun2(i.fun)
          BY <1>7, <1>15, <2>0, <3>4 DEF OpPanics, Callable
        <4>3. Typed(Fun2(i.fun, At(i, 2), At(i, 3), ext))
          BY <1>6, <4>1, <4>2, Fun2Typed
        <4> QED
          BY <3>4, <4>3
      <3> QED
        BY <1>15, <3>1, <3>2, <3>3, <3>4 DEF ExtFun
    <2>3. /\ ext' = answer.ext
          /\ UNCHANGED mem \/ Stores(i, i.addr[1], answer.rc)
      BY <1>15 DEF ExtFun
    <2> HIDE DEF answer
    <2> QED
      BY <1>3, <1>4, <1>6, <2>2, <2>3 DEF Typed, Writes
  <1> QED
    BY <1>2, <1>8, <1>9, <1>10, <1>11, <1>12, <1>13, <1>14, <1>15, Zenon DEF processOp

LEMMA CallableInCode ==
  ASSUME pc \in 0..CSize - 1, NEW i \in Code[pc] PROVE Callable(i)
  BY CodeAssumption DEF Callable

LEMMA HeldAlways == Spec => []RegistersHeld
  <1>1. Init => RegistersHeld
    <2> SUFFICES ASSUME Init PROVE RegistersHeld
      OBVIOUS
    <2>1. PICK a \in Registers, b \in Registers :
            ext = [reg |-> [r \in Register |-> IF r = "A" THEN a ELSE b],
                   val |-> 0, balance |-> DefaultBalance]
      BY DEF Init
    <2>2. a \in RegValue /\ b \in RegValue /\ DefaultBalance \in Int
      BY CodeAssumption
    <2> QED
      BY <2>1, <2>2 DEF Init, RegistersHeld, Held
  <1>2. IInv /\ RegistersHeld /\ [execute]_vars => RegistersHeld'
    <2> SUFFICES ASSUME IInv, RegistersHeld, [execute]_vars PROVE RegistersHeld'
      OBVIOUS
    <2>1. CASE UNCHANGED <<mem, ext>>
      BY <2>1 DEF RegistersHeld, Cell
    <2>2. CASE mode = "run" /\ pc \in 0..CSize - 1 /\ \E i \in Code[pc] : processOp(i)
      BY <2>2, StepKeepsRegisters, FetchedInCode, CallableInCode
    <2> QED
      BY <2>1, <2>2 DEF execute, BeforeCode, BehindCode, vars
  <1> QED
    BY <1>1, <1>2, Invariance, PTL DEF Spec

LEMMA HeldComputes == RegistersHeld => RegistersCompute
  <1> SUFFICES ASSUME RegistersHeld PROVE RegistersCompute
    OBVIOUS
  <1> DEFINE a == ext.reg["A"]
             b == ext.reg["B"]
  <1>1. a \in Int /\ b \in Int
    BY RegRange DEF RegistersHeld, Held, Register
  <1>2. ASSUME NEW n \in Int, WrittenRight(n) PROVE BigIntToPaddedBuffer(n) = Signed(n, RegBits)
    <2>1. n > - Modulus
      BY <1>2, RegPowers DEF WrittenRight, SignValue
    <2> QED
      BY <1>2, <2>1, SignHasByte, BufferFacts
  <1>3. {a + b, a - b, b - a, a * b} \subseteq Int
    BY <1>1
  <1> HIDE DEF a, b
  <1>4. \A n \in {a + b, a - b, b - a, a * b} :
            WrittenRight(n) => BigIntToPaddedBuffer(n) = Signed(n, RegBits)
    BY <1>2, <1>3
  <1> QED
    BY <1>4 DEF RegistersCompute, a, b

\* Whatever a program does with the registers A and B, they hold numbers of the width of
\* a register, and what is counted, paid and stored in the memory are numbers (fun, fun1,
\* fun2, processOp).
THEOREM RegistersStayInRange == Spec => []RegistersHeld
  BY HeldAlways

\* Sums, differences and products of A and B wrap around, where the code writes them
\* right: the low byte decides whether bigIntToPaddedBuffer fills up with ones.
THEOREM RegistersAlwaysCompute == Spec => []RegistersCompute
  BY HeldAlways, HeldComputes, PTL
=============================================================================
