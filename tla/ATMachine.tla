------------------------------- MODULE ATMachine -------------------------------
(***************************************************************************)
(* The virtual machine of automated transactions (pkg/at): newStateMachine, *)
(* processOp and execute.  Code is addressed by byte, and instructions have *)
(* the lengths of the code; the data and the two stacks behind it are words *)
(* of one array, as in the code, which computes every slot itself.         *)
(*                                                                         *)
(* Code gives the instructions that may be found at each byte: one for a   *)
(* given program; many to range over programs, and where an instruction is *)
(* cut off by the end of the code, whose operands the machine then reads    *)
(* from the memory behind it.  A zero byte, which fills the code up, is    *)
(* "invalid".  Where addresses are tested against overflows of 32 bits, the *)
(* test comes to: it is the address of a word of data.                     *)
(***************************************************************************)
EXTENDS ATRegisters, Sequences

CONSTANTS CSize,                            \* bytes of code
          DataWords, CallWords, UserWords,  \* words of the data and of the stacks
          DefaultBalance,
          Code,
          Registers,      \* contents of A and B that a run may start with
          MaxSteps        \* instructions of a run: a bound

VARIABLES pc, pce, pcs,   \* program counter, of the error handler, of the start
          cs, us,         \* words on the call stack and on the user stack
          mem,            \* data, call stack, user stack
          ext,            \* registers, counter and balance
          steps, mode     \* "run", or how execute ended

vars == <<pc, pce, pcs, cs, us, mem, ext, steps, mode>>

Address == 0..DataWords - 1
Cell == 0..DataWords + CallWords + UserWords - 1
CallSlot(n) == DataWords + CallWords - n             \* the n-th word pushed
UserSlot(n) == DataWords + CallWords + UserWords - n
CallBytes == 8 * CallWords

-----------------------------------------------------------------------------
(* The instructions, by the operands that follow the opcode *)
NoOps == {"RetSub", "FinImd", "StpImd", "SlpImd", "SetPcs", "Nop", "invalid"}
UnaryOps == {"ClrDat", "IncDat", "DecDat", "NotDat"}
AddrOps == UnaryOps \cup {"PshDat", "PopDat", "JmpSub", "JmpAdr", "SlpDat", "FizDat", "StzDat", "ErrAdr"}
ReverseOps == {"ModDat", "ShlDat", "ShrDat"}   \* they write the second operand
BinaryOps == {"SetDat", "AddDat", "SubDat", "MulDat", "DivDat", "BorDat", "AndDat", "XorDat"} \cup ReverseOps
PairOps == BinaryOps \cup {"SetInd", "IndDat"}
TripleOps == {"SetIdx", "IdxDat"}
Branch1Ops == {"BzrDat", "BnzDat"}
Branch2Ops == {"BgtDat", "BltDat", "BgeDat", "BleDat", "BeqDat", "BneDat"}
Fun1Ops == {"ExtFunDat", "ExtFunRet"}
Fun2Ops == {"ExtFunDat2", "ExtFunRetDat"}
Ops == NoOps \cup AddrOps \cup {"SetVal"} \cup PairOps \cup TripleOps \cup Branch1Ops
         \cup Branch2Ops \cup {"ExtFun"} \cup Fun1Ops \cup Fun2Ops \cup {"ExtFunRetDat2"}

Arity(op) ==
    CASE op \in NoOps \cup {"ExtFun"} -> 0
      [] op \in AddrOps \cup {"SetVal"} \cup Branch1Ops \cup Fun1Ops -> 1
      [] op \in PairOps \cup Branch2Ops \cup Fun2Ops -> 2
      [] op \in TripleOps \cup {"ExtFunRetDat2"} -> 3

Length(op) ==
    CASE op \in NoOps -> 1
      [] op \in AddrOps -> 1 + 4
      [] op = "SetVal" -> 1 + 4 + 8
      [] op \in PairOps -> 1 + 4 + 4
      [] op \in TripleOps -> 1 + 4 + 4 + 4
      [] op \in Branch1Ops -> 1 + 4 + 1
      [] op \in Branch2Ops -> 1 + 4 + 4 + 1
      [] op = "ExtFun" -> 1 + 2
      [] op \in Fun1Ops -> 1 + 2 + 4
      [] op \in Fun2Ops -> 1 + 2 + 4 + 4
      [] op = "ExtFunRetDat2" -> 1 + 2 + 4 + 4 + 4

\* The last byte that the code tests to be there: for instructions with several
\* plain addresses, it is the last byte of the first.
LastTested(op) ==
    CASE op \in PairOps \cup TripleOps -> 4
      [] op = "ExtFunRetDat2" -> 2 + 4 + 4
      [] OTHER -> Length(op) - 1

ASSUME CodeAssumption ==
    /\ {CSize, DataWords, CallWords, UserWords} \subseteq Nat \ {0} /\ DefaultBalance \in Int
    /\ \A p \in 0..CSize - 1 : \A i \in Code[p] :
           /\ i.op \in Ops /\ i.imm \in Int /\ i.addr \in Seq(Int) /\ Len(i.addr) = Arity(i.op)
           /\ i.op \in {"ExtFun", "ExtFunRet"} => IsFun(i.fun)
           /\ i.op \in {"ExtFunDat", "ExtFunRetDat"} => IsFun1(i.fun)
           /\ i.op \in {"ExtFunDat2", "ExtFunRetDat2"} => IsFun2(i.fun)
    /\ Registers \subseteq RegValue

Init ==
    /\ pc = 0 /\ pce = 0 /\ pcs = 0 /\ cs = 0 /\ us = 0
    /\ mem = [k \in Cell |-> 0]
    /\ \E a, b \in Registers :
           ext = [reg |-> [r \in Register |-> IF r = "A" THEN a ELSE b],
                  val |-> 0, balance |-> DefaultBalance]
    /\ steps = 0 /\ mode = "run"

-----------------------------------------------------------------------------
(* Operands *)
At(i, n) == mem[i.addr[n]]      \* the word that the n-th address names
Valid(i, n) == i.addr[n] \in Address

\* The word that an indirect instruction reads or writes.
Index(i) ==
    CASE i.op = "SetInd" -> At(i, 2)
      [] i.op = "IndDat" -> At(i, 1)
      [] i.op = "SetIdx" -> Wrap(At(i, 2) + At(i, 3))
      [] i.op = "IdxDat" -> Wrap(At(i, 1) + At(i, 2))
IndirectOps == {"SetInd", "IndDat"} \cup TripleOps

CutOff(i) == pc + LastTested(i.op) >= CSize
OperandsOk(i) == ~CutOff(i) /\ \A n \in 1..Arity(i.op) : Valid(i, n)

\* Reading an operand that begins past the code panics.  Later operands are read
\* after earlier ones are tested.
ReadPanics(i) ==
    /\ ~CutOff(i)
    /\ \/ i.op \in PairOps \cup TripleOps /\ pc + 5 >= CSize
       \/ i.op \in TripleOps /\ Valid(i, 1) /\ Valid(i, 2) /\ pc + 9 >= CSize
       \/ i.op = "ExtFunRetDat2" /\ Valid(i, 1) /\ Valid(i, 2) /\ pc + 11 >= CSize

OpPanics(i) ==
    /\ OperandsOk(i)
    /\ \/ i.op = "ModDat" /\ At(i, 1) = 0
       \/ i.op \in {"ExtFun", "ExtFunRet"} /\ FunPanics(i.fun, ext)
       \/ i.op = "ExtFunDat2" /\ Fun2Panics(i.fun, At(i, 2))
       \/ i.op = "ExtFunRetDat2" /\ Fun2Panics(i.fun, At(i, 3))

Overflows(i) ==
    \/ CutOff(i) /\ i.op # "ExtFun"
    \/ \E n \in 1..Arity(i.op) : ~Valid(i, n)
    \/ i.op \in Branch1Ops \cup Branch2Ops /\ pc + i.imm >= CSize
    \/ i.op \in IndirectOps /\ OperandsOk(i) /\ Index(i) \notin Address
    \/ i.op = "PshDat" /\ us = UserWords
    \/ i.op = "PopDat" /\ us = 0
    \/ i.op = "RetSub" /\ cs = 0

Runs(i) == ~ReadPanics(i) /\ ~OpPanics(i) /\ ~Overflows(i)

-----------------------------------------------------------------------------
(* How an instruction ends *)
Ends(how) == mode' = how
Counts == steps' = steps + 1
Next_(i) == pc' = pc + Length(i.op)
Keeps == UNCHANGED <<pce, pcs, cs, us>>

\* A value of data is written, and the machine goes to the next instruction.
Stores(i, k, value) ==
    /\ mem' = [mem EXCEPT ![k] = Wrap(value)]
    /\ Next_(i) /\ Counts /\ Keeps /\ UNCHANGED mode

Jumps(target) ==
    pc' = target /\ Counts /\ Keeps /\ UNCHANGED <<mem, ext, mode>>

-----------------------------------------------------------------------------
SetVal(i) == /\ i.op = "SetVal"
             /\ Stores(i, i.addr[1], i.imm) /\ UNCHANGED ext

Unary(i) ==
    /\ i.op \in UnaryOps
    /\ Stores(i, i.addr[1], CASE i.op = "ClrDat" -> 0
                              [] i.op = "IncDat" -> At(i, 1) + 1
                              [] i.op = "DecDat" -> At(i, 1) - 1
                              [] i.op = "NotDat" -> - At(i, 1) - 1)
    /\ UNCHANGED ext

\* The distance of a shift has no sign.
Shift(x, s, left) ==
    LET n == s % Pow2[WordBits]
    IN  IF n < WordBits THEN (IF left THEN x * Pow2[n] ELSE x \div Pow2[n])
        ELSE IF left \/ x >= 0 THEN 0 ELSE -1

\* SetDat adds, as AddDat does; the last three change their second operand.
BinaryResult(op, x, y) ==
    CASE op \in {"SetDat", "AddDat"} -> x + y
      [] op = "SubDat" -> x - y
      [] op = "MulDat" -> x * y
      [] op = "DivDat" -> Quo(x, y)
      [] op = "BorDat" -> Or(x, y)
      [] op = "AndDat" -> And(x, y)
      [] op = "XorDat" -> Xor(x, y)
      [] op = "ModDat" -> Rem(y, x)
      [] op = "ShlDat" -> Shift(y, x, TRUE)
      [] op = "ShrDat" -> Shift(y, x, FALSE)

Binary(i) ==
    /\ i.op \in BinaryOps /\ ~(i.op = "DivDat" /\ At(i, 2) = 0)
    /\ Stores(i, i.addr[IF i.op \in ReverseOps THEN 2 ELSE 1],
              BinaryResult(i.op, At(i, 1), At(i, 2)))
    /\ UNCHANGED ext

DivideByZero(i) == /\ i.op = "DivDat" /\ At(i, 2) = 0
                   /\ Ends("invalidCode")
                   /\ UNCHANGED <<pc, pce, pcs, cs, us, mem, ext, steps>>

Indirect(i) ==
    /\ i.op \in IndirectOps
    /\ IF i.op \in {"SetInd", "SetIdx"} THEN Stores(i, i.addr[1], mem[Index(i)])
       ELSE Stores(i, Index(i), At(i, Arity(i.op)))
    /\ UNCHANGED ext

PshDat(i) == /\ i.op = "PshDat" /\ us' = us + 1
             /\ mem' = [mem EXCEPT ![UserSlot(us + 1)] = At(i, 1)]
             /\ Next_(i) /\ Counts /\ UNCHANGED <<pce, pcs, cs, ext, mode>>

\* Mutant: The stack pointer goes down before the word is read.
PopDatLate(i) ==
    /\ i.op = "PopDat" /\ us' = us - 1
    /\ mem' = [mem EXCEPT ![i.addr[1]] = mem[IF us = 1 THEN UserSlot(us) ELSE UserSlot(us - 1)]]
    /\ Next_(i) /\ Counts /\ UNCHANGED <<pce, pcs, cs, ext, mode>>

PopDat(i) == /\ i.op = "PopDat" /\ us' = us - 1
             /\ mem' = [mem EXCEPT ![i.addr[1]] = mem[UserSlot(us)]]
             /\ Next_(i) /\ Counts /\ UNCHANGED <<pce, pcs, cs, ext, mode>>

\* An overflow ends the run, unless there is a handler.
HandleOverflow(otherwise) ==
    IF pce # 0 THEN pc' = pce /\ Counts /\ UNCHANGED mode
    ELSE pc' = otherwise /\ Ends("overflow") /\ UNCHANGED steps

\* Mutant: The call on a full stack is not refused.
JmpSubUnchecked(i) ==
    /\ i.op = "JmpSub" /\ CallSlot(cs + 1) >= 0 /\ cs' = cs + 1
    /\ mem' = [mem EXCEPT ![CallSlot(cs + 1)] = pc + Length(i.op)]
    /\ pc' = i.addr[1] /\ Counts /\ UNCHANGED <<pce, pcs, us, ext, mode>>

\* The call is made although the stack is full, into the last word of data;
\* the address pushed is then pc plus the error, -1.
JmpSub(i) ==
    LET full == cs = CallWords
    IN  /\ i.op = "JmpSub" /\ CallSlot(cs + 1) >= 0
        /\ cs' = cs + 1
        /\ mem' = [mem EXCEPT ![CallSlot(cs + 1)] = pc + (IF full THEN -1 ELSE Length(i.op))]
        /\ IF full THEN HandleOverflow(i.addr[1])
           ELSE pc' = i.addr[1] /\ Counts /\ UNCHANGED mode
        /\ UNCHANGED <<pce, pcs, us, ext>>

RetSub(i) == /\ i.op = "RetSub" /\ cs' = cs - 1
             /\ pc' = mem[CallSlot(cs)]
             /\ Counts /\ UNCHANGED <<pce, pcs, us, mem, ext, mode>>

JmpAdr(i) == i.op = "JmpAdr" /\ Jumps(i.addr[1])

Taken(i) ==
    CASE i.op = "BzrDat" -> At(i, 1) = 0
      [] i.op = "BnzDat" -> At(i, 1) # 0
      [] i.op = "BgtDat" -> At(i, 1) > At(i, 2)
      [] i.op = "BltDat" -> At(i, 1) < At(i, 2)
      [] i.op = "BgeDat" -> At(i, 1) >= At(i, 2)
      [] i.op = "BleDat" -> At(i, 1) <= At(i, 2)
      [] i.op = "BeqDat" -> At(i, 1) = At(i, 2)
      [] i.op = "BneDat" -> At(i, 1) # At(i, 2)

Branch(i) ==
    /\ i.op \in Branch1Ops \cup Branch2Ops
    /\ Jumps(pc + (IF Taken(i) THEN i.imm ELSE Length(i.op)))

Sleep(i) == i.op \in {"SlpDat", "SlpImd"} /\ Jumps(pc + Length(i.op))

\* StzDat stays where it is; the others go back to the start that SetPcs sets.
Halt(i) ==
    /\ \/ i.op \in {"FizDat", "StzDat"} /\ At(i, 1) = 0
       \/ i.op \in {"FinImd", "StpImd"}
    /\ pc' = IF i.op = "StzDat" THEN pc ELSE pcs
    /\ Ends(IF i.op \in {"FizDat", "FinImd"} THEN "finished" ELSE "stopped")
    /\ Counts /\ Keeps /\ UNCHANGED <<mem, ext>>

DoesNotHalt(i) == /\ i.op \in {"FizDat", "StzDat"} /\ At(i, 1) # 0
                  /\ Jumps(pc + Length(i.op))

\* The handler is set and the run ends with an error nevertheless.
ErrAdr(i) == /\ i.op = "ErrAdr" /\ pce' = i.addr[1]
             /\ Ends("unexpectedError")
             /\ UNCHANGED <<pc, pcs, cs, us, mem, ext, steps>>

SetPcs(i) == /\ i.op = "SetPcs" /\ Next_(i) /\ pcs' = pc' /\ Counts
             /\ UNCHANGED <<pce, cs, us, mem, ext, mode>>

\* A function whose number is cut off counts as executed, again and again.
ExtFunCutOff(i) == i.op = "ExtFun" /\ CutOff(i) /\ Jumps(pc)

ExtFun(i) ==
    LET answer == CASE i.op \in {"ExtFun", "ExtFunRet"} -> Fun(i.fun, ext)
                    [] i.op = "ExtFunDat" -> Fun1(i.fun, At(i, 1), ext)
                    [] i.op = "ExtFunRetDat" -> Fun1(i.fun, At(i, 2), ext)
                    [] i.op = "ExtFunDat2" -> Fun2(i.fun, At(i, 1), At(i, 2), ext)
                    [] i.op = "ExtFunRetDat2" -> Fun2(i.fun, At(i, 2), At(i, 3), ext)
    IN  \/ /\ i.op \in {"ExtFun", "ExtFunDat", "ExtFunDat2"} /\ ~CutOff(i)
           /\ ext' = answer.ext
           /\ Next_(i) /\ Counts /\ Keeps /\ UNCHANGED <<mem, mode>>
        \/ /\ i.op \in {"ExtFunRet", "ExtFunRetDat", "ExtFunRetDat2"}
           /\ ext' = answer.ext /\ Stores(i, i.addr[1], answer.rc)

\* Nops run on to the first other byte, but compare with the size of the CALL STACK:
\* with a smaller one they stop there, with a larger one they leave the code.
Nop(i) ==
    /\ i.op = "Nop"
    /\ \E q \in pc + 1..CSize :
           /\ \A p \in pc + 1..q - 1 : p < CallBytes /\ \E j \in Code[p] : j.op = "Nop"
           /\ \/ /\ q >= CallBytes \/ (q < CSize /\ \E j \in Code[q] : j.op # "Nop")
                 /\ Jumps(q)
              \/ /\ q = CSize /\ q < CallBytes /\ Ends("panic")
                 /\ UNCHANGED <<pc, pce, pcs, cs, us, mem, ext, steps>>

Invalid(i) == /\ i.op = "invalid" /\ Ends("invalidCode")
              /\ UNCHANGED <<pc, pce, pcs, cs, us, mem, ext, steps>>

Overflow(i) == /\ ~ReadPanics(i) /\ Overflows(i)
               /\ HandleOverflow(pc)
               /\ Keeps /\ UNCHANGED <<mem, ext>>

Panic(i) == /\ ReadPanics(i) \/ (~Overflows(i) /\ OpPanics(i))
            /\ Ends("panic") /\ UNCHANGED <<pc, pce, pcs, cs, us, mem, ext, steps>>

-----------------------------------------------------------------------------
processOp(i) ==
    \/ Overflow(i) \/ Panic(i)
    \/ /\ Runs(i)
       /\ \/ SetVal(i) \/ Unary(i) \/ Binary(i) \/ DivideByZero(i) \/ Indirect(i)
          \/ PshDat(i) \/ PopDat(i) \/ JmpSub(i) \/ RetSub(i) \/ JmpAdr(i) \/ Branch(i)
          \/ Sleep(i) \/ Halt(i) \/ DoesNotHalt(i) \/ ErrAdr(i) \/ SetPcs(i)
          \/ ExtFunCutOff(i) \/ ExtFun(i) \/ Nop(i) \/ Invalid(i)

\* Before the code there is no instruction; behind it the machine turns forever.
BeforeCode == /\ pc < 0 /\ Ends("invalidCode")
              /\ UNCHANGED <<pc, pce, pcs, cs, us, mem, ext, steps>>
BehindCode == pc >= CSize /\ UNCHANGED vars

execute == /\ mode = "run" /\ steps < MaxSteps
           /\ \/ pc \in 0..CSize - 1 /\ \E i \in Code[pc] : processOp(i)
              \/ BeforeCode
              \/ BehindCode

Spec == Init /\ [][execute]_vars

-----------------------------------------------------------------------------
\* What the call stack holds are places in the code.
TypeOK ==
    /\ pc \in Int /\ pce \in Address /\ pcs \in 0..CSize
    /\ cs \in 0..CallWords + 1 /\ us \in 0..UserWords
    /\ mem = [k \in Cell |-> mem[k]] /\ steps \in Nat
    /\ \A n \in 1..CallWords : n <= cs => mem[CallSlot(n)] \in Int
    /\ mode \in {"run", "stopped", "finished", "overflow", "invalidCode", "unexpectedError", "panic"}

\* The stacks stay in their places, which the code ensures with tests for equality
\* only: a call that finds the stack full leaves one word too many on it, so that the
\* next would find it not full.  What saves the machine is that the run ends there;
\* with a handler it would go on, but setting one ends the run as well.
StacksInBounds == mode = "run" => cs <= CallWords /\ pce = 0

\* The data and the stacks, cut out of the one array, behave as the abstract machine:
\* no slot computed for one of them is in another, the user stack gives back what was
\* pushed, a return goes behind its call, and a run that ends with an error has written
\* nothing, except the last word of data by a call on the full stack.
Abstract == INSTANCE StackMachine WITH
                data <- [k \in Address |-> mem[k]],
                calls <- [n \in 1..(IF cs > CallWords THEN CallWords ELSE cs) |-> mem[CallSlot(n)]],
                user <- [n \in 1..us |-> mem[UserSlot(n)]],
                running <- mode = "run",
                CallLength <- 5
ImplementsStackMachine == Abstract!Spec

\* Sums, differences and products of A and B wrap around as a 256-bit number does,
\* where the result is as long as a register or its lowest byte is below 0x80, and it
\* is not below the least number: the other results are filled up with the wrong bytes.
WrittenRight(n) ==
    /\ n >= - Pow2[RegBits - 1]
    /\ \/ Cardinality(BytesOf(Cut(n))) = WordBytes * RegWords
       \/ (n \div Pow2[ByteBits - 1]) % 2 = 0
RegistersCompute ==
    LET a == ext.reg["A"]
        b == ext.reg["B"]
    IN  \A n \in {a + b, a - b, b - a, a * b} :
            WrittenRight(n) => BigIntToPaddedBuffer(n) = Signed(n, RegBits)
=============================================================================
