------------------------------ MODULE ATRegisters ------------------------------
(***************************************************************************)
(* The functions that a program of an automated transaction calls          *)
(* (pkg/at: fun, fun1, fun2), with what they work on: the registers A and  *)
(* B of four 64-bit words, a value that counts and the balance.  Bytes,    *)
(* words and registers have the widths of the constants.  The functions of *)
(* the two registers come in pairs, one for each direction.  funData, which *)
(* nothing fills, is left out.                                             *)
(***************************************************************************)
EXTENDS Integers, FiniteSetsExt

CONSTANTS ByteBits, WordBytes, RegWords,   \* 8, 8 and 4 in the code
          Algorithm, DigestBits,           \* md5, ripemd160 and sha256; bits of each digest
          Digest(_, _)                     \* of an algorithm and a number

WordBits == ByteBits * WordBytes
RegBits == WordBits * RegWords
ASSUME WidthsAssumption ==
    /\ {ByteBits, WordBytes, RegWords} \subseteq Nat \ {0} /\ ByteBits > 1
    /\ Algorithm \subseteq {"md5", "ripemd160", "sha256"} /\ DigestBits \in [Algorithm -> 1..RegBits]

\* The powers of two, by recursion: of ^ the provers know nothing.
Pow2[k \in 0..RegBits] == IF k = 0 THEN 1 ELSE 2 * Pow2[k - 1]

\* What a register holds, as a signed number.
RegValue == - Pow2[RegBits - 1]..Pow2[RegBits - 1] - 1
ASSUME DigestAssumption ==
    \A a \in Algorithm, n \in RegValue \cup 0..Pow2[RegBits] - 1 : Digest(a, n) \in Int

Signed(n, bits) == ((n + Pow2[bits - 1]) % Pow2[bits]) - Pow2[bits - 1]
Wrap(n) == Signed(n, WordBits)
Word == - Pow2[WordBits - 1] .. Pow2[WordBits - 1] - 1

\* Go's division goes towards zero.
Quo(x, y) ==
    LET abs(n) == IF n < 0 THEN - n ELSE n
    IN  IF (x < 0) = (y < 0) THEN abs(x) \div abs(y) ELSE - (abs(x) \div abs(y))
Rem(x, y) == x - y * Quo(x, y)

BitsOf(n) == {k \in 0..RegBits - 1 : (n \div Pow2[k]) % 2 = 1}
FromBits(S) == Signed(MapThenSumSet(LAMBDA k : Pow2[k], S), RegBits)
Or(x, y) == FromBits(BitsOf(x) \cup BitsOf(y))
And(x, y) == FromBits(BitsOf(x) \cap BitsOf(y))
Xor(x, y) == FromBits((BitsOf(x) \cup BitsOf(y)) \ (BitsOf(x) \cap BitsOf(y)))

\* The low bits of y in the place of those of x.
ReplaceLow(x, y, bits) == Signed((x - (x % Pow2[bits])) + (y % Pow2[bits]), RegBits)
GetWord(x, i) == Wrap(x \div Pow2[WordBits * i])
SetWord(x, i, w) ==
    LET at == Pow2[WordBits * i]
    IN  Signed(x + ((w % Pow2[WordBits]) - ((x \div at) % Pow2[WordBits])) * at, RegBits)

-----------------------------------------------------------------------------
(***************************************************************************)
(* bigIntToPaddedBuffer: the number is cut to a register and written with  *)
(* as few bytes as it needs, its lowest first; the highest of them gets    *)
(* the sign of a negative number, and the bytes above are filled with the  *)
(* bit that is the highest of the LOWEST byte: with 1, not with 0xff.      *)
(* A negative number that is cut to zero has no byte for its sign.         *)
(***************************************************************************)
Cut(n) == n % Pow2[RegBits]
BytesOf(u) == {j \in 0..(WordBytes * RegWords - 1) : u >= Pow2[ByteBits * j] /\ u > 0}
WithSign(n) ==
    LET top == Pow2[ByteBits * Cardinality(BytesOf(Cut(n))) - 1]
    IN  IF n < 0 /\ (Cut(n) \div top) % 2 = 0 THEN Cut(n) + top ELSE Cut(n)
\* Mutant: fills up whatever the bit.
PaddingAlways(n) ==
    MapThenSumSet(LAMBDA j : Pow2[ByteBits * j], (0..(WordBytes * RegWords - 1)) \ BytesOf(Cut(n)))

Padding(n) ==
    LET bit == (WithSign(n) \div Pow2[ByteBits - 1]) % 2
    IN  MapThenSumSet(LAMBDA j : bit * Pow2[ByteBits * j],
                      (0..(WordBytes * RegWords - 1)) \ BytesOf(Cut(n)))
BigIntToPaddedBuffer(n) == Signed(WithSign(n) + Padding(n), RegBits)
NoByteForSign(n) == n < 0 /\ Cut(n) = 0

-----------------------------------------------------------------------------
Register == {"A", "B"}
Other(r) == IF r = "A" THEN "B" ELSE "A"

\* What a function of both registers makes of x = reg[to] and y, the other.
Compute(do, x, y) ==
    CASE do = "Set" -> y
      [] do = "Or" -> Or(x, y)
      [] do = "And" -> And(x, y)
      [] do = "Xor" -> Xor(x, y)
      [] do = "Add" -> BigIntToPaddedBuffer(x + y)
      [] do = "Sub" -> BigIntToPaddedBuffer(x - y)
      [] do = "Mul" -> BigIntToPaddedBuffer(x * y)
      [] do = "Div" -> BigIntToPaddedBuffer(Quo(x, y))
BinaryDo == {"Set", "Or", "And", "Xor", "Add", "Sub", "Mul", "Div"}

DigestOf(algo, reg) ==
    LET input == IF algo = "md5" THEN reg["A"] % Pow2[DigestBits[algo]] ELSE reg["A"]
    IN  Digest(algo, input) % Pow2[DigestBits[algo]]

Bool(b) == IF b THEN 1 ELSE 0

\* A function is [do, r, i]: what, of which register (or "AB"), with which word.
\* ext is what functions work on: [reg, val, balance]; the result has an rc too.
Answer(ext, rc) == [ext |-> ext, rc |-> rc]
WithReg(ext, r, n) == [ext EXCEPT !.reg[r] = n]

Fun(f, ext) ==
    LET reg == ext.reg
        of == reg[f.r]
    IN  CASE f.do = "val" -> Answer(ext, ext.val)
          [] f.do = "count" /\ ext.val = 9 -> Answer([ext EXCEPT !.val = 0], 0)
          [] f.do = "count" /\ ext.val # 9 -> Answer([ext EXCEPT !.val = @ + 1], ext.val + 1)
          [] f.do = "balance" -> Answer(ext, ext.balance)
          [] f.do = "number" -> Answer(ext, f.i)
          [] f.do = "Get" -> Answer(ext, GetWord(of, f.i))
          [] f.do = "Clear" -> Answer(WithReg(ext, f.r, 0), 0)
          [] f.do = "ClearAB" -> Answer([ext EXCEPT !.reg = [r \in Register |-> 0]], 0)
          [] f.do = "Swap" -> Answer([ext EXCEPT !.reg = [r \in Register |-> reg[Other(r)]]], 0)
          [] f.do = "IsZero" -> Answer(ext, Bool(of = 0))
          [] f.do = "IsEqual" -> Answer(ext, Bool(reg["A"] = reg["B"]))
          [] f.do = "Div" /\ reg[Other(f.r)] = 0 -> Answer(ext, -2)
          [] f.do \in BinaryDo /\ ~(f.do = "Div" /\ reg[Other(f.r)] = 0) ->
                Answer(WithReg(ext, f.r, Compute(f.do, of, reg[Other(f.r)])), 0)
          [] f.do \in Algorithm ->
                Answer(WithReg(ext, "B", ReplaceLow(reg["B"], DigestOf(f.do, reg), DigestBits[f.do])), 0)
          [] f.do = "Check" ->
                Answer(ext, Bool(DigestOf(f.i, reg) = reg["B"] % Pow2[DigestBits[f.i]]))
          [] f.do = "unknown" -> Answer(ext, 0)

Fun1(f, value, ext) ==
    CASE f.do = "double" -> Answer(ext, value * 2)
      [] f.do = "halve" -> Answer(ext, Quo(value, 2))
      [] f.do = "payBalance" -> Answer([ext EXCEPT !.balance = 0], 0)
      [] f.do = "SetWord" -> Answer(WithReg(ext, f.r, SetWord(ext.reg[f.r], f.i, value)), 0)
      [] f.do = "unknown" -> Answer(ext, 0)

\* An amount above the balance is cut to it; a negative amount adds to it.
Fun2(f, value1, value2, ext) ==
    CASE f.do = "multiply" -> Answer(ext, value1 * value2)
      [] f.do = "divide" -> Answer(ext, Quo(value1, value2))
      [] f.do = "sum" -> Answer(ext, value1 + value2)
      [] f.do = "pay" ->
            Answer([ext EXCEPT !.balance = IF value1 > @ THEN 0 ELSE Wrap(@ - value1)], 0)
      [] f.do = "SetWords" ->
            Answer(WithReg(ext, f.r, SetWord(SetWord(ext.reg[f.r], f.i, value1), f.i + 1, value2)), 0)
      [] f.do = "unknown" -> Answer(ext, 0)

\* The functions that there are, by the number of values they take.
IsFun(f) ==
    /\ f.r \in Register
    /\ \/ f.do \in {"val", "count", "balance", "Clear", "ClearAB", "Swap", "IsZero", "IsEqual", "unknown"}
       \/ f.do = "number" /\ f.i \in Int
       \/ f.do = "Get" /\ f.i \in 0..RegWords - 1
       \/ f.do \in BinaryDo \cup Algorithm
       \/ f.do = "Check" /\ f.i \in Algorithm
IsFun1(f) == \/ f.do \in {"double", "halve", "payBalance", "unknown"}
             \/ f.do = "SetWord" /\ f.r \in Register /\ f.i \in 0..RegWords - 1
IsFun2(f) == \/ f.do \in {"multiply", "divide", "sum", "pay", "unknown"}
             \/ f.do = "SetWords" /\ f.r \in Register /\ {f.i, f.i + 1} \subseteq 0..RegWords - 1

\* Where a function panics: no byte for the sign, a division by zero.
FunPanics(f, ext) ==
    \/ f.do = "Mul" /\ NoByteForSign(ext.reg["A"] * ext.reg["B"])
    \/ f.do = "Add" /\ NoByteForSign(ext.reg["A"] + ext.reg["B"])
Fun2Panics(f, value2) == f.do = "divide" /\ value2 = 0
=============================================================================
