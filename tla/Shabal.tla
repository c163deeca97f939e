--------------------------------- MODULE Shabal ---------------------------------
(***************************************************************************)
(* The hash function Shabal-256 (pkg/crypto/shabal256), from which the     *)
(* generation signature of a block is made: a digest that is fed with      *)
(* pieces of a message (Write) and may be asked for the sum of what it got *)
(* so far (Sum).  The code writes out the 48 steps of the permutation, once *)
(* for blocks of the input (core) and once for its buffer (core1); both    *)
(* follow the loop of Step.  A word of 32 bits is its upper and its lower  *)
(* half.  The counter of blocks, of 64 bits in the code, stays below       *)
(* 2^16 here.                                                              *)
(***************************************************************************)
EXTENDS Integers, SequencesExt, Bitwise

CONSTANTS Message,      \* the bytes to hash
          PieceLengths, \* lengths of the pieces to hand over
          MaxPieces     \* pieces: a bound

ASSUME MessageAssumption ==
    /\ Message \in Seq(0 .. 255) /\ PieceLengths \subseteq Nat /\ MaxPieces \in Nat

VARIABLES d,            \* the digest
          pieces        \* history: lengths of the pieces handed over

digestVars == <<d, pieces>>

BlockSize == 64

-----------------------------------------------------------------------------
(* Words *)

Half == 65536
Word(n) == <<n \div Half, n % Half>>
Plus(x, y) ==
    LET low == x[2] + y[2] IN <<(x[1] + y[1] + (low \div Half)) % Half, low % Half>>
Minus(x, y) ==
    LET low == x[2] - y[2] IN <<(x[1] - y[1] + (low \div Half)) % Half, low % Half>>
Times(x, n) ==
    LET low == x[2] * n IN <<(x[1] * n + (low \div Half)) % Half, low % Half>>
Not32(x) == <<Half - 1 - x[1], Half - 1 - x[2]>>
\* The bytes' conjunctions, in a table for the sake of TLC.
AndBytes == [a \in 1 .. 256 |-> [b \in 1 .. 256 |-> (a - 1) & (b - 1)]]
And16(a, b) ==
    AndBytes[(a \div 256) + 1][(b \div 256) + 1] * 256 + AndBytes[(a % 256) + 1][(b % 256) + 1]
And32(x, y) == <<And16(x[1], y[1]), And16(x[2], y[2])>>
Xor16(a, b) == a + b - 2 * And16(a, b)
Xor32(x, y) == <<Xor16(x[1], y[1]), Xor16(x[2], y[2])>>
Left1(x) ==  \* rotations by 1, 15 and 17 bits
    <<((x[1] * 2) % Half) + (x[2] \div (Half \div 2)),
      ((x[2] * 2) % Half) + (x[1] \div (Half \div 2))>>
Left17(x) == Left1(<<x[2], x[1]>>)
Left15(x) ==
    <<(x[2] \div 2) + (x[1] % 2) * (Half \div 2), (x[1] \div 2) + (x[2] % 2) * (Half \div 2)>>

iv == <<
      <<21240, 17746>>, <<58699, 31129>>, <<11662, 58348>>, <<47460, 20881>>, <<57351, 35718>>,
      <<47996, 17609>>, <<53941, 49610>>, <<45266, 60300>>, <<5326, 23109>>, <<8879, 20700>>,
      <<61437, 48235>>, <<60193, 46922>>, <<46421, 50926>>, <<15985, 1430>>, <<42794, 25903>>,
      <<37633, 20831>>, <<55848, 49658>>, <<26991, 55400>>, <<40118, 49010>>, <<2814, 16386>>,
      <<42720, 13845>>, <<20792, 49620>>, <<48673, 25350>>, <<45963, 34960>>, <<16040, 47467>>,
      <<12953, 44260>>, <<12434, 19924>>, <<21963, 13477>>, <<46085, 61489>>, <<50211, 16058>>,
      <<45939, 14713>>, <<49373, 40277>>, <<50460, 10414>>, <<41767, 47329>>, <<22213, 24935>>,
      <<60769, 17459>>, <<34997, 40288>>, <<24802, 52922>>, <<30091, 19339>>, <<33768, 10879>>,
      <<48278, 34856>>, <<59104, 3063>>, <<47747, 40533>>, <<39753, 7264>>>>

-----------------------------------------------------------------------------
(* The permutation *)

decodeLEInt(bytes, off) ==
    <<bytes[off + 4] * 256 + bytes[off + 3], bytes[off + 2] * 256 + bytes[off + 1]>>

\* The s-th of the 48 steps, on the words s.A[0..11] and s.B[0..15].
Step(s, k, C, M) ==
    LET i == k % 12
        j == k % 16
        a == Xor32(Xor32(Xor32(
                 Times(Xor32(Xor32(s.A[i], Times(Left15(s.A[(k + 11) % 12]), 5)), C[(8 - k) % 16]), 3),
                 s.B[(k + 13) % 16]),
                 And32(s.B[(k + 9) % 16], Not32(s.B[(k + 6) % 16]))),
                 M[j])
    IN  [A |-> [s.A EXCEPT ![i] = a],
         B |-> [s.B EXCEPT ![j] = Xor32(Not32(Left1(@)), a)]]

\* Before the steps the block is added and the count is mixed in ...
Mixed(dig, M) ==
    [A |-> [dig.A EXCEPT ![0] = Xor32(@, Word(dig.w))],
     B |-> [j \in 0 .. 15 |-> Left17(Plus(dig.B[j], M[j]))]]

\* ... and after them C is added, the block is subtracted, and B and C change places.
Exchanged(dig, s, M) ==
    LET C == dig.C
    IN  [dig EXCEPT !.w = @ + 1,
                    !.A = [i \in 0 .. 11 |-> Plus(Plus(Plus(s.A[i], C[(i + 11) % 16]),
                                                   C[(i + 15) % 16]), C[(i + 3) % 16])],
                    !.B = [j \in 0 .. 15 |-> Minus(C[j], M[j])],
                    !.C = s.B]

\* core and core1: 64 bytes at off of the input, or of the buffer.
core(dig, bytes, off) ==
    LET M == [j \in 0 .. 15 |-> decodeLEInt(bytes, off + 4 * j)]
    IN  Exchanged(dig, FoldLeft(LAMBDA s, k : Step(s, k, dig.C, M), Mixed(dig, M),
                                [n \in 1 .. 48 |-> n - 1]), M)
core1(dig) == core(dig, dig.buf, 0)

-----------------------------------------------------------------------------
(* The digest *)

Reset ==
    [A |-> [i \in 0 .. 11 |-> iv[i + 1]], B |-> [j \in 0 .. 15 |-> iv[j + 13]],
     C |-> [j \in 0 .. 15 |-> iv[j + 29]], w |-> 1, ptr |-> 0,
     buf |-> [i \in 1 .. BlockSize |-> 0]]

\* Go's copy: as much as there is room for.
Copied(buf, at, bytes) ==
    [i \in 1 .. BlockSize |-> IF i - at \in DOMAIN bytes THEN bytes[i - at] ELSE buf[i]]

\* Mutant: the full blocks of a piece are taken from its beginning on.
BlocksFromStart(dig, p, off, num) ==
    FoldLeft(LAMBDA e, n : core(e, p, 0), dig, [n \in 1 .. num |-> n])

\* num blocks of a piece, from off on.
Blocks(dig, p, off, num) ==
    FoldLeft(LAMBDA e, n : core(e, p, off + BlockSize * (n - 1)), dig, [n \in 1 .. num |-> n])

\* Behind a part of a block, a short piece is put into the buffer and not counted,
\* and of a long one as much as is missing is dropped: the buffer is hashed as it is.
WriteDigest(dig, p) ==
    IF dig.ptr # 0 /\ Len(p) < BlockSize - dig.ptr
    THEN [dig EXCEPT !.buf = Copied(@, dig.ptr, p)]
    ELSE LET off  == IF dig.ptr = 0 THEN 0 ELSE BlockSize - dig.ptr
             num  == (Len(p) - off) \div BlockSize
             rest == SubSeq(p, off + num * BlockSize + 1, Len(p))
             done == Blocks(IF dig.ptr = 0 THEN dig ELSE core1(dig), p, off, num)
         IN  [done EXCEPT !.buf = Copied(@, 0, rest), !.ptr = Len(rest)]

\* The last block, padded, is hashed four times with the same count.
checkSum(dig) ==
    LET padded == [dig EXCEPT !.buf =
                     [i \in 1 .. BlockSize |-> IF i <= dig.ptr THEN @[i]
                                               ELSE IF i = dig.ptr + 1 THEN 128 ELSE 0]]
        last   == FoldLeft(LAMBDA e, n : [core1(e) EXCEPT !.w = e.w], padded, <<1, 2, 3, 4>>)
    IN  [j \in 1 .. 8 |-> last.C[j + 7]]

Sum256(bytes) == checkSum(WriteDigest(Reset, bytes))

-----------------------------------------------------------------------------
Total(s) == FoldLeft(LAMBDA sum, len : sum + len, 0, s)

DigestInit == d = Reset /\ pieces = <<>>

WritePiece(len) ==
    /\ Len(pieces) < MaxPieces /\ Total(pieces) + len <= Len(Message)
    /\ d' = WriteDigest(d, SubSeq(Message, Total(pieces) + 1, Total(pieces) + len))
    /\ pieces' = Append(pieces, len)

DigestNext == \E len \in PieceLengths : WritePiece(len)

DigestSpec == DigestInit /\ [][DigestNext]_digestVars

-----------------------------------------------------------------------------
\* Nothing is written behind a part of a block.
WholeBlocks ==
    \A k \in DOMAIN pieces :
        pieces[k] > 0 => \A j \in 1 .. k - 1 : pieces[j] % BlockSize = 0

\* The sum of the pieces is that of the message, which hash.Hash promises, exactly
\* if nothing was written behind a part of a block; the callers in the code, who
\* hand over all at once, are safe.
SumsWholeBlocks ==
    LET whole == Sum256(SubSeq(Message, 1, Total(pieces)))
    IN  checkSum(d) = whole <=> WholeBlocks
=============================================================================
