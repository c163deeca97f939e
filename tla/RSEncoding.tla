------------------------------- MODULE RSEncoding -------------------------------
(***************************************************************************)
(* The addresses of accounts (pkg/crypto/rsencoding), which every account  *)
(* is stored with: an id is written in base 32 by long division, four      *)
(* symbols of a Reed-Solomon code are added, and the 17 symbols are put    *)
(* into the order of codewordMap, in groups.  Somebody copies the address  *)
(* with mistakes, and it is decoded.  An id is its decimal digits, as in   *)
(* the code, where 64 bits are divided digit by digit.                     *)
(***************************************************************************)
EXTENDS Integers, SequencesExt, Bitwise

CONSTANTS Ids,         \* ids to encode, as digits; also of 65 bits, see Encode
          Typed,       \* characters that are typed by mistake
          MaxMistakes  \* a bound

Symbol == 0 .. 31
Other == 32            \* a character that is not of the alphabet, such as a dash
MaxUint64 == <<1, 8, 4, 4, 6, 7, 4, 4, 0, 7, 3, 7, 0, 9, 5, 5, 1, 6, 1, 5>>

ASSUME IdsAssumption ==
    /\ Ids \subseteq Seq(0 .. 9) \ {<<>>} /\ Typed \subseteq Symbol \cup {Other}
    /\ MaxMistakes \in Nat

VARIABLES id, address,
          mistakes     \* made so far

addressVars == <<id, address, mistakes>>

base32Len == 13
initialCodewordLen == 17
gexp == <<1, 2, 4, 8, 16, 5, 10, 20, 13, 26, 17, 7, 14, 28, 29, 31,
          27, 19, 3, 6, 12, 24, 21, 15, 30, 25, 23, 11, 22, 9, 18, 1>>
golg == <<0, 0, 1, 18, 2, 5, 19, 11, 3, 29, 6, 27, 20, 8, 12, 23, 4, 10, 30, 17,
          7, 22, 28, 26, 21, 25, 9, 16, 13, 14, 24, 15>>
codewordMap == <<3, 2, 1, 0, 7, 6, 5, 4, 13, 14, 15, 16, 12, 8, 9, 10, 11>>

-----------------------------------------------------------------------------
(* The field of 32 elements, and the code over it *)

gmult(x, y) ==
    IF x = 0 \/ y = 0 THEN 0 ELSE gexp[((golg[x + 1] + golg[y + 1]) % 31) + 1]

\* The checking symbols of the symbols word[1..13], lowest first.
Checks(word) ==
    FoldRight(LAMBDA c, p :
                LET fb == c ^^ p[4]
                IN  <<gmult(17, fb), p[1] ^^ gmult(9, fb), p[2] ^^ gmult(6, fb), p[3] ^^ gmult(30, fb)>>,
              word, <<0, 0, 0, 0>>)

\* The code is shortened: its places 13 to 26 are left out.
isCodewordValid(codeword) ==
    \A i \in 1 .. 4 :
        FoldLeftDomain(LAMBDA t, n :
                LET j == IF n <= base32Len THEN n - 1 ELSE n + 13
                IN  t ^^ gmult(codeword[n], gexp[((i * j) % 31) + 1]), 0, codeword) = 0

-----------------------------------------------------------------------------
(* Long division, which both directions write out *)

\* Quotient and rest of a number with these digits, the highest first.
Divided(digits, from, by) ==
    FoldLeft(LAMBDA a, digit :
               LET value == a.rest * from + digit
               IN  [quotient |-> IF value >= by THEN Append(a.quotient, value \div by)
                                 ELSE IF a.quotient # <<>> THEN Append(a.quotient, 0) ELSE <<>>,
                    rest |-> value % by],
             [quotient |-> <<>>, rest |-> 0], digits)

\* The digits in base by, the lowest first.
RECURSIVE InBase(_, _, _)
InBase(digits, from, by) ==
    LET a == Divided(digits, from, by)
    IN  <<a.rest>> \o (IF a.quotient = <<>> THEN <<>> ELSE InBase(a.quotient, from, by))

\* An id of 64 bits has at most 13 symbols, and so has one of 65 bits, which the
\* code is never called with: its address is one that somebody may make up.
Encode(digits) ==
    LET low == InBase(digits, 10, 32)
        word == [n \in 1 .. base32Len |-> IF n <= Len(low) THEN low[n] ELSE 0]
        codeword == word \o Checks(word)
    IN  FlattenSeq([n \in 1 .. initialCodewordLen |->
                       <<codeword[codewordMap[n] + 1]>> \o
                       (IF n \in {4, 8, 12} THEN <<Other>> ELSE <<>>)])

InUint64(digits) ==
    Len(digits) < 20 \/ (Len(digits) = 20 /\
        \A k \in 1 .. 20 : digits[k] > MaxUint64[k] =>
            \E j \in 1 .. k - 1 : digits[j] < MaxUint64[j])

Fails(err) == [id |-> <<>>, err |-> err]
Gives(digits) == [id |-> digits, err |-> "nil"]

\* Mutant: what is not given of a codeword is zero.
DecodeShort(chars) ==
    LET typed == SelectSeq(chars, LAMBDA c : c \in Symbol)
        codeword == [n \in 1 .. initialCodewordLen |->
                       LET k == CHOOSE k \in 1 .. initialCodewordLen : codewordMap[k] = n - 1
                       IN  IF k <= Len(typed) THEN typed[k] ELSE 0]
        digits == Reverse(InBase(Reverse(SubSeq(codeword, 1, base32Len)), 32, 10))
    IN  IF Len(typed) > initialCodewordLen THEN Fails("ErrCodewordTooLong")
        ELSE IF ~isCodewordValid(codeword) THEN Fails("ErrCodewordInvalid")
        ELSE IF ~InUint64(digits) THEN Fails("ErrRange") ELSE Gives(digits)

\* Characters that are not of the alphabet are skipped.
Decode(chars) ==
    LET typed == SelectSeq(chars, LAMBDA c : c \in Symbol)
        codeword == [n \in 1 .. initialCodewordLen |->
                       typed[CHOOSE k \in 1 .. initialCodewordLen : codewordMap[k] = n - 1]]
        digits == Reverse(InBase(Reverse(SubSeq(codeword, 1, base32Len)), 32, 10))
    IN  IF Len(typed) > initialCodewordLen THEN Fails("ErrCodewordTooLong")
        ELSE IF Len(typed) # initialCodewordLen \/ ~isCodewordValid(codeword)
             THEN Fails("ErrCodewordInvalid")
        ELSE IF ~InUint64(digits) THEN Fails("ErrRange") ELSE Gives(digits)

-----------------------------------------------------------------------------
AddressInit == id \in Ids /\ address = Encode(id) /\ mistakes = 0

Mistake(changed) ==
    /\ mistakes < MaxMistakes
    /\ address' = changed /\ mistakes' = mistakes + 1 /\ UNCHANGED id

Replace(k, c) == Mistake([address EXCEPT ![k] = c])
Insert(k, c) == Mistake(InsertAt(address, k, c))
Drop(k) == Mistake(RemoveAt(address, k))
Swap(k) == k > 1 /\ Mistake([address EXCEPT ![k - 1] = address[k], ![k] = address[k - 1]])

AddressNext ==
    \E k \in DOMAIN address :
        Drop(k) \/ Swap(k) \/ \E c \in Typed : Replace(k, c) \/ Insert(k, c)

AddressSpec == AddressInit /\ [][AddressNext]_addressVars

-----------------------------------------------------------------------------
\* Dashes and the like do not matter.  With them left out, an address that is still
\* the one of the id gives the id back, in full 64 bits, and is refused if the id
\* has more; with a few mistakes in it, it is refused, and is not taken
\* for the address of another account.
DecodesExactly ==
    LET symbols(chars) == SelectSeq(chars, LAMBDA c : c \in Symbol)
        got == Decode(address)
    IN  IF symbols(address) = symbols(Encode(id))
        THEN got = IF InUint64(id) THEN Gives(id) ELSE Fails("ErrRange")
        ELSE got.err \in {"ErrCodewordTooLong", "ErrCodewordInvalid"}
=============================================================================
