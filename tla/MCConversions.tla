------------------------------ MODULE MCConversions ------------------------------
(***************************************************************************)
(* The conversions, which have no state in common: the bytes of a          *)
(* transaction, the address of an account and the digest of a message.     *)
(* One run checks the three; part says which of them a behaviour is about, *)
(* and the variables of the others rest.                                   *)
(*                                                                         *)
(* Lengths are at the limits of the code: a length of one byte or of two   *)
(* that wraps, the reader's limits of 30 and 1000, and numbers of pages    *)
(* that need lengths of one, two and four bytes.                           *)
(***************************************************************************)
EXTENDS TransactionBytes, RSEncoding, Shabal

VARIABLE part

MCLengths ==
    [name |-> {0, 2, 31, 256}, description |-> {3, 1001}, alias |-> {2, 256}, uri |-> {3, 65536},
     comment |-> {0, 3, 65536}, tags |-> {0, 3}, data |-> {2}, code |-> {0, 3},
     codePages |-> {1, 2, 256}, dataPages |-> {1, 2}, recipients |-> {0, 2, 256},
     signers |-> {0, 2}]

PartLengths == [msg |-> 2, enc |-> 3, pk |-> 0, self |-> 1]
NoPart == [parts |-> {}, text |-> {}, n |-> PartLengths]

\* No appendix, each part alone, as text or not, all of them together, and an
\* encrypted message without data.
MCAppendices ==
    {NoPart, [NoPart EXCEPT !.parts = {"enc"}, !.n.enc = 0],
     [NoPart EXCEPT !.parts = {"msg", "enc", "self"}, !.text = {"msg", "enc", "self"}],
     [NoPart EXCEPT !.parts = {"enc", "pk", "self"}, !.text = {"enc", "self"}]}
    \cup {[NoPart EXCEPT !.parts = {p}, !.text = x] :
             <<p, x>> \in {<<"msg", {}>>, <<"msg", {"msg"}>>, <<"enc", {}>>, <<"enc", {"enc"}>>,
                           <<"pk", {}>>, <<"self", {}>>, <<"self", {"self"}>>}}

-----------------------------------------------------------------------------
\* Ids of one symbol and of two, one of the test's, the greatest, and the one
\* after it, which has 65 bits.
TestId == <<9, 2, 2, 5, 8, 9, 1, 7, 5, 0, 2, 4, 7, 3, 5, 1, 8, 9, 0>>
MCIds == {<<0>>, <<3, 2>>, TestId, MaxUint64, [MaxUint64 EXCEPT ![20] = 6]}

\* 8KLL-PBYV-6DBC-AM942 of rsencoding_test.go.
ASSUME Encode(TestId) =
    <<6, 17, 18, 18, Other, 21, 9, 30, 27, Other, 4, 11, 9, 10, Other, 8, 19, 7, 2, 0>>

MCMessage == [k \in 1 .. 200 |-> k]

\* The digests of "", "abc" and a line of more than a block of shabal256_test.go.
LongLine ==
    <<70, 111, 114, 32, 101, 118, 101, 114, 121, 32, 97, 99, 116, 105, 111, 110, 32, 116, 104, 101,
      114, 101, 32, 105, 115, 32, 97, 110, 32, 101, 113, 117, 97, 108, 32, 97, 110, 100, 32, 111,
      112, 112, 111, 115, 105, 116, 101, 32, 103, 111, 118, 101, 114, 110, 109, 101, 110, 116, 32,
      112, 114, 111, 103, 114, 97, 109, 46>>
ASSUME
    /\ Sum256(<<>>) =
         <<<<53584, 51118>>, <<61929, 60959>>, <<12178, 29026>>, <<48809, 62906>>,
           <<354, 12052>>, <<8407, 63646>>, <<148, 22776>>, <<5264, 34928>>>>
    /\ Sum256(<<97, 98, 99>>) =
         <<<<43871, 8711>>, <<64328, 51843>>, <<8482, 3400>>, <<51925, 4244>>,
           <<61273, 33536>>, <<33301, 54207>>, <<58031, 10640>>, <<1028, 16331>>>>
    /\ Sum256(LongLine) =
         <<<<18152, 5841>>, <<10740, 16343>>, <<50526, 47061>>, <<15371, 28134>>,
           <<46859, 27218>>, <<35325, 3068>>, <<58300, 46791>>, <<54490, 1019>>>>

-----------------------------------------------------------------------------
TransactionRests ==
    /\ tx = <<>> /\ phase = "rests" /\ left = <<>> /\ size = 0 /\ cursor = 0 /\ items = <<>>
    /\ counted = <<>> /\ text = {} /\ src = <<>> /\ same = TRUE
AddressRests == id = <<>> /\ address = <<>> /\ mistakes = 0
DigestRests == d = <<>> /\ pieces = <<>>

InitConversions ==
    \/ part = "transaction" /\ TransactionInit /\ AddressRests /\ DigestRests
    \/ part = "address" /\ AddressInit /\ TransactionRests /\ DigestRests
    \/ part = "digest" /\ DigestInit /\ TransactionRests /\ AddressRests

NextConversions ==
    /\ \/ part = "transaction" /\ TransactionNext /\ UNCHANGED <<addressVars, digestVars>>
       \/ part = "address" /\ AddressNext /\ UNCHANGED <<transactionVars, digestVars>>
       \/ part = "digest" /\ DigestNext /\ UNCHANGED <<transactionVars, addressVars>>
    /\ UNCHANGED part

SpecConversions == InitConversions /\ [][NextConversions]_<<transactionVars, addressVars, digestVars, part>>

-----------------------------------------------------------------------------
\* DecodesExactly and SumsWholeBlocks, in the behaviours that are about them: an
\* address gives its own id back or is refused, and pieces have the digest of the
\* whole message exactly if none follows a part of a block.
AddressesDecodeExactly == part = "address" => DecodesExactly
PiecesSumToWhole == part = "digest" => SumsWholeBlocks
=============================================================================
