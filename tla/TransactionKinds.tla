---------------------------- MODULE TransactionKinds ----------------------------
(***************************************************************************)
(* The 31 kinds of transaction of pkg/transaction, each as the list of the *)
(* encoder calls of its WriteAttachmentBytes, the list of the decoder      *)
(* calls of its ReadAttachmentBytes and the number of bytes that its       *)
(* AttachmentSizeInBytes promises.  In the program the three are written   *)
(* by hand, apart from each other, for every kind.  The values of the      *)
(* fields are abstracted away: a call is its width and its field, and only *)
(* the number of elements of a field of variable length is kept.           *)
(***************************************************************************)
EXTENDS Integers, Sequences, FiniteSetsExt

Num(w, f) == [op |-> "num", w |-> w, f |-> f]       \* w bytes whatever the value
Raw(w, f) == [op |-> "raw", w |-> w, f |-> f]       \* w bytes as they are
Count(w, f) == [op |-> "count", w |-> w, f |-> f]   \* how many elements f has
Body(u, f) == [op |-> "body", w |-> u, f |-> f]     \* the elements, u bytes each
Limit(m, f) == [op |-> "limit", w |-> m, f |-> f]   \* return when f has more than m
Paged(p, f) == [op |-> "paged", w |-> p, f |-> f]   \* a count, as wide as p pages need

Text(w, f) == <<Count(w, f), Body(1, f)>>
PerByte(F) == [f \in F |-> 1]
NoField == PerByte({})

\* A kind: its type and sub type, the calls of its writer and its reader, the
\* bytes of its fields of fixed width and those per element of the others.
Kind(type, sub, write, read, fixed, unit) ==
    [type |-> type, sub |-> sub, write |-> write, read |-> read,
     fixed |-> fixed, unit |-> unit, pages |-> {}]

\* A kind whose reader makes the calls of the writer, in the same order.
Mirrored(type, sub, calls, fixed, unit) == Kind(type, sub, calls, calls, fixed, unit)

-----------------------------------------------------------------------------
OrdinaryPayment == Mirrored(0, 0, <<>>, 0, NoField)
MultiOutCreation ==
    Mirrored(0, 1, <<Count(1, "recipients"), Body(8 + 8, "recipients")>>,
             1, [recipients |-> 8 + 8])
MultiSameOutCreation ==
    Mirrored(0, 2, <<Count(1, "recipients"), Body(8, "recipients")>>, 1, [recipients |-> 8])

ArbitaryMessage == Mirrored(1, 0, <<>>, 0, NoField)
AliasAssignment ==
    Mirrored(1, 1, Text(1, "alias") \o Text(2, "uri"), 1 + 2, PerByte({"alias", "uri"}))
AccountInfo ==
    Mirrored(1, 5, Text(1, "name") \o Text(2, "description"),
             1 + 2, PerByte({"name", "description"}))
AliasSell ==
    Mirrored(1, 6, Text(1, "name") \o <<Num(8, "price")>>, 1 + 8, PerByte({"name"}))
AliasBuy == Mirrored(1, 7, Text(1, "name"), 1, PerByte({"name"}))

AssetIssuanceSwapped ==   \* a mutant: the reader takes the decimals first
    Kind(2, 0, Text(1, "name") \o Text(2, "description") \o <<Num(8, "quantity"), Num(1, "decimals")>>,
         Text(1, "name") \o Text(2, "description") \o <<Num(1, "decimals"), Num(8, "quantity")>>,
         1 + 2 + 8 + 1, PerByte({"name", "description"}))
AssetIssuance ==
    Mirrored(2, 0, Text(1, "name") \o Text(2, "description")
                     \o <<Num(8, "quantity"), Num(1, "decimals")>>,
             1 + 2 + 8 + 1, PerByte({"name", "description"}))
AssetTransfer(version) ==
    LET fixed == <<Num(8, "asset"), Num(8, "quantity")>> IN
    IF version = 0 THEN Mirrored(2, 1, fixed \o Text(2, "comment"), 8 + 8 + 2, PerByte({"comment"}))
                   ELSE Mirrored(2, 1, fixed, 8 + 8, NoField)
AskOrderPlacement ==
    Mirrored(2, 2, <<Num(8, "asset"), Num(8, "quantity"), Num(8, "price")>>, 8 + 8 + 8, NoField)
BidOrderPlacement ==
    Mirrored(2, 3, <<Num(8, "asset"), Num(8, "quantity"), Num(8, "price")>>, 8 + 8 + 8, NoField)
AskOrderCancellation == Mirrored(2, 4, <<Num(8, "order")>>, 8, NoField)
BidOrderCancellation == Mirrored(2, 5, <<Num(8, "order")>>, 8, NoField)

DigitalGoodsListing ==
    Mirrored(3, 0, Text(2, "name") \o Text(2, "description") \o Text(2, "tags")
                     \o <<Num(4, "quantity"), Num(8, "price")>>,
             2 + 2 + 2 + 4 + 8, PerByte({"name", "description", "tags"}))
DigitalGoodsDelisting == Mirrored(3, 1, <<Num(8, "id")>>, 8, NoField)
DigitalGoodsPriceChange == Mirrored(3, 2, <<Num(8, "id"), Num(8, "price")>>, 8 + 8, NoField)
DigitalGoodsQuantityChange == Mirrored(3, 3, <<Num(8, "id"), Num(4, "delta")>>, 8 + 4, NoField)
DigitalGoodsPurchase ==
    Mirrored(3, 4, <<Num(8, "id"), Num(4, "quantity"), Num(8, "price"), Num(4, "deliveryDeadline")>>,
             8 + 4 + 8 + 4, NoField)
\* The data is a string of hexadecimal digits, text or not: one byte on the
\* wire is two of its characters.  The reader takes every nonce to be 32 long.
DigitalGoodsDelivery ==
    LET calls(nonce) == <<Num(8, "purchase"), Count(4, "data"), Body(1, "data"),
                          Raw(nonce, "nonce"), Num(8, "discount")>>
    IN  Kind(3, 5, calls(32), calls(32), 8 + 4 + 32 + 8, PerByte({"data"}))
DigitalGoodsFeedback == Mirrored(3, 6, <<Num(8, "purchase")>>, 8, NoField)
DigitalGoodsRefund == Mirrored(3, 7, <<Num(8, "purchase"), Num(8, "refund")>>, 8 + 8, NoField)

EffectiveBalanceLeasing == Mirrored(4, 0, <<Num(2, "period")>>, 2, NoField)
RewardRecipientAssignment == Mirrored(20, 0, <<>>, 0, NoField)

EscrowCreationShort ==    \* a mutant: its size forgets the required signers
    Mirrored(21, 0, <<Num(8, "escrowAmount"), Num(4, "escrowDeadline"), Num(1, "action"),
                      Num(1, "required"), Count(1, "signers"), Body(8, "signers")>>,
             8 + 4 + 1 + 1, [signers |-> 8])
EscrowCreation ==
    Mirrored(21, 0, <<Num(8, "escrowAmount"), Num(4, "escrowDeadline"), Num(1, "action"), Num(1, "required"),
                      Count(1, "signers"), Body(8, "signers")>>,
             8 + 4 + 1 + 1 + 1, [signers |-> 8])
EscrowSign == Mirrored(21, 1, <<Num(8, "id"), Num(1, "decision")>>, 8 + 1, NoField)
EscrowResult == Mirrored(21, 2, <<Num(8, "id"), Num(1, "decision")>>, 8 + 1, NoField)
SubscriptionSubscribe == Mirrored(21, 3, <<Num(4, "frequency")>>, 4, NoField)
SubscriptionCancel == Mirrored(21, 4, <<Num(8, "id")>>, 8, NoField)
SubscriptionPayment == Mirrored(21, 5, <<Num(8, "id")>>, 8, NoField)

-----------------------------------------------------------------------------
\* The creation bytes of an automated transaction are one field for the writer.
\* They hold version, reserved word and pages, then the code and the data, each
\* after its length; the width of a length depends on the number of pages.
pageSize == 256
maxNameLen == 30
maxDescriptionLen == 1000

PageWidth(pages) ==
    IF pages * pageSize < pageSize + 1 THEN 1 ELSE IF pages * pageSize < 65535 THEN 2 ELSE 4

CreationBytes ==
    <<Num(2, "version"), Num(2, "reserved"), Count(2, "codePages"), Count(2, "dataPages"),
      Num(2, "callStackPages"), Num(2, "userStackPages"), Num(8, "minActivation"),
      Paged("codePages", "code"), Body(1, "code"), Paged("dataPages", "data"), Body(1, "data")>>

\* The reader gives up, without an error, at a long name or description, and
\* finds the end of the creation bytes by parsing them.
AutomatedTransactionsCreation ==
    [Kind(22, 0,
          Text(1, "name") \o Text(2, "description") \o CreationBytes,
          <<Count(1, "name"), Limit(maxNameLen, "name"), Body(1, "name"), Count(2, "description"),
            Limit(maxDescriptionLen, "description"), Body(1, "description")>> \o CreationBytes,
          1 + 2 + 6 * 2 + 8, PerByte({"name", "description", "code", "data"}))
     EXCEPT !.pages = {"codePages", "dataPages"}]

\* The kinds by name, as the map that AnyToTransaction looks them up in.
typeNameToTransaction(version) ==
    [OrdinaryPayment |-> OrdinaryPayment, AccountInfo |-> AccountInfo,
     AliasAssignment |-> AliasAssignment, AliasBuy |-> AliasBuy, AliasSell |-> AliasSell,
     ArbitaryMessage |-> ArbitaryMessage, AskOrderCancellation |-> AskOrderCancellation,
     AskOrderPlacement |-> AskOrderPlacement, AssetIssuance |-> AssetIssuance,
     AssetTransfer |-> AssetTransfer(version),
     AutomatedTransactionsCreation |-> AutomatedTransactionsCreation,
     BidOrderCancellation |-> BidOrderCancellation, BidOrderPlacement |-> BidOrderPlacement,
     DigitalGoodsDelisting |-> DigitalGoodsDelisting, DigitalGoodsDelivery |-> DigitalGoodsDelivery,
     DigitalGoodsFeedback |-> DigitalGoodsFeedback, DigitalGoodsListing |-> DigitalGoodsListing,
     DigitalGoodsPriceChange |-> DigitalGoodsPriceChange,
     DigitalGoodsPurchase |-> DigitalGoodsPurchase,
     DigitalGoodsQuantityChange |-> DigitalGoodsQuantityChange,
     DigitalGoodsRefund |-> DigitalGoodsRefund,
     EffectiveBalanceLeasing |-> EffectiveBalanceLeasing, EscrowCreation |-> EscrowCreation,
     EscrowResult |-> EscrowResult, EscrowSign |-> EscrowSign,
     MultiOutCreation |-> MultiOutCreation, MultiSameOutCreation |-> MultiSameOutCreation,
     RewardRecipientAssignment |-> RewardRecipientAssignment,
     SubscriptionCancel |-> SubscriptionCancel, SubscriptionPayment |-> SubscriptionPayment,
     SubscriptionSubscribe |-> SubscriptionSubscribe]
=============================================================================
