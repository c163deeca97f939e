---------------------------- MODULE TransactionBytes ----------------------------
(***************************************************************************)
(* The bytes of a transaction (pkg/transaction/transaction.go over         *)
(* pkg/encoding): ToBytes allocates what three size functions promise and  *)
(* fills it with a cursor, FromBytes walks over bytes with a cursor, and   *)
(* both cursors panic at the end of the bytes.  One action is one call of  *)
(* the encoder or the decoder.  A transaction is written, read back from   *)
(* those bytes and written again, the round trip of transaction_test.go.   *)
(* A byte is known by its offset: a field that was read is the range it    *)
(* was read from, so it is written back unchanged exactly when it is       *)
(* written to that range.                                                  *)
(***************************************************************************)
EXTENDS TransactionKinds, TLC

CONSTANTS Versions,     \* versions of the transaction format
          Lengths,      \* field of variable length -> lengths to try
          Appendices    \* appendices [parts, text, n]: which there are, which of
                        \* them are text, and how many bytes each takes

ASSUME VersionsAssumption == Versions \subseteq 0 .. 15
Parts == {"msg", "enc", "pk", "self"}
ASSUME AppendicesAssumption ==
    \A a \in Appendices : a.parts \subseteq Parts /\ a.text \subseteq a.parts /\ a.n \in [Parts -> Nat]

VARIABLES tx,      \* the transaction given
          phase,   \* "write", "read" or "rewrite", or how it ended
          left,    \* the calls that are left
          size,    \* bytes allocated
          cursor,
          items,   \* what was written where
          counted, \* field -> number of its elements, as far as read
          text,    \* the appendices that were read as text
          src,     \* field -> the range of bytes it was read from
          same     \* the bytes written again agree so far

transactionVars == <<tx, phase, left, size, cursor, items, counted, text, src, same>>

KindOf(t) == typeNameToTransaction(t.version)[t.kind]
GetType(t) == KindOf(t).sub * 256 + KindOf(t).type

-----------------------------------------------------------------------------
\* The version byte of the attachment, which payments and messages do without.
HasVersionByte(t) == GetType(t) \notin {0, 1}

WriteHeader(t) ==
    <<Num(1, "type"), Num(1, "subTypeAndVersion"), Num(4, "timestamp"), Num(2, "deadline"),
      Raw(32, "senderPublicKey"), Num(8, "recipient"), Num(8, "amount"), Num(8, "fee"),
      Raw(32, "referencedTransactionFullHash"), Raw(64, "signature")>>
    \o (IF t.version > 0 THEN <<Num(4, "flags"), Num(4, "ecBlockHeight"), Num(8, "ecBlockId")>>
                         ELSE <<>>)
    \o (IF t.version > 0 /\ HasVersionByte(t) THEN <<Num(1, "attachmentVersion")>> ELSE <<>>)

\* The reader takes 64 bytes for the key and 32 for the signature, and always a
\* version byte.
ReadHeader(t) ==
    <<Num(1, "type"), Num(1, "subTypeAndVersion"), Num(4, "timestamp"), Num(2, "deadline"),
      Raw(64, "senderPublicKey"), Num(8, "recipient"), Num(8, "amount"), Num(8, "fee"),
      Raw(32, "referencedTransactionFullHash"), Raw(32, "signature")>>
    \o (IF t.version > 0 THEN <<Num(4, "flags"), Num(4, "ecBlockHeight"), Num(8, "ecBlockId"),
                                Num(1, "attachmentVersion")>>
                         ELSE <<>>)

HeaderSizeInBytes(t) ==
    2 + 4 + 2 + 32 + 8 + 8 + 8 + 32 + 64
    + (IF t.version > 0 THEN 4 + 4 + 8 + (IF HasVersionByte(t) THEN 1 ELSE 0) ELSE 0)

AttachmentSizeInBytes(t) ==
    LET k == KindOf(t)
    IN  k.fixed + MapThenSumSet(LAMBDA f : k.unit[f] * t.n[f], DOMAIN k.unit)
                + MapThenSumSet(LAMBDA p : PageWidth(t.n[p]), k.pages)

-----------------------------------------------------------------------------
\* The fields of an appendix that are not its content.
VersionOf == [msg |-> "msgVersion", enc |-> "encVersion", pk |-> "pkVersion", self |-> "selfVersion"]
NonceOf == [enc |-> "encNonce", self |-> "selfNonce"]

Versioned(t, p, rest) == (IF t.version > 0 THEN <<Num(1, VersionOf[p])>> ELSE <<>>) \o rest

\* A message that is not text is a string of digits.  WriteStringBytesWithInt32Len
\* halves its length; WriteBytesWithInt32Len steps over twice the bytes it decodes,
\* and the number of digits that it writes is read by nobody: the bytes are too few.
WriteStringBytesWithInt32Len(f) == <<Count(4, f), Body(1, f)>>
WriteBytesWithInt32Len(t, f) ==
    IF f \in t.text THEN <<Count(4, f), Body(1, f)>> ELSE <<Count(4, f), Body(2, f)>>

WritePart(t, p) ==
    Versioned(t, p, CASE p = "msg" -> WriteStringBytesWithInt32Len(p)
                   [] p = "pk" -> <<Raw(32, "publicKey")>>
                   [] OTHER -> WriteBytesWithInt32Len(t, p) \o <<Raw(32, NonceOf[p])>>)

ReadPart(t, p) ==
    Versioned(t, p, CASE p = "msg" -> <<Count(4, p), Body(1, p)>>
                   [] p = "pk" -> <<Raw(64, "publicKey")>>
                   [] OTHER -> <<Count(4, p), Body(1, p), Raw(32, NonceOf[p])>>)

PartSize(t, p) ==
    (CASE p = "msg" -> 4 + t.n[p] [] p = "pk" -> 32 [] OTHER -> 4 + t.n[p] + 32)
    + (IF t.version > 0 THEN 1 ELSE 0)

\* The parts that there are, in the order of the code.
WriteAppendix(t) ==
    LET part(p) == IF p \in t.parts THEN WritePart(t, p) ELSE <<>>
    IN  part("msg") \o part("enc") \o part("pk") \o part("self")
AppendixSizeInBytes(t) ==
    LET part(p) == IF p \in t.parts THEN PartSize(t, p) ELSE 0
    IN  part("msg") + part("enc") + part("pk") + part("self")

\* The flags are the parts that there are.  Version 0 does not write them, and
\* an arbitrary message always has one.
FlagsRead(t) == (IF t.version > 0 THEN t.parts ELSE {})
                  \cup (IF t.kind = "ArbitaryMessage" THEN {"msg"} ELSE {})
ReadAppendixBytes(t) ==
    LET part(p) == IF p \in FlagsRead(t) THEN ReadPart(t, p) ELSE <<>>
    IN  part("msg") \o part("enc") \o part("pk") \o part("self")

-----------------------------------------------------------------------------
NewEncoderSize(t) == HeaderSizeInBytes(t) + AttachmentSizeInBytes(t) + AppendixSizeInBytes(t)
ToBytes(t) == WriteHeader(t) \o KindOf(t).write \o WriteAppendix(t)

Fields(kind, version) == LET k == typeNameToTransaction(version)[kind]
                         IN  (DOMAIN k.unit) \cup k.pages
ASSUME LengthsAssumption ==
    \A kind \in DOMAIN typeNameToTransaction(0), v \in Versions :
        \A f \in Fields(kind, v) : Lengths[f] \subseteq Nat

TransactionInit ==
    /\ \E kind \in DOMAIN typeNameToTransaction(0), v \in Versions, a \in Appendices :
         \E len \in [Fields(kind, v) -> UNION {Lengths[f] : f \in Fields(kind, v)}] :
            /\ \A f \in DOMAIN len : len[f] \in Lengths[f]
            /\ tx = [kind |-> kind, version |-> v, parts |-> a.parts, text |-> a.text,
                     n |-> [f \in Fields(kind, v) \cup Parts |->
                              IF f \in Parts THEN a.n[f] ELSE len[f]]]
    /\ phase = "write" /\ left = ToBytes(tx) /\ size = NewEncoderSize(tx) /\ cursor = 0
    /\ items = <<>> /\ counted = [f \in DOMAIN tx.n |-> 0] /\ text = {}
    /\ src = <<>> /\ same = TRUE

\* Bytes a call takes, for fields of the lengths len.
Width(o, len) ==
    CASE o.op = "body" -> o.w * len[o.f]
      [] o.op = "paged" -> PageWidth(len[o.w])
      [] OTHER -> o.w

\* A length is cut to the width it is written with.
Wraps(len, w) == IF w = 4 THEN len ELSE len % (256 ^ w)

Call == Head(left)
\* A length and its elements are two ranges of bytes.
RangeOf(o) == <<o.op \in {"count", "paged"}, o.f>>
Overrun(len) == left # <<>> /\ Call.op # "limit" /\ cursor + Width(Call, len) > size

Write ==
    LET w == Width(Call, tx.n) IN
    /\ phase = "write" /\ left # <<>> /\ ~Overrun(tx.n)
    /\ items' = Append(items,
                  [at |-> cursor, w |-> w, f |-> Call.f, text |-> Call.f \in tx.text,
                   len |-> IF Call.op \in {"count", "paged"} THEN Wraps(tx.n[Call.f], w) ELSE -1])
    /\ cursor' = cursor + w /\ left' = Tail(left)
    /\ UNCHANGED <<tx, phase, size, counted, text, src, same>>

\* FromBytes: the kind and the version are in the first two bytes, which both
\* sides agree on.
StartRead ==
    /\ phase = "write" /\ left = <<>>
    /\ phase' = "read" /\ cursor' = 0
    /\ left' = ReadHeader(tx) \o KindOf(tx).read \o ReadAppendixBytes(tx)
    /\ UNCHANGED <<tx, size, items, counted, text, src, same>>

Read ==
    LET w == Width(Call, counted)
        counts == Call.op \in {"count", "paged"}
        there == {k \in DOMAIN items : items[k].at = cursor /\ items[k].w = w /\ items[k].len >= 0}
    IN  /\ phase = "read" /\ left # <<>> /\ ~Overrun(counted) /\ Call.op # "limit"
        /\ IF counts /\ there = {}
             THEN phase' = "garbled" /\ UNCHANGED <<counted, text>>   \* a length out of other bytes
             ELSE /\ UNCHANGED phase
                  /\ counted' = IF counts THEN [counted EXCEPT ![Call.f] = items[Min(there)].len]
                                ELSE counted
                  /\ text' = IF counts /\ items[Min(there)].text THEN text \cup {Call.f} ELSE text
        /\ src' = (RangeOf(Call) :> <<cursor, w>>) @@ src
        /\ cursor' = cursor + w /\ left' = Tail(left)
        /\ UNCHANGED <<tx, size, items, same>>

\* The early returns of a reader: the rest of the attachment stays unread, the
\* appendix is read next.
ReadLimit ==
    /\ phase = "read" /\ left # <<>> /\ Call.op = "limit"
    /\ IF counted[Call.f] > Call.w
         THEN left' = ReadAppendixBytes(tx) /\ counted' = [counted EXCEPT ![Call.f] = 0]
         ELSE left' = Tail(left) /\ UNCHANGED counted
    /\ UNCHANGED <<tx, phase, size, cursor, items, text, src, same>>

ReadTx == [tx EXCEPT !.n = counted, !.parts = FlagsRead(tx), !.text = text]

\* Bytes that were read are written with the length they were read with.
Again(o) == IF o.op = "raw" THEN [o EXCEPT !.w = IF RangeOf(o) \in DOMAIN src THEN src[RangeOf(o)][2]
                                             ELSE 0]
                            ELSE o

StartRewrite ==
    /\ phase = "read" /\ left = <<>>
    /\ phase' = "rewrite" /\ cursor' = 0
    /\ left' = [k \in DOMAIN ToBytes(ReadTx) |-> Again(ToBytes(ReadTx)[k])]
    /\ size' = NewEncoderSize(ReadTx)
    /\ same' = (size' = size)
    /\ UNCHANGED <<tx, items, counted, text, src>>

Rewrite ==
    LET w == Width(Call, counted) IN
    /\ phase = "rewrite" /\ left # <<>> /\ ~Overrun(counted)
    /\ same' = (/\ same
                /\ w = 0 \/ (RangeOf(Call) \in DOMAIN src /\ src[RangeOf(Call)] = <<cursor, w>>))
    /\ cursor' = cursor + w /\ left' = Tail(left)
    /\ UNCHANGED <<tx, phase, size, items, counted, text, src>>

Panic ==
    /\ \/ phase = "write" /\ Overrun(tx.n) /\ phase' = "writePanic"
       \/ phase = "read" /\ Overrun(counted) /\ phase' = "readPanic"
       \/ phase = "rewrite" /\ Overrun(counted) /\ phase' = "rewritePanic"
    /\ UNCHANGED <<tx, left, size, cursor, items, counted, text, src, same>>

Finish ==
    /\ phase = "rewrite" /\ left = <<>>
    /\ phase' = "done"
    /\ UNCHANGED <<tx, left, size, cursor, items, counted, text, src, same>>

TransactionNext == Write \/ StartRead \/ Read \/ ReadLimit \/ StartRewrite \/ Rewrite \/ Panic \/ Finish

TransactionSpec == TransactionInit /\ [][TransactionNext]_transactionVars

-----------------------------------------------------------------------------
\* Encrypted data that is not text, which the encoder counts twice.
HexSecret(t) == \E p \in (t.parts \ t.text) \cap {"enc", "self"} : t.n[p] > 0

\* ToBytes, which ValidateAndGetBytes calls for every transaction of a block of
\* a peer, fills its buffer to the last byte, and never runs over its end unless
\* an encrypted message is given as hexadecimal digits; the 64 bytes from 96 on,
\* which are zeroed before the signature is verified, are the signature.
EncodesExactly ==
    /\ phase = "writePanic" => HexSecret(tx)
    /\ phase = "write" /\ left = <<>> =>
         /\ cursor = size /\ ~HexSecret(tx)
         /\ \A k \in DOMAIN items : items[k].f = "signature" <=> items[k].at = 96 /\ items[k].w = 64

\* Lengths that fit the width they are written with, and the reader's limits.
LengthsFit(t) ==
    /\ \A k \in DOMAIN KindOf(t).write :
          LET o == KindOf(t).write[k]
          IN  o.op = "count" => t.n[o.f] = Wraps(t.n[o.f], o.w)
    /\ t.kind = "AutomatedTransactionsCreation" =>
          t.n["name"] <= maxNameLen /\ t.n["description"] <= maxDescriptionLen

\* What FromBytes gives back byte by byte: in version 0 nothing but a message of
\* an arbitrary message; in version 1 not a payment or a message, whose missing
\* version byte is read; never an announced key, of which 64 bytes are read.
Readable(t) ==
    /\ LengthsFit(t)
    /\ "pk" \notin t.parts
    /\ IF t.version = 0
         THEN t.parts = (IF t.kind = "ArbitaryMessage" THEN {"msg"} ELSE {})
         ELSE HasVersionByte(t)

\* Reading the bytes of a transaction and writing them again gives the same
\* bytes, as transaction_test.go expects, exactly for the readable ones: the
\* lists of calls and the sizes of every kind agree although they are written
\* three times, and a reader that is misaligned shows in the bytes.
RoundTripsExactly ==
    /\ phase = "done" => (same <=> Readable(tx))
    /\ phase \in {"garbled", "readPanic", "rewritePanic"} => ~Readable(tx)
=============================================================================
