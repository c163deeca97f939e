----------------------------- MODULE MCATMachine -----------------------------
(* Programs of any instructions, with few operands each: addresses of data, of the
   word behind it, values and offsets of both signs. *)
EXTENDS ATMachine

Nothing == [do |-> "unknown", r |-> "A", i |-> 0]
F(do, r, i) == [do |-> do, r |-> r, i |-> i]
Funs == {F(do, r, 0) : do \in BinaryDo, r \in Register}
          \cup {F("Get", "A", 1), F("Clear", "B", 0), F("ClearAB", "A", 0), F("Swap", "A", 0),
                F("IsZero", "A", 0), F("IsEqual", "A", 0), F("md5", "A", 0), F("sha256", "A", 0),
                F("Check", "A", "sha256"), F("balance", "A", 0), F("count", "A", 0),
                F("val", "A", 0), F("number", "A", 10), Nothing}
Funs1 == {F("double", "A", 0), F("halve", "A", 0), F("payBalance", "A", 0),
          F("SetWord", "A", 1), F("SetWord", "B", 0), Nothing}
Funs2 == {F("multiply", "A", 0), F("divide", "A", 0), F("sum", "A", 0), F("pay", "A", 0),
          F("SetWords", "A", 0), Nothing}

I(op, addr, imm, f) == [op |-> op, addr |-> addr, imm |-> imm, fun |-> f]

\* Any instruction, to start with.
Instructions ==
    {I(op, <<>>, 0, Nothing) : op \in NoOps}
      \cup {I(op, <<k>>, 0, Nothing) : op \in AddrOps, k \in {1, DataWords}}
      \cup {I("SetVal", <<0>>, v, Nothing) : v \in {-4, 1}}
      \cup {I(op, p, 0, Nothing) : op \in PairOps, p \in {<<0, 1>>, <<1, 0>>}}
      \cup {I(op, <<0, 1, 1>>, 0, Nothing) : op \in TripleOps}
      \cup {I(op, <<0>>, off, Nothing) : op \in Branch1Ops, off \in {-2, 12}}
      \cup {I(op, <<0, 1>>, -2, Nothing) : op \in Branch2Ops}
      \cup {I("ExtFun", <<>>, 0, f) : f \in Funs}
      \cup {I("ExtFunRet", <<0>>, 0, f) : f \in Funs}
      \cup {I("ExtFunRetDat", <<0, 1>>, 0, f) : f \in Funs1}
      \cup {I("ExtFunDat", <<0>>, 0, f) : f \in Funs1}
      \cup {I("ExtFunDat2", <<0, 1>>, 0, f) : f \in Funs2}
      \cup {I("ExtFunRetDat2", <<0, 1, 1>>, 0, f) : f \in Funs2}

\* What may follow: the stacks, one instruction or two of each kind.
Followers ==
    {i \in Instructions :
        \/ i.op \in {"PshDat", "PopDat", "JmpSub", "RetSub", "IncDat", "MulDat",
                     "DivDat", "ModDat", "ShlDat", "SetIdx", "IndDat", "StzDat", "BgtDat", "Nop",
                     "ErrAdr"}
        \/ i.op = "SetVal" /\ i.imm = -4
        \/ i.op = "ExtFunRet" /\ i.fun = F("Mul", "A", 0)
        \/ i.op = "ExtFunDat2" /\ i.fun.do \in {"pay", "SetWords"}
        \/ i.op = "ExtFunRetDat2" /\ i.fun.do = "divide"}

MCCode == [p \in 0..CSize - 1 |-> IF p = 0 THEN Instructions ELSE Followers]
MCDigestBits == [a \in Algorithm |-> IF a = "md5" THEN RegBits \div 2 ELSE RegBits]
MCDigest(a, n) == n * 5 + 3
MCRegisters == {0, -32}
=============================================================================
