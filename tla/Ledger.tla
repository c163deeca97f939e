--------------------------------- MODULE Ledger ---------------------------------
(***************************************************************************)
(* The accounts (pkg/blockchain, pkg/account) and the execution of a block *)
(* on them (Block.Execute, transaction.Execute).  A block is a list of     *)
(* transfers, the first of which forges the reward and all the fees; each  *)
(* is a database transaction of its own (TransferBurst), so that the       *)
(* process may die between two of them, and does when one fails.  An       *)
(* account is found by its public key through an index, which it enters    *)
(* with its first outgoing transfer; before that it is found by its id,    *)
(* which is a hash of the key.  Sums are unbounded here: the code's        *)
(* 64 bits are named in the README.                                        *)
(***************************************************************************)
EXTENDS Integers, Sequences, FiniteSetsExt

CONSTANTS Id, Key, IdOf,    \* account ids, public keys, the id of a key
          NoKey, Nobody,    \* no public key, no account
          Amount, Fee,      \* of a transaction
          MaxTx,            \* transactions of a block
          MaxHeight,        \* of the blocks executed: a bound
          RewardRecipientStartHeight, RewardEnd, MonthLen,   \* heights of the rewards
          FirstReward, OneBurst

\* Ids are numbers of 64 bits.
ASSUME KeysAssumption ==
    /\ IsFiniteSet(Id)
    /\ IdOf \in [Key -> Id] /\ \A j, k \in Key : IdOf[j] = IdOf[k] => j = k
    /\ NoKey \notin Key /\ Nobody \notin Id
ASSUME NumbersAssumption ==
    /\ Amount \subseteq Nat /\ Fee \subseteq Nat /\ MaxTx \in Nat /\ MaxHeight \in Nat
    /\ RewardRecipientStartHeight \in Nat /\ RewardEnd \in Nat /\ MonthLen \in Nat \ {0}
    /\ FirstReward \in Nat /\ OneBurst \in Nat

VARIABLES db,       \* the database: accounts by id, and the index of their keys
          txn,      \* the writes of the transfer that is going on, over db
          todo,     \* transfers of the block that are left; the head is going on
          pc,       \* "idle", "sender", "receiver", "commit", or "down"
          height,   \* of the next block
          rewards,  \* history: block rewards forged so far
          lost      \* history: fees forged for transactions never executed

vars == <<db, txn, todo, pc, height, rewards, lost>>

Account == [key : Key \cup {NoKey}, balance : Nat]
NoAccount == [key |-> NoKey, balance |-> -1]
NewAccount == [key |-> NoKey, balance |-> 0]
DB == [accounts : [Id -> Account \cup {NoAccount}], index : [Key -> Id \cup {Nobody}]]

Transaction == [key : Key, to : Id, amount : Amount, fee : Fee]
\* The sender of a forged transfer is no key.
Transfer == Transaction \cup [key : {NoKey}, to : Id, amount : Nat, fee : {0}]

Exists(d, a) == d.accounts[a] # NoAccount

Init ==
    /\ db = [accounts |-> [a \in Id |-> NoAccount], index |-> [k \in Key |-> Nobody]]
    /\ txn = db /\ todo = <<>> /\ pc = "idle" /\ height = 0 /\ rewards = 0 /\ lost = 0

-----------------------------------------------------------------------------
\* The reward falls by a twentieth each month, and is cut to whole Burst.
RewardOf(h) ==
    IF h = 0 \/ h >= RewardEnd THEN 0
    ELSE ((FirstReward * 95 ^ (h \div MonthLen)) \div 100 ^ (h \div MonthLen)) * OneBurst

\* That a reward is a natural number: it takes the laws of powers to prove.
ASSUME RewardAssumption == \A h \in 0 .. MaxHeight : RewardOf(h) \in Nat

FeeOf(s, i) == s[i].fee
Fees(s) == MapThenSumSet(LAMBDA i : FeeOf(s, i), DOMAIN s)

BlockReward(h, txs) == RewardOf(h) + Fees(txs)

ForgeTransfer(k, reward) == [key |-> NoKey, to |-> IdOf[k], amount |-> reward, fee |-> 0]

\* Block.Execute for a block forged by the owner of k.  Past the height where a
\* reward recipient may be named it panics.
Execute(k, txs) ==
    /\ pc = "idle" /\ height <= MaxHeight
    /\ height' = height + 1
    /\ IF height < RewardRecipientStartHeight
         THEN /\ todo' = <<ForgeTransfer(k, BlockReward(height, txs))>> \o txs
              /\ pc' = "sender" /\ txn' = db
         ELSE pc' = "down" /\ UNCHANGED <<todo, txn>>
    /\ UNCHANGED <<db, rewards, lost>>

-----------------------------------------------------------------------------
Now == Head(todo)
Forging == Now.key = NoKey

\* Fees the forger got for transactions that are not executed yet.
Owed == IF todo = <<>> \/ Forging THEN 0 ELSE Fees(todo)

\* The process ends in the middle of a block; the transfer going on is undone.
Die ==
    /\ pc' = "down" /\ todo' = <<>> /\ txn' = db /\ lost' = lost + Owed
    /\ UNCHANGED <<db, height, rewards>>

\* The account that pays and whether it is found by its id only, or Nobody.
ByKey(d, k) == d.index[k]
ById(d, k) == IF Exists(d, IdOf[k]) THEN IdOf[k] ELSE Nobody
Sender(d, k) == IF ByKey(d, k) # Nobody THEN ByKey(d, k) ELSE ById(d, k)

\* The first outgoing transfer gives the account its key and enters the index.
ActivateIndexOnly(d, k) ==    \* a mutant: the account does not get the key
    [d EXCEPT !.index[k] = IdOf[k]]
Activate(d, k) ==
    IF ByKey(d, k) # Nobody THEN d
    ELSE [accounts |-> [d.accounts EXCEPT ![IdOf[k]] = [key |-> k, balance |-> @.balance]],
          index |-> [d.index EXCEPT ![k] = IdOf[k]]]

Debit(d, a, x) ==
    [accounts |-> [d.accounts EXCEPT ![a] = [key |-> @.key, balance |-> @.balance - x]],
     index |-> d.index]

SendFromAtOnce ==             \* a mutant: the sender is written by a transaction of its own
    LET a == Sender(txn, Now.key)
        total == Now.amount + Now.fee
    IN  /\ pc = "sender" /\ ~Forging
        /\ a # Nobody /\ txn.accounts[a].balance >= total
        /\ txn' = Debit(Activate(txn, Now.key), a, total) /\ db' = txn'
        /\ pc' = "receiver"
        /\ UNCHANGED <<todo, height, rewards, lost>>
SendFrom ==
    LET a == Sender(txn, Now.key)
        total == Now.amount + Now.fee
    IN  /\ pc = "sender" /\ ~Forging
        /\ a # Nobody /\ txn.accounts[a].balance >= total
        /\ txn' = Debit(Activate(txn, Now.key), a, total)
        /\ pc' = "receiver"
        /\ UNCHANGED <<db, todo, height, rewards, lost>>

SkipSender ==
    /\ pc = "sender" /\ Forging
    /\ pc' = "receiver"
    /\ UNCHANGED <<db, txn, todo, height, rewards, lost>>

\* ErrUnknownAccount and ErrBalanceTooLow: nothing is written, Execute panics.
SendFails ==
    LET a == Sender(txn, Now.key) IN
    /\ pc = "sender" /\ ~Forging
    /\ a = Nobody \/ (a # Nobody /\ txn.accounts[a].balance < Now.amount + Now.fee)
    /\ Die

\* The receiver is read over the writes of this transfer.  It need not exist; it
\* is its own reward recipient, the only one the code gives an account.
CreditStale(d, b, x) ==       \* a mutant: the receiver is read outside of the transaction
    LET receiver == IF Exists(db, b) THEN db.accounts[b] ELSE NewAccount
    IN  [d EXCEPT !.accounts[b] = [receiver EXCEPT !.balance = @ + x]]
Credit(d, b, x) ==
    LET receiver == IF Exists(d, b) THEN d.accounts[b] ELSE NewAccount
    IN  [accounts |-> [d.accounts EXCEPT ![b] =
                          [key |-> receiver.key, balance |-> receiver.balance + x]],
         index |-> d.index]

Receive ==
    /\ pc = "receiver"
    /\ txn' = Credit(txn, Now.to, Now.amount)
    /\ pc' = "commit"
    /\ UNCHANGED <<db, todo, height, rewards, lost>>

Commit ==
    /\ pc = "commit"
    /\ db' = txn
    /\ rewards' = IF Forging THEN rewards + Now.amount - Fees(Tail(todo)) ELSE rewards
    /\ todo' = Tail(todo)
    /\ pc' = IF Tail(todo) = <<>> THEN "idle" ELSE "sender"
    /\ UNCHANGED <<txn, height, lost>>

Crash == pc \in {"sender", "receiver", "commit"} /\ Die

Restart == pc = "down" /\ pc' = "idle" /\ UNCHANGED <<db, txn, todo, height, rewards, lost>>

Next ==
    \/ \E k \in Key, len \in 0 .. MaxTx : \E txs \in [1 .. len -> Transaction] : Execute(k, txs)
    \/ SendFrom \/ SkipSender \/ SendFails \/ Receive \/ Commit \/ Crash \/ Restart

Spec == Init /\ [][Next]_vars

-----------------------------------------------------------------------------
\* The databases are well formed, and a transfer is going on outside of "idle".
TypeOK ==
    /\ db \in DB /\ txn \in DB /\ todo \in Seq(Transfer) /\ height \in Nat
    /\ pc \in {"idle", "sender", "receiver", "commit", "down"}
    /\ pc \in {"sender", "receiver", "commit"} <=> todo # <<>>

BalanceOf(d, a) == IF Exists(d, a) THEN d.accounts[a].balance ELSE 0
Total == MapThenSumSet(LAMBDA a : BalanceOf(db, a), Id)

\* Money appears and vanishes by nothing but what Execute does: the balances sum
\* up to the block rewards, and to the fees that a forger already has for
\* transactions still to come or lost with the process.  A transfer to oneself
\* counts as much as one to the forger, to a sender or to a new account.
MoneyConserved == Total = rewards + Owed + lost

\* The index leads to accounts that exist and have this key, and to all that
\* have one: a payment is never taken from an account of another key, whatever
\* of a first transfer was undone.
KeysAgree(d) ==
    \A k \in Key :
      /\ d.index[k] # Nobody => d.index[k] = IdOf[k] /\ d.accounts[IdOf[k]].key = k
      /\ \A a \in Id : d.accounts[a].key = k => d.index[k] = a
KeysIndexed == KeysAgree(db)

B == INSTANCE Bank WITH balance <- [a \in Id |-> BalanceOf(db, a)]

\* The database changes as a bank does: by whole payments, which the owner of
\* the key makes from what he has, or by forging, whatever interrupts a block.
ImplementsBank == B!Spec
=============================================================================
