------------------------------ MODULE Balances ------------------------------
(***************************************************************************)
(* The balances of a wallet (wallet.cpp, wallet.h): what GetBalance and    *)
(* its relatives report, and the sums each CWalletTx caches for them.      *)
(* Transactions come loose, are made by the wallet, mined and             *)
(* disconnected; keys are imported and scripts added meanwhile. Every      *)
(* transaction is final.                                                   *)
(***************************************************************************)
EXTENDS Integers, FiniteSetsExt, SequencesExt

CONSTANTS
    Payments,      \* the transactions
    Ins, Outs,     \* of a transaction: the outpoints <<tx, n>> of others of them it
                   \* spends, and its number of outputs
    Generates,     \* of a transaction: "base", "stake" or "no"
    Worth, PaidTo, \* of an outpoint: amount and address
    FirstKeys,     \* addresses of the wallet's keys at the start
    ImportedKeys, AddedScripts,  \* addresses that become its own later
    Labelled,      \* addresses in mapAddressBook
    OwnPayments,   \* those CreateTransaction may make
    nCoinbaseMaturity, WalletMaturity,  \* the wallet adds 20 to it
    CopyDepth,     \* COPY_DEPTH
    MaxMined,      \* bound: blocks ever connected
    Unset          \* a cache that is not set

VARIABLES
    wtx,        \* mapWallet; Unset where there is none
    loose,      \* transactions in the memory pool
    mined,      \* the best chain: one transaction, or Unset, per block, with a number
    made,       \* blocks connected so far
    own         \* the addresses IsMine says yes to

bvars == <<wtx, loose, mined, made, own>>

OutsOf(t) == {<<t, n>> : n \in 0 .. Outs[t] - 1}
OutsOfAll == UNION {OutsOf(t) : t \in Payments}

\* What the wallet keeps of a transaction, with the copies of the transactions
\* it depends on: each with the number of its block.
WalletTx ==
    [hashBlock : Nat, vfSpent : SUBSET Nat, vtxPrev : SUBSET (Payments \X Nat),
     debit : Nat \union {Unset}, credit : Nat \union {Unset}, avail : Nat \union {Unset}]

ASSUME BalanceAssumption ==
    /\ IsFiniteSet(Payments) /\ MaxMined \in Nat
    /\ Outs \in [Payments -> Nat] /\ Ins \in [Payments -> SUBSET OutsOfAll]
    /\ Worth \in [OutsOfAll -> Nat]
    /\ Unset \notin Payments /\ Unset \notin WalletTx /\ Unset \notin Nat

\* CWalletTx(pwallet, tx): no caches, nothing spent. hashBlock is the number
\* of a block, 0 when null.
NewWalletTx(nBlock) ==
    [hashBlock |-> nBlock, vfSpent |-> {}, vtxPrev |-> {},
     debit |-> Unset, credit |-> Unset, avail |-> Unset]

-----------------------------------------------------------------------------
(***************************************************************************)
(* Sums. w is the wallet, k the addresses that are its own.                *)
(***************************************************************************)
IsMine(k, o) == PaidTo[o] \in k
Total(S) == MapThenSumSet(LAMBDA o : Worth[o], S)

DebitOf(w, k, t) == Total({o \in Ins[t] : w[o[1]] # Unset /\ IsMine(k, o)})
CreditOf(k, t) == Total({o \in OutsOf(t) : IsMine(k, o)})
AvailableOf(w, k, t) == Total({o \in OutsOf(t) : IsMine(k, o) /\ o[2] \notin w[t].vfSpent})

BlockAt(nBlock) == SelectInSeq(mined, LAMBDA b : b.number = nBlock)
\* CMerkleTx::GetDepthInMainChain.
DepthOf(nBlock) ==
    IF nBlock = 0 \/ BlockAt(nBlock) = 0 THEN 0 ELSE Len(mined) - BlockAt(nBlock) + 1
Depth(w, t) == DepthOf(w[t].hashBlock)
Immature(w, t) == Generates[t] # "no" /\ Depth(w, t) < WalletMaturity

\* The caching getters: the wallet after the call of one for t.
GetDebit(w, k, t) ==
    IF w[t].debit # Unset THEN w ELSE [w EXCEPT ![t].debit = DebitOf(w, k, t)]
GetCredit(w, k, t) ==
    IF Immature(w, t) \/ w[t].credit # Unset THEN w
    ELSE [w EXCEPT ![t].credit = CreditOf(k, t)]
GetAvailableCredit(w, k, t) ==
    IF Immature(w, t) \/ w[t].avail # Unset THEN w
    ELSE [w EXCEPT ![t].avail = AvailableOf(w, k, t)]

Dirty(record) == [record EXCEPT !.debit = Unset, !.credit = Unset, !.avail = Unset]

\* Mutant: the sum over what is available is kept.
MarkSpentKeeping(w, o) == [w EXCEPT ![o[1]].vfSpent = @ \union {o[2]}]

MarkSpent(w, o) ==
    IF o[2] \in w[o[1]].vfSpent THEN w
    ELSE [w EXCEPT ![o[1]].vfSpent = @ \union {o[2]}, ![o[1]].avail = Unset]
MarkUnspent(w, o) ==
    IF o[2] \in w[o[1]].vfSpent
    THEN [w EXCEPT ![o[1]].vfSpent = @ \ {o[2]}, ![o[1]].avail = Unset]
    ELSE w

-----------------------------------------------------------------------------
(***************************************************************************)
(* What the wallet does with a transaction.                                *)
(***************************************************************************)
OwnInputs(w, k, t) == {o \in Ins[t] : w[o[1]] # Unset /\ IsMine(k, o)}

\* The log line of WalletUpdateSpent calls GetCredit.
WalletUpdateSpent(w, k, t) ==
    FoldSet(LAMBDA o, v :
                IF o[2] \in v[o[1]].vfSpent THEN v ELSE MarkSpent(GetCredit(v, k, o[1]), o),
            w, OwnInputs(w, k, t))

\* AddToWallet, with BindWallet.
AddToWallet(w, k, t, record) ==
    LET merged ==
            IF w[t] = Unset THEN record
            ELSE [w[t] EXCEPT !.hashBlock = IF record.hashBlock = 0 THEN @ ELSE record.hashBlock,
                              !.vfSpent = @ \union record.vfSpent]
    IN  WalletUpdateSpent([w EXCEPT ![t] = Dirty(merged)], k, t)

\* AddToWalletIfInvolvingMe with fUpdate.
Sync(w, k, t, nBlock) ==
    IF w[t] # Unset \/ CreditOf(k, t) > 0 \/ DebitOf(w, k, t) > 0
    THEN AddToWallet(w, k, t, NewWalletTx(nBlock))
    ELSE WalletUpdateSpent(w, k, t)

BlockOf(t) ==
    IF \E i \in DOMAIN mined : mined[i].tx = t
    THEN (CHOOSE b \in ToSet(mined) : b.tx = t).number ELSE 0

\* AddSupportingTransactions: copies of the parents, and of their parents as
\* long as a copy is not buried deep enough.
Supporting(t) ==
    LET parents(S) == {o[1] : o \in UNION {Ins[u] : u \in S}}
        copied[i \in Nat] ==
            IF i = 0 THEN parents({t})
            ELSE copied[i - 1]
                 \union parents({u \in copied[i - 1] : DepthOf(BlockOf(u)) < CopyDepth})
    IN  {<<u, BlockOf(u)>> : u \in copied[Cardinality(Payments)]}

\* CWalletTx::IsConfirmed, without its effect on the cache: what the walk over
\* the copies visits, until it comes to mined ones.
Copy(w, t, u) == CHOOSE c \in w[t].vtxPrev : c[1] = u
Copied(w, t) == {c[1] : c \in w[t].vtxPrev}
Visited(w, t) ==
    LET unmined(u) == u = t \/ (u \in Copied(w, t) /\ DepthOf(Copy(w, t, u)[2]) = 0)
        seen[i \in Nat] ==
            IF i = 0 THEN {t}
            ELSE seen[i - 1]
                 \union {o[1] : o \in UNION {Ins[u] : u \in {v \in seen[i - 1] : unmined(v)}}}
    IN  {u \in seen[Cardinality(Payments)] : u \notin Copied(w, t) \/ unmined(u)}

\* Mutant: any known parent will do.
IsConfirmedByKin(w, t) ==
    \/ Depth(w, t) >= 1
    \/ GetDebit(w, own, t)[t].debit > 0 /\ Visited(w, t) \subseteq Copied(w, t) \union {t}

IsConfirmed(w, t) ==
    \/ Depth(w, t) >= 1
    \/ /\ GetDebit(w, own, t)[t].debit > 0
       /\ \A u \in Visited(w, t) :
            u \in Copied(w, t) \union {t} /\ DebitOf(w, own, u) > 0

\* The quick answer of a mined transaction leaves the cache of GetDebit alone.
AskConfirmed(w, t) == IF Depth(w, t) >= 1 THEN w ELSE GetDebit(w, own, t)

-----------------------------------------------------------------------------
(***************************************************************************)
(* Balances.                                                               *)
(***************************************************************************)
InWallet(w) == {t \in Payments : w[t] # Unset}

CachedAvail(w, t) ==
    IF Immature(w, t) THEN 0 ELSE GetAvailableCredit(w, own, t)[t].avail
BalanceOver(w, S) == MapThenSumSet(LAMBDA t : CachedAvail(w, t), S)
GetBalance(w) == BalanceOver(w, {t \in InWallet(w) : IsConfirmed(w, t)})

\* CWalletTx::GetAmounts with the sums "getbalance *" makes of it, for
\* transactions of depth nMinDepth at least.
CachedDebit(w, t) == GetDebit(w, own, t)[t].debit
IsChange(o) == IsMine(own, o) /\ PaidTo[o] \notin Labelled
Generated(w, t) == IF Immature(w, t) THEN 0 ELSE GetCredit(w, own, t)[t].credit
Received(w, t) ==
    Total({o \in OutsOf(t) : IsMine(own, o) /\ ~(CachedDebit(w, t) > 0 /\ IsChange(o))})
Sent(w, t) ==
    IF CachedDebit(w, t) > 0 THEN Total({o \in OutsOf(t) : ~IsChange(o)}) ELSE 0
Fee(w, t) == IF CachedDebit(w, t) > 0 THEN CachedDebit(w, t) - Total(OutsOf(t)) ELSE 0
AmountOf(w, t, nMinDepth) ==
    IF Generates[t] # "no" THEN Generated(w, t)
    ELSE (IF Depth(w, t) >= nMinDepth THEN Received(w, t) ELSE 0) - Sent(w, t) - Fee(w, t)
BalanceOfAll(w, nMinDepth) ==
    MapThenSumSet(LAMBDA t : AmountOf(w, t, nMinDepth), InWallet(w))

-----------------------------------------------------------------------------
ParentsOf(t) == {o[1] : o \in Ins[t]}
InChain(t) == BlockOf(t) # 0
Unspent(o) == \A u \in Payments : (InChain(u) \/ u \in loose) => o \notin Ins[u]
\* ConnectInputs.
MayBeSpent(t) == Generates[t] # "no" => DepthOf(BlockOf(t)) >= nCoinbaseMaturity

\* A transaction of somebody else enters the memory pool.
ReceivePayment(t) ==
    /\ t \notin loose /\ ~InChain(t) /\ Generates[t] = "no" /\ t \notin OwnPayments
    /\ \A o \in Ins[t] :
         Unspent(o) /\ (InChain(o[1]) \/ o[1] \in loose) /\ MayBeSpent(o[1])
    /\ loose' = loose \union {t}
    /\ wtx' = Sync(wtx, own, t, 0)
    /\ UNCHANGED <<mined, made, own>>

\* CreateTransaction and CommitTransaction: AvailableCoins offers what is
\* confirmed, mature and not spent.
CommitPayment(t) ==
    /\ t \in OwnPayments /\ wtx[t] = Unset
    /\ \A o \in Ins[t] :
         /\ wtx[o[1]] # Unset /\ IsMine(own, o) /\ o[2] \notin wtx[o[1]].vfSpent
         /\ IsConfirmed(wtx, o[1]) /\ ~Immature(wtx, o[1]) /\ Unspent(o)
    /\ loose' = loose \union {t}
    /\ LET added == AddToWallet(wtx, own, t, [NewWalletTx(0) EXCEPT !.vtxPrev = Supporting(t)])
           bound == [u \in Payments |->
                        IF u \in ParentsOf(t) THEN Dirty(added[u]) ELSE added[u]]
       IN  wtx' = FoldSet(LAMBDA o, v : MarkSpent(v, o), bound, Ins[t])
    /\ UNCHANGED <<mined, made, own>>

\* ConnectBlock with t, or with nothing for this wallet; loose transactions
\* that compete with t leave the memory pool.
ConnectPayment(t) ==
    /\ made < MaxMined
    /\ t # Unset =>
         /\ ~InChain(t)
         /\ \A o \in Ins[t] :
              /\ InChain(o[1]) /\ MayBeSpent(o[1])
              /\ \A u \in Payments : InChain(u) => o \notin Ins[u]
         /\ t \in OwnPayments => t \in loose
    /\ made' = made + 1
    /\ mined' = Append(mined, [tx |-> t, number |-> made + 1])
    /\ loose' = IF t = Unset THEN loose
                ELSE {u \in loose : u # t /\ Ins[u] \intersect Ins[t] = {}}
    /\ wtx' = IF t = Unset THEN wtx ELSE Sync(wtx, own, t, made + 1)
    /\ UNCHANGED own

\* DisconnectBlock: a stake of mine gives its inputs back (DisableTransaction),
\* other transactions return to the memory pool.
DisconnectPayment ==
    /\ mined # <<>>
    /\ LET t == Last(mined).tx IN
        /\ loose' = IF t # Unset /\ Generates[t] = "no" THEN loose \union {t} ELSE loose
        /\ wtx' = IF t # Unset /\ Generates[t] = "stake"
                  THEN FoldSet(LAMBDA o, v : MarkUnspent(v, o), wtx, OwnInputs(wtx, own, t))
                  ELSE wtx
    /\ mined' = Front(mined)
    /\ UNCHANGED <<made, own>>

\* Mutant: the caches are not told of the key.
ImportQuietly(key) ==
    /\ key \in ImportedKeys \ own
    /\ own' = own \union {key}
    /\ wtx' = FoldLeft(LAMBDA w, b : IF b.tx = Unset THEN w
                                      ELSE Sync(w, own \union {key}, b.tx, b.number),
                       wtx, mined)
    /\ UNCHANGED <<loose, mined, made>>

\* importprivkey: caches are dropped, the key is added, the chain scanned.
\* ReacceptWalletTransactions finds nothing a complete scan has left.
ImportKey(key) ==
    /\ key \in ImportedKeys \ own
    /\ own' = own \union {key}
    /\ LET cleared == [t \in Payments |-> IF wtx[t] = Unset THEN Unset ELSE Dirty(wtx[t])]
       IN  wtx' = FoldLeft(LAMBDA w, b : IF b.tx = Unset THEN w
                                          ELSE Sync(w, own \union {key}, b.tx, b.number),
                           cleared, mined)
    /\ UNCHANGED <<loose, mined, made>>

\* addmultisigaddress with keys that are all the wallet's.
AddScript(script) ==
    /\ script \in AddedScripts \ own
    /\ own' = own \union {script}
    /\ UNCHANGED <<wtx, loose, mined, made>>

\* Somebody asks for the balance, or lists t.
AskBalance ==
    /\ wtx' = FoldSet(LAMBDA t, w :
                        LET asked == AskConfirmed(w, t) IN
                        IF IsConfirmed(w, t) THEN GetAvailableCredit(asked, own, t) ELSE asked,
                      wtx, InWallet(wtx))
    /\ UNCHANGED <<loose, mined, made, own>>
AskUnconfirmed ==
    /\ wtx' = FoldSet(LAMBDA t, w :
                        LET asked == AskConfirmed(w, t) IN
                        IF IsConfirmed(w, t) THEN asked ELSE GetAvailableCredit(asked, own, t),
                      wtx, InWallet(wtx))
    /\ UNCHANGED <<loose, mined, made, own>>
ListPayment(t) ==
    /\ wtx[t] # Unset
    /\ wtx' = IF Generates[t] = "no" THEN GetDebit(wtx, own, t) ELSE GetCredit(wtx, own, t)
    /\ UNCHANGED <<loose, mined, made, own>>

BalanceInit ==
    /\ wtx = [t \in Payments |-> Unset]
    /\ loose = {} /\ mined = <<>> /\ made = 0
    /\ own = FirstKeys

BalanceNext ==
    \/ \E t \in Payments :
         ReceivePayment(t) \/ CommitPayment(t) \/ ConnectPayment(t) \/ ListPayment(t)
    \/ ConnectPayment(Unset) \/ DisconnectPayment
    \/ \E key \in ImportedKeys : ImportKey(key)
    \/ \E script \in AddedScripts : AddScript(script)
    \/ AskBalance \/ AskUnconfirmed

BalanceSpec == BalanceInit /\ [][BalanceNext]_bvars

-----------------------------------------------------------------------------
CacheIs(cache, sum) == cache = Unset \/ cache = sum
CacheAtMost(cache, sum) == cache = Unset \/ cache <= sum

BalanceTypeOK ==
    /\ wtx \in [Payments -> WalletTx \union {Unset}]
    /\ \A t \in InWallet(wtx) : wtx[t].vfSpent \subseteq 0 .. Outs[t] - 1
    /\ mined \in Seq([tx : Payments \union {Unset}, number : 1 .. made])
    /\ loose \subseteq Payments /\ made \in 0 .. MaxMined
    /\ FirstKeys \subseteq own /\ own \subseteq FirstKeys \union ImportedKeys \union AddedScripts

\* A sum that a wallet transaction keeps is never more than one would get by
\* adding up again, whatever was spent, refunded, connected and imported since,
\* and never counts a coin that is spent. Only an address added as a script
\* makes it less, and, for what a transaction spends, an import: a parent of a
\* loose transaction that the wallet had no business with when the key came is
\* its own once it is mined, and only the block of the child tells the child
\* (wallet.h, the caches of CWalletTx; AddToWallet).
CachesFresh ==
    \A t \in InWallet(wtx) :
        LET r == wtx[t] IN
        /\ CacheAtMost(r.debit, DebitOf(wtx, own, t))
        /\ CacheAtMost(r.credit, CreditOf(own, t))
        /\ CacheAtMost(r.avail, AvailableOf(wtx, own, t))
        /\ own \intersect AddedScripts = {} =>
             /\ CacheIs(r.credit, CreditOf(own, t))
             /\ CacheIs(r.avail, AvailableOf(wtx, own, t))
             /\ own = FirstKeys \/ InChain(t) => CacheIs(r.debit, DebitOf(wtx, own, t))

\* The transactions that are not in the chain and lead to t.
Unmined(t) ==
    LET seen[i \in Nat] ==
            IF i = 0 THEN {t} ELSE seen[i - 1] \union
                {u \in UNION {ParentsOf(v) : v \in seen[i - 1]} : ~InChain(u)}
    IN  seen[Cardinality(Payments)]

\* A transaction that is not in the chain counts as confirmed only if all that
\* has to be mined before it is the wallet's own making too, also after blocks
\* were disconnected (IsConfirmed and the copies of AddSupportingTransactions).
TrustIsEarned ==
    \A t \in InWallet(wtx) :
        IsConfirmed(wtx, t) /\ ~InChain(t) =>
            \A u \in Unmined(t) : DebitOf(wtx, own, u) > 0

BalanceSound == BalanceTypeOK /\ CachesFresh /\ TrustIsEarned

\* "getbalance and getbalance '*' should always return the same number"
\* (rpcwallet.cpp:560), here while no transaction is loose or immature.
BalancesAgree ==
    loose = {} /\ (\A t \in InWallet(wtx) : ~Immature(wtx, t)) =>
        GetBalance(wtx) = BalanceOfAll(wtx, 1)
=============================================================================
