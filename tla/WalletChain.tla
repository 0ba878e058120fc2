------------------------------ MODULE WalletChain ------------------------------
(***************************************************************************)
(* The transactions of a wallet (CWallet::mapWallet and wallet.dat) beside *)
(* the chain they follow.  Every action of ChainState is composed with     *)
(* what it tells the registered wallet: ConnectBlock and DisconnectBlock   *)
(* call SyncWithWallets while the database transaction of the switch is    *)
(* still open, and the wallet writes to a file of its own, which no abort  *)
(* and no crash takes back.                                                *)
(*                                                                         *)
(* Each change of a wallet transaction is followed by WriteToDisk, so      *)
(* mapWallet is at the same time what wallet.dat holds.                    *)
(***************************************************************************)
EXTENDS ChainState

CONSTANTS
    Mine,          \* the outputs whose key the wallet has
    Own,           \* the transactions CreateTransaction may make
    Estimate,      \* Checkpoints::GetTotalBlocksEstimate()
    BackupAt       \* the best blocks at which wallet.dat may be copied (a bound)

ASSUME WalletAssumption ==
    /\ Mine \subseteq {o \in OutPoints : InRange(o)}
    /\ Own \subseteq Standard \ Generated
    /\ \A t \in Own : vin[t] # {}
    /\ IsFiniteSet(Txs)
    /\ Estimate \in Nat
    /\ BackupAt \subseteq Blocks

VARIABLES
    mapWallet,     \* the wallet transactions, Nil where there is none
    bestblock,     \* the first block of the locator in wallet.dat, or Nil
    registered,    \* the wallet is in setpwalletRegistered
    reaccepted,    \* ReacceptWalletTransactions has run since the start
    backup,        \* a copy of wallet.dat, or Nil
    \* History, read by no guard: the blocks ...
    misplaced,     \* ... a transaction of which wallet.dat has in another block,
    unflagged,     \* ... whose stakes DisableTransaction made available again,
    stranded,      \* ... which the wallet knows and nobody disconnected for it,
    restored       \* and whether wallet.dat has been restored from the copy

historyVars == <<misplaced, unflagged, stranded>>
walletVars == <<mapWallet, bestblock, registered, reaccepted, backup, historyVars, restored>>
wvars == <<vars, walletVars>>

\* CWalletTx.  hashBlock: Nil when null; vfSpent: the outputs flagged as spent;
\* vtxPrev: the supporting transactions, each with its hashBlock.
WalletTx == [hashBlock : Blocks \union {Nil}, vfSpent : SUBSET (0 .. 2),
             vtxPrev : SUBSET (Txs \X (Blocks \union {Nil}))]

ASSUME WalletNilAssumption == Nil \notin WalletTx

\* A copy of wallet.dat without a locator has been restored: the chain since
\* is never scanned for it.
Blind == restored /\ backup.bestblock = Nil

-----------------------------------------------------------------------------
(***************************************************************************)
(* The wallet as a function of the wallet.                                 *)
(***************************************************************************)

\* CWallet::IsMine(CTransaction) and CWallet::IsFromMe.
PaysMe(t) == \E n \in 0 .. vout[t] - 1 : <<t, n>> \in Mine
IsFromMe(w, t) == \E o \in vin[t] : o \in Mine /\ w[o[1]] # Nil

\* The outputs of p that t spends.
SpentBy(t, p) == {o[2] : o \in {i \in vin[t] : i[1] = p}}
MineOf(p) == {n \in 0 .. 2 : <<p, n>> \in Mine}

\* Mutant: outputs of others are flagged too.
UpdateSpentOfAll(w, t) ==
    [p \in Txs |-> IF w[p] = Nil THEN Nil
                   ELSE [w[p] EXCEPT !.vfSpent = @ \union SpentBy(t, p)]]

\* The inputs of t that are outputs of mine are flagged as spent.
WalletUpdateSpent(w, t) ==
    [p \in Txs |->
        IF w[p] = Nil THEN Nil
        ELSE [w[p] EXCEPT !.vfSpent = @ \union (SpentBy(t, p) \intersect MineOf(p))]]

\* Mutant: the block of a known transaction is not updated.
RecordFirst(w, t, wtx) == [w EXCEPT ![t] = IF w[t] = Nil THEN wtx ELSE w[t]]

\* The first half of AddToWallet: insert the transaction or merge hashBlock;
\* the other fields of wtx are those of a new transaction.
Record(w, t, wtx) ==
    [w EXCEPT ![t] =
        IF w[t] = Nil THEN wtx
        ELSE IF wtx.hashBlock = Nil THEN w[t] ELSE [w[t] EXCEPT !.hashBlock = wtx.hashBlock]]

AddToWallet(w, t, wtx) == WalletUpdateSpent(Record(w, t, wtx), t)

\* A transaction seen in block b, or loose if b is Nil.
Seen(b) == [hashBlock |-> b, vfSpent |-> {}, vtxPrev |-> {}]

Involved(w, t) == w[t] # Nil \/ PaysMe(t) \/ IsFromMe(w, t)

\* AddToWalletIfInvolvingMe.
Sync(w, t, b, fUpdate) ==
    IF w[t] # Nil /\ ~fUpdate THEN w
    ELSE IF Involved(w, t) THEN AddToWallet(w, t, Seen(b)) ELSE WalletUpdateSpent(w, t)

\* The wallet after the first n transactions of b.
SyncFirst(w, b, n, fUpdate) ==
    LET after[i \in 0 .. Len(vtx[b])] ==
            IF i = 0 THEN w ELSE Sync(after[i - 1], vtx[b][i], b, fUpdate)
    IN  after[n]

SyncBlock(w, b, fUpdate) == SyncFirst(w, b, Len(vtx[b]), fUpdate)

\* Mutant: the inputs of a disconnected coinstake stay spent.
DisableNothing(w, b) == w

\* DisableTransaction for the transactions of a disconnected block: the inputs
\* of a coinstake of mine are available again.
DisableBlock(w, b) ==
    LET stakes == {t \in TxsOf(b) \intersect CoinStakes : IsFromMe(w, t)}
        freed(p) == UNION {SpentBy(t, p) \intersect MineOf(p) : t \in stakes}
    IN  [p \in Txs |->
            IF w[p] = Nil THEN Nil ELSE [w[p] EXCEPT !.vfSpent = @ \ freed(p)]]

\* What wallet.dat may hold when the process dies while block b is connected:
\* some transactions are told, and of the next one the record is written but
\* its inputs are not yet flagged.
TornConnect(w, b) ==
    {SyncFirst(w, b, n, TRUE) : n \in 0 .. Len(vtx[b])}
    \union
    {LET v == SyncFirst(w, b, n - 1, TRUE) IN
        IF Involved(v, vtx[b][n]) THEN Record(v, vtx[b][n], Seen(b)) ELSE v :
        n \in DOMAIN vtx[b]}

-----------------------------------------------------------------------------
(***************************************************************************)
(* The chain as the wallet sees it.                                        *)
(***************************************************************************)

IsInMainChain(b) == pnext[b] # Nil \/ b = pindexBest

\* CMerkleTx::GetDepthInMainChain of a transaction that claims to be in b.
Depth(b) ==
    IF b # Nil /\ b \in mapBlockIndex /\ IsInMainChain(b)
    THEN nHeight[pindexBest] - nHeight[b] + 1 ELSE 0

\* SetMerkleBranch() without a block: the block of the transaction index, or
\* the one the copy came with.
BlockOf(w, t) ==
    IF disk.pos[t] # Nil THEN disk.pos[t] ELSE IF w[t] # Nil THEN w[t].hashBlock ELSE Nil

\* AddSupportingTransactions: the transactions reached from the inputs of t,
\* going on below those with less than three confirmations.
CopyDepth == 3
Supporting(w, t) ==
    LET found == {p \in Txs : w[p] # Nil \/ disk.pos[p] # Nil}
        inputs(p) == {o[1] : o \in vin[p]}
        closed(Q) == /\ inputs(t) \subseteq Q
                     /\ \A p \in Q \intersect found :
                           Depth(BlockOf(w, p)) < CopyDepth => inputs(p) \subseteq Q
    IN  {<<p, BlockOf(w, p)>> :
            p \in {q \in found : \A Q \in SUBSET Txs : closed(Q) => q \in Q}}

\* CWalletTx::IsConfirmed: the transaction is in the main chain, or it is from
\* me and the same holds of every transaction it depends on, as far as vtxPrev
\* tells.
IsConfirmed(w, t) ==
    LET blocksOf(p) == IF p = t THEN {w[t].hashBlock}
                       ELSE {e[2] : e \in {f \in w[t].vtxPrev : f[1] = p}}
        copies == {e[1] : e \in w[t].vtxPrev}
        good(Q) == \A p \in Q : \A b \in blocksOf(p) :
                      Depth(b) >= 1 \/ /\ IsFromMe(w, p)
                                       /\ \A o \in vin[p] : o[1] \in copies \intersect Q
    IN  \E Q \in SUBSET (copies \union {t}) : t \in Q /\ good(Q)

\* AvailableCoins(vCoins, fOnlyConfirmed).
Maturity == nCoinbaseMaturity + 20
Available(w, o) ==
    /\ o \in Mine
    /\ w[o[1]] # Nil
    /\ o[2] \notin w[o[1]].vfSpent
    /\ IsConfirmed(w, o[1])
    /\ o[1] \in Generated => Depth(w[o[1]].hashBlock) >= Maturity

-----------------------------------------------------------------------------
(***************************************************************************)
(* The chain moves.                                                        *)
(***************************************************************************)

\* Blocks and transactions are received once StartNode runs.
Receive ==
    /\ registered
    /\ \/ \E b \in Blocks : AcceptBlock(b)
       \/ \E b \in Blocks : SwitchToCheckpoint(b)
    /\ UNCHANGED walletVars

\* The tx message.
ReceiveTx(t) ==
    /\ registered
    /\ AcceptToMemoryPool(t)
    /\ mapWallet' = Sync(mapWallet, t, Nil, TRUE)
    /\ UNCHANGED <<bestblock, registered, reaccepted, backup, historyVars, restored>>

\* The blocks of the stored chain that have a transaction of b too.
SharedWith(b) == {c \in Branch[disk.best] : TxsOf(c) \intersect TxsOf(b) # {}}

\* The wallet is told of the new tip, whose transactions are in it from now on.
WalletConnectBlock ==
    /\ ConnectBlock
    /\ IF registered
       THEN /\ mapWallet' = SyncBlock(mapWallet, tip', TRUE)
            /\ misplaced' = (misplaced \ {tip'}) \union SharedWith(tip')
            /\ unflagged' = unflagged \ {tip'}
            /\ stranded' = stranded \ {tip'}
       ELSE UNCHANGED <<mapWallet, historyVars>>
    /\ UNCHANGED <<bestblock, registered, reaccepted, backup, restored>>

\* The verification at start disconnects blocks before the wallet is loaded.
WalletDisconnectBlock ==
    /\ DisconnectBlock
    /\ IF registered
       THEN /\ mapWallet' = DisableBlock(mapWallet, tip)
            /\ unflagged' = IF mapWallet' = mapWallet THEN unflagged ELSE unflagged \union {tip}
            /\ stranded' = stranded \ {tip}
       ELSE UNCHANGED <<mapWallet, unflagged, stranded>>
    /\ UNCHANGED <<bestblock, registered, reaccepted, backup, misplaced, restored>>

\* The end of SetBestChain: the locator is written unless
\* IsInitialBlockDownload, which is so below the last hardened checkpoint and,
\* for want of recent blocks, now and then above it.
WriteBestBlock ==
    \/ UNCHANGED bestblock
    \/ registered /\ nHeight[pindexBest] >= Estimate /\ bestblock' = pindexNew

WalletCommit ==
    /\ Commit
    /\ IF pc' = "idle" THEN WriteBestBlock ELSE UNCHANGED bestblock
    /\ stranded' = IF registered THEN stranded
                   ELSE stranded \union (Branch[disk.best] \ Branch[disk'.best])
    /\ UNCHANGED <<mapWallet, registered, reaccepted, backup, misplaced, unflagged, restored>>

\* An abort takes nothing back that the wallet was told: it still has the
\* blocks that were connected in vain.
ToldInVain == Branch[tip] \ Branch[disk.best]

WalletGiveUp ==
    /\ SwitchFails \/ DatabaseFails
    /\ IF secondary THEN WriteBestBlock ELSE UNCHANGED bestblock
    /\ stranded' = IF registered THEN stranded \union ToldInVain ELSE stranded
    /\ UNCHANGED <<mapWallet, registered, reaccepted, backup, misplaced, unflagged, restored>>

\* A crash in the middle of a switch leaves behind what the wallet was told.
WalletCrash ==
    /\ Crash
    /\ IF /\ registered /\ pc = "switch"
          /\ tip \in Branch[target] /\ tip # target /\ CanConnect(txn, NextOnPath(tip, target))
       THEN mapWallet' \in TornConnect(mapWallet, NextOnPath(tip, target))
       ELSE UNCHANGED mapWallet
    /\ registered' = FALSE
    /\ reaccepted' = FALSE
    /\ IF mapWallet' = mapWallet
       THEN /\ misplaced' = misplaced
            /\ stranded' = IF registered /\ pc = "switch"
                           THEN stranded \union ToldInVain ELSE stranded
       ELSE /\ misplaced' = misplaced \union SharedWith(NextOnPath(tip, target))
            /\ stranded' = stranded \union ToldInVain \union {NextOnPath(tip, target)}
    /\ UNCHANGED <<bestblock, backup, unflagged, restored>>

WalletStart ==
    /\ Start \/ \E b \in Blocks : StartAndRollBack(b)
    /\ UNCHANGED walletVars

-----------------------------------------------------------------------------
(***************************************************************************)
(* What the wallet does by itself.                                         *)
(***************************************************************************)

\* Mutant: a locator whose first block left the main chain is not followed.
RescanFromTip == IF IsInMainChain(bestblock) THEN bestblock ELSE pindexBest

\* CBlockLocator::GetBlockIndex: the first block of the locator that is in the
\* main chain.
RescanFrom ==
    LET common == {b \in Branch[bestblock] : IsInMainChain(b)}
    IN  IF common = {} THEN Genesis
        ELSE CHOOSE b \in common : \A c \in common : c \in Branch[b]

\* ScanForWalletTransactions: the blocks from b on along pnext; the best block
\* comes after fewer steps than its height.
Rescanned(w, b, fUpdate) ==
    LET last == nHeight[pindexBest] + 1
        at[n \in 0 .. last] ==
            IF n = 0 THEN b ELSE IF at[n - 1] = Nil THEN Nil ELSE pnext[at[n - 1]]
        after[n \in 0 .. last] ==
            IF n = 0 THEN w
            ELSE IF at[n - 1] = Nil THEN after[n - 1]
            ELSE SyncBlock(after[n - 1], at[n - 1], fUpdate)
    IN  after[last]

\* The blocks AppInit2 rescans: from the locator to the best block, and none
\* without a locator.
ToScan == IF bestblock # Nil /\ nHeight[RescanFrom] < nHeight[pindexBest]
          THEN {RescanFrom} \union (Branch[pindexBest] \ Branch[RescanFrom]) ELSE {}

\* AppInit2: register the wallet and rescan.
RegisterWallet ==
    /\ pc = "idle"
    /\ ~registered
    /\ registered' = TRUE
    /\ mapWallet' = IF ToScan = {} THEN mapWallet ELSE Rescanned(mapWallet, RescanFrom, TRUE)
    /\ misplaced' = misplaced \ ToScan
    /\ unflagged' = unflagged \ ToScan
    /\ UNCHANGED <<vars, bestblock, reaccepted, backup, stranded, restored>>

\* The transactions ReacceptWalletTransactions looks at in the index.
Examined(w, t) ==
    /\ w[t] # Nil
    /\ t \in CoinBases => 0 \notin w[t].vfSpent
    /\ t \in CoinStakes => 1 \notin w[t].vfSpent

\* Mutant: what the index says is not taken over.
IndexSpentNothing(w, t) == {}

\* The outputs of mine that the transaction index has as spent.
IndexSpent(w, t) ==
    IF Examined(w, t) /\ disk.pos[t] # Nil
    THEN {n \in MineOf(t) : disk.spent[<<t, n>>] # Nil} ELSE {}

\* The loop over mapWallet.  Whenever it finds something, the chain is scanned
\* for transactions the wallet has not got, and the loop starts again.
TakeOver(w) ==
    LET flagged(v) == [t \in Txs |-> IF v[t] = Nil THEN Nil
                           ELSE [v[t] EXCEPT !.vfSpent = @ \union IndexSpent(v, t)]]
        round[n \in 0 .. Cardinality(Txs)] ==
            IF n = 0 THEN w
            ELSE IF flagged(round[n - 1]) = round[n - 1] THEN round[n - 1]
            ELSE Rescanned(flagged(round[n - 1]), Genesis, FALSE)
    IN  round[Cardinality(Txs)]

\* The blocks of the stored chain that spend no coin the loop passes over.
TakenOver == {b \in Branch[disk.best] :
    \A t \in TxsOf(b) : \A o \in vin[t] \intersect Mine :
        mapWallet[o[1]] # Nil => Examined(mapWallet, o[1])}

\* The loose transactions of the wallet and the supporting ones.
Loose(w) ==
    {t \in Txs : disk.pos[t] = Nil /\ (w[t] # Nil \/ \E p \in Txs : w[p] # Nil /\ t \in {e[1] : e \in w[p].vtxPrev})}

\* AcceptToMemoryPool(txdb, false) of one after the other, in the order of the
\* hashes: a largest set without conflicts.
PoolsWith(loose) ==
    LET fitting == {t \in (loose \intersect Standard) \ (Generated \union mapTx) : ~Conflicts(t)}
        free(S) == \A t, u \in S : t # u => vin[t] \intersect vin[u] = {}
    IN  {mapTx \union S : S \in {R \in SUBSET fitting :
            free(R) /\ \A t \in fitting \ R : ~free(R \union {t})}}

\* The last act of AppInit2 runs beside the threads that StartNode started,
\* without cs_main.  It waits for records that an open transaction has written.
ReacceptWalletTransactions ==
    /\ registered /\ ~reaccepted
    /\ pc = "switch" => \A t \in Txs : mapWallet[t] # Nil =>
          /\ txn.pos[t] = disk.pos[t]
          /\ \A n \in 0 .. 2 : txn.spent[<<t, n>>] = disk.spent[<<t, n>>]
    /\ mapWallet' = TakeOver(mapWallet)
    /\ mapTx' \in PoolsWith(Loose(mapWallet'))
    /\ mapNextTx' = PoolIndex(mapTx')
    /\ reaccepted' = TRUE
    /\ unflagged' = unflagged \ TakenOver
    /\ UNCHANGED <<mapBlockIndex, pnext, pindexBest, disk, pc, switchVars, faultVars, intact,
                   bestblock, registered, backup, misplaced, stranded, restored>>

\* SendMoney: CreateTransaction takes available coins, CommitTransaction
\* records the transaction, flags its inputs and hands it to the memory pool.
CommitTransaction(t) ==
    /\ pc = "idle" /\ registered
    /\ t \in Own
    /\ mapWallet[t] = Nil
    /\ \A o \in vin[t] : Available(mapWallet, o)
    /\ mapWallet' = AddToWallet(mapWallet, t,
                        [Seen(Nil) EXCEPT !.vtxPrev = Supporting(mapWallet, t)])
    /\ IF Acceptable(t) THEN AddUnchecked(t) ELSE UNCHANGED poolVars
    /\ UNCHANGED <<mapBlockIndex, pnext, pindexBest, disk, pc, switchVars, faultVars, intact,
                   bestblock, registered, reaccepted, backup, historyVars, restored>>

\* The process dies after the record of the new transaction and before those
\* of its inputs.
CrashInCommit(t) ==
    /\ pc = "idle" /\ registered
    /\ t \in Own
    /\ mapWallet[t] = Nil
    /\ \A o \in vin[t] : Available(mapWallet, o)
    /\ Crash
    /\ mapWallet' = Record(mapWallet, t,
                        [Seen(Nil) EXCEPT !.vtxPrev = Supporting(mapWallet, t)])
    /\ registered' = FALSE
    /\ reaccepted' = FALSE
    /\ UNCHANGED <<bestblock, backup, historyVars, restored>>

\* b has a coinstake of a wallet transaction that is not in the index.
StakesLooseCoin(b) ==
    \E k \in TxsOf(b) \intersect CoinStakes : \E o \in vin[k] \intersect Mine :
        mapWallet[o[1]] # Nil /\ disk.pos[o[1]] = Nil

\* repairwallet: FixSpentCoins makes the flags of the transactions in the
\* index what the index says.
FixSpentCoins ==
    /\ pc = "idle" /\ registered
    /\ mapWallet' = [t \in Txs |->
          IF mapWallet[t] = Nil \/ disk.pos[t] = Nil THEN mapWallet[t]
          ELSE [mapWallet[t] EXCEPT !.vfSpent =
                  (@ \ MineOf(t)) \union {n \in MineOf(t) : disk.spent[<<t, n>>] # Nil}]]
    /\ unflagged' = unflagged \ Branch[pindexBest]
    /\ stranded' = {b \in stranded : StakesLooseCoin(b)}
    /\ UNCHANGED <<vars, bestblock, registered, reaccepted, backup, misplaced, restored>>

\* backupwallet.
BackupWallet ==
    /\ pindexBest \in BackupAt
    /\ pc = "idle" /\ registered
    /\ backup = Nil
    /\ LET behind == IF bestblock = Nil THEN {} ELSE Branch[bestblock] \ Branch[pindexBest]
       IN  backup' = [mapWallet |-> mapWallet, bestblock |-> bestblock, best |-> pindexBest,
                      misplaced |-> misplaced \union behind,
                      unflagged |-> unflagged \union behind, stranded |-> stranded]
    /\ UNCHANGED <<vars, mapWallet, bestblock, registered, reaccepted, historyVars, restored>>

\* The user puts the copy in the place of wallet.dat while the node is down.
RestoreWallet ==
    /\ pc = "down"
    /\ backup # Nil /\ ~restored
    /\ mapWallet' = backup.mapWallet
    /\ bestblock' = backup.bestblock
    /\ misplaced' = backup.misplaced
    /\ unflagged' = backup.unflagged
    /\ stranded' = backup.stranded \union (Branch[backup.best] \ Branch[disk.best])
    /\ restored' = TRUE
    /\ UNCHANGED <<vars, registered, reaccepted, backup>>

-----------------------------------------------------------------------------
WalletInit ==
    /\ Init
    /\ mapWallet = [t \in Txs |-> Nil]
    /\ bestblock = Nil
    /\ registered = TRUE
    /\ reaccepted = TRUE
    /\ backup = Nil
    /\ misplaced = {} /\ unflagged = {} /\ stranded = {}
    /\ restored = FALSE

WalletNext ==
    \/ Receive
    \/ \E t \in Txs : ReceiveTx(t)
    \/ WalletConnectBlock
    \/ WalletDisconnectBlock
    \/ WalletCommit
    \/ WalletGiveUp
    \/ WalletCrash
    \/ WalletStart
    \/ RegisterWallet
    \/ ReacceptWalletTransactions
    \/ \E t \in Txs : CommitTransaction(t)
    \/ \E t \in Txs : CrashInCommit(t)
    \/ FixSpentCoins
    \/ BackupWallet
    \/ RestoreWallet

WalletSpec == WalletInit /\ [][WalletNext]_wvars

-----------------------------------------------------------------------------
(***************************************************************************)
(* Properties.                                                             *)
(***************************************************************************)

\* Every variable has its type, and only outputs of mine are ever flagged.
WalletTypeOK ==
    /\ mapWallet \in [Txs -> WalletTx \union {Nil}]
    /\ \A t \in Txs : mapWallet[t] # Nil => mapWallet[t].vfSpent \subseteq MineOf(t)
    /\ bestblock \in Blocks \union {Nil}
    /\ registered \in BOOLEAN /\ reaccepted \in BOOLEAN
    /\ misplaced \subseteq Blocks /\ unflagged \subseteq Blocks /\ stranded \subseteq Blocks
    /\ restored \in BOOLEAN
    /\ backup # Nil => backup.mapWallet \in [Txs -> WalletTx \union {Nil}]

AtRest == pc = "idle" /\ registered /\ intact

\* A transaction of the best chain that pays the wallet or spends a coin of
\* its is in the wallet, after reorganizations and aborted ones, crashes
\* between wallet.dat and the block database, roll-backs at start and a
\* restored copy of wallet.dat (SyncWithWallets, ScanForWalletTransactions).
\* Only a copy without a locator may lack some: it is never rescanned.
WalletKnowsChain ==
    (AtRest /\ ~Blind) =>
        \A t \in TxsOnBranch(pindexBest) :
            (PaysMe(t) \/ vin[t] \intersect Mine # {}) => mapWallet[t] # Nil

\* A wallet transaction that counts as confirmed is in the best chain, always;
\* and one of the best chain counts as confirmed, unless a switch that was
\* aborted or cut short told the wallet of it in another block and neither a
\* later switch nor a rescan has told it of this one again (AddToWallet).
ConfirmedIsSeen ==
    AtRest =>
        \A t \in Txs : mapWallet[t] # Nil =>
            /\ Depth(mapWallet[t].hashBlock) > 0 => t \in TxsOnBranch(pindexBest)
            /\ (~Blind /\ \E b \in Branch[pindexBest] \ misplaced : t \in TxsOf(b)) =>
                  Depth(mapWallet[t].hashBlock) > 0

\* The wallet and the best chain tell the same story of every transaction of
\* mine: known if it is in the chain, confirmed only if it is.
WalletFollowsChain == WalletTypeOK /\ WalletKnowsChain /\ ConfirmedIsSeen

\* A coin of mine that the best chain spends is flagged as spent, so that it
\* is not offered again.  The one exception is a block with a stake of mine
\* that a switch disconnected in vain: until the next start, a rescan or
\* repairwallet its stakes are on offer (WalletUpdateSpent, DisableTransaction,
\* ReacceptWalletTransactions).
SpentIsFlagged ==
    (AtRest /\ ~Blind) =>
        \A b \in Branch[pindexBest] \ unflagged : \A t \in TxsOf(b) :
            \A o \in vin[t] \intersect Mine :
                mapWallet[o[1]] # Nil => o[2] \in mapWallet[o[1]].vfSpent

\* A coin that only a coinstake of mine outside the best chain spent is
\* available again: minting on a branch that loses does not cost the stake
\* (DisableTransaction).  The stakes of blocks that were connected in vain,
\* rolled back before the wallet was loaded, or known to a restored copy only
\* stay flagged until repairwallet.
StakeRefunded ==
    (AtRest /\ ~Blind) =>
        \A k \in CoinStakes \ (TxsOnBranch(pindexBest) \union UNION {TxsOf(b) : b \in stranded}) :
            \A o \in vin[k] \intersect Mine :
                (mapWallet[o[1]] # Nil /\ o[2] \in mapWallet[o[1]].vfSpent) =>
                    \E u \in Txs \ {k} : o \in vin[u] /\ mapWallet[u] # Nil

\* The coins that may be spent, and staked, are those the best chain leaves.
SpentFollowsChain == SpentIsFlagged /\ StakeRefunded

=============================================================================
