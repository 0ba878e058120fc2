------------------------------ MODULE ChainState ------------------------------
(***************************************************************************)
(* The best chain of a node and what must agree with it: the block index   *)
(* in memory, the block index and the transaction index on disk, and the   *)
(* memory pool.  Models AddToBlockIndex, SetBestChain, SetBestChainInner,  *)
(* Reorganize, ConnectBlock, DisconnectBlock, CTxMemPool::accept and       *)
(* CTxMemPool::remove of main.cpp and CTxDB::LoadBlockIndex of db.cpp.     *)
(*                                                                         *)
(* A switch of the best chain runs inside one database transaction, one    *)
(* block at a time: txn is the view of that transaction, disk what has     *)
(* been committed.  A crash forgets everything but disk.                   *)
(***************************************************************************)
EXTENDS ChainDefs

CONSTANTS
    Standard,      \* the transactions that pass the checks of
                   \* CTxMemPool::accept that ask for no other transaction
    Requested,     \* the blocks a synchronized checkpoint may name
    MaxCrashes,    \* bound on the number of crashes
    MaxFailures    \* bound on the number of failed reads and commits

ASSUME BoundsAssumption ==
    /\ Standard \subseteq Txs /\ Requested \subseteq Blocks
    /\ MaxCrashes \in Nat /\ MaxFailures \in Nat

VARIABLES
    mapBlockIndex, \* the blocks of the index in memory
    pnext,         \* CBlockIndex::pnext of each block
    pindexBest,    \* the best block in memory (hashBestChain is its hash)
    disk,          \* the database, as committed
    pc,            \* "idle", "switch" while SetBestChain runs, "down"
    txn,           \* the database as the open transaction sees it
    pindexNew,     \* the block SetBestChain was called for
    target,        \* the block the open transaction makes the best one
    tip,           \* the block the view txn stands at
    secondary,     \* the loop over vpindexSecondary has begun
    vResurrect,    \* transactions of the blocks disconnected so far
    vDelete,       \* transactions of the blocks connected so far
    mapTx,         \* the transactions of the memory pool
    mapNextTx,     \* which of them spends an output
    crashes,       \* number of crashes
    failures,      \* number of failed reads and commits
    intact         \* no block was skipped and no index entry overwritten

switchVars == <<txn, pindexNew, target, tip, secondary, vResurrect, vDelete>>
poolVars == <<mapTx, mapNextTx>>
faultVars == <<crashes, failures>>
vars == <<mapBlockIndex, pnext, pindexBest, disk, pc, switchVars, poolVars,
          faultVars, intact>>

(***************************************************************************)
(* The records of CTxDB.  index: the "blockindex" records; next: their     *)
(* hashNext; best: "hashBestChain"; pos: the position in each "tx" record, *)
(* Nil without a record; spent: its vSpent entries.                        *)
(***************************************************************************)
TxDB == [index : SUBSET Blocks, best : Blocks, next : [Blocks -> Blocks \union {Nil}],
         pos : [Txs -> Blocks \union {Nil}], spent : [OutPoints -> TxPos \union {Nil}]]

EmptyDB == [index |-> {Genesis}, best |-> Genesis, next |-> [b \in Blocks |-> Nil],
            pos |-> [t \in Txs |-> Nil], spent |-> [o \in OutPoints |-> Nil]]

-----------------------------------------------------------------------------
(***************************************************************************)
(* Disconnecting a block from a view of the database.                      *)
(***************************************************************************)

\* Mutant: the transactions are undone from the first to the last.
CanDisconnectForward(d, b) ==
    \A i \in DOMAIN vtx[b] : \A o \in vin[vtx[b][i]] :
        /\ d.pos[o[1]] # Nil
        /\ InRange(o)
        /\ \A j \in DOMAIN vtx[b] : j < i => vtx[b][j] # o[1]

\* DisconnectInputs runs from the last transaction of b to the first, so the
\* record of an input must exist and not belong to a later transaction of b,
\* whose record is erased by then.
CanDisconnect(d, b) ==
    \A i \in DOMAIN vtx[b] : \A o \in vin[vtx[b][i]] :
        /\ d.pos[o[1]] # Nil
        /\ InRange(o)
        /\ \A j \in DOMAIN vtx[b] : j > i => vtx[b][j] # o[1]

\* Mutant: the spent entries of the inputs are left behind.
DisconnectedKeepingSpent(d, b) ==
    [d EXCEPT
        !.pos = [t \in Txs |-> IF t \in TxsOf(b) THEN Nil ELSE d.pos[t]],
        !.spent = [o \in OutPoints |-> IF o[1] \in TxsOf(b) THEN Nil ELSE d.spent[o]],
        !.next = [d.next EXCEPT ![pprev[b]] = Nil]]

\* Input entries are cleared, records erased, hashNext of the predecessor
\* cleared.
Disconnected(d, b) ==
    LET freed == UNION {vin[t] : t \in TxsOf(b)}
    IN  [d EXCEPT
            !.pos = [t \in Txs |-> IF t \in TxsOf(b) THEN Nil ELSE d.pos[t]],
            !.spent = [o \in OutPoints |->
                IF o \in freed \/ o[1] \in TxsOf(b) THEN Nil ELSE d.spent[o]],
            !.next = [d.next EXCEPT ![pprev[b]] = Nil]]

(***************************************************************************)
(* Connecting a block to a view of the database.                           *)
(***************************************************************************)

\* FetchInputs finds the record of an input among the queued changes, when an
\* earlier transaction of b made it, and in the database otherwise.
MadeEarlier(b, i, t) == \E j \in DOMAIN vtx[b] : j < i /\ vtx[b][j] = t
FetchedPos(d, b, i, t) == IF MadeEarlier(b, i, t) THEN b ELSE d.pos[t]

\* Mutant: the entry in vSpent is not looked at.
CanSpendTwice(d, b, i, o) ==
    /\ FetchedPos(d, b, i, o[1]) # Nil
    /\ InRange(o)
    /\ o[1] \in Generated => ~Immature(FetchedPos(d, b, i, o[1]), b)

\* FetchInputs and ConnectInputs for input o of the i-th transaction of b.
CanSpend(d, b, i, o) ==
    /\ FetchedPos(d, b, i, o[1]) # Nil
    /\ InRange(o)
    /\ o[1] \in Generated => ~Immature(FetchedPos(d, b, i, o[1]), b)
    /\ MadeEarlier(b, i, o[1]) \/ d.spent[o] = Nil
    /\ \A k \in DOMAIN vtx[b] : k < i => o \notin vin[vtx[b][k]]

\* BIP30: a transaction already in the index must be completely spent.
NoLiveOverwrite(d, b) ==
    \A t \in TxsOf(b) : d.pos[t] # Nil =>
        \A n \in 0 .. vout[t] - 1 : d.spent[<<t, n>>] # Nil

CanConnect(d, b) ==
    /\ b \in Sound
    /\ NoLiveOverwrite(d, b)
    /\ \A i \in DOMAIN vtx[b] : \A o \in vin[vtx[b][i]] : CanSpend(d, b, i, o)

\* Mutant: an index where a transaction position belongs.
SpenderIndex(b, o) == CHOOSE i \in DOMAIN vtx[b] : o \in vin[vtx[b][i]]

\* The transaction of b that spends o.
Spender(b, o) == CHOOSE t \in TxsOf(b) : o \in vin[t]

\* Mutant: the new records are written last and wipe out spends inside b.
ConnectedRecordsLast(d, b) ==
    LET taken == UNION {vin[t] : t \in TxsOf(b)}
    IN  [d EXCEPT
            !.pos = [t \in Txs |-> IF t \in TxsOf(b) THEN b ELSE d.pos[t]],
            !.spent = [o \in OutPoints |->
                IF o[1] \in TxsOf(b) THEN Nil
                ELSE IF o \in taken THEN <<b, Spender(b, o)>> ELSE d.spent[o]],
            !.next = [d.next EXCEPT ![b] = pnext[b], ![pprev[b]] = b]]

\* Every transaction of b gets a new record and the records of its inputs
\* point to it; the index records of b and its predecessor are written anew.
Connected(d, b) ==
    LET taken == UNION {vin[t] : t \in TxsOf(b)}
    IN  [d EXCEPT
            !.pos = [t \in Txs |-> IF t \in TxsOf(b) THEN b ELSE d.pos[t]],
            !.spent = [o \in OutPoints |->
                IF o \in taken THEN <<b, Spender(b, o)>>
                ELSE IF o[1] \in TxsOf(b) THEN Nil ELSE d.spent[o]],
            !.next = [d.next EXCEPT ![b] = pnext[b], ![pprev[b]] = b]]

-----------------------------------------------------------------------------
(***************************************************************************)
(* The memory pool.                                                        *)
(***************************************************************************)

Conflicts(t) == \E o \in vin[t] : mapNextTx[o] # Nil

\* mapNextTx after pool, a set of transactions without a common input.
PoolIndex(pool) ==
    [o \in OutPoints |->
        IF \E t \in pool : o \in vin[t] THEN CHOOSE t \in pool : o \in vin[t] ELSE Nil]

\* Mutant: an output of the chain is taken to be unspent.
CanSpendRecorded(o) ==
    /\ InRange(o)
    /\ IF disk.pos[o[1]] = Nil
       THEN o[1] \in mapTx
       ELSE o[1] \in Generated => ~Immature(disk.pos[o[1]], pindexBest)

\* CTxMemPool::accept with fCheckInputs for an input: a record on disk comes
\* first, and only without one the memory pool is asked.
CanSpendLoose(o) ==
    /\ InRange(o)
    /\ IF disk.pos[o[1]] = Nil
       THEN o[1] \in mapTx
       ELSE /\ disk.spent[o] = Nil
            /\ o[1] \in Generated => ~Immature(disk.pos[o[1]], pindexBest)

\* What CTxMemPool::accept with fCheckInputs asks of a loose transaction.
Acceptable(t) ==
    /\ t \in Standard \ Generated
    /\ t \notin mapTx
    /\ disk.pos[t] = Nil
    /\ ~Conflicts(t)
    /\ \A o \in vin[t] : CanSpendLoose(o)

AddUnchecked(t) ==
    /\ mapTx' = mapTx \union {t}
    /\ mapNextTx' = [o \in OutPoints |-> IF o \in vin[t] THEN t ELSE mapNextTx[o]]

\* CTransaction::AcceptToMemoryPool of a loose transaction.
AcceptToMemoryPool(t) ==
    /\ pc = "idle"
    /\ Acceptable(t)
    /\ AddUnchecked(t)
    /\ UNCHANGED <<mapBlockIndex, pnext, pindexBest, disk, pc, switchVars, faultVars, intact>>

\* Mutants: conflicts are not looked for; inputs are looked up in the index.
ResurrectedAll == (vResurrect \intersect Standard) \ (Generated \union mapTx)
ResurrectedChecked ==
    {t \in (vResurrect \intersect Standard) \ (Generated \union mapTx) :
        ~Conflicts(t) /\ \A o \in vin[t] : CanSpendLoose(o)}

\* The disconnected transactions that AcceptToMemoryPool(txdb, false) takes
\* back: those that conflict with nothing in the memory pool (and, coming from
\* one valid chain, not with each other).
Resurrected == {t \in (vResurrect \intersect Standard) \ (Generated \union mapTx) : ~Conflicts(t)}

\* Mutant: remove first, then resurrect.
UpdatePoolReversed ==
    /\ mapTx' = (mapTx \ vDelete) \union Resurrected
    /\ mapNextTx' = PoolIndex(mapTx')

\* The memory pool after a commit: resurrect first, then remove what the
\* connected blocks contain.
UpdatePool ==
    /\ mapTx' = (mapTx \union Resurrected) \ vDelete
    /\ mapNextTx' = PoolIndex(mapTx')

-----------------------------------------------------------------------------
(***************************************************************************)
(* SetBestChain.                                                           *)
(***************************************************************************)

\* Mutant: the switch goes to the block after the fork first.
FirstTargetAtFork(b, best) ==
    IF b \in Branch[best] THEN b
    ELSE CHOOSE c \in Branch[b] \ Branch[best] : pprev[c] \in Branch[best]

\* The part of the branch of b that is postponed does not belong to the first
\* transaction: the loop that fills vpindexSecondary walks down from b as long
\* as the predecessor has more trust than best.
FirstTarget(b, best) ==
    LET better == {c \in Branch[b] : c = b \/ bnChainTrust[c] > bnChainTrust[best]}
    IN  CHOOSE c \in better : \A d \in better : c \in Branch[d]

\* TxnBegin for a transaction that starts at block "at" of database db and
\* makes block "to" the best one.
Begin(db, at, to) ==
    /\ txn' = db
    /\ tip' = at
    /\ target' = to
    /\ vResurrect' = {}
    /\ vDelete' = {}

SetBestChain(db, best, b) ==
    /\ pc' = "switch"
    /\ pindexNew' = b
    /\ secondary' = FALSE
    /\ Begin(db, best, FirstTarget(b, best))

\* Mutant: the longer chain wins.
HasMoreHeight(b, best) == nHeight[b] > nHeight[best]

\* The comparison at the end of AddToBlockIndex.
HasMoreTrust(b, best) == bnChainTrust[b] > bnChainTrust[best]

\* AcceptBlock up to AddToBlockIndex: the index record of the block is
\* committed on its own, before the switch to it begins.
AcceptBlock(b) ==
    /\ pc = "idle"
    /\ b \notin mapBlockIndex
    /\ b # Genesis /\ pprev[b] \in mapBlockIndex
    /\ mapBlockIndex' = mapBlockIndex \union {b}
    /\ disk' = [disk EXCEPT !.index = @ \union {b}, !.next[b] = Nil]
    /\ IF HasMoreTrust(b, pindexBest)
       THEN SetBestChain(disk', pindexBest, b)
       ELSE UNCHANGED <<pc, switchVars>>
    /\ UNCHANGED <<pnext, pindexBest, poolVars, faultVars, intact>>

\* ProcessSyncCheckpoint and AcceptPendingSyncCheckpoint make the block of a
\* checkpoint the best one, whatever its trust.
SwitchToCheckpoint(b) ==
    /\ pc = "idle"
    /\ b \in mapBlockIndex \intersect Requested
    /\ pnext[b] = Nil /\ b # pindexBest
    /\ SetBestChain(disk, pindexBest, b)
    /\ UNCHANGED <<mapBlockIndex, pnext, pindexBest, disk, poolVars, faultVars, intact>>

\* The next block Reorganize disconnects: the walk from pindexBest down to
\* the fork, a block of the branch of the target.
DisconnectBlock ==
    /\ pc = "switch"
    /\ tip \notin Branch[target]
    /\ CanDisconnect(txn, tip)
    /\ txn' = Disconnected(txn, tip)
    /\ tip' = pprev[tip]
    /\ vResurrect' = vResurrect \union TxsOf(tip)
    /\ UNCHANGED <<mapBlockIndex, pnext, pindexBest, disk, pc, pindexNew, target,
                   secondary, vDelete, poolVars, faultVars, intact>>

\* The next block of vConnect.
ConnectBlock ==
    LET b == NextOnPath(tip, target)
    IN  /\ pc = "switch"
        /\ tip \in Branch[target] /\ tip # target
        /\ CanConnect(txn, b)
        /\ txn' = Connected(txn, b)
        /\ tip' = b
        /\ vDelete' = vDelete \union TxsOf(b)
        /\ intact' = (intact /\ \A t \in TxsOf(b) : txn.pos[t] = Nil)
        /\ UNCHANGED <<mapBlockIndex, pnext, pindexBest, disk, pc, pindexNew, target,
                       secondary, vResurrect, poolVars, faultVars>>

\* How SetBestChain ends early.  The first transaction is aborted and nothing
\* changes; in the secondary loop the error only leaves the loop, and the
\* block that was asked for becomes pindexBest all the same.
GiveUp ==
    /\ pc' = "idle"
    /\ pindexBest' = IF secondary THEN pindexNew ELSE pindexBest
    /\ intact' = (intact /\ ~secondary)
    /\ UNCHANGED <<mapBlockIndex, pnext, disk, switchVars, poolVars, crashes>>

\* Mutant: a switch that fails is tried again.
SwitchRetries ==
    /\ pc = "switch"
    /\ IF tip \in Branch[target]
       THEN tip # target /\ ~CanConnect(txn, NextOnPath(tip, target))
       ELSE ~CanDisconnect(txn, tip)
    /\ Begin(disk, pindexBest, target)
    /\ UNCHANGED <<mapBlockIndex, pnext, pindexBest, disk, pc, pindexNew, secondary,
                   poolVars, faultVars, intact>>

\* DisconnectBlock or ConnectBlock returns false.
SwitchFails ==
    /\ pc = "switch"
    /\ IF tip \in Branch[target]
       THEN tip # target /\ ~CanConnect(txn, NextOnPath(tip, target))
       ELSE ~CanDisconnect(txn, tip)
    /\ GiveUp
    /\ UNCHANGED failures

\* ReadFromDisk, TxnBegin or TxnCommit fails.
DatabaseFails ==
    /\ pc = "switch"
    /\ failures < MaxFailures
    /\ failures' = failures + 1
    /\ GiveUp

\* Mutant: pnext of the disconnected blocks is kept.
NextAfterKeeping(from, to) ==
    [c \in Blocks |->
        IF \E b \in Branch[to] \ Branch[from] : pprev[b] = c
        THEN NextOnPath(c, to)
        ELSE pnext[c]]

\* pnext after a commit: the successors of the disconnected blocks are
\* forgotten, those of the connected blocks are set.
NextAfter(from, to) ==
    [c \in Blocks |->
        IF \E b \in Branch[to] \ Branch[from] : pprev[b] = c
        THEN NextOnPath(c, to)
        ELSE IF \E b \in Branch[from] \ Branch[to] : pprev[b] = c THEN Nil ELSE pnext[c]]

\* WriteHashBestChain, TxnCommit and then the memory structures.  The next
\* block of vpindexSecondary gets a transaction of its own; after the last one
\* pindexBest follows.
Commit ==
    /\ pc = "switch"
    /\ tip = target
    /\ disk' = [txn EXCEPT !.best = target]
    /\ pnext' = NextAfter(IF secondary THEN pprev[target] ELSE pindexBest, target)
    /\ UpdatePool
    /\ IF target = pindexNew
       THEN /\ pc' = "idle"
            /\ pindexBest' = pindexNew
            /\ UNCHANGED switchVars
       ELSE /\ Begin(disk', target, NextOnPath(target, pindexNew))
            /\ secondary' = TRUE
            /\ UNCHANGED <<pc, pindexBest, pindexNew>>
    /\ UNCHANGED <<mapBlockIndex, faultVars, intact>>

-----------------------------------------------------------------------------
(***************************************************************************)
(* Crash and restart.                                                      *)
(***************************************************************************)

\* The process dies; an open transaction never happened.
Crash ==
    /\ pc # "down"
    /\ crashes < MaxCrashes
    /\ crashes' = crashes + 1
    /\ pc' = "down"
    /\ mapTx' = {}
    /\ mapNextTx' = PoolIndex({})
    /\ UNCHANGED <<mapBlockIndex, pnext, pindexBest, disk, switchVars, failures, intact>>

\* CTxDB::LoadBlockIndex: memory is rebuilt from the records.
Load ==
    /\ disk.best \in disk.index
    /\ mapBlockIndex' = disk.index
    /\ pnext' = disk.next
    /\ pindexBest' = disk.best
    /\ UNCHANGED <<disk, poolVars, faultVars, intact>>

Start ==
    /\ pc = "down"
    /\ Load
    /\ pc' = "idle"
    /\ UNCHANGED switchVars

\* The verification of the last blocks finds that the successor of b on the
\* best chain fails CheckBlock: the best chain is moved back to b.
StartAndRollBack(b) ==
    /\ pc = "down"
    /\ Load
    /\ b \in Branch[disk.best] \ {disk.best}
    /\ SetBestChain(disk, disk.best, b)

-----------------------------------------------------------------------------
Init ==
    /\ mapBlockIndex = {Genesis}
    /\ pnext = [b \in Blocks |-> Nil]
    /\ pindexBest = Genesis
    /\ disk = EmptyDB
    /\ pc = "idle"
    /\ txn = EmptyDB
    /\ pindexNew = Genesis
    /\ target = Genesis
    /\ tip = Genesis
    /\ secondary = FALSE
    /\ vResurrect = {}
    /\ vDelete = {}
    /\ mapTx = {}
    /\ mapNextTx = PoolIndex({})
    /\ crashes = 0
    /\ failures = 0
    /\ intact = TRUE

\* The steps of a SetBestChain that is under way.
SwitchStep == DisconnectBlock \/ ConnectBlock \/ SwitchFails \/ Commit

Next ==
    \/ \E b \in Blocks : AcceptBlock(b)
    \/ \E b \in Blocks : SwitchToCheckpoint(b)
    \/ \E t \in Txs : AcceptToMemoryPool(t)
    \/ DisconnectBlock
    \/ ConnectBlock
    \/ SwitchFails
    \/ Commit
    \/ DatabaseFails
    \/ Crash
    \/ Start
    \/ \E b \in Blocks : StartAndRollBack(b)

Spec == Init /\ [][Next]_vars

\* A started SetBestChain runs to its end under cs_main, and the node is
\* started again after a crash.
FairSpec == Spec /\ WF_vars(SwitchStep) /\ WF_vars(Start)

-----------------------------------------------------------------------------
(***************************************************************************)
(* Properties.                                                             *)
(***************************************************************************)

\* Every variable has its type.
TypeOK ==
    /\ mapBlockIndex \subseteq Blocks
    /\ pnext \in [Blocks -> Blocks \union {Nil}]
    /\ pindexBest \in Blocks
    /\ disk \in TxDB
    /\ pc \in {"idle", "switch", "down"}
    /\ txn \in TxDB
    /\ {pindexNew, target, tip} \subseteq Blocks
    /\ secondary \in BOOLEAN
    /\ vResurrect \subseteq Txs /\ vDelete \subseteq Txs
    /\ mapTx \subseteq Txs
    /\ mapNextTx \in [OutPoints -> Txs \union {Nil}]
    /\ crashes \in 0 .. MaxCrashes /\ failures \in 0 .. MaxFailures
    /\ intact \in BOOLEAN

\* What ConnectBlock accepts and Reorganize commits is a valid chain: the
\* chain hashBestChain names has no double spend, no spend of a missing or
\* immature output and no unsound block, after any sequence of switches,
\* failures, crashes and restarts.
BestChainValid == intact => ValidChain(disk.best)

\* The "tx" records of view d are exactly those of the branch of b: a record
\* for each transaction, at its block, and a spent entry for each input.
ViewMatches(d, b) ==
    /\ \A c \in Branch[b] : \A t \in TxsOf(c) : d.pos[t] = c
    /\ \A t \in Txs : d.pos[t] # Nil => d.pos[t] \in Branch[b] /\ t \in TxsOf(d.pos[t])
    /\ \A c \in Branch[b] : \A t \in TxsOf(c) : \A o \in vin[t] : d.spent[o] = <<c, t>>
    /\ \A o \in OutPoints : d.spent[o] # Nil =>
          \E c \in Branch[b] : \E t \in TxsOf(c) : o \in vin[t] /\ d.spent[o] = <<c, t>>

\* Undoing and redoing blocks leaves the transaction index that a scan of the
\* best chain would build, on disk and at every block of an open transaction.
TxIndexIsBranch ==
    intact => /\ ViewMatches(disk, disk.best)
              /\ pc = "switch" => ViewMatches(txn, tip)

\* Following hashNext from the genesis block leads through the best chain and
\* nowhere else, and pnext agrees with it: LoadBlockIndex takes pnext from
\* hashNext and IsInMainChain relies on it.
NextIsBranch ==
    intact =>
        /\ \A b \in Blocks : disk.next[b] =
              IF b \in Branch[disk.best] \ {disk.best} THEN NextOnPath(b, disk.best) ELSE Nil
        /\ pc # "down" => pnext = disk.next

\* A transaction of the best chain is not in the memory pool as well.
PoolOutsideChain == intact => mapTx \intersect TxsOnBranch(disk.best) = {}

\* The transactions of the memory pool spend different outputs, and mapNextTx
\* names the spender of each.
PoolConsistent ==
    intact =>
        /\ \A t, u \in mapTx : t # u => vin[t] \intersect vin[u] = {}
        /\ mapNextTx = PoolIndex(mapTx)

\* Output o is there to be spent: unspent on the best chain, or made by a
\* transaction of the memory pool.
Offered(o) ==
    /\ InRange(o)
    /\ IF disk.pos[o[1]] = Nil THEN o[1] \in mapTx ELSE disk.spent[o] = Nil

\* An input of a transaction in the memory pool that was there to be spent stays
\* so, with two exceptions: a block was connected that spends it with another
\* transaction (the code does not look for such transactions in the memory pool),
\* or the transaction that made it was disconnected and may not be put back
\* (generated, not standard, or in conflict with the memory pool).  What enters
\* the memory pool finds its inputs, up to the same exceptions.  Maturity is left
\* out: a switch can make an input of the memory pool immature again.
PoolKeepsMinable ==
    [][ \A t \in mapTx' : \A o \in vin[t] :
           \/ Offered(o)' \/ ~intact'
           \/ t \in mapTx /\ ~Offered(o)
           \/ disk'.spent[o] \notin {Nil, disk.spent[o]}
           \/ /\ disk.pos[o[1]] # Nil /\ disk'.pos[o[1]] = Nil
              /\ \/ o[1] \in Generated \/ o[1] \notin Standard
                 \/ \E u \in mapTx : vin[o[1]] \intersect vin[u] # {} ]_vars

\* The memory pool fits the chain: it holds nothing the best chain has, no two of
\* its transactions spend the same output, and the inputs of each are there to be
\* spent until a block spends them another way or takes away the transaction that
\* made them for good (CTxMemPool::accept, Reorganize putting disconnected
\* transactions back).
PoolSound == []PoolOutsideChain /\ []PoolConsistent /\ PoolKeepsMinable

\* A block of the best chain can always be disconnected: the records that
\* DisconnectInputs needs are there.
DisconnectSucceeds ==
    (intact /\ pc = "switch" /\ tip \notin Branch[target]) => CanDisconnect(txn, tip)

\* Between calls the block in memory is the one a restart would load.
BestIsStored == pc = "idle" => pindexBest = disk.best

\* Without checkpoints and faults the best block is the one with the most
\* trust among the known blocks whose chain is valid.
MostTrustWins ==
    pc = "idle" => \A b \in mapBlockIndex :
        ValidChain(b) => bnChainTrust[b] <= bnChainTrust[pindexBest]

\* A commit replaces the best chain only by one with more trust, unless a
\* checkpoint or the verification at start asked for the block: a chain that
\* is equally good never displaces the one seen first.
TrustGrows ==
    [][disk'.best # disk.best =>
         \/ bnChainTrust[disk'.best] > bnChainTrust[disk.best]
         \/ disk'.best \in Requested \union Branch[disk.best]
         \/ ~intact]_vars

\* A standard transaction that leaves the best chain is not lost: it is back
\* in the memory pool, or the memory pool held a transaction in conflict.
NothingLost ==
    [][\A t \in (TxsOnBranch(disk.best) \ TxsOnBranch(disk'.best)) \intersect Standard :
         \/ t \in Generated \/ t \in mapTx' \/ ~intact
         \/ \E u \in mapTx : vin[t] \intersect vin[u] # {}]_vars

\* The best chain changes for more trust, and its transactions are not dropped.
TipChangesWell == TrustGrows /\ NothingLost

\* The database implements the Ledger: seen from a restart, the best chain is
\* replaced in one step and the outputs without a spent entry are those that a
\* scan of the chain finds unspent.
Abstract == INSTANCE Ledger WITH
    best <- disk.best,
    unspent <- {o \in OutPoints :
                   disk.pos[o[1]] # Nil /\ InRange(o) /\ disk.spent[o] = Nil},
    lost <- ~intact

ImplementsLedger == Abstract!Spec

\* SetBestChain always comes to an end.
SwitchEnds == (pc = "switch") ~> (pc # "switch")

=============================================================================
