# A verification of the JackpotCoin node

JackpotCoin is a hybrid proof-of-work / proof-of-stake currency in the line
Bitcoin 0.7 - PPCoin - Novacoin. This directory holds TLA+ models of its core
(`src/src/*.cpp`), the TLC configurations that check them on small instances,
and proofs checked by TLAPS of the results that matter most. File names below
are those of `src/src/`.

1. The system - 2. The modules - 3. The runs - 4. What is proved -
5. Findings - 6. Observations - 7. What is not modelled, and the plan

## 1. The system

One process; a handful of threads (socket handler, message handler, connection
openers, miner, stake minter, RPC, wallet flusher, relocker, address dump, GUI)
share the state below under a few recursive locks. `cs_main` protects the chain,
`mempool.cs` the memory pool, `cs_db` the database environment, each wallet and
each node has a lock of its own.

| component | state | operations | talks to |
|---|---|---|---|
| chain state (`main.cpp`, `main.h`, `db.cpp`) | `mapBlockIndex`, `pindexBest`, `pnext`; on disk `blockindex`, `tx` and `hashBestChain` records | `AddToBlockIndex`, `SetBestChain`, `Reorganize`, `ConnectBlock`, `DisconnectBlock`, `LoadBlockIndex` | memory pool, wallets (`SyncWithWallets`), database |
| block intake (`main.cpp`) | `mapOrphanBlocks`, `mapOrphanBlocksByPrev`, `setStakeSeen`, `setStakeSeenOrphan` | `ProcessBlock`, `CheckBlock`, `AcceptBlock` | chain state, checkpoints, peers (`getblocks`, `AskFor`) |
| synchronized checkpoints (`checkpoints.cpp`) | `hashSyncCheckpoint`, `hashPendingCheckpoint` and the record of the first | `ProcessSyncCheckpoint`, `AcceptPendingSyncCheckpoint`, `CheckSync`, `WriteSyncCheckpoint`, `ResetSyncCheckpoint` | chain state, peers |
| memory pool (`main.cpp`) | `mapTx`, `mapNextTx` | `accept`, `addUnchecked`, `remove` | chain state, wallets |
| orphan transactions (`main.cpp`) | `mapOrphanTransactions`, `mapOrphanTransactionsByPrev` | `AddOrphanTx`, `EraseOrphanTx`, `LimitOrphanTxSize`, the `tx` message | memory pool |
| wallet transactions (`wallet.cpp`, `wallet.h`, `walletdb.cpp`) | `mapWallet` with spent flags and cached sums, `wallet.dat` with its locator | `AddToWallet`, `WalletUpdateSpent`, `CommitTransaction`, `ReacceptWalletTransactions`, `FixSpentCoins`, `GetBalance` and relatives | chain state, memory pool |
| keys (`wallet.cpp`, `keystore.cpp`, `crypter.cpp`) | key store, `setKeyPool`, `mapMasterKeys`, their records | `ReserveKeyFromKeyPool`, `KeepKey`, `ReturnKey`, `EncryptWallet`, `Unlock`, `Lock`, `walletpassphrase` | database, miner |
| coin selection (`wallet.cpp`) | none | `SelectCoins`, `CreateTransaction`, `CreateCoinStake` | wallet, kernel |
| address manager (`addrman.cpp`) | `mapInfo`, `mapAddr`, `vRandom`, the new and tried tables, `peers.dat` | `Add`, `Good`, `Attempt`, `Select`, `Connected` | connections |
| connections (`net.cpp`, the handlers of `main.cpp`) | `vNodes`, `vNodesDisconnected`, reference counts, `semOutbound`, `mapAskFor`, `setInventoryKnown`, `hashContinue` | `ThreadSocketHandler`, `ThreadOpenConnections`, `ThreadMessageHandler`, `ProcessMessage`, `SendMessages` | everything |
| kernel (`kernel.cpp`) | stake modifiers in the index | `ComputeNextStakeModifier`, `GetKernelStakeModifier`, `CheckProofOfStake` | chain state |
| difficulty, rewards, jackpot (`main.cpp`) | cached heights; `nSuperBlock` of headers, `nMint`, `nMoneySupply` of the index | `GetNextTargetRequired`, `GetPowHeight`, `GetProofOfWorkReward`, `GetProofOfStakeReward`, `GetProofOfWorkBlockBonusRewardFactor`, `GetCurrentJackpotSize` | chain state, miner |
| scripts (`script.cpp`) | a stack | `EvalScript`, `VerifyScript`, `SignatureHash`, `Solver`, `SignSignature`, `CombineSignatures` | `ConnectInputs`, wallet, `signrawtransaction` |
| alerts (`alert.cpp`) | `mapAlerts`, each peer's `setKnown` | `ProcessAlert`, `RelayTo`, `GetWarnings` | connections, RPC safe mode |
| database environment (`db.cpp`) | `mapFileUseCount`, `mapDb`, `nWalletDBUpdated` | `CDB`, `Close`, `Flush`, `Rewrite`, `ThreadFlushWalletDB`, `BackupWallet` | wallet, chain state |
| block files (`main.cpp`, `main.h`) | `blk*.dat` | `WriteToDisk`, `LoadExternalBlockFile` | intake |
| block hashing and locators (`main.h`) | none | `BuildMerkleTree`, `GetMerkleBranch`, `CheckMerkleBranch`, `CBlockLocator` | intake, wallet, connections |
| miner and minter (`main.cpp`) | a template, a reserved key | `CreateNewBlock`, `CheckWork`, `CreateCoinStake` | memory pool, wallet, chain state |
| RPC, start-up, GUI | little of their own | call the above | everything |

What makes it hard:

* **Durability in parts.** A block is on its way to the best chain through
  several commits: its index record, one transaction for the reorganization, one
  for each postponed block, one for the checkpoint. The wallet writes to a file
  of its own, and an encryption rewrites that file. The process can die, or the
  database refuse, between any two.
* **Two representations.** `pnext` and `hashNext`, `pindexBest` and
  `hashBestChain`, `hashSyncCheckpoint` and its record, memory pool and chain,
  spent flags and transaction index, cached and computed balances are changed at
  different moments.
* **Undo.** A reorganization has to restore the transaction index exactly,
  block by block, including spends inside a block, and the wallet with it.
* **Untimely messages.** Blocks and transactions come before their parents,
  checkpoints before their blocks, stakes twice; connections break.
* **Threads without a common lock.** Nodes are opened, served, and deleted by
  different threads that share counts and flags; the threads of several
  `walletpassphrase` calls share one time.
* **Loops that may not end** - the search for a peer, a payment's fee that grows with
  the size it pays for, an encryption that waits for the users of a file - and
  **arithmetic at its limits**: rewards, coin age, fees, difficulty, jackpots.

`PROJECT.json` lists these hazards at their lines with the properties about them.

## 2. The modules

### The chain

| module | models | code |
|---|---|---|
| `BlockTree` | the tree of blocks as constants: `pprev`, `Branch`, `nHeight`, `bnChainTrust` | `CBlockIndex` |
| `ChainDefs` | transactions, outpoints, and what a valid chain is, without an index | `CTransaction`, `COutPoint`, `CDiskTxPos` |
| `ChainState` | the best chain, the database and the memory pool; a switch is executed one block at a time in an open transaction | `main.cpp` 581-774, 1391-2107, 2177-2252; `db.cpp` 520-907 |
| `Ledger` | abstract: the best chain is replaced in one step, the outputs that can be spent are those a scan finds unspent | - |
| `BlockIntake` | orphan blocks, duplicate stakes, pending and current checkpoint; a call of `SetBestChain` is one step | `main.cpp` 2344-2611, `checkpoints.cpp`, `kernel.cpp` 407 |
| `WalletChain` | the transactions of a wallet, composed with every action of `ChainState` | `wallet.cpp`, `walletdb.cpp`, `init.cpp` 842 |
| `BlockSync` | the exchange of blocks between nodes | the handlers of `main.cpp`, `net.cpp`, `net.h` |

A block is identified with its hash. The hash commits to the predecessor and
through it to the whole branch, so `pprev`, `Branch`, `nHeight` and
`bnChainTrust` are constant functions, and the contents of blocks are constants
too; `Branch[b]` is what any loop along `pprev` visits.

**ChainState.** `disk` is the database as committed, `txn` the view of the open
transaction, `tip` the block that view stands at. `AcceptBlock` commits the index
record and begins a switch if the block has more trust; `DisconnectBlock` and
`ConnectBlock` move `tip` one block; `Commit` is `WriteHashBestChain`,
`TxnCommit` and the updates of `pnext` and the memory pool that follow; if
`SetBestChain` had postponed blocks (`vpindexSecondary`), it begins the next
transaction. `SwitchFails` is a false return of `ConnectBlock` or
`DisconnectBlock`, `DatabaseFails` a failing read or commit. `Crash` keeps only
`disk`. `StartAndRollBack` is a start whose verification finds a bad block.
`cs_main` is held during a switch, so loose transactions and other blocks come
only between switches. Checks that depend only on the block and its branch
(`CheckBlock`, signatures, sigops, amounts, fees, rewards) are the constant set
`Sound`; those of `CTxMemPool::accept` that ask for no other transaction are
`Standard`. `intact` is a history variable that no action reads: it is FALSE
after a switch stopped in its secondary loop (finding 1) and after the
disconnection of a coinbase whose hash occurred twice (section 6); the
invariants about the chain hold as long as it is TRUE.

**BlockIntake.** `ProcessBlock` and `ProcessOrphanBlock` are the two outcomes of a
call of `ProcessBlock`; the first ends with `AddToIndex`. Then follow
`SwitchToBest` (or `AcceptBlockFails`), `AcceptPendingSyncCheckpoint`,
`WriteSyncCheckpoint`, `AcceptOrphan` for each orphan that waits, and
`FinishBlock`: one step per durable write. `ProcessSyncCheckpoint` and
`KeepAsPending` are the two outcomes of a checkpoint message. The header rules of
`AcceptBlock` are `Fitting`, `CheckBlock` and the kernel `Checked`, `ConnectBlock`
is `Connectable`, and `TooEasy` the bound on the work of blocks that come late.
A start of a new release makes three durable writes one after the other:
`StartNewRelease` commits the new master key, `ResetSyncCheckpoint` switches to the
last hardened checkpoint, `WriteReset` writes the checkpoint; each may be the last
one before a crash (`Crash`, `CrashInSwitch`) or a failing database
(`WriteResetFails`, `SwitchStops`), and since the key is on record no later start
does it again. The option `-nosynccheckpoints` is off and the network is the main one. When a
switch stops in its secondary loop (finding 1) the module stops too
(`pc = "stopped"`): `ChainState` says what the chain is like then.

**WalletChain.** Every action of `ChainState` is conjoined with what it tells the
wallet: `ConnectBlock` and `DisconnectBlock` call `SyncWithWallets` while the
transaction of the switch is open, and `mapWallet` is written through to
`wallet.dat`, which no abort takes back. The wallet's own operations are
actions too: a payment (`CommitTransaction`), a backup and its restoration, the
repair of spent flags, a start with the rescan its locator asks for, and
`ReacceptWalletTransactions`. What a switch that is given up or cut short leaves in
the wallet is kept block by block in three history variables, each cleared where
the code mends it: `misplaced` blocks share a transaction with a block the wallet was
told of in vain (until a switch or a rescan tells it of them again), `unflagged`
ones had stakes that were made available and are still spent (until the next start,
rescan or `repairwallet`), `stranded` ones have stakes that no one will disconnect
for the wallet (until `repairwallet`). A restored copy brings its own values back.

**BlockSync.** `net` holds the messages of each direction of a connection in
order, `peer[n][q]` what node `n` keeps about `q`: `setInventoryKnown`,
`vInventoryToSend`, `mapAskFor`, `hashContinue`. `ReceiveAny` is one message
handled, `SendMessages` one round with any set of due requests, `Disconnect` and
`RestartNode` lose what is under way, `FindBlock` is a miner. An arrived block takes
its waiting orphans with it, one after the other in any order that has a parent
before its children (`AcceptEach`): `mapOrphanBlocksByPrev` does not promise one.
All blocks are valid.

### The threads and the files of one node

| module | models | code |
|---|---|---|
| `AddrMan` | the tables of new and tried addresses, their indexes and `peers.dat` | `addrman.cpp`, `addrman.h`, `db.cpp` 918-1010 |
| `AddrBook` | abstract: an address is unknown, new or tried | - |
| `Nodes` | the life of a `CNode` between the threads that open, accept, serve and delete it | `net.cpp`, `net.h`, `sync.h` |
| `WalletKeys` | key store, key pool and encryption, with every durable write a step | `wallet.cpp`, `walletdb.cpp`, `keystore.cpp`, `db.cpp` 371-456 |
| `DbEnv` | use counts and handles of database files, and who closes them | `db.cpp`, `walletdb.cpp`, `init.cpp` |
| `Relock` | the sleeping threads of `walletpassphrase` | `rpcwallet.cpp` 1353-1494 |
| `OrphanTxs` | transactions that arrive before their parents | `main.cpp` 225-289, 581-719, 3643-3709 |
| `Signing` | a transaction completed by several parties | `rpcrawtransaction.cpp` |
| `Alerts` | alerts, their cancellation, relay and warnings | `alert.cpp`, `main.cpp` `GetWarnings` |
| `Balances` | the balances of a wallet and the sums its transactions cache | `wallet.cpp`, `wallet.h`, `rpcwallet.cpp` |
| `Services` | `Signing`, `Relock`, `OrphanTxs`, `DbEnv`, `Alerts` and `Balances` side by side: they share no state, a behaviour is one of one of them | - |

**AddrMan.** `am` is the object `addrman` with its fields; the private helpers
(`Create`, `SwapRandom`, `SelectTried`, `ShrinkNew`, `MakeTried`) are operators
from tables to tables, or to the set of tables a random choice may lead to, and
an operation is one step since it holds `cs`. `Serialize` and `Unserialize` are
the two halves of `IMPLEMENT_SERIALIZE`; identifiers are given anew by the
second. `nTime`, `nLastTry` and `nAttempts` are left out: `IsTerrible` and the
oldest of four become any entry of the bucket, an announcement may or may not
bring news, and `Attempt_` and `Connected_`, which change only these fields, are
no actions. `Select_` changes nothing; what its endless loop needs is part of
`Check_`.

**Nodes.** One process per thread with its place in the code (`opener`, `socket`,
`handler`); a reference count changed by two threads at once is *torn*: it gets
any of the values the race may leave, and the properties promise nothing about
that node (constraint `Untorn`). `Expire` is the passing of `nReleaseTime`.

**WalletKeys.** A key is the number under which it was generated; `file` is
`wallet.dat`, `rewritten` the copy `CDB::Rewrite` makes, `residue` says that pages of
`wallet.dat` no record uses still hold plain keys, and `leaked` that a `CWalletDB` was
never closed. The steps of an encryption are its commit (`EncryptWallet`), the new pool
(`NewKeyPool`), the copy (`RewriteCopy`), the removal of the old file and the renaming;
the process may die after each. Miners hold a reserved key between two steps; all
else holds `cs_wallet` from begin to end. Three history variables say what the code
leaves behind: `overtaken` are indexes issued again while a miner held them,
`spared` the keys of the old pool that `NewKeyPool` did not reach, `cutShort` a death
between the commit and the removal of the old file.

**DbEnv.** What runs under `cs_db` is one step; `nWalletDBUpdated++` and the
checkpoint of `CDB::Close` are outside it and are steps of their own. Until
the flushing thread is started only the loading thread uses databases.

**Relock.** Each call is a thread that is born, ready, asleep and ended; the clock
is a variable, and a period whose milliseconds overflow is one of the inputs
(`Periods` holds the period as the code computes it).

**OrphanTxs.** A `tx` message is a step for the transaction it brings and one for
each orphan it releases; blocks and the wallet come between two messages and
do not look at the orphans. Disconnections, which only bring transactions back
to the memory pool, are left out.

**Balances.** Every transaction is final; the cache of the change is left out, and
a full rescan leaves `ReacceptWalletTransactions` nothing to find. A sum is taken
over the addresses the wallet has when it is asked for; during the scan of
`importprivkey` that is with the new key already. A cached sum is never too large;
it may be too small after a script was added, and a cached debit of a loose
transaction after an import (section 6), so `CachesFresh` promises the exact debit
only while no key was imported, and for what is in the chain. `BalanceSpec`
is the module alone, with the RPC finding of section 5.

### The rules that one thread computes

| module | models | code |
|---|---|---|
| `Script` | the stack machine, the signature hash, the count of signature operations | `script.cpp` |
| `Standard` | standard outputs, signing, the merging of signatures | `script.cpp`, `main.cpp` `AreInputsStandard` |
| `Coins` | the choice of coins for a payment, the loop of `CreateTransaction` | `wallet.cpp` |
| `CoinStake` | `CreateCoinStake` | `wallet.cpp` |
| `Template` | the collection of transactions by `CreateNewBlock` | `main.cpp` 4405-4612 |
| `Difficulty` | targets, proof-of-work heights | `main.cpp` |
| `Rewards` | rewards and jackpots | `main.cpp` |
| `Money` | the amounts of a block: outputs, fees, coin age, `nMint`, `nMoneySupply`, with 64-bit sums | `main.cpp` |
| `Kernel` | the stake modifier | `kernel.cpp` |
| `Storage` | the tree of transaction hashes, block locators, block files | `main.h`, `main.cpp` |
| `Rules` | jobs: a behaviour writes a script, makes a payment, fills a block, grows a chain, hashes, locates or imports blocks, one turn of the loop a step | - |

`Rules` asks of the operators of these modules what a second definition of the
same thing, written another way, says: the stack machine against a count of open
conditionals, the optimal choice of coins against all subsets, the template
against a check of the finished block, the retarget against the pace of its kind,
the jackpot against the record of the chain, the root of the tree against the
list of transactions, a locator against the fork of the two chains, an import
against what the file holds. Amounts, sizes and limits are small constants with
the proportions of the code's; the 64-bit width of `Money` is the constant
`Word`.

Some choices to know of: `CoinStake` over-approximates the search for a kernel
(any coin may be one) and gives a coin one age for its block and its transaction;
its fee is the base fee whatever its size, because `GetMinFee()` is called without one;
`Money` has a constant subsidy and no jackpot (they are in `Rewards`), and needs
overflow only for sums over a block, since a transaction's own are checked after
each addition against a limit far below the word; `Script` leaves out the byte
encodings, `Storage` has one file, and bytes that are not a block are either
refused or end the import.

### Configurations and proofs

`MC*` modules hold the trees, transactions, wallets and scripts TLC runs on;
`Nodes` and `WalletKeys` need none. `Induction` has what the proofs need of the
natural numbers and of folds, `TreeLemmas` facts about `BlockTree`;
`ChainProofs` (of `ChainState` and `WalletChain`), `BlockIntakeProofs`,
`WalletKeysProofs`, `NetProofs` (of `Nodes` and `BlockSync`), `AddrManProofs` and
`ServicesProofs` (of `Relock`, `OrphanTxs`, `DbEnv`, `Alerts` and `Balances`) hold
the theorems. Definitions whose names say *mutant* in their comment are versions of the code with a plausible
error; no specification uses them, each is there to see that a property notices.

## 3. The runs

| run | module | instance | properties |
|---|---|---|---|
| `chain_faults` | `MCChainState` | 9 blocks on two forks, 6 transactions, a checkpoint on the worse branch, 2 crashes, 1 failure | `TxIndexIsBranch`, `NextIsBranch`, `PoolSound`, `DisconnectSucceeds`, `TipChangesWell`, `ImplementsLedger` |
| `chain_spends` | `MCSpends` | 13 blocks, most breaking one rule of `ConnectBlock` | `BestChainValid`, `MostTrustWins`, `SwitchEnds` |
| `chain_tip` | `MCChainState` | as `chain_faults`, 1 crash | finding 1 (`BestIsStored` is violated) |
| `intake_faults` | `MCBlockIntake` | 9 blocks, three with one stake, one refused, one against a hardened checkpoint; 1 crash, 1 failure | `CheckpointSound`, `CheckpointOnlyAdvances`, `IntakeSound`, `IntakeProgresses` |
| `wallet_chain` | `MCWalletChain` | 8 blocks with a fork, 6 transactions, 4 outputs of the wallet, a backup, 1 crash | `WalletFollowsChain`, `SpentFollowsChain` |
| `wallet_keys` | `WalletKeys` | 5 keys, a pool of one, 1 miner, 2 passphrases, 2 master keys, 1 crash | `KeyPoolSound`, `EncryptionSound`, `EncryptEnds` |
| `block_sync` | `MCBlockSync` | 2 nodes, 6 blocks, announcements of at most 2, 1 broken connection or restart | `NoBlockLost`, `Converges` |
| `nodes_threads` | `Nodes` | 2 nodes, 2 opening threads, 2 outbound slots, 1 inbound | `NodesSound`, `NothingHangs` |
| `addr_tables` | `MCAddrMan` | 3 addresses, one with two ports, 2 sources, 2 new buckets and 1 tried bucket of one place, files of one entry | `Check_`, `NewBucketsBounded`, `RoundTrip`, `ImplementsAddrBook` |
| `services` | `MCServices` | 3 parties and 3 signing calls; 2 relocking calls; 6 loose transactions and 2 orphans; 2 database users, 4 openings, 4 updates; 5 alerts, 2 peers, 3 hours; a wallet of 6 transactions and 3 blocks | `SigningSound`, `RelockSound`, `OrphansSound`, `DatabaseSound`, `AlertsSound`, `BalanceSound`, `ServicesEnd` |
| `balances` | `MCBalances` | the wallet of `services`, 4 blocks | finding 2 (`BalancesAgree` is violated) |
| `rules` | `MCRules` | scripts of 6 instructions, wallets of 6 coins, chains of up to 8 blocks, pools of 7 transactions, blocks of 5 hashed transactions, locators up to height 80, files of 3 records | `ScriptRules`, `SpendingRules`, `TemplateRules`, `RewardRules`, `StorageRules`, `HeaderRules`, `JobsEnd` |

### What the properties say

Properties that belong together are conjunctions of named parts.

* `TxIndexIsBranch`, `NextIsBranch`: the transaction index and `pnext`/`hashNext`
  are what a scan of the best chain would build, also inside a switch.
  `PoolSound` (`PoolOutsideChain`, `PoolConsistent`, `PoolKeepsMinable`): nothing in
  the memory pool is confirmed, no two of its transactions spend the same output, and
  what they spend stays there to be spent until a connected block spends it
  another way, or the transaction that made it leaves the chain for good. Such a
  transaction stays in the pool and cannot be mined: the code does not look for it
  (section 6). Maturity is left out: a switch may make an input immature again.
  `DisconnectSucceeds`: an undo finds
  every record. `TipChangesWell` (`TrustGrows`, `NothingLost`): only a checkpoint
  lowers trust, and a transaction that leaves the chain is in the new chain, in
  the pool, or impossible.
* `CheckpointSound`: the asserts of `checkpoints.cpp`, and the stored checkpoint leaves
  the stored best chain in one place only, a reset that is cut off between its
  switch and its write. `IntakeSound` (`TypeOK`,
  `StakesOfIndex`, `GoodOrphansWait`). `IntakeProgresses` (`PendingIsAdopted`,
  `GoodBlocksAccepted`).
* `WalletFollowsChain` (`WalletKnowsChain`, `ConfirmedIsSeen`): the wallet knows its
  transactions of the best chain, none is taken for confirmed that is not in it,
  and one that is in it is taken for confirmed unless its block is `misplaced`.
  `SpentFollowsChain` (`SpentIsFlagged`, `StakeRefunded`): a coin the best chain
  spends is flagged unless its spender is a stake of an `unflagged` block, and a
  coin only a stake of another branch spent is free unless that stake's block is
  `stranded`. All of this after aborted and interrupted switches, rescans and
  restored copies; nothing but the never rescanned copy without a locator is left
  out (`Blind`).
* `KeyPoolSound` (`HandedOutOnce`, `PoolIsBacked`, `KeysOnDisk`): the wallet has
  the key of every record its pool leads to, and an index without a record is
  `overtaken`. `EncryptionSound`: `PhraseOpens`, of every file the wallet is in, at every
  moment and without exception; `NothingInTheClear`, no record of any file holds a
  plain key, and pages do only if the encryption was `cutShort`; `OldPoolIsFlushed`, only
  the `spared` keys of the old pool come back. `EncryptEnds`: an encryption that has
  begun ends, whatever its writes do, if no database was `leaked`.
* `NoBlockLost` (`SyncTypeOK`, `NothingForgotten`): what a node need not announce
  the peer will get. `Converges`: connected nodes come to equally good chains,
  unless an announcement stopped at a block the peer has.
* `NodesSound` (`NodesTypeOK`, `NotUsedAfterDelete`, `GrantsConserved`) and
  `NothingHangs` (`NodesAreFreed`, `ThreadsEnd`).
* `Check_` is the program's own consistency test and what `Select_` needs to end;
  `ImplementsAddrBook`: only new addresses are forgotten, one at a time.
* `SigningSound` (`SigningTypeOK`, `Consent`, `MergeLosesNothing`,
  `SignedIsStandard`); `RelockSound` (`UnlockedIsTimed`, `MintOnlyIsKept`);
  `OrphansSound` (`IndexAgrees`, `OrphansBounded`, `OrphansWait`); `DatabaseSound`
  (`CountsAgree`, `HandlesLive`, `FlushNotMissed`, `ShutdownFlushes`);
  `AlertsSound` (`AlertsConverge`, `AlertsReach`, `SafeModeFollows`);
  `BalanceSound` (`CachesFresh`, `TrustIsEarned`); `ServicesEnd`
  (`WalletIsRelocked`, `MessageEnds`, `WalletIsFlushed`).
* `ScriptRules`; `SpendingRules` (`SelectionIsSound`, `PaymentBalances`,
  `StakeKeepsLimits`, `StakeIsTaken`); `TemplateRules`: a block made from the pool
  would be accepted, and nothing is left out without a reason; `RewardRules`
  (`JackpotGrows`, `JackpotComes`, `RewardIsAgreed`, `OneReward`, `RewardsFall`,
  `SupplyIsUnspent`, `MoneyHasSource`, `AgePaysOnce`); `StorageRules`
  (`RootBindsBlock`, `BranchProvesPlace`, `LocatorFindsFork`,
  `ImportMissesNothing`); `HeaderRules` (`KindsAreIndependent`,
  `RetargetFollowsPace`, `PowHeightCounts`, `SelectionIsFair`,
  `KernelModifierIsSettled`); `JobsEnd`: the loops of the payment, the coin stake
  and the template end.

### Bounds

*Chain.* A reorganization needs a branch to leave and one to enter, each with
blocks that spend each other's outputs: two blocks after the fork on each side
are enough for every order of `DisconnectInputs` and `ConnectInputs`, and a third
level makes `vpindexSecondary` non-empty. Blocks and transactions are
distinct, so symmetry is not used. Two crashes let a restart be interrupted
again; one failing commit at every possible place covers the error paths, which
keep no memory of earlier ones.

*Wallet.* The fork of `wallet_chain` has a coin spent by a stake on one side and
by a foreign transaction on the other, one spent on both sides, and a block that
fails in the middle of a switch; one crash falls between any two writes of the
two files. The view `Live` leaves out the variables of a switch while none is
open. In `wallet_keys` five keys let a pool key be reserved, the pool be filled
again, and an encryption make a pool of its own.

*Addresses.* Buckets have one place, so that every announcement meets a full one:
with three addresses an evicted entry finds its home bucket free or taken, and the
second source puts one address into both buckets, as many as one address may
have. A file that is written has at most one entry (`MaxSaved`), but `RoundTrip`
reads back the file every state would write.

*Threads.* Two nodes let one be deleted while another thread holds the other;
two opening threads compete for the slots; two relocking calls are the least
that postpone each other. Four openings over two files and two users reach every
overlap of closing, counting, flushing and shutdown. In `services` the
behaviours are disjoint, so bounds are chosen one by one. The wallet of `Balances`
has a coin that its owner spends loosely before the wallet imports the key, which
the wallet may spend as well; three blocks mine the coin and what spends it.

*Blocks between nodes.* The longer chain takes two announcements (`Limit` = 2), the
rival makes one of them end with a block the peer has.

*Rules.* `MAX_MONEY`, the word, the coin day and the rewards are small with the
proportions of the code's: a sum over one transaction cannot overflow, one over a block
can. Locators of height 80 reach steps of 64. The cap of six instructions is
enough for a conditional in a conditional with something after it.

The theorems of section 4 have no bounds.

### Fairness

* `ChainState!FairSpec`: the steps of a started switch and the start after a
  crash are weakly fair: a switch runs in one thread under `cs_main`.
* `BlockIntake!FairSpec` adds that every block is received again and again: a node
  asks for the missing ancestor of every orphan (`PushGetBlocks`, `AskFor`,
  `AskForPendingSyncCheckpoint`) and every peer it connects to answers
  `getblocks` from the fork on. Nothing is assumed of failing databases:
  `IntakeProgresses` promises nothing after a failure.
* `BlockSync!SyncFairness`: a lost connection is opened again
  (`ThreadOpenConnections`), every message is handled and everything to send is
  sent (`ThreadMessageHandler`, which serves all nodes round and round). The last
  two are written by their effect, a shorter queue and nothing unsent.
* `Nodes`: each of the threads goes on, and the fifteen minutes of `nReleaseTime`
  pass. Nothing obliges a peer to connect, close or misbehave, nor `StopNode` to
  come.
* `WalletKeys`: an encryption goes on (one thread under `cs_wallet`).
* `Relock`: a call returns, a thread is scheduled, time passes. `OrphanTxs`: a
  message that is handled is handled to its end. `DbEnv`: who has a file open
  closes it some time, the flushing thread looks every half second, a shutdown
  goes on. None for opening files or for updates.
* `Rules`: a loop that can take a turn takes it. The other jobs need no fairness:
  `ImportMissesNothing` says that each turn of an import gets further or ends it.

Deadlock is not checked (`CHECK_DEADLOCK FALSE`) where a run may really end: finitely
many blocks, calls, keys or openings; a node that stopped; a job that is
done. `addr_tables`, which never ends, is checked for it.

## 4. What is proved

For every tree of blocks, all transactions, every number of threads, calls and
files, and any number of crashes and failures:

* `ChainProofs`, the database: type correctness; `BestChainIsValid`,
  `TxIndexIsThatOfBranch`, `DisconnectNeverFails`. The inductive invariant
  `ChainInv` says that the committed view and the open view match a scan of
  `disk.best` and of `tip` (`ViewMatches`), that both branches are valid, and that
  the index is closed under `pprev`. The heart is that `Connected` and
  `Disconnected` are inverse to each other on matching views, which needs that a
  valid branch never repeats a transaction while `intact` holds.
  Then every step of `ChainState` is a step of `Ledger` or
  leaves it unchanged, hence `Spec => ImplementsLedger`; for that a switch has to
  remember why it began (`TargetJustified`).
* `ChainProofs`, the rest of a switch: `NextFollowsBranch`, `PoolStaysSound`,
  `TipAlwaysChangesWell`. These
  need to know where a switch stands: its target is indexed, `tip` never falls
  below the fork and lies on one of the two branches (`IndexInv`, `SwitchInv`).
  Then `txn.next` is `hashNext` of the branch of `tip` (`NextInv`), `vResurrect` holds
  the transactions of the blocks of the old branch above `tip`, and `vDelete` those
  of the blocks of `tip`'s branch that are new (`PoolInv`). At the commit these are
  exactly what leaves and what joins the chain; that the transactions put back do
  not conflict among themselves follows from the old chain having been valid.
* `ChainProofs`, trust: `BestHasMostTrust`, if no block is asked for by hand
  (`Requested = {}`), as long as nothing failed and nobody died (the run has the
  same hypotheses; finding 1 shows why). The
  invariant (`TrustInv`) is about the moments in between: a switch goes to the one
  block that may have more trust than the best, a switch in its secondary loop
  still has more trust ahead, and a refused block and all its descendants are out of
  the competition. It rests on `ConnectPossible`: the check of a block against the
  open view says what the definition of a valid chain says, so a block that is
  connectable is never refused.
* `BlockIntakeProofs`: the checkpoint is accepted, the same in memory and on disk, and
  the best chain leaves it only where a reset is cut off between its switch and its
  write (`CheckpointStaysSound`); it only moves to descendants
  (`CheckpointAdvances`). `CheckpointSound` alone is not inductive: a block between
  its index record and its switch must descend from the checkpoint
  (`CurrentInv`), since the check was made before, and the chain of `disk.best`
  must be stored (`DiskInv`). `IntakeStaysSound`: the sets of stakes are those of
  the index and of the orphans, and an orphan that could be accepted waits for an
  ancestor that has not come, or is on the work queue of the call under way
  (`QueueInv`, `WaitInv`); the queue is never forgotten by a switch or a checkpoint
  write that comes in between (`HeldInv`).
* `NetProofs`, connections: for any number of nodes, threads and slots. A reference count that
  two threads change at once may be lost, so the theorems are as strong as
  the code: `NobodyUsesDeleted` is about every node whose own count was not torn,
  whatever was torn elsewhere; `NodesStaySound` about all of them and the slots
  while nothing was torn. The code never says what
  `nRefCount` counts; the invariant does (`RefsCounted`): it is not below the number
  of threads at work on the node and one more while the socket handler has a
  reference to end. A node an opener has found and not yet counted is kept by its
  release time (`FoundIsKept`), and the free slots and the grants that are held sum
  up (`SemCounted`).
* `NetProofs`, blocks: `BlocksAreNotLost`, for any tree of blocks, any nodes and
  connections, and any number of disconnections, restarts and lost messages.
  The invariant (`SyncInv`) says that an index has the predecessors of its blocks,
  its best block the most trust, and an orphan no predecessor in it (`Whole`); that a
  connection has two ends (`Linked`); that a node has what it announces or sends and
  what it is asked for (`Held`); and that what it believes its peer to know the peer
  has, is told, asks for or is sent (`Remembered`). Every handler changes one connection at a time (`Deal`), so what holds of one is not
  disturbed by the other; the loops over a message's entries are folds, and a
  lemma about their walk gives what every turn of the loop keeps.
* `ChainProofs`, the wallet: `WalletStaysWithChain` and `SpentStaysWithChain`, for every
  tree, every set of keys of the wallet and any number of crashes, aborts and
  restored copies. The invariant says at every moment which block the wallet stands
  at (`Here`): `tip` while it is told of a switch that may yet be given up,
  `disk.best` otherwise, or the locator of a restored copy (`Stands`). With it go
  what a copy of `wallet.dat` and its locator are worth (`BackupInv`,
  `LocatorSound`), that before the wallet is registered the chain only goes down
  (`RollBackInv`), and that every flag has a reason, a known transaction that is not a
  coinstake of another branch (`Backed`). What the wallet was told in vain is confined
  to the blocks of the three history variables. Then: a block that is told leads
  from its predecessor to it (`SyncBlockFollows`) and back (`DisableFollows`); a
  rescan leads from any block of the main chain to the best one (`RescanFollows`);
  what the process had written when it died is never less than before
  (`TornConnectGrows`); and `ReacceptWalletTransactions`, which reads the index
  beside an open switch, takes over flags of the chain of `tip` only, because it
  waits for the records the open transaction has changed (`ReadsView`, `IndexTold`).
  The wallet rests on what is proved of the chain: every step of it is a step of
  `ChainState` or changes the memory pool alone (`WalletIsNext`).
* `WalletKeysProofs`: `KeysAreNotLost` and `EncryptionHolds`, for any pool size,
  passphrases, miners and keys. The invariant `KInv` says what `wallet.dat` holds
  between any two writes (`FileSound`), how far the memory agrees with it
  (`Mirrored`), which files there are at each step of an encryption (`Phases`), and
  that every index of the pool is in the pool, with one miner or `overtaken`
  (`PoolIsShared`). The file has one master key and every encrypted key needs it
  (`OneMaster`), which makes `PhraseOpens` hold at every moment; plain pages and
  old pool keys are followed from the commit on to what removes them
  (`CleanedUp`, `PoolIsNew`) or to the death that does not. The invariant holds also
  in the middle of an encryption, between the removal of `wallet.dat` and its
  renaming, and after a crash.
* `AddrManProofs`: `NewBucketsStayBounded`, for all sizes and hashes. The limit
  has to hold of the file as well (`BoundedEverywhere`), because the reader does
  not look at it; it is assumed that the file has the bucket count of the program
  (section 6 says what happens otherwise).
  `TablesStayConsistent`: the tables pass `Check_`. The invariant `AddrInv` has two
  parts. Tables at rest (`AtRest`) agree index by index: `vRandom` with the places the
  entries name (`Listed`), `mapAddr` with their addresses (`Named`), the tried
  buckets with the entries that are in tried (`InPlace`), and the counts with the new
  buckets (`CountedIn`). Within an operation they do not: `AtWork` says of which entry
  a bucket is owed and which one has left its last bucket, and every helper is shown
  to lead from one such state to the next. A file (`Readable`) lists every address
  once, has no more than a bucket of entries for any tried bucket, and names only new
  entries it has; without that the reader would drop tried entries or leave an
  entry in no bucket. What the reader has when it has read some of the tried entries
  (`Loaded`) and what a walk through a tried bucket has come to (`Inspected`) are
  inductions over folds, by `UpTo` and `FoldWalk` of `Induction`.
  `PeersReturn`: an entry is written at its rank among the new or the tried ones and
  is read back with that rank as its identifier, so the buckets in the file are the
  buckets after it is read. `TablesAreABook`: `StatusIn(am)` and
  `StatusInFile(peersDat)` implement `AddrBook`, step by step, from the same
  invariant.
* `ServicesProofs`: `UnlockedWalletIsTimed`, for any number of calls, any periods
  and any scheduling. Three facts have to be added: a time that is set has a
  sleeping thread that will see it (`TimeHasSleeper`), the call that is executed
  is the session (`CallIsSession`), and no wake time is the zero that means *none*
  (`ReadyKnowsTime`).
  `OrphansStaySound`; `OrphansSound` is inductive as it stands. The
  work is in the two maps: `EraseOrphanTx` and `AddOrphanTx` keep them in
  agreement, and an orphan whose parent was accepted is either on the work queue
  or was told by no message.
  `DatabaseStaysSound`. The count of a file is the number of its
  users, by way of cardinalities. What makes it inductive: a thread that counts an
  update has read a value not older than the last flush (`CountersAreFresh`),
  before the flushing thread runs there is only one (`LoaderIsAlone`), a handle
  has an entry (`HandlesHaveEntries`), and the environment is open until the last
  flush (`EnvStaysOpen`).
  `AlertsStaySound`, for any alerts whose signer keeps to the rules of cancelling.
  An alert that came and is in effect is kept or cancelled by one that is
  (`CancelledOrKept`), none that is kept is cancelled by any that came
  (`KeptIsValid`); hence the alerts kept do not depend on the order. What a peer is
  noted to know it was told, or it is not for its version, or it was noted before
  its version came (`KnownWasTold`). That the highest alert is shown is an
  induction over the walk through `mapAlerts`.
  `BalancesStaySound`, for any transactions, amounts, keys and scripts. First the
  sums: a total does not depend on the order of adding (`TotalRemove`) and grows
  with the set (`TotalMonotone`). Then what each piece of the code does to the
  caches: a getter or a mark leaves every cache right (`Touched`), an addition
  leaves that of the new transaction empty (`Added`, `Enters`), so what remains to be
  shown is that another transaction's debit does not grow when its parent enters the
  wallet. That is `BInv`: whatever pays to or is spent by a first key and is loose or
  in the chain is known (`KnowsFirst`, `Fed`); whatever is in the chain and pays to
  any key is (`KnowsChain`), because `ImportKey` scans parents before children
  (`Ordered`, `ScannedTo`). A transaction and the copies it keeps name only blocks
  they are in (`Named`), also when these were disconnected; hence the walk of
  `IsConfirmed` turns back only where all that has to be mined was visited.
* `Induction`: a set of numbers that has 0 and goes on from each number to the next
  has all of them (`UpTo`). That is induction without an operator as a parameter,
  from the least member of what is missing. With it a fold over the positions of a
  sequence exists and does what its definition says (`FoldExists`), and what it
  returns is the end of a walk whose every step is one application (`FoldWalk`), so
  that properties of what the community modules define by folds can be proved. The
  same for the folds over finite sets, whose order `CHOOSE` decides
  (`SetFoldExists`, `SetFoldIn`, from `SubsetInduction`), and for the repetition of
  a step (`IterateExists`).

The proofs rest on the assumptions the modules name: `TreeAssumption`,
`BranchAssumption`, `TrustAssumption` (blocks form a tree, trust is positive),
`TxAssumption` (no block repeats a transaction, the genesis block has none in the
index), `CheckpointAssumption` (the hardened checkpoints lie on one branch),
`NilAssumption`, `FileAssumption` and `WalletNilAssumption` (no value is the one that
means *none*), and
`AddrManAssumption`, `RelockAssumption`, `OrphanAssumption`, `DbAssumption`,
`NodesAssumption`, `KeysAssumption`, `WalletAssumption`, `AlertAssumption`,
`SyncAssumption`, `SyncNilAssumption`, `BalanceAssumption` (the
rules of cancelling for alerts that can be accepted, the types of the constants, finitely many users, nodes, threads and transactions, the
loader is a user, a transaction the wallet makes spends something). They are
stated as facts, not by recursion, and TLC evaluates them in every run.

Only model-checked: all liveness properties, `Converges` of `BlockSync` among them;
`Signing`, which rests on the stack machine of `Script`; and everything `Rules` asks,
since its modules have recursive definitions, about which the prover can say
nothing.

## 5. Findings

1. `BestIsStored` (`main.cpp:2045`, run `chain_tip`): an error in the loop over
   `vpindexSecondary` leaves `pindexBest` and `hashBestChain` at a block that was
   never connected, while the comment says errors are not fatal there. TLC needs a
   crash between an index record and its switch.
2. `BalancesAgree` (`wallet.cpp:773`, run `balances`): `rpcwallet.cpp:560` says
   "getbalance and getbalance '*' should always return the same number." After a
   coin stake of the wallet has matured they differ: `GetAmounts` reports its
   whole credit as generated and not the debit of the coins it spent.

## 6. Observations

Things met while reading and modelling that no run is about, or that the models
exclude by an assumption. Most are harmless alone; they are here for whoever
changes that code.

*Chain and blocks*

* `main.cpp:1828` says that fees are not collected but destroyed; 1843 lets the
  coinbase of a proof-of-work block pay subsidy and fees. `Money` follows the code.
* Disconnecting the second occurrence of a coinbase erases the only record of
  the first (`main.cpp:1419`); the variable `intact` excludes what follows.
* An orphan whose parent enters the index but is refused by `ConnectBlock` is held
  until the process ends (2595). Two orphans with one stake share an entry of
  `setStakeSeenOrphan`; when one leaves, a third is let in (2598).
* A reset of the checkpoint commits the new master key first (`main.cpp:2880`), then
  the switch to the hardened checkpoint (`checkpoints.cpp:268`), then the checkpoint
  (287). If the process dies or the database fails between the last two, the old
  checkpoint may be off the new best chain; the key being stored, no later start
  repeats the reset. From then on `CheckSync` refuses what does not descend from the
  old checkpoint, and `CheckHardened` what does once it reaches the hardened height, so
  that the node takes no new blocks until another release changes the key: a checkpoint
  message, too, must descend from the old checkpoint.
* After a failing commit of an index record (2232) the record of a child is still
  written, and the next start stops at an assertion.
* The bound on late blocks counts days since the checkpoint (2536) with a doubling a
  day, while `GetNextTargetRequired` may double with every late block.
* `GetKernelStakeModifier` walks `pnext` (`kernel.cpp:266`): the stake of a block on
  a side branch is checked against the modifiers of the best chain.
* `nSuperBlock` of a received header is not compared with that of its predecessor
  alone; the two reward functions disagree with the miner at the height
  `POS_BUG_FIX` only.
* `LoadExternalBlockFile` scans again from the size field of a refused block, and
  an exception on a torn block ends the import, so everything behind it is lost;
  `AppendBlockFile` leaks the file if `fseek` fails.
* `FindBlockByHeight` (921) starts from a cached block; the first initialisation
  writes the genesis block in three commits (2865), and a crash between them leaves
  a database the next start refuses.

*Mining*

* `getworkex` keeps a stale `pindexPrev` when `CreateNewBlock` throws, and a custom
  coinbase spoils the other works on the same block. `IncrementExtraNonce` shares
  one static `hashPrevBlock` among threads; `CreateNewBlock` does not use the key
  that the miner threads take to have work of their own, so two may hash the same
  block. It reads `pindexBest` twice.
* `CreateNewBlock` pays a key it reserves itself, which goes back to the pool;
  `CheckWork` takes the miner's own key out (`main.cpp:4751`), also when the block is
  not accepted then.
* A coin stake below two `CENT` is split all the same. It pays nothing for its
  size: `CreateCoinStake` and `ConnectInputs` call `GetMinFee()` with `nBytes` zero
  (`wallet.cpp:1937`, `main.cpp:1636`, 1645), so the minimum is one base fee and
  the loop around the signing never turns twice. A block asks the same base fee of a
  payment; only the memory pool (671) and `CreateTransaction` count its bytes.

*Wallet and RPC*

* Wallets are told of blocks before the switch is committed (`main.cpp:1727`, 1858)
  and of nothing when it is given up or the process dies. A transaction that is in
  blocks on both sides then names the block of the losing side and counts as
  unconfirmed until it is told of its own again; a stake that was disconnected in
  vain is on offer until the next start; one that was connected in vain stays
  flagged as spent until `repairwallet`.
* `ReacceptWalletTransactions` and the rescan never free a stake: one whose block a
  start rolls back before the wallet is registered, or that only a restored copy
  knows, stays flagged. A copy of `wallet.dat` without a locator is not rescanned at
  all (`init.cpp:842`).
* `NewKeyPool` erases the records of the indexes in `setKeyPool` (`wallet.cpp:2192`):
  the record of a key a miner has reserved stays, and the old key, of which a plain copy may
  exist, is in the pool of the encrypted wallet again once it is returned or the
  program is started. If the process dies between the commit of the encryption and
  `NewKeyPool`, the whole old pool is; if it dies before `CDB::Rewrite` has removed the
  old file, its unused pages keep the plain keys for ever.
* An index that is issued again while a miner holds it (the pool ran empty, or
  was made anew) has one record for two owners: the first to keep its key erases
  it, and if the other returns the index, `ReserveKeyFromKeyPool` throws when it
  comes to it, until the next start.
* If `TxnBegin` fails, `EncryptWallet` returns with the `CWalletDB` open
  (`wallet.cpp:331`); a later encryption waits in `CDB::Rewrite` for ever.
* `addmultisigaddress` and `importprivkey` of a script do not mark wallet
  transactions dirty: cached sums notice it at the next change. After
  `importprivkey` a coin that only a loose transaction spends looks available.
* The debit a loose transaction caches after an import stays too small when the
  block with its parent brings the parent into the wallet: `AddToWallet` marks what
  it adds as dirty (`BindWallet`, `wallet.cpp:467`), not what spends it.
* `CommitTransaction` reports success whatever the memory pool says.
  `ReacceptWalletTransactions` takes `cs_wallet` before `cs_main`
  (`wallet.cpp:980`).
* `walletpassphrase`: `timeout * 1000` may overflow (`rpcwallet.cpp:1358`); a timeout
  that is no number leaves the wallet unlocked without a timer (1429), since it is
  unlocked before; an error in the third parameter leaves the old minting flag;
  the thread of an earlier call that is delayed past `walletlock` may relock a
  later session.
* `signrawtransaction` takes the first of two single signatures without a look at
  whether it still fits (`script.cpp:1799`), and reads a variant with fewer inputs
  out of range (`rpcrawtransaction.cpp:479`).

*Memory pool and orphan transactions*

* A loose transaction whose input a connected block spends with another one stays in
  the memory pool, cannot be mined, and keeps its other inputs from being spent
  (`Reorganize` and `SetBestChainInner` remove the block's own transactions only).
* Empty entries of `mapOrphanTransactionsByPrev` are made for every accepted
  transaction (`main.cpp:3668`) and never removed. An orphan whose parent comes with
  a block or from the wallet waits until it is evicted or sent again.
* The last element of `vOrphan` may be dropped while `mapDependers` points to it
  (`main.cpp:4447`), which needs an input missing from pool and chain.

*Database*

* `WriteAccountingEntry`, the minimum version and account records do not count as
  updates. Updates made before `ThreadFlushWalletDB` first reads the counter are not
  flushed until the next one.
* A failed `CDB::Rewrite` leaves `wallet.dat.rewrite`, which a later one opens and
  does not truncate; a rename that fails after the removal leaves no `wallet.dat`.
* `BackupWallet` and `Rewrite` read `fShutdown` before they take `cs_db`.
* `DB_TXN_WRITE_NOSYNC` (`db.cpp:96`): a commit survives the death of the process, not the
  loss of power.

*Network*

* A node that is removed before its connecting thread has set `fNetworkNode` is not
  released at its removal (`net.cpp:690`) and is never deleted: its last reference has no
  owner (`late` in `Nodes`). `vNodes` is walked without
  `cs_vNodes` in `checkpoints.cpp:192`; `vnThreadsRunning` has no lock.
* `AskFor` and `nAskedForBlocks`: a peer that leaves is not taken off the count of
  those asked for blocks (3272).
* `SelectTried` remembers a position after it exchanged entries
  (`addrman.cpp:143`): the entry evicted may be the most recent of those inspected.
  A `peers.dat` with another number of buckets is spread over the new ones without
  a limit (`addrman.h:337`).

*Alerts*

* An alert that is refused as cancelled has cancelled others before
  (`alert.cpp:206`, 226); cancellation is not transitive, so the result may depend
  on the order, and a canceller that expires first lets the cancelled alert return.
  The alerts of the run `services` form no such chain.
* `RelayTo` notes an alert as known to a peer that has not told its version,
  although nothing was sent. The final alert, which must never expire, does so in
  2038. The warning set by `-misc` (priority 1000) is overridden by that of an old
  checkpoint (priority 100).

## 7. What is not modelled, and the plan

* **Graphical interface** (`qt/`, about a third of the source): presentation that
  reads the core under the same locks.
* **Hash primitives** (`groestl.c`, `keccak.c`, `sph_*`, scrypt): vendored; a hash is
  the identity of what is hashed, and a hash compared with a target is a choice.
* **Serialization, key and utility wrappers** (`serialize.h`, `bignum.h`, `key.cpp`,
  `util.cpp`): byte formats; amounts are integers, with their width where sums
  overflow.
* **RPC commands** other than those of section 2: parsing and formatting around calls of
  modelled components; accounts and the address book carry no rule of the chain.
* **IRC, UPnP, DNS seeds and sockets**: input and output without a state of the core;
  `addr`, `ping` and ban records would add actions to `Nodes`.
* **Locks**: `DEBUG_LOCKORDER` is a debugging aid; the order of locks between
  wallet, chain and nodes is what it looks for at run time.
* **Loss of power**: a committed transaction is never lost in the models.

These, chiefly the interface, the hash functions and the byte formats, are why
most lines of the repository have no counterpart here; what keeps state and decides
something has one.

Would come next: the order of locks as a model of its own with the lock sets of
the RPC thread, the message handler and the miner; `addr` messages composed with
`AddrMan`; checkpoint relay over `vNodes`; a refinement from `BlockIntake` to an
abstract store of blocks and from the switch of `ChainState` to the single step
`BlockIntake` uses.
