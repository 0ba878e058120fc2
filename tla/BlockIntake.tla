----------------------------- MODULE BlockIntake -----------------------------
(***************************************************************************)
(* How blocks and synchronized checkpoints enter the node: ProcessBlock    *)
(* and AcceptBlock of main.cpp with the orphan blocks and the sets of      *)
(* stakes already seen, and the pending and current checkpoints of         *)
(* checkpoints.cpp.  Peers send any block and any signed checkpoint, in    *)
(* any order and any number of times.                                      *)
(*                                                                         *)
(* One call of SetBestChain is one step here; ChainState has its parts.    *)
(* A call of ProcessBlock takes several steps, one for each durable write, *)
(* and a crash may come between any two of them.                           *)
(***************************************************************************)
EXTENDS BlockTree

CONSTANTS
    Stake,        \* [Blocks -> stakes]: GetProofOfStake, Nil for proof of work
    Kernel,       \* [Blocks -> Blocks]: the block of the staked output
    Checked,      \* the blocks that pass CheckBlock and the kernel check
    Fitting,      \* the blocks that pass the tests of AcceptBlock that depend
                  \* on the block and its branch: target, timestamp, bonus, height
    Connectable,  \* the blocks that ConnectBlock accepts on their branch
    TooEasy,      \* the pairs <<b, c>> such that the target of b is too easy for
                  \* a block that comes so long after checkpoint c
    Hardened,     \* mapCheckpoints
    Announced,    \* the blocks a signed checkpoint message names
    MaxCrashes,   \* bound on the number of crashes
    MaxFailures   \* bound on the number of database failures

ASSUME NilAssumption == Nil \notin Blocks

ASSUME BlockAssumption ==
    /\ DOMAIN Stake = Blocks /\ Stake[Genesis] = Nil
    /\ Kernel \in [Blocks -> Blocks]
    /\ Checked \subseteq Blocks /\ Fitting \subseteq Blocks /\ Connectable \subseteq Blocks
    /\ Genesis \in Connectable
    /\ TooEasy \subseteq Blocks \X Blocks

\* The hardened checkpoints lie on one branch and begin with the genesis block;
\* nothing is assumed of the signed ones.
ASSUME CheckpointAssumption ==
    /\ Genesis \in Hardened /\ Hardened \subseteq Blocks
    /\ \A b, c \in Hardened : b \in Branch[c] \/ c \in Branch[b]
    /\ Announced \subseteq Blocks

ASSUME BoundsAssumption == MaxCrashes \in Nat /\ MaxFailures \in Nat

VARIABLES
    mapBlockIndex,         \* the blocks of the index in memory
    pindexBest,            \* the best block in memory
    setStakeSeen,          \* stakes of the blocks of the index
    mapOrphanBlocks,       \* blocks whose predecessor was not known;
                           \* mapOrphanBlocksByPrev holds the same blocks
    setStakeSeenOrphan,    \* stakes of the orphan blocks
    vWorkQueue,            \* the blocks accepted by this call of ProcessBlock
    hashSyncCheckpoint,    \* the current synchronized checkpoint
    hashPendingCheckpoint, \* a checkpoint whose block has not arrived, or Nil
    disk,                  \* the database: index, best and sync records
    pc,                    \* what is executing, see TypeOK
    current,               \* the block AcceptBlock or the checkpoint code is at
    crashes,               \* number of crashes
    failures               \* number of database failures

orphanVars == <<mapOrphanBlocks, setStakeSeenOrphan>>
checkpointVars == <<hashSyncCheckpoint, hashPendingCheckpoint>>
chainVars == <<mapBlockIndex, pindexBest, setStakeSeen, disk>>
faultVars == <<crashes, failures>>
vars == <<chainVars, orphanVars, vWorkQueue, checkpointVars, pc, current, faultVars>>

Stakes == {Stake[b] : b \in Blocks} \ {Nil}
IsProofOfStake(b) == Stake[b] # Nil

\* Mutant: proof-of-work blocks are counted too.
StakeOfAny(b) == {Stake[b]}

\* The stake that block b puts on record.
StakeOf(b) == IF IsProofOfStake(b) THEN {Stake[b]} ELSE {}

-----------------------------------------------------------------------------
(***************************************************************************)
(* Questions the code asks.                                                *)
(***************************************************************************)

\* CBlockIndex::IsInMainChain.
IsInMainChain(b) == b \in Branch[pindexBest]

\* WantedByOrphan: walking down from orphan b, the first block that is not an
\* orphan.
WantedByOrphan(b) ==
    CHOOSE c \in Branch[b] :
        /\ c \notin mapOrphanBlocks
        /\ \A d \in Branch[b] : c \in Branch[d] /\ d # c => d \in mapOrphanBlocks

WantedByPendingSyncCheckpoint(b) ==
    /\ hashPendingCheckpoint # Nil
    /\ \/ b = hashPendingCheckpoint
       \/ /\ hashPendingCheckpoint \in mapOrphanBlocks
          /\ b = WantedByOrphan(hashPendingCheckpoint)

\* An orphan block waits for b.
HasOrphanChild(b) == \E o \in mapOrphanBlocks : pprev[o] = b

\* Mutant: no exception for a block that an orphan waits for.
NeverDuplicate(b, seen) ==
    IsProofOfStake(b) /\ Stake[b] \in seen /\ ~WantedByPendingSyncCheckpoint(b)

\* The test "limited duplicity on stake" against one of the two sets.
DuplicateStake(b, seen) ==
    /\ IsProofOfStake(b) /\ Stake[b] \in seen
    /\ ~HasOrphanChild(b)
    /\ ~WantedByPendingSyncCheckpoint(b)

\* CheckBlock and CheckProofOfStake; the transaction that is staked is looked
\* up in the database and must be in the best chain.
PassesChecks(b) ==
    /\ b \in Checked
    /\ IsProofOfStake(b) => Kernel[b] \in Branch[disk.best]

\* The bound that keeps memory from being filled with bogus blocks: a block
\* that neither extends the best chain nor is wanted needs some work.
EnoughWork(b) ==
    \/ pprev[b] = pindexBest
    \/ WantedByPendingSyncCheckpoint(b)
    \/ <<b, hashSyncCheckpoint>> \notin TooEasy

\* Checkpoints::CheckHardened: no other block at the height of a checkpoint.
CheckHardened(b) == \A h \in Hardened : nHeight[h] = nHeight[b] => h = b

\* Mutant: a block below the checkpoint is let through.
CheckSyncAboveOnly(b) ==
    nHeight[b] > nHeight[hashSyncCheckpoint] => hashSyncCheckpoint \in Branch[b]

\* Checkpoints::CheckSync for a block that is not in the index yet: only the
\* checkpoint and its descendants pass.
CheckSync(b) ==
    /\ nHeight[b] > nHeight[hashSyncCheckpoint] => hashSyncCheckpoint \in Branch[b]
    /\ nHeight[b] = nHeight[hashSyncCheckpoint] => b = hashSyncCheckpoint
    /\ nHeight[b] >= nHeight[hashSyncCheckpoint]

\* What AcceptBlock asks of block b.
Acceptable(b) ==
    /\ pprev[b] \in mapBlockIndex /\ b \notin mapBlockIndex
    /\ b \in Fitting /\ CheckHardened(b) /\ CheckSync(b)

\* Mutant: a checkpoint on another branch of the tree is not refused.
ValidateHigherOnly(h) == nHeight[h] > nHeight[hashSyncCheckpoint]

\* Checkpoints::ValidateSyncCheckpoint: only a descendant of the current
\* checkpoint may replace it.
ValidateSyncCheckpoint(h) ==
    nHeight[h] > nHeight[hashSyncCheckpoint] /\ hashSyncCheckpoint \in Branch[h]

-----------------------------------------------------------------------------
(***************************************************************************)
(* SetBestChain as one step.                                               *)
(***************************************************************************)

\* The blocks that a switch to b can end at, when some block above is refused
\* or a read fails: the first transaction has been committed by then, so they
\* have more trust than the best block.
Partial(b) ==
    {d \in Branch[b] \ {b} : bnChainTrust[d] > bnChainTrust[pindexBest]
                               /\ Branch[d] \subseteq Connectable}

\* The database after a switch to b: ConnectBlock writes the index record of
\* every block it connects.
Switched(b) ==
    [disk EXCEPT !.best = b, !.index = @ \union (Branch[b] \ Branch[pindexBest])]

SwitchSucceeds(b) ==
    /\ Branch[b] \subseteq Connectable
    /\ pindexBest' = b
    /\ disk' = Switched(b)
    /\ UNCHANGED <<mapBlockIndex, setStakeSeen, failures>>

\* Some block of the branch is invalid, or the database fails: the index in
\* memory and on disk keeps the block.
SwitchFails(b) ==
    /\ \/ ~(Branch[b] \subseteq Connectable) /\ Partial(b) = {} /\ UNCHANGED failures
       \/ failures < MaxFailures /\ failures' = failures + 1
    /\ UNCHANGED chainVars

\* An error in the loop over vpindexSecondary: SetBestChain returns true and
\* pindexBest is a block that is not connected.  What follows from it is outside
\* this module, which stops here; see ChainState.
SwitchStopsShort(b) ==
    /\ \E d \in Partial(b) :
          /\ disk' = Switched(d)
          /\ \/ /\ ~(Branch[b] \subseteq Connectable)
                /\ \A e \in Partial(b) : e \in Branch[d]
                /\ UNCHANGED failures
             \/ failures < MaxFailures /\ failures' = failures + 1
    /\ pindexBest' = b
    /\ pc' = "stopped"
    /\ UNCHANGED <<mapBlockIndex, setStakeSeen>>

-----------------------------------------------------------------------------
(***************************************************************************)
(* Receiving a block.                                                      *)
(***************************************************************************)

\* The part of AddToBlockIndex that puts b into the index and writes the
\* record of b.
AddToIndex(b) ==
    /\ mapBlockIndex' = mapBlockIndex \union {b}
    /\ setStakeSeen' = setStakeSeen \union StakeOf(b)
    /\ disk' = [disk EXCEPT !.index = @ \union {b}]
    /\ pc' = "add"
    /\ current' = b
    /\ UNCHANGED <<pindexBest, failures>>

\* The transaction that writes the record fails and AddToBlockIndex returns
\* false, but b stays in the index in memory.
AddToIndexFails(b) ==
    /\ failures < MaxFailures
    /\ failures' = failures + 1
    /\ mapBlockIndex' = mapBlockIndex \union {b}
    /\ setStakeSeen' = setStakeSeen \union StakeOf(b)
    /\ pc' = "orphans"
    /\ UNCHANGED <<pindexBest, disk, current>>

\* The tests at the head of ProcessBlock.
PassesIntake(b) ==
    /\ b \notin mapBlockIndex /\ b \notin mapOrphanBlocks
    /\ ~DuplicateStake(b, setStakeSeen)
    /\ PassesChecks(b)
    /\ EnoughWork(b)

\* ProcessBlock for a block whose predecessor is not known.
ProcessOrphanBlock(b) ==
    /\ pc = "idle"
    /\ PassesIntake(b)
    /\ pprev[b] \notin mapBlockIndex
    /\ ~DuplicateStake(b, setStakeSeenOrphan)
    /\ mapOrphanBlocks' = mapOrphanBlocks \union {b}
    /\ setStakeSeenOrphan' = setStakeSeenOrphan \union StakeOf(b)
    /\ UNCHANGED <<chainVars, vWorkQueue, checkpointVars, pc, current, faultVars>>

\* ProcessBlock for a block whose predecessor is known.
ProcessBlock(b) ==
    /\ pc = "idle"
    /\ PassesIntake(b)
    /\ Acceptable(b)
    /\ AddToIndex(b) \/ AddToIndexFails(b)
    /\ UNCHANGED <<orphanVars, vWorkQueue, checkpointVars, crashes>>

\* The comparison at the end of AddToBlockIndex and the switch that follows.
SwitchToBest ==
    /\ pc = "add"
    /\ IF bnChainTrust[current] > bnChainTrust[pindexBest]
       THEN SwitchSucceeds(current)
       ELSE UNCHANGED <<chainVars, failures>>
    /\ pc' = "pending"
    /\ vWorkQueue' = vWorkQueue \union {current}
    /\ UNCHANGED <<orphanVars, checkpointVars, current, crashes>>

\* The switch fails and so does AcceptBlock: ProcessBlock returns, or goes on
\* with the next orphan.
AcceptBlockFails ==
    /\ pc = "add"
    /\ bnChainTrust[current] > bnChainTrust[pindexBest]
    /\ SwitchFails(current)
    /\ pc' = "orphans"
    /\ UNCHANGED <<orphanVars, vWorkQueue, checkpointVars, current, crashes>>

\* Mutant: only the orphans of the last block are looked for.
ReadyForLast == {o \in mapOrphanBlocks : pprev[o] = current /\ current \in vWorkQueue}

\* The orphans that wait for a block this call has accepted.
Ready == {o \in mapOrphanBlocks : pprev[o] \in vWorkQueue}

\* Mutant: the stake of an orphan is not forgotten.
ForgetNothing(o) == mapOrphanBlocks' = mapOrphanBlocks \ {o} /\ UNCHANGED setStakeSeenOrphan

\* An orphan leaves the holding area, accepted or not.
ForgetOrphan(o) ==
    /\ mapOrphanBlocks' = mapOrphanBlocks \ {o}
    /\ setStakeSeenOrphan' = setStakeSeenOrphan \ {Stake[o]}

\* The loop over vWorkQueue: AcceptBlock of the next orphan.
AcceptOrphan(o) ==
    /\ pc = "orphans"
    /\ o \in Ready
    /\ ForgetOrphan(o)
    /\ IF Acceptable(o)
       THEN AddToIndex(o) \/ AddToIndexFails(o)
       ELSE UNCHANGED <<chainVars, pc, current, failures>>
    /\ UNCHANGED <<vWorkQueue, checkpointVars, crashes>>

FinishBlock ==
    /\ pc = "orphans"
    /\ Ready = {}
    /\ vWorkQueue' = {}
    /\ pc' = "idle"
    /\ UNCHANGED <<chainVars, orphanVars, checkpointVars, current, faultVars>>

-----------------------------------------------------------------------------
(***************************************************************************)
(* Synchronized checkpoints.                                               *)
(***************************************************************************)

\* Mutant: the pending checkpoint is not looked at when its block arrives.
AcceptPendingNever ==
    /\ pc = "pending"
    /\ pc' = "orphans"
    /\ UNCHANGED <<chainVars, orphanVars, vWorkQueue, checkpointVars, current, faultVars>>

\* AcceptPendingSyncCheckpoint, at the end of AcceptBlock, up to the write of
\* the checkpoint.
AcceptPendingSyncCheckpoint ==
    LET h == hashPendingCheckpoint
    IN  /\ pc = "pending"
        /\ \/ /\ h = Nil \/ h \notin mapBlockIndex
              /\ pc' = "orphans"
              /\ UNCHANGED <<chainVars, hashPendingCheckpoint, current, failures>>
           \/ /\ h \in mapBlockIndex /\ ~ValidateSyncCheckpoint(h)
              /\ hashPendingCheckpoint' = Nil
              /\ pc' = "orphans"
              /\ UNCHANGED <<chainVars, current, failures>>
           \/ /\ h \in mapBlockIndex /\ ValidateSyncCheckpoint(h)
              /\ IF IsInMainChain(h)
                 THEN UNCHANGED <<chainVars, failures>>
                 ELSE SwitchSucceeds(h)
              /\ pc' = "writePending" /\ current' = h
              /\ UNCHANGED hashPendingCheckpoint
           \/ /\ h \in mapBlockIndex /\ ValidateSyncCheckpoint(h)
              /\ ~IsInMainChain(h)
              /\ SwitchFails(h)
              /\ pc' = "orphans"
              /\ UNCHANGED <<hashPendingCheckpoint, current>>
        /\ UNCHANGED <<orphanVars, vWorkQueue, hashSyncCheckpoint, crashes>>

\* CSyncCheckpoint::ProcessSyncCheckpoint of a message that names an unknown
\* block: it becomes the pending checkpoint in place of any other.
KeepAsPending(h) ==
    /\ pc = "idle"
    /\ h \in Announced
    /\ h \notin mapBlockIndex
    /\ hashPendingCheckpoint' = h
    /\ UNCHANGED <<chainVars, orphanVars, vWorkQueue, hashSyncCheckpoint, pc, current, faultVars>>

\* CSyncCheckpoint::ProcessSyncCheckpoint of a message that names a block of
\* the index, up to the write.  A failing switch changes nothing.
ProcessSyncCheckpoint(h) ==
    /\ pc = "idle"
    /\ h \in Announced
    /\ h \in mapBlockIndex
    /\ ValidateSyncCheckpoint(h)
    /\ IF IsInMainChain(h)
       THEN UNCHANGED <<chainVars, failures>>
       ELSE SwitchSucceeds(h)
    /\ pc' = "writeMessage" /\ current' = h
    /\ UNCHANGED <<orphanVars, vWorkQueue, checkpointVars, crashes>>

\* The node is about to switch to b in one of the calls above, or in a reset.
Switching(b) ==
    /\ \/ pc = "add" /\ b = current /\ bnChainTrust[b] > bnChainTrust[pindexBest]
       \/ pc = "pending" /\ b = hashPendingCheckpoint
       \/ pc = "idle" /\ b \in Announced
       \/ pc = "reset" /\ b \in Hardened /\ \A k \in Hardened : k \in Branch[b]
    /\ pc # "add" => b \in mapBlockIndex /\ ~IsInMainChain(b)
    /\ pc \in {"pending", "idle"} => ValidateSyncCheckpoint(b)

\* Any of the switches stops short.
SwitchStops(b) ==
    /\ Switching(b)
    /\ SwitchStopsShort(b)
    /\ UNCHANGED <<orphanVars, vWorkQueue, checkpointVars, current, crashes>>

\* Mutant: a failing write leaves the new checkpoint in memory.
CheckpointInMemory == hashSyncCheckpoint' = current

\* A failing WriteSyncCheckpoint returns before the assignment.
CheckpointUnchanged == hashSyncCheckpoint' = hashSyncCheckpoint

\* The caller of WriteSyncCheckpoint goes on.
AfterWrite == pc' = IF pc = "writePending" THEN "orphans" ELSE "idle"

\* WriteSyncCheckpoint; the pending checkpoint is forgotten in both callers.
WriteSyncCheckpoint ==
    /\ pc \in {"writePending", "writeMessage"}
    /\ disk' = [disk EXCEPT !.sync = current]
    /\ hashSyncCheckpoint' = current
    /\ hashPendingCheckpoint' = Nil
    /\ AfterWrite
    /\ UNCHANGED <<mapBlockIndex, pindexBest, setStakeSeen, orphanVars, vWorkQueue,
                   current, faultVars>>

WriteSyncCheckpointFails ==
    /\ pc \in {"writePending", "writeMessage"}
    /\ failures < MaxFailures
    /\ failures' = failures + 1
    /\ CheckpointUnchanged
    /\ AfterWrite
    /\ UNCHANGED <<chainVars, orphanVars, vWorkQueue, hashPendingCheckpoint, current, crashes>>

-----------------------------------------------------------------------------
(***************************************************************************)
(* Crash and restart.                                                      *)
(***************************************************************************)

\* What is in memory only is lost.
LoseMemory ==
    /\ pc \notin {"down", "stopped"}
    /\ crashes < MaxCrashes
    /\ crashes' = crashes + 1
    /\ pc' = "down"
    /\ mapOrphanBlocks' = {} /\ setStakeSeenOrphan' = {} /\ vWorkQueue' = {}
    /\ hashPendingCheckpoint' = Nil
    /\ UNCHANGED <<mapBlockIndex, pindexBest, setStakeSeen, hashSyncCheckpoint, current, failures>>

Crash == LoseMemory /\ UNCHANGED disk

\* A crash between two transactions of a switch, the last of which connected d.
CrashInSwitch(b) ==
    /\ LoseMemory
    /\ Switching(b)
    /\ \E d \in Partial(b) : disk' = Switched(d)

\* CTxDB::LoadBlockIndex, which stops at an assertion when a predecessor is
\* missing.  (A start that moves the best chain back because a block of it is
\* found bad is in ChainState.)
Load ==
    /\ pc = "down"
    /\ \A b \in disk.index : Branch[b] \subseteq disk.index
    /\ mapBlockIndex' = disk.index
    /\ setStakeSeen' = UNION {StakeOf(b) : b \in disk.index}
    /\ pindexBest' = disk.best
    /\ hashSyncCheckpoint' = disk.sync
    /\ UNCHANGED <<disk, orphanVars, vWorkQueue, hashPendingCheckpoint, current, faultVars>>

Start == Load /\ pc' = "idle"

\* The first start of a release with another master key: the key is committed
\* before anything else, so a start that finds it does not repeat the reset.
StartNewRelease == Load /\ pc' = "reset"

\* Block h has the greatest height of the blocks in S, which lie on one branch.
LastOf(S, h) == h \in S /\ \A k \in S : k \in Branch[h]

\* Mutant: the node goes on with the checkpoint it has.
GoOnWithoutReset ==
    /\ pc' = "idle"
    /\ UNCHANGED hashPendingCheckpoint

\* LoadBlockIndex returns false and the node exits.
ExitNode ==
    /\ pc' = "down"
    /\ hashPendingCheckpoint' = Nil

\* ResetSyncCheckpoint up to the write: if the last hardened checkpoint is known
\* it is made part of the main chain, if not it becomes the pending checkpoint.
ResetSyncCheckpoint(h) ==
    /\ pc = "reset"
    /\ LastOf(Hardened, h)
    /\ \/ /\ h \notin mapBlockIndex
          /\ hashPendingCheckpoint' = h
          /\ pc' = "writeReset"
          /\ UNCHANGED <<chainVars, failures>>
       \/ /\ h \in mapBlockIndex
          /\ IF IsInMainChain(h)
             THEN UNCHANGED <<chainVars, failures>>
             ELSE SwitchSucceeds(h)
          /\ pc' = "writeReset"
          /\ UNCHANGED hashPendingCheckpoint
       \/ /\ h \in mapBlockIndex /\ ~IsInMainChain(h)
          /\ SwitchFails(h)
          /\ ExitNode
    /\ UNCHANGED <<orphanVars, vWorkQueue, hashSyncCheckpoint, current, crashes>>

\* Mutant: the last hardened checkpoint is written wherever it is.
LastHardened(c) == LastOf(Hardened, c)

\* The last hardened checkpoint of the main chain.
LastInMainChain(c) == LastOf({k \in Hardened : IsInMainChain(k)}, c)

\* The write at the end of ResetSyncCheckpoint.
WriteReset(c) ==
    /\ pc = "writeReset"
    /\ LastInMainChain(c)
    /\ disk' = [disk EXCEPT !.sync = c]
    /\ hashSyncCheckpoint' = c
    /\ pc' = "idle"
    /\ UNCHANGED <<mapBlockIndex, pindexBest, setStakeSeen, orphanVars, vWorkQueue,
                   hashPendingCheckpoint, current, faultVars>>

WriteResetFails ==
    /\ pc = "writeReset"
    /\ failures < MaxFailures
    /\ failures' = failures + 1
    /\ ExitNode
    /\ UNCHANGED <<chainVars, orphanVars, vWorkQueue, hashSyncCheckpoint, current, crashes>>

-----------------------------------------------------------------------------
Init ==
    /\ mapBlockIndex = {Genesis}
    /\ pindexBest = Genesis
    /\ setStakeSeen = {}
    /\ mapOrphanBlocks = {}
    /\ setStakeSeenOrphan = {}
    /\ vWorkQueue = {}
    /\ hashSyncCheckpoint = Genesis
    /\ hashPendingCheckpoint = Nil
    /\ disk = [index |-> {Genesis}, best |-> Genesis, sync |-> Genesis]
    /\ pc = "idle"
    /\ current = Genesis
    /\ crashes = 0
    /\ failures = 0

Receive(b) == ProcessBlock(b) \/ ProcessOrphanBlock(b)

\* The steps of a call that has begun.
CallStep ==
    \/ SwitchToBest
    \/ AcceptBlockFails
    \/ AcceptPendingSyncCheckpoint
    \/ \E o \in Blocks : AcceptOrphan(o)
    \/ FinishBlock
    \/ pc # "idle" /\ \E b \in Blocks : SwitchStops(b)
    \/ WriteSyncCheckpoint
    \/ \E h \in Hardened : ResetSyncCheckpoint(h)
    \/ \E c \in Hardened : WriteReset(c)

Next ==
    \/ \E b \in Blocks \ {Genesis} : ProcessBlock(b)
    \/ \E b \in Blocks \ {Genesis} : ProcessOrphanBlock(b)
    \/ SwitchToBest
    \/ AcceptBlockFails
    \/ AcceptPendingSyncCheckpoint
    \/ \E o \in Blocks : AcceptOrphan(o)
    \/ FinishBlock
    \/ \E h \in Blocks : KeepAsPending(h)
    \/ \E h \in Blocks : ProcessSyncCheckpoint(h)
    \/ \E b \in Blocks : SwitchStops(b)
    \/ WriteSyncCheckpoint
    \/ WriteSyncCheckpointFails
    \/ Crash
    \/ \E b \in Blocks : CrashInSwitch(b)
    \/ Start
    \/ StartNewRelease
    \/ \E h \in Hardened : ResetSyncCheckpoint(h)
    \/ \E c \in Hardened : WriteReset(c)
    \/ WriteResetFails

Spec == Init /\ [][Next]_vars

\* The peers send every block again and again (a node asks for what it misses
\* with getblocks and AskFor), calls end, and the node is started again.
FairSpec ==
    /\ Spec
    /\ WF_vars(CallStep)
    /\ WF_vars(Start)
    /\ \A b \in Blocks \ {Genesis} : WF_vars(Receive(b))

-----------------------------------------------------------------------------
(***************************************************************************)
(* Properties.                                                             *)
(***************************************************************************)

\* Every variable has its type; pc names the step of a call that comes next.
TypeOK ==
    /\ mapBlockIndex \subseteq Blocks /\ mapOrphanBlocks \subseteq Blocks
    /\ vWorkQueue \subseteq Blocks
    /\ setStakeSeen \subseteq Stakes /\ setStakeSeenOrphan \subseteq Stakes
    /\ {pindexBest, hashSyncCheckpoint, current} \subseteq Blocks
    /\ hashPendingCheckpoint \in Blocks \union {Nil}
    /\ disk \in [index : SUBSET Blocks, best : Blocks, sync : Blocks]
    /\ pc \in {"idle", "add", "pending", "orphans", "writePending", "writeMessage",
              "reset", "writeReset", "stopped", "down"}
    /\ crashes \in 0 .. MaxCrashes /\ failures \in 0 .. MaxFailures

\* The checkpoint on record is a block of the stored best chain.
OnBestChain == disk.sync \in Branch[disk.best]

\* The best chain ends at b or below it.
Leads(b) == disk.best \in Branch[b]

\* The current checkpoint is a block of the best chain, or else the best chain
\* ends on the way to the last hardened checkpoint, where a reset has put it, or
\* on the way back to the current one.
CheckpointOnBestChain ==
    pc # "stopped" =>
        OnBestChain \/ Leads(disk.sync) \/ \E h \in Hardened : Leads(h)

\* The switch of a reset is the one step that takes the checkpoint off the best
\* chain, and the write of the reset takes it back, unless a crash or a failure
\* comes between the two commits: the next start finds the new key and does not
\* repeat the reset.  No block, checkpoint message, failing write or crash of
\* any other call leads off the checkpoint.
CheckpointLeavesByReset ==
    [][ (pc' # "stopped" /\ ~OnBestChain') =>
           \/ pc = "reset"
           \/ ~OnBestChain /\ (pc = "writeReset" => pc' = "down") ]_vars

\* What the asserts of CheckSync, IsMatureSyncCheckpoint and
\* IsSyncCheckpointTooOld say: "sync-checkpoint should always be accepted
\* block", and the database agrees with memory about which one it is.
CheckpointIsAccepted ==
    /\ disk.sync \in disk.index
    /\ pc # "down" => hashSyncCheckpoint \in mapBlockIndex /\ hashSyncCheckpoint = disk.sync

\* The current checkpoint is an accepted block, the same in memory and in the
\* database, and in the best chain but for a reset that was cut short between
\* its two commits (ProcessSyncCheckpoint, CheckSync, WriteSyncCheckpoint,
\* ResetSyncCheckpoint).
CheckpointSound ==
    []CheckpointOnBestChain /\ []CheckpointIsAccepted /\ CheckpointLeavesByReset

\* A checkpoint is only replaced by one of its descendants, unless the master
\* key changed.
CheckpointOnlyAdvances ==
    [][disk.sync \in Branch[disk'.sync] \/ pc = "writeReset"]_vars

\* Stakes are counted: the two sets are what "limited duplicity" needs, the
\* stakes of the index, and at least a block behind each stake of an orphan.
StakesOfIndex ==
    /\ pc # "down" => setStakeSeen = {Stake[b] : b \in mapBlockIndex} \ {Nil}
    /\ \A s \in setStakeSeenOrphan : \E o \in mapOrphanBlocks : Stake[o] = s

\* "If don't already have its previous block, shunt it off to holding area
\* until we get it": between calls, while the database works, an orphan that
\* can be connected waits for an unknown block.
GoodOrphansWait ==
    (pc = "idle" /\ failures = 0) =>
        \A o \in mapOrphanBlocks :
            Branch[o] \subseteq Connectable => pprev[o] \notin mapBlockIndex

\* What ProcessBlock keeps besides the chain is as it should be: the sets that
\* refuse a stake used twice, and the blocks in mapOrphanBlocks.
IntakeSound == TypeOK /\ StakesOfIndex /\ GoodOrphansWait

RuledOut(b) == hashSyncCheckpoint \notin Branch[b] /\ b \notin Branch[hashSyncCheckpoint]

\* A pending checkpoint whose chain is good and on offer becomes the current
\* one, or is superseded by another message or forgotten in a crash; nothing is
\* promised when the database fails or the current checkpoint is on another branch.
PendingIsAdopted ==
    \A h \in Announced :
        (hashPendingCheckpoint = h) ~>
            (hashSyncCheckpoint = h \/ hashPendingCheckpoint # h \/ pc = "stopped"
               \/ failures > 0 \/ RuledOut(h))

\* The good blocks with a stake of their own, with respect to all blocks.
Unique == {b \in Blocks : Branch[b] \ {Genesis} \subseteq Checked \intersect Fitting \intersect Connectable
             /\ \A c \in Branch[b] : CheckHardened(c)
             /\ (IsProofOfStake(b) => \A d \in Blocks \ {b} : Stake[d] # Stake[b])}

\* A good block with a stake of its own enters the index in the end, however
\* its ancestors share stakes with other blocks, unless a checkpoint rules its
\* branch out or the database fails.
GoodBlocksAccepted ==
    \A b \in Unique :
        <>(b \in mapBlockIndex \/ pc = "stopped" \/ failures > 0
             \/ RuledOut(b))

\* What is on offer gets in: checkpoints that wait for their block, and blocks.
IntakeProgresses == PendingIsAdopted /\ GoodBlocksAccepted

=============================================================================
