--------------------------- MODULE BlockIntakeProofs ---------------------------
(***************************************************************************)
(* The synchronized checkpoint is always a stored block, only the switch   *)
(* of a reset takes it off the best chain, and only a descendant replaces  *)
(* it: for every tree of blocks, every set of signed checkpoints, and any  *)
(* number of crashes and failures. No orphan block that could be accepted  *)
(* is forgotten, and the sets of stakes are those of the blocks they stand *)
(* for.                                                                    *)
(***************************************************************************)
EXTENDS BlockIntake, TreeLemmas

\* The types that the argument needs.
TypeInv ==
    /\ mapBlockIndex \subseteq Blocks /\ mapOrphanBlocks \subseteq Blocks
    /\ {pindexBest, hashSyncCheckpoint, current} \subseteq Blocks
    /\ hashPendingCheckpoint \in Blocks \union {Nil}
    /\ disk \in [index : SUBSET Blocks, best : Blocks, sync : Blocks]

\* Memory agrees with the database.
MemoryInv ==
    /\ pc \notin {"down", "stopped"} => pindexBest = disk.best
    /\ pc # "down" => hashSyncCheckpoint = disk.sync
    /\ pc # "down" => hashSyncCheckpoint \in mapBlockIndex

\* The database by itself: the checkpoint and the best chain are stored.
DiskInv ==
    /\ disk.sync \in disk.index
    /\ pc # "stopped" => Branch[disk.best] \subseteq disk.index
    /\ CheckpointOnBestChain

\* The block a call works on: a block on its way into the best chain is above
\* the checkpoint, and a checkpoint on its way to the database is above the
\* current one and in the best chain already.
CurrentInv ==
    /\ pc = "add" => hashSyncCheckpoint \in Branch[current]
    /\ pc \in {"writePending", "writeMessage"} =>
          /\ current \in mapBlockIndex
          /\ hashSyncCheckpoint \in Branch[current]
          /\ current \in Branch[disk.best]

\* A reset works on what LoadBlockIndex has read: whole branches.
ResetInv ==
    /\ pc = "reset" => \A b \in mapBlockIndex : Branch[b] \subseteq mapBlockIndex
    /\ pc \in {"reset", "writeReset"} => Branch[pindexBest] \subseteq mapBlockIndex

IInv == TypeInv /\ MemoryInv /\ DiskInv /\ CurrentInv /\ ResetInv

\* A block that CheckSync lets through is the checkpoint or above it.
LEMMA CheckSyncAbove ==
    ASSUME NEW b \in Blocks, hashSyncCheckpoint \in Blocks, CheckSync(b)
    PROVE  hashSyncCheckpoint \in Branch[b]
<1>1. nHeight[b] \in Nat /\ nHeight[hashSyncCheckpoint] \in Nat
  BY TreeAssumption
<1>2. CASE nHeight[b] = nHeight[hashSyncCheckpoint]
  BY <1>2, OwnBranch DEF CheckSync
<1>3. CASE nHeight[b] > nHeight[hashSyncCheckpoint]
  BY <1>3 DEF CheckSync
<1> QED
  BY <1>1, <1>2, <1>3 DEF CheckSync

LEMMA IInvInit == Init => IInv
BY TreeAssumption, BranchAssumption
DEF Init, IInv, TypeInv, MemoryInv, DiskInv, CurrentInv, ResetInv, CheckpointOnBestChain, OnBestChain

\* A block enters the index.
LEMMA AddKeepsIInv ==
    ASSUME IInv, NEW b \in Blocks, pc \in {"idle", "orphans"}, Acceptable(b),
           mapOrphanBlocks' \subseteq Blocks,
           AddToIndex(b) \/ AddToIndexFails(b), UNCHANGED checkpointVars
    PROVE  IInv'
<1> USE DEF CheckpointOnBestChain, OnBestChain, Leads
<1>1. hashSyncCheckpoint \in Branch[b]
  BY CheckSyncAbove DEF IInv, TypeInv, Acceptable
<1>2. CASE AddToIndex(b)
  BY <1>1, <1>2 DEF AddToIndex, IInv, TypeInv, MemoryInv, DiskInv, CurrentInv, ResetInv, checkpointVars
<1>3. CASE AddToIndexFails(b)
  BY <1>3 DEF AddToIndexFails, IInv, TypeInv, MemoryInv, DiskInv, CurrentInv, ResetInv, checkpointVars
<1> QED
  BY <1>2, <1>3

\* The transactions of a switch that ends at d store the branch of d.
LEMMA SwitchStores ==
    ASSUME IInv, NEW d \in Blocks, pc \notin {"down", "stopped"}, disk' = Switched(d)
    PROVE  /\ disk' \in [index : SUBSET Blocks, best : Blocks, sync : Blocks]
           /\ disk'.best = d /\ disk'.sync = disk.sync
           /\ disk.index \subseteq disk'.index
           /\ Branch[d] \subseteq disk'.index
<1>1. Branch[d] \subseteq Blocks
  BY OwnBranch
<1>2. disk \in [index : SUBSET Blocks, best : Blocks, sync : Blocks]
  BY DEF IInv, TypeInv
<1>3. Branch[pindexBest] \subseteq disk.index
  BY DEF IInv, MemoryInv, DiskInv
<1> QED
  BY <1>1, <1>2, <1>3 DEF Switched

LEMMA SwitchSwitches ==
    ASSUME NEW b \in Blocks, SwitchSucceeds(b)
    PROVE  disk' = Switched(b) /\ mapBlockIndex' = mapBlockIndex /\ pindexBest' = b
BY DEF SwitchSucceeds

\* Whatever block of the way a switch ends at, it only leaves the checkpoint
\* when it is the switch of a reset: the block it is on its way to is above the
\* checkpoint, and below the checkpoint all blocks have less trust than the best.
LEMMA WayKeepsCheckpoint ==
    ASSUME IInv, NEW b \in Blocks, Switching(b), NEW d \in Partial(b), disk' = Switched(d),
           pc # "reset"
    PROVE  (OnBestChain => OnBestChain') /\ (OnBestChain' \/ d \in Branch[disk.sync])
<1>1. pc \notin {"down", "stopped"}
  BY DEF Switching
<1>2. /\ d \in Blocks /\ d \in Branch[b] /\ bnChainTrust[d] > bnChainTrust[pindexBest]
      /\ pindexBest \in Blocks /\ disk.sync \in Blocks /\ pindexBest = disk.best
      /\ hashSyncCheckpoint = disk.sync
  BY <1>1, OwnBranch DEF Partial, IInv, TypeInv, MemoryInv
<1>3. disk.sync \in Branch[b]
  BY <1>1, <1>2 DEF Switching, ValidateSyncCheckpoint, IInv, CurrentInv
<1>4. disk.sync \in Branch[d] \/ d \in Branch[disk.sync]
  BY <1>2, <1>3, BranchAssumption
<1>5. disk'.best = d /\ disk'.sync = disk.sync
  BY <1>1, <1>2, SwitchStores
<1>6. ASSUME disk.sync \in Branch[disk.best], d \in Branch[disk.sync] PROVE FALSE
  <2>1. d \in Branch[pindexBest]
    BY <1>2, <1>6, BranchAssumption
  <2>2. bnChainTrust[d] \in Nat /\ bnChainTrust[pindexBest] \in Nat
    BY <1>2, TreeAssumption
  <2> QED
    BY <1>2, <2>1, <2>2, TrustOnBranch
<1> QED
  BY <1>4, <1>5, <1>6 DEF OnBestChain

LEMMA IInvNext == IInv /\ [Next]_vars => IInv'
<1> SUFFICES ASSUME IInv, [Next]_vars PROVE IInv'
  OBVIOUS
<1> USE DEF checkpointVars, orphanVars, faultVars, CheckpointOnBestChain, OnBestChain, Leads
<1>1. ASSUME NEW b \in Blocks \ {Genesis}, ProcessBlock(b) PROVE IInv'
  BY <1>1, AddKeepsIInv DEF ProcessBlock, IInv, TypeInv
<1>2. ASSUME NEW b \in Blocks \ {Genesis}, ProcessOrphanBlock(b) PROVE IInv'
  BY <1>2 DEF ProcessOrphanBlock, IInv, TypeInv, MemoryInv, DiskInv, CurrentInv, ResetInv, chainVars
<1>3. CASE SwitchToBest
  <2>1. CASE bnChainTrust[current] > bnChainTrust[pindexBest]
    <3>1. SwitchSucceeds(current) /\ pc = "add" /\ pc' = "pending" /\ current \in Blocks
      BY <1>3, <2>1 DEF SwitchToBest, IInv, TypeInv
    <3> QED
      BY <1>3, <3>1, SwitchStores, SwitchSwitches
      DEF SwitchToBest, IInv, TypeInv, MemoryInv, DiskInv, CurrentInv, ResetInv
  <2>2. CASE ~(bnChainTrust[current] > bnChainTrust[pindexBest])
    BY <1>3, <2>2
    DEF SwitchToBest, IInv, TypeInv, MemoryInv, DiskInv, CurrentInv, ResetInv, chainVars
  <2> QED
    BY <2>1, <2>2
<1>4. CASE AcceptBlockFails
  BY <1>4 DEF AcceptBlockFails, SwitchFails, IInv, TypeInv, MemoryInv, DiskInv, CurrentInv, ResetInv, chainVars
<1>5. CASE AcceptPendingSyncCheckpoint
  <2> DEFINE h == hashPendingCheckpoint
  <2>1. CASE pc' = "orphans"
    BY <1>5, <2>1 DEF AcceptPendingSyncCheckpoint, SwitchFails, SwitchSucceeds,
       IInv, TypeInv, MemoryInv, DiskInv, CurrentInv, ResetInv, chainVars
  <2>2. CASE pc' = "writePending"
    <3>1. /\ h \in mapBlockIndex /\ h \in Blocks /\ current' = h
          /\ hashSyncCheckpoint \in Branch[h] /\ pc = "pending"
          /\ hashSyncCheckpoint' = hashSyncCheckpoint
          /\ hashPendingCheckpoint' = hashPendingCheckpoint
          /\ mapOrphanBlocks' = mapOrphanBlocks
      BY <1>5, <2>2 DEF AcceptPendingSyncCheckpoint, ValidateSyncCheckpoint, IInv, TypeInv
    <3>2. CASE IsInMainChain(h)
      <4>1. UNCHANGED chainVars
        BY <1>5, <2>2, <3>2 DEF AcceptPendingSyncCheckpoint
      <4> QED
        BY <2>2, <3>1, <3>2, <4>1
        DEF IsInMainChain, IInv, TypeInv, MemoryInv, DiskInv, CurrentInv, ResetInv, chainVars
    <3>3. CASE ~IsInMainChain(h)
      <4>1. SwitchSucceeds(h)
        BY <1>5, <2>2, <3>3 DEF AcceptPendingSyncCheckpoint
      <4> QED
        BY <2>2, <3>1, <4>1, SwitchStores, SwitchSwitches, OwnBranch
        DEF IInv, TypeInv, MemoryInv, DiskInv, CurrentInv, ResetInv
    <3> QED
      BY <3>2, <3>3
  <2> QED
    BY <1>5, <2>1, <2>2 DEF AcceptPendingSyncCheckpoint
<1>6. ASSUME NEW o \in Blocks, AcceptOrphan(o) PROVE IInv'
  <2>1. CASE Acceptable(o)
    BY <1>6, <2>1, AddKeepsIInv DEF AcceptOrphan, ForgetOrphan, IInv, TypeInv
  <2>2. CASE ~Acceptable(o)
    BY <1>6, <2>2 DEF AcceptOrphan, ForgetOrphan, IInv, TypeInv, MemoryInv, DiskInv,
       CurrentInv, ResetInv, chainVars
  <2> QED
    BY <2>1, <2>2
<1>7. CASE FinishBlock
  BY <1>7 DEF FinishBlock, IInv, TypeInv, MemoryInv, DiskInv, CurrentInv, ResetInv, chainVars
<1>8. ASSUME NEW h \in Blocks, KeepAsPending(h) PROVE IInv'
  BY <1>8 DEF KeepAsPending, IInv, TypeInv, MemoryInv, DiskInv, CurrentInv, ResetInv, chainVars
<1>9. ASSUME NEW h \in Blocks, ProcessSyncCheckpoint(h) PROVE IInv'
  <2>1. /\ h \in mapBlockIndex /\ current' = h /\ pc' = "writeMessage"
        /\ hashSyncCheckpoint \in Branch[h] /\ pc = "idle"
    BY <1>9 DEF ProcessSyncCheckpoint, ValidateSyncCheckpoint
  <2>2. CASE IsInMainChain(h)
    BY <1>9, <2>1, <2>2
    DEF ProcessSyncCheckpoint, IsInMainChain, IInv, TypeInv, MemoryInv, DiskInv, CurrentInv, ResetInv, chainVars
  <2>3. CASE ~IsInMainChain(h)
    <3>1. SwitchSucceeds(h)
      BY <1>9, <2>3 DEF ProcessSyncCheckpoint
    <3> QED
      BY <1>9, <2>1, <3>1, SwitchStores, SwitchSwitches, OwnBranch
      DEF ProcessSyncCheckpoint, IInv, TypeInv, MemoryInv, DiskInv, CurrentInv, ResetInv
  <2> QED
    BY <2>2, <2>3
<1>10. ASSUME NEW b \in Blocks, SwitchStops(b) PROVE IInv'
  <2>1. /\ pc' = "stopped" /\ pc \notin {"down", "stopped"}
        /\ UNCHANGED <<mapBlockIndex, mapOrphanBlocks, hashSyncCheckpoint,
                       hashPendingCheckpoint, current>>
        /\ pindexBest' = b
    BY <1>10 DEF SwitchStops, Switching, SwitchStopsShort
  <2>2. PICK d \in Partial(b) : disk' = Switched(d)
    BY <1>10 DEF SwitchStops, SwitchStopsShort
  <2>3. d \in Blocks
    BY OwnBranch DEF Partial
  <2>4. /\ disk' \in [index : SUBSET Blocks, best : Blocks, sync : Blocks]
        /\ disk'.sync = disk.sync /\ disk.index \subseteq disk'.index
    BY <2>1, <2>2, <2>3, SwitchStores
  <2> QED
    BY <2>1, <2>4
    DEF IInv, TypeInv, MemoryInv, DiskInv, CurrentInv, ResetInv
<1>11. CASE WriteSyncCheckpoint
  <2>1. /\ disk' \in [index : SUBSET Blocks, best : Blocks, sync : Blocks]
        /\ disk'.sync = current /\ disk'.best = disk.best /\ disk'.index = disk.index
    BY <1>11 DEF WriteSyncCheckpoint, IInv, TypeInv
  <2> QED
    BY <1>11, <2>1
    DEF WriteSyncCheckpoint, AfterWrite, IInv, TypeInv, MemoryInv, DiskInv, CurrentInv, ResetInv
<1>12. CASE WriteSyncCheckpointFails
  BY <1>12 DEF WriteSyncCheckpointFails, CheckpointUnchanged, AfterWrite,
     IInv, TypeInv, MemoryInv, DiskInv, CurrentInv, ResetInv, chainVars
<1>13. CASE Crash
  BY <1>13 DEF Crash, LoseMemory, IInv, TypeInv, MemoryInv, DiskInv, CurrentInv, ResetInv, chainVars
<1>14. ASSUME NEW b \in Blocks, CrashInSwitch(b) PROVE IInv'
  <2>1. PICK d \in Partial(b) : disk' = Switched(d)
    BY <1>14 DEF CrashInSwitch
  <2>2. /\ pc' = "down" /\ pc \notin {"down", "stopped"} /\ Switching(b)
        /\ mapOrphanBlocks' = {} /\ hashPendingCheckpoint' = Nil
        /\ UNCHANGED <<mapBlockIndex, pindexBest, hashSyncCheckpoint, current>>
    BY <1>14 DEF CrashInSwitch, LoseMemory
  <2>3. d \in Blocks /\ d \in Branch[b]
    BY OwnBranch DEF Partial
  <2>4. /\ disk' \in [index : SUBSET Blocks, best : Blocks, sync : Blocks]
        /\ disk'.best = d /\ disk'.sync = disk.sync
        /\ disk.index \subseteq disk'.index /\ Branch[d] \subseteq disk'.index
    BY <2>1, <2>2, <2>3, SwitchStores
  <2>5. CheckpointOnBestChain'
    <3>1. CASE pc = "reset"
      BY <2>2, <2>3, <2>4, <3>1 DEF Switching
    <3>2. CASE pc # "reset"
      BY <2>1, <2>2, <2>4, <3>2, WayKeepsCheckpoint
    <3> QED
      BY <3>1, <3>2
  <2> QED
    BY <2>2, <2>4, <2>5 DEF IInv, TypeInv, MemoryInv, DiskInv, CurrentInv, ResetInv
<1>15. ASSUME Load, pc' \in {"idle", "reset"} PROVE IInv'
  BY <1>15 DEF Load, IInv, TypeInv, MemoryInv, DiskInv, CurrentInv, ResetInv
<1>16. CASE Start \/ StartNewRelease
  BY <1>15, <1>16 DEF Start, StartNewRelease
<1>17. ASSUME NEW h \in Hardened, ResetSyncCheckpoint(h) PROVE IInv'
  <2>1. /\ h \in Blocks /\ pc = "reset" /\ pc' \in {"writeReset", "down"}
        /\ UNCHANGED <<mapOrphanBlocks, hashSyncCheckpoint, current>>
    BY <1>17, CheckpointAssumption DEF ResetSyncCheckpoint, ExitNode
  <2>2. hashPendingCheckpoint' \in Blocks \union {Nil}
    BY <1>17, <2>1 DEF ResetSyncCheckpoint, ExitNode, IInv, TypeInv
  <2>3. CASE UNCHANGED chainVars
    BY <2>1, <2>2, <2>3 DEF IInv, TypeInv, MemoryInv, DiskInv, CurrentInv, ResetInv, chainVars
  <2>4. CASE SwitchSucceeds(h) /\ h \in mapBlockIndex
    <3>1. /\ disk' \in [index : SUBSET Blocks, best : Blocks, sync : Blocks]
          /\ disk'.best = h /\ disk'.sync = disk.sync /\ disk.index \subseteq disk'.index
          /\ Branch[h] \subseteq disk'.index
          /\ pindexBest' = h /\ mapBlockIndex' = mapBlockIndex
      BY <2>1, <2>4, SwitchStores, SwitchSwitches
    <3>2. CheckpointOnBestChain'
      BY <2>1, <3>1, OwnBranch
    <3> QED
      BY <2>1, <2>2, <2>4, <3>1, <3>2
      DEF IInv, TypeInv, MemoryInv, DiskInv, CurrentInv, ResetInv
  <2> QED
    BY <1>17, <2>3, <2>4 DEF ResetSyncCheckpoint, SwitchFails
<1>18. ASSUME NEW c \in Hardened, WriteReset(c) PROVE IInv'
  <2>1. /\ c \in Blocks /\ c \in Branch[pindexBest] /\ pc = "writeReset" /\ pc' = "idle"
        /\ hashSyncCheckpoint' = c
        /\ UNCHANGED <<mapBlockIndex, pindexBest, mapOrphanBlocks, hashPendingCheckpoint, current>>
    BY <1>18, CheckpointAssumption
    DEF WriteReset, LastInMainChain, LastOf, IsInMainChain, orphanVars
  <2>2. /\ disk' \in [index : SUBSET Blocks, best : Blocks, sync : Blocks]
        /\ disk'.sync = c /\ disk'.best = disk.best /\ disk'.index = disk.index
    BY <1>18, <2>1 DEF WriteReset, IInv, TypeInv
  <2> QED
    BY <2>1, <2>2 DEF IInv, TypeInv, MemoryInv, DiskInv, CurrentInv, ResetInv
<1>19. CASE WriteResetFails
  BY <1>19 DEF WriteResetFails, ExitNode, IInv, TypeInv, MemoryInv, DiskInv, CurrentInv,
     ResetInv, chainVars
<1>20. CASE UNCHANGED vars
  BY <1>20 DEF vars, IInv, TypeInv, MemoryInv, DiskInv, CurrentInv, ResetInv, chainVars
<1> QED
  BY <1>1, <1>2, <1>3, <1>4, <1>5, <1>6, <1>7, <1>8, <1>9, <1>10, <1>11, <1>12,
     <1>13, <1>14, <1>16, <1>17, <1>18, <1>19, <1>20 DEF Next

-----------------------------------------------------------------------------
\* IInv holds in every state of every behaviour of BlockIntake.
LEMMA Inductive == Spec => []IInv
<1>1. Init => IInv
  BY IInvInit
<1>2. IInv /\ [Next]_vars => IInv'
  BY IInvNext
<1> QED
  BY <1>1, <1>2, PTL DEF Spec

\* The checkpoint is off the best chain only when the best chain ends on the way
\* to it or to a hardened checkpoint (ProcessBlock, ProcessSyncCheckpoint,
\* ResetSyncCheckpoint).
THEOREM CheckpointStays == Spec => []CheckpointOnBestChain
<1>1. IInv => CheckpointOnBestChain
  BY DEF IInv, DiskInv
<1> QED
  BY <1>1, Inductive, PTL

\* The asserts of checkpoints.cpp never fail: the current checkpoint is always
\* in the index, and memory and database agree about which one it is.
THEOREM CheckpointKnown == Spec => []CheckpointIsAccepted
<1>1. IInv => CheckpointIsAccepted
  BY DEF IInv, MemoryInv, DiskInv, CheckpointIsAccepted
<1> QED
  BY <1>1, Inductive, PTL

\* A step that ends off the checkpoint: the switch of a reset, a step of a node
\* that was off it already, or the end of a reset before its write.
LEMMA LeavesByReset ==
    ASSUME IInv, Next, pc' # "stopped", ~OnBestChain', pc # "reset"
    PROVE  ~OnBestChain /\ (pc = "writeReset" => pc' = "down")
<1>1. ASSUME NEW b \in Blocks, SwitchSucceeds(b), hashSyncCheckpoint \in Branch[b],
             pc \notin {"down", "stopped"}
      PROVE  FALSE
  BY <1>1, SwitchStores, SwitchSwitches DEF OnBestChain, IInv, MemoryInv
<1>2. CASE SwitchToBest
  <2>1. pc = "add" /\ current \in Blocks /\ hashSyncCheckpoint \in Branch[current]
    BY <1>2 DEF SwitchToBest, IInv, TypeInv, CurrentInv
  <2> QED
    BY <1>1, <1>2, <2>1 DEF SwitchToBest, chainVars, OnBestChain
<1>3. CASE AcceptPendingSyncCheckpoint
  <2> DEFINE h == hashPendingCheckpoint
  <2>1. /\ pc = "pending"
        /\ \/ UNCHANGED chainVars
           \/ SwitchSucceeds(h) /\ h \in mapBlockIndex /\ ValidateSyncCheckpoint(h)
    BY <1>3 DEF AcceptPendingSyncCheckpoint, SwitchFails
  <2> QED
    BY <1>1, <2>1 DEF ValidateSyncCheckpoint, chainVars, OnBestChain, IInv, TypeInv
<1>4. ASSUME NEW h \in Blocks, ProcessSyncCheckpoint(h)
      PROVE  ~OnBestChain /\ (pc = "writeReset" => pc' = "down")
  BY <1>1, <1>4 DEF ProcessSyncCheckpoint, ValidateSyncCheckpoint, chainVars, OnBestChain
<1>5. CASE WriteSyncCheckpoint
  BY <1>5 DEF WriteSyncCheckpoint, OnBestChain, IInv, TypeInv, CurrentInv
<1>6. ASSUME NEW c \in Hardened, WriteReset(c) PROVE FALSE
  <2>1. c \in Branch[disk.best]
    BY <1>6 DEF WriteReset, LastInMainChain, LastOf, IsInMainChain, IInv, MemoryInv
  <2> QED
    BY <1>6, <2>1 DEF WriteReset, OnBestChain, IInv, TypeInv
<1>7. ASSUME NEW b \in Blocks, CrashInSwitch(b)
      PROVE  ~OnBestChain /\ (pc = "writeReset" => pc' = "down")
  BY <1>7, WayKeepsCheckpoint DEF CrashInSwitch, Switching
<1>8. CASE /\ ~SwitchToBest /\ ~AcceptPendingSyncCheckpoint /\ ~WriteSyncCheckpoint
           /\ \A h \in Blocks : ~ProcessSyncCheckpoint(h) /\ ~CrashInSwitch(h)
           /\ \A c \in Hardened : ~WriteReset(c)
  <2>1. disk'.best = disk.best /\ disk'.sync = disk.sync
    BY <1>8
    DEF Next, IInv, TypeInv, chainVars, ProcessBlock, AddToIndex, AddToIndexFails,
        ProcessOrphanBlock, AcceptBlockFails, AcceptOrphan, FinishBlock, KeepAsPending,
        SwitchStops, SwitchStopsShort, SwitchFails, WriteSyncCheckpointFails, Crash,
        Start, StartNewRelease, Load, ResetSyncCheckpoint, WriteResetFails
  <2>2. pc = "writeReset" => pc' = "down"
    BY <1>8
    DEF Next, ProcessBlock, ProcessOrphanBlock, AcceptBlockFails, AcceptOrphan, FinishBlock,
        KeepAsPending, SwitchStops, Switching, WriteSyncCheckpointFails, Crash, LoseMemory,
        Start, StartNewRelease, Load, ResetSyncCheckpoint, WriteResetFails, ExitNode
  <2> QED
    BY <2>1, <2>2 DEF OnBestChain
<1> QED
  BY <1>2, <1>3, <1>4, <1>5, <1>6, <1>7, <1>8

\* The current checkpoint is always an accepted block, the same in memory and on
\* disk, and only a reset that is cut short between its two commits leaves it off
\* the best chain, whatever blocks, checkpoints, crashes and failing writes
\* ProcessBlock, ProcessSyncCheckpoint and ResetSyncCheckpoint meet.
THEOREM CheckpointStaysSound == Spec => CheckpointSound
<1>1. IInv /\ [Next]_vars =>
          [ (pc' # "stopped" /\ ~OnBestChain') =>
              \/ pc = "reset"
              \/ ~OnBestChain /\ (pc = "writeReset" => pc' = "down") ]_vars
  BY LeavesByReset
<1>2. Spec => CheckpointLeavesByReset
  BY <1>1, Inductive, PTL DEF Spec, CheckpointLeavesByReset
<1> QED
  BY <1>2, CheckpointStays, CheckpointKnown, PTL DEF CheckpointSound

\* Only a descendant replaces the checkpoint on record (WriteSyncCheckpoint and
\* its callers), however messages, blocks and failures interleave, but for the
\* write of a reset.
THEOREM CheckpointAdvances == Spec => CheckpointOnlyAdvances
<1>1. IInv /\ [Next]_vars => [disk.sync \in Branch[disk'.sync] \/ pc = "writeReset"]_vars
  <2> SUFFICES ASSUME IInv, Next, pc # "writeReset" PROVE disk.sync \in Branch[disk'.sync]
    OBVIOUS
  <2>1. disk.sync \in Blocks
    BY DEF IInv, TypeInv
  <2>2. CASE WriteSyncCheckpoint
    BY <2>2 DEF WriteSyncCheckpoint, IInv, TypeInv, MemoryInv, CurrentInv
  <2>3. CASE ~WriteSyncCheckpoint
    <3>1. disk'.sync = disk.sync
      BY <2>3
      DEF Next, IInv, TypeInv, chainVars, faultVars, ProcessBlock, AddToIndex, AddToIndexFails,
          ProcessOrphanBlock, SwitchToBest, AcceptBlockFails, AcceptPendingSyncCheckpoint,
          AcceptOrphan, FinishBlock, KeepAsPending, ProcessSyncCheckpoint, SwitchStops,
          SwitchStopsShort, SwitchSucceeds, SwitchFails, Switched, WriteSyncCheckpointFails,
          Crash, CrashInSwitch, Start, StartNewRelease, Load, ResetSyncCheckpoint, WriteReset,
          WriteResetFails
    <3> QED
      BY <2>1, <3>1, OwnBranch
  <2> QED
    BY <2>2, <2>3
<1> QED
  BY <1>1, Inductive, PTL DEF Spec, CheckpointOnlyAdvances

-----------------------------------------------------------------------------
(***************************************************************************)
(* What ProcessBlock keeps besides the chain: stakes and orphan blocks.    *)
(***************************************************************************)

\* The types that IInv does not need.
CallTypes ==
    /\ mapOrphanBlocks \subseteq Blocks \ {Genesis}
    /\ vWorkQueue \subseteq Blocks
    /\ setStakeSeen \subseteq Stakes /\ setStakeSeenOrphan \subseteq Stakes
    /\ pc \in {"idle", "add", "pending", "orphans", "writePending", "writeMessage",
              "reset", "writeReset", "stopped", "down"}
    /\ crashes \in 0 .. MaxCrashes /\ failures \in 0 .. MaxFailures

\* Only a call that has not ended has accepted blocks, and a node that is down
\* or starts has no orphans.
QueueInv ==
    /\ pc \in {"idle", "writeMessage", "reset", "writeReset", "down"} => vWorkQueue = {}
    /\ pc \in {"reset", "writeReset", "down"} => mapOrphanBlocks = {}

\* An orphan that could be connected waits for an unknown block, or for one that
\* this call has accepted, or for the one it is accepting.
WaitInv ==
    (failures = 0 /\ pc # "stopped") =>
        \A o \in mapOrphanBlocks :
            Branch[o] \subseteq Connectable =>
                \/ pprev[o] \notin mapBlockIndex
                \/ pprev[o] \in vWorkQueue
                \/ pc = "add" /\ pprev[o] = current

HeldInv == CallTypes /\ StakesOfIndex /\ QueueInv /\ WaitInv

LEMMA StakeOfStakes == ASSUME NEW b \in Blocks PROVE StakeOf(b) = {Stake[b]} \ {Nil} /\ StakeOf(b) \subseteq Stakes
BY DEF StakeOf, IsProofOfStake, Stakes

LEMMA HeldInit == Init => HeldInv
BY BoundsAssumption, BlockAssumption
DEF Init, HeldInv, CallTypes, StakesOfIndex, QueueInv, WaitInv, Stakes

\* The blocks that were accepted and held stay what they were.
LEMMA HeldUnchanged ==
    ASSUME IInv, HeldInv,
           UNCHANGED <<mapBlockIndex, setStakeSeen, orphanVars, vWorkQueue, crashes>>,
           failures' \in failures .. MaxFailures,
           pc' \in {"idle", "add", "pending", "orphans", "writePending", "writeMessage", "stopped"},
           pc \notin {"down", "stopped", "add"},
           pc' \in {"idle", "writeMessage"} => vWorkQueue = {}
    PROVE  HeldInv'
<1>1. failures \in Nat /\ MaxFailures \in Nat BY BoundsAssumption DEF HeldInv, CallTypes
<1>2. CallTypes' BY <1>1 DEF HeldInv, CallTypes, orphanVars
<1>3. StakesOfIndex' BY DEF HeldInv, StakesOfIndex, orphanVars
<1>4. QueueInv' BY DEF HeldInv, QueueInv
<1>5. WaitInv'
  <2>1. failures' = 0 => failures = 0 BY <1>1
  <2>. QED BY <2>1 DEF HeldInv, WaitInv, orphanVars
<1>. QED BY <1>2, <1>3, <1>4, <1>5 DEF HeldInv

\* A block enters the index.
LEMMA AddKeepsHeld ==
    ASSUME IInv, HeldInv, NEW b \in Blocks, pc \in {"idle", "orphans"},
           AddToIndex(b) \/ AddToIndexFails(b), UNCHANGED <<vWorkQueue, crashes>>,
           mapOrphanBlocks' \subseteq mapOrphanBlocks, setStakeSeenOrphan' \subseteq setStakeSeenOrphan,
           \A s \in setStakeSeenOrphan' : \E o \in mapOrphanBlocks' : Stake[o] = s
    PROVE  HeldInv'
<1>1. failures \in Nat /\ MaxFailures \in Nat BY BoundsAssumption DEF HeldInv, CallTypes
<1>2. /\ mapBlockIndex' = mapBlockIndex \union {b}
      /\ setStakeSeen' = setStakeSeen \union StakeOf(b)
      /\ failures' \in failures .. MaxFailures
      /\ \/ pc' = "add" /\ current' = b
         \/ pc' = "orphans" /\ failures' # 0
  <2>1. failures <= MaxFailures BY DEF HeldInv, CallTypes
  <2>. QED BY <1>1, <2>1 DEF AddToIndex, AddToIndexFails
<1>3. CallTypes'
  <2>1. setStakeSeen' \subseteq Stakes BY <1>2, StakeOfStakes DEF HeldInv, CallTypes
  <2>2. failures' \in 0 .. MaxFailures BY <1>1, <1>2
  <2>. QED BY <1>2, <2>1, <2>2 DEF HeldInv, CallTypes
<1>4. StakesOfIndex'
  <2>1. setStakeSeen = {Stake[c] : c \in mapBlockIndex} \ {Nil} BY DEF HeldInv, StakesOfIndex
  <2>2. setStakeSeen' = {Stake[c] : c \in mapBlockIndex'} \ {Nil}
    BY <1>2, <2>1, StakeOfStakes
  <2>. QED BY <2>2 DEF StakesOfIndex
<1>5. QueueInv' BY <1>2 DEF QueueInv
<1>6. WaitInv'
  <2>. SUFFICES ASSUME failures' = 0, pc' # "stopped", NEW o \in mapOrphanBlocks',
                       Branch[o] \subseteq Connectable
       PROVE  pprev[o] \notin mapBlockIndex' \/ pprev[o] \in vWorkQueue'
              \/ (pc' = "add" /\ pprev[o] = current')
    BY DEF WaitInv
  <2>1. failures = 0 BY <1>1, <1>2
  <2>2. pprev[o] \notin mapBlockIndex \/ pprev[o] \in vWorkQueue BY <2>1 DEF HeldInv, WaitInv
  <2>. QED BY <1>2, <2>2
<1>. QED BY <1>3, <1>4, <1>5, <1>6 DEF HeldInv

LEMMA OrphanForgotten ==
    ASSUME HeldInv, NEW o \in Blocks, ForgetOrphan(o)
    PROVE  /\ mapOrphanBlocks' \subseteq mapOrphanBlocks /\ setStakeSeenOrphan' \subseteq setStakeSeenOrphan
           /\ \A s \in setStakeSeenOrphan' : \E q \in mapOrphanBlocks' : Stake[q] = s
BY DEF ForgetOrphan, HeldInv, StakesOfIndex

LEMMA HeldNext == IInv /\ HeldInv /\ [Next]_vars => HeldInv'
<1> SUFFICES ASSUME IInv, HeldInv, [Next]_vars PROVE HeldInv'
  OBVIOUS
<1> USE DEF checkpointVars, faultVars
<1>a. failures \in Nat /\ MaxFailures \in Nat /\ crashes \in Nat /\ MaxCrashes \in Nat
      /\ failures <= MaxFailures
  BY BoundsAssumption DEF HeldInv, CallTypes
<1>b. failures \in failures .. MaxFailures BY <1>a
<1>1. ASSUME NEW b \in Blocks \ {Genesis}, ProcessBlock(b) PROVE HeldInv'
  BY <1>1, AddKeepsHeld DEF ProcessBlock, orphanVars, HeldInv, StakesOfIndex
<1>2. ASSUME NEW b \in Blocks \ {Genesis}, ProcessOrphanBlock(b) PROVE HeldInv'
  <2>1. /\ pc = "idle" /\ pc' = "idle" /\ pprev[b] \notin mapBlockIndex
        /\ mapOrphanBlocks' = mapOrphanBlocks \union {b}
        /\ setStakeSeenOrphan' = setStakeSeenOrphan \union StakeOf(b)
        /\ UNCHANGED <<mapBlockIndex, setStakeSeen, vWorkQueue, current, crashes, failures>>
    BY <1>2 DEF ProcessOrphanBlock, chainVars
  <2>2. CallTypes' BY <2>1, StakeOfStakes DEF HeldInv, CallTypes
  <2>3. StakesOfIndex' BY <2>1, StakeOfStakes DEF HeldInv, StakesOfIndex
  <2>4. QueueInv' BY <2>1 DEF HeldInv, QueueInv
  <2>5. WaitInv' BY <2>1 DEF HeldInv, WaitInv
  <2>. QED BY <2>2, <2>3, <2>4, <2>5 DEF HeldInv
<1>3. CASE SwitchToBest
  <2>1. /\ pc = "add" /\ pc' = "pending" /\ vWorkQueue' = vWorkQueue \union {current}
        /\ UNCHANGED <<mapBlockIndex, setStakeSeen, orphanVars, crashes, failures>>
    BY <1>3 DEF SwitchToBest, SwitchSucceeds, chainVars
  <2>2. CallTypes' BY <2>1 DEF HeldInv, CallTypes, orphanVars, IInv, TypeInv
  <2>3. StakesOfIndex' BY <2>1 DEF HeldInv, StakesOfIndex, orphanVars
  <2>4. QueueInv' BY <2>1 DEF QueueInv
  <2>5. WaitInv' BY <2>1 DEF HeldInv, WaitInv, orphanVars
  <2>. QED BY <2>2, <2>3, <2>4, <2>5 DEF HeldInv
<1>4. CASE AcceptBlockFails
  <2>1. /\ pc = "add" /\ pc' = "orphans"
        /\ UNCHANGED <<mapBlockIndex, setStakeSeen, orphanVars, vWorkQueue, current, crashes>>
        /\ \/ failures' = failures /\ ~(Branch[current] \subseteq Connectable)
           \/ failures < MaxFailures /\ failures' = failures + 1
    BY <1>4 DEF AcceptBlockFails, SwitchFails, chainVars
  <2>2. CallTypes'
    <3>1. failures' \in 0 .. MaxFailures BY <1>a, <2>1
    <3>. QED BY <2>1, <3>1 DEF HeldInv, CallTypes, orphanVars
  <2>3. StakesOfIndex' BY <2>1 DEF HeldInv, StakesOfIndex, orphanVars
  <2>4. QueueInv' BY <2>1 DEF QueueInv
  <2>5. WaitInv'
    <3>. SUFFICES ASSUME failures' = 0, NEW o \in mapOrphanBlocks, Branch[o] \subseteq Connectable
         PROVE  pprev[o] \notin mapBlockIndex \/ pprev[o] \in vWorkQueue
      BY <2>1 DEF WaitInv, orphanVars
    <3>1. failures = 0 /\ ~(Branch[current] \subseteq Connectable) BY <1>a, <2>1
    <3>2. Branch[pprev[o]] \subseteq Branch[o]
      BY BranchAssumption DEF HeldInv, CallTypes
    <3>3. pprev[o] # current BY <3>1, <3>2
    <3>. QED BY <2>1, <3>1, <3>3 DEF HeldInv, WaitInv
  <2>. QED BY <2>2, <2>3, <2>4, <2>5 DEF HeldInv
<1>5. CASE AcceptPendingSyncCheckpoint
  <2>1. /\ pc = "pending" /\ pc' \in {"orphans", "writePending"}
        /\ UNCHANGED <<mapBlockIndex, setStakeSeen, orphanVars, vWorkQueue, crashes>>
        /\ failures' = failures \/ (failures < MaxFailures /\ failures' = failures + 1)
    BY <1>5 DEF AcceptPendingSyncCheckpoint, SwitchFails, SwitchSucceeds, chainVars
  <2>2. failures' \in failures .. MaxFailures BY <1>a, <2>1
  <2>. QED BY <2>1, <2>2, HeldUnchanged
<1>6. ASSUME NEW o \in Blocks, AcceptOrphan(o) PROVE HeldInv'
  <2>1. /\ mapOrphanBlocks' \subseteq mapOrphanBlocks /\ setStakeSeenOrphan' \subseteq setStakeSeenOrphan
        /\ \A s \in setStakeSeenOrphan' : \E q \in mapOrphanBlocks' : Stake[q] = s
    BY <1>6, OrphanForgotten DEF AcceptOrphan
  <2>2. CASE Acceptable(o)
    BY <1>6, <2>1, <2>2, AddKeepsHeld DEF AcceptOrphan
  <2>3. CASE ~Acceptable(o)
    <3>1. UNCHANGED <<mapBlockIndex, setStakeSeen, vWorkQueue, pc, current, crashes, failures>>
      BY <1>6, <2>3 DEF AcceptOrphan, chainVars
    <3>2. CallTypes' BY <2>1, <3>1 DEF HeldInv, CallTypes
    <3>3. StakesOfIndex' BY <2>1, <3>1 DEF HeldInv, StakesOfIndex
    <3>4. QueueInv' BY <2>1, <3>1 DEF HeldInv, QueueInv
    <3>5. WaitInv' BY <2>1, <3>1 DEF HeldInv, WaitInv
    <3>. QED BY <3>2, <3>3, <3>4, <3>5 DEF HeldInv
  <2>. QED BY <2>2, <2>3
<1>7. CASE FinishBlock
  <2>1. /\ pc = "orphans" /\ Ready = {} /\ vWorkQueue' = {} /\ pc' = "idle"
        /\ UNCHANGED <<mapBlockIndex, setStakeSeen, orphanVars, current, crashes, failures>>
    BY <1>7 DEF FinishBlock, chainVars
  <2>2. CallTypes' BY <2>1 DEF HeldInv, CallTypes, orphanVars
  <2>3. StakesOfIndex' BY <2>1 DEF HeldInv, StakesOfIndex, orphanVars
  <2>4. QueueInv' BY <2>1 DEF QueueInv
  <2>5. WaitInv' BY <2>1 DEF HeldInv, WaitInv, orphanVars, Ready
  <2>. QED BY <2>2, <2>3, <2>4, <2>5 DEF HeldInv
<1>8. ASSUME NEW h \in Blocks, KeepAsPending(h) PROVE HeldInv'
  BY <1>8, <1>b, HeldUnchanged DEF KeepAsPending, chainVars, HeldInv, QueueInv
<1>9. ASSUME NEW h \in Blocks, ProcessSyncCheckpoint(h) PROVE HeldInv'
  <2>1. /\ pc = "idle" /\ pc' = "writeMessage"
        /\ UNCHANGED <<mapBlockIndex, setStakeSeen, orphanVars, vWorkQueue, crashes, failures>>
    BY <1>9 DEF ProcessSyncCheckpoint, SwitchSucceeds, chainVars
  <2>. QED BY <1>b, <2>1, HeldUnchanged DEF HeldInv, QueueInv
<1>10. ASSUME NEW b \in Blocks, SwitchStops(b) PROVE HeldInv'
  <2>1. /\ pc' = "stopped"
        /\ UNCHANGED <<mapBlockIndex, setStakeSeen, orphanVars, vWorkQueue, crashes>>
        /\ failures' = failures \/ (failures < MaxFailures /\ failures' = failures + 1)
    BY <1>10 DEF SwitchStops, SwitchStopsShort
  <2>2. CallTypes'
    <3>1. failures' \in 0 .. MaxFailures BY <1>a, <2>1
    <3>. QED BY <2>1, <3>1 DEF HeldInv, CallTypes, orphanVars
  <2>3. StakesOfIndex'
    <3>1. pc # "down" BY <1>10 DEF SwitchStops, Switching
    <3>. QED BY <2>1, <3>1 DEF HeldInv, StakesOfIndex, orphanVars
  <2>4. QueueInv' BY <2>1 DEF QueueInv
  <2>5. WaitInv' BY <2>1 DEF WaitInv
  <2>. QED BY <2>2, <2>3, <2>4, <2>5 DEF HeldInv
<1>11. CASE WriteSyncCheckpoint
  <2>1. /\ pc' = IF pc = "writePending" THEN "orphans" ELSE "idle"
        /\ pc \in {"writePending", "writeMessage"}
        /\ UNCHANGED <<mapBlockIndex, setStakeSeen, orphanVars, vWorkQueue, crashes, failures>>
    BY <1>11 DEF WriteSyncCheckpoint, AfterWrite
  <2>. QED BY <1>b, <2>1, HeldUnchanged DEF HeldInv, QueueInv
<1>12. CASE WriteSyncCheckpointFails
  <2>1. /\ pc' = IF pc = "writePending" THEN "orphans" ELSE "idle"
        /\ pc \in {"writePending", "writeMessage"}
        /\ UNCHANGED <<mapBlockIndex, setStakeSeen, orphanVars, vWorkQueue, crashes>>
        /\ failures < MaxFailures /\ failures' = failures + 1
    BY <1>12 DEF WriteSyncCheckpointFails, AfterWrite, chainVars
  <2>2. failures' \in failures .. MaxFailures BY <1>a, <2>1
  <2>. QED BY <2>1, <2>2, HeldUnchanged DEF HeldInv, QueueInv
<1>13. ASSUME LoseMemory PROVE HeldInv'
  <2>1. /\ pc' = "down" /\ mapOrphanBlocks' = {} /\ setStakeSeenOrphan' = {} /\ vWorkQueue' = {}
        /\ UNCHANGED <<setStakeSeen, failures>>
    BY <1>13 DEF LoseMemory
  <2>2. crashes' \in 0 .. MaxCrashes BY <1>13, <1>a DEF LoseMemory
  <2>3. CallTypes' BY <2>1, <2>2 DEF HeldInv, CallTypes
  <2>4. StakesOfIndex' /\ QueueInv' /\ WaitInv' BY <2>1 DEF StakesOfIndex, QueueInv, WaitInv
  <2>. QED BY <2>3, <2>4 DEF HeldInv
<1>14. CASE Crash \/ \E b \in Blocks : CrashInSwitch(b)
  BY <1>13, <1>14 DEF Crash, CrashInSwitch
<1>15. ASSUME Load, pc' \in {"idle", "reset"} PROVE HeldInv'
  <2>1. /\ pc = "down" /\ mapBlockIndex' = disk.index
        /\ setStakeSeen' = UNION {StakeOf(b) : b \in disk.index}
        /\ UNCHANGED <<orphanVars, vWorkQueue, crashes, failures>>
    BY <1>15 DEF Load
  <2>2. mapOrphanBlocks = {} /\ vWorkQueue = {} BY <2>1 DEF HeldInv, QueueInv
  <2>3. disk.index \subseteq Blocks BY DEF IInv, TypeInv
  <2>4. setStakeSeen' = {Stake[b] : b \in disk.index} \ {Nil} /\ setStakeSeen' \subseteq Stakes
    BY <2>1, <2>3, StakeOfStakes
  <2>5. CallTypes' BY <1>15, <2>1, <2>4 DEF HeldInv, CallTypes, orphanVars
  <2>6. StakesOfIndex' BY <2>1, <2>4 DEF HeldInv, StakesOfIndex, orphanVars
  <2>7. QueueInv' /\ WaitInv' BY <2>1, <2>2 DEF QueueInv, WaitInv, orphanVars
  <2>. QED BY <2>5, <2>6, <2>7 DEF HeldInv
<1>16. CASE Start \/ StartNewRelease BY <1>15, <1>16 DEF Start, StartNewRelease
<1>17. ASSUME pc \in {"reset", "writeReset"}, pc' \in {"writeReset", "idle", "down"},
              UNCHANGED <<mapBlockIndex, setStakeSeen, orphanVars, vWorkQueue, crashes>>,
              failures' = failures \/ (failures < MaxFailures /\ failures' = failures + 1)
       PROVE  HeldInv'
  <2>1. failures' \in 0 .. MaxFailures BY <1>17, <1>a
  <2>2. CallTypes' BY <1>17, <2>1 DEF HeldInv, CallTypes, orphanVars
  <2>3. StakesOfIndex' BY <1>17 DEF HeldInv, StakesOfIndex, orphanVars
  <2>4. QueueInv' /\ WaitInv' BY <1>17 DEF HeldInv, QueueInv, WaitInv, orphanVars
  <2>. QED BY <2>2, <2>3, <2>4 DEF HeldInv
<1>18. ASSUME NEW h \in Hardened, ResetSyncCheckpoint(h) PROVE HeldInv'
  <2>1. /\ pc = "reset" /\ pc' \in {"writeReset", "down"}
        /\ UNCHANGED <<mapBlockIndex, setStakeSeen, orphanVars, vWorkQueue, crashes>>
        /\ failures' = failures \/ (failures < MaxFailures /\ failures' = failures + 1)
    BY <1>18 DEF ResetSyncCheckpoint, ExitNode, SwitchSucceeds, SwitchFails, chainVars
  <2>. QED BY <1>17, <2>1
<1>19. ASSUME NEW c \in Hardened, WriteReset(c) PROVE HeldInv'
  BY <1>17, <1>19 DEF WriteReset
<1>20. CASE WriteResetFails
  BY <1>17, <1>20 DEF WriteResetFails, ExitNode, chainVars
<1>21. CASE UNCHANGED vars
  BY <1>21 DEF vars, HeldInv, CallTypes, StakesOfIndex, QueueInv, WaitInv, chainVars, orphanVars
<1> QED
  BY <1>1, <1>2, <1>3, <1>4, <1>5, <1>6, <1>7, <1>8, <1>9, <1>10, <1>11, <1>12,
     <1>14, <1>16, <1>18, <1>19, <1>20, <1>21 DEF Next

\* The two sets of stakes are those of the index and of blocks that are held, and
\* between two calls no orphan block that could be connected has been forgotten:
\* it waits for a block that is not known (ProcessBlock, AcceptBlock,
\* AddToBlockIndex, LoadBlockIndex).
THEOREM IntakeStaysSound == Spec => []IntakeSound
<1>1. Init => HeldInv
  BY HeldInit
<1>2. IInv /\ HeldInv /\ [Next]_vars => HeldInv'
  BY HeldNext
<1>3. IInv /\ HeldInv => IntakeSound
  BY DEF IInv, TypeInv, HeldInv, CallTypes, QueueInv, WaitInv, IntakeSound, TypeOK, GoodOrphansWait
<1> QED
  BY <1>1, <1>2, <1>3, Inductive, PTL DEF Spec

=============================================================================
