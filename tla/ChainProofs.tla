----------------------------- MODULE ChainProofs -----------------------------
(***************************************************************************)
(* Theorems about the best chain and the wallet that follows it.           *)
(*                                                                         *)
(* About ChainState for every tree of blocks, every set of transactions    *)
(* and any number of crashes and failures: type correctness, the agreement *)
(* of the transaction index with the best chain, the validity of the best  *)
(* chain, the implementation of Ledger, the agreement of pnext, hashNext   *)
(* and the memory pool with the best chain, and that the best chain is the *)
(* one with the most trust.                                                *)
(*                                                                         *)
(* About WalletChain: what the wallet says of its transactions agrees with *)
(* the best chain.                                                         *)
(***************************************************************************)
EXTENDS WalletChain, TreeLemmas, FiniteSetTheorems

-----------------------------------------------------------------------------
(***************************************************************************)
(* Types.                                                                  *)
(***************************************************************************)

\* The transactions of a block are transactions, at integer positions.
LEMMA TxsOfType ==
    ASSUME NEW b \in Blocks
    PROVE  /\ TxsOf(b) \subseteq Txs
           /\ DOMAIN vtx[b] \subseteq Int
           /\ \A i \in DOMAIN vtx[b] : vtx[b][i] \in Txs
<1>1. vtx[b] \in Seq(Txs)
  BY TxAssumption
<1> QED
  BY <1>1 DEF TxsOf

\* What is spent are outputs, and their transaction is one.
LEMMA OutPointType ==
    /\ \A t \in Txs : vin[t] \subseteq OutPoints
    /\ \A o \in OutPoints : o[1] \in Txs
BY TxAssumption DEF OutPoints

\* The first target lies on the branch of the new block, and has more trust
\* than the best block unless it is the new block.
LEMMA FirstTargetOnBranch ==
    ASSUME NEW b \in Blocks, NEW best \in Blocks
    PROVE  /\ FirstTarget(b, best) \in Branch[b]
           /\ \/ FirstTarget(b, best) = b
              \/ bnChainTrust[FirstTarget(b, best)] > bnChainTrust[best]
<1> DEFINE better == {c \in Branch[b] : c = b \/ bnChainTrust[c] > bnChainTrust[best]}
<1>1. better \subseteq Blocks /\ better # {}
  BY OwnBranch
<1>2. PICK c \in better : \A d \in better : nHeight[c] <= nHeight[d]
  BY <1>1, LeastHeight
<1>3. ASSUME NEW d \in better PROVE c \in Branch[d]
  <2>1. c \in Branch[d] \/ d \in Branch[c]
    BY BranchAssumption
  <2>2. CASE d \in Branch[c] /\ d # c
    <3>1. nHeight[d] < nHeight[c]
      BY <1>1, <2>2, LowerOnBranch
    <3> QED
      BY <1>1, <1>2, <3>1, TreeAssumption
  <2> QED
    BY <1>1, <2>1, <2>2, OwnBranch
<1>4. FirstTarget(b, best) \in better
  BY <1>3 DEF FirstTarget
<1> QED
  BY <1>4

LEMMA EmptyDBType == EmptyDB \in TxDB
BY TreeAssumption DEF EmptyDB, TxDB

LEMMA DisconnectedType ==
    ASSUME NEW d \in TxDB, NEW b \in Blocks
    PROVE  Disconnected(d, b) \in TxDB
BY DEF Disconnected, TxDB

LEMMA ConnectedType ==
    ASSUME NEW d \in TxDB, NEW b \in Blocks \ {Genesis}, pnext \in [Blocks -> Blocks \union {Nil}]
    PROVE  Connected(d, b) \in TxDB
<1>1. \A o \in UNION {vin[t] : t \in TxsOf(b)} : <<b, Spender(b, o)>> \in TxPos
  BY TxsOfType DEF Spender, TxPos
<1> QED
  BY <1>1 DEF Connected, TxDB

LEMMA PoolIndexType ==
    ASSUME NEW pool \in SUBSET Txs
    PROVE  PoolIndex(pool) \in [OutPoints -> Txs \union {Nil}]
BY DEF PoolIndex

LEMMA NextAfterType ==
    ASSUME NEW from \in Blocks, NEW to \in Blocks, pnext \in [Blocks -> Blocks \union {Nil}]
    PROVE  NextAfter(from, to) \in [Blocks -> Blocks \union {Nil}]
<1>1. ASSUME NEW b \in Branch[to] PROVE b # Genesis => NextOnPath(pprev[b], to) \in Blocks
  <2> SUFFICES ASSUME b # Genesis PROVE NextOnPath(pprev[b], to) \in Branch[to]
    BY OwnBranch
  <2>1. b \in Blocks /\ pprev[b] \in Branch[b] /\ b \notin Branch[pprev[b]]
    BY BranchStep, OwnBranch
  <2>2. pprev[b] \in Branch[to] /\ pprev[b] # to
    BY <2>1, BranchAssumption
  <2> QED
    BY <2>2, NextOnPathExists
<1>2. \A b \in Branch[to] \ Branch[from] : b # Genesis
  BY GenesisOnBranch
<1> QED
  BY <1>1, <1>2 DEF NextAfter

\* A step of the switch moves towards a block of the branch of pindexNew.
TargetOnPath ==
    pc = "switch" => target \in Branch[pindexNew] /\ (secondary => target # Genesis)

TypeInv == TypeOK /\ TargetOnPath

LEMMA TypeInit == Init => TypeInv
<1> SUFFICES ASSUME Init PROVE TypeInv
  OBVIOUS
<1>1. mapNextTx \in [OutPoints -> Txs \union {Nil}]
  BY PoolIndexType DEF Init
<1>2. disk \in TxDB /\ txn \in TxDB
  BY EmptyDBType DEF Init
<1>3. pnext \in [Blocks -> Blocks \union {Nil}]
  BY DEF Init
<1>4. crashes \in 0 .. MaxCrashes /\ failures \in 0 .. MaxFailures
  BY BoundsAssumption DEF Init
<1> QED
  BY <1>1, <1>2, <1>3, <1>4, TreeAssumption DEF Init, TypeInv, TypeOK, TargetOnPath

\* SetBestChain leaves well-typed variables behind.
LEMMA SetBestChainType ==
    ASSUME NEW db \in TxDB, NEW best \in Blocks, NEW b \in Blocks,
           SetBestChain(db, best, b)
    PROVE  /\ pc' = "switch" /\ txn' \in TxDB /\ secondary' \in BOOLEAN
           /\ {pindexNew', target', tip'} \subseteq Blocks
           /\ vResurrect' \subseteq Txs /\ vDelete' \subseteq Txs
           /\ target' \in Branch[pindexNew'] /\ ~secondary'
BY FirstTargetOnBranch, OwnBranch DEF SetBestChain, Begin

\* The same for giving up.
LEMMA GiveUpType ==
    ASSUME TypeInv, GiveUp
    PROVE  /\ pindexBest' \in Blocks /\ intact' \in BOOLEAN /\ pc' = "idle"
           /\ UNCHANGED <<mapBlockIndex, pnext, disk, switchVars, poolVars, crashes>>
BY DEF TypeInv, TypeOK, GiveUp

LEMMA TypeNext == TypeInv /\ [Next]_vars => TypeInv'
<1> SUFFICES ASSUME TypeInv, [Next]_vars PROVE TypeInv'
  OBVIOUS
<1> USE DEF TypeInv, TypeOK, TargetOnPath
<1>1. ASSUME NEW b \in Blocks, AcceptBlock(b) PROVE TypeInv'
  <2>1. disk' \in TxDB /\ mapBlockIndex' \subseteq Blocks
    BY <1>1 DEF AcceptBlock, TxDB
  <2>2. CASE SetBestChain(disk', pindexBest, b)
    BY <1>1, <2>1, <2>2, SetBestChainType DEF AcceptBlock, poolVars, faultVars
  <2>3. CASE UNCHANGED <<pc, switchVars>>
    BY <1>1, <2>1, <2>3 DEF AcceptBlock, poolVars, faultVars, switchVars
  <2> QED
    BY <1>1, <2>2, <2>3 DEF AcceptBlock
<1>2. ASSUME NEW b \in Blocks, SwitchToCheckpoint(b) PROVE TypeInv'
  BY <1>2, SetBestChainType DEF SwitchToCheckpoint, poolVars, faultVars
<1>3. ASSUME NEW t \in Txs, AcceptToMemoryPool(t) PROVE TypeInv'
  BY <1>3 DEF AcceptToMemoryPool, AddUnchecked, switchVars, faultVars
<1>4. CASE DisconnectBlock
  <2>1. tip # Genesis /\ pprev[tip] \in Blocks
    BY <1>4, GenesisOnBranch, BranchStep DEF DisconnectBlock
  <2>2. txn' \in TxDB
    BY <1>4, DisconnectedType DEF DisconnectBlock
  <2> QED
    BY <1>4, <2>1, <2>2, TxsOfType DEF DisconnectBlock, poolVars, faultVars
<1>5. CASE ConnectBlock
  <2> DEFINE b == NextOnPath(tip, target)
  <2>1. b \in Blocks \ {Genesis}
    BY <1>5, NextOnPathExists, OwnBranch DEF ConnectBlock
  <2>2. txn' \in TxDB
    BY <1>5, <2>1, ConnectedType DEF ConnectBlock
  <2>3. TxsOf(b) \subseteq Txs
    BY <2>1, TxsOfType
  <2>4. intact' \in BOOLEAN
    BY <1>5 DEF ConnectBlock
  <2> QED
    BY <1>5, <2>1, <2>2, <2>3, <2>4 DEF ConnectBlock, poolVars, faultVars
<1>6. CASE SwitchFails
  BY <1>6, GiveUpType DEF SwitchFails, switchVars, poolVars
<1>7. CASE DatabaseFails
  <2>1. failures' \in 0 .. MaxFailures
    BY <1>7, BoundsAssumption DEF DatabaseFails
  <2> QED
    BY <1>7, <2>1, GiveUpType DEF DatabaseFails, switchVars, poolVars
<1>8. CASE Commit
  <2>1. disk' \in TxDB
    BY <1>8 DEF Commit, TxDB
  <2>2. pnext' \in [Blocks -> Blocks \union {Nil}]
    <3>1. secondary => pprev[target] \in Blocks
      BY <1>8, BranchStep DEF Commit
    <3> QED
      BY <1>8, <3>1, NextAfterType DEF Commit
  <2>3. mapTx' \subseteq Txs /\ mapNextTx' \in [OutPoints -> Txs \union {Nil}]
    BY <1>8, PoolIndexType DEF Commit, UpdatePool, Resurrected
  <2>4. CASE target = pindexNew
    BY <1>8, <2>1, <2>2, <2>3, <2>4 DEF Commit, switchVars, faultVars
  <2>5. CASE target # pindexNew
    <3>1. NextOnPath(target, pindexNew) \in Branch[pindexNew] \ {Genesis}
      BY <1>8, <2>5, NextOnPathExists DEF Commit
    <3> QED
      BY <1>8, <2>1, <2>2, <2>3, <2>5, <3>1, OwnBranch DEF Commit, Begin, faultVars
  <2> QED
    BY <2>4, <2>5
<1>9. CASE Crash
  <2>1. crashes' \in 0 .. MaxCrashes
    BY <1>9, BoundsAssumption DEF Crash
  <2> QED
    BY <1>9, <2>1, PoolIndexType DEF Crash, switchVars
<1>10. CASE Start
  BY <1>10 DEF Start, Load, TxDB, switchVars, poolVars, faultVars
<1>11. ASSUME NEW b \in Blocks, StartAndRollBack(b) PROVE TypeInv'
  <2>1. disk.best \in Blocks /\ disk.index \subseteq Blocks
        /\ disk.next \in [Blocks -> Blocks \union {Nil}]
    BY DEF TxDB
  <2> QED
    BY <1>11, <2>1, SetBestChainType DEF StartAndRollBack, Load, poolVars, faultVars
<1>12. CASE UNCHANGED vars
  BY <1>12 DEF vars, switchVars, poolVars, faultVars
<1> QED
  BY <1>1, <1>2, <1>3, <1>4, <1>5, <1>6, <1>7, <1>8, <1>9, <1>10, <1>11, <1>12 DEF Next

\* Every variable keeps its type, whatever the tree of blocks.
THEOREM TypeCorrect == Spec => []TypeOK
<1>1. Init => TypeInv
  BY TypeInit
<1>2. TypeInv /\ [Next]_vars => TypeInv'
  BY TypeNext
<1>3. TypeInv => TypeOK
  BY DEF TypeInv
<1> QED
  BY <1>1, <1>2, <1>3, PTL DEF Spec

-----------------------------------------------------------------------------
(***************************************************************************)
(* Undoing and redoing one block.                                          *)
(***************************************************************************)

\* A valid chain, cut off at its end, is a valid chain.
LEMMA ValidPrefix ==
    ASSUME NEW b \in Blocks \ {Genesis}, ValidChain(b)
    PROVE  ValidChain(pprev[b])
BY BranchStep DEF ValidChain

\* Every input on a valid branch refers to an output of a transaction of the
\* branch.
LEMMA InputOnBranch ==
    ASSUME NEW b \in Blocks, ValidChain(b), NEW c \in Branch[b], NEW t \in TxsOf(c),
           NEW o \in vin[t]
    PROVE  o[1] \in TxsOnBranch(b) /\ InRange(o)
<1>1. c # Genesis
  BY TxAssumption DEF TxsOf
<1>2. PICK i \in DOMAIN vtx[c] : vtx[c][i] = t
  BY DEF TxsOf
<1>3. InputExists(c, i, o)
  BY <1>1, <1>2 DEF ValidChain
<1>4. PICK d \in Branch[c] : o[1] \in TxsOf(d) /\ InRange(o)
  BY <1>3 DEF InputExists, TxsOf
<1>5. d \in Branch[b]
  BY <1>4, BranchAssumption
<1> QED
  BY <1>4, <1>5 DEF TxsOnBranch

\* The last block of a valid branch shares no input with the blocks below it.
LEMMA LastBlockFresh ==
    ASSUME NEW b \in Blocks \ {Genesis}, ValidChain(b), NEW c \in Branch[pprev[b]],
           NEW t \in TxsOf(c), NEW u \in TxsOf(b)
    PROVE  vin[t] \intersect vin[u] = {}
<1>1. PICK i \in DOMAIN vtx[b] : vtx[b][i] = u
  BY DEF TxsOf
<1>2. PICK j \in DOMAIN vtx[c] : vtx[c][j] = t
  BY DEF TxsOf
<1>3. Before(c, j, b, i)
  BY BranchStep DEF Before
<1>4. \A o \in vin[u] : InputFresh(b, i, o)
  BY <1>1, BranchStep DEF ValidChain
<1> QED
  BY <1>2, <1>3, <1>4, BranchStep DEF InputFresh

\* A block at the end of a valid chain can be disconnected.
LEMMA DisconnectPossible ==
    ASSUME NEW d, NEW b \in Blocks \ {Genesis}, ValidChain(b), ViewMatches(d, b)
    PROVE  CanDisconnect(d, b)
<1> SUFFICES ASSUME NEW i \in DOMAIN vtx[b], NEW o \in vin[vtx[b][i]]
             PROVE  /\ d.pos[o[1]] # Nil
                    /\ InRange(o)
                    /\ \A j \in DOMAIN vtx[b] : j > i => vtx[b][j] # o[1]
  BY DEF CanDisconnect
<1>1. InputExists(b, i, o)
  BY BranchStep DEF ValidChain
<1>2. PICK c \in Branch[b] : \E k \in DOMAIN vtx[c] :
        vtx[c][k] = o[1] /\ Before(c, k, b, i) /\ InRange(o)
  BY <1>1 DEF InputExists
<1>3. PICK k \in DOMAIN vtx[c] :
        vtx[c][k] = o[1] /\ Before(c, k, b, i) /\ InRange(o)
  BY <1>2
<1>4. o[1] \in TxsOf(c) /\ c \in Blocks
  BY <1>3, OwnBranch DEF TxsOf
<1>5. d.pos[o[1]] = c /\ c # Nil
  BY <1>4, NilAssumption DEF ViewMatches
<1>6. ASSUME NEW j \in DOMAIN vtx[b], j > i, vtx[b][j] = o[1] PROVE FALSE
  <2>1. i \in Int /\ j \in Int /\ k \in Int
    BY <1>3, <1>4, TxsOfType
  <2>2. CASE c = b
    <3>1. k < i /\ k = j
      BY <1>3, <1>6, <2>2, TxAssumption DEF Before
    <3> QED
      BY <3>1, <2>1, <1>6
  <2>3. CASE c # b
    <3>1. c \in Branch[pprev[b]] /\ o[1] \in TxsOf(b)
      BY <2>3, <1>6, BranchStep DEF TxsOf
    <3> QED
      BY <3>1, <1>4, BranchStep DEF ValidChain, TxsOnBranch
  <2> QED
    BY <2>2, <2>3
<1> QED
  BY <1>3, <1>5, <1>6

\* Disconnecting the last block turns the index of a branch into the index
\* of the branch without it.
LEMMA DisconnectMatches ==
    ASSUME NEW d \in TxDB, NEW b \in Blocks \ {Genesis}, ValidChain(b), ViewMatches(d, b)
    PROVE  ViewMatches(Disconnected(d, b), pprev[b])
<1> DEFINE e == Disconnected(d, b)
           freed == UNION {vin[t] : t \in TxsOf(b)}
<1>1. /\ e.pos = [t \in Txs |-> IF t \in TxsOf(b) THEN Nil ELSE d.pos[t]]
      /\ e.spent = [o \in OutPoints |->
            IF o \in freed \/ o[1] \in TxsOf(b) THEN Nil ELSE d.spent[o]]
  BY DEF Disconnected, TxDB
<1>2. \A c \in Branch[pprev[b]] : c \in Branch[b] /\ c \in Blocks /\ TxsOf(c) \subseteq Txs
  BY BranchStep, OwnBranch, TxsOfType
<1>3. \A c \in Branch[pprev[b]] : TxsOf(c) \intersect TxsOf(b) = {}
  BY BranchStep DEF ValidChain, TxsOnBranch
<1>4. ASSUME NEW c \in Branch[pprev[b]], NEW t \in TxsOf(c) PROVE e.pos[t] = c
  BY <1>1, <1>2, <1>3 DEF ViewMatches
<1>5. ASSUME NEW t \in Txs, e.pos[t] # Nil
      PROVE  e.pos[t] \in Branch[pprev[b]] /\ t \in TxsOf(e.pos[t])
  BY <1>1, <1>5, BranchStep DEF ViewMatches
<1>6. ASSUME NEW c \in Branch[pprev[b]], NEW t \in TxsOf(c), NEW o \in vin[t]
      PROVE  e.spent[o] = <<c, t>>
  <2>1. o \notin freed
    BY LastBlockFresh
  <2>2. o[1] \notin TxsOf(b)
    <3>1. o[1] \in TxsOnBranch(pprev[b])
      BY ValidPrefix, InputOnBranch, BranchStep
    <3> QED
      BY <3>1, <1>3 DEF TxsOnBranch
  <2>3. o \in OutPoints
    BY <1>2, OutPointType
  <2> QED
    BY <1>1, <1>2, <2>1, <2>2, <2>3 DEF ViewMatches
<1>7. ASSUME NEW o \in OutPoints, e.spent[o] # Nil
      PROVE  \E c \in Branch[pprev[b]] : \E t \in TxsOf(c) :
                o \in vin[t] /\ e.spent[o] = <<c, t>>
  <2>1. o \notin freed /\ e.spent[o] = d.spent[o]
    BY <1>1, <1>7
  <2>2. PICK c \in Branch[b] : \E t \in TxsOf(c) : o \in vin[t] /\ d.spent[o] = <<c, t>>
    BY <2>1, <1>7 DEF ViewMatches
  <2>3. c # b
    BY <2>1, <2>2
  <2> QED
    BY <2>1, <2>2, <2>3, BranchStep
<1> HIDE DEF e
<1> QED
  BY <1>4, <1>5, <1>6, <1>7 DEF ViewMatches, e

\* A block that can be connected, and repeats no transaction of the branch,
\* extends a valid chain to a valid chain.
LEMMA ConnectValid ==
    ASSUME NEW d \in TxDB, NEW b \in Blocks \ {Genesis},
           ValidChain(pprev[b]), ViewMatches(d, pprev[b]), CanConnect(d, b),
           \A t \in TxsOf(b) : d.pos[t] = Nil
    PROVE  ValidChain(b)
<1>1. TxsOf(b) \intersect TxsOnBranch(pprev[b]) = {}
  <2> SUFFICES ASSUME NEW c \in Branch[pprev[b]], NEW t \in TxsOf(c), t \in TxsOf(b)
               PROVE  FALSE
    BY DEF TxsOnBranch
  <2>1. d.pos[t] = c /\ c \in Blocks
    BY BranchStep, OwnBranch DEF ViewMatches
  <2> QED
    BY <2>1, NilAssumption
<1>2. ASSUME NEW i \in DOMAIN vtx[b], NEW o \in vin[vtx[b][i]]
      PROVE  InputExists(b, i, o) /\ InputFresh(b, i, o)
  <2>1. CanSpend(d, b, i, o) /\ o \in OutPoints /\ o[1] \in Txs
    BY TxsOfType, OutPointType DEF CanConnect
  <2>2. InputExists(b, i, o)
    <3>1. CASE MadeEarlier(b, i, o[1])
      <4>1. PICK j \in DOMAIN vtx[b] : j < i /\ vtx[b][j] = o[1]
        BY <3>1 DEF MadeEarlier
      <4> QED
        BY <2>1, <3>1, <4>1, OwnBranch DEF CanSpend, FetchedPos, InputExists, Before
    <3>2. CASE ~MadeEarlier(b, i, o[1])
      <4> DEFINE p == d.pos[o[1]]
      <4>1. p # Nil /\ InRange(o) /\ (o[1] \in Generated => ~Immature(p, b))
        BY <2>1, <3>2 DEF CanSpend, FetchedPos
      <4>2. p \in Branch[pprev[b]] /\ o[1] \in TxsOf(p)
        BY <2>1, <4>1 DEF ViewMatches
      <4>3. p \in Branch[b] /\ p # b
        BY <4>2, BranchStep
      <4>4. PICK j \in DOMAIN vtx[p] : vtx[p][j] = o[1]
        BY <4>2 DEF TxsOf
      <4> QED
        BY <4>1, <4>3, <4>4 DEF InputExists, Before
    <3> QED
      BY <3>1, <3>2
  <2>3. InputFresh(b, i, o)
    <3> SUFFICES ASSUME NEW c \in Branch[b], NEW j \in DOMAIN vtx[c],
                        Before(c, j, b, i), o \in vin[vtx[c][j]]
                 PROVE  FALSE
      BY DEF InputFresh
    <3>1. CASE c = b
      BY <2>1, <3>1 DEF CanSpend, Before
    <3>2. CASE c # b
      <4>1. c \in Branch[pprev[b]] /\ c \in Blocks /\ vtx[c][j] \in TxsOf(c)
        BY <3>2, BranchStep, OwnBranch DEF TxsOf
      <4>2. d.spent[o] = <<c, vtx[c][j]>> /\ <<c, vtx[c][j]>> \in TxPos
        BY <4>1, TxsOfType DEF ViewMatches, TxPos
      <4>3. MadeEarlier(b, i, o[1])
        BY <2>1, <4>2, NilAssumption DEF CanSpend
      <4>4. o[1] \in TxsOf(b)
        BY <4>3 DEF MadeEarlier, TxsOf
      <4>5. o[1] \in TxsOnBranch(pprev[b])
        BY <4>1, InputOnBranch, BranchStep
      <4> QED
        BY <1>1, <4>4, <4>5
    <3> QED
      BY <3>1, <3>2
  <2> QED
    BY <2>2, <2>3
<1>3. b \in Sound
  BY DEF CanConnect
<1> QED
  BY <1>1, <1>2, <1>3, BranchStep DEF ValidChain

\* Two transactions of a block of a valid chain share no input.
LEMMA SpenderUnique ==
    ASSUME NEW b \in Blocks \ {Genesis}, ValidChain(b), NEW t \in TxsOf(b), NEW o \in vin[t]
    PROVE  Spender(b, o) = t
<1> SUFFICES ASSUME NEW u \in TxsOf(b), o \in vin[u], u # t PROVE FALSE
  BY DEF Spender
<1>1. PICK i \in DOMAIN vtx[b] : vtx[b][i] = t
  BY DEF TxsOf
<1>2. PICK j \in DOMAIN vtx[b] : vtx[b][j] = u
  BY DEF TxsOf
<1>3. i < j \/ j < i
  BY <1>1, <1>2, TxsOfType
<1>4. InputFresh(b, i, o) /\ InputFresh(b, j, o)
  BY <1>1, <1>2, OwnBranch DEF ValidChain
<1> QED
  BY <1>1, <1>2, <1>3, <1>4, OwnBranch DEF InputFresh, Before

\* Connecting a block turns the index of a branch into the index of the
\* branch with it.
LEMMA ConnectMatches ==
    ASSUME NEW d \in TxDB, NEW b \in Blocks \ {Genesis}, ValidChain(b),
           ViewMatches(d, pprev[b])
    PROVE  ViewMatches(Connected(d, b), b)
<1> DEFINE e == Connected(d, b)
           taken == UNION {vin[t] : t \in TxsOf(b)}
<1>1. /\ e.pos = [t \in Txs |-> IF t \in TxsOf(b) THEN b ELSE d.pos[t]]
      /\ e.spent = [o \in OutPoints |->
            IF o \in taken THEN <<b, Spender(b, o)>>
            ELSE IF o[1] \in TxsOf(b) THEN Nil ELSE d.spent[o]]
  BY DEF Connected, TxDB
<1>2. \A c \in Branch[b] : c \in Blocks /\ TxsOf(c) \subseteq Txs
  BY OwnBranch, TxsOfType
<1>3. \A c \in Branch[pprev[b]] : TxsOf(c) \intersect TxsOf(b) = {}
  BY BranchStep DEF ValidChain, TxsOnBranch
<1>4. ASSUME NEW c \in Branch[b], NEW t \in TxsOf(c) PROVE e.pos[t] = c
  <2>1. CASE c = b
    BY <1>1, <1>2, <2>1
  <2>2. CASE c # b
    BY <1>1, <1>2, <1>3, <2>2, BranchStep DEF ViewMatches
  <2> QED
    BY <2>1, <2>2
<1>5. ASSUME NEW t \in Txs, e.pos[t] # Nil PROVE e.pos[t] \in Branch[b] /\ t \in TxsOf(e.pos[t])
  BY <1>1, <1>5, BranchStep DEF ViewMatches
<1>6. ASSUME NEW c \in Branch[b], NEW t \in TxsOf(c), NEW o \in vin[t]
      PROVE  e.spent[o] = <<c, t>>
  <2>1. o \in OutPoints
    BY <1>2, OutPointType
  <2>2. CASE c = b
    BY <1>1, <2>1, <2>2, SpenderUnique
  <2>3. CASE c # b
    <3>1. c \in Branch[pprev[b]]
      BY <2>3, BranchStep
    <3>2. o \notin taken
      BY <3>1, LastBlockFresh
    <3>3. o[1] \notin TxsOf(b)
      <4>1. o[1] \in TxsOnBranch(pprev[b])
        BY <3>1, ValidPrefix, InputOnBranch, BranchStep
      <4> QED
        BY <4>1, <1>3 DEF TxsOnBranch
    <3> QED
      BY <1>1, <2>1, <3>1, <3>2, <3>3 DEF ViewMatches
  <2> QED
    BY <2>2, <2>3
<1>7. ASSUME NEW o \in OutPoints, e.spent[o] # Nil
      PROVE  \E c \in Branch[b] : \E t \in TxsOf(c) : o \in vin[t] /\ e.spent[o] = <<c, t>>
  <2>1. CASE o \in taken
    <3>1. PICK t \in TxsOf(b) : o \in vin[t]
      BY <2>1
    <3> QED
      BY <1>1, <2>1, <3>1, SpenderUnique, OwnBranch
  <2>2. CASE o \notin taken
    <3>1. e.spent[o] = d.spent[o]
      BY <1>1, <1>7, <2>2
    <3> QED
      BY <1>7, <3>1, BranchStep DEF ViewMatches
  <2> QED
    BY <2>1, <2>2
<1> HIDE DEF e
<1> QED
  BY <1>4, <1>5, <1>6, <1>7 DEF ViewMatches, e

-----------------------------------------------------------------------------
(***************************************************************************)
(* The invariant: as long as no block was skipped and no record            *)
(* overwritten, the committed index is that of a valid chain, memory and   *)
(* disk agree about the best block between calls, and the open transaction *)
(* is the index of the valid chain that ends at tip.                       *)
(***************************************************************************)
ChainInv ==
    intact =>
        /\ ValidChain(disk.best)
        /\ ViewMatches(disk, disk.best)
        /\ pc = "idle" => pindexBest = disk.best
        /\ pc = "switch" => /\ ~secondary => pindexBest = disk.best
                            /\ ValidChain(tip)
                            /\ ViewMatches(txn, tip)

Inv == TypeInv /\ ChainInv

LEMMA ChainInit == Init => ChainInv
<1> SUFFICES ASSUME Init PROVE ChainInv
  OBVIOUS
<1>1. Branch[Genesis] = {Genesis} /\ TxsOf(Genesis) = {}
  BY BranchAssumption, TxAssumption DEF TxsOf
<1>2. ValidChain(Genesis)
  BY <1>1 DEF ValidChain
<1>3. ViewMatches(EmptyDB, Genesis)
  BY <1>1 DEF ViewMatches, EmptyDB
<1> QED
  BY <1>2, <1>3 DEF Init, ChainInv, EmptyDB

\* Only the transaction records of a view matter.
LEMMA SameRecords ==
    ASSUME NEW d, NEW e, NEW b, d.pos = e.pos, d.spent = e.spent, ViewMatches(d, b)
    PROVE  ViewMatches(e, b)
BY DEF ViewMatches

LEMMA AcceptBlockInv ==
    ASSUME Inv, NEW b \in Blocks, AcceptBlock(b)
    PROVE  ChainInv'
<1> SUFFICES ASSUME intact' PROVE ChainInv'
  BY DEF ChainInv
<1>1. intact /\ pc = "idle" /\ pindexBest' = pindexBest /\ disk \in TxDB
  BY DEF AcceptBlock, Inv, TypeInv, TypeOK
<1>2. disk'.best = disk.best /\ disk'.pos = disk.pos /\ disk'.spent = disk.spent
  BY <1>1 DEF AcceptBlock, TxDB
<1>3. ValidChain(disk.best) /\ ViewMatches(disk, disk.best) /\ pindexBest = disk.best
  BY <1>1 DEF Inv, ChainInv
<1>4. ViewMatches(disk', disk.best)
  BY <1>2, <1>3, SameRecords
<1>5. CASE SetBestChain(disk', pindexBest, b)
  BY <1>1, <1>2, <1>3, <1>4, <1>5 DEF SetBestChain, Begin, ChainInv
<1>6. CASE UNCHANGED <<pc, switchVars>>
  BY <1>1, <1>2, <1>3, <1>4, <1>6 DEF ChainInv
<1> QED
  BY <1>5, <1>6 DEF AcceptBlock

LEMMA DisconnectInv ==
    ASSUME Inv, DisconnectBlock
    PROVE  ChainInv'
<1> SUFFICES ASSUME intact' PROVE ChainInv'
  BY DEF ChainInv
<1>1. /\ intact /\ pc = "switch" /\ tip \notin Branch[target]
      /\ tip \in Blocks /\ target \in Blocks /\ txn \in TxDB
  BY DEF DisconnectBlock, Inv, TypeInv, TypeOK
<1>2. tip \in Blocks \ {Genesis}
  BY <1>1, GenesisOnBranch
<1>3. ValidChain(tip) /\ ViewMatches(txn, tip)
  BY <1>1 DEF Inv, ChainInv
<1>4. ValidChain(tip') /\ ViewMatches(txn', tip')
  BY <1>1, <1>2, <1>3, ValidPrefix, DisconnectMatches DEF DisconnectBlock
<1> QED
  BY <1>1, <1>4 DEF DisconnectBlock, Inv, ChainInv

LEMMA ConnectInv ==
    ASSUME Inv, ConnectBlock
    PROVE  ChainInv'
<1> SUFFICES ASSUME intact' PROVE ChainInv'
  BY DEF ChainInv
<1> DEFINE b == NextOnPath(tip, target)
<1>1. /\ intact /\ pc = "switch" /\ tip \in Branch[target] /\ tip # target
      /\ target \in Blocks /\ txn \in TxDB
      /\ CanConnect(txn, b) /\ txn' = Connected(txn, b) /\ tip' = b
      /\ \A t \in TxsOf(b) : txn.pos[t] = Nil
  BY DEF ConnectBlock, Inv, TypeInv, TypeOK
<1>2. b \in Blocks \ {Genesis} /\ pprev[b] = tip
  BY <1>1, NextOnPathExists, OwnBranch
<1>3. ValidChain(tip) /\ ViewMatches(txn, tip)
  BY <1>1 DEF Inv, ChainInv
<1> HIDE DEF b
<1>4. ValidChain(b)
  BY <1>1, <1>2, <1>3, ConnectValid
<1>5. ViewMatches(txn', b)
  BY <1>1, <1>2, <1>3, <1>4, ConnectMatches
<1> QED
  BY <1>1, <1>4, <1>5 DEF ConnectBlock, Inv, ChainInv

LEMMA CommitInv ==
    ASSUME Inv, Commit
    PROVE  ChainInv'
<1> SUFFICES ASSUME intact' PROVE ChainInv'
  BY DEF ChainInv
<1>1. intact /\ pc = "switch" /\ tip = target /\ txn \in TxDB
  BY DEF Commit, Inv, TypeInv, TypeOK
<1>2. ValidChain(target) /\ ViewMatches(txn, target)
  BY <1>1 DEF Inv, ChainInv
<1>3. disk'.best = target /\ disk'.pos = txn.pos /\ disk'.spent = txn.spent
  BY <1>1 DEF Commit, TxDB
<1>4. ViewMatches(disk', target)
  BY <1>2, <1>3, SameRecords
<1>5. CASE target = pindexNew
  BY <1>2, <1>3, <1>4, <1>5 DEF Commit, ChainInv
<1>6. CASE target # pindexNew
  BY <1>1, <1>2, <1>3, <1>4, <1>6 DEF Commit, Begin, ChainInv
<1> QED
  BY <1>5, <1>6

LEMMA ChainNext == Inv /\ [Next]_vars => ChainInv'
<1> SUFFICES ASSUME Inv, [Next]_vars PROVE ChainInv'
  OBVIOUS
<1>1. ASSUME NEW b \in Blocks, AcceptBlock(b) PROVE ChainInv'
  BY <1>1, AcceptBlockInv
<1>2. ASSUME NEW b \in Blocks, SwitchToCheckpoint(b) PROVE ChainInv'
  BY <1>2 DEF SwitchToCheckpoint, SetBestChain, Begin, Inv, ChainInv
<1>3. ASSUME NEW t \in Txs, AcceptToMemoryPool(t) PROVE ChainInv'
  BY <1>3 DEF AcceptToMemoryPool, switchVars, Inv, ChainInv
<1>4. CASE DisconnectBlock
  BY <1>4, DisconnectInv
<1>5. CASE ConnectBlock
  BY <1>5, ConnectInv
<1>6. CASE SwitchFails
  BY <1>6 DEF SwitchFails, GiveUp, Inv, ChainInv
<1>7. CASE DatabaseFails
  BY <1>7 DEF DatabaseFails, GiveUp, Inv, ChainInv
<1>8. CASE Commit
  BY <1>8, CommitInv
<1>9. CASE Crash
  BY <1>9 DEF Crash, Inv, ChainInv
<1>10. CASE Start
  BY <1>10 DEF Start, Load, Inv, ChainInv
<1>11. ASSUME NEW b \in Blocks, StartAndRollBack(b) PROVE ChainInv'
  BY <1>11 DEF StartAndRollBack, Load, SetBestChain, Begin, Inv, ChainInv
<1>12. CASE UNCHANGED vars
  BY <1>12 DEF vars, switchVars, Inv, ChainInv
<1> QED
  BY <1>1, <1>2, <1>3, <1>4, <1>5, <1>6, <1>7, <1>8, <1>9, <1>10, <1>11, <1>12 DEF Next

LEMMA Invariance == Spec => []Inv
<1>1. Init => Inv
  BY TypeInit, ChainInit DEF Inv
<1>2. Inv /\ [Next]_vars => Inv'
  BY TypeNext, ChainNext DEF Inv
<1> QED
  BY <1>1, <1>2, PTL DEF Spec

-----------------------------------------------------------------------------
\* The chain named by hashBestChain is valid at all times, whatever blocks
\* arrive in whatever order, and wherever the node crashes or the database
\* fails in the middle of a switch.
THEOREM BestChainIsValid == Spec => []BestChainValid
<1>1. Inv => BestChainValid
  BY DEF Inv, ChainInv, BestChainValid
<1> QED
  BY <1>1, Invariance, PTL

\* The transaction index is the one that a scan of the best chain would build.
THEOREM TxIndexIsThatOfBranch == Spec => []TxIndexIsBranch
<1>1. Inv => TxIndexIsBranch
  BY DEF Inv, ChainInv, TxIndexIsBranch
<1> QED
  BY <1>1, Invariance, PTL

\* DisconnectBlock never fails on a block of the best chain.
THEOREM DisconnectNeverFails == Spec => []DisconnectSucceeds
<1>1. Inv => DisconnectSucceeds
  <2> SUFFICES ASSUME Inv, intact, pc = "switch", tip \notin Branch[target]
               PROVE  CanDisconnect(txn, tip)
    BY DEF DisconnectSucceeds
  <2>1. tip \in Blocks \ {Genesis}
    BY GenesisOnBranch DEF Inv, TypeInv, TypeOK
  <2> QED
    BY <2>1, DisconnectPossible DEF Inv, ChainInv
<1> QED
  BY <1>1, Invariance, PTL

-----------------------------------------------------------------------------
(***************************************************************************)
(* ChainState implements Ledger: a commit is a switch of the ledger and    *)
(* every other step leaves the ledger as it is.                            *)
(***************************************************************************)

\* A committed target is one the ledger may switch to.
TargetJustified ==
    (intact /\ pc = "switch") =>
        \/ bnChainTrust[target] > bnChainTrust[disk.best]
        \/ target \in Requested
        \/ target \in Branch[disk.best]

LedgerInv == Inv /\ TargetJustified

\* What the ledger sees of a database.
UnspentIn(d) == {o \in OutPoints : d.pos[o[1]] # Nil /\ InRange(o) /\ d.spent[o] = Nil}

\* The index of a branch shows as unspent what a scan of the branch does.
LEMMA UnspentMatches ==
    ASSUME NEW d \in TxDB, NEW b \in Blocks, ViewMatches(d, b)
    PROVE  UnspentIn(d) = Abstract!UnspentOn(b)
<1>1. ASSUME NEW o \in OutPoints
      PROVE  d.pos[o[1]] # Nil <=> o[1] \in TxsOnBranch(b)
  <2>1. o[1] \in Txs
    BY OutPointType
  <2>2. ASSUME d.pos[o[1]] # Nil PROVE o[1] \in TxsOnBranch(b)
    BY <2>1, <2>2 DEF ViewMatches, TxsOnBranch
  <2>3. ASSUME o[1] \in TxsOnBranch(b) PROVE d.pos[o[1]] # Nil
    <3>1. PICK c \in Branch[b] : o[1] \in TxsOf(c)
      BY <2>3 DEF TxsOnBranch
    <3> QED
      BY <3>1, OwnBranch, NilAssumption DEF ViewMatches
  <2> QED
    BY <2>2, <2>3
<1>2. ASSUME NEW o \in OutPoints
      PROVE  d.spent[o] = Nil <=> \A t \in TxsOnBranch(b) : o \notin vin[t]
  <2>1. ASSUME d.spent[o] = Nil, NEW t \in TxsOnBranch(b), o \in vin[t] PROVE FALSE
    <3>1. PICK c \in Branch[b] : t \in TxsOf(c)
      BY DEF TxsOnBranch
    <3>2. d.spent[o] = <<c, t>> /\ <<c, t>> \in TxPos
      BY <2>1, <3>1, OwnBranch, TxsOfType DEF ViewMatches, TxPos
    <3> QED
      BY <2>1, <3>2, NilAssumption
  <2>2. ASSUME d.spent[o] # Nil PROVE \E t \in TxsOnBranch(b) : o \in vin[t]
    BY <2>2 DEF ViewMatches, TxsOnBranch
  <2> QED
    BY <2>1, <2>2
<1> QED
  BY <1>1, <1>2 DEF UnspentIn, Abstract!UnspentOn, Abstract!OutPoints, Abstract!InRange,
      Abstract!TxsOnBranch, Abstract!TxsOf, OutPoints, InRange, TxsOnBranch, TxsOf

LEMMA JustifiedInit == Init => TargetJustified
BY DEF Init, TargetJustified

LEMMA JustifiedNext == Inv /\ TargetJustified /\ [Next]_vars => TargetJustified'
<1> SUFFICES ASSUME Inv, TargetJustified, [Next]_vars, intact', pc' = "switch"
             PROVE  TargetJustified'
  BY DEF TargetJustified
<1>a. disk \in TxDB /\ disk.best \in Blocks /\ pindexBest \in Blocks /\ target \in Blocks
  BY DEF Inv, TypeInv, TypeOK, TxDB
<1>1. ASSUME NEW b \in Blocks, AcceptBlock(b) PROVE TargetJustified'
  <2>1. disk'.best = disk.best /\ intact /\ pc = "idle"
    BY <1>a, <1>1 DEF AcceptBlock, TxDB
  <2>2. pindexBest = disk.best
    BY <2>1 DEF Inv, ChainInv
  <2>3. target' = FirstTarget(b, pindexBest) /\ bnChainTrust[b] > bnChainTrust[pindexBest]
    BY <1>1, <2>1 DEF AcceptBlock, SetBestChain, Begin, HasMoreTrust
  <2> QED
    BY <1>a, <2>1, <2>2, <2>3, FirstTargetOnBranch DEF TargetJustified
<1>2. ASSUME NEW b \in Blocks, SwitchToCheckpoint(b) PROVE TargetJustified'
  <2>1. pindexBest = disk.best /\ disk' = disk
    BY <1>2 DEF SwitchToCheckpoint, Inv, ChainInv
  <2>2. target' = FirstTarget(b, pindexBest) /\ b \in Requested
    BY <1>2 DEF SwitchToCheckpoint, SetBestChain, Begin
  <2> QED
    BY <1>a, <2>1, <2>2, FirstTargetOnBranch DEF TargetJustified
<1>3. ASSUME NEW t \in Txs, AcceptToMemoryPool(t) PROVE TargetJustified'
  BY <1>3 DEF AcceptToMemoryPool, switchVars, TargetJustified
<1>4. CASE DisconnectBlock
  BY <1>4 DEF DisconnectBlock, TargetJustified
<1>5. CASE ConnectBlock
  BY <1>5 DEF ConnectBlock, TargetJustified
<1>6. CASE SwitchFails \/ DatabaseFails
  BY <1>6 DEF SwitchFails, DatabaseFails, GiveUp
<1>8. CASE Commit
  <2>1. target # pindexNew /\ target \in Branch[pindexNew] /\ pindexNew \in Blocks
    BY <1>8 DEF Commit, Inv, TypeInv, TypeOK, TargetOnPath
  <2>2. disk'.best = target /\ target' = NextOnPath(target, pindexNew)
    BY <1>8, <2>1 DEF Commit, Begin, Inv, TypeInv, TypeOK, TxDB
  <2>3. target' \in Blocks \ {Genesis} /\ pprev[target'] = target
    BY <2>1, <2>2, NextOnPathExists, OwnBranch
  <2> QED
    BY <2>2, <2>3, TrustAssumption, TreeAssumption DEF TargetJustified
<1>9. CASE Crash \/ Start
  BY <1>9 DEF Crash, Start
<1>11. ASSUME NEW b \in Blocks, StartAndRollBack(b) PROVE TargetJustified'
  <2>1. target' = FirstTarget(b, disk.best) /\ disk' = disk /\ b \in Branch[disk.best]
    BY <1>11 DEF StartAndRollBack, Load, SetBestChain, Begin
  <2> QED
    BY <1>a, <2>1, FirstTargetOnBranch DEF TargetJustified
<1>12. CASE UNCHANGED vars
  BY <1>12 DEF vars, switchVars, TargetJustified
<1> QED
  BY <1>1, <1>2, <1>3, <1>4, <1>5, <1>6, <1>8, <1>9, <1>11, <1>12 DEF Next

LEMMA LedgerInvariance == Spec => []LedgerInv
<1>1. Init => LedgerInv
  BY TypeInit, ChainInit, JustifiedInit DEF LedgerInv, Inv
<1>2. LedgerInv /\ [Next]_vars => LedgerInv'
  BY TypeNext, ChainNext, JustifiedNext DEF LedgerInv, Inv
<1> QED
  BY <1>1, <1>2, PTL DEF Spec

LEMMA LedgerInit == Init => Abstract!Init
<1> SUFFICES ASSUME Init PROVE Abstract!Init
  OBVIOUS
<1>1. \A o \in OutPoints : disk.pos[o[1]] = Nil
  BY OutPointType DEF Init, EmptyDB
<1> QED
  BY <1>1 DEF Init, EmptyDB, Abstract!Init

\* Nothing but a commit changes the transaction records on disk.
LEMMA OnlyCommitWrites ==
    ASSUME Inv, [Next]_vars, ~Commit
    PROVE  /\ disk'.best = disk.best
           /\ disk'.pos = disk.pos
           /\ disk'.spent = disk.spent
           /\ intact' => intact
<1>1. ASSUME NEW b \in Blocks, AcceptBlock(b)
      PROVE  /\ disk'.best = disk.best /\ disk'.pos = disk.pos
             /\ disk'.spent = disk.spent /\ (intact' => intact)
  BY <1>1 DEF AcceptBlock, Inv, TypeInv, TypeOK, TxDB
<1>2. intact \in BOOLEAN
  BY DEF Inv, TypeInv, TypeOK
<1>3. CASE DisconnectBlock \/ ConnectBlock
  BY <1>2, <1>3 DEF DisconnectBlock, ConnectBlock
<1>4. CASE SwitchFails \/ DatabaseFails
  BY <1>2, <1>4 DEF SwitchFails, DatabaseFails, GiveUp
<1>5. CASE Crash \/ Start \/ \E b \in Blocks : StartAndRollBack(b)
  BY <1>5 DEF Crash, Start, StartAndRollBack, Load
<1>6. CASE \/ \E b \in Blocks : SwitchToCheckpoint(b)
           \/ \E t \in Txs : AcceptToMemoryPool(t)
  BY <1>6 DEF SwitchToCheckpoint, AcceptToMemoryPool
<1>7. CASE UNCHANGED vars
  BY <1>7 DEF vars
<1> QED
  BY <1>1, <1>3, <1>4, <1>5, <1>6, <1>7 DEF Next

LEMMA SwitchIsStep ==
    ASSUME intact, NEW b \in Blocks, Abstract!Switch(b)
    PROVE  Abstract!Next
BY Zenon DEF Abstract!Next

LEMMA LedgerNext == LedgerInv /\ Inv' /\ [Next]_vars => [Abstract!Next]_(Abstract!ledger)
<1> SUFFICES ASSUME LedgerInv, Inv', [Next]_vars, ~UNCHANGED Abstract!ledger
             PROVE  Abstract!Next
  OBVIOUS
<1>1. CASE ~intact'
  BY <1>1 DEF Abstract!Next, Abstract!Lose
<1>2. CASE intact' /\ ~Commit
  <2>1. /\ disk'.best = disk.best /\ disk'.pos = disk.pos
        /\ disk'.spent = disk.spent /\ intact
    BY <1>2, OnlyCommitWrites DEF LedgerInv
  <2>2. (~intact)' = ~intact
    BY <1>2, <2>1
  <2>3. UNCHANGED {o \in OutPoints :
                      disk.pos[o[1]] # Nil /\ InRange(o) /\ disk.spent[o] = Nil}
    BY <2>1
  <2>4. UNCHANGED Abstract!ledger
    BY <2>1, <2>2, <2>3 DEF Abstract!ledger
  <2> QED
    BY <2>4
<1>3. CASE intact' /\ Commit
  <2>1. intact /\ pc = "switch" /\ target \in Blocks /\ tip = target
    BY <1>3 DEF Commit, LedgerInv, Inv, TypeInv, TypeOK
  <2>2. disk'.best = target /\ disk' \in TxDB /\ disk.best \in Blocks
    BY <1>3 DEF Commit, LedgerInv, Inv, TypeInv, TypeOK, TxDB
  <2>3. ValidChain(target) /\ ViewMatches(disk', target)
    BY <1>3, <2>2 DEF Inv, ChainInv
  <2>4. UnspentIn(disk') = Abstract!UnspentOn(target)
    BY <2>1, <2>2, <2>3, UnspentMatches
  <2>5. Abstract!ValidChain(target)
    BY <2>3 DEF ValidChain, Abstract!ValidChain, Abstract!TxsOf, Abstract!TxsOnBranch,
        Abstract!InputExists, Abstract!InputFresh, Abstract!Before, Abstract!InRange,
        Abstract!Generated, Abstract!Immature, TxsOf, TxsOnBranch, InputExists,
        InputFresh, Before, InRange, Generated, Immature
  <2>6. PICK b \in Blocks : b = target
    BY <2>1
  <2>7. Abstract!Switch(b)
    BY <1>3, <2>1, <2>2, <2>4, <2>5, <2>6
    DEF Abstract!Switch, LedgerInv, TargetJustified, UnspentIn
  <2>8. intact
    BY <2>1
  <2> QED
    BY <2>7, <2>8, SwitchIsStep
<1> QED
  BY <1>1, <1>2, <1>3

\* Every behaviour of the chain state is one of the abstract ledger.
THEOREM ChainStateImplementsLedger == Spec => ImplementsLedger
<1>1. Spec => []LedgerInv
  BY LedgerInvariance
<1>2. LedgerInv /\ LedgerInv' /\ [Next]_vars => [Abstract!Next]_(Abstract!ledger)
  BY LedgerNext DEF LedgerInv
<1> QED
  BY <1>1, <1>2, LedgerInit, PTL DEF Spec, ImplementsLedger, Abstract!Spec

-----------------------------------------------------------------------------
(***************************************************************************)
(* pnext, hashNext and the memory pool agree with the best chain.  The     *)
(* records need no more than ChainInv; these need to know where a switch   *)
(* stands: what was disconnected so far are the blocks of the old branch   *)
(* above tip, what was connected are the blocks of tip's branch that are   *)
(* not on the old one.                                                     *)
(***************************************************************************)

-----------------------------------------------------------------------------
(***************************************************************************)
(* Successors on a branch.                                                 *)
(***************************************************************************)

\* Two blocks of one branch with the same predecessor are the same.
LEMMA OneChild ==
    ASSUME NEW b \in Blocks, NEW c \in Branch[b], NEW d \in Branch[b],
           c # Genesis, d # Genesis, pprev[c] = pprev[d]
    PROVE  c = d
<1>1. c \in Blocks \ {Genesis} /\ d \in Blocks \ {Genesis}
  BY OwnBranch
<1>2. c \in Branch[d] \/ d \in Branch[c]
  BY BranchAssumption
<1> QED
  BY <1>1, <1>2, BranchStep

\* The predecessor of a block of a branch is on it, and is not its end.
LEMMA ParentOnBranch ==
    ASSUME NEW b \in Blocks, NEW d \in Branch[b], d # Genesis
    PROVE  pprev[d] \in Branch[b] /\ pprev[d] # b
<1>1. d \in Blocks \ {Genesis}
  BY OwnBranch
<1>2. pprev[d] \in Branch[b]
  BY <1>1, BranchStep, BranchAssumption
<1>3. d \notin Branch[pprev[d]]
  BY <1>1, BranchStep
<1> QED
  BY <1>2, <1>3

\* A block is the next one on the path from its predecessor.
LEMMA NextIsChild ==
    ASSUME NEW b \in Blocks, NEW d \in Branch[b], d # Genesis
    PROVE  NextOnPath(pprev[d], b) = d
<1>1. \A e \in Branch[b] : e # Genesis /\ pprev[e] = pprev[d] => e = d
  BY OneChild
<1> QED
  BY <1>1 DEF NextOnPath

\* The successor of each block on the way to top.
SuccessorsOf(top) ==
    [b \in Blocks |-> IF b \in Branch[top] \ {top} THEN NextOnPath(b, top) ELSE Nil]

\* Without the last block of a branch its predecessor has no successor, and
\* the others keep theirs.
LEMMA SuccessorsStep ==
    ASSUME NEW b \in Blocks \ {Genesis}
    PROVE  /\ SuccessorsOf(pprev[b]) = [SuccessorsOf(b) EXCEPT ![pprev[b]] = Nil]
           /\ SuccessorsOf(b) = [SuccessorsOf(pprev[b]) EXCEPT ![pprev[b]] = b]
           /\ SuccessorsOf(pprev[b])[b] = Nil
<1> DEFINE p == pprev[b]
<1>1. p \in Blocks /\ Branch[b] = {b} \union Branch[p] /\ b \notin Branch[p] /\ p \in Branch[b]
  BY BranchStep
<1>2. p \in Branch[p] /\ b \in Branch[b]
  BY <1>1, OwnBranch
<1>3. NextOnPath(p, b) = b
  BY <1>2, NextIsChild
<1>4. ASSUME NEW c \in Branch[p], c # p PROVE NextOnPath(c, b) = NextOnPath(c, p)
  <2>1. NextOnPath(c, p) \in Branch[p] /\ NextOnPath(c, p) # Genesis /\ pprev[NextOnPath(c, p)] = c
    BY <1>1, <1>4, NextOnPathExists
  <2>2. NextOnPath(c, p) \in Branch[b]
    BY <1>1, <2>1
  <2> QED
    BY <2>1, <2>2, NextIsChild
<1> HIDE DEF p
<1>5. \A c \in Blocks : SuccessorsOf(b)[c] = IF c = p THEN b ELSE SuccessorsOf(p)[c]
  BY <1>1, <1>2, <1>3, <1>4 DEF SuccessorsOf
<1>6. SuccessorsOf(p)[p] = Nil /\ SuccessorsOf(p)[b] = Nil
  BY <1>1 DEF SuccessorsOf
<1>7. SuccessorsOf(b) = [SuccessorsOf(p) EXCEPT ![p] = b]
  BY <1>1, <1>5 DEF SuccessorsOf
<1>8. SuccessorsOf(p) = [SuccessorsOf(b) EXCEPT ![p] = Nil]
  BY <1>1, <1>5, <1>6 DEF SuccessorsOf
<1> QED
  BY <1>6, <1>7, <1>8 DEF p

\* The update of pnext after a commit leads from the successors on the old
\* branch to those on the new one.
LEMMA NextAfterSuccessors ==
    ASSUME NEW from \in Blocks, NEW to \in Blocks, pnext = SuccessorsOf(from)
    PROVE  NextAfter(from, to) = SuccessorsOf(to)
<1> SUFFICES ASSUME NEW c \in Blocks PROVE NextAfter(from, to)[c] = SuccessorsOf(to)[c]
  BY DEF NextAfter, SuccessorsOf
<1> DEFINE Gained == \E b \in Branch[to] \ Branch[from] : pprev[b] = c
           Lost == \E b \in Branch[from] \ Branch[to] : pprev[b] = c
<1>0. NextAfter(from, to)[c] = IF Gained THEN NextOnPath(c, to) ELSE IF Lost THEN Nil ELSE pnext[c]
  BY DEF NextAfter
<1>1. \A b \in Branch[to] \ Branch[from] : b # Genesis
  BY GenesisOnBranch
<1>2. \A b \in Branch[from] \ Branch[to] : b # Genesis
  BY GenesisOnBranch
<1>3. CASE c \in Branch[to] \ {to}
  <2> DEFINE n == NextOnPath(c, to)
  <2>1. n \in Branch[to] /\ n # Genesis /\ pprev[n] = c
    BY <1>3, NextOnPathExists
  <2> HIDE DEF n
  <2>2. CASE n \notin Branch[from]
    BY <1>0, <1>3, <2>1, <2>2 DEF SuccessorsOf, n
  <2>3. CASE n \in Branch[from]
    <3>1. ~Lost
      BY <1>2, <2>1, <2>3, OneChild
    <3>2. c \in Branch[from] /\ c # from
      BY <2>1, <2>3, ParentOnBranch
    <3>3. NextOnPath(c, from) = n
      BY <2>1, <2>3, NextIsChild
    <3>4. pnext[c] = n
      BY <3>2, <3>3 DEF SuccessorsOf
    <3> QED
      BY <1>0, <1>3, <3>1, <3>4 DEF SuccessorsOf, n
  <2> QED
    BY <2>2, <2>3
<1>4. CASE c \notin Branch[to] \ {to}
  <2>1. ~Gained
    BY <1>1, <1>4, ParentOnBranch
  <2>2. CASE c \in Branch[from] \ {from}
    <3>1. /\ NextOnPath(c, from) \in Branch[from] /\ NextOnPath(c, from) # Genesis
          /\ pprev[NextOnPath(c, from)] = c
      BY <2>2, NextOnPathExists
    <3>2. NextOnPath(c, from) \notin Branch[to]
      BY <1>4, <3>1, ParentOnBranch
    <3>3. Lost
      BY <3>1, <3>2
    <3> QED
      BY <1>0, <1>4, <2>1, <3>3 DEF SuccessorsOf
  <2>3. CASE c \notin Branch[from] \ {from}
    BY <1>0, <1>4, <2>1, <2>3 DEF SuccessorsOf
  <2> QED
    BY <2>2, <2>3
<1> QED
  BY <1>3, <1>4

\* The records of the next pointers after one block more or less.
LEMMA DisconnectedNext ==
    ASSUME NEW d \in TxDB, NEW b \in Blocks \ {Genesis}, d.next = SuccessorsOf(b)
    PROVE  Disconnected(d, b).next = SuccessorsOf(pprev[b])
BY SuccessorsStep DEF Disconnected, TxDB

LEMMA ConnectedNext ==
    ASSUME NEW d \in TxDB, NEW b \in Blocks \ {Genesis}, d.next = SuccessorsOf(pprev[b]),
           pnext[b] = Nil
    PROVE  Connected(d, b).next = SuccessorsOf(b)
<1>1. Connected(d, b).next = [d.next EXCEPT ![b] = Nil, ![pprev[b]] = b]
  BY DEF Connected, TxDB
<1>2. d.next \in [Blocks -> Blocks \union {Nil}] /\ d.next[b] = Nil
  BY SuccessorsStep DEF TxDB
<1>3. [d.next EXCEPT ![b] = Nil, ![pprev[b]] = b] = [d.next EXCEPT ![pprev[b]] = b]
  BY <1>2
<1> QED
  BY <1>1, <1>3, SuccessorsStep

-----------------------------------------------------------------------------
(***************************************************************************)
(* The index, and where a switch stands.                                   *)
(***************************************************************************)

\* The index is closed under pprev, and holds the blocks in use.
IndexInv ==
    /\ \A c \in disk.index : Branch[c] \subseteq disk.index
    /\ disk.best \in disk.index
    /\ pc # "down" => mapBlockIndex = disk.index /\ pindexBest \in disk.index
    /\ pc = "switch" => txn.index = disk.index /\ pindexNew \in disk.index

\* tip has not left the old branch below the fork: all that both branches
\* have is below it.
SwitchInv ==
    intact /\ pc = "switch" =>
        /\ disk.best = IF secondary THEN pprev[target] ELSE pindexBest
        /\ tip \in Branch[disk.best] \union Branch[target]
        /\ Branch[disk.best] \intersect Branch[target] \subseteq Branch[tip]

\* The types that the steps below use.
LEMMA Types ==
    ASSUME Inv
    PROVE  /\ disk \in TxDB /\ txn \in TxDB
           /\ disk.best \in Blocks /\ disk.index \subseteq Blocks
           /\ {pindexBest, pindexNew, target, tip} \subseteq Blocks
           /\ pnext \in [Blocks -> Blocks \union {Nil}]
           /\ vResurrect \subseteq Txs /\ vDelete \subseteq Txs /\ mapTx \subseteq Txs
           /\ mapNextTx \in [OutPoints -> Txs \union {Nil}]
           /\ pc = "switch" => target \in Branch[pindexNew]
BY DEF Inv, TypeInv, TypeOK, TargetOnPath, TxDB

LEMMA IndexInit == Init => IndexInv /\ SwitchInv
BY BranchAssumption DEF Init, EmptyDB, IndexInv, SwitchInv

LEMMA IndexNext == Inv /\ IndexInv /\ [Next]_vars => IndexInv'
<1> SUFFICES ASSUME Inv, IndexInv, [Next]_vars PROVE IndexInv'
  OBVIOUS
<1> USE Types
<1>1. ASSUME NEW b \in Blocks, AcceptBlock(b) PROVE IndexInv'
  <2>1. pc = "idle" /\ b \in Blocks \ {Genesis} /\ pprev[b] \in disk.index
    BY <1>1 DEF AcceptBlock, IndexInv
  <2>2. disk'.index = disk.index \union {b} /\ disk'.best = disk.best
    BY <1>1 DEF AcceptBlock, TxDB
  <2>3. \A c \in disk'.index : Branch[c] \subseteq disk'.index
    BY <2>1, <2>2, BranchStep DEF IndexInv
  <2>4. mapBlockIndex' = disk'.index /\ pindexBest' = pindexBest
    BY <1>1, <2>1, <2>2 DEF AcceptBlock, IndexInv
  <2>5. CASE SetBestChain(disk', pindexBest, b)
    BY <2>1, <2>2, <2>3, <2>4, <2>5 DEF SetBestChain, Begin, IndexInv
  <2>6. CASE UNCHANGED <<pc, switchVars>>
    BY <2>1, <2>2, <2>3, <2>4, <2>6 DEF IndexInv
  <2> QED
    BY <1>1, <2>5, <2>6 DEF AcceptBlock
<1>2. ASSUME NEW b \in Blocks, SwitchToCheckpoint(b) PROVE IndexInv'
  BY <1>2 DEF SwitchToCheckpoint, SetBestChain, Begin, IndexInv
<1>3. ASSUME NEW t \in Txs, AcceptToMemoryPool(t) PROVE IndexInv'
  BY <1>3 DEF AcceptToMemoryPool, switchVars, IndexInv
<1>4. CASE DisconnectBlock
  <2>1. txn'.index = txn.index
    BY <1>4 DEF DisconnectBlock, Disconnected, TxDB
  <2> QED
    BY <1>4, <2>1 DEF DisconnectBlock, IndexInv
<1>5. CASE ConnectBlock
  <2>1. txn'.index = txn.index
    BY <1>5 DEF ConnectBlock, Connected, TxDB
  <2> QED
    BY <1>5, <2>1 DEF ConnectBlock, IndexInv
<1>6. CASE SwitchFails
  BY <1>6 DEF SwitchFails, GiveUp, IndexInv
<1>7. CASE DatabaseFails
  BY <1>7 DEF DatabaseFails, GiveUp, IndexInv
<1>8. CASE Commit
  <2>1. pc = "switch" /\ disk'.index = disk.index /\ disk'.best = target
    BY <1>8 DEF Commit, TxDB, IndexInv
  <2>2. target \in disk.index
    BY <2>1 DEF IndexInv
  <2>3. CASE target = pindexNew
    BY <1>8, <2>1, <2>2, <2>3 DEF Commit, IndexInv
  <2>4. CASE target # pindexNew
    BY <1>8, <2>1, <2>2, <2>4 DEF Commit, Begin, IndexInv
  <2> QED
    BY <2>3, <2>4
<1>9. CASE Crash
  BY <1>9 DEF Crash, switchVars, IndexInv
<1>10. CASE Start
  BY <1>10 DEF Start, Load, switchVars, IndexInv
<1>11. ASSUME NEW b \in Blocks, StartAndRollBack(b) PROVE IndexInv'
  BY <1>11 DEF StartAndRollBack, Load, SetBestChain, Begin, IndexInv
<1>12. CASE UNCHANGED vars
  BY <1>12 DEF vars, switchVars, IndexInv
<1> QED
  BY <1>1, <1>2, <1>3, <1>4, <1>5, <1>6, <1>7, <1>8, <1>9, <1>10, <1>11, <1>12 DEF Next

\* The next block to connect is not on the old branch.
LEMMA NextIsNew ==
    ASSUME Inv, SwitchInv, intact, ConnectBlock
    PROVE  LET b == NextOnPath(tip, target)
           IN  /\ b \in Blocks \ {Genesis} /\ pprev[b] = tip
               /\ b \in Branch[target] \ Branch[disk.best]
               /\ Branch[b] = {b} \union Branch[tip]
<1> DEFINE b == NextOnPath(tip, target)
<1>1. tip \in Branch[target] /\ tip # target /\ target \in Blocks /\ pc = "switch"
  BY Types DEF ConnectBlock
<1>2. b \in Branch[target] /\ b # Genesis /\ pprev[b] = tip
  BY <1>1, NextOnPathExists
<1>3. b \in Blocks
  BY <1>1, <1>2, OwnBranch
<1> HIDE DEF b
<1>4. Branch[b] = {b} \union Branch[tip] /\ b \notin Branch[tip]
  BY <1>2, <1>3, BranchStep
<1>5. b \notin Branch[disk.best]
  BY <1>1, <1>2, <1>4 DEF SwitchInv
<1> QED
  BY <1>2, <1>3, <1>4, <1>5 DEF b

\* The block to disconnect is on the old branch.
LEMMA TipIsOld ==
    ASSUME Inv, SwitchInv, intact, DisconnectBlock
    PROVE  /\ tip \in Branch[disk.best] \ Branch[target] /\ tip # Genesis
           /\ Branch[tip] = {tip} \union Branch[pprev[tip]] /\ tip \notin Branch[pprev[tip]]
           /\ pprev[tip] \in Branch[disk.best] /\ Branch[tip] \subseteq Branch[disk.best]
<1>1. pc = "switch" /\ tip \notin Branch[target] /\ tip \in Blocks /\ target \in Blocks
      /\ disk.best \in Blocks
  BY Types DEF DisconnectBlock
<1>2. tip \in Branch[disk.best]
  BY <1>1 DEF SwitchInv
<1>3. tip # Genesis
  BY <1>1, GenesisOnBranch
<1> QED
  BY <1>1, <1>2, <1>3, BranchStep, BranchAssumption

LEMMA SwitchNext == Inv /\ SwitchInv /\ [Next]_vars => SwitchInv'
<1> SUFFICES ASSUME Inv, SwitchInv, [Next]_vars, intact', pc' = "switch" PROVE SwitchInv'
  BY DEF SwitchInv
<1> USE Types
<1>1. ASSUME NEW b \in Blocks, AcceptBlock(b) PROVE SwitchInv'
  <2>1. intact /\ pc = "idle" /\ SetBestChain(disk', pindexBest, b)
    BY <1>1 DEF AcceptBlock
  <2>2. disk'.best = disk.best /\ pindexBest' = pindexBest /\ pindexBest = disk.best
    BY <1>1, <2>1 DEF AcceptBlock, TxDB, Inv, ChainInv
  <2> QED
    BY <2>1, <2>2, OwnBranch DEF SetBestChain, Begin, SwitchInv
<1>2. ASSUME NEW b \in Blocks, SwitchToCheckpoint(b) PROVE SwitchInv'
  BY <1>2, OwnBranch DEF SwitchToCheckpoint, SetBestChain, Begin, SwitchInv, Inv, ChainInv
<1>3. ASSUME NEW t \in Txs, AcceptToMemoryPool(t) PROVE SwitchInv'
  BY <1>3 DEF AcceptToMemoryPool
<1>4. CASE DisconnectBlock
  <2>1. intact /\ pc = "switch" /\ tip' = pprev[tip]
    BY <1>4 DEF DisconnectBlock
  <2> QED
    BY <1>4, <2>1, TipIsOld DEF DisconnectBlock, SwitchInv
<1>5. CASE ConnectBlock
  <2>1. intact /\ pc = "switch" /\ tip' = NextOnPath(tip, target)
    BY <1>5 DEF ConnectBlock
  <2> QED
    BY <1>5, <2>1, NextIsNew DEF ConnectBlock, SwitchInv
<1>6. CASE SwitchFails
  BY <1>6 DEF SwitchFails, GiveUp
<1>7. CASE DatabaseFails
  BY <1>7 DEF DatabaseFails, GiveUp
<1>8. CASE Commit
  <2>1. pc = "switch" /\ disk'.best = target /\ target # pindexNew
    BY <1>8 DEF Commit, TxDB
  <2>2. /\ target' = NextOnPath(target, pindexNew) /\ tip' = target /\ secondary' = TRUE
    BY <1>8, <2>1 DEF Commit, Begin
  <2>3. pprev[target'] = target
    BY <2>1, <2>2, NextOnPathExists
  <2> QED
    BY <2>1, <2>2, <2>3, OwnBranch DEF SwitchInv
<1>9. CASE Crash
  BY <1>9 DEF Crash
<1>10. CASE Start
  BY <1>10 DEF Start
<1>11. ASSUME NEW b \in Blocks, StartAndRollBack(b) PROVE SwitchInv'
  BY <1>11, OwnBranch DEF StartAndRollBack, Load, SetBestChain, Begin, SwitchInv
<1>12. CASE UNCHANGED vars
  BY <1>12 DEF vars, switchVars, SwitchInv
<1> QED
  BY <1>1, <1>2, <1>3, <1>4, <1>5, <1>6, <1>7, <1>8, <1>9, <1>10, <1>11, <1>12 DEF Next

-----------------------------------------------------------------------------
(***************************************************************************)
(* pnext and hashNext.                                                     *)
(***************************************************************************)

\* Both lead along the best chain, and hashNext of the open view to tip.
NextInv ==
    intact =>
        /\ disk.next = SuccessorsOf(disk.best)
        /\ pc # "down" => pnext = disk.next
        /\ pc = "switch" => txn.next = SuccessorsOf(tip)

LEMMA NextInit == Init => NextInv
BY BranchAssumption DEF Init, EmptyDB, NextInv, SuccessorsOf

\* A new block is above the best chain: it has no successor.
LEMMA AcceptBlockNext ==
    ASSUME Inv, IndexInv, NextInv, NEW b \in Blocks, AcceptBlock(b)
    PROVE  NextInv'
<1> SUFFICES ASSUME intact' PROVE NextInv'
  BY DEF NextInv
<1> USE Types
<1>1. intact /\ pc = "idle" /\ pindexBest = disk.best /\ b \notin disk.index
  BY DEF AcceptBlock, IndexInv, Inv, ChainInv
<1>2. disk'.best = disk.best /\ disk'.next = [disk.next EXCEPT ![b] = Nil]
  BY DEF AcceptBlock, TxDB
<1>3. b \notin Branch[disk.best]
  BY <1>1 DEF IndexInv
<1>4. disk'.next = disk.next
  BY <1>1, <1>2, <1>3 DEF NextInv, SuccessorsOf
<1>5. CASE SetBestChain(disk', pindexBest, b)
  BY <1>1, <1>2, <1>4, <1>5 DEF AcceptBlock, SetBestChain, Begin, NextInv
<1>6. CASE UNCHANGED <<pc, switchVars>>
  BY <1>1, <1>2, <1>4, <1>6 DEF AcceptBlock, NextInv
<1> QED
  BY <1>5, <1>6 DEF AcceptBlock

LEMMA CommitNext ==
    ASSUME Inv, SwitchInv, NextInv, Commit
    PROVE  NextInv'
<1> SUFFICES ASSUME intact' PROVE NextInv'
  BY DEF NextInv
<1> USE Types
<1>1. intact /\ pc = "switch" /\ tip = target
  BY DEF Commit
<1>2. disk'.best = target /\ disk'.next = txn.next
  BY DEF Commit, TxDB
<1>3. pnext' = NextAfter(disk.best, target)
  BY <1>1 DEF Commit, SwitchInv
<1>4. pnext = SuccessorsOf(disk.best)
  BY <1>1 DEF NextInv
<1>5. pnext' = SuccessorsOf(target) /\ disk'.next = SuccessorsOf(target)
  BY <1>1, <1>2, <1>3, <1>4, NextAfterSuccessors DEF NextInv
<1>6. CASE target = pindexNew
  BY <1>2, <1>5, <1>6 DEF Commit, NextInv
<1>7. CASE target # pindexNew
  BY <1>2, <1>5, <1>7 DEF Commit, Begin, NextInv
<1> QED
  BY <1>6, <1>7

LEMMA NextNext == Inv /\ IndexInv /\ SwitchInv /\ NextInv /\ [Next]_vars => NextInv'
<1> SUFFICES ASSUME Inv, IndexInv, SwitchInv, NextInv, [Next]_vars, intact' PROVE NextInv'
  BY DEF NextInv
<1> USE Types
<1>1. ASSUME NEW b \in Blocks, AcceptBlock(b) PROVE NextInv'
  BY <1>1, AcceptBlockNext
<1>2. ASSUME NEW b \in Blocks, SwitchToCheckpoint(b) PROVE NextInv'
  BY <1>2 DEF SwitchToCheckpoint, SetBestChain, Begin, NextInv, Inv, ChainInv
<1>3. ASSUME NEW t \in Txs, AcceptToMemoryPool(t) PROVE NextInv'
  BY <1>3 DEF AcceptToMemoryPool, switchVars, NextInv
<1>4. CASE DisconnectBlock
  <2>1. intact /\ pc = "switch" /\ tip \in Blocks \ {Genesis} /\ txn.next = SuccessorsOf(tip)
    BY <1>4, TipIsOld DEF DisconnectBlock, NextInv
  <2>2. txn'.next = SuccessorsOf(tip')
    BY <1>4, <2>1, DisconnectedNext DEF DisconnectBlock
  <2> QED
    BY <1>4, <2>1, <2>2 DEF DisconnectBlock, NextInv
<1>5. CASE ConnectBlock
  <2> DEFINE b == NextOnPath(tip, target)
  <2>1. intact /\ pc = "switch" /\ txn' = Connected(txn, b) /\ tip' = b
    BY <1>5 DEF ConnectBlock
  <2>2. b \in Blocks \ {Genesis} /\ pprev[b] = tip /\ b \notin Branch[disk.best]
    BY <1>5, <2>1, NextIsNew
  <2> HIDE DEF b
  <2>3. pnext[b] = Nil
    BY <2>1, <2>2 DEF NextInv, SuccessorsOf
  <2>4. txn'.next = SuccessorsOf(tip')
    BY <2>1, <2>2, <2>3, ConnectedNext DEF NextInv
  <2> QED
    BY <1>5, <2>1, <2>4 DEF ConnectBlock, NextInv
<1>6. CASE SwitchFails
  BY <1>6 DEF SwitchFails, GiveUp, NextInv
<1>7. CASE DatabaseFails
  BY <1>7 DEF DatabaseFails, GiveUp, NextInv
<1>8. CASE Commit
  BY <1>8, CommitNext
<1>9. CASE Crash
  BY <1>9 DEF Crash, NextInv
<1>10. CASE Start
  BY <1>10 DEF Start, Load, NextInv
<1>11. ASSUME NEW b \in Blocks, StartAndRollBack(b) PROVE NextInv'
  BY <1>11 DEF StartAndRollBack, Load, SetBestChain, Begin, NextInv
<1>12. CASE UNCHANGED vars
  BY <1>12 DEF vars, switchVars, NextInv
<1> QED
  BY <1>1, <1>2, <1>3, <1>4, <1>5, <1>6, <1>7, <1>8, <1>9, <1>10, <1>11, <1>12 DEF Next

-----------------------------------------------------------------------------
(***************************************************************************)
(* The memory pool.                                                        *)
(***************************************************************************)

TxsIn(S) == UNION {TxsOf(c) : c \in S}

NoCommonInput(pool) == \A t, u \in pool : t # u => vin[t] \intersect vin[u] = {}

\* The pool is consistent and outside of the best chain, and a switch knows
\* the transactions of the blocks it disconnected and connected.
PoolInv ==
    intact =>
        /\ NoCommonInput(mapTx)
        /\ mapNextTx = PoolIndex(mapTx)
        /\ mapTx \intersect TxsOnBranch(disk.best) = {}
        /\ pc = "switch" =>
              /\ vResurrect = TxsIn(Branch[disk.best] \ Branch[tip])
              /\ vDelete = TxsIn(Branch[tip] \ Branch[disk.best])

\* An output without an entry in the index of a pool is spent by nobody there.
LEMMA UnspentInPool ==
    ASSUME NEW pool \in SUBSET Txs, NEW o \in OutPoints, PoolIndex(pool)[o] = Nil
    PROVE  \A t \in pool : o \notin vin[t]
BY NilAssumption DEF PoolIndex

\* A transaction in conflict with nothing is added with its entries.
LEMMA PoolIndexAdd ==
    ASSUME NEW pool \in SUBSET Txs, NoCommonInput(pool), NEW t \in Txs,
           \A u \in pool : vin[t] \intersect vin[u] = {}
    PROVE  PoolIndex(pool \union {t}) =
             [o \in OutPoints |-> IF o \in vin[t] THEN t ELSE PoolIndex(pool)[o]]
<1> SUFFICES ASSUME NEW o \in OutPoints
             PROVE  PoolIndex(pool \union {t})[o]
                      = IF o \in vin[t] THEN t ELSE PoolIndex(pool)[o]
  BY DEF PoolIndex
<1>1. CASE o \in vin[t]
  <2>1. \A u \in pool \union {t} : o \in vin[u] => u = t
    BY <1>1
  <2> QED
    BY <1>1, <2>1 DEF PoolIndex
<1>2. CASE o \notin vin[t] /\ \E u \in pool : o \in vin[u]
  <2>1. PICK u \in pool : o \in vin[u]
    BY <1>2
  <2>2. \A v \in pool \union {t} : o \in vin[v] => v = u
    BY <1>2, <2>1 DEF NoCommonInput
  <2>3. PoolIndex(pool \union {t})[o] = u
    BY <2>1, <2>2 DEF PoolIndex
  <2>4. PoolIndex(pool)[o] = u
    BY <2>1, <2>2 DEF PoolIndex
  <2> QED
    BY <1>2, <2>3, <2>4
<1>3. CASE \A u \in pool \union {t} : o \notin vin[u]
  BY <1>3 DEF PoolIndex
<1> QED
  BY <1>1, <1>2, <1>3

\* On a branch that its records match, a transaction is in one block, and an
\* output is spent by one transaction.
LEMMA MatchesOnce ==
    ASSUME NEW d, NEW b \in Blocks, ViewMatches(d, b),
           NEW c \in Branch[b], NEW e \in Branch[b], NEW t \in TxsOf(c), NEW u \in TxsOf(e)
    PROVE  /\ t = u => c = e
           /\ t # u => vin[t] \intersect vin[u] = {}
<1>1. d.pos[t] = c /\ d.pos[u] = e
  BY DEF ViewMatches
<1>2. \A o \in vin[t] : d.spent[o] = <<c, t>>
  BY DEF ViewMatches
<1>3. \A o \in vin[u] : d.spent[o] = <<e, u>>
  BY DEF ViewMatches
<1> QED
  BY <1>1, <1>2, <1>3

LEMMA AcceptToPool ==
    ASSUME Inv, PoolInv, NEW t \in Txs, AcceptToMemoryPool(t)
    PROVE  PoolInv'
<1> SUFFICES ASSUME intact' PROVE PoolInv'
  BY DEF PoolInv
<1> USE Types
<1>1. intact /\ pc = "idle" /\ pc' = "idle" /\ disk' = disk /\ Acceptable(t)
      /\ AddUnchecked(t)
  BY DEF AcceptToMemoryPool
<1>2. NoCommonInput(mapTx) /\ mapNextTx = PoolIndex(mapTx)
      /\ mapTx \intersect TxsOnBranch(disk.best) = {}
  BY <1>1 DEF PoolInv
<1>3. \A u \in mapTx : vin[t] \intersect vin[u] = {}
  <2> SUFFICES ASSUME NEW o \in vin[t] PROVE \A u \in mapTx : o \notin vin[u]
    OBVIOUS
  <2>1. o \in OutPoints
    BY OutPointType
  <2>2. mapNextTx[o] = Nil
    BY <1>1 DEF Acceptable, Conflicts
  <2> QED
    BY <1>2, <2>1, <2>2, UnspentInPool
<1>4. NoCommonInput(mapTx')
  BY <1>1, <1>2, <1>3 DEF AddUnchecked, NoCommonInput
<1>5. mapNextTx' = PoolIndex(mapTx')
  BY <1>1, <1>2, <1>3, PoolIndexAdd DEF AddUnchecked
<1>6. t \notin TxsOnBranch(disk.best)
  <2> SUFFICES ASSUME NEW c \in Branch[disk.best], t \in TxsOf(c) PROVE FALSE
    BY DEF TxsOnBranch
  <2>1. disk.pos[t] = c /\ c \in Blocks
    BY <1>1, OwnBranch DEF Inv, ChainInv, ViewMatches
  <2> QED
    BY <1>1, <2>1, NilAssumption DEF Acceptable
<1>7. mapTx' \intersect TxsOnBranch(disk'.best) = {}
  BY <1>1, <1>2, <1>6 DEF AddUnchecked
<1> QED
  BY <1>1, <1>4, <1>5, <1>7 DEF PoolInv

\* Nothing that Reorganize puts back conflicts with the pool or among itself,
\* and what the new chain has is taken out.
LEMMA CommitPool ==
    ASSUME Inv, SwitchInv, PoolInv, Commit
    PROVE  PoolInv'
<1> SUFFICES ASSUME intact' PROVE PoolInv'
  BY DEF PoolInv
<1> USE Types
<1> DEFINE old == disk.best
<1>1. intact /\ pc = "switch" /\ tip = target /\ disk'.best = target
  BY DEF Commit, TxDB
<1>2. /\ NoCommonInput(mapTx) /\ mapNextTx = PoolIndex(mapTx)
      /\ mapTx \intersect TxsOnBranch(old) = {}
      /\ vResurrect = TxsIn(Branch[old] \ Branch[target])
      /\ vDelete = TxsIn(Branch[target] \ Branch[old])
  BY <1>1 DEF PoolInv
<1>3. ViewMatches(disk, old)
  BY <1>1 DEF Inv, ChainInv
<1>4. mapTx' = (mapTx \union Resurrected) \ vDelete /\ mapNextTx' = PoolIndex(mapTx')
  BY DEF Commit, UpdatePool
<1>5. \A t \in Resurrected : t \in Txs /\ t \in vResurrect /\ ~Conflicts(t)
  BY DEF Resurrected
<1>6. ASSUME NEW t \in Resurrected, NEW u \in mapTx PROVE vin[t] \intersect vin[u] = {}
  <2> SUFFICES ASSUME NEW o \in vin[t] PROVE o \notin vin[u]
    OBVIOUS
  <2>1. o \in OutPoints /\ mapNextTx[o] = Nil
    BY <1>5, OutPointType DEF Conflicts
  <2> QED
    BY <1>2, <2>1, UnspentInPool
<1>7. ASSUME NEW t \in Resurrected, NEW u \in Resurrected, t # u
      PROVE  vin[t] \intersect vin[u] = {}
  <2>1. PICK c \in Branch[old] : t \in TxsOf(c)
    BY <1>2, <1>5 DEF TxsIn
  <2>2. PICK e \in Branch[old] : u \in TxsOf(e)
    BY <1>2, <1>5 DEF TxsIn
  <2> QED
    BY <1>3, <1>7, <2>1, <2>2, MatchesOnce
<1>8. NoCommonInput(mapTx')
  BY <1>2, <1>4, <1>6, <1>7 DEF NoCommonInput
<1>9. mapTx' \intersect TxsOnBranch(target) = {}
  <2> SUFFICES ASSUME NEW t \in mapTx', NEW c \in Branch[target], t \in TxsOf(c)
               PROVE  FALSE
    BY DEF TxsOnBranch
  <2>1. c \in Branch[old]
    BY <1>2, <1>4 DEF TxsIn
  <2>2. t \notin mapTx
    BY <1>2, <2>1 DEF TxsOnBranch
  <2>3. t \in vResurrect
    BY <1>4, <1>5, <2>2
  <2>4. PICK e \in Branch[old] \ Branch[target] : t \in TxsOf(e)
    BY <1>2, <2>3 DEF TxsIn
  <2> QED
    BY <1>3, <2>1, <2>4, MatchesOnce
<1>10. CASE target = pindexNew
  <2>1. pc' = "idle"
    BY <1>10 DEF Commit
  <2> QED
    BY <1>1, <1>4, <1>8, <1>9, <2>1 DEF PoolInv
<1>11. CASE target # pindexNew
  <2>1. tip' = target /\ vResurrect' = {} /\ vDelete' = {}
    BY <1>11 DEF Commit, Begin
  <2> QED
    BY <1>1, <1>4, <1>8, <1>9, <2>1 DEF PoolInv, TxsIn
<1> QED
  BY <1>10, <1>11

\* A switch that begins has done nothing yet.
LEMMA BeginPool ==
    ASSUME PoolInv, intact, NEW b, SetBestChain(disk', disk.best, b),
           disk'.best = disk.best, UNCHANGED <<mapTx, mapNextTx>>
    PROVE  PoolInv'
BY DEF SetBestChain, Begin, PoolInv, TxsIn

LEMMA PoolInit == Init => PoolInv
<1> SUFFICES ASSUME Init PROVE PoolInv
  OBVIOUS
<1>1. mapTx = {} /\ mapNextTx = PoolIndex({}) /\ pc = "idle"
  BY DEF Init
<1> QED
  BY <1>1 DEF PoolInv, NoCommonInput

LEMMA PoolNext == Inv /\ SwitchInv /\ PoolInv /\ [Next]_vars => PoolInv'
<1> SUFFICES ASSUME Inv, SwitchInv, PoolInv, [Next]_vars, intact' PROVE PoolInv'
  BY DEF PoolInv
<1> USE Types
<1>1. ASSUME NEW b \in Blocks, AcceptBlock(b) PROVE PoolInv'
  <2>1. intact /\ pc = "idle" /\ pindexBest = disk.best /\ disk'.best = disk.best
        /\ UNCHANGED <<mapTx, mapNextTx>>
    BY <1>1 DEF AcceptBlock, TxDB, poolVars, Inv, ChainInv
  <2>2. CASE SetBestChain(disk', pindexBest, b)
    BY <2>1, <2>2, BeginPool
  <2>3. CASE UNCHANGED <<pc, switchVars>>
    BY <2>1, <2>3 DEF PoolInv
  <2> QED
    BY <1>1, <2>2, <2>3 DEF AcceptBlock
<1>2. ASSUME NEW b \in Blocks, SwitchToCheckpoint(b) PROVE PoolInv'
  BY <1>2, BeginPool DEF SwitchToCheckpoint, poolVars, Inv, ChainInv
<1>3. ASSUME NEW t \in Txs, AcceptToMemoryPool(t) PROVE PoolInv'
  BY <1>3, AcceptToPool
<1>4. CASE DisconnectBlock
  <2>1. /\ intact /\ pc = "switch" /\ tip' = pprev[tip] /\ disk' = disk
        /\ vResurrect' = vResurrect \union TxsOf(tip)
        /\ UNCHANGED <<vDelete, mapTx, mapNextTx>>
    BY <1>4 DEF DisconnectBlock, poolVars
  <2>2. /\ Branch[disk.best] \ Branch[tip'] = (Branch[disk.best] \ Branch[tip]) \union {tip}
        /\ Branch[tip'] \ Branch[disk.best] = Branch[tip] \ Branch[disk.best]
    BY <1>4, <2>1, TipIsOld
  <2>3. vResurrect' = TxsIn(Branch[disk.best] \ Branch[tip'])
    BY <2>1, <2>2 DEF PoolInv, TxsIn
  <2>4. vDelete' = TxsIn(Branch[tip'] \ Branch[disk.best])
    BY <2>1, <2>2 DEF PoolInv
  <2> QED
    BY <2>1, <2>3, <2>4 DEF PoolInv
<1>5. CASE ConnectBlock
  <2> DEFINE b == NextOnPath(tip, target)
  <2>1. /\ intact /\ pc = "switch" /\ tip' = b /\ disk' = disk
        /\ vDelete' = vDelete \union TxsOf(b)
        /\ UNCHANGED <<vResurrect, mapTx, mapNextTx>>
    BY <1>5 DEF ConnectBlock, poolVars
  <2>2. b \notin Branch[disk.best] /\ Branch[b] = {b} \union Branch[tip]
    BY <1>5, <2>1, NextIsNew
  <2> HIDE DEF b
  <2>3. /\ Branch[disk.best] \ Branch[tip'] = Branch[disk.best] \ Branch[tip]
        /\ Branch[tip'] \ Branch[disk.best] = (Branch[tip] \ Branch[disk.best]) \union {b}
    BY <2>1, <2>2
  <2>4. vResurrect' = TxsIn(Branch[disk.best] \ Branch[tip'])
    BY <2>1, <2>3 DEF PoolInv
  <2>5. vDelete' = TxsIn(Branch[tip'] \ Branch[disk.best])
    BY <2>1, <2>3 DEF PoolInv, TxsIn
  <2> QED
    BY <2>1, <2>4, <2>5 DEF PoolInv
<1>6. CASE SwitchFails
  BY <1>6 DEF SwitchFails, GiveUp, poolVars, PoolInv
<1>7. CASE DatabaseFails
  BY <1>7 DEF DatabaseFails, GiveUp, poolVars, PoolInv
<1>8. CASE Commit
  BY <1>8, CommitPool
<1>9. CASE Crash
  BY <1>9 DEF Crash, PoolInv, NoCommonInput
<1>10. CASE Start
  BY <1>10 DEF Start, Load, poolVars, PoolInv
<1>11. ASSUME NEW b \in Blocks, StartAndRollBack(b) PROVE PoolInv'
  BY <1>11, BeginPool DEF StartAndRollBack, Load, poolVars
<1>12. CASE UNCHANGED vars
  BY <1>12 DEF vars, switchVars, poolVars, PoolInv
<1> QED
  BY <1>1, <1>2, <1>3, <1>4, <1>5, <1>6, <1>7, <1>8, <1>9, <1>10, <1>11, <1>12 DEF Next

-----------------------------------------------------------------------------
LEMMA MemoryInvariance == Spec => [](Inv /\ IndexInv /\ SwitchInv /\ NextInv /\ PoolInv)
<1>1. Init => IndexInv /\ SwitchInv /\ NextInv /\ PoolInv
  BY IndexInit, NextInit, PoolInit
<1>2. Inv /\ IndexInv /\ SwitchInv /\ NextInv /\ PoolInv /\ [Next]_vars
        => IndexInv' /\ SwitchInv' /\ NextInv' /\ PoolInv'
  BY IndexNext, SwitchNext, NextNext, PoolNext
<1> QED
  BY <1>1, <1>2, Invariance, PTL DEF Spec

\* pnext in memory and hashNext on disk lead along the best chain and nowhere
\* else, after any reorganizations, aborted switches, crashes and restarts.
THEOREM NextFollowsBranch == Spec => []NextIsBranch
<1>1. NextInv => NextIsBranch
  BY DEF NextInv, NextIsBranch, SuccessorsOf
<1> QED
  BY <1>1, MemoryInvariance, PTL

-----------------------------------------------------------------------------
(***************************************************************************)
(* How the best chain changes.                                             *)
(***************************************************************************)

MemoryInv == Inv /\ IndexInv /\ SwitchInv /\ NextInv /\ PoolInv

\* A transaction that leaves the chain goes back to the pool, if nothing there
\* is in conflict with it.
LEMMA CommitLosesNothing ==
    ASSUME MemoryInv, Commit, intact,
           NEW t \in Standard \ Generated, t \in TxsOnBranch(disk.best),
           t \notin TxsOnBranch(disk'.best), t \notin mapTx'
    PROVE  \E u \in mapTx : vin[t] \intersect vin[u] # {}
<1> USE Types DEF MemoryInv
<1>1. pc = "switch" /\ tip = target /\ disk'.best = target
      /\ mapTx' = (mapTx \union Resurrected) \ vDelete
  BY DEF Commit, UpdatePool, TxDB
<1>2. /\ mapTx \intersect TxsOnBranch(disk.best) = {}
      /\ mapNextTx = PoolIndex(mapTx)
      /\ vResurrect = TxsIn(Branch[disk.best] \ Branch[target])
      /\ vDelete = TxsIn(Branch[target] \ Branch[disk.best])
  BY <1>1 DEF PoolInv
<1>3. t \notin vDelete
  BY <1>1, <1>2 DEF TxsIn, TxsOnBranch
<1>4. t \in vResurrect
  BY <1>1, <1>2 DEF TxsIn, TxsOnBranch
<1>5. t \notin mapTx
  BY <1>2
<1>6. Conflicts(t)
  BY <1>1, <1>3, <1>4, <1>5 DEF Resurrected
<1>7. PICK o \in vin[t] : mapNextTx[o] # Nil
  BY <1>6 DEF Conflicts
<1>8. o \in OutPoints
  BY <1>7, OutPointType, BoundsAssumption
<1> QED
  BY <1>2, <1>7, <1>8 DEF PoolIndex

\* A commit takes an input away from the memory pool only by spending it in a
\* block, or with a transaction that cannot be put back.
LEMMA CommitKeepsMinable ==
    ASSUME MemoryInv, MemoryInv', Commit, intact, intact', NEW t \in mapTx', NEW o \in vin[t],
           ~Offered(o)', ~(t \in mapTx /\ ~Offered(o)), disk'.spent[o] \in {Nil, disk.spent[o]}
    PROVE  /\ disk.pos[o[1]] # Nil /\ disk'.pos[o[1]] = Nil
           /\ \/ o[1] \in Generated \/ o[1] \notin Standard
              \/ \E u \in mapTx : vin[o[1]] \intersect vin[u] # {}
<1> USE Types DEF MemoryInv
<1> DEFINE old == disk.best
<1>1. /\ pc = "switch" /\ disk'.best = target
      /\ mapTx' = (mapTx \union Resurrected) \ vDelete
      /\ vResurrect = TxsIn(Branch[old] \ Branch[target])
      /\ vDelete = TxsIn(Branch[target] \ Branch[old])
  BY DEF Commit, UpdatePool, TxDB, PoolInv
<1>2. /\ ValidChain(old) /\ ViewMatches(disk, old) /\ ViewMatches(disk', target)
      /\ mapTx' \intersect TxsOnBranch(target) = {}
  BY <1>1 DEF Inv, ChainInv, PoolInv
<1>3. t \in Txs /\ o \in OutPoints /\ o[1] \in Txs
  <2>1. mapTx' \subseteq Txs
    BY DEF Inv, TypeInv, TypeOK
  <2> QED
    BY <2>1, OutPointType
<1>4. ASSUME NEW u \in Txs
      PROVE  /\ disk.pos[u] # Nil <=> u \in TxsOnBranch(old)
             /\ disk'.pos[u] # Nil <=> u \in TxsOnBranch(target)
  <2>1. Branch[old] \subseteq Blocks /\ Branch[target] \subseteq Blocks
    BY OwnBranch
  <2> QED
    BY <1>2, <2>1, NilAssumption DEF ViewMatches, TxsOnBranch
<1>5. ASSUME t \notin mapTx
      PROVE  \E c \in Branch[old] : t \in TxsOf(c) /\ disk.spent[o] = <<c, t>>
                                    /\ o[1] \in TxsOnBranch(old) /\ InRange(o)
  <2>1. PICK c \in Branch[old] : t \in TxsOf(c)
    BY <1>1, <1>5 DEF Resurrected, TxsIn
  <2> QED
    BY <1>2, <2>1, InputOnBranch DEF ViewMatches
<1>6. disk'.spent[o] = Nil
  <2> SUFFICES ASSUME disk'.spent[o] = disk.spent[o], disk.spent[o] # Nil PROVE FALSE
    OBVIOUS
  <2>1. PICK c \in Branch[old] : \E u \in TxsOf(c) : o \in vin[u] /\ disk.spent[o] = <<c, u>>
    BY <1>2, <1>3 DEF ViewMatches
  <2>2. disk.pos[o[1]] # Nil
    BY <1>2, <1>3, <1>4, <2>1, InputOnBranch
  <2>3. t \notin mapTx
    BY <2>2 DEF Offered
  <2>4. PICK e \in Branch[target] : \E u \in TxsOf(e) : o \in vin[u] /\ disk'.spent[o] = <<e, u>>
    BY <1>2, <1>3 DEF ViewMatches
  <2>5. t \in TxsOf(e)
    BY <1>5, <2>3, <2>4
  <2> QED
    BY <1>2, <2>5 DEF TxsOnBranch
<1>7. InRange(o)
  BY <1>5 DEF Offered
<1>8. disk'.pos[o[1]] = Nil /\ o[1] \notin mapTx'
  BY <1>6, <1>7 DEF Offered, InRange
<1>9. disk.pos[o[1]] # Nil
  <2>1. CASE t \in mapTx
    <3>1. disk.pos[o[1]] = Nil => o[1] \in mapTx
      BY <2>1 DEF Offered
    <3>2. o[1] \in vDelete => disk'.pos[o[1]] # Nil
      BY <1>1, <1>3, <1>4 DEF TxsIn, TxsOnBranch
    <3> QED
      BY <1>1, <1>8, <3>1, <3>2
  <2>2. CASE t \notin mapTx
    BY <1>3, <1>4, <1>5, <2>2
  <2> QED
    BY <2>1, <2>2
<1>10. o[1] \in TxsOnBranch(old) /\ o[1] \notin TxsOnBranch(disk'.best)
  BY <1>1, <1>3, <1>4, <1>8, <1>9
<1> QED
  BY <1>8, <1>9, <1>10, CommitLosesNothing

\* The memory pool holds nothing the best chain has, and no two transactions
\* that spend one output, whatever Reorganize puts back into it; and an input of
\* the memory pool is there to be spent until a block spends it another way or
\* takes its transaction away for good.
THEOREM PoolStaysSound == Spec => PoolSound
<1>1. PoolInv => PoolOutsideChain /\ PoolConsistent
  BY DEF PoolInv, PoolOutsideChain, PoolConsistent, NoCommonInput
<1>2. MemoryInv /\ MemoryInv' /\ [Next]_vars =>
        [ \A t \in mapTx' : \A o \in vin[t] :
           \/ Offered(o)' \/ ~intact'
           \/ t \in mapTx /\ ~Offered(o)
           \/ disk'.spent[o] \notin {Nil, disk.spent[o]}
           \/ /\ disk.pos[o[1]] # Nil /\ disk'.pos[o[1]] = Nil
              /\ \/ o[1] \in Generated \/ o[1] \notin Standard
                 \/ \E u \in mapTx : vin[o[1]] \intersect vin[u] # {} ]_vars
  <2> SUFFICES ASSUME MemoryInv, MemoryInv', Next, intact',
                      NEW t \in mapTx', NEW o \in vin[t],
                      ~Offered(o)', ~(t \in mapTx /\ ~Offered(o)),
                      disk'.spent[o] \in {Nil, disk.spent[o]}
               PROVE  /\ disk.pos[o[1]] # Nil /\ disk'.pos[o[1]] = Nil
                      /\ \/ o[1] \in Generated \/ o[1] \notin Standard
                         \/ \E u \in mapTx : vin[o[1]] \intersect vin[u] # {}
    OBVIOUS
  <2>1. CASE Commit
    BY <2>1, CommitKeepsMinable DEF Commit
  <2>2. CASE ~Commit
    <3>1. disk'.pos = disk.pos /\ disk'.spent = disk.spent
      BY <2>2, OnlyCommitWrites DEF MemoryInv
    <3>2. \/ mapTx' = mapTx \/ mapTx' = {}
          \/ \E u \in Txs : Acceptable(u) /\ mapTx' = mapTx \union {u}
      BY <2>2 DEF Next, AcceptBlock, SwitchToCheckpoint, AcceptToMemoryPool, AddUnchecked,
         DisconnectBlock, ConnectBlock, SwitchFails, DatabaseFails, GiveUp, Crash, Start,
         StartAndRollBack, Load, poolVars
    <3>3. t \in mapTx \/ CanSpendLoose(o)
      BY <3>2 DEF Acceptable
    <3> QED
      BY <3>1, <3>2, <3>3 DEF Offered, CanSpendLoose, InRange
  <2> QED
    BY <2>1, <2>2
<1>3. Spec => []MemoryInv
  BY MemoryInvariance, PTL DEF MemoryInv
<1>4. Spec => []PoolInv
  BY MemoryInvariance, PTL
<1> QED
  BY <1>1, <1>2, <1>3, <1>4, PTL DEF Spec, PoolSound, PoolKeepsMinable

\* The best chain is replaced by one with more trust, or because a checkpoint
\* or a bad block asked for it, and no transaction is lost on the way.
THEOREM TipAlwaysChangesWell == Spec => TipChangesWell
<1>1. LedgerInv /\ [Next]_vars =>
        [disk'.best # disk.best =>
           \/ bnChainTrust[disk'.best] > bnChainTrust[disk.best]
           \/ disk'.best \in Requested \union Branch[disk.best]
           \/ ~intact]_vars
  <2> SUFFICES ASSUME LedgerInv, [Next]_vars, disk'.best # disk.best, intact
               PROVE  \/ bnChainTrust[disk'.best] > bnChainTrust[disk.best]
                      \/ disk'.best \in Requested \union Branch[disk.best]
    OBVIOUS
  <2>1. Commit
    BY OnlyCommitWrites DEF LedgerInv
  <2>2. pc = "switch" /\ disk'.best = target
    BY <2>1, Types DEF Commit, TxDB, LedgerInv
  <2> QED
    BY <2>2 DEF LedgerInv, TargetJustified
<1>2. MemoryInv /\ [Next]_vars =>
        [\A t \in (TxsOnBranch(disk.best) \ TxsOnBranch(disk'.best)) \intersect Standard :
           \/ t \in Generated \/ t \in mapTx' \/ ~intact
           \/ \E u \in mapTx : vin[t] \intersect vin[u] # {}]_vars
  <2> SUFFICES ASSUME MemoryInv, [Next]_vars, intact,
                      NEW t \in Standard \ Generated, t \in TxsOnBranch(disk.best),
                      t \notin TxsOnBranch(disk'.best), t \notin mapTx'
               PROVE  \E u \in mapTx : vin[t] \intersect vin[u] # {}
    OBVIOUS
  <2>1. Commit
    BY OnlyCommitWrites DEF MemoryInv
  <2> QED
    BY <2>1, CommitLosesNothing
<1>3. Spec => []MemoryInv
  BY MemoryInvariance, PTL DEF MemoryInv
<1> QED
  BY <1>1, <1>2, <1>3, LedgerInvariance, PTL
  DEF Spec, TipChangesWell, TrustGrows, NothingLost

-----------------------------------------------------------------------------
(***************************************************************************)
(* The most trust wins.  ConnectBlock refuses nothing that a valid chain   *)
(* has, so a switch fails only on the way to an invalid block; a block     *)
(* that once lost against the best one for want of trust never wins later, *)
(* since the trust of the best block only grows.                           *)
(***************************************************************************)

\* The next block of a valid chain is accepted by ConnectBlock: the converse
\* of ConnectValid.
LEMMA ConnectPossible ==
    ASSUME NEW d \in TxDB, NEW b \in Blocks \ {Genesis}, ValidChain(b),
           ViewMatches(d, pprev[b])
    PROVE  CanConnect(d, b)
<1>1. b \in Sound /\ TxsOf(b) \intersect TxsOnBranch(pprev[b]) = {}
  BY BranchStep DEF ValidChain
<1>2. \A t \in TxsOf(b) : d.pos[t] = Nil
  BY <1>1, TxsOfType DEF ViewMatches, TxsOnBranch
<1>3. ASSUME NEW i \in DOMAIN vtx[b], NEW o \in vin[vtx[b][i]]
      PROVE  CanSpend(d, b, i, o)
  <2>1. InputExists(b, i, o) /\ InputFresh(b, i, o)
    BY BranchStep DEF ValidChain
  <2>2. o \in OutPoints /\ o[1] \in Txs
    BY TxsOfType, OutPointType
  <2>3. PICK c \in Branch[b] : \E j \in DOMAIN vtx[c] :
          /\ vtx[c][j] = o[1] /\ Before(c, j, b, i)
          /\ InRange(o) /\ (o[1] \in Generated => ~Immature(c, b))
    BY <2>1 DEF InputExists
  <2>4. PICK j \in DOMAIN vtx[c] :
          /\ vtx[c][j] = o[1] /\ Before(c, j, b, i)
          /\ InRange(o) /\ (o[1] \in Generated => ~Immature(c, b))
    BY <2>3
  <2>5. c \in Blocks /\ c # Nil /\ b # Nil /\ o[1] \in TxsOf(c)
    BY <2>4, OwnBranch, NilAssumption DEF TxsOf
  <2>6. FetchedPos(d, b, i, o[1]) = c
    <3>1. CASE c = b
      BY <2>4, <3>1 DEF Before, FetchedPos, MadeEarlier
    <3>2. CASE c # b
      <4>1. c \in Branch[pprev[b]] /\ o[1] \notin TxsOf(b)
        BY <1>1, <2>5, <3>2, BranchStep DEF TxsOnBranch
      <4>2. ~MadeEarlier(b, i, o[1]) /\ d.pos[o[1]] = c
        BY <2>5, <4>1 DEF MadeEarlier, TxsOf, ViewMatches
      <4> QED
        BY <4>2 DEF FetchedPos
    <3> QED
      BY <3>1, <3>2
  <2>7. d.spent[o] = Nil
    <3> SUFFICES ASSUME d.spent[o] # Nil PROVE FALSE
      OBVIOUS
    <3>1. PICK e \in Branch[pprev[b]] : \E t \in TxsOf(e) : o \in vin[t]
      BY <2>2 DEF ViewMatches
    <3>2. PICK k \in DOMAIN vtx[e] : o \in vin[vtx[e][k]]
      BY <3>1 DEF TxsOf
    <3>3. e \in Branch[b] /\ Before(e, k, b, i)
      BY BranchStep DEF Before
    <3> QED
      BY <2>1, <3>2, <3>3 DEF InputFresh
  <2>8. ASSUME NEW k \in DOMAIN vtx[b], k < i PROVE o \notin vin[vtx[b][k]]
    BY <2>1, <2>8, OwnBranch DEF InputFresh, Before
  <2> QED
    BY <2>4, <2>5, <2>6, <2>7, <2>8 DEF CanSpend
<1> QED
  BY <1>1, <1>2, <1>3 DEF CanConnect, NoLiveOverwrite

\* No crash, no failure of the database, and no record overwritten.
Undisturbed == intact /\ crashes = 0 /\ failures = 0

\* While a switch runs, only the block it is for may have more trust than the
\* best one and a valid chain; the first target is already better.
TrustInv ==
    Undisturbed =>
        /\ pc # "down"
        /\ MostTrustWins
        /\ pc = "switch" =>
              /\ ~secondary
              /\ bnChainTrust[target] > bnChainTrust[pindexBest]
              /\ bnChainTrust[pindexNew] > bnChainTrust[pindexBest]
              /\ \A b \in mapBlockIndex \ {pindexNew} :
                    ValidChain(b) => bnChainTrust[b] <= bnChainTrust[pindexBest]

LEMMA TrustInit == Init => TrustInv
BY TreeAssumption DEF Init, TrustInv, MostTrustWins

LEMMA AcceptBlockTrust ==
    ASSUME MemoryInv, TrustInv, Undisturbed, NEW b \in Blocks, AcceptBlock(b)
    PROVE  TrustInv'
<1> USE Types DEF MemoryInv
<1>1. /\ pc = "idle" /\ mapBlockIndex' = mapBlockIndex \union {b}
      /\ pindexBest' = pindexBest /\ pindexBest \in Blocks
      /\ mapBlockIndex \subseteq Blocks
  BY DEF AcceptBlock, IndexInv
<1>2. \A c \in mapBlockIndex : ValidChain(c) => bnChainTrust[c] <= bnChainTrust[pindexBest]
  BY <1>1 DEF TrustInv, MostTrustWins
<1>3. bnChainTrust[b] \in Nat /\ bnChainTrust[pindexBest] \in Nat
  BY <1>1, TreeAssumption
<1>4. CASE HasMoreTrust(b, pindexBest)
  <2>1. /\ pc' = "switch" /\ pindexNew' = b /\ secondary' = FALSE
        /\ target' = FirstTarget(b, pindexBest)
    BY <1>4 DEF AcceptBlock, SetBestChain, Begin
  <2>2. bnChainTrust[target'] > bnChainTrust[pindexBest]
    BY <1>1, <1>4, <2>1, FirstTargetOnBranch DEF HasMoreTrust
  <2> QED
    BY <1>1, <1>2, <1>4, <2>1, <2>2 DEF TrustInv, MostTrustWins, HasMoreTrust
<1>5. CASE ~HasMoreTrust(b, pindexBest)
  <2>1. pc' = "idle"
    BY <1>1, <1>5 DEF AcceptBlock
  <2>2. bnChainTrust[b] <= bnChainTrust[pindexBest]
    BY <1>3, <1>5 DEF HasMoreTrust
  <2> QED
    BY <1>1, <1>2, <2>1, <2>2 DEF TrustInv, MostTrustWins
<1> QED
  BY <1>4, <1>5

\* A switch that fails does not lead to a valid chain.
LEMMA FailingSwitch ==
    ASSUME MemoryInv, intact, SwitchFails
    PROVE  ~ValidChain(pindexNew)
<1> USE Types DEF MemoryInv
<1> SUFFICES ASSUME ValidChain(pindexNew) PROVE FALSE
  OBVIOUS
<1>1. /\ pc = "switch" /\ {tip, target, pindexNew} \subseteq Blocks
      /\ target \in Branch[pindexNew] /\ txn \in TxDB
  BY DEF SwitchFails
<1>2. ValidChain(tip) /\ ViewMatches(txn, tip)
  BY <1>1 DEF Inv, ChainInv
<1>3. CASE tip \in Branch[target]
  <2> DEFINE n == NextOnPath(tip, target)
  <2>1. tip # target /\ ~CanConnect(txn, n)
    BY <1>3 DEF SwitchFails
  <2>2. n \in Branch[target] /\ n # Genesis /\ pprev[n] = tip
    BY <1>1, <1>3, <2>1, NextOnPathExists
  <2> HIDE DEF n
  <2>3. n \in Branch[pindexNew] /\ n \in Blocks \ {Genesis}
    BY <1>1, <2>2, BranchAssumption, OwnBranch
  <2>4. Branch[n] \subseteq Branch[pindexNew]
    BY <1>1, <2>3, BranchAssumption
  <2>5. ValidChain(n)
    BY <2>4 DEF ValidChain
  <2> QED
    BY <1>1, <1>2, <2>1, <2>2, <2>3, <2>5, ConnectPossible
<1>4. CASE tip \notin Branch[target]
  <2>1. ~CanDisconnect(txn, tip)
    BY <1>4 DEF SwitchFails
  <2>2. tip # Genesis
    BY <1>1, <1>4, GenesisOnBranch
  <2> QED
    BY <1>1, <1>2, <2>1, <2>2, DisconnectPossible
<1> QED
  BY <1>3, <1>4

\* What is committed is the block asked for: a better block on the way to it
\* had been refused before.
LEMMA CommitTrust ==
    ASSUME MemoryInv, TrustInv, Undisturbed, Commit
    PROVE  TrustInv'
<1> USE Types DEF MemoryInv
<1>1. /\ pc = "switch" /\ tip = target /\ {target, pindexNew, pindexBest} \subseteq Blocks
      /\ target \in Branch[pindexNew] /\ mapBlockIndex' = mapBlockIndex
      /\ mapBlockIndex \subseteq Blocks
  BY DEF Commit, IndexInv
<1>2. ValidChain(target) /\ target \in mapBlockIndex
  BY <1>1 DEF Inv, ChainInv, IndexInv, Undisturbed
<1>3. /\ bnChainTrust[target] > bnChainTrust[pindexBest]
      /\ bnChainTrust[pindexNew] > bnChainTrust[pindexBest]
      /\ \A b \in mapBlockIndex \ {pindexNew} :
            ValidChain(b) => bnChainTrust[b] <= bnChainTrust[pindexBest]
  BY <1>1 DEF TrustInv
<1>4. \A b \in mapBlockIndex \union {pindexBest, target} : bnChainTrust[b] \in Nat
  BY <1>1, TreeAssumption
<1>5. target = pindexNew
  <2> SUFFICES ASSUME target # pindexNew PROVE FALSE
    OBVIOUS
  <2>1. bnChainTrust[target] <= bnChainTrust[pindexBest]
    BY <1>2, <1>3
  <2>2. bnChainTrust[target] \in Nat /\ bnChainTrust[pindexBest] \in Nat
    BY <1>4
  <2> QED
    BY <1>3, <2>1, <2>2
<1>6. pc' = "idle" /\ pindexBest' = pindexNew
  BY <1>5 DEF Commit
<1>7. ASSUME NEW b \in mapBlockIndex, ValidChain(b)
      PROVE  bnChainTrust[b] <= bnChainTrust[pindexNew]
  <2>1. CASE b = pindexNew
    BY <1>4, <1>5, <2>1
  <2>2. CASE b # pindexNew
    <3>1. bnChainTrust[b] <= bnChainTrust[pindexBest]
      BY <1>3, <1>7, <2>2
    <3>2. bnChainTrust[b] \in Nat /\ bnChainTrust[pindexBest] \in Nat
          /\ bnChainTrust[pindexNew] \in Nat
      BY <1>4, <1>5
    <3> QED
      BY <1>3, <3>1, <3>2
  <2> QED
    BY <2>1, <2>2
<1> QED
  BY <1>1, <1>6, <1>7 DEF TrustInv, MostTrustWins

LEMMA TrustNext ==
    ASSUME Requested = {}, MemoryInv, TrustInv, [Next]_vars
    PROVE  TrustInv'
<1> SUFFICES ASSUME Undisturbed' PROVE TrustInv'
  BY DEF TrustInv
<1> USE Types DEF MemoryInv
<1>a. crashes \in Nat /\ failures \in Nat /\ intact \in BOOLEAN
  BY BoundsAssumption DEF Inv, TypeInv, TypeOK
<1>1. ASSUME NEW b \in Blocks, AcceptBlock(b) PROVE TrustInv'
  <2>1. Undisturbed
    BY <1>1 DEF AcceptBlock, faultVars, Undisturbed
  <2> QED
    BY <1>1, <2>1, AcceptBlockTrust
<1>2. ASSUME NEW b \in Blocks, SwitchToCheckpoint(b) PROVE TrustInv'
  BY <1>2 DEF SwitchToCheckpoint
<1>3. ASSUME NEW t \in Txs, AcceptToMemoryPool(t) PROVE TrustInv'
  BY <1>3 DEF AcceptToMemoryPool, switchVars, faultVars, TrustInv, MostTrustWins, Undisturbed
<1>4. CASE DisconnectBlock
  BY <1>4 DEF DisconnectBlock, faultVars, TrustInv, MostTrustWins, Undisturbed
<1>5. CASE ConnectBlock
  <2>1. Undisturbed /\ pc = "switch"
    BY <1>5 DEF ConnectBlock, faultVars, Undisturbed
  <2> QED
    BY <1>5, <2>1 DEF ConnectBlock, TrustInv, MostTrustWins
<1>6. CASE SwitchFails
  <2>1. Undisturbed /\ pc = "switch" /\ pc' = "idle"
    BY <1>6, <1>a DEF SwitchFails, GiveUp, Undisturbed
  <2>2. ~ValidChain(pindexNew)
    BY <1>6, <2>1, FailingSwitch DEF Undisturbed
  <2>3. pindexBest' = pindexBest /\ mapBlockIndex' = mapBlockIndex
    BY <1>6, <2>1 DEF SwitchFails, GiveUp, TrustInv
  <2> QED
    BY <2>1, <2>2, <2>3 DEF TrustInv, MostTrustWins
<1>7. CASE DatabaseFails
  BY <1>7, <1>a DEF DatabaseFails, Undisturbed
<1>8. CASE Commit
  <2>1. Undisturbed
    BY <1>8 DEF Commit, faultVars, Undisturbed
  <2> QED
    BY <1>8, <2>1, CommitTrust
<1>9. CASE Crash
  BY <1>9, <1>a DEF Crash, Undisturbed
<1>10. CASE Start
  BY <1>10 DEF Start, Load, faultVars, Undisturbed, TrustInv
<1>11. ASSUME NEW b \in Blocks, StartAndRollBack(b) PROVE TrustInv'
  BY <1>11 DEF StartAndRollBack, Load, faultVars, Undisturbed, TrustInv
<1>12. CASE UNCHANGED vars
  BY <1>12 DEF vars, switchVars, faultVars, TrustInv, MostTrustWins, Undisturbed
<1> QED
  BY <1>1, <1>2, <1>3, <1>4, <1>5, <1>6, <1>7, <1>8, <1>9, <1>10, <1>11, <1>12 DEF Next

\* With no checkpoint to obey, and until a crash or a failing database leaves
\* a block behind, the best block between calls of SetBestChain is the one
\* with the most trust among all known blocks with a valid chain, in whatever
\* order they came and whatever invalid branches were tried before.
THEOREM BestHasMostTrust ==
    ASSUME Requested = {}
    PROVE  Spec => [](intact /\ crashes = 0 /\ failures = 0 => MostTrustWins)
<1>1. MemoryInv /\ TrustInv /\ [Next]_vars => TrustInv'
  BY TrustNext
<1>2. TrustInv => (intact /\ crashes = 0 /\ failures = 0 => MostTrustWins)
  BY DEF TrustInv, Undisturbed
<1>3. Spec => []MemoryInv
  BY MemoryInvariance, PTL DEF MemoryInv
<1> QED
  BY <1>1, <1>2, <1>3, TrustInit, PTL DEF Spec

-----------------------------------------------------------------------------
(***************************************************************************)
(* The wallet follows the best chain, for every tree of blocks, every      *)
(* wallet and any number of crashes and failures.  The wallet is told of   *)
(* blocks in the middle of a switch and keeps what it was told; the        *)
(* invariant says at every moment which chain the wallet stands at, and    *)
(* what a copy of wallet.dat is worth.                                     *)
(***************************************************************************)
\* What a wallet holds: only outputs of mine are flagged, and a block it names
\* has the transaction.
GoodWallets ==
    {w \in [Txs -> WalletTx \union {Nil}] :
        \A t \in Txs : w[t] # Nil =>
            /\ w[t].vfSpent \subseteq MineOf(t)
            /\ w[t].hashBlock # Nil => t \in TxsOf(w[t].hashBlock)}

IsMineOrSpends(t) == PaysMe(t) \/ vin[t] \intersect Mine # {}

\* The wallet w and the transactions T of a chain: those of mine are known, ...
Knows(w, T) == \A t \in T : IsMineOrSpends(t) => w[t] # Nil

\* ... those of T name a block of the chain, ...
Agrees(w, T, chain) == \A t \in T : w[t] # Nil => w[t].hashBlock \in chain

\* ... the outputs that T spends are flagged ...
Flags(w, T) ==
    \A t \in T : \A o \in vin[t] \intersect Mine :
        w[o[1]] # Nil => o[2] \in w[o[1]].vfSpent

\* ... and a flag has a reason: a known transaction that spends the output and
\* is not a coinstake of another branch.
Backed(w, T) ==
    \A o \in Mine : w[o[1]] # Nil /\ o[2] \in w[o[1]].vfSpent =>
        \E u \in Txs : o \in vin[u] /\ w[u] # Nil /\ (u \notin CoinStakes \/ u \in T)

\* A wallet follows the transactions T of a chain: it agrees with A and has
\* the flags of F, both parts of T.
FollowsTxs(w, T, A, F, chain) == Knows(w, T) /\ Agrees(w, A, chain) /\ Flags(w, F)

\* It follows the chain of b but for the blocks M, of which it may name others,
\* and the blocks U, whose inputs may not be flagged.
Follows(w, b, M, U) ==
    FollowsTxs(w, TxsOnBranch(b), TxsIn(Branch[b] \ M), TxsIn(Branch[b] \ U), Branch[b])

\* The coinstakes on the chain of b or in the blocks S may be a reason.
Reasons(b, S) == TxsOnBranch(b) \union TxsIn(S)

\* The locator of a wallet file names a valid chain whose transactions the
\* file has.
LocatorSound(w, b) == b # Nil => ValidChain(b) /\ Knows(w, TxsOnBranch(b))

WalletTypes ==
    /\ mapWallet \in GoodWallets
    /\ bestblock \in Blocks \union {Nil}
    /\ registered \in BOOLEAN /\ reaccepted \in BOOLEAN
    /\ {misplaced, unflagged, stranded} \subseteq SUBSET Blocks
    /\ restored \in BOOLEAN
    /\ backup # Nil =>
          backup \in [mapWallet : GoodWallets, bestblock : Blocks \union {Nil}, best : Blocks,
                      misplaced : SUBSET Blocks, unflagged : SUBSET Blocks,
                      stranded : SUBSET Blocks]

\* What is restored may be followed from its locator on.
BackupInv ==
    /\ restored => backup # Nil
    /\ (intact /\ backup # Nil /\ backup.bestblock # Nil) =>
          /\ ValidChain(backup.bestblock)
          /\ Follows(backup.mapWallet, backup.bestblock, backup.misplaced, backup.unflagged)
          /\ Backed(backup.mapWallet, Reasons(backup.best, backup.stranded))

\* Before the wallet is registered the chain only goes down.
RollBackInv ==
    /\ pc = "down" => ~registered
    /\ (intact /\ pc = "switch" /\ ~registered) =>
          /\ ~secondary /\ target = pindexNew
          /\ target \in Branch[disk.best] /\ target # disk.best

\* The block the wallet was last told of: tip in a switch, the best block
\* otherwise.
Here == IF registered /\ pc = "switch" THEN tip ELSE disk.best

\* Where the wallet stands: whatever becomes of a switch, it follows the stored
\* chain as well as the one it is being told of; a restored copy follows the
\* chain of its locator.
Stands(w, locator, isRegistered, here, best, M, U, S) ==
    /\ LocatorSound(w, locator)
    /\ \/ Follows(w, best, M, U)
       \/ ~isRegistered /\ locator # Nil /\ Follows(w, locator, M, U)
    /\ isRegistered => Follows(w, here, M, U)
    /\ Backed(w, Reasons(here, S))

FollowInv ==
    intact /\ ~Blind =>
        Stands(mapWallet, bestblock, registered, Here, disk.best, misplaced, unflagged, stranded)

WalletInv == WalletTypes /\ BackupInv /\ RollBackInv /\ FollowInv

-----------------------------------------------------------------------------
(***************************************************************************)
(* Loops.  A recursive function exists, and does what its definition says. *)
(***************************************************************************)

LEMMA SyncFirstStep ==
    ASSUME NEW w, NEW b \in Blocks, NEW f
    PROVE  /\ SyncFirst(w, b, 0, f) = w
           /\ \A m \in 0 .. Len(vtx[b]) - 1 :
                 SyncFirst(w, b, m + 1, f) = Sync(SyncFirst(w, b, m, f), vtx[b][m + 1], b, f)
<1> DEFINE len == Len(vtx[b])
           Run(h, m) == h = [i \in 0 .. m |-> IF i = 0 THEN w ELSE Sync(h[i - 1], vtx[b][i], b, f)]
<1>1. len \in Nat
  BY TxAssumption
<1>2. \E h : Run(h, 0)
  <2>1. Run([i \in 0 .. 0 |-> w], 0)
    OBVIOUS
  <2> QED
    BY <2>1
<1>3. ASSUME NEW m \in 0 .. len - 1, NEW h, Run(h, m) PROVE \E g : Run(g, m + 1)
  <2> DEFINE g == [i \in 0 .. m + 1 |-> IF i <= m THEN h[i] ELSE Sync(h[m], vtx[b][m + 1], b, f)]
  <2>1. Run(g, m + 1)
    BY <1>1, <1>3
  <2> QED
    BY <2>1
<1> HIDE DEF Run
<1>4. \E h : Run(h, len)
  <2> DEFINE S == {m \in 0 .. len : \E h : Run(h, m)}
  <2>1. 0 \in S
    BY <1>1, <1>2
  <2>2. ASSUME NEW m \in 0 .. len - 1, m \in S PROVE m + 1 \in S
    BY <1>1, <1>3, <2>2
  <2> HIDE DEF S
  <2>3. \A m \in 0 .. len : m \in S
    BY <1>1, <2>1, <2>2, UpTo
  <2> QED
    BY <1>1, <2>3 DEF S
<1> DEFINE after == CHOOSE h : Run(h, len)
<1>5. Run(after, len)
  BY <1>4
<1>6. \A n : SyncFirst(w, b, n, f) = after[n]
  BY DEF SyncFirst, Run
<1> HIDE DEF after
<1>7. after[0] = w /\ \A m \in 0 .. len - 1 : after[m + 1] = Sync(after[m], vtx[b][m + 1], b, f)
  <2> HIDE DEF len
  <2> QED BY <1>1, <1>5 DEF Run
<1> QED
  BY <1>6, <1>7

LEMMA SyncFirstNext ==
    ASSUME NEW w, NEW b \in Blocks, NEW f, NEW m \in 0 .. Len(vtx[b]) - 1
    PROVE  SyncFirst(w, b, m + 1, f) = Sync(SyncFirst(w, b, m, f), vtx[b][m + 1], b, f)
BY SyncFirstStep

\* What Sync keeps for the transactions of a block is kept in the block.
LEMMA SyncKeeps ==
    ASSUME NEW w, NEW b \in Blocks, NEW f, NEW S, w \in S,
           \A v \in S : \A t \in TxsOf(b) : Sync(v, t, b, f) \in S
    PROVE  \A n \in 0 .. Len(vtx[b]) : SyncFirst(w, b, n, f) \in S
<1> DEFINE len == Len(vtx[b])
           R == {n \in 0 .. len : SyncFirst(w, b, n, f) \in S}
<1>1. len \in Nat /\ DOMAIN vtx[b] = 1 .. len
  BY TxAssumption
<1>2. 0 \in R
  BY <1>1, SyncFirstStep
<1>3. ASSUME NEW m \in 0 .. len - 1, m \in R PROVE m + 1 \in R
  <2>1. m + 1 \in 1 .. len /\ m + 1 - 1 = m
    BY <1>1
  <2>2. SyncFirst(w, b, m + 1, f) = Sync(SyncFirst(w, b, m, f), vtx[b][m + 1], b, f)
    BY SyncFirstStep
  <2>3. vtx[b][m + 1] \in TxsOf(b)
    BY <1>1, <2>1 DEF TxsOf
  <2> QED
    BY <1>3, <2>1, <2>2, <2>3
<1> HIDE DEF R, len
<1>4. \A m \in 0 .. len : m \in R
  BY <1>1, <1>2, <1>3, UpTo
<1> QED
  BY <1>4 DEF R, len

LEMMA RescanRuns ==
    ASSUME NEW w, NEW b, NEW f, pindexBest \in Blocks
    PROVE  \E at, after :
              /\ at[0] = b /\ after[0] = w
              /\ \A n \in 1 .. nHeight[pindexBest] + 1 :
                    /\ at[n] = IF at[n - 1] = Nil THEN Nil ELSE pnext[at[n - 1]]
                    /\ after[n] = IF at[n - 1] = Nil THEN after[n - 1]
                                  ELSE SyncBlock(after[n - 1], at[n - 1], f)
              /\ Rescanned(w, b, f) = after[nHeight[pindexBest] + 1]
<1> DEFINE last == nHeight[pindexBest] + 1
           Along(h, m) == h = [n \in 0 .. m |-> IF n = 0 THEN b
                                ELSE IF h[n - 1] = Nil THEN Nil ELSE pnext[h[n - 1]]]
<1>1. last \in Nat /\ last > 0
  BY TreeAssumption
<1>2. \E h : Along(h, 0)
  <2>1. Along([n \in 0 .. 0 |-> b], 0)
    OBVIOUS
  <2> QED
    BY <2>1
<1>3. ASSUME NEW m \in 0 .. last - 1, NEW h, Along(h, m) PROVE \E g : Along(g, m + 1)
  <2> DEFINE g == [n \in 0 .. m + 1 |-> IF n <= m THEN h[n]
                                        ELSE IF h[m] = Nil THEN Nil ELSE pnext[h[m]]]
  <2>1. Along(g, m + 1)
    BY <1>1, <1>3
  <2> QED
    BY <2>1
<1> HIDE DEF Along, last
<1>4. \E h : Along(h, last)
  <2> DEFINE S == {m \in 0 .. last : \E h : Along(h, m)}
  <2>1. 0 \in S
    BY <1>1, <1>2
  <2>2. ASSUME NEW m \in 0 .. last - 1, m \in S PROVE m + 1 \in S
    BY <1>1, <1>3, <2>2
  <2> HIDE DEF S
  <2>3. \A m \in 0 .. last : m \in S
    BY <1>1, <2>1, <2>2, UpTo
  <2> QED
    BY <1>1, <2>3 DEF S
<1> DEFINE at == CHOOSE h : Along(h, last)
<1>5. Along(at, last)
  BY <1>4
<1> HIDE DEF at
<1> DEFINE Run(h, m) == h = [n \in 0 .. m |-> IF n = 0 THEN w
                               ELSE IF at[n - 1] = Nil THEN h[n - 1]
                               ELSE SyncBlock(h[n - 1], at[n - 1], f)]
<1>6. \E h : Run(h, 0)
  <2>1. Run([n \in 0 .. 0 |-> w], 0)
    OBVIOUS
  <2> QED
    BY <2>1
<1>7. ASSUME NEW m \in 0 .. last - 1, NEW h, Run(h, m) PROVE \E g : Run(g, m + 1)
  <2> DEFINE g == [n \in 0 .. m + 1 |-> IF n <= m THEN h[n]
                                        ELSE IF at[m] = Nil THEN h[m] ELSE SyncBlock(h[m], at[m], f)]
  <2>1. Run(g, m + 1)
    BY <1>1, <1>7
  <2> QED
    BY <2>1
<1> HIDE DEF Run
<1>8. \E h : Run(h, last)
  <2> DEFINE S == {m \in 0 .. last : \E h : Run(h, m)}
  <2>1. 0 \in S
    BY <1>1, <1>6
  <2>2. ASSUME NEW m \in 0 .. last - 1, m \in S PROVE m + 1 \in S
    BY <1>1, <1>7, <2>2
  <2> HIDE DEF S
  <2>3. \A m \in 0 .. last : m \in S
    BY <1>1, <2>1, <2>2, UpTo
  <2> QED
    BY <1>1, <2>3 DEF S
<1> DEFINE after == CHOOSE h : Run(h, last)
<1>9. Run(after, last)
  BY <1>8
<1>10. Rescanned(w, b, f) = after[last]
  BY DEF Rescanned, Run, at, Along, last
<1> HIDE DEF after
<1>11. at[0] = b /\ \A n \in 1 .. last : at[n] = IF at[n - 1] = Nil THEN Nil ELSE pnext[at[n - 1]]
  BY <1>1, <1>5 DEF Along
<1>12. after[0] = w /\ \A n \in 1 .. last : after[n] = IF at[n - 1] = Nil THEN after[n - 1]
                                             ELSE SyncBlock(after[n - 1], at[n - 1], f)
  BY <1>1, <1>9 DEF Run
<1>13. /\ at[0] = b /\ after[0] = w
       /\ \A n \in 1 .. last :
             /\ at[n] = IF at[n - 1] = Nil THEN Nil ELSE pnext[at[n - 1]]
             /\ after[n] = IF at[n - 1] = Nil THEN after[n - 1]
                           ELSE SyncBlock(after[n - 1], at[n - 1], f)
       /\ Rescanned(w, b, f) = after[last]
  BY <1>10, <1>11, <1>12
<1> QED
  BY <1>13 DEF last

\* What Sync keeps for the transactions of the blocks C is kept by a scan of C.
LEMMA RescanKeeps ==
    ASSUME NEW w, NEW C \in SUBSET Blocks, NEW b \in C, NEW f, NEW S, w \in S,
           pindexBest \in Blocks, \A c \in C : pnext[c] \in C \union {Nil},
           \A v \in S : \A c \in C : \A t \in TxsOf(c) : Sync(v, t, c, f) \in S
    PROVE  Rescanned(w, b, f) \in S
<1> DEFINE last == nHeight[pindexBest] + 1
<1>1. last \in Nat
  BY TreeAssumption
<1>2. PICK at, after :
        /\ at[0] = b /\ after[0] = w
        /\ \A n \in 1 .. last :
              /\ at[n] = IF at[n - 1] = Nil THEN Nil ELSE pnext[at[n - 1]]
              /\ after[n] = IF at[n - 1] = Nil THEN after[n - 1]
                            ELSE SyncBlock(after[n - 1], at[n - 1], f)
        /\ Rescanned(w, b, f) = after[last]
  BY RescanRuns
<1> HIDE DEF last
<1> DEFINE R == {n \in 0 .. last : at[n] \in C \union {Nil} /\ after[n] \in S}
<1>3. 0 \in R
  BY <1>1, <1>2
<1>4. ASSUME NEW m \in 0 .. last - 1, m \in R PROVE m + 1 \in R
  <2>1. m + 1 \in 1 .. last /\ m + 1 - 1 = m
    BY <1>1
  <2>2. at[m] \in C \union {Nil} /\ after[m] \in S
    BY <1>4
  <2>3. CASE at[m] = Nil
    <3>1. at[m + 1] = Nil /\ after[m + 1] = after[m]
      BY <1>2, <2>1, <2>3
    <3> QED
      BY <2>1, <2>2, <3>1
  <2>4. CASE at[m] # Nil
    <3>1. at[m + 1] = pnext[at[m]] /\ after[m + 1] = SyncBlock(after[m], at[m], f)
      BY <1>2, <2>1, <2>4
    <3>2. at[m] \in C /\ at[m] \in Blocks
      BY <2>2, <2>4
    <3>3. Len(vtx[at[m]]) \in Nat
      BY <3>2, TxAssumption
    <3>4. SyncBlock(after[m], at[m], f) \in S
      BY <2>2, <3>2, <3>3, SyncKeeps DEF SyncBlock
    <3> QED
      BY <2>1, <3>1, <3>2, <3>4
  <2> QED
    BY <2>3, <2>4
<1> HIDE DEF R
<1>5. \A m \in 0 .. last : m \in R
  BY <1>1, <1>3, <1>4, UpTo
<1> QED
  BY <1>1, <1>2, <1>5 DEF R

\* The wallet with what the index says taken over.
Flagged(v) == [t \in Txs |-> IF v[t] = Nil THEN Nil
                  ELSE [v[t] EXCEPT !.vfSpent = @ \union IndexSpent(v, t)]]

\* The loop of ReacceptWalletTransactions stays where its first round leads.
LEMMA TakeOverKeeps ==
    ASSUME NEW w, NEW S, \A v \in S : Flagged(v) \in S,
           \A v \in S : Rescanned(v, Genesis, FALSE) \in S,
           \/ w \in S
           \/ Txs # {} /\ Flagged(w) \in S
    PROVE  TakeOver(w) \in S
<1> DEFINE last == Cardinality(Txs)
           Turn(v) == IF Flagged(v) = v THEN v ELSE Rescanned(Flagged(v), Genesis, FALSE)
           Run(h, m) == h = [n \in 0 .. m |-> IF n = 0 THEN w ELSE Turn(h[n - 1])]
<1>1. last \in Nat /\ (Txs # {} => last # 0)
  BY WalletAssumption, FS_CardinalityType, FS_EmptySet
<1>2. \E h : Run(h, 0)
  <2>1. Run([n \in 0 .. 0 |-> w], 0)
    OBVIOUS
  <2> QED
    BY <2>1
<1>3. ASSUME NEW m \in 0 .. last - 1, NEW h, Run(h, m) PROVE \E g : Run(g, m + 1)
  <2> DEFINE g == [n \in 0 .. m + 1 |-> IF n <= m THEN h[n] ELSE Turn(h[m])]
  <2> HIDE DEF Turn, last
  <2>1. Run(g, m + 1)
    BY <1>1, <1>3
  <2> QED
    BY <2>1
<1> HIDE DEF Run, last
<1>4. \E h : Run(h, last)
  <2> DEFINE R == {m \in 0 .. last : \E h : Run(h, m)}
  <2>1. 0 \in R
    BY <1>1, <1>2
  <2>2. ASSUME NEW m \in 0 .. last - 1, m \in R PROVE m + 1 \in R
    BY <1>1, <1>3, <2>2
  <2> HIDE DEF R
  <2>3. \A m \in 0 .. last : m \in R
    BY <1>1, <2>1, <2>2, UpTo
  <2> QED
    BY <1>1, <2>3 DEF R
<1> DEFINE round == CHOOSE h : Run(h, last)
<1>5. Run(round, last)
  BY <1>4
<1>6. TakeOver(w) = round[last]
  BY DEF TakeOver, Run, Turn, Flagged, last
<1> HIDE DEF round, Turn
<1>7. round[0] = w /\ \A n \in 1 .. last : round[n] = Turn(round[n - 1])
  BY <1>1, <1>5 DEF Run
<1> DEFINE R == {n \in 0 .. last : round[n] \in S \/ (n = 0 /\ Txs # {} /\ Flagged(w) \in S)}
<1>8. 0 \in R
  BY <1>1, <1>7
<1>9. ASSUME NEW m \in 0 .. last - 1, m \in R PROVE m + 1 \in R
  <2>1. m + 1 \in 1 .. last /\ m + 1 - 1 = m
    BY <1>1
  <2>2. Flagged(round[m]) \in S
    BY <1>7, <1>9
  <2>3. Turn(round[m]) \in S
    BY <2>2 DEF Turn
  <2>4. round[m + 1] \in S
    BY <1>7, <2>1, <2>3
  <2> QED
    BY <2>1, <2>4
<1> HIDE DEF R
<1>10. last \in R
  BY <1>1, <1>8, <1>9, UpTo
<1> QED
  BY <1>1, <1>6, <1>10 DEF R

-----------------------------------------------------------------------------
(***************************************************************************)
(* What one transaction does to the wallet.                                *)
(***************************************************************************)

\* An outpoint is a pair of a transaction and a number.
LEMMA SpentByPair ==
    ASSUME NEW t \in Txs, NEW p \in Txs
    PROVE  /\ \A n : n \in SpentBy(t, p) <=> <<p, n>> \in vin[t]
           /\ \A n : n \in MineOf(p) <=> <<p, n>> \in Mine
<1>1. vin[t] \subseteq Txs \X (0 .. 2) /\ Mine \subseteq Txs \X (0 .. 2)
  BY TxAssumption, WalletAssumption DEF OutPoints
<1>2. \A o \in vin[t] : o = <<o[1], o[2]>>
  BY <1>1
<1>3. ASSUME NEW n, n \in SpentBy(t, p) PROVE <<p, n>> \in vin[t]
  BY <1>2, <1>3 DEF SpentBy
<1>4. ASSUME NEW n, <<p, n>> \in vin[t] PROVE n \in SpentBy(t, p)
  BY <1>4 DEF SpentBy
<1> QED
  BY <1>1, <1>3, <1>4 DEF MineOf

\* The transaction of an output of mine pays me.
LEMMA MinePays ==
    ASSUME NEW o \in Mine
    PROVE  o = <<o[1], o[2]>> /\ o[1] \in Txs /\ PaysMe(o[1])
<1>1. o \in Txs \X (0 .. 2) /\ o[2] < vout[o[1]]
  BY WalletAssumption DEF OutPoints, InRange
<1>2. o = <<o[1], o[2]>> /\ o[1] \in Txs /\ o[2] \in 0 .. 2 /\ vout[o[1]] \in 0 .. 3
  BY <1>1, TxAssumption
<1>3. o[2] \in 0 .. vout[o[1]] - 1
  BY <1>1, <1>2
<1> QED
  BY <1>2, <1>3 DEF PaysMe

\* The wallet v after the wallet w was told of transaction t in block b, or of
\* a loose one if b is Nil.
Becomes(w, v, t, b) ==
    /\ \A p \in Txs : w[p] # Nil => v[p] # Nil
    /\ \A p \in Txs \ {t} : v[p] # Nil => w[p] # Nil
    /\ \A p \in Txs : w[p] # Nil =>
          /\ v[p].hashBlock = IF p = t /\ b # Nil THEN b ELSE w[p].hashBlock
          /\ v[p].vfSpent = w[p].vfSpent \union (SpentBy(t, p) \intersect MineOf(p))
    /\ w[t] = Nil /\ v[t] # Nil => v[t].hashBlock = b /\ v[t].vfSpent = {}

\* What can be known of a transaction when it comes.
Place(t, b) == b = Nil \/ (b \in Blocks /\ t \in TxsOf(b))

LEMMA BecomesGood ==
    ASSUME NEW w \in GoodWallets, NEW v \in [Txs -> WalletTx \union {Nil}], NEW t \in Txs, NEW b,
           Place(t, b), Becomes(w, v, t, b)
    PROVE  v \in GoodWallets
<1> SUFFICES ASSUME NEW p \in Txs, v[p] # Nil
             PROVE  /\ v[p].vfSpent \subseteq MineOf(p)
                    /\ v[p].hashBlock # Nil => p \in TxsOf(v[p].hashBlock)
  BY DEF GoodWallets
<1>1. CASE w[p] # Nil
  <2>1. /\ w[p].vfSpent \subseteq MineOf(p)
        /\ w[p].hashBlock # Nil => p \in TxsOf(w[p].hashBlock)
    BY <1>1 DEF GoodWallets
  <2> QED
    BY <1>1, <2>1 DEF Becomes, Place
<1>2. CASE w[p] = Nil
  BY <1>2 DEF Becomes, Place
<1> QED
  BY <1>1, <1>2

LEMMA RecordBecomes ==
    ASSUME NEW w \in GoodWallets, NEW t \in Txs, NEW b, Place(t, b), NEW wtx \in WalletTx,
           wtx.hashBlock = b, wtx.vfSpent = {}
    PROVE  /\ Record(w, t, wtx) \in [Txs -> WalletTx \union {Nil}]
           /\ Record(w, t, wtx)[t] # Nil
           /\ \A p \in Txs \ {t} : Record(w, t, wtx)[p] = w[p]
           /\ w[t] = Nil => Record(w, t, wtx)[t] = wtx
           /\ w[t] # Nil =>
                 /\ Record(w, t, wtx)[t].hashBlock = IF b # Nil THEN b ELSE w[t].hashBlock
                 /\ Record(w, t, wtx)[t].vfSpent = w[t].vfSpent
<1> DEFINE v == Record(w, t, wtx)
<1>1. w \in [Txs -> WalletTx \union {Nil}]
  BY DEF GoodWallets
<1>2. v = [w EXCEPT ![t] = v[t]]
  BY <1>1 DEF Record
<1>3. CASE w[t] = Nil
  <2>1. v[t] = wtx
    BY <1>1, <1>3 DEF Record
  <2> QED
    BY <1>1, <1>2, <1>3, <2>1, WalletNilAssumption
<1>4. CASE w[t] # Nil /\ b = Nil
  <2>1. v[t] = w[t]
    BY <1>1, <1>4 DEF Record
  <2> QED
    BY <1>1, <1>2, <1>4, <2>1
<1>5. CASE w[t] # Nil /\ b # Nil
  <2>1. w[t] \in WalletTx
    BY <1>1, <1>5
  <2>2. v[t] = [w[t] EXCEPT !.hashBlock = b]
    BY <1>1, <1>5 DEF Record
  <2>3. v[t] \in WalletTx /\ v[t].hashBlock = b /\ v[t].vfSpent = w[t].vfSpent
    BY <1>5, <2>1, <2>2 DEF WalletTx, Place
  <2> HIDE DEF v
  <2>4. v[t] # Nil
    BY <2>3, WalletNilAssumption
  <2> QED
    BY <1>1, <1>2, <1>5, <2>3, <2>4 DEF v
<1> QED
  BY <1>3, <1>4, <1>5

\* Flags are added, nothing else.
LEMMA UpdateSpentKeeps ==
    ASSUME NEW w \in [Txs -> WalletTx \union {Nil}], NEW t \in Txs
    PROVE  /\ WalletUpdateSpent(w, t) \in [Txs -> WalletTx \union {Nil}]
           /\ \A p \in Txs :
                 /\ WalletUpdateSpent(w, t)[p] = Nil <=> w[p] = Nil
                 /\ w[p] # Nil =>
                       /\ WalletUpdateSpent(w, t)[p].hashBlock = w[p].hashBlock
                       /\ WalletUpdateSpent(w, t)[p].vfSpent
                             = w[p].vfSpent \union (SpentBy(t, p) \intersect MineOf(p))
<1> DEFINE v == WalletUpdateSpent(w, t)
<1>1. ASSUME NEW p \in Txs, w[p] = Nil PROVE v[p] = Nil
  BY <1>1 DEF WalletUpdateSpent
<1>2. ASSUME NEW p \in Txs, w[p] # Nil
      PROVE  /\ v[p] \in WalletTx /\ v[p] # Nil
             /\ v[p].hashBlock = w[p].hashBlock
             /\ v[p].vfSpent = w[p].vfSpent \union (SpentBy(t, p) \intersect MineOf(p))
  <2>1. w[p] \in WalletTx
    BY <1>2
  <2>2. v[p] = [w[p] EXCEPT !.vfSpent = w[p].vfSpent \union (SpentBy(t, p) \intersect MineOf(p))]
    BY <1>2 DEF WalletUpdateSpent
  <2>3. SpentBy(t, p) \intersect MineOf(p) \subseteq 0 .. 2
    BY DEF MineOf
  <2> HIDE DEF v
  <2>4. /\ v[p] \in WalletTx
        /\ v[p].hashBlock = w[p].hashBlock
        /\ v[p].vfSpent = w[p].vfSpent \union (SpentBy(t, p) \intersect MineOf(p))
    BY <2>1, <2>2, <2>3 DEF WalletTx
  <2> QED
    BY <2>4, WalletNilAssumption
<1>3. v = [p \in Txs |-> v[p]]
  BY DEF WalletUpdateSpent
<1> HIDE DEF v
<1>4. v \in [Txs -> WalletTx \union {Nil}]
  BY <1>1, <1>2, <1>3
<1> QED
  BY <1>1, <1>2, <1>4 DEF v

\* AddToWallet: whatever is told is known, in the block it was told of.
LEMMA AddBecomes ==
    ASSUME NEW w \in GoodWallets, NEW t \in Txs, NEW b, Place(t, b), NEW wtx \in WalletTx,
           wtx.hashBlock = b, wtx.vfSpent = {}
    PROVE  /\ Becomes(w, AddToWallet(w, t, wtx), t, b)
           /\ AddToWallet(w, t, wtx)[t] # Nil
           /\ AddToWallet(w, t, wtx) \in GoodWallets
<1> DEFINE r == Record(w, t, wtx)
           v == AddToWallet(w, t, wtx)
<1>1. /\ r \in [Txs -> WalletTx \union {Nil}] /\ r[t] # Nil
      /\ \A p \in Txs \ {t} : r[p] = w[p]
      /\ w[t] = Nil => r[t] = wtx
      /\ w[t] # Nil => /\ r[t].hashBlock = IF b # Nil THEN b ELSE w[t].hashBlock
                       /\ r[t].vfSpent = w[t].vfSpent
  BY RecordBecomes
<1>2. v = WalletUpdateSpent(r, t)
  BY DEF AddToWallet
<1> HIDE DEF r, v
<1>3. /\ v \in [Txs -> WalletTx \union {Nil}]
      /\ \A p \in Txs :
            /\ v[p] = Nil <=> r[p] = Nil
            /\ r[p] # Nil => /\ v[p].hashBlock = r[p].hashBlock
                             /\ v[p].vfSpent = r[p].vfSpent \union (SpentBy(t, p) \intersect MineOf(p))
  BY <1>1, <1>2, UpdateSpentKeeps
<1>4. SpentBy(t, t) = {}
  <2>1. \A n : <<t, n>> \notin vin[t]
    BY TxAssumption
  <2> QED
    BY <2>1, SpentByPair
<1>5. Becomes(w, v, t, b)
  <2>1. \A p \in Txs : w[p] # Nil => v[p] # Nil
    BY <1>1, <1>3
  <2>2. \A p \in Txs \ {t} : v[p] # Nil => w[p] # Nil
    BY <1>1, <1>3
  <2>3. ASSUME NEW p \in Txs, w[p] # Nil
        PROVE  /\ v[p].hashBlock = IF p = t /\ b # Nil THEN b ELSE w[p].hashBlock
               /\ v[p].vfSpent = w[p].vfSpent \union (SpentBy(t, p) \intersect MineOf(p))
    <3>1. CASE p = t
      BY <1>1, <1>3, <2>3, <3>1
    <3>2. CASE p # t
      <4>1. r[p] = w[p] BY <1>1, <3>2
      <4> QED BY <1>3, <2>3, <3>2, <4>1
    <3> QED
      BY <3>1, <3>2
  <2>4. w[t] = Nil => v[t].hashBlock = b /\ v[t].vfSpent = {}
    BY <1>1, <1>3, <1>4
  <2> QED
    BY <2>1, <2>2, <2>3, <2>4 DEF Becomes
<1>6. v[t] # Nil
  BY <1>1, <1>3
<1>7. v \in GoodWallets
  BY <1>3, <1>5, BecomesGood
<1> QED
  BY <1>5, <1>6, <1>7 DEF v

LEMMA SeenType ==
    ASSUME NEW t \in Txs, NEW b, Place(t, b)
    PROVE  Seen(b) \in WalletTx /\ Seen(b).hashBlock = b /\ Seen(b).vfSpent = {}
BY DEF Seen, WalletTx, Place

\* AddToWalletIfInvolvingMe.
LEMMA SyncBecomes ==
    ASSUME NEW w \in GoodWallets, NEW t \in Txs, NEW b, Place(t, b)
    PROVE  /\ Becomes(w, Sync(w, t, b, TRUE), t, b)
           /\ Sync(w, t, b, TRUE)[t] # Nil <=> Involved(w, t)
           /\ Sync(w, t, b, TRUE) \in GoodWallets
<1> DEFINE v == Sync(w, t, b, TRUE)
<1>1. CASE Involved(w, t)
  <2>1. v = AddToWallet(w, t, Seen(b))
    BY <1>1 DEF Sync
  <2> HIDE DEF v
  <2>2. Becomes(w, v, t, b) /\ v[t] # Nil /\ v \in GoodWallets
    BY <2>1, AddBecomes, SeenType
  <2> QED
    BY <1>1, <2>2 DEF v
<1>2. CASE ~Involved(w, t)
  <2>1. v = WalletUpdateSpent(w, t) /\ w[t] = Nil
    BY <1>2 DEF Sync, Involved
  <2>2. w \in [Txs -> WalletTx \union {Nil}]
    BY DEF GoodWallets
  <2> HIDE DEF v
  <2>3. /\ v \in [Txs -> WalletTx \union {Nil}]
        /\ \A p \in Txs :
              /\ v[p] = Nil <=> w[p] = Nil
              /\ w[p] # Nil => /\ v[p].hashBlock = w[p].hashBlock
                               /\ v[p].vfSpent = w[p].vfSpent \union (SpentBy(t, p) \intersect MineOf(p))
    BY <2>1, <2>2, UpdateSpentKeeps
  <2>4. Becomes(w, v, t, b)
    BY <2>1, <2>3 DEF Becomes
  <2>5. v \in GoodWallets
    BY <2>3, <2>4, BecomesGood
  <2> QED
    BY <1>2, <2>1, <2>3, <2>4, <2>5 DEF v
<1> QED
  BY <1>1, <1>2

\* Without fUpdate a known transaction is left alone, and nothing else differs.
LEMMA SyncEither ==
    ASSUME NEW w, NEW t, NEW b, NEW f \in BOOLEAN
    PROVE  Sync(w, t, b, f) \in {w, Sync(w, t, b, TRUE)}
BY DEF Sync

-----------------------------------------------------------------------------
(***************************************************************************)
(* A wallet that follows a chain, told of one transaction more.            *)
(***************************************************************************)

\* The inputs of T are outputs of T.
Closed(T) == \A u \in T : \A o \in vin[u] : o[1] \in T

LEMMA KnowsGrows ==
    ASSUME NEW w, NEW v, NEW T \in SUBSET Txs, Knows(w, T),
           \A p \in Txs : w[p] # Nil => v[p] # Nil
    PROVE  Knows(v, T)
BY DEF Knows

\* The next transaction of the chain.
LEMMA TellFollows ==
    ASSUME NEW w \in GoodWallets, NEW T \in SUBSET Txs, NEW t \in Txs \ T, NEW c \in Blocks,
           t \in TxsOf(c), NEW chain, c \in chain, Closed(T), \A o \in vin[t] : o[1] \in T,
           NEW A \in SUBSET T, NEW F \in SUBSET T, FollowsTxs(w, T, A, F, chain)
    PROVE  FollowsTxs(Sync(w, t, c, TRUE), T \union {t}, A \union {t}, F \union {t}, chain)
<1> DEFINE v == Sync(w, t, c, TRUE)
<1>1. Place(t, c) /\ c # Nil
  BY NilAssumption DEF Place
<1>2. Becomes(w, v, t, c) /\ (v[t] # Nil <=> Involved(w, t))
  BY <1>1, SyncBecomes
<1> HIDE DEF v
<1>3. Knows(v, T \union {t})
  <2>1. Knows(v, T)
    BY <1>2, KnowsGrows DEF Becomes, FollowsTxs
  <2>2. ASSUME PaysMe(t) PROVE v[t] # Nil
    BY <1>2, <2>2 DEF Involved
  <2>3. ASSUME NEW o \in vin[t] \intersect Mine PROVE v[t] # Nil
    <3>1. o[1] \in T /\ PaysMe(o[1])
      BY MinePays
    <3>2. w[o[1]] # Nil
      BY <3>1 DEF FollowsTxs, Knows, IsMineOrSpends
    <3> QED
      BY <1>2, <3>2 DEF Involved, IsFromMe
  <2> QED
    BY <2>1, <2>2, <2>3 DEF Knows, IsMineOrSpends
<1>4. Agrees(v, A \union {t}, chain)
  <2>1. Agrees(w, A, chain)
    BY DEF FollowsTxs
  <2>2. ASSUME NEW u \in A, v[u] # Nil PROVE v[u].hashBlock \in chain
    <3>1. u \in Txs \ {t}
      OBVIOUS
    <3>2. w[u] # Nil /\ v[u].hashBlock = w[u].hashBlock
      BY <1>2, <2>2, <3>1 DEF Becomes
    <3> QED
      BY <2>1, <3>2 DEF Agrees
  <2>3. v[t] # Nil => v[t].hashBlock = c
    BY <1>1, <1>2 DEF Becomes
  <2> QED
    BY <2>2, <2>3 DEF Agrees
<1>5. Flags(v, F \union {t})
  <2>1. Flags(w, F)
    BY DEF FollowsTxs
  <2>2. ASSUME NEW u \in F \union {t}, NEW o \in vin[u] \intersect Mine, v[o[1]] # Nil
        PROVE  o[2] \in v[o[1]].vfSpent
    <3>1. o[1] \in T /\ o[1] \in Txs \ {t} /\ o = <<o[1], o[2]>>
      BY MinePays DEF Closed
    <3>2. w[o[1]] # Nil
      BY <1>2, <2>2, <3>1 DEF Becomes
    <3>3. v[o[1]].vfSpent = w[o[1]].vfSpent \union (SpentBy(t, o[1]) \intersect MineOf(o[1]))
      BY <1>2, <3>1, <3>2 DEF Becomes
    <3>4. CASE u \in F
      <4>1. o[2] \in w[o[1]].vfSpent
        BY <2>1, <3>2, <3>4 DEF Flags
      <4> QED
        BY <3>3, <4>1
    <3>5. CASE u = t
      <4>1. o[2] \in SpentBy(t, o[1]) /\ o[2] \in MineOf(o[1])
        BY <3>1, <3>5, SpentByPair
      <4> QED
        BY <3>3, <4>1
    <3> QED
      BY <3>4, <3>5
  <2> QED
    BY <2>2 DEF Flags
<1> QED
  BY <1>3, <1>4, <1>5 DEF FollowsTxs, v

\* The wallet v after the wallet w was told of some of the transactions X: the
\* others keep their block, and no flag is lost.
Told(w, v, X) ==
    /\ \A p \in Txs : w[p] # Nil => /\ v[p] # Nil
                                    /\ p \notin X => v[p].hashBlock = w[p].hashBlock
                                    /\ w[p].vfSpent \subseteq v[p].vfSpent
    /\ \A p \in Txs \ X : v[p] # Nil => w[p] # Nil

ToldOf(w, X) == {v \in GoodWallets : Told(w, v, X)}

LEMMA BecomesTold ==
    ASSUME NEW w, NEW v, NEW t \in Txs, NEW b, Becomes(w, v, t, b)
    PROVE  Told(w, v, {t})
BY DEF Becomes, Told

\* A new flag is that of the transaction that was told.
LEMMA BecomesBacked ==
    ASSUME NEW w, NEW v, NEW t \in Txs, NEW b, NEW T, Becomes(w, v, t, b),
           IsFromMe(w, t) => v[t] # Nil, t \in T \/ t \notin CoinStakes, Backed(w, T)
    PROVE  Backed(v, T)
<1> SUFFICES ASSUME NEW o \in Mine, v[o[1]] # Nil, o[2] \in v[o[1]].vfSpent
             PROVE  \E u \in Txs : o \in vin[u] /\ v[u] # Nil /\ (u \notin CoinStakes \/ u \in T)
  BY DEF Backed
<1>1. o[1] \in Txs /\ o = <<o[1], o[2]>>
  BY MinePays
<1>2. w[o[1]] # Nil
  <2>1. CASE o[1] = t
    BY <2>1 DEF Becomes
  <2>2. CASE o[1] # t
    BY <1>1, <2>2 DEF Becomes
  <2> QED
    BY <2>1, <2>2
<1>3. v[o[1]].vfSpent = w[o[1]].vfSpent \union (SpentBy(t, o[1]) \intersect MineOf(o[1]))
  BY <1>1, <1>2 DEF Becomes
<1>4. CASE o[2] \in w[o[1]].vfSpent
  <2>1. PICK u \in Txs : o \in vin[u] /\ w[u] # Nil /\ (u \notin CoinStakes \/ u \in T)
    BY <1>2, <1>4 DEF Backed
  <2>2. v[u] # Nil
    BY <2>1 DEF Becomes
  <2> QED
    BY <2>1, <2>2
<1>5. CASE o[2] \in SpentBy(t, o[1])
  <2>1. o \in vin[t]
    BY <1>1, <1>5, SpentByPair
  <2>2. v[t] # Nil
    BY <1>2, <2>1 DEF IsFromMe
  <2> QED
    BY <2>1, <2>2
<1> QED
  BY <1>3, <1>4, <1>5

LEMMA TellBacked ==
    ASSUME NEW w \in GoodWallets, NEW t \in Txs, NEW b, Place(t, b), NEW f \in BOOLEAN, NEW T,
           t \in T \/ t \notin CoinStakes, Backed(w, T)
    PROVE  Backed(Sync(w, t, b, f), T)
<1>1. /\ Becomes(w, Sync(w, t, b, TRUE), t, b)
      /\ Sync(w, t, b, TRUE)[t] # Nil <=> Involved(w, t)
  BY SyncBecomes
<1>2. IsFromMe(w, t) => Sync(w, t, b, TRUE)[t] # Nil
  BY <1>1 DEF Involved
<1>3. Backed(Sync(w, t, b, TRUE), T)
  BY <1>1, <1>2, BecomesBacked
<1> QED
  BY <1>3, SyncEither

LEMMA BackedMore ==
    ASSUME NEW w, NEW T, NEW U, T \subseteq U, Backed(w, T)
    PROVE  Backed(w, U)
BY DEF Backed

-----------------------------------------------------------------------------
(***************************************************************************)
(* A wallet that follows a chain, told of one block more or less.          *)
(***************************************************************************)

LEMMA BranchTxs ==
    ASSUME NEW b \in Blocks
    PROVE  /\ TxsOnBranch(b) \subseteq Txs
           /\ \A c \in Branch[b] : TxsOf(c) \subseteq TxsOnBranch(b)
           /\ \A c \in Branch[b] : TxsOnBranch(c) \subseteq TxsOnBranch(b)
<1>1. \A c \in Branch[b] : c \in Blocks /\ Branch[c] \subseteq Branch[b]
  BY OwnBranch, BranchAssumption
<1> QED
  BY <1>1, TxsOfType DEF TxsOnBranch

LEMMA NoTxsOnGenesis == TxsOnBranch(Genesis) = {}
BY BranchAssumption, TxAssumption DEF TxsOnBranch, TxsOf

LEMMA BranchTxsStep ==
    ASSUME NEW b \in Blocks \ {Genesis}
    PROVE  TxsOnBranch(b) = TxsOnBranch(pprev[b]) \union TxsOf(b)
BY BranchStep DEF TxsOnBranch

\* What a valid chain spends, it made.
LEMMA ValidClosed ==
    ASSUME NEW b \in Blocks, ValidChain(b)
    PROVE  Closed(TxsOnBranch(b))
<1> SUFFICES ASSUME NEW u \in TxsOnBranch(b), NEW o \in vin[u] PROVE o[1] \in TxsOnBranch(b)
  BY DEF Closed
<1>1. PICK c \in Branch[b] : u \in TxsOf(c)
  BY DEF TxsOnBranch
<1> QED
  BY <1>1, InputOnBranch

\* A transaction is in one block of a valid chain.
LEMMA InOneBlock ==
    ASSUME NEW b \in Blocks, ValidChain(b), NEW c \in Branch[b], NEW e \in Branch[b],
           NEW t, t \in TxsOf(c), t \in TxsOf(e)
    PROVE  c = e
<1>1. ASSUME NEW x \in Branch[b], NEW y \in Branch[b], t \in TxsOf(x), t \in TxsOf(y),
             x \in Branch[y]
      PROVE  x = y
  <2> SUFFICES ASSUME x # y PROVE FALSE
    OBVIOUS
  <2>1. y \in Blocks \ {Genesis}
    BY <1>1, OwnBranch, BranchAssumption
  <2>2. x \in Branch[pprev[y]]
    BY <1>1, <2>1, BranchStep
  <2>3. t \in TxsOnBranch(pprev[y])
    BY <1>1, <2>2 DEF TxsOnBranch
  <2> QED
    BY <1>1, <2>1, <2>3 DEF ValidChain
<1>2. c \in Branch[e] \/ e \in Branch[c]
  BY BranchAssumption
<1> QED
  BY <1>1, <1>2

LEMMA ValidBelow ==
    ASSUME NEW b \in Blocks, ValidChain(b), NEW c \in Branch[b]
    PROVE  ValidChain(c)
BY BranchAssumption DEF ValidChain

\* The blocks of a valid chain spend different outputs.
LEMMA SpentInOneBlock ==
    ASSUME NEW b \in Blocks, ValidChain(b), NEW c \in Branch[b], NEW e \in Branch[b], c # e,
           NEW t \in TxsOf(c), NEW u \in TxsOf(e)
    PROVE  vin[t] \intersect vin[u] = {}
<1>1. ASSUME NEW x \in Branch[b], NEW y \in Branch[b], x # y, x \in Branch[y],
             NEW p \in TxsOf(x), NEW q \in TxsOf(y)
      PROVE  vin[p] \intersect vin[q] = {}
  <2>1. y \in Blocks \ {Genesis}
    BY <1>1, OwnBranch, BranchAssumption
  <2>2. x \in Branch[pprev[y]]
    BY <1>1, <2>1, BranchStep
  <2> QED
    BY <1>1, <2>1, <2>2, ValidBelow, LastBlockFresh
<1>2. c \in Branch[e] \/ e \in Branch[c]
  BY BranchAssumption
<1> QED
  BY <1>1, <1>2

\* To follow a chain but for more blocks is less.
LEMMA FollowsLess ==
    ASSUME NEW w, NEW b, NEW M, NEW U, NEW N, NEW V,
           Branch[b] \intersect M \subseteq N, Branch[b] \intersect U \subseteq V, Follows(w, b, M, U)
    PROVE  Follows(w, b, N, V)
<1>1. TxsIn(Branch[b] \ N) \subseteq TxsIn(Branch[b] \ M) /\ TxsIn(Branch[b] \ V) \subseteq TxsIn(Branch[b] \ U)
  BY DEF TxsIn
<1> QED
  BY <1>1 DEF Follows, FollowsTxs, Agrees, Flags

\* A wallet that follows a chain follows another one it knows, but for the
\* blocks that the first has not got.
LEMMA FollowsAside ==
    ASSUME NEW b \in Blocks, ValidChain(b), NEW c \in Blocks, NEW w \in GoodWallets, NEW M, NEW U,
           Follows(w, b, M, U), Knows(w, TxsOnBranch(c))
    PROVE  Follows(w, c, M \union (Branch[c] \ Branch[b]), U \union (Branch[c] \ Branch[b]))
<1> DEFINE N == M \union (Branch[c] \ Branch[b])
           V == U \union (Branch[c] \ Branch[b])
<1>1. TxsIn(Branch[c] \ V) \subseteq TxsIn(Branch[b] \ U)
  BY DEF TxsIn
<1>2. Flags(w, TxsIn(Branch[c] \ V))
  BY <1>1 DEF Follows, FollowsTxs, Flags
<1>3. Agrees(w, TxsIn(Branch[c] \ N), Branch[c])
  <2> SUFFICES ASSUME NEW e \in Branch[c] \ N, NEW t \in TxsOf(e), w[t] # Nil
               PROVE  w[t].hashBlock \in Branch[c]
    BY DEF Agrees, TxsIn
  <2>1. e \in Branch[b] /\ e \notin M /\ e \in Blocks /\ t \in Txs
    BY OwnBranch, TxsOfType
  <2>2. w[t].hashBlock \in Branch[b]
    BY <2>1 DEF Follows, FollowsTxs, Agrees, TxsIn
  <2>3. t \in TxsOf(w[t].hashBlock)
    BY <2>1, <2>2, OwnBranch, NilAssumption DEF GoodWallets
  <2>4. w[t].hashBlock = e
    BY <2>1, <2>2, <2>3, InOneBlock
  <2> QED
    BY <2>4
<1> QED
  BY <1>2, <1>3 DEF Follows, FollowsTxs

\* A wallet that follows a chain follows its beginning.
LEMMA FollowsBelow ==
    ASSUME NEW b \in Blocks, ValidChain(b), NEW c \in Branch[b], NEW w \in GoodWallets, NEW M, NEW U,
           Follows(w, b, M, U)
    PROVE  Follows(w, c, M, U)
<1>1. TxsOnBranch(c) \subseteq TxsOnBranch(b) /\ c \in Blocks /\ Branch[c] \subseteq Branch[b]
  BY BranchTxs, OwnBranch, BranchAssumption
<1>2. Knows(w, TxsOnBranch(c))
  BY <1>1 DEF Follows, FollowsTxs, Knows
<1>3. Follows(w, c, M \union (Branch[c] \ Branch[b]), U \union (Branch[c] \ Branch[b]))
  BY <1>1, <1>2, FollowsAside
<1>4. Branch[c] \ Branch[b] = {}
  BY <1>1
<1> QED
  BY <1>3, <1>4, FollowsLess

\* A wallet that follows a chain, told of other transactions, follows it but
\* for the blocks that have some of them.
LEMMA ToldFollows ==
    ASSUME NEW b \in Blocks, ValidChain(b), NEW w, NEW v, NEW X, Told(w, v, X), NEW M, NEW U,
           Follows(w, b, M, U)
    PROVE  Follows(v, b, M \union {c \in Branch[b] : TxsOf(c) \intersect X # {}}, U)
<1> DEFINE N == M \union {c \in Branch[b] : TxsOf(c) \intersect X # {}}
           T == TxsOnBranch(b)
<1>1. T \subseteq Txs /\ Closed(T) /\ Knows(w, T)
  BY BranchTxs, ValidClosed DEF Follows, FollowsTxs
<1>2. Knows(v, T)
  BY <1>1, KnowsGrows DEF Told
<1>3. Agrees(v, TxsIn(Branch[b] \ N), Branch[b])
  <2> SUFFICES ASSUME NEW c \in Branch[b] \ N, NEW t \in TxsOf(c), v[t] # Nil
               PROVE  v[t].hashBlock \in Branch[b]
    BY DEF Agrees, TxsIn
  <2>1. c \notin M /\ t \notin X /\ t \in Txs
    BY OwnBranch, TxsOfType
  <2>2. w[t] # Nil /\ v[t].hashBlock = w[t].hashBlock
    BY <2>1 DEF Told
  <2> QED
    BY <2>1, <2>2 DEF Follows, FollowsTxs, Agrees, TxsIn
<1>4. Flags(v, TxsIn(Branch[b] \ U))
  <2> SUFFICES ASSUME NEW c \in Branch[b] \ U, NEW t \in TxsOf(c), NEW o \in vin[t] \intersect Mine, v[o[1]] # Nil
               PROVE  o[2] \in v[o[1]].vfSpent
    BY DEF Flags, TxsIn
  <2>1. t \in T
    BY DEF TxsOnBranch
  <2>2. o[1] \in T /\ o[1] \in Txs /\ PaysMe(o[1])
    BY <1>1, <2>1, MinePays DEF Closed
  <2>3. w[o[1]] # Nil
    BY <1>1, <2>2 DEF Knows, IsMineOrSpends
  <2>4. o[2] \in w[o[1]].vfSpent
    BY <2>3 DEF Follows, FollowsTxs, Flags, TxsIn
  <2> QED
    BY <2>2, <2>3, <2>4 DEF Told
<1> QED
  BY <1>2, <1>3, <1>4 DEF Follows, FollowsTxs

\* The transactions of the branch before the first n of block c are told.
Upto(c, n) == TxsOnBranch(pprev[c]) \union {vtx[c][i] : i \in 1 .. n}

LEMMA UptoStep ==
    ASSUME NEW c \in Blocks \ {Genesis}, ValidChain(c), NEW n \in 0 .. Len(vtx[c]) - 1
    PROVE  /\ Upto(c, n) \subseteq Txs /\ vtx[c][n + 1] \in Txs \ Upto(c, n)
           /\ vtx[c][n + 1] \in TxsOf(c)
           /\ Upto(c, n + 1) = Upto(c, n) \union {vtx[c][n + 1]}
           /\ Closed(Upto(c, n))
           /\ \A o \in vin[vtx[c][n + 1]] : o[1] \in Upto(c, n)
<1>1. Len(vtx[c]) \in Nat /\ DOMAIN vtx[c] = 1 .. Len(vtx[c])
  BY TxAssumption
<1>2. n \in Nat /\ n + 1 \in DOMAIN vtx[c] /\ 1 .. n \subseteq DOMAIN vtx[c]
      /\ 1 .. n + 1 = (1 .. n) \union {n + 1}
  BY <1>1
<1>3. \A i \in DOMAIN vtx[c] : vtx[c][i] \in Txs /\ vtx[c][i] \in TxsOf(c)
  BY TxsOfType DEF TxsOf
<1>4. TxsOnBranch(pprev[c]) \subseteq Txs /\ TxsOf(c) \intersect TxsOnBranch(pprev[c]) = {}
  BY BranchTxs, BranchStep DEF ValidChain
<1>5. \A i \in 1 .. n : vtx[c][i] # vtx[c][n + 1]
  <2> SUFFICES ASSUME NEW i \in 1 .. n, vtx[c][i] = vtx[c][n + 1] PROVE FALSE
    OBVIOUS
  <2>1. i = n + 1
    BY <1>2, TxAssumption
  <2> QED
    BY <1>2, <2>1
<1>6. Upto(c, n) \subseteq Txs /\ vtx[c][n + 1] \in Txs \ Upto(c, n)
  BY <1>2, <1>3, <1>4, <1>5 DEF Upto
<1>7. Upto(c, n + 1) = Upto(c, n) \union {vtx[c][n + 1]}
  BY <1>2 DEF Upto
<1>8. ASSUME NEW i \in 1 .. n + 1, NEW o \in vin[vtx[c][i]]
      PROVE  o[1] \in TxsOnBranch(pprev[c]) \union {vtx[c][j] : j \in {k \in 1 .. n : k < i}}
  <2>1. i \in DOMAIN vtx[c]
    BY <1>2
  <2>2. InputExists(c, i, o)
    BY <2>1, BranchStep DEF ValidChain
  <2>3. PICK e \in Branch[c] : \E j \in DOMAIN vtx[e] : vtx[e][j] = o[1] /\ Before(e, j, c, i)
    BY <2>2 DEF InputExists
  <2>4. PICK j \in DOMAIN vtx[e] : vtx[e][j] = o[1] /\ Before(e, j, c, i)
    BY <2>3
  <2>5. CASE e = c
    <3>1. j < i /\ j \in 1 .. Len(vtx[c])
      BY <1>1, <2>4, <2>5 DEF Before
    <3>2. j \in {k \in 1 .. n : k < i}
      BY <1>1, <1>2, <3>1
    <3> QED
      BY <2>4, <2>5, <3>2
  <2>6. CASE e # c
    <3>1. e \in Branch[pprev[c]]
      BY <2>6, BranchStep
    <3> QED
      BY <2>4, <3>1 DEF TxsOnBranch, TxsOf
  <2> QED
    BY <2>5, <2>6
<1>9. Closed(Upto(c, n))
  <2> SUFFICES ASSUME NEW u \in Upto(c, n), NEW o \in vin[u] PROVE o[1] \in Upto(c, n)
    BY DEF Closed
  <2>1. CASE u \in TxsOnBranch(pprev[c])
    BY <2>1, ValidPrefix, ValidClosed, BranchStep DEF Closed, Upto
  <2>2. CASE u \in {vtx[c][i] : i \in 1 .. n}
    <3>1. PICK i \in 1 .. n : u = vtx[c][i]
      BY <2>2
    <3>2. i \in 1 .. n + 1
      BY <1>2
    <3> QED
      BY <1>8, <3>1, <3>2 DEF Upto
  <2> QED
    BY <2>1, <2>2 DEF Upto
<1>10. \A o \in vin[vtx[c][n + 1]] : o[1] \in Upto(c, n)
  BY <1>2, <1>8 DEF Upto
<1> QED
  BY <1>2, <1>3, <1>6, <1>7, <1>9, <1>10

\* ConnectBlock: a wallet that follows the predecessor follows the block.
LEMMA SyncBlockFollows ==
    ASSUME NEW c \in Blocks \ {Genesis}, ValidChain(c), NEW w \in GoodWallets, NEW M, NEW U,
           Follows(w, pprev[c], M, U)
    PROVE  Follows(SyncBlock(w, c, TRUE), c, M \ {c}, U \ {c})
<1> DEFINE len == Len(vtx[c])
           Part(X, n) == TxsIn(Branch[pprev[c]] \ X) \union {vtx[c][i] : i \in 1 .. n}
           P(n) == /\ SyncFirst(w, c, n, TRUE) \in GoodWallets
                   /\ FollowsTxs(SyncFirst(w, c, n, TRUE), Upto(c, n), Part(M, n), Part(U, n), Branch[c])
           R == {n \in 0 .. len : P(n)}
<1>1. len \in Nat /\ DOMAIN vtx[c] = 1 .. len
  BY TxAssumption
<1>2. /\ pprev[c] \in Blocks /\ Branch[pprev[c]] \subseteq Branch[c] /\ c \in Branch[c]
      /\ Branch[c] = Branch[pprev[c]] \union {c} /\ c \notin Branch[pprev[c]]
  BY BranchStep
<1>3. FollowsTxs(w, TxsOnBranch(pprev[c]), TxsIn(Branch[pprev[c]] \ M), TxsIn(Branch[pprev[c]] \ U), Branch[c])
  BY <1>2 DEF Follows, FollowsTxs, Agrees
<1>4. 0 \in R
  <2>1. Upto(c, 0) = TxsOnBranch(pprev[c])
    BY DEF Upto
  <2>2. SyncFirst(w, c, 0, TRUE) = w
    BY SyncFirstStep
  <2>3. Part(M, 0) = TxsIn(Branch[pprev[c]] \ M) /\ Part(U, 0) = TxsIn(Branch[pprev[c]] \ U)
    OBVIOUS
  <2> HIDE DEF Part
  <2>4. P(0)
    BY <1>3, <2>1, <2>2, <2>3, Zenon
  <2> HIDE DEF P
  <2> QED
    BY <1>1, <2>4
<1>0. c \in Blocks
  OBVIOUS
<1>5. ASSUME NEW n \in 0 .. len - 1, n \in R PROVE n + 1 \in R
  <2> DEFINE t == vtx[c][n + 1]
             h == SyncFirst(w, c, n, TRUE)
  <2>1. SyncFirst(w, c, n + 1, TRUE) = Sync(h, t, c, TRUE)
    <3> HIDE DEF R
    <3> QED
      BY <1>0, SyncFirstNext
  <2>2. /\ Upto(c, n) \in SUBSET Txs /\ t \in Txs \ Upto(c, n) /\ t \in TxsOf(c)
        /\ Upto(c, n + 1) = Upto(c, n) \union {t}
        /\ Closed(Upto(c, n))
        /\ \A o \in vin[t] : o[1] \in Upto(c, n)
    BY UptoStep
  <2>3. h \in GoodWallets /\ FollowsTxs(h, Upto(c, n), Part(M, n), Part(U, n), Branch[c])
    BY <1>5
  <2>4. ASSUME NEW X PROVE Part(X, n) \in SUBSET Upto(c, n) /\ Part(X, n + 1) = Part(X, n) \union {t}
    <3>1. 1 .. n + 1 = (1 .. n) \union {n + 1}
      BY <1>1
    <3> QED
      BY <3>1 DEF Upto, TxsOnBranch, TxsIn
  <2> HIDE DEF t, h, Part
  <2>5. FollowsTxs(Sync(h, t, c, TRUE), Upto(c, n + 1), Part(M, n + 1), Part(U, n + 1), Branch[c])
    <3>1. FollowsTxs(Sync(h, t, c, TRUE), Upto(c, n) \union {t}, Part(M, n) \union {t}, Part(U, n) \union {t}, Branch[c])
      BY <1>2, <2>2, <2>3, <2>4, TellFollows
    <3> QED
      BY <2>2, <2>4, <3>1
  <2>6. Sync(h, t, c, TRUE) \in GoodWallets
    BY <2>2, <2>3, SyncBecomes DEF Place
  <2>7. n + 1 \in 0 .. len
    BY <1>1
  <2>8. P(n + 1)
    BY <2>1, <2>5, <2>6, Zenon
  <2> HIDE DEF P
  <2> QED
    BY <2>7, <2>8
<1> HIDE DEF R, len
<1>6. len \in R
  <2>1. len \in Nat
    BY <1>1
  <2>2. \A m \in 0 .. len - 1 : m \in R => m + 1 \in R
    BY <1>5
  <2>3. \A m \in 0 .. len : m \in R
    BY <2>1, <2>2, <1>4, UpTo
  <2> QED
    BY <2>1, <2>3
<1>7. Upto(c, len) = TxsOnBranch(c)
  BY <1>1, BranchTxsStep DEF Upto, TxsOf
<1>8. ASSUME NEW X PROVE Part(X, len) = TxsIn(Branch[c] \ (X \ {c}))
  <2>1. Branch[c] \ (X \ {c}) = (Branch[pprev[c]] \ X) \union {c}
    BY <1>2
  <2>2. {vtx[c][i] : i \in 1 .. len} = TxsOf(c)
    BY <1>1 DEF TxsOf
  <2> QED
    BY <2>1, <2>2 DEF TxsIn
<1>9. FollowsTxs(SyncFirst(w, c, len, TRUE), Upto(c, len), Part(M, len), Part(U, len), Branch[c])
  BY <1>6 DEF R
<1> HIDE DEF Part
<1>10. FollowsTxs(SyncFirst(w, c, len, TRUE), TxsOnBranch(c), TxsIn(Branch[c] \ (M \ {c})),
                  TxsIn(Branch[c] \ (U \ {c})), Branch[c])
  <2>1. Part(M, len) = TxsIn(Branch[c] \ (M \ {c})) /\ Part(U, len) = TxsIn(Branch[c] \ (U \ {c}))
    BY <1>8
  <2> QED
    BY <1>7, <1>9, <2>1, Zenon
<1>11. SyncBlock(w, c, TRUE) = SyncFirst(w, c, len, TRUE)
  BY DEF SyncBlock, len
<1> QED
  BY <1>10, <1>11 DEF Follows

\* The coinstakes of mine in block b, and the outputs of p they had spent.
StakesOf(w, b) == {t \in TxsOf(b) \intersect CoinStakes : IsFromMe(w, t)}
Freed(w, b, p) == UNION {SpentBy(t, p) \intersect MineOf(p) : t \in StakesOf(w, b)}

LEMMA DisableKeeps ==
    ASSUME NEW b, NEW w \in GoodWallets
    PROVE  /\ DisableBlock(w, b) \in GoodWallets
           /\ \A p \in Txs : DisableBlock(w, b)[p] = Nil <=> w[p] = Nil
           /\ \A p \in Txs : w[p] # Nil =>
                 /\ DisableBlock(w, b)[p].hashBlock = w[p].hashBlock
                 /\ DisableBlock(w, b)[p].vfSpent = w[p].vfSpent \ Freed(w, b, p)
<1> DEFINE v == DisableBlock(w, b)
           freed(p) == Freed(w, b, p)
<1>1. w \in [Txs -> WalletTx \union {Nil}] /\ \A p \in Txs : w[p] # Nil =>
         w[p].vfSpent \subseteq MineOf(p) /\ (w[p].hashBlock # Nil => p \in TxsOf(w[p].hashBlock))
  BY DEF GoodWallets
<1>2. v = [p \in Txs |-> IF w[p] = Nil THEN Nil ELSE [w[p] EXCEPT !.vfSpent = w[p].vfSpent \ freed(p)]]
  BY DEF DisableBlock, Freed, StakesOf
<1> HIDE DEF v, freed
<1>5. ASSUME NEW p \in Txs, w[p] # Nil
      PROVE  /\ v[p] \in WalletTx /\ v[p] # Nil
             /\ v[p].hashBlock = w[p].hashBlock /\ v[p].vfSpent = w[p].vfSpent \ freed(p)
  <2>1. w[p] \in WalletTx
    BY <1>1, <1>5
  <2>2. v[p] = [w[p] EXCEPT !.vfSpent = w[p].vfSpent \ freed(p)]
    BY <1>2, <1>5
  <2>3. /\ v[p] \in WalletTx
        /\ v[p].hashBlock = w[p].hashBlock /\ v[p].vfSpent = w[p].vfSpent \ freed(p)
    BY <2>1, <2>2 DEF WalletTx
  <2> QED
    BY <2>3, WalletNilAssumption
<1>6. \A p \in Txs : v[p] = Nil <=> w[p] = Nil
  BY <1>2, <1>5
<1>7. v \in [Txs -> WalletTx \union {Nil}]
  BY <1>2, <1>5, <1>6
<1>8. v \in GoodWallets
  <2> SUFFICES ASSUME NEW p \in Txs, v[p] # Nil
               PROVE  v[p].vfSpent \subseteq MineOf(p) /\ (v[p].hashBlock # Nil => p \in TxsOf(v[p].hashBlock))
    BY <1>7 DEF GoodWallets
  <2>1. w[p] # Nil
    BY <1>6
  <2> QED
    BY <1>1, <1>5, <2>1
<1> QED
  BY <1>5, <1>6, <1>8 DEF v, freed

\* DisconnectBlock: a wallet that follows a chain with the block follows it
\* still, but for the flags of the inputs of that block.
LEMMA DisableFollows ==
    ASSUME NEW top \in Blocks, ValidChain(top), NEW b \in Branch[top], NEW w \in GoodWallets,
           NEW M, NEW U, Follows(w, top, M, U)
    PROVE  Follows(DisableBlock(w, b), top, M, U \union {b})
<1> DEFINE v == DisableBlock(w, b)
<1>1. ASSUME NEW p \in Txs
      PROVE  /\ v[p] = Nil <=> w[p] = Nil
             /\ w[p] # Nil => /\ v[p].hashBlock = w[p].hashBlock
                              /\ v[p].vfSpent = w[p].vfSpent \ Freed(w, b, p)
  BY DisableKeeps
<1> HIDE DEF v
<1>2. TxsOnBranch(top) \subseteq Txs /\ b \in Blocks
  BY BranchTxs, OwnBranch
<1>3. Knows(v, TxsOnBranch(top))
  BY <1>1, <1>2, KnowsGrows DEF Follows, FollowsTxs
<1>4. Agrees(v, TxsIn(Branch[top] \ M), Branch[top])
  <2>1. TxsIn(Branch[top] \ M) \subseteq Txs
    BY <1>2 DEF TxsIn, TxsOnBranch
  <2> QED
    BY <1>1, <2>1 DEF Agrees, Follows, FollowsTxs
<1>5. Flags(v, TxsIn(Branch[top] \ (U \union {b})))
  <2> SUFFICES ASSUME NEW c \in Branch[top] \ (U \union {b}), NEW t \in TxsOf(c),
                      NEW o \in vin[t] \intersect Mine, v[o[1]] # Nil
               PROVE  o[2] \in v[o[1]].vfSpent
    BY DEF Flags, TxsIn
  <2>1. o = <<o[1], o[2]>> /\ o[1] \in Txs
    BY MinePays
  <2>2. w[o[1]] # Nil /\ o[2] \in w[o[1]].vfSpent
    BY <1>1, <2>1 DEF Follows, FollowsTxs, Flags, TxsIn
  <2>3. o[2] \notin Freed(w, b, o[1])
    <3> SUFFICES ASSUME o[2] \in Freed(w, b, o[1]) PROVE FALSE
      OBVIOUS
    <3>1. PICK u \in StakesOf(w, b) : o[2] \in SpentBy(u, o[1])
      BY DEF Freed
    <3>2. u \in TxsOf(b) /\ u \in Txs
      BY <1>2, TxsOfType DEF StakesOf
    <3>3. o \in vin[u]
      BY <2>1, <3>1, <3>2, SpentByPair
    <3> QED
      BY <3>2, <3>3, SpentInOneBlock
  <2> QED
    BY <1>1, <2>1, <2>2, <2>3
<1> QED
  BY <1>3, <1>4, <1>5 DEF Follows, FollowsTxs, v

\* A coinstake of mine that is disconnected is no reason any more, and needed
\* for none: what only it had spent is free.
LEMMA DisableBacked ==
    ASSUME NEW b \in Blocks \ {Genesis}, NEW w \in GoodWallets, NEW S, Backed(w, Reasons(b, S))
    PROVE  Backed(DisableBlock(w, b), Reasons(pprev[b], S \ {b}))
<1> DEFINE v == DisableBlock(w, b)
<1>1. ASSUME NEW p \in Txs
      PROVE  /\ v[p] = Nil <=> w[p] = Nil
             /\ w[p] # Nil => v[p].vfSpent = w[p].vfSpent \ Freed(w, b, p)
  BY DisableKeeps
<1> HIDE DEF v
<1>2. Reasons(b, S) \subseteq Reasons(pprev[b], S \ {b}) \union TxsOf(b)
  BY BranchTxsStep DEF Reasons, TxsIn
<1> SUFFICES ASSUME NEW o \in Mine, v[o[1]] # Nil, o[2] \in v[o[1]].vfSpent
             PROVE  \E u \in Txs : /\ o \in vin[u] /\ v[u] # Nil
                                   /\ u \notin CoinStakes \/ u \in Reasons(pprev[b], S \ {b})
  BY DEF Backed, v
<1>3. o = <<o[1], o[2]>> /\ o[1] \in Txs
  BY MinePays
<1>4. w[o[1]] # Nil /\ o[2] \in w[o[1]].vfSpent /\ o[2] \notin Freed(w, b, o[1])
  BY <1>1, <1>3
<1>5. PICK u \in Txs : /\ o \in vin[u] /\ w[u] # Nil
                       /\ u \notin CoinStakes \/ u \in Reasons(b, S)
  BY <1>4 DEF Backed
<1>6. ~(u \in CoinStakes /\ u \in TxsOf(b))
  <2> SUFFICES ASSUME u \in CoinStakes, u \in TxsOf(b) PROVE FALSE
    OBVIOUS
  <2>1. IsFromMe(w, u)
    BY <1>4, <1>5 DEF IsFromMe
  <2>2. u \in StakesOf(w, b)
    BY <2>1 DEF StakesOf
  <2>3. o[2] \in SpentBy(u, o[1]) /\ o[2] \in MineOf(o[1])
    BY <1>3, <1>5, SpentByPair
  <2> QED
    BY <1>4, <2>2, <2>3 DEF Freed
<1> QED
  BY <1>1, <1>2, <1>5, <1>6

\* What a block may do to any wallet: it stays one, and forgets nothing.
Grown(w) == {v \in GoodWallets : \A p \in Txs : w[p] # Nil => v[p] # Nil}

LEMMA SyncGrows ==
    ASSUME NEW w \in GoodWallets, NEW v \in Grown(w), NEW t \in Txs, NEW b, Place(t, b), NEW f \in BOOLEAN
    PROVE  Sync(v, t, b, f) \in Grown(w)
<1>1. v \in GoodWallets
  BY DEF Grown
<1>2. Becomes(v, Sync(v, t, b, TRUE), t, b) /\ Sync(v, t, b, TRUE) \in GoodWallets
  BY <1>1, SyncBecomes
<1>3. Sync(v, t, b, TRUE) \in Grown(w)
  BY <1>2 DEF Becomes, Grown
<1> QED
  BY <1>3, SyncEither

\* What it is told are its transactions.
LEMMA SyncFirstTold ==
    ASSUME NEW w \in GoodWallets, NEW b \in Blocks, NEW n \in 0 .. Len(vtx[b])
    PROVE  SyncFirst(w, b, n, TRUE) \in ToldOf(w, TxsOf(b))
<1>1. PICK f : f = TRUE
  OBVIOUS
<1>2. w \in ToldOf(w, TxsOf(b))
  BY DEF ToldOf, Told
<1>3. ASSUME NEW v \in ToldOf(w, TxsOf(b)), NEW t \in TxsOf(b) PROVE Sync(v, t, b, f) \in ToldOf(w, TxsOf(b))
  <2>1. v \in GoodWallets /\ t \in Txs /\ Place(t, b) /\ Told(w, v, TxsOf(b))
    BY TxsOfType DEF ToldOf, Place
  <2>2. Becomes(v, Sync(v, t, b, TRUE), t, b) /\ Sync(v, t, b, TRUE) \in GoodWallets
    BY <2>1, SyncBecomes
  <2>3. Told(w, Sync(v, t, b, TRUE), TxsOf(b))
    BY <2>1, <2>2 DEF Becomes, Told
  <2> QED
    BY <1>1, <2>2, <2>3 DEF ToldOf
<1>4. SyncFirst(w, b, n, f) \in ToldOf(w, TxsOf(b))
  BY <1>2, <1>3, SyncKeeps
<1> QED
  BY <1>1, <1>4

LEMMA SyncFirstGrows ==
    ASSUME NEW w \in GoodWallets, NEW b \in Blocks, NEW f \in BOOLEAN, NEW n \in 0 .. Len(vtx[b])
    PROVE  SyncFirst(w, b, n, f) \in Grown(w)
<1>1. w \in Grown(w)
  BY DEF Grown
<1>2. ASSUME NEW v \in Grown(w), NEW t \in TxsOf(b) PROVE Sync(v, t, b, f) \in Grown(w)
  BY TxsOfType, SyncGrows DEF Place
<1> QED
  BY <1>1, <1>2, SyncKeeps

LEMMA SyncBlockGrows ==
    ASSUME NEW w \in GoodWallets, NEW b \in Blocks, NEW f \in BOOLEAN
    PROVE  SyncBlock(w, b, f) \in Grown(w)
<1>1. Len(vtx[b]) \in 0 .. Len(vtx[b])
  BY TxAssumption
<1> QED
  BY <1>1, SyncFirstGrows DEF SyncBlock

-----------------------------------------------------------------------------
(***************************************************************************)
(* A block told as a whole, and the main chain as the wallet sees it.      *)
(***************************************************************************)

GoodBacked(T) == {v \in GoodWallets : Backed(v, T)}

\* A transaction of the chain gives the flags it sets a reason.
LEMMA SyncBacks ==
    ASSUME NEW T, NEW v \in GoodBacked(T), NEW c \in Blocks, NEW t \in TxsOf(c), t \in T,
           NEW f \in BOOLEAN
    PROVE  Sync(v, t, c, f) \in GoodBacked(T)
<1>1. v \in GoodWallets /\ Backed(v, T) /\ t \in Txs /\ Place(t, c)
  BY TxsOfType DEF GoodBacked, Place
<1>2. Backed(Sync(v, t, c, f), T)
  BY <1>1, TellBacked
<1>3. Sync(v, t, c, f) \in GoodWallets
  BY <1>1, SyncBecomes, SyncEither
<1> QED
  BY <1>2, <1>3 DEF GoodBacked

LEMMA SyncFirstBacked ==
    ASSUME NEW c \in Blocks, NEW w \in GoodWallets, NEW T, TxsOf(c) \subseteq T, Backed(w, T),
           NEW n \in 0 .. Len(vtx[c])
    PROVE  Backed(SyncFirst(w, c, n, TRUE), T)
<1> DEFINE S == GoodBacked(T)
<1>1. w \in S
  BY DEF GoodBacked
<1>2. ASSUME NEW v \in S, NEW t \in TxsOf(c) PROVE Sync(v, t, c, TRUE) \in S
  BY SyncBacks
<1> HIDE DEF S
<1>3. \A m \in 0 .. Len(vtx[c]) : SyncFirst(w, c, m, TRUE) \in S
  BY <1>1, <1>2, SyncKeeps
<1> QED
  BY <1>3 DEF S, GoodBacked

LEMMA SyncBlockBacked ==
    ASSUME NEW c \in Blocks \ {Genesis}, NEW w \in GoodWallets, NEW S,
           Backed(w, Reasons(pprev[c], S))
    PROVE  Backed(SyncBlock(w, c, TRUE), Reasons(c, S \ {c}))
<1>1. TxsOf(c) \subseteq Reasons(c, S \ {c}) /\ Reasons(pprev[c], S) \subseteq Reasons(c, S \ {c})
  BY BranchTxsStep DEF Reasons, TxsIn
<1>2. Len(vtx[c]) \in 0 .. Len(vtx[c])
  BY TxAssumption
<1>3. Backed(w, Reasons(c, S \ {c}))
  BY <1>1, BackedMore
<1> QED
  BY <1>1, <1>2, <1>3, SyncFirstBacked DEF SyncBlock

\* A block told in part, the record of the last transaction perhaps without
\* the flags of its inputs.
LEMMA TornConnectTold ==
    ASSUME NEW w \in GoodWallets, NEW b \in Blocks, NEW v \in TornConnect(w, b)
    PROVE  /\ v \in ToldOf(w, TxsOf(b))
           /\ \A T : TxsOf(b) \subseteq T /\ Backed(w, T) => Backed(v, T)
<1>1. Len(vtx[b]) \in Nat /\ DOMAIN vtx[b] = 1 .. Len(vtx[b])
  BY TxAssumption
<1>2. CASE v \in {SyncFirst(w, b, n, TRUE) : n \in 0 .. Len(vtx[b])}
  BY <1>2, SyncFirstTold, SyncFirstBacked
<1>3. ASSUME NEW n \in DOMAIN vtx[b],
             v = LET x == SyncFirst(w, b, n - 1, TRUE) IN
                 IF Involved(x, vtx[b][n]) THEN Record(x, vtx[b][n], Seen(b)) ELSE x
      PROVE  /\ v \in ToldOf(w, TxsOf(b))
             /\ \A T : TxsOf(b) \subseteq T /\ Backed(w, T) => Backed(v, T)
  <2> DEFINE x == SyncFirst(w, b, n - 1, TRUE)
             t == vtx[b][n]
             r == Record(x, t, Seen(b))
  <2>1. n - 1 \in 0 .. Len(vtx[b])
    BY <1>1
  <2>2. x \in ToldOf(w, TxsOf(b)) /\ \A T : TxsOf(b) \subseteq T /\ Backed(w, T) => Backed(x, T)
    BY <2>1, SyncFirstTold, SyncFirstBacked
  <2>3. t \in Txs /\ Place(t, b) /\ t \in TxsOf(b)
    BY TxsOfType DEF Place, TxsOf
  <2>4. v = IF Involved(x, t) THEN r ELSE x
    BY <1>3
  <2> HIDE DEF x, t, r
  <2>5. x \in GoodWallets /\ Told(w, x, TxsOf(b))
    BY <2>2 DEF ToldOf
  <2>6. /\ r \in [Txs -> WalletTx \union {Nil}] /\ r[t] # Nil
        /\ \A p \in Txs \ {t} : r[p] = x[p]
        /\ x[t] = Nil => r[t] = Seen(b)
        /\ x[t] # Nil => /\ r[t].hashBlock = IF b # Nil THEN b ELSE x[t].hashBlock
                         /\ r[t].vfSpent = x[t].vfSpent
    BY <2>3, <2>5, RecordBecomes, SeenType DEF r
  <2>7. Seen(b).hashBlock = b /\ Seen(b).vfSpent = {}
    BY DEF Seen
  <2>8. r \in GoodWallets
    <3> SUFFICES ASSUME NEW p \in Txs, r[p] # Nil
                 PROVE  r[p].vfSpent \subseteq MineOf(p) /\ (r[p].hashBlock # Nil => p \in TxsOf(r[p].hashBlock))
      BY <2>6 DEF GoodWallets
    <3>1. CASE p # t
      <4>1. r[p] = x[p] BY <2>6, <3>1
      <4> QED BY <2>5, <4>1 DEF GoodWallets
    <3>2. CASE p = t
      <4>1. x[t] # Nil => x[t].vfSpent \subseteq MineOf(t)
        BY <2>3, <2>5 DEF GoodWallets
      <4>2. r[t].vfSpent \subseteq MineOf(t) /\ r[t].hashBlock = b
        BY <2>6, <2>7, <4>1, NilAssumption
      <4> QED
        BY <2>3, <3>2, <4>2 DEF Place
    <3> QED
      BY <3>1, <3>2
  <2>9. Told(w, r, TxsOf(b))
    BY <2>3, <2>5, <2>6 DEF Told
  <2>10. ASSUME NEW T, Backed(x, T) PROVE Backed(r, T)
    <3> SUFFICES ASSUME NEW o \in Mine, r[o[1]] # Nil, o[2] \in r[o[1]].vfSpent
                 PROVE  \E u \in Txs : o \in vin[u] /\ r[u] # Nil /\ (u \notin CoinStakes \/ u \in T)
      BY DEF Backed
    <3>1. o[1] \in Txs
      BY MinePays
    <3>2. x[o[1]] # Nil /\ o[2] \in x[o[1]].vfSpent
      BY <2>6, <2>7, <3>1
    <3>3. PICK u \in Txs : o \in vin[u] /\ x[u] # Nil /\ (u \notin CoinStakes \/ u \in T)
      BY <2>10, <3>2 DEF Backed
    <3>4. r[u] # Nil
      BY <2>6, <3>3
    <3> QED
      BY <3>3, <3>4
  <2> QED
    BY <2>2, <2>4, <2>8, <2>9, <2>10 DEF ToldOf
<1> QED
  BY <1>2, <1>3 DEF TornConnect

\* A switch to a block of the best chain has that block for its first target.
LEMMA RollBackTarget ==
    ASSUME NEW best \in Blocks, NEW b \in Branch[best]
    PROVE  FirstTarget(b, best) = b
<1>1. b \in Blocks
  BY OwnBranch
<1>2. /\ FirstTarget(b, best) \in Branch[b]
      /\ \/ FirstTarget(b, best) = b
         \/ bnChainTrust[FirstTarget(b, best)] > bnChainTrust[best]
  BY <1>1, FirstTargetOnBranch
<1>3. FirstTarget(b, best) \in Branch[best] /\ FirstTarget(b, best) \in Blocks
  BY <1>1, <1>2, BranchAssumption, OwnBranch
<1> QED
  BY <1>2, <1>3, TrustOnBranch, TreeAssumption

\* Of blocks of one branch there is a highest one.
LEMMA HighestOnBranch ==
    ASSUME NEW b \in Blocks, NEW S \in SUBSET Branch[b], S # {}
    PROVE  \E h \in S : \A c \in S : c \in Branch[h]
<1> DEFINE T == {nHeight[b] - nHeight[c] : c \in S}
<1>1. \A c \in S : c \in Blocks /\ nHeight[c] \in Nat /\ nHeight[c] <= nHeight[b]
  BY LowerOnBranch, OwnBranch, TreeAssumption
<1>2. nHeight[b] \in Nat
  BY TreeAssumption
<1>3. T \subseteq Nat /\ T # {}
  BY <1>1, <1>2
<1>4. PICK m \in T : \A n \in T : m <= n
  <2> HIDE DEF T
  <2> QED BY <1>3, LeastNatural
<1>5. PICK h \in S : m = nHeight[b] - nHeight[h]
  BY <1>4
<1>6. ASSUME NEW c \in S, c \notin Branch[h] PROVE FALSE
  <2>1. h \in Branch[c] /\ h # c
    BY <1>1, <1>5, <1>6, BranchAssumption, OwnBranch
  <2>2. nHeight[h] < nHeight[c]
    BY <1>1, <2>1, LowerOnBranch
  <2>3. m <= nHeight[b] - nHeight[c]
    BY <1>4
  <2> QED
    BY <1>1, <1>2, <1>5, <2>2, <2>3
<1> QED
  BY <1>6

\* The successors in memory make the main chain the branch of the best block.
LEMMA MainChain ==
    ASSUME pindexBest \in Blocks, pnext = SuccessorsOf(pindexBest), NEW b \in Blocks
    PROVE  IsInMainChain(b) <=> b \in Branch[pindexBest]
<1>1. b = pindexBest => b \in Branch[pindexBest]
  BY OwnBranch
<1>2. b \in Branch[pindexBest] \ {pindexBest} => NextOnPath(b, pindexBest) # Nil
  BY NextOnPathExists, OwnBranch, NilAssumption
<1> QED
  BY <1>1, <1>2 DEF IsInMainChain, SuccessorsOf

\* The rescan starts at a block; if the successors are right it is in both
\* the branch of the locator and the best chain.
LEMMA RescanFromPlace ==
    ASSUME bestblock \in Blocks
    PROVE  /\ RescanFrom \in Branch[bestblock]
           /\ pindexBest \in Blocks /\ pnext = SuccessorsOf(pindexBest)
                 => RescanFrom \in Branch[pindexBest]
<1> DEFINE common == {b \in Branch[bestblock] : IsInMainChain(b)}
<1>1. common # {} => RescanFrom \in common
  <2> SUFFICES ASSUME common # {} PROVE RescanFrom \in common
    OBVIOUS
  <2>1. \E b \in common : \A c \in common : c \in Branch[b]
    <3>1. common \in SUBSET Branch[bestblock]
      OBVIOUS
    <3> HIDE DEF common
    <3> QED
      BY <3>1, HighestOnBranch
  <2>2. RescanFrom = CHOOSE b \in common : \A c \in common : c \in Branch[b]
    BY DEF RescanFrom
  <2> HIDE DEF common
  <2> QED
    BY <2>1, <2>2
<1>2. common = {} => RescanFrom = Genesis
  BY DEF RescanFrom
<1>3. Genesis \in Branch[bestblock] /\ Branch[bestblock] \subseteq Blocks
  BY GenesisOnBranch, OwnBranch
<1>4. ASSUME pindexBest \in Blocks, pnext = SuccessorsOf(pindexBest)
      PROVE  RescanFrom \in Branch[pindexBest]
  <2>1. Genesis \in Branch[pindexBest]
    BY <1>4, GenesisOnBranch
  <2> QED
    BY <1>1, <1>2, <1>3, <1>4, <2>1, MainChain
<1> QED
  BY <1>1, <1>2, <1>3, <1>4

\* The successor of a block of the main chain is on it, and the best block has none.
LEMMA NextOnMain ==
    ASSUME NEW top \in Blocks, pnext = SuccessorsOf(top), NEW c \in Branch[top]
    PROVE  \/ c = top /\ pnext[c] = Nil
           \/ c # top /\ pnext[c] \in Branch[top] \ {Genesis} /\ pprev[pnext[c]] = c
<1>1. c \in Blocks
  BY OwnBranch
<1>2. pnext[c] = IF c \in Branch[top] \ {top} THEN NextOnPath(c, top) ELSE Nil
  BY <1>1 DEF SuccessorsOf
<1> QED
  BY <1>2, NextOnPathExists

\* A rescan forgets nothing, wherever it leads.
LEMMA RescanGrows ==
    ASSUME NEW w \in GoodWallets, NEW b \in Blocks, NEW f \in BOOLEAN, pindexBest \in Blocks,
           pnext \in [Blocks -> Blocks \union {Nil}]
    PROVE  Rescanned(w, b, f) \in Grown(w)
<1> DEFINE S == Grown(w)
<1>1. w \in S
  BY DEF Grown
<1>2. ASSUME NEW v \in S, NEW c \in Blocks, NEW t \in TxsOf(c) PROVE Sync(v, t, c, f) \in S
  BY TxsOfType, SyncGrows DEF Place
<1>3. \A c \in Blocks : pnext[c] \in Blocks \union {Nil}
  OBVIOUS
<1> HIDE DEF S
<1>4. Rescanned(w, b, f) \in S
  BY <1>1, <1>2, <1>3, RescanKeeps
<1> QED
  BY <1>4 DEF S

\* A rescan of blocks of a chain leaves every flag with a reason.
LEMMA RescanBacked ==
    ASSUME NEW top \in Blocks, pnext = SuccessorsOf(top), pindexBest \in Blocks,
           NEW b \in Branch[top], NEW w \in GoodWallets, NEW f \in BOOLEAN,
           NEW T, TxsOnBranch(top) \subseteq T, Backed(w, T)
    PROVE  Backed(Rescanned(w, b, f), T)
<1> DEFINE S == GoodBacked(T)
           C == Branch[top]
<1>1. w \in S
  BY DEF GoodBacked
<1>2. ASSUME NEW v \in S, NEW c \in C, NEW t \in TxsOf(c) PROVE Sync(v, t, c, f) \in S
  <2>1. c \in Blocks /\ t \in T
    BY OwnBranch, BranchTxs
  <2> QED
    BY <2>1, SyncBacks
<1>3. C \in SUBSET Blocks /\ b \in C /\ \A c \in C : pnext[c] \in C \union {Nil}
  BY OwnBranch, NextOnMain
<1> HIDE DEF S, C
<1>4. Rescanned(w, b, f) \in S
  BY <1>1, <1>2, <1>3, RescanKeeps
<1> QED
  BY <1>4 DEF S, GoodBacked

\* A wallet that follows a block of the main chain follows the best block
\* after a rescan from there, with no exception among the blocks scanned.
LEMMA RescanFollows ==
    ASSUME pindexBest \in Blocks, pnext = SuccessorsOf(pindexBest), ValidChain(pindexBest),
           NEW b \in Branch[pindexBest], NEW w \in GoodWallets, NEW M, NEW U, Follows(w, b, M, U)
    PROVE  LET scanned == {b} \union (Branch[pindexBest] \ Branch[b])
           IN  Follows(Rescanned(w, b, TRUE), pindexBest, M \ scanned, U \ scanned)
<1>0. PICK f : f = TRUE
  OBVIOUS
<1>1. PICK at, after :
        /\ at[0] = b /\ after[0] = w
        /\ \A n \in 1 .. nHeight[pindexBest] + 1 :
              /\ at[n] = IF at[n - 1] = Nil THEN Nil ELSE pnext[at[n - 1]]
              /\ after[n] = IF at[n - 1] = Nil THEN after[n - 1]
                            ELSE SyncBlock(after[n - 1], at[n - 1], f)
        /\ Rescanned(w, b, f) = after[nHeight[pindexBest] + 1]
  BY RescanRuns
<1> DEFINE last == nHeight[pindexBest] + 1
           N == M \ ({b} \union (Branch[pindexBest] \ Branch[b]))
           V == U \ ({b} \union (Branch[pindexBest] \ Branch[b]))
           Coming(c, v, n) == /\ c \in Branch[pindexBest]
                              /\ nHeight[c] = nHeight[b] + n
                              /\ c # Genesis => Follows(v, pprev[c], N, V)
           Done(c, v) == c = Nil /\ Follows(v, pindexBest, N, V)
           P(n) == /\ after[n] \in GoodWallets
                   /\ Coming(at[n], after[n], n) \/ Done(at[n], after[n])
           R == {n \in 0 .. last : P(n)}
<1>2. nHeight[pindexBest] \in Nat /\ nHeight[b] \in Nat /\ last \in Nat /\ b \in Blocks
  BY TreeAssumption, OwnBranch
<1>3. 0 \in R
  <2>1. b # Genesis => Follows(w, pprev[b], N, V)
    <3> SUFFICES ASSUME b # Genesis PROVE Follows(w, pprev[b], N, V)
      OBVIOUS
    <3>1. ValidChain(b)
      BY ValidBelow
    <3>2. pprev[b] \in Branch[b] /\ Branch[pprev[b]] \subseteq Branch[b] /\ b \notin Branch[pprev[b]]
      BY <1>2, BranchStep
    <3>3. Follows(w, pprev[b], M, U)
      BY <1>2, <3>1, <3>2, FollowsBelow
    <3> QED
      BY <3>2, <3>3, FollowsLess
  <2>2. Coming(b, w, 0)
    BY <1>2, <2>1
  <2> HIDE DEF Coming, Done
  <2>3. P(0)
    BY <1>1, <2>2
  <2> HIDE DEF P
  <2> QED
    BY <1>2, <2>3
<1>4. ASSUME NEW n \in 0 .. last - 1, n \in R PROVE n + 1 \in R
  <2> DEFINE c == at[n]
             v == after[n]
             e == at[n + 1]
             x == after[n + 1]
  <2>1. n + 1 \in 1 .. last /\ n + 1 - 1 = n
    BY <1>2
  <2>2. /\ e = IF c = Nil THEN Nil ELSE pnext[c]
        /\ x = IF c = Nil THEN v ELSE SyncBlock(v, c, f)
    BY <1>1, <2>1
  <2>3. v \in GoodWallets /\ (Coming(c, v, n) \/ Done(c, v))
    BY <1>4
  <2> HIDE DEF c, v, e, x
  <2>4. ASSUME Done(c, v) PROVE x \in GoodWallets /\ (Coming(e, x, n + 1) \/ Done(e, x))
    <3>1. e = Nil /\ x = v
      BY <2>2, <2>4
    <3>2. Follows(x, pindexBest, N, V)
      BY <2>4, <3>1
    <3> QED
      BY <2>3, <3>1, <3>2
  <2>5. ASSUME Coming(c, v, n) PROVE x \in GoodWallets /\ (Coming(e, x, n + 1) \/ Done(e, x))
    <3>1. c \in Blocks /\ c # Nil /\ c \in Branch[pindexBest] /\ ValidChain(c)
      BY <2>5, OwnBranch, NilAssumption, ValidBelow
    <3>2. x = SyncBlock(v, c, TRUE) /\ e = pnext[c]
      BY <1>0, <2>2, <3>1
    <3>3. x \in GoodWallets
      BY <2>3, <3>1, <3>2, SyncBlockGrows DEF Grown
    <3>4. Follows(x, c, N, V)
      <4>1. CASE c = Genesis
        <5>1. TxsIn(Branch[Genesis] \ N) = {} /\ TxsIn(Branch[Genesis] \ V) = {}
          BY NoTxsOnGenesis DEF TxsIn, TxsOnBranch
        <5> QED
          BY <4>1, <5>1, NoTxsOnGenesis DEF Follows, FollowsTxs, Knows, Agrees, Flags
      <4>2. CASE c # Genesis
        <5>1. Follows(v, pprev[c], N, V)
          BY <2>5, <4>2
        <5>2. Follows(x, c, N \ {c}, V \ {c})
          BY <2>3, <3>1, <3>2, <4>2, <5>1, SyncBlockFollows
        <5> HIDE DEF N, V
        <5> QED
          BY <5>2, FollowsLess
      <4> QED
        BY <4>1, <4>2
    <3>5. \/ c = pindexBest /\ e = Nil
          \/ e \in Branch[pindexBest] \ {Genesis} /\ pprev[e] = c
      BY <3>1, <3>2, NextOnMain
    <3>6. CASE c = pindexBest /\ e = Nil
      <4>1. Follows(x, pindexBest, N, V)
        BY <3>4, <3>6, Zenon
      <4> QED
        BY <3>3, <3>6, <4>1
    <3>7. CASE e \in Branch[pindexBest] \ {Genesis} /\ pprev[e] = c
      <4>1. e \in Blocks \ {Genesis}
        BY <3>7, OwnBranch
      <4>2. nHeight[e] = nHeight[c] + 1
        BY <3>7, <4>1, TrustAssumption
      <4>3. nHeight[e] = nHeight[b] + (n + 1)
        BY <1>2, <2>5, <4>2
      <4>4. Follows(x, pprev[e], N, V)
        BY <3>4, <3>7, Zenon
      <4> QED
        BY <3>3, <3>7, <4>3, <4>4
    <3> QED
      BY <3>5, <3>6, <3>7
  <2>6. x \in GoodWallets /\ (Coming(e, x, n + 1) \/ Done(e, x))
    BY <2>3, <2>4, <2>5
  <2> HIDE DEF Coming, Done
  <2>7. P(n + 1)
    BY <2>6 DEF e, x
  <2>8. n + 1 \in 0 .. last
    BY <1>2
  <2> HIDE DEF P
  <2> QED
    BY <2>7, <2>8
<1> HIDE DEF R
<1>5. last \in R
  <2> HIDE DEF last
  <2>1. \A m \in 0 .. last - 1 : m \in R => m + 1 \in R
    BY <1>4
  <2>2. \A m \in 0 .. last : m \in R
    BY <1>2, <1>3, <2>1, UpTo
  <2> QED
    BY <1>2, <2>2
<1>6. Coming(at[last], after[last], last) \/ Done(at[last], after[last])
  BY <1>5 DEF R
<1>7. ~Coming(at[last], after[last], last)
  <2> SUFFICES ASSUME Coming(at[last], after[last], last) PROVE FALSE
    OBVIOUS
  <2>1. at[last] \in Branch[pindexBest] /\ nHeight[at[last]] = nHeight[b] + last
    OBVIOUS
  <2> DEFINE top == at[last]
  <2> HIDE DEF top
  <2>2. nHeight[top] <= nHeight[pindexBest]
    BY <2>1, LowerOnBranch, OwnBranch, TreeAssumption DEF top
  <2> QED
    BY <1>2, <2>1, <2>2 DEF top
<1> QED
  BY <1>0, <1>1, <1>6, <1>7

-----------------------------------------------------------------------------
(***************************************************************************)
(* What the transaction index tells the wallet.                            *)
(***************************************************************************)

\* A wallet that knows the transactions of a chain learns nothing from a
\* rescan that passes over what is known.
LEMMA SyncIdle ==
    ASSUME NEW w \in GoodWallets, NEW T \in SUBSET Txs, Knows(w, T), NEW t \in T, NEW c
    PROVE  Sync(w, t, c, FALSE) = w
<1>1. t \in Txs /\ w \in [Txs -> WalletTx \union {Nil}]
  BY DEF GoodWallets
<1>2. CASE w[t] # Nil
  BY <1>2 DEF Sync
<1>3. CASE w[t] = Nil
  <2>1. ~PaysMe(t) /\ vin[t] \intersect Mine = {}
    BY <1>3 DEF Knows, IsMineOrSpends
  <2>2. ~Involved(w, t)
    BY <1>3, <2>1 DEF Involved, IsFromMe
  <2>3. Sync(w, t, c, FALSE) = WalletUpdateSpent(w, t)
    BY <1>3, <2>2 DEF Sync
  <2>4. ASSUME NEW p \in Txs, w[p] # Nil
        PROVE  [w[p] EXCEPT !.vfSpent = w[p].vfSpent \union (SpentBy(t, p) \intersect MineOf(p))] = w[p]
    <3>1. SpentBy(t, p) \intersect MineOf(p) = {}
      BY <1>1, <2>1, SpentByPair
    <3>2. w[p].vfSpent \union (SpentBy(t, p) \intersect MineOf(p)) = w[p].vfSpent
      BY <3>1
    <3>3. w[p] \in WalletTx
      BY <1>1, <2>4
    <3>4. [w[p] EXCEPT !.vfSpent = w[p].vfSpent] = w[p]
      BY <3>3 DEF WalletTx
    <3> QED
      BY <3>2, <3>4, Zenon
  <2>5. WalletUpdateSpent(w, t) = [p \in Txs |-> w[p]]
    BY <2>4 DEF WalletUpdateSpent
  <2> QED
    BY <1>1, <2>3, <2>5
<1> QED
  BY <1>2, <1>3

LEMMA RescanIdle ==
    ASSUME NEW top \in Blocks, pnext = SuccessorsOf(top), pindexBest \in Blocks,
           NEW w \in GoodWallets, Knows(w, TxsOnBranch(top))
    PROVE  Rescanned(w, Genesis, FALSE) = w
<1> DEFINE S == {w}
           C == Branch[top]
<1>1. PICK f : f = FALSE
  OBVIOUS
<1>2. ASSUME NEW v \in S, NEW c \in C, NEW t \in TxsOf(c) PROVE Sync(v, t, c, f) \in S
  <2>1. t \in TxsOnBranch(top) /\ TxsOnBranch(top) \in SUBSET Txs
    BY BranchTxs
  <2>2. Sync(w, t, c, FALSE) = w
    BY <2>1, SyncIdle
  <2> QED
    BY <1>1, <2>2
<1>3. C \in SUBSET Blocks /\ Genesis \in C /\ \A c \in C : pnext[c] \in C \union {Nil}
  BY OwnBranch, NextOnMain, GenesisOnBranch
<1>4. w \in S
  OBVIOUS
<1> HIDE DEF S, C
<1>5. Rescanned(w, Genesis, f) \in S
  BY <1>2, <1>3, <1>4, RescanKeeps
<1> QED
  BY <1>1, <1>5 DEF S

\* The outputs of mine that the index has as spent.
DiskSpent(p) == {n \in MineOf(p) : disk.pos[p] # Nil /\ disk.spent[<<p, n>>] # Nil}

LEMMA FlaggedFlags ==
    ASSUME NEW w \in GoodWallets
    PROVE  /\ Flagged(w) \in GoodWallets
           /\ \A p \in Txs : /\ Flagged(w)[p] = Nil <=> w[p] = Nil
                             /\ w[p] # Nil =>
                                   /\ Flagged(w)[p].hashBlock = w[p].hashBlock
                                   /\ Flagged(w)[p].vfSpent = w[p].vfSpent \union IndexSpent(w, p)
           /\ \A p \in Txs : IndexSpent(w, p) \subseteq DiskSpent(p)
           /\ \A p \in Txs : Examined(w, p) => IndexSpent(w, p) = DiskSpent(p)
<1> DEFINE v == Flagged(w)
<1>1. w \in [Txs -> WalletTx \union {Nil}] /\ \A p \in Txs : w[p] # Nil =>
         w[p].vfSpent \subseteq MineOf(p) /\ (w[p].hashBlock # Nil => p \in TxsOf(w[p].hashBlock))
  BY DEF GoodWallets
<1>2. v = [p \in Txs |-> IF w[p] = Nil THEN Nil
                         ELSE [w[p] EXCEPT !.vfSpent = w[p].vfSpent \union IndexSpent(w, p)]]
  BY DEF Flagged
<1>3. \A p \in Txs : /\ IndexSpent(w, p) \subseteq DiskSpent(p)
                     /\ Examined(w, p) => IndexSpent(w, p) = DiskSpent(p)
                     /\ IndexSpent(w, p) \subseteq MineOf(p)
                     /\ MineOf(p) \subseteq 0 .. 2
  BY DEF IndexSpent, DiskSpent, MineOf
<1> HIDE DEF v
<1>4. ASSUME NEW p \in Txs, w[p] # Nil
      PROVE  /\ v[p] \in WalletTx /\ v[p] # Nil
             /\ v[p].hashBlock = w[p].hashBlock /\ v[p].vfSpent = w[p].vfSpent \union IndexSpent(w, p)
  <2>1. w[p] \in WalletTx
    BY <1>1, <1>4
  <2>2. v[p] = [w[p] EXCEPT !.vfSpent = w[p].vfSpent \union IndexSpent(w, p)]
    BY <1>2, <1>4
  <2>3. IndexSpent(w, p) \subseteq 0 .. 2
    BY <1>3
  <2>4. /\ v[p] \in WalletTx
        /\ v[p].hashBlock = w[p].hashBlock /\ v[p].vfSpent = w[p].vfSpent \union IndexSpent(w, p)
    BY <2>1, <2>2, <2>3 DEF WalletTx
  <2> QED
    BY <2>4, WalletNilAssumption
<1>5. \A p \in Txs : v[p] = Nil <=> w[p] = Nil
  BY <1>2, <1>4
<1>6. v \in [Txs -> WalletTx \union {Nil}]
  BY <1>2, <1>4, <1>5
<1>7. v \in GoodWallets
  <2> SUFFICES ASSUME NEW p \in Txs, v[p] # Nil
               PROVE  v[p].vfSpent \subseteq MineOf(p) /\ (v[p].hashBlock # Nil => p \in TxsOf(v[p].hashBlock))
    BY <1>6 DEF GoodWallets
  <2>1. w[p] # Nil
    BY <1>5
  <2> QED
    BY <1>1, <1>3, <1>4, <2>1
<1> QED
  BY <1>3, <1>4, <1>5, <1>7 DEF v

\* ReacceptWalletTransactions forgets nothing ...
LEMMA TakeOverGrows ==
    ASSUME NEW w \in GoodWallets, pindexBest \in Blocks,
           pnext \in [Blocks -> Blocks \union {Nil}]
    PROVE  TakeOver(w) \in Grown(w)
<1> DEFINE S == Grown(w)
<1>1. w \in S
  BY DEF Grown
<1>2. ASSUME NEW v \in S PROVE Flagged(v) \in S
  BY FlaggedFlags DEF Grown
<1>3. ASSUME NEW v \in S PROVE Rescanned(v, Genesis, FALSE) \in S
  <2>1. v \in GoodWallets /\ Genesis \in Blocks
    BY TreeAssumption DEF Grown
  <2>2. Rescanned(v, Genesis, FALSE) \in Grown(v)
    BY <2>1, RescanGrows
  <2> QED
    BY <2>2 DEF Grown
<1> HIDE DEF S
<1>4. TakeOver(w) \in S
  BY <1>1, <1>2, <1>3, TakeOverKeeps
<1> QED
  BY <1>4 DEF S

\* ... and gives a wallet that knows the chain only flags, those of the index.
LEMMA TakeOverFlags ==
    ASSUME NEW w \in GoodWallets, pindexBest \in Blocks, NEW top \in Blocks,
           pnext = SuccessorsOf(top), Knows(w, TxsOnBranch(top))
    PROVE  \A p \in Txs : /\ TakeOver(w)[p] = Nil <=> w[p] = Nil
                          /\ w[p] # Nil =>
                                /\ TakeOver(w)[p].hashBlock = w[p].hashBlock
                                /\ w[p].vfSpent \union IndexSpent(w, p) \subseteq TakeOver(w)[p].vfSpent
                                /\ TakeOver(w)[p].vfSpent \subseteq w[p].vfSpent \union DiskSpent(p)
<1> DEFINE Between(v) ==
              \A p \in Txs : /\ v[p] = Nil <=> w[p] = Nil
                             /\ w[p] # Nil =>
                                   /\ v[p].hashBlock = w[p].hashBlock
                                   /\ w[p].vfSpent \union IndexSpent(w, p) \subseteq v[p].vfSpent
                                   /\ v[p].vfSpent \subseteq w[p].vfSpent \union DiskSpent(p)
           S == {v \in GoodWallets : Between(v)}
<1>1. ASSUME NEW v \in S PROVE Flagged(v) \in S
  <2>1. v \in GoodWallets /\ Between(v)
    OBVIOUS
  <2>2. Flagged(v) \in GoodWallets
    BY <2>1, FlaggedFlags
  <2>3. ASSUME NEW p \in Txs
        PROVE  /\ Flagged(v)[p] = Nil <=> w[p] = Nil
               /\ w[p] # Nil =>
                     /\ Flagged(v)[p].hashBlock = w[p].hashBlock
                     /\ w[p].vfSpent \union IndexSpent(w, p) \subseteq Flagged(v)[p].vfSpent
                     /\ Flagged(v)[p].vfSpent \subseteq w[p].vfSpent \union DiskSpent(p)
    <3>1. IndexSpent(v, p) \subseteq DiskSpent(p)
      BY <2>1, FlaggedFlags
    <3> QED
      BY <2>1, <3>1, FlaggedFlags
  <2> QED
    BY <2>2, <2>3
<1>2. ASSUME NEW v \in S PROVE Rescanned(v, Genesis, FALSE) \in S
  <2>1. v \in GoodWallets /\ \A p \in Txs : v[p] = Nil <=> w[p] = Nil
    OBVIOUS
  <2>2. TxsOnBranch(top) \in SUBSET Txs
    BY BranchTxs
  <2>3. Knows(v, TxsOnBranch(top))
    BY <2>1, <2>2, KnowsGrows
  <2> HIDE DEF S
  <2>4. Rescanned(v, Genesis, FALSE) = v
    BY <2>1, <2>3, RescanIdle
  <2> QED
    BY <2>4, Zenon
<1>3. Txs = {} => w \in S
  OBVIOUS
<1>4. Flagged(w) \in S
  <2>1. \A p \in Txs : IndexSpent(w, p) \subseteq DiskSpent(p)
    BY FlaggedFlags
  <2> QED
    BY <2>1, FlaggedFlags
<1>5. TakeOver(w) \in S
  <2> HIDE DEF S
  <2> QED
    BY <1>1, <1>2, <1>3, <1>4, TakeOverKeeps
<1> QED
  BY <1>5

\* The index, as far as it is about known transactions, is that of a chain.
Reads(w, top) ==
    \A p \in Txs : w[p] # Nil =>
        \A n \in MineOf(p) :
            n \in DiskSpent(p) <=> \E t \in TxsOnBranch(top) : <<p, n>> \in vin[t]

LEMMA ReadsView ==
    ASSUME NEW e, NEW top \in Blocks, ValidChain(top), ViewMatches(e, top), NEW w,
           \A p \in Txs : w[p] # Nil =>
              /\ e.pos[p] = disk.pos[p]
              /\ \A n \in 0 .. 2 : e.spent[<<p, n>>] = disk.spent[<<p, n>>]
    PROVE  Reads(w, top)
<1> SUFFICES ASSUME NEW p \in Txs, w[p] # Nil, NEW n \in MineOf(p)
             PROVE  n \in DiskSpent(p) <=> \E t \in TxsOnBranch(top) : <<p, n>> \in vin[t]
  BY DEF Reads
<1> DEFINE o == <<p, n>>
<1>1. n \in 0 .. 2 /\ o \in OutPoints /\ o[1] = p
  BY DEF MineOf, OutPoints
<1>2. n \in DiskSpent(p) <=> e.pos[p] # Nil /\ e.spent[o] # Nil
  BY <1>1 DEF DiskSpent
<1>3. ASSUME e.spent[o] # Nil PROVE \E t \in TxsOnBranch(top) : o \in vin[t]
  BY <1>1, <1>3 DEF ViewMatches, TxsOnBranch
<1>4. ASSUME NEW t \in TxsOnBranch(top), o \in vin[t] PROVE e.pos[p] # Nil /\ e.spent[o] # Nil
  <2>1. PICK c \in Branch[top] : t \in TxsOf(c)
    BY DEF TxsOnBranch
  <2>2. e.spent[o] = <<c, t>> /\ c \in Blocks /\ t \in Txs
    BY <1>4, <2>1, OwnBranch, TxsOfType DEF ViewMatches
  <2>3. <<c, t>> # Nil
    BY <2>2, NilAssumption DEF TxPos
  <2>4. p \in TxsOnBranch(top)
    BY <1>1, <1>4, ValidClosed DEF Closed
  <2>5. PICK a \in Branch[top] : p \in TxsOf(a)
    BY <2>4 DEF TxsOnBranch
  <2>6. e.pos[p] = a /\ a \in Blocks
    BY <2>5, OwnBranch DEF ViewMatches
  <2> QED
    BY <2>2, <2>3, <2>6, NilAssumption
<1> HIDE DEF o
<1>5. n \in DiskSpent(p) <=> \E t \in TxsOnBranch(top) : o \in vin[t]
  BY <1>2, <1>3, <1>4
<1> QED
  BY <1>5 DEF o

\* A wallet told of flags by an index that reads as a chain it knows: what it
\* is told of the blocks C it has.
LEMMA IndexTold ==
    ASSUME NEW top \in Blocks, NEW w, NEW v, Reads(w, top), NEW M, NEW U, Follows(w, top, M, U), NEW C,
           \A p \in Txs : /\ v[p] = Nil <=> w[p] = Nil
                          /\ w[p] # Nil => v[p].hashBlock = w[p].hashBlock,
           \A c \in C : \A t \in TxsOf(c) : \A o \in vin[t] \intersect Mine :
               w[o[1]] # Nil => DiskSpent(o[1]) \subseteq v[o[1]].vfSpent,
           \/ Branch[top] \subseteq C
           \/ \A p \in Txs : w[p] # Nil => w[p].vfSpent \subseteq v[p].vfSpent
    PROVE  Follows(v, top, M, U \ C)
<1>1. TxsOnBranch(top) \in SUBSET Txs
  BY BranchTxs
<1>2. Knows(v, TxsOnBranch(top))
  BY <1>1, KnowsGrows DEF Follows, FollowsTxs
<1>3. Agrees(v, TxsIn(Branch[top] \ M), Branch[top])
  <2>1. TxsIn(Branch[top] \ M) \subseteq Txs
    BY <1>1 DEF TxsIn, TxsOnBranch
  <2> QED
    BY <2>1 DEF Agrees, Follows, FollowsTxs
<1>4. Flags(v, TxsIn(Branch[top] \ (U \ C)))
  <2> SUFFICES ASSUME NEW c \in Branch[top] \ (U \ C), NEW t \in TxsOf(c),
                      NEW o \in vin[t] \intersect Mine, v[o[1]] # Nil
               PROVE  o[2] \in v[o[1]].vfSpent
    BY DEF Flags, TxsIn
  <2>1. o = <<o[1], o[2]>> /\ o[1] \in Txs /\ o[2] \in MineOf(o[1])
    BY MinePays, SpentByPair, Zenon
  <2>2. w[o[1]] # Nil /\ t \in TxsOnBranch(top)
    BY <2>1 DEF TxsOnBranch
  <2>3. CASE c \in C
    <3>1. o[2] \in DiskSpent(o[1])
      BY <2>1, <2>2 DEF Reads
    <3> QED
      BY <2>2, <2>3, <3>1
  <2>4. CASE c \notin C
    <3>1. o[2] \in w[o[1]].vfSpent
      BY <2>2, <2>4 DEF Follows, FollowsTxs, Flags, TxsIn
    <3>2. w[o[1]].vfSpent \subseteq v[o[1]].vfSpent
      BY <2>1, <2>2, <2>4
    <3> QED
      BY <3>1, <3>2
  <2> QED
    BY <2>3, <2>4
<1> QED
  BY <1>2, <1>3, <1>4 DEF Follows, FollowsTxs

\* A flag that the index gives has a reason on the chain it reads as; the other
\* ones keep theirs, if it is among T.
LEMMA IndexBacked ==
    ASSUME NEW top \in Blocks, NEW w, NEW v, Reads(w, top), Knows(w, TxsOnBranch(top)),
           NEW S, Backed(w, S), NEW T, TxsOnBranch(top) \subseteq T,
           \A p \in Txs : v[p] = Nil <=> w[p] = Nil,
           \A o \in Mine : w[o[1]] # Nil /\ o[2] \in v[o[1]].vfSpent =>
              \/ o[2] \in DiskSpent(o[1])
              \/ /\ o[2] \in w[o[1]].vfSpent
                 /\ \A u \in S \intersect CoinStakes : o \in vin[u] => u \in T
    PROVE  Backed(v, T)
<1> SUFFICES ASSUME NEW o \in Mine, v[o[1]] # Nil, o[2] \in v[o[1]].vfSpent
             PROVE  \E u \in Txs : o \in vin[u] /\ v[u] # Nil /\ (u \notin CoinStakes \/ u \in T)
  BY DEF Backed
<1>1. o = <<o[1], o[2]>> /\ o[1] \in Txs /\ o[2] \in MineOf(o[1])
  BY MinePays, SpentByPair, Zenon
<1>2. w[o[1]] # Nil
  BY <1>1
<1>3. CASE o[2] \in DiskSpent(o[1])
  <2>1. PICK u \in TxsOnBranch(top) : o \in vin[u]
    BY <1>1, <1>2, <1>3 DEF Reads
  <2>2. w[u] # Nil /\ u \in Txs
    BY <2>1, BranchTxs DEF Knows, IsMineOrSpends
  <2> QED
    BY <2>1, <2>2
<1>4. CASE o[2] \notin DiskSpent(o[1])
  <2>1. PICK u \in Txs : o \in vin[u] /\ w[u] # Nil /\ (u \notin CoinStakes \/ u \in S)
    BY <1>2, <1>4 DEF Backed
  <2> QED
    BY <1>2, <1>4, <2>1
<1> QED
  BY <1>3, <1>4

-----------------------------------------------------------------------------
(***************************************************************************)
(* The chain beneath the wallet.                                           *)
(***************************************************************************)

ChainKept == Inv /\ IndexInv /\ SwitchInv /\ NextInv

\* A step that changes nothing but the memory pool.
PoolOnly ==
    /\ mapTx' \subseteq Txs
    /\ mapNextTx' \in [OutPoints -> Txs \union {Nil}]
    /\ UNCHANGED <<mapBlockIndex, pnext, pindexBest, disk, pc, switchVars, faultVars, intact>>

LEMMA PoolOnlyKeeps == ChainKept /\ PoolOnly => ChainKept'
<1> SUFFICES ASSUME ChainKept, PoolOnly PROVE ChainKept'
  OBVIOUS
<1>1. TypeInv'
  BY DEF ChainKept, PoolOnly, Inv, TypeInv, TypeOK, TargetOnPath, switchVars, faultVars
<1>2. ChainInv' /\ IndexInv' /\ SwitchInv' /\ NextInv'
  BY DEF ChainKept, PoolOnly, Inv, ChainInv, IndexInv, SwitchInv, NextInv, switchVars, faultVars
<1> QED
  BY <1>1, <1>2 DEF ChainKept, Inv

LEMMA NextKeeps == ChainKept /\ [Next]_vars => ChainKept'
BY TypeNext, ChainNext, IndexNext, SwitchNext, NextNext DEF ChainKept, Inv

\* No action of the wallet does anything to the chain that ChainState does not
\* do, except for the memory pool.
LEMMA WalletIsNext == ChainKept /\ WalletNext => [Next]_vars \/ PoolOnly
<1> SUFFICES ASSUME ChainKept, WalletNext PROVE [Next]_vars \/ PoolOnly
  OBVIOUS
<1>1. mapTx \subseteq Txs /\ mapNextTx \in [OutPoints -> Txs \union {Nil}]
  BY DEF ChainKept, Inv, TypeInv, TypeOK
<1>2. CASE Receive
  BY <1>2 DEF Receive, Next
<1>3. ASSUME NEW t \in Txs, ReceiveTx(t) PROVE Next
  BY <1>3 DEF ReceiveTx, Next
<1>4. CASE WalletConnectBlock
  BY <1>4 DEF WalletConnectBlock, Next
<1>5. CASE WalletDisconnectBlock
  BY <1>5 DEF WalletDisconnectBlock, Next
<1>6. CASE WalletCommit
  BY <1>6 DEF WalletCommit, Next
<1>7. CASE WalletGiveUp
  BY <1>7 DEF WalletGiveUp, Next
<1>8. CASE WalletCrash
  BY <1>8 DEF WalletCrash, Next
<1>9. CASE WalletStart
  BY <1>9 DEF WalletStart, Next
<1>10. CASE RegisterWallet \/ FixSpentCoins \/ BackupWallet \/ RestoreWallet
  BY <1>10 DEF RegisterWallet, FixSpentCoins, BackupWallet, RestoreWallet
<1>11. CASE ReacceptWalletTransactions
  <2>1. mapTx' \in PoolsWith(Loose(mapWallet')) /\ mapNextTx' = PoolIndex(mapTx')
    BY <1>11 DEF ReacceptWalletTransactions
  <2>2. mapTx' \subseteq Txs
    BY <1>1, <2>1, BoundsAssumption DEF PoolsWith
  <2>3. mapNextTx' \in [OutPoints -> Txs \union {Nil}]
    BY <2>1, <2>2, PoolIndexType
  <2> QED
    BY <1>11, <2>2, <2>3 DEF ReacceptWalletTransactions, PoolOnly
<1>12. ASSUME NEW t \in Txs, CommitTransaction(t) PROVE PoolOnly
  <2>1. CASE UNCHANGED poolVars
    BY <1>1, <1>12, <2>1 DEF CommitTransaction, PoolOnly, poolVars
  <2>2. CASE AddUnchecked(t)
    BY <1>1, <1>12, <2>2 DEF CommitTransaction, PoolOnly, AddUnchecked
  <2> QED
    BY <1>12, <2>1, <2>2 DEF CommitTransaction
<1>13. ASSUME NEW t \in Txs, CrashInCommit(t) PROVE Next
  BY <1>13 DEF CrashInCommit, Next
<1> QED
  BY <1>2, <1>3, <1>4, <1>5, <1>6, <1>7, <1>8, <1>9, <1>10, <1>11, <1>12, <1>13 DEF WalletNext

LEMMA ChainStep == ChainKept /\ [WalletNext]_wvars => ChainKept'
<1>1. CASE WalletNext
  BY <1>1, WalletIsNext, NextKeeps, PoolOnlyKeeps
<1>2. CASE UNCHANGED wvars
  BY <1>2, NextKeeps DEF wvars
<1> QED
  BY <1>1, <1>2

\* What the wallet needs to know of the chain.
LEMMA ChainFacts ==
    ASSUME ChainKept
    PROVE  /\ {disk.best, pindexBest, pindexNew, target, tip} \subseteq Blocks
           /\ pnext \in [Blocks -> Blocks \union {Nil}]
           /\ disk.pos \in [Txs -> Blocks \union {Nil}]
           /\ pc \in {"idle", "switch", "down"} /\ intact \in BOOLEAN /\ secondary \in BOOLEAN
           /\ intact =>
                 /\ ValidChain(disk.best) /\ ViewMatches(disk, disk.best)
                 /\ pc = "idle" => pindexBest = disk.best
                 /\ pc # "down" => pnext = SuccessorsOf(disk.best)
                 /\ pc = "switch" => /\ ValidChain(tip) /\ ViewMatches(txn, tip)
                                     /\ ~secondary => pindexBest = disk.best
BY Types DEF ChainKept, Inv, TypeInv, TypeOK, ChainInv, NextInv, TxDB

-----------------------------------------------------------------------------
(***************************************************************************)
(* What changes little.                                                    *)
(***************************************************************************)

LEMMA LocatorGrows ==
    ASSUME NEW w, NEW v, NEW b \in Blocks \union {Nil}, LocatorSound(w, b),
           \A p \in Txs : w[p] # Nil => v[p] # Nil
    PROVE  LocatorSound(v, b)
<1>1. b # Nil => TxsOnBranch(b) \in SUBSET Txs
  BY BranchTxs
<1> QED
  BY <1>1, KnowsGrows DEF LocatorSound

LEMMA BackupKept ==
    ASSUME BackupInv, UNCHANGED <<backup, restored>>, intact' => intact
    PROVE  BackupInv' /\ Blind' = Blind
BY DEF BackupInv, Blind

\* An action that tells the wallet nothing leaves it where it is.
LEMMA NothingTold ==
    ASSUME FollowInv, UNCHANGED walletVars, intact' => intact,
           intact' => Here' = Here /\ disk'.best = disk.best
    PROVE  FollowInv'
BY DEF FollowInv, Blind, walletVars, historyVars

-----------------------------------------------------------------------------
(***************************************************************************)
(* The actions of the chain.                                               *)
(***************************************************************************)

LEMMA WalletInitially == WalletInit => WalletInv
<1> SUFFICES ASSUME WalletInit PROVE WalletInv
  OBVIOUS
<1>1. mapWallet = [t \in Txs |-> Nil] /\ bestblock = Nil /\ registered = TRUE
      /\ reaccepted = TRUE /\ backup = Nil /\ restored = FALSE /\ pc = "idle" /\ disk.best = Genesis
      /\ misplaced = {} /\ unflagged = {} /\ stranded = {}
  BY DEF WalletInit, Init, EmptyDB
<1>2. WalletTypes
  BY <1>1 DEF WalletTypes, GoodWallets
<1>3. BackupInv /\ RollBackInv
  BY <1>1 DEF BackupInv, RollBackInv
<1>4. \A o \in Mine : o[1] \in Txs
  BY MinePays
<1>5. Follows(mapWallet, Genesis, {}, {})
  <2>1. \A X : TxsIn(Branch[Genesis] \ X) = {}
    BY NoTxsOnGenesis DEF TxsIn, TxsOnBranch
  <2> QED
    BY <2>1, NoTxsOnGenesis DEF Follows, FollowsTxs, Knows, Agrees, Flags
<1>6. Backed(mapWallet, Reasons(Genesis, {}))
  BY <1>1, <1>4 DEF Backed
<1>7. Here = Genesis
  BY <1>1 DEF Here
<1>8. FollowInv
  BY <1>1, <1>5, <1>6, <1>7 DEF FollowInv, Stands, LocatorSound
<1> QED
  BY <1>2, <1>3, <1>8 DEF WalletInv

LEMMA IdleKeeps ==
    ASSUME WalletInv, UNCHANGED wvars
    PROVE  WalletInv'
<1>1. Here' = Here
  BY DEF wvars, vars, switchVars, walletVars, Here
<1>2. FollowInv'
  BY <1>1, NothingTold DEF wvars, vars, walletVars, WalletInv
<1>3. WalletTypes' /\ BackupInv' /\ RollBackInv'
  BY DEF wvars, vars, switchVars, walletVars, historyVars, WalletInv, WalletTypes, BackupInv, RollBackInv
<1> QED
  BY <1>2, <1>3 DEF WalletInv

LEMMA ReceiveKeeps ==
    ASSUME ChainKept, WalletInv, Receive
    PROVE  WalletInv'
<1>1. /\ registered /\ pc = "idle" /\ UNCHANGED walletVars /\ intact' = intact
      /\ disk'.best = disk.best /\ pc' \in {"idle", "switch"}
      /\ pc' = "switch" => tip' = pindexBest
  <2>1. disk \in TxDB
    BY Types DEF ChainKept
  <2>2. ASSUME NEW b \in Blocks, AcceptBlock(b)
        PROVE  /\ pc = "idle" /\ intact' = intact /\ disk'.best = disk.best
               /\ pc' \in {"idle", "switch"} /\ (pc' = "switch" => tip' = pindexBest)
    BY <2>1, <2>2 DEF AcceptBlock, SetBestChain, Begin, TxDB
  <2>3. ASSUME NEW b \in Blocks, SwitchToCheckpoint(b)
        PROVE  /\ pc = "idle" /\ intact' = intact /\ disk'.best = disk.best
               /\ pc' \in {"idle", "switch"} /\ (pc' = "switch" => tip' = pindexBest)
    BY <2>3 DEF SwitchToCheckpoint, SetBestChain, Begin
  <2> QED
    BY <2>2, <2>3 DEF Receive
<1>2. intact' => Here' = Here /\ disk'.best = disk.best
  BY <1>1, ChainFacts DEF Here, walletVars
<1>3. FollowInv'
  BY <1>1, <1>2, NothingTold DEF WalletInv
<1>4. WalletTypes' /\ BackupInv'
  BY <1>1, BackupKept DEF WalletInv, WalletTypes, walletVars, historyVars
<1>5. RollBackInv'
  BY <1>1 DEF RollBackInv, walletVars
<1> QED
  BY <1>3, <1>4, <1>5 DEF WalletInv

LEMMA ConnectKeeps ==
    ASSUME ChainKept, ChainKept', WalletInv, WalletConnectBlock
    PROVE  WalletInv'
<1> DEFINE b == NextOnPath(tip, target)
<1>1. /\ pc = "switch" /\ pc' = "switch" /\ tip' = b /\ disk' = disk
      /\ tip \in Branch[target] /\ tip # target
      /\ intact' => intact
      /\ IF registered
         THEN /\ mapWallet' = SyncBlock(mapWallet, b, TRUE)
              /\ misplaced' = (misplaced \ {b}) \union SharedWith(b)
              /\ unflagged' = unflagged \ {b}
              /\ stranded' = stranded \ {b}
         ELSE UNCHANGED <<mapWallet, historyVars>>
      /\ UNCHANGED <<bestblock, registered, reaccepted, backup, restored>>
      /\ ConnectBlock
  BY DEF WalletConnectBlock, ConnectBlock
<1>2. WalletTypes /\ BackupInv /\ RollBackInv /\ FollowInv /\ mapWallet \in GoodWallets
  BY DEF WalletInv, WalletTypes
<1>3. b \in Blocks \ {Genesis} /\ pprev[b] = tip
  <2>1. {tip, target} \subseteq Blocks
    BY ChainFacts
  <2> QED
    BY <1>1, <2>1, NextOnPathExists, OwnBranch
<1> HIDE DEF b
<1>4. mapWallet' \in Grown(mapWallet)
  <2>1. mapWallet \in Grown(mapWallet)
    BY <1>2 DEF Grown
  <2>2. SyncBlock(mapWallet, b, TRUE) \in Grown(mapWallet)
    BY <1>2, <1>3, SyncBlockGrows
  <2> QED
    BY <1>1, <2>1, <2>2
<1>5. {misplaced', unflagged', stranded'} \subseteq SUBSET Blocks
  <2>1. SharedWith(b) \subseteq Blocks
    BY ChainFacts, OwnBranch DEF SharedWith
  <2> QED
    BY <1>1, <1>2, <2>1 DEF WalletTypes, historyVars
<1>6. WalletTypes' /\ BackupInv' /\ Blind' = Blind
  <2>1. BackupInv' /\ Blind' = Blind
    BY <1>1, <1>2, BackupKept
  <2>2. WalletTypes'
    BY <1>1, <1>2, <1>4, <1>5 DEF WalletTypes, Grown
  <2> QED
    BY <2>1, <2>2
<1>7. ASSUME intact' PROVE registered /\ b \in Branch[target] \ Branch[disk.best]
  <2>1. b \in Branch[target] \ Branch[disk.best]
    BY <1>1, <1>7, NextIsNew DEF ChainKept, b
  <2>2. target \in Branch[disk.best] => Branch[target] \subseteq Branch[disk.best]
    BY ChainFacts, BranchAssumption
  <2> QED
    BY <1>1, <1>2, <1>7, <2>1, <2>2 DEF RollBackInv
<1>8. RollBackInv'
  BY <1>1, <1>2, <1>7 DEF RollBackInv
<1>9. ASSUME intact', ~Blind'
      PROVE  Stands(mapWallet', bestblock', registered', Here', disk'.best, misplaced', unflagged', stranded')
  <2>1. registered /\ intact /\ Here = tip /\ Here' = b /\ b \notin Branch[disk.best]
    BY <1>1, <1>7, <1>9 DEF Here
  <2>2. Stands(mapWallet, bestblock, registered, tip, disk.best, misplaced, unflagged, stranded)
    BY <1>2, <1>6, <1>9, <2>1 DEF FollowInv
  <2>3. ValidChain(b) /\ ValidChain(disk.best) /\ disk.best \in Blocks
    BY <1>1, <1>9, <2>1, ChainFacts DEF ChainKept, Inv, ChainInv
  <2>4. LocatorSound(mapWallet', bestblock')
    BY <1>1, <1>2, <1>4, <2>2, LocatorGrows DEF Stands, Grown, WalletTypes
  <2>5. /\ mapWallet' = SyncBlock(mapWallet, b, TRUE)
        /\ misplaced' = (misplaced \ {b}) \union SharedWith(b)
        /\ unflagged' = unflagged \ {b} /\ stranded' = stranded \ {b}
    BY <1>1, <2>1
  <2>6. Follows(mapWallet', b, misplaced', unflagged')
    <3>1. Follows(mapWallet, pprev[b], misplaced, unflagged)
      BY <1>3, <2>1, <2>2 DEF Stands
    <3>2. Follows(mapWallet', b, misplaced \ {b}, unflagged \ {b})
      BY <1>2, <1>3, <2>3, <2>5, <3>1, SyncBlockFollows
    <3>3. misplaced \ {b} \subseteq misplaced' /\ unflagged \ {b} = unflagged'
      BY <2>5
    <3> QED
      BY <3>2, <3>3, FollowsLess
  <2>7. Follows(mapWallet', disk.best, misplaced', unflagged')
    <3>1. Told(mapWallet, mapWallet', TxsOf(b))
      <4>1. Len(vtx[b]) \in 0 .. Len(vtx[b])
        BY <1>3, TxAssumption
      <4> QED
        BY <1>2, <1>3, <2>5, <4>1, SyncFirstTold DEF SyncBlock, ToldOf
    <3>2. Follows(mapWallet, disk.best, misplaced, unflagged)
      BY <2>1, <2>2 DEF Stands
    <3>3. Follows(mapWallet', disk.best, misplaced \union SharedWith(b), unflagged)
      BY <2>3, <3>1, <3>2, ToldFollows DEF SharedWith
    <3>4. /\ Branch[disk.best] \intersect (misplaced \union SharedWith(b)) \subseteq misplaced'
          /\ Branch[disk.best] \intersect unflagged \subseteq unflagged'
      BY <2>1, <2>5
    <3> QED
      BY <3>3, <3>4, FollowsLess
  <2>8. Backed(mapWallet', Reasons(b, stranded'))
    BY <1>2, <1>3, <2>2, <2>5, SyncBlockBacked DEF Stands
  <2> QED
    BY <1>1, <2>1, <2>4, <2>6, <2>7, <2>8 DEF Stands
<1>10. FollowInv'
  BY <1>9 DEF FollowInv
<1> QED
  BY <1>6, <1>8, <1>10 DEF WalletInv

LEMMA DisconnectKeeps ==
    ASSUME ChainKept, WalletInv, WalletDisconnectBlock
    PROVE  WalletInv'
<1>1. /\ pc = "switch" /\ pc' = "switch" /\ tip' = pprev[tip] /\ disk' = disk
      /\ tip \notin Branch[target] /\ intact' = intact
      /\ UNCHANGED <<secondary, target, pindexNew>>
      /\ IF registered
         THEN /\ mapWallet' = DisableBlock(mapWallet, tip)
              /\ unflagged' = IF mapWallet' = mapWallet THEN unflagged ELSE unflagged \union {tip}
              /\ stranded' = stranded \ {tip}
         ELSE UNCHANGED <<mapWallet, unflagged, stranded>>
      /\ UNCHANGED <<bestblock, registered, reaccepted, backup, misplaced, restored>>
  BY DEF WalletDisconnectBlock, DisconnectBlock
<1>2. WalletTypes /\ BackupInv /\ RollBackInv /\ FollowInv /\ mapWallet \in GoodWallets
  BY DEF WalletInv, WalletTypes
<1>3. tip \in Blocks \ {Genesis} /\ {pprev[tip], disk.best} \subseteq Blocks
  <2>1. {tip, target, disk.best} \subseteq Blocks
    BY ChainFacts
  <2>2. tip \in Blocks \ {Genesis}
    BY <1>1, <2>1, GenesisOnBranch
  <2> QED
    BY <2>1, <2>2, BranchStep
<1>4. mapWallet' \in GoodWallets /\ \A p \in Txs : mapWallet'[p] = Nil <=> mapWallet[p] = Nil
  BY <1>1, <1>2, DisableKeeps
<1>5. WalletTypes' /\ BackupInv' /\ Blind' = Blind
  <2>1. BackupInv' /\ Blind' = Blind
    BY <1>1, <1>2, BackupKept
  <2>2. {misplaced', unflagged', stranded'} \subseteq SUBSET Blocks
    BY <1>1, <1>2, <1>3 DEF WalletTypes
  <2>3. WalletTypes'
    BY <1>1, <1>2, <1>4, <2>2 DEF WalletTypes
  <2> QED
    BY <2>1, <2>3
<1>6. RollBackInv'
  BY <1>1, <1>2 DEF RollBackInv
<1>7. ASSUME intact', ~Blind'
      PROVE  Stands(mapWallet', bestblock', registered', Here', disk'.best, misplaced', unflagged', stranded')
  <2>1. /\ Stands(mapWallet, bestblock, registered, Here, disk.best, misplaced, unflagged, stranded)
        /\ ValidChain(tip) /\ ValidChain(disk.best)
    BY <1>1, <1>2, <1>5, <1>7, ChainFacts DEF FollowInv
  <2>2. LocatorSound(mapWallet', bestblock')
    BY <1>1, <1>2, <1>4, <2>1, LocatorGrows DEF Stands, WalletTypes
  <2>3. CASE ~registered
    <3>1. /\ Here = disk.best /\ Here' = disk.best
          /\ UNCHANGED <<mapWallet, bestblock, registered, misplaced, unflagged, stranded>>
      BY <1>1, <2>3 DEF Here
    <3> QED
      BY <1>1, <2>1, <3>1
  <2>4. CASE registered
    <3>1. /\ mapWallet' = DisableBlock(mapWallet, tip) /\ Here = tip /\ Here' = pprev[tip]
          /\ unflagged' = (IF mapWallet' = mapWallet THEN unflagged ELSE unflagged \union {tip})
          /\ stranded' = stranded \ {tip} /\ misplaced' = misplaced
      BY <1>1, <2>4 DEF Here
    <3>2. Follows(mapWallet, tip, misplaced, unflagged) /\ Follows(mapWallet, disk.best, misplaced, unflagged)
      BY <2>1, <2>4, <3>1 DEF Stands
    <3>3. ASSUME NEW top \in Blocks, ValidChain(top), tip \in Branch[top],
                 Follows(mapWallet, top, misplaced, unflagged)
          PROVE  Follows(mapWallet', top, misplaced', unflagged')
      <4>1. Follows(mapWallet', top, misplaced, unflagged \union {tip})
        BY <1>2, <3>1, <3>3, DisableFollows
      <4> QED
        BY <3>1, <3>3, <4>1
    <3>4. tip \in Branch[disk.best] /\ tip \in Branch[tip] /\ pprev[tip] \in Branch[tip]
      BY <1>1, <1>3, <1>7, OwnBranch, BranchStep DEF ChainKept, SwitchInv
    <3>5. Follows(mapWallet', disk.best, misplaced', unflagged')
      BY <1>3, <2>1, <3>2, <3>3, <3>4
    <3>6. Follows(mapWallet', pprev[tip], misplaced', unflagged')
      <4>1. Follows(mapWallet', tip, misplaced', unflagged')
        BY <1>3, <2>1, <3>2, <3>3, <3>4
      <4> QED
        BY <1>3, <1>4, <2>1, <3>4, <4>1, FollowsBelow
    <3>7. Backed(mapWallet', Reasons(pprev[tip], stranded'))
      BY <1>2, <1>3, <2>1, <3>1, DisableBacked DEF Stands
    <3> QED
      BY <1>1, <2>2, <3>1, <3>5, <3>6, <3>7 DEF Stands
  <2> QED
    BY <1>2, <2>3, <2>4 DEF WalletTypes
<1>8. FollowInv'
  BY <1>7 DEF FollowInv
<1> QED
  BY <1>5, <1>6, <1>8 DEF WalletInv

\* What a branch has beyond another one is made up for by its blocks.
LEMMA ReasonsMoved ==
    ASSUME NEW w, NEW b, NEW c, NEW S, NEW T, S \union (Branch[b] \ Branch[c]) \subseteq T,
           Backed(w, Reasons(b, S))
    PROVE  Backed(w, Reasons(c, T))
<1>1. Reasons(b, S) \subseteq Reasons(c, T)
  BY DEF Reasons, TxsIn, TxsOnBranch
<1> QED
  BY <1>1, BackedMore

\* The end of a switch: the new best block is the one the wallet stands at.
LEMMA CommitKeeps ==
    ASSUME ChainKept, ChainKept', WalletInv, WalletCommit
    PROVE  WalletInv'
<1>1. /\ pc = "switch" /\ tip = target /\ intact' = intact
      /\ disk' = [txn EXCEPT !.best = target]
      /\ \/ target = pindexNew /\ pc' = "idle"
         \/ target # pindexNew /\ pc' = "switch" /\ tip' = target
      /\ \/ UNCHANGED bestblock
         \/ registered /\ pc' = "idle" /\ bestblock' = pindexNew
      /\ stranded' = IF registered THEN stranded
                     ELSE stranded \union (Branch[disk.best] \ Branch[disk'.best])
      /\ UNCHANGED <<mapWallet, registered, reaccepted, backup, misplaced, unflagged, restored>>
  BY DEF WalletCommit, Commit, Begin, WriteBestBlock
<1>2. WalletTypes /\ BackupInv /\ RollBackInv /\ FollowInv /\ mapWallet \in GoodWallets
      /\ registered \in BOOLEAN /\ bestblock \in Blocks \union {Nil}
  BY DEF WalletInv, WalletTypes
<1>3. disk'.best = target /\ {target, pindexNew, disk.best} \subseteq Blocks
  <2>1. txn \in TxDB
    BY Types DEF ChainKept
  <2> QED
    BY <1>1, <2>1, ChainFacts DEF TxDB
<1>4. WalletTypes' /\ BackupInv' /\ Blind' = Blind
  <2>1. BackupInv' /\ Blind' = Blind
    BY <1>1, <1>2, BackupKept
  <2>2. stranded' \subseteq Blocks
    BY <1>1, <1>2, <1>3, OwnBranch DEF WalletTypes
  <2>3. WalletTypes'
    BY <1>1, <1>2, <1>3, <2>2 DEF WalletTypes
  <2> QED
    BY <2>1, <2>3
<1>5. RollBackInv'
  BY <1>1, <1>2 DEF RollBackInv
<1>6. ASSUME intact', ~Blind'
      PROVE  Stands(mapWallet', bestblock', registered', Here', disk'.best, misplaced', unflagged', stranded')
  <2>1. Stands(mapWallet, bestblock, registered, Here, disk.best, misplaced, unflagged, stranded)
    BY <1>1, <1>2, <1>4, <1>6 DEF FollowInv
  <2>2. Here' = target
    BY <1>1, <1>3 DEF Here
  <2>3. ValidChain(target) /\ ValidChain(disk.best)
    BY <1>1, <1>3, <1>6, ChainFacts DEF ChainKept, Inv, ChainInv
  <2>4. CASE registered
    <3>1. Here = target /\ stranded' = stranded
      BY <1>1, <2>4 DEF Here
    <3>2. Follows(mapWallet, target, misplaced, unflagged) /\ Backed(mapWallet, Reasons(target, stranded))
      BY <2>1, <2>4, <3>1 DEF Stands
    <3>3. LocatorSound(mapWallet, target)
      BY <2>3, <3>2 DEF LocatorSound, Follows, FollowsTxs
    <3>4. LocatorSound(mapWallet, bestblock')
      BY <1>1, <2>1, <3>3 DEF Stands
    <3> QED
      BY <1>1, <1>3, <2>2, <3>1, <3>2, <3>4 DEF Stands
  <2>5. CASE ~registered
    <3>1. /\ target \in Branch[disk.best] /\ Here = disk.best /\ bestblock' = bestblock
          /\ stranded' = stranded \union (Branch[disk.best] \ Branch[target])
      BY <1>1, <1>2, <1>3, <1>6, <2>5 DEF RollBackInv, Here
    <3>2. \/ Follows(mapWallet, target, misplaced, unflagged)
          \/ bestblock # Nil /\ Follows(mapWallet, bestblock, misplaced, unflagged)
      <4>1. \/ Follows(mapWallet, disk.best, misplaced, unflagged)
            \/ bestblock # Nil /\ Follows(mapWallet, bestblock, misplaced, unflagged)
        BY <2>1, <2>5 DEF Stands
      <4> QED
        BY <1>2, <1>3, <2>3, <3>1, <4>1, FollowsBelow
    <3>3. Backed(mapWallet, Reasons(target, stranded'))
      BY <2>1, <3>1, ReasonsMoved DEF Stands
    <3>4. LocatorSound(mapWallet, bestblock)
      BY <2>1 DEF Stands
    <3> QED
      BY <1>1, <1>3, <2>2, <2>5, <3>1, <3>2, <3>3, <3>4 DEF Stands
  <2> QED
    BY <1>2, <2>4, <2>5
<1>7. FollowInv'
  BY <1>6 DEF FollowInv
<1> QED
  BY <1>4, <1>5, <1>7 DEF WalletInv

\* An abort leaves a wallet that was told of blocks that never came.
LEMMA GiveUpKeeps ==
    ASSUME ChainKept, WalletInv, WalletGiveUp
    PROVE  WalletInv'
<1>1. /\ pc = "switch" /\ pc' = "idle" /\ disk' = disk
      /\ intact' = (intact /\ ~secondary)
      /\ IF secondary THEN UNCHANGED bestblock \/ bestblock' = pindexNew ELSE UNCHANGED bestblock
      /\ stranded' = IF registered THEN stranded \union ToldInVain ELSE stranded
      /\ UNCHANGED <<mapWallet, registered, reaccepted, backup, misplaced, unflagged, restored>>
  BY DEF WalletGiveUp, SwitchFails, DatabaseFails, GiveUp, WriteBestBlock
<1>2. WalletTypes /\ BackupInv /\ RollBackInv /\ FollowInv
      /\ registered \in BOOLEAN /\ bestblock \in Blocks \union {Nil}
  BY DEF WalletInv, WalletTypes
<1>3. stranded' \subseteq Blocks
  BY <1>1, <1>2, ChainFacts, OwnBranch DEF WalletTypes, ToldInVain
<1>4. intact' => intact
  BY <1>1, ChainFacts
<1>5. WalletTypes' /\ BackupInv' /\ Blind' = Blind
  <2>1. BackupInv' /\ Blind' = Blind
    BY <1>1, <1>2, <1>4, BackupKept
  <2>2. bestblock' \in Blocks \union {Nil}
    BY <1>1, <1>2, ChainFacts
  <2>3. WalletTypes'
    BY <1>1, <1>2, <1>3, <2>2 DEF WalletTypes
  <2> QED
    BY <2>1, <2>3
<1>6. RollBackInv'
  BY <1>1 DEF RollBackInv
<1>7. ASSUME intact', ~Blind'
      PROVE  Stands(mapWallet', bestblock', registered', Here', disk'.best, misplaced', unflagged', stranded')
  <2>1. intact /\ bestblock' = bestblock /\ Here' = disk.best
    BY <1>1, <1>7, ChainFacts DEF Here
  <2>2. Stands(mapWallet, bestblock, registered, Here, disk.best, misplaced, unflagged, stranded)
    BY <1>2, <1>5, <1>7, <2>1 DEF FollowInv
  <2>3. Backed(mapWallet, Reasons(disk.best, stranded'))
    <3>1. Here = IF registered THEN tip ELSE disk.best
      BY <1>1 DEF Here
    <3>2. stranded \union (Branch[Here] \ Branch[disk.best]) \subseteq stranded'
      BY <1>1, <3>1 DEF ToldInVain
    <3> QED
      BY <2>2, <3>2, ReasonsMoved DEF Stands
  <2>4. /\ LocatorSound(mapWallet, bestblock)
        /\ \/ Follows(mapWallet, disk.best, misplaced, unflagged)
           \/ ~registered /\ bestblock # Nil /\ Follows(mapWallet, bestblock, misplaced, unflagged)
    BY <2>2 DEF Stands
  <2> QED
    BY <1>1, <2>1, <2>3, <2>4 DEF Stands
<1>8. FollowInv'
  BY <1>7 DEF FollowInv
<1> QED
  BY <1>5, <1>6, <1>8 DEF WalletInv

\* A crash forgets the switch and keeps what the wallet wrote.
LEMMA CrashKeeps ==
    ASSUME ChainKept, WalletInv, WalletCrash
    PROVE  WalletInv'
<1> DEFINE b == NextOnPath(tip, target)
<1>1. /\ pc' = "down" /\ disk' = disk /\ intact' = intact
      /\ \/ UNCHANGED mapWallet
         \/ /\ registered /\ pc = "switch" /\ tip \in Branch[target] /\ tip # target
            /\ mapWallet' \in TornConnect(mapWallet, b)
      /\ registered' = FALSE /\ reaccepted' = FALSE
      /\ IF mapWallet' = mapWallet
         THEN /\ misplaced' = misplaced
              /\ stranded' = IF registered /\ pc = "switch"
                             THEN stranded \union ToldInVain ELSE stranded
         ELSE /\ misplaced' = misplaced \union SharedWith(b)
              /\ stranded' = stranded \union ToldInVain \union {b}
      /\ UNCHANGED <<bestblock, backup, unflagged, restored>>
  BY DEF WalletCrash, Crash
<1>2. WalletTypes /\ BackupInv /\ RollBackInv /\ FollowInv
      /\ registered \in BOOLEAN /\ bestblock \in Blocks \union {Nil} /\ mapWallet \in GoodWallets
  BY DEF WalletInv, WalletTypes
<1>3. ASSUME mapWallet' # mapWallet
      PROVE  /\ registered /\ pc = "switch" /\ b \in Blocks
             /\ mapWallet' \in ToldOf(mapWallet, TxsOf(b))
             /\ \A T : TxsOf(b) \subseteq T /\ Backed(mapWallet, T) => Backed(mapWallet', T)
  <2>1. registered /\ pc = "switch" /\ tip \in Branch[target] /\ tip # target
        /\ mapWallet' \in TornConnect(mapWallet, b)
    BY <1>1, <1>3
  <2>2. b \in Blocks
    BY <2>1, ChainFacts, NextOnPathExists, OwnBranch
  <2> HIDE DEF b
  <2> QED
    BY <1>2, <2>1, <2>2, TornConnectTold
<1> HIDE DEF b
<1>4. mapWallet' \in Grown(mapWallet)
  <2>1. mapWallet \in Grown(mapWallet)
    BY <1>2 DEF Grown
  <2> QED
    BY <1>3, <2>1 DEF Grown, ToldOf, Told
<1>5. WalletTypes' /\ BackupInv' /\ Blind' = Blind
  <2>1. BackupInv' /\ Blind' = Blind
    BY <1>1, <1>2, BackupKept
  <2>2. ToldInVain \subseteq Blocks /\ SharedWith(b) \subseteq Blocks
    BY ChainFacts, OwnBranch DEF ToldInVain, SharedWith
  <2>3. misplaced' \subseteq Blocks /\ stranded' \subseteq Blocks
    BY <1>1, <1>2, <1>3, <2>2 DEF WalletTypes
  <2>4. WalletTypes'
    BY <1>1, <1>2, <1>4, <2>3 DEF WalletTypes, Grown
  <2> QED
    BY <2>1, <2>4
<1>6. RollBackInv'
  BY <1>1 DEF RollBackInv
<1>7. ASSUME intact', ~Blind'
      PROVE  Stands(mapWallet', bestblock', registered', Here', disk'.best, misplaced', unflagged', stranded')
  <2>1. intact /\ Here' = disk.best /\ disk.best \in Blocks /\ ValidChain(disk.best)
    BY <1>1, <1>7, ChainFacts DEF Here
  <2>2. Stands(mapWallet, bestblock, registered, Here, disk.best, misplaced, unflagged, stranded)
    BY <1>2, <1>5, <1>7, <2>1 DEF FollowInv
  <2>3. LocatorSound(mapWallet', bestblock')
    BY <1>1, <1>2, <1>4, <2>2, LocatorGrows DEF Stands, Grown
  <2>4. CASE mapWallet' = mapWallet
    <3>1. stranded \union (Branch[Here] \ Branch[disk.best]) \subseteq stranded'
      BY <1>1, <2>4 DEF ToldInVain, Here
    <3>2. Backed(mapWallet, Reasons(disk.best, stranded'))
      BY <2>2, <3>1, ReasonsMoved DEF Stands
    <3>3. misplaced' = misplaced
      BY <1>1, <2>4
    <3>4. \/ Follows(mapWallet, disk.best, misplaced, unflagged)
          \/ bestblock # Nil /\ Follows(mapWallet, bestblock, misplaced, unflagged)
      BY <2>2 DEF Stands
    <3> QED
      BY <1>1, <2>1, <2>3, <2>4, <3>2, <3>3, <3>4 DEF Stands
  <2>5. CASE mapWallet' # mapWallet
    <3>1. /\ registered /\ pc = "switch" /\ b \in Blocks /\ Here = tip
          /\ Told(mapWallet, mapWallet', TxsOf(b))
          /\ \A T : TxsOf(b) \subseteq T /\ Backed(mapWallet, T) => Backed(mapWallet', T)
      BY <1>3, <2>5 DEF ToldOf, Here
    <3>2. /\ misplaced' = misplaced \union SharedWith(b)
          /\ stranded' = stranded \union ToldInVain \union {b}
      BY <1>1, <2>5
    <3>3. Follows(mapWallet, disk.best, misplaced, unflagged) /\ Backed(mapWallet, Reasons(tip, stranded))
      BY <2>2, <3>1 DEF Stands
    <3>4. Follows(mapWallet', disk.best, misplaced', unflagged)
      BY <2>1, <3>1, <3>2, <3>3, ToldFollows DEF SharedWith
    <3>5. Backed(mapWallet, Reasons(disk.best, stranded'))
      BY <3>2, <3>3, ReasonsMoved DEF ToldInVain
    <3>6. TxsOf(b) \subseteq Reasons(disk.best, stranded')
      BY <3>2 DEF Reasons, TxsIn
    <3>7. Backed(mapWallet', Reasons(disk.best, stranded'))
      BY <3>1, <3>5, <3>6
    <3> QED
      BY <1>1, <2>1, <2>3, <3>4, <3>7 DEF Stands
  <2> QED
    BY <2>4, <2>5
<1>8. FollowInv'
  BY <1>7 DEF FollowInv
<1> QED
  BY <1>5, <1>6, <1>8 DEF WalletInv

\* The start, with or without a roll-back that the wallet is not told of.
LEMMA StartKeeps ==
    ASSUME ChainKept, WalletInv, WalletStart
    PROVE  WalletInv'
<1>1. /\ pc = "down" /\ UNCHANGED walletVars /\ intact' = intact /\ disk' = disk
      /\ \/ pc' = "idle"
         \/ \E b \in Blocks : /\ b \in Branch[disk.best] \ {disk.best}
                              /\ SetBestChain(disk, disk.best, b)
  BY DEF WalletStart, Start, StartAndRollBack, Load
<1>2. ~registered
  BY <1>1 DEF WalletInv, RollBackInv
<1>3. Here' = Here /\ disk'.best = disk.best
  BY <1>1, <1>2 DEF Here, walletVars
<1>4. FollowInv'
  BY <1>1, <1>3, NothingTold DEF WalletInv
<1>5. WalletTypes' /\ BackupInv'
  BY <1>1, BackupKept DEF WalletInv, WalletTypes, walletVars, historyVars
<1>6. RollBackInv'
  <2>1. CASE pc' = "idle"
    BY <2>1 DEF RollBackInv
  <2>2. ASSUME NEW b \in Blocks, b \in Branch[disk.best] \ {disk.best}, SetBestChain(disk, disk.best, b)
        PROVE  RollBackInv'
    <3>1. /\ pc' = "switch" /\ pindexNew' = b /\ secondary' = FALSE
          /\ tip' = disk.best /\ target' = FirstTarget(b, disk.best)
      BY <2>2 DEF SetBestChain, Begin
    <3>2. target' = b
      BY <2>2, <3>1, ChainFacts, RollBackTarget
    <3> QED
      BY <1>1, <2>2, <3>1, <3>2 DEF RollBackInv
  <2> QED
    BY <1>1, <2>1, <2>2
<1> QED
  BY <1>4, <1>5, <1>6 DEF WalletInv

-----------------------------------------------------------------------------
(***************************************************************************)
(* The actions of the wallet.                                              *)
(***************************************************************************)

\* A transaction that is not in the best chain changes nothing of what the
\* wallet has from the chain.
LEMMA LooseStands ==
    ASSUME ChainKept, WalletInv, intact, ~Blind, registered, pc = "idle",
           NEW t \in Txs, t \notin TxsOnBranch(disk.best),
           NEW v, Told(mapWallet, v, {t}), NEW r \in BOOLEAN,
           Backed(mapWallet, Reasons(disk.best, stranded)) => Backed(v, Reasons(disk.best, stranded))
    PROVE  Stands(v, bestblock, r, disk.best, disk.best, misplaced, unflagged, stranded)
<1>1. Stands(mapWallet, bestblock, registered, disk.best, disk.best, misplaced, unflagged, stranded)
  BY DEF WalletInv, FollowInv, Here
<1>2. \A p \in Txs : mapWallet[p] # Nil => v[p] # Nil
  BY DEF Told
<1>3. bestblock \in Blocks \union {Nil} /\ disk.best \in Blocks /\ ValidChain(disk.best)
  BY ChainFacts DEF WalletInv, WalletTypes
<1>4. LocatorSound(v, bestblock)
  BY <1>1, <1>2, <1>3, LocatorGrows DEF Stands
<1>5. Follows(v, disk.best, misplaced, unflagged)
  <2>1. Follows(mapWallet, disk.best, misplaced, unflagged)
    BY <1>1 DEF Stands
  <2>2. Follows(v, disk.best, misplaced \union {c \in Branch[disk.best] : TxsOf(c) \intersect {t} # {}}, unflagged)
    BY <1>3, <2>1, ToldFollows
  <2>3. {c \in Branch[disk.best] : TxsOf(c) \intersect {t} # {}} = {}
    BY DEF TxsOnBranch
  <2> QED
    BY <2>2, <2>3, FollowsLess
<1> QED
  BY <1>1, <1>4, <1>5 DEF Stands

LEMMA ReceiveTxKeeps ==
    ASSUME ChainKept, WalletInv, NEW t \in Txs, ReceiveTx(t)
    PROVE  WalletInv'
<1>1. /\ registered /\ pc = "idle" /\ pc' = pc /\ intact' = intact /\ disk' = disk
      /\ disk.pos[t] = Nil /\ t \notin Generated
      /\ mapWallet' = Sync(mapWallet, t, Nil, TRUE)
      /\ UNCHANGED <<bestblock, registered, reaccepted, backup, misplaced, unflagged, stranded, restored>>
  BY DEF ReceiveTx, AcceptToMemoryPool, Acceptable, historyVars
<1>2. WalletTypes /\ BackupInv /\ mapWallet \in GoodWallets /\ registered' \in BOOLEAN
  BY <1>1 DEF WalletInv, WalletTypes
<1>3. Place(t, Nil)
  BY DEF Place
<1>4. mapWallet' \in GoodWallets /\ Told(mapWallet, mapWallet', {t})
  BY <1>1, <1>2, <1>3, SyncBecomes, BecomesTold
<1>5. BackupInv' /\ Blind' = Blind
  BY <1>1, <1>2, BackupKept
<1>6. WalletTypes' /\ RollBackInv'
  BY <1>1, <1>2, <1>4 DEF WalletTypes, RollBackInv
<1>7. ASSUME intact', ~Blind'
      PROVE  Stands(mapWallet', bestblock', registered', Here', disk'.best, misplaced', unflagged', stranded')
  <2>1. Here' = disk.best /\ intact /\ ~Blind
    BY <1>1, <1>5, <1>7 DEF Here
  <2>2. t \notin TxsOnBranch(disk.best)
    BY <1>1, <2>1, ChainFacts, OwnBranch, NilAssumption DEF ViewMatches, TxsOnBranch
  <2>3. ASSUME NEW T, Backed(mapWallet, T) PROVE Backed(mapWallet', T)
    <3>1. t \notin CoinStakes
      BY <1>1 DEF Generated
    <3>2. PICK f \in BOOLEAN : f = TRUE
      OBVIOUS
    <3>3. Backed(Sync(mapWallet, t, Nil, f), T)
      BY <1>2, <1>3, <2>3, <3>1, TellBacked
    <3> QED
      BY <1>1, <3>2, <3>3
  <2> QED
    BY <1>1, <1>2, <1>4, <2>1, <2>2, <2>3, LooseStands
<1>8. FollowInv'
  BY <1>7 DEF FollowInv
<1> QED
  BY <1>5, <1>6, <1>8 DEF WalletInv

\* The transaction of SendMoney spends coins of mine, so it would be known if
\* the best chain had it.
LEMMA NewTx ==
    ASSUME ChainKept, WalletInv, pc = "idle", registered, NEW t \in Own, mapWallet[t] = Nil,
           \A o \in vin[t] : Available(mapWallet, o)
    PROVE  /\ t \in Txs /\ t \notin CoinStakes
           /\ [Seen(Nil) EXCEPT !.vtxPrev = Supporting(mapWallet, t)] \in WalletTx
           /\ [Seen(Nil) EXCEPT !.vtxPrev = Supporting(mapWallet, t)].hashBlock = Nil
           /\ [Seen(Nil) EXCEPT !.vtxPrev = Supporting(mapWallet, t)].vfSpent = {}
           /\ intact /\ ~Blind => t \notin TxsOnBranch(disk.best)
<1>1. t \in Txs /\ t \notin CoinStakes /\ vin[t] # {}
  BY WalletAssumption, BoundsAssumption DEF Generated
<1>2. \A p \in Txs : BlockOf(mapWallet, p) \in Blocks \union {Nil}
  <2>1. mapWallet \in [Txs -> WalletTx \union {Nil}]
    BY DEF WalletInv, WalletTypes, GoodWallets
  <2> QED
    BY <2>1, ChainFacts DEF BlockOf, WalletTx
<1>3. Supporting(mapWallet, t) \subseteq Txs \X (Blocks \union {Nil})
  BY <1>2 DEF Supporting
<1>4. ASSUME intact, ~Blind, t \in TxsOnBranch(disk.best) PROVE FALSE
  <2>1. Knows(mapWallet, TxsOnBranch(disk.best))
    BY <1>4 DEF WalletInv, FollowInv, Stands, Follows, FollowsTxs
  <2>2. IsMineOrSpends(t)
    BY <1>1 DEF Available, IsMineOrSpends
  <2> QED
    BY <1>4, <2>1, <2>2 DEF Knows
<1> QED
  BY <1>1, <1>3, <1>4 DEF Seen, WalletTx

LEMMA CommitTransactionKeeps ==
    ASSUME ChainKept, WalletInv, NEW t \in Txs, CommitTransaction(t)
    PROVE  WalletInv'
<1> DEFINE wtx == [Seen(Nil) EXCEPT !.vtxPrev = Supporting(mapWallet, t)]
<1>1. /\ registered /\ pc = "idle" /\ pc' = pc /\ intact' = intact /\ disk' = disk
      /\ t \in Own /\ mapWallet[t] = Nil /\ \A o \in vin[t] : Available(mapWallet, o)
      /\ mapWallet' = AddToWallet(mapWallet, t, wtx)
      /\ UNCHANGED <<bestblock, registered, reaccepted, backup, misplaced, unflagged, stranded, restored>>
  BY DEF CommitTransaction, historyVars
<1>2. WalletTypes /\ BackupInv /\ mapWallet \in GoodWallets /\ registered' \in BOOLEAN
  BY <1>1 DEF WalletInv, WalletTypes
<1>3. /\ t \notin CoinStakes /\ wtx \in WalletTx /\ wtx.hashBlock = Nil /\ wtx.vfSpent = {}
      /\ intact /\ ~Blind => t \notin TxsOnBranch(disk.best)
  BY <1>1, NewTx
<1> HIDE DEF wtx
<1>4. /\ Becomes(mapWallet, mapWallet', t, Nil) /\ mapWallet'[t] # Nil /\ mapWallet' \in GoodWallets
  BY <1>1, <1>2, <1>3, AddBecomes DEF Place
<1>5. Told(mapWallet, mapWallet', {t})
  BY <1>4, BecomesTold
<1>6. BackupInv' /\ Blind' = Blind
  BY <1>1, <1>2, BackupKept
<1>7. WalletTypes' /\ RollBackInv'
  BY <1>1, <1>2, <1>4 DEF WalletTypes, RollBackInv
<1>8. ASSUME intact', ~Blind'
      PROVE  Stands(mapWallet', bestblock', registered', Here', disk'.best, misplaced', unflagged', stranded')
  <2>1. Here' = disk.best /\ intact /\ ~Blind
    BY <1>1, <1>6, <1>8 DEF Here
  <2>2. \A T : Backed(mapWallet, T) => Backed(mapWallet', T)
    BY <1>3, <1>4, BecomesBacked
  <2> QED
    BY <1>1, <1>2, <1>3, <1>5, <2>1, <2>2, LooseStands
<1>9. FollowInv'
  BY <1>8 DEF FollowInv
<1> QED
  BY <1>6, <1>7, <1>9 DEF WalletInv

\* A crash between the record and the flags leaves less to take back, not more.
LEMMA CrashInCommitKeeps ==
    ASSUME ChainKept, WalletInv, NEW t \in Txs, CrashInCommit(t)
    PROVE  WalletInv'
<1> DEFINE wtx == [Seen(Nil) EXCEPT !.vtxPrev = Supporting(mapWallet, t)]
<1>1. /\ registered /\ pc = "idle" /\ pc' = "down" /\ intact' = intact /\ disk' = disk
      /\ t \in Own /\ mapWallet[t] = Nil /\ \A o \in vin[t] : Available(mapWallet, o)
      /\ mapWallet' = Record(mapWallet, t, wtx)
      /\ registered' = FALSE /\ reaccepted' = FALSE
      /\ UNCHANGED <<bestblock, backup, misplaced, unflagged, stranded, restored>>
  BY DEF CrashInCommit, Crash, historyVars
<1>2. WalletTypes /\ BackupInv /\ mapWallet \in GoodWallets /\ registered' \in BOOLEAN
  BY <1>1 DEF WalletInv, WalletTypes
<1>3. /\ t \notin CoinStakes /\ wtx \in WalletTx /\ wtx.hashBlock = Nil /\ wtx.vfSpent = {}
      /\ intact /\ ~Blind => t \notin TxsOnBranch(disk.best)
  BY <1>1, NewTx
<1> HIDE DEF wtx
<1>4. /\ mapWallet' \in [Txs -> WalletTx \union {Nil}] /\ mapWallet'[t] = wtx
      /\ \A p \in Txs \ {t} : mapWallet'[p] = mapWallet[p]
  BY <1>1, <1>2, <1>3, RecordBecomes DEF Place
<1>5. mapWallet' \in GoodWallets
  BY <1>2, <1>3, <1>4 DEF GoodWallets
<1>6. Told(mapWallet, mapWallet', {t})
  BY <1>1, <1>4 DEF Told
<1>7. BackupInv' /\ Blind' = Blind
  BY <1>1, <1>2, BackupKept
<1>8. WalletTypes' /\ RollBackInv'
  BY <1>1, <1>2, <1>5 DEF WalletTypes, RollBackInv
<1>9. ASSUME intact', ~Blind'
      PROVE  Stands(mapWallet', bestblock', registered', Here', disk'.best, misplaced', unflagged', stranded')
  <2>1. Here' = disk.best /\ intact /\ ~Blind
    BY <1>1, <1>7, <1>9 DEF Here
  <2>2. \A T : Backed(mapWallet, T) => Backed(mapWallet', T)
    <3>1. \A o \in Mine : o[1] \in Txs
      BY MinePays
    <3> QED
      BY <1>1, <1>3, <1>4, <3>1 DEF Backed
  <2> QED
    BY <1>1, <1>2, <1>3, <1>6, <2>1, <2>2, LooseStands
<1>10. FollowInv'
  BY <1>9 DEF FollowInv
<1> QED
  BY <1>7, <1>8, <1>10 DEF WalletInv

\* The start of the wallet: the rescan brings it from its locator to the best
\* block, whatever it was told before.
LEMMA RegisterKeeps ==
    ASSUME ChainKept, WalletInv, RegisterWallet
    PROVE  WalletInv'
<1> DEFINE scans == bestblock # Nil /\ nHeight[RescanFrom] < nHeight[pindexBest]
           scanned == {RescanFrom} \union (Branch[pindexBest] \ Branch[RescanFrom])
<1>1. /\ pc = "idle" /\ pc' = pc /\ ~registered /\ registered' = TRUE
      /\ intact' = intact /\ disk' = disk
      /\ mapWallet' = IF ToScan = {} THEN mapWallet ELSE Rescanned(mapWallet, RescanFrom, TRUE)
      /\ misplaced' = misplaced \ ToScan /\ unflagged' = unflagged \ ToScan
      /\ UNCHANGED <<bestblock, reaccepted, backup, stranded, restored>>
  BY DEF RegisterWallet, vars
<1>2. WalletTypes /\ BackupInv /\ mapWallet \in GoodWallets /\ bestblock \in Blocks \union {Nil}
  BY DEF WalletInv, WalletTypes
<1>3. bestblock # Nil => RescanFrom \in Branch[bestblock] /\ RescanFrom \in Blocks
  BY <1>2, RescanFromPlace, OwnBranch
<1>4. /\ scans => ToScan = scanned /\ mapWallet' = Rescanned(mapWallet, RescanFrom, TRUE)
      /\ ~scans => ToScan = {} /\ mapWallet' = mapWallet
  BY <1>1 DEF ToScan
<1>5. mapWallet' \in Grown(mapWallet)
  <2>1. mapWallet \in Grown(mapWallet)
    BY <1>2 DEF Grown
  <2>2. scans => RescanFrom \in Blocks
    BY <1>3
  <2>3. scans => Rescanned(mapWallet, RescanFrom, TRUE) \in Grown(mapWallet)
    <3>1. PICK f \in BOOLEAN : f = TRUE
      OBVIOUS
    <3>2. scans => Rescanned(mapWallet, RescanFrom, f) \in Grown(mapWallet)
      BY <1>2, <2>2, ChainFacts, RescanGrows
    <3> QED
      BY <3>1, <3>2
  <2> HIDE DEF scans
  <2> QED
    BY <1>4, <2>1, <2>3
<1>6. BackupInv' /\ Blind' = Blind
  BY <1>1, <1>2, BackupKept
<1>7. WalletTypes' /\ RollBackInv'
  BY <1>1, <1>2, <1>5 DEF WalletTypes, RollBackInv, Grown
<1>8. ASSUME intact', ~Blind'
      PROVE  Stands(mapWallet', bestblock', registered', Here', disk'.best, misplaced', unflagged', stranded')
  <2>1. intact /\ ~Blind /\ Here = disk.best /\ Here' = disk.best
    BY <1>1, <1>6, <1>8 DEF Here
  <2>2. Stands(mapWallet, bestblock, registered, disk.best, disk.best, misplaced, unflagged, stranded)
    BY <2>1 DEF WalletInv, FollowInv
  <2>3. /\ pindexBest = disk.best /\ disk.best \in Blocks /\ ValidChain(disk.best)
        /\ pnext = SuccessorsOf(disk.best)
    BY <1>1, <2>1, ChainFacts
  <2>4. bestblock # Nil => RescanFrom \in Branch[disk.best] /\ ValidChain(bestblock)
    BY <1>2, <2>2, <2>3, RescanFromPlace DEF Stands, LocatorSound
  <2>5. LocatorSound(mapWallet', bestblock)
    BY <1>2, <1>5, <2>2, LocatorGrows DEF Stands, Grown
  <2>6. Follows(mapWallet', disk.best, misplaced', unflagged')
    <3>1. \/ Follows(mapWallet, disk.best, misplaced, unflagged)
          \/ bestblock # Nil /\ Follows(mapWallet, bestblock, misplaced, unflagged)
      BY <2>2 DEF Stands
    <3>2. bestblock # Nil => Follows(mapWallet, RescanFrom, misplaced, unflagged)
      BY <1>2, <1>3, <2>3, <2>4, <3>1, FollowsBelow
    <3>3. CASE scans
      <4>1. Follows(Rescanned(mapWallet, RescanFrom, TRUE), pindexBest, misplaced \ scanned, unflagged \ scanned)
        BY <1>2, <2>3, <2>4, <3>2, <3>3, RescanFollows
      <4> QED
        BY <1>1, <1>4, <2>3, <3>3, <4>1
    <3>4. CASE ~scans
      <4>1. mapWallet' = mapWallet /\ misplaced' = misplaced /\ unflagged' = unflagged
        BY <1>1, <1>4, <3>4
      <4>2. bestblock # Nil => RescanFrom = disk.best
        BY <1>3, <2>3, <2>4, <3>4, LowerOnBranch
      <4> QED
        BY <3>1, <3>2, <4>1, <4>2
    <3> QED
      BY <3>3, <3>4
  <2>7. Backed(mapWallet', Reasons(disk.best, stranded))
    <3>1. Backed(mapWallet, Reasons(disk.best, stranded)) /\ TxsOnBranch(disk.best) \subseteq Reasons(disk.best, stranded)
      BY <2>2 DEF Stands, Reasons
    <3>2. PICK f \in BOOLEAN : f = TRUE
      OBVIOUS
    <3>3. scans => Backed(Rescanned(mapWallet, RescanFrom, f), Reasons(disk.best, stranded))
      BY <1>2, <2>3, <2>4, <3>1, RescanBacked
    <3> HIDE DEF scans
    <3> QED
      BY <1>4, <3>1, <3>2, <3>3
  <2> QED
    BY <1>1, <2>1, <2>5, <2>6, <2>7 DEF Stands
<1>9. FollowInv'
  BY <1>8 DEF FollowInv
<1> QED
  BY <1>6, <1>7, <1>9 DEF WalletInv

\* The index that ReacceptWalletTransactions reads beside a switch is, for the
\* transactions of mine, the one of the block the wallet stands at: it waits
\* for the records the open transaction has changed.
LEMMA ReacceptKeeps ==
    ASSUME ChainKept, WalletInv, ReacceptWalletTransactions
    PROVE  WalletInv'
<1>1. /\ registered
      /\ pc = "switch" => \A t \in Txs : mapWallet[t] # Nil =>
            /\ txn.pos[t] = disk.pos[t]
            /\ \A n \in 0 .. 2 : txn.spent[<<t, n>>] = disk.spent[<<t, n>>]
      /\ mapWallet' = TakeOver(mapWallet) /\ reaccepted' = TRUE
      /\ unflagged' = unflagged \ TakenOver
      /\ UNCHANGED <<disk, pc, tip, secondary, target, pindexNew, intact, bestblock, registered, backup,
                     misplaced, stranded, restored>>
  BY DEF ReacceptWalletTransactions, switchVars
<1>2. WalletTypes /\ BackupInv /\ RollBackInv /\ mapWallet \in GoodWallets
      /\ bestblock \in Blocks \union {Nil}
  BY DEF WalletInv, WalletTypes
<1>3. mapWallet' \in Grown(mapWallet)
  BY <1>1, <1>2, ChainFacts, TakeOverGrows
<1>4. BackupInv' /\ Blind' = Blind
  BY <1>1, <1>2, BackupKept
<1>5. WalletTypes' /\ RollBackInv'
  BY <1>1, <1>2, <1>3 DEF WalletTypes, RollBackInv, Grown
<1>6. ASSUME intact', ~Blind'
      PROVE  Stands(mapWallet', bestblock', registered', Here', disk'.best, misplaced', unflagged', stranded')
  <2>1. intact /\ ~Blind /\ Here' = Here /\ pc # "down"
    BY <1>1, <1>2, <1>4, <1>6 DEF Here, RollBackInv
  <2>2. Stands(mapWallet, bestblock, registered, Here, disk.best, misplaced, unflagged, stranded)
    BY <2>1 DEF WalletInv, FollowInv
  <2>3. LocatorSound(mapWallet', bestblock)
    BY <1>2, <1>3, <2>2, LocatorGrows DEF Stands, Grown
  <2>4. /\ Follows(mapWallet, Here, misplaced, unflagged)
        /\ Follows(mapWallet, disk.best, misplaced, unflagged)
        /\ Backed(mapWallet, Reasons(Here, stranded))
    BY <1>1, <2>2 DEF Stands
  <2>5. Here \in Blocks /\ disk.best \in Blocks /\ pindexBest \in Blocks
        /\ pnext = SuccessorsOf(disk.best)
    BY <2>1, ChainFacts DEF Here
  <2>6. Reads(mapWallet, disk.best)
    <3>1. ValidChain(disk.best) /\ ViewMatches(disk, disk.best)
      BY <2>1, ChainFacts
    <3> QED
      BY <2>5, <3>1, ReadsView
  <2>7. Reads(mapWallet, Here)
    <3>1. CASE pc = "switch"
      <4>1. Here = tip /\ ValidChain(tip) /\ ViewMatches(txn, tip) /\ tip \in Blocks
        BY <1>1, <2>1, <3>1, ChainFacts DEF Here
      <4> QED
        BY <1>1, <3>1, <4>1, ReadsView
    <3>2. CASE pc # "switch"
      <4>1. Here = disk.best
        BY <3>2 DEF Here
      <4> QED
        BY <2>6, <4>1
    <3> QED
      BY <3>1, <3>2
  <2>8. Knows(mapWallet, TxsOnBranch(disk.best)) /\ Knows(mapWallet, TxsOnBranch(Here))
    BY <2>4 DEF Follows, FollowsTxs
  <2>9. \A p \in Txs : /\ mapWallet'[p] = Nil <=> mapWallet[p] = Nil
                       /\ mapWallet[p] # Nil =>
                             /\ mapWallet'[p].hashBlock = mapWallet[p].hashBlock
                             /\ mapWallet[p].vfSpent \union IndexSpent(mapWallet, p) \subseteq mapWallet'[p].vfSpent
                             /\ mapWallet'[p].vfSpent \subseteq mapWallet[p].vfSpent \union DiskSpent(p)
    BY <1>1, <1>2, <2>5, <2>8, TakeOverFlags, Zenon
  <2>10. \A c \in TakenOver : \A t \in TxsOf(c) : \A o \in vin[t] \intersect Mine :
            mapWallet[o[1]] # Nil => DiskSpent(o[1]) \subseteq mapWallet'[o[1]].vfSpent
    <3> SUFFICES ASSUME NEW c \in TakenOver, NEW t \in TxsOf(c), NEW o \in vin[t] \intersect Mine,
                        mapWallet[o[1]] # Nil
                 PROVE  DiskSpent(o[1]) \subseteq mapWallet'[o[1]].vfSpent
      OBVIOUS
    <3>1. Examined(mapWallet, o[1]) /\ o[1] \in Txs
      BY MinePays DEF TakenOver
    <3>2. IndexSpent(mapWallet, o[1]) = DiskSpent(o[1])
      BY <1>2, <3>1, FlaggedFlags
    <3> QED
      BY <2>9, <3>1, <3>2
  <2>11. ASSUME NEW top \in Blocks, Reads(mapWallet, top), Follows(mapWallet, top, misplaced, unflagged)
         PROVE  Follows(mapWallet', top, misplaced', unflagged')
    <3>1. \A p \in Txs : /\ mapWallet'[p] = Nil <=> mapWallet[p] = Nil
                         /\ mapWallet[p] # Nil => mapWallet'[p].hashBlock = mapWallet[p].hashBlock
      BY <2>9
    <3>2. \A p \in Txs : mapWallet[p] # Nil => mapWallet[p].vfSpent \subseteq mapWallet'[p].vfSpent
      BY <2>9
    <3>3. Follows(mapWallet', top, misplaced, unflagged \ TakenOver)
      BY <2>10, <2>11, <3>1, <3>2, IndexTold
    <3> QED
      BY <1>1, <3>3
  <2>12. Backed(mapWallet', Reasons(Here, stranded))
    <3>1. TxsOnBranch(Here) \subseteq Reasons(Here, stranded)
      BY DEF Reasons
    <3>2. \A p \in Txs : mapWallet'[p] = Nil <=> mapWallet[p] = Nil
      BY <2>9
    <3>3. \A o \in Mine : mapWallet[o[1]] # Nil /\ o[2] \in mapWallet'[o[1]].vfSpent =>
             o[2] \in DiskSpent(o[1]) \/ o[2] \in mapWallet[o[1]].vfSpent
      BY <2>9, MinePays
    <3> QED
      BY <2>4, <2>5, <2>7, <2>8, <3>1, <3>2, <3>3, IndexBacked
  <2> QED
    BY <1>1, <2>1, <2>3, <2>4, <2>5, <2>6, <2>7, <2>11, <2>12 DEF Stands
<1>7. FollowInv'
  BY <1>6 DEF FollowInv
<1> QED
  BY <1>4, <1>5, <1>7 DEF WalletInv

\* repairwallet puts the flags right, whatever they were.
LEMMA FixSpentKeeps ==
    ASSUME ChainKept, WalletInv, FixSpentCoins
    PROVE  WalletInv'
<1>1. /\ pc = "idle" /\ registered
      /\ mapWallet' = [t \in Txs |->
            IF mapWallet[t] = Nil \/ disk.pos[t] = Nil THEN mapWallet[t]
            ELSE [mapWallet[t] EXCEPT !.vfSpent =
                    (mapWallet[t].vfSpent \ MineOf(t)) \union {n \in MineOf(t) : disk.spent[<<t, n>>] # Nil}]]
      /\ unflagged' = unflagged \ Branch[pindexBest]
      /\ stranded' = {b \in stranded : StakesLooseCoin(b)}
      /\ UNCHANGED <<disk, pc, intact, bestblock, registered, reaccepted, backup, misplaced, restored>>
  BY DEF FixSpentCoins, vars
<1>2. WalletTypes /\ BackupInv /\ RollBackInv /\ mapWallet \in GoodWallets
      /\ bestblock \in Blocks \union {Nil}
  BY DEF WalletInv, WalletTypes
<1>3. mapWallet \in [Txs -> WalletTx \union {Nil}] /\ \A p \in Txs : mapWallet[p] # Nil =>
         mapWallet[p].vfSpent \subseteq MineOf(p) /\ (mapWallet[p].hashBlock # Nil => p \in TxsOf(mapWallet[p].hashBlock))
  BY <1>2 DEF GoodWallets
<1>4. ASSUME NEW p \in Txs, mapWallet[p] # Nil
      PROVE  /\ mapWallet'[p] \in WalletTx /\ mapWallet'[p] # Nil
             /\ mapWallet'[p].hashBlock = mapWallet[p].hashBlock
             /\ mapWallet'[p].vfSpent \subseteq MineOf(p)
             /\ DiskSpent(p) \subseteq mapWallet'[p].vfSpent
             /\ \/ disk.pos[p] = Nil /\ mapWallet'[p].vfSpent = mapWallet[p].vfSpent
                \/ mapWallet'[p].vfSpent = DiskSpent(p)
  <2>1. mapWallet[p] \in WalletTx /\ mapWallet[p].vfSpent \subseteq MineOf(p) /\ MineOf(p) \subseteq 0 .. 2
    BY <1>3, <1>4 DEF MineOf
  <2>2. CASE disk.pos[p] = Nil
    <3>1. mapWallet'[p] = mapWallet[p]
      BY <1>1, <2>2
    <3>2. DiskSpent(p) = {}
      BY <2>2 DEF DiskSpent
    <3> QED
      BY <1>4, <2>1, <2>2, <3>1, <3>2
  <2>3. CASE disk.pos[p] # Nil
    <3>1. DiskSpent(p) = {n \in MineOf(p) : disk.spent[<<p, n>>] # Nil}
      BY <2>3 DEF DiskSpent
    <3>2. mapWallet'[p] = [mapWallet[p] EXCEPT !.vfSpent = (mapWallet[p].vfSpent \ MineOf(p)) \union DiskSpent(p)]
      BY <1>1, <1>4, <2>3, <3>1
    <3>3. (mapWallet[p].vfSpent \ MineOf(p)) \union DiskSpent(p) = DiskSpent(p) /\ DiskSpent(p) \subseteq MineOf(p)
      BY <2>1, <3>1
    <3>4. mapWallet'[p] = [mapWallet[p] EXCEPT !.vfSpent = DiskSpent(p)]
      BY <3>2, <3>3, Zenon
    <3>5. /\ mapWallet'[p] \in WalletTx /\ mapWallet'[p].vfSpent = DiskSpent(p)
          /\ mapWallet'[p].hashBlock = mapWallet[p].hashBlock
      BY <2>1, <3>3, <3>4 DEF WalletTx
    <3> QED
      BY <3>3, <3>5, WalletNilAssumption
  <2> QED
    BY <2>2, <2>3
<1>5. \A p \in Txs : mapWallet'[p] = Nil <=> mapWallet[p] = Nil
  BY <1>1, <1>4
<1>6. mapWallet' \in GoodWallets
  <2>1. \A p \in Txs : mapWallet'[p] \in WalletTx \union {Nil}
    BY <1>4, <1>5
  <2>2. mapWallet' \in [Txs -> WalletTx \union {Nil}]
    BY <1>1, <2>1
  <2> SUFFICES ASSUME NEW p \in Txs, mapWallet'[p] # Nil
               PROVE  /\ mapWallet'[p].vfSpent \subseteq MineOf(p)
                      /\ mapWallet'[p].hashBlock # Nil => p \in TxsOf(mapWallet'[p].hashBlock)
    BY <2>2 DEF GoodWallets
  <2> QED
    BY <1>3, <1>4, <1>5
<1>7. BackupInv' /\ Blind' = Blind
  BY <1>1, <1>2, BackupKept
<1>8. WalletTypes' /\ RollBackInv'
  BY <1>1, <1>2, <1>6 DEF WalletTypes, RollBackInv
<1>9. ASSUME intact', ~Blind'
      PROVE  Stands(mapWallet', bestblock', registered', Here', disk'.best, misplaced', unflagged', stranded')
  <2>1. intact /\ ~Blind /\ Here = disk.best /\ Here' = disk.best /\ pindexBest = disk.best
    BY <1>1, <1>7, <1>9, ChainFacts DEF Here
  <2>2. Stands(mapWallet, bestblock, registered, disk.best, disk.best, misplaced, unflagged, stranded)
    BY <2>1 DEF WalletInv, FollowInv
  <2>3. LocatorSound(mapWallet', bestblock)
    BY <1>2, <1>5, <2>2, LocatorGrows DEF Stands
  <2>4. Follows(mapWallet, disk.best, misplaced, unflagged) /\ Backed(mapWallet, Reasons(disk.best, stranded))
    BY <1>1, <2>2 DEF Stands
  <2>5. disk.best \in Blocks /\ ValidChain(disk.best) /\ ViewMatches(disk, disk.best)
    BY <2>1, ChainFacts
  <2>6. Reads(mapWallet, disk.best)
    BY <2>5, ReadsView
  <2>7. Follows(mapWallet', disk.best, misplaced', unflagged')
    <3>1. \A p \in Txs : /\ mapWallet'[p] = Nil <=> mapWallet[p] = Nil
                         /\ mapWallet[p] # Nil => mapWallet'[p].hashBlock = mapWallet[p].hashBlock
      BY <1>4, <1>5
    <3>2. \A c \in Branch[disk.best] : \A t \in TxsOf(c) : \A o \in vin[t] \intersect Mine :
             mapWallet[o[1]] # Nil => DiskSpent(o[1]) \subseteq mapWallet'[o[1]].vfSpent
      BY <1>4, MinePays
    <3> DEFINE C == Branch[disk.best]
    <3>3. \A c \in C : \A t \in TxsOf(c) : \A o \in vin[t] \intersect Mine :
             mapWallet[o[1]] # Nil => DiskSpent(o[1]) \subseteq mapWallet'[o[1]].vfSpent
      BY <3>2
    <3>4. Branch[disk.best] \subseteq C
      OBVIOUS
    <3> HIDE DEF C
    <3>5. Follows(mapWallet, disk.best, misplaced, unflagged) /\ disk.best \in Blocks
      BY <2>4, <2>5
    <3>6. Follows(mapWallet', disk.best, misplaced, unflagged \ C)
      BY <2>6, <3>1, <3>3, <3>4, <3>5, IndexTold
    <3>7. Follows(mapWallet', disk.best, misplaced, unflagged \ Branch[disk.best])
      BY <3>6 DEF C
    <3> QED
      BY <1>1, <2>1, <3>7
  <2>8. Backed(mapWallet', Reasons(disk.best, stranded'))
    <3> DEFINE S == Reasons(disk.best, stranded)
               T == Reasons(disk.best, stranded')
    <3>1. TxsOnBranch(disk.best) \subseteq T /\ Knows(mapWallet, TxsOnBranch(disk.best))
      BY <2>4 DEF Reasons, Follows, FollowsTxs
    <3>2. ASSUME NEW o \in Mine, mapWallet[o[1]] # Nil, o[2] \in mapWallet'[o[1]].vfSpent
          PROVE  \/ o[2] \in DiskSpent(o[1])
                 \/ /\ o[2] \in mapWallet[o[1]].vfSpent
                    /\ \A u \in S \intersect CoinStakes : o \in vin[u] => u \in T
      <4>1. o[1] \in Txs
        BY MinePays
      <4>2. CASE mapWallet'[o[1]].vfSpent = DiskSpent(o[1])
        BY <3>2, <4>2
      <4>3. CASE disk.pos[o[1]] = Nil /\ mapWallet'[o[1]].vfSpent = mapWallet[o[1]].vfSpent
        <5>1. ASSUME NEW u \in S \intersect CoinStakes, o \in vin[u], u \notin TxsOnBranch(disk.best)
              PROVE  u \in T
          <6>1. PICK b \in stranded : u \in TxsOf(b)
            BY <5>1 DEF Reasons, TxsIn
          <6>2. StakesLooseCoin(b)
            BY <3>2, <4>3, <5>1, <6>1 DEF StakesLooseCoin
          <6> QED
            BY <1>1, <6>1, <6>2 DEF Reasons, TxsIn
        <5>2. \A u \in S \intersect CoinStakes : o \in vin[u] => u \in T
          BY <3>1, <5>1
        <5> QED
          BY <3>2, <4>3, <5>2
      <4> QED
        BY <1>4, <3>2, <4>1, <4>2, <4>3
    <3> HIDE DEF S, T
    <3>3. Backed(mapWallet, S)
      BY <2>4 DEF S
    <3>4. Backed(mapWallet', T)
      BY <1>5, <2>5, <2>6, <3>1, <3>2, <3>3, IndexBacked
    <3> QED
      BY <3>4 DEF T
  <2> QED
    BY <1>1, <2>1, <2>3, <2>7, <2>8 DEF Stands
<1>10. FollowInv'
  BY <1>9 DEF FollowInv
<1> QED
  BY <1>7, <1>8, <1>10 DEF WalletInv

\* A copy is worth what the wallet is at its locator.
LEMMA BackupKeeps ==
    ASSUME ChainKept, WalletInv, BackupWallet
    PROVE  WalletInv'
<1> DEFINE behind == IF bestblock = Nil THEN {} ELSE Branch[bestblock] \ Branch[pindexBest]
<1>1. /\ pc = "idle" /\ registered /\ backup = Nil
      /\ backup' = [mapWallet |-> mapWallet, bestblock |-> bestblock, best |-> pindexBest,
                    misplaced |-> misplaced \union behind,
                    unflagged |-> unflagged \union behind, stranded |-> stranded]
      /\ UNCHANGED <<vars, mapWallet, bestblock, registered, reaccepted, misplaced, unflagged, stranded, restored>>
  BY DEF BackupWallet, historyVars
<1>2. WalletTypes /\ BackupInv /\ RollBackInv /\ FollowInv /\ mapWallet \in GoodWallets
      /\ bestblock \in Blocks \union {Nil}
  BY DEF WalletInv, WalletTypes
<1>3. behind \subseteq Blocks /\ pindexBest \in Blocks
  BY <1>2, ChainFacts, OwnBranch
<1>4. bestblock # Nil => behind = Branch[bestblock] \ Branch[pindexBest]
  OBVIOUS
<1> HIDE DEF behind
<1>5. /\ intact' = intact /\ Here' = Here /\ disk' = disk /\ Here = disk.best
      /\ pc' = pc /\ ~restored /\ ~Blind /\ ~Blind'
  BY <1>1, <1>2 DEF vars, switchVars, Here, Blind, BackupInv
<1>6. WalletTypes'
  <2>1. /\ misplaced \union behind \in SUBSET Blocks /\ unflagged \union behind \in SUBSET Blocks
        /\ stranded \in SUBSET Blocks
    BY <1>2, <1>3 DEF WalletTypes
  <2>2. backup' \in [mapWallet : GoodWallets, bestblock : Blocks \union {Nil}, best : Blocks,
                     misplaced : SUBSET Blocks, unflagged : SUBSET Blocks,
                     stranded : SUBSET Blocks]
    BY <1>1, <1>2, <1>3, <2>1
  <2> QED
    BY <1>1, <1>2, <2>2 DEF WalletTypes
<1>7. RollBackInv'
  BY <1>1, <1>5 DEF RollBackInv
<1>8. FollowInv'
  BY <1>1, <1>2, <1>5 DEF FollowInv
<1>9. BackupInv'
  <2>1. /\ backup'.mapWallet = mapWallet /\ backup'.bestblock = bestblock /\ backup'.best = pindexBest
        /\ backup'.misplaced = misplaced \union behind /\ backup'.unflagged = unflagged \union behind
        /\ backup'.stranded = stranded
    BY <1>1
  <2>2. ASSUME intact, bestblock # Nil
        PROVE  /\ ValidChain(bestblock)
               /\ Follows(mapWallet, bestblock, misplaced \union behind, unflagged \union behind)
               /\ Backed(mapWallet, Reasons(pindexBest, stranded))
    <3>1. Stands(mapWallet, bestblock, registered, disk.best, disk.best, misplaced, unflagged, stranded)
      BY <1>2, <1>5, <2>2 DEF FollowInv
    <3>2. pindexBest = disk.best /\ disk.best \in Blocks /\ ValidChain(disk.best)
      BY <1>1, <2>2, ChainFacts
    <3>3. /\ Follows(mapWallet, disk.best, misplaced, unflagged)
          /\ Backed(mapWallet, Reasons(disk.best, stranded))
          /\ ValidChain(bestblock) /\ Knows(mapWallet, TxsOnBranch(bestblock))
      BY <1>1, <2>2, <3>1 DEF Stands, LocatorSound
    <3>4. Follows(mapWallet, bestblock, misplaced \union (Branch[bestblock] \ Branch[disk.best]),
                  unflagged \union (Branch[bestblock] \ Branch[disk.best]))
      BY <1>2, <2>2, <3>2, <3>3, FollowsAside
    <3> QED
      BY <1>4, <2>2, <3>2, <3>3, <3>4
  <2> QED
    BY <1>1, <1>5, <2>1, <2>2 DEF BackupInv
<1> QED
  BY <1>6, <1>7, <1>8, <1>9 DEF WalletInv

\* What is restored is followed from its locator on.
LEMMA RestoreKeeps ==
    ASSUME ChainKept, WalletInv, RestoreWallet
    PROVE  WalletInv'
<1>1. /\ pc = "down" /\ pc' = pc /\ backup # Nil /\ intact' = intact /\ disk' = disk
      /\ mapWallet' = backup.mapWallet /\ bestblock' = backup.bestblock
      /\ misplaced' = backup.misplaced /\ unflagged' = backup.unflagged
      /\ stranded' = backup.stranded \union (Branch[backup.best] \ Branch[disk.best])
      /\ restored' = TRUE
      /\ UNCHANGED <<registered, reaccepted, backup>>
  BY DEF RestoreWallet, vars
<1>2. WalletTypes /\ BackupInv /\ RollBackInv
  BY DEF WalletInv
<1>3. backup \in [mapWallet : GoodWallets, bestblock : Blocks \union {Nil}, best : Blocks,
                  misplaced : SUBSET Blocks, unflagged : SUBSET Blocks, stranded : SUBSET Blocks]
  BY <1>1, <1>2 DEF WalletTypes
<1>4. /\ mapWallet' \in GoodWallets /\ bestblock' \in Blocks \union {Nil}
      /\ misplaced' \subseteq Blocks /\ unflagged' \subseteq Blocks /\ stranded' \subseteq Blocks
  BY <1>1, <1>3, OwnBranch
<1>5. WalletTypes'
  BY <1>1, <1>2, <1>3, <1>4 DEF WalletTypes
<1>6. BackupInv' /\ RollBackInv'
  BY <1>1, <1>2 DEF BackupInv, RollBackInv
<1>7. ASSUME intact', ~Blind'
      PROVE  Stands(mapWallet', bestblock', registered', Here', disk'.best, misplaced', unflagged', stranded')
  <2>1. intact /\ ~registered /\ backup.bestblock # Nil /\ Here' = disk.best
    BY <1>1, <1>2, <1>7 DEF RollBackInv, Blind, Here
  <2>2. /\ ValidChain(backup.bestblock)
        /\ Follows(backup.mapWallet, backup.bestblock, backup.misplaced, backup.unflagged)
        /\ Backed(backup.mapWallet, Reasons(backup.best, backup.stranded))
    BY <1>1, <1>2, <2>1 DEF BackupInv
  <2>3. LocatorSound(backup.mapWallet, backup.bestblock)
    BY <2>2 DEF LocatorSound, Follows, FollowsTxs
  <2>4. Backed(backup.mapWallet, Reasons(disk.best, stranded'))
    BY <1>1, <2>2, ReasonsMoved
  <2> QED
    BY <1>1, <2>1, <2>2, <2>3, <2>4 DEF Stands
<1>8. FollowInv'
  BY <1>7 DEF FollowInv
<1> QED
  BY <1>5, <1>6, <1>8 DEF WalletInv

-----------------------------------------------------------------------------
(***************************************************************************)
(* The theorems.                                                           *)
(***************************************************************************)

LEMMA WalletStep == ChainKept /\ ChainKept' /\ WalletInv /\ [WalletNext]_wvars => WalletInv'
<1> SUFFICES ASSUME ChainKept, ChainKept', WalletInv, [WalletNext]_wvars PROVE WalletInv'
  OBVIOUS
<1>1. CASE UNCHANGED wvars
  BY <1>1, IdleKeeps
<1>2. CASE Receive
  BY <1>2, ReceiveKeeps
<1>3. ASSUME NEW t \in Txs, ReceiveTx(t) PROVE WalletInv'
  BY <1>3, ReceiveTxKeeps
<1>4. CASE WalletConnectBlock
  BY <1>4, ConnectKeeps
<1>5. CASE WalletDisconnectBlock
  BY <1>5, DisconnectKeeps
<1>6. CASE WalletCommit
  BY <1>6, CommitKeeps
<1>7. CASE WalletGiveUp
  BY <1>7, GiveUpKeeps
<1>8. CASE WalletCrash
  BY <1>8, CrashKeeps
<1>9. CASE WalletStart
  BY <1>9, StartKeeps
<1>10. CASE RegisterWallet
  BY <1>10, RegisterKeeps
<1>11. CASE ReacceptWalletTransactions
  BY <1>11, ReacceptKeeps
<1>12. ASSUME NEW t \in Txs, CommitTransaction(t) PROVE WalletInv'
  BY <1>12, CommitTransactionKeeps
<1>13. ASSUME NEW t \in Txs, CrashInCommit(t) PROVE WalletInv'
  BY <1>13, CrashInCommitKeeps
<1>14. CASE FixSpentCoins
  BY <1>14, FixSpentKeeps
<1>15. CASE BackupWallet
  BY <1>15, BackupKeeps
<1>16. CASE RestoreWallet
  BY <1>16, RestoreKeeps
<1> QED
  BY <1>1, <1>2, <1>3, <1>4, <1>5, <1>6, <1>7, <1>8, <1>9, <1>10, <1>11, <1>12, <1>13,
     <1>14, <1>15, <1>16 DEF WalletNext

LEMMA WalletInvariance == WalletSpec => [](ChainKept /\ WalletInv)
<1>1. WalletInit => ChainKept /\ WalletInv
  BY TypeInit, ChainInit, IndexInit, NextInit, WalletInitially DEF WalletInit, ChainKept, Inv
<1>2. ChainKept /\ WalletInv /\ [WalletNext]_wvars => (ChainKept /\ WalletInv)'
  BY ChainStep, WalletStep
<1> QED
  BY <1>1, <1>2, PTL DEF WalletSpec

\* What holds of a registered wallet between two switches.
LEMMA AtRestFollows ==
    ASSUME ChainKept, WalletInv, AtRest
    PROVE  /\ pindexBest = disk.best /\ pindexBest \in Blocks
           /\ pnext = SuccessorsOf(pindexBest)
           /\ ~Blind => /\ Follows(mapWallet, pindexBest, misplaced, unflagged)
                        /\ Backed(mapWallet, Reasons(pindexBest, stranded))
<1>1. pc = "idle" /\ registered /\ intact /\ Here = disk.best
  BY DEF AtRest, Here
<1>2. pindexBest = disk.best /\ pindexBest \in Blocks /\ pnext = SuccessorsOf(disk.best)
  BY <1>1, ChainFacts
<1>3. ~Blind => /\ Follows(mapWallet, disk.best, misplaced, unflagged)
                /\ Backed(mapWallet, Reasons(disk.best, stranded))
  BY <1>1 DEF WalletInv, FollowInv, Stands
<1> QED
  BY <1>2, <1>3

\* A block counts as deep as it lies below the best block.
LEMMA DepthOnMain ==
    ASSUME pindexBest \in Blocks, pnext = SuccessorsOf(pindexBest), mapBlockIndex \subseteq Blocks,
           Branch[pindexBest] \subseteq mapBlockIndex, NEW b \in Blocks \union {Nil}
    PROVE  Depth(b) > 0 <=> b \in Branch[pindexBest]
<1>1. CASE b = Nil
  <2>1. b \notin Branch[pindexBest]
    BY <1>1, OwnBranch, NilAssumption
  <2> QED
    BY <1>1, <2>1 DEF Depth
<1>2. CASE b # Nil /\ b \in Branch[pindexBest]
  <2>1. b \in mapBlockIndex /\ IsInMainChain(b)
    BY <1>2, MainChain
  <2>2. nHeight[b] <= nHeight[pindexBest] /\ nHeight[b] \in Nat /\ nHeight[pindexBest] \in Nat
    BY <1>2, LowerOnBranch, TreeAssumption
  <2>3. Depth(b) = nHeight[pindexBest] - nHeight[b] + 1
    BY <1>2, <2>1 DEF Depth
  <2> QED
    BY <1>2, <2>2, <2>3
<1>3. CASE b # Nil /\ b \notin Branch[pindexBest]
  <2>1. ~IsInMainChain(b)
    BY <1>3, MainChain
  <2>2. Depth(b) = 0
    BY <2>1 DEF Depth
  <2> QED
    BY <1>3, <2>2
<1> QED
  BY <1>1, <1>2, <1>3

\* A transaction of the wallet that counts as confirmed is in the chain, and
\* the other way round unless its block is one of those misplaced.
LEMMA ConfirmedBySeen ==
    ASSUME ChainKept, WalletInv
    PROVE  ConfirmedIsSeen
<1> SUFFICES ASSUME AtRest, NEW t \in Txs, mapWallet[t] # Nil
             PROVE  /\ Depth(mapWallet[t].hashBlock) > 0 => t \in TxsOnBranch(pindexBest)
                    /\ (~Blind /\ \E c \in Branch[pindexBest] \ misplaced : t \in TxsOf(c)) =>
                          Depth(mapWallet[t].hashBlock) > 0
  BY DEF ConfirmedIsSeen
<1> DEFINE b == mapWallet[t].hashBlock
<1>1. /\ pindexBest = disk.best /\ pindexBest \in Blocks /\ pnext = SuccessorsOf(pindexBest)
      /\ ~Blind => Follows(mapWallet, pindexBest, misplaced, unflagged)
  BY AtRestFollows
<1>2. mapBlockIndex \subseteq Blocks /\ Branch[pindexBest] \subseteq mapBlockIndex
  BY <1>1, Types DEF ChainKept, IndexInv, AtRest
<1>3. b \in Blocks \union {Nil} /\ (b # Nil => t \in TxsOf(b))
  BY DEF WalletInv, WalletTypes, GoodWallets, WalletTx
<1>4. (~Blind /\ \E c \in Branch[pindexBest] \ misplaced : t \in TxsOf(c)) => b \in Branch[pindexBest]
  BY <1>1 DEF Follows, FollowsTxs, Agrees, TxsIn
<1>5. b \in Branch[pindexBest] => t \in TxsOnBranch(pindexBest)
  BY <1>1, <1>3, OwnBranch, NilAssumption, BranchTxs
<1> HIDE DEF b
<1>6. Depth(b) > 0 <=> b \in Branch[pindexBest]
  BY <1>1, <1>2, <1>3, DepthOnMain
<1> QED
  BY <1>4, <1>5, <1>6 DEF b

\* WalletFollowsChain: a transaction of mine in the best chain is known, one
\* that counts as confirmed is in that chain, and one of that chain counts as
\* confirmed but for the blocks misplaced by a switch that was aborted or cut
\* short; through reorganizations, crashes between wallet.dat and the block
\* database and a restored copy of wallet.dat that has a locator
\* (SyncWithWallets, ScanForWalletTransactions, AddToWallet).
THEOREM WalletStaysWithChain == WalletSpec => []WalletFollowsChain
<1>1. ChainKept /\ WalletInv => WalletFollowsChain
  <2> SUFFICES ASSUME ChainKept, WalletInv PROVE WalletFollowsChain
    OBVIOUS
  <2>1. WalletTypeOK
    BY DEF WalletInv, WalletTypes, WalletTypeOK, GoodWallets
  <2>2. WalletKnowsChain
    BY AtRestFollows DEF WalletKnowsChain, Follows, FollowsTxs, Knows, IsMineOrSpends
  <2> QED
    BY <2>1, <2>2, ConfirmedBySeen DEF WalletFollowsChain
<1> QED
  BY <1>1, WalletInvariance, PTL

\* SpentFollowsChain: a coin of mine that the best chain spends is flagged, but
\* for stakes disconnected in vain; and one that only a coinstake of another
\* branch had spent is available again, but for the stakes of blocks the wallet
\* knows and nobody disconnected for it (WalletUpdateSpent, FixSpentCoins,
\* ReacceptWalletTransactions, DisableTransaction).
THEOREM SpentStaysWithChain == WalletSpec => []SpentFollowsChain
<1>1. ChainKept /\ WalletInv => SpentFollowsChain
  <2> SUFFICES ASSUME ChainKept, WalletInv PROVE SpentFollowsChain
    OBVIOUS
  <2>1. SpentIsFlagged
    BY AtRestFollows DEF SpentIsFlagged, Follows, FollowsTxs, Flags, TxsIn
  <2>2. StakeRefunded
    <3> SUFFICES ASSUME AtRest, ~Blind,
                        NEW k \in CoinStakes \ (TxsOnBranch(pindexBest) \union UNION {TxsOf(b) : b \in stranded}),
                        NEW o \in vin[k] \intersect Mine,
                        mapWallet[o[1]] # Nil, o[2] \in mapWallet[o[1]].vfSpent
                 PROVE  \E u \in Txs \ {k} : o \in vin[u] /\ mapWallet[u] # Nil
      BY DEF StakeRefunded
    <3>1. Backed(mapWallet, Reasons(pindexBest, stranded))
      BY AtRestFollows
    <3>2. k \notin Reasons(pindexBest, stranded)
      BY DEF Reasons, TxsIn
    <3> QED
      BY <3>1, <3>2 DEF Backed
  <2> QED
    BY <2>1, <2>2 DEF SpentFollowsChain
<1> QED
  BY <1>1, WalletInvariance, PTL

=============================================================================
