------------------------------ MODULE TreeLemmas ------------------------------
(***************************************************************************)
(* Facts about the tree of blocks: they follow from the way Branch unfolds *)
(* along pprev, by looking at a block of least height.                     *)
(***************************************************************************)
EXTENDS BlockTree, Induction

\* A set of blocks that is not empty has a member of least height.
LEMMA LeastHeight ==
    ASSUME NEW S \in SUBSET Blocks, S # {}
    PROVE  \E b \in S : \A c \in S : nHeight[b] <= nHeight[c]
<1> DEFINE T == {nHeight[b] : b \in S}
<1>1. T \in SUBSET Nat /\ T # {}
  BY TreeAssumption
<1>2. PICK m \in T : \A n \in T : m <= n
  <2> HIDE DEF T
  <2> QED BY <1>1, LeastNatural
<1> QED
  BY <1>2

\* Every branch begins with the genesis block.
LEMMA GenesisOnBranch == \A b \in Blocks : Genesis \in Branch[b]
<1> DEFINE S == {b \in Blocks : Genesis \notin Branch[b]}
<1> SUFFICES ASSUME S # {} PROVE FALSE
  OBVIOUS
<1>1. PICK b \in S : \A c \in S : nHeight[b] <= nHeight[c]
  BY LeastHeight
<1>2. b # Genesis /\ pprev[b] \in Blocks
  BY BranchAssumption, TreeAssumption
<1>3. pprev[b] \in S
  BY <1>1, <1>2, BranchAssumption
<1> QED
  BY <1>1, <1>2, <1>3, TrustAssumption, TreeAssumption

\* A block belongs to its own branch, and its branch consists of blocks.
LEMMA OwnBranch == \A b \in Blocks : b \in Branch[b] /\ Branch[b] \subseteq Blocks
BY BranchAssumption, TreeAssumption

\* The branch of a block is the block and the branch of its predecessor.
LEMMA BranchStep ==
    ASSUME NEW b \in Blocks \ {Genesis}
    PROVE  /\ pprev[b] \in Blocks
           /\ Branch[b] = {b} \union Branch[pprev[b]]
           /\ b \notin Branch[pprev[b]]
           /\ pprev[b] \in Branch[b]
BY BranchAssumption, TreeAssumption, OwnBranch

\* Below a block of a branch that is not its end there is a next one, and
\* NextOnPath finds it.
LEMMA NextOnPathExists ==
    ASSUME NEW b \in Blocks, NEW c \in Branch[b], c # b
    PROVE  /\ NextOnPath(c, b) \in Branch[b]
           /\ NextOnPath(c, b) # Genesis
           /\ pprev[NextOnPath(c, b)] = c
<1> DEFINE S == {d \in Branch[b] : c \in Branch[d] /\ d # c}
<1>1. S \subseteq Blocks /\ b \in S
  BY OwnBranch
<1>2. PICK d \in S : \A e \in S : nHeight[d] <= nHeight[e]
  BY <1>1, LeastHeight
<1>3. d \in Blocks /\ d # Genesis
  BY <1>1, BranchAssumption
<1>4. /\ pprev[d] \in Blocks
      /\ Branch[d] = {d} \union Branch[pprev[d]]
      /\ pprev[d] \in Branch[d]
  BY <1>3, BranchStep
<1>5. Branch[d] \subseteq Branch[b]
  BY BranchAssumption
<1>6. c \in Branch[pprev[d]]
  BY <1>4
<1>7. pprev[d] = c
  <2> SUFFICES ASSUME pprev[d] # c PROVE FALSE
    OBVIOUS
  <2>1. pprev[d] \in S
    BY <1>4, <1>5, <1>6
  <2> QED
    BY <2>1, <1>2, <1>3, <1>4, TrustAssumption, TreeAssumption
<1> QED
  BY <1>3, <1>7 DEF NextOnPath

\* The blocks below a block are lower.
LEMMA LowerOnBranch ==
    ASSUME NEW b \in Blocks, NEW c \in Branch[b], c # b
    PROVE  nHeight[c] < nHeight[b]
<1> DEFINE S == {d \in Branch[b] : c \in Branch[d] /\ d # c /\ ~(nHeight[c] < nHeight[d])}
<1> SUFFICES ASSUME b \in S PROVE FALSE
  BY OwnBranch
<1>1. PICK d \in S : \A e \in S : nHeight[d] <= nHeight[e]
  BY LeastHeight, OwnBranch
<1>2. d \in Blocks \ {Genesis}
  BY <1>1, OwnBranch, BranchAssumption
<1>3. /\ pprev[d] \in Blocks /\ pprev[d] \in Branch[d]
      /\ c \in Branch[pprev[d]]
      /\ nHeight[d] = nHeight[pprev[d]] + 1
  BY <1>1, <1>2, BranchStep, TrustAssumption
<1>4. pprev[d] \in Branch[b]
  BY <1>1, <1>3, BranchAssumption
<1>5. CASE pprev[d] = c
  BY <1>1, <1>3, <1>5, TreeAssumption
<1>6. CASE pprev[d] # c
  <2>1. c \in Blocks
    BY OwnBranch
  <2>2. pprev[d] \in S
    BY <1>1, <1>2, <1>3, <1>4, <1>6, <2>1, TreeAssumption
  <2> QED
    BY <2>2, <1>1, <1>2, <1>3, TreeAssumption
<1> QED
  BY <1>5, <1>6

\* The trust of a branch grows upwards.
LEMMA TrustOnBranch ==
    ASSUME NEW b \in Blocks, NEW c \in Branch[b]
    PROVE  bnChainTrust[c] <= bnChainTrust[b]
<1> DEFINE S == {d \in Branch[b] : c \in Branch[d] /\ ~(bnChainTrust[c] <= bnChainTrust[d])}
<1> SUFFICES ASSUME b \in S PROVE FALSE
  BY OwnBranch
<1>1. PICK d \in S : \A e \in S : nHeight[d] <= nHeight[e]
  BY LeastHeight, OwnBranch
<1>2. c \in Blocks
  BY OwnBranch
<1>3. d \in Blocks \ {Genesis}
  BY <1>1, <1>2, OwnBranch, BranchAssumption, TreeAssumption
<1>4. /\ pprev[d] \in Blocks /\ pprev[d] \in Branch[d]
      /\ Branch[d] = {d} \union Branch[pprev[d]]
      /\ nHeight[d] = nHeight[pprev[d]] + 1
      /\ bnChainTrust[pprev[d]] < bnChainTrust[d]
  BY <1>3, BranchStep, TrustAssumption
<1>5. pprev[d] \in Branch[b]
  BY <1>1, <1>4, BranchAssumption
<1>6. c \in Branch[pprev[d]]
  BY <1>1, <1>2, <1>4, TreeAssumption
<1>7. pprev[d] \in S
  BY <1>1, <1>2, <1>3, <1>4, <1>5, <1>6, TreeAssumption
<1> QED
  BY <1>1, <1>3, <1>4, <1>7, TreeAssumption

=============================================================================
