------------------------------ MODULE BlockTree ------------------------------
(***************************************************************************)
(* The tree of the blocks that exist.  A block is identified with its      *)
(* hash, so whatever the hash commits to (its predecessor, its height, the *)
(* trust of its branch) is a constant function of the block.               *)
(***************************************************************************)
EXTENDS Integers, FiniteSets

CONSTANTS
    Blocks,           \* the blocks (hashes) that exist
    Genesis,          \* hashGenesisBlock
    Nil,              \* a null pointer, a null hash or a null disk position
    pprev,            \* [Blocks \ {Genesis} -> Blocks]: the previous block
    Branch,           \* [Blocks -> SUBSET Blocks]: what a walk along pprev visits
    nHeight,          \* [Blocks -> Nat]
    bnChainTrust      \* [Blocks -> Nat]: sum of the trusts of the branch

ASSUME TreeAssumption ==
    /\ Genesis \in Blocks
    /\ pprev \in [Blocks \ {Genesis} -> Blocks]
    /\ Branch \in [Blocks -> SUBSET Blocks]
    /\ nHeight \in [Blocks -> Nat]
    /\ bnChainTrust \in [Blocks -> Nat]

\* Branch[b] is b, its predecessor and so on down to the genesis block.
ASSUME BranchAssumption ==
    /\ Branch[Genesis] = {Genesis}
    /\ \A b \in Blocks \ {Genesis} :
          /\ Branch[b] = {b} \union Branch[pprev[b]]
          /\ b \notin Branch[pprev[b]]
    /\ \A b \in Blocks : \A c \in Branch[b] : Branch[c] \subseteq Branch[b]
    /\ \A b \in Blocks : \A c, d \in Branch[b] : c \in Branch[d] \/ d \in Branch[c]

\* A block adds a positive trust (GetBlockTrust is at least 1) and one height.
ASSUME TrustAssumption ==
    \A b \in Blocks \ {Genesis} :
        /\ bnChainTrust[pprev[b]] < bnChainTrust[b]
        /\ nHeight[b] = nHeight[pprev[b]] + 1

\* The successor of c on the way to its descendant b.
NextOnPath(c, b) == CHOOSE d \in Branch[b] : d # Genesis /\ pprev[d] = c

=============================================================================
