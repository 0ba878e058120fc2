------------------------------- MODULE Ledger -------------------------------
(***************************************************************************)
(* What the block database promises, without blocks being connected one by *)
(* one: there is a best chain, it is a valid chain, and the outputs that   *)
(* can be spent are those of its transactions that none of its             *)
(* transactions spends.  The best chain is replaced in one step.           *)
(*                                                                         *)
(* Nothing is promised any more once lost is TRUE: the database has        *)
(* skipped a block or overwritten a transaction record (see ChainState).   *)
(***************************************************************************)
EXTENDS ChainDefs

CONSTANT Requested  \* the blocks a synchronized checkpoint may name

VARIABLES
    best,     \* the best chain
    unspent,  \* the outputs that can be spent
    lost      \* the promise is void

ledger == <<best, unspent, lost>>

\* The outputs a scan of the branch of b finds created and not spent.
UnspentOn(b) ==
    {o \in OutPoints :
        /\ o[1] \in TxsOnBranch(b)
        /\ InRange(o)
        /\ \A t \in TxsOnBranch(b) : o \notin vin[t]}

Init ==
    /\ best = Genesis
    /\ unspent = {}
    /\ lost = FALSE

\* The best chain becomes the branch of b: because it has more trust, because
\* a checkpoint names it, or because the end of the best chain is cut off.
Switch(b) ==
    /\ ValidChain(b)
    /\ \/ bnChainTrust[b] > bnChainTrust[best]
       \/ b \in Requested
       \/ b \in Branch[best]
    /\ best' = b
    /\ unspent' = UnspentOn(b)
    /\ lost' = FALSE

\* The promise is given up, and with it every claim about the chain.
Lose == lost' = TRUE

Next ==
    \/ ~lost /\ \E b \in Blocks : Switch(b)
    \/ Lose

Spec == Init /\ [][Next]_ledger

=============================================================================
