------------------------------ MODULE ChainDefs ------------------------------
(***************************************************************************)
(* The transactions in the blocks of the tree and the outputs those        *)
(* transactions spend; like a block, a transaction is identified with its  *)
(* hash.                                                                   *)
(*                                                                         *)
(* The last part states, without a transaction index, what makes a branch  *)
(* of the tree a valid chain.  It is the yardstick that the incremental    *)
(* code of ConnectBlock and Reorganize is measured against.                *)
(***************************************************************************)
EXTENDS BlockTree, Sequences

CONSTANTS
    Txs,              \* the transactions (hashes) that exist
    vtx,              \* [Blocks -> Seq(Txs)]: the transactions of a block
    vin,              \* [Txs -> SUBSET OutPoints]: the outputs spent
    vout,             \* [Txs -> Nat]: the number of outputs
    CoinBases,        \* the transactions with IsCoinBase()
    CoinStakes,       \* the transactions with IsCoinStake()
    Sound,            \* the blocks that pass the checks that depend only on
                      \* the block and its branch: CheckBlock, sigops, scripts,
                      \* values, fees and the two reward limits
    nCoinbaseMaturity \* confirmations a generated output needs

\* The outputs a transaction of the model can name, some of them out of range.
OutPoints == Txs \X (0 .. 2)

\* A reference to one transaction in one block: CDiskTxPos.
TxPos == Blocks \X Txs

ASSUME NilAssumption == Nil \notin Blocks /\ Nil \notin TxPos /\ Nil \notin Txs

\* The coinbase of the genesis block never enters the transaction index: the
\* genesis branch of SetBestChain does not call ConnectBlock.  CheckBlock
\* refuses a block that repeats a transaction, CheckTransaction one without
\* inputs; the null input of a coinbase is not an input here.
ASSUME TxAssumption ==
    /\ vtx \in [Blocks -> Seq(Txs)]
    /\ vtx[Genesis] = <<>>
    /\ \A b \in Blocks : \A i, j \in DOMAIN vtx[b] : vtx[b][i] = vtx[b][j] => i = j
    /\ vin \in [Txs -> SUBSET OutPoints]
    /\ vout \in [Txs -> 0 .. 3]
    /\ CoinBases \subseteq Txs
    /\ CoinStakes \subseteq Txs
    /\ \A t \in CoinBases : vin[t] = {}
    /\ \A t \in Txs : \A o \in vin[t] : o[1] # t
    /\ Sound \subseteq Blocks
    /\ nCoinbaseMaturity \in Nat

-----------------------------------------------------------------------------
\* The transactions of block b as a set.
TxsOf(b) == {vtx[b][i] : i \in DOMAIN vtx[b]}

\* The outputs that exist: COutPoint::n below vout.size().
InRange(o) == o[2] < vout[o[1]]

\* Transactions that create coins, the ones nCoinbaseMaturity is about and
\* the ones that are never loose transactions.
Generated == CoinBases \union CoinStakes

\* The loop over pprev of ConnectInputs: walking down from block b for less
\* than nCoinbaseMaturity blocks meets block p.
Immature(p, b) == p \in Branch[b] /\ nHeight[b] - nHeight[p] < nCoinbaseMaturity

-----------------------------------------------------------------------------
(***************************************************************************)
(* Valid chains, stated over a whole branch.                               *)
(***************************************************************************)

\* The transactions of the branch of b.
TxsOnBranch(b) == UNION {TxsOf(c) : c \in Branch[b]}

\* Position i of block c comes after position j of block d on one branch.
Before(d, j, c, i) == d \in Branch[c] /\ (d = c => j < i)

\* The input o of the i-th transaction of c refers to an output that was
\* created earlier on the branch and, if it was generated, has matured.
InputExists(c, i, o) ==
    \E d \in Branch[c] : \E j \in DOMAIN vtx[d] :
        /\ vtx[d][j] = o[1]
        /\ Before(d, j, c, i)
        /\ InRange(o)
        /\ o[1] \in Generated => ~Immature(d, c)

\* The output o has not been spent earlier on the branch.
InputFresh(c, i, o) ==
    \A d \in Branch[c] : \A j \in DOMAIN vtx[d] :
        Before(d, j, c, i) => o \notin vin[vtx[d][j]]

\* The branch of b is a valid chain: its blocks are sound, no transaction
\* occurs twice, and every input of every transaction spends an existing,
\* mature output nobody spent before.
ValidChain(b) ==
    \A c \in Branch[b] \ {Genesis} :
        /\ c \in Sound
        /\ TxsOf(c) \intersect TxsOnBranch(pprev[c]) = {}
        /\ \A i \in DOMAIN vtx[c] : \A o \in vin[vtx[c][i]] :
              InputExists(c, i, o) /\ InputFresh(c, i, o)

=============================================================================
