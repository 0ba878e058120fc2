------------------------------ MODULE Template ------------------------------
(***************************************************************************)
(* CreateNewBlock of main.cpp: how the transactions of the memory pool are *)
(* collected into a block, one turn of the loop over the priority queue at *)
(* a time. A transaction has a name, the outputs it spends (pairs of a     *)
(* transaction and a number), how many outputs it has, its size, its       *)
(* signature operations and those of the scripts behind the hashes it      *)
(* spends, whether it is final and not in the future (timely), and its     *)
(* priority, fee per kilobyte and fee, which the code computes from its    *)
(* inputs.                                                                 *)
(***************************************************************************)
EXTENDS Integers, FiniteSetsExt, SequencesExt

CONSTANTS Chain,          \* the unspent outputs of the best chain
          nBlockMaxSize, nBlockPrioritySize, nBlockMinSize,
          nMinTxFee, PriorityFloor, MAX_BLOCK_SIGOPS,
          BaseSize,       \* nBlockSize and nBlockSigOps of the empty block
          BaseSigOps,
          GenSize         \* MAX_BLOCK_SIZE_GEN

ASSUME TemplateAssumption ==
    {nBlockMaxSize, nBlockPrioritySize, nBlockMinSize, nMinTxFee, PriorityFloor,
     MAX_BLOCK_SIGOPS, BaseSize, BaseSigOps, GenSize} \subseteq Nat

ChainTxs == {o[1] : o \in Chain}

\* The parents that are not in the chain: the transaction waits for them.
DependsOn(t) == {o[1] : o \in t.ins} \ ChainTxs

\* A transaction of the pool that can be looked at, and one with an input
\* that is neither in the chain nor in the pool.
Candidates(pool) ==
    {t \in pool : t.timely /\ DependsOn(t) \subseteq {u.id : u \in pool}}

FirstTemplate(pool) ==
    LET all == Candidates(pool)
        ready == {t \in all : DependsOn(t) = {}}
    IN  [kind |-> "template", pool |-> pool, queue |-> ready,
         waits |-> [t \in all \ ready |-> DependsOn(t)],
         block |-> <<>>, spent |-> {}, size |-> BaseSize, sigops |-> BaseSigOps,
         byFee |-> nBlockPrioritySize <= 0, state |-> "collecting"]

\* TxPriorityCompare: the tops of the heap.
Before(b, t, u) ==
    LET first(x) == IF b.byFee THEN x.feePerKb ELSE x.priority
        second(x) == IF b.byFee THEN x.priority ELSE x.feePerKb
    IN  \/ first(t) > first(u)
        \/ first(t) = first(u) /\ second(t) >= second(u)
Tops(b) == {t \in b.queue : \A u \in b.queue : Before(b, t, u)}

\* GetMinFee(nBlockSize, false, GMF_BLOCK), which is called with nBytes = 0.
BlockMinFee(size) ==
    IF size >= GenSize THEN 1000000000
    ELSE IF size >= GenSize \div 2
    THEN nMinTxFee * (GenSize \div (GenSize - size)) ELSE nMinTxFee

\* FetchInputs and ConnectInputs on the transactions collected so far.
Connects(b, t) ==
    LET made == UNION {{<<b.block[i].id, n>> : n \in 1..b.block[i].outs} :
                         i \in DOMAIN b.block}
    IN  /\ t.ins \subseteq Chain \cup made
        /\ t.ins \cap b.spent = {}

\* Mutant: the first parent releases, whatever else is waited for.
ReleasedAny(b, t) == {u \in DOMAIN b.waits : t.id \in b.waits[u]}

\* Those that depend on t and wait for nothing else enter the queue.
Released(b, t) == {u \in DOMAIN b.waits : b.waits[u] = {t.id}}

\* Mutant: the operations behind the hashes are not counted in the block.
AddUncounted(b, t) ==
    [b EXCEPT !.queue = @ \cup Released(b, t),
              !.waits = [u \in DOMAIN b.waits \ Released(b, t) |->
                           b.waits[u] \ {t.id}],
              !.block = Append(@, t),
              !.spent = @ \cup t.ins,
              !.size = @ + t.size,
              !.sigops = @ + t.sigops]

Add(b, t) ==
    [b EXCEPT !.queue = @ \cup Released(b, t),
              !.waits = [u \in DOMAIN b.waits \ Released(b, t) |->
                           b.waits[u] \ {t.id}],
              !.block = Append(@, t),
              !.spent = @ \cup t.ins,
              !.size = @ + t.size,
              !.sigops = @ + t.sigops + t.hashedSigops]

\* The turn that takes t off the queue: skipped, or added. The order of the
\* queue changes to fees before the transaction at hand is looked at further.
TakeFrom(b, t) ==
    LET rest == [b EXCEPT !.queue = @ \ {t}]
        fits == /\ b.size + t.size < nBlockMaxSize
                /\ b.sigops + t.sigops < MAX_BLOCK_SIGOPS
        fitsAll == b.sigops + t.sigops + t.hashedSigops < MAX_BLOCK_SIGOPS
        free == /\ b.byFee
                /\ t.feePerKb < nMinTxFee
                /\ b.size + t.size >= nBlockMinSize
        turns == /\ ~b.byFee
                 /\ \/ b.size + t.size >= nBlockPrioritySize
                    \/ t.priority < PriorityFloor
        ordered == IF turns THEN [rest EXCEPT !.byFee = TRUE] ELSE rest
    IN  CASE ~fits \/ free -> rest
          [] /\ fits /\ ~free /\ fitsAll
             /\ t.fee >= BlockMinFee(b.size) /\ Connects(b, t) ->
               Add(ordered, t)
          [] OTHER -> ordered

Takes(b) ==
    IF b.queue = {} THEN {[b EXCEPT !.state = "made"]}
    ELSE {TakeFrom(b, t) : t \in Tops(b)}
=============================================================================
