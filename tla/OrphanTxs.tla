----------------------------- MODULE OrphanTxs ------------------------------
(***************************************************************************)
(* Transactions that arrive before the ones they spend (main.cpp): the     *)
(* tx message admits a transaction to the memory pool and then every       *)
(* orphan it was the last missing parent of, and keeps a bounded number of *)
(* orphans, indexed by the transactions they wait for. ProcessMessage runs *)
(* with cs_main held: blocks and the wallet come between two messages, and *)
(* tell the orphans nothing.                                               *)
(***************************************************************************)
EXTENDS Naturals, FiniteSets, Sequences, SequencesExt

CONSTANTS
    LooseTxs,
    Parents,     \* Parents[t]: the loose transactions whose outputs t spends
    Conflicts,   \* pairs of transactions that spend a common output
    Verdicts,    \* Verdicts[t]: what the checks that need the inputs may say; the
                 \* limit on free transactions says both
    BigTxs,      \* transactions of more than 5000 bytes
    MAX_ORPHAN_TRANSACTIONS

ASSUME OrphanAssumption ==
    /\ IsFiniteSet(LooseTxs)
    /\ Parents \in [LooseTxs -> SUBSET LooseTxs]
    /\ Verdicts \in [LooseTxs -> SUBSET BOOLEAN]
    /\ MAX_ORPHAN_TRANSACTIONS \in Nat

VARIABLES
    mempool, chainTxs,
    mapOrphanTransactions,
    mapOrphanTransactionsByPrev,
    handler,        \* where the tx message is: idle, limit, work or erase
    vWorkQueue,     \* the part of it that is still to be gone through
    candidates,     \* the orphans of the present hashPrev that are still to be tried
    vEraseQueue,
    untold          \* history: transactions that came by a block or from the wallet

ovars == <<mempool, chainTxs, mapOrphanTransactions, mapOrphanTransactionsByPrev,
           handler, vWorkQueue, candidates, vEraseQueue, untold>>

orphanVars == <<mapOrphanTransactions, mapOrphanTransactionsByPrev>>

-----------------------------------------------------------------------------
(***************************************************************************)
(* CTxMemPool::accept, in the order of its checks.                         *)
(***************************************************************************)
Available == mempool \cup chainTxs
Rivals(t) == {u \in LooseTxs : <<t, u>> \in Conflicts}

MissingInputs(t) ==
    /\ t \notin Available
    /\ Rivals(t) \cap mempool = {}
    /\ ~(Parents[t] \subseteq Available)

MayAccept(t) ==
    /\ t \notin Available
    /\ Rivals(t) \cap Available = {}
    /\ Parents[t] \subseteq Available
    /\ TRUE \in Verdicts[t]

MayReject(t) ==
    /\ ~MissingInputs(t)
    /\ MayAccept(t) => FALSE \in Verdicts[t]

-----------------------------------------------------------------------------
(***************************************************************************)
(* The two maps.                                                           *)
(***************************************************************************)
OrphansOf(h) == IF h \in DOMAIN mapOrphanTransactionsByPrev
                THEN mapOrphanTransactionsByPrev[h] ELSE {}

AddOrphanTx(t) ==
    IF t \in mapOrphanTransactions \/ t \in BigTxs
    THEN UNCHANGED orphanVars
    ELSE /\ mapOrphanTransactions' = mapOrphanTransactions \cup {t}
         /\ mapOrphanTransactionsByPrev' =
              [h \in DOMAIN mapOrphanTransactionsByPrev \cup Parents[t] |->
                 IF h \in Parents[t] THEN OrphansOf(h) \cup {t} ELSE OrphansOf(h)]

\* Mutant: an index entry that holds other orphans, too, is dropped with this one.
WithoutEntries(t) ==
    [h \in DOMAIN mapOrphanTransactionsByPrev \ Parents[t] |-> OrphansOf(h)]

\* The index without an orphan, and without the entries that are empty then.
WithoutOrphan(t) ==
    [h \in {h \in DOMAIN mapOrphanTransactionsByPrev :
              h \in Parents[t] => ~(OrphansOf(h) \subseteq {t})} |->
       IF h \in Parents[t] THEN OrphansOf(h) \ {t} ELSE OrphansOf(h)]

EraseOrphanTx(t) ==
    IF t \notin mapOrphanTransactions
    THEN UNCHANGED orphanVars
    ELSE /\ mapOrphanTransactions' = mapOrphanTransactions \ {t}
         /\ mapOrphanTransactionsByPrev' = WithoutOrphan(t)

-----------------------------------------------------------------------------
(***************************************************************************)
(* The tx message.                                                         *)
(***************************************************************************)
AcceptMessage(t) ==
    /\ handler = "idle"
    /\ MayAccept(t)
    /\ mempool' = mempool \cup {t}
    /\ handler' = "work"
    /\ vWorkQueue' = <<t>> /\ vEraseQueue' = {t}
    /\ UNCHANGED <<chainTxs, orphanVars, candidates, untold>>

OrphanMessage(t) ==
    /\ handler = "idle"
    /\ MissingInputs(t)
    /\ AddOrphanTx(t)
    /\ handler' = "limit"
    /\ UNCHANGED <<mempool, chainTxs, vWorkQueue, candidates, vEraseQueue, untold>>

\* LimitOrphanTxSize: a random orphan at a time.
LimitOrphanTxSize ==
    /\ handler = "limit"
    /\ IF Cardinality(mapOrphanTransactions) > MAX_ORPHAN_TRANSACTIONS
       THEN /\ \E t \in mapOrphanTransactions : EraseOrphanTx(t)
            /\ handler' = "limit"
       ELSE handler' = "idle" /\ UNCHANGED orphanVars
    /\ UNCHANGED <<mempool, chainTxs, vWorkQueue, candidates, vEraseQueue, untold>>

\* The next hashPrev; operator[] enters it into the index if it is not there.
NextPrev ==
    /\ handler = "work" /\ candidates = {} /\ vWorkQueue # <<>>
    /\ LET hashPrev == Head(vWorkQueue)
       IN  /\ candidates' = OrphansOf(hashPrev)
           /\ mapOrphanTransactionsByPrev' =
                [h \in DOMAIN mapOrphanTransactionsByPrev \cup {hashPrev} |-> OrphansOf(h)]
    /\ vWorkQueue' = Tail(vWorkQueue)
    /\ UNCHANGED <<mempool, chainTxs, mapOrphanTransactions, handler, vEraseQueue, untold>>

\* Mutant: the orphans of an orphan are left to wait.
AcceptOnly(t) ==
    /\ MayAccept(t)
    /\ mempool' = mempool \cup {t}
    /\ UNCHANGED vWorkQueue
    /\ vEraseQueue' = vEraseQueue \cup {t}

AcceptOrphan(t) ==
    /\ MayAccept(t)
    /\ mempool' = mempool \cup {t}
    /\ vWorkQueue' = Append(vWorkQueue, t)
    /\ vEraseQueue' = vEraseQueue \cup {t}

DropOrphan(t) ==
    /\ MayReject(t)
    /\ vEraseQueue' = vEraseQueue \cup {t}
    /\ UNCHANGED <<mempool, vWorkQueue>>

LeaveOrphan(t) ==
    /\ MissingInputs(t)
    /\ UNCHANGED <<mempool, vWorkQueue, vEraseQueue>>

\* The index is walked by hash, that is in any order.
TryOrphan(t) ==
    /\ handler = "work" /\ t \in candidates
    /\ AcceptOrphan(t) \/ DropOrphan(t) \/ LeaveOrphan(t)
    /\ candidates' = candidates \ {t}
    /\ UNCHANGED <<chainTxs, orphanVars, handler, untold>>

WorkDone ==
    /\ handler = "work" /\ candidates = {} /\ vWorkQueue = <<>>
    /\ handler' = "erase"
    /\ UNCHANGED <<mempool, chainTxs, orphanVars, vWorkQueue, candidates, vEraseQueue, untold>>

EraseNext(t) ==
    /\ handler = "erase" /\ t \in vEraseQueue
    /\ EraseOrphanTx(t)
    /\ vEraseQueue' = vEraseQueue \ {t}
    /\ UNCHANGED <<mempool, chainTxs, handler, vWorkQueue, candidates, untold>>

MessageDone ==
    /\ handler = "erase" /\ vEraseQueue = {}
    /\ handler' = "idle"
    /\ UNCHANGED <<mempool, chainTxs, orphanVars, vWorkQueue, candidates, vEraseQueue, untold>>

HandlerStep ==
    \/ LimitOrphanTxSize \/ NextPrev \/ WorkDone \/ MessageDone
    \/ \E t \in LooseTxs : TryOrphan(t) \/ EraseNext(t)

-----------------------------------------------------------------------------
(***************************************************************************)
(* What happens elsewhere.                                                 *)
(***************************************************************************)

\* A transaction of a block that is connected leaves the pool. One that was
\* not in the pool has been announced to nobody here.
ConnectTx(t) ==
    /\ handler = "idle"
    /\ t \notin chainTxs /\ Parents[t] \subseteq chainTxs /\ Rivals(t) \cap chainTxs = {}
    /\ chainTxs' = chainTxs \cup {t}
    /\ mempool' = mempool \ {t}
    /\ untold' = IF t \in mempool THEN untold ELSE untold \cup {t}
    /\ UNCHANGED <<orphanVars, handler, vWorkQueue, candidates, vEraseQueue>>

\* CommitTransaction and sendrawtransaction admit a transaction without a message.
LocalTx(t) ==
    /\ handler = "idle"
    /\ MayAccept(t)
    /\ mempool' = mempool \cup {t}
    /\ untold' = untold \cup {t}
    /\ UNCHANGED <<chainTxs, orphanVars, handler, vWorkQueue, candidates, vEraseQueue>>

OrphanInit ==
    /\ mempool = {} /\ chainTxs = {}
    /\ mapOrphanTransactions = {} /\ mapOrphanTransactionsByPrev = [h \in {} |-> {}]
    /\ handler = "idle"
    /\ vWorkQueue = <<>> /\ candidates = {} /\ vEraseQueue = {}
    /\ untold = {}

OrphanNext ==
    \/ \E t \in LooseTxs : AcceptMessage(t) \/ OrphanMessage(t)
    \/ HandlerStep
    \/ \E t \in LooseTxs : ConnectTx(t) \/ LocalTx(t)

\* A message that is being handled is handled to the end.
OrphanSpec == OrphanInit /\ [][OrphanNext]_ovars /\ WF_ovars(HandlerStep)

-----------------------------------------------------------------------------
(***************************************************************************)
(* Properties.                                                             *)
(***************************************************************************)
OrphanTypeOK ==
    /\ mempool \subseteq LooseTxs /\ chainTxs \subseteq LooseTxs /\ untold \subseteq LooseTxs
    /\ mapOrphanTransactions \subseteq LooseTxs
    /\ handler \in {"idle", "limit", "work", "erase"}
    /\ vWorkQueue \in Seq(LooseTxs)
    /\ candidates \subseteq LooseTxs /\ vEraseQueue \subseteq LooseTxs
    /\ handler \in {"idle", "limit"} => vEraseQueue = {}
    /\ handler # "work" => vWorkQueue = <<>> /\ candidates = {}

\* The index knows every orphan under everything it spends, and nothing else:
\* what is erased, evicted or admitted leaves both maps (AddOrphanTx,
\* EraseOrphanTx).
IndexAgrees ==
    /\ \A t \in mapOrphanTransactions :
         Parents[t] \subseteq DOMAIN mapOrphanTransactionsByPrev
    /\ \A h \in DOMAIN mapOrphanTransactionsByPrev :
         mapOrphanTransactionsByPrev[h] = {t \in mapOrphanTransactions : h \in Parents[t]}

\* Between two messages there are no more orphans than allowed, in the middle
\* of one there is at most one more (LimitOrphanTxSize).
OrphansBounded ==
    Cardinality(mapOrphanTransactions)
      <= MAX_ORPHAN_TRANSACTIONS + (IF handler = "limit" THEN 1 ELSE 0)

\* An orphan whose parents are all here waits only if one of them, or the
\* orphan itself, came without a tx message; while a message is handled it may
\* also be waiting for its turn (the loop over vWorkQueue).
OrphansWait ==
    \A t \in mapOrphanTransactions : Parents[t] \subseteq Available =>
      \/ t \in candidates \cup vEraseQueue \cup untold
      \/ Parents[t] \cap (ToSet(vWorkQueue) \cup untold) # {}

\* The orphans are bounded, indexed by what they wait for, and do wait for it.
OrphansSound == OrphanTypeOK /\ IndexAgrees /\ OrphansBounded /\ OrphansWait

\* A tx message is handled to the end, whatever hangs on its transaction.
MessageEnds == handler # "idle" ~> handler = "idle"
=============================================================================
