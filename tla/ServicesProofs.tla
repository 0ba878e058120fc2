--------------------------- MODULE ServicesProofs ---------------------------
(***************************************************************************)
(* Theorems about the services of a node (Services): the relocking of the  *)
(* wallet, the orphan transactions, the handles of the database files, the *)
(* alerts and the balances. Each is about the specification of its service *)
(* alone.                                                                  *)
(***************************************************************************)
EXTENDS Relock, OrphanTxs, DbEnv, Alerts, Balances, Induction, FiniteSetTheorems,
        SequenceTheorems

-----------------------------------------------------------------------------
(***************************************************************************)
(* For any number of calls and threads, any timeouts and any scheduling, an *)
(* unlocked wallet is about to be locked again. The invariant of the       *)
(* properties needs three facts more: a time that is set has a sleeper     *)
(* that will see it, the call that is executed is the session, and no time *)
(* of waking is the zero that means none.                                  *)
(***************************************************************************)
Sleeps(t, u) == Pc(t) = "asleep" /\ timer[t].until <= u

TimeHasSleeper == nWalletUnlockTime # 0 => \E t \in Calls : Sleeps(t, nWalletUnlockTime)
CallIsSession == calling # None => session = calling
ReadyKnowsTime ==
    \A t \in Calls : /\ Pc(t) = "born" => timer[t].wake \in Periods
                     /\ Pc(t) = "ready" => timer[t].wake # 0

RInv ==
    /\ RelockTypeOK
    /\ UnlockedIsTimed
    /\ MintOnlyIsKept
    /\ TimeHasSleeper
    /\ CallIsSession
    /\ ReadyKnowsTime

LEMMA RelockInitially == RelockInit => RInv
<1> SUFFICES ASSUME RelockInit PROVE RInv
  OBVIOUS
<1>1. RelockTypeOK
  <2>1. locked \in BOOLEAN /\ fWalletUnlockMintOnly \in BOOLEAN /\ mintOnly \in BOOLEAN
    BY Zenon DEF RelockInit
  <2> QED
    BY <2>1, RelockAssumption DEF RelockInit, RelockTypeOK, Unborn, TimerStates
<1>2. UnlockedIsTimed /\ MintOnlyIsKept
  <2>1. locked
    BY DEF RelockInit
  <2> QED
    BY <2>1 DEF UnlockedIsTimed, MintOnlyIsKept
<1>4. TimeHasSleeper /\ CallIsSession
  BY DEF RelockInit, TimeHasSleeper, CallIsSession
<1>3. ReadyKnowsTime
  BY DEF RelockInit, ReadyKnowsTime, Pc, Unborn
<1> QED
  BY <1>1, <1>2, <1>3, <1>4 DEF RInv

LEMMA PassphraseKeeps == ASSUME RInv, walletpassphrase PROVE RInv'
<1> USE DEF RInv, RelockTypeOK, TimerStates, Pc
<1>1. ASSUME NEW t \in Calls, NEW mint \in BOOLEAN, Unlock(t, mint) PROVE RInv'
  <2>1. RelockTypeOK'
    BY <1>1 DEF Unlock
  <2>2. UnlockedIsTimed'
    BY <1>1, RelockAssumption DEF Unlock, UnlockedIsTimed, Starting
  <2>3. MintOnlyIsKept' /\ TimeHasSleeper' /\ CallIsSession' /\ ReadyKnowsTime'
    BY <1>1, RelockAssumption
    DEF Unlock, MintOnlyIsKept, TimeHasSleeper, CallIsSession, ReadyKnowsTime, Sleeps
  <2> QED
    BY <2>1, <2>2, <2>3
<1>2. ASSUME NEW p \in Periods, StartThread(p) PROVE RInv'
  <2>1. calling \in Calls /\ session = calling
    BY <1>2 DEF StartThread, CallIsSession
  <2>2. RelockTypeOK'
    BY <1>2, <2>1, RelockAssumption DEF StartThread
  <2>3. \A t \in Calls \ {calling} : timer'[t] = timer[t]
    BY <1>2, <2>1 DEF StartThread
  <2>4. timer'[calling].pc = "born" /\ timer[calling].pc = "unborn"
    BY <1>2, <2>1 DEF StartThread
  <2>5. UnlockedIsTimed'
    BY <1>2, <2>1, <2>4, RelockAssumption DEF StartThread, UnlockedIsTimed, Starting
  <2>6. TimeHasSleeper'
    BY <1>2, <2>3, <2>4 DEF StartThread, TimeHasSleeper, Sleeps
  <2>7. MintOnlyIsKept' /\ CallIsSession'
    BY <1>2 DEF StartThread, MintOnlyIsKept, CallIsSession
  <2>8. ReadyKnowsTime'
    BY <1>2, <2>1, <2>3, <2>4 DEF ReadyKnowsTime, StartThread
  <2> QED
    BY <2>2, <2>5, <2>6, <2>7, <2>8
<1>3. ASSUME Return PROVE RInv'
  <2>1. RelockTypeOK'
    BY <1>3 DEF Return
  <2>2. UnlockedIsTimed'
    BY <1>3 DEF Return, UnlockedIsTimed, Starting, CallIsSession
  <2>3. MintOnlyIsKept' /\ TimeHasSleeper' /\ CallIsSession' /\ ReadyKnowsTime'
    BY <1>3 DEF Return, MintOnlyIsKept, TimeHasSleeper, CallIsSession, ReadyKnowsTime, Sleeps
  <2> QED
    BY <2>1, <2>2, <2>3
<1>4. ASSUME BadTimeout \/ BadMintOnly PROVE RInv'
  <2>1. RelockTypeOK'
    BY <1>4 DEF BadTimeout, BadMintOnly
  <2>2. UnlockedIsTimed'
    BY <1>4 DEF BadTimeout, BadMintOnly, UnlockedIsTimed, Starting, CallIsSession
  <2>3. MintOnlyIsKept' /\ TimeHasSleeper' /\ CallIsSession' /\ ReadyKnowsTime'
    BY <1>4
    DEF BadTimeout, BadMintOnly, MintOnlyIsKept, TimeHasSleeper, CallIsSession, ReadyKnowsTime, Sleeps
  <2> QED
    BY <2>1, <2>2, <2>3
<1> QED
  BY <1>1, <1>2, <1>3, <1>4 DEF walletpassphrase

LEMMA LockKeeps == ASSUME RInv, walletlock PROVE RInv'
<1> USE DEF RInv, walletlock, Lock
<1>4. locked' \in BOOLEAN /\ fWalletUnlockMintOnly' \in BOOLEAN /\ locked'
  BY Zenon
<1>1. RelockTypeOK'
  BY <1>4 DEF RelockTypeOK
<1>2. UnlockedIsTimed' /\ MintOnlyIsKept'
  BY <1>4 DEF UnlockedIsTimed, MintOnlyIsKept
<1>3. TimeHasSleeper' /\ CallIsSession' /\ ReadyKnowsTime'
  BY DEF TimeHasSleeper, CallIsSession, ReadyKnowsTime, Pc
<1> QED
  BY <1>1, <1>2, <1>3

LEMMA ComputeKeeps ==
    ASSUME RInv, NEW t \in Calls, ComputeWake(t)
    PROVE  RInv'
<1> USE DEF RInv, RelockTypeOK, TimerStates, Pc
<1>1. /\ timer[t].pc = "born" /\ timer'[t].pc = "ready"
      /\ timer'[t].wake = now + timer[t].wake
      /\ \A o \in Calls \ {t} : timer'[o] = timer[o]
  BY DEF ComputeWake
<1>2. timer[t].wake \in Periods /\ now \in 1 .. Horizon
  BY <1>1, RelockAssumption DEF ComputeWake, ReadyKnowsTime
<1>3. now + timer[t].wake \in Int /\ now + timer[t].wake # 0
  BY <1>2, RelockAssumption
<1>4. RelockTypeOK'
  BY <1>3 DEF ComputeWake
<1>5. ReadyKnowsTime'
  BY <1>1, <1>3 DEF ReadyKnowsTime
<1>6. TimeHasSleeper'
  BY <1>1 DEF ComputeWake, TimeHasSleeper, Sleeps
<1>7. UnlockedIsTimed'
  BY <1>1 DEF ComputeWake, UnlockedIsTimed, Starting
<1>8. MintOnlyIsKept' /\ CallIsSession'
  BY DEF ComputeWake, MintOnlyIsKept, CallIsSession
<1> QED
  BY <1>4, <1>5, <1>6, <1>7, <1>8

\* One pass of the loop, entered for the first time or after a sleep.
LEMMA LoopKeeps ==
    ASSUME RInv, NEW t \in Calls, NEW u \in Int, Loop(t, u),
           UNCHANGED <<now, calling, session, mintOnly>>,
           \/ /\ Pc(t) = "ready" /\ nWalletUnlockTime = 0
              /\ u = timer[t].wake /\ u # 0
           \/ Pc(t) = "asleep" /\ u = nWalletUnlockTime
    PROVE  RInv'
<1> USE DEF RInv, RelockTypeOK, TimerStates, Pc
<1>1. /\ timer'[t].pc \in {"asleep", "ended"} /\ timer'[t].wake = timer[t].wake
      /\ \A o \in Calls \ {t} : timer'[o] = timer[o]
  BY DEF Loop
<1>7. locked' \in BOOLEAN /\ fWalletUnlockMintOnly' \in BOOLEAN
  BY Zenon DEF Loop, Lock
<1>2. RelockTypeOK'
  BY <1>7 DEF Loop, Lock
<1>3. ReadyKnowsTime' /\ CallIsSession'
  BY <1>1 DEF ReadyKnowsTime, CallIsSession
<1>4. MintOnlyIsKept'
  BY DEF Loop, Lock, MintOnlyIsKept
<1>5. TimeHasSleeper'
  BY <1>2 DEF Loop, TimeHasSleeper, Sleeps
<1>6. UnlockedIsTimed'
  <2> SUFFICES ASSUME ~locked', session' # None PROVE UnlockedIsTimed'
    BY DEF UnlockedIsTimed
  <2>1. ~locked /\ session # None
    BY DEF Loop, Lock, UnlockedIsTimed
  <2>2. session \in Calls
    BY <2>1
  <2>3. CASE u = 0
    <3>1. Starting /\ session # t
      BY <2>1, <2>3 DEF UnlockedIsTimed, Starting
    <3> QED
      BY <1>1, <2>1, <2>2, <3>1 DEF UnlockedIsTimed, Starting
  <2>4. CASE u # 0
    <3>1. /\ nWalletUnlockTime' = u /\ session' = session
          /\ timer'[t].pc = "asleep" /\ timer'[t].until = u
          /\ \E o \in Calls : timer'[o].pc = "asleep" /\ timer'[o].until <= nWalletUnlockTime'
      BY <2>4 DEF Loop, Lock
    <3>2. CASE session = t
      <4>1. timer[t].wake <= u
        BY <2>1, <3>2 DEF UnlockedIsTimed, Starting, CallIsSession
      <4> QED
        BY <1>1, <2>1, <2>4, <3>1, <3>2, <4>1 DEF UnlockedIsTimed
    <3>3. CASE session # t
      <4>1. timer'[session] = timer[session]
        BY <1>1, <2>2, <3>3
      <4>2. CASE Starting
        BY <2>1, <4>1, <4>2 DEF UnlockedIsTimed, Starting
      <4>3. CASE ~Starting
        <5>1. timer[session].wake <= u
          BY <2>1, <4>3, <2>4 DEF UnlockedIsTimed
        <5> QED
          BY <2>1, <2>4, <3>1, <4>1, <5>1 DEF UnlockedIsTimed
      <4> QED
        BY <4>2, <4>3
    <3> QED
      BY <3>2, <3>3
  <2> QED
    BY <2>3, <2>4
<1> QED
  BY <1>2, <1>3, <1>4, <1>5, <1>6

LEMMA PostponeKeeps ==
    ASSUME RInv, NEW t \in Calls, Pc(t) = "ready", nWalletUnlockTime # 0, Postpone(t),
           UNCHANGED <<now, calling, session, mintOnly>>
    PROVE  RInv'
<1> USE DEF RInv, RelockTypeOK, TimerStates, Pc
<1>1. /\ timer'[t].pc = "ended" /\ timer'[t].wake = timer[t].wake
      /\ \A o \in Calls \ {t} : timer'[o] = timer[o]
  BY DEF Postpone
<1>2. RelockTypeOK'
  BY DEF Postpone
<1>3. /\ nWalletUnlockTime <= nWalletUnlockTime'
      /\ timer[t].wake <= nWalletUnlockTime'
  BY DEF Postpone
<1>4. PICK o \in Calls : Sleeps(o, nWalletUnlockTime)
  BY DEF TimeHasSleeper
<1>5. o # t /\ Pc(o)' = "asleep" /\ timer'[o].until <= nWalletUnlockTime'
  <2>1. timer[o].until \in Int /\ timer[o].until <= nWalletUnlockTime /\ timer[o].pc = "asleep"
    BY <1>4 DEF Sleeps
  <2> QED
    BY <1>1, <1>2, <1>3, <2>1
<1>6. ReadyKnowsTime' /\ CallIsSession' /\ MintOnlyIsKept'
  BY <1>1 DEF Postpone, ReadyKnowsTime, CallIsSession, MintOnlyIsKept
<1>7. TimeHasSleeper'
  BY <1>5 DEF TimeHasSleeper, Sleeps
<1>8. UnlockedIsTimed'
  <2> SUFFICES ASSUME ~locked', session' # None PROVE UnlockedIsTimed'
    BY DEF UnlockedIsTimed
  <2>1. ~locked /\ session \in Calls /\ session # None
    BY DEF Postpone, UnlockedIsTimed
  <2>2. nWalletUnlockTime' # 0
    \* If it were, the time before was negative and its sleeper would wait for less.
    BY <1>2 DEF Postpone, ReadyKnowsTime
  <2>3. CASE session = t
    BY <1>1, <1>3, <1>5, <2>1, <2>2, <2>3 DEF UnlockedIsTimed
  <2>4. CASE session # t /\ Starting
    BY <1>1, <2>1, <2>4 DEF UnlockedIsTimed, Starting
  <2>5. CASE session # t /\ ~Starting
    <3>1. timer[session].wake <= nWalletUnlockTime /\ timer'[session] = timer[session]
      BY <1>1, <2>1, <2>5 DEF UnlockedIsTimed
    <3>2. timer'[session].wake <= nWalletUnlockTime'
      BY <1>2, <1>3, <2>1, <3>1
    <3> QED
      BY <1>5, <2>1, <2>2, <3>2 DEF UnlockedIsTimed
  <2> QED
    BY <2>3, <2>4, <2>5
<1> QED
  BY <1>2, <1>6, <1>7, <1>8

LEMMA TickKeeps == ASSUME RInv, Tick PROVE RInv'
BY DEF RInv, RelockTypeOK, TimerStates, Pc, Tick, UnlockedIsTimed, Starting, MintOnlyIsKept,
       TimeHasSleeper, Sleeps, CallIsSession, ReadyKnowsTime

LEMMA RelockStep == RInv /\ [RelockNext]_rvars => RInv'
<1> SUFFICES ASSUME RInv, [RelockNext]_rvars PROVE RInv'
  OBVIOUS
<1>1. CASE walletpassphrase
  BY <1>1, PassphraseKeeps
<1>2. CASE walletlock
  BY <1>2, LockKeeps
<1>3. ASSUME NEW t \in Calls, ThreadStep(t) PROVE RInv'
  <2>1. CASE ComputeWake(t)
    BY <2>1, ComputeKeeps
  <2>2. CASE Enter(t)
    <3>1. timer[t].wake \in Int /\ timer[t].wake # 0
      BY <2>2 DEF Enter, RInv, RelockTypeOK, ReadyKnowsTime
    <3>2. CASE nWalletUnlockTime = 0
      BY <2>2, <3>1, <3>2, LoopKeeps DEF Enter
    <3>3. CASE nWalletUnlockTime # 0
      BY <2>2, <3>3, PostponeKeeps DEF Enter
    <3> QED
      BY <3>2, <3>3
  <2>3. CASE Wake(t)
    <3>1. nWalletUnlockTime \in Int
      BY DEF RInv, RelockTypeOK
    <3> QED
      BY <2>3, <3>1, LoopKeeps DEF Wake
  <2> QED
    BY <1>3, <2>1, <2>2, <2>3 DEF ThreadStep
<1>4. CASE Tick
  BY <1>4, TickKeeps
<1>5. CASE UNCHANGED rvars
  BY <1>5
  DEF rvars, RInv, RelockTypeOK, Pc, UnlockedIsTimed, Starting, MintOnlyIsKept, TimeHasSleeper,
      Sleeps, CallIsSession, ReadyKnowsTime
<1> QED
  BY <1>1, <1>2, <1>3, <1>4, <1>5 DEF RelockNext

\* However many calls of walletpassphrase and walletlock and threads of
\* ThreadCleanWalletPassphrase interleave, an unlocked wallet has a thread that
\* will lock it, no earlier than the last walletpassphrase asked for, and the
\* minting flag is the one asked for.
THEOREM UnlockedWalletIsTimed == RelockSpec => []RelockSound
<1>1. RInv => RelockSound
  BY DEF RInv, RelockSound
<1> QED
  BY <1>1, RelockInitially, RelockStep, PTL DEF RelockSpec
-----------------------------------------------------------------------------
(***************************************************************************)
(* The properties of OrphanTxs hold for every set of transactions and      *)
(* every bound: OrphansSound is inductive.                                 *)
(***************************************************************************)
\* What a work queue holds after an append, and of what it is made.
LEMMA QueueAppend ==
    ASSUME NEW S, NEW q \in Seq(S), NEW t \in S
    PROVE  ToSet(Append(q, t)) = ToSet(q) \cup {t}
<1>1. ToSet(q) \subseteq ToSet(Append(q, t)) BY DEF ToSet
<1>2. t \in ToSet(Append(q, t))
  <2>1. Append(q, t)[Len(q) + 1] = t /\ Len(q) + 1 \in DOMAIN Append(q, t) OBVIOUS
  <2>. QED BY <2>1 DEF ToSet
<1>3. ToSet(Append(q, t)) \subseteq ToSet(q) \cup {t} BY DEF ToSet
<1>. QED BY <1>1, <1>2, <1>3

LEMMA QueueTail ==
    ASSUME NEW S, NEW q \in Seq(S), q # <<>>
    PROVE  ToSet(q) \subseteq {Head(q)} \cup ToSet(Tail(q))
<1>. SUFFICES ASSUME NEW i \in 1..Len(q), i # 1 PROVE q[i] \in ToSet(Tail(q))
  BY DEF ToSet
<1>1. i - 1 \in DOMAIN Tail(q) /\ Tail(q)[i - 1] = q[i] OBVIOUS
<1>. QED BY <1>1 DEF ToSet

\* An orphan that is erased leaves both maps as they should be.
LEMMA ErasingKeepsIndex ==
    ASSUME OrphanAssumption, OrphanTypeOK, IndexAgrees,
           NEW t \in LooseTxs, EraseOrphanTx(t)
    PROVE  /\ IndexAgrees'
           /\ mapOrphanTransactions' \subseteq mapOrphanTransactions
           /\ t \notin mapOrphanTransactions'
<1>1. CASE t \notin mapOrphanTransactions
  BY <1>1 DEF EraseOrphanTx, orphanVars, IndexAgrees
<1>2. CASE t \in mapOrphanTransactions
  <2>1. /\ mapOrphanTransactions' = mapOrphanTransactions \ {t}
        /\ mapOrphanTransactionsByPrev' = WithoutOrphan(t)
    BY <1>2 DEF EraseOrphanTx
  <2>2. ASSUME NEW h \in DOMAIN mapOrphanTransactionsByPrev'
        PROVE  mapOrphanTransactionsByPrev'[h]
                 = {u \in mapOrphanTransactions' : h \in Parents[u]}
    BY <2>1, <2>2 DEF WithoutOrphan, OrphansOf, IndexAgrees
  <2>3. ASSUME NEW u \in mapOrphanTransactions', NEW h \in Parents[u]
        PROVE  h \in DOMAIN mapOrphanTransactionsByPrev'
    <3>1. h \in DOMAIN mapOrphanTransactionsByPrev /\ u \in OrphansOf(h) /\ u # t
      BY <2>1 DEF IndexAgrees, OrphansOf
    <3>. QED BY <3>1, <2>1 DEF WithoutOrphan
  <2>. QED BY <2>1, <2>2, <2>3 DEF IndexAgrees
<1>. QED BY <1>1, <1>2

LEMMA OrphanInitSound == OrphanAssumption /\ OrphanInit => OrphansSound
<1>. SUFFICES ASSUME OrphanAssumption, OrphanInit PROVE OrphansSound OBVIOUS
<1>1. OrphanTypeOK BY DEF OrphanInit, OrphanTypeOK
<1>2. IndexAgrees BY DEF OrphanInit, IndexAgrees
<1>3. OrphansBounded
  BY FS_EmptySet DEF OrphanInit, OrphansBounded, OrphanAssumption
<1>4. OrphansWait BY DEF OrphanInit, OrphansWait
<1>. QED BY <1>1, <1>2, <1>3, <1>4 DEF OrphansSound

\* The orphans stay within a bound when one of them goes or none comes.
LEMMA FewerOrphans ==
    ASSUME OrphanAssumption, NEW S, NEW T, S \subseteq LooseTxs, T \subseteq S
    PROVE  Cardinality(T) \in Nat /\ Cardinality(S) \in Nat /\ Cardinality(T) <= Cardinality(S)
<1>1. IsFiniteSet(S) BY FS_Subset DEF OrphanAssumption
<1>2. IsFiniteSet(T) /\ Cardinality(T) <= Cardinality(S) BY <1>1, FS_Subset
<1>. QED BY <1>1, <1>2, FS_CardinalityType

\* A message that admits its transaction.
LEMMA AcceptMessageSound ==
    ASSUME OrphanAssumption, OrphansSound, NEW t \in LooseTxs, AcceptMessage(t)
    PROVE  OrphansSound'
<1>. USE DEF OrphansSound
<1>1. OrphanTypeOK' BY DEF OrphanTypeOK, AcceptMessage, orphanVars
<1>2. IndexAgrees' BY DEF IndexAgrees, AcceptMessage, orphanVars
<1>3. OrphansBounded' BY DEF OrphansBounded, AcceptMessage, orphanVars, OrphanTypeOK
<1>4. OrphansWait'
  <2>1. ToSet(vWorkQueue') = {t} BY DEF AcceptMessage, ToSet
  <2>2. Available' = Available \cup {t} BY DEF AcceptMessage, Available
  <2>3. handler = "idle" => vWorkQueue = <<>> /\ vEraseQueue = {} BY DEF OrphanTypeOK
  <2>4. ToSet(<<>>) = {} BY DEF ToSet
  <2>. QED BY <2>1, <2>2, <2>3, <2>4 DEF OrphansWait, AcceptMessage, orphanVars
<1>. QED BY <1>1, <1>2, <1>3, <1>4

\* A message that leaves an orphan.
LEMMA OrphanMessageSound ==
    ASSUME OrphanAssumption, OrphansSound, NEW t \in LooseTxs, OrphanMessage(t)
    PROVE  OrphansSound'
<1>. USE DEF OrphansSound
<1>1. CASE t \in mapOrphanTransactions \/ t \in BigTxs
  <2>1. UNCHANGED orphanVars BY <1>1 DEF OrphanMessage, AddOrphanTx
  <2>2. OrphanTypeOK' BY <2>1 DEF OrphanTypeOK, OrphanMessage, orphanVars
  <2>3. IndexAgrees' BY <2>1 DEF IndexAgrees, orphanVars
  <2>4. OrphansBounded'
    <3>1. Cardinality(mapOrphanTransactions) \in Nat
      BY FewerOrphans DEF OrphanTypeOK
    <3>. QED BY <2>1, <3>1
           DEF OrphansBounded, OrphanMessage, orphanVars, OrphanAssumption
  <2>5. OrphansWait' BY <2>1 DEF OrphansWait, OrphanMessage, orphanVars, Available
  <2>. QED BY <2>2, <2>3, <2>4, <2>5
<1>2. CASE ~(t \in mapOrphanTransactions \/ t \in BigTxs)
  <2>1. mapOrphanTransactions' = mapOrphanTransactions \cup {t}
    BY <1>2 DEF OrphanMessage, AddOrphanTx
  <2>2. mapOrphanTransactionsByPrev' =
          [h \in DOMAIN mapOrphanTransactionsByPrev \cup Parents[t] |->
             IF h \in Parents[t] THEN OrphansOf(h) \cup {t} ELSE OrphansOf(h)]
    BY <1>2 DEF OrphanMessage, AddOrphanTx
  <2>3. OrphanTypeOK' BY <2>1 DEF OrphanTypeOK, OrphanMessage
  <2>4. IndexAgrees'
    <3>1. ASSUME NEW h \in DOMAIN mapOrphanTransactionsByPrev'
          PROVE  mapOrphanTransactionsByPrev'[h]
                   = {u \in mapOrphanTransactions' : h \in Parents[u]}
      <4>1. OrphansOf(h) = {u \in mapOrphanTransactions : h \in Parents[u]}
        BY DEF IndexAgrees, OrphansOf
      <4>. QED BY <4>1, <2>1, <2>2, <3>1
    <3>2. ASSUME NEW u \in mapOrphanTransactions'
          PROVE  Parents[u] \subseteq DOMAIN mapOrphanTransactionsByPrev'
      BY <2>1, <2>2 DEF IndexAgrees
    <3>. QED BY <3>1, <3>2 DEF IndexAgrees
  <2>5. OrphansBounded'
    <3>1. IsFiniteSet(mapOrphanTransactions)
      BY FS_Subset DEF OrphanAssumption, OrphanTypeOK
    <3>2. /\ Cardinality(mapOrphanTransactions') = Cardinality(mapOrphanTransactions) + 1
          /\ Cardinality(mapOrphanTransactions) \in Nat
      BY <1>2, <2>1, <3>1, FS_AddElement, FS_CardinalityType
    <3>. QED BY <3>2 DEF OrphansBounded, OrphanMessage, OrphanAssumption
  <2>6. OrphansWait'
    <3>1. ~(Parents[t] \subseteq Available) BY DEF OrphanMessage, MissingInputs
    <3>. QED BY <2>1, <3>1 DEF OrphansWait, OrphanMessage, Available
  <2>. QED BY <2>3, <2>4, <2>5, <2>6
<1>. QED BY <1>1, <1>2

LEMMA LimitSound ==
    ASSUME OrphanAssumption, OrphansSound, LimitOrphanTxSize PROVE OrphansSound'
<1>. USE DEF OrphansSound
<1>0. Cardinality(mapOrphanTransactions) \in Nat BY FewerOrphans DEF OrphanTypeOK
<1>1. CASE Cardinality(mapOrphanTransactions) > MAX_ORPHAN_TRANSACTIONS
  <2>1. PICK t \in mapOrphanTransactions : EraseOrphanTx(t)
    BY <1>1 DEF LimitOrphanTxSize
  <2>2. t \in LooseTxs BY DEF OrphanTypeOK
  <2>3. /\ IndexAgrees'
        /\ mapOrphanTransactions' \subseteq mapOrphanTransactions
    BY <2>1, <2>2, ErasingKeepsIndex
  <2>4. OrphanTypeOK' BY <1>1, <2>3 DEF OrphanTypeOK, LimitOrphanTxSize
  <2>5. /\ Cardinality(mapOrphanTransactions') <= Cardinality(mapOrphanTransactions)
        /\ Cardinality(mapOrphanTransactions') \in Nat
    BY <2>3, FewerOrphans DEF OrphanTypeOK
  <2>6. OrphansBounded'
    BY <1>0, <1>1, <2>5 DEF OrphansBounded, LimitOrphanTxSize, OrphanAssumption
  <2>7. OrphansWait' BY <2>3 DEF OrphansWait, LimitOrphanTxSize, Available
  <2>. QED BY <2>3, <2>4, <2>6, <2>7
<1>2. CASE ~(Cardinality(mapOrphanTransactions) > MAX_ORPHAN_TRANSACTIONS)
  <2>1. UNCHANGED orphanVars /\ handler' = "idle" BY <1>2 DEF LimitOrphanTxSize
  <2>2. OrphanTypeOK' BY <2>1 DEF OrphanTypeOK, LimitOrphanTxSize, orphanVars
  <2>3. IndexAgrees' BY <2>1 DEF IndexAgrees, orphanVars
  <2>4. OrphansBounded'
    BY <1>0, <1>2, <2>1 DEF OrphansBounded, orphanVars, OrphanAssumption
  <2>5. OrphansWait' BY <2>1 DEF OrphansWait, LimitOrphanTxSize, orphanVars, Available
  <2>. QED BY <2>2, <2>3, <2>4, <2>5
<1>. QED BY <1>1, <1>2

LEMMA NextPrevSound ==
    ASSUME OrphanAssumption, OrphansSound, NextPrev PROVE OrphansSound'
<1>. USE DEF OrphansSound
<1>. DEFINE hashPrev == Head(vWorkQueue)
<1>0. vWorkQueue \in Seq(LooseTxs) /\ vWorkQueue # <<>> BY DEF NextPrev, OrphanTypeOK
<1>1. OrphansOf(hashPrev) = {t \in mapOrphanTransactions : hashPrev \in Parents[t]}
  BY DEF IndexAgrees, OrphansOf
<1>2. OrphanTypeOK'
  <2>1. Tail(vWorkQueue) \in Seq(LooseTxs) BY <1>0
  <2>. QED BY <1>0, <1>1, <2>1 DEF OrphanTypeOK, NextPrev
<1>3. IndexAgrees' BY <1>1 DEF IndexAgrees, NextPrev, OrphansOf
<1>4. OrphansBounded' BY DEF OrphansBounded, NextPrev
<1>5. OrphansWait'
  <2>1. ToSet(vWorkQueue) \subseteq {hashPrev} \cup ToSet(vWorkQueue')
    BY <1>0, QueueTail DEF NextPrev
  <2>. QED BY <1>1, <2>1 DEF OrphansWait, NextPrev, Available
<1>. QED BY <1>2, <1>3, <1>4, <1>5

LEMMA TryOrphanSound ==
    ASSUME OrphanAssumption, OrphansSound, NEW t \in LooseTxs, TryOrphan(t)
    PROVE  OrphansSound'
<1>. USE DEF OrphansSound
<1>0. vWorkQueue \in Seq(LooseTxs) BY DEF OrphanTypeOK
<1>1. IndexAgrees' BY DEF IndexAgrees, TryOrphan, orphanVars
<1>2. OrphansBounded' BY DEF OrphansBounded, TryOrphan, orphanVars
<1>3. CASE AcceptOrphan(t)
  <2>1. ToSet(vWorkQueue') = ToSet(vWorkQueue) \cup {t}
    BY <1>0, <1>3, QueueAppend DEF AcceptOrphan
  <2>2. Append(vWorkQueue, t) \in Seq(LooseTxs) BY <1>0
  <2>3. OrphanTypeOK' BY <1>3, <2>2 DEF OrphanTypeOK, TryOrphan, AcceptOrphan, orphanVars
  <2>4. Available' = Available \cup {t} BY <1>3 DEF AcceptOrphan, TryOrphan, Available
  <2>5. OrphansWait'
    BY <1>3, <2>1, <2>4 DEF OrphansWait, TryOrphan, AcceptOrphan, orphanVars
  <2>. QED BY <1>1, <1>2, <2>3, <2>5
<1>4. CASE DropOrphan(t) \/ LeaveOrphan(t)
  <2>1. OrphanTypeOK'
    BY <1>4 DEF OrphanTypeOK, TryOrphan, DropOrphan, LeaveOrphan, orphanVars
  <2>2. LeaveOrphan(t) => ~(Parents[t] \subseteq Available)
    BY DEF LeaveOrphan, MissingInputs
  <2>3. OrphansWait'
    BY <1>4, <2>2 DEF OrphansWait, TryOrphan, DropOrphan, LeaveOrphan, orphanVars, Available
  <2>. QED BY <1>1, <1>2, <2>1, <2>3
<1>. QED BY <1>3, <1>4 DEF TryOrphan

LEMMA EraseNextSound ==
    ASSUME OrphanAssumption, OrphansSound, NEW t \in LooseTxs, EraseNext(t)
    PROVE  OrphansSound'
<1>. USE DEF OrphansSound
<1>1. /\ IndexAgrees'
      /\ mapOrphanTransactions' \subseteq mapOrphanTransactions
      /\ t \notin mapOrphanTransactions'
  BY ErasingKeepsIndex DEF EraseNext
<1>2. OrphanTypeOK' BY <1>1 DEF OrphanTypeOK, EraseNext
<1>3. OrphansBounded'
  <2>1. /\ Cardinality(mapOrphanTransactions') <= Cardinality(mapOrphanTransactions)
        /\ Cardinality(mapOrphanTransactions') \in Nat
        /\ Cardinality(mapOrphanTransactions) \in Nat
    BY <1>1, FewerOrphans DEF OrphanTypeOK
  <2>. QED BY <2>1 DEF OrphansBounded, EraseNext, OrphanAssumption
<1>4. OrphansWait' BY <1>1 DEF OrphansWait, EraseNext, Available
<1>. QED BY <1>1, <1>2, <1>3, <1>4

\* The steps between and at the ends of the loops.
LEMMA TurnsSound ==
    ASSUME OrphanAssumption, OrphansSound, WorkDone \/ MessageDone PROVE OrphansSound'
<1>. USE DEF OrphansSound
<1>1. OrphanTypeOK' BY DEF OrphanTypeOK, WorkDone, MessageDone, orphanVars
<1>2. IndexAgrees' BY DEF IndexAgrees, WorkDone, MessageDone, orphanVars
<1>3. OrphansBounded' BY DEF OrphansBounded, WorkDone, MessageDone, orphanVars
<1>4. OrphansWait' BY DEF OrphansWait, WorkDone, MessageDone, orphanVars, Available
<1>. QED BY <1>1, <1>2, <1>3, <1>4

\* Blocks and the wallet.
LEMMA ElsewhereSound ==
    ASSUME OrphanAssumption, OrphansSound, NEW t \in LooseTxs, ConnectTx(t) \/ LocalTx(t)
    PROVE  OrphansSound'
<1>. USE DEF OrphansSound
<1>1. OrphanTypeOK' BY DEF OrphanTypeOK, ConnectTx, LocalTx, orphanVars
<1>2. IndexAgrees' BY DEF IndexAgrees, ConnectTx, LocalTx, orphanVars
<1>3. OrphansBounded' BY DEF OrphansBounded, ConnectTx, LocalTx, orphanVars
<1>4. OrphansWait'
  <2>1. Available' = Available \cup {t} BY DEF Available, ConnectTx, LocalTx
  <2>2. t \in Available \/ t \in untold' BY DEF Available, ConnectTx, LocalTx
  <2>3. untold \subseteq untold' BY DEF ConnectTx, LocalTx
  <2>. QED BY <2>1, <2>2, <2>3 DEF OrphansWait, ConnectTx, LocalTx, orphanVars
<1>. QED BY <1>1, <1>2, <1>3, <1>4

\* OrphansSound holds in every state: OrphansWait is inductive only together
\* with the agreement of the index, which is what NextPrev reads, and with the
\* queues being empty between two messages.
THEOREM OrphansStaySound == OrphanSpec => []OrphansSound
<1>. USE OrphanAssumption
<1>1. OrphanInit => OrphansSound BY OrphanInitSound
<1>2. OrphansSound /\ [OrphanNext]_ovars => OrphansSound'
  <2>. SUFFICES ASSUME OrphansSound, [OrphanNext]_ovars PROVE OrphansSound' OBVIOUS
  <2>1. CASE \E t \in LooseTxs : AcceptMessage(t) \/ OrphanMessage(t)
    BY <2>1, AcceptMessageSound, OrphanMessageSound
  <2>2. CASE HandlerStep
    BY <2>2, LimitSound, NextPrevSound, TurnsSound, TryOrphanSound, EraseNextSound
       DEF HandlerStep
  <2>3. CASE \E t \in LooseTxs : ConnectTx(t) \/ LocalTx(t)
    BY <2>3, ElsewhereSound
  <2>4. CASE UNCHANGED ovars
    BY <2>4 DEF ovars, orphanVars, OrphansSound, OrphanTypeOK, IndexAgrees,
                OrphansBounded, OrphansWait, Available
  <2>. QED BY <2>1, <2>2, <2>3, <2>4 DEF OrphanNext
<1>. QED BY <1>1, <1>2, PTL DEF OrphanSpec
-----------------------------------------------------------------------------
(***************************************************************************)
(* The properties of DbEnv hold for every number of threads and files. The *)
(* inductive invariant adds what the flushing thread relies on: a thread   *)
(* that is in the middle of counting has read a value not older than the   *)
(* last flush, and before the flushing thread runs there is only one.      *)
(***************************************************************************)
\* Who counts has the wallet open and read the counter after the last flush.
CountersAreFresh ==
    /\ nLastFlushed <= nWalletDBUpdated
    /\ \A u \in Users : user[u].pc = "counting" =>
         user[u].file = WalletFile /\ nLastFlushed <= user[u].seen

\* Until the wallet is loaded one thread works, and nothing is owed.
LoaderIsAlone ==
    ~flushing =>
      /\ ~owed
      /\ \A u \in Users : u # Loader => user[u].pc = "idle"
      /\ \A u \in Users : user[u].pc = "counting" => user[u].seen = nWalletDBUpdated

HandlesHaveEntries == mapDb \subseteq DOMAIN mapFileUseCount

EnvStaysOpen == shutdown # "done" => fDbEnvInit

DInv ==
    /\ DbTypeOK /\ DatabaseSound
    /\ CountersAreFresh /\ LoaderIsAlone /\ HandlesHaveEntries /\ EnvStaysOpen

-----------------------------------------------------------------------------
LEMMA UsersFinite ==
    ASSUME DbAssumption, NEW f
    PROVE  IsFiniteSet(UsersOf(f)) /\ Cardinality(UsersOf(f)) \in Nat
<1>1. UsersOf(f) \in SUBSET Users BY DEF UsersOf
<1>2. IsFiniteSet(UsersOf(f)) BY <1>1, FS_Subset DEF DbAssumption
<1>. QED BY <1>2, FS_CardinalityType

\* A user who leaves the file.
LEMMA OneUserLess ==
    ASSUME DbAssumption, NEW f, NEW u \in UsersOf(f), UsersOf(f)' = UsersOf(f) \ {u}
    PROVE  /\ Cardinality(UsersOf(f)') = Cardinality(UsersOf(f)) - 1
           /\ Cardinality(UsersOf(f)') \in Nat
<1>1. IsFiniteSet(UsersOf(f)) BY UsersFinite
<1>2. /\ IsFiniteSet(UsersOf(f) \ {u})
      /\ Cardinality(UsersOf(f) \ {u}) = Cardinality(UsersOf(f)) - 1
  BY <1>1, FS_RemoveElement, Zenon
<1>3. Cardinality(UsersOf(f) \ {u}) \in Nat BY <1>2, FS_CardinalityType, Zenon
<1>. QED BY <1>2, <1>3, Zenon

\* A count of zero is believed: nobody has the file.
LEMMA UnusedHasNoUsers ==
    ASSUME DbAssumption, CountsAgree, NEW f \in Files, Unused(f)
    PROVE  UsersOf(f) = {}
<1>1. CountOf(f) = 0 BY DEF CountOf, Unused
<1>2. Cardinality(UsersOf(f)) = 0 BY <1>1 DEF CountsAgree
<1>. QED BY <1>2, UsersFinite, FS_EmptySet

\* Closing the handles of unused files disturbs nobody.
LEMMA DetachIsSound ==
    ASSUME DbAssumption, DInv, UNCHANGED user,
           NEW files \in SUBSET Files, Detach(files),
           \A f \in files : UsersOf(f) = {}
    PROVE  /\ CountsAgree'
           /\ closedUnder' = {}
           /\ \A u \in Users : Holding(u)' => user'[u].file \in mapDb'
           /\ HandlesHaveEntries'
           /\ DOMAIN mapFileUseCount' = DOMAIN mapFileUseCount \ files
           /\ \A f \in DOMAIN mapFileUseCount' : mapFileUseCount'[f] \in Nat
           /\ mapDb' = mapDb \ files
           /\ owed' => owed /\ WalletFile \notin files
           /\ owed' \in BOOLEAN
<1>. USE DEF DInv, DatabaseSound
<1>1. /\ DOMAIN mapFileUseCount' = DOMAIN mapFileUseCount \ files
      /\ \A f \in DOMAIN mapFileUseCount' : mapFileUseCount'[f] = mapFileUseCount[f]
      /\ mapDb' = mapDb \ files
      /\ owed' = (owed /\ WalletFile \notin files)
  BY DEF Detach, Restrict
<1>2. \A u \in Users : user[u].pc # "idle" => user[u].file \notin files
  BY DEF UsersOf
<1>3. closedUnder' = {} BY <1>2 DEF Detach, Holding, HandlesLive
<1>4. CountsAgree'
  <2>. SUFFICES ASSUME NEW f \in Files
                PROVE  CountOf(f)' = Cardinality(UsersOf(f)')
    BY DEF CountsAgree
  <2>1. UsersOf(f)' = UsersOf(f) BY DEF UsersOf
  <2>2. CASE f \in files
    BY <2>1, <2>2, <1>1, FS_EmptySet DEF CountOf
  <2>3. CASE f \notin files
    <3>1. CountOf(f)' = CountOf(f) BY <2>3, <1>1 DEF CountOf
    <3>. QED BY <3>1, <2>1 DEF CountsAgree
  <2>. QED BY <2>2, <2>3
<1>5. \A u \in Users : Holding(u)' => user'[u].file \in mapDb'
  BY <1>1, <1>2 DEF Holding, HandlesLive
<1>. QED BY <1>1, <1>3, <1>4, <1>5 DEF HandlesHaveEntries, DbTypeOK

-----------------------------------------------------------------------------
LEMMA DbInitSound == DbAssumption /\ DbInit => DInv
<1>. SUFFICES ASSUME DbAssumption, DbInit PROVE DInv OBVIOUS
<1>1. DbTypeOK BY DEF DbInit, DbTypeOK, DbAssumption, Idle
<1>2. CountsAgree
  <2>1. \A f \in Files : UsersOf(f) = {} /\ CountOf(f) = 0
    BY DEF DbInit, UsersOf, CountOf, Idle
  <2>. QED BY <2>1, FS_EmptySet DEF CountsAgree
<1>3. HandlesLive /\ FlushNotMissed /\ ShutdownFlushes
  BY DEF DbInit, HandlesLive, FlushNotMissed, ShutdownFlushes, Holding, Idle
<1>4. CountersAreFresh /\ LoaderIsAlone /\ HandlesHaveEntries
  BY DEF DbInit, CountersAreFresh, LoaderIsAlone, HandlesHaveEntries, Idle
<1>5. EnvStaysOpen BY DEF DbInit, EnvStaysOpen
<1>. QED BY <1>1, <1>2, <1>3, <1>4, <1>5 DEF DInv, DatabaseSound

LEMMA OpenDbSound ==
    ASSUME DbAssumption, DInv, NEW u \in Users, NEW f \in Files, OpenDb(u, f)
    PROVE  DInv'
<1>. USE DEF DInv, DatabaseSound
<1>1. /\ user' = [user EXCEPT ![u] = [pc |-> "open", file |-> f, seen |-> 0]]
      /\ user[u].pc = "idle" /\ fDbEnvInit' = TRUE
      /\ mapDb' = mapDb \cup {f}
      /\ DOMAIN mapFileUseCount' = DOMAIN mapFileUseCount \cup {f}
      /\ mapFileUseCount'[f] = CountOf(f) + 1
      /\ \A g \in DOMAIN mapFileUseCount' : g # f => mapFileUseCount'[g] = mapFileUseCount[g]
  BY DEF OpenDb, MayOpen, WithCount
<1>2. CountOf(f) \in Nat BY DEF CountOf, DbTypeOK
<1>3. DbTypeOK' BY <1>1, <1>2 DEF DbTypeOK, OpenDb
<1>4. CountsAgree'
  <2>. SUFFICES ASSUME NEW g \in Files
                PROVE  CountOf(g)' = Cardinality(UsersOf(g)')
    BY DEF CountsAgree
  <2>1. CASE g = f
    <3>1. UsersOf(f)' = UsersOf(f) \cup {u} BY <1>1 DEF UsersOf, DbTypeOK
    <3>2. u \notin UsersOf(f) BY <1>1 DEF UsersOf
    <3>3. Cardinality(UsersOf(f)') = Cardinality(UsersOf(f)) + 1
      BY <3>1, <3>2, UsersFinite, FS_AddElement
    <3>4. CountOf(f)' = CountOf(f) + 1 BY <1>1 DEF CountOf
    <3>. QED BY <2>1, <3>3, <3>4 DEF CountsAgree
  <2>2. CASE g # f
    <3>1. UsersOf(g)' = UsersOf(g) BY <1>1, <2>2 DEF UsersOf, DbTypeOK
    <3>2. CountOf(g)' = CountOf(g) BY <1>1, <2>2 DEF CountOf
    <3>. QED BY <3>1, <3>2 DEF CountsAgree
  <2>. QED BY <2>1, <2>2
<1>5. HandlesLive' BY <1>1 DEF HandlesLive, Holding, OpenDb, DbTypeOK
<1>6. FlushNotMissed' /\ ShutdownFlushes'
  BY <1>1 DEF FlushNotMissed, ShutdownFlushes, OpenDb
<1>7. CountersAreFresh' BY <1>1 DEF CountersAreFresh, OpenDb, DbTypeOK
<1>8. LoaderIsAlone' BY <1>1 DEF LoaderIsAlone, OpenDb, MayOpen, DbTypeOK
<1>9. HandlesHaveEntries' BY <1>1 DEF HandlesHaveEntries
<1>20. EnvStaysOpen' BY DEF EnvStaysOpen, OpenDb
<1>. QED BY <1>3, <1>4, <1>5, <1>6, <1>7, <1>8, <1>9, <1>20

LEMMA OpenFailsSound ==
    ASSUME DbAssumption, DInv, NEW u \in Users, NEW f \in Files, OpenFails(u, f)
    PROVE  DInv'
<1>. USE DEF DInv, DatabaseSound
<1>1. /\ user' = user /\ fDbEnvInit' = TRUE /\ mapDb' = mapDb
      /\ DOMAIN mapFileUseCount' = DOMAIN mapFileUseCount \cup {f}
      /\ mapFileUseCount'[f] = CountOf(f)
      /\ \A g \in DOMAIN mapFileUseCount' : g # f => mapFileUseCount'[g] = mapFileUseCount[g]
  BY DEF OpenFails, WithCount
<1>2. CountOf(f) \in Nat BY DEF CountOf, DbTypeOK
<1>3. DbTypeOK' BY <1>1, <1>2 DEF DbTypeOK, OpenFails
<1>4. \A g \in Files : CountOf(g)' = CountOf(g) /\ UsersOf(g)' = UsersOf(g)
  BY <1>1 DEF CountOf, UsersOf
<1>5. CountsAgree' BY <1>4 DEF CountsAgree
<1>6. HandlesLive' BY <1>1 DEF HandlesLive, Holding, OpenFails
<1>7. FlushNotMissed' /\ ShutdownFlushes'
  BY <1>1 DEF FlushNotMissed, ShutdownFlushes, OpenFails
<1>8. CountersAreFresh' /\ LoaderIsAlone'
  BY <1>1 DEF CountersAreFresh, LoaderIsAlone, OpenFails
<1>9. HandlesHaveEntries' BY <1>1 DEF HandlesHaveEntries
<1>20. EnvStaysOpen' BY DEF EnvStaysOpen, OpenFails
<1>. QED BY <1>3, <1>5, <1>6, <1>7, <1>8, <1>9, <1>20

\* A thread that stays a user of its file.
LEMMA SameUsers ==
    ASSUME DbTypeOK, CountsAgree, NEW u \in Users, user[u].pc # "idle",
           mapFileUseCount' = mapFileUseCount,
           user' \in [Users -> [pc : {"idle", "open", "counting", "closing"},
                                file : Files, seen : Nat]],
           user'[u].pc # "idle", user'[u].file = user[u].file,
           \A v \in Users : v # u => user'[v] = user[v]
    PROVE  CountsAgree'
<1>1. \A f \in Files : UsersOf(f)' = UsersOf(f) BY DEF UsersOf
<1>2. \A f \in Files : CountOf(f)' = CountOf(f) BY DEF CountOf
<1>. QED BY <1>1, <1>2 DEF CountsAgree

LEMMA StartCountSound ==
    ASSUME DbAssumption, DInv, NEW u \in Users, StartCount(u)
    PROVE  DInv'
<1>. USE DEF DInv, DatabaseSound
<1>1. /\ user[u].pc = "open" /\ user[u].file = WalletFile
      /\ user' = [user EXCEPT ![u].pc = "counting", ![u].seen = nWalletDBUpdated]
  BY DEF StartCount
<1>2. DbTypeOK'
  <2>1. user' \in [Users -> [pc : {"idle", "open", "counting", "closing"},
                            file : Files, seen : Nat]]
    BY <1>1 DEF DbTypeOK
  <2>. QED BY <2>1 DEF DbTypeOK, StartCount
<1>3. /\ user'[u].pc = "counting" /\ user'[u].file = WalletFile
      /\ user'[u].seen = nWalletDBUpdated
      /\ \A v \in Users : v # u => user'[v] = user[v]
  BY <1>1 DEF DbTypeOK
<1>4. CountsAgree'
  <2>1. user[u].pc # "idle" /\ user'[u].pc # "idle" /\ user'[u].file = user[u].file
    BY <1>1, <1>3
  <2>2. mapFileUseCount' = mapFileUseCount BY DEF StartCount
  <2>3. user' \in [Users -> [pc : {"idle", "open", "counting", "closing"},
                            file : Files, seen : Nat]]
    BY <1>2 DEF DbTypeOK
  <2>. QED BY <1>3, <2>1, <2>2, <2>3, SameUsers
<1>5. HandlesLive'
  BY <1>1, <1>3 DEF HandlesLive, Holding, StartCount
<1>6. FlushNotMissed' /\ ShutdownFlushes' BY DEF FlushNotMissed, ShutdownFlushes, StartCount
<1>7. CountersAreFresh' BY <1>3 DEF CountersAreFresh, StartCount
<1>8. LoaderIsAlone' BY <1>1, <1>3 DEF LoaderIsAlone, StartCount
<1>9. HandlesHaveEntries' BY DEF HandlesHaveEntries, StartCount
<1>20. EnvStaysOpen' BY DEF EnvStaysOpen, StartCount
<1>. QED BY <1>2, <1>4, <1>5, <1>6, <1>7, <1>8, <1>9, <1>20

LEMMA EndCountSound ==
    ASSUME DbAssumption, DInv, NEW u \in Users, EndCount(u)
    PROVE  DInv'
<1>. USE DEF DInv, DatabaseSound
<1>1. /\ user[u].pc = "counting" /\ nWalletDBUpdated' = user[u].seen + 1
      /\ user' = [user EXCEPT ![u].pc = "open"]
      /\ owed' = (owed \/ flushing)
  BY DEF EndCount
<1>2. user[u].seen \in Nat /\ nLastFlushed \in Nat /\ nWalletDBUpdated \in Nat
  BY DEF DbTypeOK
<1>3. DbTypeOK' BY <1>1, <1>2 DEF DbTypeOK, EndCount
<1>4. /\ user'[u].pc = "open" /\ user'[u].file = user[u].file
      /\ \A v \in Users : v # u => user'[v] = user[v]
  BY <1>1 DEF DbTypeOK
<1>5. CountsAgree' BY <1>1, <1>3, <1>4, SameUsers DEF EndCount, DbTypeOK
<1>6. HandlesLive' BY <1>1, <1>4 DEF HandlesLive, Holding, EndCount
<1>7. user[u].file = WalletFile /\ nLastFlushed < nWalletDBUpdated'
  BY <1>1, <1>2 DEF CountersAreFresh
<1>8. WalletFile \in DOMAIN mapFileUseCount
  BY <1>1, <1>7 DEF HandlesLive, Holding, HandlesHaveEntries
<1>9. FlushNotMissed' BY <1>7, <1>8 DEF FlushNotMissed, EndCount
<1>10. ShutdownFlushes' BY <1>1 DEF ShutdownFlushes, HandlesLive, EndCount
<1>11. CountersAreFresh' BY <1>4, <1>7, <1>3, <1>2 DEF CountersAreFresh, EndCount, DbTypeOK
<1>12. LoaderIsAlone' BY <1>1, <1>4 DEF LoaderIsAlone, EndCount
<1>13. HandlesHaveEntries' BY DEF HandlesHaveEntries, EndCount
<1>20. EnvStaysOpen' BY DEF EnvStaysOpen, EndCount
<1>. QED BY <1>3, <1>5, <1>6, <1>9, <1>10, <1>11, <1>12, <1>13, <1>20

LEMMA StartCloseSound ==
    ASSUME DbAssumption, DInv, NEW u \in Users, StartClose(u)
    PROVE  DInv'
<1>. USE DEF DInv, DatabaseSound
<1>1. user[u].pc = "open" /\ user' = [user EXCEPT ![u].pc = "closing"]
  BY DEF StartClose
<1>2. DbTypeOK' BY <1>1 DEF DbTypeOK, StartClose
<1>3. /\ user'[u].pc = "closing" /\ user'[u].file = user[u].file
      /\ \A v \in Users : v # u => user'[v] = user[v]
  BY <1>1 DEF DbTypeOK
<1>4. CountsAgree'
  <2>1. user[u].pc # "idle" /\ user'[u].pc # "idle" /\ user'[u].file = user[u].file
    BY <1>1, <1>3
  <2>2. mapFileUseCount' = mapFileUseCount BY DEF StartClose
  <2>3. user' \in [Users -> [pc : {"idle", "open", "counting", "closing"},
                            file : Files, seen : Nat]]
    BY <1>2 DEF DbTypeOK
  <2>. QED BY <1>3, <2>1, <2>2, <2>3, SameUsers
<1>5. HandlesLive' BY <1>1, <1>3 DEF HandlesLive, Holding, StartClose
<1>6. FlushNotMissed' /\ ShutdownFlushes' BY DEF FlushNotMissed, ShutdownFlushes, StartClose
<1>7. CountersAreFresh' BY <1>3 DEF CountersAreFresh, StartClose
<1>8. LoaderIsAlone' BY <1>1, <1>3 DEF LoaderIsAlone, StartClose
<1>9. HandlesHaveEntries' BY DEF HandlesHaveEntries, StartClose
<1>20. EnvStaysOpen' BY DEF EnvStaysOpen, StartClose
<1>. QED BY <1>2, <1>4, <1>5, <1>6, <1>7, <1>8, <1>9, <1>20

LEMMA FinishCloseSound ==
    ASSUME DbAssumption, DInv, NEW u \in Users, FinishClose(u),
           NEW f \in Files, f = user[u].file
    PROVE  DInv'
<1>. USE DEF DInv, DatabaseSound
<1>1. /\ user[u].pc = "closing" /\ user' = [user EXCEPT ![u] = Idle]
      /\ DOMAIN mapFileUseCount' = DOMAIN mapFileUseCount \cup {f}
      /\ mapFileUseCount'[f] = CountOf(f) - 1
      /\ \A g \in DOMAIN mapFileUseCount' : g # f => mapFileUseCount'[g] = mapFileUseCount[g]
  BY DEF FinishClose, WithCount
<1>2. u \in UsersOf(f) BY <1>1 DEF DbTypeOK, UsersOf
<1>3. UsersOf(f)' = UsersOf(f) \ {u} BY <1>1 DEF UsersOf, Idle, DbTypeOK
<1>4. /\ Cardinality(UsersOf(f)') = Cardinality(UsersOf(f)) - 1
      /\ Cardinality(UsersOf(f)') \in Nat
  BY <1>2, <1>3, OneUserLess, Zenon
<1>5. CountOf(f) = Cardinality(UsersOf(f)) BY <1>2 DEF CountsAgree
<1>6. mapFileUseCount'[f] \in Nat BY <1>1, <1>4, <1>5
<1>7. DbTypeOK' BY <1>1, <1>2, <1>6 DEF DbTypeOK, FinishClose, Idle, DbAssumption
<1>8. CountsAgree'
  <2>. SUFFICES ASSUME NEW g \in Files
                PROVE  CountOf(g)' = Cardinality(UsersOf(g)')
    BY DEF CountsAgree
  <2>1. CASE g = f BY <2>1, <1>1, <1>4, <1>5 DEF CountOf
  <2>2. CASE g # f
    <3>1. UsersOf(g)' = UsersOf(g) BY <1>1, <2>2 DEF UsersOf, Idle, DbTypeOK
    <3>2. CountOf(g)' = CountOf(g) BY <1>1, <2>2 DEF CountOf
    <3>. QED BY <3>1, <3>2 DEF CountsAgree
  <2>. QED BY <2>1, <2>2
<1>9. HandlesLive' BY <1>1 DEF HandlesLive, Holding, FinishClose, Idle, DbTypeOK
<1>10. FlushNotMissed' /\ ShutdownFlushes'
  BY <1>1 DEF FlushNotMissed, ShutdownFlushes, FinishClose
<1>11. CountersAreFresh' BY <1>1 DEF CountersAreFresh, FinishClose, Idle, DbTypeOK
<1>12. LoaderIsAlone' BY <1>1 DEF LoaderIsAlone, FinishClose, Idle, DbTypeOK
<1>13. HandlesHaveEntries' BY <1>1 DEF HandlesHaveEntries, FinishClose
<1>20. EnvStaysOpen' BY DEF EnvStaysOpen, FinishClose
<1>. QED BY <1>7, <1>8, <1>9, <1>10, <1>11, <1>12, <1>13, <1>20

LEMMA FlushThreadStartsSound ==
    ASSUME DbAssumption, DInv, FlushThreadStarts
    PROVE  DInv'
<1>. USE DEF DInv, DatabaseSound
<1>1. DbTypeOK' BY DEF DbTypeOK, FlushThreadStarts
<1>2. CountsAgree' BY DEF CountsAgree, CountOf, UsersOf, FlushThreadStarts
<1>3. HandlesLive' BY DEF HandlesLive, Holding, FlushThreadStarts
<1>4. FlushNotMissed' /\ ShutdownFlushes'
  BY DEF FlushNotMissed, ShutdownFlushes, FlushThreadStarts, LoaderIsAlone
<1>5. CountersAreFresh'
  BY DEF CountersAreFresh, FlushThreadStarts, LoaderIsAlone, DbTypeOK
<1>6. LoaderIsAlone' BY DEF LoaderIsAlone, FlushThreadStarts
<1>7. HandlesHaveEntries' BY DEF HandlesHaveEntries, FlushThreadStarts
<1>20. EnvStaysOpen' BY DEF EnvStaysOpen, FlushThreadStarts
<1>. QED BY <1>1, <1>2, <1>3, <1>4, <1>5, <1>6, <1>7, <1>20

LEMMA FlushWalletSound ==
    ASSUME DbAssumption, DInv, FlushWallet
    PROVE  DInv'
<1>. USE DEF DInv, DatabaseSound
<1>1. \A f \in Files : UsersOf(f) = {}
  BY UnusedHasNoUsers DEF FlushWallet, Unused
<1>2. \A u \in Users : user[u].pc = "idle" BY <1>1 DEF UsersOf, DbTypeOK
<1>3. {WalletFile} \in SUBSET Files BY DEF DbAssumption
<1>4. /\ UNCHANGED user /\ Detach({WalletFile})
      /\ nLastFlushed' = nWalletDBUpdated /\ flushing /\ ~fShutdown
  BY DEF FlushWallet
<1>5. /\ CountsAgree' /\ closedUnder' = {} /\ HandlesHaveEntries'
      /\ \A f \in DOMAIN mapFileUseCount' : mapFileUseCount'[f] \in Nat
      /\ DOMAIN mapFileUseCount' = DOMAIN mapFileUseCount \ {WalletFile}
      /\ mapDb' = mapDb \ {WalletFile} /\ owed' = FALSE
  BY <1>1, <1>3, <1>4, DetachIsSound
<1>6. DbTypeOK' BY <1>5, <1>4 DEF DbTypeOK, FlushWallet
<1>7. HandlesLive' BY <1>2, <1>4, <1>5 DEF HandlesLive, Holding, FlushWallet
<1>8. FlushNotMissed' /\ ShutdownFlushes' BY <1>5 DEF FlushNotMissed, ShutdownFlushes
<1>9. CountersAreFresh' BY <1>2, <1>4 DEF CountersAreFresh, FlushWallet, DbTypeOK
<1>10. LoaderIsAlone' BY <1>4 DEF LoaderIsAlone, FlushWallet
<1>20. EnvStaysOpen' BY DEF EnvStaysOpen, FlushWallet
<1>. QED BY <1>5, <1>6, <1>7, <1>8, <1>9, <1>10, <1>20

LEMMA BackupWalletSound ==
    ASSUME DbAssumption, DInv, BackupWallet
    PROVE  DInv'
<1>. USE DEF DInv, DatabaseSound
<1>1. UsersOf(WalletFile) = {}
  BY UnusedHasNoUsers DEF BackupWallet, DbAssumption
<1>2. {WalletFile} \in SUBSET Files BY DEF DbAssumption
<1>3. UNCHANGED user /\ Detach({WalletFile}) BY DEF BackupWallet
<1>4. /\ CountsAgree' /\ closedUnder' = {} /\ HandlesHaveEntries'
      /\ \A u \in Users : Holding(u)' => user'[u].file \in mapDb'
      /\ \A f \in DOMAIN mapFileUseCount' : mapFileUseCount'[f] \in Nat
      /\ DOMAIN mapFileUseCount' = DOMAIN mapFileUseCount \ {WalletFile}
      /\ mapDb' = mapDb \ {WalletFile} /\ owed' = FALSE
  BY <1>1, <1>2, <1>3, DetachIsSound
<1>5. DbTypeOK' BY <1>4 DEF DbTypeOK, BackupWallet
<1>6. HandlesLive' BY <1>4 DEF HandlesLive, BackupWallet
<1>7. FlushNotMissed' /\ ShutdownFlushes' BY <1>4 DEF FlushNotMissed, ShutdownFlushes
<1>8. CountersAreFresh' BY DEF CountersAreFresh, BackupWallet
<1>9. LoaderIsAlone' BY DEF LoaderIsAlone, BackupWallet
<1>20. EnvStaysOpen' BY DEF EnvStaysOpen, BackupWallet
<1>. QED BY <1>4, <1>5, <1>6, <1>7, <1>8, <1>9, <1>20

LEMMA RewriteSound ==
    ASSUME DbAssumption, DInv, NEW succeeds \in BOOLEAN, Rewrite(succeeds)
    PROVE  DInv'
<1>. USE DEF DInv, DatabaseSound
<1>1. UsersOf(WalletFile) = {}
  BY UnusedHasNoUsers DEF Rewrite, DbAssumption
<1>2. /\ user' = user /\ fDbEnvInit' = fDbEnvInit /\ ~fShutdown
      /\ mapDb' \subseteq mapDb \cup {WalletFile} /\ mapDb \ {WalletFile} \subseteq mapDb'
      /\ DOMAIN mapFileUseCount' = DOMAIN mapFileUseCount \cup {WalletFile}
      /\ mapFileUseCount'[WalletFile] = 0
      /\ \A f \in DOMAIN mapFileUseCount' : f # WalletFile =>
           mapFileUseCount'[f] = mapFileUseCount[f]
      /\ closedUnder' = {} /\ owed' = FALSE
  BY <1>1 DEF Rewrite, WithCount, HandlesLive
<1>3. DbTypeOK'
  <2>1. WalletFile \in Files BY DEF DbAssumption
  <2>2. /\ DOMAIN mapFileUseCount' \subseteq Files /\ mapDb' \subseteq Files
        /\ \A f \in DOMAIN mapFileUseCount' : mapFileUseCount'[f] \in Nat
    BY <2>1, <1>2 DEF DbTypeOK
  <2>. QED BY <2>2, <1>2 DEF DbTypeOK, Rewrite
<1>4. CountsAgree'
  <2>. SUFFICES ASSUME NEW f \in Files
                PROVE  CountOf(f)' = Cardinality(UsersOf(f)')
    BY DEF CountsAgree
  <2>1. UsersOf(f)' = UsersOf(f) BY <1>2 DEF UsersOf
  <2>2. CASE f = WalletFile
    <3>1. CountOf(f)' = 0 BY <1>2, <2>2 DEF CountOf
    <3>. QED BY <3>1, <2>1, <2>2, <1>1, FS_EmptySet
  <2>3. CASE f # WalletFile
    <3>1. CountOf(f)' = CountOf(f) BY <1>2, <2>3 DEF CountOf
    <3>. QED BY <3>1, <2>1 DEF CountsAgree
  <2>. QED BY <2>2, <2>3
<1>5. \A u \in Users : user[u].pc # "idle" => user[u].file # WalletFile
  BY <1>1 DEF UsersOf
<1>6. HandlesLive'
  <2>1. \A u \in Users : Holding(u)' => user'[u].file \in mapDb'
    BY <1>2, <1>5 DEF Holding, HandlesLive
  <2>2. fDbEnvInit BY <1>2 DEF EnvStaysOpen, fShutdown
  <2>. QED BY <2>1, <2>2, <1>2 DEF HandlesLive
<1>7. FlushNotMissed' /\ ShutdownFlushes' BY <1>2 DEF FlushNotMissed, ShutdownFlushes
<1>8. CountersAreFresh' BY DEF CountersAreFresh, Rewrite
<1>9. LoaderIsAlone' BY DEF LoaderIsAlone, Rewrite
<1>10. HandlesHaveEntries' BY <1>2 DEF HandlesHaveEntries
<1>20. EnvStaysOpen' BY DEF EnvStaysOpen, Rewrite
<1>. QED BY <1>3, <1>4, <1>6, <1>7, <1>8, <1>9, <1>10, <1>20

\* Both flushes of a shutdown.
LEMMA FlushUnusedIsSound ==
    ASSUME DbAssumption, DInv, UNCHANGED user, FlushUnused
    PROVE  /\ CountsAgree' /\ HandlesHaveEntries'
           /\ closedUnder' = {}
           /\ \A u \in Users : Holding(u)' => user'[u].file \in mapDb'
           /\ DOMAIN mapFileUseCount' \subseteq DOMAIN mapFileUseCount
           /\ \A f \in DOMAIN mapFileUseCount' : mapFileUseCount'[f] \in Nat
           /\ mapDb' \subseteq mapDb
           /\ owed' \in BOOLEAN
           /\ owed' => owed /\ WalletFile \in DOMAIN mapFileUseCount'
           /\ \A u \in Users : user[u].pc # "idle" => user[u].file \in DOMAIN mapFileUseCount'
<1>. USE DEF DInv, DatabaseSound
<1>. DEFINE files == {f \in DOMAIN mapFileUseCount : mapFileUseCount[f] = 0}
<1>1. files \in SUBSET Files /\ Detach(files) BY DEF FlushUnused, DbTypeOK
<1>2. \A f \in files : UsersOf(f) = {} BY <1>1, UnusedHasNoUsers DEF Unused
<1>. HIDE DEF files
<1>3. /\ CountsAgree' /\ HandlesHaveEntries' /\ closedUnder' = {}
      /\ \A u \in Users : Holding(u)' => user'[u].file \in mapDb'
      /\ DOMAIN mapFileUseCount' = DOMAIN mapFileUseCount \ files
      /\ \A f \in DOMAIN mapFileUseCount' : mapFileUseCount'[f] \in Nat
      /\ mapDb' = mapDb \ files
      /\ owed' => owed /\ WalletFile \notin files
      /\ owed' \in BOOLEAN
  BY <1>1, <1>2, DetachIsSound
<1>4. ASSUME NEW u \in Users, user[u].pc # "idle"
      PROVE  user[u].file \in DOMAIN mapFileUseCount'
  <2>1. u \in UsersOf(user[u].file) /\ user[u].file \in Files
    BY <1>4 DEF UsersOf, DbTypeOK
  <2>2. Cardinality(UsersOf(user[u].file)) # 0 BY <2>1, UsersFinite, FS_EmptySet
  <2>3. user[u].file \in DOMAIN mapFileUseCount
    BY <2>1, <2>2 DEF CountsAgree, CountOf
  <2>. QED BY <2>1, <2>3, <1>2, <1>3
<1>. QED BY <1>3, <1>4 DEF FlushNotMissed

LEMMA ShutdownSound ==
    ASSUME DbAssumption, DInv, BeginShutdown \/ ShutdownStep
    PROVE  DInv'
<1>. USE DEF DInv, DatabaseSound
<1>1. CASE BeginShutdown
  <2>1. DbTypeOK' BY <1>1 DEF DbTypeOK, BeginShutdown
  <2>2. CountsAgree' BY <1>1 DEF CountsAgree, CountOf, UsersOf, BeginShutdown
  <2>3. HandlesLive' BY <1>1 DEF HandlesLive, Holding, BeginShutdown
  <2>4. FlushNotMissed' /\ ShutdownFlushes'
    BY <1>1 DEF FlushNotMissed, ShutdownFlushes, BeginShutdown
  <2>5. CountersAreFresh' BY <1>1 DEF CountersAreFresh, BeginShutdown
  <2>6. LoaderIsAlone' BY <1>1 DEF LoaderIsAlone, BeginShutdown
  <2>7. HandlesHaveEntries' /\ EnvStaysOpen'
    BY <1>1 DEF HandlesHaveEntries, EnvStaysOpen, BeginShutdown
  <2>. QED BY <2>1, <2>2, <2>3, <2>4, <2>5, <2>6, <2>7
<1>2. ASSUME UNCHANGED <<user, nWalletDBUpdated, nLastFlushed, flushing, opens>>,
             FlushUnused, shutdown' \in {"flushed", "done"},
             fDbEnvInit' \in BOOLEAN,
             fDbEnvInit,
             DOMAIN mapFileUseCount' # {} => fDbEnvInit',
             shutdown' # "done" => fDbEnvInit'
      PROVE  DInv'
  <2>1. /\ CountsAgree' /\ HandlesHaveEntries' /\ closedUnder' = {}
        /\ \A u \in Users : Holding(u)' => user'[u].file \in mapDb'
        /\ DOMAIN mapFileUseCount' \subseteq DOMAIN mapFileUseCount
        /\ \A f \in DOMAIN mapFileUseCount' : mapFileUseCount'[f] \in Nat
        /\ mapDb' \subseteq mapDb
        /\ owed' \in BOOLEAN
        /\ owed' => owed /\ WalletFile \in DOMAIN mapFileUseCount'
        /\ \A u \in Users : user[u].pc # "idle" => user[u].file \in DOMAIN mapFileUseCount'
    BY <1>2, FlushUnusedIsSound
  <2>2. DbTypeOK' BY <1>2, <2>1 DEF DbTypeOK
  <2>3. HandlesLive' BY <1>2, <2>1 DEF HandlesLive, HandlesHaveEntries
  <2>4. FlushNotMissed' BY <1>2, <2>1 DEF FlushNotMissed
  <2>5. ShutdownFlushes' BY <1>2, <2>1 DEF ShutdownFlushes
  <2>6. CountersAreFresh' BY <1>2 DEF CountersAreFresh
  <2>7. LoaderIsAlone' BY <1>2, <2>1 DEF LoaderIsAlone
  <2>8. EnvStaysOpen' BY <1>2 DEF EnvStaysOpen
  <2>. QED BY <2>1, <2>2, <2>3, <2>4, <2>5, <2>6, <2>7, <2>8
<1>3. CASE FirstFlush
  <2>1. fDbEnvInit /\ fDbEnvInit' = fDbEnvInit BY <1>3 DEF FirstFlush, EnvStaysOpen
  <2>. QED BY <1>2, <1>3, <2>1 DEF FirstFlush, DbTypeOK
<1>4. CASE LastFlush
  <2>1. fDbEnvInit BY <1>4 DEF LastFlush, EnvStaysOpen
  <2>. QED BY <1>2, <1>4, <2>1 DEF LastFlush
<1>. QED BY <1>1, <1>3, <1>4 DEF ShutdownStep

LEMMA DbStepSound == DbAssumption /\ DInv /\ [DbNext]_dvars => DInv'
<1>. SUFFICES ASSUME DbAssumption, DInv, [DbNext]_dvars PROVE DInv' OBVIOUS
<1>1. CASE UNCHANGED dvars
  BY <1>1 DEF dvars, DInv, DbTypeOK, DatabaseSound, CountsAgree, CountOf, UsersOf,
     HandlesLive, Holding, FlushNotMissed, ShutdownFlushes, CountersAreFresh,
     LoaderIsAlone, HandlesHaveEntries, EnvStaysOpen
<1>2. ASSUME NEW u \in Users, UserStep(u) PROVE DInv'
  <2>1. user[u].file \in Files BY DEF DInv, DbTypeOK
  <2>. QED
    BY <1>2, <2>1, StartCountSound, EndCountSound, StartCloseSound, FinishCloseSound DEF UserStep
<1>3. ASSUME NEW u \in Users, NEW f \in Files, OpenDb(u, f) \/ OpenFails(u, f) PROVE DInv'
  BY <1>3, OpenDbSound, OpenFailsSound
<1>4. CASE FlushThreadStarts BY <1>4, FlushThreadStartsSound
<1>5. CASE FlushWallet BY <1>5, FlushWalletSound
<1>6. CASE BackupWallet BY <1>6, BackupWalletSound
<1>7. ASSUME NEW succeeds \in BOOLEAN, Rewrite(succeeds) PROVE DInv'
  BY <1>7, RewriteSound
<1>8. CASE BeginShutdown \/ ShutdownStep BY <1>8, ShutdownSound
<1>. QED BY <1>1, <1>2, <1>3, <1>4, <1>5, <1>6, <1>7, <1>8 DEF DbNext

\* No handle and no environment is closed under its user, the counts are the
\* users, and no update of the wallet escapes the thread that flushes it, for
\* any number of threads and files.
THEOREM DatabaseStaysSound == DbSpec => []DatabaseSound
<1>. USE DbAssumption
<1>1. DbInit => DInv BY DbInitSound
<1>2. DInv /\ [DbNext]_dvars => DInv' BY DbStepSound
<1>3. DInv => DatabaseSound BY DEF DInv
<1>. QED BY <1>1, <1>2, <1>3, PTL DEF DbSpec

-----------------------------------------------------------------------------
(***************************************************************************)
(* The alerts, for any alerts whose signer keeps to the rules of           *)
(* cancelling, any peers and versions. What the properties say of the      *)
(* alerts in effect follows from the order in which they cancel; that the  *)
(* highest warning is shown, from a walk over mapAlerts in any order.      *)
(***************************************************************************)
\* An alert that is in effect is kept, or one that cancels it is; and none that
\* is kept and in effect is cancelled by one that came and is in effect.
CancelledOrKept ==
    \A x \in received : IsInEffect(x) =>
        x \in mapAlerts \/ \E b \in mapAlerts : IsInEffect(b) /\ Cancels(b, x)
KeptIsValid ==
    \A x \in mapAlerts, b \in received : IsInEffect(x) /\ IsInEffect(b) => ~Cancels(b, x)

\* What a peer with a version is taken to know: all that is kept, and what it was
\* not sent was not for it, or came before its version did.
NotFor(a, version) == ~(a.nMinVer <= version /\ version <= a.nMaxVer)
PeersKnow ==
    \A p \in AlertPeers, a \in mapAlerts :
        Connected(p) /\ peer[p].nVersion # 0 /\ IsInEffect(a) => a \in peer[p].setKnown
KnownWasTold ==
    \A p \in AlertPeers : \A a \in peer[p].setKnown :
        \/ <<p, a>> \in told
        \/ peer[p].nVersion # 0 /\ NotFor(a, peer[p].nVersion)
        \/ <<p, a>> \in unsaid /\ NotFor(a, MyVersion) /\ hour >= a.nRelayUntil

AlertInv ==
    /\ AlertTypeOK
    /\ IsFiniteSet(mapAlerts)
    /\ \A a \in received : Genuine(a)
    /\ CancelledOrKept /\ KeptIsValid
    /\ PeersKnow /\ KnownWasTold

LEMMA AlertInitSound == AlertInit => AlertInv
<1>. SUFFICES ASSUME AlertInit PROVE AlertInv OBVIOUS
<1>1. AlertTypeOK BY AlertAssumption DEF AlertInit, AlertTypeOK, Gone
<1>2. IsFiniteSet(mapAlerts) BY FS_EmptySet DEF AlertInit
<1>3. \A p \in AlertPeers : peer[p].setKnown = {} BY DEF AlertInit, Gone
<1>4. KnownWasTold BY <1>3, Zenon DEF KnownWasTold
<1>5. /\ \A a \in received : Genuine(a)
      /\ CancelledOrKept /\ KeptIsValid /\ PeersKnow
  BY DEF AlertInit, CancelledOrKept, KeptIsValid, PeersKnow
<1>. QED BY <1>1, <1>2, <1>4, <1>5 DEF AlertInv

\* The rules of the signer, for alerts that came.
LEMMA CancelOrder ==
    ASSUME NEW a \in AllAlerts, NEW b \in AllAlerts, Genuine(a), Genuine(b), Cancels(a, b)
    PROVE  /\ ~Cancels(b, a)
           /\ IsInEffect(b) /\ hour \in Int => IsInEffect(a)
           /\ \A c \in AllAlerts : Cancels(b, c) => Cancels(a, c)
<1>1. a.nExpiration \in Int /\ b.nExpiration \in Int BY AlertAssumption
<1>2. b.nExpiration <= a.nExpiration BY AlertAssumption
<1>3. ~Cancels(b, a) /\ \A c \in AllAlerts : Cancels(b, c) => Cancels(a, c) BY AlertAssumption, Zenon
<1>. QED BY <1>1, <1>2, <1>3 DEF IsInEffect

\* What happens to mapAlerts when a comes: the others stay in order.
LEMMA ComingKeepsOrder ==
    ASSUME AlertInv, NEW a \in AllAlerts, MayProcess(a),
           received' = received \cup {a}, hour' = hour,
           \/ mapAlerts' = Remaining(a) \cup {a} /\ ~IsCancelled(a)
           \/ mapAlerts' = Remaining(a) /\ IsCancelled(a)
    PROVE  /\ mapAlerts' \subseteq received' /\ received' \subseteq AllAlerts
           /\ IsFiniteSet(mapAlerts')
           /\ (\A x \in received : Genuine(x))'
           /\ CancelledOrKept' /\ KeptIsValid'
<1>. DEFINE InEffect(x) == hour < x.nExpiration
<1>1. \A x : IsInEffect(x) <=> InEffect(x) BY DEF IsInEffect
<1>2. hour \in Int BY AlertAssumption DEF AlertInv, AlertTypeOK
<1>3. Genuine(a) /\ IsInEffect(a) BY DEF MayProcess
<1>4. mapAlerts \subseteq received /\ received \subseteq AllAlerts BY DEF AlertInv, AlertTypeOK
<1>5. \A x \in received : Genuine(x) BY DEF AlertInv
<1>6. mapAlerts' \subseteq received' /\ received' \subseteq AllAlerts
  BY <1>4 DEF Remaining
<1>7. IsFiniteSet(mapAlerts')
  <2>1. IsFiniteSet(Remaining(a)) BY FS_Subset DEF AlertInv, Remaining
  <2>2. IsFiniteSet(Remaining(a) \cup {a}) BY <2>1, FS_AddElement
  <2>. QED BY <2>1, <2>2
<1>8. (\A x \in received : Genuine(x))' BY <1>3, <1>5 DEF Genuine
<1>9. CancelledOrKept'
  <2>1. SUFFICES ASSUME NEW x \in received \cup {a}, IsInEffect(x), x \notin mapAlerts'
                 PROVE  \E b \in mapAlerts' : IsInEffect(b) /\ Cancels(b, x)
    BY DEF CancelledOrKept, IsInEffect
  <2>2. CASE x = a
    <3>1. IsCancelled(a) /\ mapAlerts' = Remaining(a) BY <2>1, <2>2
    <3>. QED BY <3>1, <2>2 DEF IsCancelled, Remaining
  <2>3. ASSUME NEW b \in mapAlerts, IsInEffect(b), Cancels(b, x) \/ b = x, x # a
        PROVE  \E c \in mapAlerts' : IsInEffect(c) /\ Cancels(c, x)
    <3>0. x \in AllAlerts /\ b \in AllAlerts /\ Genuine(b) /\ Genuine(x) BY <1>4, <1>5, <2>3
    <3>1. CASE b \in Remaining(a)
      BY <2>1, <2>3, <3>1
    <3>2. CASE b \notin Remaining(a)
      <4>1. Cancels(a, b) BY <2>3, <3>2 DEF Remaining
      <4>2. Cancels(a, x) BY <2>3, <3>0, <4>1, <1>3, CancelOrder
      <4>3. CASE IsCancelled(a)
        <5>1. PICK c \in Remaining(a) : Cancels(c, a) BY <4>3 DEF IsCancelled
        <5>2. c \in AllAlerts /\ Genuine(c) /\ IsInEffect(c) BY <1>4, <1>5 DEF Remaining
        <5>3. Cancels(c, x) BY <3>0, <4>2, <5>1, <5>2, <1>3, CancelOrder
        <5>. QED BY <5>1, <5>2, <5>3, <4>3
      <4>4. CASE ~IsCancelled(a)
        BY <4>2, <4>4, <1>3
      <4>. QED BY <4>3, <4>4
    <3>. QED BY <3>1, <3>2
  <2>4. CASE x # a
    <3>1. x \in mapAlerts \/ \E b \in mapAlerts : IsInEffect(b) /\ Cancels(b, x)
      BY <2>1, <2>4 DEF AlertInv, CancelledOrKept
    <3>. QED BY <2>1, <2>3, <2>4, <3>1
  <2>. QED BY <2>2, <2>4
<1>10. KeptIsValid'
  <2>1. SUFFICES ASSUME NEW x \in mapAlerts', NEW b \in received \cup {a},
                        IsInEffect(x), IsInEffect(b), Cancels(b, x)
                 PROVE  FALSE
    BY DEF KeptIsValid, IsInEffect
  <2>2. CASE x \in Remaining(a)
    <3>1. x \in mapAlerts /\ ~Cancels(a, x) BY <2>2 DEF Remaining
    <3>. QED BY <2>1, <3>1 DEF AlertInv, KeptIsValid
  <2>3. CASE x = a /\ ~IsCancelled(a)
    <3>1. b # a BY <2>1, <2>3, <1>3, CancelOrder
    <3>2. b \in AllAlerts /\ Genuine(b) BY <1>4, <1>5, <3>1
    <3>3. ASSUME NEW c \in mapAlerts, IsInEffect(c), Cancels(c, a) PROVE FALSE
      <4>1. c \in AllAlerts /\ Genuine(c) BY <1>4, <1>5
      <4>2. ~Cancels(a, c) BY <3>3, <4>1, <1>3, CancelOrder
      <4>3. c \in Remaining(a) BY <3>3, <4>2 DEF Remaining
      <4>. QED BY <2>3, <3>3, <4>3 DEF IsCancelled
    <3>4. PICK c \in mapAlerts : IsInEffect(c) /\ (c = b \/ Cancels(c, b))
      BY <2>1, <3>1 DEF AlertInv, CancelledOrKept
    <3>5. c \in AllAlerts /\ Genuine(c) BY <1>4, <1>5
    <3>6. Cancels(c, a) BY <2>1, <2>3, <3>2, <3>4, <3>5, CancelOrder
    <3>. QED BY <3>3, <3>4, <3>6
  <2>. QED BY <2>1, <2>2, <2>3
<1>. QED BY <1>6, <1>7, <1>8, <1>9, <1>10

\* Time goes on: an alert outlives those that it cancels.
LEMMA HourSound == AlertInv /\ HourPasses => AlertInv'
<1>. SUFFICES ASSUME AlertInv, HourPasses PROVE AlertInv' OBVIOUS
<1>1. /\ hour \in 0 .. LastHour /\ hour' = hour + 1 /\ hour < LastHour /\ LastHour \in Nat
      /\ mapAlerts' = mapAlerts /\ peer' = peer /\ told' = told /\ unsaid' = unsaid
      /\ received' = received
  BY AlertAssumption DEF HourPasses, AlertInv, AlertTypeOK
<1>2. mapAlerts \subseteq AllAlerts /\ received \subseteq AllAlerts /\ mapAlerts \subseteq received
  BY DEF AlertInv, AlertTypeOK
<1>3. hour' \in 0 .. LastHour BY <1>1
<1>4. AlertTypeOK'
  BY <1>1, <1>3 DEF AlertInv, AlertTypeOK
<1>5. \A a \in AllAlerts : IsInEffect(a)' => IsInEffect(a)
  BY <1>1, AlertAssumption DEF IsInEffect
<1>6. CancelledOrKept'
  <2>1. SUFFICES ASSUME NEW x \in received, IsInEffect(x)', x \notin mapAlerts
                 PROVE  \E b \in mapAlerts : IsInEffect(b)' /\ Cancels(b, x)
    BY <1>1 DEF CancelledOrKept
  <2>2. PICK b \in mapAlerts : Cancels(b, x)
    BY <1>2, <1>5, <2>1 DEF AlertInv, CancelledOrKept
  <2>3. b \in AllAlerts /\ x \in AllAlerts /\ Genuine(b) /\ Genuine(x) BY <1>2 DEF AlertInv
  <2>4. b.nExpiration \in Int /\ x.nExpiration \in Int BY <2>3, AlertAssumption
  <2>5. x.nExpiration <= b.nExpiration BY <2>2, <2>3, AlertAssumption
  <2>6. IsInEffect(b)' BY <1>1, <2>1, <2>4, <2>5 DEF IsInEffect
  <2>. QED BY <2>2, <2>6
<1>7. KeptIsValid' BY <1>1, <1>2, <1>5 DEF AlertInv, KeptIsValid
<1>8. PeersKnow' BY <1>1, <1>2, <1>5 DEF AlertInv, PeersKnow, Connected
<1>9. KnownWasTold'
  <2>1. \A p \in AlertPeers : peer[p].setKnown \subseteq AllAlerts BY DEF AlertInv, AlertTypeOK
  <2>2. \A a \in AllAlerts : hour >= a.nRelayUntil => hour' >= a.nRelayUntil
    BY <1>1, AlertAssumption
  <2>. QED BY <1>1, <2>1, <2>2 DEF AlertInv, KnownWasTold
<1>. QED BY <1>1, <1>4, <1>6, <1>7, <1>8, <1>9 DEF AlertInv, Genuine

\* A connection begins or ends: a new peer knows nothing.
LEMMA ConnectionSound ==
    ASSUME AlertInv, NEW p \in AlertPeers, Connect(p) \/ Disconnect(p)
    PROVE  AlertInv'
<1>1. /\ hour' = hour /\ mapAlerts' = mapAlerts /\ received' = received
      /\ peer' = [peer EXCEPT ![p] = NewPeer] \/ peer' = [peer EXCEPT ![p] = Gone]
      /\ \A q \in AlertPeers \ {p} : \A a : <<q, a>> \in told => <<q, a>> \in told'
      /\ \A q \in AlertPeers \ {p} : \A a : <<q, a>> \in unsaid => <<q, a>> \in unsaid'
      /\ told' \subseteq told /\ unsaid' \subseteq unsaid
  <2>1. CASE Connect(p) BY <2>1 DEF Connect
  <2>2. CASE Disconnect(p) BY <2>2 DEF Disconnect
  <2>. QED BY <2>1, <2>2
<1>2. peer'[p].nVersion = 0 /\ peer'[p].setKnown = {} /\ \A q \in AlertPeers \ {p} : peer'[q] = peer[q]
  BY <1>1 DEF AlertInv, AlertTypeOK, NewPeer, Gone
<1>3. AlertTypeOK'
  BY <1>1, AlertAssumption DEF AlertInv, AlertTypeOK, NewPeer, Gone
<1>4. PeersKnow' BY <1>1, <1>2 DEF AlertInv, PeersKnow, Connected, IsInEffect
<1>5. KnownWasTold'
  <2>1. SUFFICES ASSUME NEW q \in AlertPeers, NEW a \in peer'[q].setKnown
                 PROVE  \/ <<q, a>> \in told'
                        \/ peer'[q].nVersion # 0 /\ NotFor(a, peer'[q].nVersion)
                        \/ <<q, a>> \in unsaid' /\ NotFor(a, MyVersion) /\ hour >= a.nRelayUntil
    BY <1>1 DEF KnownWasTold, NotFor
  <2>2. q # p /\ peer'[q] = peer[q] BY <1>2, <2>1
  <2>3. \/ <<q, a>> \in told
        \/ peer[q].nVersion # 0 /\ NotFor(a, peer[q].nVersion)
        \/ <<q, a>> \in unsaid /\ NotFor(a, MyVersion) /\ hour >= a.nRelayUntil
    BY <2>1, <2>2, Zenon DEF AlertInv, KnownWasTold
  <2>4. <<q, a>> \in told => <<q, a>> \in told' BY <1>1, <2>2, Zenon
  <2>5. <<q, a>> \in unsaid => <<q, a>> \in unsaid' BY <1>1, <2>2, Zenon
  <2>. QED BY <2>2, <2>3, <2>4, <2>5, Zenon
<1>6. CancelledOrKept' /\ KeptIsValid'
  BY <1>1 DEF AlertInv, CancelledOrKept, KeptIsValid, IsInEffect
<1>. QED BY <1>1, <1>3, <1>4, <1>5, <1>6 DEF AlertInv, Genuine

\* With its version message a peer is told of all that is kept and meant for it.
LEMMA VersionSound ==
    ASSUME AlertInv, NEW p \in AlertPeers, NEW version \in AlertVersions, VersionMessage(p, version)
    PROVE  AlertInv'
<1>. DEFINE new == Unheard({p}, mapAlerts)
            sent == {pa \in new : SentTo(pa, version)}
<1>1. /\ Connected(p) /\ peer[p].nVersion = 0
      /\ peer' = [peer EXCEPT ![p].nVersion = version, ![p].setKnown = @ \cup {pa[2] : pa \in new}]
      /\ told' = told \cup sent
      /\ hour' = hour /\ mapAlerts' = mapAlerts /\ unsaid' = unsaid /\ received' = received
  BY DEF VersionMessage
<1>2. mapAlerts \subseteq AllAlerts BY DEF AlertInv, AlertTypeOK
<1>3. \A a : <<p, a>> \in new <=> a \in mapAlerts /\ IsInEffect(a) /\ a \notin peer[p].setKnown
  BY <1>1 DEF Unheard
<1>4. new \subseteq {p} \X mapAlerts BY DEF Unheard
<1>5. {pa[2] : pa \in new} = {a \in mapAlerts : IsInEffect(a) /\ a \notin peer[p].setKnown}
  <2>1. \A pa \in new : pa = <<p, pa[2]>> BY <1>4
  <2>2. ASSUME NEW a \in {pa[2] : pa \in new}
        PROVE  a \in mapAlerts /\ IsInEffect(a) /\ a \notin peer[p].setKnown
    <3>. HIDE DEF new
    <3>1. PICK pa \in new : a = pa[2] OBVIOUS
    <3>2. <<p, a>> \in new BY <2>1, <3>1
    <3>. QED BY <1>3, <3>2
  <2>3. ASSUME NEW a \in mapAlerts, IsInEffect(a), a \notin peer[p].setKnown
        PROVE  a \in {pa[2] : pa \in new}
    <3>. HIDE DEF new
    <3>1. <<p, a>> \in new /\ <<p, a>>[2] = a BY <1>3, <2>3
    <3>. QED BY <3>1
  <2>. HIDE DEF new
  <2>. QED BY <2>2, <2>3
<1>6. /\ peer'[p].nVersion = version /\ peer'[p].nMisbehavior = peer[p].nMisbehavior
      /\ peer'[p].setKnown = peer[p].setKnown
             \cup {a \in mapAlerts : IsInEffect(a) /\ a \notin peer[p].setKnown}
      /\ \A q \in AlertPeers \ {p} : peer'[q] = peer[q]
  <2>. HIDE DEF new
  <2>. QED BY <1>1, <1>5 DEF AlertInv, AlertTypeOK
<1>7. AlertTypeOK'
  <2>1. told' \subseteq AlertPeers \X AllAlerts
    BY <1>1, <1>2, <1>4 DEF AlertInv, AlertTypeOK
  <2>2. {pa[2] : pa \in new} \subseteq AllAlerts BY <1>2, <1>5
  <2>3. peer' \in [AlertPeers -> [nVersion : AlertVersions \cup {0}, setKnown : SUBSET AllAlerts,
                                  nMisbehavior : -1..BanScore]]
    <3>. HIDE DEF new
    <3>1. peer \in [AlertPeers -> [nVersion : AlertVersions \cup {0}, setKnown : SUBSET AllAlerts,
                                   nMisbehavior : -1..BanScore]]
      BY DEF AlertInv, AlertTypeOK
    <3>2. peer[p].setKnown \cup {pa[2] : pa \in new} \subseteq AllAlerts BY <2>2, <3>1
    <3>. QED BY <1>1, <3>1, <3>2
  <2>. QED BY <1>1, <2>1, <2>3 DEF AlertInv, AlertTypeOK
<1>8. PeersKnow' 
  <2>1. SUFFICES ASSUME NEW q \in AlertPeers, NEW a \in mapAlerts,
                        Connected(q)', peer'[q].nVersion # 0, IsInEffect(a)
                 PROVE  a \in peer'[q].setKnown
    BY <1>1 DEF PeersKnow, IsInEffect
  <2>2. CASE q = p BY <1>6, <2>1, <2>2
  <2>3. CASE q # p BY <1>6, <2>1, <2>3 DEF AlertInv, PeersKnow, Connected
  <2>. QED BY <2>2, <2>3
<1>9. KnownWasTold'
  <2>1. SUFFICES ASSUME NEW q \in AlertPeers, NEW a \in peer'[q].setKnown
                 PROVE  \/ <<q, a>> \in told'
                        \/ peer'[q].nVersion # 0 /\ NotFor(a, peer'[q].nVersion)
                        \/ <<q, a>> \in unsaid /\ NotFor(a, MyVersion) /\ hour >= a.nRelayUntil
    BY <1>1 DEF KnownWasTold, NotFor
  <2>2. CASE q # p
    BY <1>1, <1>6, <2>2 DEF AlertInv, KnownWasTold
  <2>3. CASE q = p /\ a \in peer[p].setKnown
    BY <1>1, <2>3 DEF AlertInv, KnownWasTold
  <2>4. CASE q = p /\ a \notin peer[p].setKnown
    <3>1. a \in mapAlerts /\ IsInEffect(a) BY <1>6, <2>1, <2>4
    <3>2. <<p, a>> \in new BY <1>3, <2>4, <3>1
    <3>3. CASE SentTo(<<p, a>>, version) BY <1>1, <2>4, <3>2, <3>3
    <3>4. CASE ~SentTo(<<p, a>>, version)
      <4>1. NotFor(a, version) BY <3>1, <3>4 DEF SentTo, AppliesTo, NotFor
      <4>2. version # 0 BY AlertAssumption
      <4>. QED BY <1>6, <2>4, <4>1, <4>2
    <3>. QED BY <3>3, <3>4
  <2>. QED BY <2>2, <2>3, <2>4
<1>10. CancelledOrKept' /\ KeptIsValid'
  BY <1>1 DEF AlertInv, CancelledOrKept, KeptIsValid, IsInEffect
<1>. QED BY <1>1, <1>7, <1>8, <1>9, <1>10 DEF AlertInv, Genuine

\* An alert that is taken is relayed to every other peer that does not know it.
LEMMA AcceptSound ==
    ASSUME AlertInv, NEW p \in AlertPeers, NEW a \in AllAlerts,
           Connected(p), peer[p].nVersion # 0, MayProcess(a), ~IsCancelled(a),
           Accept(p, a), received' = received \cup {a}, hour' = hour
    PROVE  AlertInv'
<1>. DEFINE new == Unheard(AlertPeers \ {p}, {a})
            sent == {pa \in new : SentTo(pa, peer[pa[1]].nVersion)}
<1>1. /\ mapAlerts' = Remaining(a) \cup {a}
      /\ peer' = [q \in AlertPeers |->
                     IF q = p \/ <<q, a>> \in new
                     THEN [peer[q] EXCEPT !.setKnown = @ \cup {a}] ELSE peer[q]]
      /\ told' = told \cup {<<p, a>>} \cup sent
      /\ unsaid' = unsaid \cup {pa \in new \ sent : peer[pa[1]].nVersion = 0}
  BY DEF Accept
<1>2. /\ mapAlerts' \subseteq received' /\ received' \subseteq AllAlerts
      /\ IsFiniteSet(mapAlerts')
      /\ (\A x \in received : Genuine(x))'
      /\ CancelledOrKept' /\ KeptIsValid'
  BY <1>1, ComingKeepsOrder
<1>3. new \subseteq AlertPeers \X {a} BY DEF Unheard
<1>4. \A q : <<q, a>> \in new <=> /\ q \in AlertPeers \ {p} /\ Connected(q)
                                 /\ IsInEffect(a) /\ a \notin peer[q].setKnown
  BY DEF Unheard
<1>. HIDE DEF new
<1>5. \A q \in AlertPeers :
         /\ peer'[q].nVersion = peer[q].nVersion /\ peer'[q].nMisbehavior = peer[q].nMisbehavior
         /\ peer'[q].setKnown = IF q = p \/ <<q, a>> \in new THEN peer[q].setKnown \cup {a}
                                ELSE peer[q].setKnown
  BY <1>1 DEF AlertInv, AlertTypeOK
<1>6. AlertTypeOK'
  <2>1. told' \subseteq AlertPeers \X AllAlerts /\ unsaid' \subseteq AlertPeers \X AllAlerts
    BY <1>1, <1>3 DEF AlertInv, AlertTypeOK
  <2>2. peer' \in [AlertPeers -> [nVersion : AlertVersions \cup {0}, setKnown : SUBSET AllAlerts,
                                  nMisbehavior : -1..BanScore]]
    BY <1>1 DEF AlertInv, AlertTypeOK
  <2>3. hour' \in 0 .. LastHour BY DEF AlertInv, AlertTypeOK
  <2>. QED BY <1>2, <2>1, <2>2, <2>3 DEF AlertTypeOK
<1>7. PeersKnow'
  <2>1. SUFFICES ASSUME NEW q \in AlertPeers, NEW x \in mapAlerts',
                        Connected(q), peer[q].nVersion # 0, IsInEffect(x)
                 PROVE  x \in peer'[q].setKnown
    BY <1>5 DEF PeersKnow, IsInEffect, Connected
  <2>2. CASE x = a BY <1>4, <1>5, <2>1, <2>2
  <2>3. CASE x # a
    <3>1. x \in mapAlerts BY <1>1, <2>3 DEF Remaining
    <3>2. x \in peer[q].setKnown BY <2>1, <3>1 DEF AlertInv, PeersKnow
    <3>. QED BY <1>5, <3>2
  <2>. QED BY <2>2, <2>3
<1>8. KnownWasTold'
  <2>1. SUFFICES ASSUME NEW q \in AlertPeers, NEW x \in peer'[q].setKnown
                 PROVE  \/ <<q, x>> \in told'
                        \/ peer[q].nVersion # 0 /\ NotFor(x, peer[q].nVersion)
                        \/ <<q, x>> \in unsaid' /\ NotFor(x, MyVersion) /\ hour >= x.nRelayUntil
    BY <1>5 DEF KnownWasTold, NotFor
  <2>2. CASE x \in peer[q].setKnown
    BY <1>1, <2>2 DEF AlertInv, KnownWasTold
  <2>3. CASE x \notin peer[q].setKnown /\ q = p
    <3>1. peer'[q].setKnown = peer[q].setKnown \cup {a} BY <1>5, <2>3
    <3>2. x = a BY <2>1, <2>3, <3>1
    <3>. QED BY <1>1, <2>3, <3>2
  <2>4. CASE x \notin peer[q].setKnown /\ q # p
    <3>1. x = a /\ <<q, a>> \in new BY <1>5, <2>1, <2>4
    <3>2. IsInEffect(a) /\ hour \in Int /\ a.nRelayUntil \in Int
      BY <1>4, <3>1, AlertAssumption DEF AlertInv, AlertTypeOK
    <3>3. CASE SentTo(<<q, a>>, peer[q].nVersion)
      <4>1. <<q, a>> \in sent BY <3>1, <3>3
      <4>. QED BY <1>1, <3>1, <4>1
    <3>4. CASE ~SentTo(<<q, a>>, peer[q].nVersion)
      <4>1. NotFor(a, peer[q].nVersion) /\ NotFor(a, MyVersion) /\ hour >= a.nRelayUntil
        BY <3>2, <3>4 DEF SentTo, AppliesTo, AppliesToMe, NotFor
      <4>2. peer[q].nVersion = 0 => <<q, a>> \in unsaid' BY <1>1, <3>1, <3>4
      <4>. QED BY <3>1, <4>1, <4>2
    <3>. QED BY <3>3, <3>4
  <2>. QED BY <2>2, <2>3, <2>4
<1>. QED BY <1>2, <1>6, <1>7, <1>8 DEF AlertInv

\* An alert that is refused may have cancelled others first; the sender may go.
LEMMA RefuseSound ==
    ASSUME AlertInv, NEW p \in AlertPeers, NEW a \in AllAlerts,
           Connected(p), ~(MayProcess(a) /\ ~IsCancelled(a)), Refuse(p, a), hour' = hour,
           received' = IF MayProcess(a) THEN received \cup {a} ELSE received
    PROVE  AlertInv'
<1>1. /\ mapAlerts' \subseteq received' /\ received' \subseteq AllAlerts
      /\ IsFiniteSet(mapAlerts')
      /\ (\A x \in received : Genuine(x))'
      /\ CancelledOrKept' /\ KeptIsValid'
  <2>1. CASE MayProcess(a)
    <3>1. mapAlerts' = Remaining(a) /\ IsCancelled(a) BY <2>1 DEF Refuse
    <3>. QED BY <2>1, <3>1, ComingKeepsOrder
  <2>2. CASE ~MayProcess(a)
    <3>1. mapAlerts' = mapAlerts /\ received' = received BY <2>2 DEF Refuse
    <3>. QED BY <3>1 DEF AlertInv, AlertTypeOK, CancelledOrKept, KeptIsValid, IsInEffect, Genuine
  <2>. QED BY <2>1, <2>2
<1>2. mapAlerts' \subseteq mapAlerts BY DEF Refuse, Remaining
<1>3. peer[p].nMisbehavior \in 0 .. BanScore - 1 /\ BanScore \in Nat \ {0}
  BY AlertAssumption DEF Connected
<1>4. CASE peer[p].nMisbehavior + 10 < BanScore
  <2>1. /\ peer' = [peer EXCEPT ![p] = [peer[p] EXCEPT !.nMisbehavior = @ + 10]]
        /\ told' = told \cup {<<p, a>>} /\ unsaid' = unsaid
    <3>1. peer' = [peer EXCEPT ![p] = [peer[p] EXCEPT !.nMisbehavior = @ + 10]]
      BY <1>4, Zenon DEF Refuse
    <3>2. told' = told \cup {<<p, a>>} /\ unsaid' = unsaid BY <1>4, Zenon DEF Refuse
    <3>. QED BY <3>1, <3>2
  <2>2. \A q \in AlertPeers : /\ peer'[q].nVersion = peer[q].nVersion
                              /\ peer'[q].setKnown = peer[q].setKnown
                              /\ Connected(q)' => Connected(q)
    BY <2>1, <1>3 DEF AlertInv, AlertTypeOK, Connected
  <2>3. AlertTypeOK'
    <3>1. peer[p].nMisbehavior + 10 \in -1 .. BanScore BY <1>3, <1>4
    <3>2. peer' \in [AlertPeers -> [nVersion : AlertVersions \cup {0}, setKnown : SUBSET AllAlerts,
                                    nMisbehavior : -1..BanScore]]
      BY <2>1, <3>1 DEF AlertInv, AlertTypeOK
    <3>. QED BY <1>1, <2>1, <3>2 DEF AlertInv, AlertTypeOK
  <2>4. PeersKnow' BY <1>2, <2>2 DEF AlertInv, PeersKnow, IsInEffect
  <2>5. KnownWasTold' BY <2>1, <2>2 DEF AlertInv, KnownWasTold
  <2>. QED BY <1>1, <2>3, <2>4, <2>5 DEF AlertInv
<1>5. CASE ~(peer[p].nMisbehavior + 10 < BanScore)
  <2>1. /\ peer' = [peer EXCEPT ![p] = Banned]
        /\ told' = {pa \in told : pa[1] # p} /\ unsaid' = {pa \in unsaid : pa[1] # p}
    BY <1>5 DEF Refuse
  <2>2. peer'[p].nVersion = 0 /\ peer'[p].setKnown = {} /\ \A q \in AlertPeers \ {p} : peer'[q] = peer[q]
    BY <2>1 DEF AlertInv, AlertTypeOK, Banned
  <2>3. AlertTypeOK'
    BY <1>1, <2>1, AlertAssumption DEF AlertInv, AlertTypeOK, Banned
  <2>4. PeersKnow' BY <1>2, <2>2 DEF AlertInv, PeersKnow, Connected, IsInEffect
  <2>5. KnownWasTold' BY <2>1, <2>2 DEF AlertInv, KnownWasTold
  <2>. QED BY <1>1, <2>3, <2>4, <2>5 DEF AlertInv
<1>. QED BY <1>4, <1>5

LEMMA AlertStepSound == AlertInv /\ [AlertNext]_avars => AlertInv'
<1>. SUFFICES ASSUME AlertInv, [AlertNext]_avars PROVE AlertInv' OBVIOUS
<1>1. CASE UNCHANGED avars
  BY <1>1 DEF avars, AlertInv, AlertTypeOK, CancelledOrKept, KeptIsValid, PeersKnow, KnownWasTold,
     IsInEffect, Connected, Genuine
<1>2. ASSUME NEW p \in AlertPeers, Connect(p) \/ Disconnect(p) PROVE AlertInv'
  BY <1>2, ConnectionSound
<1>3. ASSUME NEW p \in AlertPeers, NEW version \in AlertVersions, VersionMessage(p, version)
      PROVE  AlertInv'
  BY <1>3, VersionSound
<1>4. ASSUME NEW p \in AlertPeers, NEW a \in AllAlerts, AlertMessage(p, a) PROVE AlertInv'
  <2>1. CASE MayProcess(a) /\ ~IsCancelled(a)
    BY <1>4, <2>1, AcceptSound DEF AlertMessage
  <2>2. CASE ~(MayProcess(a) /\ ~IsCancelled(a))
    BY <1>4, <2>2, RefuseSound DEF AlertMessage
  <2>. QED BY <2>1, <2>2
<1>5. CASE HourPasses BY <1>5, HourSound
<1>. QED BY <1>1, <1>2, <1>3, <1>4, <1>5 DEF AlertNext

LEMMA InvConverges == AlertInv => AlertsConverge
<1>. SUFFICES ASSUME AlertInv PROVE AlertsConverge OBVIOUS
<1>1. mapAlerts \subseteq received BY DEF AlertInv, AlertTypeOK
<1>2. ASSUME NEW a \in Shown, NEW b \in received, IsInEffect(b), Cancels(b, a) PROVE FALSE
  BY <1>2 DEF AlertInv, KeptIsValid, Shown
<1>3. ASSUME NEW a \in received, IsInEffect(a),
             \A b \in received : IsInEffect(b) => ~Cancels(b, a)
      PROVE  a \in Shown
  BY <1>1, <1>3 DEF AlertInv, CancelledOrKept, Shown
<1>. QED BY <1>1, <1>2, <1>3 DEF AlertsConverge, Shown

LEMMA InvReaches == AlertInv => AlertsReach
<1>. SUFFICES ASSUME AlertInv, NEW p \in AlertPeers, NEW a \in Shown,
                     Connected(p), peer[p].nVersion # 0, AppliesTo(a, peer[p].nVersion)
              PROVE  \/ <<p, a>> \in told
                     \/ <<p, a>> \in unsaid /\ ~AppliesToMe(a) /\ hour >= a.nRelayUntil
  BY DEF AlertsReach
<1>1. a \in peer[p].setKnown BY DEF AlertInv, PeersKnow, Shown
<1>. QED BY <1>1 DEF AlertInv, KnownWasTold, NotFor, AppliesTo, AppliesToMe

-----------------------------------------------------------------------------
(***************************************************************************)
(* The warnings: the walk over mapAlerts, one alert after the other.       *)
(***************************************************************************)
Warnings == [nPriority : Int, rpc : {"none", "warning"}]
Walked(self, order, w, i) ==
    IF AppliesToMe(order[i]) /\ order[i].nPriority > w.nPriority
    THEN [nPriority |-> order[i].nPriority,
          rpc |-> IF order[i].nPriority > 1000 THEN "warning" ELSE w.rpc]
    ELSE w

LEMMA WarningsWalk ==
    ASSUME NEW self \in Int, NEW n \in Nat, NEW order \in [1 .. n -> AllAlerts]
    PROVE  \E v : /\ v[0] = [nPriority |-> self, rpc |-> IF self = 3000 THEN "warning" ELSE "none"]
                  /\ \A i \in 1 .. n : v[i] = Walked(self, order, v[i - 1], i)
                  /\ GetWarnings(self, order) = v[n]
<1>. DEFINE base == [nPriority |-> self, rpc |-> IF self = 3000 THEN "warning" ELSE "none"]
            F == [wi \in Warnings \X (1 .. n) |-> Walked(self, order, wi[1], wi[2])]
            Follows(it) ==
              it = [s \in SUBSET (1 .. n) |->
                      IF s = {} THEN base
                      ELSE LET x == Max(s) IN
                           IF AppliesToMe(order[x]) /\ order[x].nPriority > it[s \ {x}].nPriority
                           THEN [nPriority |-> order[x].nPriority,
                                 rpc |-> IF order[x].nPriority > 1000 THEN "warning" ELSE it[s \ {x}].rpc]
                           ELSE it[s \ {x}]]
            it0 == CHOOSE it : Follows(it)
<1>1. GetWarnings(self, order) = it0[1 .. n]
  <2>1. DOMAIN order = 1 .. n OBVIOUS
  <2>. QED BY <2>1, Zenon DEF GetWarnings, FoldLeft, MapThenFoldSet
<1>2. base \in Warnings BY DEF Warnings
<1>3. F \in [Warnings \X (1 .. n) -> Warnings]
  <2>1. ASSUME NEW wi \in Warnings \X (1 .. n) PROVE Walked(self, order, wi[1], wi[2]) \in Warnings
    <3>1. wi[1] \in Warnings /\ wi[2] \in 1 .. n OBVIOUS
    <3>2. order[wi[2]].nPriority \in Int BY <3>1, AlertAssumption
    <3>. QED BY <3>1, <3>2 DEF Walked, Warnings
  <2>. QED BY <2>1
<1>4. PICK g \in [SUBSET (1 .. n) -> Warnings] : Folds(g, base, F, n)
  <2>. HIDE DEF base, F
  <2>. QED BY <1>2, <1>3, FoldExists
<1>5. Follows(g)
  <2>1. ASSUME NEW s \in SUBSET (1 .. n), s # {}
        PROVE  g[s] = Walked(self, order, g[s \ {Max(s)}], Max(s))
    <3>1. Max(s) \in 1 .. n BY <2>1, MaxInInterval
    <3>2. g[s \ {Max(s)}] \in Warnings OBVIOUS
    <3>3. g[s] = F[<<g[s \ {Max(s)}], Max(s)>>] BY <2>1, <1>4, Zenon DEF Folds
    <3>. QED BY <3>1, <3>2, <3>3
  <2>2. g[{}] = base
    <3>1. {} \in SUBSET (1 .. n) OBVIOUS
    <3>. HIDE DEF base, F
    <3>. QED BY <1>4, <3>1, Zenon DEF Folds
  <2>3. g = [s \in SUBSET (1 .. n) |-> g[s]] OBVIOUS
  <2>. HIDE DEF base, F
  <2>4. ASSUME NEW s \in SUBSET (1 .. n)
        PROVE  g[s] = IF s = {} THEN base
                      ELSE LET x == Max(s) IN
                           IF AppliesToMe(order[x]) /\ order[x].nPriority > g[s \ {x}].nPriority
                           THEN [nPriority |-> order[x].nPriority,
                                 rpc |-> IF order[x].nPriority > 1000 THEN "warning" ELSE g[s \ {x}].rpc]
                           ELSE g[s \ {x}]
    BY <2>1, <2>2, Zenon DEF Walked
  <2>. QED BY <2>3, <2>4, Zenon
<1>6. Follows(it0)
  <2>. HIDE DEF Follows
  <2>. QED BY <1>5, Zenon
<1>. HIDE DEF it0, base, F
<1>. DEFINE v == [i \in 0 .. n |-> it0[1 .. i]]
<1>7. v[0] = base
  <2>1. 1 .. 0 = {} /\ {} \in SUBSET (1 .. n) OBVIOUS
  <2>. QED BY <1>6, <2>1
<1>10. ASSUME NEW s \in SUBSET (1 .. n), s # {}
       PROVE  it0[s] = Walked(self, order, it0[s \ {Max(s)}], Max(s))
  BY <1>6, <1>10 DEF Walked
<1>. HIDE DEF Follows
<1>8. ASSUME NEW i \in 1 .. n PROVE v[i] = Walked(self, order, v[i - 1], i)
  <2>1. 1 .. i # {} /\ Max(1 .. i) = i /\ (1 .. i) \ {i} = 1 .. i - 1
    <3>1. i \in Nat \ {0} OBVIOUS
    <3>. QED BY <3>1, Interval
  <2>2. 1 .. i \in SUBSET (1 .. n) /\ i \in 0 .. n /\ i - 1 \in 0 .. n OBVIOUS
  <2>3. v[i] = it0[1 .. i] /\ v[i - 1] = it0[1 .. i - 1] BY <2>2
  <2>. HIDE DEF v
  <2>4. it0[1 .. i] = Walked(self, order, it0[(1 .. i) \ {Max(1 .. i)}], Max(1 .. i))
    BY <1>10, <2>1, <2>2, Zenon
  <2>. QED BY <2>1, <2>3, <2>4
<1>9. v[n] = it0[1 .. n] OBVIOUS
<1>. HIDE DEF v
<1>. QED BY <1>1, <1>7, <1>8, <1>9 DEF base

\* A sequence that lists a finite set once lists all of it.
LEMMA ListsAll ==
    ASSUME NEW S, IsFiniteSet(S), NEW order \in SetToSeqs(S)
    PROVE  /\ Cardinality(S) \in Nat
           /\ order \in [1 .. Cardinality(S) -> S]
           /\ \A x \in S : \E i \in 1 .. Cardinality(S) : order[i] = x
<1>1. Cardinality(S) \in Nat BY FS_CardinalityType
<1>2. /\ order \in [1 .. Cardinality(S) -> S]
      /\ \A i, j \in 1 .. Cardinality(S) : i # j => order[i] # order[j]
  BY DEF SetToSeqs
<1>3. order \in Injection(1 .. Cardinality(S), S)
  BY <1>2 DEF Injection, IsInjective
<1>4. Cardinality(1 .. Cardinality(S)) = Cardinality(S) BY <1>1, FS_Interval
<1>5. order \in Surjection(1 .. Cardinality(S), S) BY <1>3, <1>4, FS_Injection
<1>. QED BY <1>1, <1>2, <1>5 DEF Surjection

LEMMA InvSafeMode == AlertInv => SafeModeFollows
<1>. SUFFICES ASSUME AlertInv, NEW self \in {0, 100, 1000, 3000}, NEW order \in SetToSeqs(mapAlerts)
              PROVE  LET w == GetWarnings(self, order)
                         mine == {a.nPriority : a \in {b \in mapAlerts : AppliesToMe(b)}}
                     IN  /\ w.nPriority = Max(mine \cup {self})
                         /\ self <= 1000 => (w.rpc # "none" <=> \E k \in mine : k > 1000)
                         /\ self = 3000 => w.rpc # "none"
  BY DEF SafeModeFollows
<1>. DEFINE size == Cardinality(mapAlerts)
            mine == {a.nPriority : a \in {b \in mapAlerts : AppliesToMe(b)}}
<1>1. mapAlerts \subseteq AllAlerts /\ IsFiniteSet(mapAlerts) BY DEF AlertInv, AlertTypeOK
<1>2. /\ size \in Nat /\ order \in [1 .. size -> mapAlerts]
      /\ \A a \in mapAlerts : \E i \in 1 .. size : order[i] = a
  BY <1>1, ListsAll
<1>. HIDE DEF size
<1>3. \A i \in 1 .. size : order[i] \in mapAlerts /\ order[i].nPriority \in Int
  BY <1>1, <1>2, AlertAssumption
<1>4. order \in [1 .. size -> AllAlerts] BY <1>1, <1>2
<1>5. PICK v : /\ v[0] = [nPriority |-> self, rpc |-> IF self = 3000 THEN "warning" ELSE "none"]
               /\ \A i \in 1 .. size : v[i] = Walked(self, order, v[i - 1], i)
               /\ GetWarnings(self, order) = v[size]
  <2>1. self \in Int OBVIOUS
  <2>2. size \in Nat /\ order \in [1 .. size -> AllAlerts] BY <1>2, <1>4
  <2>. HIDE DEF mine
  <2>. QED BY <2>1, <2>2, WarningsWalk
<1>. DEFINE Seen(i, m) == m = self \/ \E k \in 1 .. i : AppliesToMe(order[k]) /\ m = order[k].nPriority
            Right(i) == /\ v[i] \in Warnings
                        /\ Seen(i, v[i].nPriority)
                        /\ \A m : Seen(i, m) => m <= v[i].nPriority
                        /\ self <= 1000 => (v[i].rpc # "none" <=> v[i].nPriority > 1000)
                        /\ self = 3000 => v[i].rpc # "none"
            Good == {i \in 0 .. size : Right(i)}
<1>6. Right(0)
  <2>1. v[0].nPriority = self /\ (v[0].rpc # "none" <=> self = 3000) BY <1>5
  <2>2. \A m : Seen(0, m) <=> m = self OBVIOUS
  <2>3. v[0] \in Warnings BY <1>5 DEF Warnings
  <2>4. self <= 1000 => (v[0].rpc # "none" <=> v[0].nPriority > 1000) BY <2>1
  <2>5. self = 3000 => v[0].rpc # "none" BY <2>1
  <2>6. \A m : Seen(0, m) => m <= v[0].nPriority BY <2>1, <2>2
  <2>7. Seen(0, v[0].nPriority) BY <2>1, <2>2
  <2>. HIDE DEF Seen
  <2>. QED BY <2>3, <2>4, <2>5, <2>6, <2>7
<1>7. ASSUME NEW i \in 0 .. size - 1, Right(i) PROVE Right(i + 1)
  <2>1. i + 1 \in 1 .. size /\ (i + 1) - 1 = i /\ i \in Nat BY <1>2
  <2>2. v[i + 1] = Walked(self, order, v[i], i + 1) BY <1>5, <2>1
  <2>3. order[i + 1].nPriority \in Int BY <1>3, <2>1
  <2>4. \A m : Seen(i + 1, m) <=> Seen(i, m) \/ (AppliesToMe(order[i + 1]) /\ m = order[i + 1].nPriority)
    BY <2>1
  <2>5. v[i].nPriority \in Int /\ v[i].rpc \in {"none", "warning"} BY <1>7 DEF Warnings
  <2>6. CASE AppliesToMe(order[i + 1]) /\ order[i + 1].nPriority > v[i].nPriority
    <3>1. v[i + 1] = [nPriority |-> order[i + 1].nPriority,
                      rpc |-> IF order[i + 1].nPriority > 1000 THEN "warning" ELSE v[i].rpc]
      BY <2>2, <2>6 DEF Walked
    <3>2. /\ v[i + 1].nPriority = order[i + 1].nPriority
          /\ v[i + 1].rpc # "none" <=> v[i].rpc # "none" \/ order[i + 1].nPriority > 1000
      BY <3>1
    <3>3. v[i + 1] \in Warnings BY <2>3, <2>5, <3>1 DEF Warnings
    <3>4. Seen(i + 1, v[i + 1].nPriority) BY <2>4, <2>6, <3>2
    <3>5. ASSUME NEW m, Seen(i + 1, m) PROVE m <= v[i + 1].nPriority
      <4>1. CASE m = order[i + 1].nPriority BY <2>3, <3>2, <4>1
      <4>2. CASE Seen(i, m)
        <5>1. m <= v[i].nPriority BY <1>7, <4>2
        <5>2. m \in Int
          <6>1. \A k \in 1 .. i : k \in 1 .. size BY <2>1, <1>2
          <6>. QED BY <1>3, <4>2, <6>1
        <5>. QED BY <2>3, <2>5, <2>6, <3>2, <5>1, <5>2
      <4>. HIDE DEF Seen
      <4>. QED BY <2>4, <3>5, <4>1, <4>2
    <3>6. self <= 1000 => (v[i + 1].rpc # "none" <=> v[i + 1].nPriority > 1000)
      <4>1. self <= 1000 => (v[i].rpc # "none" <=> v[i].nPriority > 1000) BY <1>7
      <4>2. v[i].nPriority > 1000 => order[i + 1].nPriority > 1000 BY <2>3, <2>5, <2>6
      <4>3. self <= 1000 => (v[i].rpc # "none" \/ order[i + 1].nPriority > 1000 <=> order[i + 1].nPriority > 1000)
        BY <4>1, <4>2
      <4>. QED BY <3>2, <4>3
    <3>7. self = 3000 => v[i + 1].rpc # "none" BY <1>7, <3>2, <2>5
    <3>. HIDE DEF Seen
    <3>. QED BY <3>3, <3>4, <3>5, <3>6, <3>7
  <2>7. CASE ~(AppliesToMe(order[i + 1]) /\ order[i + 1].nPriority > v[i].nPriority)
    <3>1. v[i + 1] = v[i] BY <2>2, <2>7 DEF Walked
    <3>2. Seen(i + 1, v[i].nPriority)
      <4>. HIDE DEF Seen
      <4>. QED BY <1>7, <2>4
    <3>3. ASSUME NEW m, Seen(i + 1, m) PROVE m <= v[i].nPriority
      <4>1. CASE AppliesToMe(order[i + 1]) /\ m = order[i + 1].nPriority
        BY <2>3, <2>5, <2>7, <4>1
      <4>2. CASE Seen(i, m) BY <1>7, <4>2
      <4>. HIDE DEF Seen
      <4>. QED BY <2>4, <3>3, <4>1, <4>2
    <3>. HIDE DEF Seen
    <3>. QED BY <1>7, <3>1, <3>2, <3>3
  <2>. QED BY <2>6, <2>7
<1>. HIDE DEF Right
<1>8. Right(size)
  <2>1. 0 \in Good /\ \A i \in 0 .. size - 1 : i \in Good => i + 1 \in Good
    <3>1. 0 \in 0 .. size /\ \A i \in 0 .. size - 1 : i + 1 \in 0 .. size BY <1>2
    <3>. QED BY <1>6, <1>7, <3>1
  <2>2. \A i \in 0 .. size : i \in Good
    <3>. HIDE DEF Good
    <3>1. size \in Nat /\ 0 \in Good BY <1>2, <2>1
    <3>2. ASSUME NEW j \in 0 .. size - 1, j \in Good PROVE j + 1 \in Good BY <2>1, <3>2
    <3>3. \A j \in 0 .. size - 1 : j \in Good => j + 1 \in Good BY <3>2
    <3>. QED BY <3>1, <3>3, UpTo
  <2>3. size \in 0 .. size BY <1>2
  <2>. QED BY <2>2, <2>3
<1>9. \A m : Seen(size, m) <=> m \in mine \cup {self}
  <2>1. ASSUME NEW m, Seen(size, m) PROVE m \in mine \cup {self} BY <1>3, <2>1
  <2>2. ASSUME NEW m \in mine PROVE Seen(size, m)
    <3>1. PICK a \in mapAlerts : AppliesToMe(a) /\ m = a.nPriority OBVIOUS
    <3>2. PICK i \in 1 .. size : order[i] = a BY <1>2
    <3>. QED BY <3>1, <3>2
  <2>. QED BY <2>1, <2>2
<1>10. mine \subseteq Int BY <1>1, AlertAssumption
<1>. HIDE DEF mine, Seen
<1>. DEFINE w == GetWarnings(self, order)
<1>11. /\ w.nPriority \in mine \cup {self} /\ w.nPriority \in Int
       /\ \A m \in mine \cup {self} : m <= w.nPriority
       /\ self <= 1000 => (w.rpc # "none" <=> w.nPriority > 1000)
       /\ self = 3000 => w.rpc # "none"
  BY <1>5, <1>8, <1>9 DEF Right, Warnings
<1>. HIDE DEF w
<1>12. w.nPriority = Max(mine \cup {self})
  <2> DEFINE S == mine \cup {self}
             x == w.nPriority
  <2>0. self \in Int OBVIOUS
  <2>1. S \in SUBSET Int BY <1>10, <2>0
  <2>1a. x \in S /\ \A m \in S : m <= x BY <1>11
  <2>. HIDE DEF S, x
  <2>2. Max(S) = x BY <2>1, <2>1a, MaxIs
  <2>. QED BY <2>2 DEF S, x
<1>13. self <= 1000 => (w.rpc # "none" <=> \E m \in mine : m > 1000)
  BY <1>10, <1>11
<1>. QED BY <1>11, <1>12, <1>13 DEF w, mine

\* Whatever alerts come, in whatever order and how often, from peers that come
\* and go: those shown are the ones in effect that none cancels, the peers know
\* them, and the warnings follow them; for any alerts whose signer keeps to the
\* rules of cancelling, any peers and versions.
THEOREM AlertsStaySound == AlertSpec => []AlertsSound
<1>1. AlertInv => AlertsSound BY InvConverges, InvReaches, InvSafeMode DEF AlertInv, AlertsSound
<1>. QED BY <1>1, AlertInitSound, AlertStepSound, PTL DEF AlertSpec

-----------------------------------------------------------------------------
(***************************************************************************)
(* Sums of coins.                                                          *)
(***************************************************************************)
LEMMA OutPointsFinite == IsFiniteSet(OutsOfAll)
<1> DEFINE T == {S \in SUBSET Payments : IsFiniteSet(UNION {OutsOf(t) : t \in S})}
<1>1. ASSUME NEW t \in Payments PROVE IsFiniteSet(OutsOf(t))
  <2>1. Outs[t] \in Nat BY BalanceAssumption
  <2>2. IsFiniteSet(0 .. Outs[t] - 1) BY <2>1, FS_Interval
  <2> DEFINE f == [n \in 0 .. Outs[t] - 1 |-> <<t, n>>]
  <2>3. f \in Surjection(0 .. Outs[t] - 1, OutsOf(t))
    BY DEF Surjection, OutsOf
  <2>. QED BY <2>2, <2>3, FS_Surjection
<1>2. ASSUME NEW S \in SUBSET Payments, \A R \in SUBSET S : R # S => R \in T PROVE S \in T
  <2>1. CASE S = {}
    <3>1. UNION {OutsOf(t) : t \in S} = {} BY <2>1
    <3>. QED BY <3>1, FS_EmptySet
  <2>2. CASE S # {}
    <3>1. PICK t \in S : TRUE BY <2>2
    <3>2. S \ {t} \in T
      <4>1. S \ {t} \in SUBSET S /\ S \ {t} # S BY <3>1
      <4>. HIDE DEF T
      <4>. QED BY <1>2, <4>1
    <3>3. UNION {OutsOf(u) : u \in S} = (UNION {OutsOf(u) : u \in S \ {t}}) \union OutsOf(t)
      BY <3>1
    <3>4. IsFiniteSet((UNION {OutsOf(u) : u \in S \ {t}}) \union OutsOf(t))
      BY <1>1, <3>1, <3>2, FS_Union
    <3>. QED BY <3>3, <3>4
  <2>. QED BY <2>1, <2>2
<1>3. \A S \in SUBSET Payments : S \in T
  <2>. HIDE DEF T
  <2>. QED BY <1>2, BalanceAssumption, SubsetInduction
<1>. QED BY <1>3 DEF OutsOfAll

\* Adding up is adding what CHOOSE finds first to the sum of the others.
LEMMA TotalUnfolds ==
    ASSUME NEW S \in SUBSET OutsOfAll
    PROVE  \E g \in [SUBSET S -> Nat] :
              /\ Total(S) = g[S]
              /\ \A s \in SUBSET S :
                    g[s] = IF s = {} THEN 0
                           ELSE Worth[CHOOSE x \in s : TRUE] + g[s \ {CHOOSE x \in s : TRUE}]
<1>. DEFINE F == [wi \in Nat \X S |-> Worth[wi[2]] + wi[1]]
            Follows(it) ==
              it = [s \in SUBSET S |->
                      IF s = {} THEN 0
                      ELSE LET x == CHOOSE x \in s : TRUE IN Worth[x] + it[s \ {x}]]
            it0 == CHOOSE it : Follows(it)
<1>1. Total(S) = it0[S] BY Zenon DEF Total, MapThenSumSet, MapThenFoldSet
<1>2. F \in [Nat \X S -> Nat]
  <2>1. ASSUME NEW wi \in Nat \X S PROVE Worth[wi[2]] + wi[1] \in Nat
    <3>1. wi[1] \in Nat /\ wi[2] \in OutsOfAll OBVIOUS
    <3>2. Worth[wi[2]] \in Nat BY <3>1, BalanceAssumption
    <3>. QED BY <3>1, <3>2
  <2>. QED BY <2>1
<1>3. IsFiniteSet(S) BY OutPointsFinite, FS_Subset
<1>4. PICK g \in [SUBSET S -> Nat] : SetFolds(g, 0, F, S)
  <2>. HIDE DEF F
  <2>. QED BY <1>2, <1>3, SetFoldExists
<1>5. ASSUME NEW s \in SUBSET S
      PROVE  g[s] = IF s = {} THEN 0
                    ELSE Worth[CHOOSE x \in s : TRUE] + g[s \ {CHOOSE x \in s : TRUE}]
  <2>1. CASE s = {} BY <1>4, <2>1, Zenon DEF SetFolds
  <2>2. CASE s # {}
    <3>1. g[s] = F[<<g[s \ {CHOOSE x \in s : TRUE}], CHOOSE x \in s : TRUE>>]
      BY <1>4, <2>2, Zenon DEF SetFolds
    <3>2. (CHOOSE x \in s : TRUE) \in S BY <2>2
    <3>3. g[s \ {CHOOSE x \in s : TRUE}] \in Nat OBVIOUS
    <3>. QED BY <2>2, <3>1, <3>2, <3>3
  <2>. QED BY <2>1, <2>2
<1>6. Follows(g)
  <2>1. g = [s \in SUBSET S |-> g[s]] OBVIOUS
  <2>. QED BY <1>5, <2>1, Zenon
<1>7. Follows(it0)
  <2>. HIDE DEF Follows
  <2>. QED BY <1>6, Zenon
<1>8. it0 = g
  <2> DEFINE T == {s \in SUBSET S : it0[s] = g[s]}
  <2>1. it0 = [s \in SUBSET S |-> it0[s]] BY <1>7
  <2>2. ASSUME NEW s \in SUBSET S, \A r \in SUBSET s : r # s => r \in T PROVE s \in T
    <3>. HIDE DEF it0
    <3>0. it0[s] = IF s = {} THEN 0
                   ELSE Worth[CHOOSE x \in s : TRUE] + it0[s \ {CHOOSE x \in s : TRUE}]
      BY <1>7, Zenon
    <3>1. CASE s = {} BY <3>0, <3>1, <1>5
    <3>2. CASE s # {}
      <4>1. (CHOOSE x \in s : TRUE) \in s BY <3>2
      <4>2. s \ {CHOOSE x \in s : TRUE} \in T
        <5>1. s \ {CHOOSE x \in s : TRUE} \in SUBSET s /\ s \ {CHOOSE x \in s : TRUE} # s BY <4>1
        <5>. HIDE DEF T
        <5>. QED BY <2>2, <5>1
      <4>. QED BY <3>0, <3>2, <4>2, <1>5
    <3>. QED BY <3>1, <3>2
  <2>3. \A s \in SUBSET S : s \in T
    <3>. HIDE DEF T
    <3>. QED BY <1>3, <2>2, SubsetInduction
  <2>. HIDE DEF it0
  <2>4. \A s \in SUBSET S : it0[s] = g[s] BY <2>3
  <2>. QED BY <2>1, <2>4
<1>. HIDE DEF it0
<1>. QED BY <1>1, <1>5, <1>8

LEMMA TotalFirst ==
    ASSUME NEW S \in SUBSET OutsOfAll
    PROVE  /\ Total(S) \in Nat
           /\ S = {} => Total(S) = 0
           /\ S # {} => Total(S) = Worth[CHOOSE x \in S : TRUE] + Total(S \ {CHOOSE x \in S : TRUE})
<1>1. PICK g \in [SUBSET S -> Nat] :
         /\ Total(S) = g[S]
         /\ \A s \in SUBSET S :
               g[s] = IF s = {} THEN 0
                      ELSE Worth[CHOOSE x \in s : TRUE] + g[s \ {CHOOSE x \in s : TRUE}]
  BY TotalUnfolds
<1>2. S \in SUBSET S OBVIOUS
<1>3. Total(S) \in Nat /\ (S = {} => Total(S) = 0) BY <1>1, <1>2
<1>4. ASSUME S # {} PROVE Total(S \ {CHOOSE x \in S : TRUE}) = g[S \ {CHOOSE x \in S : TRUE}]
  <2> DEFINE R == S \ {CHOOSE x \in S : TRUE}
  <2>1. R \in SUBSET OutsOfAll /\ R \in SUBSET R /\ R \in SUBSET S OBVIOUS
  <2>2. PICK h \in [SUBSET R -> Nat] :
           /\ Total(R) = h[R]
           /\ \A s \in SUBSET R :
                 h[s] = IF s = {} THEN 0
                        ELSE Worth[CHOOSE x \in s : TRUE] + h[s \ {CHOOSE x \in s : TRUE}]
    <3>. HIDE DEF R
    <3>. QED BY <2>1, TotalUnfolds
  <2>. HIDE DEF R
  <2> DEFINE T == {s \in SUBSET R : h[s] = g[s]}
  <2>3. ASSUME NEW s \in SUBSET R, \A r \in SUBSET s : r # s => r \in T PROVE s \in T
    <3>0. s \in SUBSET S BY <2>1
    <3>1. CASE s = {} BY <3>0, <3>1, <1>1, <2>2
    <3>2. CASE s # {}
      <4>1. (CHOOSE x \in s : TRUE) \in s BY <3>2
      <4>2. s \ {CHOOSE x \in s : TRUE} \in T
        <5>1. s \ {CHOOSE x \in s : TRUE} \in SUBSET s /\ s \ {CHOOSE x \in s : TRUE} # s BY <4>1
        <5>. HIDE DEF T
        <5>. QED BY <2>3, <5>1
      <4>. QED BY <3>0, <3>2, <4>2, <1>1, <2>2
    <3>. QED BY <3>1, <3>2
  <2>4. IsFiniteSet(R) BY <2>1, OutPointsFinite, FS_Subset
  <2>5. \A s \in SUBSET R : s \in T
    <3>. HIDE DEF T
    <3>. QED BY <2>3, <2>4, SubsetInduction
  <2>6. h[R] = g[R] BY <2>1, <2>5
  <2>. QED BY <2>2, <2>6 DEF R
<1>. QED BY <1>1, <1>2, <1>3, <1>4

\* The order does not matter.
LEMMA TotalRemove ==
    ASSUME NEW S \in SUBSET OutsOfAll, NEW o \in S
    PROVE  Total(S) = Worth[o] + Total(S \ {o})
<1> DEFINE T == {s \in SUBSET S : \A x \in s : Total(s) = Worth[x] + Total(s \ {x})}
<1>1. ASSUME NEW s \in SUBSET S, \A r \in SUBSET s : r # s => r \in T PROVE s \in T
  <2>1. ASSUME NEW x \in s PROVE Total(s) = Worth[x] + Total(s \ {x})
    <3> DEFINE c == CHOOSE y \in s : TRUE
    <3>1. c \in s BY <2>1
    <3>2. Total(s) = Worth[c] + Total(s \ {c}) BY <2>1, TotalFirst
    <3>. HIDE DEF c
    <3>3. CASE x = c BY <3>2, <3>3
    <3>4. CASE x # c
      <4>1. s \ {c} \in T /\ s \ {x} \in T
        <5>1. /\ s \ {c} \in SUBSET s /\ s \ {c} # s
              /\ s \ {x} \in SUBSET s /\ s \ {x} # s BY <3>1
        <5>. HIDE DEF T
        <5>. QED BY <1>1, <5>1
      <4>2. Total(s \ {c}) = Worth[x] + Total((s \ {c}) \ {x}) BY <3>4, <4>1
      <4>3. Total(s \ {x}) = Worth[c] + Total((s \ {x}) \ {c}) BY <3>1, <3>4, <4>1
      <4>4. (s \ {c}) \ {x} = (s \ {x}) \ {c} OBVIOUS
      <4>5. Worth[x] \in Nat /\ Worth[c] \in Nat BY <3>1, BalanceAssumption
      <4>6. Total((s \ {x}) \ {c}) \in Nat BY TotalFirst
      <4>. QED BY <3>2, <4>2, <4>3, <4>4, <4>5, <4>6
    <3>. QED BY <3>3, <3>4
  <2>. QED BY <2>1
<1>2. IsFiniteSet(S) BY OutPointsFinite, FS_Subset
<1>3. \A s \in SUBSET S : s \in T
  <2>. HIDE DEF T
  <2>. QED BY <1>1, <1>2, SubsetInduction
<1>4. S \in T BY <1>3
<1>. QED BY <1>4

\* A part adds up to no more than the whole, and to as much when the rest is
\* worth nothing.
LEMMA TotalMonotone ==
    ASSUME NEW S \in SUBSET OutsOfAll, NEW R \in SUBSET S
    PROVE  /\ Total(R) \in Nat /\ Total(S) \in Nat /\ Total(R) <= Total(S)
           /\ (\A o \in S \ R : Worth[o] = 0) => Total(R) = Total(S)
<1> DEFINE Fits(s) == /\ Total(R) <= Total(s)
                      /\ (\A o \in s \ R : Worth[o] = 0) => Total(R) = Total(s)
           T == {s \in SUBSET S : R \subseteq s => Fits(s)}
<1>1. ASSUME NEW s \in SUBSET S, \A r \in SUBSET s : r # s => r \in T PROVE s \in T
  <2>1. CASE R \subseteq s /\ R # s
    <3>1. PICK x \in s \ R : TRUE BY <2>1
    <3>2. s \ {x} \in T
      <4>1. s \ {x} \in SUBSET s /\ s \ {x} # s OBVIOUS
      <4>. HIDE DEF T
      <4>. QED BY <1>1, <4>1
    <3>3. Fits(s \ {x}) BY <2>1, <3>1, <3>2
    <3>4. Total(s) = Worth[x] + Total(s \ {x}) BY TotalRemove
    <3>5. Worth[x] \in Nat BY BalanceAssumption
    <3>6. Total(R) \in Nat /\ Total(s) \in Nat /\ Total(s \ {x}) \in Nat BY TotalFirst
    <3>7. (\A o \in s \ R : Worth[o] = 0) => Worth[x] = 0 /\ \A o \in (s \ {x}) \ R : Worth[o] = 0
      BY <3>1
    <3>. QED BY <3>3, <3>4, <3>5, <3>6, <3>7
  <2>2. CASE R = s
    <3>1. Total(R) \in Nat BY TotalFirst
    <3>. QED BY <2>2, <3>1
  <2>. QED BY <2>1, <2>2
<1>2. IsFiniteSet(S) BY OutPointsFinite, FS_Subset
<1>3. \A s \in SUBSET S : s \in T
  <2>. HIDE DEF T
  <2>. QED BY <1>1, <1>2, SubsetInduction
<1>4. Fits(S)
  <2>1. S \in T
    <3>. HIDE DEF T
    <3>. QED BY <1>3
  <2>. QED BY <2>1
<1>5. Total(R) \in Nat /\ Total(S) \in Nat BY TotalFirst
<1>. QED BY <1>4, <1>5

\* A member is worth no more than the whole.
LEMMA TotalAtLeast ==
    ASSUME NEW S \in SUBSET OutsOfAll, NEW o \in S
    PROVE  Worth[o] \in Nat /\ Total(S) \in Nat /\ Worth[o] <= Total(S)
<1>1. Total(S) = Worth[o] + Total(S \ {o}) BY TotalRemove
<1>2. Total(S \ {o}) \in Nat BY TotalFirst
<1>3. Worth[o] \in Nat BY BalanceAssumption
<1>. QED BY <1>1, <1>2, <1>3

-----------------------------------------------------------------------------
(***************************************************************************)
(* The sums of a wallet, and what the getters and the marking of spent     *)
(* coins leave alone.                                                      *)
(***************************************************************************)
WalletsOK == {w \in [Payments -> WalletTx \union {Unset}] :
                 \A t \in Payments : w[t] # Unset => w[t].vfSpent \subseteq 0 .. Outs[t] - 1}

LEMMA OutPoint ==
    ASSUME NEW o \in OutsOfAll
    PROVE  o[1] \in Payments /\ o[2] \in 0 .. Outs[o[1]] - 1 /\ o[2] \in Nat /\ o \in OutsOf(o[1])
BY BalanceAssumption DEF OutsOfAll, OutsOf

LEMMA OutPointsOf ==
    ASSUME NEW t \in Payments
    PROVE  OutsOf(t) \subseteq OutsOfAll /\ Ins[t] \subseteq OutsOfAll
BY BalanceAssumption DEF OutsOfAll

LEMMA SumsAreNumbers ==
    ASSUME NEW w, NEW k, NEW t \in Payments
    PROVE  DebitOf(w, k, t) \in Nat /\ CreditOf(k, t) \in Nat /\ AvailableOf(w, k, t) \in Nat
BY OutPointsOf, TotalFirst DEF DebitOf, CreditOf, AvailableOf

\* v is w after the sums of some of its transactions were cached and some of
\* its coins were marked.
Touched(w, v, k) ==
    /\ v \in WalletsOK
    /\ \A t \in Payments :
         /\ v[t] = Unset <=> w[t] = Unset
         /\ w[t] # Unset =>
              /\ v[t].hashBlock = w[t].hashBlock /\ v[t].vtxPrev = w[t].vtxPrev
              /\ v[t].debit = w[t].debit \/ v[t].debit = DebitOf(w, k, t)
              /\ v[t].credit = w[t].credit \/ v[t].credit = CreditOf(k, t)
              /\ \/ v[t].avail = w[t].avail /\ v[t].vfSpent = w[t].vfSpent
                 \/ v[t].avail = Unset \/ v[t].avail = AvailableOf(v, k, t)

LEMMA TouchNothing == ASSUME NEW w \in WalletsOK, NEW k PROVE Touched(w, w, k)
BY DEF Touched

\* Only the transactions that are there count for a debit.
LEMMA SameDebit ==
    ASSUME NEW w, NEW v, NEW k, NEW t \in Payments,
           \A u \in Payments : v[u] = Unset <=> w[u] = Unset
    PROVE  DebitOf(v, k, t) = DebitOf(w, k, t)
<1>1. {o \in Ins[t] : v[o[1]] # Unset /\ IsMine(k, o)} = {o \in Ins[t] : w[o[1]] # Unset /\ IsMine(k, o)}
  BY OutPointsOf, OutPoint
<1>. QED BY <1>1 DEF DebitOf

LEMMA SameAvailable ==
    ASSUME NEW w, NEW v, NEW k, NEW t \in Payments, v[t].vfSpent = w[t].vfSpent
    PROVE  AvailableOf(v, k, t) = AvailableOf(w, k, t)
BY DEF AvailableOf

\* A record of the wallet in which one field is replaced.
LEMMA OneField ==
    ASSUME NEW r \in WalletTx, NEW n \in Nat \union {Unset}, NEW s \in SUBSET Nat
    PROVE  /\ [r EXCEPT !.debit = n] \in WalletTx
           /\ [r EXCEPT !.credit = n] \in WalletTx
           /\ [r EXCEPT !.avail = n] \in WalletTx
           /\ [r EXCEPT !.vfSpent = s, !.avail = n] \in WalletTx
BY DEF WalletTx

\* The caches of one transaction are replaced.
LEMMA TouchOne ==
    ASSUME NEW w, NEW k, NEW v, Touched(w, v, k), NEW t \in Payments, v[t] # Unset,
           NEW r \in WalletTx, r.vfSpent \subseteq 0 .. Outs[t] - 1,
           r.hashBlock = v[t].hashBlock, r.vtxPrev = v[t].vtxPrev,
           r.debit = v[t].debit \/ r.debit = DebitOf(v, k, t),
           r.credit = v[t].credit \/ r.credit = CreditOf(k, t),
           \/ r.avail = v[t].avail /\ r.vfSpent = v[t].vfSpent
           \/ r.avail = Unset \/ r.avail = AvailableOf([v EXCEPT ![t] = r], k, t)
    PROVE  Touched(w, [v EXCEPT ![t] = r], k)
<1> DEFINE z == [v EXCEPT ![t] = r]
<1>1. v \in [Payments -> WalletTx \union {Unset}] /\ r # Unset
  BY BalanceAssumption DEF Touched, WalletsOK
<1>2. z \in [Payments -> WalletTx \union {Unset}] /\ z[t] = r /\ \A u \in Payments : u # t => z[u] = v[u]
  BY <1>1
<1>. HIDE DEF z
<1>3. z \in WalletsOK BY <1>2 DEF Touched, WalletsOK
<1>4. DebitOf(v, k, t) = DebitOf(w, k, t) BY SameDebit DEF Touched
<1>5. ASSUME NEW u \in Payments, u # t PROVE AvailableOf(z, k, u) = AvailableOf(v, k, u)
  BY <1>2, <1>5, SameAvailable
<1>6. v[t].vfSpent = z[t].vfSpent => AvailableOf(z, k, t) = AvailableOf(v, k, t)
  BY SameAvailable
<1>7. ASSUME NEW u \in Payments
      PROVE  /\ z[u] = Unset <=> w[u] = Unset
             /\ w[u] # Unset =>
                  /\ z[u].hashBlock = w[u].hashBlock /\ z[u].vtxPrev = w[u].vtxPrev
                  /\ z[u].debit = w[u].debit \/ z[u].debit = DebitOf(w, k, u)
                  /\ z[u].credit = w[u].credit \/ z[u].credit = CreditOf(k, u)
                  /\ \/ z[u].avail = w[u].avail /\ z[u].vfSpent = w[u].vfSpent
                     \/ z[u].avail = Unset \/ z[u].avail = AvailableOf(z, k, u)
  <2>1. CASE u # t BY <1>2, <1>5, <2>1 DEF Touched
  <2>2. CASE u = t
    <3>1. w[t] # Unset /\ z[t] # Unset BY <1>1, <1>2 DEF Touched
    <3>2. z[t].hashBlock = w[t].hashBlock /\ z[t].vtxPrev = w[t].vtxPrev BY <3>1, <1>2 DEF Touched
    <3>3. z[t].debit = w[t].debit \/ z[t].debit = DebitOf(w, k, t) BY <3>1, <1>2, <1>4 DEF Touched
    <3>4. z[t].credit = w[t].credit \/ z[t].credit = CreditOf(k, t) BY <3>1, <1>2 DEF Touched
    <3>5. \/ v[t].avail = w[t].avail /\ v[t].vfSpent = w[t].vfSpent
          \/ v[t].avail = Unset \/ v[t].avail = AvailableOf(v, k, t) BY <3>1 DEF Touched
    <3>6. \/ z[t].avail = v[t].avail /\ z[t].vfSpent = v[t].vfSpent
          \/ z[t].avail = Unset \/ z[t].avail = AvailableOf(z, k, t) BY <1>2 DEF z
    <3>. QED BY <2>2, <3>1, <3>2, <3>3, <3>4, <3>5, <3>6, <1>6
  <2>. QED BY <2>1, <2>2
<1>8. Touched(w, z, k) BY <1>3, <1>7 DEF Touched
<1>. QED BY <1>8 DEF z

LEMMA InWalletsOK ==
    ASSUME NEW w \in WalletsOK, NEW t \in Payments, w[t] # Unset
    PROVE  /\ w[t] \in WalletTx /\ w[t].vfSpent \in SUBSET Nat
           /\ w[t].vfSpent \subseteq 0 .. Outs[t] - 1
BY DEF WalletsOK, WalletTx

\* Each getter caches a sum that is right, each mark drops the sum it changes.
LEMMA GettersTouch ==
    ASSUME NEW w, NEW k, NEW v, Touched(w, v, k), NEW t \in Payments, v[t] # Unset
    PROVE  /\ Touched(w, GetDebit(v, k, t), k)
           /\ Touched(w, GetCredit(v, k, t), k)
           /\ Touched(w, GetAvailableCredit(v, k, t), k)
<1>. DEFINE r == v[t]
           d == [r EXCEPT !.debit = DebitOf(v, k, t)]
           c == [r EXCEPT !.credit = CreditOf(k, t)]
           a == [r EXCEPT !.avail = AvailableOf(v, k, t)]
<1>0. v \in WalletsOK /\ v \in [Payments -> WalletTx \union {Unset}] BY DEF Touched, WalletsOK
<1>1. r \in WalletTx /\ r.vfSpent \in SUBSET Nat /\ r.vfSpent \subseteq 0 .. Outs[t] - 1
  BY <1>0, InWalletsOK
<1>2. /\ DebitOf(v, k, t) \in Nat \union {Unset} /\ CreditOf(k, t) \in Nat \union {Unset}
      /\ AvailableOf(v, k, t) \in Nat \union {Unset} BY SumsAreNumbers
<1>. HIDE DEF r
<1>3. d \in WalletTx /\ c \in WalletTx /\ a \in WalletTx BY <1>1, <1>2, OneField
<1>4. /\ d.vfSpent = r.vfSpent /\ d.hashBlock = r.hashBlock /\ d.vtxPrev = r.vtxPrev
      /\ d.debit = DebitOf(v, k, t) /\ d.credit = r.credit /\ d.avail = r.avail
  BY <1>1 DEF WalletTx
<1>5. /\ c.vfSpent = r.vfSpent /\ c.hashBlock = r.hashBlock /\ c.vtxPrev = r.vtxPrev
      /\ c.debit = r.debit /\ c.credit = CreditOf(k, t) /\ c.avail = r.avail
  BY <1>1 DEF WalletTx
<1>6. /\ a.vfSpent = r.vfSpent /\ a.hashBlock = r.hashBlock /\ a.vtxPrev = r.vtxPrev
      /\ a.debit = r.debit /\ a.credit = r.credit /\ a.avail = AvailableOf(v, k, t)
  BY <1>1 DEF WalletTx
<1>. HIDE DEF a, c, d
<1>7. Touched(w, [v EXCEPT ![t] = d], k) BY <1>1, <1>3, <1>4, TouchOne DEF r
<1>8. Touched(w, [v EXCEPT ![t] = c], k) BY <1>1, <1>3, <1>5, TouchOne DEF r
<1>9. Touched(w, [v EXCEPT ![t] = a], k)
  <2>1. [v EXCEPT ![t] = a][t] = a BY <1>0
  <2>2. AvailableOf([v EXCEPT ![t] = a], k, t) = AvailableOf(v, k, t)
    <3> DEFINE z == [v EXCEPT ![t] = a]
    <3>1. z[t].vfSpent = v[t].vfSpent BY <2>1, <1>6 DEF r
    <3>. HIDE DEF z
    <3>2. AvailableOf(z, k, t) = AvailableOf(v, k, t) BY <3>1, SameAvailable
    <3>. QED BY <3>2 DEF z
  <2>. QED BY <2>2, <1>1, <1>3, <1>6, TouchOne DEF r
<1>10. /\ [v EXCEPT ![t].debit = DebitOf(v, k, t)] = [v EXCEPT ![t] = d]
       /\ [v EXCEPT ![t].credit = CreditOf(k, t)] = [v EXCEPT ![t] = c]
       /\ [v EXCEPT ![t].avail = AvailableOf(v, k, t)] = [v EXCEPT ![t] = a]
  BY <1>0 DEF a, c, d, r
<1>. QED BY <1>7, <1>8, <1>9, <1>10 DEF GetDebit, GetCredit, GetAvailableCredit

LEMMA MarksTouch ==
    ASSUME NEW w, NEW k, NEW v, Touched(w, v, k), NEW o \in OutsOfAll, v[o[1]] # Unset
    PROVE  Touched(w, MarkSpent(v, o), k) /\ Touched(w, MarkUnspent(v, o), k)
<1>. DEFINE t == o[1]
           r == v[t]
           s == [r EXCEPT !.vfSpent = r.vfSpent \union {o[2]}, !.avail = Unset]
           n == [r EXCEPT !.vfSpent = r.vfSpent \ {o[2]}, !.avail = Unset]
<1>0. v \in WalletsOK /\ v \in [Payments -> WalletTx \union {Unset}] BY DEF Touched, WalletsOK
<1>1. /\ t \in Payments /\ o[2] \in 0 .. Outs[t] - 1 /\ o[2] \in Nat BY OutPoint
<1>. HIDE DEF t
<1>2. r \in WalletTx /\ r.vfSpent \in SUBSET Nat /\ r.vfSpent \subseteq 0 .. Outs[t] - 1
  BY <1>0, <1>1, InWalletsOK DEF t
<1>. HIDE DEF r
<1>3. s \in WalletTx /\ n \in WalletTx
  <2>1. r.vfSpent \union {o[2]} \in SUBSET Nat /\ r.vfSpent \ {o[2]} \in SUBSET Nat BY <1>1, <1>2
  <2>. QED BY <1>2, <2>1, OneField
<1>4. /\ s.vfSpent = r.vfSpent \union {o[2]} /\ s.hashBlock = r.hashBlock /\ s.vtxPrev = r.vtxPrev
      /\ s.debit = r.debit /\ s.credit = r.credit /\ s.avail = Unset
  BY <1>2 DEF WalletTx
<1>5. /\ n.vfSpent = r.vfSpent \ {o[2]} /\ n.hashBlock = r.hashBlock /\ n.vtxPrev = r.vtxPrev
      /\ n.debit = r.debit /\ n.credit = r.credit /\ n.avail = Unset
  BY <1>2 DEF WalletTx
<1>6. /\ [v EXCEPT ![o[1]].vfSpent = @ \union {o[2]}, ![o[1]].avail = Unset] = [v EXCEPT ![t] = s]
      /\ [v EXCEPT ![o[1]].vfSpent = @ \ {o[2]}, ![o[1]].avail = Unset] = [v EXCEPT ![t] = n]
  BY <1>0, <1>1, <1>2 DEF t, r, WalletTx
<1>. HIDE DEF s, n
<1>7. s.vfSpent \subseteq 0 .. Outs[t] - 1 /\ n.vfSpent \subseteq 0 .. Outs[t] - 1
  BY <1>1, <1>2, <1>4, <1>5
<1>8. Touched(w, [v EXCEPT ![t] = s], k) BY <1>1, <1>3, <1>4, <1>7, TouchOne DEF r, t
<1>9. Touched(w, [v EXCEPT ![t] = n], k) BY <1>1, <1>3, <1>5, <1>7, TouchOne DEF r, t
<1>. QED BY <1>6, <1>8, <1>9 DEF MarkSpent, MarkUnspent

-----------------------------------------------------------------------------
(***************************************************************************)
(* The walks over outpoints and over the wallet.                           *)
(***************************************************************************)

\* WalletUpdateSpent caches credits and marks coins as spent.
LEMMA UpdateSpentTouches ==
    ASSUME NEW w \in WalletsOK, NEW k, NEW t \in Payments
    PROVE  Touched(w, WalletUpdateSpent(w, k, t), k)
<1>. DEFINE S == OwnInputs(w, k, t)
            W == {v \in WalletsOK : Touched(w, v, k)}
            Marked(v, o) == IF o[2] \in v[o[1]].vfSpent THEN v
                            ELSE MarkSpent(GetCredit(v, k, o[1]), o)
            F == [wi \in W \X S |-> Marked(wi[1], wi[2])]
            Follows(it) ==
              it = [s \in SUBSET S |->
                      IF s = {} THEN w
                      ELSE LET x == CHOOSE x \in s : TRUE IN Marked(it[s \ {x}], x)]
            it0 == CHOOSE it : Follows(it)
<1>1. WalletUpdateSpent(w, k, t) = it0[S] BY Zenon DEF WalletUpdateSpent, FoldSet, MapThenFoldSet
<1>2. IsFiniteSet(S)
  <2>1. S \in SUBSET OutsOfAll BY OutPointsOf DEF OwnInputs
  <2>. QED BY <2>1, OutPointsFinite, FS_Subset
<1>3. ASSUME NEW v \in W, NEW o \in S PROVE Marked(v, o) \in W
  <2>1. o \in OutsOfAll /\ o[1] \in Payments BY OutPointsOf, OutPoint DEF OwnInputs
  <2>2. w[o[1]] # Unset BY DEF OwnInputs
  <2>3. Touched(w, v, k) /\ v[o[1]] # Unset BY <2>1, <2>2 DEF Touched
  <2>4. Touched(w, GetCredit(v, k, o[1]), k) BY <2>1, <2>3, GettersTouch
  <2>5. GetCredit(v, k, o[1])[o[1]] # Unset BY <2>1, <2>2, <2>4 DEF Touched
  <2>6. Touched(w, MarkSpent(GetCredit(v, k, o[1]), o), k) BY <2>1, <2>4, <2>5, MarksTouch
  <2>. QED BY <2>3, <2>6 DEF Touched
<1>4. w \in W BY TouchNothing
<1>. HIDE DEF S, W, Marked
<1>5. F \in [W \X S -> W]
  <2>1. ASSUME NEW wi \in W \X S PROVE Marked(wi[1], wi[2]) \in W
    <3>1. wi[1] \in W /\ wi[2] \in S OBVIOUS
    <3>. QED BY <1>3, <3>1
  <2>. QED BY <2>1
<1>6. ASSUME NEW v \in W, NEW o \in S PROVE F[<<v, o>>] = Marked(v, o)
  <2>1. <<v, o>> \in W \X S OBVIOUS
  <2>. QED BY <2>1
<1>. HIDE DEF F
<1>7. PICK g \in [SUBSET S -> W] : SetFolds(g, w, F, S) BY <1>2, <1>4, <1>5, SetFoldExists
<1>8. Follows(g)
  <2>1. ASSUME NEW s \in SUBSET S, s # {}
        PROVE  g[s] = Marked(g[s \ {CHOOSE x \in s : TRUE}], CHOOSE x \in s : TRUE)
    <3>1. g[s] = F[<<g[s \ {CHOOSE x \in s : TRUE}], CHOOSE x \in s : TRUE>>]
      BY <1>7, <2>1, Zenon DEF SetFolds
    <3>2. (CHOOSE x \in s : TRUE) \in S BY <2>1
    <3>3. g[s \ {CHOOSE x \in s : TRUE}] \in W OBVIOUS
    <3>. QED BY <1>6, <3>1, <3>2, <3>3, Zenon
  <2>2. g[{}] = w BY <1>7, Zenon DEF SetFolds
  <2>3. g = [s \in SUBSET S |-> g[s]] OBVIOUS
  <2>4. ASSUME NEW s \in SUBSET S
        PROVE  g[s] = IF s = {} THEN w
                      ELSE LET x == CHOOSE x \in s : TRUE IN Marked(g[s \ {x}], x)
    BY <2>1, <2>2, Zenon
  <2>. QED BY <2>3, <2>4, Zenon
<1>9. Follows(it0)
  <2>. HIDE DEF Follows
  <2>. QED BY <1>8, Zenon
<1>. HIDE DEF it0
<1>10. it0[{}] \in W BY <1>4, <1>9
<1>11. ASSUME NEW s \in SUBSET S, s # {}, it0[s \ {CHOOSE x \in s : TRUE}] \in W PROVE it0[s] \in W
  <2>1. it0[s] = Marked(it0[s \ {CHOOSE x \in s : TRUE}], CHOOSE x \in s : TRUE)
    BY <1>9, <1>11, Zenon
  <2>2. (CHOOSE x \in s : TRUE) \in S BY <1>11
  <2>. QED BY <1>3, <1>11, <2>1, <2>2
<1>. HIDE DEF Follows
<1>12. \A s \in SUBSET S : it0[s] \in W BY <1>2, <1>10, <1>11, SetFoldIn
<1>13. it0[S] \in W BY <1>12
<1>. QED BY <1>1, <1>13 DEF W

\* CommitTransaction marks what the new transaction spends.
LEMMA MarkingTouches ==
    ASSUME NEW w \in WalletsOK, NEW k, NEW t \in Payments, \A o \in Ins[t] : w[o[1]] # Unset
    PROVE  Touched(w, FoldSet(LAMBDA o, v : MarkSpent(v, o), w, Ins[t]), k)
<1>. DEFINE S == Ins[t]
            W == {v \in WalletsOK : Touched(w, v, k)}
            Marked(v, o) == MarkSpent(v, o)
            F == [wi \in W \X S |-> Marked(wi[1], wi[2])]
            Follows(it) ==
              it = [s \in SUBSET S |->
                      IF s = {} THEN w
                      ELSE LET x == CHOOSE x \in s : TRUE IN Marked(it[s \ {x}], x)]
            it0 == CHOOSE it : Follows(it)
<1>1. FoldSet(LAMBDA o, v : MarkSpent(v, o), w, Ins[t]) = it0[S] BY Zenon DEF FoldSet, MapThenFoldSet
<1>2. IsFiniteSet(S)
  <2>1. S \in SUBSET OutsOfAll BY OutPointsOf
  <2>. QED BY <2>1, OutPointsFinite, FS_Subset
<1>3. ASSUME NEW v \in W, NEW o \in S PROVE Marked(v, o) \in W
  <2>1. o \in OutsOfAll /\ o[1] \in Payments BY OutPointsOf, OutPoint
  <2>2. w[o[1]] # Unset OBVIOUS
  <2>3. Touched(w, v, k) /\ v[o[1]] # Unset BY <2>1, <2>2 DEF Touched
  <2>4. Touched(w, Marked(v, o), k) BY <2>1, <2>3, MarksTouch
  <2>. QED BY <2>4 DEF Touched
<1>4. w \in W BY TouchNothing
<1>. HIDE DEF S, W, Marked
<1>5. F \in [W \X S -> W]
  <2>1. ASSUME NEW wi \in W \X S PROVE Marked(wi[1], wi[2]) \in W
    <3>1. wi[1] \in W /\ wi[2] \in S OBVIOUS
    <3>. QED BY <1>3, <3>1
  <2>. QED BY <2>1
<1>6. ASSUME NEW v \in W, NEW o \in S PROVE F[<<v, o>>] = Marked(v, o)
  <2>1. <<v, o>> \in W \X S OBVIOUS
  <2>. QED BY <2>1
<1>. HIDE DEF F
<1>7. PICK g \in [SUBSET S -> W] : SetFolds(g, w, F, S) BY <1>2, <1>4, <1>5, SetFoldExists
<1>8. Follows(g)
  <2>1. ASSUME NEW s \in SUBSET S, s # {}
        PROVE  g[s] = Marked(g[s \ {CHOOSE x \in s : TRUE}], CHOOSE x \in s : TRUE)
    <3>1. g[s] = F[<<g[s \ {CHOOSE x \in s : TRUE}], CHOOSE x \in s : TRUE>>]
      BY <1>7, <2>1, Zenon DEF SetFolds
    <3>2. (CHOOSE x \in s : TRUE) \in S BY <2>1
    <3>3. g[s \ {CHOOSE x \in s : TRUE}] \in W OBVIOUS
    <3>. QED BY <1>6, <3>1, <3>2, <3>3, Zenon
  <2>2. g[{}] = w BY <1>7, Zenon DEF SetFolds
  <2>3. g = [s \in SUBSET S |-> g[s]] OBVIOUS
  <2>4. ASSUME NEW s \in SUBSET S
        PROVE  g[s] = IF s = {} THEN w
                      ELSE LET x == CHOOSE x \in s : TRUE IN Marked(g[s \ {x}], x)
    BY <2>1, <2>2, Zenon
  <2>. QED BY <2>3, <2>4, Zenon
<1>9. Follows(it0)
  <2>. HIDE DEF Follows
  <2>. QED BY <1>8, Zenon
<1>. HIDE DEF it0
<1>10. it0[{}] \in W BY <1>4, <1>9
<1>11. ASSUME NEW s \in SUBSET S, s # {}, it0[s \ {CHOOSE x \in s : TRUE}] \in W PROVE it0[s] \in W
  <2>1. it0[s] = Marked(it0[s \ {CHOOSE x \in s : TRUE}], CHOOSE x \in s : TRUE)
    BY <1>9, <1>11, Zenon
  <2>2. (CHOOSE x \in s : TRUE) \in S BY <1>11
  <2>. QED BY <1>3, <1>11, <2>1, <2>2
<1>. HIDE DEF Follows
<1>12. \A s \in SUBSET S : it0[s] \in W BY <1>2, <1>10, <1>11, SetFoldIn
<1>13. it0[S] \in W BY <1>12
<1>. QED BY <1>1, <1>13 DEF W

\* DisableTransaction gives back what a stake spent.
LEMMA RefundTouches ==
    ASSUME NEW w \in WalletsOK, NEW k, NEW t \in Payments
    PROVE  Touched(w, FoldSet(LAMBDA o, v : MarkUnspent(v, o), w, OwnInputs(w, k, t)), k)
<1>. DEFINE S == OwnInputs(w, k, t)
            W == {v \in WalletsOK : Touched(w, v, k)}
            Marked(v, o) == MarkUnspent(v, o)
            F == [wi \in W \X S |-> Marked(wi[1], wi[2])]
            Follows(it) ==
              it = [s \in SUBSET S |->
                      IF s = {} THEN w
                      ELSE LET x == CHOOSE x \in s : TRUE IN Marked(it[s \ {x}], x)]
            it0 == CHOOSE it : Follows(it)
<1>1. FoldSet(LAMBDA o, v : MarkUnspent(v, o), w, OwnInputs(w, k, t)) = it0[S] BY Zenon DEF FoldSet, MapThenFoldSet
<1>2. IsFiniteSet(S)
  <2>1. S \in SUBSET OutsOfAll BY OutPointsOf DEF OwnInputs
  <2>. QED BY <2>1, OutPointsFinite, FS_Subset
<1>3. ASSUME NEW v \in W, NEW o \in S PROVE Marked(v, o) \in W
  <2>1. o \in OutsOfAll /\ o[1] \in Payments BY OutPointsOf, OutPoint DEF OwnInputs
  <2>2. w[o[1]] # Unset BY DEF OwnInputs
  <2>3. Touched(w, v, k) /\ v[o[1]] # Unset BY <2>1, <2>2 DEF Touched
  <2>4. Touched(w, Marked(v, o), k) BY <2>1, <2>3, MarksTouch
  <2>. QED BY <2>4 DEF Touched
<1>4. w \in W BY TouchNothing
<1>. HIDE DEF S, W, Marked
<1>5. F \in [W \X S -> W]
  <2>1. ASSUME NEW wi \in W \X S PROVE Marked(wi[1], wi[2]) \in W
    <3>1. wi[1] \in W /\ wi[2] \in S OBVIOUS
    <3>. QED BY <1>3, <3>1
  <2>. QED BY <2>1
<1>6. ASSUME NEW v \in W, NEW o \in S PROVE F[<<v, o>>] = Marked(v, o)
  <2>1. <<v, o>> \in W \X S OBVIOUS
  <2>. QED BY <2>1
<1>. HIDE DEF F
<1>7. PICK g \in [SUBSET S -> W] : SetFolds(g, w, F, S) BY <1>2, <1>4, <1>5, SetFoldExists
<1>8. Follows(g)
  <2>1. ASSUME NEW s \in SUBSET S, s # {}
        PROVE  g[s] = Marked(g[s \ {CHOOSE x \in s : TRUE}], CHOOSE x \in s : TRUE)
    <3>1. g[s] = F[<<g[s \ {CHOOSE x \in s : TRUE}], CHOOSE x \in s : TRUE>>]
      BY <1>7, <2>1, Zenon DEF SetFolds
    <3>2. (CHOOSE x \in s : TRUE) \in S BY <2>1
    <3>3. g[s \ {CHOOSE x \in s : TRUE}] \in W OBVIOUS
    <3>. QED BY <1>6, <3>1, <3>2, <3>3, Zenon
  <2>2. g[{}] = w BY <1>7, Zenon DEF SetFolds
  <2>3. g = [s \in SUBSET S |-> g[s]] OBVIOUS
  <2>4. ASSUME NEW s \in SUBSET S
        PROVE  g[s] = IF s = {} THEN w
                      ELSE LET x == CHOOSE x \in s : TRUE IN Marked(g[s \ {x}], x)
    BY <2>1, <2>2, Zenon
  <2>. QED BY <2>3, <2>4, Zenon
<1>9. Follows(it0)
  <2>. HIDE DEF Follows
  <2>. QED BY <1>8, Zenon
<1>. HIDE DEF it0
<1>10. it0[{}] \in W BY <1>4, <1>9
<1>11. ASSUME NEW s \in SUBSET S, s # {}, it0[s \ {CHOOSE x \in s : TRUE}] \in W PROVE it0[s] \in W
  <2>1. it0[s] = Marked(it0[s \ {CHOOSE x \in s : TRUE}], CHOOSE x \in s : TRUE)
    BY <1>9, <1>11, Zenon
  <2>2. (CHOOSE x \in s : TRUE) \in S BY <1>11
  <2>. QED BY <1>3, <1>11, <2>1, <2>2
<1>. HIDE DEF Follows
<1>12. \A s \in SUBSET S : it0[s] \in W BY <1>2, <1>10, <1>11, SetFoldIn
<1>13. it0[S] \in W BY <1>12
<1>. QED BY <1>1, <1>13 DEF W

\* GetBalance.
LEMMA AskBalanceTouches ==
    ASSUME wtx \in WalletsOK, AskBalance
    PROVE  Touched(wtx, wtx', own)
<1>. DEFINE S == InWallet(wtx)
            W == {v \in WalletsOK : Touched(wtx, v, own)}
            Marked(v, t) == LET asked == AskConfirmed(v, t) IN
                            IF IsConfirmed(v, t) THEN GetAvailableCredit(asked, own, t) ELSE asked
            F == [wi \in W \X S |-> Marked(wi[1], wi[2])]
            Follows(it) ==
              it = [s \in SUBSET S |->
                      IF s = {} THEN wtx
                      ELSE LET x == CHOOSE x \in s : TRUE IN Marked(it[s \ {x}], x)]
            it0 == CHOOSE it : Follows(it)
<1>1. wtx' = it0[S] BY Zenon DEF AskBalance, FoldSet, MapThenFoldSet
<1>2. IsFiniteSet(S)
  BY BalanceAssumption, FS_Subset DEF InWallet
<1>3. ASSUME NEW v \in W, NEW o \in S PROVE Marked(v, o) \in W
  <2>1. o \in Payments /\ wtx[o] # Unset BY DEF InWallet
  <2>2. Touched(wtx, v, own) /\ v[o] # Unset BY <2>1 DEF Touched
  <2>3. Touched(wtx, AskConfirmed(v, o), own) BY <2>1, <2>2, GettersTouch DEF AskConfirmed
  <2>4. AskConfirmed(v, o)[o] # Unset BY <2>1, <2>3 DEF Touched
  <2>5. Touched(wtx, GetAvailableCredit(AskConfirmed(v, o), own, o), own) BY <2>1, <2>3, <2>4, GettersTouch
  <2>. QED BY <2>3, <2>5 DEF Touched
<1>4. wtx \in W BY TouchNothing
<1>. HIDE DEF S, W, Marked
<1>5. F \in [W \X S -> W]
  <2>1. ASSUME NEW wi \in W \X S PROVE Marked(wi[1], wi[2]) \in W
    <3>1. wi[1] \in W /\ wi[2] \in S OBVIOUS
    <3>. QED BY <1>3, <3>1
  <2>. QED BY <2>1
<1>6. ASSUME NEW v \in W, NEW o \in S PROVE F[<<v, o>>] = Marked(v, o)
  <2>1. <<v, o>> \in W \X S OBVIOUS
  <2>. QED BY <2>1
<1>. HIDE DEF F
<1>7. PICK g \in [SUBSET S -> W] : SetFolds(g, wtx, F, S) BY <1>2, <1>4, <1>5, SetFoldExists
<1>8. Follows(g)
  <2>1. ASSUME NEW s \in SUBSET S, s # {}
        PROVE  g[s] = Marked(g[s \ {CHOOSE x \in s : TRUE}], CHOOSE x \in s : TRUE)
    <3>1. g[s] = F[<<g[s \ {CHOOSE x \in s : TRUE}], CHOOSE x \in s : TRUE>>]
      BY <1>7, <2>1, Zenon DEF SetFolds
    <3>2. (CHOOSE x \in s : TRUE) \in S BY <2>1
    <3>3. g[s \ {CHOOSE x \in s : TRUE}] \in W OBVIOUS
    <3>. QED BY <1>6, <3>1, <3>2, <3>3, Zenon
  <2>2. g[{}] = wtx BY <1>7, Zenon DEF SetFolds
  <2>3. g = [s \in SUBSET S |-> g[s]] OBVIOUS
  <2>4. ASSUME NEW s \in SUBSET S
        PROVE  g[s] = IF s = {} THEN wtx
                      ELSE LET x == CHOOSE x \in s : TRUE IN Marked(g[s \ {x}], x)
    BY <2>1, <2>2, Zenon
  <2>. QED BY <2>3, <2>4, Zenon
<1>9. Follows(it0)
  <2>. HIDE DEF Follows
  <2>. QED BY <1>8, Zenon
<1>. HIDE DEF it0
<1>10. it0[{}] \in W BY <1>4, <1>9
<1>11. ASSUME NEW s \in SUBSET S, s # {}, it0[s \ {CHOOSE x \in s : TRUE}] \in W PROVE it0[s] \in W
  <2>1. it0[s] = Marked(it0[s \ {CHOOSE x \in s : TRUE}], CHOOSE x \in s : TRUE)
    BY <1>9, <1>11, Zenon
  <2>2. (CHOOSE x \in s : TRUE) \in S BY <1>11
  <2>. QED BY <1>3, <1>11, <2>1, <2>2
<1>. HIDE DEF Follows
<1>12. \A s \in SUBSET S : it0[s] \in W BY <1>2, <1>10, <1>11, SetFoldIn
<1>13. it0[S] \in W BY <1>12
<1>. QED BY <1>1, <1>13 DEF W

\* GetUnconfirmedBalance.
LEMMA AskUnconfirmedTouches ==
    ASSUME wtx \in WalletsOK, AskUnconfirmed
    PROVE  Touched(wtx, wtx', own)
<1>. DEFINE S == InWallet(wtx)
            W == {v \in WalletsOK : Touched(wtx, v, own)}
            Marked(v, t) == LET asked == AskConfirmed(v, t) IN
                            IF IsConfirmed(v, t) THEN asked ELSE GetAvailableCredit(asked, own, t)
            F == [wi \in W \X S |-> Marked(wi[1], wi[2])]
            Follows(it) ==
              it = [s \in SUBSET S |->
                      IF s = {} THEN wtx
                      ELSE LET x == CHOOSE x \in s : TRUE IN Marked(it[s \ {x}], x)]
            it0 == CHOOSE it : Follows(it)
<1>1. wtx' = it0[S] BY Zenon DEF AskUnconfirmed, FoldSet, MapThenFoldSet
<1>2. IsFiniteSet(S)
  BY BalanceAssumption, FS_Subset DEF InWallet
<1>3. ASSUME NEW v \in W, NEW o \in S PROVE Marked(v, o) \in W
  <2>1. o \in Payments /\ wtx[o] # Unset BY DEF InWallet
  <2>2. Touched(wtx, v, own) /\ v[o] # Unset BY <2>1 DEF Touched
  <2>3. Touched(wtx, AskConfirmed(v, o), own) BY <2>1, <2>2, GettersTouch DEF AskConfirmed
  <2>4. AskConfirmed(v, o)[o] # Unset BY <2>1, <2>3 DEF Touched
  <2>5. Touched(wtx, GetAvailableCredit(AskConfirmed(v, o), own, o), own) BY <2>1, <2>3, <2>4, GettersTouch
  <2>. QED BY <2>3, <2>5 DEF Touched
<1>4. wtx \in W BY TouchNothing
<1>. HIDE DEF S, W, Marked
<1>5. F \in [W \X S -> W]
  <2>1. ASSUME NEW wi \in W \X S PROVE Marked(wi[1], wi[2]) \in W
    <3>1. wi[1] \in W /\ wi[2] \in S OBVIOUS
    <3>. QED BY <1>3, <3>1
  <2>. QED BY <2>1
<1>6. ASSUME NEW v \in W, NEW o \in S PROVE F[<<v, o>>] = Marked(v, o)
  <2>1. <<v, o>> \in W \X S OBVIOUS
  <2>. QED BY <2>1
<1>. HIDE DEF F
<1>7. PICK g \in [SUBSET S -> W] : SetFolds(g, wtx, F, S) BY <1>2, <1>4, <1>5, SetFoldExists
<1>8. Follows(g)
  <2>1. ASSUME NEW s \in SUBSET S, s # {}
        PROVE  g[s] = Marked(g[s \ {CHOOSE x \in s : TRUE}], CHOOSE x \in s : TRUE)
    <3>1. g[s] = F[<<g[s \ {CHOOSE x \in s : TRUE}], CHOOSE x \in s : TRUE>>]
      BY <1>7, <2>1, Zenon DEF SetFolds
    <3>2. (CHOOSE x \in s : TRUE) \in S BY <2>1
    <3>3. g[s \ {CHOOSE x \in s : TRUE}] \in W OBVIOUS
    <3>. QED BY <1>6, <3>1, <3>2, <3>3, Zenon
  <2>2. g[{}] = wtx BY <1>7, Zenon DEF SetFolds
  <2>3. g = [s \in SUBSET S |-> g[s]] OBVIOUS
  <2>4. ASSUME NEW s \in SUBSET S
        PROVE  g[s] = IF s = {} THEN wtx
                      ELSE LET x == CHOOSE x \in s : TRUE IN Marked(g[s \ {x}], x)
    BY <2>1, <2>2, Zenon
  <2>. QED BY <2>3, <2>4, Zenon
<1>9. Follows(it0)
  <2>. HIDE DEF Follows
  <2>. QED BY <1>8, Zenon
<1>. HIDE DEF it0
<1>10. it0[{}] \in W BY <1>4, <1>9
<1>11. ASSUME NEW s \in SUBSET S, s # {}, it0[s \ {CHOOSE x \in s : TRUE}] \in W PROVE it0[s] \in W
  <2>1. it0[s] = Marked(it0[s \ {CHOOSE x \in s : TRUE}], CHOOSE x \in s : TRUE)
    BY <1>9, <1>11, Zenon
  <2>2. (CHOOSE x \in s : TRUE) \in S BY <1>11
  <2>. QED BY <1>3, <1>11, <2>1, <2>2
<1>. HIDE DEF Follows
<1>12. \A s \in SUBSET S : it0[s] \in W BY <1>2, <1>10, <1>11, SetFoldIn
<1>13. it0[S] \in W BY <1>12
<1>. QED BY <1>1, <1>13 DEF W

-----------------------------------------------------------------------------
(***************************************************************************)
(* A transaction is added to a wallet.                                     *)
(***************************************************************************)
\* a is w with t in it, new or merged, and without cached sums.
Added(w, a, t, record) ==
    /\ a \in WalletsOK
    /\ \A u \in Payments : u # t => a[u] = w[u]
    /\ a[t] # Unset /\ a[t].debit = Unset /\ a[t].credit = Unset /\ a[t].avail = Unset
    /\ a[t].hashBlock = IF w[t] # Unset /\ record.hashBlock = 0 THEN w[t].hashBlock ELSE record.hashBlock
    /\ a[t].vtxPrev = IF w[t] # Unset THEN w[t].vtxPrev ELSE record.vtxPrev

LEMMA AddToWalletIs ==
    ASSUME NEW w \in WalletsOK, NEW k, NEW t \in Payments, NEW record \in WalletTx, record.vfSpent = {}
    PROVE  \E a \in WalletsOK : Added(w, a, t, record) /\ Touched(a, AddToWallet(w, k, t, record), k)
<1> DEFINE merged == IF w[t] = Unset THEN record
                     ELSE [w[t] EXCEPT !.hashBlock = IF record.hashBlock = 0 THEN @ ELSE record.hashBlock,
                                       !.vfSpent = @ \union record.vfSpent]
           a == [w EXCEPT ![t] = Dirty(merged)]
<1>1. /\ merged \in WalletTx /\ merged.vfSpent \subseteq 0 .. Outs[t] - 1
      /\ merged.hashBlock = IF w[t] # Unset /\ record.hashBlock = 0 THEN w[t].hashBlock ELSE record.hashBlock
      /\ merged.vtxPrev = IF w[t] # Unset THEN w[t].vtxPrev ELSE record.vtxPrev
  <2>1. CASE w[t] = Unset BY <2>1
  <2>2. CASE w[t] # Unset
    <3>1. w[t] \in WalletTx /\ w[t].vfSpent \subseteq 0 .. Outs[t] - 1 BY <2>2, InWalletsOK
    <3> DEFINE r == w[t]
               m == [r EXCEPT !.hashBlock = IF record.hashBlock = 0 THEN @ ELSE record.hashBlock,
                              !.vfSpent = @ \union record.vfSpent]
    <3>2. merged = m BY <2>2
    <3>3. m \in WalletTx /\ m.vfSpent = r.vfSpent /\ m.vtxPrev = r.vtxPrev
          /\ m.hashBlock = IF record.hashBlock = 0 THEN r.hashBlock ELSE record.hashBlock
      <4>1. r \in WalletTx BY <3>1
      <4>. HIDE DEF r
      <4>. QED BY <4>1 DEF WalletTx
    <3>. QED BY <2>2, <3>1, <3>2, <3>3
  <2>. QED BY <2>1, <2>2
<1>2. AddToWallet(w, k, t, record) = WalletUpdateSpent(a, k, t) BY DEF AddToWallet
<1>. HIDE DEF merged
<1>3. /\ Dirty(merged) \in WalletTx /\ Dirty(merged).vfSpent = merged.vfSpent
      /\ Dirty(merged).hashBlock = merged.hashBlock /\ Dirty(merged).vtxPrev = merged.vtxPrev
      /\ Dirty(merged).debit = Unset /\ Dirty(merged).credit = Unset /\ Dirty(merged).avail = Unset
  BY <1>1 DEF Dirty, WalletTx
<1>4. /\ a \in [Payments -> WalletTx \union {Unset}] /\ a[t] = Dirty(merged)
      /\ \A u \in Payments : u # t => a[u] = w[u]
  BY <1>3 DEF WalletsOK
<1>5. Dirty(merged) # Unset BY <1>3, BalanceAssumption
<1>. HIDE DEF a
<1>6. a \in WalletsOK BY <1>1, <1>3, <1>4 DEF WalletsOK
<1>7. Added(w, a, t, record) BY <1>1, <1>3, <1>4, <1>5, <1>6 DEF Added
<1>8. Touched(a, WalletUpdateSpent(a, k, t), k) BY <1>6, UpdateSpentTouches
<1>. QED BY <1>2, <1>6, <1>7, <1>8

LEMMA NewIsWalletTx ==
    ASSUME NEW n \in Nat
    PROVE  /\ NewWalletTx(n) \in WalletTx /\ NewWalletTx(n).vfSpent = {}
           /\ NewWalletTx(n).hashBlock = n /\ NewWalletTx(n).vtxPrev = {}
BY DEF NewWalletTx, WalletTx

LEMMA SyncIs ==
    ASSUME NEW w \in WalletsOK, NEW k, NEW t \in Payments, NEW n \in Nat
    PROVE  \E a \in WalletsOK :
              /\ Touched(a, Sync(w, k, t, n), k)
              /\ Added(w, a, t, NewWalletTx(n)) \/ (a = w /\ w[t] = Unset /\ CreditOf(k, t) = 0)
<1>1. CASE w[t] # Unset \/ CreditOf(k, t) > 0 \/ DebitOf(w, k, t) > 0
  <2>1. Sync(w, k, t, n) = AddToWallet(w, k, t, NewWalletTx(n)) BY <1>1, Zenon DEF Sync
  <2>. QED BY <2>1, NewIsWalletTx, AddToWalletIs
<1>2. CASE ~(w[t] # Unset \/ CreditOf(k, t) > 0 \/ DebitOf(w, k, t) > 0)
  <2>1. Sync(w, k, t, n) = WalletUpdateSpent(w, k, t) BY <1>2, Zenon DEF Sync
  <2>2. CreditOf(k, t) = 0 BY <1>2, SumsAreNumbers
  <2>3. w[t] = Unset BY <1>2
  <2>4. Touched(w, Sync(w, k, t, n), k) BY <2>1, UpdateSpentTouches
  <2>. QED BY <2>2, <2>3, <2>4
<1>. QED BY <1>1, <1>2

-----------------------------------------------------------------------------
(***************************************************************************)
(* The cached sums: none too high; those of what transactions pay exact;   *)
(* and those of what the transactions of a set C spend exact, because the  *)
(* wallet has all it needs to know for them.                               *)
(***************************************************************************)
AtMost(w, k) ==
    \A t \in Payments : w[t] # Unset =>
        /\ CacheAtMost(w[t].debit, DebitOf(w, k, t))
        /\ CacheAtMost(w[t].credit, CreditOf(k, t))
        /\ CacheAtMost(w[t].avail, AvailableOf(w, k, t))
Credits(w, k) ==
    \A t \in Payments : w[t] # Unset =>
        CacheIs(w[t].credit, CreditOf(k, t)) /\ CacheIs(w[t].avail, AvailableOf(w, k, t))
Settled(w, k, t) == \A o \in Ins[t] : Worth[o] # 0 /\ IsMine(k, o) => w[o[1]] # Unset
Debits(w, k, C) ==
    \A t \in C : w[t] # Unset => Settled(w, k, t) /\ CacheIs(w[t].debit, DebitOf(w, k, t))
Met(w, k, t) == (\E o \in OutsOf(t) : Worth[o] # 0 /\ IsMine(k, o)) => w[t] # Unset

Grows(w, v) == \A t \in Payments : w[t] # Unset => v[t] # Unset

LEMMA GrowthKeeps ==
    ASSUME NEW w, NEW v, Grows(w, v), NEW k, NEW t \in Payments
    PROVE  /\ Settled(w, k, t) => Settled(v, k, t)
           /\ Met(w, k, t) => Met(v, k, t)
           /\ DebitOf(w, k, t) \in Nat /\ DebitOf(v, k, t) \in Nat
           /\ DebitOf(w, k, t) <= DebitOf(v, k, t)
           /\ Settled(w, k, t) => DebitOf(w, k, t) = DebitOf(v, k, t)
<1>1. ASSUME NEW o \in Ins[t] PROVE o \in OutsOfAll /\ o[1] \in Payments BY OutPointsOf, OutPoint
<1>2. Settled(w, k, t) => Settled(v, k, t) BY <1>1 DEF Settled, Grows
<1>3. Met(w, k, t) => Met(v, k, t) BY DEF Met, Grows
<1> DEFINE R == {o \in Ins[t] : w[o[1]] # Unset /\ IsMine(k, o)}
           S == {o \in Ins[t] : v[o[1]] # Unset /\ IsMine(k, o)}
<1>4. S \in SUBSET OutsOfAll /\ R \in SUBSET S BY <1>1 DEF Grows
<1>5. Settled(w, k, t) => \A o \in S \ R : Worth[o] = 0 BY DEF Settled
<1>6. DebitOf(w, k, t) = Total(R) /\ DebitOf(v, k, t) = Total(S) BY DEF DebitOf
<1>. HIDE DEF R, S
<1>. QED BY <1>2, <1>3, <1>4, <1>5, <1>6, TotalMonotone

LEMMA TouchedGrows == ASSUME NEW w, NEW v, NEW k, Touched(w, v, k) PROVE Grows(w, v) /\ Grows(v, w)
BY DEF Touched, Grows
LEMMA AddedGrows == ASSUME NEW w, NEW a, NEW t, NEW r, Added(w, a, t, r) PROVE Grows(w, a)
BY DEF Added, Grows

\* The getters and the marks keep all of it.
LEMMA TouchedKeeps ==
    ASSUME NEW w, NEW v, NEW k, Touched(w, v, k)
    PROVE  /\ AtMost(w, k) => AtMost(v, k)
           /\ Credits(w, k) => Credits(v, k)
           /\ \A C \in SUBSET Payments : Debits(w, k, C) => Debits(v, k, C)
<1>1. ASSUME NEW t \in Payments, v[t] # Unset
      PROVE  /\ w[t] # Unset
             /\ DebitOf(v, k, t) = DebitOf(w, k, t) /\ DebitOf(w, k, t) \in Nat
             /\ CreditOf(k, t) \in Nat /\ AvailableOf(v, k, t) \in Nat
             /\ v[t].vfSpent = w[t].vfSpent => AvailableOf(v, k, t) = AvailableOf(w, k, t)
             /\ v[t].debit = w[t].debit \/ v[t].debit = DebitOf(w, k, t)
             /\ v[t].credit = w[t].credit \/ v[t].credit = CreditOf(k, t)
             /\ \/ v[t].avail = w[t].avail /\ v[t].vfSpent = w[t].vfSpent
                \/ v[t].avail = Unset \/ v[t].avail = AvailableOf(v, k, t)
  BY <1>1, SameDebit, SameAvailable, SumsAreNumbers DEF Touched
<1>2. ASSUME AtMost(w, k) PROVE AtMost(v, k) BY <1>1, <1>2 DEF AtMost, CacheAtMost
<1>3. ASSUME Credits(w, k) PROVE Credits(v, k) BY <1>1, <1>3 DEF Credits, CacheIs
<1>4. ASSUME NEW C \in SUBSET Payments, Debits(w, k, C) PROVE Debits(v, k, C)
  <2>1. ASSUME NEW t \in C, v[t] # Unset
        PROVE  Settled(v, k, t) /\ CacheIs(v[t].debit, DebitOf(v, k, t))
    <3>0. t \in Payments OBVIOUS
    <3>1. Settled(w, k, t) /\ CacheIs(w[t].debit, DebitOf(w, k, t)) BY <1>1, <1>4, <2>1, <3>0 DEF Debits
    <3>2. Settled(v, k, t) BY <3>0, <3>1, TouchedGrows, GrowthKeeps
    <3>3. CacheIs(v[t].debit, DebitOf(v, k, t)) BY <1>1, <2>1, <3>0, <3>1 DEF CacheIs
    <3>. QED BY <3>2, <3>3
  <2>. QED BY <2>1 DEF Debits
<1>. QED BY <1>2, <1>3, <1>4

\* So does the addition of a transaction.
LEMMA AddedKeeps ==
    ASSUME NEW w, NEW a, NEW k, NEW t \in Payments, NEW r, Added(w, a, t, r), w \in WalletsOK
    PROVE  /\ AtMost(w, k) => AtMost(a, k)
           /\ Credits(w, k) => Credits(a, k)
           /\ \A C \in SUBSET Payments :
                 Debits(w, k, C \ {t}) /\ (t \in C => Settled(w, k, t)) => Debits(a, k, C)
<1>1. ASSUME NEW u \in Payments
      PROVE  /\ DebitOf(w, k, u) \in Nat /\ DebitOf(a, k, u) \in Nat
             /\ DebitOf(w, k, u) <= DebitOf(a, k, u)
             /\ Settled(w, k, u) => Settled(a, k, u) /\ DebitOf(w, k, u) = DebitOf(a, k, u)
  BY AddedGrows, GrowthKeeps
<1>2. ASSUME NEW u \in Payments, u # t
      PROVE  a[u] = w[u] /\ AvailableOf(a, k, u) = AvailableOf(w, k, u)
  <2>1. a[u] = w[u] BY <1>2 DEF Added
  <2>. QED BY <2>1, SameAvailable
<1>3. a[t].debit = Unset /\ a[t].credit = Unset /\ a[t].avail = Unset BY DEF Added
<1>4. ASSUME NEW u \in Payments, w[u] # Unset, w[u].debit # Unset PROVE w[u].debit \in Nat
  BY <1>4, InWalletsOK DEF WalletTx
<1>5. ASSUME AtMost(w, k) PROVE AtMost(a, k)
  <2>1. ASSUME NEW u \in Payments, a[u] # Unset
        PROVE  /\ CacheAtMost(a[u].debit, DebitOf(a, k, u))
               /\ CacheAtMost(a[u].credit, CreditOf(k, u))
               /\ CacheAtMost(a[u].avail, AvailableOf(a, k, u))
    <3>1. CASE u = t BY <1>3, <3>1 DEF CacheAtMost
    <3>2. CASE u # t
      <4>1. /\ CacheAtMost(w[u].debit, DebitOf(w, k, u))
            /\ CacheAtMost(w[u].credit, CreditOf(k, u))
            /\ CacheAtMost(w[u].avail, AvailableOf(w, k, u)) BY <1>2, <1>5, <2>1, <3>2 DEF AtMost
      <4>2. w[u] # Unset /\ (w[u].debit # Unset => w[u].debit \in Nat) BY <1>2, <1>4, <2>1, <3>2
      <4>. QED BY <1>1, <1>2, <3>2, <4>1, <4>2 DEF CacheAtMost
    <3>. QED BY <3>1, <3>2
  <2>. QED BY <2>1 DEF AtMost
<1>6. ASSUME Credits(w, k) PROVE Credits(a, k) BY <1>2, <1>3, <1>6 DEF Credits, CacheIs
<1>7. ASSUME NEW C \in SUBSET Payments, Debits(w, k, C \ {t}), t \in C => Settled(w, k, t)
      PROVE  Debits(a, k, C)
  <2>1. ASSUME NEW u \in C, a[u] # Unset
        PROVE  Settled(a, k, u) /\ CacheIs(a[u].debit, DebitOf(a, k, u))
    <3>0. u \in Payments OBVIOUS
    <3>1. CASE u = t BY <1>1, <1>3, <1>7, <3>1 DEF CacheIs
    <3>2. CASE u # t
      <4>1. Settled(w, k, u) /\ CacheIs(w[u].debit, DebitOf(w, k, u))
        BY <1>2, <1>7, <2>1, <3>0, <3>2 DEF Debits
      <4>. QED BY <1>1, <1>2, <3>0, <3>2, <4>1 DEF CacheIs
    <3>. QED BY <3>1, <3>2
  <2>. QED BY <2>1 DEF Debits
<1>. QED BY <1>5, <1>6, <1>7

\* v is w with t in it, or with the coins marked that t spends when the wallet
\* has no other business with t; copies are what comes with t.
Enters(w, v, k, t, n, copies) ==
    /\ v \in WalletsOK /\ Grows(w, v) /\ Met(v, k, t)
    /\ AtMost(w, k) => AtMost(v, k)
    /\ Credits(w, k) => Credits(v, k)
    /\ \A C \in SUBSET Payments :
          Debits(w, k, C \ {t}) /\ (t \in C => Settled(w, k, t)) => Debits(v, k, C)
    /\ \A u \in Payments : v[u] # Unset =>
         /\ w[u] # Unset \/ u = t
         /\ (v[u].hashBlock = n /\ u = t) \/ (w[u] # Unset /\ v[u].hashBlock = w[u].hashBlock)
         /\ v[u].vtxPrev = copies \/ (w[u] # Unset /\ v[u].vtxPrev = w[u].vtxPrev)

\* All that AddToWalletIfInvolvingMe keeps and brings about.
LEMMA SyncEnters ==
    ASSUME NEW w \in WalletsOK, NEW k, NEW t \in Payments, NEW n \in Nat,
           NEW v, v = Sync(w, k, t, n)
    PROVE  Enters(w, v, k, t, n, {})
<1>1. PICK a \in WalletsOK :
         /\ Touched(a, v, k)
         /\ Added(w, a, t, NewWalletTx(n)) \/ (a = w /\ w[t] = Unset /\ CreditOf(k, t) = 0)
  BY SyncIs
<1>2. v \in WalletsOK /\ Grows(a, v) /\ Grows(v, a)
  <2>1. Touched(a, v, k) BY <1>1
  <2>2. v \in WalletsOK BY <2>1 DEF Touched
  <2>. QED BY <2>1, <2>2, TouchedGrows
<1>3. Grows(w, a) BY <1>1, AddedGrows DEF Grows
<1>4. Grows(w, v) BY <1>2, <1>3 DEF Grows
<1>5. Met(v, k, t)
  <2>1. CASE a[t] # Unset BY <1>2, <2>1 DEF Grows, Met
  <2>2. CASE a[t] = Unset
    <3>1. CreditOf(k, t) = 0 BY <1>1, <2>2 DEF Added
    <3> DEFINE S == {o \in OutsOf(t) : IsMine(k, o)}
    <3>2. S \in SUBSET OutsOfAll /\ Total(S) = 0 BY <3>1, OutPointsOf DEF CreditOf
    <3>3. ASSUME NEW o \in OutsOf(t), Worth[o] # 0, IsMine(k, o) PROVE FALSE
      <4>1. o \in S BY <3>3
      <4>. HIDE DEF S
      <4>2. Worth[o] \in Nat /\ Worth[o] <= Total(S) BY <3>2, <4>1, TotalAtLeast
      <4>. QED BY <3>2, <3>3, <4>2
    <3>. QED BY <3>3 DEF Met
  <2>. QED BY <2>1, <2>2
<1>6. /\ AtMost(w, k) => AtMost(a, k)
      /\ Credits(w, k) => Credits(a, k)
      /\ \A C \in SUBSET Payments :
            Debits(w, k, C \ {t}) /\ (t \in C => Settled(w, k, t)) => Debits(a, k, C)
  <2>1. CASE Added(w, a, t, NewWalletTx(n)) BY <2>1, AddedKeeps
  <2>2. CASE a = w /\ w[t] = Unset
    <3>1. ASSUME NEW C \in SUBSET Payments, Debits(w, k, C \ {t}) PROVE Debits(w, k, C)
      BY <2>2, <3>1 DEF Debits
    <3>. QED BY <2>2, <3>1
  <2>. QED BY <1>1, <2>1, <2>2
<1>7. /\ AtMost(a, k) => AtMost(v, k)
      /\ Credits(a, k) => Credits(v, k)
      /\ \A C \in SUBSET Payments : Debits(a, k, C) => Debits(v, k, C)
  BY <1>1, TouchedKeeps
<1>8. ASSUME NEW u \in Payments, v[u] # Unset
      PROVE  /\ w[u] # Unset \/ u = t
             /\ (v[u].hashBlock = n /\ u = t) \/ (w[u] # Unset /\ v[u].hashBlock = w[u].hashBlock)
             /\ v[u].vtxPrev = {} \/ (w[u] # Unset /\ v[u].vtxPrev = w[u].vtxPrev)
  <2>1. a[u] # Unset /\ v[u].hashBlock = a[u].hashBlock /\ v[u].vtxPrev = a[u].vtxPrev
    BY <1>1, <1>8 DEF Touched
  <2>2. CASE Added(w, a, t, NewWalletTx(n)) /\ u = t BY <2>1, <2>2, NewIsWalletTx DEF Added
  <2>3. CASE Added(w, a, t, NewWalletTx(n)) /\ u # t BY <2>1, <2>3 DEF Added
  <2>4. CASE a = w BY <2>1, <2>4
  <2>. QED BY <1>1, <2>2, <2>3, <2>4
<1>9. /\ AtMost(w, k) => AtMost(v, k)
      /\ Credits(w, k) => Credits(v, k)
      /\ \A C \in SUBSET Payments :
            Debits(w, k, C \ {t}) /\ (t \in C => Settled(w, k, t)) => Debits(v, k, C)
  BY <1>6, <1>7
<1>. QED BY <1>2, <1>4, <1>5, <1>8, <1>9 DEF Enters

-----------------------------------------------------------------------------
(***************************************************************************)
(* The inductive invariant. The best chain has the parents of a            *)
(* transaction below it and no number twice, and a number that a wallet    *)
(* transaction or a copy keeps is that of its own block or of none. What   *)
(* pays to or spends from a first key is known; what is in the chain and   *)
(* pays to any key is, as long as no script was added.                     *)
(***************************************************************************)
OnChain(t) == \E i \in DOMAIN mined : mined[i].tx = t
Numbered == \A i, j \in DOMAIN mined : mined[i].number = mined[j].number => i = j
Ordered ==
    \A i \in DOMAIN mined : mined[i].tx # Unset =>
        \A o \in Ins[mined[i].tx] : \E j \in 1 .. i - 1 : mined[j].tx = o[1]
Names(n, t) ==
    n \in 0 .. made /\ \A i \in DOMAIN mined : mined[i].number = n => mined[i].tx = t
Named ==
    \A t \in Payments : wtx[t] # Unset =>
        Names(wtx[t].hashBlock, t) /\ \A c \in wtx[t].vtxPrev : Names(c[2], c[1])
KnowsFirst == \A t \in Payments : t \in loose \/ OnChain(t) => Met(wtx, FirstKeys, t)
KnowsChain ==
    own \intersect AddedScripts = {} => \A t \in Payments : OnChain(t) => Met(wtx, own, t)
Fed == \A t \in Payments : wtx[t] # Unset => Settled(wtx, FirstKeys, t)
Exact ==
    own \intersect AddedScripts = {} =>
        Credits(wtx, own) /\ Debits(wtx, own, {t \in Payments : own = FirstKeys \/ OnChain(t)})

BInv ==
    /\ BalanceTypeOK
    /\ AtMost(wtx, own) /\ Exact
    /\ KnowsFirst /\ KnowsChain /\ Fed
    /\ Numbered /\ Ordered /\ Named

\* The best chain as a sequence of blocks.
LEMMA MinedIs ==
    ASSUME BalanceTypeOK
    PROVE  /\ made \in Nat /\ Len(mined) \in Nat /\ DOMAIN mined = 1 .. Len(mined)
           /\ \A i \in DOMAIN mined :
                /\ mined[i].tx \in Payments \union {Unset}
                /\ mined[i].number \in 1 .. made /\ mined[i].number \in Nat
<1>1. mined \in Seq([tx : Payments \union {Unset}, number : 1 .. made]) /\ made \in Nat
  BY BalanceAssumption DEF BalanceTypeOK
<1>2. Len(mined) \in Nat /\ mined \in [1 .. Len(mined) -> [tx : Payments \union {Unset}, number : 1 .. made]]
  BY <1>1, LenProperties
<1>3. ASSUME NEW i \in DOMAIN mined
      PROVE  /\ mined[i].tx \in Payments \union {Unset}
             /\ mined[i].number \in 1 .. made /\ mined[i].number \in Nat
  <2>1. mined[i] \in [tx : Payments \union {Unset}, number : 1 .. made] BY <1>2
  <2>. QED BY <1>1, <2>1
<1>. QED BY <1>1, <1>2, <1>3

LEMMA WalletIsOK == ASSUME BalanceTypeOK PROVE wtx \in WalletsOK
BY DEF BalanceTypeOK, WalletsOK, InWallet

LEMMA ChainIs ==
    ASSUME BalanceTypeOK, Numbered, NEW t \in Payments
    PROVE  /\ InChain(t) <=> OnChain(t)
           /\ BlockOf(t) \in Nat /\ Names(BlockOf(t), t)
<1>1. CASE OnChain(t)
  <2>1. PICK i \in DOMAIN mined : mined[i].tx = t BY <1>1 DEF OnChain
  <2>2. ToSet(mined) = {mined[j] : j \in DOMAIN mined} BY DEF ToSet
  <2> DEFINE c == CHOOSE b \in ToSet(mined) : b.tx = t
  <2>3. c \in ToSet(mined) /\ c.tx = t
    <3>1. mined[i] \in ToSet(mined) BY <2>2
    <3>. QED BY <2>1, <3>1
  <2>. HIDE DEF c
  <2>4. PICK j \in DOMAIN mined : mined[j] = c BY <2>2, <2>3
  <2>5. BlockOf(t) = c.number BY <2>1, Zenon DEF BlockOf, c
  <2>6. c.number \in 1 .. made /\ made \in Nat BY <2>4, MinedIs
  <2>7. ASSUME NEW m \in DOMAIN mined, mined[m].number = c.number PROVE mined[m].tx = t
    BY <2>3, <2>4, <2>7 DEF Numbered
  <2>. QED BY <1>1, <2>5, <2>6, <2>7 DEF InChain, Names
<1>2. CASE ~OnChain(t)
  <2>1. BlockOf(t) = 0 BY <1>2 DEF BlockOf, OnChain
  <2>2. \A m \in DOMAIN mined : mined[m].number # 0 BY MinedIs
  <2>3. made \in Nat BY MinedIs
  <2>. QED BY <1>2, <2>1, <2>2, <2>3 DEF InChain, Names
<1>. QED BY <1>1, <1>2

LEMMA ParentsOnChain ==
    ASSUME BalanceTypeOK, Ordered, NEW t \in Payments, OnChain(t), NEW o \in Ins[t]
    PROVE  OnChain(o[1])
<1>1. PICK i \in DOMAIN mined : mined[i].tx = t BY DEF OnChain
<1>2. t # Unset BY BalanceAssumption
<1>3. PICK j \in 1 .. i - 1 : mined[j].tx = o[1] BY <1>1, <1>2 DEF Ordered
<1>4. j \in DOMAIN mined BY <1>1, <1>3, MinedIs
<1>. QED BY <1>3, <1>4 DEF OnChain

LEMMA MetSettles ==
    ASSUME NEW w, NEW k, NEW t \in Payments, \A o \in Ins[t] : Met(w, k, o[1])
    PROVE  Settled(w, k, t)
<1>1. ASSUME NEW o \in Ins[t] PROVE o \in OutsOf(o[1]) BY OutPointsOf, OutPoint
<1>. QED BY <1>1 DEF Met, Settled

LEMMA SettledOnChain ==
    ASSUME BInv, own \intersect AddedScripts = {}, NEW t \in Payments, OnChain(t)
    PROVE  Settled(wtx, own, t)
<1>1. ASSUME NEW o \in Ins[t] PROVE Met(wtx, own, o[1])
  <2>1. OnChain(o[1]) /\ o[1] \in Payments BY ParentsOnChain, OutPointsOf, OutPoint DEF BInv
  <2>. QED BY <2>1 DEF BInv, KnowsChain
<1>. QED BY <1>1, MetSettles

-----------------------------------------------------------------------------
(***************************************************************************)
(* The steps.                                                              *)
(***************************************************************************)
LEMMA EnterStep ==
    ASSUME BInv, NEW t \in Payments, NEW n, NEW copies, Enters(wtx, wtx', own, t, n, copies),
           own' = own, Settled(wtx, FirstKeys, t), Names(n, t)', \A c \in copies : Names(c[2], c[1])',
           \A m, u : Names(m, u) => Names(m, u)',
           \A u \in Payments : OnChain(u)' => OnChain(u) \/ u = t,
           \A u \in Payments : u \in loose' => u \in loose \/ OnChain(u) \/ u = t,
           OnChain(t)' /\ own \intersect AddedScripts = {} => Settled(wtx, own, t)
    PROVE  /\ wtx' \in WalletsOK
           /\ (AtMost(wtx, own) /\ Exact /\ KnowsFirst /\ KnowsChain /\ Fed /\ Named)'
<1>1. wtx' \in WalletsOK /\ Grows(wtx, wtx') BY DEF Enters
<1>2. AtMost(wtx, own)' BY DEF Enters, BInv
<1>3. Exact'
  <2>1. ASSUME own \intersect AddedScripts = {}
        PROVE  Credits(wtx', own) /\ Debits(wtx', own, {u \in Payments : own = FirstKeys \/ OnChain(u)'})
    <3> DEFINE C == {u \in Payments : own = FirstKeys \/ OnChain(u)'}
               D == {u \in Payments : own = FirstKeys \/ OnChain(u)}
    <3>1. Credits(wtx, own) /\ Debits(wtx, own, D) BY <2>1 DEF BInv, Exact
    <3>2. C \in SUBSET Payments /\ C \ {t} \subseteq D OBVIOUS
    <3>3. t \in C => Settled(wtx, own, t) BY <2>1
    <3>. HIDE DEF C, D
    <3>4. Debits(wtx, own, C \ {t}) BY <3>1, <3>2 DEF Debits
    <3>5. Credits(wtx', own) /\ Debits(wtx', own, C) BY <3>1, <3>2, <3>3, <3>4 DEF Enters
    <3>. QED BY <3>5 DEF C
  <2>. QED BY <2>1 DEF Exact
<1>4. FirstKeys \subseteq own BY DEF BInv, BalanceTypeOK
<1>5. Met(wtx', own, t) /\ Met(wtx', FirstKeys, t) BY <1>4 DEF Enters, Met, IsMine
<1>6. KnowsFirst'
  <2>1. ASSUME NEW u \in Payments, u \in loose' \/ OnChain(u)' PROVE Met(wtx', FirstKeys, u)
    <3>1. CASE u = t BY <1>5, <3>1
    <3>2. CASE u \in loose \/ OnChain(u)
      <4>1. Met(wtx, FirstKeys, u) BY <3>2 DEF BInv, KnowsFirst
      <4>. QED BY <1>1, <4>1, GrowthKeeps
    <3>. QED BY <2>1, <3>1, <3>2
  <2>. QED BY <2>1 DEF KnowsFirst
<1>7. KnowsChain'
  <2>1. ASSUME own \intersect AddedScripts = {}, NEW u \in Payments, OnChain(u)' PROVE Met(wtx', own, u)
    <3>1. CASE u = t BY <1>5, <3>1
    <3>2. CASE OnChain(u)
      <4>1. Met(wtx, own, u) BY <2>1, <3>2 DEF BInv, KnowsChain
      <4>. QED BY <1>1, <4>1, GrowthKeeps
    <3>. QED BY <2>1, <3>1, <3>2
  <2>. QED BY <2>1 DEF KnowsChain
<1>8. Fed'
  <2>1. ASSUME NEW u \in Payments, wtx'[u] # Unset PROVE Settled(wtx', FirstKeys, u)
    <3>1. Settled(wtx, FirstKeys, u) BY <2>1 DEF Enters, BInv, Fed
    <3>. QED BY <1>1, <3>1, GrowthKeeps
  <2>. QED BY <2>1 DEF Fed
<1>9. Named'
  <2>1. ASSUME NEW u \in Payments, wtx'[u] # Unset
        PROVE  Names(wtx[u].hashBlock, u)' /\ \A c \in wtx'[u].vtxPrev : Names(c[2], c[1])'
    <3>1. Names(wtx[u].hashBlock, u)'
      <4>1. CASE wtx'[u].hashBlock = n /\ u = t BY <4>1 DEF Names
      <4>2. CASE wtx[u] # Unset /\ wtx'[u].hashBlock = wtx[u].hashBlock
        <5>1. Names(wtx[u].hashBlock, u) BY <4>2 DEF BInv, Named
        <5>2. PICK m : m = wtx[u].hashBlock OBVIOUS
        <5>3. Names(m, u)' BY <5>1, <5>2
        <5>. QED BY <5>2, <5>3, <4>2 DEF Names
      <4>. QED BY <2>1, <4>1, <4>2 DEF Enters
    <3>2. ASSUME NEW c \in wtx'[u].vtxPrev PROVE Names(c[2], c[1])'
      <4>1. CASE wtx'[u].vtxPrev = copies BY <3>2, <4>1
      <4>2. CASE wtx[u] # Unset /\ wtx'[u].vtxPrev = wtx[u].vtxPrev
        <5>1. Names(c[2], c[1]) BY <3>2, <4>2 DEF BInv, Named
        <5>. QED BY <5>1
      <4>. QED BY <2>1, <4>1, <4>2 DEF Enters
    <3>. QED BY <3>1, <3>2
  <2>. QED BY <2>1 DEF Named
<1>. QED BY <1>1, <1>2, <1>3, <1>6, <1>7, <1>8, <1>9

LEMMA TouchStep ==
    ASSUME BInv, Touched(wtx, wtx', own), own' = own,
           \A m, u : Names(m, u) => Names(m, u)',
           \A u \in Payments : OnChain(u)' => OnChain(u),
           \A u \in Payments : u \in loose' => u \in loose \/ OnChain(u)
    PROVE  /\ wtx' \in WalletsOK
           /\ (AtMost(wtx, own) /\ Exact /\ KnowsFirst /\ KnowsChain /\ Fed /\ Named)'
<1>1. wtx' \in WalletsOK /\ Grows(wtx, wtx')
  <2>1. wtx' \in WalletsOK BY DEF Touched
  <2>. QED BY <2>1, TouchedGrows
<1>2. AtMost(wtx, own)' BY TouchedKeeps DEF BInv
<1>3. Exact'
  <2>1. ASSUME own \intersect AddedScripts = {}
        PROVE  Credits(wtx', own) /\ Debits(wtx', own, {u \in Payments : own = FirstKeys \/ OnChain(u)'})
    <3> DEFINE C == {u \in Payments : own = FirstKeys \/ OnChain(u)'}
               D == {u \in Payments : own = FirstKeys \/ OnChain(u)}
    <3>1. Credits(wtx, own) /\ Debits(wtx, own, D) BY <2>1 DEF BInv, Exact
    <3>2. C \in SUBSET Payments /\ C \subseteq D OBVIOUS
    <3>. HIDE DEF C, D
    <3>3. Debits(wtx, own, C) BY <3>1, <3>2 DEF Debits
    <3>4. Credits(wtx', own) /\ Debits(wtx', own, C) BY <3>1, <3>2, <3>3, TouchedKeeps
    <3>. QED BY <3>4 DEF C
  <2>. QED BY <2>1 DEF Exact
<1>4. KnowsFirst'
  <2>1. ASSUME NEW u \in Payments, u \in loose' \/ OnChain(u)' PROVE Met(wtx', FirstKeys, u)
    <3>1. Met(wtx, FirstKeys, u) BY <2>1 DEF BInv, KnowsFirst
    <3>. QED BY <1>1, <3>1, GrowthKeeps
  <2>. QED BY <2>1 DEF KnowsFirst
<1>5. KnowsChain'
  <2>1. ASSUME own \intersect AddedScripts = {}, NEW u \in Payments, OnChain(u)' PROVE Met(wtx', own, u)
    <3>1. Met(wtx, own, u) BY <2>1 DEF BInv, KnowsChain
    <3>. QED BY <1>1, <3>1, GrowthKeeps
  <2>. QED BY <2>1 DEF KnowsChain
<1>6. ASSUME NEW u \in Payments, wtx'[u] # Unset
      PROVE  wtx[u] # Unset /\ wtx'[u].hashBlock = wtx[u].hashBlock /\ wtx'[u].vtxPrev = wtx[u].vtxPrev
  BY <1>6 DEF Touched
<1>7. Fed'
  <2>1. ASSUME NEW u \in Payments, wtx'[u] # Unset PROVE Settled(wtx', FirstKeys, u)
    <3>1. Settled(wtx, FirstKeys, u) BY <1>6, <2>1 DEF BInv, Fed
    <3>. QED BY <1>1, <3>1, GrowthKeeps
  <2>. QED BY <2>1 DEF Fed
<1>8. Named'
  <2>1. ASSUME NEW u \in Payments, wtx'[u] # Unset
        PROVE  Names(wtx[u].hashBlock, u)' /\ \A c \in wtx'[u].vtxPrev : Names(c[2], c[1])'
    <3>1. Names(wtx[u].hashBlock, u) /\ \A c \in wtx[u].vtxPrev : Names(c[2], c[1])
      BY <1>6, <2>1 DEF BInv, Named
    <3>2. PICK m : m = wtx[u].hashBlock OBVIOUS
    <3>3. Names(m, u)' BY <3>1, <3>2
    <3>4. Names(wtx[u].hashBlock, u)' BY <1>6, <2>1, <3>2, <3>3 DEF Names
    <3>5. ASSUME NEW c \in wtx'[u].vtxPrev PROVE Names(c[2], c[1])'
      <4>1. Names(c[2], c[1]) BY <1>6, <2>1, <3>1, <3>5
      <4>. QED BY <4>1
    <3>. QED BY <3>4, <3>5
  <2>. QED BY <2>1 DEF Named
<1>. QED BY <1>1, <1>2, <1>3, <1>4, <1>5, <1>7, <1>8

\* What does not touch the chain keeps what is said of it.
LEMMA ChainSame ==
    ASSUME BInv, mined' = mined, made' = made
    PROVE  /\ \A m, u : Names(m, u) => Names(m, u)'
           /\ \A u \in Payments : OnChain(u)' <=> OnChain(u)
           /\ Numbered' /\ Ordered'
BY DEF BInv, Names, OnChain, Numbered, Ordered

LEMMA TypeAgain ==
    ASSUME BInv, wtx' \in WalletsOK, made' = made, mined' = mined, loose' \subseteq Payments, own' = own
    PROVE  BalanceTypeOK'
BY DEF BInv, BalanceTypeOK, WalletsOK, InWallet

LEMMA AskStep ==
    ASSUME BInv, Touched(wtx, wtx', own), UNCHANGED <<loose, mined, made, own>>
    PROVE  BInv'
<1>1. /\ \A m, u : Names(m, u) => Names(m, u)'
      /\ \A u \in Payments : OnChain(u)' => OnChain(u)
      /\ Numbered' /\ Ordered' BY ChainSame
<1>2. /\ wtx' \in WalletsOK
      /\ (AtMost(wtx, own) /\ Exact /\ KnowsFirst /\ KnowsChain /\ Fed /\ Named)'
  BY <1>1, TouchStep
<1>3. loose' \subseteq Payments BY DEF BInv, BalanceTypeOK
<1>4. BalanceTypeOK' BY <1>2, <1>3, TypeAgain
<1>. QED BY <1>1, <1>2, <1>4 DEF BInv

LEMMA AskBalanceKeeps == ASSUME BInv, AskBalance PROVE BInv'
<1>1. wtx \in WalletsOK BY WalletIsOK DEF BInv
<1>2. Touched(wtx, wtx', own) BY <1>1, AskBalanceTouches
<1>. QED BY <1>2, AskStep DEF AskBalance

LEMMA AskUnconfirmedKeeps == ASSUME BInv, AskUnconfirmed PROVE BInv'
<1>1. wtx \in WalletsOK BY WalletIsOK DEF BInv
<1>2. Touched(wtx, wtx', own) BY <1>1, AskUnconfirmedTouches
<1>. QED BY <1>2, AskStep DEF AskUnconfirmed

LEMMA ListPaymentKeeps == ASSUME BInv, NEW t \in Payments, ListPayment(t) PROVE BInv'
<1>1. wtx \in WalletsOK /\ wtx[t] # Unset BY WalletIsOK DEF BInv, ListPayment
<1>2. Touched(wtx, GetDebit(wtx, own, t), own) /\ Touched(wtx, GetCredit(wtx, own, t), own)
  BY <1>1, TouchNothing, GettersTouch
<1>3. Touched(wtx, wtx', own) BY <1>2 DEF ListPayment
<1>. QED BY <1>3, AskStep DEF ListPayment

LEMMA AddScriptKeeps == ASSUME BInv, NEW script, script \in AddedScripts, AddScript(script) PROVE BInv'
<1>1. /\ own' = own \union {script} /\ script \in AddedScripts /\ wtx' = wtx /\ loose' = loose
      /\ mined' = mined /\ made' = made BY DEF AddScript
<1>2. own' \intersect AddedScripts # {} BY <1>1
<1>3. /\ \A m, u : Names(m, u) => Names(m, u)'
      /\ \A u \in Payments : OnChain(u)' => OnChain(u)
      /\ Numbered' /\ Ordered' BY <1>1, ChainSame
<1>4. BalanceTypeOK' BY <1>1 DEF BInv, BalanceTypeOK, InWallet
<1>5. Exact' /\ KnowsChain' BY <1>2 DEF Exact, KnowsChain
<1>6. KnowsFirst' /\ Fed' BY <1>1, <1>3 DEF BInv, KnowsFirst, Fed
<1>7. Named' BY <1>1 DEF BInv, Named, Names
<1>8. AtMost(wtx, own)'
  <2>1. ASSUME NEW t \in Payments, wtx[t] # Unset
        PROVE  /\ CacheAtMost(wtx[t].debit, DebitOf(wtx, own', t))
               /\ CacheAtMost(wtx[t].credit, CreditOf(own', t))
               /\ CacheAtMost(wtx[t].avail, AvailableOf(wtx, own', t))
    <3> DEFINE D(k) == {o \in Ins[t] : wtx[o[1]] # Unset /\ IsMine(k, o)}
               C(k) == {o \in OutsOf(t) : IsMine(k, o)}
               A(k) == {o \in OutsOf(t) : IsMine(k, o) /\ o[2] \notin wtx[t].vfSpent}
    <3>1. /\ D(own') \in SUBSET OutsOfAll /\ D(own) \in SUBSET D(own')
          /\ C(own') \in SUBSET OutsOfAll /\ C(own) \in SUBSET C(own')
          /\ A(own') \in SUBSET OutsOfAll /\ A(own) \in SUBSET A(own')
      BY <1>1, OutPointsOf DEF IsMine
    <3>2. /\ DebitOf(wtx, own, t) = Total(D(own)) /\ DebitOf(wtx, own', t) = Total(D(own'))
          /\ CreditOf(own, t) = Total(C(own)) /\ CreditOf(own', t) = Total(C(own'))
          /\ AvailableOf(wtx, own, t) = Total(A(own)) /\ AvailableOf(wtx, own', t) = Total(A(own'))
      BY DEF DebitOf, CreditOf, AvailableOf
    <3>. HIDE DEF D, C, A
    <3>3. /\ Total(D(own)) \in Nat /\ Total(D(own')) \in Nat /\ Total(D(own)) <= Total(D(own'))
          /\ Total(C(own)) \in Nat /\ Total(C(own')) \in Nat /\ Total(C(own)) <= Total(C(own'))
          /\ Total(A(own)) \in Nat /\ Total(A(own')) \in Nat /\ Total(A(own)) <= Total(A(own'))
      BY <3>1, TotalMonotone
    <3>4. wtx[t] \in WalletTx BY <2>1, WalletIsOK, InWalletsOK DEF BInv
    <3>5. /\ wtx[t].debit = Unset \/ wtx[t].debit \in Nat
          /\ wtx[t].credit = Unset \/ wtx[t].credit \in Nat
          /\ wtx[t].avail = Unset \/ wtx[t].avail \in Nat BY <3>4 DEF WalletTx
    <3>6. /\ CacheAtMost(wtx[t].debit, DebitOf(wtx, own, t))
          /\ CacheAtMost(wtx[t].credit, CreditOf(own, t))
          /\ CacheAtMost(wtx[t].avail, AvailableOf(wtx, own, t)) BY <2>1 DEF BInv, AtMost
    <3>. QED BY <3>2, <3>3, <3>5, <3>6 DEF CacheAtMost
  <2>. QED BY <1>1, <2>1 DEF AtMost
<1>. QED BY <1>3, <1>4, <1>5, <1>6, <1>7, <1>8 DEF BInv

LEMMA ReceivePaymentKeeps == ASSUME BInv, NEW t \in Payments, ReceivePayment(t) PROVE BInv'
<1>0. BalanceTypeOK /\ Numbered /\ wtx \in WalletsOK BY WalletIsOK DEF BInv
<1>1. Enters(wtx, wtx', own, t, 0, {}) BY <1>0, SyncEnters DEF ReceivePayment
<1>2. /\ \A m, u : Names(m, u) => Names(m, u)'
      /\ \A u \in Payments : OnChain(u)' <=> OnChain(u)
      /\ Numbered' /\ Ordered' BY ChainSame DEF ReceivePayment
<1>3. Settled(wtx, FirstKeys, t)
  <2>1. ASSUME NEW o \in Ins[t] PROVE Met(wtx, FirstKeys, o[1])
    <3>1. o[1] \in Payments BY OutPointsOf, OutPoint
    <3>2. OnChain(o[1]) \/ o[1] \in loose BY <1>0, <3>1, ChainIs DEF ReceivePayment
    <3>. QED BY <3>1, <3>2 DEF BInv, KnowsFirst
  <2>. QED BY <2>1, MetSettles
<1>4. ~OnChain(t)' BY <1>0, <1>2, ChainIs DEF ReceivePayment
<1>5. Names(0, t)'
  <2>1. made \in Nat /\ \A i \in DOMAIN mined : mined[i].number # 0 BY <1>0, MinedIs
  <2>. QED BY <2>1 DEF Names, ReceivePayment
<1>6. /\ wtx' \in WalletsOK
      /\ (AtMost(wtx, own) /\ Exact /\ KnowsFirst /\ KnowsChain /\ Fed /\ Named)'
  <2>1. own' = own /\ \A u \in Payments : u \in loose' => u \in loose \/ OnChain(u) \/ u = t
    BY DEF ReceivePayment
  <2>. QED BY <1>1, <1>2, <1>3, <1>4, <1>5, <2>1, EnterStep
<1>7. BalanceTypeOK'
  <2>1. loose' \subseteq Payments BY <1>0 DEF BalanceTypeOK, ReceivePayment
  <2>. QED BY <1>6, <2>1, TypeAgain DEF ReceivePayment
<1>. QED BY <1>2, <1>6, <1>7 DEF BInv

\* The chain with one block more, and with one less.
LEMMA ChainGrows ==
    ASSUME BInv, NEW t \in Payments \union {Unset}, NEW h, h = made + 1, made' = made + 1,
           mined' = Append(mined, [tx |-> t, number |-> made + 1]),
           t # Unset => \A o \in Ins[t] : OnChain(o[1])
    PROVE  /\ mined' \in Seq([tx : Payments \union {Unset}, number : 1 .. made'])
           /\ \A m, u : Names(m, u) => Names(m, u)'
           /\ Names(h, t)'
           /\ \A u : OnChain(u)' <=> OnChain(u) \/ u = t
           /\ Numbered' /\ Ordered'
<1> DEFINE Type == [tx : Payments \union {Unset}, number : 1 .. made']
           n == Len(mined)
           b == [tx |-> t, number |-> made + 1]
<1>0. BalanceTypeOK /\ made \in Nat /\ made' = made + 1 BY MinedIs DEF BInv
<1>1. /\ n \in Nat /\ DOMAIN mined = 1 .. n
      /\ \A i \in 1 .. n : mined[i].number \in 1 .. made BY <1>0, MinedIs
<1>2. mined \in Seq(Type)
  <2>1. mined \in Seq([tx : Payments \union {Unset}, number : 1 .. made]) BY <1>0 DEF BalanceTypeOK
  <2>2. [tx : Payments \union {Unset}, number : 1 .. made] \subseteq Type BY <1>0
  <2>. HIDE DEF Type
  <2>. QED BY <2>1, <2>2, SeqMonotonic
<1>3. b \in Type BY <1>0
<1>. HIDE DEF Type
<1>4. /\ mined' \in Seq(Type) /\ Len(mined') = n + 1
      /\ \A i \in 1 .. n : mined'[i] = mined[i]
      /\ mined'[n + 1] = b BY <1>2, <1>3, AppendProperties
<1>5. DOMAIN mined' = 1 .. n + 1 BY <1>4, LenProperties
<1>6. b.tx = t /\ b.number = made + 1 OBVIOUS
<1>. HIDE DEF b, n
<1>7. ASSUME NEW i \in 1 .. n + 1 PROVE i \in 1 .. n \/ i = n + 1 BY <1>1
<1>7a. n + 1 \in 1 .. n + 1 /\ \A i \in 1 .. n : i \in 1 .. n + 1 BY <1>1
<1>8. ASSUME NEW m, NEW u, Names(m, u) PROVE Names(m, u)'
  <2>1. m \in 0 .. made' /\ m # made + 1 BY <1>0, <1>8 DEF Names
  <2>2. ASSUME NEW i \in 1 .. n + 1, mined'[i].number = m PROVE mined'[i].tx = u
    <3>1. i # n + 1 BY <1>4, <1>6, <2>1, <2>2
    <3>. QED BY <1>1, <1>4, <1>7, <1>8, <2>2, <3>1 DEF Names
  <2>. QED BY <1>5, <2>1, <2>2 DEF Names
<1>9. Names(h, t)'
  <2>1. h \in 0 .. made' BY <1>0
  <2>2. ASSUME NEW i \in 1 .. n + 1, mined'[i].number = h PROVE mined'[i].tx = t
    <3>1. i = n + 1 BY <1>0, <1>1, <1>4, <1>7, <2>2
    <3>. QED BY <1>4, <1>6, <3>1
  <2>. QED BY <1>5, <2>1, <2>2 DEF Names
<1>10. ASSUME NEW u PROVE OnChain(u)' <=> OnChain(u) \/ u = t
  BY <1>1, <1>4, <1>5, <1>6, <1>7, <1>7a DEF OnChain
<1>11. Numbered'
  <2>1. ASSUME NEW i \in 1 .. n + 1, NEW j \in 1 .. n + 1, mined'[i].number = mined'[j].number PROVE i = j
    <3>1. CASE i \in 1 .. n /\ j \in 1 .. n BY <1>1, <1>4, <2>1, <3>1 DEF BInv, Numbered
    <3>2. CASE i = n + 1 /\ j \in 1 .. n BY <1>0, <1>1, <1>4, <1>6, <2>1, <3>2
    <3>3. CASE i \in 1 .. n /\ j = n + 1 BY <1>0, <1>1, <1>4, <1>6, <2>1, <3>3
    <3>. QED BY <1>7, <3>1, <3>2, <3>3
  <2>. QED BY <1>5, <2>1 DEF Numbered
<1>12. Ordered'
  <2>1. ASSUME NEW i \in 1 .. n + 1, mined'[i].tx # Unset, NEW o \in Ins[mined'[i].tx]
        PROVE  \E j \in 1 .. i - 1 : mined'[j].tx = o[1]
    <3>1. CASE i \in 1 .. n
      <4>1. PICK j \in 1 .. i - 1 : mined[j].tx = o[1] BY <1>1, <1>4, <2>1, <3>1 DEF BInv, Ordered
      <4>2. j \in 1 .. n BY <1>1, <3>1
      <4>. QED BY <1>4, <4>1, <4>2
    <3>2. CASE i = n + 1
      <4>1. OnChain(o[1]) BY <1>4, <1>6, <2>1, <3>2
      <4>2. PICK j \in 1 .. n : mined[j].tx = o[1] BY <1>1, <4>1 DEF OnChain
      <4>3. j \in 1 .. i - 1 BY <1>1, <3>2
      <4>. QED BY <1>4, <4>2, <4>3
    <3>. QED BY <1>7, <3>1, <3>2
  <2>. QED BY <1>5, <2>1 DEF Ordered
<1>. QED BY <1>4, <1>8, <1>9, <1>10, <1>11, <1>12 DEF Type

LEMMA ChainShrinks ==
    ASSUME BInv, mined # <<>>, mined' = Front(mined), made' = made
    PROVE  /\ mined' \in Seq([tx : Payments \union {Unset}, number : 1 .. made'])
           /\ \A m, u : Names(m, u) => Names(m, u)'
           /\ \A u : OnChain(u)' => OnChain(u)
           /\ OnChain(Last(mined).tx) /\ Last(mined).tx \in Payments \union {Unset}
           /\ Numbered' /\ Ordered'
<1> DEFINE Type == [tx : Payments \union {Unset}, number : 1 .. made]
           n == Len(mined)
<1>0. mined \in Seq(Type) /\ BalanceTypeOK BY DEF BInv, BalanceTypeOK
<1>1. n \in Nat /\ DOMAIN mined = 1 .. n /\ \A i \in 1 .. n : mined[i] \in Type
  BY <1>0, LenProperties, ElementOfSeq
<1>. HIDE DEF Type
<1>2. n # 0 BY <1>0, EmptySeq
<1>3. /\ mined' \in Seq(Type) /\ Len(mined') = n - 1
      /\ \A i \in 1 .. n - 1 : mined'[i] = mined[i]
  <2>1. \A i \in 1 .. n - 1 : mined[i] \in Type BY <1>1
  <2>2. 1 \in Int /\ n - 1 \in Int BY <1>1
  <2>3. mined' = SubSeq(mined, 1, n - 1) BY DEF Front
  <2>. HIDE DEF n
  <2>4. /\ SubSeq(mined, 1, n - 1) \in Seq(Type)
        /\ Len(SubSeq(mined, 1, n - 1)) = IF 1 <= n - 1 THEN (n - 1) - 1 + 1 ELSE 0
        /\ \A i \in 1 .. (n - 1) - 1 + 1 : SubSeq(mined, 1, n - 1)[i] = mined[1 + i - 1]
    BY <2>1, <2>2, SubSeqProperties
  <2>5. (n - 1) - 1 + 1 = n - 1 /\ \A i \in 1 .. n - 1 : 1 + i - 1 = i BY <1>1
  <2>. QED BY <1>1, <1>2, <2>3, <2>4, <2>5
<1>4. DOMAIN mined' = 1 .. n - 1 BY <1>3, LenProperties
<1>5. \A i \in 1 .. n - 1 : i \in 1 .. n BY <1>1
<1>6. Last(mined) = mined[n] /\ n \in 1 .. n BY <1>1, <1>2 DEF Last
<1>7. OnChain(Last(mined).tx) BY <1>1, <1>6 DEF OnChain
<1>8. Last(mined).tx \in Payments \union {Unset} BY <1>1, <1>6 DEF Type
<1>. HIDE DEF n
<1>9. Numbered' BY <1>1, <1>3, <1>4, <1>5 DEF BInv, Numbered
<1>10. Ordered'
  <2>1. ASSUME NEW i \in 1 .. n - 1, mined'[i].tx # Unset, NEW o \in Ins[mined'[i].tx]
        PROVE  \E j \in 1 .. i - 1 : mined'[j].tx = o[1]
    <3>1. i \in 1 .. n /\ mined'[i] = mined[i] BY <1>3, <1>5
    <3>2. PICK j \in 1 .. i - 1 : mined[j].tx = o[1] BY <1>1, <2>1, <3>1 DEF BInv, Ordered
    <3>3. j \in 1 .. n - 1 BY <1>1
    <3>. QED BY <1>3, <3>2, <3>3
  <2>. QED BY <1>4, <2>1 DEF Ordered
<1>11. ASSUME NEW m, NEW u, Names(m, u) PROVE Names(m, u)'
  BY <1>1, <1>3, <1>4, <1>5, <1>11 DEF Names
<1>12. ASSUME NEW u, OnChain(u)' PROVE OnChain(u)
  BY <1>1, <1>3, <1>4, <1>5, <1>12 DEF OnChain
<1>. QED BY <1>3, <1>7, <1>8, <1>9, <1>10, <1>11, <1>12 DEF Type

LEMMA ConnectPaymentKeeps ==
    ASSUME BInv, NEW t \in Payments \union {Unset}, ConnectPayment(t)
    PROVE  BInv'
<1>0. BalanceTypeOK /\ Numbered /\ wtx \in WalletsOK /\ made \in Nat BY WalletIsOK, MinedIs DEF BInv
<1>1. t # Unset => t \in Payments /\ ~OnChain(t) /\ \A o \in Ins[t] : OnChain(o[1]) /\ o[1] \in Payments
  BY <1>0, ChainIs, OutPointsOf, OutPoint DEF ConnectPayment
<1>2. /\ made' = made + 1 /\ mined' = Append(mined, [tx |-> t, number |-> made + 1])
      /\ own' = own /\ made < MaxMined BY DEF ConnectPayment
<1>2a. PICK n \in Nat : n = made + 1 BY <1>0
<1>3. /\ mined' \in Seq([tx : Payments \union {Unset}, number : 1 .. made'])
      /\ \A m, u : Names(m, u) => Names(m, u)'
      /\ Names(n, t)'
      /\ \A u : OnChain(u)' <=> OnChain(u) \/ u = t
      /\ Numbered' /\ Ordered' BY <1>1, <1>2, <1>2a, ChainGrows
<1>4. loose' \subseteq loose BY DEF ConnectPayment
<1>5. /\ wtx' \in WalletsOK
      /\ (AtMost(wtx, own) /\ Exact /\ KnowsFirst /\ KnowsChain /\ Fed /\ Named)'
  <2>1. CASE t = Unset
    <3>1. wtx' = wtx BY <2>1 DEF ConnectPayment
    <3>2. Touched(wtx, wtx', own) BY <1>0, <3>1, TouchNothing
    <3>3. \A u \in Payments : OnChain(u)' => OnChain(u) BY <1>3, <2>1, BalanceAssumption
    <3>. QED BY <1>2, <1>3, <1>4, <3>2, <3>3, TouchStep
  <2>2. CASE t # Unset
    <3>1. wtx' = Sync(wtx, own, t, made + 1) BY <2>2 DEF ConnectPayment
    <3>3. Enters(wtx, wtx', own, t, n, {}) BY <1>0, <1>1, <1>2a, <2>2, <3>1, SyncEnters
    <3>4. Settled(wtx, FirstKeys, t)
      <4>1. ASSUME NEW o \in Ins[t] PROVE Met(wtx, FirstKeys, o[1])
        BY <1>1, <2>2 DEF BInv, KnowsFirst
      <4>. QED BY <1>1, <2>2, <4>1, MetSettles
    <3>5. own \intersect AddedScripts = {} => Settled(wtx, own, t)
      <4>1. ASSUME own \intersect AddedScripts = {}, NEW o \in Ins[t] PROVE Met(wtx, own, o[1])
        BY <1>1, <2>2, <4>1 DEF BInv, KnowsChain
      <4>. QED BY <1>1, <2>2, <4>1, MetSettles
    <3>. QED BY <1>1, <1>2, <1>3, <1>4, <2>2, <3>3, <3>4, <3>5, EnterStep
  <2>. QED BY <2>1, <2>2
<1>6. BalanceTypeOK'
  <2>1. made' \in 0 .. MaxMined BY <1>0, <1>2, BalanceAssumption
  <2>. QED BY <1>2, <1>3, <1>4, <1>5, <2>1 DEF BInv, BalanceTypeOK, WalletsOK, InWallet
<1>. QED BY <1>3, <1>5, <1>6 DEF BInv

LEMMA DisconnectPaymentKeeps == ASSUME BInv, DisconnectPayment PROVE BInv'
<1>0. BalanceTypeOK /\ wtx \in WalletsOK BY WalletIsOK DEF BInv
<1>1. mined # <<>> /\ mined' = Front(mined) /\ made' = made /\ own' = own BY DEF DisconnectPayment
<1>2. PICK t : t = Last(mined).tx OBVIOUS
<1>3. /\ mined' \in Seq([tx : Payments \union {Unset}, number : 1 .. made'])
      /\ \A m, u : Names(m, u) => Names(m, u)'
      /\ \A u : OnChain(u)' => OnChain(u)
      /\ OnChain(t) /\ t \in Payments \union {Unset}
      /\ Numbered' /\ Ordered' BY <1>1, <1>2, ChainShrinks
<1>4. /\ loose' = IF t # Unset /\ Generates[t] = "no" THEN loose \union {t} ELSE loose
      /\ wtx' = IF t # Unset /\ Generates[t] = "stake"
                THEN FoldSet(LAMBDA o, v : MarkUnspent(v, o), wtx, OwnInputs(wtx, own, t))
                ELSE wtx
  BY <1>2 DEF DisconnectPayment
<1>5. Touched(wtx, wtx', own)
  <2>1. CASE t # Unset /\ Generates[t] = "stake"
    <3>1. Touched(wtx, FoldSet(LAMBDA o, v : MarkUnspent(v, o), wtx, OwnInputs(wtx, own, t)), own)
      BY <1>0, <1>3, <2>1, RefundTouches
    <3>. QED BY <1>4, <2>1, <3>1
  <2>2. CASE ~(t # Unset /\ Generates[t] = "stake") BY <1>0, <1>4, <2>2, TouchNothing
  <2>. QED BY <2>1, <2>2
<1>6. \A u \in Payments : u \in loose' => u \in loose \/ OnChain(u) BY <1>3, <1>4
<1>7. /\ wtx' \in WalletsOK
      /\ (AtMost(wtx, own) /\ Exact /\ KnowsFirst /\ KnowsChain /\ Fed /\ Named)'
  BY <1>1, <1>3, <1>5, <1>6, TouchStep
<1>8. loose' \subseteq Payments BY <1>0, <1>3, <1>4 DEF BalanceTypeOK
<1>9. BalanceTypeOK' BY <1>1, <1>3, <1>7, <1>8 DEF BInv, BalanceTypeOK, WalletsOK, InWallet
<1>. QED BY <1>3, <1>7, <1>9 DEF BInv

\* The copies that come with a new transaction are of blocks they are in.
LEMMA SupportingIs ==
    ASSUME BInv, NEW t \in Payments
    PROVE  /\ Supporting(t) \in SUBSET (Payments \X Nat)
           /\ \A c \in Supporting(t) : Names(c[2], c[1])
<1> DEFINE parents(S) == {o[1] : o \in UNION {Ins[u] : u \in S}}
           W == SUBSET Payments
           Next(X) == X \union parents({u \in X : DepthOf(BlockOf(u)) < CopyDepth})
           G == [X \in W |-> Next(X)]
           n == Cardinality(Payments)
           Is(it) == it = [i \in Nat |-> IF i = 0 THEN parents({t}) ELSE Next(it[i - 1])]
           copied == CHOOSE it : Is(it)
<1>1. Supporting(t) = {<<u, BlockOf(u)>> : u \in copied[n]} BY Zenon DEF Supporting
<1>2. n \in Nat BY BalanceAssumption, FS_CardinalityType
<1>3. ASSUME NEW S \in W PROVE parents(S) \in W
  <2>1. ASSUME NEW u \in S, NEW o \in Ins[u] PROVE o[1] \in Payments
    <3>1. u \in Payments OBVIOUS
    <3>. QED BY <3>1, OutPointsOf, OutPoint
  <2>. QED BY <2>1
<1>4. ASSUME NEW X \in W PROVE Next(X) \in W
  <2> DEFINE S == {u \in X : DepthOf(BlockOf(u)) < CopyDepth}
  <2>1. S \in W OBVIOUS
  <2>. HIDE DEF parents, S
  <2>2. parents(S) \in W BY <1>3, <2>1
  <2>. QED BY <2>2 DEF S
<1>5. parents({t}) \in W
  <2>1. {t} \in W OBVIOUS
  <2>. HIDE DEF parents
  <2>. QED BY <1>3, <2>1
<1>. HIDE DEF n, Next, parents
<1>6. G \in [W -> W]
  <2>. HIDE DEF W
  <2>. QED BY <1>4
<1>7. \A X \in W : G[X] = Next(X) OBVIOUS
<1>. HIDE DEF G, W
<1>8. PICK g \in [Nat -> W] : Iterates(g, parents({t}), G) BY <1>5, <1>6, IterateExists
<1>9. Is(g)
  <2>1. ASSUME NEW i \in Nat PROVE g[i] = IF i = 0 THEN parents({t}) ELSE Next(g[i - 1])
    <3>1. g[i] = IF i = 0 THEN parents({t}) ELSE G[g[i - 1]] BY <1>8 DEF Iterates
    <3>2. i # 0 => g[i - 1] \in W BY <1>8
    <3>. QED BY <1>7, <3>1, <3>2
  <2>2. g = [i \in Nat |-> g[i]] BY <1>8
  <2>. QED BY <2>1, <2>2, Zenon
<1>10. Is(copied)
  <2>. HIDE DEF Is
  <2>. QED BY <1>9, Zenon
<1>. HIDE DEF copied
<1>11. copied[n] \in W
  <2> DEFINE T == {i \in Nat : copied[i] \in W}
  <2>1. 0 \in T BY <1>5, <1>10
  <2>2. ASSUME NEW i \in 0 .. n - 1, i \in T PROVE i + 1 \in T
    <3>1. i + 1 \in Nat /\ i + 1 # 0 /\ (i + 1) - 1 = i BY <1>2
    <3>2. copied[i + 1] = Next(copied[i]) BY <1>10, <3>1
    <3>. QED BY <1>4, <2>2, <3>1, <3>2
  <2>3. \A i \in 0 .. n : i \in T
    <3>. HIDE DEF T
    <3>. QED BY <1>2, <2>1, <2>2, UpTo
  <2>4. n \in T
    <3>. HIDE DEF T
    <3>. QED BY <1>2, <2>3
  <2>. QED BY <2>4
<1>12. ASSUME NEW u \in copied[n] PROVE u \in Payments /\ BlockOf(u) \in Nat /\ Names(BlockOf(u), u)
  <2>1. u \in Payments BY <1>11 DEF W
  <2>. QED BY <2>1, ChainIs DEF BInv
<1>. QED BY <1>1, <1>12

\* v is w without the cached sums of the transactions in P.
Cleared(w, v, P) ==
    /\ v \in WalletsOK
    /\ \A u \in Payments :
         /\ v[u] = Unset <=> w[u] = Unset
         /\ u \notin P => v[u] = w[u]
         /\ w[u] # Unset =>
              /\ v[u].hashBlock = w[u].hashBlock /\ v[u].vtxPrev = w[u].vtxPrev
              /\ v[u].vfSpent = w[u].vfSpent
         /\ u \in P /\ w[u] # Unset =>
              v[u].debit = Unset /\ v[u].credit = Unset /\ v[u].avail = Unset

LEMMA ClearedIs ==
    ASSUME NEW w \in WalletsOK, NEW P, \A u \in Payments : u \in P => w[u] # Unset
    PROVE  Cleared(w, [u \in Payments |-> IF u \in P THEN Dirty(w[u]) ELSE w[u]], P)
<1> DEFINE v == [u \in Payments |-> IF u \in P THEN Dirty(w[u]) ELSE w[u]]
<1>1. ASSUME NEW u \in Payments, w[u] # Unset
      PROVE  /\ Dirty(w[u]) \in WalletTx /\ Dirty(w[u]) # Unset
             /\ Dirty(w[u]).vfSpent = w[u].vfSpent
             /\ Dirty(w[u]).hashBlock = w[u].hashBlock /\ Dirty(w[u]).vtxPrev = w[u].vtxPrev
             /\ Dirty(w[u]).debit = Unset /\ Dirty(w[u]).credit = Unset /\ Dirty(w[u]).avail = Unset
  <2>1. w[u] \in WalletTx BY <1>1, InWalletsOK
  <2>2. PICK r : r = w[u] OBVIOUS
  <2>3. /\ Dirty(r) \in WalletTx /\ Dirty(r).vfSpent = r.vfSpent
        /\ Dirty(r).hashBlock = r.hashBlock /\ Dirty(r).vtxPrev = r.vtxPrev
        /\ Dirty(r).debit = Unset /\ Dirty(r).credit = Unset /\ Dirty(r).avail = Unset
    BY <2>1, <2>2 DEF Dirty, WalletTx
  <2>4. Dirty(r) # Unset BY <2>3, BalanceAssumption
  <2>. QED BY <2>2, <2>3, <2>4
<1>2. ASSUME NEW u \in Payments PROVE v[u] = IF u \in P THEN Dirty(w[u]) ELSE w[u] OBVIOUS
<1>3. v = [u \in Payments |-> v[u]] OBVIOUS
<1>. HIDE DEF v
<1>4. \A u \in Payments : v[u] \in WalletTx \union {Unset} BY <1>1, <1>2 DEF WalletsOK
<1>5. v \in [Payments -> WalletTx \union {Unset}] BY <1>3, <1>4
<1>6. v \in WalletsOK BY <1>1, <1>2, <1>5 DEF WalletsOK
<1>7. Cleared(w, v, P) BY <1>1, <1>2, <1>6 DEF Cleared
<1>. QED BY <1>7 DEF v

LEMMA ClearedKeeps ==
    ASSUME NEW w, NEW v, NEW P, Cleared(w, v, P), NEW k
    PROVE  /\ Grows(w, v)
           /\ AtMost(w, k) => AtMost(v, k)
           /\ Credits(w, k) => Credits(v, k)
           /\ \A C \in SUBSET Payments : Debits(w, k, C) => Debits(v, k, C)
<1>0. Grows(w, v) BY DEF Cleared, Grows
<1>1. ASSUME NEW u \in Payments, v[u] # Unset
      PROVE  /\ w[u] # Unset
             /\ DebitOf(v, k, u) = DebitOf(w, k, u) /\ AvailableOf(v, k, u) = AvailableOf(w, k, u)
             /\ v[u].debit = Unset \/ v[u].debit = w[u].debit
             /\ v[u].credit = Unset \/ v[u].credit = w[u].credit
             /\ v[u].avail = Unset \/ v[u].avail = w[u].avail
  <2>1. w[u] # Unset /\ v[u].vfSpent = w[u].vfSpent BY <1>1 DEF Cleared
  <2>2. DebitOf(v, k, u) = DebitOf(w, k, u) BY SameDebit DEF Cleared
  <2>3. AvailableOf(v, k, u) = AvailableOf(w, k, u) BY <2>1, SameAvailable
  <2>4. u \notin P => v[u] = w[u] BY DEF Cleared
  <2>. QED BY <2>1, <2>2, <2>3, <2>4 DEF Cleared
<1>2. ASSUME AtMost(w, k) PROVE AtMost(v, k) BY <1>1, <1>2 DEF AtMost, CacheAtMost
<1>3. ASSUME Credits(w, k) PROVE Credits(v, k) BY <1>1, <1>3 DEF Credits, CacheIs
<1>4. ASSUME NEW C \in SUBSET Payments, Debits(w, k, C) PROVE Debits(v, k, C)
  <2>1. ASSUME NEW t \in C, v[t] # Unset
        PROVE  Settled(v, k, t) /\ CacheIs(v[t].debit, DebitOf(v, k, t))
    <3>0. t \in Payments OBVIOUS
    <3>1. Settled(w, k, t) /\ CacheIs(w[t].debit, DebitOf(w, k, t)) BY <1>1, <1>4, <2>1, <3>0 DEF Debits
    <3>2. Settled(v, k, t) BY <1>0, <3>0, <3>1, GrowthKeeps
    <3>3. CacheIs(v[t].debit, DebitOf(v, k, t)) BY <1>1, <2>1, <3>0, <3>1 DEF CacheIs
    <3>. QED BY <3>2, <3>3
  <2>. QED BY <2>1 DEF Debits
<1>. QED BY <1>0, <1>2, <1>3, <1>4

LEMMA CommitEnters ==
    ASSUME BInv, NEW t \in Payments, CommitPayment(t)
    PROVE  Enters(wtx, wtx', own, t, 0, Supporting(t))
<1>0. wtx \in WalletsOK /\ wtx[t] = Unset /\ \A o \in Ins[t] : wtx[o[1]] # Unset /\ o[1] \in Payments
  BY WalletIsOK, OutPointsOf, OutPoint DEF BInv, CommitPayment
<1>1. PICK r : r = [NewWalletTx(0) EXCEPT !.vtxPrev = Supporting(t)] OBVIOUS
<1>2. /\ r \in WalletTx /\ r.vfSpent = {} /\ r.hashBlock = 0 /\ r.vtxPrev = Supporting(t)
  BY <1>1, SupportingIs DEF NewWalletTx, WalletTx
<1>3. PICK added : added = AddToWallet(wtx, own, t, r) OBVIOUS
<1>4. PICK a \in WalletsOK : Added(wtx, a, t, r) /\ Touched(a, added, own)
  BY <1>0, <1>2, <1>3, AddToWalletIs
<1>5. PICK b : b = [u \in Payments |-> IF u \in ParentsOf(t) THEN Dirty(added[u]) ELSE added[u]] OBVIOUS
<1>6. wtx' = FoldSet(LAMBDA o, v : MarkSpent(v, o), b, Ins[t]) BY <1>1, <1>3, <1>5 DEF CommitPayment
<1>7. Grows(wtx, a) /\ added \in WalletsOK /\ Grows(a, added) /\ Grows(added, a)
  <2>1. Touched(a, added, own) BY <1>4
  <2>2. added \in WalletsOK BY <2>1 DEF Touched
  <2>3. Added(wtx, a, t, r) BY <1>4
  <2>. QED BY <2>1, <2>2, <2>3, TouchedGrows, AddedGrows
<1>8. ASSUME NEW u \in Payments, u \in ParentsOf(t) PROVE added[u] # Unset
  BY <1>0, <1>7, <1>8 DEF ParentsOf, Grows
<1>9. Cleared(added, b, ParentsOf(t)) BY <1>5, <1>7, <1>8, ClearedIs
<1>10. Grows(added, b) BY <1>9, ClearedKeeps
<1>11. b \in WalletsOK /\ \A o \in Ins[t] : b[o[1]] # Unset
  BY <1>0, <1>7, <1>9, <1>10 DEF Cleared, Grows
<1>12. Touched(b, wtx', own) BY <1>6, <1>11, MarkingTouches
<1>13. wtx' \in WalletsOK /\ Grows(b, wtx')
  <2>1. wtx' \in WalletsOK BY <1>12 DEF Touched
  <2>. QED BY <1>12, <2>1, TouchedGrows
<1>14. Grows(wtx, wtx') BY <1>7, <1>10, <1>13 DEF Grows
<1>15. Met(wtx', own, t)
  <2>1. a[t] # Unset BY <1>4 DEF Added
  <2>. QED BY <1>7, <1>10, <1>13, <2>1 DEF Grows, Met
<1>16. AtMost(wtx, own) => AtMost(wtx', own)
  BY <1>0, <1>4, <1>9, <1>12, AddedKeeps, TouchedKeeps, ClearedKeeps
<1>17. Credits(wtx, own) => Credits(wtx', own)
  BY <1>0, <1>4, <1>9, <1>12, AddedKeeps, TouchedKeeps, ClearedKeeps
<1>18. ASSUME NEW C \in SUBSET Payments, Debits(wtx, own, C \ {t}), t \in C => Settled(wtx, own, t)
       PROVE  Debits(wtx', own, C)
  <2>1. Debits(a, own, C) BY <1>0, <1>4, <1>18, AddedKeeps
  <2>2. Debits(added, own, C) BY <1>4, <2>1, TouchedKeeps
  <2>3. Debits(b, own, C) BY <1>9, <2>2, ClearedKeeps
  <2>. QED BY <1>12, <2>3, TouchedKeeps
<1>19. ASSUME NEW u \in Payments, wtx'[u] # Unset
       PROVE  /\ wtx[u] # Unset \/ u = t
              /\ (wtx'[u].hashBlock = 0 /\ u = t) \/ (wtx[u] # Unset /\ wtx'[u].hashBlock = wtx[u].hashBlock)
              /\ wtx'[u].vtxPrev = Supporting(t) \/ (wtx[u] # Unset /\ wtx'[u].vtxPrev = wtx[u].vtxPrev)
  <2>1. b[u] # Unset /\ wtx'[u].hashBlock = b[u].hashBlock /\ wtx'[u].vtxPrev = b[u].vtxPrev
    BY <1>12, <1>19 DEF Touched
  <2>2. added[u] # Unset /\ b[u].hashBlock = added[u].hashBlock /\ b[u].vtxPrev = added[u].vtxPrev
    BY <1>9, <2>1 DEF Cleared
  <2>3. a[u] # Unset /\ added[u].hashBlock = a[u].hashBlock /\ added[u].vtxPrev = a[u].vtxPrev
    BY <1>4, <2>2 DEF Touched
  <2>4. CASE u = t BY <1>0, <1>2, <1>4, <2>1, <2>2, <2>3, <2>4 DEF Added
  <2>5. CASE u # t BY <1>4, <2>1, <2>2, <2>3, <2>5 DEF Added
  <2>. QED BY <2>4, <2>5
<1>. QED BY <1>13, <1>14, <1>15, <1>16, <1>17, <1>18, <1>19 DEF Enters

LEMMA CommitPaymentKeeps == ASSUME BInv, NEW t \in Payments, CommitPayment(t) PROVE BInv'
<1>0. BalanceTypeOK /\ wtx \in WalletsOK BY WalletIsOK DEF BInv
<1>1. PICK copies : copies = Supporting(t) OBVIOUS
<1>2. Enters(wtx, wtx', own, t, 0, copies) BY <1>1, CommitEnters
<1>3. /\ \A m, u : Names(m, u) => Names(m, u)'
      /\ \A u \in Payments : OnChain(u)' <=> OnChain(u)
      /\ Numbered' /\ Ordered' BY ChainSame DEF CommitPayment
<1>4. Settled(wtx, FirstKeys, t) /\ Settled(wtx, own, t) BY DEF Settled, CommitPayment
<1>5. Names(0, t)'
  <2>1. made \in Nat /\ \A i \in DOMAIN mined : mined[i].number # 0 BY <1>0, MinedIs
  <2>2. mined' = mined /\ made' = made BY DEF CommitPayment
  <2>. QED BY <2>1, <2>2 DEF Names
<1>6. \A c \in copies : Names(c[2], c[1])' BY <1>1, <1>3, SupportingIs
<1>7. own' = own /\ \A u \in Payments : u \in loose' => u \in loose \/ OnChain(u) \/ u = t
  BY DEF CommitPayment
<1>8. /\ wtx' \in WalletsOK
      /\ (AtMost(wtx, own) /\ Exact /\ KnowsFirst /\ KnowsChain /\ Fed /\ Named)'
  BY <1>2, <1>3, <1>4, <1>5, <1>6, <1>7, EnterStep
<1>9. BalanceTypeOK'
  <2>1. loose' \subseteq Payments BY <1>0 DEF BalanceTypeOK, CommitPayment
  <2>. QED BY <1>8, <2>1, TypeAgain DEF CommitPayment
<1>. QED BY <1>3, <1>8, <1>9 DEF BInv

\* importprivkey scans the best chain one block after the other.
Scan(k, base) ==
    FoldLeft(LAMBDA w, b : IF b.tx = Unset THEN w ELSE Sync(w, k, b.tx, b.number), base, mined)

Scans(v, k, base) ==
    /\ v \in [0 .. Len(mined) -> WalletsOK] /\ v[0] = base /\ v[Len(mined)] = Scan(k, base)
    /\ \A i \in 1 .. Len(mined) :
          v[i] = IF mined[i].tx = Unset THEN v[i - 1]
                 ELSE Sync(v[i - 1], k, mined[i].tx, mined[i].number)

LEMMA SyncWalk ==
    ASSUME BalanceTypeOK, NEW k, NEW base \in WalletsOK
    PROVE  \E v : Scans(v, k, base)
<1>. DEFINE size == Len(mined)
            W == WalletsOK
            Scanned(w, b) == IF b.tx = Unset THEN w ELSE Sync(w, k, b.tx, b.number)
            F == [wi \in W \X (1 .. size) |-> Scanned(wi[1], mined[wi[2]])]
            Follows(it) ==
              it = [t \in SUBSET (1 .. size) |->
                      IF t = {} THEN base
                      ELSE LET x == Max(t) IN Scanned(it[t \ {x}], mined[x])]
            it0 == CHOOSE it : Follows(it)
<1>0. /\ size \in Nat /\ DOMAIN mined = 1 .. size
      /\ \A i \in 1 .. size : mined[i].tx \in Payments \union {Unset} /\ mined[i].number \in Nat
  BY MinedIs
<1>1. Scan(k, base) = it0[1 .. size] BY <1>0, Zenon DEF Scan, FoldLeft, MapThenFoldSet
<1>2. ASSUME NEW w \in W, NEW i \in 1 .. size PROVE Scanned(w, mined[i]) \in W
  <2>1. CASE mined[i].tx = Unset BY <2>1
  <2>2. CASE mined[i].tx # Unset
    <3>1. mined[i].tx \in Payments /\ mined[i].number \in Nat BY <1>0, <2>2
    <3>2. PICK v : v = Sync(w, k, mined[i].tx, mined[i].number) OBVIOUS
    <3>3. w \in WalletsOK OBVIOUS
    <3>4. Enters(w, v, k, mined[i].tx, mined[i].number, {}) BY <3>1, <3>2, <3>3, SyncEnters
    <3>5. v \in W BY <3>4 DEF Enters
    <3>. QED BY <2>2, <3>2, <3>5
  <2>. QED BY <2>1, <2>2
<1>. HIDE DEF Scanned
<1>3. F \in [W \X (1 .. size) -> W]
  <2>1. ASSUME NEW wi \in W \X (1 .. size) PROVE Scanned(wi[1], mined[wi[2]]) \in W
    <3>1. wi[1] \in W /\ wi[2] \in 1 .. size BY Zenon
    <3>. QED BY <1>2, <3>1
  <2>. HIDE DEF W
  <2>. QED BY <2>1
<1>3a. base \in W OBVIOUS
<1>. HIDE DEF W, F, size
<1>4. PICK g \in [SUBSET (1 .. size) -> W] : Folds(g, base, F, size) BY <1>0, <1>3, <1>3a, FoldExists
<1>5. ASSUME NEW it, NEW t \in SUBSET (1 .. size), t # {}, it[t \ {Max(t)}] \in W
      PROVE  F[<<it[t \ {Max(t)}], Max(t)>>] = Scanned(it[t \ {Max(t)}], mined[Max(t)])
  <2>1. Max(t) \in 1 .. size BY <1>0, <1>5, MaxInInterval
  <2>. QED BY <1>5, <2>1 DEF F
<1>6. Follows(g)
  <2>1. ASSUME NEW t \in SUBSET (1 .. size)
        PROVE  g[t] = IF t = {} THEN base
                      ELSE LET x == Max(t) IN Scanned(g[t \ {x}], mined[x])
    <3>1. g[t] = IF t = {} THEN base ELSE F[<<g[t \ {Max(t)}], Max(t)>>] BY <1>4, Zenon DEF Folds
    <3>2. t \ {Max(t)} \in SUBSET (1 .. size) OBVIOUS
    <3>3. g[t \ {Max(t)}] \in W BY <1>4, <3>2
    <3>. QED BY <1>5, <3>1, <3>3, Zenon
  <2>2. g = [t \in SUBSET (1 .. size) |-> g[t]] OBVIOUS
  <2>. QED BY <2>1, <2>2, Zenon
<1>7. Follows(it0)
  <2>. HIDE DEF Follows
  <2>. QED BY <1>6, Zenon
<1>. HIDE DEF it0
<1>8. it0[{}] = base
  <2>1. {} \in SUBSET (1 .. size) OBVIOUS
  <2>. QED BY <1>7, <2>1, Zenon
<1>9. ASSUME NEW t \in SUBSET (1 .. size), t # {}, it0[t \ {Max(t)}] \in W
      PROVE  it0[t] = F[<<it0[t \ {Max(t)}], Max(t)>>]
  <2>1. it0[t] = Scanned(it0[t \ {Max(t)}], mined[Max(t)]) BY <1>7, <1>9, Zenon
  <2>. QED BY <1>5, <1>9, <2>1, Zenon
<1>. HIDE DEF Follows
<1>10. PICK v \in [0 .. size -> W] : Walk(v, it0, base, F, size)
  <2>1. Unfolds(it0, W, base, F, size) BY <1>8, <1>9 DEF Unfolds
  <2>. QED BY <1>0, <1>3, <1>3a, <2>1, FoldWalk
<1>11. ASSUME NEW i \in 1 .. size PROVE v[i] = Scanned(v[i - 1], mined[i])
  <2>1. i - 1 \in 0 .. size BY <1>0
  <2>2. v[i - 1] \in W BY <1>10, <2>1
  <2>3. <<v[i - 1], i>> \in W \X (1 .. size) BY <2>2
  <2>. QED BY <1>10, <2>3 DEF Walk, F
<1>12. v[0] = base /\ v[size] = it0[1 .. size] BY <1>0, <1>10 DEF Walk
<1>13. Scans(v, k, base) BY <1>1, <1>10, <1>11, <1>12 DEF Scans, Scanned, W, size
<1>. QED BY <1>13

\* What is known of the wallet v when the scan for k has come to block i; w is
\* the wallet before.
ScannedTo(w, v, k, i) ==
    /\ v \in WalletsOK /\ Grows(w, v)
    /\ AtMost(v, k) /\ Credits(v, k)
    /\ Debits(v, k, {u \in Payments : \E j \in 1 .. i : mined[j].tx = u})
    /\ \A j \in 1 .. i : mined[j].tx # Unset => Met(v, k, mined[j].tx)
    /\ \A u \in Payments : v[u] # Unset =>
         /\ w[u] # Unset \/ OnChain(u)
         /\ Names(v[u].hashBlock, u) /\ \A c \in v[u].vtxPrev : Names(c[2], c[1])

\* The scan is not led astray by the order of the blocks: parents come first.
LEMMA ScanNext ==
    ASSUME BalanceTypeOK, Numbered, Ordered, NEW w, NEW v, NEW x, NEW k, NEW i \in 0 .. Len(mined) - 1,
           ScannedTo(w, v, k, i),
           x = IF mined[i + 1].tx = Unset THEN v ELSE Sync(v, k, mined[i + 1].tx, mined[i + 1].number)
    PROVE  ScannedTo(w, x, k, i + 1)
<1>0. /\ Len(mined) \in Nat /\ DOMAIN mined = 1 .. Len(mined) /\ i \in Nat
      /\ i + 1 \in 1 .. Len(mined) /\ \A j \in 1 .. i : j \in 1 .. i + 1 /\ j \in 1 .. Len(mined)
      /\ \A j \in 1 .. i + 1 : j \in 1 .. i \/ j = i + 1
  BY MinedIs
<1>1. PICK t, n : t = mined[i + 1].tx /\ n = mined[i + 1].number OBVIOUS
<1>2. t \in Payments \union {Unset} /\ n \in Nat /\ n \in 1 .. made /\ made \in Nat BY <1>0, <1>1, MinedIs
<1> DEFINE C(m) == {u \in Payments : \E j \in 1 .. m : mined[j].tx = u}
<1>3. CASE t = Unset
  <2>1. C(i + 1) = C(i) BY <1>0, <1>1, <1>3, BalanceAssumption
  <2>2. x = v BY <1>1, <1>3
  <2>3. \A j \in 1 .. i + 1 : mined[j].tx # Unset => Met(x, k, mined[j].tx)
    BY <1>0, <1>1, <1>3, <2>2 DEF ScannedTo
  <2>4. Debits(x, k, C(i + 1)) BY <2>1, <2>2 DEF ScannedTo
  <2>. QED BY <2>2, <2>3, <2>4 DEF ScannedTo
<1>4. CASE t # Unset
  <2>0. t \in Payments /\ v \in WalletsOK BY <1>2, <1>4 DEF ScannedTo
  <2>1. Enters(v, x, k, t, n, {}) BY <1>1, <1>2, <1>4, <2>0, SyncEnters
  <2>2. x \in WalletsOK /\ Grows(w, x) /\ Grows(v, x) BY <2>1 DEF Enters, ScannedTo, Grows
  <2>3. AtMost(x, k) /\ Credits(x, k) BY <2>1 DEF Enters, ScannedTo
  <2>4. Settled(v, k, t)
    <3>1. ASSUME NEW o \in Ins[t] PROVE Met(v, k, o[1])
      <4>1. PICK j \in 1 .. (i + 1) - 1 : mined[j].tx = o[1] BY <1>0, <1>1, <1>4 DEF Ordered
      <4>2. j \in 1 .. i BY <1>0
      <4>3. o[1] # Unset BY <2>0, OutPointsOf, OutPoint, BalanceAssumption
      <4>. QED BY <4>1, <4>2, <4>3 DEF ScannedTo
    <3>. QED BY <2>0, <3>1, MetSettles
  <2>5. Debits(x, k, C(i + 1))
    <3>1. C(i + 1) \in SUBSET Payments /\ C(i + 1) \ {t} \subseteq C(i) BY <1>0, <1>1
    <3>2. Debits(v, k, C(i)) BY DEF ScannedTo
    <3>. HIDE DEF C
    <3>3. Debits(v, k, C(i + 1) \ {t}) BY <3>1, <3>2 DEF Debits
    <3>. QED BY <2>1, <2>4, <3>1, <3>3 DEF Enters
  <2>6. ASSUME NEW j \in 1 .. i + 1, mined[j].tx # Unset PROVE Met(x, k, mined[j].tx)
    <3>1. CASE j = i + 1 BY <1>1, <2>1, <3>1 DEF Enters
    <3>2. CASE j \in 1 .. i
      <4>1. Met(v, k, mined[j].tx) BY <2>6, <3>2 DEF ScannedTo
      <4>2. mined[j].tx \in Payments BY <1>0, <2>6, <3>2, MinedIs
      <4>. QED BY <2>2, <4>1, <4>2, GrowthKeeps
    <3>. QED BY <1>0, <3>1, <3>2
  <2>7. OnChain(t) /\ Names(n, t)
    <3>1. OnChain(t) BY <1>0, <1>1 DEF OnChain
    <3>2. n \in 0 .. made BY <1>2
    <3>. QED BY <1>0, <1>1, <3>1, <3>2 DEF Names, Numbered
  <2>8. ASSUME NEW u \in Payments, x[u] # Unset
        PROVE  /\ w[u] # Unset \/ OnChain(u)
               /\ Names(x[u].hashBlock, u) /\ \A c \in x[u].vtxPrev : Names(c[2], c[1])
    <3>1. w[u] # Unset \/ OnChain(u) BY <2>1, <2>7, <2>8 DEF Enters, ScannedTo
    <3>2. Names(x[u].hashBlock, u) BY <2>1, <2>7, <2>8 DEF Enters, ScannedTo
    <3>3. \A c \in x[u].vtxPrev : Names(c[2], c[1]) BY <2>1, <2>8 DEF Enters, ScannedTo
    <3>. QED BY <3>1, <3>2, <3>3
  <2>. QED BY <2>2, <2>3, <2>5, <2>6, <2>8 DEF ScannedTo
<1>. QED BY <1>3, <1>4

LEMMA ImportKeyKeeps == ASSUME BInv, NEW key \in ImportedKeys, ImportKey(key) PROVE BInv'
<1>0. /\ BalanceTypeOK /\ Numbered /\ Ordered /\ wtx \in WalletsOK
      /\ own' = own \union {key} /\ key \notin own /\ FirstKeys \subseteq own
      /\ mined' = mined /\ made' = made /\ loose' = loose
  BY WalletIsOK DEF BInv, ImportKey, BalanceTypeOK
<1>1. PICK k : k = own \union {key} OBVIOUS
<1>2. PICK w : w = [t \in Payments |-> IF wtx[t] = Unset THEN Unset ELSE Dirty(wtx[t])] OBVIOUS
<1> DEFINE n == Len(mined)
           P == {t \in Payments : wtx[t] # Unset}
<1>3. n \in Nat /\ DOMAIN mined = 1 .. n BY <1>0, MinedIs
<1>4. Cleared(wtx, w, P)
  <2>1. w = [t \in Payments |-> IF t \in P THEN Dirty(wtx[t]) ELSE wtx[t]] BY <1>2
  <2>2. \A u \in Payments : u \in P => wtx[u] # Unset OBVIOUS
  <2>. HIDE DEF P
  <2>. QED BY <1>0, <2>1, <2>2, ClearedIs
<1>5. w \in WalletsOK BY <1>4 DEF Cleared
<1>6a. PICK v : Scans(v, k, w) BY <1>0, <1>5, SyncWalk
<1>6. /\ v \in [0 .. n -> WalletsOK] /\ v[0] = w /\ v[n] = Scan(k, w)
      /\ \A i \in 1 .. n : v[i] = IF mined[i].tx = Unset THEN v[i - 1]
                                  ELSE Sync(v[i - 1], k, mined[i].tx, mined[i].number)
  BY <1>6a DEF Scans
<1>7. wtx' = v[n]
  <2>1. wtx' = Scan(own \union {key},
                    [t \in Payments |-> IF wtx[t] = Unset THEN Unset ELSE Dirty(wtx[t])])
    BY Zenon DEF ImportKey, Scan
  <2>2. wtx' = Scan(k, w) BY <1>1, <1>2, <2>1, Zenon
  <2>. QED BY <1>6, <2>2
<1>8. ScannedTo(w, w, k, 0)
  <2>1. ASSUME NEW u \in Payments, w[u] # Unset
        PROVE  /\ w[u].debit = Unset /\ w[u].credit = Unset /\ w[u].avail = Unset /\ wtx[u] # Unset
               /\ w[u].hashBlock = wtx[u].hashBlock /\ w[u].vtxPrev = wtx[u].vtxPrev
    BY <1>4, <2>1 DEF Cleared
  <2>2. AtMost(w, k) /\ Credits(w, k) BY <2>1 DEF AtMost, Credits, CacheIs, CacheAtMost
  <2>3. Debits(w, k, {u \in Payments : \E j \in 1 .. 0 : mined[j].tx = u}) BY DEF Debits
  <2>4. Named BY DEF BInv
  <2>5. ASSUME NEW u \in Payments, w[u] # Unset
        PROVE  Names(w[u].hashBlock, u) /\ \A c \in w[u].vtxPrev : Names(c[2], c[1])
    BY <2>1, <2>4, <2>5 DEF Named
  <2>6. Grows(w, w) BY DEF Grows
  <2>. QED BY <1>5, <2>2, <2>3, <2>5, <2>6 DEF ScannedTo
<1>9. ScannedTo(w, v[n], k, n)
  <2> DEFINE T == {i \in 0 .. n : ScannedTo(w, v[i], k, i)}
  <2>1. 0 \in T
    <3>1. 0 \in 0 .. n /\ v[0] = w BY <1>3, <1>6
    <3>2. ScannedTo(w, v[0], k, 0) BY <1>8, <3>1
    <3>. QED BY <3>1, <3>2
  <2>2. ASSUME NEW i \in 0 .. n - 1, i \in T PROVE i + 1 \in T
    <3>1. i + 1 \in 1 .. n /\ (i + 1) - 1 = i /\ i + 1 \in 0 .. n BY <1>3
    <3>2. v[i + 1] = IF mined[i + 1].tx = Unset THEN v[i]
                     ELSE Sync(v[i], k, mined[i + 1].tx, mined[i + 1].number) BY <1>6, <3>1
    <3>3. ScannedTo(w, v[i], k, i) BY <2>2
    <3>4. ScannedTo(w, v[i + 1], k, i + 1) BY <1>0, <3>2, <3>3, ScanNext
    <3>. QED BY <3>1, <3>4
  <2>3. \A i \in 0 .. n : i \in T
    <3>. HIDE DEF T, n
    <3>. QED BY <1>3, <2>1, <2>2, UpTo
  <2>. QED BY <1>3, <2>3
<1>10. PICK z : z = v[n] OBVIOUS
<1>11. /\ wtx' = z /\ own' = k /\ z \in WalletsOK /\ Grows(w, z) /\ AtMost(z, k) /\ Credits(z, k)
       /\ Debits(z, k, {u \in Payments : OnChain(u)})
       /\ \A u \in Payments : OnChain(u) => Met(z, k, u)
       /\ \A u \in Payments : z[u] # Unset => w[u] # Unset \/ OnChain(u)
  <2>1. {u \in Payments : \E j \in 1 .. n : mined[j].tx = u} = {u \in Payments : OnChain(u)}
    BY <1>3 DEF OnChain
  <2>2. Debits(z, k, {u \in Payments : OnChain(u)}) BY <1>9, <1>10, <2>1 DEF ScannedTo
  <2>3. ASSUME NEW u \in Payments, OnChain(u) PROVE Met(z, k, u)
    <3>1. PICK j \in 1 .. n : mined[j].tx = u BY <1>3, <2>3 DEF OnChain
    <3>2. u # Unset BY BalanceAssumption
    <3>. QED BY <1>9, <1>10, <3>1, <3>2 DEF ScannedTo
  <2>. QED BY <1>0, <1>1, <1>7, <1>9, <1>10, <2>2, <2>3 DEF ScannedTo
<1>12. \A m, u : Names(m, u) => Names(m, u)' BY <1>0 DEF Names
<1>13. \A u : OnChain(u)' <=> OnChain(u) BY <1>0 DEF OnChain
<1>14. Grows(wtx, z)
  <2>1. Grows(wtx, w) BY <1>4, ClearedKeeps
  <2>. QED BY <1>11, <2>1 DEF Grows
<1>15. AtMost(wtx, own)' BY <1>11
<1>16. Exact'
  <2>1. k # FirstKeys BY <1>0, <1>1
  <2>2. {u \in Payments : k = FirstKeys \/ OnChain(u)'} = {u \in Payments : OnChain(u)} BY <1>13, <2>1
  <2>3. Debits(z, k, {u \in Payments : k = FirstKeys \/ OnChain(u)'}) BY <1>11, <2>2
  <2>. QED BY <1>11, <2>3 DEF Exact
<1>17. KnowsFirst'
  <2>1. ASSUME NEW u \in Payments, u \in loose \/ OnChain(u) PROVE Met(z, FirstKeys, u)
    <3>1. Met(wtx, FirstKeys, u) BY <2>1 DEF BInv, KnowsFirst
    <3>. QED BY <1>14, <3>1, GrowthKeeps
  <2>. QED BY <1>0, <1>11, <1>13, <2>1 DEF KnowsFirst
<1>18. KnowsChain' BY <1>11, <1>13 DEF KnowsChain
<1>19. Fed'
  <2>1. ASSUME NEW u \in Payments, z[u] # Unset PROVE Settled(z, FirstKeys, u)
    <3>1. Settled(wtx, FirstKeys, u)
      <4>1. CASE w[u] # Unset
        <5>1. wtx[u] # Unset BY <1>4, <4>1 DEF Cleared
        <5>. QED BY <5>1 DEF BInv, Fed
      <4>2. CASE OnChain(u)
        <5>1. ASSUME NEW o \in Ins[u] PROVE Met(wtx, FirstKeys, o[1])
          <6>1. OnChain(o[1]) /\ o[1] \in Payments BY <1>0, <4>2, ParentsOnChain, OutPointsOf, OutPoint
          <6>. QED BY <6>1 DEF BInv, KnowsFirst
        <5>. QED BY <5>1, MetSettles
      <4>. QED BY <1>11, <2>1, <4>1, <4>2
    <3>. QED BY <1>14, <3>1, GrowthKeeps
  <2>. QED BY <1>11, <2>1 DEF Fed
<1>20. Named'
  <2>1. ASSUME NEW u \in Payments, z[u] # Unset
        PROVE  Names(z[u].hashBlock, u)' /\ \A c \in z[u].vtxPrev : Names(c[2], c[1])'
    <3>1. Names(z[u].hashBlock, u) /\ \A c \in z[u].vtxPrev : Names(c[2], c[1])
      BY <1>9, <1>10, <2>1 DEF ScannedTo
    <3>. QED BY <1>12, <3>1
  <2>. QED BY <1>11, <2>1 DEF Named, Names
<1>21. Numbered' /\ Ordered' BY <1>0 DEF Numbered, Ordered
<1>22. BalanceTypeOK'
  <2>1. FirstKeys \subseteq k /\ k \subseteq FirstKeys \union ImportedKeys \union AddedScripts
    BY <1>0, <1>1 DEF BalanceTypeOK
  <2>. QED BY <1>0, <1>11, <2>1 DEF BalanceTypeOK, WalletsOK, InWallet
<1>. QED BY <1>15, <1>16, <1>17, <1>18, <1>19, <1>20, <1>21, <1>22 DEF BInv

-----------------------------------------------------------------------------
LEMMA BalanceInitHolds == ASSUME BalanceInit PROVE BInv
<1>1. \A t \in Payments : wtx[t] = Unset BY DEF BalanceInit
<1>2. BalanceTypeOK
  <2>1. wtx \in [Payments -> WalletTx \union {Unset}] BY DEF BalanceInit
  <2>2. mined = << >> /\ mined \in Seq([tx : Payments \union {Unset}, number : 1 .. made])
    BY EmptySeq DEF BalanceInit
  <2>3. made \in 0 .. MaxMined BY BalanceAssumption DEF BalanceInit
  <2>. QED BY <1>1, <2>1, <2>2, <2>3 DEF BalanceInit, BalanceTypeOK, InWallet
<1>3. AtMost(wtx, own) /\ Exact /\ Fed /\ Named
  BY <1>1 DEF AtMost, Exact, Credits, Debits, Fed, Named
<1>4. DOMAIN mined = {} BY EmptySeq DEF BalanceInit
<1>5. KnowsFirst /\ KnowsChain /\ Numbered /\ Ordered
  BY <1>4 DEF BalanceInit, KnowsFirst, KnowsChain, OnChain, Numbered, Ordered
<1>. QED BY <1>2, <1>3, <1>5 DEF BInv

LEMMA BalanceStepKeeps == ASSUME BInv, [BalanceNext]_bvars PROVE BInv'
<1>1. CASE UNCHANGED bvars
  <2>1. wtx \in WalletsOK BY WalletIsOK DEF BInv
  <2>2. Touched(wtx, wtx', own) BY <1>1, <2>1, TouchNothing DEF bvars
  <2>. QED BY <1>1, <2>2, AskStep DEF bvars
<1>2. ASSUME NEW t \in Payments, ReceivePayment(t) PROVE BInv' BY <1>2, ReceivePaymentKeeps
<1>3. ASSUME NEW t \in Payments, CommitPayment(t) PROVE BInv' BY <1>3, CommitPaymentKeeps
<1>4. ASSUME NEW t \in Payments \union {Unset}, ConnectPayment(t) PROVE BInv'
  BY <1>4, ConnectPaymentKeeps
<1>5. ASSUME NEW t \in Payments, ListPayment(t) PROVE BInv' BY <1>5, ListPaymentKeeps
<1>6. CASE DisconnectPayment BY <1>6, DisconnectPaymentKeeps
<1>7. ASSUME NEW key \in ImportedKeys, ImportKey(key) PROVE BInv' BY <1>7, ImportKeyKeeps
<1>8. ASSUME NEW script \in AddedScripts, AddScript(script) PROVE BInv' BY <1>8, AddScriptKeeps
<1>9. CASE AskBalance BY <1>9, AskBalanceKeeps
<1>10. CASE AskUnconfirmed BY <1>10, AskUnconfirmedKeeps
<1>. QED BY <1>1, <1>2, <1>3, <1>4, <1>5, <1>6, <1>7, <1>8, <1>9, <1>10 DEF BalanceNext

\* What the invariant says of the caches.
LEMMA CachesStayFresh == ASSUME BInv PROVE CachesFresh
<1>1. ASSUME NEW t \in InWallet(wtx)
      PROVE  /\ CacheAtMost(wtx[t].debit, DebitOf(wtx, own, t))
             /\ CacheAtMost(wtx[t].credit, CreditOf(own, t))
             /\ CacheAtMost(wtx[t].avail, AvailableOf(wtx, own, t))
             /\ own \intersect AddedScripts = {} =>
                  /\ CacheIs(wtx[t].credit, CreditOf(own, t))
                  /\ CacheIs(wtx[t].avail, AvailableOf(wtx, own, t))
                  /\ own = FirstKeys \/ InChain(t) => CacheIs(wtx[t].debit, DebitOf(wtx, own, t))
  <2>1. t \in Payments /\ wtx[t] # Unset BY DEF InWallet
  <2>2. InChain(t) <=> OnChain(t) BY <2>1, ChainIs DEF BInv
  <2>3. /\ CacheAtMost(wtx[t].debit, DebitOf(wtx, own, t))
        /\ CacheAtMost(wtx[t].credit, CreditOf(own, t))
        /\ CacheAtMost(wtx[t].avail, AvailableOf(wtx, own, t)) BY <2>1 DEF BInv, AtMost
  <2>4. ASSUME own \intersect AddedScripts = {}
        PROVE  CacheIs(wtx[t].credit, CreditOf(own, t)) /\ CacheIs(wtx[t].avail, AvailableOf(wtx, own, t))
    BY <2>1, <2>4 DEF BInv, Exact, Credits
  <2>5. ASSUME own \intersect AddedScripts = {}, own = FirstKeys \/ OnChain(t)
        PROVE  CacheIs(wtx[t].debit, DebitOf(wtx, own, t))
    <3>1. Debits(wtx, own, {u \in Payments : own = FirstKeys \/ OnChain(u)}) BY <2>5 DEF BInv, Exact
    <3>. QED BY <2>1, <2>5, <3>1 DEF Debits
  <2>. QED BY <2>2, <2>3, <2>4, <2>5
<1>. QED BY <1>1 DEF CachesFresh

-----------------------------------------------------------------------------
(***************************************************************************)
(* The walks over what a transaction depends on.                           *)
(***************************************************************************)
\* A transaction whose number is that of a block of the chain is in the chain.
LEMMA DeepIsOnChain ==
    ASSUME BalanceTypeOK, NEW n, NEW u, Names(n, u), DepthOf(n) # 0
    PROVE  OnChain(u)
<1>1. /\ Len(mined) \in Nat /\ DOMAIN mined = 1 .. Len(mined) BY MinedIs
<1>2. BlockAt(n) # 0 BY DEF DepthOf
<1>3. {i \in 1 .. Len(mined) : mined[i].number = n} # {} BY <1>2, Zenon DEF BlockAt, SelectInSeq
<1>4. PICK i \in 1 .. Len(mined) : mined[i].number = n BY <1>3
<1>5. mined[i].tx = u BY <1>1, <1>4 DEF Names
<1>. QED BY <1>1, <1>4, <1>5 DEF OnChain

Depends(S) == {o[1] : o \in UNION {Ins[u] : u \in S}}
LEMMA DependsAre ==
    ASSUME NEW S \in SUBSET Payments
    PROVE  Depends(S) \in SUBSET Payments /\ \A u \in S : ParentsOf(u) \subseteq Depends(S)
<1>1. ASSUME NEW u \in S, NEW o \in Ins[u] PROVE o[1] \in Payments
  <2>1. u \in Payments OBVIOUS
  <2>. QED BY <2>1, OutPointsOf, OutPoint
<1>. QED BY <1>1 DEF Depends, ParentsOf

\* Whether IsConfirmed asks for the parents of u, on its walk for t.
AsksParents(w, t, u) == u = t \/ (u \in Copied(w, t) /\ DepthOf(Copy(w, t, u)[2]) = 0)

LEMMA VisitedIs ==
    ASSUME NEW w, NEW t \in Payments
    PROVE  \E seen :
              /\ seen[0] = {t}
              /\ \A i \in Nat : seen[i + 1] = seen[i] \union Depends({u \in seen[i] : AsksParents(w, t, u)})
              /\ Visited(w, t) = {u \in seen[Cardinality(Payments)] :
                                    u \notin Copied(w, t) \/ AsksParents(w, t, u)}
<1> DEFINE W == SUBSET Payments
           Next(X) == X \union Depends({u \in X : AsksParents(w, t, u)})
           G == [X \in W |-> Next(X)]
           Is(it) == it = [i \in Nat |-> IF i = 0 THEN {t} ELSE Next(it[i - 1])]
           seen == CHOOSE it : Is(it)
<1>1. Visited(w, t) = {u \in seen[Cardinality(Payments)] :
                         u \notin Copied(w, t) \/ AsksParents(w, t, u)}
  BY Zenon DEF Visited, AsksParents, Depends
<1>2. ASSUME NEW X \in W PROVE Next(X) \in W
  <2>1. {u \in X : AsksParents(w, t, u)} \in SUBSET Payments OBVIOUS
  <2>. QED BY <2>1, DependsAre
<1>3. {t} \in W OBVIOUS
<1>. HIDE DEF Next
<1>4. G \in [W -> W]
  <2>. HIDE DEF W
  <2>. QED BY <1>2
<1>5. \A X \in W : G[X] = Next(X) OBVIOUS
<1>. HIDE DEF G, W
<1>6. PICK g \in [Nat -> W] : Iterates(g, {t}, G) BY <1>3, <1>4, IterateExists
<1>7. Is(g)
  <2>1. ASSUME NEW i \in Nat PROVE g[i] = IF i = 0 THEN {t} ELSE Next(g[i - 1])
    <3>1. g[i] = IF i = 0 THEN {t} ELSE G[g[i - 1]] BY <1>6 DEF Iterates
    <3>2. i # 0 => g[i - 1] \in W BY <1>6
    <3>. QED BY <1>5, <3>1, <3>2
  <2>2. g = [i \in Nat |-> g[i]] BY <1>6
  <2>. QED BY <2>1, <2>2, Zenon
<1>8. Is(seen)
  <2>. HIDE DEF Is
  <2>. QED BY <1>7, Zenon
<1>. HIDE DEF seen
<1>9. seen[0] = {t} BY <1>8
<1>10. ASSUME NEW i \in Nat PROVE seen[i + 1] = Next(seen[i])
  <2>1. i + 1 \in Nat /\ i + 1 # 0 /\ (i + 1) - 1 = i OBVIOUS
  <2>. QED BY <1>8, <2>1
<1>. QED BY <1>1, <1>9, <1>10 DEF Next

LEMMA UnminedIs ==
    ASSUME NEW t \in Payments
    PROVE  \E seen :
              /\ seen[0] = {t}
              /\ \A i \in Nat : seen[i + 1] =
                    seen[i] \union {u \in UNION {ParentsOf(v) : v \in seen[i]} : ~InChain(u)}
              /\ Unmined(t) = seen[Cardinality(Payments)]
<1> DEFINE W == SUBSET Payments
           Next(X) == X \union {u \in UNION {ParentsOf(v) : v \in X} : ~InChain(u)}
           G == [X \in W |-> Next(X)]
           Is(it) == it = [i \in Nat |-> IF i = 0 THEN {t} ELSE Next(it[i - 1])]
           seen == CHOOSE it : Is(it)
<1>1. Unmined(t) = seen[Cardinality(Payments)] BY Zenon DEF Unmined
<1>2. ASSUME NEW X \in W PROVE Next(X) \in W
  <2>1. ASSUME NEW v \in X, NEW u \in ParentsOf(v) PROVE u \in Payments
    <3>1. ParentsOf(v) \subseteq Depends(X) /\ Depends(X) \in SUBSET Payments BY DependsAre
    <3>. QED BY <3>1
  <2>. QED BY <2>1
<1>3. {t} \in W OBVIOUS
<1>. HIDE DEF Next
<1>4. G \in [W -> W]
  <2>. HIDE DEF W
  <2>. QED BY <1>2
<1>5. \A X \in W : G[X] = Next(X) OBVIOUS
<1>. HIDE DEF G, W
<1>6. PICK g \in [Nat -> W] : Iterates(g, {t}, G) BY <1>3, <1>4, IterateExists
<1>7. Is(g)
  <2>1. ASSUME NEW i \in Nat PROVE g[i] = IF i = 0 THEN {t} ELSE Next(g[i - 1])
    <3>1. g[i] = IF i = 0 THEN {t} ELSE G[g[i - 1]] BY <1>6 DEF Iterates
    <3>2. i # 0 => g[i - 1] \in W BY <1>6
    <3>. QED BY <1>5, <3>1, <3>2
  <2>2. g = [i \in Nat |-> g[i]] BY <1>6
  <2>. QED BY <2>1, <2>2, Zenon
<1>8. Is(seen)
  <2>. HIDE DEF Is
  <2>. QED BY <1>7, Zenon
<1>. HIDE DEF seen
<1>9. seen[0] = {t} BY <1>8
<1>10. ASSUME NEW i \in Nat PROVE seen[i + 1] = Next(seen[i])
  <2>1. i + 1 \in Nat /\ i + 1 # 0 /\ (i + 1) - 1 = i OBVIOUS
  <2>. QED BY <1>8, <2>1
<1>. QED BY <1>1, <1>9, <1>10 DEF Next

\* The walk of IsConfirmed, where it says yes, has been to all that is not mined.
LEMMA TrustStaysEarned == ASSUME BInv PROVE TrustIsEarned
<1>1. SUFFICES ASSUME NEW t \in InWallet(wtx), IsConfirmed(wtx, t), ~InChain(t), NEW u \in Unmined(t)
               PROVE  DebitOf(wtx, own, u) > 0
  BY DEF TrustIsEarned
<1>2. BalanceTypeOK /\ Numbered /\ Named /\ t \in Payments /\ wtx[t] # Unset BY DEF BInv, InWallet
<1>3. ASSUME NEW n, NEW v \in Payments, Names(n, v), ~InChain(v) PROVE DepthOf(n) = 0
  BY <1>2, <1>3, DeepIsOnChain, ChainIs
<1>4. Depth(wtx, t) = 0
  <2>1. Names(wtx[t].hashBlock, t) BY <1>2 DEF Named
  <2>. QED BY <1>1, <1>2, <1>3, <2>1 DEF Depth
<1>5. \A v \in Visited(wtx, t) : v \in Copied(wtx, t) \union {t} /\ DebitOf(wtx, own, v) > 0
  BY <1>1, <1>4 DEF IsConfirmed
<1>6. PICK seen :
         /\ seen[0] = {t}
         /\ \A i \in Nat : seen[i + 1] = seen[i] \union Depends({v \in seen[i] : AsksParents(wtx, t, v)})
         /\ Visited(wtx, t) = {v \in seen[Cardinality(Payments)] :
                                 v \notin Copied(wtx, t) \/ AsksParents(wtx, t, v)}
  BY <1>2, VisitedIs
<1>7. PICK up :
         /\ up[0] = {t}
         /\ \A i \in Nat : up[i + 1] =
               up[i] \union {v \in UNION {ParentsOf(x) : x \in up[i]} : ~InChain(v)}
         /\ Unmined(t) = up[Cardinality(Payments)]
  BY <1>2, UnminedIs
<1> DEFINE n == Cardinality(Payments)
<1>8. n \in Nat BY BalanceAssumption, FS_CardinalityType
<1>9. ASSUME NEW v \in Payments, ~InChain(v), v \in Copied(wtx, t) PROVE AsksParents(wtx, t, v)
  <2>1. \E c \in wtx[t].vtxPrev : c[1] = v BY <1>9 DEF Copied
  <2>2. Copy(wtx, t, v) \in wtx[t].vtxPrev /\ Copy(wtx, t, v)[1] = v BY <2>1, Zenon DEF Copy
  <2>3. Names(Copy(wtx, t, v)[2], v) BY <1>2, <2>2 DEF Named
  <2>4. DepthOf(Copy(wtx, t, v)[2]) = 0 BY <1>3, <1>9, <2>3
  <2>. QED BY <1>9, <2>4 DEF AsksParents
<1>10. \A i \in Nat : seen[i] \subseteq seen[i + 1] BY <1>6
<1>. HIDE DEF n
<1>11. ASSUME NEW i \in 0 .. n PROVE seen[i] \subseteq seen[n]
  <2> DEFINE T == {j \in 0 .. n : j <= n - i => seen[i] \subseteq seen[i + j]}
  <2>1. 0 \in T BY <1>8
  <2>2. ASSUME NEW j \in 0 .. n - 1, j \in T PROVE j + 1 \in T
    <3>1. i + j \in Nat /\ i + (j + 1) = (i + j) + 1 /\ j + 1 \in 0 .. n /\ (j + 1 <= n - i => j <= n - i)
      BY <1>8
    <3>2. seen[i + j] \subseteq seen[(i + j) + 1] BY <1>10, <3>1
    <3>. QED BY <2>2, <3>1, <3>2
  <2>3. \A j \in 0 .. n : j \in T
    <3>. HIDE DEF T
    <3>. QED BY <1>8, <2>1, <2>2, UpTo
  <2>4. n - i \in 0 .. n /\ i + (n - i) = n BY <1>8
  <2>. QED BY <2>3, <2>4
<1>12. ASSUME NEW i \in 0 .. n, NEW v \in seen[i], v \in Payments, v = t \/ ~InChain(v)
       PROVE  AsksParents(wtx, t, v) /\ v \in Visited(wtx, t)
  <2>1. v \in seen[n] BY <1>11
  <2>2. CASE v = t BY <1>6, <2>1, <2>2 DEF AsksParents, n
  <2>3. CASE v # t
    <3>1. v \in Copied(wtx, t)
      <4>1. v \notin Copied(wtx, t) => v \in Visited(wtx, t) BY <1>6, <2>1 DEF n
      <4>. QED BY <1>5, <2>3, <4>1
    <3>2. AsksParents(wtx, t, v) BY <1>9, <1>12, <2>3, <3>1
    <3>. QED BY <1>6, <2>1, <3>2 DEF n
  <2>. QED BY <2>2, <2>3
<1>13. \A v \in up[n] : v \in Payments /\ (v = t \/ ~InChain(v)) /\ v \in seen[n]
  <2> DEFINE Fine(i) == \A v \in up[i] : v \in Payments /\ (v = t \/ ~InChain(v)) /\ v \in seen[i]
             T == {i \in 0 .. n : Fine(i)}
  <2>1. 0 \in T
    <3>1. Fine(0) BY <1>2, <1>6, <1>7
    <3>. QED BY <1>8, <3>1
  <2>2. ASSUME NEW i \in 0 .. n - 1, i \in T PROVE i + 1 \in T
    <3>0. i \in Nat /\ i \in 0 .. n /\ i + 1 \in 0 .. n BY <1>8
    <3>1. Fine(i) BY <2>2
    <3>2. ASSUME NEW v \in up[i + 1] PROVE v \in Payments /\ (v = t \/ ~InChain(v)) /\ v \in seen[i + 1]
      <4>1. CASE v \in up[i] BY <1>10, <3>0, <3>1, <4>1
      <4>2. CASE v \notin up[i]
        <5>1. ~InChain(v) /\ \E x \in up[i] : v \in ParentsOf(x) BY <1>7, <3>0, <3>2, <4>2
        <5>2. PICK x \in up[i] : v \in ParentsOf(x) BY <5>1
        <5>3. x \in Payments /\ (x = t \/ ~InChain(x)) /\ x \in seen[i] BY <3>1
        <5>4. AsksParents(wtx, t, x) BY <1>12, <3>0, <5>3
        <5>5. v \in Payments /\ v \in Depends({y \in seen[i] : AsksParents(wtx, t, y)})
          <6>1. PICK o \in Ins[x] : v = o[1] BY <5>2 DEF ParentsOf
          <6>2. v \in Payments BY <5>3, <6>1, OutPointsOf, OutPoint
          <6>3. x \in {y \in seen[i] : AsksParents(wtx, t, y)} BY <5>3, <5>4
          <6>. QED BY <6>1, <6>2, <6>3 DEF Depends
        <5>. QED BY <1>6, <3>0, <5>1, <5>5
      <4>. QED BY <4>1, <4>2
    <3>. QED BY <3>0, <3>2
  <2>3. \A i \in 0 .. n : i \in T
    <3>. HIDE DEF T
    <3>. QED BY <1>8, <2>1, <2>2, UpTo
  <2>4. n \in T BY <1>8, <2>3
  <2>. QED BY <2>4
<1>14. u \in Payments /\ (u = t \/ ~InChain(u)) /\ u \in seen[n] BY <1>7, <1>13 DEF n
<1>15. n \in 0 .. n BY <1>8
<1>16. u \in Visited(wtx, t) BY <1>12, <1>14, <1>15
<1>. QED BY <1>5, <1>16

\* The sums a wallet keeps are never more than adding up again would give, and
\* exact as far as CachesFresh says; and what is not in the chain counts as
\* confirmed only if the wallet made all that has to be mined first. Whatever the
\* transactions, amounts, keys and scripts are.
THEOREM BalancesStaySound == BalanceSpec => []BalanceSound
<1>1. BalanceInit => BInv BY BalanceInitHolds
<1>2. BInv /\ [BalanceNext]_bvars => BInv' BY BalanceStepKeeps
<1>3. BInv => BalanceSound BY CachesStayFresh, TrustStaysEarned DEF BInv, BalanceSound
<1>. QED BY <1>1, <1>2, <1>3, PTL DEF BalanceSpec
=============================================================================
