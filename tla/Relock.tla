------------------------------- MODULE Relock -------------------------------
(***************************************************************************)
(* How a wallet that walletpassphrase unlocked is locked again             *)
(* (rpcwallet.cpp). Every call starts a thread, ThreadCleanWalletPassphrase, *)
(* that sleeps and locks the wallet; the threads of several calls share    *)
(* nWalletUnlockTime under cs_nWalletUnlockTime. The commands themselves   *)
(* are executed one at a time, with cs_main and cs_wallet held; a thread   *)
(* starts, computes and wakes whenever the system lets it.                 *)
(***************************************************************************)
EXTENDS Integers

CONSTANTS
    Calls,     \* bound: the calls of walletpassphrase, and their threads
    Periods,   \* the timeouts asked for, times a thousand as an int64 has it
    Horizon,   \* bound: walletpassphrase is called, and its thread computes, until then
    EndOfTime, \* bound: the clock stops
    None

ASSUME RelockAssumption ==
    /\ None \notin Calls
    /\ Periods \subseteq Int
    /\ Horizon \in Nat \ {0} /\ EndOfTime \in Nat
    \* Milliseconds since 1970: no time of waking is zero.
    /\ \A p \in Periods : \A t \in 1 .. Horizon : t + p # 0

VARIABLES
    now,
    locked,              \* vMasterKey is empty
    fWalletUnlockMintOnly,
    nWalletUnlockTime,
    timer,               \* of every call, where its thread is and what it knows
    calling,             \* the call that walletpassphrase is executing, or None
    session,             \* history: the call that unlocked the wallet last, None
                         \* if it ended with an error before it started a thread
    mintOnly             \* history: what it asked for, if that could be read

rvars == <<now, locked, fWalletUnlockMintOnly, nWalletUnlockTime, timer, calling, session, mintOnly>>

Unborn == [pc |-> "unborn", wake |-> 0, until |-> 0]
Pc(t) == timer[t].pc

\* CCryptoKeyStore::Lock.
Lock == locked' = TRUE /\ fWalletUnlockMintOnly' = FALSE

-----------------------------------------------------------------------------
(***************************************************************************)
(* The commands.                                                           *)
(***************************************************************************)

\* walletpassphrase insists on a locked wallet, and unlocks it before anything else.
Unlock(t, mint) ==
    /\ calling = None /\ Pc(t) = "unborn" /\ now <= Horizon
    /\ locked
    /\ locked' = FALSE
    /\ calling' = t /\ session' = t /\ mintOnly' = mint
    /\ UNCHANGED <<now, fWalletUnlockMintOnly, nWalletUnlockTime, timer>>

\* NewThread(ThreadCleanWalletPassphrase, pnSleepTime).
StartThread(p) ==
    /\ calling # None /\ Pc(calling) = "unborn"
    /\ timer' = [timer EXCEPT ![calling] = [pc |-> "born", wake |-> p, until |-> 0]]
    /\ UNCHANGED <<now, locked, fWalletUnlockMintOnly, nWalletUnlockTime, calling, session, mintOnly>>

\* A timeout that is no number is noticed only now: the wallet stays unlocked.
BadTimeout ==
    /\ calling # None /\ Pc(calling) = "unborn"
    /\ calling' = None /\ session' = None
    /\ UNCHANGED <<now, locked, fWalletUnlockMintOnly, nWalletUnlockTime, timer, mintOnly>>

\* A third parameter that is no truth value, after the thread was started.
BadMintOnly ==
    /\ calling # None /\ Pc(calling) # "unborn"
    /\ calling' = None /\ mintOnly' = fWalletUnlockMintOnly
    /\ UNCHANGED <<now, locked, fWalletUnlockMintOnly, nWalletUnlockTime, timer, session>>

\* Mutant: the flag is only ever set.
ReturnKeepingFlag ==
    /\ calling # None /\ Pc(calling) # "unborn"
    /\ fWalletUnlockMintOnly' = (fWalletUnlockMintOnly \/ mintOnly)
    /\ calling' = None
    /\ UNCHANGED <<now, locked, nWalletUnlockTime, timer, session, mintOnly>>

\* The flag is set last.
Return ==
    /\ calling # None /\ Pc(calling) # "unborn"
    /\ fWalletUnlockMintOnly' = mintOnly
    /\ calling' = None
    /\ UNCHANGED <<now, locked, nWalletUnlockTime, timer, session, mintOnly>>

walletlock ==
    /\ calling = None
    /\ Lock
    /\ nWalletUnlockTime' = 0
    /\ UNCHANGED <<now, timer, calling, session, mintOnly>>

-----------------------------------------------------------------------------
(***************************************************************************)
(* ThreadCleanWalletPassphrase.                                            *)
(***************************************************************************)

\* nMyWakeTime, before the critical section.
ComputeWake(t) ==
    /\ Pc(t) = "born" /\ now <= Horizon
    /\ timer' = [timer EXCEPT ![t].pc = "ready", ![t].wake = now + @]
    /\ UNCHANGED <<now, locked, fWalletUnlockMintOnly, nWalletUnlockTime, calling, session, mintOnly>>

\* Mutant: the time is left set when the wallet is locked.
LoopKeepingTime(t, u) ==
    IF u = 0
    THEN /\ timer' = [timer EXCEPT ![t].pc = "ended"]
         /\ nWalletUnlockTime' = 0
         /\ UNCHANGED <<locked, fWalletUnlockMintOnly>>
    ELSE IF u <= now
    THEN /\ timer' = [timer EXCEPT ![t].pc = "ended"]
         /\ nWalletUnlockTime' = u
         /\ Lock
    ELSE /\ timer' = [timer EXCEPT ![t].pc = "asleep", ![t].until = u]
         /\ nWalletUnlockTime' = u
         /\ UNCHANGED <<locked, fWalletUnlockMintOnly>>

\* The critical section from one MilliSleep to the next, with nWalletUnlockTime
\* at u and the lock at hand: the loop ends at zero, locks when it is time, or
\* sleeps.
Loop(t, u) ==
    IF u = 0
    THEN /\ timer' = [timer EXCEPT ![t].pc = "ended"]
         /\ nWalletUnlockTime' = 0
         /\ UNCHANGED <<locked, fWalletUnlockMintOnly>>
    ELSE IF u <= now
    THEN /\ timer' = [timer EXCEPT ![t].pc = "ended"]
         /\ nWalletUnlockTime' = 0
         /\ Lock
    ELSE /\ timer' = [timer EXCEPT ![t].pc = "asleep", ![t].until = u]
         /\ nWalletUnlockTime' = u
         /\ UNCHANGED <<locked, fWalletUnlockMintOnly>>

\* Mutant: a thread that finds a time set leaves it.
PostponeNever(t) ==
    /\ timer' = [timer EXCEPT ![t].pc = "ended"]
    /\ UNCHANGED <<nWalletUnlockTime, locked, fWalletUnlockMintOnly>>

\* Another thread is waiting: it is made to wait longer.
Postpone(t) ==
    /\ timer' = [timer EXCEPT ![t].pc = "ended"]
    /\ nWalletUnlockTime' =
          IF nWalletUnlockTime < timer[t].wake THEN timer[t].wake ELSE nWalletUnlockTime
    /\ UNCHANGED <<locked, fWalletUnlockMintOnly>>

Enter(t) ==
    /\ Pc(t) = "ready"
    /\ IF nWalletUnlockTime = 0 THEN Loop(t, timer[t].wake) ELSE Postpone(t)
    /\ UNCHANGED <<now, calling, session, mintOnly>>

Wake(t) ==
    /\ Pc(t) = "asleep" /\ timer[t].until <= now
    /\ Loop(t, nWalletUnlockTime)
    /\ UNCHANGED <<now, calling, session, mintOnly>>

ThreadStep(t) == ComputeWake(t) \/ Enter(t) \/ Wake(t)

\* The horizon is not passed before every thread that was started knows its time.
Tick ==
    /\ now < EndOfTime
    /\ now = Horizon => calling = None /\ \A t \in Calls : Pc(t) # "born"
    /\ now' = now + 1
    /\ UNCHANGED <<locked, fWalletUnlockMintOnly, nWalletUnlockTime, timer, calling, session, mintOnly>>

-----------------------------------------------------------------------------
RelockInit ==
    /\ now = 1
    /\ locked = TRUE /\ fWalletUnlockMintOnly = FALSE
    /\ nWalletUnlockTime = 0
    /\ timer = [t \in Calls |-> Unborn]
    /\ calling = None /\ session = None /\ mintOnly = FALSE

walletpassphrase ==
    \/ \E t \in Calls, mint \in BOOLEAN : Unlock(t, mint)
    \/ \E p \in Periods : StartThread(p)
    \/ Return \/ BadTimeout \/ BadMintOnly

RelockNext ==
    \/ walletpassphrase
    \/ walletlock
    \/ \E t \in Calls : ThreadStep(t)
    \/ Tick

Returns == Return \/ BadTimeout \/ BadMintOnly \/ \E p \in Periods : StartThread(p)

\* A command that is executed returns, threads that can go on do, time passes.
RelockFairness ==
    /\ WF_rvars(Returns)
    /\ \A t \in Calls : WF_rvars(ThreadStep(t))
    /\ WF_rvars(Tick)

RelockSpec == RelockInit /\ [][RelockNext]_rvars /\ RelockFairness

-----------------------------------------------------------------------------
(***************************************************************************)
(* Properties.                                                             *)
(***************************************************************************)
TimerStates == {"unborn", "born", "ready", "asleep", "ended"}
RelockTypeOK ==
    /\ now \in Nat \ {0}
    /\ locked \in BOOLEAN /\ fWalletUnlockMintOnly \in BOOLEAN /\ mintOnly \in BOOLEAN
    /\ nWalletUnlockTime \in Int
    /\ timer \in [Calls -> [pc : TimerStates, wake : Int, until : Int]]
    /\ calling \in Calls \union {None} /\ session \in Calls \union {None}

\* The thread of the session has yet to enter its critical section.
Starting ==
    \/ calling = session /\ Pc(session) = "unborn"
    \/ Pc(session) \in {"born", "ready"}

\* An unlocked wallet has a thread that will lock it again, and not before the
\* time of the walletpassphrase that unlocked it: the thread is about to start,
\* or one is asleep and the common time is no earlier
\* (ThreadCleanWalletPassphrase, walletlock).
UnlockedIsTimed ==
    (~locked /\ session # None) =>
        \/ Starting
        \/ /\ nWalletUnlockTime # 0 /\ timer[session].wake <= nWalletUnlockTime
           /\ \E t \in Calls : Pc(t) = "asleep" /\ timer[t].until <= nWalletUnlockTime

\* A wallet that was unlocked for minting only is not taken for one that is
\* unlocked, and the other way round (EnsureWalletIsUnlocked).
MintOnlyIsKept == (~locked /\ calling = None /\ session # None) => fWalletUnlockMintOnly = mintOnly

RelockSound == RelockTypeOK /\ UnlockedIsTimed /\ MintOnlyIsKept

\* An unlocked wallet is locked in the end, however calls and threads interleave,
\* unless the call that unlocked it ended without starting its thread.
WalletIsRelocked == ~locked ~> (locked \/ session = None)
=============================================================================
