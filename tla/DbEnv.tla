------------------------------- MODULE DbEnv --------------------------------
(***************************************************************************)
(* The database environment of db.cpp: CDB objects of several threads      *)
(* share one handle per file (mapDb), which is closed when nobody counts   *)
(* as a user of the file (mapFileUseCount) - by the thread that flushes    *)
(* the wallet, by a backup, by Rewrite, and by Flush at shutdown, which    *)
(* closes the environment too. What is done under cs_db is one step; the   *)
(* increment of nWalletDBUpdated, the checkpoint of CDB::Close and the     *)
(* flags are not under it.                                                 *)
(*                                                                         *)
(* Berkeley DB is what a handle and a checkpoint mean for the others; the  *)
(* records themselves are the disk variables of the other modules.         *)
(***************************************************************************)
EXTENDS Naturals, FiniteSets, Functions

CONSTANTS
    Files, WalletFile,
    Users,       \* threads that make CDB objects, one at a time
    Loader,      \* the one that loads the wallet, before the others are started
    MaxOpens,    \* bound: CDB objects made by all of them
    MaxUpdates   \* bound: nWalletDBUpdated

ASSUME DbAssumption ==
    /\ IsFiniteSet(Users) /\ Loader \in Users
    /\ WalletFile \in Files
    /\ MaxOpens \in Nat /\ MaxUpdates \in Nat

VARIABLES
    fDbEnvInit,
    mapFileUseCount,
    mapDb,             \* the files with an open handle
    user,              \* of every thread, where it is, its file and what it read
    closedUnder,       \* history: threads whose handle was closed while they had it
    nWalletDBUpdated,
    nLastFlushed,
    flushing,          \* ThreadFlushWalletDB has read the counter for the first time
    owed,              \* history: an update since then that no checkpoint made durable
    shutdown,          \* where Shutdown is; fShutdown once it is begun
    opens

dvars == <<fDbEnvInit, mapFileUseCount, mapDb, user, closedUnder, nWalletDBUpdated,
           nLastFlushed, flushing, owed, shutdown, opens>>

Idle == [pc |-> "idle", file |-> WalletFile, seen |-> 0]
fShutdown == shutdown # "no"

UsersOf(f) == {u \in Users : user[u].pc # "idle" /\ user[u].file = f}
Holding(u) == user[u].pc \in {"open", "counting"}
Unused(f) == f \in DOMAIN mapFileUseCount => mapFileUseCount[f] = 0

WithCount(f, n) == [g \in DOMAIN mapFileUseCount \cup {f} |->
                    IF g = f THEN n ELSE mapFileUseCount[g]]
CountOf(f) == IF f \in DOMAIN mapFileUseCount THEN mapFileUseCount[f] ELSE 0

\* CloseDb and CheckpointLSN of the files, which are erased from the counts.
Detach(files) ==
    /\ mapDb' = mapDb \ files
    /\ mapFileUseCount' = Restrict(mapFileUseCount, DOMAIN mapFileUseCount \ files)
    /\ closedUnder' = closedUnder \cup {u \in Users : Holding(u) /\ user[u].file \in files}
    /\ owed' = (owed /\ WalletFile \notin files)

-----------------------------------------------------------------------------
(* CDB objects. *)

\* The first thing a CDB does is to open the environment, which fails once it
\* was closed by a shutdown; until the wallet is loaded there is one thread.
MayOpen(u) ==
    /\ user[u].pc = "idle" /\ opens < MaxOpens
    /\ fDbEnvInit \/ ~fShutdown
    /\ flushing \/ u = Loader

OpenDb(u, f) ==
    /\ MayOpen(u)
    /\ fDbEnvInit' = TRUE
    /\ mapFileUseCount' = WithCount(f, CountOf(f) + 1)
    /\ mapDb' = mapDb \cup {f}
    /\ user' = [user EXCEPT ![u] = [pc |-> "open", file |-> f, seen |-> 0]]
    /\ opens' = opens + 1
    /\ UNCHANGED <<closedUnder, nWalletDBUpdated, nLastFlushed, flushing, owed, shutdown>>

\* The file cannot be opened: the count is taken back, its entry stays.
OpenFails(u, f) ==
    /\ MayOpen(u) /\ f \notin mapDb
    /\ fDbEnvInit' = TRUE
    /\ mapFileUseCount' = WithCount(f, CountOf(f))
    /\ opens' = opens + 1
    /\ UNCHANGED <<mapDb, user, closedUnder, nWalletDBUpdated, nLastFlushed,
                   flushing, owed, shutdown>>

\* nWalletDBUpdated++ of the writing functions of CWalletDB, by any thread ...
StartCount(u) ==
    /\ user[u].pc = "open" /\ user[u].file = WalletFile
    /\ nWalletDBUpdated < MaxUpdates
    /\ user' = [user EXCEPT ![u].pc = "counting", ![u].seen = nWalletDBUpdated]
    /\ UNCHANGED <<fDbEnvInit, mapFileUseCount, mapDb, closedUnder, nWalletDBUpdated,
                   nLastFlushed, flushing, owed, shutdown, opens>>

\* ... is no atomic operation. The record is written next, by the same thread.
EndCount(u) ==
    /\ user[u].pc = "counting"
    /\ nWalletDBUpdated' = user[u].seen + 1
    /\ owed' = (owed \/ flushing)
    /\ user' = [user EXCEPT ![u].pc = "open"]
    /\ UNCHANGED <<fDbEnvInit, mapFileUseCount, mapDb, closedUnder, nLastFlushed,
                   flushing, shutdown, opens>>

\* Mutant: the use ends before the checkpoint.
StartCloseUncounted(u) ==
    /\ user[u].pc = "open"
    /\ mapFileUseCount' = WithCount(user[u].file, CountOf(user[u].file) - 1)
    /\ user' = [user EXCEPT ![u].pc = "closing"]
    /\ UNCHANGED <<fDbEnvInit, mapDb, closedUnder, nWalletDBUpdated, nLastFlushed,
                   flushing, owed, shutdown, opens>>

\* CDB::Close lets go of its handle and writes a checkpoint of the environment ...
StartClose(u) ==
    /\ user[u].pc = "open"
    /\ user' = [user EXCEPT ![u].pc = "closing"]
    /\ UNCHANGED <<fDbEnvInit, mapFileUseCount, mapDb, closedUnder, nWalletDBUpdated,
                   nLastFlushed, flushing, owed, shutdown, opens>>

\* ... before it gives up its use of the file.
FinishClose(u) ==
    /\ user[u].pc = "closing"
    /\ mapFileUseCount' = WithCount(user[u].file, CountOf(user[u].file) - 1)
    /\ user' = [user EXCEPT ![u] = Idle]
    /\ UNCHANGED <<fDbEnvInit, mapDb, closedUnder, nWalletDBUpdated, nLastFlushed,
                   flushing, owed, shutdown, opens>>

-----------------------------------------------------------------------------
(* Those who close handles. *)

FlushThreadStarts ==
    /\ ~flushing /\ ~fShutdown
    /\ flushing' = TRUE
    /\ nLastFlushed' = nWalletDBUpdated
    /\ UNCHANGED <<fDbEnvInit, mapFileUseCount, mapDb, user, closedUnder,
                   nWalletDBUpdated, owed, shutdown, opens>>

\* Mutant: the counter is noted whether or not the wallet is in the map.
FlushWalletEarly ==
    /\ flushing /\ ~fShutdown
    /\ nLastFlushed # nWalletDBUpdated
    /\ nLastFlushed' = nWalletDBUpdated
    /\ IF \A f \in DOMAIN mapFileUseCount : mapFileUseCount[f] = 0
       THEN Detach({WalletFile})
       ELSE UNCHANGED <<mapFileUseCount, mapDb, closedUnder, owed>>
    /\ UNCHANGED <<fDbEnvInit, user, nWalletDBUpdated, flushing, shutdown, opens>>

\* A turn of ThreadFlushWalletDB after two seconds without an update, while no
\* database at all is in use.
FlushWallet ==
    /\ flushing /\ ~fShutdown
    /\ nLastFlushed # nWalletDBUpdated
    /\ \A f \in DOMAIN mapFileUseCount : mapFileUseCount[f] = 0
    /\ WalletFile \in DOMAIN mapFileUseCount
    /\ nLastFlushed' = nWalletDBUpdated
    /\ Detach({WalletFile})
    /\ UNCHANGED <<fDbEnvInit, user, nWalletDBUpdated, flushing, shutdown, opens>>

\* Mutant: a backup does not look whether the file is in use.
BackupAnyway ==
    /\ flushing /\ ~fShutdown
    /\ Detach({WalletFile})
    /\ UNCHANGED <<fDbEnvInit, user, nWalletDBUpdated, nLastFlushed, flushing, shutdown, opens>>

\* BackupWallet, and the first part of Rewrite, wait until the file is unused.
\* fShutdown is read before the lock is taken: a thread that is stopped in
\* between for all the time StopNode waits is left out.
BackupWallet ==
    /\ flushing /\ ~fShutdown
    /\ Unused(WalletFile)
    /\ Detach({WalletFile})
    /\ UNCHANGED <<fDbEnvInit, user, nWalletDBUpdated, nLastFlushed, flushing, shutdown, opens>>

\* Rewrite, which has a CDB of its own while it copies the records. With the
\* copy complete its handle is closed before the files change places, with an
\* error it stays; either way the entry of the file is left, at zero.
Rewrite(succeeds) ==
    /\ ~fShutdown /\ Unused(WalletFile)
    /\ mapDb' = IF succeeds THEN mapDb \ {WalletFile} ELSE mapDb \cup {WalletFile}
    /\ mapFileUseCount' = WithCount(WalletFile, 0)
    /\ closedUnder' = closedUnder \cup {u \in UsersOf(WalletFile) : Holding(u)}
    /\ owed' = FALSE
    /\ UNCHANGED <<fDbEnvInit, user, nWalletDBUpdated, nLastFlushed, flushing, shutdown, opens>>

\* CDBEnv::Flush: the files nobody uses.
FlushUnused == Detach({f \in DOMAIN mapFileUseCount : mapFileUseCount[f] = 0})

\* Shutdown sets the flag and flushes, with all threads running; ...
BeginShutdown ==
    /\ shutdown = "no" /\ flushing
    /\ shutdown' = "begun"
    /\ UNCHANGED <<fDbEnvInit, mapFileUseCount, mapDb, user, closedUnder,
                   nWalletDBUpdated, nLastFlushed, flushing, owed, opens>>

FirstFlush ==
    /\ shutdown = "begun"
    /\ FlushUnused
    /\ shutdown' = "flushed"
    /\ UNCHANGED <<fDbEnvInit, user, nWalletDBUpdated, nLastFlushed, flushing, opens>>

\* ... when StopNode has returned, with those that did not end in time, it
\* flushes again, and closes the environment if no file is in use.
LastFlush ==
    /\ shutdown = "flushed"
    /\ FlushUnused
    /\ fDbEnvInit' = (DOMAIN mapFileUseCount' # {})
    /\ shutdown' = "done"
    /\ UNCHANGED <<user, nWalletDBUpdated, nLastFlushed, flushing, opens>>

-----------------------------------------------------------------------------
DbInit ==
    /\ fDbEnvInit = TRUE     \* opened by AppInit2 before anything else
    /\ mapFileUseCount = [f \in {} |-> 0]
    /\ mapDb = {}
    /\ user = [u \in Users |-> Idle]
    /\ closedUnder = {}
    /\ nWalletDBUpdated = 0 /\ nLastFlushed = 0
    /\ flushing = FALSE /\ owed = FALSE
    /\ shutdown = "no"
    /\ opens = 0

UserStep(u) == StartCount(u) \/ EndCount(u) \/ StartClose(u) \/ FinishClose(u)

ShutdownStep == FirstFlush \/ LastFlush

DbNext ==
    \/ \E u \in Users : UserStep(u) \/ \E f \in Files : OpenDb(u, f) \/ OpenFails(u, f)
    \/ FlushThreadStarts \/ FlushWallet \/ BackupWallet
    \/ \E succeeds \in BOOLEAN : Rewrite(succeeds)
    \/ BeginShutdown \/ ShutdownStep

\* A CDB object is closed after finitely many writes, the thread that flushes
\* looks again and again, and Shutdown goes on.
Finishes(u) == EndCount(u) \/ StartClose(u) \/ FinishClose(u)

DbSpec ==
    /\ DbInit /\ [][DbNext]_dvars
    /\ \A u \in Users : WF_dvars(Finishes(u))
    /\ WF_dvars(FlushWallet) /\ WF_dvars(ShutdownStep)

-----------------------------------------------------------------------------
(* Properties. *)

\* Type invariant.
DbTypeOK ==
    /\ fDbEnvInit \in BOOLEAN /\ flushing \in BOOLEAN /\ owed \in BOOLEAN
    /\ DOMAIN mapFileUseCount \subseteq Files
    /\ \A f \in DOMAIN mapFileUseCount : mapFileUseCount[f] \in Nat
    /\ mapDb \subseteq Files
    /\ user \in [Users -> [pc : {"idle", "open", "counting", "closing"},
                           file : Files, seen : Nat]]
    /\ closedUnder \subseteq Users
    /\ nWalletDBUpdated \in Nat /\ nLastFlushed \in Nat /\ opens \in Nat
    /\ shutdown \in {"no", "begun", "flushed", "done"}

\* The count of a file is the number of CDB objects on it, whoever erased its
\* entry in between.
CountsAgree == \A f \in Files : CountOf(f) = Cardinality(UsersOf(f))

\* Nobody closes a handle, or the environment, under a CDB that has it, and the
\* environment is not closed before its handles.
HandlesLive ==
    /\ closedUnder = {}
    /\ \A u \in Users : Holding(u) => user[u].file \in mapDb
    /\ \A u \in Users : user[u].pc # "idle" => fDbEnvInit
    /\ mapDb # {} => fDbEnvInit

\* While an update is not in the file, the flushing thread can tell, and finds
\* the wallet in the map, although the threads count their updates without a
\* lock and others erase the wallet from the map.
FlushNotMissed ==
    owed => /\ nLastFlushed < nWalletDBUpdated
            /\ WalletFile \in DOMAIN mapFileUseCount

\* A shutdown leaves an update behind only if somebody used the wallet at the end.
ShutdownFlushes ==
    shutdown = "done" /\ owed => fDbEnvInit

\* The environment is sound for whoever uses it, and no update is forgotten.
DatabaseSound == CountsAgree /\ HandlesLive /\ FlushNotMissed /\ ShutdownFlushes

\* An update of the wallet reaches the file, unless a shutdown comes first.
WalletIsFlushed == owed ~> (~owed \/ fShutdown)
=============================================================================
