------------------------------ MODULE WalletKeys ------------------------------
(***************************************************************************)
(* The keys of a wallet: the key store with or without encryption, the key *)
(* pool, and their records in wallet.dat, with crashes, failing writes and *)
(* the rewriting of the file at the end of an encryption.                  *)
(*                                                                         *)
(* A key is the number under which it was generated.  All operations but   *)
(* those of the miner hold cs_wallet from begin to end: a payment reserves *)
(* and keeps (or returns) its key of change in one action, a miner thread  *)
(* holds the key of its block between two.                                 *)
(***************************************************************************)
EXTENDS Integers, FiniteSets

CONSTANTS
    Miners,        \* the threads that call CreateNewBlock
    Phrases,       \* passphrases
    nKeyPool,      \* -keypool
    MaxKeys,       \* bound: keys generated in a behaviour
    MaxMasters,    \* bound: calls of EncryptWallet that get as far as a master key
    MaxCrashes,    \* bound
    Nil

ASSUME KeysAssumption ==
    /\ nKeyPool \in Nat \ {0} /\ MaxKeys \in Nat /\ MaxMasters \in Nat /\ MaxCrashes \in Nat
    /\ nKeyPool + 2 <= MaxKeys
    /\ Nil \notin Phrases
    /\ 0 \notin Miners

Keys == 1 .. MaxKeys
Masters == 1 .. MaxMasters

VARIABLES
    mapKeys,        \* the keys held in the clear
    mapCryptedKeys, \* of each key the master key it is encrypted with, 0 where absent
    fUseCrypto,
    vMasterKey,     \* the master key in memory, 0 while locked
    mapMasterKeys,  \* of each master key the passphrase that opens it, or Nil
    setKeyPool,     \* indexes
    vchDefaultKey,
    reserved,       \* of each miner its reserve key: the index, or 0
    candidate,      \* of each miner the key its block pays, or 0
    pc,             \* "idle", "down", or how far EncryptWallet has come
    file,           \* wallet.dat, Nil while there is none
    rewritten,      \* wallet.dat.rewrite, or Nil
    residue,        \* pages of wallet.dat still hold private keys in the clear
    leaked,         \* a CWalletDB was opened and never closed
    nKeys,          \* keys generated so far
    crashes,
    used,           \* history: how often a key was handed out
    mined,          \* history: keys that a block found by this node pays
    phrase,         \* history: the passphrase of the user, or Nil
    lastPlain,      \* history: the last key made before the encryption
    overtaken,      \* history: indexes issued again while a miner held them, since the start
    spared,         \* history: keys of the old pool the flush did not reach
    cutShort        \* history: the process died before the old file was gone

store == <<mapKeys, mapCryptedKeys, fUseCrypto>>
disk == <<file, rewritten, residue>>
mining == <<reserved, candidate, mined>>
history == <<used, phrase, lastPlain, overtaken, spared, cutShort>>
kvars == <<store, vMasterKey, mapMasterKeys, setKeyPool, vchDefaultKey, mining, pc, disk,
           leaked, nKeys, crashes, history>>

\* The records of wallet.dat that have to do with keys.
WalletFile == [key : SUBSET Keys, ckey : [Keys -> Masters \union {0}],
               mkey : [Masters -> Phrases \union {Nil}], pool : [Keys -> Keys \union {0}],
               defaultkey : Keys \union {0}]
ASSUME FileAssumption == Nil \notin WalletFile

-----------------------------------------------------------------------------
IsLocked == fUseCrypto /\ vMasterKey = 0
HaveKey(k) == IF fUseCrypto THEN mapCryptedKeys[k] # 0 ELSE k \in mapKeys
Least(S) == CHOOSE i \in S : \A j \in S : i <= j
Last(S) == IF S = {} THEN 0 ELSE CHOOSE i \in S : \A j \in S : j <= i
Outstanding == {reserved[m] : m \in Miners} \ {0}

\* Mutant: the encrypted key is not written.
AddKeysInMemory(ks) == file

\* What wallet.dat is after WriteKey or WriteCryptedKey of the keys ks.
AddKeys(ks) ==
    IF fUseCrypto
    THEN [file EXCEPT !.ckey = [k \in Keys |-> IF k \in ks THEN vMasterKey ELSE @[k]]]
    ELSE [file EXCEPT !.key = @ \union ks]

\* Mutant: new keys are held in the clear although the wallet is encrypted.
GeneratePlainKeys(m) ==
    /\ nKeys + m <= MaxKeys
    /\ nKeys' = nKeys + m
    /\ mapKeys' = mapKeys \union (nKeys + 1 .. nKeys + m)
    /\ UNCHANGED <<mapCryptedKeys, fUseCrypto>>

\* GenerateNewKey m times.
GenerateKeys(m) ==
    /\ nKeys + m <= MaxKeys
    /\ nKeys' = nKeys + m
    /\ IF fUseCrypto
       THEN /\ mapCryptedKeys' = [k \in Keys |-> IF k \in nKeys + 1 .. nKeys + m
                                                 THEN vMasterKey ELSE mapCryptedKeys[k]]
            /\ UNCHANGED mapKeys
       ELSE /\ mapKeys' = mapKeys \union (nKeys + 1 .. nKeys + m)
            /\ UNCHANGED mapCryptedKeys
    /\ UNCHANGED fUseCrypto

\* How many keys TopUpKeyPool makes, and the indexes it gives them.
Missing ==
    IF IsLocked \/ Cardinality(setKeyPool) > nKeyPool THEN 0
    ELSE nKeyPool + 1 - Cardinality(setKeyPool)

FirstNew == Last(setKeyPool) + 1

\* Mutant: the records of the pool are not written.
FileWithKeysOnly(m) == AddKeys(nKeys + 1 .. nKeys + m)

\* TopUpKeyPool, or only the first m rounds of its loop.
PoolAfter(m) == setKeyPool \union (FirstNew .. FirstNew + m - 1)
FileAfter(m) ==
    [AddKeys(nKeys + 1 .. nKeys + m) EXCEPT
        !.pool = [i \in Keys |-> IF i \in FirstNew .. FirstNew + m - 1
                                 THEN nKeys + 1 + i - FirstNew ELSE @[i]]]
TopUp(m) ==
    /\ FirstNew + m - 1 <= MaxKeys
    /\ GenerateKeys(m)
    /\ overtaken' = overtaken \union ((FirstNew .. FirstNew + m - 1) \intersect Outstanding)

\* Mutant: a key is handed out and its record kept.
WithoutRecordKept(f, i) == f

\* ErasePool.
WithoutRecord(f, i) == [f EXCEPT !.pool[i] = 0]

Awake == pc = "idle" /\ file # Nil

-----------------------------------------------------------------------------
(***************************************************************************)
(* The key pool.                                                           *)
(***************************************************************************)

\* ReserveKeyFromKeyPool tops up, takes the index i and reads its record.
Reserve(i) ==
    /\ TopUp(Missing)
    /\ PoolAfter(Missing) # {}
    /\ i = Least(PoolAfter(Missing))

\* GetKeyFromPool, and a payment that keeps its key of change.
GetKeyFromPool ==
    /\ Awake
    /\ \E i \in Keys :
          /\ Reserve(i)
          /\ FileAfter(Missing).pool[i] # 0
          /\ file' = WithoutRecord(FileAfter(Missing), i)
          /\ setKeyPool' = PoolAfter(Missing) \ {i}
          /\ used' = [used EXCEPT ![FileAfter(Missing).pool[i]] = @ + 1]
    /\ UNCHANGED <<vMasterKey, mapMasterKeys, vchDefaultKey, mining, pc, rewritten, residue,
                   leaked, crashes, phrase, lastPlain, spared, cutShort>>

\* The record is missing: an exception.  GetKeyFromPool loses the index, the
\* reserve key of a payment puts it back.
ReadFails ==
    /\ Awake
    /\ \E i \in Keys :
          /\ Reserve(i)
          /\ FileAfter(Missing).pool[i] = 0
          /\ \/ setKeyPool' = PoolAfter(Missing) \ {i}
             \/ setKeyPool' = PoolAfter(Missing)
    /\ file' = FileAfter(Missing)
    /\ UNCHANGED <<vMasterKey, mapMasterKeys, vchDefaultKey, mining, pc, rewritten, residue,
                   leaked, crashes, used, phrase, lastPlain, spared, cutShort>>

\* TopUpKeyPool; a payment that fails does no more either.  If the wallet is
\* locked meanwhile (CCryptoKeyStore::Lock does not take cs_wallet), it stops
\* with an exception after m keys.
TopUpKeyPool ==
    /\ Awake
    /\ ~IsLocked
    /\ \E m \in 0 .. Missing :
          /\ TopUp(m)
          /\ setKeyPool' = PoolAfter(m)
          /\ file' = FileAfter(m)
          /\ IF m = Missing THEN UNCHANGED vMasterKey ELSE fUseCrypto /\ vMasterKey' = 0
    /\ UNCHANGED <<mapMasterKeys, vchDefaultKey, mining, pc, rewritten, residue, leaked,
                   crashes, used, phrase, lastPlain, spared, cutShort>>

\* The process dies after a key was written and before its record in the pool.
CrashInTopUp ==
    /\ Awake
    /\ crashes < MaxCrashes
    /\ Missing > 0 /\ nKeys < MaxKeys
    /\ file' = AddKeys({nKeys + 1})
    /\ nKeys' = nKeys + 1
    /\ crashes' = crashes + 1
    /\ pc' = "down"
    /\ UNCHANGED <<store, vMasterKey, mapMasterKeys, setKeyPool, vchDefaultKey, mining,
                   rewritten, residue, leaked, history>>

\* CreateNewBlock takes a key for the coinbase, or the default key ...
CreateNewBlock(m) ==
    /\ Awake
    /\ reserved[m] = 0
    /\ \/ \E i \in Keys :
             /\ Reserve(i)
             /\ FileAfter(Missing).pool[i] # 0
             /\ setKeyPool' = PoolAfter(Missing) \ {i}
             /\ reserved' = [reserved EXCEPT ![m] = i]
             /\ candidate' = [candidate EXCEPT ![m] = FileAfter(Missing).pool[i]]
       \/ /\ TopUp(Missing)
          /\ PoolAfter(Missing) = {}
          /\ candidate' = [candidate EXCEPT ![m] = vchDefaultKey]
          /\ UNCHANGED <<setKeyPool, reserved>>
    /\ file' = FileAfter(Missing)
    /\ UNCHANGED <<vMasterKey, mapMasterKeys, vchDefaultKey, mined, pc, rewritten, residue,
                   leaked, crashes, used, phrase, lastPlain, spared, cutShort>>

\* ... and returns it before its caller looks for a solution.
ReturnKey(m) ==
    /\ Awake
    /\ reserved[m] # 0
    /\ setKeyPool' = setKeyPool \union {reserved[m]}
    /\ reserved' = [reserved EXCEPT ![m] = 0]
    /\ UNCHANGED <<store, vMasterKey, mapMasterKeys, vchDefaultKey, candidate, mined, pc, disk,
                   leaked, nKeys, crashes, history>>

\* CheckWork: the reserve key it is given never reserved anything, so KeepKey
\* does nothing.
CheckWork(m) ==
    /\ Awake
    /\ reserved[m] = 0 /\ candidate[m] # 0
    /\ mined' = mined \union {candidate[m]}
    /\ candidate' = [candidate EXCEPT ![m] = 0]
    /\ UNCHANGED <<store, vMasterKey, mapMasterKeys, setKeyPool, vchDefaultKey, reserved, pc,
                   disk, leaked, nKeys, crashes, history>>

-----------------------------------------------------------------------------
(***************************************************************************)
(* Locking and encryption.                                                 *)
(***************************************************************************)

\* walletlock, or the thread that walletpassphrase has started.
Lock ==
    /\ Awake
    /\ fUseCrypto /\ vMasterKey # 0
    /\ vMasterKey' = 0
    /\ UNCHANGED <<store, mapMasterKeys, setKeyPool, vchDefaultKey, mining, pc, disk, leaked,
                   nKeys, crashes, history>>

\* The loop over mapMasterKeys: a master key the passphrase does not open ends
\* it, one that opens but does not decrypt the first key is passed over.
Opens(p, id) ==
    /\ mapMasterKeys[id] = p
    /\ \A j \in Masters : j < id => mapMasterKeys[j] \in {p, Nil}
    /\ LET crypted == {k \in Keys : mapCryptedKeys[k] # 0}
       IN  crypted # {} => mapCryptedKeys[Least(crypted)] = id

Unlock(p) ==
    /\ Awake
    /\ IsLocked
    /\ \E id \in Masters : Opens(p, id) /\ vMasterKey' = id
    /\ UNCHANGED <<store, mapMasterKeys, setKeyPool, vchDefaultKey, mining, pc, disk, leaked,
                   nKeys, crashes, history>>

\* Mutant: the new passphrase is not written.
ChangedInMemory(id, p) == file

\* WriteMasterKey.
Changed(id, p) == [file EXCEPT !.mkey[id] = p]

\* ChangeWalletPassphrase locks the wallet first and, if it was locked, again
\* at the end; with a wrong passphrase it stays locked.
ChangeWalletPassphrase(old, new) ==
    /\ Awake
    /\ fUseCrypto
    /\ \/ \E id \in Masters :
             /\ Opens(old, id)
             /\ mapMasterKeys' = [mapMasterKeys EXCEPT ![id] = new]
             /\ file' = Changed(id, new)
             /\ vMasterKey' = IF IsLocked THEN 0 ELSE id
             /\ phrase' = new
       \/ /\ \A id \in Masters : ~Opens(old, id)
          /\ vMasterKey' = 0
          /\ UNCHANGED <<mapMasterKeys, file, phrase>>
    /\ UNCHANGED <<store, setKeyPool, vchDefaultKey, mining, pc, rewritten, residue, leaked,
                   nKeys, crashes, used, lastPlain, overtaken, spared, cutShort>>

NewMaster == Cardinality({id \in Masters : mapMasterKeys[id] # Nil}) + 1

\* EncryptWallet up to the commit of its transaction: the keys in memory and
\* in wallet.dat are encrypted with a new master key.  Bounds: no file is left
\* behind by an earlier rewriting, and there are keys for the new pool.
EncryptWallet(p) ==
    /\ Awake
    /\ ~fUseCrypto
    /\ rewritten = Nil
    /\ nKeys + nKeyPool <= MaxKeys
    /\ NewMaster \in Masters
    /\ mapMasterKeys' = [mapMasterKeys EXCEPT ![NewMaster] = p]
    /\ mapCryptedKeys' = [k \in Keys |-> IF k \in mapKeys THEN NewMaster ELSE 0]
    /\ mapKeys' = {}
    /\ fUseCrypto' = TRUE
    /\ file' = [file EXCEPT !.key = @ \ mapKeys,
                            !.ckey = [k \in Keys |-> IF k \in mapKeys THEN NewMaster ELSE @[k]],
                            !.mkey[NewMaster] = p]
    /\ residue' = TRUE
    /\ phrase' = p
    /\ lastPlain' = nKeys
    /\ pc' = "encrypted"
    /\ UNCHANGED <<vMasterKey, setKeyPool, vchDefaultKey, mining, rewritten, leaked, nKeys,
                   crashes, used, overtaken, spared, cutShort>>

\* TxnBegin fails: the master key stays in memory, the database open.
EncryptNotBegun(p) ==
    /\ Awake
    /\ ~fUseCrypto
    /\ NewMaster + 1 \in Masters
    /\ mapMasterKeys' = [mapMasterKeys EXCEPT ![NewMaster] = p]
    /\ leaked' = TRUE
    /\ UNCHANGED <<store, vMasterKey, setKeyPool, vchDefaultKey, mining, pc, disk, nKeys,
                   crashes, history>>

\* Mutant: the indexes of the old pool are forgotten and their records kept.
FlushedInMemory == file

\* The records of the pool are erased.
Flushed == [file EXCEPT !.pool = [i \in Keys |-> IF i \in setKeyPool THEN 0 ELSE @[i]]]

\* Lock, Unlock and NewKeyPool.  The wallet stays locked, and gets no new
\* pool, if an older master key is in the way of the passphrase.
NewKeyPool ==
    /\ pc = "encrypted"
    /\ IF \E id \in Masters : Opens(phrase, id)
       THEN LET new == nKeys + 1 .. nKeys + nKeyPool
                id == CHOOSE i \in Masters : Opens(phrase, i)
            IN  /\ nKeys + nKeyPool <= MaxKeys
                /\ nKeys' = nKeys + nKeyPool
                /\ mapCryptedKeys' = [k \in Keys |-> IF k \in new THEN id ELSE mapCryptedKeys[k]]
                /\ setKeyPool' = 1 .. nKeyPool
                /\ file' = [Flushed EXCEPT
                      !.ckey = [k \in Keys |-> IF k \in new THEN id ELSE @[k]],
                      !.pool = [i \in Keys |-> IF i \in 1 .. nKeyPool THEN nKeys + i ELSE @[i]]]
       ELSE /\ setKeyPool' = {}
            /\ file' = Flushed
            /\ UNCHANGED <<nKeys, mapCryptedKeys>>
    /\ vMasterKey' = 0
    /\ overtaken' = overtaken \union (setKeyPool' \intersect Outstanding)
    /\ spared' = {file.pool[i] : i \in Outstanding} \ {0}
    /\ pc' = "repooled"
    /\ UNCHANGED <<mapKeys, fUseCrypto, mapMasterKeys, vchDefaultKey, mining, rewritten,
                   residue, leaked, crashes, used, phrase, lastPlain, cutShort>>

\* Mutant: what is erased is copied too.
CopiedPages == residue

\* The copy has only the records.
CopiedRecords == FALSE

\* Mutant: a reserve key keeps wallet.dat open.
RewriteCopyUnreserved ==
    /\ pc = "repooled"
    /\ ~leaked /\ Outstanding = {}
    /\ rewritten' = file
    /\ pc' = "copied"
    /\ UNCHANGED <<store, vMasterKey, mapMasterKeys, setKeyPool, vchDefaultKey, mining, file,
                   residue, leaked, nKeys, crashes, history>>

\* CDB::Rewrite waits until nobody has wallet.dat open and copies the records
\* to another file ...
RewriteCopy ==
    /\ pc = "repooled"
    /\ ~leaked
    /\ rewritten' = file
    /\ pc' = "copied"
    /\ UNCHANGED <<store, vMasterKey, mapMasterKeys, setKeyPool, vchDefaultKey, mining, file,
                   residue, leaked, nKeys, crashes, history>>

\* ... removes wallet.dat ...
RewriteRemove ==
    /\ pc = "copied"
    /\ file' = Nil
    /\ residue' = CopiedRecords
    /\ pc' = "removed"
    /\ UNCHANGED <<store, vMasterKey, mapMasterKeys, setKeyPool, vchDefaultKey, mining,
                   rewritten, leaked, nKeys, crashes, history>>

\* ... and gives the other file its name.
RewriteRename ==
    /\ pc = "removed"
    /\ file' = rewritten
    /\ rewritten' = Nil
    /\ pc' = "idle"
    /\ UNCHANGED <<store, vMasterKey, mapMasterKeys, setKeyPool, vchDefaultKey, mining, residue,
                   leaked, nKeys, crashes, history>>

-----------------------------------------------------------------------------
(***************************************************************************)
(* Crash and start.                                                        *)
(***************************************************************************)

Encrypting == pc \in {"encrypted", "repooled", "copied", "removed"}

Crash ==
    /\ pc # "down"
    /\ crashes < MaxCrashes
    /\ crashes' = crashes + 1
    /\ pc' = "down"
    /\ spared' = IF pc = "encrypted" THEN {file.pool[i] : i \in Keys} \ {0} ELSE spared
    /\ cutShort' = (cutShort \/ pc \in {"encrypted", "repooled", "copied"})
    /\ UNCHANGED <<store, vMasterKey, mapMasterKeys, setKeyPool, vchDefaultKey, mining, disk,
                   leaked, nKeys, used, phrase, lastPlain, overtaken>>

\* The shutdown that encryptwallet asks for, or any other: ~CReserveKey does
\* nothing then.
Shutdown ==
    /\ pc = "idle"
    /\ pc' = "down"
    /\ UNCHANGED <<store, vMasterKey, mapMasterKeys, setKeyPool, vchDefaultKey, mining, disk,
                   leaked, nKeys, crashes, history>>

Indexes(f) == {i \in Keys : f.pool[i] # 0}

\* LoadWallet.
Start ==
    /\ pc = "down"
    /\ file # Nil
    /\ mapKeys' = file.key
    /\ mapCryptedKeys' = file.ckey
    /\ fUseCrypto' = (\E k \in Keys : file.ckey[k] # 0)
    /\ vMasterKey' = 0
    /\ mapMasterKeys' = file.mkey
    /\ setKeyPool' = Indexes(file)
    /\ vchDefaultKey' = file.defaultkey
    /\ reserved' = [m \in Miners |-> 0]
    /\ candidate' = [m \in Miners |-> 0]
    /\ leaked' = FALSE
    /\ overtaken' = {}
    /\ pc' = "idle"
    /\ UNCHANGED <<mined, disk, nKeys, crashes, used, phrase, lastPlain, spared, cutShort>>

\* There is no wallet.dat: a new one is made, with a new default key.
FirstRun ==
    /\ pc = "down"
    /\ file = Nil
    /\ nKeys + nKeyPool + 1 <= MaxKeys
    /\ LET new == nKeys + 1 .. nKeys + nKeyPool + 1
       IN  /\ mapKeys' = new
           /\ file' = [key |-> new, ckey |-> [k \in Keys |-> 0], mkey |-> [id \in Masters |-> Nil],
                       pool |-> [i \in Keys |-> IF i \in 2 .. nKeyPool + 1 THEN nKeys + i ELSE 0],
                       defaultkey |-> nKeys + 1]
    /\ nKeys' = nKeys + nKeyPool + 1
    /\ mapCryptedKeys' = [k \in Keys |-> 0]
    /\ fUseCrypto' = FALSE
    /\ vMasterKey' = 0
    /\ mapMasterKeys' = [id \in Masters |-> Nil]
    /\ setKeyPool' = 2 .. nKeyPool + 1
    /\ vchDefaultKey' = nKeys + 1
    /\ used' = [used EXCEPT ![nKeys + 1] = @ + 1]
    /\ reserved' = [m \in Miners |-> 0]
    /\ candidate' = [m \in Miners |-> 0]
    /\ leaked' = FALSE
    /\ residue' = FALSE
    /\ phrase' = Nil
    /\ lastPlain' = 0
    /\ overtaken' = {} /\ spared' = {} /\ cutShort' = FALSE
    /\ pc' = "idle"
    /\ UNCHANGED <<mined, rewritten, crashes>>

KeysInit ==
    /\ mapKeys = {} /\ mapCryptedKeys = [k \in Keys |-> 0] /\ fUseCrypto = FALSE
    /\ vMasterKey = 0 /\ mapMasterKeys = [id \in Masters |-> Nil]
    /\ setKeyPool = {} /\ vchDefaultKey = 0
    /\ reserved = [m \in Miners |-> 0] /\ candidate = [m \in Miners |-> 0] /\ mined = {}
    /\ pc = "down" /\ file = Nil /\ rewritten = Nil /\ residue = FALSE /\ leaked = FALSE
    /\ nKeys = 0 /\ crashes = 0
    /\ used = [k \in Keys |-> 0] /\ phrase = Nil /\ lastPlain = 0
    /\ overtaken = {} /\ spared = {} /\ cutShort = FALSE

EncryptStep == NewKeyPool \/ RewriteCopy \/ RewriteRemove \/ RewriteRename

KeysNext ==
    \/ GetKeyFromPool
    \/ ReadFails
    \/ TopUpKeyPool
    \/ CrashInTopUp
    \/ \E m \in Miners : CreateNewBlock(m) \/ ReturnKey(m) \/ CheckWork(m)
    \/ Lock
    \/ \E p \in Phrases : Unlock(p) \/ EncryptWallet(p) \/ EncryptNotBegun(p)
    \/ \E p, q \in Phrases : ChangeWalletPassphrase(p, q)
    \/ EncryptStep
    \/ Crash
    \/ Shutdown
    \/ Start
    \/ FirstRun

\* The thread that encrypts holds cs_wallet and goes on.
KeysSpec == KeysInit /\ [][KeysNext]_kvars /\ WF_kvars(EncryptStep)

-----------------------------------------------------------------------------
(***************************************************************************)
(* Properties.                                                             *)
(***************************************************************************)

\* Every variable has its type.  Only one of the two key maps is in use, as
\* the declaration of fUseCrypto demands.
KeysTypeOK ==
    /\ mapKeys \subseteq Keys /\ mapCryptedKeys \in [Keys -> Masters \union {0}]
    /\ vMasterKey \in Masters \union {0}
    /\ mapMasterKeys \in [Masters -> Phrases \union {Nil}]
    /\ setKeyPool \subseteq Keys /\ vchDefaultKey \in Keys \union {0}
    /\ reserved \in [Miners -> Keys \union {0}] /\ candidate \in [Miners -> Keys \union {0}]
    /\ pc \in {"idle", "down", "encrypted", "repooled", "copied", "removed"}
    /\ file \in WalletFile \union {Nil} /\ rewritten \in WalletFile \union {Nil}
    /\ residue \in BOOLEAN /\ leaked \in BOOLEAN
    /\ nKeys \in 0 .. MaxKeys /\ crashes \in 0 .. MaxCrashes
    /\ used \in [Keys -> Nat] /\ mined \subseteq Keys
    /\ phrase \in Phrases \union {Nil} /\ lastPlain \in 0 .. MaxKeys
    /\ overtaken \subseteq Keys /\ spared \subseteq Keys /\ cutShort \in BOOLEAN
    /\ fUseCrypto \in BOOLEAN
    /\ pc # "down" => IF fUseCrypto THEN mapKeys = {}
                      ELSE vMasterKey = 0 /\ mapCryptedKeys = [k \in Keys |-> 0]

\* The keys a file gives back: in the clear, or encrypted with a master key
\* whose record is in the same file.
Recoverable(f) ==
    f.key \union {k \in Keys : f.ckey[k] # 0 /\ f.mkey[f.ckey[k]] # Nil}

\* Every key that was handed out or that a block pays can be read back from
\* wallet.dat or, while it is being rewritten, from wallet.dat.rewrite,
\* whenever the process dies (AddKey, EncryptWallet, CDB::Rewrite).
KeysOnDisk ==
    \A k \in Keys :
        (used[k] > 0 \/ k \in mined) =>
            \E f \in {file, rewritten} \ {Nil} : k \in Recoverable(f)

\* The pool hands out a key once, over any number of restarts, and also if an
\* index was issued again under a miner that returned it later
\* (ReserveKeyFromKeyPool, KeepKey, ReturnKey, TopUpKeyPool).
HandedOutOnce == \A k \in Keys : used[k] <= 1

\* The wallet has the key of every record an index of the pool leads to, and an
\* index without a record, at which reserving ends in an exception, is one that
\* was issued again while a miner held it: the pool ran empty while the wallet
\* was locked, or was made anew by EncryptWallet.  A restart ends that.
PoolIsBacked ==
    (pc = "idle" /\ file # Nil) =>
        \A i \in setKeyPool : IF file.pool[i] = 0 THEN i \in overtaken ELSE HaveKey(file.pool[i])

\* A reserved key is one the wallet has and that nobody was given before, and
\* one that was handed out is never lost; what a miner that returns an index
\* late can do to the pool goes no further than PoolIsBacked says.
KeyPoolSound == KeysTypeOK /\ HandedOutOnce /\ PoolIsBacked /\ KeysOnDisk

\* The file the wallet is in: while wallet.dat is removed, the copy.
Current == IF file # Nil THEN file ELSE rewritten
Encrypted(f) == \E k \in Keys : f.ckey[k] # 0

\* The master key id is the only one, and all encrypted keys need it.
SealedBy(f, id, p) ==
    /\ \A j \in Masters : f.mkey[j] = IF j = id THEN p ELSE Nil
    /\ \A k \in Keys : f.ckey[k] \in {0, id}

\* From the moment the keys are encrypted, whenever the process dies and also
\* after an encryption that did not begin, the passphrase given last is that of
\* the only master key of the file, and all its keys are encrypted with that
\* one; the running wallet opens with it (EncryptWallet, Unlock,
\* ChangeWalletPassphrase, CDB::Rewrite).
PhraseOpens ==
    /\ (Current # Nil /\ Encrypted(Current)) => \E id \in Masters : SealedBy(Current, id, phrase)
    /\ (pc = "idle" /\ file # Nil /\ fUseCrypto) =>
          (\E id \in Masters : Opens(phrase, id)) /\ mapMasterKeys = file.mkey

\* In an encrypted wallet no private key is left in the clear, be it in memory,
\* in a record of a file, or in a page no record uses.  Such pages, and only
\* they, survive a process that dies after the commit of EncryptWallet and
\* before CDB::Rewrite has removed the old file: no later start rewrites it.
NothingInTheClear ==
    (pc = "idle" /\ fUseCrypto) =>
        /\ residue => cutShort
        /\ \A f \in {file, rewritten} \ {Nil} : f.key = {}

\* The keys made before the wallet was encrypted, of which unencrypted copies
\* may exist, do not come back to the pool, over restarts and late returns
\* ("Mark old keypool keys as used, and generate all new keys").  NewKeyPool
\* misses the keys that miners have reserved, and the whole pool if the process
\* dies after the commit and before it: those, and no others, may still be there.
OldPoolIsFlushed ==
    (pc = "idle" /\ file # Nil /\ fUseCrypto) =>
        \A i \in Indexes(file) : file.pool[i] > lastPlain \/ file.pool[i] \in spared

\* What encrypting a wallet promises, and how far it is kept when a miner holds
\* a key meanwhile, a transaction does not begin or the process dies half way.
EncryptionSound == PhraseOpens /\ NothingInTheClear /\ OldPoolIsFlushed

\* EncryptWallet returns, if no open database is left behind: it waits with
\* cs_wallet held until nobody uses wallet.dat.
EncryptEnds == (Encrypting /\ ~leaked) ~> (pc \in {"idle", "down"})

=============================================================================
