-------------------------- MODULE WalletKeysProofs --------------------------
(***************************************************************************)
(* The keys of a wallet, for any number of miners, passphrases, keys and   *)
(* crashes. The invariant says what wallet.dat holds between any two       *)
(* steps, and how far the memory agrees with it; the properties follow.    *)
(***************************************************************************)
EXTENDS WalletKeys, Induction, FiniteSetTheorems

Up == pc # "down"

Owned(f) == f.key \union {k \in Keys : f.ckey[k] # 0}

\* How far the encryption has come, and which files there are.
Phases ==
    /\ pc \notin {"removed", "down"} => file # Nil
    /\ pc = "removed" => file = Nil /\ rewritten # Nil
    /\ pc \in {"encrypted", "repooled"} => rewritten = Nil
    /\ pc = "copied" => rewritten = file
    /\ pc \in {"encrypted", "repooled", "copied", "removed"} => fUseCrypto
    /\ leaked => pc \notin {"copied", "removed"} /\ (pc = "idle" => ~fUseCrypto)

\* What every file of a wallet satisfies when n keys were generated; handed says
\* how often each was handed out.
FileSound(f, n, handed) ==
    /\ \A k \in Owned(f) : k <= n
    /\ Encrypted(f) => f.key = {}
    /\ \A k \in Keys : f.ckey[k] # 0 => f.mkey[f.ckey[k]] # Nil
    /\ f.defaultkey \in Owned(f)
    /\ \A i \in Indexes(f) : f.pool[i] \in Owned(f) /\ handed[f.pool[i]] = 0
    /\ \A i, j \in Indexes(f) : f.pool[i] = f.pool[j] => i = j

\* What is in memory of what is in the file.
Mirrored ==
    Up =>
      /\ mapKeys = Current.key /\ mapCryptedKeys = Current.ckey
      /\ fUseCrypto <=> Encrypted(Current)
      /\ vchDefaultKey = Current.defaultkey
      /\ vMasterKey # 0 => Current.mkey[vMasterKey] # Nil
      /\ \A m \in Miners : candidate[m] # 0 => candidate[m] \in Owned(Current)

\* Of the indexes of a pool and those with miners, all but the ones issued
\* twice, ov, have a record and are in one place.
Shared(f, pool, out, ov) ==
    /\ Indexes(f) \subseteq pool \union out
    /\ (pool \union out) \ ov \subseteq Indexes(f)
    /\ pool \intersect out \subseteq ov

PoolIsShared ==
    Up =>
      /\ Shared(Current, setKeyPool, Outstanding, overtaken)
      /\ \A m, n \in Miners : reserved[m] = reserved[n] /\ reserved[m] # 0 =>
                                  m = n \/ reserved[m] \in overtaken

\* An encrypted file has one master key, of the passphrase p, others have none.
Sealed(f, p) ==
    IF Encrypted(f) THEN \E id \in Masters : SealedBy(f, id, p)
    ELSE \A id \in Masters : f.mkey[id] = Nil

OneMaster ==
    Current # Nil =>
      /\ Up /\ ~leaked => mapMasterKeys = Current.mkey
      /\ Sealed(Current, phrase)

\* The copy never has a key in the clear, wallet.dat until its pages are gone.
CleanedUp ==
    /\ rewritten # Nil => rewritten.key = {}
    /\ residue => cutShort \/ pc \in {"encrypted", "repooled", "copied"}

PoolIsNew ==
    Current # Nil /\ pc # "encrypted" /\ Encrypted(Current) =>
        \A i \in Indexes(Current) : Current.pool[i] > lastPlain \/ Current.pool[i] \in spared

\* What was not generated was not used.
KeysAreCounted ==
    /\ lastPlain <= nKeys
    /\ \A k \in Keys : used[k] > 0 \/ k \in mined => k <= nKeys

KInv ==
    /\ KeysTypeOK /\ Phases /\ Mirrored
    /\ Current # Nil => FileSound(Current, nKeys, used)
    /\ PoolIsShared /\ OneMaster /\ CleanedUp /\ PoolIsNew /\ KeysAreCounted
    /\ HandedOutOnce /\ KeysOnDisk

-----------------------------------------------------------------------------
(***************************************************************************)
(* The least and the last of a set of keys, and the records of a file.     *)
(***************************************************************************)
LEMMA LeastKey ==
    ASSUME NEW S \in SUBSET Keys, S # {}
    PROVE  Least(S) \in S /\ \A j \in S : Least(S) <= j
<1>1. S \subseteq Nat BY DEF Keys
<1>2. \E i \in S : \A j \in S : i <= j BY <1>1, LeastNatural
<1>. QED BY <1>2 DEF Least

LEMMA LastKey ==
    ASSUME KeysAssumption, NEW S \in SUBSET Keys
    PROVE  Last(S) \in Keys \union {0}
<1>1. CASE S = {} BY <1>1 DEF Last
<1>2. CASE S # {}
  <2> DEFINE T == {MaxKeys - i : i \in S}
  <2>1. T \subseteq Nat /\ T # {}
    <3>1. \A i \in S : i \in 1 .. MaxKeys /\ MaxKeys \in Nat BY DEF Keys, KeysAssumption
    <3>. QED BY <1>2, <3>1
  <2>2. PICK m \in T : \A n \in T : m <= n
    <3>. HIDE DEF T
    <3>. QED BY <2>1, LeastNatural
  <2>3. PICK i \in S : m = MaxKeys - i BY <2>2
  <2>4. ASSUME NEW j \in S PROVE j <= i
    <3>1. m <= MaxKeys - j BY <2>2
    <3>. QED BY <2>3, <3>1 DEF Keys, KeysAssumption
  <2>5. \E x \in S : \A j \in S : j <= x BY <2>4
  <2>6. Last(S) = CHOOSE x \in S : \A j \in S : j <= x BY <1>2 DEF Last
  <2>. QED BY <2>5, <2>6
<1>. QED BY <1>1, <1>2

\* One record of a file is written.
LEMMA Written ==
    ASSUME NEW f \in WalletFile
    PROVE  /\ \A x \in SUBSET Keys :
                /\ [f EXCEPT !.key = x] \in WalletFile
                /\ [f EXCEPT !.key = x].key = x /\ [f EXCEPT !.key = x].ckey = f.ckey
                /\ [f EXCEPT !.key = x].mkey = f.mkey /\ [f EXCEPT !.key = x].pool = f.pool
                /\ [f EXCEPT !.key = x].defaultkey = f.defaultkey
           /\ \A x \in [Keys -> Masters \union {0}] :
                /\ [f EXCEPT !.ckey = x] \in WalletFile
                /\ [f EXCEPT !.ckey = x].key = f.key /\ [f EXCEPT !.ckey = x].ckey = x
                /\ [f EXCEPT !.ckey = x].mkey = f.mkey /\ [f EXCEPT !.ckey = x].pool = f.pool
                /\ [f EXCEPT !.ckey = x].defaultkey = f.defaultkey
           /\ \A x \in [Masters -> Phrases \union {Nil}] :
                /\ [f EXCEPT !.mkey = x] \in WalletFile
                /\ [f EXCEPT !.mkey = x].key = f.key /\ [f EXCEPT !.mkey = x].ckey = f.ckey
                /\ [f EXCEPT !.mkey = x].mkey = x /\ [f EXCEPT !.mkey = x].pool = f.pool
                /\ [f EXCEPT !.mkey = x].defaultkey = f.defaultkey
           /\ \A x \in [Keys -> Keys \union {0}] :
                /\ [f EXCEPT !.pool = x] \in WalletFile
                /\ [f EXCEPT !.pool = x].key = f.key /\ [f EXCEPT !.pool = x].ckey = f.ckey
                /\ [f EXCEPT !.pool = x].mkey = f.mkey /\ [f EXCEPT !.pool = x].pool = x
                /\ [f EXCEPT !.pool = x].defaultkey = f.defaultkey
<1>1. \A x \in SUBSET Keys :
        /\ [f EXCEPT !.key = x] \in WalletFile
        /\ [f EXCEPT !.key = x].key = x /\ [f EXCEPT !.key = x].ckey = f.ckey
        /\ [f EXCEPT !.key = x].mkey = f.mkey /\ [f EXCEPT !.key = x].pool = f.pool
        /\ [f EXCEPT !.key = x].defaultkey = f.defaultkey
  BY DEF WalletFile
<1>2. \A x \in [Keys -> Masters \union {0}] :
        /\ [f EXCEPT !.ckey = x] \in WalletFile
        /\ [f EXCEPT !.ckey = x].key = f.key /\ [f EXCEPT !.ckey = x].ckey = x
        /\ [f EXCEPT !.ckey = x].mkey = f.mkey /\ [f EXCEPT !.ckey = x].pool = f.pool
        /\ [f EXCEPT !.ckey = x].defaultkey = f.defaultkey
  BY DEF WalletFile
<1>3. \A x \in [Masters -> Phrases \union {Nil}] :
        /\ [f EXCEPT !.mkey = x] \in WalletFile
        /\ [f EXCEPT !.mkey = x].key = f.key /\ [f EXCEPT !.mkey = x].ckey = f.ckey
        /\ [f EXCEPT !.mkey = x].mkey = x /\ [f EXCEPT !.mkey = x].pool = f.pool
        /\ [f EXCEPT !.mkey = x].defaultkey = f.defaultkey
  BY DEF WalletFile
<1>4. \A x \in [Keys -> Keys \union {0}] :
        /\ [f EXCEPT !.pool = x] \in WalletFile
        /\ [f EXCEPT !.pool = x].key = f.key /\ [f EXCEPT !.pool = x].ckey = f.ckey
        /\ [f EXCEPT !.pool = x].mkey = f.mkey /\ [f EXCEPT !.pool = x].pool = x
        /\ [f EXCEPT !.pool = x].defaultkey = f.defaultkey
  BY DEF WalletFile
<1>. QED BY <1>1, <1>2, <1>3, <1>4


-----------------------------------------------------------------------------
(***************************************************************************)
(* What an awake wallet looks like, and what topping up its pool does.     *)
(***************************************************************************)
LEMMA AwakeFacts ==
    ASSUME KInv, Awake
    PROVE  /\ pc = "idle" /\ Current = file /\ file \in WalletFile
           /\ FileSound(file, nKeys, used)
           /\ mapKeys = file.key /\ mapCryptedKeys = file.ckey
           /\ fUseCrypto <=> Encrypted(file)
           /\ vchDefaultKey = file.defaultkey
           /\ vMasterKey # 0 => file.mkey[vMasterKey] # Nil
  BY DEF KInv, Awake, Current, KeysTypeOK, Mirrored, Up

LEMMA KeysAdded ==
    ASSUME KInv, Awake, NEW ks \in SUBSET Keys
    PROVE  /\ AddKeys(ks) \in WalletFile
           /\ AddKeys(ks).mkey = file.mkey /\ AddKeys(ks).pool = file.pool
           /\ AddKeys(ks).defaultkey = file.defaultkey
           /\ AddKeys(ks).key = IF fUseCrypto THEN file.key ELSE file.key \union ks
           /\ AddKeys(ks).ckey = IF fUseCrypto
                                 THEN [k \in Keys |-> IF k \in ks THEN vMasterKey ELSE file.ckey[k]]
                                 ELSE file.ckey
<1>1. file \in WalletFile /\ file.key \in SUBSET Keys /\ file.ckey \in [Keys -> Masters \union {0}]
  BY AwakeFacts DEF WalletFile
<1>2. vMasterKey \in Masters \union {0} BY DEF KInv, KeysTypeOK
<1>3. CASE fUseCrypto
  <2> DEFINE x == [k \in Keys |-> IF k \in ks THEN vMasterKey ELSE file.ckey[k]]
  <2>1. x \in [Keys -> Masters \union {0}] BY <1>1, <1>2
  <2>2. AddKeys(ks) = [file EXCEPT !.ckey = x] BY <1>3 DEF AddKeys
  <2>. HIDE DEF x
  <2>3. /\ AddKeys(ks) \in WalletFile
        /\ AddKeys(ks).mkey = file.mkey /\ AddKeys(ks).pool = file.pool
        /\ AddKeys(ks).defaultkey = file.defaultkey
        /\ AddKeys(ks).key = file.key /\ AddKeys(ks).ckey = x
    BY <1>1, <2>1, <2>2, Written
  <2>. QED BY <1>3, <2>3 DEF x
<1>4. CASE ~fUseCrypto
  <2> DEFINE x == file.key \union ks
  <2>1. x \in SUBSET Keys BY <1>1
  <2>2. AddKeys(ks) = [file EXCEPT !.key = x] BY <1>4 DEF AddKeys
  <2>. HIDE DEF x
  <2>3. /\ AddKeys(ks) \in WalletFile
        /\ AddKeys(ks).mkey = file.mkey /\ AddKeys(ks).pool = file.pool
        /\ AddKeys(ks).defaultkey = file.defaultkey
        /\ AddKeys(ks).key = x /\ AddKeys(ks).ckey = file.ckey
    BY <1>1, <2>1, <2>2, Written
  <2>. QED BY <1>4, <2>3 DEF x
<1>. QED BY <1>3, <1>4

\* Keys are generated and written: what is in the file, and in memory.
LEMMA KeysGenerated ==
    ASSUME KeysAssumption, KInv, Awake, NEW m \in Nat, m > 0 => ~IsLocked, nKeys + m <= MaxKeys
    PROVE  LET new == nKeys + 1 .. nKeys + m
               f == AddKeys(new)
           IN  /\ new \in SUBSET Keys /\ nKeys + m \in 0 .. MaxKeys
               /\ Owned(f) = Owned(file) \union new
               /\ fUseCrypto <=> Encrypted(f)
               /\ Encrypted(f) => f.key = {}
               /\ \A k \in Keys : f.ckey[k] # 0 => f.mkey[f.ckey[k]] # Nil
               /\ \A k \in Keys : f.ckey[k] \in {0, vMasterKey, file.ckey[k]}
               /\ GenerateKeys(m) => mapKeys' = f.key /\ mapCryptedKeys' = f.ckey
<1> DEFINE new == nKeys + 1 .. nKeys + m
           f == AddKeys(new)
<1>1. nKeys \in Nat /\ MaxKeys \in Nat BY DEF KInv, KeysTypeOK, KeysAssumption
<1>2. new \in SUBSET Keys /\ nKeys + m \in 0 .. MaxKeys
  BY <1>1 DEF Keys
<1>3. /\ file \in WalletFile /\ FileSound(file, nKeys, used)
      /\ mapKeys = file.key /\ mapCryptedKeys = file.ckey
      /\ fUseCrypto <=> Encrypted(file)
      /\ vMasterKey # 0 => file.mkey[vMasterKey] # Nil
  BY AwakeFacts
<1>4. file.key \in SUBSET Keys /\ file.ckey \in [Keys -> Masters \union {0}]
  BY <1>3 DEF WalletFile
<1>5. /\ f.mkey = file.mkey
      /\ f.key = IF fUseCrypto THEN file.key ELSE file.key \union new
      /\ f.ckey = IF fUseCrypto
                  THEN [k \in Keys |-> IF k \in new THEN vMasterKey ELSE file.ckey[k]]
                  ELSE file.ckey
  BY <1>2, KeysAdded
<1>6. new # {} => (fUseCrypto => vMasterKey # 0)
  BY <1>1 DEF IsLocked
<1>. HIDE DEF new, f
<1>7. CASE fUseCrypto
  <2>1. file.key = {} BY <1>3, <1>7 DEF FileSound
  <2>2. \A k \in Keys : f.ckey[k] = IF k \in new THEN vMasterKey ELSE file.ckey[k]
    BY <1>5, <1>7
  <2>3. Owned(f) = Owned(file) \union new
    BY <1>2, <1>5, <1>6, <1>7, <2>1, <2>2 DEF Owned
  <2>4. Encrypted(f)
    BY <1>3, <1>6, <1>7, <2>2 DEF Encrypted
  <2>5. \A k \in Keys : f.ckey[k] # 0 => f.mkey[f.ckey[k]] # Nil
    BY <1>3, <1>5, <1>6, <1>7, <2>2 DEF FileSound
  <2>6. GenerateKeys(m) => mapKeys' = f.key /\ mapCryptedKeys' = f.ckey
    BY <1>3, <1>5, <1>7 DEF GenerateKeys, new
  <2>. QED BY <1>2, <1>5, <1>7, <2>1, <2>2, <2>3, <2>4, <2>5, <2>6 DEF new, f
<1>8. CASE ~fUseCrypto
  <2>1. f.ckey = file.ckey /\ f.key = file.key \union new BY <1>5, <1>8
  <2>2. \A k \in Keys : f.ckey[k] = 0 BY <1>3, <1>8, <2>1 DEF Encrypted
  <2>3. Owned(f) = Owned(file) \union new
    BY <2>1 DEF Owned
  <2>4. ~Encrypted(f) BY <2>2 DEF Encrypted
  <2>5. GenerateKeys(m) => mapKeys' = f.key /\ mapCryptedKeys' = f.ckey
    BY <1>3, <1>8, <2>1 DEF GenerateKeys, new
  <2>. QED BY <1>2, <1>8, <2>2, <2>3, <2>4, <2>5 DEF new, f
<1>. QED BY <1>7, <1>8

LEMMA ToppedUp ==
    ASSUME KeysAssumption, KInv, Awake, NEW m \in Nat, m > 0 => ~IsLocked, TopUp(m)
    PROVE  LET f == FileAfter(m)
           IN  /\ f \in WalletFile /\ f.mkey = file.mkey /\ f.defaultkey = file.defaultkey
               /\ nKeys' = nKeys + m /\ nKeys' \in 0 .. MaxKeys
               /\ fUseCrypto' = fUseCrypto /\ mapKeys' = f.key /\ mapCryptedKeys' = f.ckey
               /\ fUseCrypto <=> Encrypted(f)
               /\ Owned(file) \subseteq Owned(f)
               /\ FileSound(f, nKeys + m, used)
               /\ PoolAfter(m) \subseteq Keys
               /\ overtaken \subseteq overtaken' /\ overtaken' \subseteq Keys
               /\ Shared(f, PoolAfter(m), Outstanding, overtaken')
               /\ \A k \in Keys : f.ckey[k] \in {0, vMasterKey, file.ckey[k]}
               /\ \A i \in Indexes(f) : f.pool[i] > nKeys \/
                                        (i \in Indexes(file) /\ f.pool[i] = file.pool[i])
<1> DEFINE new == nKeys + 1 .. nKeys + m
           g == AddKeys(new)
           f == FileAfter(m)
           idx == FirstNew .. FirstNew + m - 1
           x == [i \in Keys |-> IF i \in idx THEN nKeys + 1 + i - FirstNew ELSE file.pool[i]]
<1>1. /\ nKeys \in Nat /\ MaxKeys \in Nat /\ nKeys + m <= MaxKeys /\ nKeys' = nKeys + m
      /\ setKeyPool \in SUBSET Keys /\ FirstNew + m - 1 <= MaxKeys /\ fUseCrypto' = fUseCrypto
      /\ used \in [Keys -> Nat]
  BY DEF KInv, KeysTypeOK, KeysAssumption, TopUp, GenerateKeys
<1>2. FirstNew \in Nat /\ FirstNew >= 1 BY <1>1, LastKey DEF FirstNew, Keys
<1>3. idx \in SUBSET Keys BY <1>1, <1>2 DEF Keys
<1>4. file \in WalletFile /\ FileSound(file, nKeys, used) /\ file.pool \in [Keys -> Keys \union {0}]
  BY AwakeFacts DEF WalletFile
<1>5. /\ new \in SUBSET Keys /\ nKeys + m \in 0 .. MaxKeys
      /\ Owned(g) = Owned(file) \union new
      /\ fUseCrypto <=> Encrypted(g)
      /\ Encrypted(g) => g.key = {}
      /\ \A k \in Keys : g.ckey[k] # 0 => g.mkey[g.ckey[k]] # Nil
      /\ \A k \in Keys : g.ckey[k] \in {0, vMasterKey, file.ckey[k]}
      /\ mapKeys' = g.key /\ mapCryptedKeys' = g.ckey
  BY <1>1, KeysGenerated DEF TopUp
<1>6. /\ g \in WalletFile /\ g.mkey = file.mkey /\ g.pool = file.pool
      /\ g.defaultkey = file.defaultkey
  BY <1>5, KeysAdded
<1>7. ASSUME NEW i \in idx PROVE nKeys + 1 + i - FirstNew \in new
  BY <1>1, <1>2
<1>8. x \in [Keys -> Keys \union {0}] BY <1>4, <1>5, <1>7
<1>9. f = [g EXCEPT !.pool = x] BY <1>6 DEF FileAfter
<1>. HIDE DEF f, x, g
<1>10. /\ f \in WalletFile /\ f.key = g.key /\ f.ckey = g.ckey /\ f.mkey = g.mkey
       /\ f.pool = x /\ f.defaultkey = g.defaultkey
  BY <1>6, <1>8, <1>9, Written
<1>11. Owned(f) = Owned(g) /\ (Encrypted(f) <=> Encrypted(g))
  BY <1>10 DEF Owned, Encrypted
<1>12. \A i \in Keys : f.pool[i] = IF i \in idx THEN nKeys + 1 + i - FirstNew ELSE file.pool[i]
  BY <1>10 DEF x
<1>13. \A i \in idx : f.pool[i] \in new /\ f.pool[i] # 0 /\ f.pool[i] > nKeys
  BY <1>1, <1>3, <1>7, <1>12
<1>14. Indexes(f) = Indexes(file) \union idx
  BY <1>3, <1>12, <1>13 DEF Indexes
<1>15. \A i \in Indexes(f) : i \in idx \/ (i \in Indexes(file) /\ f.pool[i] = file.pool[i])
  BY <1>12, <1>14 DEF Indexes
<1>16. FileSound(f, nKeys + m, used)
  <2>1. \A k \in Owned(f) : k <= nKeys + m
    <3>1. \A k \in Owned(file) : k <= nKeys /\ k \in Nat
      BY <1>4 DEF FileSound, Owned, WalletFile, Keys
    <3>. QED BY <1>1, <1>5, <1>11, <3>1
  <2>2. \A i \in idx : used[f.pool[i]] = 0
    <3>1. \A k \in Keys : used[k] > 0 => k <= nKeys BY DEF KInv, KeysAreCounted
    <3>. QED BY <1>1, <1>5, <1>13, <3>1 DEF Keys
  <2>3. \A i \in Indexes(f) : f.pool[i] \in Owned(f) /\ used[f.pool[i]] = 0
    BY <1>4, <1>5, <1>11, <1>13, <1>15, <2>2 DEF FileSound
  <2>4. ASSUME NEW i \in Indexes(f), NEW j \in Indexes(f), f.pool[i] = f.pool[j] PROVE i = j
    <3>1. \A k \in Indexes(file) : file.pool[k] <= nKeys BY <1>4 DEF FileSound
    <3>2. CASE i \in idx /\ j \in idx
      <4>1. i \in Nat /\ j \in Nat BY <1>3, <3>2 DEF Keys
      <4>. QED BY <1>1, <1>2, <1>3, <1>12, <2>4, <3>2, <4>1
    <3>3. CASE i \notin idx /\ j \notin idx
      BY <1>4, <1>15, <2>4, <3>3 DEF FileSound
    <3>4. CASE i \in idx /\ j \notin idx
      <4>1. f.pool[i] > nKeys /\ f.pool[i] \in Nat BY <1>5, <1>13, <3>4 DEF Keys
      <4>2. f.pool[j] <= nKeys BY <1>15, <3>1, <3>4
      <4>. QED BY <1>1, <2>4, <4>1, <4>2
    <3>5. CASE i \notin idx /\ j \in idx
      <4>1. f.pool[j] > nKeys /\ f.pool[j] \in Nat BY <1>5, <1>13, <3>5 DEF Keys
      <4>2. f.pool[i] <= nKeys BY <1>15, <3>1, <3>5
      <4>. QED BY <1>1, <2>4, <4>1, <4>2
    <3>. QED BY <3>2, <3>3, <3>4, <3>5
  <2>5. f.defaultkey \in Owned(f) BY <1>4, <1>5, <1>6, <1>10, <1>11 DEF FileSound
  <2>. QED BY <1>5, <1>10, <1>11, <2>1, <2>3, <2>4, <2>5 DEF FileSound
<1>17. PoolAfter(m) = setKeyPool \union idx BY DEF PoolAfter
<1>18. overtaken' = overtaken \union (idx \intersect Outstanding)
  BY DEF TopUp
<1>19. Shared(f, PoolAfter(m), Outstanding, overtaken')
  <2>1. Shared(file, setKeyPool, Outstanding, overtaken)
    BY AwakeFacts DEF KInv, PoolIsShared, Up
  <2>. QED BY <1>14, <1>17, <1>18, <2>1 DEF Shared
<1>20. Owned(file) \subseteq Owned(f) BY <1>5, <1>11
<1>21. PoolAfter(m) \subseteq Keys BY <1>1, <1>3, <1>17
<1>22. overtaken \subseteq overtaken' /\ overtaken' \subseteq Keys
  BY <1>3, <1>18 DEF KInv, KeysTypeOK
<1>23. \A i \in Indexes(f) : f.pool[i] > nKeys \/ (i \in Indexes(file) /\ f.pool[i] = file.pool[i])
  BY <1>13, <1>15
<1>24. /\ f.mkey = file.mkey /\ f.defaultkey = file.defaultkey
       /\ mapKeys' = f.key /\ mapCryptedKeys' = f.ckey
       /\ \A k \in Keys : f.ckey[k] \in {0, vMasterKey, file.ckey[k]}
  BY <1>5, <1>6, <1>10, Zenon
<1>25. fUseCrypto <=> Encrypted(f) BY <1>5, <1>11, Zenon
<1>26. nKeys' \in 0 .. MaxKeys BY <1>1, <1>5
<1>27. f \in WalletFile BY <1>10
<1>. HIDE DEF idx, new
<1>. QED
  BY <1>1, <1>16, <1>19, <1>20, <1>21, <1>22, <1>23, <1>24, <1>25, <1>26, <1>27, Zenon DEF f

\* New keys are encrypted with the master key of the file.
LEMMA StaysSealed ==
    ASSUME NEW f \in WalletFile, NEW g \in WalletFile, NEW p, Sealed(f, p),
           g.mkey = f.mkey, Encrypted(f) <=> Encrypted(g),
           \A k \in Keys : \/ g.ckey[k] \in {0, f.ckey[k]}
                           \/ g.ckey[k] \in Masters /\ f.mkey[g.ckey[k]] # Nil
    PROVE  Sealed(g, p)
<1>1. CASE ~Encrypted(f) BY <1>1 DEF Sealed
<1>2. CASE Encrypted(f)
  <2>1. PICK id \in Masters : SealedBy(f, id, p) BY <1>2 DEF Sealed
  <2>2. \A k \in Keys : g.ckey[k] \in {0, id} BY <2>1 DEF SealedBy
  <2>3. SealedBy(g, id, p) BY <2>1, <2>2 DEF SealedBy
  <2>. QED BY <1>2, <2>3 DEF Sealed
<1>. QED BY <1>1, <1>2

-----------------------------------------------------------------------------
(***************************************************************************)
(* The steps of the pool.                                                  *)
(***************************************************************************)
LEMMA SoundIsRecoverable ==
    ASSUME NEW f, NEW n, NEW handed, FileSound(f, n, handed)
    PROVE  Recoverable(f) = Owned(f)
  BY DEF FileSound, Recoverable, Owned

\* A key that was on disk still is, if wallet.dat goes on owning its keys.
LEMMA StaysOnDisk ==
    ASSUME KeysOnDisk, FileSound(file, nKeys, used),
           file' \in WalletFile, FileSound(file', nKeys', used'),
           Owned(file) \subseteq Owned(file'), UNCHANGED rewritten,
           \A k \in Keys : used'[k] > 0 \/ k \in mined' =>
               used[k] > 0 \/ k \in mined \/ k \in Owned(file')
    PROVE  KeysOnDisk'
<1>1. Recoverable(file) = Owned(file) /\ Recoverable(file') = Owned(file')
  BY SoundIsRecoverable
<1>2. file' # Nil BY FileAssumption
<1>3. ASSUME NEW k \in Keys, used'[k] > 0 \/ k \in mined'
      PROVE  \E f \in {file', rewritten'} \ {Nil} : k \in Recoverable(f)
  <2>1. CASE k \in Owned(file') BY <1>1, <1>2, <2>1
  <2>2. CASE used[k] > 0 \/ k \in mined
    <3>1. PICK f \in {file, rewritten} \ {Nil} : k \in Recoverable(f)
      BY <2>2 DEF KeysOnDisk
    <3>2. CASE f = file BY <1>1, <1>2, <3>1, <3>2
    <3>3. CASE f # file BY <3>1, <3>3
    <3>. QED BY <3>2, <3>3
  <2>. QED BY <1>3, <2>1, <2>2
<1>. QED BY <1>3 DEF KeysOnDisk

\* The pool is topped up, and perhaps one of its records erased.
LEMMA PoolStep ==
    ASSUME KeysAssumption, KInv, Awake, NEW m \in Nat, m > 0 => ~IsLocked, TopUp(m),
           UNCHANGED <<mapMasterKeys, vchDefaultKey, mined, pc, rewritten, residue, leaked, crashes,
                       phrase, lastPlain, spared, cutShort>>,
           vMasterKey' \in {vMasterKey, 0},
           file' \in WalletFile, FileSound(file', nKeys', used'),
           file'.key = FileAfter(m).key, file'.ckey = FileAfter(m).ckey,
           file'.mkey = FileAfter(m).mkey, file'.defaultkey = FileAfter(m).defaultkey,
           \A i \in Indexes(file') :
               i \in Indexes(FileAfter(m)) /\ file'.pool[i] = FileAfter(m).pool[i],
           setKeyPool' \subseteq Keys, used' \in [Keys -> Nat], HandedOutOnce',
           \A k \in Keys : used'[k] > 0 => used[k] > 0 \/ k \in Owned(file'),
           reserved' \in [Miners -> Keys \union {0}], candidate' \in [Miners -> Keys \union {0}],
           \A mm \in Miners : candidate'[mm] # 0 => candidate[mm] = candidate'[mm]
                                                    \/ candidate'[mm] \in Owned(file'),
           PoolIsShared'
    PROVE  KInv'
<1> DEFINE f == FileAfter(m)
<1>1. /\ f \in WalletFile /\ f.mkey = file.mkey /\ f.defaultkey = file.defaultkey
      /\ nKeys' = nKeys + m /\ nKeys' \in 0 .. MaxKeys
      /\ fUseCrypto' = fUseCrypto /\ mapKeys' = f.key /\ mapCryptedKeys' = f.ckey
      /\ fUseCrypto <=> Encrypted(f)
      /\ Owned(file) \subseteq Owned(f)
      /\ FileSound(f, nKeys + m, used)
      /\ overtaken' \subseteq Keys
      /\ \A k \in Keys : f.ckey[k] \in {0, vMasterKey, file.ckey[k]}
      /\ \A i \in Indexes(f) : f.pool[i] > nKeys \/ (i \in Indexes(file) /\ f.pool[i] = file.pool[i])
  BY ToppedUp
<1>. HIDE DEF f
<1>2. /\ file'.key = f.key /\ file'.ckey = f.ckey /\ file'.mkey = file.mkey
      /\ file'.defaultkey = file.defaultkey
      /\ Owned(file') = Owned(f) /\ (Encrypted(file') <=> Encrypted(f))
  BY <1>1 DEF f, Owned, Encrypted
<1>3. /\ pc = "idle" /\ Current = file /\ file \in WalletFile
      /\ FileSound(file, nKeys, used)
      /\ fUseCrypto <=> Encrypted(file)
      /\ vchDefaultKey = file.defaultkey
      /\ vMasterKey # 0 => file.mkey[vMasterKey] # Nil
  BY AwakeFacts
<1>4. pc' = "idle" /\ Current' = file' /\ Current' # Nil /\ Up' /\ Up /\ Current # Nil
  BY <1>3, FileAssumption DEF Current, Up
<1>5. KeysTypeOK'
  <2>1. pc' # "down" => IF fUseCrypto' THEN mapKeys' = {}
                        ELSE vMasterKey' = 0 /\ mapCryptedKeys' = [k \in Keys |-> 0]
    <3>1. CASE fUseCrypto BY <1>1, <3>1 DEF FileSound
    <3>2. CASE ~fUseCrypto
      <4>1. \A k \in Keys : f.ckey[k] = 0 BY <1>1, <3>2 DEF Encrypted
      <4>2. f.ckey = [k \in Keys |-> 0] BY <1>1, <4>1 DEF WalletFile
      <4>3. vMasterKey = 0 BY <1>3, <3>2 DEF KInv, KeysTypeOK
      <4>. QED BY <1>1, <3>2, <4>2, <4>3
    <3>. QED BY <3>1, <3>2
  <2>2. mapKeys' \subseteq Keys /\ mapCryptedKeys' \in [Keys -> Masters \union {0}]
    BY <1>1 DEF WalletFile
  <2>3. vMasterKey' \in Masters \union {0} BY DEF KInv, KeysTypeOK
  <2>4. fUseCrypto' \in BOOLEAN BY <1>1, Zenon DEF KInv, KeysTypeOK
  <2>. HIDE FileAssumption
  <2>. QED BY <1>1, <2>1, <2>2, <2>3, <2>4 DEF KInv, KeysTypeOK
<1>6. Phases' BY <1>1, <1>3, <1>4 DEF KInv, Phases
<1>7. Mirrored'
  <2>1. fUseCrypto' <=> Encrypted(file') BY <1>1, <1>2, Zenon
  <2>2. vMasterKey' # 0 => file'.mkey[vMasterKey'] # Nil BY <1>2, <1>3
  <2>3. \A mm \in Miners : candidate'[mm] # 0 => candidate'[mm] \in Owned(file')
    BY <1>1, <1>2, <1>3, <1>4 DEF KInv, Mirrored
  <2>. QED BY <1>1, <1>2, <1>3, <1>4, <2>1, <2>2, <2>3, Zenon DEF Mirrored
<1>8. OneMaster'
  <2>1. Sealed(file, phrase) /\ (~leaked => mapMasterKeys = file.mkey)
    BY <1>3, <1>4 DEF KInv, OneMaster
  <2>2. Encrypted(file) <=> Encrypted(file') BY <1>1, <1>2, <1>3, Zenon
  <2>3. vMasterKey \in Masters \union {0} BY DEF KInv, KeysTypeOK
  <2>4. \A k \in Keys : \/ file'.ckey[k] \in {0, file.ckey[k]}
                        \/ file'.ckey[k] \in Masters /\ file.mkey[file'.ckey[k]] # Nil
    BY <1>1, <1>2, <1>3, <2>3
  <2>5. Sealed(file', phrase) BY <1>2, <1>3, <2>1, <2>2, <2>4, StaysSealed
  <2>6. phrase' = phrase /\ leaked' = leaked /\ mapMasterKeys' = mapMasterKeys OBVIOUS
  <2>. QED BY <1>2, <1>4, <2>1, <2>5, <2>6 DEF OneMaster
<1>9. CleanedUp' BY <1>1, <1>3 DEF KInv, CleanedUp
<1>10. PoolIsNew'
  <2>. SUFFICES ASSUME Encrypted(file'), NEW i \in Indexes(file')
       PROVE  file'.pool[i] > lastPlain \/ file'.pool[i] \in spared
    BY <1>4 DEF PoolIsNew
  <2>1. i \in Indexes(f) /\ file'.pool[i] = f.pool[i] BY DEF f
  <2>2. CASE f.pool[i] > nKeys
    BY <1>1, <2>1, <2>2 DEF KInv, KeysAreCounted, KeysTypeOK, WalletFile, Indexes, Keys
  <2>3. CASE i \in Indexes(file) /\ f.pool[i] = file.pool[i]
    <3>1. Encrypted(file) BY <1>1, <1>2, <1>3, Zenon
    <3>. QED BY <1>3, <1>4, <2>1, <2>3, <3>1 DEF KInv, PoolIsNew
  <2>. QED BY <1>1, <2>1, <2>2, <2>3
<1>11. KeysAreCounted'
  <2>1. nKeys <= nKeys' /\ lastPlain' <= nKeys' /\ nKeys \in Nat /\ nKeys' \in Nat
    BY <1>1 DEF KInv, KeysTypeOK, KeysAreCounted
  <2>2. \A k \in Keys : used'[k] > 0 => k <= nKeys'
    <3>1. \A k \in Keys : used[k] > 0 => k <= nKeys BY DEF KInv, KeysAreCounted
    <3>2. \A k \in Owned(file') : k <= nKeys' BY DEF FileSound
    <3>. QED BY <2>1, <3>1, <3>2 DEF Keys
  <2>3. \A k \in Keys : k \in mined' => k <= nKeys'
    BY <2>1 DEF KInv, KeysAreCounted, Keys
  <2>. QED BY <2>1, <2>2, <2>3 DEF KeysAreCounted
<1>12. KeysOnDisk'
  <2>1. Owned(file) \subseteq Owned(file') BY <1>1, <1>2
  <2>. QED BY <1>3, <2>1, StaysOnDisk DEF KInv
<1>. QED BY <1>4, <1>5, <1>6, <1>7, <1>8, <1>9, <1>10, <1>11, <1>12, Zenon DEF KInv

LEMMA MissingIsNatural ==
    ASSUME KeysAssumption, KInv
    PROVE  Missing \in Nat /\ (Missing > 0 => ~IsLocked)
<1>1. IsFiniteSet(Keys) BY FS_Interval DEF Keys, KeysAssumption
<1>2. Cardinality(setKeyPool) \in Nat
  BY <1>1, FS_Subset, FS_CardinalityType DEF KInv, KeysTypeOK
<1>. QED BY <1>2 DEF Missing, KeysAssumption

LEMMA RecordErased ==
    ASSUME NEW f \in WalletFile, NEW i \in Keys
    PROVE  LET g == WithoutRecord(f, i)
           IN  /\ g \in WalletFile /\ g.key = f.key /\ g.ckey = f.ckey /\ g.mkey = f.mkey
               /\ g.defaultkey = f.defaultkey
               /\ Indexes(g) = Indexes(f) \ {i}
               /\ \A j \in Indexes(g) : g.pool[j] = f.pool[j]
<1> DEFINE g == WithoutRecord(f, i)
           x == [f.pool EXCEPT ![i] = 0]
<1>1. f.pool \in [Keys -> Keys \union {0}] BY DEF WalletFile
<1>2. x \in [Keys -> Keys \union {0}] BY <1>1
<1>3. g = [f EXCEPT !.pool = x] BY DEF WithoutRecord
<1>4. \A j \in Keys : x[j] = IF j = i THEN 0 ELSE f.pool[j] BY <1>1
<1>. HIDE DEF g, x
<1>5. /\ g \in WalletFile /\ g.key = f.key /\ g.ckey = f.ckey /\ g.mkey = f.mkey
      /\ g.defaultkey = f.defaultkey /\ g.pool = x
  BY <1>2, <1>3, Written
<1>6. Indexes(g) = Indexes(f) \ {i} BY <1>4, <1>5 DEF Indexes
<1>7. \A j \in Indexes(g) : g.pool[j] = f.pool[j] BY <1>4, <1>5 DEF Indexes
<1>. QED BY <1>5, <1>6, <1>7 DEF g

LEMMA GetKeyFromPoolKeeps == ASSUME KeysAssumption, KInv, GetKeyFromPool PROVE KInv'
<1> DEFINE m == Missing
           f == FileAfter(m)
<1>1. Awake /\ m \in Nat /\ (m > 0 => ~IsLocked) BY MissingIsNatural DEF GetKeyFromPool
<1>2. PICK i \in Keys :
        /\ Reserve(i) /\ f.pool[i] # 0
        /\ file' = WithoutRecord(f, i)
        /\ setKeyPool' = PoolAfter(m) \ {i}
        /\ used' = [used EXCEPT ![f.pool[i]] = @ + 1]
  BY DEF GetKeyFromPool
<1>3. TopUp(m) /\ PoolAfter(m) # {} /\ i = Least(PoolAfter(m)) BY <1>2 DEF Reserve
<1>. HIDE DEF m
<1>4. /\ f \in WalletFile
      /\ nKeys' = nKeys + m
      /\ FileSound(f, nKeys + m, used)
      /\ PoolAfter(m) \subseteq Keys
      /\ overtaken \subseteq overtaken'
      /\ Shared(f, PoolAfter(m), Outstanding, overtaken')
  BY <1>1, <1>3, ToppedUp
<1>. HIDE DEF f
<1>5. i \in PoolAfter(m) BY <1>3, <1>4, LeastKey
<1>6. /\ file' \in WalletFile /\ file'.key = f.key /\ file'.ckey = f.ckey /\ file'.mkey = f.mkey
      /\ file'.defaultkey = f.defaultkey
      /\ Indexes(file') = Indexes(f) \ {i}
      /\ \A j \in Indexes(file') : file'.pool[j] = f.pool[j]
  BY <1>2, <1>4, RecordErased
<1>7. i \in Indexes(f) BY <1>2 DEF Indexes
<1>8. f.pool[i] \in Owned(f) /\ used[f.pool[i]] = 0 BY <1>4, <1>7 DEF FileSound
<1>9. f.pool[i] \in Keys /\ used \in [Keys -> Nat] BY <1>2, <1>4 DEF WalletFile, KInv, KeysTypeOK
<1>10. used' \in [Keys -> Nat] /\ \A k \in Keys : used'[k] = IF k = f.pool[i] THEN 1 ELSE used[k]
  BY <1>2, <1>8, <1>9
<1>11. HandedOutOnce' BY <1>10 DEF KInv, HandedOutOnce
<1>12. Owned(file') = Owned(f) BY <1>6 DEF Owned
<1>13. FileSound(file', nKeys', used')
  <2>1. ASSUME NEW j \in Indexes(file')
        PROVE  file'.pool[j] \in Owned(file') /\ used'[file'.pool[j]] = 0
    <3>1. j \in Indexes(f) /\ j # i /\ file'.pool[j] = f.pool[j] BY <1>6
    <3>2. f.pool[j] \in Owned(f) /\ used[f.pool[j]] = 0 /\ f.pool[j] # f.pool[i]
      BY <1>4, <1>7, <3>1 DEF FileSound
    <3>3. f.pool[j] \in Keys BY <1>4, <3>1 DEF Indexes, WalletFile
    <3>. QED BY <1>10, <1>12, <3>1, <3>2, <3>3
  <2>2. \A j, l \in Indexes(file') : file'.pool[j] = file'.pool[l] => j = l
    BY <1>4, <1>6 DEF FileSound
  <2>3. /\ \A k \in Owned(file') : k <= nKeys'
        /\ Encrypted(file') => file'.key = {}
        /\ \A k \in Keys : file'.ckey[k] # 0 => file'.mkey[file'.ckey[k]] # Nil
        /\ file'.defaultkey \in Owned(file')
    BY <1>4, <1>6, <1>12 DEF FileSound, Encrypted
  <2>. QED BY <2>1, <2>2, <2>3, Zenon DEF FileSound
<1>14. UNCHANGED <<vMasterKey, mapMasterKeys, vchDefaultKey, reserved, candidate, mined, pc, rewritten,
                   residue, leaked, crashes, phrase, lastPlain, spared, cutShort>>
  BY DEF GetKeyFromPool, mining
<1>15. PoolIsShared'
  <2>. SUFFICES ASSUME Up'
       PROVE  /\ Shared(file', setKeyPool', Outstanding, overtaken')
              /\ \A mm, n \in Miners : reserved[mm] = reserved[n] /\ reserved[mm] # 0 =>
                                           mm = n \/ reserved[mm] \in overtaken'
    BY <1>1, <1>6, <1>14, FileAssumption DEF PoolIsShared, Outstanding, Current, Awake
  <2>1. \A mm, n \in Miners : reserved[mm] = reserved[n] /\ reserved[mm] # 0 =>
                                  mm = n \/ reserved[mm] \in overtaken'
    BY <1>1, <1>4 DEF KInv, PoolIsShared, Up, Awake
  <2>2. Shared(file', setKeyPool', Outstanding, overtaken')
    BY <1>2, <1>4, <1>5, <1>6 DEF Shared
  <2>. QED BY <2>1, <2>2
<1>16. setKeyPool' \subseteq Keys BY <1>2, <1>4
<1>17. \A k \in Keys : used'[k] > 0 => used[k] > 0 \/ k \in Owned(file') BY <1>8, <1>10, <1>12
<1>18. \A j \in Indexes(file') : j \in Indexes(f) /\ file'.pool[j] = f.pool[j] BY <1>6
<1>. QED
  BY <1>1, <1>3, <1>6, <1>10, <1>11, <1>13, <1>14, <1>15, <1>16, <1>17, <1>18, PoolStep
     DEF f, KInv, KeysTypeOK

\* A step that tops up and erases no record.
LEMMA OnlyToppedUp ==
    ASSUME KeysAssumption, KInv, Awake, NEW m \in Nat, m > 0 => ~IsLocked, TopUp(m),
           UNCHANGED <<mapMasterKeys, vchDefaultKey, mined, pc, rewritten, residue, leaked, crashes,
                       used, phrase, lastPlain, spared, cutShort>>,
           vMasterKey' \in {vMasterKey, 0},
           file' = FileAfter(m), setKeyPool' \subseteq Keys,
           reserved' \in [Miners -> Keys \union {0}], candidate' \in [Miners -> Keys \union {0}],
           \A mm \in Miners : candidate'[mm] # 0 => candidate[mm] = candidate'[mm]
                                                    \/ candidate'[mm] \in Owned(file'),
           PoolIsShared'
    PROVE  KInv'
<1>1. /\ FileAfter(m) \in WalletFile /\ nKeys' = nKeys + m
      /\ FileSound(FileAfter(m), nKeys + m, used)
  BY ToppedUp
<1>2. used' = used /\ used \in [Keys -> Nat] BY DEF KInv, KeysTypeOK
<1>3. FileSound(file', nKeys', used') BY <1>1, <1>2
<1>4. HandedOutOnce' BY <1>2 DEF KInv, HandedOutOnce
<1>. QED BY <1>1, <1>2, <1>3, <1>4, PoolStep

LEMMA ReadFailsKeeps == ASSUME KeysAssumption, KInv, ReadFails PROVE KInv'
<1> DEFINE m == Missing
           f == FileAfter(m)
<1>1. Awake /\ m \in Nat /\ (m > 0 => ~IsLocked) BY MissingIsNatural DEF ReadFails
<1>2. PICK i \in Keys :
        /\ Reserve(i) /\ f.pool[i] = 0
        /\ setKeyPool' = PoolAfter(m) \ {i} \/ setKeyPool' = PoolAfter(m)
  BY DEF ReadFails
<1>3. TopUp(m) /\ PoolAfter(m) # {} /\ i = Least(PoolAfter(m)) BY <1>2 DEF Reserve
<1>4. file' = f BY DEF ReadFails
<1>5. UNCHANGED <<vMasterKey, mapMasterKeys, vchDefaultKey, reserved, candidate, mined, pc, rewritten,
                  residue, leaked, crashes, used, phrase, lastPlain, spared, cutShort>>
  BY DEF ReadFails, mining
<1>. HIDE DEF m
<1>6. /\ f \in WalletFile /\ PoolAfter(m) \subseteq Keys
      /\ Shared(f, PoolAfter(m), Outstanding, overtaken') /\ overtaken \subseteq overtaken'
  BY <1>1, <1>3, ToppedUp
<1>7. i \in PoolAfter(m) BY <1>3, <1>6, LeastKey
<1>8. i \notin Indexes(f) BY <1>2 DEF Indexes
<1>9. PoolIsShared'
  <2>. SUFFICES ASSUME Up'
       PROVE  /\ Shared(f, setKeyPool', Outstanding, overtaken')
              /\ \A mm, n \in Miners : reserved[mm] = reserved[n] /\ reserved[mm] # 0 =>
                                           mm = n \/ reserved[mm] \in overtaken'
    BY <1>1, <1>4, <1>5, <1>6, FileAssumption DEF PoolIsShared, Outstanding, Current, Awake
  <2>1. \A mm, n \in Miners : reserved[mm] = reserved[n] /\ reserved[mm] # 0 =>
                                  mm = n \/ reserved[mm] \in overtaken'
    BY <1>1, <1>6 DEF KInv, PoolIsShared, Up, Awake
  <2>2. Shared(f, setKeyPool', Outstanding, overtaken') BY <1>2, <1>6, <1>7, <1>8 DEF Shared
  <2>. QED BY <2>1, <2>2
<1>10. setKeyPool' \subseteq Keys BY <1>2, <1>6
<1>. QED BY <1>1, <1>3, <1>4, <1>5, <1>9, <1>10, OnlyToppedUp DEF KInv, KeysTypeOK

LEMMA TopUpKeyPoolKeeps == ASSUME KeysAssumption, KInv, TopUpKeyPool PROVE KInv'
<1>1. Awake /\ ~IsLocked BY DEF TopUpKeyPool
<1>2. PICK m \in 0 .. Missing :
        /\ TopUp(m)
        /\ setKeyPool' = PoolAfter(m)
        /\ file' = FileAfter(m)
        /\ vMasterKey' \in {vMasterKey, 0}
  BY DEF TopUpKeyPool
<1>3. m \in Nat BY <1>2, MissingIsNatural
<1>4. UNCHANGED <<mapMasterKeys, vchDefaultKey, reserved, candidate, mined, pc, rewritten,
                  residue, leaked, crashes, used, phrase, lastPlain, spared, cutShort>>
  BY DEF TopUpKeyPool, mining
<1>5. /\ FileAfter(m) \in WalletFile
      /\ PoolAfter(m) \subseteq Keys /\ overtaken \subseteq overtaken'
      /\ Shared(FileAfter(m), PoolAfter(m), Outstanding, overtaken')
  BY <1>1, <1>2, <1>3, ToppedUp
<1>6. PoolIsShared'
  <2>. SUFFICES ASSUME Up'
       PROVE  /\ Shared(file', setKeyPool', Outstanding, overtaken')
              /\ \A mm, n \in Miners : reserved[mm] = reserved[n] /\ reserved[mm] # 0 =>
                                           mm = n \/ reserved[mm] \in overtaken'
    BY <1>1, <1>2, <1>4, <1>5, FileAssumption DEF PoolIsShared, Outstanding, Current, Awake
  <2>1. \A mm, n \in Miners : reserved[mm] = reserved[n] /\ reserved[mm] # 0 =>
                                  mm = n \/ reserved[mm] \in overtaken'
    BY <1>1, <1>5 DEF KInv, PoolIsShared, Up, Awake
  <2>. QED BY <1>2, <1>5, <2>1
<1>. QED BY <1>1, <1>2, <1>3, <1>4, <1>5, <1>6, OnlyToppedUp DEF KInv, KeysTypeOK

LEMMA CreateNewBlockKeeps ==
    ASSUME KeysAssumption, KInv, NEW w \in Miners, CreateNewBlock(w) PROVE KInv'
<1> DEFINE m == Missing
           f == FileAfter(m)
<1>1. Awake /\ reserved[w] = 0 /\ m \in Nat /\ (m > 0 => ~IsLocked)
  BY MissingIsNatural DEF CreateNewBlock
<1>2. TopUp(m) BY DEF CreateNewBlock, Reserve
<1>3. file' = f BY DEF CreateNewBlock
<1>4. UNCHANGED <<vMasterKey, mapMasterKeys, vchDefaultKey, mined, pc, rewritten,
                  residue, leaked, crashes, used, phrase, lastPlain, spared, cutShort>>
  BY DEF CreateNewBlock
<1>5. reserved \in [Miners -> Keys \union {0}] /\ candidate \in [Miners -> Keys \union {0}]
  BY DEF KInv, KeysTypeOK
<1>6. CASE \E i \in Keys :
             /\ Reserve(i)
             /\ f.pool[i] # 0
             /\ setKeyPool' = PoolAfter(m) \ {i}
             /\ reserved' = [reserved EXCEPT ![w] = i]
             /\ candidate' = [candidate EXCEPT ![w] = f.pool[i]]
  <2>1. PICK i \in Keys :
             /\ Reserve(i)
             /\ f.pool[i] # 0
             /\ setKeyPool' = PoolAfter(m) \ {i}
             /\ reserved' = [reserved EXCEPT ![w] = i]
             /\ candidate' = [candidate EXCEPT ![w] = f.pool[i]]
    BY <1>6
  <2>2. PoolAfter(m) # {} /\ i = Least(PoolAfter(m)) BY <2>1 DEF Reserve
  <2>. HIDE DEF m
  <2>3. /\ f \in WalletFile /\ FileSound(f, nKeys + m, used)
        /\ PoolAfter(m) \subseteq Keys /\ overtaken \subseteq overtaken'
        /\ Shared(f, PoolAfter(m), Outstanding, overtaken')
    BY <1>1, <1>2, ToppedUp
  <2>. HIDE DEF f
  <2>4. i \in PoolAfter(m) BY <2>2, <2>3, LeastKey
  <2>5. i \in Indexes(f) BY <2>1 DEF Indexes
  <2>6. f.pool[i] \in Owned(f) BY <2>3, <2>5 DEF FileSound
  <2>7. f.pool[i] \in Keys BY <2>1, <2>3 DEF WalletFile
  <2>8. /\ reserved' \in [Miners -> Keys \union {0}] /\ candidate' \in [Miners -> Keys \union {0}]
        /\ \A n \in Miners : reserved'[n] = IF n = w THEN i ELSE reserved[n]
        /\ \A n \in Miners : candidate'[n] = IF n = w THEN f.pool[i] ELSE candidate[n]
    BY <1>5, <2>1, <2>7
  <2>9. i # 0 BY DEF Keys
  <2>10. Outstanding' = Outstanding \union {i}
    BY <1>1, <2>8, <2>9 DEF Outstanding
  <2>11. PoolIsShared'
    <3>. SUFFICES ASSUME Up'
         PROVE  /\ Shared(f, setKeyPool', Outstanding', overtaken')
                /\ \A mm, n \in Miners : reserved'[mm] = reserved'[n] /\ reserved'[mm] # 0 =>
                                             mm = n \/ reserved'[mm] \in overtaken'
      BY <1>1, <1>3, <1>4, <2>3, FileAssumption DEF PoolIsShared, Current, Awake
    <3>1. \A mm, n \in Miners : reserved[mm] = reserved[n] /\ reserved[mm] # 0 =>
                                    mm = n \/ reserved[mm] \in overtaken'
      BY <1>1, <2>3 DEF KInv, PoolIsShared, Up, Awake
    <3>2. \A n \in Miners : reserved[n] = i => i \in overtaken'
      BY <2>3, <2>4, <2>9 DEF Outstanding, Shared
    <3>3. \A mm, n \in Miners : reserved'[mm] = reserved'[n] /\ reserved'[mm] # 0 =>
                                    mm = n \/ reserved'[mm] \in overtaken'
      BY <2>8, <2>9, <3>1, <3>2
    <3>4. Shared(f, setKeyPool', Outstanding', overtaken')
      BY <2>1, <2>3, <2>4, <2>5, <2>10 DEF Shared
    <3>. QED BY <3>3, <3>4
  <2>12. setKeyPool' \subseteq Keys BY <2>1, <2>3
  <2>13. \A n \in Miners : candidate'[n] # 0 => candidate[n] = candidate'[n] \/ candidate'[n] \in Owned(file')
    BY <1>3, <2>6, <2>8
  <2>. QED BY <1>1, <1>2, <1>3, <1>4, <2>8, <2>11, <2>12, <2>13, OnlyToppedUp DEF f
<1>7. CASE /\ PoolAfter(m) = {}
           /\ candidate' = [candidate EXCEPT ![w] = vchDefaultKey]
           /\ UNCHANGED <<setKeyPool, reserved>>
  <2>. HIDE DEF m
  <2>1. /\ f \in WalletFile /\ FileSound(f, nKeys + m, used) /\ f.defaultkey = file.defaultkey
        /\ PoolAfter(m) \subseteq Keys /\ overtaken \subseteq overtaken'
        /\ Shared(f, PoolAfter(m), Outstanding, overtaken')
    BY <1>1, <1>2, ToppedUp
  <2>. HIDE DEF f
  <2>2. setKeyPool = {} BY <1>7 DEF PoolAfter
  <2>3. vchDefaultKey \in Owned(f) BY <1>1, <2>1, AwakeFacts DEF FileSound
  <2>4. vchDefaultKey \in Keys BY <2>1, <2>3 DEF Owned, WalletFile
  <2>5. /\ candidate' \in [Miners -> Keys \union {0}]
        /\ \A n \in Miners : candidate'[n] # 0 => candidate[n] = candidate'[n] \/ candidate'[n] \in Owned(file')
    BY <1>3, <1>5, <1>7, <2>3, <2>4
  <2>6. PoolIsShared'
    <3>. SUFFICES ASSUME Up'
         PROVE  /\ Shared(f, setKeyPool, Outstanding, overtaken')
                /\ \A mm, n \in Miners : reserved[mm] = reserved[n] /\ reserved[mm] # 0 =>
                                             mm = n \/ reserved[mm] \in overtaken'
      BY <1>1, <1>3, <1>4, <1>7, <2>1, FileAssumption DEF PoolIsShared, Outstanding, Current, Awake
    <3>1. \A mm, n \in Miners : reserved[mm] = reserved[n] /\ reserved[mm] # 0 =>
                                    mm = n \/ reserved[mm] \in overtaken'
      BY <1>1, <2>1 DEF KInv, PoolIsShared, Up, Awake
    <3>. QED BY <1>7, <2>1, <2>2, <3>1
  <2>. QED
    BY <1>1, <1>2, <1>3, <1>4, <1>5, <1>7, <2>2, <2>5, <2>6, OnlyToppedUp DEF f, KInv, KeysTypeOK
<1>. QED BY <1>6, <1>7 DEF CreateNewBlock

\* A step that leaves wallet.dat as it is.
LEMMA FileKept ==
    ASSUME KeysAssumption, KInv, Awake,
           UNCHANGED <<store, vchDefaultKey, pc, disk, nKeys, crashes, used, phrase, lastPlain,
                       overtaken, spared, cutShort>>,
           mined' \subseteq mined \union Owned(file),
           vMasterKey' \in Masters \union {0}, ~fUseCrypto => vMasterKey' = 0,
           vMasterKey' # 0 => file.mkey[vMasterKey'] # Nil,
           leaked' \in BOOLEAN, setKeyPool' \subseteq Keys,
           reserved' \in [Miners -> Keys \union {0}], candidate' \in [Miners -> Keys \union {0}],
           \A m \in Miners : candidate'[m] # 0 => candidate'[m] \in Owned(file),
           mapMasterKeys' \in [Masters -> Phrases \union {Nil}],
           leaked' => leaked \/ ~fUseCrypto,
           ~leaked' => ~leaked /\ mapMasterKeys' = mapMasterKeys,
           PoolIsShared'
    PROVE  KInv'
<1>1. /\ pc = "idle" /\ Current = file /\ file \in WalletFile
      /\ FileSound(file, nKeys, used)
      /\ mapKeys = file.key /\ mapCryptedKeys = file.ckey
      /\ fUseCrypto <=> Encrypted(file)
      /\ vchDefaultKey = file.defaultkey
  BY AwakeFacts
<1>2. file' = file /\ rewritten' = rewritten /\ residue' = residue /\ mapKeys' = mapKeys
      /\ mapCryptedKeys' = mapCryptedKeys /\ fUseCrypto' = fUseCrypto /\ nKeys' = nKeys /\ used' = used
      /\ pc' = pc /\ vchDefaultKey' = vchDefaultKey /\ crashes' = crashes /\ phrase' = phrase
      /\ lastPlain' = lastPlain /\ overtaken' = overtaken /\ spared' = spared
      /\ cutShort' = cutShort
  BY DEF disk, store
<1>3. Current' = file /\ Current # Nil /\ Up' /\ Up
  BY <1>1, <1>2, FileAssumption DEF Current, Up
<1>4. Owned(file) \subseteq Keys BY <1>1 DEF Owned, WalletFile
<1>5. KeysTypeOK'
  <2>2. mined' \subseteq Keys BY <1>4 DEF KInv, KeysTypeOK
  <2>3. fUseCrypto' \in BOOLEAN BY <1>2, Zenon DEF KInv, KeysTypeOK
  <2>4. pc' # "down" => IF fUseCrypto' THEN mapKeys' = {}
                        ELSE vMasterKey' = 0 /\ mapCryptedKeys' = [k \in Keys |-> 0]
    BY <1>1, <1>2 DEF KInv, KeysTypeOK
  <2>. QED BY <1>2, <2>2, <2>3, <2>4 DEF KInv, KeysTypeOK
<1>6. Phases' BY <1>1, <1>2 DEF KInv, Phases, Awake
<1>7. Mirrored'
  <2>1. vMasterKey' # 0 => file.mkey[vMasterKey'] # Nil OBVIOUS
  <2>. QED BY <1>1, <1>2, <1>3, <2>1, Zenon DEF Mirrored
<1>8. FileSound(Current', nKeys', used') BY <1>1, <1>2, <1>3
<1>9. OneMaster'
  <2>1. Sealed(file, phrase) /\ (~leaked => mapMasterKeys = file.mkey)
    BY <1>1, <1>3 DEF KInv, OneMaster
  <2>. QED BY <1>2, <1>3, <2>1 DEF OneMaster
<1>10. CleanedUp' BY <1>2 DEF KInv, CleanedUp
<1>11. PoolIsNew' BY <1>1, <1>2, <1>3 DEF KInv, PoolIsNew
<1>12. KeysAreCounted'
  <2>1. \A k \in Owned(file) : k <= nKeys BY <1>1 DEF FileSound
  <2>. QED BY <1>2, <2>1 DEF KInv, KeysAreCounted
<1>13. HandedOutOnce' BY <1>2 DEF KInv, HandedOutOnce
<1>14. KeysOnDisk' BY <1>1, <1>2, <1>3, <1>8, StaysOnDisk DEF KInv
<1>. QED
  BY <1>5, <1>6, <1>7, <1>8, <1>9, <1>10, <1>11, <1>12, <1>13, <1>14, Zenon DEF KInv

LEMMA ReturnKeyKeeps ==
    ASSUME KeysAssumption, KInv, NEW w \in Miners, ReturnKey(w) PROVE KInv'
<1>1. /\ Awake /\ reserved[w] # 0
      /\ setKeyPool' = setKeyPool \union {reserved[w]}
      /\ reserved' = [reserved EXCEPT ![w] = 0]
      /\ UNCHANGED <<store, vMasterKey, mapMasterKeys, vchDefaultKey, candidate, mined, pc, disk,
                     leaked, nKeys, crashes, used, phrase, lastPlain, overtaken,
                     spared, cutShort>>
  BY DEF ReturnKey, history
<1>2. /\ setKeyPool \subseteq Keys /\ reserved \in [Miners -> Keys \union {0}]
      /\ candidate \in [Miners -> Keys \union {0}] /\ leaked \in BOOLEAN
      /\ mapMasterKeys \in [Masters -> Phrases \union {Nil}] /\ vMasterKey \in Masters \union {0}
      /\ ~fUseCrypto => vMasterKey = 0
  BY <1>1 DEF KInv, KeysTypeOK, Awake
<1>3. setKeyPool' \subseteq Keys /\ reserved' \in [Miners -> Keys \union {0}]
  BY <1>1, <1>2
<1>4. \A n \in Miners : reserved'[n] = IF n = w THEN 0 ELSE reserved[n] BY <1>1, <1>2
<1>5. Current = file /\ Current' = file BY <1>1 DEF Current, Awake, disk
<1>6. vMasterKey # 0 => file.mkey[vMasterKey] # Nil BY <1>1, AwakeFacts
<1>7. \A m \in Miners : candidate[m] # 0 => candidate[m] \in Owned(file)
  BY <1>1, <1>5 DEF KInv, Mirrored, Up, Awake
<1>8. PoolIsShared'
  <2> DEFINE i == reserved[w]
  <2>. SUFFICES /\ Shared(file, setKeyPool', Outstanding', overtaken)
                /\ \A m, n \in Miners : reserved'[m] = reserved'[n] /\ reserved'[m] # 0 =>
                                             m = n \/ reserved'[m] \in overtaken
    BY <1>1, <1>5 DEF PoolIsShared
  <2>1. /\ Shared(file, setKeyPool, Outstanding, overtaken)
        /\ \A m, n \in Miners : reserved[m] = reserved[n] /\ reserved[m] # 0 =>
                                     m = n \/ reserved[m] \in overtaken
    BY <1>1, <1>5 DEF KInv, PoolIsShared, Up, Awake
  <2>2. Outstanding' \subseteq Outstanding /\ Outstanding \subseteq Outstanding' \union {i}
    BY <1>4 DEF Outstanding
  <2>3. i \in Outstanding BY <1>1 DEF Outstanding
  <2>4. i \in Outstanding' => i \in overtaken
    BY <1>1, <1>4, <2>1 DEF Outstanding
  <2>. HIDE DEF i
  <2>5. setKeyPool' = setKeyPool \union {i} BY <1>1 DEF i
  <2>6. Shared(file, setKeyPool', Outstanding', overtaken)
    BY <2>1, <2>2, <2>3, <2>4, <2>5 DEF Shared
  <2>. QED BY <1>4, <2>1, <2>6
<1>. QED BY <1>1, <1>2, <1>3, <1>6, <1>7, <1>8, FileKept

\* The reserve keys and the pool are left alone.
LEMMA PoolStays ==
    ASSUME KInv, UNCHANGED <<setKeyPool, reserved, overtaken, pc, file, rewritten>>
    PROVE  PoolIsShared'
  BY DEF KInv, PoolIsShared, Up, Current, Outstanding, Indexes

LEMMA CheckWorkKeeps ==
    ASSUME KeysAssumption, KInv, NEW w \in Miners, CheckWork(w) PROVE KInv'
<1>1. /\ Awake /\ candidate[w] # 0
      /\ mined' = mined \union {candidate[w]}
      /\ candidate' = [candidate EXCEPT ![w] = 0]
      /\ UNCHANGED <<store, vMasterKey, mapMasterKeys, setKeyPool, vchDefaultKey, reserved, pc,
                     disk, leaked, nKeys, crashes, used, phrase, lastPlain, overtaken,
                     spared, cutShort>>
  BY DEF CheckWork, history
<1>2. /\ setKeyPool \subseteq Keys /\ reserved \in [Miners -> Keys \union {0}]
      /\ candidate \in [Miners -> Keys \union {0}] /\ leaked \in BOOLEAN
      /\ mapMasterKeys \in [Masters -> Phrases \union {Nil}] /\ vMasterKey \in Masters \union {0}
      /\ ~fUseCrypto => vMasterKey = 0
  BY <1>1 DEF KInv, KeysTypeOK, Awake
<1>3. vMasterKey # 0 => file.mkey[vMasterKey] # Nil BY <1>1, AwakeFacts
<1>4. \A m \in Miners : candidate[m] # 0 => candidate[m] \in Owned(file)
  BY <1>1 DEF KInv, Mirrored, Up, Awake, Current
<1>5. candidate' \in [Miners -> Keys \union {0}] BY <1>1, <1>2
<1>6. \A m \in Miners : candidate'[m] # 0 => candidate'[m] \in Owned(file)
  BY <1>1, <1>2, <1>4
<1>7. mined' \subseteq mined \union Owned(file) BY <1>1, <1>4
<1>8. PoolIsShared' BY <1>1, PoolStays DEF disk
<1>. QED BY <1>1, <1>2, <1>3, <1>5, <1>6, <1>7, <1>8, FileKept

LEMMA LockKeeps == ASSUME KeysAssumption, KInv, Lock PROVE KInv'
<1>1. /\ Awake
      /\ vMasterKey' = 0
      /\ UNCHANGED <<store, mapMasterKeys, setKeyPool, vchDefaultKey, reserved, candidate, mined, pc,
                     disk, leaked, nKeys, crashes, used, phrase, lastPlain, overtaken,
                     spared, cutShort>>
  BY DEF Lock, history, mining
<1>2. /\ setKeyPool \subseteq Keys /\ reserved \in [Miners -> Keys \union {0}]
      /\ candidate \in [Miners -> Keys \union {0}] /\ leaked \in BOOLEAN
      /\ mapMasterKeys \in [Masters -> Phrases \union {Nil}]
  BY DEF KInv, KeysTypeOK
<1>3. \A m \in Miners : candidate[m] # 0 => candidate[m] \in Owned(file)
  BY <1>1 DEF KInv, Mirrored, Up, Awake, Current
<1>4. PoolIsShared' BY <1>1, PoolStays DEF disk
<1>. QED BY <1>1, <1>2, <1>3, <1>4, FileKept

\* What a passphrase opens is a master key some key of the wallet needs.
LEMMA OpensAMaster ==
    ASSUME KInv, Up, Current # Nil, fUseCrypto, NEW p, NEW id \in Masters, Opens(p, id)
    PROVE  Current.mkey[id] # Nil
<1> DEFINE crypted == {k \in Keys : mapCryptedKeys[k] # 0}
<1>1. Encrypted(Current) /\ mapCryptedKeys = Current.ckey
      /\ \A k \in Keys : Current.ckey[k] # 0 => Current.mkey[Current.ckey[k]] # Nil
  BY DEF KInv, Mirrored, FileSound
<1>2. crypted # {} BY <1>1 DEF Encrypted
<1>3. mapCryptedKeys[Least(crypted)] = id BY <1>2 DEF Opens
<1>4. Least(crypted) \in crypted BY <1>2, LeastKey
<1>. QED BY <1>1, <1>3, <1>4

LEMMA UnlockKeeps ==
    ASSUME KeysAssumption, KInv, NEW p \in Phrases, Unlock(p) PROVE KInv'
<1>1. /\ Awake /\ IsLocked
      /\ UNCHANGED <<store, mapMasterKeys, setKeyPool, vchDefaultKey, reserved, candidate, mined, pc,
                     disk, leaked, nKeys, crashes, used, phrase, lastPlain, overtaken,
                     spared, cutShort>>
  BY DEF Unlock, history, mining
<1>2. PICK id \in Masters : Opens(p, id) /\ vMasterKey' = id BY DEF Unlock
<1>3. /\ setKeyPool \subseteq Keys /\ reserved \in [Miners -> Keys \union {0}]
      /\ candidate \in [Miners -> Keys \union {0}] /\ leaked \in BOOLEAN
      /\ mapMasterKeys \in [Masters -> Phrases \union {Nil}]
  BY DEF KInv, KeysTypeOK
<1>4. \A m \in Miners : candidate[m] # 0 => candidate[m] \in Owned(file)
  BY <1>1 DEF KInv, Mirrored, Up, Awake, Current
<1>5. PoolIsShared' BY <1>1, PoolStays DEF disk
<1>6. Current = file /\ file # Nil /\ Up /\ fUseCrypto
  BY <1>1, AwakeFacts DEF Awake, Up, IsLocked
<1>7. file.mkey[id] # Nil BY <1>2, <1>6, OpensAMaster
<1>. QED BY <1>1, <1>2, <1>3, <1>4, <1>5, <1>6, <1>7, FileKept

LEMMA EncryptNotBegunKeeps ==
    ASSUME KeysAssumption, KInv, NEW p \in Phrases, EncryptNotBegun(p) PROVE KInv'
<1>1. /\ Awake /\ ~fUseCrypto
      /\ mapMasterKeys' = [mapMasterKeys EXCEPT ![NewMaster] = p]
      /\ leaked' = TRUE
      /\ UNCHANGED <<store, vMasterKey, setKeyPool, vchDefaultKey, reserved, candidate, mined, pc,
                     disk, nKeys, crashes, used, phrase, lastPlain, overtaken, spared, cutShort>>
  BY DEF EncryptNotBegun, mining, history
<1>2. /\ setKeyPool \subseteq Keys /\ reserved \in [Miners -> Keys \union {0}]
      /\ candidate \in [Miners -> Keys \union {0}]
      /\ mapMasterKeys \in [Masters -> Phrases \union {Nil}]
      /\ vMasterKey = 0
  BY <1>1 DEF KInv, KeysTypeOK, Awake
<1>3. mapMasterKeys' \in [Masters -> Phrases \union {Nil}] BY <1>1, <1>2
<1>4. \A m \in Miners : candidate[m] # 0 => candidate[m] \in Owned(file)
  BY <1>1 DEF KInv, Mirrored, Up, Awake, Current
<1>5. PoolIsShared'
  BY <1>1, PoolStays DEF disk
<1>. QED BY <1>1, <1>2, <1>3, <1>4, <1>5, FileKept

LEMMA ChangeWalletPassphraseKeeps ==
    ASSUME KeysAssumption, KInv, NEW old \in Phrases, NEW new \in Phrases,
           ChangeWalletPassphrase(old, new)
    PROVE  KInv'
<1>1. /\ Awake /\ fUseCrypto
      /\ UNCHANGED <<store, setKeyPool, vchDefaultKey, reserved, candidate, mined, pc, rewritten,
                     residue, leaked, nKeys, crashes, used, lastPlain, overtaken, spared, cutShort>>
  BY DEF ChangeWalletPassphrase, mining
<1>2. /\ setKeyPool \subseteq Keys /\ reserved \in [Miners -> Keys \union {0}]
      /\ candidate \in [Miners -> Keys \union {0}] /\ leaked \in BOOLEAN
      /\ mapMasterKeys \in [Masters -> Phrases \union {Nil}]
  BY DEF KInv, KeysTypeOK
<1>3. \A m \in Miners : candidate[m] # 0 => candidate[m] \in Owned(file)
  BY <1>1 DEF KInv, Mirrored, Up, Awake, Current
<1>4. /\ pc = "idle" /\ Current = file /\ file \in WalletFile /\ Up /\ file # Nil
      /\ FileSound(file, nKeys, used)
      /\ mapKeys = file.key /\ mapCryptedKeys = file.ckey
      /\ fUseCrypto <=> Encrypted(file)
      /\ vchDefaultKey = file.defaultkey
  BY <1>1, AwakeFacts DEF Awake, Up
<1>5. CASE /\ vMasterKey' = 0
           /\ UNCHANGED <<mapMasterKeys, file, phrase>>
  <2>1. PoolIsShared' BY <1>1, <1>5, PoolStays
  <2>2. UNCHANGED disk BY <1>1, <1>5 DEF disk
  <2>. QED BY <1>1, <1>2, <1>3, <1>5, <2>1, <2>2, FileKept
<1>6. CASE \E id \in Masters :
             /\ Opens(old, id)
             /\ mapMasterKeys' = [mapMasterKeys EXCEPT ![id] = new]
             /\ file' = Changed(id, new)
             /\ vMasterKey' = IF IsLocked THEN 0 ELSE id
             /\ phrase' = new
  <2>1. PICK id \in Masters :
             /\ Opens(old, id)
             /\ mapMasterKeys' = [mapMasterKeys EXCEPT ![id] = new]
             /\ file' = Changed(id, new)
             /\ vMasterKey' = IF IsLocked THEN 0 ELSE id
             /\ phrase' = new
    BY <1>6
  <2>2. file.mkey[id] # Nil BY <1>1, <1>4, <2>1, OpensAMaster
  <2> DEFINE x == [file.mkey EXCEPT ![id] = new]
  <2>3. /\ file.mkey \in [Masters -> Phrases \union {Nil}] /\ x \in [Masters -> Phrases \union {Nil}]
        /\ \A j \in Masters : x[j] = IF j = id THEN new ELSE file.mkey[j]
        /\ new # Nil
    BY <1>4 DEF WalletFile, KeysAssumption
  <2>4. file' = [file EXCEPT !.mkey = x] BY <2>1 DEF Changed
  <2>. HIDE DEF x
  <2>5. /\ file' \in WalletFile /\ file'.key = file.key /\ file'.ckey = file.ckey
        /\ file'.mkey = x /\ file'.pool = file.pool /\ file'.defaultkey = file.defaultkey
    BY <1>4, <2>3, <2>4, Written
  <2>6. /\ Owned(file') = Owned(file) /\ (Encrypted(file') <=> Encrypted(file))
        /\ Indexes(file') = Indexes(file)
    BY <2>5 DEF Owned, Encrypted, Indexes
  <2>7. /\ Current' = file' /\ file' # Nil /\ Up'
        /\ mapKeys' = file.key /\ mapCryptedKeys' = file.ckey /\ fUseCrypto' = fUseCrypto
    BY <1>1, <1>4, <2>5, FileAssumption DEF Current, Up, store
  <2>8. \A k \in Keys : file.ckey[k] # 0 => x[file.ckey[k]] # Nil
    <3>1. file.ckey \in [Keys -> Masters \union {0}] BY <1>4 DEF WalletFile
    <3>. QED BY <1>4, <2>3, <3>1 DEF FileSound
  <2>9. FileSound(file', nKeys', used')
    BY <1>1, <1>4, <2>5, <2>6, <2>8 DEF FileSound
  <2>10. KeysTypeOK'
    <3>1. mapMasterKeys' \in [Masters -> Phrases \union {Nil}] BY <1>2, <2>1
    <3>2. vMasterKey' \in Masters \union {0} BY <2>1
    <3>3. fUseCrypto' \in BOOLEAN BY <2>7, Zenon DEF KInv, KeysTypeOK
    <3>4. pc' # "down" => IF fUseCrypto' THEN mapKeys' = {}
                          ELSE vMasterKey' = 0 /\ mapCryptedKeys' = [k \in Keys |-> 0]
      BY <1>1, <1>4, <2>7 DEF FileSound
    <3>. QED BY <1>1, <2>1, <2>5, <3>1, <3>2, <3>3, <3>4 DEF KInv, KeysTypeOK, store
  <2>11. Phases' BY <1>1, <1>4, <2>7 DEF KInv, Phases
  <2>12. Mirrored'
    <3>1. vMasterKey' # 0 => file'.mkey[vMasterKey'] # Nil BY <2>1, <2>3, <2>5
    <3>2. fUseCrypto' <=> Encrypted(file') BY <1>4, <2>6, <2>7, Zenon
    <3>3. \A m \in Miners : candidate'[m] # 0 => candidate'[m] \in Owned(file')
      BY <1>1, <1>3, <2>6
    <3>4. vchDefaultKey' = file'.defaultkey BY <1>1, <1>4, <2>5
    <3>. QED BY <2>5, <2>7, <3>1, <3>2, <3>3, <3>4, Zenon DEF Mirrored
  <2>13. PoolIsShared'
    BY <1>1, <1>4, <2>6, <2>7 DEF KInv, PoolIsShared, Shared, Outstanding
  <2>14. OneMaster'
    <3>1. /\ ~leaked /\ mapMasterKeys = file.mkey
          /\ \E j \in Masters : SealedBy(file, j, phrase)
      <4>1. ~leaked BY <1>1, <1>4 DEF KInv, Phases
      <4>2. Sealed(file, phrase) /\ mapMasterKeys = file.mkey BY <1>4, <4>1 DEF KInv, OneMaster
      <4>. QED BY <1>1, <1>4, <4>1, <4>2 DEF Sealed
    <3>2. SealedBy(file, id, phrase) BY <2>2, <3>1 DEF SealedBy
    <3>3. mapMasterKeys' = x BY <2>1, <3>1 DEF x
    <3>4. SealedBy(file', id, new) BY <2>3, <2>5, <3>2 DEF SealedBy
    <3>5. Encrypted(file') BY <1>1, <1>4, <2>6
    <3>6. Sealed(file', new) BY <3>4, <3>5 DEF Sealed
    <3>. QED BY <2>1, <2>5, <2>7, <3>3, <3>6 DEF OneMaster
  <2>15. CleanedUp' BY <1>1 DEF KInv, CleanedUp
  <2>16. PoolIsNew' BY <1>1, <1>4, <2>5, <2>6, <2>7 DEF KInv, PoolIsNew
  <2>17. KeysAreCounted' /\ HandedOutOnce'
    BY <1>1 DEF KInv, KeysAreCounted, HandedOutOnce
  <2>18. KeysOnDisk' BY <1>1, <1>4, <2>5, <2>6, <2>9, StaysOnDisk DEF KInv
  <2>. QED
    BY <2>7, <2>9, <2>10, <2>11, <2>12, <2>13, <2>14, <2>15, <2>16, <2>17, <2>18, Zenon DEF KInv
<1>. QED BY <1>5, <1>6 DEF ChangeWalletPassphrase

-----------------------------------------------------------------------------
(***************************************************************************)
(* The end of a process, and the start of the next.                        *)
(***************************************************************************)
LEMMA CrashInTopUpKeeps == ASSUME KeysAssumption, KInv, CrashInTopUp PROVE KInv'
<1>1. /\ Awake /\ crashes < MaxCrashes /\ Missing > 0 /\ nKeys < MaxKeys
      /\ file' = AddKeys({nKeys + 1})
      /\ nKeys' = nKeys + 1
      /\ crashes' = crashes + 1
      /\ pc' = "down"
      /\ UNCHANGED <<store, vMasterKey, mapMasterKeys, setKeyPool, vchDefaultKey, reserved, candidate,
                     mined, rewritten, residue, leaked, used, phrase, lastPlain, overtaken, spared,
                     cutShort>>
  BY DEF CrashInTopUp, mining, history
<1>2. ~IsLocked BY <1>1, MissingIsNatural
<1>3. nKeys \in Nat /\ MaxKeys \in Nat BY DEF KInv, KeysTypeOK, KeysAssumption
<1>4. nKeys + 1 .. nKeys + 1 = {nKeys + 1} BY <1>3
<1>5. /\ {nKeys + 1} \in SUBSET Keys /\ nKeys + 1 \in 0 .. MaxKeys
      /\ Owned(file') = Owned(file) \union {nKeys + 1}
      /\ fUseCrypto <=> Encrypted(file')
      /\ Encrypted(file') => file'.key = {}
      /\ \A k \in Keys : file'.ckey[k] # 0 => file'.mkey[file'.ckey[k]] # Nil
      /\ \A k \in Keys : file'.ckey[k] \in {0, vMasterKey, file.ckey[k]}
  <2> DEFINE new == nKeys + 1 .. nKeys + 1
             f == AddKeys(new)
  <2>1. 1 \in Nat /\ (1 > 0 => ~IsLocked) /\ nKeys + 1 <= MaxKeys BY <1>1, <1>2, <1>3
  <2>2. /\ new \in SUBSET Keys /\ nKeys + 1 \in 0 .. MaxKeys
        /\ Owned(f) = Owned(file) \union new
        /\ fUseCrypto <=> Encrypted(f)
        /\ Encrypted(f) => f.key = {}
        /\ \A k \in Keys : f.ckey[k] # 0 => f.mkey[f.ckey[k]] # Nil
        /\ \A k \in Keys : f.ckey[k] \in {0, vMasterKey, file.ckey[k]}
    BY <1>1, <2>1, KeysGenerated
  <2>3. file' = f /\ new = {nKeys + 1} BY <1>1, <1>4, Zenon
  <2>. HIDE DEF f, new
  <2>. QED BY <2>2, <2>3, Zenon
<1>6. /\ file' \in WalletFile /\ file'.mkey = file.mkey /\ file'.pool = file.pool
      /\ file'.defaultkey = file.defaultkey
  BY <1>1, <1>5, KeysAdded
<1>7. /\ pc = "idle" /\ Current = file /\ file \in WalletFile /\ Up /\ Current # Nil
      /\ FileSound(file, nKeys, used)
      /\ fUseCrypto <=> Encrypted(file)
      /\ vMasterKey # 0 => file.mkey[vMasterKey] # Nil
  BY <1>1, AwakeFacts DEF Awake, Up
<1>8. Current' = file' /\ ~Up' /\ file' # Nil BY <1>1, <1>6, FileAssumption DEF Current, Up
<1>9. FileSound(file', nKeys', used')
  <2>1. \A k \in Owned(file) : k <= nKeys /\ k \in Nat
    BY <1>7 DEF FileSound, Owned, WalletFile, Keys
  <2>2. \A k \in Owned(file') : k <= nKeys' BY <1>1, <1>3, <1>5, <2>1
  <2>3. Indexes(file') = Indexes(file) BY <1>6 DEF Indexes
  <2>4. /\ file'.defaultkey \in Owned(file')
        /\ \A i \in Indexes(file') : file'.pool[i] \in Owned(file') /\ used'[file'.pool[i]] = 0
        /\ \A i, j \in Indexes(file') : file'.pool[i] = file'.pool[j] => i = j
    <3>1. /\ file.defaultkey \in Owned(file)
          /\ \A i \in Indexes(file) : file.pool[i] \in Owned(file) /\ used[file.pool[i]] = 0
          /\ \A i, j \in Indexes(file) : file.pool[i] = file.pool[j] => i = j
      BY <1>7, Zenon DEF FileSound
    <3>2. Owned(file) \subseteq Owned(file') /\ used' = used BY <1>1, <1>5
    <3>. QED BY <1>6, <2>3, <3>1, <3>2
  <2>. QED BY <1>5, <2>2, <2>4, Zenon DEF FileSound
<1>10. KeysTypeOK'
  <2>1. fUseCrypto' \in BOOLEAN BY <1>1, Zenon DEF KInv, KeysTypeOK, store
  <2>2. crashes' \in 0 .. MaxCrashes BY <1>1 DEF KInv, KeysTypeOK, KeysAssumption
  <2>. QED BY <1>1, <1>5, <1>6, <2>1, <2>2 DEF KInv, KeysTypeOK, store
<1>11. Phases' BY <1>1, <1>7 DEF Phases
<1>12. Mirrored' /\ PoolIsShared' BY <1>8 DEF Mirrored, PoolIsShared
<1>13. OneMaster'
  <2>1. Sealed(file, phrase) BY <1>7 DEF KInv, OneMaster
  <2>2. Encrypted(file) <=> Encrypted(file') BY <1>5, <1>7, Zenon
  <2>3. vMasterKey \in Masters \union {0} BY DEF KInv, KeysTypeOK
  <2>4. \A k \in Keys : \/ file'.ckey[k] \in {0, file.ckey[k]}
                        \/ file'.ckey[k] \in Masters /\ file.mkey[file'.ckey[k]] # Nil
    BY <1>5, <1>7, <2>3
  <2>5. Sealed(file', phrase) BY <1>6, <1>7, <2>1, <2>2, <2>4, StaysSealed
  <2>. QED BY <1>1, <1>8, <2>5 DEF OneMaster
<1>14. CleanedUp' BY <1>1, <1>7 DEF KInv, CleanedUp
<1>15. PoolIsNew'
  <2>1. Encrypted(file') <=> Encrypted(file) BY <1>5, <1>7, Zenon
  <2>2. Indexes(file') = Indexes(file) BY <1>6 DEF Indexes
  <2>. QED BY <1>1, <1>6, <1>7, <1>8, <2>1, <2>2 DEF KInv, PoolIsNew
<1>16. KeysAreCounted'
  BY <1>1, <1>3 DEF KInv, KeysAreCounted, KeysTypeOK, Keys
<1>17. HandedOutOnce' BY <1>1 DEF KInv, HandedOutOnce
<1>18. KeysOnDisk'
  <2>1. Owned(file) \subseteq Owned(file') BY <1>5
  <2>. QED BY <1>1, <1>6, <1>7, <1>9, <2>1, StaysOnDisk DEF KInv
<1>. QED
  BY <1>8, <1>9, <1>10, <1>11, <1>12, <1>13, <1>14, <1>15, <1>16, <1>17, <1>18, Zenon DEF KInv

\* A process that dies leaves the files as they are.
LEMMA EndKeeps == ASSUME KeysAssumption, KInv, Crash \/ Shutdown PROVE KInv'
<1>1. /\ pc # "down" /\ pc' = "down"
      /\ crashes' \in 0 .. MaxCrashes
      /\ spared' = IF pc = "encrypted" THEN {file.pool[i] : i \in Keys} \ {0} ELSE spared
      /\ cutShort' = (cutShort \/ pc \in {"encrypted", "repooled", "copied"})
      /\ UNCHANGED <<store, vMasterKey, mapMasterKeys, setKeyPool, vchDefaultKey, reserved, candidate,
                     mined, disk, leaked, nKeys, used, phrase, lastPlain, overtaken>>
  <2>1. CASE Crash
    <3>1. crashes' \in 0 .. MaxCrashes BY <2>1 DEF Crash, KInv, KeysTypeOK, KeysAssumption
    <3>. QED BY <2>1, <3>1 DEF Crash, mining
  <2>2. CASE Shutdown
    <3>1. /\ pc = "idle" /\ pc' = "down" /\ crashes' \in 0 .. MaxCrashes
          /\ spared' = spared /\ cutShort' = cutShort /\ cutShort \in BOOLEAN
          /\ UNCHANGED <<store, vMasterKey, mapMasterKeys, setKeyPool, vchDefaultKey, reserved,
                         candidate, mined, disk, leaked, nKeys, used, phrase, lastPlain, overtaken>>
      BY <2>2 DEF Shutdown, mining, history, KInv, KeysTypeOK
    <3>. QED BY <3>1
  <2>. QED BY <2>1, <2>2
<1>2. Current' = Current BY <1>1 DEF Current, disk
<1>3. ~Up' BY <1>1 DEF Up
<1>4. KeysTypeOK'
  <2>1. fUseCrypto' \in BOOLEAN BY <1>1, Zenon DEF KInv, KeysTypeOK, store
  <2>2. spared' \subseteq Keys
    <3>1. CASE pc = "encrypted"
      <4>1. file \in WalletFile BY <3>1 DEF KInv, KeysTypeOK, Phases
      <4>. QED BY <1>1, <3>1, <4>1 DEF WalletFile
    <3>2. CASE pc # "encrypted" BY <1>1, <3>2 DEF KInv, KeysTypeOK
    <3>. QED BY <3>1, <3>2
  <2>3. cutShort' \in BOOLEAN BY <1>1 DEF KInv, KeysTypeOK
  <2>. QED BY <1>1, <2>1, <2>2, <2>3 DEF KInv, KeysTypeOK, store, disk
<1>5. Phases' BY <1>1 DEF Phases
<1>6. Mirrored' /\ PoolIsShared' BY <1>3 DEF Mirrored, PoolIsShared
<1>7. Current' # Nil => FileSound(Current', nKeys', used')
  BY <1>1, <1>2 DEF KInv
<1>8. OneMaster' BY <1>1, <1>2, <1>3 DEF KInv, OneMaster
<1>9. CleanedUp' BY <1>1 DEF KInv, CleanedUp, disk
<1>10. PoolIsNew'
  <2>1. CASE pc = "encrypted"
    <3>1. Current = file /\ file # Nil BY <2>1 DEF KInv, Phases, Current
    <3>2. \A i \in Indexes(file) : file.pool[i] \in spared' BY <1>1, <2>1 DEF Indexes
    <3>. QED BY <1>1, <1>2, <3>1, <3>2 DEF PoolIsNew, disk
  <2>2. CASE pc # "encrypted" BY <1>1, <1>2, <2>2 DEF KInv, PoolIsNew
  <2>. QED BY <2>1, <2>2
<1>11. KeysAreCounted' /\ HandedOutOnce' BY <1>1 DEF KInv, KeysAreCounted, HandedOutOnce
<1>12. KeysOnDisk' BY <1>1 DEF KInv, KeysOnDisk, disk, Recoverable
<1>. QED BY <1>4, <1>5, <1>6, <1>7, <1>8, <1>9, <1>10, <1>11, <1>12, Zenon DEF KInv

LEMMA StartKeeps == ASSUME KeysAssumption, KInv, Start PROVE KInv'
<1>1. /\ pc = "down" /\ file # Nil /\ pc' = "idle"
      /\ mapKeys' = file.key /\ mapCryptedKeys' = file.ckey
      /\ fUseCrypto' = Encrypted(file)
      /\ vMasterKey' = 0 /\ mapMasterKeys' = file.mkey
      /\ setKeyPool' = Indexes(file) /\ vchDefaultKey' = file.defaultkey
      /\ reserved' = [m \in Miners |-> 0] /\ candidate' = [m \in Miners |-> 0]
      /\ leaked' = FALSE /\ overtaken' = {}
      /\ UNCHANGED <<mined, file, rewritten, residue, nKeys, crashes, used, phrase, lastPlain, spared,
                     cutShort>>
  BY DEF Start, Encrypted, disk, history
<1>2. Current = file /\ Current' = file /\ Up' BY <1>1 DEF Current, Up
<1>3. file \in WalletFile /\ FileSound(file, nKeys, used)
  BY <1>1, <1>2 DEF KInv, KeysTypeOK
<1>4. KeysTypeOK'
  <2>1. fUseCrypto' \in BOOLEAN BY <1>1 DEF Encrypted
  <2>2. IF fUseCrypto' THEN mapKeys' = {}
        ELSE vMasterKey' = 0 /\ mapCryptedKeys' = [k \in Keys |-> 0]
    <3>1. CASE Encrypted(file) BY <1>1, <1>3, <3>1 DEF FileSound
    <3>2. CASE ~Encrypted(file)
      <4>1. file.ckey = [k \in Keys |-> 0] BY <1>3, <3>2 DEF Encrypted, WalletFile
      <4>. QED BY <1>1, <3>2, <4>1
    <3>. QED BY <3>1, <3>2
  <2>3. /\ file.key \subseteq Keys /\ file.ckey \in [Keys -> Masters \union {0}]
        /\ file.mkey \in [Masters -> Phrases \union {Nil}]
        /\ Indexes(file) \subseteq Keys /\ file.defaultkey \in Keys \union {0}
    BY <1>3 DEF WalletFile, Indexes
  <2>. QED BY <1>1, <2>1, <2>2, <2>3 DEF KInv, KeysTypeOK
<1>5. Phases' BY <1>1 DEF Phases
<1>6. Mirrored'
  <2>1. fUseCrypto' <=> Encrypted(file) BY <1>1, Zenon
  <2>. QED BY <1>1, <1>2, <2>1 DEF Mirrored
<1>7. PoolIsShared' BY <1>1, <1>2 DEF PoolIsShared, Shared, Outstanding
<1>8. OneMaster' BY <1>1, <1>2 DEF KInv, OneMaster
<1>9. CleanedUp' BY <1>1 DEF KInv, CleanedUp
<1>10. PoolIsNew' BY <1>1, <1>2 DEF KInv, PoolIsNew
<1>11. KeysAreCounted' /\ HandedOutOnce' BY <1>1 DEF KInv, KeysAreCounted, HandedOutOnce
<1>12. KeysOnDisk' BY <1>1 DEF KInv, KeysOnDisk, Recoverable
<1>. QED
  BY <1>1, <1>2, <1>3, <1>4, <1>5, <1>6, <1>7, <1>8, <1>9, <1>10, <1>11, <1>12, Zenon DEF KInv

LEMMA FirstRunKeeps == ASSUME KeysAssumption, KInv, FirstRun PROVE KInv'
<1> DEFINE new == nKeys + 1 .. nKeys + nKeyPool + 1
           noKey == [k \in Keys |-> 0]
           noMaster == [id \in Masters |-> Nil]
           pool == [i \in Keys |-> IF i \in 2 .. nKeyPool + 1 THEN nKeys + i ELSE 0]
           f == [key |-> new, ckey |-> noKey, mkey |-> noMaster, pool |-> pool, defaultkey |-> nKeys + 1]
<1>1. /\ pc = "down" /\ file = Nil /\ pc' = "idle"
      /\ nKeys + nKeyPool + 1 <= MaxKeys /\ nKeys' = nKeys + nKeyPool + 1
      /\ mapKeys' = new /\ mapCryptedKeys' = noKey /\ fUseCrypto' = FALSE
      /\ file' = f
      /\ vMasterKey' = 0 /\ mapMasterKeys' = noMaster
      /\ setKeyPool' = 2 .. nKeyPool + 1 /\ vchDefaultKey' = nKeys + 1
      /\ used' = [used EXCEPT ![nKeys + 1] = @ + 1]
      /\ reserved' = [m \in Miners |-> 0] /\ candidate' = [m \in Miners |-> 0]
      /\ leaked' = FALSE /\ residue' = FALSE /\ phrase' = Nil /\ lastPlain' = 0
      /\ overtaken' = {} /\ spared' = {} /\ cutShort' = FALSE
      /\ UNCHANGED <<mined, rewritten, crashes>>
  BY DEF FirstRun
<1>2. nKeys \in Nat /\ MaxKeys \in Nat /\ nKeyPool \in Nat \ {0}
  BY DEF KInv, KeysTypeOK, KeysAssumption
<1>3. /\ new \in SUBSET Keys /\ nKeys + 1 \in new /\ nKeys + 1 \in Keys
      /\ 2 .. nKeyPool + 1 \in SUBSET Keys
      /\ \A i \in 2 .. nKeyPool + 1 : nKeys + i \in new /\ nKeys + i # 0 /\ nKeys + i # nKeys + 1
  BY <1>1, <1>2 DEF Keys
<1>4. /\ noKey \in [Keys -> Masters \union {0}] /\ noMaster \in [Masters -> Phrases \union {Nil}]
      /\ pool \in [Keys -> Keys \union {0}]
      /\ \A k \in Keys : noKey[k] = 0
      /\ \A id \in Masters : noMaster[id] = Nil
      /\ \A i \in Keys : pool[i] = IF i \in 2 .. nKeyPool + 1 THEN nKeys + i ELSE 0
  BY <1>3
<1>5. used \in [Keys -> Nat] /\ used[nKeys + 1] = 0
      /\ \A k \in Keys : used[k] > 0 => k <= nKeys
  BY <1>2, <1>3 DEF KInv, KeysTypeOK, KeysAreCounted
<1>6. used' \in [Keys -> Nat] /\ \A k \in Keys : used'[k] = IF k = nKeys + 1 THEN 1 ELSE used[k]
  BY <1>1, <1>3, <1>5
<1>. HIDE DEF noKey, noMaster, pool
<1>7. /\ f \in WalletFile /\ f.key = new /\ f.ckey = noKey /\ f.mkey = noMaster /\ f.pool = pool
      /\ f.defaultkey = nKeys + 1
  BY <1>3, <1>4 DEF WalletFile
<1>. HIDE DEF f
<1>8. Owned(f) = new /\ ~Encrypted(f) BY <1>4, <1>7 DEF Owned, Encrypted
<1>9. Indexes(f) = 2 .. nKeyPool + 1 /\ \A i \in Indexes(f) : f.pool[i] = nKeys + i
  BY <1>3, <1>4, <1>7 DEF Indexes
<1>10. FileSound(f, nKeys', used')
  <2>1. \A k \in Owned(f) : k <= nKeys' BY <1>1, <1>2, <1>8
  <2>2. ASSUME NEW i \in Indexes(f) PROVE f.pool[i] \in Owned(f) /\ used'[f.pool[i]] = 0
    <3>1. /\ f.pool[i] = nKeys + i /\ nKeys + i \in new /\ nKeys + i # nKeys + 1
          /\ nKeys + i \in Keys /\ i \in Nat /\ i >= 2
      BY <1>3, <1>9
    <3>2. used[nKeys + i] = 0 BY <1>2, <1>5, <3>1
    <3>. QED BY <1>6, <1>8, <3>1, <3>2
  <2>3. \A i, j \in Indexes(f) : f.pool[i] = f.pool[j] => i = j
    <3>. HIDE DEF new
    <3>. QED BY <1>2, <1>9
  <2>. QED BY <1>3, <1>4, <1>7, <1>8, <2>1, <2>2, <2>3 DEF FileSound
<1>11. Current' = f /\ Up' /\ f # Nil BY <1>1, <1>7, FileAssumption DEF Current, Up
<1>12. KeysTypeOK'
  <2>1. mapCryptedKeys' = [k \in Keys |-> 0] BY <1>1 DEF noKey
  <2>2. nKeys' \in 0 .. MaxKeys /\ lastPlain' \in 0 .. MaxKeys BY <1>1, <1>2
  <2>3. setKeyPool' \subseteq Keys /\ mapKeys' \subseteq Keys BY <1>1, <1>3
  <2>4. /\ mapCryptedKeys' \in [Keys -> Masters \union {0}]
        /\ mapMasterKeys' \in [Masters -> Phrases \union {Nil}]
        /\ file' \in WalletFile \union {Nil} /\ used' \in [Keys -> Nat]
        /\ vchDefaultKey' \in Keys \union {0}
    BY <1>1, <1>3, <1>4, <1>6, <1>7
  <2>5. /\ reserved' \in [Miners -> Keys \union {0}] /\ candidate' \in [Miners -> Keys \union {0}]
        /\ rewritten' \in WalletFile \union {Nil} /\ mined' \subseteq Keys
        /\ overtaken' \subseteq Keys /\ spared' \subseteq Keys /\ cutShort' \in BOOLEAN
        /\ crashes' \in 0 .. MaxCrashes
    BY <1>1 DEF KInv, KeysTypeOK
  <2>6. /\ vMasterKey' = 0 /\ pc' = "idle" /\ fUseCrypto' = FALSE /\ leaked' = FALSE
        /\ residue' = FALSE /\ phrase' = Nil
    BY <1>1
  <2>. HIDE DEF new
  <2>. QED BY <2>1, <2>2, <2>3, <2>4, <2>5, <2>6 DEF KeysTypeOK
<1>13. Phases' BY <1>1, <1>7, FileAssumption DEF Phases
<1>14. Mirrored'
  <2>1. fUseCrypto' <=> Encrypted(f) BY <1>1, <1>8
  <2>. QED BY <1>1, <1>7, <1>11, <2>1 DEF Mirrored
<1>15. PoolIsShared' BY <1>1, <1>9, <1>11 DEF PoolIsShared, Shared, Outstanding
<1>16. OneMaster' BY <1>1, <1>4, <1>7, <1>8, <1>11 DEF OneMaster, Sealed
<1>17. CleanedUp' BY <1>1 DEF KInv, CleanedUp
<1>18. PoolIsNew' BY <1>8, <1>11 DEF PoolIsNew
<1>19. HandedOutOnce' BY <1>6 DEF KInv, HandedOutOnce
<1>20. KeysAreCounted'
  <2>1. \A k \in Keys : k \in mined => k <= nKeys BY DEF KInv, KeysAreCounted
  <2>. QED BY <1>1, <1>2, <1>5, <1>6, <2>1 DEF KeysAreCounted, Keys
<1>21. KeysOnDisk'
  <2>1. ASSUME NEW k \in Keys, used'[k] > 0 \/ k \in mined'
        PROVE  \E g \in {file', rewritten'} \ {Nil} : k \in Recoverable(g)
    <3>1. CASE k = nKeys + 1
      BY <1>1, <1>3, <1>7, <1>11, <3>1 DEF Recoverable
    <3>2. CASE k # nKeys + 1
      <4>1. used[k] > 0 \/ k \in mined BY <1>1, <1>6, <2>1, <3>2
      <4>2. PICK g \in {file, rewritten} \ {Nil} : k \in Recoverable(g)
        BY <4>1 DEF KInv, KeysOnDisk
      <4>. QED BY <1>1, <4>2
    <3>. QED BY <3>1, <3>2
  <2>. QED BY <2>1 DEF KeysOnDisk
<1>. QED
  BY <1>10, <1>11, <1>12, <1>13, <1>14, <1>15, <1>16, <1>17, <1>18, <1>19, <1>20, <1>21, Zenon DEF KInv

LEMMA InitKeeps == ASSUME KeysAssumption, KeysInit PROVE KInv
<1>1. Current = Nil /\ ~Up BY DEF KeysInit, Current, Up
<1>2. MaxKeys \in Nat /\ MaxCrashes \in Nat BY DEF KeysAssumption
<1>3. KeysTypeOK
  <2>1. /\ mapCryptedKeys \in [Keys -> Masters \union {0}]
        /\ mapMasterKeys \in [Masters -> Phrases \union {Nil}]
        /\ reserved \in [Miners -> Keys \union {0}] /\ candidate \in [Miners -> Keys \union {0}]
        /\ used \in [Keys -> Nat]
    BY DEF KeysInit
  <2>2. nKeys \in 0 .. MaxKeys /\ crashes \in 0 .. MaxCrashes /\ lastPlain \in 0 .. MaxKeys
    BY <1>2 DEF KeysInit
  <2>. QED BY <2>1, <2>2 DEF KeysInit, KeysTypeOK
<1>4. Phases /\ CleanedUp /\ PoolIsShared /\ Mirrored
  BY <1>1 DEF KeysInit, Phases, CleanedUp, PoolIsShared, Mirrored
<1>5. OneMaster /\ PoolIsNew BY <1>1 DEF OneMaster, PoolIsNew
<1>6. KeysAreCounted /\ HandedOutOnce /\ KeysOnDisk
  BY DEF KeysInit, KeysAreCounted, HandedOutOnce, KeysOnDisk
<1>. QED BY <1>1, <1>3, <1>4, <1>5, <1>6 DEF KInv

-----------------------------------------------------------------------------
(***************************************************************************)
(* The steps of an encryption.                                             *)
(***************************************************************************)
LEMMA EncryptWalletKeeps ==
    ASSUME KeysAssumption, KInv, NEW p \in Phrases, EncryptWallet(p) PROVE KInv'
<1> DEFINE id == NewMaster
           crypted == [k \in Keys |-> IF k \in mapKeys THEN id ELSE 0]
           k1 == file.key \ mapKeys
           c1 == [k \in Keys |-> IF k \in mapKeys THEN id ELSE file.ckey[k]]
           m1 == [file.mkey EXCEPT ![id] = p]
           f1 == [file EXCEPT !.key = k1]
           f2 == [f1 EXCEPT !.ckey = c1]
<1>1. /\ Awake /\ ~fUseCrypto /\ rewritten = Nil /\ id \in Masters
      /\ mapMasterKeys' = [mapMasterKeys EXCEPT ![id] = p]
      /\ mapCryptedKeys' = crypted
      /\ mapKeys' = {} /\ fUseCrypto' = TRUE
      /\ residue' = TRUE /\ phrase' = p /\ lastPlain' = nKeys /\ pc' = "encrypted"
      /\ UNCHANGED <<vMasterKey, setKeyPool, vchDefaultKey, reserved, candidate, mined, rewritten,
                     leaked, nKeys, crashes, used, overtaken, spared, cutShort>>
  BY DEF EncryptWallet, mining
<1>2. /\ pc = "idle" /\ Current = file /\ file \in WalletFile /\ file # Nil /\ Up
      /\ FileSound(file, nKeys, used)
      /\ mapKeys = file.key /\ mapCryptedKeys = file.ckey
      /\ fUseCrypto <=> Encrypted(file)
      /\ vchDefaultKey = file.defaultkey
  BY <1>1, AwakeFacts DEF Awake, Up
<1>3. /\ file.key \in SUBSET Keys /\ file.ckey \in [Keys -> Masters \union {0}]
      /\ file.mkey \in [Masters -> Phrases \union {Nil}]
      /\ \A k \in Keys : file.ckey[k] = 0
      /\ vMasterKey = 0 /\ id # 0 /\ p # Nil
  <2>1. id # 0 /\ p # Nil BY <1>1 DEF Masters, KeysAssumption
  <2>2. vMasterKey = 0 BY <1>1, <1>2 DEF KInv, KeysTypeOK
  <2>3. \A k \in Keys : file.ckey[k] = 0 BY <1>1, <1>2 DEF Encrypted
  <2>4. /\ file.key \in SUBSET Keys /\ file.ckey \in [Keys -> Masters \union {0}]
        /\ file.mkey \in [Masters -> Phrases \union {Nil}]
    BY <1>2 DEF WalletFile
  <2>. QED BY <2>1, <2>2, <2>3, <2>4
<1>. HIDE DEF id
<1>4. /\ k1 = {} /\ c1 \in [Keys -> Masters \union {0}] /\ c1 = crypted
      /\ m1 \in [Masters -> Phrases \union {Nil}]
      /\ \A k \in Keys : c1[k] = IF k \in file.key THEN id ELSE 0
      /\ \A j \in Masters : m1[j] = IF j = id THEN p ELSE file.mkey[j]
  <2>1. k1 = {} BY <1>2
  <2>2. c1 \in [Keys -> Masters \union {0}] /\ c1 = crypted BY <1>1, <1>3
  <2>3. m1 \in [Masters -> Phrases \union {Nil}] BY <1>3
  <2>4. \A k \in Keys : c1[k] = IF k \in file.key THEN id ELSE 0 BY <1>2, <1>3
  <2>5. \A j \in Masters : m1[j] = IF j = id THEN p ELSE file.mkey[j] BY <1>3
  <2>. QED BY <2>1, <2>2, <2>3, <2>4, <2>5
<1>. HIDE DEF k1, c1, m1, f1, f2
<1>5. f1 \in WalletFile /\ f1.key = k1 /\ f1.ckey = file.ckey /\ f1.mkey = file.mkey
      /\ f1.pool = file.pool /\ f1.defaultkey = file.defaultkey
  <2>1. k1 \in SUBSET Keys BY <1>4
  <2>2. f1 = [file EXCEPT !.key = k1] BY DEF f1
  <2>. QED BY <1>2, <2>1, <2>2, Written, Zenon
<1>6. f2 \in WalletFile /\ f2.key = k1 /\ f2.ckey = c1 /\ f2.mkey = file.mkey
      /\ f2.pool = file.pool /\ f2.defaultkey = file.defaultkey
  BY <1>4, <1>5, Written DEF f2
<1>7. file' = [f2 EXCEPT !.mkey = m1]
  <2>1. file' = [file EXCEPT !.key = @ \ mapKeys,
                             !.ckey = [k \in Keys |-> IF k \in mapKeys THEN id ELSE @[k]],
                             !.mkey[id] = p]
    BY DEF EncryptWallet, id
  <2>. QED BY <1>5, <1>6, <2>1 DEF f1, f2, k1, c1, m1
<1>8. file' \in WalletFile /\ file'.key = {} /\ file'.ckey = crypted /\ file'.mkey = m1
      /\ file'.pool = file.pool /\ file'.defaultkey = file.defaultkey
  BY <1>4, <1>6, <1>7, Written
<1>. HIDE DEF crypted
<1>9. /\ Owned(file) = file.key /\ Owned(file') = file.key
      /\ Indexes(file') = Indexes(file)
  BY <1>3, <1>4, <1>8 DEF Owned, Indexes
<1>10. Encrypted(file')
  <2>1. file.defaultkey \in file.key BY <1>2, <1>9 DEF FileSound
  <2>. QED BY <1>3, <1>4, <1>8, <2>1 DEF Encrypted
<1>11. Current' = file' /\ file' # Nil /\ Up'
  BY <1>1, <1>8, FileAssumption DEF Current, Up
<1>12. FileSound(file', nKeys', used')
  <2>1. \A k \in Keys : file'.ckey[k] # 0 => file'.mkey[file'.ckey[k]] # Nil
    BY <1>1, <1>3, <1>4, <1>8
  <2>2. /\ \A k \in Owned(file') : k <= nKeys'
        /\ file'.defaultkey \in Owned(file')
        /\ \A i \in Indexes(file') : file'.pool[i] \in Owned(file') /\ used'[file'.pool[i]] = 0
        /\ \A i, j \in Indexes(file') : file'.pool[i] = file'.pool[j] => i = j
    BY <1>1, <1>2, <1>8, <1>9 DEF FileSound
  <2>. QED BY <1>8, <2>1, <2>2, Zenon DEF FileSound
<1>13. KeysTypeOK'
  <2>1. mapMasterKeys' \in [Masters -> Phrases \union {Nil}]
    BY <1>1 DEF KInv, KeysTypeOK
  <2>2. mapCryptedKeys' \in [Keys -> Masters \union {0}] BY <1>1, <1>4
  <2>3. lastPlain' \in 0 .. MaxKeys BY <1>1 DEF KInv, KeysTypeOK
  <2>. QED BY <1>1, <1>8, <2>1, <2>2, <2>3 DEF KInv, KeysTypeOK
<1>14. Phases' BY <1>1, <1>11 DEF Phases
<1>15. Mirrored'
  <2>1. \A m \in Miners : candidate[m] # 0 => candidate[m] \in Owned(file)
    BY <1>2 DEF KInv, Mirrored
  <2>2. fUseCrypto' <=> Encrypted(file') BY <1>1, <1>10
  <2>. QED BY <1>1, <1>2, <1>3, <1>8, <1>9, <1>11, <2>1, <2>2 DEF Mirrored
<1>16. PoolIsShared' BY <1>1, <1>2, <1>9, <1>11 DEF KInv, PoolIsShared, Shared, Outstanding
<1>17. OneMaster'
  <2>1. /\ \A j \in Masters : file.mkey[j] = Nil
        /\ ~leaked => mapMasterKeys = file.mkey
    BY <1>1, <1>2 DEF KInv, OneMaster, Sealed
  <2>2. ~leaked' => mapMasterKeys' = m1 BY <1>1, <2>1 DEF m1
  <2>3. \A k \in Keys : crypted[k] \in {0, id} BY <1>4
  <2>4. SealedBy(file', id, p) BY <1>4, <1>8, <2>1, <2>3 DEF SealedBy
  <2>5. Sealed(file', p) BY <1>1, <1>10, <2>4 DEF Sealed
  <2>. QED BY <1>1, <1>8, <1>11, <2>2, <2>5 DEF OneMaster
<1>18. CleanedUp' /\ PoolIsNew' BY <1>1 DEF CleanedUp, PoolIsNew
<1>19. KeysAreCounted' /\ HandedOutOnce'
  BY <1>1 DEF KInv, KeysAreCounted, HandedOutOnce, KeysTypeOK
<1>20. KeysOnDisk' BY <1>1, <1>2, <1>8, <1>9, <1>12, StaysOnDisk DEF KInv
<1>. QED
  BY <1>11, <1>12, <1>13, <1>14, <1>15, <1>16, <1>17, <1>18, <1>19, <1>20, Zenon DEF KInv

\* The old pool is gone, and there may be a new one: what is common to both.
LEMMA Repooled ==
    ASSUME KeysAssumption, KInv, NewKeyPool,
           file' \in WalletFile, FileSound(file', nKeys', used'),
           file'.key = file.key, file'.mkey = file.mkey, file'.defaultkey = file.defaultkey,
           mapCryptedKeys' = file'.ckey, nKeys' \in nKeys .. MaxKeys, setKeyPool' \subseteq Keys,
           \A k \in Keys : file'.ckey[k] = file.ckey[k]
                           \/ (file'.ckey[k] # 0 /\ file.mkey[file'.ckey[k]] # Nil),
           Indexes(file') = setKeyPool' \union (Indexes(file) \ setKeyPool),
           \A i \in Indexes(file') : \/ file'.pool[i] > nKeys
                                     \/ i \in Indexes(file) \ setKeyPool /\ file'.pool[i] = file.pool[i]
    PROVE  KInv'
<1>1. /\ pc = "encrypted" /\ pc' = "repooled" /\ vMasterKey' = 0
      /\ overtaken' = overtaken \union (setKeyPool' \intersect Outstanding)
      /\ spared' = {file.pool[i] : i \in Outstanding} \ {0}
      /\ UNCHANGED <<mapKeys, fUseCrypto, mapMasterKeys, vchDefaultKey, reserved, candidate, mined,
                     rewritten, residue, leaked, crashes, used, phrase, lastPlain, cutShort>>
  BY DEF NewKeyPool, mining
<1>2. /\ Current = file /\ file # Nil /\ file \in WalletFile /\ Up /\ rewritten = Nil /\ fUseCrypto
      /\ FileSound(file, nKeys, used) /\ Encrypted(file)
      /\ mapKeys = file.key /\ vchDefaultKey = file.defaultkey
      /\ \A m \in Miners : candidate[m] # 0 => candidate[m] \in Owned(file)
  BY <1>1 DEF KInv, Current, Up, Phases, Mirrored, KeysTypeOK
<1>3. file' # Nil /\ Current' = file' /\ Up' BY <1>1, FileAssumption DEF Current, Up
<1>4. /\ file.ckey \in [Keys -> Masters \union {0}] /\ file'.ckey \in [Keys -> Masters \union {0}]
      /\ nKeys \in Nat /\ MaxKeys \in Nat
  BY <1>2 DEF WalletFile, KInv, KeysTypeOK, KeysAssumption
<1>5. Owned(file) \subseteq Owned(file') /\ Encrypted(file')
  BY <1>2 DEF Owned, Encrypted
<1>6. KeysTypeOK'
  <2>1. overtaken' \subseteq Keys /\ spared' \subseteq Keys
    <3>1. Outstanding \subseteq Keys BY DEF Outstanding, KInv, KeysTypeOK
    <3>. QED BY <1>1, <1>2, <3>1 DEF KInv, KeysTypeOK, WalletFile
  <2>2. nKeys' \in 0 .. MaxKeys BY <1>4
  <2>3. mapKeys' = {} BY <1>1, <1>2 DEF FileSound
  <2>4. fUseCrypto' = fUseCrypto /\ fUseCrypto \in BOOLEAN BY <1>1 DEF KInv, KeysTypeOK
  <2>. QED BY <1>1, <1>2, <1>4, <2>1, <2>2, <2>3, <2>4 DEF KInv, KeysTypeOK
<1>7. Phases' BY <1>1, <1>2, <1>3 DEF Phases
<1>8. Mirrored' BY <1>1, <1>2, <1>3, <1>5 DEF Mirrored
<1>9. PoolIsShared'
  <2>. SUFFICES /\ Shared(file', setKeyPool', Outstanding, overtaken')
                /\ \A m, n \in Miners : reserved[m] = reserved[n] /\ reserved[m] # 0 =>
                                             m = n \/ reserved[m] \in overtaken'
    BY <1>1, <1>3 DEF PoolIsShared, Outstanding
  <2>1. /\ Shared(file, setKeyPool, Outstanding, overtaken)
        /\ \A m, n \in Miners : reserved[m] = reserved[n] /\ reserved[m] # 0 =>
                                     m = n \/ reserved[m] \in overtaken
    BY <1>2 DEF KInv, PoolIsShared
  <2>2. Shared(file', setKeyPool', Outstanding, overtaken') BY <1>1, <2>1 DEF Shared
  <2>. QED BY <1>1, <2>1, <2>2
<1>10. OneMaster'
  <2>1. Sealed(file, phrase) /\ (~leaked => mapMasterKeys = file.mkey)
    BY <1>2 DEF KInv, OneMaster
  <2>2. \A k \in Keys : \/ file'.ckey[k] \in {0, file.ckey[k]}
                        \/ file'.ckey[k] \in Masters /\ file.mkey[file'.ckey[k]] # Nil
    BY <1>4
  <2>3. Sealed(file', phrase) BY <1>2, <1>5, <2>1, <2>2, StaysSealed
  <2>. QED BY <1>1, <1>3, <2>1, <2>3 DEF OneMaster
<1>11. CleanedUp' BY <1>1 DEF KInv, CleanedUp
<1>12. PoolIsNew'
  <2>. SUFFICES ASSUME NEW i \in Indexes(file')
       PROVE  file'.pool[i] > lastPlain \/ file'.pool[i] \in spared'
    BY <1>1, <1>3 DEF PoolIsNew
  <2>1. CASE file'.pool[i] > nKeys
    <3>1. file'.pool[i] \in Nat BY DEF Indexes, WalletFile, Keys
    <3>2. lastPlain <= nKeys /\ lastPlain \in Nat BY DEF KInv, KeysAreCounted, KeysTypeOK
    <3>. QED BY <1>4, <2>1, <3>1, <3>2
  <2>2. CASE i \in Indexes(file) \ setKeyPool /\ file'.pool[i] = file.pool[i]
    <3>1. Indexes(file) \subseteq setKeyPool \union Outstanding
      BY <1>2 DEF KInv, PoolIsShared, Shared
    <3>2. i \in Outstanding /\ file.pool[i] # 0 BY <2>2, <3>1 DEF Indexes
    <3>. QED BY <1>1, <2>2, <3>2
  <2>. QED BY <2>1, <2>2
<1>13. KeysAreCounted'
  BY <1>1, <1>4 DEF KInv, KeysAreCounted, KeysTypeOK, Keys
<1>14. HandedOutOnce' BY <1>1 DEF KInv, HandedOutOnce
<1>15. KeysOnDisk' BY <1>1, <1>2, <1>5, StaysOnDisk DEF KInv
<1>. QED
  BY <1>3, <1>6, <1>7, <1>8, <1>9, <1>10, <1>11, <1>12, <1>13, <1>14, <1>15, Zenon DEF KInv

LEMMA FlushedPool ==
    ASSUME file \in WalletFile, setKeyPool \subseteq Keys
    PROVE  /\ Flushed \in WalletFile /\ Flushed.key = file.key /\ Flushed.ckey = file.ckey
           /\ Flushed.mkey = file.mkey /\ Flushed.defaultkey = file.defaultkey
           /\ Flushed.pool \in [Keys -> Keys \union {0}]
           /\ \A i \in Keys : Flushed.pool[i] = IF i \in setKeyPool THEN 0 ELSE file.pool[i]
<1> DEFINE x == [i \in Keys |-> IF i \in setKeyPool THEN 0 ELSE file.pool[i]]
<1>1. x \in [Keys -> Keys \union {0}] BY DEF WalletFile
<1>2. \A i \in Keys : x[i] = IF i \in setKeyPool THEN 0 ELSE file.pool[i] OBVIOUS
<1>3. Flushed = [file EXCEPT !.pool = x] BY DEF Flushed
<1>. HIDE DEF x
<1>4. /\ Flushed \in WalletFile /\ Flushed.key = file.key /\ Flushed.ckey = file.ckey
      /\ Flushed.mkey = file.mkey /\ Flushed.defaultkey = file.defaultkey /\ Flushed.pool = x
  BY <1>1, <1>3, Written
<1>. QED BY <1>1, <1>2, <1>4

LEMMA NewKeyPoolKeeps == ASSUME KeysAssumption, KInv, NewKeyPool PROVE KInv'
<1>1. pc = "encrypted" BY DEF NewKeyPool
<1>2. /\ Current = file /\ file # Nil /\ file \in WalletFile /\ Up /\ fUseCrypto
      /\ FileSound(file, nKeys, used) /\ Encrypted(file)
      /\ mapCryptedKeys = file.ckey
      /\ Current # Nil /\ setKeyPool \subseteq Keys
  BY <1>1 DEF KInv, Current, Up, Phases, Mirrored, KeysTypeOK
<1>3. /\ nKeys \in Nat /\ MaxKeys \in Nat /\ nKeys <= MaxKeys /\ nKeyPool \in Nat \ {0}
      /\ nKeyPool <= MaxKeys
      /\ used \in [Keys -> Nat] /\ used' = used
  BY DEF KInv, KeysTypeOK, KeysAssumption, NewKeyPool
<1>4. /\ Flushed \in WalletFile /\ Flushed.key = file.key /\ Flushed.ckey = file.ckey
      /\ Flushed.mkey = file.mkey /\ Flushed.defaultkey = file.defaultkey
      /\ Flushed.pool \in [Keys -> Keys \union {0}]
      /\ \A i \in Keys : Flushed.pool[i] = IF i \in setKeyPool THEN 0 ELSE file.pool[i]
  BY <1>2, FlushedPool
<1>5. file.key = {} BY <1>2 DEF FileSound
<1>7. CASE \E id \in Masters : Opens(phrase, id)
  <2> DEFINE new == nKeys + 1 .. nKeys + nKeyPool
             id == CHOOSE j \in Masters : Opens(phrase, j)
             c1 == [k \in Keys |-> IF k \in new THEN id ELSE file.ckey[k]]
             x1 == [i \in Keys |-> IF i \in 1 .. nKeyPool THEN nKeys + i ELSE Flushed.pool[i]]
             f1 == [Flushed EXCEPT !.ckey = c1]
  <2>1. id \in Masters /\ Opens(phrase, id) BY <1>7
  <2>2. /\ nKeys + nKeyPool <= MaxKeys /\ nKeys' = nKeys + nKeyPool
        /\ mapCryptedKeys' = c1 /\ setKeyPool' = 1 .. nKeyPool
    BY <1>2, <1>7 DEF NewKeyPool
  <2>3. file' = [f1 EXCEPT !.pool = x1]
    <3>1. file' = [Flushed EXCEPT
                      !.ckey = [k \in Keys |-> IF k \in new THEN id ELSE @[k]],
                      !.pool = [i \in Keys |-> IF i \in 1 .. nKeyPool THEN nKeys + i ELSE @[i]]]
      BY <1>7 DEF NewKeyPool
    <3>. QED BY <1>4, <3>1
  <2>. HIDE DEF id
  <2>4. file.mkey[id] # Nil /\ id # 0
    <3>1. file.mkey[id] # Nil BY <1>2, <2>1, OpensAMaster
    <3>. QED BY <2>1, <3>1 DEF Masters
  <2>5. /\ new \in SUBSET Keys /\ 1 .. nKeyPool \in SUBSET Keys
        /\ \A i \in 1 .. nKeyPool : nKeys + i \in new /\ nKeys + i > nKeys
    BY <1>3, <2>2 DEF Keys
  <2>6. c1 \in [Keys -> Masters \union {0}] /\ \A k \in Keys : c1[k] = IF k \in new THEN id ELSE file.ckey[k]
    BY <1>2, <2>1 DEF WalletFile
  <2>7. x1 \in [Keys -> Keys \union {0}]
        /\ \A i \in Keys : x1[i] = IF i \in 1 .. nKeyPool THEN nKeys + i
                                   ELSE IF i \in setKeyPool THEN 0 ELSE file.pool[i]
    BY <1>4, <2>5
  <2>. HIDE DEF c1, x1, f1, new
  <2>8. f1 \in WalletFile /\ f1.key = file.key /\ f1.ckey = c1 /\ f1.mkey = file.mkey
        /\ f1.defaultkey = file.defaultkey
    BY <1>4, <2>6, Written DEF f1
  <2>9. /\ file' \in WalletFile /\ file'.key = file.key /\ file'.ckey = c1 /\ file'.mkey = file.mkey
        /\ file'.defaultkey = file.defaultkey /\ file'.pool = x1
    BY <2>3, <2>7, <2>8, Written
  <2>10. Owned(file') = Owned(file) \union new
    BY <2>4, <2>5, <2>6, <2>9 DEF Owned
  <2>11. \A i \in Indexes(file') :
            \/ i \in 1 .. nKeyPool /\ file'.pool[i] = nKeys + i
            \/ i \notin 1 .. nKeyPool /\ i \in Indexes(file) /\ i \notin setKeyPool
               /\ file'.pool[i] = file.pool[i]
    BY <2>7, <2>9 DEF Indexes
  <2>12. 1 .. nKeyPool \subseteq Indexes(file')
    BY <1>3, <2>5, <2>7, <2>9 DEF Indexes
  <2>13. FileSound(file', nKeys', used')
    <3>1. \A k \in Owned(file) : k <= nKeys /\ k \in Nat
      BY <1>2 DEF FileSound, Owned, WalletFile, Keys
    <3>2. \A k \in Owned(file') : k <= nKeys'
      BY <1>3, <2>2, <2>10, <3>1 DEF new
    <3>3. \A k \in Keys : file'.ckey[k] # 0 => file'.mkey[file'.ckey[k]] # Nil
      BY <1>2, <2>4, <2>6, <2>9 DEF FileSound
    <3>4. ASSUME NEW i \in Indexes(file')
          PROVE  file'.pool[i] \in Owned(file') /\ used'[file'.pool[i]] = 0
      <4>1. CASE i \in 1 .. nKeyPool /\ file'.pool[i] = nKeys + i
        <5>1. nKeys + i \in new /\ nKeys + i > nKeys BY <2>5, <4>1
        <5>2. nKeys + i \in Keys BY <2>5, <5>1
        <5>3. \A k \in Keys : used[k] > 0 => k <= nKeys BY DEF KInv, KeysAreCounted
        <5>4. used[nKeys + i] = 0 BY <1>3, <4>1, <5>1, <5>2, <5>3
        <5>. QED BY <1>3, <2>10, <4>1, <5>1, <5>4
      <4>2. CASE i \in Indexes(file) /\ file'.pool[i] = file.pool[i]
        BY <1>2, <1>3, <2>10, <4>2 DEF FileSound
      <4>. QED BY <2>11, <4>1, <4>2
    <3>5. ASSUME NEW i \in Indexes(file'), NEW j \in Indexes(file'), file'.pool[i] = file'.pool[j]
          PROVE  i = j
      <4>1. \A l \in Indexes(file) : file.pool[l] <= nKeys BY <1>2 DEF FileSound
      <4>2. CASE i \in 1 .. nKeyPool /\ j \in 1 .. nKeyPool
        BY <1>3, <2>11, <3>5, <4>2
      <4>3. CASE i \notin 1 .. nKeyPool /\ j \notin 1 .. nKeyPool
        <5>1. /\ i \in Indexes(file) /\ file'.pool[i] = file.pool[i]
              /\ j \in Indexes(file) /\ file'.pool[j] = file.pool[j]
          BY <2>11, <4>3
        <5>. QED BY <1>2, <3>5, <5>1 DEF FileSound
      <4>4. CASE i \in 1 .. nKeyPool /\ j \notin 1 .. nKeyPool
        <5>1. file'.pool[i] = nKeys + i /\ nKeys + i > nKeys BY <2>5, <2>11, <4>4
        <5>2. file'.pool[j] <= nKeys BY <2>11, <4>1, <4>4
        <5>. QED BY <1>3, <3>5, <4>4, <5>1, <5>2
      <4>5. CASE i \notin 1 .. nKeyPool /\ j \in 1 .. nKeyPool
        <5>1. file'.pool[j] = nKeys + j /\ nKeys + j > nKeys BY <2>5, <2>11, <4>5
        <5>2. file'.pool[i] <= nKeys BY <2>11, <4>1, <4>5
        <5>. QED BY <1>3, <3>5, <4>5, <5>1, <5>2
      <4>. QED BY <4>2, <4>3, <4>4, <4>5
    <3>6. file'.defaultkey \in Owned(file') BY <1>2, <2>9, <2>10 DEF FileSound
    <3>. QED BY <1>5, <2>9, <3>2, <3>3, <3>4, <3>5, <3>6 DEF FileSound
  <2>14. /\ Indexes(file') = setKeyPool' \union (Indexes(file) \ setKeyPool)
         /\ \A i \in Indexes(file') : \/ file'.pool[i] > nKeys
                                      \/ i \in Indexes(file) \ setKeyPool /\ file'.pool[i] = file.pool[i]
    <3>1. Indexes(file) \ setKeyPool \subseteq Indexes(file')
      BY <1>3, <2>5, <2>7, <2>9 DEF Indexes
    <3>2. Indexes(file') \subseteq 1 .. nKeyPool \union (Indexes(file) \ setKeyPool) BY <2>11
    <3>. QED BY <2>2, <2>5, <2>11, <2>12, <3>1, <3>2
  <2>15. nKeys' \in nKeys .. MaxKeys BY <1>3, <2>2
  <2>16. \A k \in Keys : file'.ckey[k] = file.ckey[k]
                         \/ (file'.ckey[k] # 0 /\ file.mkey[file'.ckey[k]] # Nil)
    BY <2>4, <2>6, <2>9
  <2>. QED BY <2>2, <2>5, <2>9, <2>13, <2>14, <2>15, <2>16, Repooled
<1>8. CASE ~\E id \in Masters : Opens(phrase, id)
  <2>1. /\ setKeyPool' = {} /\ file' = Flushed
        /\ UNCHANGED <<nKeys, mapCryptedKeys>>
    BY <1>8 DEF NewKeyPool
  <2>2. Indexes(file') = Indexes(file) \ setKeyPool
        /\ \A i \in Indexes(file') : file'.pool[i] = file.pool[i]
    BY <1>4, <2>1 DEF Indexes
  <2>3. Owned(file') = Owned(file) BY <1>4, <2>1 DEF Owned
  <2>4. FileSound(file', nKeys', used')
    <3>1. /\ \A i \in Indexes(file') : file'.pool[i] \in Owned(file') /\ used'[file'.pool[i]] = 0
          /\ \A i, j \in Indexes(file') : file'.pool[i] = file'.pool[j] => i = j
      BY <1>2, <1>3, <2>2, <2>3 DEF FileSound
    <3>2. /\ \A k \in Owned(file') : k <= nKeys'
          /\ file'.key = {}
          /\ \A k \in Keys : file'.ckey[k] # 0 => file'.mkey[file'.ckey[k]] # Nil
          /\ file'.defaultkey \in Owned(file')
      BY <1>2, <1>4, <1>5, <2>1, <2>3 DEF FileSound
    <3>. QED BY <3>1, <3>2 DEF FileSound
  <2>5. nKeys' \in nKeys .. MaxKeys BY <1>3, <2>1
  <2>. QED BY <1>2, <1>4, <2>1, <2>2, <2>4, <2>5, Repooled
<1>. QED BY <1>7, <1>8

\* Copying, removing and renaming: at every moment one of the two files has all.
LEMMA RewriteKeeps ==
    ASSUME KeysAssumption, KInv, RewriteCopy \/ RewriteRemove \/ RewriteRename PROVE KInv'
<1>1. UNCHANGED <<store, vMasterKey, mapMasterKeys, setKeyPool, vchDefaultKey, reserved, candidate,
                  mined, leaked, nKeys, crashes, used, phrase, lastPlain, overtaken, spared, cutShort>>
  BY DEF RewriteCopy, RewriteRemove, RewriteRename, mining, history
<1>2. /\ Up /\ Up' /\ pc # "encrypted" /\ Current' = Current /\ Current # Nil
      /\ file' \in WalletFile \union {Nil} /\ rewritten' \in WalletFile \union {Nil}
      /\ residue' \in BOOLEAN /\ pc' \in {"copied", "removed", "idle"}
      /\ CleanedUp'
      /\ Phases'
      /\ {file', rewritten'} \ {Nil} = {file, rewritten} \ {Nil}
  <2>1. CASE RewriteCopy
    <3>1. /\ pc = "repooled" /\ ~leaked /\ rewritten' = file /\ pc' = "copied"
          /\ file' = file /\ residue' = residue
      BY <2>1 DEF RewriteCopy
    <3>2. file # Nil /\ rewritten = Nil /\ fUseCrypto /\ Current = file /\ Up
      BY <3>1 DEF KInv, Phases, Current, Up
    <3>3. file.key = {} BY <3>2 DEF KInv, Mirrored, FileSound
    <3>4. CleanedUp' BY <3>1, <3>2, <3>3 DEF KInv, CleanedUp
    <3>5. Phases' BY <1>1, <3>1, <3>2 DEF KInv, Phases, store
    <3>6. Current' = Current /\ Current # Nil /\ Up' /\ residue' \in BOOLEAN
          /\ file \in WalletFile \union {Nil}
      BY <3>1, <3>2 DEF Current, Up, KInv, KeysTypeOK
    <3>. QED BY <3>1, <3>2, <3>4, <3>5, <3>6
  <2>2. CASE RewriteRemove
    <3>1. /\ pc = "copied" /\ pc' = "removed" /\ file' = Nil /\ residue' = FALSE
          /\ rewritten' = rewritten
      BY <2>2 DEF RewriteRemove, CopiedRecords
    <3>2. rewritten = file /\ file # Nil /\ rewritten \in WalletFile \union {Nil}
      BY <3>1 DEF KInv, Phases, KeysTypeOK
    <3>3. Phases' BY <1>1, <3>1, <3>2 DEF KInv, Phases, store
    <3>4. Up /\ Up' /\ Current' = Current /\ Current # Nil BY <3>1, <3>2 DEF Up, Current
    <3>5. CleanedUp' BY <3>1 DEF KInv, CleanedUp
    <3>. QED BY <3>1, <3>2, <3>3, <3>4, <3>5
  <2>3. CASE RewriteRename
    <3>1. /\ pc = "removed" /\ file' = rewritten /\ rewritten' = Nil /\ pc' = "idle"
          /\ residue' = residue
      BY <2>3 DEF RewriteRename
    <3>2. file = Nil /\ rewritten # Nil /\ fUseCrypto /\ ~leaked /\ Current = rewritten /\ Up
          /\ rewritten \in WalletFile \union {Nil} /\ residue \in BOOLEAN
      BY <3>1 DEF KInv, Phases, Current, Up, KeysTypeOK
    <3>3. CleanedUp' BY <1>1, <3>1 DEF KInv, CleanedUp
    <3>4. Phases' BY <1>1, <3>1, <3>2 DEF Phases
    <3>5. Current' = Current /\ Up' BY <3>1, <3>2 DEF Current, Up
    <3>. QED BY <3>1, <3>2, <3>3, <3>4, <3>5
  <2>. QED BY <2>1, <2>2, <2>3
<1>3. KeysTypeOK'
  <2>1. fUseCrypto' = fUseCrypto /\ fUseCrypto \in BOOLEAN BY <1>1 DEF KInv, KeysTypeOK, store
  <2>2. IF fUseCrypto' THEN mapKeys' = {}
        ELSE vMasterKey' = 0 /\ mapCryptedKeys' = [k \in Keys |-> 0]
    BY <1>1, <1>2, <2>1 DEF KInv, KeysTypeOK, store, Up
  <2>. QED BY <1>1, <1>2, <2>1, <2>2 DEF KInv, KeysTypeOK, store
<1>4. Mirrored' BY <1>1, <1>2 DEF KInv, Mirrored, store
<1>5. FileSound(Current', nKeys', used') BY <1>1, <1>2 DEF KInv
<1>6. PoolIsShared' BY <1>1, <1>2 DEF KInv, PoolIsShared, Outstanding
<1>7. OneMaster' BY <1>1, <1>2 DEF KInv, OneMaster
<1>8. CleanedUp' BY <1>2
<1>9. PoolIsNew' BY <1>1, <1>2 DEF KInv, PoolIsNew
<1>10. KeysAreCounted' /\ HandedOutOnce' BY <1>1 DEF KInv, KeysAreCounted, HandedOutOnce
<1>11. KeysOnDisk' BY <1>1, <1>2 DEF KInv, KeysOnDisk
<1>. QED BY <1>2, <1>3, <1>4, <1>5, <1>6, <1>7, <1>8, <1>9, <1>10, <1>11, Zenon DEF KInv

-----------------------------------------------------------------------------
(***************************************************************************)
(* The theorems.                                                           *)
(***************************************************************************)
LEMMA StepKeeps == ASSUME KeysAssumption, KInv, KeysNext PROVE KInv'
<1>1. CASE GetKeyFromPool BY <1>1, GetKeyFromPoolKeeps
<1>2. CASE ReadFails BY <1>2, ReadFailsKeeps
<1>3. CASE TopUpKeyPool BY <1>3, TopUpKeyPoolKeeps
<1>4. CASE CrashInTopUp BY <1>4, CrashInTopUpKeeps
<1>5. CASE \E m \in Miners : CreateNewBlock(m) \/ ReturnKey(m) \/ CheckWork(m)
  BY <1>5, CreateNewBlockKeeps, ReturnKeyKeeps, CheckWorkKeeps
<1>6. CASE Lock BY <1>6, LockKeeps
<1>7. CASE \E p \in Phrases : Unlock(p) \/ EncryptWallet(p) \/ EncryptNotBegun(p)
  BY <1>7, UnlockKeeps, EncryptWalletKeeps, EncryptNotBegunKeeps
<1>8. CASE \E p, q \in Phrases : ChangeWalletPassphrase(p, q)
  BY <1>8, ChangeWalletPassphraseKeeps
<1>9. CASE EncryptStep BY <1>9, NewKeyPoolKeeps, RewriteKeeps DEF EncryptStep
<1>10. CASE Crash \/ Shutdown BY <1>10, EndKeeps
<1>11. CASE Start BY <1>11, StartKeeps
<1>12. CASE FirstRun BY <1>12, FirstRunKeeps
<1>. QED
  BY <1>1, <1>2, <1>3, <1>4, <1>5, <1>6, <1>7, <1>8, <1>9, <1>10, <1>11, <1>12, Zenon DEF KeysNext

LEMMA StutterKeeps == ASSUME KInv, UNCHANGED kvars PROVE KInv'
<1>1. UNCHANGED <<mapKeys, mapCryptedKeys, fUseCrypto, vMasterKey, mapMasterKeys, setKeyPool,
                  vchDefaultKey, reserved, candidate, mined, pc, file, rewritten, residue, leaked,
                  nKeys, crashes, used, phrase, lastPlain, overtaken, spared, cutShort>>
  BY DEF kvars, store, mining, disk, history
<1>2. KeysTypeOK' BY <1>1 DEF KInv, KeysTypeOK
<1>3. Current' = Current /\ Up' = Up /\ Outstanding' = Outstanding
  BY <1>1 DEF Current, Up, Outstanding
<1>4. Phases' /\ CleanedUp' /\ KeysAreCounted' /\ HandedOutOnce' /\ KeysOnDisk'
  BY <1>1 DEF KInv, Phases, CleanedUp, KeysAreCounted, HandedOutOnce, KeysOnDisk
<1>5. Current' # Nil => FileSound(Current', nKeys', used') BY <1>1, <1>3 DEF KInv
<1>6. Mirrored' BY <1>1, <1>3 DEF KInv, Mirrored, Up
<1>7. PoolIsShared' BY <1>1, <1>3 DEF KInv, PoolIsShared, Up
<1>8. OneMaster' BY <1>1, <1>3 DEF KInv, OneMaster, Up
<1>9. PoolIsNew' BY <1>1, <1>3 DEF KInv, PoolIsNew
<1>. QED BY <1>2, <1>4, <1>5, <1>6, <1>7, <1>8, <1>9, Zenon DEF KInv

LEMMA KeysInvariant == KeysSpec => []KInv
<1>1. KeysInit => KInv BY KeysAssumption, InitKeeps
<1>2. KInv /\ [KeysNext]_kvars => KInv' BY KeysAssumption, StepKeeps, StutterKeeps
<1>. QED BY <1>1, <1>2, PTL DEF KeysSpec

\* A key is handed out once, over restarts and under a miner that returns one
\* late; every key that was handed out or that a block pays can be read back
\* from wallet.dat or its copy whenever the process dies; and an index of the
\* pool leads to a record and a key, unless it was issued again while a miner
\* held it (ReserveKeyFromKeyPool, TopUpKeyPool, ReturnKey, AddKey,
\* EncryptWallet, CDB::Rewrite).
THEOREM KeysAreNotLost == KeysSpec => []KeyPoolSound
<1>1. KInv => PoolIsBacked
  <2>. SUFFICES ASSUME KInv, pc = "idle", file # Nil, NEW i \in setKeyPool
       PROVE  IF file.pool[i] = 0 THEN i \in overtaken ELSE HaveKey(file.pool[i])
    BY DEF PoolIsBacked
  <2>1. Awake BY DEF Awake
  <2>2. /\ Current = file /\ file \in WalletFile /\ FileSound(file, nKeys, used)
        /\ mapKeys = file.key /\ mapCryptedKeys = file.ckey
        /\ fUseCrypto <=> Encrypted(file)
        /\ i \in Keys
    BY <2>1, AwakeFacts DEF KInv, KeysTypeOK
  <2>3. CASE file.pool[i] = 0
    BY <2>2, <2>3 DEF KInv, PoolIsShared, Shared, Up, Indexes
  <2>4. CASE file.pool[i] # 0
    <3>1. file.pool[i] \in Owned(file) BY <2>2, <2>4 DEF Indexes, FileSound
    <3>2. CASE fUseCrypto
      <4>1. file.key = {} BY <2>2, <3>2 DEF FileSound
      <4>. QED BY <2>2, <2>4, <3>1, <3>2, <4>1 DEF HaveKey, Owned
    <3>3. CASE ~fUseCrypto
      <4>1. \A k \in Keys : file.ckey[k] = 0 BY <2>2, <3>3 DEF Encrypted
      <4>. QED BY <2>2, <2>4, <3>1, <3>3, <4>1 DEF HaveKey, Owned
    <3>. QED BY <3>2, <3>3
  <2>. QED BY <2>3, <2>4
<1>2. KInv => KeyPoolSound BY <1>1 DEF KInv, KeyPoolSound
<1>. QED BY <1>2, KeysInvariant, PTL

\* From the commit of an encryption on, whenever the process dies, the file has
\* one master key, that of the passphrase given last, and the running wallet
\* opens with it; no record and no memory has a private key in the clear, and
\* no page either unless the process died before the old file was removed; no
\* key of before is in the pool but those a miner had reserved, or all if the
\* process died before NewKeyPool (EncryptWallet, ChangeWalletPassphrase,
\* NewKeyPool, CDB::Rewrite).
THEOREM EncryptionHolds == KeysSpec => []EncryptionSound
<1>1. KInv => PhraseOpens
  <2>1. ASSUME KInv, Current # Nil, Encrypted(Current)
        PROVE  \E id \in Masters : SealedBy(Current, id, phrase)
    BY <2>1 DEF KInv, OneMaster, Sealed
  <2>2. ASSUME KInv, pc = "idle", file # Nil, fUseCrypto
        PROVE  (\E id \in Masters : Opens(phrase, id)) /\ mapMasterKeys = file.mkey
    <3>1. Awake BY <2>2 DEF Awake
    <3>2. /\ Current = file /\ file \in WalletFile
          /\ mapCryptedKeys = file.ckey /\ Encrypted(file)
      BY <2>2, <3>1, AwakeFacts
    <3>3. ~leaked BY <2>2 DEF KInv, Phases
    <3>4. mapMasterKeys = file.mkey BY <2>2, <3>2, <3>3 DEF KInv, OneMaster, Up
    <3>5. PICK id \in Masters : SealedBy(file, id, phrase) BY <2>1, <2>2, <3>2
    <3> DEFINE crypted == {k \in Keys : mapCryptedKeys[k] # 0}
    <3>6. crypted # {} BY <3>2 DEF Encrypted
    <3>7. Least(crypted) \in crypted BY <3>6, LeastKey
    <3>8. mapCryptedKeys[Least(crypted)] = id BY <3>2, <3>5, <3>7 DEF SealedBy
    <3>9. \A j \in Masters : mapMasterKeys[j] = IF j = id THEN phrase ELSE Nil
      BY <3>4, <3>5 DEF SealedBy
    <3>10. Opens(phrase, id) BY <3>8, <3>9 DEF Opens
    <3>. QED BY <3>4, <3>10
  <2>. QED BY <2>1, <2>2 DEF PhraseOpens
<1>2. KInv => NothingInTheClear
  <2>. SUFFICES ASSUME KInv, pc = "idle", fUseCrypto
       PROVE  /\ residue => cutShort
              /\ \A f \in {file, rewritten} \ {Nil} : f.key = {}
    BY DEF NothingInTheClear
  <2>1. Current = file /\ file # Nil /\ Up /\ (residue => cutShort)
    BY DEF KInv, Current, Phases, CleanedUp, Up
  <2>2. FileSound(file, nKeys, used) /\ Encrypted(file) BY <2>1 DEF KInv, Mirrored
  <2>3. rewritten # Nil => rewritten.key = {} BY DEF KInv, CleanedUp
  <2>. QED BY <2>1, <2>2, <2>3 DEF FileSound
<1>3. KInv => OldPoolIsFlushed
  <2>. SUFFICES ASSUME KInv, pc = "idle", file # Nil, fUseCrypto, NEW i \in Indexes(file)
       PROVE  file.pool[i] > lastPlain \/ file.pool[i] \in spared
    BY DEF OldPoolIsFlushed
  <2>1. Current = file /\ Up /\ pc # "encrypted" BY DEF Current, Up
  <2>2. Encrypted(file) BY <2>1 DEF KInv, Mirrored
  <2>. QED BY <2>1, <2>2 DEF KInv, PoolIsNew
<1>4. KInv => EncryptionSound BY <1>1, <1>2, <1>3 DEF EncryptionSound
<1>. QED BY <1>4, KeysInvariant, PTL
=============================================================================
