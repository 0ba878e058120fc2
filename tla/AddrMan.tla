------------------------------- MODULE AddrMan -------------------------------
(***************************************************************************)
(* The stochastic address manager (CAddrMan): the tables of new and of     *)
(* tried addresses, their indexes and their file peers.dat.                *)
(*                                                                         *)
(* The tables are one record, am, because an operation is a chain of       *)
(* helpers that each change several of them; CAddrMan::cs is held from the *)
(* first helper to the last, so an operation is one step.  A random number *)
(* is any number.  Of the times and counts of an entry only nLastSuccess   *)
(* is kept: what depends on nTime, nLastTry and nAttempts (which entry of a *)
(* full bucket is terrible or oldest, whether an announcement brings new   *)
(* information) is a choice, and Attempt_ and Connected_, which change     *)
(* nothing else, are not actions.                                          *)
(***************************************************************************)
EXTENDS Integers, FiniteSets, SequencesExt

CONSTANTS
    Services,           \* addresses with a port (CService); all are routable
    Addrs,              \* addresses without one (CNetAddr), the key of mapAddr
    AddrOf,             \* the address of a service
    Sources,            \* who announces addresses
    nNewBuckets,        \* ADDRMAN_NEW_BUCKET_COUNT
    nTriedBuckets,      \* ADDRMAN_TRIED_BUCKET_COUNT
    NewBucketOf,        \* GetNewBucket: a hash of service, source and nKey
    TriedBucketOf,      \* GetTriedBucket: a hash of service and nKey
    NewBucketSize,      \* ADDRMAN_NEW_BUCKET_SIZE
    TriedBucketSize,    \* ADDRMAN_TRIED_BUCKET_SIZE
    BucketsPerAddress,  \* ADDRMAN_NEW_BUCKETS_PER_ADDRESS
    TriedInspect,       \* ADDRMAN_TRIED_ENTRIES_INSPECT_ON_EVICT
    GetAddrMaxPct,      \* ADDRMAN_GETADDR_MAX_PCT
    SameBucketCount,    \* FALSE is in it when peers.dat may be of a program
                        \* with another ADDRMAN_NEW_BUCKET_COUNT
    MaxTime,            \* bound on the times a connection is made
    MaxId,              \* bound on nIdCount, that is on entries ever created
    MaxSaved            \* bound on the entries in a file that is written

NewBuckets == 0 .. nNewBuckets - 1
TriedBuckets == 0 .. nTriedBuckets - 1

ASSUME AddrManAssumption ==
    /\ AddrOf \in [Services -> Addrs]
    /\ nNewBuckets \in Nat \ {0} /\ nTriedBuckets \in Nat \ {0}
    /\ NewBucketOf \in [Services \X Sources -> NewBuckets]
    /\ TriedBucketOf \in [Services -> TriedBuckets]
    /\ NewBucketSize \in Nat \ {0} /\ TriedBucketSize \in Nat \ {0}
    /\ BucketsPerAddress \in Nat \ {0} /\ TriedInspect \in Nat \ {0}
    /\ GetAddrMaxPct \in 0 .. 100
    /\ SameBucketCount \subseteq BOOLEAN
    /\ MaxTime \in Nat \ {0} /\ MaxId \in Nat /\ MaxSaved \in Nat

VARIABLES
    am,        \* the object addrman
    peersDat   \* the file; a missing one reads as the file of empty tables

vars == <<am, peersDat>>

Ids == 0 .. MaxId - 1

\* An entry of mapInfo; nRandomPos counts from 1.
CAddrInfo == [service : Services, source : Sources, nLastSuccess : 0 .. MaxTime,
              nRefCount : Nat, fInTried : BOOLEAN, nRandomPos : Nat]

EmptyTables ==
    [nIdCount |-> 0, mapInfo |-> << >>, mapAddr |-> << >>, vRandom |-> << >>,
     nTried |-> 0, vvTried |-> [k \in TriedBuckets |-> << >>],
     nNew |-> 0, vvNew |-> [b \in NewBuckets |-> {}]]

-----------------------------------------------------------------------------
(* The indexes.  The operators take the tables m and return tables. *)

\* Find looks an address up without its port.
Known(m, s) == AddrOf[s] \in DOMAIN m.mapAddr
Find(m, s) == m.mapAddr[AddrOf[s]]

\* map[key] = value.
Put(f, key, value) ==
    [any \in DOMAIN f \union {key} |-> IF any = key THEN value ELSE f[any]]

Create(m, s, source) ==
    LET nId == m.nIdCount
        info == [service |-> s, source |-> source, nLastSuccess |-> 0, nRefCount |-> 0,
                 fInTried |-> FALSE, nRandomPos |-> Len(m.vRandom) + 1]
    IN  [m EXCEPT !.nIdCount = nId + 1,
                  !.mapInfo = Put(@, nId, info),
                  !.mapAddr = Put(@, AddrOf[s], nId),
                  !.vRandom = Append(@, nId)]

SwapRandom(m, nRndPos1, nRndPos2) ==
    LET nId1 == m.vRandom[nRndPos1]
        nId2 == m.vRandom[nRndPos2]
    IN  [m EXCEPT !.mapInfo = [@ EXCEPT ![nId1].nRandomPos = nRndPos2,
                                        ![nId2].nRandomPos = nRndPos1],
                  !.vRandom = [@ EXCEPT ![nRndPos1] = nId2, ![nRndPos2] = nId1]]

\* Mutant: the last entry of vRandom is not moved to the place that is free.
ForgetLast(m, nId) ==
    [m EXCEPT !.vRandom = Front(@),
              !.mapAddr = Restrict(@, DOMAIN @ \ {AddrOf[m.mapInfo[nId].service]}),
              !.mapInfo = Restrict(@, DOMAIN @ \ {nId}),
              !.nNew = @ - 1]

\* The entry nId leaves all indexes; vRandom is closed up with its last entry.
Forget(m, nId) ==
    LET swapped == SwapRandom(m, m.mapInfo[nId].nRandomPos, Len(m.vRandom))
    IN  [swapped EXCEPT
            !.vRandom = Front(@),
            !.mapAddr = Restrict(@, DOMAIN @ \ {AddrOf[m.mapInfo[nId].service]}),
            !.mapInfo = Restrict(@, DOMAIN @ \ {nId}),
            !.nNew = @ - 1]

\* The entry nId leaves the new bucket b, and the tables with the last bucket.
LeaveBucket(m, b, nId) ==
    LET out == [m EXCEPT !.mapInfo[nId].nRefCount = @ - 1, !.vvNew[b] = @ \ {nId}]
    IN  IF out.mapInfo[nId].nRefCount = 0 THEN Forget(out, nId) ELSE out

\* ShrinkNew removes a terrible entry or the oldest of four: any entry.
ShrinkNew(m, b) == {LeaveBucket(m, b, nId) : nId \in m.vvNew[b]}

-----------------------------------------------------------------------------
(* Moving an entry to the tried tables. *)

\* The random positions SelectTried and GetAddr_ shuffle with: the i-th is not
\* before i.
Picks(n, len) == {pick \in [1 .. n -> 1 .. len] : \A i \in 1 .. n : pick[i] >= i}

Smaller(x, y) == IF x < y THEN x ELSE y

\* The i-th step of the shuffle of the tried bucket acc.vTried: the entry nTemp
\* is looked at.  The position where the entry to evict is taken to be is the
\* one nTemp came from, where after the exchange the i-th entry is.
Inspect(m, pick, acc, i) ==
    LET nPos == pick[i]
        nTemp == acc.vTried[nPos]
        Success(nId) == m.mapInfo[nId].nLastSuccess
        older == acc.nOldest = -1 \/ Success(nTemp) < Success(acc.nOldest)
    IN  [vTried |-> [acc.vTried EXCEPT ![nPos] = acc.vTried[i], ![i] = nTemp],
         nOldest |-> IF older THEN nTemp ELSE acc.nOldest,
         nOldestPos |-> IF older THEN nPos ELSE acc.nOldestPos]

\* The tried bucket after the shuffle of its first entries, and the position
\* of the entry to evict.
SelectTried(m, k, pick) ==
    LET none == [vTried |-> m.vvTried[k], nOldest |-> -1, nOldestPos |-> -1]
    IN  FoldLeftDomain(LAMBDA acc, i : Inspect(m, pick, acc, i), none, pick)

\* Mutants: the evicted entry is not counted as new; it is forgotten.
EvictUncounted(m, k, selected, nId, nOrigin) ==
    LET nOld == selected.vTried[selected.nOldestPos]
        infoOld == m.mapInfo[nOld]
        home == NewBucketOf[infoOld.service, infoOld.source]
        b == IF Cardinality(m.vvNew[home]) < NewBucketSize THEN home ELSE nOrigin
    IN  [m EXCEPT !.mapInfo[nOld].fInTried = FALSE,
                  !.mapInfo[nOld].nRefCount = 1,
                  !.vvNew[b] = @ \union {nOld},
                  !.vvTried[k] = [selected.vTried EXCEPT ![selected.nOldestPos] = nId]]

EvictForgets(m, k, selected, nId, nOrigin) ==
    LET nOld == selected.vTried[selected.nOldestPos]
        placed == [m EXCEPT !.nNew = @ + 1,
                            !.vvTried[k] = [selected.vTried EXCEPT ![selected.nOldestPos] = nId]]
    IN  Forget(placed, nOld)

\* The entry at the selected position gives its place to nId and goes to its
\* new bucket or, when that is full, to the bucket nId came from.
Evict(m, k, selected, nId, nOrigin) ==
    LET nOld == selected.vTried[selected.nOldestPos]
        infoOld == m.mapInfo[nOld]
        home == NewBucketOf[infoOld.service, infoOld.source]
        b == IF Cardinality(m.vvNew[home]) < NewBucketSize THEN home ELSE nOrigin
    IN  [m EXCEPT !.mapInfo[nOld] = [infoOld EXCEPT !.fInTried = FALSE, !.nRefCount = 1],
                  !.vvNew[b] = @ \union {nOld},
                  !.nNew = @ + 1,
                  !.vvTried[k] = [selected.vTried EXCEPT ![selected.nOldestPos] = nId]]

\* Mutants: the entry leaves only the bucket it was found in; nNew is kept.
MakeTriedFromOrigin(m, nId, nOrigin) ==
    LET k == TriedBucketOf[m.mapInfo[nId].service]
        len == Len(m.vvTried[k])
        moved == [m EXCEPT !.vvNew[nOrigin] = @ \ {nId},
                           !.mapInfo[nId].nRefCount = @ - 1,
                           !.mapInfo[nId].fInTried = TRUE,
                           !.nNew = @ - 1]
    IN  IF len < TriedBucketSize
        THEN {[moved EXCEPT !.vvTried[k] = Append(@, nId), !.nTried = @ + 1]}
        ELSE {Evict(moved, k, SelectTried(m, k, pick), nId, nOrigin) :
                  pick \in Picks(Smaller(TriedInspect, len), len)}

MakeTriedKeepingNew(m, nId, nOrigin) ==
    LET k == TriedBucketOf[m.mapInfo[nId].service]
        moved == [m EXCEPT !.vvNew = [b \in NewBuckets |-> @[b] \ {nId}],
                           !.mapInfo[nId].nRefCount = 0,
                           !.mapInfo[nId].fInTried = TRUE]
    IN  IF Len(m.vvTried[k]) < TriedBucketSize
        THEN {[moved EXCEPT !.vvTried[k] = Append(@, nId), !.nTried = @ + 1]}
        ELSE {Evict(moved, k, SelectTried(m, k, pick), nId, nOrigin) :
                  pick \in Picks(1, Len(m.vvTried[k]))}

\* Mutant: an entry is evicted one promotion too late.
MakeTriedLate(m, nId, nOrigin) ==
    LET k == TriedBucketOf[m.mapInfo[nId].service]
        len == Len(m.vvTried[k])
        moved == [m EXCEPT !.vvNew = [b \in NewBuckets |-> @[b] \ {nId}],
                           !.mapInfo[nId].nRefCount = 0,
                           !.mapInfo[nId].fInTried = TRUE,
                           !.nNew = @ - 1]
    IN  IF len <= TriedBucketSize
        THEN {[moved EXCEPT !.vvTried[k] = Append(@, nId), !.nTried = @ + 1]}
        ELSE {Evict(moved, k, SelectTried(m, k, pick), nId, nOrigin) :
                  pick \in Picks(Smaller(TriedInspect, len), len)}

\* The entry nId leaves all new buckets and enters its tried bucket.
MakeTried(m, nId, nOrigin) ==
    LET info == m.mapInfo[nId]
        k == TriedBucketOf[info.service]
        in == {b \in NewBuckets : nId \in m.vvNew[b]}
        len == Len(m.vvTried[k])
        moved == [m EXCEPT
                    !.vvNew = [b \in NewBuckets |-> @[b] \ {nId}],
                    !.mapInfo[nId] =
                        [info EXCEPT !.nRefCount = info.nRefCount - Cardinality(in),
                                     !.fInTried = TRUE],
                    !.nNew = @ - 1]
    IN  IF len < TriedBucketSize
        THEN {[moved EXCEPT !.vvTried[k] = Append(@, nId), !.nTried = @ + 1]}
        ELSE {Evict(moved, k, SelectTried(m, k, pick), nId, nOrigin) :
                  pick \in Picks(Smaller(TriedInspect, len), len)}

-----------------------------------------------------------------------------
(* peers.dat *)

\* How many identifiers of S are below nId, and the identifiers in their order.
Rank(S, nId) == Cardinality({j \in S : j < nId})
InOrder(S) == [i \in 1 .. Cardinality(S) |-> CHOOSE nId \in S : Rank(S, nId) = i - 1]

\* What is written of an entry: not its counts, place and identifier.
Record(info) == [service |-> info.service, source |-> info.source,
                 nLastSuccess |-> info.nLastSuccess]

\* Mutant: the positions count the tried entries too.
SerializeAllCounted(m) ==
    LET new == {nId \in DOMAIN m.mapInfo : m.mapInfo[nId].nRefCount # 0}
        tried == {nId \in DOMAIN m.mapInfo : m.mapInfo[nId].fInTried}
        mapUnkIds(nId) == Rank(DOMAIN m.mapInfo, nId)
        Records(S) == LET order == InOrder(S)
                      IN  [i \in DOMAIN order |-> Record(m.mapInfo[order[i]])]
    IN  [new |-> Records(new),
         tried |-> Records(tried),
         buckets |-> [b \in NewBuckets |-> {mapUnkIds(nId) : nId \in m.vvNew[b]}]]

\* The entries with a reference count and those in tried, each in the order of
\* their identifiers, and for each new bucket the positions of its entries.  The
\* lengths are the counters nNew and nTried of the code (see CountersAgree).
Serialize(m) ==
    LET new == {nId \in DOMAIN m.mapInfo : m.mapInfo[nId].nRefCount # 0}
        tried == {nId \in DOMAIN m.mapInfo : m.mapInfo[nId].fInTried}
        mapUnkIds(nId) == Rank(new, nId)
        Records(S) == LET order == InOrder(S)
                      IN  [i \in DOMAIN order |-> Record(m.mapInfo[order[i]])]
    IN  [new |-> Records(new),
         tried |-> Records(tried),
         buckets |-> [b \in NewBuckets |-> {mapUnkIds(nId) : nId \in m.vvNew[b]}]]

Entry(record, count, inTried, pos) ==
    [service |-> record.service, source |-> record.source,
     nLastSuccess |-> record.nLastSuccess,
     nRefCount |-> count, fInTried |-> inTried, nRandomPos |-> pos]

\* One tried entry is read; it is dropped when its bucket is full.
ReadTried(m, record) ==
    LET k == TriedBucketOf[record.service]
        nId == m.nIdCount
    IN  IF Len(m.vvTried[k]) < TriedBucketSize
        THEN [m EXCEPT !.nIdCount = nId + 1,
                       !.mapInfo = Put(@, nId, Entry(record, 0, TRUE, Len(m.vRandom) + 1)),
                       !.mapAddr = Put(@, AddrOf[record.service], nId),
                       !.vRandom = Append(@, nId),
                       !.vvTried[k] = Append(@, nId)]
        ELSE [m EXCEPT !.nTried = @ - 1]

\* The new entries get the identifiers from 0 and, when the file has as many
\* buckets as the program, the buckets of the file up to the limit for one
\* address; otherwise each gets the bucket of its own source.
Unserialize(file, same) ==
    LET n == Len(file.new)
        BucketOf(nId) == NewBucketOf[file.new[nId + 1].service, file.new[nId + 1].source]
        Earlier(nId, b) == {c \in 0 .. b - 1 : nId \in file.buckets[c]}
        Allowed(nId, b) == Cardinality(Earlier(nId, b)) < BucketsPerAddress
        vvNew == [b \in NewBuckets |->
                    IF same
                    THEN {nId \in file.buckets[b] : Allowed(nId, b)}
                    ELSE {nId \in 0 .. n - 1 : BucketOf(nId) = b}]
        Count(nId) == Cardinality({b \in NewBuckets : nId \in vvNew[b]})
        AddrAt(i) == AddrOf[file.new[i].service]
        readNew ==
            [EmptyTables EXCEPT
                !.nIdCount = n,
                !.nTried = Len(file.tried),
                !.vRandom = [i \in 1 .. n |-> i - 1],
                !.mapInfo = [nId \in 0 .. n - 1 |->
                                Entry(file.new[nId + 1], Count(nId), FALSE, nId + 1)],
                !.mapAddr = [a \in {AddrAt(i) : i \in 1 .. n} |->
                                CHOOSE nId \in 0 .. n - 1 : AddrAt(nId + 1) = a]]
        read == FoldLeft(ReadTried, readNew, file.tried)
    IN  [nIdCount |-> read.nIdCount, mapInfo |-> read.mapInfo, mapAddr |-> read.mapAddr,
         vRandom |-> read.vRandom, nTried |-> read.nTried, vvTried |-> read.vvTried,
         nNew |-> n, vvNew |-> vvNew]

-----------------------------------------------------------------------------
(* The operations. *)

\* Mutants: the bucket is not counted; room is made one entry too late.
EnterBucketUncounted(m, nId, s, source) ==
    LET b == NewBucketOf[s, source]
        shrunk == IF Cardinality(m.vvNew[b]) = NewBucketSize THEN ShrinkNew(m, b) ELSE {m}
    IN  IF nId \in m.vvNew[b] THEN {m}
        ELSE {[r EXCEPT !.vvNew[b] = @ \union {nId}] : r \in shrunk}

EnterBucketLate(m, nId, s, source) ==
    LET b == NewBucketOf[s, source]
        counted == [m EXCEPT !.mapInfo[nId].nRefCount = @ + 1]
        shrunk == IF Cardinality(m.vvNew[b]) = NewBucketSize + 1
                  THEN ShrinkNew(counted, b) ELSE {counted}
    IN  IF nId \in m.vvNew[b] THEN {m}
        ELSE {[r EXCEPT !.vvNew[b] = @ \union {nId}] : r \in shrunk}

\* The entry nId is put into the new bucket of this announcement.
EnterBucket(m, nId, s, source) ==
    LET b == NewBucketOf[s, source]
        counted == [m EXCEPT !.mapInfo[nId].nRefCount = @ + 1]
        shrunk == IF Cardinality(m.vvNew[b]) = NewBucketSize
                  THEN ShrinkNew(counted, b) ELSE {counted}
    IN  IF nId \in m.vvNew[b] THEN {m}
        ELSE {[r EXCEPT !.vvNew[b] = @ \union {nId}] : r \in shrunk}

\* Add_: an unknown service is announced.
AddUnknown(s, source) ==
    /\ ~Known(am, s)
    /\ am.nIdCount < MaxId
    /\ LET created == [Create(am, s, source) EXCEPT !.nNew = @ + 1]
       IN  am' \in EnterBucket(created, am.nIdCount, s, source)
    /\ UNCHANGED peersDat

\* Add_: a known service is announced again, with news, and the stochastic
\* test is passed.  The bucket is that of the known service.
AddAgain(s, source) ==
    /\ Known(am, s)
    /\ LET nId == Find(am, s)
           info == am.mapInfo[nId]
       IN  /\ ~info.fInTried
           /\ info.nRefCount # BucketsPerAddress
           /\ am' \in EnterBucket(am, nId, info.service, source)
    /\ UNCHANGED peersDat

\* Good_: a connection to the service has worked.  Any of the buckets the entry
\* is in may be found first; an entry that is in none is left alone.
Good(s, nTime) ==
    /\ Known(am, s)
    /\ LET nId == Find(am, s)
           found == [am EXCEPT !.mapInfo[nId].nLastSuccess = nTime]
           origins == {b \in NewBuckets : nId \in am.vvNew[b]}
       IN  /\ am.mapInfo[nId].service = s
           /\ IF am.mapInfo[nId].fInTried \/ origins = {}
              THEN am' = found
              ELSE \E b \in origins : am' \in MakeTried(found, nId, b)
    /\ UNCHANGED peersDat

\* The tables after the exchanges of pick.
Shuffled(m, pick) == FoldLeftDomain(LAMBDA r, i : SwapRandom(r, i, pick[i]), m, pick)

\* GetAddr_ shuffles the part of vRandom that it returns.
GetAddr ==
    /\ LET size == Len(am.vRandom)
           nNodes == (GetAddrMaxPct * size) \div 100
       IN  \E pick \in Picks(nNodes, size) :
              am' = [am EXCEPT !.mapInfo = Shuffled(am, pick).mapInfo,
                               !.vRandom = Shuffled(am, pick).vRandom]
    /\ UNCHANGED peersDat

\* DumpAddresses: a complete new file replaces the old one.
DumpAddresses ==
    /\ Len(am.vRandom) <= MaxSaved
    /\ peersDat' = Serialize(am)
    /\ UNCHANGED am

\* The process ends, or dies, and the next one reads the file.
Restart(same) ==
    /\ am' = Unserialize(peersDat, same)
    /\ UNCHANGED peersDat

\* The next process cannot read the file and keeps its empty tables.
RestartUnreadable ==
    /\ am' = EmptyTables
    /\ UNCHANGED peersDat

Init ==
    /\ am = EmptyTables
    /\ peersDat = Serialize(EmptyTables)

Next ==
    \/ \E s \in Services, source \in Sources : AddUnknown(s, source)
    \/ \E s \in Services, source \in Sources : AddAgain(s, source)
    \/ \E s \in Services, nTime \in 1 .. MaxTime : Good(s, nTime)
    \/ GetAddr
    \/ DumpAddresses
    \/ \E same \in SameBucketCount : Restart(same)
    \/ RestartUnreadable

Spec == Init /\ [][Next]_vars

-----------------------------------------------------------------------------
(* Properties *)

TriedPlaces(m) == UNION {{k} \X DOMAIN m.vvTried[k] : k \in TriedBuckets}
TriedPlacesOf(m, nId) == {p \in TriedPlaces(m) : m.vvTried[p[1]][p[2]] = nId}
NewBucketsWith(m, nId) == {b \in NewBuckets : nId \in m.vvNew[b]}

\* The tables have the types of the fields of CAddrMan.
TypeOK ==
    /\ DOMAIN am.mapInfo \subseteq Ids
    /\ am.mapInfo \in [DOMAIN am.mapInfo -> CAddrInfo]
    /\ am.mapAddr \in [DOMAIN am.mapAddr -> Ids] /\ DOMAIN am.mapAddr \subseteq Addrs
    /\ am.nIdCount \in 0 .. MaxId
    /\ am.vRandom \in Seq(Ids)
    /\ am.nTried \in Nat /\ am.nNew \in Nat
    /\ am.vvTried \in [TriedBuckets -> Seq(Ids)]
    /\ am.vvNew \in [NewBuckets -> SUBSET Ids]
    /\ DOMAIN peersDat.buckets = NewBuckets

IndexesAgreeIn(m) ==
    /\ DOMAIN m.mapAddr = {AddrOf[m.mapInfo[nId].service] : nId \in DOMAIN m.mapInfo}
    /\ \A nId \in DOMAIN m.mapInfo :
          /\ m.mapAddr[AddrOf[m.mapInfo[nId].service]] = nId
          /\ m.mapInfo[nId].nRandomPos \in 1 .. Len(m.vRandom)
          /\ m.vRandom[m.mapInfo[nId].nRandomPos] = nId
          /\ nId < m.nIdCount
    /\ Len(m.vRandom) = Cardinality(DOMAIN m.mapInfo)

\* mapAddr finds every entry under its own address and nothing else, vRandom
\* lists every entry once, each at the place nRandomPos names, and no identifier
\* will be given again (results -5, -7 and -14 of Check_).
IndexesAgree == IndexesAgreeIn(am)

PlacesAgreeIn(m) ==
    /\ \A nId \in DOMAIN m.mapInfo :
          LET info == m.mapInfo[nId]
              places == TriedPlacesOf(m, nId)
          IN  /\ info.nRefCount = Cardinality(NewBucketsWith(m, nId))
              /\ IF info.fInTried
                 THEN /\ info.nRefCount = 0
                      /\ info.nLastSuccess # 0
                      /\ \E p \in places : places = {p} /\ p[1] = TriedBucketOf[info.service]
                 ELSE info.nRefCount \in 1 .. BucketsPerAddress /\ places = {}
    /\ \A b \in NewBuckets : m.vvNew[b] \subseteq DOMAIN m.mapInfo
    /\ \A p \in TriedPlaces(m) : m.vvTried[p[1]][p[2]] \in DOMAIN m.mapInfo

\* An entry is in one place of the tried tables, that of its address, or in as
\* many new buckets as its count says, at least one and at most the limit; the
\* tables hold nothing else (results -1 to -4, -11 to -13 and -15 of Check_, and
\* the assertions of MakeTried).
PlacesAgree == PlacesAgreeIn(am)

CountersAgreeIn(m) ==
    /\ m.nTried = Cardinality({nId \in DOMAIN m.mapInfo : m.mapInfo[nId].fInTried})
    /\ m.nNew = Cardinality({nId \in DOMAIN m.mapInfo : m.mapInfo[nId].nRefCount # 0})

\* nNew and nTried count the entries of the two tables (results -9 and -10 of
\* Check_).  Serialize stops writing entries when it has written that many, and
\* the reader reads that many.
CountersAgree == CountersAgreeIn(am)

\* No new bucket is ever over its limit.  MakeTried relies on it when it sends
\* the evicted entry to the bucket the promoted one came from, and Add_, which
\* makes room only in a bucket whose size is exactly the limit.
NewBucketsBounded == \A b \in NewBuckets : Cardinality(am.vvNew[b]) <= NewBucketSize

\* The tables do not grow without bound: no tried bucket is over its limit,
\* whether it is filled by promotions or from the file.
TriedBucketsBounded == \A k \in TriedBuckets : Len(am.vvTried[k]) <= TriedBucketSize

\* Select_ draws buckets, with the lock held, until it finds one that is not
\* empty.  It draws from the tried ones only when nTried is not 0 and from the
\* new ones only when nNew is not 0 or there is nothing tried; there is one.
SelectFinds ==
    Len(am.vRandom) # 0 =>
        /\ am.nTried # 0 => \E k \in TriedBuckets : am.vvTried[k] # << >>
        /\ am.nNew # 0 \/ am.nTried = 0 => \E b \in NewBuckets : am.vvNew[b] # {}

\* What CAddrMan::Check_ tests, which only debug builds run, and the two facts
\* that the loops of Select_ and MakeTried rely on.
Check_ ==
    TypeOK /\ IndexesAgree /\ PlacesAgree /\ CountersAgree /\ TriedBucketsBounded /\ SelectFinds

\* The buckets as far as addresses are concerned.
NewPlaces(m) ==
    UNION {{<<Record(m.mapInfo[nId]), b>> : nId \in m.vvNew[b]} : b \in NewBuckets}
TriedEntries(m) ==
    {Record(m.mapInfo[nId]) : nId \in {j \in DOMAIN m.mapInfo : m.mapInfo[j].fInTried}}

\* The tables any state would write are read back consistent, and with every
\* entry in its buckets, although entries are renumbered and the tried buckets,
\* mapAddr, vRandom and the counts are not written.
RoundTrip ==
    LET m == Unserialize(Serialize(am), TRUE)
    IN  /\ NewPlaces(m) = NewPlaces(am)
        /\ TriedEntries(m) = TriedEntries(am)
        /\ IndexesAgreeIn(m)
        /\ PlacesAgreeIn(m)
        /\ CountersAgreeIn(m)

\* What the tables m say of every address.
StatusIn(m) ==
    [a \in Addrs |-> IF a \notin DOMAIN m.mapAddr THEN "unknown"
                     ELSE IF m.mapInfo[m.mapAddr[a]].fInTried THEN "tried" ELSE "new"]

\* What a file says of every address.
Lists(records, a) == \E i \in DOMAIN records : AddrOf[records[i].service] = a
StatusInFile(file) ==
    [a \in Addrs |-> IF Lists(file.new, a) THEN "new"
                     ELSE IF Lists(file.tried, a) THEN "tried" ELSE "unknown"]

Book == INSTANCE AddrBook WITH status <- StatusIn(am), saved <- StatusInFile(peersDat)

\* The tables are an address book: a step forgets at most one address, a new
\* one, demotes at most one tried address, and never promotes one it did not
\* know.  What is restored is what was saved.
ImplementsAddrBook == Book!Spec

=============================================================================
