---------------------------- MODULE AddrManProofs ----------------------------
(***************************************************************************)
(* Theorems about the address manager: its tables and what peers.dat keeps *)
(* of them.                                                                *)
(***************************************************************************)
EXTENDS AddrMan, Induction, FiniteSetTheorems, SequenceTheorems

-----------------------------------------------------------------------------
(***************************************************************************)
(* No new bucket is ever over its limit, for any number of buckets, any    *)
(* sizes and any hash, as long as peers.dat comes from a program with the  *)
(* same number of buckets.                                                 *)
(*                                                                         *)
(* The limit is kept because a bucket is only entered after room has been  *)
(* made in it, or through the place the promoted entry has left.  It must  *)
(* hold of the file too, which is read without a look at the sizes.        *)
(***************************************************************************)

\* The buckets v are finite and within their limit.
Bounded(v) ==
    /\ DOMAIN v = NewBuckets
    /\ \A b \in NewBuckets : IsFiniteSet(v[b]) /\ Cardinality(v[b]) <= NewBucketSize

\* The inductive invariant.
BoundedEverywhere ==
    /\ "vvNew" \in DOMAIN am
    /\ Bounded(am.vvNew)
    /\ Bounded(peersDat.buckets)

-----------------------------------------------------------------------------
\* A set that loses elements stays within its limit.
LEMMA SubsetBounded ==
    ASSUME NEW S, NEW T \in SUBSET S, NEW n, IsFiniteSet(S), Cardinality(S) <= n, n \in Nat
    PROVE  IsFiniteSet(T) /\ Cardinality(T) <= n
<1>1. IsFiniteSet(T) /\ Cardinality(T) <= Cardinality(S)
  BY FS_Subset
<1>2. Cardinality(T) \in Nat /\ Cardinality(S) \in Nat
  BY <1>1, FS_CardinalityType
<1> QED
  BY <1>1, <1>2

\* A set with a free place takes one more element.
LEMMA AddBounded ==
    ASSUME NEW S, NEW x, NEW n \in Nat, IsFiniteSet(S), Cardinality(S) < n
    PROVE  IsFiniteSet(S \union {x}) /\ Cardinality(S \union {x}) <= n
<1>1. /\ IsFiniteSet(S \union {x})
      /\ Cardinality(S \union {x}) \in {Cardinality(S), Cardinality(S) + 1}
  BY FS_AddElement
<1>2. Cardinality(S) \in Nat
  BY FS_CardinalityType
<1> QED
  BY <1>1, <1>2

\* Taking an element out of a set within its limit makes a free place.
LEMMA RemoveMakesRoom ==
    ASSUME NEW S, NEW x \in S, NEW n \in Nat, IsFiniteSet(S), Cardinality(S) <= n
    PROVE  IsFiniteSet(S \ {x}) /\ Cardinality(S \ {x}) < n
<1>1. IsFiniteSet(S \ {x}) /\ Cardinality(S \ {x}) = Cardinality(S) - 1
  BY FS_RemoveElement
<1>2. Cardinality(S) \in Nat
  BY FS_CardinalityType
<1> QED
  BY <1>1, <1>2

\* The indexes are not the buckets.
LEMMA SwapRandomEffect ==
    ASSUME NEW m, "vvNew" \in DOMAIN m, NEW p1, NEW p2
    PROVE  /\ "vvNew" \in DOMAIN SwapRandom(m, p1, p2)
           /\ SwapRandom(m, p1, p2).vvNew = m.vvNew
BY DEF SwapRandom

LEMMA ForgetEffect ==
    ASSUME NEW m, "vvNew" \in DOMAIN m, NEW nId
    PROVE  "vvNew" \in DOMAIN Forget(m, nId) /\ Forget(m, nId).vvNew = m.vvNew
<1> DEFINE swapped == SwapRandom(m, m.mapInfo[nId].nRandomPos, Len(m.vRandom))
<1>1. "vvNew" \in DOMAIN swapped /\ swapped.vvNew = m.vvNew
  BY SwapRandomEffect
<1> HIDE DEF swapped
<1> QED
  BY <1>1 DEF Forget, swapped

\* An entry leaves one bucket: no other bucket changes.
LEMMA LeaveBucketEffect ==
    ASSUME NEW m, "vvNew" \in DOMAIN m, NEW c, NEW nId
    PROVE  /\ "vvNew" \in DOMAIN LeaveBucket(m, c, nId)
           /\ DOMAIN LeaveBucket(m, c, nId).vvNew = DOMAIN m.vvNew
           /\ \A b \in DOMAIN m.vvNew :
                 LeaveBucket(m, c, nId).vvNew[b]
                     = IF b = c THEN m.vvNew[b] \ {nId} ELSE m.vvNew[b]
<1> DEFINE out == [m EXCEPT !.mapInfo[nId].nRefCount = @ - 1, !.vvNew[c] = @ \ {nId}]
<1>1. "vvNew" \in DOMAIN out /\ out.vvNew = [m.vvNew EXCEPT ![c] = @ \ {nId}]
  OBVIOUS
<1>2. LeaveBucket(m, c, nId) \in {out, Forget(out, nId)}
  BY DEF LeaveBucket
<1> HIDE DEF out
<1>3. /\ "vvNew" \in DOMAIN LeaveBucket(m, c, nId)
      /\ LeaveBucket(m, c, nId).vvNew = out.vvNew
  BY <1>1, <1>2, ForgetEffect
<1>4. /\ DOMAIN out.vvNew = DOMAIN m.vvNew
      /\ \A b \in DOMAIN m.vvNew :
            out.vvNew[b] = IF b = c THEN m.vvNew[b] \ {nId} ELSE m.vvNew[b]
  BY <1>1
<1> QED
  BY <1>3, <1>4, Zenon

\* Entering a bucket keeps all buckets within the limit: room is made first.
LEMMA EnterBucketBounded ==
    ASSUME NEW m, "vvNew" \in DOMAIN m, Bounded(m.vvNew),
           NEW nId, NEW s, NEW source, NEW r \in EnterBucket(m, nId, s, source)
    PROVE  "vvNew" \in DOMAIN r /\ Bounded(r.vvNew)
<1> DEFINE c == NewBucketOf[s, source]
           counted == [m EXCEPT !.mapInfo[nId].nRefCount = @ + 1]
           shrunk == IF Cardinality(m.vvNew[c]) = NewBucketSize
                     THEN ShrinkNew(counted, c) ELSE {counted}
<1>0. NewBucketSize \in Nat \ {0}
  BY AddrManAssumption
<1>1. "vvNew" \in DOMAIN counted /\ counted.vvNew = m.vvNew
  OBVIOUS
<1>2. \/ r = m
      \/ \E q \in shrunk : r = [q EXCEPT !.vvNew[c] = @ \union {nId}]
  BY DEF EnterBucket
<1> HIDE DEF counted, c
<1>3. CASE r = m
  BY <1>3
<1>4. CASE \E q \in shrunk : r = [q EXCEPT !.vvNew[c] = @ \union {nId}]
  <2>1. PICK q \in shrunk : r = [q EXCEPT !.vvNew[c] = @ \union {nId}]
    BY <1>4
  <2>2. /\ "vvNew" \in DOMAIN q /\ DOMAIN q.vvNew = NewBuckets
        /\ \A b \in NewBuckets :
              IF b = c THEN IsFiniteSet(q.vvNew[b]) /\ Cardinality(q.vvNew[b]) < NewBucketSize
                       ELSE q.vvNew[b] = m.vvNew[b]
    <3>1. CASE Cardinality(m.vvNew[c]) = NewBucketSize
      <4>1. PICK old \in m.vvNew[c] : q = LeaveBucket(counted, c, old)
        BY <1>1, <3>1 DEF ShrinkNew
      <4>2. /\ "vvNew" \in DOMAIN q /\ DOMAIN q.vvNew = NewBuckets
            /\ \A b \in NewBuckets :
                  q.vvNew[b] = IF b = c THEN m.vvNew[b] \ {old} ELSE m.vvNew[b]
        <5> DEFINE left == LeaveBucket(counted, c, old)
        <5>1. /\ "vvNew" \in DOMAIN left
              /\ DOMAIN left.vvNew = DOMAIN counted.vvNew
              /\ \A b \in DOMAIN counted.vvNew :
                    left.vvNew[b] = IF b = c THEN counted.vvNew[b] \ {old} ELSE counted.vvNew[b]
          BY <1>1, LeaveBucketEffect, Z3
        <5> HIDE DEF left
        <5> QED
          BY <1>1, <4>1, <5>1 DEF Bounded, left
      <4>3. ASSUME c \in NewBuckets
            PROVE  /\ IsFiniteSet(m.vvNew[c] \ {old})
                   /\ Cardinality(m.vvNew[c] \ {old}) < NewBucketSize
        <5>1. IsFiniteSet(m.vvNew[c]) /\ Cardinality(m.vvNew[c]) <= NewBucketSize
          BY <4>3 DEF Bounded
        <5> QED
          BY <1>0, <5>1, RemoveMakesRoom
      <4> QED
        BY <4>2, <4>3
    <3>2. CASE Cardinality(m.vvNew[c]) # NewBucketSize
      <4>1. q = counted
        BY <3>2
      <4>2. ASSUME c \in NewBuckets
            PROVE  IsFiniteSet(m.vvNew[c]) /\ Cardinality(m.vvNew[c]) < NewBucketSize
        <5>1. IsFiniteSet(m.vvNew[c]) /\ Cardinality(m.vvNew[c]) <= NewBucketSize
          BY <4>2 DEF Bounded
        <5>2. Cardinality(m.vvNew[c]) \in Nat
          BY <5>1, FS_CardinalityType
        <5> QED
          BY <1>0, <3>2, <5>1, <5>2
      <4> QED
        BY <1>1, <4>1, <4>2 DEF Bounded
    <3> QED
      BY <3>1, <3>2
  <2>3. /\ "vvNew" \in DOMAIN r /\ DOMAIN r.vvNew = NewBuckets
        /\ \A b \in NewBuckets :
              r.vvNew[b] = IF b = c THEN q.vvNew[b] \union {nId} ELSE q.vvNew[b]
    BY <2>1, <2>2
  <2>4. ASSUME NEW b \in NewBuckets
        PROVE  IsFiniteSet(r.vvNew[b]) /\ Cardinality(r.vvNew[b]) <= NewBucketSize
    <3>1. CASE b = c
      <4>1. IsFiniteSet(q.vvNew[b]) /\ Cardinality(q.vvNew[b]) < NewBucketSize
        BY <2>2, <3>1
      <4>2. /\ IsFiniteSet(q.vvNew[b] \union {nId})
            /\ Cardinality(q.vvNew[b] \union {nId}) <= NewBucketSize
        BY <1>0, <4>1, AddBounded
      <4> QED
        BY <2>3, <3>1, <4>2
    <3>2. CASE b # c
      BY <2>2, <2>3, <3>2 DEF Bounded
    <3> QED
      BY <3>1, <3>2
  <2> QED
    BY <2>3, <2>4 DEF Bounded
<1> QED
  BY <1>2, <1>3, <1>4

\* Promoting an entry keeps all buckets within the limit: the evicted entry
\* finds room in its own bucket or takes the place of the promoted one ("there
\* is certainly place there", addrman.cpp:251).
LEMMA MakeTriedBounded ==
    ASSUME NEW m, "vvNew" \in DOMAIN m, Bounded(m.vvNew), NEW origin \in NewBuckets,
           NEW nId \in m.vvNew[origin], NEW r \in MakeTried(m, nId, origin)
    PROVE  "vvNew" \in DOMAIN r /\ Bounded(r.vvNew)
<1> DEFINE info == m.mapInfo[nId]
           k == TriedBucketOf[info.service]
           in == {b \in NewBuckets : nId \in m.vvNew[b]}
           without == [b \in NewBuckets |-> m.vvNew[b] \ {nId}]
           moved == [m EXCEPT
                       !.vvNew = [b \in NewBuckets |-> @[b] \ {nId}],
                       !.mapInfo[nId] =
                           [info EXCEPT !.nRefCount = info.nRefCount - Cardinality(in),
                                        !.fInTried = TRUE],
                       !.nNew = @ - 1]
<1>0. NewBucketSize \in Nat \ {0}
  BY AddrManAssumption
<1>1. "vvNew" \in DOMAIN moved /\ moved.vvNew = without
  OBVIOUS
<1> HIDE DEF moved
<1>2. Bounded(without)
  <2> SUFFICES ASSUME NEW b \in NewBuckets
               PROVE  IsFiniteSet(without[b]) /\ Cardinality(without[b]) <= NewBucketSize
    BY DEF Bounded
  <2>1. IsFiniteSet(m.vvNew[b]) /\ Cardinality(m.vvNew[b]) <= NewBucketSize
    BY DEF Bounded
  <2> QED
    BY <2>1, <1>0, SubsetBounded
<1>3. IsFiniteSet(without[origin]) /\ Cardinality(without[origin]) < NewBucketSize
  <2>1. IsFiniteSet(m.vvNew[origin]) /\ Cardinality(m.vvNew[origin]) <= NewBucketSize
    BY DEF Bounded
  <2> QED
    BY <2>1, <1>0, RemoveMakesRoom
<1>4. CASE r = [moved EXCEPT !.vvTried[k] = Append(@, nId), !.nTried = @ + 1]
  BY <1>1, <1>2, <1>4
<1>5. CASE \E selected : r = Evict(moved, k, selected, nId, origin)
  <2>1. PICK selected : r = Evict(moved, k, selected, nId, origin)
    BY <1>5
  <2> DEFINE old == selected.vTried[selected.nOldestPos]
             home == NewBucketOf[moved.mapInfo[old].service, moved.mapInfo[old].source]
             b == IF Cardinality(without[home]) < NewBucketSize THEN home ELSE origin
  <2>2. /\ "vvNew" \in DOMAIN r
        /\ r.vvNew = [without EXCEPT ![b] = @ \union {old}]
    BY <1>1, <2>1 DEF Evict
  <2>3. b \in NewBuckets =>
            IsFiniteSet(without[b]) /\ Cardinality(without[b]) < NewBucketSize
    BY <1>2, <1>3 DEF Bounded
  <2> HIDE DEF without, b, old
  <2>4. /\ DOMAIN r.vvNew = NewBuckets
        /\ \A x \in NewBuckets :
              r.vvNew[x] = IF x = b THEN without[x] \union {old} ELSE without[x]
    BY <1>2, <2>2 DEF Bounded
  <2>5. ASSUME NEW x \in NewBuckets
        PROVE  IsFiniteSet(r.vvNew[x]) /\ Cardinality(r.vvNew[x]) <= NewBucketSize
    <3>1. CASE x = b
      <4>1. /\ IsFiniteSet(without[x] \union {old})
            /\ Cardinality(without[x] \union {old}) <= NewBucketSize
        BY <1>0, <2>3, <3>1, AddBounded
      <4> QED
        BY <2>4, <3>1, <4>1
    <3>2. CASE x # b
      BY <1>2, <2>4, <3>2 DEF Bounded
    <3> QED
      BY <3>1, <3>2
  <2> QED
    BY <2>2, <2>4, <2>5 DEF Bounded
<1> QED
  BY <1>4, <1>5 DEF MakeTried, moved

\* The buckets of the file are as large as those of the tables at most.
LEMMA SerializeBounded ==
    ASSUME NEW m, Bounded(m.vvNew)
    PROVE  Bounded(Serialize(m).buckets)
<1> DEFINE new == {nId \in DOMAIN m.mapInfo : m.mapInfo[nId].nRefCount # 0}
           mapUnkIds(nId) == Rank(new, nId)
           image(b) == {mapUnkIds(nId) : nId \in m.vvNew[b]}
<1>0. NewBucketSize \in Nat
  BY AddrManAssumption
<1>1. Serialize(m).buckets = [b \in NewBuckets |-> image(b)]
  BY DEF Serialize
<1>2. ASSUME NEW b \in NewBuckets
      PROVE  IsFiniteSet(image(b)) /\ Cardinality(image(b)) <= NewBucketSize
  <2> DEFINE f == [nId \in m.vvNew[b] |-> mapUnkIds(nId)]
  <2> HIDE DEF mapUnkIds
  <2>1. f \in Surjection(m.vvNew[b], image(b))
    BY DEF Surjection
  <2>2. IsFiniteSet(m.vvNew[b]) /\ Cardinality(m.vvNew[b]) <= NewBucketSize
    BY DEF Bounded
  <2> HIDE DEF f, image
  <2>3. IsFiniteSet(image(b)) /\ Cardinality(image(b)) <= Cardinality(m.vvNew[b])
    BY <2>1, <2>2, FS_Surjection
  <2>4. Cardinality(image(b)) \in Nat /\ Cardinality(m.vvNew[b]) \in Nat
    BY <2>2, <2>3, FS_CardinalityType
  <2> QED
    BY <2>2, <2>3, <2>4, <1>0
<1> HIDE DEF image
<1> QED
  BY <1>1, <1>2 DEF Bounded

\* Reading a file of the same number of buckets fills no bucket further than
\* the file does.
LEMMA UnserializeBounded ==
    ASSUME NEW file, Bounded(file.buckets)
    PROVE  /\ "vvNew" \in DOMAIN Unserialize(file, TRUE)
           /\ Bounded(Unserialize(file, TRUE).vvNew)
<1> DEFINE v == Unserialize(file, TRUE).vvNew
<1>0. NewBucketSize \in Nat
  BY AddrManAssumption
<1>1. /\ "vvNew" \in DOMAIN Unserialize(file, TRUE)
      /\ DOMAIN v = NewBuckets
      /\ \A b \in NewBuckets : v[b] \subseteq file.buckets[b]
  BY DEF Unserialize
<1> HIDE DEF v
<1>2. ASSUME NEW b \in NewBuckets
      PROVE  IsFiniteSet(v[b]) /\ Cardinality(v[b]) <= NewBucketSize
  <2>1. IsFiniteSet(file.buckets[b]) /\ Cardinality(file.buckets[b]) <= NewBucketSize
    BY DEF Bounded
  <2> QED
    BY <1>0, <1>1, <2>1, SubsetBounded
<1> QED
  BY <1>1, <1>2 DEF Bounded, v

\* Tables without entries have room everywhere.
LEMMA EmptyBounded == "vvNew" \in DOMAIN EmptyTables /\ Bounded(EmptyTables.vvNew)
<1>1. EmptyTables.vvNew = [b \in NewBuckets |-> {}] /\ "vvNew" \in DOMAIN EmptyTables
  BY DEF EmptyTables
<1>2. IsFiniteSet({}) /\ Cardinality({}) = 0
  BY FS_EmptySet
<1> QED
  BY <1>1, <1>2, AddrManAssumption DEF Bounded

-----------------------------------------------------------------------------
LEMMA BoundedInit == Init => BoundedEverywhere
BY EmptyBounded, SerializeBounded DEF Init, BoundedEverywhere

\* Every operation keeps the buckets within their limit.
LEMMA BoundedNext ==
    ASSUME SameBucketCount \subseteq {TRUE}, BoundedEverywhere, [Next]_vars
    PROVE  BoundedEverywhere'
<1> USE DEF BoundedEverywhere
<1>1. ASSUME NEW s \in Services, NEW source \in Sources, AddUnknown(s, source)
      PROVE  BoundedEverywhere'
  <2> DEFINE created == [Create(am, s, source) EXCEPT !.nNew = @ + 1]
  <2>1. "vvNew" \in DOMAIN created /\ created.vvNew = am.vvNew
    BY DEF Create
  <2>2. am' \in EnterBucket(created, am.nIdCount, s, source) /\ peersDat' = peersDat
    BY <1>1 DEF AddUnknown
  <2> HIDE DEF created
  <2> QED
    BY <2>1, <2>2, EnterBucketBounded
<1>2. ASSUME NEW s \in Services, NEW source \in Sources, AddAgain(s, source)
      PROVE  BoundedEverywhere'
  <2>1. /\ \E nId, k : am' \in EnterBucket(am, nId, k, source)
        /\ peersDat' = peersDat
    BY <1>2 DEF AddAgain
  <2> QED
    BY <2>1, EnterBucketBounded
<1>3. ASSUME NEW s \in Services, NEW nTime \in 1 .. MaxTime, Good(s, nTime)
      PROVE  BoundedEverywhere'
  <2> DEFINE nId == Find(am, s)
             found == [am EXCEPT !.mapInfo[nId].nLastSuccess = nTime]
  <2>1. "vvNew" \in DOMAIN found /\ found.vvNew = am.vvNew
    OBVIOUS
  <2>2. /\ \/ am' = found
           \/ \E b \in NewBuckets : nId \in am.vvNew[b] /\ am' \in MakeTried(found, nId, b)
        /\ peersDat' = peersDat
    BY <1>3 DEF Good
  <2> HIDE DEF found, nId
  <2> QED
    BY <2>1, <2>2, MakeTriedBounded
<1>4. CASE GetAddr
  BY <1>4 DEF GetAddr
<1>5. CASE DumpAddresses
  BY <1>5, SerializeBounded DEF DumpAddresses
<1>6. ASSUME NEW same \in SameBucketCount, Restart(same)
      PROVE  BoundedEverywhere'
  BY <1>6, UnserializeBounded DEF Restart
<1>7. CASE RestartUnreadable
  BY <1>7, EmptyBounded DEF RestartUnreadable
<1>8. CASE UNCHANGED vars
  BY <1>8 DEF vars
<1> QED
  BY <1>1, <1>2, <1>3, <1>4, <1>5, <1>6, <1>7, <1>8 DEF Next

\* No sequence of announcements, promotions, evictions, saves and restarts puts
\* more entries into a new bucket than its limit (Add_, MakeTried, ShrinkNew and
\* the reader of peers.dat), unless the file has another number of buckets.
THEOREM NewBucketsStayBounded ==
    ASSUME SameBucketCount \subseteq {TRUE}
    PROVE  Spec => []NewBucketsBounded
<1>1. Init => BoundedEverywhere
  BY BoundedInit
<1>2. BoundedEverywhere /\ [Next]_vars => BoundedEverywhere'
  BY BoundedNext
<1>3. BoundedEverywhere => NewBucketsBounded
  BY DEF BoundedEverywhere, Bounded, NewBucketsBounded
<1> QED
  BY <1>1, <1>2, <1>3, PTL DEF Spec

-----------------------------------------------------------------------------
\* The tables by the types of their parts.
Infos == UNION {[D -> CAddrInfo] : D \in SUBSET Ids}
Tables ==
    [nIdCount : 0 .. MaxId, mapInfo : Infos,
     mapAddr : UNION {[A -> Ids] : A \in SUBSET Addrs}, vRandom : Seq(Ids),
     nTried : Int, vvTried : [TriedBuckets -> Seq(Ids)],
     nNew : Int, vvNew : [NewBuckets -> SUBSET Ids]]

\* vRandom lists the entries, and every entry knows its place.
Listed(info, rand) ==
    /\ \A nId \in DOMAIN info :
          info[nId].nRandomPos \in 1 .. Len(rand) /\ rand[info[nId].nRandomPos] = nId
    /\ \A p \in 1 .. Len(rand) : rand[p] \in DOMAIN info /\ info[rand[p]].nRandomPos = p

\* mapAddr has the entries under their addresses.
Named(info, addr) ==
    /\ \A nId \in DOMAIN info :
          AddrOf[info[nId].service] \in DOMAIN addr /\ addr[AddrOf[info[nId].service]] = nId
    /\ \A a \in DOMAIN addr : addr[a] \in DOMAIN info /\ AddrOf[info[addr[a]].service] = a

\* The tried tables have the entries that are in tried, each once.
InPlace(info, tried) ==
    /\ \A k \in TriedBuckets :
          /\ Len(tried[k]) <= TriedBucketSize
          /\ \A i \in 1 .. Len(tried[k]) :
                /\ tried[k][i] \in DOMAIN info
                /\ info[tried[k][i]].fInTried /\ TriedBucketOf[info[tried[k][i]].service] = k
          /\ \A i, j \in 1 .. Len(tried[k]) : tried[k][i] = tried[k][j] => i = j
    /\ \A nId \in DOMAIN info : info[nId].fInTried =>
          LET k == TriedBucketOf[info[nId].service]
          IN  \E i \in 1 .. Len(tried[k]) : tried[k][i] = nId

\* The count of an entry is the number of its new buckets; owed has been counted
\* for a bucket it is not in yet.
BucketsWith(new, nId) == {b \in NewBuckets : nId \in new[b]}
CountedIn(info, new, owed) ==
    /\ \A b \in NewBuckets : new[b] \subseteq DOMAIN info
    /\ \A nId \in DOMAIN info :
          info[nId].nRefCount = Cardinality(BucketsWith(new, nId)) + (IF nId = owed THEN 1 ELSE 0)

\* An entry is tried, and was connected to, or it is new; spare has left its last
\* bucket, or has not been put into its first one.
Ranked(info, spare) ==
    \A nId \in DOMAIN info :
        IF info[nId].fInTried THEN info[nId].nRefCount = 0 /\ info[nId].nLastSuccess # 0
        ELSE info[nId].nRefCount \in (IF nId = spare THEN 0 ELSE 1) .. BucketsPerAddress

TriedIn(info) == {nId \in DOMAIN info : info[nId].fInTried}
NewIn(info) == {nId \in DOMAIN info : ~info[nId].fInTried}

\* The tables m while an operation is at work on owed and spare, and the invariant of
\* the tables at rest; no entry has the identifier -1.
AtWork(m, owed, spare) ==
    /\ m \in Tables
    /\ \A nId \in DOMAIN m.mapInfo : nId < m.nIdCount
    /\ Listed(m.mapInfo, m.vRandom) /\ Named(m.mapInfo, m.mapAddr)
    /\ InPlace(m.mapInfo, m.vvTried) /\ CountedIn(m.mapInfo, m.vvNew, owed) /\ Ranked(m.mapInfo, spare)
    /\ m.nTried = Cardinality(TriedIn(m.mapInfo)) /\ m.nNew = Cardinality(NewIn(m.mapInfo))
AtRest(m) == AtWork(m, -1, -1)

\* The entries after are entries of info, whatever became of their counts and places.
SameEntries(info, after) ==
    \A j \in DOMAIN after :
        /\ j \in DOMAIN info
        /\ after[j].service = info[j].service /\ after[j].source = info[j].source
        /\ after[j].nLastSuccess = info[j].nLastSuccess /\ after[j].fInTried = info[j].fInTried

\* Places p and q of vRandom change their entries.
InfoSwapped(info, rand, p, q) ==
    [info EXCEPT ![rand[p]].nRandomPos = q, ![rand[q]].nRandomPos = p]
ListSwapped(rand, p, q) == [rand EXCEPT ![p] = rand[q], ![q] = rand[p]]

\* The last place is taken away; an entry is taken out.
ListClosed(rand) == [i \in 1 .. Len(rand) - 1 |-> rand[i]]
InfoWithout(info, nId) == [j \in DOMAIN info \ {nId} |-> info[j]]

\* The tables r are m in another order of vRandom.
Reordered(m, r) ==
    /\ r \in Tables
    /\ r.nIdCount = m.nIdCount /\ r.mapAddr = m.mapAddr /\ r.nTried = m.nTried
    /\ r.vvTried = m.vvTried /\ r.nNew = m.nNew /\ r.vvNew = m.vvNew
    /\ DOMAIN r.mapInfo = DOMAIN m.mapInfo /\ Len(r.vRandom) = Len(m.vRandom)
    /\ Listed(r.mapInfo, r.vRandom) /\ SameEntries(m.mapInfo, r.mapInfo)
    /\ \A j \in DOMAIN m.mapInfo : r.mapInfo[j].nRefCount = m.mapInfo[j].nRefCount

\* The tables r are m without the entry nId, which was in no bucket.
Without(m, r, nId) ==
    /\ r \in Tables
    /\ r.nIdCount = m.nIdCount /\ r.nTried = m.nTried
    /\ r.mapAddr = [x \in DOMAIN m.mapAddr \ {AddrOf[m.mapInfo[nId].service]} |-> m.mapAddr[x]]
    /\ r.vvTried = m.vvTried /\ r.nNew = m.nNew - 1 /\ r.vvNew = m.vvNew
    /\ DOMAIN r.mapInfo = DOMAIN m.mapInfo \ {nId}
    /\ Listed(r.mapInfo, r.vRandom) /\ SameEntries(m.mapInfo, r.mapInfo)
    /\ \A j \in DOMAIN r.mapInfo : r.mapInfo[j].nRefCount = m.mapInfo[j].nRefCount

\* The entry old has left the bucket b, and the tables r when that was its last one.
Left(m, r, b, old) ==
    /\ SameEntries(m.mapInfo, r.mapInfo) /\ DOMAIN m.mapInfo \ {old} \subseteq DOMAIN r.mapInfo
    /\ r.vvNew = [m.vvNew EXCEPT ![b] = @ \ {old}]
    /\ old \in DOMAIN m.mapInfo /\ ~m.mapInfo[old].fInTried

\* An announcement has put the entry nId into a bucket, from which another entry may
\* have left the tables.
Entering(m, r, nId) ==
    /\ SameEntries(m.mapInfo, r.mapInfo) /\ nId \in DOMAIN r.mapInfo
    /\ \/ DOMAIN r.mapInfo = DOMAIN m.mapInfo
       \/ \E old \in DOMAIN m.mapInfo \ {nId} :
              DOMAIN m.mapInfo \ {old} \subseteq DOMAIN r.mapInfo /\ ~m.mapInfo[old].fInTried

\* The list a has the entries of b, each once, in some order.
Rearranged(a, b) ==
    /\ Len(a) = Len(b)
    /\ \A i, j \in 1 .. Len(b) : a[i] = a[j] => i = j
    /\ \A i \in 1 .. Len(b) : \E j \in 1 .. Len(b) : a[i] = b[j]
    /\ \A j \in 1 .. Len(b) : \E i \in 1 .. Len(b) : a[i] = b[j]

\* What a walk through a tried bucket may have come to.
Inspected(bucket) ==
    {acc \in [vTried : Seq(Ids), nOldest : Ids \union {-1}, nOldestPos : Int] :
        /\ Rearranged(acc.vTried, bucket)
        /\ acc.nOldest = -1 \/ acc.nOldestPos \in 1 .. Len(bucket)}

\* The entry nId is now tried, and at most one tried entry is new again.
Promoted(m, r, nId) ==
    /\ DOMAIN r.mapInfo = DOMAIN m.mapInfo /\ r.mapInfo[nId].fInTried
    /\ \A j \in DOMAIN m.mapInfo : r.mapInfo[j].service = m.mapInfo[j].service
    /\ \/ \A j \in DOMAIN m.mapInfo \ {nId} : r.mapInfo[j].fInTried = m.mapInfo[j].fInTried
       \/ \E nOld \in DOMAIN m.mapInfo \ {nId} :
              /\ m.mapInfo[nOld].fInTried /\ ~r.mapInfo[nOld].fInTried
              /\ \A j \in DOMAIN m.mapInfo \ {nId, nOld} :
                    r.mapInfo[j].fInTried = m.mapInfo[j].fInTried

FileRecords == [service : Services, source : Sources, nLastSuccess : 0 .. MaxTime]
Entered(records, k) == {i \in DOMAIN records : TriedBucketOf[records[i].service] = k}

\* What the files that are written have in common.
Readable(file) ==
    /\ file \in [new : Seq(FileRecords), tried : Seq(FileRecords), buckets : [NewBuckets -> SUBSET Ids]]
    /\ Len(file.new) + Len(file.tried) <= MaxId
    /\ \A i, j \in 1 .. Len(file.new) :
          AddrOf[file.new[i].service] = AddrOf[file.new[j].service] => i = j
    /\ \A i, j \in 1 .. Len(file.tried) :
          AddrOf[file.tried[i].service] = AddrOf[file.tried[j].service] => i = j
    /\ \A i \in 1 .. Len(file.new), j \in 1 .. Len(file.tried) :
          AddrOf[file.new[i].service] # AddrOf[file.tried[j].service]
    /\ \A i \in 1 .. Len(file.tried) : file.tried[i].nLastSuccess # 0
    /\ \A k \in TriedBuckets : Cardinality(Entered(file.tried, k)) <= TriedBucketSize
    /\ \A b \in NewBuckets : file.buckets[b] \subseteq 0 .. Len(file.new) - 1
    /\ \A n \in 0 .. Len(file.new) - 1 :
          Cardinality(BucketsWith(file.buckets, n)) \in 1 .. BucketsPerAddress

AddrInv == AtRest(am) /\ Readable(peersDat)

\* The parts of tables have the types of the fields.
LEMMA TablesAre ==
    ASSUME NEW m \in Tables
    PROVE  /\ m.nIdCount \in 0 .. MaxId /\ m.nTried \in Int /\ m.nNew \in Int
           /\ DOMAIN m.mapInfo \in SUBSET Ids /\ m.mapInfo \in [DOMAIN m.mapInfo -> CAddrInfo]
           /\ DOMAIN m.mapAddr \in SUBSET Addrs /\ m.mapAddr \in [DOMAIN m.mapAddr -> Ids]
           /\ m.vRandom \in Seq(Ids)
           /\ m.vvTried \in [TriedBuckets -> Seq(Ids)] /\ m.vvNew \in [NewBuckets -> SUBSET Ids]
<1>1. PICK D \in SUBSET Ids : m.mapInfo \in [D -> CAddrInfo] BY DEF Tables, Infos
<1>2. PICK A \in SUBSET Addrs : m.mapAddr \in [A -> Ids] BY DEF Tables
<1>. QED BY <1>1, <1>2 DEF Tables

\* A set of entries with types is one of the possible ones.
LEMMA InfosAre ==
    ASSUME NEW D \in SUBSET Ids, NEW info \in [D -> CAddrInfo]
    PROVE  info \in Infos
BY DEF Infos

\* A function on an interval is a sequence.
LEMMA IntervalSeq ==
    ASSUME NEW S, NEW n \in Nat, NEW f \in [1 .. n -> S]
    PROVE  f \in Seq(S)
BY SeqDef

\* There are finitely many entries.
LEMMA InfoFinite == ASSUME NEW info \in Infos PROVE IsFiniteSet(DOMAIN info)
<1>1. PICK D \in SUBSET Ids : info \in [D -> CAddrInfo] BY DEF Infos
<1>2. IsFiniteSet(Ids) BY FS_Interval, AddrManAssumption DEF Ids
<1>3. DOMAIN info = D BY <1>1
<1>. QED BY <1>2, <1>3, FS_Subset

\* An entry is in finitely many buckets.
LEMMA BucketsFinite ==
    ASSUME NEW new, NEW nId
    PROVE  IsFiniteSet(BucketsWith(new, nId)) /\ Cardinality(BucketsWith(new, nId)) \in Nat
<1>1. IsFiniteSet(NewBuckets)
  <2>1. nNewBuckets - 1 \in Int BY AddrManAssumption
  <2>. QED BY <2>1, FS_Interval DEF NewBuckets
<1>2. BucketsWith(new, nId) \in SUBSET NewBuckets BY DEF BucketsWith
<1>3. IsFiniteSet(BucketsWith(new, nId)) BY <1>1, <1>2, FS_Subset
<1>. QED BY <1>3, FS_CardinalityType

\* One member more, one member less.
LEMMA OneMore ==
    ASSUME NEW S, NEW x, IsFiniteSet(S), x \notin S
    PROVE  IsFiniteSet(S \union {x}) /\ Cardinality(S \union {x}) = Cardinality(S) + 1
BY FS_AddElement, Zenon

\* The same for a member that is taken away.
LEMMA OneLess ==
    ASSUME NEW S, NEW x \in S, IsFiniteSet(S)
    PROVE  IsFiniteSet(S \ {x}) /\ Cardinality(S \ {x}) = Cardinality(S) - 1
BY FS_RemoveElement, Zenon

\* The tried and the new entries can be counted.
LEMMA PartsFinite ==
    ASSUME NEW info \in Infos
    PROVE  /\ IsFiniteSet(TriedIn(info)) /\ Cardinality(TriedIn(info)) \in Nat
           /\ IsFiniteSet(NewIn(info)) /\ Cardinality(NewIn(info)) \in Nat
<1>1. TriedIn(info) \in SUBSET DOMAIN info /\ NewIn(info) \in SUBSET DOMAIN info
  BY DEF TriedIn, NewIn
<1>2. IsFiniteSet(TriedIn(info)) /\ IsFiniteSet(NewIn(info)) BY <1>1, InfoFinite, FS_Subset
<1>. QED BY <1>2, FS_CardinalityType

\* The indexes do not depend on the counts of the entries.
LEMMA SameIndexes ==
    ASSUME NEW info, NEW after, DOMAIN after = DOMAIN info,
           \A j \in DOMAIN info : /\ after[j].service = info[j].service
                                  /\ after[j].nRandomPos = info[j].nRandomPos
                                  /\ after[j].fInTried = info[j].fInTried
    PROVE  /\ \A rand : Listed(info, rand) => Listed(after, rand)
           /\ \A addr : Named(info, addr) => Named(after, addr)
           /\ \A tried : InPlace(info, tried) => InPlace(after, tried)
           /\ TriedIn(after) = TriedIn(info) /\ NewIn(after) = NewIn(info)
<1>1. ASSUME NEW rand, Listed(info, rand) PROVE Listed(after, rand) BY <1>1 DEF Listed
<1>2. ASSUME NEW addr, Named(info, addr) PROVE Named(after, addr) BY <1>2 DEF Named
<1>3. ASSUME NEW tried, InPlace(info, tried) PROVE InPlace(after, tried)
  <2>1. ASSUME NEW k \in TriedBuckets
        PROVE  /\ Len(tried[k]) <= TriedBucketSize
               /\ \A i \in 1 .. Len(tried[k]) :
                     /\ tried[k][i] \in DOMAIN after
                     /\ after[tried[k][i]].fInTried
                     /\ TriedBucketOf[after[tried[k][i]].service] = k
               /\ \A i, j \in 1 .. Len(tried[k]) : tried[k][i] = tried[k][j] => i = j
    BY <1>3 DEF InPlace
  <2>2. ASSUME NEW j \in DOMAIN after, after[j].fInTried
        PROVE  LET k == TriedBucketOf[after[j].service]
               IN  \E i \in 1 .. Len(tried[k]) : tried[k][i] = j
    BY <1>3, <2>2 DEF InPlace
  <2>. QED BY <2>1, <2>2 DEF InPlace
<1>4. TriedIn(after) = TriedIn(info) /\ NewIn(after) = NewIn(info) BY DEF TriedIn, NewIn
<1>. QED BY <1>1, <1>2, <1>3, <1>4

-----------------------------------------------------------------------------
\* An entry is counted for one more bucket.
CountedMore(m, nId) == [m EXCEPT !.mapInfo[nId].nRefCount = @ + 1]

\* EnterBucket counts the entry for the bucket it will be in.
LEMMA CountMore ==
    ASSUME NEW m, NEW nId \in DOMAIN m.mapInfo, AtWork(m, -1, nId),
           ~m.mapInfo[nId].fInTried, m.mapInfo[nId].nRefCount # BucketsPerAddress
    PROVE  /\ AtWork(CountedMore(m, nId), nId, -1)
           /\ DOMAIN CountedMore(m, nId).mapInfo = DOMAIN m.mapInfo
           /\ SameEntries(m.mapInfo, CountedMore(m, nId).mapInfo)
           /\ CountedMore(m, nId).vvNew = m.vvNew
<1>. DEFINE r == CountedMore(m, nId)
            D == DOMAIN m.mapInfo
<1>1. m \in Tables BY DEF AtWork
<1>2. /\ r.mapInfo = [m.mapInfo EXCEPT ![nId].nRefCount = @ + 1]
      /\ r.nIdCount = m.nIdCount /\ r.mapAddr = m.mapAddr /\ r.vRandom = m.vRandom
      /\ r.nTried = m.nTried /\ r.vvTried = m.vvTried /\ r.nNew = m.nNew /\ r.vvNew = m.vvNew
  BY <1>1 DEF Tables, CountedMore
<1>3. m.mapInfo \in [D -> CAddrInfo] /\ D \in SUBSET Ids BY <1>1, TablesAre
<1>4. /\ DOMAIN r.mapInfo = D
      /\ r.mapInfo[nId].nRefCount = m.mapInfo[nId].nRefCount + 1
      /\ \A j \in D : /\ r.mapInfo[j].service = m.mapInfo[j].service
                      /\ r.mapInfo[j].nRandomPos = m.mapInfo[j].nRandomPos
                      /\ r.mapInfo[j].fInTried = m.mapInfo[j].fInTried
                      /\ r.mapInfo[j].nLastSuccess = m.mapInfo[j].nLastSuccess
                      /\ r.mapInfo[j].source = m.mapInfo[j].source
                      /\ j # nId => r.mapInfo[j].nRefCount = m.mapInfo[j].nRefCount
  BY <1>2, <1>3 DEF CAddrInfo
<1>5. r.mapInfo \in [D -> CAddrInfo] BY <1>2, <1>3 DEF CAddrInfo
<1>6. r \in Tables
  <2>1. r.mapInfo \in Infos BY <1>3, <1>5, InfosAre
  <2>2. r = [m EXCEPT !.mapInfo = r.mapInfo] BY <1>1 DEF Tables, CountedMore
  <2>. HIDE DEF r
  <2>. QED BY <1>1, <2>1, <2>2 DEF Tables
<1>. HIDE DEF r
<1>7. nId \in Nat /\ nId # -1 BY <1>3 DEF Ids
<1>8. CountedIn(r.mapInfo, r.vvNew, nId)
  <2>1. ASSUME NEW j \in D
        PROVE  r.mapInfo[j].nRefCount
                   = Cardinality(BucketsWith(r.vvNew, j)) + (IF j = nId THEN 1 ELSE 0)
    <3>1. m.mapInfo[j].nRefCount = Cardinality(BucketsWith(m.vvNew, j)) + 0
      <4>1. j # -1 BY <1>3 DEF Ids
      <4>. QED BY <4>1 DEF AtWork, CountedIn
    <3>2. Cardinality(BucketsWith(m.vvNew, j)) \in Nat BY BucketsFinite
    <3>. QED BY <1>2, <1>4, <3>1, <3>2
  <2>. QED BY <1>2, <1>4, <2>1 DEF AtWork, CountedIn
<1>9. Ranked(r.mapInfo, -1)
  <2>1. ASSUME NEW j \in D
        PROVE  IF r.mapInfo[j].fInTried
               THEN r.mapInfo[j].nRefCount = 0 /\ r.mapInfo[j].nLastSuccess # 0
               ELSE r.mapInfo[j].nRefCount \in 1 .. BucketsPerAddress
    <3>1. CASE j = nId
      <4>1. m.mapInfo[j].nRefCount \in 0 .. BucketsPerAddress BY <3>1 DEF AtWork, Ranked
      <4>. QED BY <1>4, <3>1, <4>1, AddrManAssumption
    <3>2. CASE j # nId BY <1>4, <3>2 DEF AtWork, Ranked
    <3>. QED BY <3>1, <3>2
  <2>2. \A j \in D : j # -1 BY <1>3 DEF Ids
  <2>. QED BY <1>4, <2>1, <2>2 DEF Ranked
<1>10. /\ Listed(r.mapInfo, r.vRandom) /\ Named(r.mapInfo, r.mapAddr)
       /\ InPlace(r.mapInfo, r.vvTried)
       /\ TriedIn(r.mapInfo) = TriedIn(m.mapInfo) /\ NewIn(r.mapInfo) = NewIn(m.mapInfo)
  <2>. DEFINE info == m.mapInfo
              after == r.mapInfo
  <2>1. DOMAIN after = DOMAIN info BY <1>4
  <2>2. \A j \in DOMAIN info : /\ after[j].service = info[j].service
                               /\ after[j].nRandomPos = info[j].nRandomPos
                               /\ after[j].fInTried = info[j].fInTried
    BY <1>4
  <2>3. Listed(info, m.vRandom) /\ Named(info, m.mapAddr) /\ InPlace(info, m.vvTried) BY DEF AtWork
  <2>. HIDE DEF info, after
  <2>4. /\ \A rand : Listed(info, rand) => Listed(after, rand)
        /\ \A addr : Named(info, addr) => Named(after, addr)
        /\ \A tried : InPlace(info, tried) => InPlace(after, tried)
        /\ TriedIn(after) = TriedIn(info) /\ NewIn(after) = NewIn(info)
    BY <2>1, <2>2, SameIndexes
  <2>5. Listed(after, m.vRandom) /\ Named(after, m.mapAddr) /\ InPlace(after, m.vvTried)
    BY <2>3, <2>4
  <2>. QED BY <1>2, <2>4, <2>5 DEF info, after
<1>11. SameEntries(m.mapInfo, r.mapInfo) BY <1>4 DEF SameEntries
<1>12. AtWork(r, nId, -1) BY <1>2, <1>4, <1>6, <1>8, <1>9, <1>10 DEF AtWork
<1>. QED BY <1>2, <1>4, <1>11, <1>12 DEF r

-----------------------------------------------------------------------------
\* An entry is given a place.
LEMMA Positioned ==
    ASSUME NEW D, NEW info \in [D -> CAddrInfo], NEW j \in D, NEW p \in Nat
    PROVE  [info EXCEPT ![j].nRandomPos = p] \in [D -> CAddrInfo]
<1>1. [info[j] EXCEPT !.nRandomPos = p] \in CAddrInfo BY DEF CAddrInfo
<1>. QED BY <1>1

\* Two places of vRandom change their entries.
LEMMA SwappedList ==
    ASSUME NEW rand \in Seq(Ids), NEW p \in 1 .. Len(rand), NEW q \in 1 .. Len(rand)
    PROVE  /\ ListSwapped(rand, p, q) \in Seq(Ids) /\ Len(ListSwapped(rand, p, q)) = Len(rand)
           /\ \A i \in 1 .. Len(rand) :
                 ListSwapped(rand, p, q)[i] =
                     IF i = q THEN rand[p] ELSE IF i = p THEN rand[q] ELSE rand[i]
<1>. DEFINE order == ListSwapped(rand, p, q)
<1>1. Len(rand) \in Nat /\ rand \in [1 .. Len(rand) -> Ids] BY LenProperties
<1>2. /\ order \in [1 .. Len(rand) -> Ids]
      /\ \A i \in 1 .. Len(rand) :
            order[i] = IF i = q THEN rand[p] ELSE IF i = p THEN rand[q] ELSE rand[i]
  BY <1>1 DEF ListSwapped
<1>. HIDE DEF order
<1>3. order \in Seq(Ids) BY <1>1, <1>2, SeqDef
<1>4. DOMAIN order = 1 .. Len(order) /\ Len(order) \in Nat BY <1>3, LenProperties
<1>5. Len(order) = Len(rand) BY <1>1, <1>2, <1>4
<1>. QED BY <1>2, <1>3, <1>5 DEF order

\* SwapRandom keeps list and entries in agreement.
LEMMA Swapped ==
    ASSUME NEW D \in SUBSET Ids, NEW info \in [D -> CAddrInfo], NEW rand \in Seq(Ids),
           Listed(info, rand), NEW p \in 1 .. Len(rand), NEW q \in 1 .. Len(rand)
    PROVE  /\ InfoSwapped(info, rand, p, q) \in [D -> CAddrInfo]
           /\ Listed(InfoSwapped(info, rand, p, q), ListSwapped(rand, p, q))
           /\ SameEntries(info, InfoSwapped(info, rand, p, q))
           /\ \A j \in D : InfoSwapped(info, rand, p, q)[j].nRefCount = info[j].nRefCount
<1>. DEFINE after == InfoSwapped(info, rand, p, q)
            order == ListSwapped(rand, p, q)
<1>1. Len(rand) \in Nat BY LenProperties
<1>2. /\ \A i \in 1 .. Len(rand) : rand[i] \in D /\ info[rand[i]].nRandomPos = i
      /\ \A j \in D : info[j].nRandomPos \in 1 .. Len(rand) /\ rand[info[j].nRandomPos] = j
  BY DEF Listed
<1>3. \A i, j \in 1 .. Len(rand) : rand[i] = rand[j] => i = j BY <1>2
<1>4. /\ Len(order) = Len(rand)
      /\ \A i \in 1 .. Len(rand) :
            order[i] = IF i = q THEN rand[p] ELSE IF i = p THEN rand[q] ELSE rand[i]
  BY SwappedList
<1>5. rand[p] \in D /\ rand[q] \in D BY <1>2
<1>6. /\ DOMAIN after = D
      /\ \A j \in D :
            /\ after[j].nRandomPos =
                  (IF j = rand[q] THEN p ELSE IF j = rand[p] THEN q ELSE info[j].nRandomPos)
            /\ after[j].service = info[j].service /\ after[j].source = info[j].source
            /\ after[j].nLastSuccess = info[j].nLastSuccess
            /\ after[j].fInTried = info[j].fInTried /\ after[j].nRefCount = info[j].nRefCount
  BY <1>5 DEF CAddrInfo, InfoSwapped
<1>7. after \in [D -> CAddrInfo]
  <2>1. p \in Nat /\ q \in Nat BY <1>1
  <2>. DEFINE first == [info EXCEPT ![rand[p]].nRandomPos = q]
  <2>2. first \in [D -> CAddrInfo] BY <1>5, <2>1, Positioned
  <2>. HIDE DEF first
  <2>3. [first EXCEPT ![rand[q]].nRandomPos = p] \in [D -> CAddrInfo] BY <1>5, <2>1, <2>2, Positioned
  <2>. QED BY <2>3 DEF first, InfoSwapped
<1>. HIDE DEF after, order
<1>8. Listed(after, order)
  <2>1. ASSUME NEW j \in D
        PROVE  after[j].nRandomPos \in 1 .. Len(rand) /\ order[after[j].nRandomPos] = j
    <3>1. info[j].nRandomPos \in 1 .. Len(rand) /\ rand[info[j].nRandomPos] = j BY <1>2
    <3>. QED BY <1>2, <1>3, <1>4, <1>6, <3>1
  <2>2. ASSUME NEW i \in 1 .. Len(rand)
        PROVE  order[i] \in D /\ after[order[i]].nRandomPos = i
    BY <1>2, <1>3, <1>4, <1>6
  <2>. QED BY <1>4, <1>6, <2>1, <2>2 DEF Listed
<1>9. SameEntries(info, after) BY <1>6 DEF SameEntries
<1>. QED BY <1>6, <1>7, <1>8, <1>9 DEF after, order

\* SwapRandom changes the order of vRandom and nothing else.
LEMMA SwapEffect ==
    ASSUME NEW m \in Tables, Listed(m.mapInfo, m.vRandom),
           NEW p \in 1 .. Len(m.vRandom), NEW q \in 1 .. Len(m.vRandom)
    PROVE  Reordered(m, SwapRandom(m, p, q)) /\ SwapRandom(m, p, q).vRandom[q] = m.vRandom[p]
<1>. DEFINE r == SwapRandom(m, p, q)
            info == m.mapInfo
            rand == m.vRandom
            D == DOMAIN info
            after == InfoSwapped(info, rand, p, q)
            order == ListSwapped(rand, p, q)
<1>1. /\ r = [m EXCEPT !.mapInfo = after, !.vRandom = order]
      /\ r.mapInfo = after /\ r.vRandom = order
      /\ r.nIdCount = m.nIdCount /\ r.mapAddr = m.mapAddr /\ r.nTried = m.nTried
      /\ r.vvTried = m.vvTried /\ r.nNew = m.nNew /\ r.vvNew = m.vvNew
  <2>1. r = [m EXCEPT !.mapInfo = after, !.vRandom = order]
    BY Zenon DEF SwapRandom, InfoSwapped, ListSwapped
  <2>. HIDE DEF r, after, order
  <2>. QED BY <2>1 DEF Tables
<1>2. D \in SUBSET Ids /\ info \in [D -> CAddrInfo] /\ rand \in Seq(Ids) BY TablesAre
<1>. HIDE DEF r, D
<1>3. /\ after \in [D -> CAddrInfo] /\ order \in Seq(Ids) /\ Len(order) = Len(rand)
      /\ Listed(after, order) /\ SameEntries(info, after)
      /\ \A j \in D : after[j].nRefCount = info[j].nRefCount
      /\ order[q] = rand[p]
  <2>. HIDE DEF info, rand
  <2>1. Listed(info, rand) /\ p \in 1 .. Len(rand) /\ q \in 1 .. Len(rand) BY DEF info, rand
  <2>2. order \in Seq(Ids) /\ Len(order) = Len(rand) /\ order[q] = rand[p]
    BY <1>2, <2>1, SwappedList
  <2>3. /\ after \in [D -> CAddrInfo] /\ Listed(after, order) /\ SameEntries(info, after)
        /\ \A j \in D : after[j].nRefCount = info[j].nRefCount
    BY <1>2, <2>1, Swapped
  <2>. HIDE DEF after, order
  <2>. QED BY <2>2, <2>3
<1>. HIDE DEF after, order
<1>4. r \in Tables
  <2>1. after \in Infos BY <1>2, <1>3, InfosAre
  <2>. QED BY <1>1, <1>3, <2>1 DEF Tables
<1>5. DOMAIN after = D BY <1>3
<1>6. Reordered(m, r) BY <1>1, <1>3, <1>4, <1>5 DEF D, Reordered
<1>. QED BY <1>1, <1>3, <1>6 DEF r

\* The entry at the end of vRandom is taken off all indexes.
LEMMA DroppedList ==
    ASSUME NEW rand \in Seq(Ids), Len(rand) # 0
    PROVE  ListClosed(rand) \in Seq(Ids) /\ Len(ListClosed(rand)) = Len(rand) - 1
<1>. DEFINE order == ListClosed(rand)
<1>1. Len(rand) \in Nat /\ rand \in [1 .. Len(rand) -> Ids] BY LenProperties
<1>2. Len(rand) - 1 \in Nat BY <1>1
<1>3. order \in [1 .. Len(rand) - 1 -> Ids] BY <1>1 DEF ListClosed
<1>. HIDE DEF order
<1>4. order \in Seq(Ids) BY <1>2, <1>3, SeqDef
<1>5. DOMAIN order = 1 .. Len(order) /\ Len(order) \in Nat BY <1>4, LenProperties
<1>. QED BY <1>2, <1>3, <1>4, <1>5 DEF order

\* Without its last place vRandom lists the entries that stay.
LEMMA Dropped ==
    ASSUME NEW D \in SUBSET Ids, NEW info \in [D -> CAddrInfo], NEW rand \in Seq(Ids),
           Listed(info, rand), NEW nId \in D, rand[Len(rand)] = nId
    PROVE  /\ InfoWithout(info, nId) \in [D \ {nId} -> CAddrInfo]
           /\ Listed(InfoWithout(info, nId), ListClosed(rand))
<1>. DEFINE after == InfoWithout(info, nId)
            order == ListClosed(rand)
<1>1. Len(rand) \in Nat BY LenProperties
<1>2. /\ \A i \in 1 .. Len(rand) : rand[i] \in D /\ info[rand[i]].nRandomPos = i
      /\ \A j \in D : info[j].nRandomPos \in 1 .. Len(rand) /\ rand[info[j].nRandomPos] = j
  BY DEF Listed
<1>3. Len(order) = Len(rand) - 1
  <2>1. Len(rand) # 0 BY <1>1, <1>2
  <2>. QED BY <2>1, DroppedList
<1>4. ASSUME NEW j \in D \ {nId}
      PROVE  after[j].nRandomPos \in 1 .. Len(rand) - 1 /\ order[after[j].nRandomPos] = j
  <2>1. info[j].nRandomPos \in 1 .. Len(rand) /\ rand[info[j].nRandomPos] = j BY <1>2
  <2>2. info[j].nRandomPos # Len(rand) BY <2>1
  <2>. QED BY <1>1, <2>1, <2>2 DEF InfoWithout, ListClosed
<1>5. ASSUME NEW i \in 1 .. Len(rand) - 1
      PROVE  order[i] \in D \ {nId} /\ after[order[i]].nRandomPos = i
  <2>1. i \in 1 .. Len(rand) /\ Len(rand) \in 1 .. Len(rand) /\ i # Len(rand) BY <1>1
  <2>2. rand[i] \in D /\ info[rand[i]].nRandomPos = i /\ info[rand[Len(rand)]].nRandomPos = Len(rand)
    BY <1>2, <2>1
  <2>3. rand[i] # nId BY <2>1, <2>2
  <2>. QED BY <2>2, <2>3 DEF InfoWithout, ListClosed
<1>6. DOMAIN after = D \ {nId} /\ after \in [D \ {nId} -> CAddrInfo] BY DEF InfoWithout
<1>. HIDE DEF after, order
<1>7. Listed(after, order) BY <1>3, <1>4, <1>5, <1>6 DEF Listed
<1>. QED BY <1>6, <1>7 DEF after, order

\* Forget: the entry leaves, and the others keep their order but for the last one,
\* which takes its place.
LEMMA ForgetIs ==
    ASSUME NEW m \in Tables, Listed(m.mapInfo, m.vRandom), NEW nId \in DOMAIN m.mapInfo
    PROVE  Without(m, Forget(m, nId), nId)
<1>. DEFINE p == m.mapInfo[nId].nRandomPos
            q == Len(m.vRandom)
            s == SwapRandom(m, p, q)
            r == Forget(m, nId)
            a == AddrOf[m.mapInfo[nId].service]
            D == DOMAIN m.mapInfo
            info == s.mapInfo
            rand == s.vRandom
            after == InfoWithout(info, nId)
            order == ListClosed(rand)
            addr == [x \in DOMAIN m.mapAddr \ {a} |-> m.mapAddr[x]]
<1>1. /\ D \in SUBSET Ids /\ m.vRandom \in Seq(Ids) /\ DOMAIN m.mapAddr \in SUBSET Addrs
      /\ m.mapAddr \in [DOMAIN m.mapAddr -> Ids]
  BY TablesAre
<1>2. p \in 1 .. q /\ m.vRandom[p] = nId BY DEF Listed
<1>3. q \in 1 .. q /\ q \in Nat
  <2>1. q \in Nat BY <1>1, LenProperties
  <2>. QED BY <1>2, <2>1
<1>4. Reordered(m, s) /\ s.vRandom[q] = m.vRandom[p] BY <1>2, <1>3, SwapEffect
<1>4a. /\ s \in Tables
       /\ s.nIdCount = m.nIdCount /\ s.mapAddr = m.mapAddr /\ s.nTried = m.nTried
       /\ s.vvTried = m.vvTried /\ s.nNew = m.nNew /\ s.vvNew = m.vvNew
       /\ DOMAIN s.mapInfo = DOMAIN m.mapInfo /\ Len(s.vRandom) = Len(m.vRandom)
       /\ Listed(s.mapInfo, s.vRandom) /\ SameEntries(m.mapInfo, s.mapInfo)
       /\ \A j \in DOMAIN m.mapInfo : s.mapInfo[j].nRefCount = m.mapInfo[j].nRefCount
       /\ s.vRandom[q] = m.vRandom[p]
  BY <1>4 DEF Reordered
<1>. HIDE DEF s
<1>5. r = [s EXCEPT !.vRandom = Front(s.vRandom),
                    !.mapAddr = Restrict(s.mapAddr, DOMAIN s.mapAddr \ {a}),
                    !.mapInfo = Restrict(s.mapInfo, DOMAIN s.mapInfo \ {nId}),
                    !.nNew = s.nNew - 1]
  <2>1. r = [s EXCEPT !.vRandom = Front(@),
                      !.mapAddr = Restrict(@, DOMAIN @ \ {a}),
                      !.mapInfo = Restrict(@, DOMAIN @ \ {nId}),
                      !.nNew = @ - 1]
    BY DEF Forget, s, p, q
  <2>. QED BY <1>4a, <2>1, Zenon
<1>. HIDE DEF r, p, D
<1>6. rand \in Seq(Ids) /\ Len(rand) \in Nat /\ Len(rand) # 0 /\ info \in [D -> CAddrInfo]
  <2>1. rand \in Seq(Ids) /\ info \in [D -> CAddrInfo] BY <1>4a, TablesAre DEF D
  <2>2. Len(rand) = q BY <1>4a DEF q
  <2>. HIDE DEF rand, q
  <2>. QED BY <1>3, <2>1, <2>2
<1>7. Front(s.vRandom) = order BY <1>6 DEF Front, ListClosed
<1>7a. after \in [D \ {nId} -> CAddrInfo] /\ order \in Seq(Ids) /\ Listed(after, order)
  <2>1. Listed(info, rand) /\ nId \in D /\ rand[Len(rand)] = nId BY <1>2, <1>4a DEF D, q
  <2>. HIDE DEF info, rand
  <2>2. order \in Seq(Ids) BY <1>6, DroppedList
  <2>3. after \in [D \ {nId} -> CAddrInfo] /\ Listed(after, order) BY <1>1, <1>6, <2>1, Dropped
  <2>. QED BY <2>2, <2>3
<1>. HIDE DEF q
<1>8. addr \in UNION {[A -> Ids] : A \in SUBSET Addrs}
  <2>1. addr \in [DOMAIN m.mapAddr \ {a} -> Ids] BY <1>1
  <2>2. DOMAIN m.mapAddr \ {a} \in SUBSET Addrs BY <1>1
  <2>. HIDE DEF addr
  <2>. QED BY <2>1, <2>2
<1>9. r = [s EXCEPT !.vRandom = order, !.mapAddr = addr, !.mapInfo = after, !.nNew = s.nNew - 1]
  BY <1>4a, <1>5, <1>7, Zenon DEF Restrict, InfoWithout, D
<1>10. after \in Infos
  <2>1. D \ {nId} \in SUBSET Ids BY <1>1
  <2>. QED BY <1>7a, <2>1, InfosAre
<1>11. /\ DOMAIN after = D \ {nId} /\ SameEntries(m.mapInfo, after)
       /\ \A j \in DOMAIN after : after[j].nRefCount = m.mapInfo[j].nRefCount
  BY <1>4a DEF SameEntries, InfoWithout, D
<1>. HIDE DEF after, order, addr
<1>12. /\ r.nIdCount = m.nIdCount /\ r.nTried = m.nTried /\ r.mapAddr = addr
       /\ r.vvTried = m.vvTried /\ r.nNew = m.nNew - 1 /\ r.vvNew = m.vvNew
       /\ r.mapInfo = after /\ r.vRandom = order /\ r \in Tables
  <2>. HIDE DEF r
  <2>1. s.nNew - 1 \in Int BY <1>4a, TablesAre
  <2>. QED BY <1>4a, <1>7a, <1>8, <1>9, <1>10, <2>1 DEF Tables
<1>. QED BY <1>7a, <1>11, <1>12 DEF r, addr, D, Without

-----------------------------------------------------------------------------
\* Forget keeps what the tables are, for an entry that is in no bucket.
LEMMA ForgetKeeps ==
    ASSUME NEW m, NEW x, NEW old \in DOMAIN m.mapInfo, AtWork(m, x, old), old # x,
           ~m.mapInfo[old].fInTried, m.mapInfo[old].nRefCount = 0
    PROVE  AtWork(Forget(m, old), x, -1)
<1>. DEFINE r == Forget(m, old)
            D == DOMAIN m.mapInfo
            a == AddrOf[m.mapInfo[old].service]
<1>1. /\ m \in Tables /\ Listed(m.mapInfo, m.vRandom) /\ Named(m.mapInfo, m.mapAddr)
      /\ InPlace(m.mapInfo, m.vvTried) /\ CountedIn(m.mapInfo, m.vvNew, x)
      /\ Ranked(m.mapInfo, old) /\ \A nId \in DOMAIN m.mapInfo : nId < m.nIdCount
      /\ m.nTried = Cardinality(TriedIn(m.mapInfo)) /\ m.nNew = Cardinality(NewIn(m.mapInfo))
  BY Zenon DEF AtWork
<1>2. Without(m, r, old) BY <1>1, ForgetIs
<1>. HIDE DEF r
<1>3. /\ r \in Tables
      /\ r.nIdCount = m.nIdCount /\ r.nTried = m.nTried
      /\ r.mapAddr = [y \in DOMAIN m.mapAddr \ {a} |-> m.mapAddr[y]]
      /\ r.vvTried = m.vvTried /\ r.nNew = m.nNew - 1 /\ r.vvNew = m.vvNew
      /\ DOMAIN r.mapInfo = D \ {old} /\ Listed(r.mapInfo, r.vRandom)
      /\ \A j \in D \ {old} : r.mapInfo[j].nRefCount = m.mapInfo[j].nRefCount
  BY <1>2 DEF Without
<1>4. \A j \in D \ {old} : /\ r.mapInfo[j].service = m.mapInfo[j].service
                           /\ r.mapInfo[j].nLastSuccess = m.mapInfo[j].nLastSuccess
                           /\ r.mapInfo[j].fInTried = m.mapInfo[j].fInTried
  BY <1>2, <1>3 DEF Without, SameEntries
<1>5. D \in SUBSET Ids BY <1>1, TablesAre
<1>6. \A j \in D : j # -1
  BY <1>5 DEF Ids
<1>7. \A j \in DOMAIN r.mapInfo : j < r.nIdCount BY <1>1, <1>3
<1>8. Named(r.mapInfo, r.mapAddr)
  <2>1. ASSUME NEW j \in D \ {old}
        PROVE  /\ AddrOf[r.mapInfo[j].service] \in DOMAIN r.mapAddr
               /\ r.mapAddr[AddrOf[r.mapInfo[j].service]] = j
    <3>1. /\ AddrOf[m.mapInfo[j].service] \in DOMAIN m.mapAddr
          /\ m.mapAddr[AddrOf[m.mapInfo[j].service]] = j /\ m.mapAddr[a] = old
      BY <1>1 DEF Named
    <3>2. AddrOf[m.mapInfo[j].service] # a BY <3>1
    <3>. QED BY <1>3, <1>4, <3>1, <3>2
  <2>2. ASSUME NEW y \in DOMAIN r.mapAddr
        PROVE  /\ r.mapAddr[y] \in DOMAIN r.mapInfo /\ AddrOf[r.mapInfo[r.mapAddr[y]].service] = y
    <3>1. y \in DOMAIN m.mapAddr /\ y # a /\ r.mapAddr[y] = m.mapAddr[y] BY <1>3
    <3>2. m.mapAddr[y] \in D /\ AddrOf[m.mapInfo[m.mapAddr[y]].service] = y BY <1>1, <3>1 DEF Named
    <3>3. m.mapAddr[y] # old BY <3>1, <3>2
    <3>4. m.mapAddr[y] \in D \ {old} BY <3>2, <3>3
    <3>5. r.mapInfo[m.mapAddr[y]].service = m.mapInfo[m.mapAddr[y]].service BY <1>4, <3>4
    <3>. QED BY <1>3, <3>1, <3>2, <3>4, <3>5
  <2>. QED BY <1>3, <2>1, <2>2 DEF Named
<1>9. InPlace(r.mapInfo, r.vvTried)
  <2>1. ASSUME NEW k \in TriedBuckets
        PROVE  /\ Len(m.vvTried[k]) <= TriedBucketSize
               /\ \A i \in 1 .. Len(m.vvTried[k]) :
                     /\ m.vvTried[k][i] \in DOMAIN r.mapInfo
                     /\ r.mapInfo[m.vvTried[k][i]].fInTried
                     /\ TriedBucketOf[r.mapInfo[m.vvTried[k][i]].service] = k
               /\ \A i, j \in 1 .. Len(m.vvTried[k]) : m.vvTried[k][i] = m.vvTried[k][j] => i = j
    <3>1. ASSUME NEW i \in 1 .. Len(m.vvTried[k])
          PROVE  /\ m.vvTried[k][i] \in D \ {old}
                 /\ m.mapInfo[m.vvTried[k][i]].fInTried
                 /\ TriedBucketOf[m.mapInfo[m.vvTried[k][i]].service] = k
      BY <1>1 DEF InPlace
    <3>2. /\ Len(m.vvTried[k]) <= TriedBucketSize
          /\ \A i, j \in 1 .. Len(m.vvTried[k]) : m.vvTried[k][i] = m.vvTried[k][j] => i = j
      BY <1>1 DEF InPlace
    <3>. QED BY <1>3, <1>4, <3>1, <3>2
  <2>2. ASSUME NEW j \in DOMAIN r.mapInfo, r.mapInfo[j].fInTried
        PROVE  LET k == TriedBucketOf[r.mapInfo[j].service]
               IN  \E i \in 1 .. Len(m.vvTried[k]) : m.vvTried[k][i] = j
    <3>1. /\ j \in D /\ m.mapInfo[j].fInTried
          /\ TriedBucketOf[r.mapInfo[j].service] = TriedBucketOf[m.mapInfo[j].service]
      BY <1>3, <1>4, <2>2
    <3>2. LET k == TriedBucketOf[m.mapInfo[j].service]
          IN  \E i \in 1 .. Len(m.vvTried[k]) : m.vvTried[k][i] = j
      BY <1>1, <3>1 DEF InPlace
    <3>. QED BY <3>1, <3>2
  <2>. DEFINE info == r.mapInfo
              tried == m.vvTried
  <2>3. \A k \in TriedBuckets :
           /\ Len(tried[k]) <= TriedBucketSize
           /\ \A i \in 1 .. Len(tried[k]) :
                 /\ tried[k][i] \in DOMAIN info
                 /\ info[tried[k][i]].fInTried /\ TriedBucketOf[info[tried[k][i]].service] = k
           /\ \A i, j \in 1 .. Len(tried[k]) : tried[k][i] = tried[k][j] => i = j
    BY <2>1
  <2>4. \A j \in DOMAIN info : info[j].fInTried =>
           LET k == TriedBucketOf[info[j].service]
           IN  \E i \in 1 .. Len(tried[k]) : tried[k][i] = j
    BY <2>2
  <2>5. tried = r.vvTried BY <1>3
  <2>. HIDE DEF info, tried
  <2>6. InPlace(info, tried) BY <2>3, <2>4 DEF InPlace
  <2>. QED BY <2>5, <2>6 DEF info
<1>10. \A b \in NewBuckets : old \notin m.vvNew[b]
  <2>1. Cardinality(BucketsWith(m.vvNew, old)) + 0 = 0 BY <1>1 DEF CountedIn
  <2>2. IsFiniteSet(BucketsWith(m.vvNew, old)) /\ Cardinality(BucketsWith(m.vvNew, old)) \in Nat
    BY BucketsFinite
  <2>3. BucketsWith(m.vvNew, old) = {} BY <2>1, <2>2, FS_EmptySet
  <2>. QED BY <2>3 DEF BucketsWith
<1>11. CountedIn(r.mapInfo, r.vvNew, x)
  <2>1. \A b \in NewBuckets : m.vvNew[b] \subseteq D BY <1>1 DEF CountedIn
  <2>2. \A j \in D \ {old} :
           m.mapInfo[j].nRefCount = Cardinality(BucketsWith(m.vvNew, j)) + (IF j = x THEN 1 ELSE 0)
    BY <1>1 DEF CountedIn
  <2>. QED BY <1>3, <1>10, <2>1, <2>2 DEF CountedIn
<1>12. Ranked(r.mapInfo, -1) BY <1>1, <1>3, <1>4, <1>6 DEF Ranked
<1>13. TriedIn(r.mapInfo) = TriedIn(m.mapInfo) BY <1>3, <1>4 DEF TriedIn
<1>14. r.nNew = Cardinality(NewIn(r.mapInfo))
  <2>1. NewIn(r.mapInfo) = NewIn(m.mapInfo) \ {old} /\ old \in NewIn(m.mapInfo)
    BY <1>3, <1>4 DEF NewIn
  <2>2. m.mapInfo \in Infos
    <3>1. m.mapInfo \in [D -> CAddrInfo] BY <1>1, TablesAre
    <3>. QED BY <1>5, <3>1, InfosAre
  <2>3. IsFiniteSet(NewIn(m.mapInfo)) BY <2>2, PartsFinite
  <2>4. Cardinality(NewIn(m.mapInfo) \ {old}) = Cardinality(NewIn(m.mapInfo)) - 1
    BY <2>1, <2>3, OneLess
  <2>. QED BY <1>1, <1>3, <2>1, <2>4
<1>15. AtWork(r, x, -1)
  BY <1>1, <1>3, <1>7, <1>8, <1>9, <1>11, <1>12, <1>13, <1>14 DEF AtWork
<1>. QED BY <1>15 DEF r

\* An entry is counted for one bucket less, which it has left.
CountedLess(m, b, old) == [m EXCEPT !.mapInfo[old].nRefCount = @ - 1, !.vvNew[b] = @ \ {old}]

\* An entry that leaves a bucket is counted for one less; it may be its last one.
LEMMA CountLess ==
    ASSUME NEW m, NEW x, NEW b \in NewBuckets, NEW old \in m.vvNew[b], AtWork(m, x, -1), old # x
    PROVE  /\ AtWork(CountedLess(m, b, old), x, old) /\ Left(m, CountedLess(m, b, old), b, old)
           /\ old \in DOMAIN CountedLess(m, b, old).mapInfo
<1>. DEFINE r == CountedLess(m, b, old)
            D == DOMAIN m.mapInfo
<1>1. /\ m \in Tables /\ Listed(m.mapInfo, m.vRandom) /\ Named(m.mapInfo, m.mapAddr)
      /\ InPlace(m.mapInfo, m.vvTried) /\ CountedIn(m.mapInfo, m.vvNew, x)
      /\ Ranked(m.mapInfo, -1) /\ \A nId \in DOMAIN m.mapInfo : nId < m.nIdCount
      /\ m.nTried = Cardinality(TriedIn(m.mapInfo)) /\ m.nNew = Cardinality(NewIn(m.mapInfo))
  BY Zenon DEF AtWork
<1>2. /\ r.mapInfo = [m.mapInfo EXCEPT ![old].nRefCount = @ - 1]
      /\ r.nIdCount = m.nIdCount /\ r.mapAddr = m.mapAddr /\ r.vRandom = m.vRandom
      /\ r.nTried = m.nTried /\ r.vvTried = m.vvTried /\ r.nNew = m.nNew
      /\ r.vvNew = [m.vvNew EXCEPT ![b] = @ \ {old}]
  BY <1>1 DEF Tables, CountedLess
<1>3. /\ m.mapInfo \in [D -> CAddrInfo] /\ D \in SUBSET Ids
      /\ m.vvNew \in [NewBuckets -> SUBSET Ids]
  BY <1>1, TablesAre
<1>4. old \in D /\ old # -1
  <2>1. old \in D BY <1>1 DEF CountedIn
  <2>. QED BY <1>3, <2>1 DEF Ids
<1>5. /\ DOMAIN r.mapInfo = D
      /\ r.mapInfo[old].nRefCount = m.mapInfo[old].nRefCount - 1
      /\ \A j \in D : /\ r.mapInfo[j].service = m.mapInfo[j].service
                      /\ r.mapInfo[j].source = m.mapInfo[j].source
                      /\ r.mapInfo[j].nRandomPos = m.mapInfo[j].nRandomPos
                      /\ r.mapInfo[j].fInTried = m.mapInfo[j].fInTried
                      /\ r.mapInfo[j].nLastSuccess = m.mapInfo[j].nLastSuccess
                      /\ j # old => r.mapInfo[j].nRefCount = m.mapInfo[j].nRefCount
  BY <1>2, <1>3, <1>4 DEF CAddrInfo
<1>6. /\ BucketsWith(r.vvNew, old) = BucketsWith(m.vvNew, old) \ {b} /\ b \in BucketsWith(m.vvNew, old)
      /\ \A j \in D : j # old => BucketsWith(r.vvNew, j) = BucketsWith(m.vvNew, j)
  BY <1>2, <1>3 DEF BucketsWith
<1>7. /\ Cardinality(BucketsWith(r.vvNew, old)) = Cardinality(BucketsWith(m.vvNew, old)) - 1
      /\ Cardinality(BucketsWith(r.vvNew, old)) \in Nat
      /\ Cardinality(BucketsWith(m.vvNew, old)) \in Nat
      /\ m.mapInfo[old].nRefCount = Cardinality(BucketsWith(m.vvNew, old))
  <2>1. IsFiniteSet(BucketsWith(m.vvNew, old)) /\ Cardinality(BucketsWith(m.vvNew, old)) \in Nat
    BY BucketsFinite
  <2>2. Cardinality(BucketsWith(r.vvNew, old)) = Cardinality(BucketsWith(m.vvNew, old)) - 1
    BY <1>6, <2>1, OneLess
  <2>3. Cardinality(BucketsWith(r.vvNew, old)) \in Nat BY BucketsFinite
  <2>4. m.mapInfo[old].nRefCount = Cardinality(BucketsWith(m.vvNew, old)) + 0
    BY <1>1, <1>4 DEF CountedIn
  <2>. QED BY <2>1, <2>2, <2>3, <2>4
<1>8. ~m.mapInfo[old].fInTried BY <1>1, <1>4, <1>7 DEF Ranked
<1>9. r.mapInfo \in [D -> CAddrInfo]
  <2>1. m.mapInfo[old].nRefCount - 1 \in Nat BY <1>7
  <2>. QED BY <1>2, <1>3, <1>4, <2>1 DEF CAddrInfo
<1>10. r \in Tables
  <2>1. r.mapInfo \in Infos BY <1>3, <1>9, InfosAre
  <2>2. r = [m EXCEPT !.mapInfo = r.mapInfo, !.vvNew = r.vvNew] BY <1>1 DEF Tables, CountedLess
  <2>3. r.vvNew \in [NewBuckets -> SUBSET Ids] BY <1>2, <1>3
  <2>. HIDE DEF r
  <2>. QED BY <1>1, <2>1, <2>2, <2>3 DEF Tables
<1>. HIDE DEF r
<1>11. CountedIn(r.mapInfo, r.vvNew, x)
  <2>1. ASSUME NEW j \in D
        PROVE  r.mapInfo[j].nRefCount
                   = Cardinality(BucketsWith(r.vvNew, j)) + (IF j = x THEN 1 ELSE 0)
    <3>1. CASE j = old BY <1>5, <1>7, <3>1
    <3>2. CASE j # old BY <1>1, <1>5, <1>6, <3>2 DEF CountedIn
    <3>. QED BY <3>1, <3>2
  <2>2. ASSUME NEW c \in NewBuckets PROVE r.vvNew[c] \subseteq D
    <3>1. m.vvNew[c] \subseteq D BY <1>1 DEF CountedIn
    <3>. QED BY <1>2, <1>3, <3>1
  <2>. QED BY <1>5, <2>1, <2>2 DEF CountedIn
<1>12. Ranked(r.mapInfo, old)
  <2>1. ASSUME NEW j \in D
        PROVE  IF r.mapInfo[j].fInTried
               THEN r.mapInfo[j].nRefCount = 0 /\ r.mapInfo[j].nLastSuccess # 0
               ELSE r.mapInfo[j].nRefCount \in (IF j = old THEN 0 ELSE 1) .. BucketsPerAddress
    <3>1. CASE j = old
      <4>1. m.mapInfo[old].nRefCount \in 1 .. BucketsPerAddress BY <1>1, <1>4, <1>8 DEF Ranked
      <4>. QED BY <1>5, <1>8, <3>1, <4>1, AddrManAssumption
    <3>2. CASE j # old
      <4>1. j # -1 BY <1>3 DEF Ids
      <4>. QED BY <1>1, <1>5, <3>2, <4>1 DEF Ranked
    <3>. QED BY <3>1, <3>2
  <2>. QED BY <1>5, <2>1 DEF Ranked
<1>13. /\ Listed(r.mapInfo, r.vRandom) /\ Named(r.mapInfo, r.mapAddr)
       /\ InPlace(r.mapInfo, r.vvTried)
       /\ TriedIn(r.mapInfo) = TriedIn(m.mapInfo) /\ NewIn(r.mapInfo) = NewIn(m.mapInfo)
  <2>. DEFINE info == m.mapInfo
              after == r.mapInfo
  <2>1. DOMAIN after = DOMAIN info BY <1>5
  <2>2. \A j \in DOMAIN info : /\ after[j].service = info[j].service
                               /\ after[j].nRandomPos = info[j].nRandomPos
                               /\ after[j].fInTried = info[j].fInTried
    BY <1>5
  <2>3. Listed(info, m.vRandom) /\ Named(info, m.mapAddr) /\ InPlace(info, m.vvTried) BY <1>1
  <2>. HIDE DEF info, after
  <2>4. /\ \A rand : Listed(info, rand) => Listed(after, rand)
        /\ \A addr : Named(info, addr) => Named(after, addr)
        /\ \A tried : InPlace(info, tried) => InPlace(after, tried)
        /\ TriedIn(after) = TriedIn(info) /\ NewIn(after) = NewIn(info)
    BY <2>1, <2>2, SameIndexes
  <2>5. Listed(after, m.vRandom) /\ Named(after, m.mapAddr) /\ InPlace(after, m.vvTried)
    BY <2>3, <2>4
  <2>. QED BY <1>2, <2>4, <2>5 DEF info, after
<1>14. SameEntries(m.mapInfo, r.mapInfo) BY <1>5 DEF SameEntries
<1>15. Left(m, r, b, old) BY <1>2, <1>4, <1>5, <1>8, <1>14 DEF Left
<1>16. AtWork(r, x, old) BY <1>1, <1>2, <1>5, <1>10, <1>11, <1>12, <1>13 DEF AtWork
<1>. QED BY <1>4, <1>5, <1>15, <1>16 DEF r

\* LeaveBucket keeps what the tables are.
LEMMA LeaveKeeps ==
    ASSUME NEW m, NEW x, NEW b \in NewBuckets, NEW old \in m.vvNew[b], AtWork(m, x, -1), old # x
    PROVE  AtWork(LeaveBucket(m, b, old), x, -1) /\ Left(m, LeaveBucket(m, b, old), b, old)
<1>. DEFINE out == CountedLess(m, b, old)
            r == LeaveBucket(m, b, old)
<1>1. AtWork(out, x, old) /\ Left(m, out, b, old) /\ old \in DOMAIN out.mapInfo
  <2>. HIDE DEF out
  <2>1. AtWork(out, x, old) BY CountLess DEF out
  <2>2. Left(m, out, b, old) BY CountLess DEF out
  <2>3. old \in DOMAIN out.mapInfo BY CountLess DEF out
  <2>. QED BY <2>1, <2>2, <2>3
<1>2. r = IF out.mapInfo[old].nRefCount = 0 THEN Forget(out, old) ELSE out
  BY DEF LeaveBucket, CountedLess
<1>. HIDE DEF out, r
<1>3. /\ SameEntries(m.mapInfo, out.mapInfo) /\ out.vvNew = [m.vvNew EXCEPT ![b] = @ \ {old}]
      /\ old \in DOMAIN m.mapInfo /\ ~m.mapInfo[old].fInTried
  BY <1>1 DEF Left
<1>4. old \in DOMAIN out.mapInfo /\ ~out.mapInfo[old].fInTried BY <1>1, <1>3 DEF SameEntries
<1>5. CASE out.mapInfo[old].nRefCount = 0
  <2>1. r = Forget(out, old) BY <1>2, <1>5
  <2>2. AtWork(Forget(out, old), x, -1) BY <1>1, <1>4, <1>5, ForgetKeeps
  <2>3. Without(out, Forget(out, old), old)
    <3>1. out \in Tables /\ Listed(out.mapInfo, out.vRandom) BY <1>1 DEF AtWork
    <3>. QED BY <1>4, <3>1, ForgetIs
  <2>4. Left(m, Forget(out, old), b, old) BY <1>1, <1>3, <2>3 DEF Left, Without, SameEntries
  <2>. QED BY <2>1, <2>2, <2>4 DEF r
<1>6. CASE out.mapInfo[old].nRefCount # 0
  <2>1. r = out BY <1>2, <1>6
  <2>2. Ranked(out.mapInfo, -1)
    <3>1. Ranked(out.mapInfo, old) BY <1>1 DEF AtWork
    <3>2. ASSUME NEW j \in DOMAIN out.mapInfo
          PROVE  IF out.mapInfo[j].fInTried
                 THEN out.mapInfo[j].nRefCount = 0 /\ out.mapInfo[j].nLastSuccess # 0
                 ELSE out.mapInfo[j].nRefCount \in (IF j = -1 THEN 0 ELSE 1) .. BucketsPerAddress
      <4>1. j # -1
        <5>1. out \in Tables BY <1>1 DEF AtWork
        <5>2. DOMAIN out.mapInfo \in SUBSET Ids BY <5>1, TablesAre
        <5>. QED BY <5>2 DEF Ids
      <4>. QED BY <1>6, <3>1, <4>1, AddrManAssumption DEF Ranked
    <3>. QED BY <3>2 DEF Ranked
  <2>3. AtWork(out, x, -1) BY <1>1, <2>2 DEF AtWork
  <2>. QED BY <1>1, <2>1, <2>3 DEF r
<1>. QED BY <1>5, <1>6

-----------------------------------------------------------------------------
\* The entry that is owed a bucket is put into it.
PutIn(m, b, nId) == [m EXCEPT !.vvNew[b] = @ \union {nId}]

\* The bucket that was counted is entered, and the tables are at rest again.
LEMMA PutKeeps ==
    ASSUME NEW m, NEW b \in NewBuckets, NEW nId \in DOMAIN m.mapInfo, AtWork(m, nId, -1),
           nId \notin m.vvNew[b]
    PROVE  AtRest(PutIn(m, b, nId)) /\ PutIn(m, b, nId).mapInfo = m.mapInfo
<1>. DEFINE r == PutIn(m, b, nId)
            D == DOMAIN m.mapInfo
<1>1. /\ m \in Tables /\ CountedIn(m.mapInfo, m.vvNew, nId)
  BY Zenon DEF AtWork
<1>2. /\ r.mapInfo = m.mapInfo
      /\ r.nIdCount = m.nIdCount /\ r.mapAddr = m.mapAddr /\ r.vRandom = m.vRandom
      /\ r.nTried = m.nTried /\ r.vvTried = m.vvTried /\ r.nNew = m.nNew
      /\ r.vvNew = [m.vvNew EXCEPT ![b] = @ \union {nId}]
  BY <1>1 DEF Tables, PutIn
<1>3. D \in SUBSET Ids /\ m.vvNew \in [NewBuckets -> SUBSET Ids] BY <1>1, TablesAre
<1>4. r \in Tables
  <2>1. r = [m EXCEPT !.vvNew = r.vvNew] BY <1>1 DEF Tables, PutIn
  <2>2. r.vvNew \in [NewBuckets -> SUBSET Ids] BY <1>2, <1>3
  <2>. HIDE DEF r
  <2>. QED BY <1>1, <2>1, <2>2 DEF Tables
<1>. HIDE DEF r
<1>5. /\ BucketsWith(r.vvNew, nId) = BucketsWith(m.vvNew, nId) \union {b} /\ b \notin BucketsWith(m.vvNew, nId)
      /\ \A j \in D : j # nId => BucketsWith(r.vvNew, j) = BucketsWith(m.vvNew, j)
  BY <1>2, <1>3 DEF BucketsWith
<1>6. CountedIn(r.mapInfo, r.vvNew, -1)
  <2>1. ASSUME NEW j \in D
        PROVE  m.mapInfo[j].nRefCount
                   = Cardinality(BucketsWith(r.vvNew, j)) + (IF j = -1 THEN 1 ELSE 0)
    <3>1. j # -1 BY <1>3 DEF Ids
    <3>2. m.mapInfo[j].nRefCount
              = Cardinality(BucketsWith(m.vvNew, j)) + (IF j = nId THEN 1 ELSE 0)
      BY <1>1 DEF CountedIn
    <3>3. IsFiniteSet(BucketsWith(m.vvNew, j)) /\ Cardinality(BucketsWith(m.vvNew, j)) \in Nat
      BY BucketsFinite
    <3>4. CASE j = nId
      <4>1. Cardinality(BucketsWith(m.vvNew, j) \union {b}) = Cardinality(BucketsWith(m.vvNew, j)) + 1
        BY <1>5, <3>3, <3>4, OneMore
      <4>2. Cardinality(BucketsWith(r.vvNew, j)) = Cardinality(BucketsWith(m.vvNew, j)) + 1
        BY <1>5, <3>4, <4>1
      <4>. QED BY <3>1, <3>2, <3>3, <3>4, <4>2
    <3>5. CASE j # nId BY <1>5, <3>1, <3>2, <3>3, <3>5
    <3>. QED BY <3>4, <3>5
  <2>2. ASSUME NEW c \in NewBuckets PROVE r.vvNew[c] \subseteq D
    <3>1. m.vvNew[c] \subseteq D BY <1>1 DEF CountedIn
    <3>. QED BY <1>2, <1>3, <3>1
  <2>. QED BY <1>2, <2>1, <2>2 DEF CountedIn
<1>7. AtRest(r) BY <1>2, <1>4, <1>6 DEF AtRest, AtWork
<1>. QED BY <1>2, <1>7 DEF r

\* EnterBucket.
LEMMA EnterKeeps ==
    ASSUME NEW m, NEW nId \in DOMAIN m.mapInfo, AtWork(m, -1, nId), ~m.mapInfo[nId].fInTried,
           m.mapInfo[nId].nRefCount # BucketsPerAddress,
           NEW s \in Services, NEW source \in Sources, NEW r \in EnterBucket(m, nId, s, source)
    PROVE  AtRest(r) /\ Entering(m, r, nId)
<1>. DEFINE b == NewBucketOf[s, source]
            counted == CountedMore(m, nId)
            D == DOMAIN m.mapInfo
<1>1. b \in NewBuckets BY AddrManAssumption
<1>2. /\ m \in Tables /\ CountedIn(m.mapInfo, m.vvNew, -1) /\ Ranked(m.mapInfo, nId)
  BY Zenon DEF AtWork
<1>3. /\ nId \in m.vvNew[b] => r = m
      /\ nId \notin m.vvNew[b] => \/ r = PutIn(counted, b, nId)
                                  \/ \E q \in ShrinkNew(counted, b) : r = PutIn(q, b, nId)
  BY DEF EnterBucket, PutIn, CountedMore
<1>4. /\ AtWork(counted, nId, -1) /\ DOMAIN counted.mapInfo = D
      /\ SameEntries(m.mapInfo, counted.mapInfo) /\ counted.vvNew = m.vvNew
  BY CountMore
<1>. HIDE DEF counted, b
<1>5. D \in SUBSET Ids BY <1>2, TablesAre
<1>6. CASE nId \in m.vvNew[b]
  <2>1. m.mapInfo[nId].nRefCount # 0
    <3>1. nId # -1 BY <1>5 DEF Ids
    <3>2. m.mapInfo[nId].nRefCount = Cardinality(BucketsWith(m.vvNew, nId)) + 0
      BY <1>2, <3>1 DEF CountedIn
    <3>3. IsFiniteSet(BucketsWith(m.vvNew, nId)) /\ Cardinality(BucketsWith(m.vvNew, nId)) \in Nat
      BY BucketsFinite
    <3>4. BucketsWith(m.vvNew, nId) # {} BY <1>1, <1>6 DEF BucketsWith
    <3>5. Cardinality(BucketsWith(m.vvNew, nId)) # 0 BY <3>3, <3>4, FS_EmptySet
    <3>. QED BY <3>2, <3>3, <3>5
  <2>2. Ranked(m.mapInfo, -1)
    <3>1. \A j \in D : j # -1 BY <1>5 DEF Ids
    <3>. QED BY <1>2, <2>1, <3>1, AddrManAssumption DEF Ranked
  <2>3. AtRest(m) BY <2>2 DEF AtRest, AtWork
  <2>4. SameEntries(m.mapInfo, m.mapInfo) BY DEF SameEntries
  <2>. QED BY <1>3, <1>6, <2>3, <2>4 DEF Entering
<1>7. CASE nId \notin m.vvNew[b] /\ r = PutIn(counted, b, nId)
  <2>1. AtRest(r) /\ r.mapInfo = counted.mapInfo BY <1>1, <1>4, <1>7, PutKeeps
  <2>. QED BY <1>4, <2>1 DEF Entering
<1>8. CASE nId \notin m.vvNew[b] /\ \E q \in ShrinkNew(counted, b) : r = PutIn(q, b, nId)
  <2>1. PICK old \in counted.vvNew[b] : r = PutIn(LeaveBucket(counted, b, old), b, nId)
    BY <1>8 DEF ShrinkNew
  <2>. DEFINE q == LeaveBucket(counted, b, old)
  <2>2. old # nId BY <1>4, <1>8
  <2>3. AtWork(q, nId, -1) /\ Left(counted, q, b, old) BY <1>1, <1>4, <2>2, LeaveKeeps, Zenon
  <2>. HIDE DEF q
  <2>4. /\ SameEntries(counted.mapInfo, q.mapInfo) /\ D \ {old} \subseteq DOMAIN q.mapInfo
        /\ q.vvNew = [counted.vvNew EXCEPT ![b] = @ \ {old}]
        /\ old \in D /\ ~counted.mapInfo[old].fInTried
    BY <1>4, <2>3 DEF Left
  <2>5. nId \in DOMAIN q.mapInfo BY <2>2, <2>4
  <2>6. nId \notin q.vvNew[b]
    <3>1. counted.vvNew \in [NewBuckets -> SUBSET Ids]
      <4>1. counted \in Tables BY <1>4 DEF AtWork
      <4>. QED BY <4>1, TablesAre
    <3>. QED BY <1>1, <1>4, <1>8, <2>4, <3>1
  <2>7. AtRest(r) /\ r.mapInfo = q.mapInfo
    <3>1. r = PutIn(q, b, nId) BY <2>1 DEF q
    <3>. QED BY <1>1, <2>3, <2>5, <2>6, <3>1, PutKeeps
  <2>8. SameEntries(m.mapInfo, q.mapInfo) BY <1>4, <2>4 DEF SameEntries
  <2>9. ~m.mapInfo[old].fInTried BY <1>4, <2>4 DEF SameEntries
  <2>. QED BY <2>2, <2>4, <2>5, <2>7, <2>8, <2>9 DEF Entering
<1>. QED BY <1>3, <1>6, <1>7, <1>8

\* Create, with the count that Add_ raises: the entry is in no bucket yet.
WithNewEntry(m, s, source) == [Create(m, s, source) EXCEPT !.nNew = @ + 1]

\* A created entry is in all indexes, and in no bucket yet.
LEMMA CreateKeeps ==
    ASSUME NEW m, AtRest(m), NEW s \in Services, NEW source \in Sources, ~Known(m, s),
           m.nIdCount < MaxId
    PROVE  LET r == WithNewEntry(m, s, source)
           IN  /\ AtWork(r, -1, m.nIdCount) /\ SameEntries(r.mapInfo, m.mapInfo)
               /\ m.nIdCount \notin DOMAIN m.mapInfo
               /\ DOMAIN r.mapInfo = DOMAIN m.mapInfo \union {m.nIdCount}
               /\ r.mapInfo[m.nIdCount].service = s
               /\ ~r.mapInfo[m.nIdCount].fInTried /\ r.mapInfo[m.nIdCount].nRefCount = 0
<1>. DEFINE r == WithNewEntry(m, s, source)
            D == DOMAIN m.mapInfo
            nId == m.nIdCount
            len == Len(m.vRandom)
            info == [service |-> s, source |-> source, nLastSuccess |-> 0, nRefCount |-> 0,
                     fInTried |-> FALSE, nRandomPos |-> len + 1]
<1>1. /\ m \in Tables /\ Listed(m.mapInfo, m.vRandom) /\ Named(m.mapInfo, m.mapAddr)
      /\ InPlace(m.mapInfo, m.vvTried) /\ CountedIn(m.mapInfo, m.vvNew, -1)
      /\ Ranked(m.mapInfo, -1) /\ \A j \in D : j < m.nIdCount
      /\ m.nTried = Cardinality(TriedIn(m.mapInfo)) /\ m.nNew = Cardinality(NewIn(m.mapInfo))
  BY Zenon DEF AtRest, AtWork
<1>2. /\ m.nIdCount \in 0 .. MaxId /\ m.nNew \in Int /\ D \in SUBSET Ids
      /\ m.mapInfo \in [D -> CAddrInfo] /\ DOMAIN m.mapAddr \in SUBSET Addrs
      /\ m.mapAddr \in [DOMAIN m.mapAddr -> Ids] /\ m.vRandom \in Seq(Ids)
      /\ m.vvNew \in [NewBuckets -> SUBSET Ids] /\ m.vvTried \in [TriedBuckets -> Seq(Ids)]
  BY <1>1, TablesAre
<1>3. len \in Nat /\ AddrOf[s] \in Addrs BY <1>2, LenProperties, AddrManAssumption
<1>. HIDE DEF len
<1>4. nId \in Ids /\ nId \in Nat /\ nId + 1 \in 0 .. MaxId
  <2>1. m.nIdCount \in 0 .. MaxId /\ MaxId \in Nat BY <1>2, AddrManAssumption
  <2>. QED BY <2>1 DEF Ids
<1>5. nId \notin D BY <1>1, <1>4
<1>6. /\ r.mapInfo = Put(m.mapInfo, nId, info) /\ r.mapAddr = Put(m.mapAddr, AddrOf[s], nId)
      /\ r.nIdCount = nId + 1 /\ r.vRandom = Append(m.vRandom, nId)
      /\ r.nTried = m.nTried /\ r.vvTried = m.vvTried /\ r.nNew = m.nNew + 1 /\ r.vvNew = m.vvNew
      /\ r = [m EXCEPT !.nIdCount = nId + 1, !.mapInfo = Put(m.mapInfo, nId, info),
                       !.mapAddr = Put(m.mapAddr, AddrOf[s], nId),
                       !.vRandom = Append(m.vRandom, nId), !.nNew = m.nNew + 1]
  BY <1>1 DEF WithNewEntry, Create, Tables, len
<1>7. info \in CAddrInfo BY <1>3, AddrManAssumption DEF CAddrInfo
<1>8. /\ info.service = s /\ info.nLastSuccess = 0 /\ info.nRefCount = 0 /\ info.fInTried = FALSE
      /\ info.nRandomPos = len + 1
  OBVIOUS
<1>. HIDE DEF r, info, D, nId
<1>9. /\ DOMAIN r.mapInfo = D \union {nId} /\ r.mapInfo[nId] = info
      /\ \A j \in D : r.mapInfo[j] = m.mapInfo[j]
      /\ r.mapInfo \in [D \union {nId} -> CAddrInfo]
  BY <1>2, <1>5, <1>6, <1>7 DEF Put, D
<1>10. AddrOf[s] \notin DOMAIN m.mapAddr BY DEF Known
<1>11. /\ DOMAIN r.mapAddr = DOMAIN m.mapAddr \union {AddrOf[s]} /\ r.mapAddr[AddrOf[s]] = nId
       /\ \A a \in DOMAIN m.mapAddr : r.mapAddr[a] = m.mapAddr[a]
       /\ r.mapAddr \in [DOMAIN m.mapAddr \union {AddrOf[s]} -> Ids]
  BY <1>2, <1>4, <1>6, <1>10 DEF Put
<1>12. /\ r.vRandom \in Seq(Ids) /\ Len(r.vRandom) = len + 1 /\ r.vRandom[len + 1] = nId
       /\ \A i \in 1 .. len : r.vRandom[i] = m.vRandom[i]
  BY <1>2, <1>4, <1>6, AppendProperties DEF len
<1>13. r \in Tables
  <2>1. r.mapInfo \in Infos
    <3>1. D \union {nId} \in SUBSET Ids BY <1>2, <1>4
    <3>. QED BY <1>9, <3>1, InfosAre
  <2>2. r.mapAddr \in UNION {[A -> Ids] : A \in SUBSET Addrs}
    <3>1. DOMAIN m.mapAddr \union {AddrOf[s]} \in SUBSET Addrs BY <1>2, <1>3
    <3>. QED BY <1>11, <3>1
  <2>3. m.nNew + 1 \in Int BY <1>2
  <2>4. r = [m EXCEPT !.nIdCount = r.nIdCount, !.mapInfo = r.mapInfo, !.mapAddr = r.mapAddr,
                      !.vRandom = r.vRandom, !.nNew = r.nNew]
    BY <1>6, Zenon
  <2>. QED BY <1>1, <1>4, <1>6, <1>12, <2>1, <2>2, <2>3, <2>4 DEF Tables
<1>14. \A j \in D \union {nId} : j < r.nIdCount BY <1>1, <1>2, <1>4, <1>6 DEF nId, Ids
<1>15. Listed(r.mapInfo, r.vRandom)
  <2>1. ASSUME NEW j \in D \union {nId}
        PROVE  r.mapInfo[j].nRandomPos \in 1 .. Len(r.vRandom) /\ r.vRandom[r.mapInfo[j].nRandomPos] = j
    <3>1. CASE j = nId BY <1>3, <1>8, <1>9, <1>12, <3>1
    <3>2. CASE j \in D
      <4>1. m.mapInfo[j].nRandomPos \in 1 .. len /\ m.vRandom[m.mapInfo[j].nRandomPos] = j
        BY <1>1, <3>2 DEF Listed, len, D
      <4>. QED BY <1>3, <1>9, <1>12, <3>2, <4>1
    <3>. QED BY <3>1, <3>2
  <2>2. ASSUME NEW i \in 1 .. Len(r.vRandom)
        PROVE  r.vRandom[i] \in D \union {nId} /\ r.mapInfo[r.vRandom[i]].nRandomPos = i
    <3>1. CASE i = len + 1 BY <1>8, <1>9, <1>12, <3>1
    <3>2. CASE i \in 1 .. len
      <4>1. m.vRandom[i] \in D /\ m.mapInfo[m.vRandom[i]].nRandomPos = i
        BY <1>1, <3>2 DEF Listed, len, D
      <4>. QED BY <1>9, <1>12, <3>2, <4>1
    <3>. QED BY <1>3, <1>12, <3>1, <3>2
  <2>. QED BY <1>9, <2>1, <2>2 DEF Listed
<1>16. Named(r.mapInfo, r.mapAddr)
  <2>1. ASSUME NEW j \in D \union {nId}
        PROVE  /\ AddrOf[r.mapInfo[j].service] \in DOMAIN r.mapAddr
               /\ r.mapAddr[AddrOf[r.mapInfo[j].service]] = j
    <3>1. CASE j = nId BY <1>8, <1>9, <1>11, <3>1
    <3>2. CASE j \in D BY <1>1, <1>9, <1>11, <3>2 DEF Named, D
    <3>. QED BY <3>1, <3>2
  <2>2. ASSUME NEW a \in DOMAIN r.mapAddr
        PROVE  r.mapAddr[a] \in D \union {nId} /\ AddrOf[r.mapInfo[r.mapAddr[a]].service] = a
    <3>1. CASE a = AddrOf[s] BY <1>8, <1>9, <1>11, <3>1
    <3>2. CASE a \in DOMAIN m.mapAddr
      <4>1. m.mapAddr[a] \in D /\ AddrOf[m.mapInfo[m.mapAddr[a]].service] = a
        BY <1>1, <3>2 DEF Named, D
      <4>. QED BY <1>9, <1>11, <3>2, <4>1
    <3>. QED BY <1>11, <3>1, <3>2
  <2>. QED BY <1>9, <2>1, <2>2 DEF Named
<1>17. InPlace(r.mapInfo, r.vvTried)
  <2>1. ASSUME NEW k \in TriedBuckets
        PROVE  /\ Len(m.vvTried[k]) <= TriedBucketSize
               /\ \A i \in 1 .. Len(m.vvTried[k]) :
                     /\ m.vvTried[k][i] \in DOMAIN r.mapInfo
                     /\ r.mapInfo[m.vvTried[k][i]].fInTried
                     /\ TriedBucketOf[r.mapInfo[m.vvTried[k][i]].service] = k
               /\ \A i, j \in 1 .. Len(m.vvTried[k]) : m.vvTried[k][i] = m.vvTried[k][j] => i = j
    <3>1. ASSUME NEW i \in 1 .. Len(m.vvTried[k])
          PROVE  /\ m.vvTried[k][i] \in D /\ m.mapInfo[m.vvTried[k][i]].fInTried
                 /\ TriedBucketOf[m.mapInfo[m.vvTried[k][i]].service] = k
      BY <1>1 DEF InPlace, D
    <3>2. /\ Len(m.vvTried[k]) <= TriedBucketSize
          /\ \A i, j \in 1 .. Len(m.vvTried[k]) : m.vvTried[k][i] = m.vvTried[k][j] => i = j
      BY <1>1 DEF InPlace
    <3>. QED BY <1>9, <3>1, <3>2
  <2>2. ASSUME NEW j \in DOMAIN r.mapInfo, r.mapInfo[j].fInTried
        PROVE  LET k == TriedBucketOf[r.mapInfo[j].service]
               IN  \E i \in 1 .. Len(m.vvTried[k]) : m.vvTried[k][i] = j
    <3>1. j \in D /\ m.mapInfo[j].fInTried /\ r.mapInfo[j] = m.mapInfo[j] BY <1>8, <1>9, <2>2
    <3>. QED BY <1>1, <3>1 DEF InPlace, D
  <2>. QED BY <1>6, <2>1, <2>2 DEF InPlace
<1>18. CountedIn(r.mapInfo, r.vvNew, -1)
  <2>1. \A c \in NewBuckets : m.vvNew[c] \subseteq D BY <1>1 DEF CountedIn, D
  <2>2. Cardinality(BucketsWith(m.vvNew, nId)) = 0
    <3>1. BucketsWith(m.vvNew, nId) = {} BY <1>5, <2>1 DEF BucketsWith
    <3>. QED BY <3>1, FS_EmptySet
  <2>3. ASSUME NEW j \in D \union {nId}
        PROVE  r.mapInfo[j].nRefCount
                   = Cardinality(BucketsWith(m.vvNew, j)) + (IF j = -1 THEN 1 ELSE 0)
    <3>1. CASE j = nId BY <1>4, <1>8, <1>9, <2>2, <3>1
    <3>2. CASE j \in D BY <1>1, <1>9, <3>2 DEF CountedIn, D
    <3>. QED BY <3>1, <3>2
  <2>. QED BY <1>6, <1>9, <2>1, <2>3 DEF CountedIn
<1>19. Ranked(r.mapInfo, nId)
  <2>1. ASSUME NEW j \in D
        PROVE  IF r.mapInfo[j].fInTried
               THEN r.mapInfo[j].nRefCount = 0 /\ r.mapInfo[j].nLastSuccess # 0
               ELSE r.mapInfo[j].nRefCount \in (IF j = nId THEN 0 ELSE 1) .. BucketsPerAddress
    <3>1. j # -1 /\ j # nId BY <1>2, <1>5 DEF Ids
    <3>. QED BY <1>1, <1>9, <3>1 DEF Ranked, D
  <2>2. r.mapInfo[nId].nRefCount \in 0 .. BucketsPerAddress /\ ~r.mapInfo[nId].fInTried
    BY <1>8, <1>9, AddrManAssumption
  <2>. QED BY <1>9, <2>1, <2>2 DEF Ranked
<1>20. TriedIn(r.mapInfo) = TriedIn(m.mapInfo)
  BY <1>5, <1>8, <1>9 DEF TriedIn, D
<1>21. r.nNew = Cardinality(NewIn(r.mapInfo))
  <2>1. NewIn(r.mapInfo) = NewIn(m.mapInfo) \union {nId} /\ nId \notin NewIn(m.mapInfo)
    BY <1>5, <1>8, <1>9 DEF NewIn, D
  <2>2. m.mapInfo \in Infos BY <1>2, InfosAre
  <2>3. IsFiniteSet(NewIn(m.mapInfo)) BY <2>2, PartsFinite
  <2>4. Cardinality(NewIn(m.mapInfo) \union {nId}) = Cardinality(NewIn(m.mapInfo)) + 1
    BY <2>1, <2>3, OneMore
  <2>. QED BY <1>1, <1>6, <2>1, <2>4
<1>22. AtWork(r, -1, nId)
  BY <1>1, <1>6, <1>9, <1>13, <1>14, <1>15, <1>16, <1>17, <1>18, <1>19, <1>20, <1>21 DEF AtWork
<1>23. SameEntries(r.mapInfo, m.mapInfo) BY <1>9 DEF SameEntries, D
<1>. QED BY <1>5, <1>8, <1>9, <1>22, <1>23 DEF r, D, nId

-----------------------------------------------------------------------------
\* An exchange rearranges.
LEMMA SwapRearranges ==
    ASSUME NEW a \in Seq(Ids), NEW b, Rearranged(a, b),
           NEW p \in 1 .. Len(a), NEW q \in 1 .. Len(a)
    PROVE  Rearranged(ListSwapped(a, p, q), b)
<1>. DEFINE c == ListSwapped(a, p, q)
            len == Len(a)
<1>1. /\ Len(c) = len
      /\ \A i \in 1 .. len : c[i] = IF i = q THEN a[p] ELSE IF i = p THEN a[q] ELSE a[i]
  BY SwappedList, Zenon
<1>2. /\ Len(b) = len
      /\ \A i, j \in 1 .. len : a[i] = a[j] => i = j
      /\ \A i \in 1 .. len : \E j \in 1 .. len : a[i] = b[j]
      /\ \A j \in 1 .. len : \E i \in 1 .. len : a[i] = b[j]
  BY DEF Rearranged
<1>. HIDE DEF c
<1>3. p \in 1 .. len /\ q \in 1 .. len OBVIOUS
<1>. HIDE DEF len
<1>. DEFINE from == [i \in 1 .. len |-> IF i = q THEN p ELSE IF i = p THEN q ELSE i]
<1>3a. \A i \in 1 .. len : from[i] \in 1 .. len /\ c[i] = a[from[i]] BY <1>1, <1>3
<1>4. ASSUME NEW i \in 1 .. len, NEW j \in 1 .. len, c[i] = c[j] PROVE i = j
  <2>1. from[i] = from[j]
    <3>. HIDE DEF from
    <3>1. /\ from[i] \in 1 .. len /\ from[j] \in 1 .. len
          /\ c[i] = a[from[i]] /\ c[j] = a[from[j]]
      BY <1>3a
    <3>2. a[from[i]] = a[from[j]] BY <1>4, <3>1
    <3>. QED BY <1>2, <3>1, <3>2
  <2>. QED BY <2>1
<1>5. ASSUME NEW i \in 1 .. len PROVE \E j \in 1 .. len : c[i] = b[j]
  <2>. HIDE DEF from
  <2>1. from[i] \in 1 .. len /\ c[i] = a[from[i]] BY <1>3a
  <2>2. PICK j \in 1 .. len : a[from[i]] = b[j] BY <1>2, <2>1
  <2>. QED BY <2>1, <2>2
<1>6. ASSUME NEW j \in 1 .. len PROVE \E i \in 1 .. len : c[i] = b[j]
  <2>1. PICK i \in 1 .. len : a[i] = b[j] BY <1>2
  <2>2. CASE i = p BY <1>1, <1>3, <2>1, <2>2
  <2>3. CASE i = q BY <1>1, <1>3, <2>1, <2>3
  <2>4. CASE i # p /\ i # q BY <1>1, <2>1, <2>4
  <2>. QED BY <2>2, <2>3, <2>4
<1>. QED BY <1>1, <1>2, <1>4, <1>5, <1>6 DEF Rearranged, c

\* One step of SelectTried.
LEMMA InspectIs ==
    ASSUME NEW m, NEW bucket \in Seq(Ids), NEW pick, NEW acc \in Inspected(bucket), NEW i,
           i \in 1 .. Len(bucket), pick[i] \in 1 .. Len(bucket)
    PROVE  Inspect(m, pick, acc, i) \in Inspected(bucket) /\ Inspect(m, pick, acc, i).nOldest # -1
<1>. DEFINE nPos == pick[i]
            nTemp == acc.vTried[nPos]
            older == acc.nOldest = -1
                     \/ m.mapInfo[nTemp].nLastSuccess < m.mapInfo[acc.nOldest].nLastSuccess
            r == Inspect(m, pick, acc, i)
<1>1. /\ acc.vTried \in Seq(Ids) /\ acc.nOldest \in Ids \union {-1} /\ acc.nOldestPos \in Int
      /\ Rearranged(acc.vTried, bucket)
      /\ acc.nOldest = -1 \/ acc.nOldestPos \in 1 .. Len(bucket)
  BY DEF Inspected
<1>2. Len(acc.vTried) = Len(bucket) BY <1>1 DEF Rearranged
<1>3. nPos \in 1 .. Len(acc.vTried) /\ i \in 1 .. Len(acc.vTried) BY <1>2
<1>4. nTemp \in Ids /\ nTemp # -1
  <2>1. nTemp \in Ids BY <1>1, <1>3, ElementOfSeq
  <2>. QED BY <2>1 DEF Ids
<1>5. /\ r.vTried = ListSwapped(acc.vTried, nPos, i)
      /\ r.nOldest = IF older THEN nTemp ELSE acc.nOldest
      /\ r.nOldestPos = IF older THEN nPos ELSE acc.nOldestPos
      /\ r = [vTried |-> r.vTried, nOldest |-> r.nOldest, nOldestPos |-> r.nOldestPos]
  BY DEF Inspect, ListSwapped
<1>6. ListSwapped(acc.vTried, nPos, i) \in Seq(Ids) /\ Rearranged(ListSwapped(acc.vTried, nPos, i), bucket)
  <2>. DEFINE a == acc.vTried
  <2>1. a \in Seq(Ids) /\ Rearranged(a, bucket) /\ nPos \in 1 .. Len(a) /\ i \in 1 .. Len(a) BY <1>1, <1>3
  <2>. HIDE DEF a, nPos
  <2>2. ListSwapped(a, nPos, i) \in Seq(Ids) BY <2>1, SwappedList
  <2>3. Rearranged(ListSwapped(a, nPos, i), bucket) BY <2>1, SwapRearranges
  <2>. QED BY <2>2, <2>3 DEF a
<1>7. Len(bucket) \in Nat BY LenProperties
<1>. HIDE DEF r, nTemp
<1>8. r.nOldest \in Ids \union {-1} /\ r.nOldest # -1 /\ r.nOldestPos \in 1 .. Len(bucket)
  BY <1>1, <1>2, <1>3, <1>4, <1>5
<1>9. r.nOldestPos \in Int BY <1>7, <1>8
<1>10. r \in Inspected(bucket)
  <2>1. r.vTried \in Seq(Ids) /\ Rearranged(r.vTried, bucket) BY <1>5, <1>6
  <2>2. r \in [vTried : Seq(Ids), nOldest : Ids \union {-1}, nOldestPos : Int]
    BY <1>5, <1>8, <1>9, <2>1
  <2>. QED BY <1>8, <2>1, <2>2 DEF Inspected
<1>. QED BY <1>8, <1>10 DEF r

\* SelectTried is a walk with its steps.
LEMMA SelectWalk ==
    ASSUME NEW m \in Tables, NEW k \in TriedBuckets, NEW n \in Nat,
           Rearranged(m.vvTried[k], m.vvTried[k]), NEW pick \in Picks(n, Len(m.vvTried[k]))
    PROVE  \E v \in [0 .. n -> Inspected(m.vvTried[k])] :
              /\ v[n] = SelectTried(m, k, pick)
              /\ \A i \in 1 .. n : v[i] = Inspect(m, pick, v[i - 1], i)
<1>. DEFINE size == n
            bucket == m.vvTried[k]
            W == Inspected(bucket)
            base == [vTried |-> bucket, nOldest |-> -1, nOldestPos |-> -1]
            F == [wi \in W \X (1 .. size) |-> Inspect(m, pick, wi[1], wi[2])]
            Follows(it) ==
              it = [t \in SUBSET (1 .. size) |->
                      IF t = {} THEN base
                      ELSE LET x == Max(t)
                           IN  Inspect(m, pick, it[t \ {x}], [j \in DOMAIN pick |-> j][x])]
            it0 == CHOOSE it : Follows(it)
<1>0. /\ size \in Nat /\ DOMAIN pick = 1 .. size /\ bucket \in Seq(Ids) /\ Len(bucket) \in Nat
      /\ \A i \in 1 .. size : i \in 1 .. Len(bucket) /\ pick[i] \in 1 .. Len(bucket)
  <2>1. bucket \in Seq(Ids) BY TablesAre
  <2>2. Len(bucket) \in Nat BY <2>1, LenProperties
  <2>3. pick \in [1 .. n -> 1 .. Len(bucket)] /\ \A i \in 1 .. n : pick[i] >= i BY DEF Picks
  <2>. QED BY <2>1, <2>2, <2>3
<1>1. SelectTried(m, k, pick) = it0[1 .. size]
  BY <1>0, Zenon DEF SelectTried, FoldLeftDomain, FoldLeft, MapThenFoldSet
<1>. HIDE DEF bucket
<1>2. base \in W
  <2>1. Rearranged(bucket, bucket) BY DEF bucket
  <2>. QED BY <1>0, <2>1 DEF Inspected
<1>3. F \in [W \X (1 .. size) -> W]
  <2>1. ASSUME NEW wi \in W \X (1 .. size)
        PROVE  Inspect(m, pick, wi[1], wi[2]) \in W
    <3>. DEFINE w == wi[1]
                i == wi[2]
    <3>1. w \in W /\ i \in 1 .. size BY Zenon
    <3>2. i \in 1 .. Len(bucket) /\ pick[i] \in 1 .. Len(bucket) BY <1>0, <3>1
    <3>. HIDE DEF w, i
    <3>3. Inspect(m, pick, w, i) \in W
      BY <1>0, <3>1, <3>2, InspectIs
    <3>. QED BY <3>3 DEF w, i
  <2>. HIDE DEF W
  <2>. QED BY <2>1
<1>. HIDE DEF W, base, F
<1>4. PICK g \in [SUBSET (1 .. size) -> W] : Folds(g, base, F, size) BY <1>0, <1>2, <1>3, FoldExists
<1>5. ASSUME NEW it, NEW t \in SUBSET (1 .. size), t # {}, it[t \ {Max(t)}] \in W
      PROVE  F[<<it[t \ {Max(t)}], Max(t)>>] =
                Inspect(m, pick, it[t \ {Max(t)}], [j \in DOMAIN pick |-> j][Max(t)])
  <2>1. Max(t) \in 1 .. size BY <1>0, <1>5, MaxInInterval
  <2>2. [j \in DOMAIN pick |-> j][Max(t)] = Max(t) BY <1>0, <2>1
  <2>. QED BY <1>5, <2>1, <2>2 DEF F
<1>6. Follows(g)
  <2>1. ASSUME NEW t \in SUBSET (1 .. size)
        PROVE  g[t] = IF t = {} THEN base
                      ELSE LET x == Max(t)
                           IN  Inspect(m, pick, g[t \ {x}], [j \in DOMAIN pick |-> j][x])
    <3>1. g[t] = IF t = {} THEN base ELSE F[<<g[t \ {Max(t)}], Max(t)>>] BY <1>4, Zenon DEF Folds
    <3>2. t \ {Max(t)} \in SUBSET (1 .. size) OBVIOUS
    <3>3. g[t \ {Max(t)}] \in W BY <1>4, <3>2
    <3>. QED BY <1>5, <3>1, <3>3, Zenon
  <2>2. g = [t \in SUBSET (1 .. size) |-> g[t]] OBVIOUS
  <2>. QED BY <2>1, <2>2, Zenon
<1>7. Follows(it0)
  <2>. HIDE DEF Follows
  <2>. QED BY <1>6, Zenon
<1>. HIDE DEF it0
<1>8. it0[{}] = base
  <2>1. {} \in SUBSET (1 .. size) OBVIOUS
  <2>. QED BY <1>7, <2>1, Zenon
<1>9. ASSUME NEW t \in SUBSET (1 .. size), t # {}, it0[t \ {Max(t)}] \in W
      PROVE  it0[t] = F[<<it0[t \ {Max(t)}], Max(t)>>]
  <2>1. it0[t] = Inspect(m, pick, it0[t \ {Max(t)}], [j \in DOMAIN pick |-> j][Max(t)])
    BY <1>7, <1>9, Zenon
  <2>. QED BY <1>5, <1>9, <2>1, Zenon
<1>. HIDE DEF Follows
<1>10. PICK v \in [0 .. size -> W] : Walk(v, it0, base, F, size)
  <2>1. Unfolds(it0, W, base, F, size)
    <3>. HIDE DEF size
    <3>. QED BY <1>8, <1>9 DEF Unfolds
  <2>. HIDE DEF size
  <2>. QED BY <1>0, <1>2, <1>3, <2>1, FoldWalk
<1>11. ASSUME NEW i \in 1 .. size PROVE v[i] = Inspect(m, pick, v[i - 1], i)
  <2>1. i - 1 \in 0 .. size /\ i \in 1 .. size BY <1>0
  <2>2. v[i - 1] \in W BY <2>1
  <2>3. <<v[i - 1], i>> \in W \X (1 .. size) BY <2>1, <2>2
  <2>4. F[<<v[i - 1], i>>] = Inspect(m, pick, v[i - 1], i)
    BY <2>3, Zenon DEF F
  <2>. QED BY <1>10, <2>1, <2>4 DEF Walk
<1>12. v \in [0 .. n -> Inspected(m.vvTried[k])] BY DEF W, bucket
<1>13. v[n] = SelectTried(m, k, pick) BY <1>1, <1>10 DEF Walk
<1>14. \A i \in 1 .. n : v[i] = Inspect(m, pick, v[i - 1], i) BY <1>11
<1>. HIDE DEF size
<1>. QED BY <1>12, <1>13, <1>14

\* What SelectTried returns.
LEMMA SelectIs ==
    ASSUME NEW m \in Tables, NEW k \in TriedBuckets, NEW n \in Nat \ {0},
           \A i, j \in 1 .. Len(m.vvTried[k]) : m.vvTried[k][i] = m.vvTried[k][j] => i = j,
           NEW pick \in Picks(n, Len(m.vvTried[k]))
    PROVE  /\ SelectTried(m, k, pick).vTried \in Seq(Ids)
           /\ Rearranged(SelectTried(m, k, pick).vTried, m.vvTried[k])
           /\ SelectTried(m, k, pick).nOldestPos \in 1 .. Len(m.vvTried[k])
<1>. DEFINE bucket == m.vvTried[k]
<1>1. Rearranged(bucket, bucket) BY DEF Rearranged
<1>2. PICK v \in [0 .. n -> Inspected(bucket)] :
         /\ v[n] = SelectTried(m, k, pick)
         /\ \A i \in 1 .. n : v[i] = Inspect(m, pick, v[i - 1], i)
  BY <1>1, SelectWalk
<1>3. bucket \in Seq(Ids) BY TablesAre
<1>4. n \in 1 .. Len(bucket) /\ pick[n] \in 1 .. Len(bucket)
  <2>1. Len(bucket) \in Nat BY <1>3, LenProperties
  <2>2. pick \in [1 .. n -> 1 .. Len(bucket)] /\ \A i \in 1 .. n : pick[i] >= i BY DEF Picks
  <2>3. n \in 1 .. n OBVIOUS
  <2>. HIDE DEF bucket
  <2>. QED BY <2>1, <2>2, <2>3
<1>. HIDE DEF bucket
<1>5. n - 1 \in 0 .. n /\ n \in 1 .. n /\ n \in 0 .. n OBVIOUS
<1>6. v[n - 1] \in Inspected(bucket) BY <1>5
<1>7. v[n] = Inspect(m, pick, v[n - 1], n) BY <1>2, <1>5
<1>8. v[n] \in Inspected(bucket) /\ v[n].nOldest # -1
  BY <1>3, <1>4, <1>6, <1>7, InspectIs
<1>9. /\ v[n].vTried \in Seq(Ids) /\ Rearranged(v[n].vTried, bucket)
      /\ v[n].nOldestPos \in 1 .. Len(bucket)
  BY <1>8 DEF Inspected
<1>. QED BY <1>2, <1>9 DEF bucket

-----------------------------------------------------------------------------
\* One exchange after others.
LEMMA ReorderedAgain ==
    ASSUME NEW m, NEW r, Reordered(m, r),
           NEW p \in 1 .. Len(m.vRandom), NEW q \in 1 .. Len(m.vRandom)
    PROVE  Reordered(m, SwapRandom(r, p, q))
<1>. DEFINE s == SwapRandom(r, p, q)
<1>1. /\ r \in Tables /\ Listed(r.mapInfo, r.vRandom) /\ p \in 1 .. Len(r.vRandom) /\ q \in 1 .. Len(r.vRandom)
  BY DEF Reordered
<1>2. Reordered(r, s) BY <1>1, SwapEffect
<1>. HIDE DEF s
<1>3. SameEntries(m.mapInfo, s.mapInfo) BY <1>2 DEF Reordered, SameEntries
<1>4. Reordered(m, s) BY <1>2, <1>3 DEF Reordered
<1>. QED BY <1>4 DEF s

\* The exchanges of GetAddr_ one after the other.
LEMMA ShuffledIs ==
    ASSUME NEW m \in Tables, Listed(m.mapInfo, m.vRandom), NEW n \in Nat,
           NEW pick \in Picks(n, Len(m.vRandom))
    PROVE  Reordered(m, Shuffled(m, pick))
<1>. DEFINE size == n
            W == {r \in Tables : Reordered(m, r)}
            base == m
            F == [wi \in W \X (1 .. size) |-> SwapRandom(wi[1], wi[2], pick[wi[2]])]
            Follows(it) ==
              it = [t \in SUBSET (1 .. size) |->
                      IF t = {} THEN base
                      ELSE LET x == Max(t)
                           IN  SwapRandom(it[t \ {x}], [j \in DOMAIN pick |-> j][x], pick[[j \in DOMAIN pick |-> j][x]])]
            it0 == CHOOSE it : Follows(it)
<1>0. /\ size \in Nat /\ DOMAIN pick = 1 .. size
      /\ \A i \in 1 .. size : i \in 1 .. Len(m.vRandom) /\ pick[i] \in 1 .. Len(m.vRandom)
  <2>1. m.vRandom \in Seq(Ids) BY TablesAre
  <2>2. Len(m.vRandom) \in Nat BY <2>1, LenProperties
  <2>3. pick \in [1 .. n -> 1 .. Len(m.vRandom)] /\ \A i \in 1 .. n : pick[i] >= i BY DEF Picks
  <2>. QED BY <2>2, <2>3
<1>1. Shuffled(m, pick) = it0[1 .. size]
  BY <1>0, Zenon DEF Shuffled, FoldLeftDomain, FoldLeft, MapThenFoldSet
<1>2. base \in W
  <2>1. SameEntries(m.mapInfo, m.mapInfo) BY DEF SameEntries
  <2>. QED BY <2>1 DEF Reordered
<1>3. F \in [W \X (1 .. size) -> W]
  <2>1. ASSUME NEW wi \in W \X (1 .. size)
        PROVE  SwapRandom(wi[1], wi[2], pick[wi[2]]) \in W
    <3>. DEFINE w == wi[1]
                i == wi[2]
    <3>1. w \in W /\ i \in 1 .. size BY Zenon
    <3>2. i \in 1 .. Len(m.vRandom) /\ pick[i] \in 1 .. Len(m.vRandom) BY <1>0, <3>1
    <3>. HIDE DEF w, i
    <3>3. Reordered(m, SwapRandom(w, i, pick[i])) BY <3>1, <3>2, ReorderedAgain
    <3>4. SwapRandom(w, i, pick[i]) \in W
      <4>1. SwapRandom(w, i, pick[i]) \in Tables BY <3>3 DEF Reordered
      <4>. QED BY <3>3, <4>1
    <3>. QED BY <3>4 DEF w, i
  <2>. HIDE DEF W
  <2>. QED BY <2>1
<1>. HIDE DEF W, base, F
<1>4. PICK g \in [SUBSET (1 .. size) -> W] : Folds(g, base, F, size) BY <1>0, <1>2, <1>3, FoldExists
<1>5. ASSUME NEW it, NEW t \in SUBSET (1 .. size), t # {}, it[t \ {Max(t)}] \in W
      PROVE  F[<<it[t \ {Max(t)}], Max(t)>>] =
                SwapRandom(it[t \ {Max(t)}], [j \in DOMAIN pick |-> j][Max(t)], pick[[j \in DOMAIN pick |-> j][Max(t)]])
  <2>1. Max(t) \in 1 .. size BY <1>0, <1>5, MaxInInterval
  <2>2. [j \in DOMAIN pick |-> j][Max(t)] = Max(t) BY <1>0, <2>1
  <2>. QED BY <1>5, <2>1, <2>2 DEF F
<1>6. Follows(g)
  <2>1. ASSUME NEW t \in SUBSET (1 .. size)
        PROVE  g[t] = IF t = {} THEN base
                      ELSE LET x == Max(t)
                           IN  SwapRandom(g[t \ {x}], [j \in DOMAIN pick |-> j][x], pick[[j \in DOMAIN pick |-> j][x]])
    <3>1. g[t] = IF t = {} THEN base ELSE F[<<g[t \ {Max(t)}], Max(t)>>] BY <1>4, Zenon DEF Folds
    <3>2. t \ {Max(t)} \in SUBSET (1 .. size) OBVIOUS
    <3>3. g[t \ {Max(t)}] \in W BY <1>4, <3>2
    <3>. QED BY <1>5, <3>1, <3>3, Zenon
  <2>2. g = [t \in SUBSET (1 .. size) |-> g[t]] OBVIOUS
  <2>. QED BY <2>1, <2>2, Zenon
<1>7. Follows(it0)
  <2>. HIDE DEF Follows
  <2>. QED BY <1>6, Zenon
<1>. HIDE DEF it0
<1>8. it0[{}] = base
  <2>1. {} \in SUBSET (1 .. size) OBVIOUS
  <2>. QED BY <1>7, <2>1, Zenon
<1>9. ASSUME NEW t \in SUBSET (1 .. size), t # {}, it0[t \ {Max(t)}] \in W
      PROVE  it0[t] = F[<<it0[t \ {Max(t)}], Max(t)>>]
  <2>1. it0[t] = SwapRandom(it0[t \ {Max(t)}], [j \in DOMAIN pick |-> j][Max(t)], pick[[j \in DOMAIN pick |-> j][Max(t)]])
    BY <1>7, <1>9, Zenon
  <2>. QED BY <1>5, <1>9, <2>1, Zenon
<1>. HIDE DEF Follows
<1>10. PICK v \in [0 .. size -> W] : Walk(v, it0, base, F, size)
  <2>1. Unfolds(it0, W, base, F, size)
    <3>. HIDE DEF size
    <3>. QED BY <1>8, <1>9 DEF Unfolds
  <2>. HIDE DEF size
  <2>. QED BY <1>0, <1>2, <1>3, <2>1, FoldWalk
<1>11. Shuffled(m, pick) \in W
  <2>1. size \in 0 .. size BY <1>0
  <2>. QED BY <1>1, <1>10, <2>1 DEF Walk
<1>. QED BY <1>11 DEF W

\* GetAddr_ leaves everything but the order as it was.
LEMMA ReorderedKeeps ==
    ASSUME NEW m, AtRest(m), NEW s, Reordered(m, s),
           NEW r, r = [m EXCEPT !.mapInfo = s.mapInfo, !.vRandom = s.vRandom]
    PROVE  AtRest(r) /\ SameEntries(m.mapInfo, r.mapInfo) /\ DOMAIN r.mapInfo = DOMAIN m.mapInfo
<1>1. /\ m \in Tables /\ Named(m.mapInfo, m.mapAddr)
      /\ InPlace(m.mapInfo, m.vvTried) /\ CountedIn(m.mapInfo, m.vvNew, -1)
      /\ Ranked(m.mapInfo, -1) /\ \A j \in DOMAIN m.mapInfo : j < m.nIdCount
      /\ m.nTried = Cardinality(TriedIn(m.mapInfo)) /\ m.nNew = Cardinality(NewIn(m.mapInfo))
  BY Zenon DEF AtRest, AtWork
<1>2. /\ s \in Tables /\ DOMAIN s.mapInfo = DOMAIN m.mapInfo
      /\ Listed(s.mapInfo, s.vRandom) /\ SameEntries(m.mapInfo, s.mapInfo)
      /\ \A j \in DOMAIN m.mapInfo : s.mapInfo[j].nRefCount = m.mapInfo[j].nRefCount
  BY DEF Reordered
<1>3. /\ r.mapInfo = s.mapInfo /\ r.vRandom = s.vRandom
      /\ r.nIdCount = m.nIdCount /\ r.mapAddr = m.mapAddr /\ r.nTried = m.nTried
      /\ r.vvTried = m.vvTried /\ r.nNew = m.nNew /\ r.vvNew = m.vvNew
      /\ r \in Tables
  BY <1>1, <1>2 DEF Tables
<1>4. \A j \in DOMAIN m.mapInfo : /\ s.mapInfo[j].service = m.mapInfo[j].service
                                  /\ s.mapInfo[j].nLastSuccess = m.mapInfo[j].nLastSuccess
                                  /\ s.mapInfo[j].fInTried = m.mapInfo[j].fInTried
  BY <1>2 DEF SameEntries
<1>5. Named(s.mapInfo, m.mapAddr) BY <1>1, <1>2, <1>4 DEF Named
<1>6. InPlace(s.mapInfo, m.vvTried)
  <2>1. ASSUME NEW k \in TriedBuckets
        PROVE  /\ Len(m.vvTried[k]) <= TriedBucketSize
               /\ \A i \in 1 .. Len(m.vvTried[k]) :
                     /\ m.vvTried[k][i] \in DOMAIN s.mapInfo
                     /\ s.mapInfo[m.vvTried[k][i]].fInTried
                     /\ TriedBucketOf[s.mapInfo[m.vvTried[k][i]].service] = k
               /\ \A i, j \in 1 .. Len(m.vvTried[k]) : m.vvTried[k][i] = m.vvTried[k][j] => i = j
    BY <1>1, <1>2, <1>4 DEF InPlace
  <2>2. ASSUME NEW j \in DOMAIN s.mapInfo, s.mapInfo[j].fInTried
        PROVE  LET k == TriedBucketOf[s.mapInfo[j].service]
               IN  \E i \in 1 .. Len(m.vvTried[k]) : m.vvTried[k][i] = j
    BY <1>1, <1>2, <1>4, <2>2 DEF InPlace
  <2>. QED BY <2>1, <2>2 DEF InPlace
<1>7. CountedIn(s.mapInfo, m.vvNew, -1) BY <1>1, <1>2 DEF CountedIn
<1>8. Ranked(s.mapInfo, -1) BY <1>1, <1>2, <1>4 DEF Ranked
<1>9. TriedIn(s.mapInfo) = TriedIn(m.mapInfo) /\ NewIn(s.mapInfo) = NewIn(m.mapInfo)
  BY <1>2, <1>4 DEF TriedIn, NewIn
<1>10. AtRest(r) BY <1>1, <1>2, <1>3, <1>5, <1>6, <1>7, <1>8, <1>9 DEF AtRest, AtWork
<1>. QED BY <1>2, <1>3, <1>10

-----------------------------------------------------------------------------
\* An entry is added at the end of its tried bucket.
LEMMA PlacedLast ==
    ASSUME NEW info, NEW after, DOMAIN after = DOMAIN info, NEW tried \in [TriedBuckets -> Seq(Ids)],
           InPlace(info, tried), NEW nId \in DOMAIN info, nId \in Ids,
           ~info[nId].fInTried, after[nId].fInTried,
           \A j \in DOMAIN info : /\ after[j].service = info[j].service
                                  /\ j # nId => after[j].fInTried = info[j].fInTried,
           NEW k \in TriedBuckets, k = TriedBucketOf[info[nId].service],
           Len(tried[k]) < TriedBucketSize
    PROVE  InPlace(after, [tried EXCEPT ![k] = Append(@, nId)])
<1>. DEFINE place == [tried EXCEPT ![k] = Append(@, nId)]
            len == Len(tried[k])
<1>1. tried[k] \in Seq(Ids) /\ len \in Nat BY LenProperties
<1>2. /\ Len(place[k]) = len + 1 /\ place[k][len + 1] = nId
      /\ \A i \in 1 .. len : place[k][i] = tried[k][i]
      /\ \A c \in TriedBuckets : c # k => place[c] = tried[c]
  <2>1. place[k] = Append(tried[k], nId) /\ \A c \in TriedBuckets : c # k => place[c] = tried[c]
    OBVIOUS
  <2>. HIDE DEF place
  <2>. QED BY <1>1, <2>1, AppendProperties
<1>. HIDE DEF place, len
<1>3. TriedBucketSize \in Nat BY AddrManAssumption
<1>4. ASSUME NEW i \in 1 .. len
      PROVE  /\ tried[k][i] \in DOMAIN info \ {nId} /\ info[tried[k][i]].fInTried
             /\ TriedBucketOf[info[tried[k][i]].service] = k
  BY DEF InPlace, len
<1>5. \A i, j \in 1 .. len : tried[k][i] = tried[k][j] => i = j
  BY DEF InPlace, len
<1>6. ASSUME NEW c \in TriedBuckets
      PROVE  /\ Len(place[c]) <= TriedBucketSize
             /\ \A i \in 1 .. Len(place[c]) :
                   /\ place[c][i] \in DOMAIN after
                   /\ after[place[c][i]].fInTried
                   /\ TriedBucketOf[after[place[c][i]].service] = c
             /\ \A i, j \in 1 .. Len(place[c]) : place[c][i] = place[c][j] => i = j
  <2>1. CASE c = k
    <3>1. Len(place[k]) <= TriedBucketSize BY <1>1, <1>2, <1>3 DEF len
    <3>2. ASSUME NEW i \in 1 .. Len(place[k])
          PROVE  /\ place[k][i] \in DOMAIN after
                 /\ after[place[k][i]].fInTried
                 /\ TriedBucketOf[after[place[k][i]].service] = k
                 /\ i # len + 1 => i \in 1 .. len /\ place[k][i] = tried[k][i] /\ place[k][i] # nId
      <4>1. CASE i = len + 1 BY <1>2, <4>1
      <4>2. CASE i # len + 1
        <5>1. i \in 1 .. len BY <1>1, <1>2, <4>2
        <5>. QED BY <1>2, <1>4, <5>1
      <4>. QED BY <4>1, <4>2
    <3>3. ASSUME NEW i \in 1 .. Len(place[k]), NEW j \in 1 .. Len(place[k]), place[k][i] = place[k][j]
          PROVE  i = j
      <4>1. CASE i # len + 1 /\ j # len + 1
        <5>1. /\ i \in 1 .. len /\ place[k][i] = tried[k][i]
              /\ j \in 1 .. len /\ place[k][j] = tried[k][j]
          BY <3>2, <4>1
        <5>2. tried[k][i] = tried[k][j] BY <3>3, <5>1
        <5>. QED BY <1>5, <5>1, <5>2
      <4>2. CASE i = len + 1 /\ j # len + 1
        <5>1. place[k][i] = nId BY <1>2, <4>2
        <5>2. place[k][j] # nId BY <3>2, <4>2
        <5>. QED BY <3>3, <5>1, <5>2
      <4>3. CASE i # len + 1 /\ j = len + 1
        <5>1. place[k][j] = nId BY <1>2, <4>3
        <5>2. place[k][i] # nId BY <3>2, <4>3
        <5>. QED BY <3>3, <5>1, <5>2
      <4>4. CASE i = len + 1 /\ j = len + 1 BY <4>4
      <4>. QED BY <4>1, <4>2, <4>3, <4>4
    <3>. QED BY <2>1, <3>1, <3>2, <3>3
  <2>2. CASE c # k
    <3>1. place[c] = tried[c] BY <1>2, <2>2
    <3>2. /\ Len(tried[c]) <= TriedBucketSize
          /\ \A i \in 1 .. Len(tried[c]) :
                /\ tried[c][i] \in DOMAIN info
                /\ info[tried[c][i]].fInTried /\ TriedBucketOf[info[tried[c][i]].service] = c
          /\ \A i, j \in 1 .. Len(tried[c]) : tried[c][i] = tried[c][j] => i = j
      BY DEF InPlace
    <3>3. ASSUME NEW i \in 1 .. Len(tried[c])
          PROVE  /\ tried[c][i] \in DOMAIN after /\ after[tried[c][i]].fInTried
                 /\ TriedBucketOf[after[tried[c][i]].service] = c
      <4>1. tried[c][i] \in DOMAIN info /\ tried[c][i] # nId BY <3>2
      <4>. QED BY <3>2, <4>1
    <3>. QED BY <3>1, <3>2, <3>3
  <2>. QED BY <2>1, <2>2
<1>7. ASSUME NEW j \in DOMAIN after, after[j].fInTried
      PROVE  LET c == TriedBucketOf[after[j].service]
             IN  \E i \in 1 .. Len(place[c]) : place[c][i] = j
  <2>1. CASE j = nId
    <3>1. len + 1 \in 1 .. Len(place[k]) BY <1>1, <1>2
    <3>. QED BY <1>2, <2>1, <3>1
  <2>2. CASE j # nId
    <3>. DEFINE c == TriedBucketOf[info[j].service]
    <3>1. info[j].fInTried /\ after[j].service = info[j].service BY <1>7, <2>2
    <3>2. PICK i \in 1 .. Len(tried[c]) : tried[c][i] = j BY <3>1 DEF InPlace
    <3>3. CASE c = k
      <4>1. i \in 1 .. len BY <3>2, <3>3 DEF len
      <4>2. i \in 1 .. Len(place[k]) /\ place[k][i] = j BY <1>1, <1>2, <3>2, <3>3, <4>1
      <4>. QED BY <3>1, <3>3, <4>2
    <3>4. CASE c # k
      <4>1. place[c] = tried[c] \/ c \notin TriedBuckets BY <1>2, <3>4
      <4>2. place[c] = tried[c]
        <5>1. j \in DOMAIN info BY <1>7
        <5>. QED BY <4>1 DEF place
      <4>. QED BY <3>1, <3>2, <4>2
    <3>. QED BY <3>3, <3>4
  <2>. QED BY <2>1, <2>2
<1>8. InPlace(after, place) BY <1>6, <1>7 DEF InPlace
<1>. QED BY <1>8 DEF place

\* The entry nId is put into its tried bucket k, which is list in some order, in
\* the place p of another one.
Supersedes(info, after, tried, place, nId, k, list, p) ==
    /\ DOMAIN after = DOMAIN info /\ tried \in [TriedBuckets -> Seq(Ids)]
    /\ InPlace(info, tried) /\ nId \in DOMAIN info /\ nId \in Ids
    /\ k \in TriedBuckets /\ k = TriedBucketOf[info[nId].service]
    /\ list \in Seq(Ids) /\ Rearranged(list, tried[k]) /\ p \in 1 .. Len(list)
    /\ ~info[nId].fInTried /\ after[nId].fInTried /\ ~after[list[p]].fInTried
    /\ \A j \in DOMAIN info :
          /\ after[j].service = info[j].service
          /\ j # nId /\ j # list[p] => after[j].fInTried = info[j].fInTried
    /\ place = [tried EXCEPT ![k] = [list EXCEPT ![p] = nId]]

\* An entry is put in the place of another one in its tried bucket.
LEMMA PlacedInstead ==
    ASSUME NEW info, NEW after, NEW tried, NEW place, NEW nId, NEW k, NEW list, NEW p,
           Supersedes(info, after, tried, place, nId, k, list, p)
    PROVE  InPlace(after, place)
<1>. DEFINE len == Len(tried[k])
            nOld == list[p]
<1>. SUFFICES
       ASSUME DOMAIN after = DOMAIN info, tried \in [TriedBuckets -> Seq(Ids)],
              InPlace(info, tried), nId \in DOMAIN info, nId \in Ids,
              k \in TriedBuckets, k = TriedBucketOf[info[nId].service],
              list \in Seq(Ids), Rearranged(list, tried[k]), p \in 1 .. Len(list),
              ~info[nId].fInTried, after[nId].fInTried, ~after[list[p]].fInTried,
              \A j \in DOMAIN info :
                 /\ after[j].service = info[j].service
                 /\ j # nId /\ j # list[p] => after[j].fInTried = info[j].fInTried,
              place = [tried EXCEPT ![k] = [list EXCEPT ![p] = nId]]
       PROVE  InPlace(after, place)
  BY DEF Supersedes
<1>1. /\ len \in Nat /\ Len(list) = len
      /\ \A i, j \in 1 .. len : list[i] = list[j] => i = j
      /\ \A i \in 1 .. len : \E j \in 1 .. len : list[i] = tried[k][j]
      /\ \A j \in 1 .. len : \E i \in 1 .. len : list[i] = tried[k][j]
  <2>1. tried[k] \in Seq(Ids) /\ len \in Nat BY LenProperties
  <2>. QED BY <2>1 DEF Rearranged
<1>2. /\ Len(place[k]) = len /\ place[k][p] = nId
      /\ \A i \in 1 .. len : i # p => place[k][i] = list[i]
      /\ \A c \in TriedBuckets : c # k => place[c] = tried[c]
  <2>1. place[k] = [list EXCEPT ![p] = nId] /\ \A c \in TriedBuckets : c # k => place[c] = tried[c]
    OBVIOUS
  <2>. DEFINE new == [list EXCEPT ![p] = nId]
  <2>2. Len(new) = len /\ new[p] = nId /\ \A i \in 1 .. len : i # p => new[i] = list[i]
    <3>1. p \in 1 .. Len(list) /\ nId \in Ids /\ list \in Seq(Ids) OBVIOUS
    <3>2. /\ Len(new) = Len(list)
          /\ \A i \in 1 .. Len(list) : new[i] = IF i = p THEN nId ELSE list[i]
      BY <3>1, ExceptSeq
    <3>. HIDE DEF new
    <3>. QED BY <1>1, <3>1, <3>2
  <2>. HIDE DEF new
  <2>. QED BY <2>1, <2>2 DEF new
<1>3. p \in 1 .. len BY <1>1
<1>. HIDE DEF len
<1>4. ASSUME NEW i \in 1 .. len
      PROVE  /\ list[i] \in DOMAIN info \ {nId} /\ info[list[i]].fInTried
             /\ TriedBucketOf[info[list[i]].service] = k
  <2>1. PICK j \in 1 .. len : list[i] = tried[k][j] BY <1>1
  <2>2. /\ tried[k][j] \in DOMAIN info /\ info[tried[k][j]].fInTried
        /\ TriedBucketOf[info[tried[k][j]].service] = k
    BY <2>1 DEF InPlace, len
  <2>. QED BY <2>1, <2>2
<1>5. nOld \in DOMAIN info \ {nId} /\ info[nOld].fInTried /\ TriedBucketOf[info[nOld].service] = k
  BY <1>3, <1>4
<1>. DEFINE Right(c) ==
              /\ Len(place[c]) <= TriedBucketSize
              /\ \A i \in 1 .. Len(place[c]) :
                    /\ place[c][i] \in DOMAIN after
                    /\ after[place[c][i]].fInTried
                    /\ TriedBucketOf[after[place[c][i]].service] = c
              /\ \A i, j \in 1 .. Len(place[c]) : place[c][i] = place[c][j] => i = j
<1>6. ASSUME NEW c \in TriedBuckets PROVE Right(c)
  <2>0. /\ Len(tried[c]) <= TriedBucketSize
        /\ \A i \in 1 .. Len(tried[c]) :
              /\ tried[c][i] \in DOMAIN info
              /\ info[tried[c][i]].fInTried /\ TriedBucketOf[info[tried[c][i]].service] = c
        /\ \A i, j \in 1 .. Len(tried[c]) : tried[c][i] = tried[c][j] => i = j
    BY DEF InPlace
  <2>1. CASE c = k
    <3>1. Len(place[k]) <= TriedBucketSize BY <1>2, <2>0, <2>1 DEF len
    <3>2. ASSUME NEW i \in 1 .. Len(place[k])
          PROVE  /\ place[k][i] \in DOMAIN after
                 /\ after[place[k][i]].fInTried
                 /\ TriedBucketOf[after[place[k][i]].service] = k
                 /\ i \in 1 .. len /\ (i # p => place[k][i] = list[i] /\ place[k][i] # nId)
      <4>0. i \in 1 .. len BY <1>2
      <4>1. CASE i = p BY <1>2, <4>0, <4>1
      <4>2. CASE i # p
        <5>1. place[k][i] = list[i] /\ list[i] # nOld BY <1>1, <1>2, <1>3, <4>0, <4>2
        <5>2. /\ list[i] \in DOMAIN info \ {nId} /\ info[list[i]].fInTried
              /\ TriedBucketOf[info[list[i]].service] = k
          BY <1>4, <4>0
        <5>. QED BY <4>0, <5>1, <5>2
      <4>. QED BY <4>1, <4>2
    <3>3. ASSUME NEW i \in 1 .. Len(place[k]), NEW j \in 1 .. Len(place[k]), place[k][i] = place[k][j]
          PROVE  i = j
      <4>1. CASE i # p /\ j # p
        <5>1. /\ i \in 1 .. len /\ place[k][i] = list[i]
              /\ j \in 1 .. len /\ place[k][j] = list[j]
          BY <3>2, <4>1
        <5>2. list[i] = list[j] BY <3>3, <5>1
        <5>. QED BY <1>1, <5>1, <5>2
      <4>2. CASE i = p /\ j # p
        <5>1. place[k][i] = nId BY <1>2, <4>2
        <5>2. place[k][j] # nId BY <3>2, <4>2
        <5>. QED BY <3>3, <5>1, <5>2
      <4>3. CASE i # p /\ j = p
        <5>1. place[k][j] = nId BY <1>2, <4>3
        <5>2. place[k][i] # nId BY <3>2, <4>3
        <5>. QED BY <3>3, <5>1, <5>2
      <4>4. CASE i = p /\ j = p BY <4>4
      <4>. QED BY <4>1, <4>2, <4>3, <4>4
    <3>4. \A i \in 1 .. Len(place[k]) :
             /\ place[k][i] \in DOMAIN after
             /\ after[place[k][i]].fInTried
             /\ TriedBucketOf[after[place[k][i]].service] = k
      BY <3>2
    <3>5. \A i, j \in 1 .. Len(place[k]) : place[k][i] = place[k][j] => i = j BY <3>3
    <3>6. Right(k) BY <3>1, <3>4, <3>5, Zenon
    <3>. HIDE DEF Right
    <3>. QED BY <2>1, <3>6
  <2>2. CASE c # k
    <3>1. place[c] = tried[c] BY <1>2, <2>2
    <3>3. ASSUME NEW i \in 1 .. Len(tried[c])
          PROVE  /\ tried[c][i] \in DOMAIN after /\ after[tried[c][i]].fInTried
                 /\ TriedBucketOf[after[tried[c][i]].service] = c
      <4>1. tried[c][i] \in DOMAIN info /\ tried[c][i] # nId /\ tried[c][i] # nOld
        BY <1>5, <2>0, <2>2
      <4>. QED BY <2>0, <4>1
    <3>. QED BY <2>0, <3>1, <3>3
  <2>. QED BY <2>1, <2>2
<1>7. ASSUME NEW j \in DOMAIN after, after[j].fInTried
      PROVE  LET c == TriedBucketOf[after[j].service]
             IN  \E i \in 1 .. Len(place[c]) : place[c][i] = j
  <2>1. CASE j = nId BY <1>2, <1>3, <2>1
  <2>2. CASE j # nId
    <3>. DEFINE c == TriedBucketOf[info[j].service]
    <3>0. j # nOld BY <1>7
    <3>1. info[j].fInTried /\ after[j].service = info[j].service BY <1>7, <2>2, <3>0
    <3>2. PICK i \in 1 .. Len(tried[c]) : tried[c][i] = j BY <3>1 DEF InPlace
    <3>3. CASE c = k
      <4>1. i \in 1 .. len BY <3>2, <3>3 DEF len
      <4>2. PICK h \in 1 .. len : list[h] = tried[k][i] BY <1>1, <4>1
      <4>3. list[h] = j /\ h # p BY <3>0, <3>2, <3>3, <4>2
      <4>4. h \in 1 .. Len(place[k]) /\ place[k][h] = j BY <1>2, <4>3
      <4>. QED BY <3>1, <3>3, <4>4
    <3>4. CASE c # k
      <4>1. place[c] = tried[c] BY <3>4
      <4>2. \E l \in 1 .. Len(place[c]) : place[c][l] = j BY <3>2, <4>1
      <4>. QED BY <3>1, <4>2
    <3>. QED BY <3>3, <3>4
  <2>. QED BY <2>1, <2>2
<1>8. InPlace(after, place) BY <1>6, <1>7 DEF InPlace
<1>. QED BY <1>8

-----------------------------------------------------------------------------
\* Good_ notes the time of the connection.
LEMMA FoundKeeps ==
    ASSUME NEW m, AtRest(m), NEW nId \in DOMAIN m.mapInfo, NEW nTime \in 1 .. MaxTime,
           NEW r, r = [m EXCEPT !.mapInfo[nId].nLastSuccess = nTime]
    PROVE  /\ AtRest(r) /\ DOMAIN r.mapInfo = DOMAIN m.mapInfo /\ r.vvNew = m.vvNew
           /\ r.mapInfo[nId].nLastSuccess # 0
           /\ \A j \in DOMAIN m.mapInfo : /\ r.mapInfo[j].service = m.mapInfo[j].service
                                          /\ r.mapInfo[j].fInTried = m.mapInfo[j].fInTried
<1>. DEFINE D == DOMAIN m.mapInfo
<1>1. /\ m \in Tables /\ Listed(m.mapInfo, m.vRandom) /\ Named(m.mapInfo, m.mapAddr)
      /\ InPlace(m.mapInfo, m.vvTried) /\ CountedIn(m.mapInfo, m.vvNew, -1)
      /\ Ranked(m.mapInfo, -1) /\ \A j \in D : j < m.nIdCount
      /\ m.nTried = Cardinality(TriedIn(m.mapInfo)) /\ m.nNew = Cardinality(NewIn(m.mapInfo))
  BY Zenon DEF AtRest, AtWork
<1>2. /\ r.mapInfo = [m.mapInfo EXCEPT ![nId].nLastSuccess = nTime]
      /\ r.nIdCount = m.nIdCount /\ r.mapAddr = m.mapAddr /\ r.vRandom = m.vRandom
      /\ r.nTried = m.nTried /\ r.vvTried = m.vvTried /\ r.nNew = m.nNew /\ r.vvNew = m.vvNew
  BY <1>1 DEF Tables
<1>3. m.mapInfo \in [D -> CAddrInfo] /\ D \in SUBSET Ids BY <1>1, TablesAre
<1>4. /\ DOMAIN r.mapInfo = D /\ r.mapInfo[nId].nLastSuccess = nTime
      /\ \A j \in D : /\ r.mapInfo[j].service = m.mapInfo[j].service
                      /\ r.mapInfo[j].nRandomPos = m.mapInfo[j].nRandomPos
                      /\ r.mapInfo[j].fInTried = m.mapInfo[j].fInTried
                      /\ r.mapInfo[j].nRefCount = m.mapInfo[j].nRefCount
                      /\ j # nId => r.mapInfo[j].nLastSuccess = m.mapInfo[j].nLastSuccess
  BY <1>2, <1>3 DEF CAddrInfo
<1>5. nTime # 0 /\ nTime \in 0 .. MaxTime BY AddrManAssumption
<1>6. r \in Tables
  <2>1. r.mapInfo \in [D -> CAddrInfo] BY <1>2, <1>3, <1>5 DEF CAddrInfo
  <2>2. r.mapInfo \in Infos BY <1>3, <2>1, InfosAre
  <2>3. r = [m EXCEPT !.mapInfo = r.mapInfo] BY <1>1 DEF Tables
  <2>. QED BY <1>1, <2>2, <2>3 DEF Tables
<1>7. CountedIn(r.mapInfo, r.vvNew, -1) BY <1>1, <1>2, <1>4 DEF CountedIn
<1>8. Ranked(r.mapInfo, -1)
  <2>1. ASSUME NEW j \in D
        PROVE  IF r.mapInfo[j].fInTried
               THEN r.mapInfo[j].nRefCount = 0 /\ r.mapInfo[j].nLastSuccess # 0
               ELSE r.mapInfo[j].nRefCount \in (IF j = -1 THEN 0 ELSE 1) .. BucketsPerAddress
    BY <1>1, <1>4, <1>5 DEF Ranked
  <2>. QED BY <1>4, <2>1 DEF Ranked
<1>9. /\ Listed(r.mapInfo, r.vRandom) /\ Named(r.mapInfo, r.mapAddr)
      /\ InPlace(r.mapInfo, r.vvTried)
      /\ TriedIn(r.mapInfo) = TriedIn(m.mapInfo) /\ NewIn(r.mapInfo) = NewIn(m.mapInfo)
  <2>. DEFINE info == m.mapInfo
              after == r.mapInfo
  <2>1. DOMAIN after = DOMAIN info BY <1>4
  <2>2. \A j \in DOMAIN info : /\ after[j].service = info[j].service
                               /\ after[j].nRandomPos = info[j].nRandomPos
                               /\ after[j].fInTried = info[j].fInTried
    BY <1>4
  <2>3. Listed(info, m.vRandom) /\ Named(info, m.mapAddr) /\ InPlace(info, m.vvTried) BY <1>1
  <2>. HIDE DEF info, after
  <2>4. /\ \A rand : Listed(info, rand) => Listed(after, rand)
        /\ \A addr : Named(info, addr) => Named(after, addr)
        /\ \A tried : InPlace(info, tried) => InPlace(after, tried)
        /\ TriedIn(after) = TriedIn(info) /\ NewIn(after) = NewIn(info)
    BY <2>1, <2>2, SameIndexes
  <2>5. Listed(after, m.vRandom) /\ Named(after, m.mapAddr) /\ InPlace(after, m.vvTried)
    BY <2>3, <2>4
  <2>. QED BY <1>2, <2>4, <2>5 DEF info, after
<1>10. AtRest(r) BY <1>1, <1>2, <1>4, <1>6, <1>7, <1>8, <1>9 DEF AtRest, AtWork
<1>. QED BY <1>2, <1>4, <1>5, <1>10

\* The entry is taken out of all its new buckets, and is tried.
Moved(m, nId) ==
    [m EXCEPT !.vvNew = [b \in NewBuckets |-> @[b] \ {nId}],
              !.mapInfo[nId] =
                  [m.mapInfo[nId] EXCEPT
                      !.nRefCount = m.mapInfo[nId].nRefCount - Cardinality(BucketsWith(m.vvNew, nId)),
                      !.fInTried = TRUE],
              !.nNew = @ - 1]

\* The entry nId is tried in the tables r, is in no new bucket, and is in its
\* tried bucket only when the move ends.
Departed(m, r, nId) ==
    /\ r \in Tables
    /\ r.nIdCount = m.nIdCount /\ r.mapAddr = m.mapAddr /\ r.vRandom = m.vRandom
    /\ r.nTried = m.nTried /\ r.vvTried = m.vvTried /\ r.nNew = m.nNew - 1
    /\ DOMAIN r.mapInfo = DOMAIN m.mapInfo
    /\ r.mapInfo[nId].fInTried = TRUE /\ r.mapInfo[nId].nRefCount = 0
    /\ \A j \in DOMAIN m.mapInfo :
          /\ r.mapInfo[j].service = m.mapInfo[j].service
          /\ r.mapInfo[j].nRandomPos = m.mapInfo[j].nRandomPos
          /\ r.mapInfo[j].nLastSuccess = m.mapInfo[j].nLastSuccess
          /\ j # nId => /\ r.mapInfo[j].fInTried = m.mapInfo[j].fInTried
                        /\ r.mapInfo[j].nRefCount = m.mapInfo[j].nRefCount
    /\ CountedIn(r.mapInfo, r.vvNew, -1)
    /\ \A j \in DOMAIN m.mapInfo : r.mapInfo[j].fInTried => BucketsWith(r.vvNew, j) = {}

\* MakeTried takes the entry out of every new bucket, and so its count becomes 0.
LEMMA MovedIs ==
    ASSUME NEW m, AtRest(m), NEW nId \in DOMAIN m.mapInfo, ~m.mapInfo[nId].fInTried,
           m.mapInfo[nId].nLastSuccess # 0
    PROVE  Departed(m, Moved(m, nId), nId)
<1>. DEFINE r == Moved(m, nId)
            D == DOMAIN m.mapInfo
            card == Cardinality(BucketsWith(m.vvNew, nId))
<1>1. /\ m \in Tables /\ CountedIn(m.mapInfo, m.vvNew, -1) /\ Ranked(m.mapInfo, -1)
  BY Zenon DEF AtRest, AtWork
<1>2. /\ m.mapInfo \in [D -> CAddrInfo] /\ D \in SUBSET Ids /\ m.nNew \in Int
      /\ m.vvNew \in [NewBuckets -> SUBSET Ids]
  BY <1>1, TablesAre
<1>3. \A j \in D : j # -1 BY <1>2 DEF Ids
<1>4. card \in Nat /\ m.mapInfo[nId].nRefCount - card = 0
  <2>1. card \in Nat BY BucketsFinite
  <2>2. m.mapInfo[nId].nRefCount = card + 0 BY <1>1, <1>3 DEF CountedIn
  <2>. QED BY <2>1, <2>2
<1>5. r = [m EXCEPT !.vvNew = [b \in NewBuckets |-> m.vvNew[b] \ {nId}],
                    !.mapInfo = [m.mapInfo EXCEPT ![nId] =
                        [m.mapInfo[nId] EXCEPT !.nRefCount = m.mapInfo[nId].nRefCount - card, !.fInTried = TRUE]],
                    !.nNew = m.nNew - 1]
  BY Zenon DEF Moved, BucketsWith
<1>. HIDE DEF r, card
<1>6. /\ r.nIdCount = m.nIdCount /\ r.mapAddr = m.mapAddr /\ r.vRandom = m.vRandom
      /\ r.nTried = m.nTried /\ r.vvTried = m.vvTried /\ r.nNew = m.nNew - 1
      /\ r.vvNew = [b \in NewBuckets |-> m.vvNew[b] \ {nId}]
      /\ r.mapInfo = [m.mapInfo EXCEPT ![nId] =
                        [m.mapInfo[nId] EXCEPT !.nRefCount = m.mapInfo[nId].nRefCount - card, !.fInTried = TRUE]]
      /\ r = [m EXCEPT !.vvNew = r.vvNew, !.mapInfo = r.mapInfo, !.nNew = r.nNew]
  BY <1>1, <1>5 DEF Tables
<1>7. /\ DOMAIN r.mapInfo = D
      /\ r.mapInfo[nId].fInTried = TRUE /\ r.mapInfo[nId].nRefCount = 0
      /\ \A j \in D : /\ r.mapInfo[j].service = m.mapInfo[j].service
                      /\ r.mapInfo[j].nRandomPos = m.mapInfo[j].nRandomPos
                      /\ r.mapInfo[j].nLastSuccess = m.mapInfo[j].nLastSuccess
                      /\ j # nId => /\ r.mapInfo[j].fInTried = m.mapInfo[j].fInTried
                                    /\ r.mapInfo[j].nRefCount = m.mapInfo[j].nRefCount
      /\ r.mapInfo \in [D -> CAddrInfo]
  <2>. DEFINE e == [m.mapInfo[nId] EXCEPT !.nRefCount = m.mapInfo[nId].nRefCount - card, !.fInTried = TRUE]
  <2>1. m.mapInfo[nId] \in CAddrInfo BY <1>2
  <2>1a. e = [m.mapInfo[nId] EXCEPT !.nRefCount = 0, !.fInTried = TRUE] BY <1>4
  <2>. HIDE DEF e
  <2>2. /\ e \in CAddrInfo /\ e.service = m.mapInfo[nId].service
        /\ e.nRandomPos = m.mapInfo[nId].nRandomPos /\ e.nLastSuccess = m.mapInfo[nId].nLastSuccess
        /\ e.fInTried = TRUE /\ e.nRefCount = 0
    BY <2>1, <2>1a DEF CAddrInfo
  <2>3. r.mapInfo = [m.mapInfo EXCEPT ![nId] = e] BY <1>6 DEF e
  <2>. QED BY <1>2, <2>2, <2>3
<1>8. r \in Tables
  <2>1. r.mapInfo \in Infos BY <1>2, <1>7, InfosAre
  <2>2. r.vvNew \in [NewBuckets -> SUBSET Ids] BY <1>2, <1>6
  <2>3. r.nNew \in Int BY <1>2, <1>6
  <2>. QED BY <1>1, <1>6, <2>1, <2>2, <2>3 DEF Tables
<1>9. /\ BucketsWith(r.vvNew, nId) = {}
      /\ \A j \in D : j # nId => BucketsWith(r.vvNew, j) = BucketsWith(m.vvNew, j)
  BY <1>6 DEF BucketsWith
<1>10. CountedIn(r.mapInfo, r.vvNew, -1)
  <2>1. ASSUME NEW j \in D
        PROVE  r.mapInfo[j].nRefCount
                   = Cardinality(BucketsWith(r.vvNew, j)) + (IF j = -1 THEN 1 ELSE 0)
    <3>1. CASE j = nId
      <4>1. Cardinality(BucketsWith(r.vvNew, j)) = 0 BY <1>9, <3>1, FS_EmptySet
      <4>. QED BY <1>3, <1>7, <3>1, <4>1
    <3>2. CASE j # nId BY <1>1, <1>7, <1>9, <3>2 DEF CountedIn
    <3>. QED BY <3>1, <3>2
  <2>2. ASSUME NEW c \in NewBuckets PROVE r.vvNew[c] \subseteq D
    <3>1. m.vvNew[c] \subseteq D BY <1>1 DEF CountedIn
    <3>. QED BY <1>6, <3>1
  <2>. QED BY <1>7, <2>1, <2>2 DEF CountedIn
<1>11. ASSUME NEW j \in D, r.mapInfo[j].fInTried PROVE BucketsWith(r.vvNew, j) = {}
  <2>1. CASE j = nId BY <1>9, <2>1
  <2>2. CASE j # nId
    <3>1. m.mapInfo[j].nRefCount = 0 BY <1>1, <1>7, <1>11, <2>2 DEF Ranked
    <3>2. m.mapInfo[j].nRefCount = Cardinality(BucketsWith(m.vvNew, j)) + 0
      BY <1>1, <1>3 DEF CountedIn
    <3>3. IsFiniteSet(BucketsWith(m.vvNew, j)) /\ Cardinality(BucketsWith(m.vvNew, j)) \in Nat
      BY BucketsFinite
    <3>4. BucketsWith(m.vvNew, j) = {} BY <3>1, <3>2, <3>3, FS_EmptySet
    <3>. QED BY <1>9, <2>2, <3>4
  <2>. QED BY <2>1, <2>2
<1>. QED BY <1>6, <1>7, <1>8, <1>10, <1>11 DEF r, Departed

-----------------------------------------------------------------------------
\* The indexes that do not depend on the tables an entry is in.
LEMMA SamePositions ==
    ASSUME NEW info, NEW after, DOMAIN after = DOMAIN info,
           \A j \in DOMAIN info : /\ after[j].service = info[j].service
                                  /\ after[j].nRandomPos = info[j].nRandomPos
    PROVE  /\ \A rand : Listed(info, rand) => Listed(after, rand)
           /\ \A addr : Named(info, addr) => Named(after, addr)
<1>1. ASSUME NEW rand, Listed(info, rand) PROVE Listed(after, rand) BY <1>1 DEF Listed
<1>2. ASSUME NEW addr, Named(info, addr) PROVE Named(after, addr) BY <1>2 DEF Named
<1>. QED BY <1>1, <1>2

\* The move ends in a tried bucket that has room.
Ended(w, k, nId) == [w EXCEPT !.vvTried[k] = Append(@, nId), !.nTried = @ + 1]

\* With room in its tried bucket the promotion ends there.
LEMMA EndKeeps ==
    ASSUME NEW m, AtRest(m), NEW nId \in DOMAIN m.mapInfo, ~m.mapInfo[nId].fInTried,
           m.mapInfo[nId].nLastSuccess # 0, NEW w, Departed(m, w, nId),
           NEW k \in TriedBuckets, k = TriedBucketOf[m.mapInfo[nId].service],
           Len(m.vvTried[k]) < TriedBucketSize
    PROVE  AtRest(Ended(w, k, nId)) /\ Promoted(m, Ended(w, k, nId), nId)
<1>. DEFINE r == Ended(w, k, nId)
            D == DOMAIN m.mapInfo
<1>1. /\ m \in Tables /\ Listed(m.mapInfo, m.vRandom) /\ Named(m.mapInfo, m.mapAddr)
      /\ InPlace(m.mapInfo, m.vvTried)
      /\ Ranked(m.mapInfo, -1) /\ \A j \in D : j < m.nIdCount
      /\ m.nTried = Cardinality(TriedIn(m.mapInfo)) /\ m.nNew = Cardinality(NewIn(m.mapInfo))
  BY Zenon DEF AtRest, AtWork
<1>2. /\ w \in Tables
      /\ w.nIdCount = m.nIdCount /\ w.mapAddr = m.mapAddr /\ w.vRandom = m.vRandom
      /\ w.nTried = m.nTried /\ w.vvTried = m.vvTried /\ w.nNew = m.nNew - 1
      /\ DOMAIN w.mapInfo = D
      /\ w.mapInfo[nId].fInTried = TRUE /\ w.mapInfo[nId].nRefCount = 0
      /\ \A j \in D : /\ w.mapInfo[j].service = m.mapInfo[j].service
                      /\ w.mapInfo[j].nRandomPos = m.mapInfo[j].nRandomPos
                      /\ w.mapInfo[j].nLastSuccess = m.mapInfo[j].nLastSuccess
                      /\ j # nId => /\ w.mapInfo[j].fInTried = m.mapInfo[j].fInTried
                                    /\ w.mapInfo[j].nRefCount = m.mapInfo[j].nRefCount
      /\ CountedIn(w.mapInfo, w.vvNew, -1)
  BY Zenon DEF Departed
<1>3. /\ m.mapInfo \in [D -> CAddrInfo] /\ D \in SUBSET Ids /\ m.nTried \in Int
      /\ m.vvTried \in [TriedBuckets -> Seq(Ids)]
  BY <1>1, TablesAre
<1>4. m.mapInfo \in Infos BY <1>3, InfosAre
<1>5. /\ r.mapInfo = w.mapInfo /\ r.nIdCount = w.nIdCount /\ r.mapAddr = w.mapAddr
      /\ r.vRandom = w.vRandom /\ r.nTried = w.nTried + 1 /\ r.nNew = w.nNew /\ r.vvNew = w.vvNew
      /\ r.vvTried = [w.vvTried EXCEPT ![k] = Append(@, nId)]
  BY <1>2 DEF Ended, Tables
<1>5a. r = [w EXCEPT !.vvTried = r.vvTried, !.nTried = r.nTried] BY <1>2 DEF Ended, Tables
<1>. HIDE DEF r
<1>5b. /\ r.mapAddr = m.mapAddr /\ r.vRandom = m.vRandom /\ r.nTried = m.nTried + 1
       /\ r.nNew = m.nNew - 1 /\ r.nIdCount = m.nIdCount
       /\ r.vvTried = [m.vvTried EXCEPT ![k] = Append(@, nId)]
       /\ DOMAIN r.mapInfo = D /\ r.mapInfo[nId].fInTried /\ r.mapInfo[nId].nRefCount = 0
       /\ r.mapInfo[nId].nLastSuccess # 0
       /\ \A j \in D : /\ r.mapInfo[j].service = m.mapInfo[j].service
                       /\ r.mapInfo[j].nRandomPos = m.mapInfo[j].nRandomPos
       /\ \A j \in D : j # nId => /\ r.mapInfo[j].fInTried = m.mapInfo[j].fInTried
                                  /\ r.mapInfo[j].nRefCount = m.mapInfo[j].nRefCount
                                  /\ r.mapInfo[j].nLastSuccess = m.mapInfo[j].nLastSuccess
  BY <1>2, <1>5
<1>6. r \in Tables
  <2>1. r.vvTried \in [TriedBuckets -> Seq(Ids)]
    <3>1. nId \in Ids /\ m.vvTried[k] \in Seq(Ids) BY <1>3
    <3>2. Append(m.vvTried[k], nId) \in Seq(Ids)
      <4>. DEFINE tried == m.vvTried[k]
      <4>1. tried \in Seq(Ids) /\ nId \in Ids BY <3>1
      <4>. HIDE DEF tried
      <4>2. Append(tried, nId) \in Seq(Ids) BY <4>1, AppendProperties
      <4>. QED BY <4>2 DEF tried
    <3>. QED BY <1>3, <1>5b, <3>2
  <2>2. r.nTried \in Int BY <1>3, <1>5b
  <2>. QED BY <1>2, <1>5a, <2>1, <2>2 DEF Tables
<1>7. Listed(r.mapInfo, r.vRandom) /\ Named(r.mapInfo, r.mapAddr)
  <2>. DEFINE info == m.mapInfo
              after == r.mapInfo
  <2>1. /\ DOMAIN after = DOMAIN info
        /\ \A j \in DOMAIN info : /\ after[j].service = info[j].service
                                  /\ after[j].nRandomPos = info[j].nRandomPos
        /\ Listed(info, m.vRandom) /\ Named(info, m.mapAddr)
    BY <1>1, <1>5b
  <2>. HIDE DEF info, after
  <2>2. Listed(after, m.vRandom) /\ Named(after, m.mapAddr) BY <2>1, SamePositions
  <2>. QED BY <1>5b, <2>2 DEF after
<1>8. InPlace(r.mapInfo, r.vvTried)
  <2>. DEFINE info == m.mapInfo
              after == w.mapInfo
              tried == m.vvTried
  <2>1. /\ DOMAIN after = DOMAIN info /\ InPlace(info, tried) /\ nId \in DOMAIN info /\ nId \in Ids
        /\ ~info[nId].fInTried /\ after[nId].fInTried
        /\ tried \in [TriedBuckets -> Seq(Ids)]
        /\ \A j \in DOMAIN info : /\ after[j].service = info[j].service
                                  /\ j # nId => after[j].fInTried = info[j].fInTried
        /\ k = TriedBucketOf[info[nId].service] /\ Len(tried[k]) < TriedBucketSize
    BY <1>1, <1>2, <1>3, <1>5b
  <2>. HIDE DEF info, after, tried
  <2>2. InPlace(after, [tried EXCEPT ![k] = Append(@, nId)]) BY <2>1, PlacedLast
  <2>3. r.mapInfo = after /\ r.vvTried = [tried EXCEPT ![k] = Append(@, nId)]
    BY <1>2, <1>5 DEF after, tried
  <2>. QED BY <2>2, <2>3
<1>9. CountedIn(r.mapInfo, r.vvNew, -1) BY <1>2, <1>5
<1>10. Ranked(r.mapInfo, -1)
  <2>1. ASSUME NEW j \in D
        PROVE  IF r.mapInfo[j].fInTried
               THEN r.mapInfo[j].nRefCount = 0 /\ r.mapInfo[j].nLastSuccess # 0
               ELSE r.mapInfo[j].nRefCount \in (IF j = -1 THEN 0 ELSE 1) .. BucketsPerAddress
    <3>1. CASE j = nId BY <1>5b, <3>1
    <3>2. CASE j # nId BY <1>1, <1>5b, <3>2 DEF Ranked
    <3>. QED BY <3>1, <3>2
  <2>. QED BY <1>5b, <2>1 DEF Ranked
<1>11. r.nTried = Cardinality(TriedIn(r.mapInfo)) /\ r.nNew = Cardinality(NewIn(r.mapInfo))
  <2>1. TriedIn(r.mapInfo) = TriedIn(m.mapInfo) \union {nId} /\ nId \notin TriedIn(m.mapInfo)
    BY <1>5b DEF TriedIn
  <2>2. NewIn(r.mapInfo) = NewIn(m.mapInfo) \ {nId} /\ nId \in NewIn(m.mapInfo)
    BY <1>5b DEF NewIn
  <2>3. IsFiniteSet(TriedIn(m.mapInfo)) /\ IsFiniteSet(NewIn(m.mapInfo)) BY <1>4, PartsFinite
  <2>4. Cardinality(TriedIn(m.mapInfo) \union {nId}) = Cardinality(TriedIn(m.mapInfo)) + 1
    BY <2>1, <2>3, OneMore
  <2>5. Cardinality(NewIn(m.mapInfo) \ {nId}) = Cardinality(NewIn(m.mapInfo)) - 1
    BY <2>2, <2>3, OneLess
  <2>. QED BY <1>1, <1>5b, <2>1, <2>2, <2>4, <2>5
<1>12. \A j \in DOMAIN r.mapInfo : j < r.nIdCount BY <1>1, <1>5b
<1>13. AtRest(r)
  BY <1>6, <1>7, <1>8, <1>9, <1>10, <1>11, <1>12 DEF AtRest, AtWork
<1>14. Promoted(m, r, nId) BY <1>5b DEF Promoted
<1>. QED BY <1>13, <1>14 DEF r

\* The move ends in the place of another entry, which goes to the new bucket b.
WithPlaceOf(w, k, list, p, nId, b) ==
    [w EXCEPT !.mapInfo[list[p]] = [w.mapInfo[list[p]] EXCEPT !.fInTried = FALSE, !.nRefCount = 1],
              !.vvNew[b] = @ \union {list[p]},
              !.nNew = @ + 1,
              !.vvTried[k] = [list EXCEPT ![p] = nId]]

\* In a full bucket the promoted entry takes the place of one that is new again.
LEMMA ExchangeKeeps ==
    ASSUME NEW m, AtRest(m), NEW nId \in DOMAIN m.mapInfo, ~m.mapInfo[nId].fInTried,
           m.mapInfo[nId].nLastSuccess # 0, NEW w, Departed(m, w, nId),
           NEW k \in TriedBuckets, k = TriedBucketOf[m.mapInfo[nId].service],
           NEW list \in Seq(Ids), Rearranged(list, m.vvTried[k]), NEW p \in 1 .. Len(list),
           NEW b \in NewBuckets
    PROVE  /\ AtRest(WithPlaceOf(w, k, list, p, nId, b))
           /\ Promoted(m, WithPlaceOf(w, k, list, p, nId, b), nId)
<1>. DEFINE r == WithPlaceOf(w, k, list, p, nId, b)
            D == DOMAIN m.mapInfo
            nOld == list[p]
<1>1. /\ m \in Tables /\ Listed(m.mapInfo, m.vRandom) /\ Named(m.mapInfo, m.mapAddr)
      /\ InPlace(m.mapInfo, m.vvTried)
      /\ Ranked(m.mapInfo, -1) /\ \A j \in D : j < m.nIdCount
      /\ m.nTried = Cardinality(TriedIn(m.mapInfo)) /\ m.nNew = Cardinality(NewIn(m.mapInfo))
  BY Zenon DEF AtRest, AtWork
<1>2. /\ w \in Tables
      /\ w.nIdCount = m.nIdCount /\ w.mapAddr = m.mapAddr /\ w.vRandom = m.vRandom
      /\ w.nTried = m.nTried /\ w.vvTried = m.vvTried /\ w.nNew = m.nNew - 1
      /\ DOMAIN w.mapInfo = D
      /\ w.mapInfo[nId].fInTried = TRUE /\ w.mapInfo[nId].nRefCount = 0
      /\ \A j \in D : /\ w.mapInfo[j].service = m.mapInfo[j].service
                      /\ w.mapInfo[j].nRandomPos = m.mapInfo[j].nRandomPos
                      /\ w.mapInfo[j].nLastSuccess = m.mapInfo[j].nLastSuccess
                      /\ j # nId => /\ w.mapInfo[j].fInTried = m.mapInfo[j].fInTried
                                    /\ w.mapInfo[j].nRefCount = m.mapInfo[j].nRefCount
      /\ CountedIn(w.mapInfo, w.vvNew, -1)
      /\ \A j \in D : w.mapInfo[j].fInTried => BucketsWith(w.vvNew, j) = {}
  BY Zenon DEF Departed
<1>3. /\ m.mapInfo \in [D -> CAddrInfo] /\ D \in SUBSET Ids /\ m.nNew \in Int /\ m.nTried \in Int
      /\ m.vvTried \in [TriedBuckets -> Seq(Ids)]
      /\ w.mapInfo \in [D -> CAddrInfo] /\ w.vvNew \in [NewBuckets -> SUBSET Ids]
  <2>1. /\ m.mapInfo \in [D -> CAddrInfo] /\ D \in SUBSET Ids /\ m.nNew \in Int /\ m.nTried \in Int
        /\ m.vvTried \in [TriedBuckets -> Seq(Ids)]
    BY <1>1, TablesAre
  <2>2. /\ w.mapInfo \in [DOMAIN w.mapInfo -> CAddrInfo] /\ w.vvNew \in [NewBuckets -> SUBSET Ids]
    BY <1>2, TablesAre
  <2>. QED BY <1>2, <2>1, <2>2
<1>4. m.mapInfo \in Infos BY <1>3, InfosAre
<1>5. nOld \in D /\ m.mapInfo[nOld].fInTried /\ nOld # nId
  <2>1. PICK j \in 1 .. Len(m.vvTried[k]) : nOld = m.vvTried[k][j] BY DEF Rearranged
  <2>2. m.vvTried[k][j] \in D /\ m.mapInfo[m.vvTried[k][j]].fInTried BY <1>1, <2>1 DEF InPlace
  <2>. QED BY <2>1, <2>2
<1>. DEFINE e == [w.mapInfo[nOld] EXCEPT !.fInTried = FALSE, !.nRefCount = 1]
<1>6a. /\ r.mapInfo = [w.mapInfo EXCEPT ![nOld] = e]
       /\ r.nIdCount = w.nIdCount /\ r.mapAddr = w.mapAddr
       /\ r.vRandom = w.vRandom /\ r.nTried = w.nTried /\ r.nNew = w.nNew + 1
       /\ r.vvNew = [w.vvNew EXCEPT ![b] = @ \union {nOld}]
       /\ r.vvTried = [w.vvTried EXCEPT ![k] = [list EXCEPT ![p] = nId]]
       /\ r = [w EXCEPT !.mapInfo = r.mapInfo, !.vvNew = r.vvNew, !.nNew = r.nNew, !.vvTried = r.vvTried]
  <2>. HIDE DEF e
  <2>. QED BY <1>2 DEF WithPlaceOf, Tables, e
<1>6. /\ r.mapInfo = [w.mapInfo EXCEPT ![nOld] = e]
      /\ r.nIdCount = w.nIdCount /\ r.mapAddr = w.mapAddr
      /\ r.vRandom = w.vRandom /\ r.nTried = w.nTried /\ r.nNew = w.nNew + 1
      /\ r.vvNew = [w.vvNew EXCEPT ![b] = @ \union {nOld}]
      /\ r.vvTried = [w.vvTried EXCEPT ![k] = [list EXCEPT ![p] = nId]]
  <2>. HIDE DEF e, r, nOld
  <2>. QED BY <1>6a, Zenon
<1>7. /\ e \in CAddrInfo /\ e.service = w.mapInfo[nOld].service
      /\ e.nRandomPos = w.mapInfo[nOld].nRandomPos /\ e.fInTried = FALSE /\ e.nRefCount = 1
  <2>1. w.mapInfo[nOld] \in CAddrInfo BY <1>3, <1>5
  <2>. QED BY <2>1 DEF CAddrInfo
<1>. HIDE DEF r, e, nOld
<1>8. /\ DOMAIN r.mapInfo = D /\ r.mapInfo \in [D -> CAddrInfo]
      /\ r.mapInfo[nOld].fInTried = FALSE /\ r.mapInfo[nOld].nRefCount = 1
      /\ \A j \in D : j # nOld => r.mapInfo[j] = w.mapInfo[j]
      /\ \A j \in D : /\ r.mapInfo[j].service = m.mapInfo[j].service
                      /\ r.mapInfo[j].nRandomPos = m.mapInfo[j].nRandomPos
  <2>0. r.mapInfo = [w.mapInfo EXCEPT ![nOld] = e] BY <1>6
  <2>1. /\ DOMAIN r.mapInfo = D /\ r.mapInfo \in [D -> CAddrInfo] /\ r.mapInfo[nOld] = e
        /\ \A j \in D : j # nOld => r.mapInfo[j] = w.mapInfo[j]
    BY <1>3, <1>5, <1>7, <2>0
  <2>2. ASSUME NEW j \in D
        PROVE  /\ r.mapInfo[j].service = m.mapInfo[j].service
               /\ r.mapInfo[j].nRandomPos = m.mapInfo[j].nRandomPos
    <3>1. /\ w.mapInfo[j].service = m.mapInfo[j].service
          /\ w.mapInfo[j].nRandomPos = m.mapInfo[j].nRandomPos
      BY <1>2
    <3>2. CASE j = nOld BY <1>7, <2>1, <3>1, <3>2
    <3>3. CASE j # nOld BY <2>1, <3>1, <3>3
    <3>. QED BY <3>2, <3>3
  <2>. QED BY <1>7, <2>1, <2>2
<1>8a. /\ r.mapInfo[nId].fInTried /\ r.mapInfo[nId].nRefCount = 0 /\ r.mapInfo[nId].nLastSuccess # 0
       /\ \A j \in D : j # nOld /\ j # nId =>
            /\ r.mapInfo[j].fInTried = m.mapInfo[j].fInTried
            /\ r.mapInfo[j].nRefCount = m.mapInfo[j].nRefCount
            /\ r.mapInfo[j].nLastSuccess = m.mapInfo[j].nLastSuccess
  BY <1>2, <1>5, <1>8
<1>9. r \in Tables
  <2>1. r.mapInfo \in Infos BY <1>3, <1>8, InfosAre
  <2>2. nId \in Ids /\ nOld \in Ids BY <1>3, <1>5
  <2>3. r.vvNew \in [NewBuckets -> SUBSET Ids] BY <1>3, <1>6, <2>2
  <2>4. [list EXCEPT ![p] = nId] \in Seq(Ids)
    <3>1. nId \in Ids /\ list \in Seq(Ids) /\ p \in 1 .. Len(list) BY <2>2
    <3>. QED BY <3>1, ExceptSeq
  <2>5. r.vvTried \in [TriedBuckets -> Seq(Ids)]
    <3>. DEFINE new == [list EXCEPT ![p] = nId]
    <3>1. /\ m.vvTried \in [TriedBuckets -> Seq(Ids)] /\ new \in Seq(Ids)
          /\ r.vvTried = [m.vvTried EXCEPT ![k] = new]
      BY <1>2, <1>3, <1>6, <2>4
    <3>. HIDE DEF new
    <3>. QED BY <3>1
  <2>6. r.nNew \in Int
    <3>1. r.nNew = (m.nNew - 1) + 1 /\ m.nNew \in Int BY <1>2, <1>3, <1>6
    <3>. QED BY <3>1
  <2>. QED BY <1>2, <1>6a, <2>1, <2>3, <2>5, <2>6 DEF Tables
<1>10. Listed(r.mapInfo, r.vRandom) /\ Named(r.mapInfo, r.mapAddr)
  <2>. DEFINE info == m.mapInfo
              after == r.mapInfo
  <2>1. /\ DOMAIN after = DOMAIN info
        /\ \A j \in DOMAIN info : /\ after[j].service = info[j].service
                                  /\ after[j].nRandomPos = info[j].nRandomPos
        /\ Listed(info, m.vRandom) /\ Named(info, m.mapAddr)
    BY <1>1, <1>8
  <2>. HIDE DEF info, after
  <2>2. Listed(after, m.vRandom) /\ Named(after, m.mapAddr) BY <2>1, SamePositions
  <2>. QED BY <1>2, <1>6, <2>2 DEF after
<1>11. InPlace(r.mapInfo, r.vvTried)
  <2>. DEFINE info == m.mapInfo
              after == r.mapInfo
              tried == m.vvTried
  <2>1. /\ DOMAIN after = DOMAIN info
        /\ InPlace(info, tried)
        /\ nId \in DOMAIN info
        /\ nId \in Ids
    BY <1>1, <1>3, <1>8
  <2>1a. ~info[nId].fInTried /\ after[nId].fInTried /\ ~after[list[p]].fInTried
    BY <1>8, <1>8a DEF nOld
  <2>1b. tried \in [TriedBuckets -> Seq(Ids)] /\ Rearranged(list, tried[k])
    BY <1>3
  <2>1c. \A j \in DOMAIN info :
              /\ after[j].service = info[j].service
              /\ j # nId /\ j # list[p] => after[j].fInTried = info[j].fInTried
    BY <1>8, <1>8a DEF nOld
  <2>1d. k = TriedBucketOf[info[nId].service] /\ list \in Seq(Ids) /\ p \in 1 .. Len(list)
    OBVIOUS
  <2>. HIDE DEF info, after, tried
  <2>2. r.vvTried = [tried EXCEPT ![k] = [list EXCEPT ![p] = nId]] BY <1>2, <1>6 DEF tried
  <2>. DEFINE place == r.vvTried
  <2>. HIDE DEF place
  <2>3. place = [tried EXCEPT ![k] = [list EXCEPT ![p] = nId]] BY <2>2 DEF place
  <2>4. Supersedes(info, after, tried, place, nId, k, list, p)
    BY <2>1, <2>1a, <2>1b, <2>1c, <2>1d, <2>3, Zenon DEF Supersedes
  <2>5. InPlace(after, place) BY <2>4, PlacedInstead, Zenon
  <2>. QED BY <2>5 DEF after, place
<1>11a. /\ r.vvNew[b] = w.vvNew[b] \union {nOld}
        /\ \A c \in NewBuckets : c # b => r.vvNew[c] = w.vvNew[c]
  <2>1. w.vvNew \in [NewBuckets -> SUBSET Ids] /\ r.vvNew = [w.vvNew EXCEPT ![b] = @ \union {nOld}]
    BY <1>3, <1>6
  <2>. QED BY <2>1
<1>12. CountedIn(r.mapInfo, r.vvNew, -1)
  <2>1. BucketsWith(r.vvNew, nOld) = {b}
    <3>1. BucketsWith(w.vvNew, nOld) = {} BY <1>2, <1>5
    <3>. QED BY <1>11a, <3>1 DEF BucketsWith
  <2>2. \A j \in D : j # nOld => BucketsWith(r.vvNew, j) = BucketsWith(w.vvNew, j)
    BY <1>11a DEF BucketsWith
  <2>3. ASSUME NEW j \in D
        PROVE  r.mapInfo[j].nRefCount
                   = Cardinality(BucketsWith(r.vvNew, j)) + (IF j = -1 THEN 1 ELSE 0)
    <3>1. j # -1 BY <1>3 DEF Ids
    <3>2. CASE j = nOld
      <4>1. Cardinality(BucketsWith(r.vvNew, nOld)) = 1 BY <2>1, FS_Singleton
      <4>. QED BY <1>8, <3>1, <3>2, <4>1
    <3>3. CASE j # nOld BY <1>2, <1>8, <2>2, <3>3 DEF CountedIn
    <3>. QED BY <3>2, <3>3
  <2>4. ASSUME NEW c \in NewBuckets PROVE r.vvNew[c] \subseteq D
    <3>1. w.vvNew[c] \subseteq D BY <1>2 DEF CountedIn
    <3>2. CASE c = b BY <1>5, <1>11a, <3>1, <3>2
    <3>3. CASE c # b BY <1>11a, <3>1, <3>3
    <3>. QED BY <3>2, <3>3
  <2>. QED BY <1>8, <2>3, <2>4 DEF CountedIn
<1>13. Ranked(r.mapInfo, -1)
  <2>1. ASSUME NEW j \in D
        PROVE  IF r.mapInfo[j].fInTried
               THEN r.mapInfo[j].nRefCount = 0 /\ r.mapInfo[j].nLastSuccess # 0
               ELSE r.mapInfo[j].nRefCount \in (IF j = -1 THEN 0 ELSE 1) .. BucketsPerAddress
    <3>0. j # -1 BY <1>3 DEF Ids
    <3>1. CASE j = nId BY <1>8a, <3>1
    <3>2. CASE j = nOld
      <4>1. r.mapInfo[j].nRefCount \in 1 .. BucketsPerAddress BY <1>8, <3>2, AddrManAssumption
      <4>. QED BY <1>8, <3>0, <3>2, <4>1
    <3>3. CASE j # nId /\ j # nOld BY <1>1, <1>8a, <3>3 DEF Ranked
    <3>. QED BY <3>1, <3>2, <3>3
  <2>. QED BY <1>8, <2>1 DEF Ranked
<1>14. r.nTried = Cardinality(TriedIn(r.mapInfo)) /\ r.nNew = Cardinality(NewIn(r.mapInfo))
  <2>. DEFINE T == TriedIn(m.mapInfo)
              N == NewIn(m.mapInfo)
  <2>1. TriedIn(r.mapInfo) = (T \ {nOld}) \union {nId} /\ nOld \in T /\ nId \notin T \ {nOld}
    BY <1>5, <1>8, <1>8a DEF TriedIn
  <2>2. NewIn(r.mapInfo) = (N \ {nId}) \union {nOld} /\ nId \in N /\ nOld \notin N \ {nId}
    BY <1>5, <1>8, <1>8a DEF NewIn
  <2>3. IsFiniteSet(T) /\ Cardinality(T) \in Nat /\ IsFiniteSet(N) /\ Cardinality(N) \in Nat
    BY <1>4, PartsFinite
  <2>. HIDE DEF T, N
  <2>4. IsFiniteSet(T \ {nOld}) /\ Cardinality(T \ {nOld}) = Cardinality(T) - 1 BY <2>1, <2>3, OneLess
  <2>5. Cardinality((T \ {nOld}) \union {nId}) = Cardinality(T \ {nOld}) + 1 BY <2>1, <2>4, OneMore
  <2>6. IsFiniteSet(N \ {nId}) /\ Cardinality(N \ {nId}) = Cardinality(N) - 1 BY <2>2, <2>3, OneLess
  <2>7. Cardinality((N \ {nId}) \union {nOld}) = Cardinality(N \ {nId}) + 1 BY <2>2, <2>6, OneMore
  <2>8. Cardinality(TriedIn(r.mapInfo)) = Cardinality(T) /\ Cardinality(NewIn(r.mapInfo)) = Cardinality(N)
    BY <2>1, <2>2, <2>3, <2>4, <2>5, <2>6, <2>7
  <2>9. r.nTried = m.nTried /\ r.nNew = m.nNew
    <3>1. /\ r.nTried = m.nTried /\ r.nNew = (m.nNew - 1) + 1
          /\ m.nNew \in Int /\ m.nTried \in Int
      BY <1>2, <1>3, <1>6
    <3>. QED BY <3>1
  <2>. QED BY <1>1, <2>8, <2>9 DEF T, N
<1>15. \A j \in DOMAIN r.mapInfo : j < r.nIdCount BY <1>1, <1>2, <1>6, <1>8
<1>16. AtRest(r)
  BY <1>9, <1>10, <1>11, <1>12, <1>13, <1>14, <1>15 DEF AtRest, AtWork
<1>17. Promoted(m, r, nId) BY <1>5, <1>8, <1>8a DEF Promoted
<1>. QED BY <1>16, <1>17 DEF r

\* MakeTried.
LEMMA MakeTriedKeeps ==
    ASSUME NEW m, AtRest(m), NEW nId \in DOMAIN m.mapInfo, ~m.mapInfo[nId].fInTried,
           m.mapInfo[nId].nLastSuccess # 0, NEW nOrigin \in NewBuckets,
           NEW r \in MakeTried(m, nId, nOrigin)
    PROVE  AtRest(r) /\ Promoted(m, r, nId)
<1>. DEFINE w == Moved(m, nId)
            k == TriedBucketOf[m.mapInfo[nId].service]
            len == Len(m.vvTried[k])
            n == Smaller(TriedInspect, len)
<1>1. m \in Tables /\ InPlace(m.mapInfo, m.vvTried) BY Zenon DEF AtRest, AtWork
<1>2. /\ m.mapInfo \in [DOMAIN m.mapInfo -> CAddrInfo] /\ m.vvTried \in [TriedBuckets -> Seq(Ids)]
  BY <1>1, TablesAre
<1>3. k \in TriedBuckets
  <2>1. m.mapInfo[nId] \in CAddrInfo BY <1>2
  <2>. QED BY <2>1, AddrManAssumption DEF CAddrInfo
<1>4. len \in Nat
  <2>1. m.vvTried[k] \in Seq(Ids) BY <1>2, <1>3
  <2>. QED BY <2>1, LenProperties
<1>5. Departed(m, w, nId) BY MovedIs
<1>6. \/ len < TriedBucketSize /\ r = Ended(w, k, nId)
      \/ ~(len < TriedBucketSize) /\ \E pick \in Picks(n, len) :
              r = Evict(w, k, SelectTried(m, k, pick), nId, nOrigin)
  BY Zenon DEF MakeTried, Moved, Ended, BucketsWith
<1>. HIDE DEF w, k
<1>7. CASE len < TriedBucketSize /\ r = Ended(w, k, nId)
  <2>1. AtRest(Ended(w, k, nId)) /\ Promoted(m, Ended(w, k, nId), nId)
    BY <1>3, <1>5, <1>7, EndKeeps DEF k
  <2>. QED BY <1>7, <2>1
<1>8. CASE /\ ~(len < TriedBucketSize)
           /\ \E pick \in Picks(n, len) : r = Evict(w, k, SelectTried(m, k, pick), nId, nOrigin)
  <2>1. PICK pick \in Picks(n, len) : r = Evict(w, k, SelectTried(m, k, pick), nId, nOrigin) BY <1>8
  <2>. DEFINE list == SelectTried(m, k, pick).vTried
              p == SelectTried(m, k, pick).nOldestPos
              home == NewBucketOf[w.mapInfo[list[p]].service, w.mapInfo[list[p]].source]
              b == IF Cardinality(w.vvNew[home]) < NewBucketSize THEN home ELSE nOrigin
  <2>2. n \in Nat \ {0} BY <1>4, <1>8, AddrManAssumption DEF Smaller
  <2>3. \A i, j \in 1 .. len : m.vvTried[k][i] = m.vvTried[k][j] => i = j BY <1>1, <1>3 DEF InPlace
  <2>4. list \in Seq(Ids) /\ Rearranged(list, m.vvTried[k]) /\ p \in 1 .. len
    BY <1>1, <1>3, <2>2, <2>3, SelectIs
  <2>5. r = WithPlaceOf(w, k, list, p, nId, b)
    BY <2>1, Zenon DEF Evict, WithPlaceOf
  <2>. HIDE DEF list, p
  <2>6. Len(list) = len BY <2>4 DEF Rearranged
  <2>7. b \in NewBuckets
    <3>1. PICK j \in 1 .. len : list[p] = m.vvTried[k][j] BY <2>4 DEF Rearranged
    <3>2. list[p] \in DOMAIN m.mapInfo BY <1>1, <1>3, <3>1 DEF InPlace
    <3>3. w \in Tables /\ DOMAIN w.mapInfo = DOMAIN m.mapInfo BY <1>5 DEF Departed
    <3>4. w.mapInfo[list[p]] \in CAddrInfo BY <3>2, <3>3, TablesAre
    <3>5. home \in NewBuckets BY <3>4, AddrManAssumption DEF CAddrInfo
    <3>. QED BY <3>5
  <2>. HIDE DEF b
  <2>8. k = TriedBucketOf[m.mapInfo[nId].service] /\ p \in 1 .. Len(list) BY <2>4, <2>6 DEF k
  <2>9. AtRest(WithPlaceOf(w, k, list, p, nId, b)) /\ Promoted(m, WithPlaceOf(w, k, list, p, nId, b), nId)
    BY <1>3, <1>5, <2>4, <2>7, <2>8, ExchangeKeeps
  <2>. QED BY <2>5, <2>9
<1>. QED BY <1>6, <1>7, <1>8

-----------------------------------------------------------------------------
\* Equal intervals have equal ends.
LEMMA SameLength ==
    ASSUME NEW a \in Nat, NEW b \in Nat, 1 .. a = 1 .. b
    PROVE  a = b
<1>1. ~(a < b)
  <2>1. b \in 1 .. b => b \in 1 .. a OBVIOUS
  <2>. QED BY <2>1
<1>2. ~(b < a)
  <2>1. a \in 1 .. a => a \in 1 .. b OBVIOUS
  <2>. QED BY <2>1
<1>. QED BY <1>1, <1>2

\* The ranks in a finite set of numbers are the numbers from 0, each once.
LEMMA RankIs ==
    ASSUME NEW S \in SUBSET Int, IsFiniteSet(S)
    PROVE  /\ \A x \in S : Rank(S, x) \in 0 .. Cardinality(S) - 1
           /\ \A x, y \in S : Rank(S, x) = Rank(S, y) => x = y
           /\ \A i \in 0 .. Cardinality(S) - 1 : \E x \in S : Rank(S, x) = i
<1>. DEFINE below(x) == {j \in S : j < x}
            n == Cardinality(S)
<1>1. n \in Nat BY FS_CardinalityType
<1>2. ASSUME NEW x \in S
      PROVE  /\ Rank(S, x) \in Nat /\ Cardinality(below(x) \union {x}) = Rank(S, x) + 1
             /\ IsFiniteSet(below(x) \union {x})
  <2>1. below(x) \in SUBSET S /\ x \notin below(x) OBVIOUS
  <2>2. IsFiniteSet(below(x)) BY <2>1, FS_Subset
  <2>3. Cardinality(below(x)) \in Nat BY <2>2, FS_CardinalityType
  <2>4. Rank(S, x) = Cardinality(below(x)) BY DEF Rank
  <2>. HIDE DEF below
  <2>. QED BY <2>1, <2>2, <2>3, <2>4, OneMore
<1>3. ASSUME NEW x \in S PROVE Rank(S, x) \in 0 .. n - 1
  <2>1. below(x) \union {x} \in SUBSET S OBVIOUS
  <2>2. Cardinality(below(x) \union {x}) <= n BY <2>1, FS_Subset
  <2>. HIDE DEF below, n
  <2>. QED BY <1>1, <1>2, <2>2
<1>4. ASSUME NEW x \in S, NEW y \in S, x < y PROVE Rank(S, x) < Rank(S, y)
  <2>1. below(x) \union {x} \in SUBSET below(y)
    <3>1. ASSUME NEW j \in S, j < x PROVE j < y
      <4>1. j \in Int /\ x \in Int /\ y \in Int OBVIOUS
      <4>. QED BY <1>4, <3>1, <4>1
    <3>. QED BY <1>4, <3>1
  <2>2. IsFiniteSet(below(y))
    <3>1. below(y) \in SUBSET S OBVIOUS
    <3>. QED BY <3>1, FS_Subset
  <2>2a. Cardinality(below(y)) \in Nat BY <2>2, FS_CardinalityType
  <2>3. Cardinality(below(x) \union {x}) <= Cardinality(below(y)) BY <2>1, <2>2, FS_Subset
  <2>4. Rank(S, y) = Cardinality(below(y)) BY DEF Rank
  <2>. HIDE DEF below
  <2>. QED BY <1>2, <2>2a, <2>3, <2>4
<1>5. ASSUME NEW x \in S, NEW y \in S, Rank(S, x) = Rank(S, y) PROVE x = y
  <2>1. Rank(S, x) \in Nat /\ Rank(S, y) \in Nat BY <1>2
  <2>2. x \in Int /\ y \in Int OBVIOUS
  <2>3. ~(x < y) /\ ~(y < x) BY <1>4, <1>5, <2>1
  <2>. QED BY <2>2, <2>3
<1>6. ASSUME NEW i \in 0 .. n - 1 PROVE \E x \in S : Rank(S, x) = i
  <2>. DEFINE f == [x \in S |-> Rank(S, x)]
              R == 0 .. n - 1
  <2>1. f \in Injection(S, R)
    <3>1. f \in [S -> R] BY <1>3
    <3>2. \A x, y \in S : f[x] = f[y] => x = y BY <1>5
    <3>. HIDE DEF f, R
    <3>. QED BY <3>1, <3>2 DEF Injection, IsInjective
  <2>2. IsFiniteSet(R) /\ Cardinality(R) = n
    <3>1. 0 \in Int /\ n - 1 \in Int BY <1>1
    <3>2. IsFiniteSet(R) /\ Cardinality(R) = IF 0 > n - 1 THEN 0 ELSE (n - 1) - 0 + 1
      BY <3>1, FS_Interval
    <3>. HIDE DEF n, R
    <3>. QED BY <1>1, <3>2
  <2>. HIDE DEF f, R
  <2>3. f \in Surjection(S, R) BY <2>1, <2>2, FS_Injection
  <2>4. \E x \in S : f[x] = i BY <2>3 DEF Surjection, R
  <2>. QED BY <2>4 DEF f
<1>. QED BY <1>3, <1>5, <1>6

\* The entries of S in the order of their identifiers, as they are written.
Written(m, S) ==
    LET order == InOrder(S) IN [i \in DOMAIN order |-> Record(m.mapInfo[order[i]])]

\* The records of a set of entries are written at their ranks.
LEMMA WrittenIs ==
    ASSUME NEW m \in Tables, NEW S \in SUBSET DOMAIN m.mapInfo
    PROVE  /\ Written(m, S) \in Seq(FileRecords) /\ Len(Written(m, S)) = Cardinality(S)
           /\ Cardinality(S) \in Nat
           /\ \A x \in S : /\ Rank(S, x) \in 0 .. Cardinality(S) - 1
                           /\ Written(m, S)[Rank(S, x) + 1] = Record(m.mapInfo[x])
           /\ \A x, y \in S : Rank(S, x) = Rank(S, y) => x = y
           /\ \A i \in 0 .. Cardinality(S) - 1 : \E x \in S : Rank(S, x) = i
<1>. DEFINE n == Cardinality(S)
            order == InOrder(S)
<1>1. /\ m.mapInfo \in [DOMAIN m.mapInfo -> CAddrInfo] /\ DOMAIN m.mapInfo \in SUBSET Ids
  BY TablesAre
<1>2. IsFiniteSet(S) /\ n \in Nat /\ S \in SUBSET Int
  <2>1. m.mapInfo \in Infos BY <1>1, InfosAre
  <2>2. IsFiniteSet(S) BY <2>1, InfoFinite, FS_Subset
  <2>. QED BY <1>1, <2>2, FS_CardinalityType DEF Ids
<1>3. /\ \A x \in S : Rank(S, x) \in 0 .. n - 1
      /\ \A x, y \in S : Rank(S, x) = Rank(S, y) => x = y
      /\ \A i \in 0 .. n - 1 : \E x \in S : Rank(S, x) = i
  BY <1>2, RankIs
<1>4. DOMAIN order = 1 .. n /\ \A i \in 1 .. n : order[i] = CHOOSE x \in S : Rank(S, x) = i - 1
  BY DEF InOrder
<1>. HIDE DEF n, order
<1>5. ASSUME NEW i \in 1 .. n PROVE order[i] \in S /\ Rank(S, order[i]) = i - 1
  <2>1. i - 1 \in 0 .. n - 1 BY <1>2
  <2>2. \E x \in S : Rank(S, x) = i - 1 BY <1>3, <2>1
  <2>. QED BY <1>4, <2>2
<1>6. ASSUME NEW i \in 1 .. n PROVE Record(m.mapInfo[order[i]]) \in FileRecords
  <2>1. m.mapInfo[order[i]] \in CAddrInfo BY <1>1, <1>5
  <2>. QED BY <2>1 DEF Record, FileRecords, CAddrInfo
<1>. DEFINE records == Written(m, S)
<1>7. /\ records \in [1 .. n -> FileRecords]
      /\ \A i \in 1 .. n : records[i] = Record(m.mapInfo[order[i]])
  BY <1>4, <1>6, Zenon DEF Written, order
<1>. HIDE DEF records
<1>8. records \in Seq(FileRecords) BY <1>2, <1>7, SeqDef
<1>9. Len(records) = n
  <2>1. DOMAIN records = 1 .. Len(records) /\ Len(records) \in Nat BY <1>8, LenProperties
  <2>2. 1 .. n = 1 .. Len(records)
    <3>1. DOMAIN records = 1 .. n BY <1>7
    <3>. QED BY <2>1, <3>1
  <2>. QED BY <1>2, <2>1, <2>2, SameLength
<1>10. ASSUME NEW x \in S PROVE records[Rank(S, x) + 1] = Record(m.mapInfo[x])
  <2>1. Rank(S, x) \in 0 .. n - 1 BY <1>3
  <2>2. Rank(S, x) + 1 \in 1 .. n /\ (Rank(S, x) + 1) - 1 = Rank(S, x) BY <1>2, <2>1
  <2>3. order[Rank(S, x) + 1] = x BY <1>3, <1>5, <2>2
  <2>. QED BY <1>7, <2>2, <2>3
<1>. QED BY <1>2, <1>3, <1>8, <1>9, <1>10 DEF n, records

\* The file holds the new entries N and the tried entries T of the tables m.
SavedAs(m, N, T, file) ==
    /\ file \in [new : Seq(FileRecords), tried : Seq(FileRecords), buckets : [NewBuckets -> SUBSET Ids]]
    /\ Len(file.new) = Cardinality(N) /\ Len(file.tried) = Cardinality(T)
    /\ \A x \in N : /\ Rank(N, x) \in 0 .. Cardinality(N) - 1
                    /\ file.new[Rank(N, x) + 1] = Record(m.mapInfo[x])
    /\ \A x \in T : /\ Rank(T, x) \in 0 .. Cardinality(T) - 1
                    /\ file.tried[Rank(T, x) + 1] = Record(m.mapInfo[x])
    /\ \A x, y \in N : Rank(N, x) = Rank(N, y) => x = y
    /\ \A x, y \in T : Rank(T, x) = Rank(T, y) => x = y
    /\ \A i \in 0 .. Cardinality(N) - 1 : \E x \in N : Rank(N, x) = i
    /\ \A i \in 0 .. Cardinality(T) - 1 : \E x \in T : Rank(T, x) = i
    /\ \A b \in NewBuckets : /\ m.vvNew[b] \subseteq N
                             /\ file.buckets[b] = {Rank(N, x) : x \in m.vvNew[b]}
Saved(m, file) == SavedAs(m, NewIn(m.mapInfo), TriedIn(m.mapInfo), file)

\* How many entries there may be.
LEMMA FewEntries ==
    ASSUME NEW info \in Infos
    PROVE  /\ Cardinality(NewIn(info)) + Cardinality(TriedIn(info)) <= MaxId
           /\ Cardinality(NewIn(info)) + Cardinality(TriedIn(info)) = Cardinality(DOMAIN info)
<1>. DEFINE N == NewIn(info)
            T == TriedIn(info)
            D == DOMAIN info
<1>1. N \union T = D /\ N \cap T = {} BY DEF NewIn, TriedIn
<1>2. IsFiniteSet(N) /\ IsFiniteSet(T) /\ Cardinality(N) \in Nat /\ Cardinality(T) \in Nat
  BY PartsFinite
<1>. HIDE DEF N, T, D
<1>3. Cardinality(N \union T) = Cardinality(N) + Cardinality(T) - Cardinality(N \cap T)
  BY <1>2, FS_Union
<1>4. Cardinality(N \cap T) = 0 BY <1>1, FS_EmptySet
<1>5. Cardinality(D) = Cardinality(N) + Cardinality(T) BY <1>1, <1>2, <1>3, <1>4
<1>6. Cardinality(D) <= MaxId
  <2>1. MaxId \in Nat /\ 0 \in Int /\ MaxId - 1 \in Int BY AddrManAssumption
  <2>2. IsFiniteSet(Ids) /\ Cardinality(Ids) = IF 0 > MaxId - 1 THEN 0 ELSE (MaxId - 1) - 0 + 1
    BY <2>1, FS_Interval DEF Ids
  <2>3. Cardinality(Ids) = MaxId BY <2>1, <2>2
  <2>4. D \in SUBSET Ids BY DEF Infos, D
  <2>5. Cardinality(D) <= Cardinality(Ids) BY <2>2, <2>4, FS_Subset
  <2>. QED BY <2>3, <2>5
<1>. QED BY <1>5, <1>6 DEF N, T, D

\* What is written has the entries in their order.
LEMMA SerializeIs ==
    ASSUME NEW m, AtRest(m)
    PROVE  Saved(m, Serialize(m))
<1>. DEFINE D == DOMAIN m.mapInfo
            N == NewIn(m.mapInfo)
            T == TriedIn(m.mapInfo)
            file == Serialize(m)
<1>1. /\ m \in Tables /\ CountedIn(m.mapInfo, m.vvNew, -1) /\ Ranked(m.mapInfo, -1)
  BY Zenon DEF AtRest, AtWork
<1>2. /\ m.mapInfo \in [D -> CAddrInfo] /\ D \in SUBSET Ids
      /\ m.vvNew \in [NewBuckets -> SUBSET Ids]
  BY <1>1, TablesAre
<1>3. {nId \in D : m.mapInfo[nId].nRefCount # 0} = N /\ {nId \in D : m.mapInfo[nId].fInTried} = T
  <2>1. ASSUME NEW j \in D PROVE m.mapInfo[j].nRefCount # 0 <=> ~m.mapInfo[j].fInTried
    <3>1. j # -1 BY <1>2 DEF Ids
    <3>. QED BY <1>1, <3>1, AddrManAssumption DEF Ranked
  <2>. QED BY <2>1 DEF NewIn, TriedIn
<1>4. file = [new |-> Written(m, N), tried |-> Written(m, T),
              buckets |-> [b \in NewBuckets |-> {Rank(N, x) : x \in m.vvNew[b]}]]
  BY <1>3, Zenon DEF Serialize, Written
<1>5. /\ file.new = Written(m, N) /\ file.tried = Written(m, T)
      /\ file.buckets = [b \in NewBuckets |-> {Rank(N, x) : x \in m.vvNew[b]}]
      /\ file = [new |-> file.new, tried |-> file.tried, buckets |-> file.buckets]
  BY <1>4
<1>6. N \in SUBSET D /\ T \in SUBSET D BY DEF NewIn, TriedIn
<1>. HIDE DEF file, N, T
<1>7. /\ Written(m, N) \in Seq(FileRecords) /\ Len(Written(m, N)) = Cardinality(N)
      /\ Cardinality(N) \in Nat
      /\ \A x \in N : /\ Rank(N, x) \in 0 .. Cardinality(N) - 1
                      /\ Written(m, N)[Rank(N, x) + 1] = Record(m.mapInfo[x])
      /\ \A x, y \in N : Rank(N, x) = Rank(N, y) => x = y
      /\ \A i \in 0 .. Cardinality(N) - 1 : \E x \in N : Rank(N, x) = i
  BY <1>1, <1>6, WrittenIs
<1>8. /\ Written(m, T) \in Seq(FileRecords) /\ Len(Written(m, T)) = Cardinality(T)
      /\ Cardinality(T) \in Nat
      /\ \A x \in T : /\ Rank(T, x) \in 0 .. Cardinality(T) - 1
                      /\ Written(m, T)[Rank(T, x) + 1] = Record(m.mapInfo[x])
      /\ \A x, y \in T : Rank(T, x) = Rank(T, y) => x = y
      /\ \A i \in 0 .. Cardinality(T) - 1 : \E x \in T : Rank(T, x) = i
  BY <1>1, <1>6, WrittenIs
<1>9. ASSUME NEW b \in NewBuckets PROVE m.vvNew[b] \subseteq N
  <2>1. ASSUME NEW x \in m.vvNew[b] PROVE x \in N
    <3>1. x \in D BY <1>1 DEF CountedIn
    <3>2. x # -1 BY <1>2, <3>1 DEF Ids
    <3>3. m.mapInfo[x].nRefCount = Cardinality(BucketsWith(m.vvNew, x)) + 0
      BY <1>1, <3>1, <3>2 DEF CountedIn
    <3>4. IsFiniteSet(BucketsWith(m.vvNew, x)) /\ Cardinality(BucketsWith(m.vvNew, x)) \in Nat
      BY BucketsFinite
    <3>5. BucketsWith(m.vvNew, x) # {} BY DEF BucketsWith
    <3>6. m.mapInfo[x].nRefCount # 0 BY <3>3, <3>4, <3>5, FS_EmptySet
    <3>. QED BY <1>3, <3>1, <3>6
  <2>. QED BY <2>1
<1>10. file.buckets \in [NewBuckets -> SUBSET Ids]
  <2>1. m.mapInfo \in Infos BY <1>2, InfosAre
  <2>2. Cardinality(N) + Cardinality(T) <= MaxId BY <2>1, FewEntries DEF N, T
  <2>3. \A x \in N : Rank(N, x) \in Ids BY <1>7, <1>8, <2>2, AddrManAssumption DEF Ids
  <2>4. ASSUME NEW b \in NewBuckets PROVE {Rank(N, x) : x \in m.vvNew[b]} \in SUBSET Ids
    BY <1>9, <2>3
  <2>. QED BY <1>5, <2>4
<1>11. file \in [new : Seq(FileRecords), tried : Seq(FileRecords), buckets : [NewBuckets -> SUBSET Ids]]
  BY <1>5, <1>7, <1>8, <1>10
<1>12. \A b \in NewBuckets : file.buckets[b] = {Rank(N, x) : x \in m.vvNew[b]} BY <1>5
<1>13. SavedAs(m, N, T, file) BY <1>5, <1>7, <1>8, <1>9, <1>11, <1>12 DEF SavedAs
<1>. QED BY <1>13 DEF Saved, N, T, file

\* An address is in the file once, and the buckets and counts are those of the tables.
LEMMA SavedReadable ==
    ASSUME NEW m, AtRest(m), NEW file, Saved(m, file)
    PROVE  Readable(file)
<1>. DEFINE D == DOMAIN m.mapInfo
            N == NewIn(m.mapInfo)
            T == TriedIn(m.mapInfo)
<1>1. /\ m \in Tables /\ CountedIn(m.mapInfo, m.vvNew, -1) /\ Ranked(m.mapInfo, -1)
      /\ Named(m.mapInfo, m.mapAddr) /\ InPlace(m.mapInfo, m.vvTried)
  BY Zenon DEF AtRest, AtWork
<1>2. /\ m.mapInfo \in [D -> CAddrInfo] /\ D \in SUBSET Ids /\ m.vvTried \in [TriedBuckets -> Seq(Ids)]
  BY <1>1, TablesAre
<1>3. N \subseteq D /\ T \subseteq D /\ N \cap T = {} BY DEF NewIn, TriedIn
<1>4. ASSUME NEW x \in D, NEW y \in D, AddrOf[m.mapInfo[x].service] = AddrOf[m.mapInfo[y].service]
      PROVE  x = y
  BY <1>1, <1>4 DEF Named
<1>5. \A x \in T : m.mapInfo[x].nLastSuccess # 0 BY <1>1 DEF Ranked, TriedIn
<1>6. \A x \in N : m.mapInfo[x].nRefCount \in 1 .. BucketsPerAddress
  <2>1. \A x \in D : x # -1 BY <1>2 DEF Ids
  <2>. QED BY <1>1, <2>1 DEF Ranked, NewIn
<1>7. m.mapInfo \in Infos BY <1>2, InfosAre
<1>8. Cardinality(N) + Cardinality(T) <= MaxId BY <1>7, FewEntries
<1>9. SavedAs(m, N, T, file) BY DEF Saved
<1>9a. Cardinality(N) \in Nat /\ Cardinality(T) \in Nat BY <1>7, PartsFinite
<1>9b. \A x \in T : m.mapInfo[x].fInTried BY DEF TriedIn
<1>. HIDE DEF N, T
<1>10. /\ file \in [new : Seq(FileRecords), tried : Seq(FileRecords), buckets : [NewBuckets -> SUBSET Ids]]
       /\ Len(file.new) = Cardinality(N) /\ Len(file.tried) = Cardinality(T)
       /\ \A b \in NewBuckets : m.vvNew[b] \subseteq N /\ file.buckets[b] = {Rank(N, x) : x \in m.vvNew[b]}
  BY <1>9 DEF SavedAs
<1>11. ASSUME NEW i \in 1 .. Len(file.new)
       PROVE  \E x \in N : Rank(N, x) = i - 1 /\ file.new[i].service = m.mapInfo[x].service
  <2>1. i - 1 \in 0 .. Cardinality(N) - 1 BY <1>9a, <1>10
  <2>2. PICK x \in N : Rank(N, x) = i - 1 BY <1>9, <2>1 DEF SavedAs
  <2>3. (i - 1) + 1 = i BY <1>9a, <1>10
  <2>4. file.new[i] = Record(m.mapInfo[x]) BY <1>9, <2>2, <2>3 DEF SavedAs
  <2>. QED BY <2>2, <2>4 DEF Record
<1>12. ASSUME NEW i \in 1 .. Len(file.tried)
       PROVE  \E x \in T : /\ Rank(T, x) = i - 1 /\ file.tried[i].service = m.mapInfo[x].service
                           /\ file.tried[i].nLastSuccess = m.mapInfo[x].nLastSuccess
  <2>1. i - 1 \in 0 .. Cardinality(T) - 1 BY <1>9a, <1>10
  <2>2. PICK x \in T : Rank(T, x) = i - 1 BY <1>9, <2>1 DEF SavedAs
  <2>3. (i - 1) + 1 = i BY <1>9a, <1>10
  <2>4. file.tried[i] = Record(m.mapInfo[x]) BY <1>9, <2>2, <2>3 DEF SavedAs
  <2>. QED BY <2>2, <2>4 DEF Record
<1>13. ASSUME NEW i \in 1 .. Len(file.new), NEW j \in 1 .. Len(file.new),
              AddrOf[file.new[i].service] = AddrOf[file.new[j].service]
       PROVE  i = j
  <2>1. PICK x \in N : Rank(N, x) = i - 1 /\ file.new[i].service = m.mapInfo[x].service BY <1>11
  <2>2. PICK y \in N : Rank(N, y) = j - 1 /\ file.new[j].service = m.mapInfo[y].service BY <1>11
  <2>3. x \in D /\ y \in D BY <1>3
  <2>4. x = y BY <1>4, <1>13, <2>1, <2>2, <2>3
  <2>5. i - 1 = j - 1 BY <2>1, <2>2, <2>4
  <2>. QED BY <1>9a, <1>10, <2>5
<1>14. ASSUME NEW i \in 1 .. Len(file.tried), NEW j \in 1 .. Len(file.tried),
              AddrOf[file.tried[i].service] = AddrOf[file.tried[j].service]
       PROVE  i = j
  <2>1. PICK x \in T : Rank(T, x) = i - 1 /\ file.tried[i].service = m.mapInfo[x].service BY <1>12
  <2>2. PICK y \in T : Rank(T, y) = j - 1 /\ file.tried[j].service = m.mapInfo[y].service BY <1>12
  <2>3. x \in D /\ y \in D BY <1>3
  <2>4. x = y BY <1>4, <1>14, <2>1, <2>2, <2>3
  <2>5. i - 1 = j - 1 BY <2>1, <2>2, <2>4
  <2>. QED BY <1>9a, <1>10, <2>5
<1>15. ASSUME NEW i \in 1 .. Len(file.new), NEW j \in 1 .. Len(file.tried)
       PROVE  AddrOf[file.new[i].service] # AddrOf[file.tried[j].service]
  <2>1. PICK x \in N : file.new[i].service = m.mapInfo[x].service BY <1>11
  <2>2. PICK y \in T : file.tried[j].service = m.mapInfo[y].service BY <1>12
  <2>3. x \in D /\ y \in D /\ x # y BY <1>3
  <2>. QED BY <1>4, <2>1, <2>2, <2>3
<1>16. ASSUME NEW i \in 1 .. Len(file.tried) PROVE file.tried[i].nLastSuccess # 0
  BY <1>5, <1>12
<1>17. ASSUME NEW k \in TriedBuckets
       PROVE  Cardinality(Entered(file.tried, k)) <= TriedBucketSize
  <2>. DEFINE E == Entered(file.tried, k)
              len == Len(m.vvTried[k])
              at == [i \in E |-> CHOOSE p \in 1 .. len :
                        AddrOf[m.mapInfo[m.vvTried[k][p]].service] = AddrOf[file.tried[i].service]]
  <2>1. m.vvTried[k] \in Seq(Ids) /\ len \in Nat /\ len <= TriedBucketSize
    <3>1. m.vvTried[k] \in Seq(Ids) BY <1>2
    <3>. QED BY <1>1, <3>1, LenProperties DEF InPlace
  <2>2. ASSUME NEW i \in E
        PROVE  /\ i \in 1 .. Len(file.tried) /\ at[i] \in 1 .. len
               /\ AddrOf[m.mapInfo[m.vvTried[k][at[i]]].service] = AddrOf[file.tried[i].service]
    <3>1. i \in 1 .. Len(file.tried) /\ TriedBucketOf[file.tried[i].service] = k
      <4>1. file.tried \in Seq(FileRecords) BY <1>10
      <4>2. DOMAIN file.tried = 1 .. Len(file.tried) BY <4>1, LenProperties
      <4>. QED BY <4>2 DEF Entered
    <3>2. PICK x \in T : file.tried[i].service = m.mapInfo[x].service BY <1>12, <3>1
    <3>3. x \in D /\ m.mapInfo[x].fInTried /\ TriedBucketOf[m.mapInfo[x].service] = k
      BY <1>3, <1>9b, <3>1, <3>2
    <3>4. PICK p \in 1 .. len : m.vvTried[k][p] = x BY <1>1, <3>3 DEF InPlace
    <3>5. \E q \in 1 .. len :
              AddrOf[m.mapInfo[m.vvTried[k][q]].service] = AddrOf[file.tried[i].service]
      BY <3>2, <3>4
    <3>. HIDE DEF E, len
    <3>. QED BY <3>1, <3>5
  <2>. HIDE DEF E, len, at
  <2>3. ASSUME NEW i \in E, NEW j \in E, at[i] = at[j] PROVE i = j
    <3>1. AddrOf[file.tried[i].service] = AddrOf[file.tried[j].service]
      <4>1. AddrOf[m.mapInfo[m.vvTried[k][at[i]]].service] = AddrOf[file.tried[i].service] BY <2>2
      <4>2. AddrOf[m.mapInfo[m.vvTried[k][at[j]]].service] = AddrOf[file.tried[j].service] BY <2>2
      <4>. QED BY <2>3, <4>1, <4>2
    <3>2. i \in 1 .. Len(file.tried) /\ j \in 1 .. Len(file.tried) BY <2>2
    <3>. QED BY <1>14, <3>1, <3>2
  <2>4. at \in Injection(E, 1 .. len)
    <3>1. at \in [E -> 1 .. len] BY <2>2 DEF at
    <3>2. \A i, j \in E : at[i] = at[j] => i = j BY <2>3
    <3>. QED BY <3>1, <3>2 DEF Injection, IsInjective
  <2>5. IsFiniteSet(1 .. len) /\ Cardinality(1 .. len) = len
    <3>1. IsFiniteSet(1 .. len) /\ Cardinality(1 .. len) = IF 1 > len THEN 0 ELSE len - 1 + 1
      BY <2>1, FS_Interval
    <3>. QED BY <2>1, <3>1
  <2>6. IsFiniteSet(E) /\ Cardinality(E) <= len BY <2>4, <2>5, FS_Injection
  <2>7. Cardinality(E) \in Nat /\ TriedBucketSize \in Nat
    BY <2>6, FS_CardinalityType, AddrManAssumption
  <2>8. Cardinality(E) <= TriedBucketSize BY <2>1, <2>6, <2>7
  <2>. QED BY <2>8 DEF E
<1>18. ASSUME NEW b \in NewBuckets PROVE file.buckets[b] \subseteq 0 .. Len(file.new) - 1
  <2>1. \A x \in N : Rank(N, x) \in 0 .. Cardinality(N) - 1 BY <1>9 DEF SavedAs
  <2>. QED BY <1>10, <2>1
<1>19. ASSUME NEW n \in 0 .. Len(file.new) - 1
       PROVE  Cardinality(BucketsWith(file.buckets, n)) \in 1 .. BucketsPerAddress
  <2>1. PICK x \in N : Rank(N, x) = n BY <1>9, <1>10 DEF SavedAs
  <2>2. \A y \in N : Rank(N, y) = n => y = x BY <1>9, <2>1 DEF SavedAs
  <2>3. ASSUME NEW b \in NewBuckets PROVE n \in file.buckets[b] <=> x \in m.vvNew[b]
    <3>1. m.vvNew[b] \subseteq N /\ file.buckets[b] = {Rank(N, y) : y \in m.vvNew[b]} BY <1>10
    <3>. QED BY <2>1, <2>2, <3>1
  <2>4. BucketsWith(file.buckets, n) = BucketsWith(m.vvNew, x) BY <2>3 DEF BucketsWith
  <2>5. x \in D /\ x # -1 BY <1>2, <1>3 DEF Ids
  <2>6. m.mapInfo[x].nRefCount = Cardinality(BucketsWith(m.vvNew, x)) + 0
    BY <1>1, <2>5 DEF CountedIn
  <2>7. Cardinality(BucketsWith(m.vvNew, x)) \in Nat BY BucketsFinite
  <2>8. m.mapInfo[x].nRefCount \in 1 .. BucketsPerAddress BY <1>6
  <2>. QED BY <2>4, <2>6, <2>7, <2>8
<1>20. Len(file.new) + Len(file.tried) <= MaxId BY <1>8, <1>10
<1>. QED BY <1>10, <1>13, <1>14, <1>15, <1>16, <1>17, <1>18, <1>19, <1>20 DEF Readable

-----------------------------------------------------------------------------
\* A tried entry is added to tables at rest: first as Add_ creates it, then it is
\* put into its tried bucket.
WithTried(m, record) ==
    [nIdCount |-> m.nIdCount + 1,
     mapInfo |-> Put(m.mapInfo, m.nIdCount, Entry(record, 0, TRUE, Len(m.vRandom) + 1)),
     mapAddr |-> Put(m.mapAddr, AddrOf[record.service], m.nIdCount),
     vRandom |-> Append(m.vRandom, m.nIdCount),
     nTried |-> m.nTried + 1,
     vvTried |-> [m.vvTried EXCEPT ![TriedBucketOf[record.service]] = Append(@, m.nIdCount)],
     nNew |-> m.nNew, vvNew |-> m.vvNew]

\* A tried entry of the file is in the indexes and in its tried bucket.
LEMMA TakenKeeps ==
    ASSUME NEW m, AtRest(m), NEW record \in FileRecords, record.nLastSuccess # 0,
           ~Known(m, record.service), m.nIdCount < MaxId,
           Len(m.vvTried[TriedBucketOf[record.service]]) < TriedBucketSize
    PROVE  /\ AtRest(WithTried(m, record)) /\ m.nIdCount \notin DOMAIN m.mapInfo
           /\ DOMAIN WithTried(m, record).mapInfo = DOMAIN m.mapInfo \union {m.nIdCount}
           /\ Record(WithTried(m, record).mapInfo[m.nIdCount]) = record
           /\ WithTried(m, record).mapInfo[m.nIdCount].fInTried
           /\ \A j \in DOMAIN m.mapInfo : WithTried(m, record).mapInfo[j] = m.mapInfo[j]
<1>. DEFINE D == DOMAIN m.mapInfo
            nId == m.nIdCount
            s == record.service
            source == record.source
            c == WithNewEntry(m, s, source)
            entry == Entry(record, 0, TRUE, Len(m.vRandom) + 1)
            k == TriedBucketOf[record.service]
            r == WithTried(m, record)
<1>1. /\ m \in Tables /\ InPlace(m.mapInfo, m.vvTried) /\ CountedIn(m.mapInfo, m.vvNew, -1)
      /\ m.nTried = Cardinality(TriedIn(m.mapInfo)) /\ m.nNew = Cardinality(NewIn(m.mapInfo))
  BY Zenon DEF AtRest, AtWork
<1>2. /\ m.mapInfo \in [D -> CAddrInfo] /\ D \in SUBSET Ids /\ m.vRandom \in Seq(Ids)
      /\ m.vvTried \in [TriedBuckets -> Seq(Ids)] /\ m.nIdCount \in 0 .. MaxId
      /\ m.nTried \in Int /\ m.nNew \in Int
  BY <1>1, TablesAre
<1>3. s \in Services /\ source \in Sources /\ record.nLastSuccess \in 0 .. MaxTime BY DEF FileRecords
<1>4. k \in TriedBuckets BY <1>3, AddrManAssumption
<1>4a. k = TriedBucketOf[s] /\ Len(m.vvTried[k]) < TriedBucketSize OBVIOUS
<1>5. nId \in Ids /\ MaxId \in Nat BY <1>2, AddrManAssumption DEF Ids
<1>6. /\ AtWork(c, -1, nId) /\ SameEntries(c.mapInfo, m.mapInfo) /\ nId \notin D
      /\ DOMAIN c.mapInfo = D \union {nId} /\ c.mapInfo[nId].service = s
      /\ ~c.mapInfo[nId].fInTried /\ c.mapInfo[nId].nRefCount = 0
  BY <1>3, CreateKeeps
<1>7. /\ c.nIdCount = nId + 1 /\ c.mapAddr = Put(m.mapAddr, AddrOf[s], nId)
      /\ c.vRandom = Append(m.vRandom, nId) /\ c.nTried = m.nTried /\ c.nNew = m.nNew + 1
      /\ c.vvTried = m.vvTried /\ c.vvNew = m.vvNew
      /\ c.mapInfo = Put(m.mapInfo, nId, [service |-> s, source |-> source, nLastSuccess |-> 0, nRefCount |-> 0,
                                          fInTried |-> FALSE, nRandomPos |-> Len(m.vRandom) + 1])
  BY <1>1 DEF WithNewEntry, Create, Tables
<1>8. /\ r.mapInfo = Put(m.mapInfo, nId, entry) /\ r.nIdCount = c.nIdCount /\ r.mapAddr = c.mapAddr
      /\ r.vRandom = c.vRandom /\ r.nTried = c.nTried + 1 /\ r.nNew = c.nNew - 1
      /\ r.vvTried = [c.vvTried EXCEPT ![k] = Append(@, nId)] /\ r.vvNew = c.vvNew
  BY <1>2, <1>7 DEF WithTried
<1>9. /\ entry \in CAddrInfo /\ entry.service = s /\ entry.source = source
      /\ entry.nLastSuccess = record.nLastSuccess /\ entry.nRefCount = 0 /\ entry.fInTried = TRUE
      /\ entry.nRandomPos = Len(m.vRandom) + 1 /\ Record(entry) = record
  <2>1. Len(m.vRandom) \in Nat BY <1>2, LenProperties
  <2>. QED BY <1>3, <2>1 DEF Entry, CAddrInfo, Record, FileRecords
<1>10. r = [nIdCount |-> r.nIdCount, mapInfo |-> r.mapInfo, mapAddr |-> r.mapAddr, vRandom |-> r.vRandom,
            nTried |-> r.nTried, vvTried |-> r.vvTried, nNew |-> r.nNew, vvNew |-> r.vvNew]
  BY DEF WithTried
<1>10a. r.nTried = m.nTried + 1 /\ r.nNew = m.nNew BY DEF WithTried
<1>. HIDE DEF r, k
<1>11. /\ DOMAIN r.mapInfo = D \union {nId} /\ r.mapInfo[nId] = entry
       /\ \A j \in D : r.mapInfo[j] = m.mapInfo[j] /\ c.mapInfo[j] = m.mapInfo[j]
       /\ c.mapInfo[nId].nRandomPos = Len(m.vRandom) + 1
  <2>. HIDE DEF entry
  <2>. QED BY <1>6, <1>7, <1>8 DEF Put
<1>11a. r.mapInfo \in [D \union {nId} -> CAddrInfo]
  <2>. HIDE DEF entry
  <2>. QED BY <1>2, <1>6, <1>8, <1>9 DEF Put
<1>. HIDE DEF c, entry, D, nId
<1>12. /\ c \in Tables /\ Listed(c.mapInfo, c.vRandom) /\ Named(c.mapInfo, c.mapAddr)
       /\ InPlace(c.mapInfo, c.vvTried) /\ CountedIn(c.mapInfo, c.vvNew, -1)
       /\ Ranked(c.mapInfo, nId) /\ \A j \in DOMAIN c.mapInfo : j < c.nIdCount
       /\ c.nTried = Cardinality(TriedIn(c.mapInfo)) /\ c.nNew = Cardinality(NewIn(c.mapInfo))
  BY <1>6, Zenon DEF AtWork
<1>13. /\ DOMAIN r.mapInfo = DOMAIN c.mapInfo
       /\ r.mapInfo[nId].fInTried /\ r.mapInfo[nId].nRefCount = 0 /\ r.mapInfo[nId].nLastSuccess # 0
       /\ \A j \in DOMAIN c.mapInfo : /\ r.mapInfo[j].service = c.mapInfo[j].service
                                      /\ r.mapInfo[j].nRandomPos = c.mapInfo[j].nRandomPos
                                      /\ r.mapInfo[j].nRefCount = c.mapInfo[j].nRefCount
                                      /\ j # nId => r.mapInfo[j] = c.mapInfo[j]
  BY <1>6, <1>9, <1>11
<1>14. Listed(r.mapInfo, r.vRandom) /\ Named(r.mapInfo, r.mapAddr)
  <2>. DEFINE info == c.mapInfo
              after == r.mapInfo
  <2>1. /\ DOMAIN after = DOMAIN info
        /\ \A j \in DOMAIN info : /\ after[j].service = info[j].service
                                  /\ after[j].nRandomPos = info[j].nRandomPos
        /\ Listed(info, c.vRandom) /\ Named(info, c.mapAddr)
    BY <1>12, <1>13
  <2>. HIDE DEF info, after
  <2>2. Listed(after, c.vRandom) /\ Named(after, c.mapAddr) BY <2>1, SamePositions
  <2>. QED BY <1>8, <2>2 DEF after
<1>15. InPlace(r.mapInfo, r.vvTried)
  <2>. DEFINE info == c.mapInfo
              after == r.mapInfo
              tried == c.vvTried
  <2>1. /\ DOMAIN after = DOMAIN info /\ InPlace(info, tried) /\ nId \in DOMAIN info /\ nId \in Ids
        /\ ~info[nId].fInTried /\ after[nId].fInTried
        /\ tried \in [TriedBuckets -> Seq(Ids)]
        /\ \A j \in DOMAIN info : /\ after[j].service = info[j].service
                                  /\ j # nId => after[j].fInTried = info[j].fInTried
        /\ k = TriedBucketOf[info[nId].service] /\ Len(tried[k]) < TriedBucketSize
    BY <1>2, <1>4a, <1>5, <1>6, <1>7, <1>12, <1>13
  <2>. HIDE DEF info, after, tried
  <2>2. InPlace(after, [tried EXCEPT ![k] = Append(@, nId)]) BY <1>4, <2>1, PlacedLast
  <2>3. r.vvTried = [tried EXCEPT ![k] = Append(@, nId)] BY <1>8 DEF tried
  <2>. QED BY <2>2, <2>3 DEF after
<1>16. CountedIn(r.mapInfo, r.vvNew, -1)
  <2>1. r.vvNew = c.vvNew BY <1>8
  <2>. QED BY <1>12, <1>13, <2>1 DEF CountedIn
<1>17. Ranked(r.mapInfo, -1)
  <2>1. ASSUME NEW j \in DOMAIN c.mapInfo
        PROVE  IF r.mapInfo[j].fInTried
               THEN r.mapInfo[j].nRefCount = 0 /\ r.mapInfo[j].nLastSuccess # 0
               ELSE r.mapInfo[j].nRefCount \in (IF j = -1 THEN 0 ELSE 1) .. BucketsPerAddress
    <3>1. CASE j = nId BY <1>13, <3>1
    <3>2. CASE j # nId
      <4>1. j # -1 BY <1>2, <1>5, <1>6 DEF Ids
      <4>. QED BY <1>12, <1>13, <3>2, <4>1 DEF Ranked
    <3>. QED BY <3>1, <3>2
  <2>. QED BY <1>13, <2>1 DEF Ranked
<1>18. r.nTried = Cardinality(TriedIn(r.mapInfo)) /\ r.nNew = Cardinality(NewIn(r.mapInfo))
  <2>1. TriedIn(r.mapInfo) = TriedIn(m.mapInfo) \union {nId} /\ nId \notin TriedIn(m.mapInfo)
    BY <1>6, <1>9, <1>11 DEF TriedIn, D
  <2>2. NewIn(r.mapInfo) = NewIn(m.mapInfo) BY <1>6, <1>9, <1>11 DEF NewIn, D
  <2>3. m.mapInfo \in Infos BY <1>2, InfosAre
  <2>4. IsFiniteSet(TriedIn(m.mapInfo)) BY <2>3, PartsFinite
  <2>5. Cardinality(TriedIn(m.mapInfo) \union {nId}) = Cardinality(TriedIn(m.mapInfo)) + 1
    BY <2>1, <2>4, OneMore
  <2>. QED BY <1>1, <1>10a, <2>1, <2>2, <2>5
<1>19. \A j \in DOMAIN r.mapInfo : j < r.nIdCount
  <2>1. r.nIdCount = c.nIdCount BY <1>8
  <2>. QED BY <1>12, <1>13, <2>1
<1>20. r \in Tables
  <2>1. r.mapInfo \in Infos
    <3>1. D \union {nId} \in SUBSET Ids BY <1>2, <1>5
    <3>. QED BY <1>11a, <3>1, InfosAre
  <2>2. r.vvTried \in [TriedBuckets -> Seq(Ids)]
    <3>. DEFINE bucket == m.vvTried[k]
    <3>1. bucket \in Seq(Ids) BY <1>2, <1>4
    <3>. HIDE DEF bucket
    <3>2. Append(bucket, nId) \in Seq(Ids) BY <1>5, <3>1, AppendProperties
    <3>3. r.vvTried = [m.vvTried EXCEPT ![k] = Append(bucket, nId)] BY <1>7, <1>8 DEF bucket
    <3>. QED BY <1>2, <3>2, <3>3
  <2>3. /\ r.nIdCount \in 0 .. MaxId /\ r.vRandom \in Seq(Ids)
        /\ r.mapAddr \in UNION {[A -> Ids] : A \in SUBSET Addrs} /\ r.vvNew \in [NewBuckets -> SUBSET Ids]
    <3>1. /\ c.nIdCount \in 0 .. MaxId /\ c.vRandom \in Seq(Ids)
          /\ c.mapAddr \in UNION {[A -> Ids] : A \in SUBSET Addrs} /\ c.vvNew \in [NewBuckets -> SUBSET Ids]
      BY <1>12 DEF Tables
    <3>2. /\ r.nIdCount = c.nIdCount /\ r.vRandom = c.vRandom /\ r.mapAddr = c.mapAddr /\ r.vvNew = c.vvNew
      BY <1>8
    <3>. QED BY <3>1, <3>2
  <2>4. r.nTried \in Int /\ r.nNew \in Int BY <1>2, <1>10a
  <2>. QED BY <1>10, <2>1, <2>2, <2>3, <2>4 DEF Tables
<1>21. AtRest(r) BY <1>14, <1>15, <1>16, <1>17, <1>18, <1>19, <1>20 DEF AtRest, AtWork
<1>. QED BY <1>6, <1>9, <1>11, <1>21 DEF D, nId, r

-----------------------------------------------------------------------------
\* Tables without the bound on the identifiers.
Loose ==
    [nIdCount : Nat, mapInfo : UNION {[D -> CAddrInfo] : D \in SUBSET Nat},
     mapAddr : UNION {[A -> Nat] : A \in SUBSET Addrs}, vRandom : Seq(Nat),
     nTried : Int, vvTried : [TriedBuckets -> Seq(Nat)],
     nNew : Int, vvNew : [NewBuckets -> SUBSET Ids]]

\* ReadTried keeps the types.
LEMMA ReadLoose ==
    ASSUME NEW r \in Loose, NEW record \in FileRecords
    PROVE  ReadTried(r, record) \in Loose
<1>. DEFINE k == TriedBucketOf[record.service]
            nId == r.nIdCount
            entry == Entry(record, 0, TRUE, Len(r.vRandom) + 1)
            a == AddrOf[record.service]
            info == Put(r.mapInfo, nId, entry)
            addr == Put(r.mapAddr, a, nId)
            rand == Append(r.vRandom, nId)
            tried == [r.vvTried EXCEPT ![k] = Append(@, nId)]
<1>1. PICK D \in SUBSET Nat : r.mapInfo \in [D -> CAddrInfo] BY DEF Loose
<1>2. PICK A \in SUBSET Addrs : r.mapAddr \in [A -> Nat] BY DEF Loose
<1>3. /\ nId \in Nat /\ r.vRandom \in Seq(Nat) /\ r.nTried \in Int
      /\ r.vvTried \in [TriedBuckets -> Seq(Nat)]
  BY DEF Loose
<1>4. record.service \in Services BY DEF FileRecords
<1>5. k \in TriedBuckets /\ a \in Addrs BY <1>4, AddrManAssumption
<1>6. Len(r.vRandom) \in Nat BY <1>3, LenProperties
<1>7. entry \in CAddrInfo BY <1>6 DEF Entry, CAddrInfo, FileRecords
<1>8. ReadTried(r, record) = IF Len(r.vvTried[k]) < TriedBucketSize
                             THEN [r EXCEPT !.nIdCount = nId + 1, !.mapInfo = info, !.mapAddr = addr,
                                            !.vRandom = rand, !.vvTried = tried]
                             ELSE [r EXCEPT !.nTried = @ - 1]
  BY Zenon DEF ReadTried
<1>9. info \in UNION {[E -> CAddrInfo] : E \in SUBSET Nat}
  <2>. HIDE DEF entry
  <2>1. info \in [D \union {nId} -> CAddrInfo] BY <1>1, <1>7 DEF Put
  <2>2. D \union {nId} \in SUBSET Nat BY <1>1, <1>3
  <2>. HIDE DEF info, nId
  <2>. QED BY <2>1, <2>2
<1>10. addr \in UNION {[B -> Nat] : B \in SUBSET Addrs}
  <2>1. addr \in [A \union {a} -> Nat] BY <1>2, <1>3 DEF Put
  <2>2. A \union {a} \in SUBSET Addrs BY <1>2, <1>5
  <2>. HIDE DEF addr, a
  <2>. QED BY <2>1, <2>2
<1>11. rand \in Seq(Nat) BY <1>3, AppendProperties
<1>12. tried \in [TriedBuckets -> Seq(Nat)]
  <2>. DEFINE bucket == r.vvTried[k]
  <2>1. bucket \in Seq(Nat) BY <1>3, <1>5
  <2>. HIDE DEF bucket
  <2>2. Append(bucket, nId) \in Seq(Nat) BY <1>3, <2>1, AppendProperties
  <2>3. tried = [r.vvTried EXCEPT ![k] = Append(bucket, nId)] BY DEF bucket
  <2>. HIDE DEF tried
  <2>. QED BY <1>3, <2>2, <2>3
<1>. HIDE DEF info, addr, rand, tried
<1>13. [r EXCEPT !.nIdCount = nId + 1, !.mapInfo = info, !.mapAddr = addr,
                 !.vRandom = rand, !.vvTried = tried] \in Loose
  <2>1. nId + 1 \in Nat BY <1>3
  <2>. DEFINE infos == UNION {[E -> CAddrInfo] : E \in SUBSET Nat}
              addrs == UNION {[B -> Nat] : B \in SUBSET Addrs}
              next == nId + 1
  <2>2. Loose = [nIdCount : Nat, mapInfo : infos, mapAddr : addrs, vRandom : Seq(Nat),
                 nTried : Int, vvTried : [TriedBuckets -> Seq(Nat)],
                 nNew : Int, vvNew : [NewBuckets -> SUBSET Ids]]
    BY Zenon DEF Loose
  <2>3. info \in infos /\ addr \in addrs /\ next \in Nat BY <1>9, <1>10, <2>1
  <2>. HIDE DEF infos, addrs, next
  <2>4. [r EXCEPT !.nIdCount = next, !.mapInfo = info, !.mapAddr = addr,
                  !.vRandom = rand, !.vvTried = tried] \in Loose
    BY <1>11, <1>12, <2>2, <2>3
  <2>. QED BY <2>4, Zenon DEF next
<1>14. [r EXCEPT !.nTried = @ - 1] \in Loose
  <2>. DEFINE infos == UNION {[E -> CAddrInfo] : E \in SUBSET Nat}
              addrs == UNION {[B -> Nat] : B \in SUBSET Addrs}
              less == r.nTried - 1
  <2>1. Loose = [nIdCount : Nat, mapInfo : infos, mapAddr : addrs, vRandom : Seq(Nat),
                 nTried : Int, vvTried : [TriedBuckets -> Seq(Nat)],
                 nNew : Int, vvNew : [NewBuckets -> SUBSET Ids]]
    BY Zenon DEF Loose
  <2>2. less \in Int BY <1>3
  <2>. HIDE DEF infos, addrs, less
  <2>3. [r EXCEPT !.nTried = less] \in Loose BY <2>1, <2>2
  <2>. QED BY <2>3, Zenon DEF less
<1>. QED BY <1>8, <1>13, <1>14

\* The tried entries of the file are read one after the other.
LEMMA ReadWalk ==
    ASSUME NEW base \in Loose, NEW records \in Seq(FileRecords)
    PROVE  \E v \in [0 .. Len(records) -> Loose] :
              /\ v[0] = base /\ v[Len(records)] = FoldLeft(ReadTried, base, records)
              /\ \A i \in 1 .. Len(records) : v[i] = ReadTried(v[i - 1], records[i])
<1>. DEFINE size == Len(records)
            W == Loose
            F == [wi \in W \X (1 .. size) |-> ReadTried(wi[1], records[wi[2]])]
            Follows(it) ==
              it = [t \in SUBSET (1 .. size) |->
                      IF t = {} THEN base
                      ELSE LET x == Max(t) IN ReadTried(it[t \ {x}], records[x])]
            it0 == CHOOSE it : Follows(it)
<1>0. /\ size \in Nat /\ DOMAIN records = 1 .. size
      /\ \A i \in 1 .. size : records[i] \in FileRecords
  <2>1. size \in Nat /\ records \in [1 .. size -> FileRecords] BY LenProperties
  <2>. QED BY <2>1
<1>1. FoldLeft(ReadTried, base, records) = it0[1 .. size]
  BY <1>0, Zenon DEF FoldLeft, MapThenFoldSet
<1>3. F \in [W \X (1 .. size) -> W]
  <2>1. ASSUME NEW wi \in W \X (1 .. size)
        PROVE  ReadTried(wi[1], records[wi[2]]) \in W
    <3>. DEFINE w == wi[1]
                i == wi[2]
    <3>1. w \in W /\ i \in 1 .. size BY Zenon
    <3>2. records[i] \in FileRecords BY <1>0, <3>1
    <3>. HIDE DEF w, i
    <3>3. ReadTried(w, records[i]) \in W BY <3>1, <3>2, ReadLoose
    <3>. QED BY <3>3 DEF w, i
  <2>. HIDE DEF W
  <2>. QED BY <2>1
<1>3a. base \in W OBVIOUS
<1>. HIDE DEF W, F, size
<1>4. PICK g \in [SUBSET (1 .. size) -> W] : Folds(g, base, F, size) BY <1>0, <1>3, <1>3a, FoldExists
<1>5. ASSUME NEW it, NEW t \in SUBSET (1 .. size), t # {}, it[t \ {Max(t)}] \in W
      PROVE  F[<<it[t \ {Max(t)}], Max(t)>>] = ReadTried(it[t \ {Max(t)}], records[Max(t)])
  <2>1. Max(t) \in 1 .. size BY <1>0, <1>5, MaxInInterval
  <2>. QED BY <1>5, <2>1 DEF F
<1>6. Follows(g)
  <2>1. ASSUME NEW t \in SUBSET (1 .. size)
        PROVE  g[t] = IF t = {} THEN base
                      ELSE LET x == Max(t) IN ReadTried(g[t \ {x}], records[x])
    <3>1. g[t] = IF t = {} THEN base ELSE F[<<g[t \ {Max(t)}], Max(t)>>] BY <1>4, Zenon DEF Folds
    <3>2. t \ {Max(t)} \in SUBSET (1 .. size) OBVIOUS
    <3>3. g[t \ {Max(t)}] \in W BY <1>4, <3>2
    <3>. QED BY <1>5, <3>1, <3>3, Zenon
  <2>2. g = [t \in SUBSET (1 .. size) |-> g[t]] OBVIOUS
  <2>. QED BY <2>1, <2>2, Zenon
<1>7. Follows(it0)
  <2>. HIDE DEF Follows
  <2>. QED BY <1>6, Zenon
<1>. HIDE DEF it0
<1>8. it0[{}] = base
  <2>1. {} \in SUBSET (1 .. size) OBVIOUS
  <2>. QED BY <1>7, <2>1, Zenon
<1>9. ASSUME NEW t \in SUBSET (1 .. size), t # {}, it0[t \ {Max(t)}] \in W
      PROVE  it0[t] = F[<<it0[t \ {Max(t)}], Max(t)>>]
  <2>1. it0[t] = ReadTried(it0[t \ {Max(t)}], records[Max(t)]) BY <1>7, <1>9, Zenon
  <2>. QED BY <1>5, <1>9, <2>1, Zenon
<1>. HIDE DEF Follows
<1>10. PICK v \in [0 .. size -> W] : Walk(v, it0, base, F, size)
  <2>1. Unfolds(it0, W, base, F, size) BY <1>8, <1>9 DEF Unfolds
  <2>. QED BY <1>0, <1>3, <1>3a, <2>1, FoldWalk
<1>11. ASSUME NEW i \in 1 .. size PROVE v[i] = ReadTried(v[i - 1], records[i])
  <2>1. i - 1 \in 0 .. size /\ i \in 1 .. size BY <1>0
  <2>2. v[i - 1] \in W BY <2>1
  <2>3. <<v[i - 1], i>> \in W \X (1 .. size) BY <2>1, <2>2
  <2>4. F[<<v[i - 1], i>>] = ReadTried(v[i - 1], records[i]) BY <2>3, Zenon DEF F
  <2>. QED BY <1>10, <2>1, <2>4 DEF Walk
<1>12. v[0] = base /\ v[size] = FoldLeft(ReadTried, base, records) BY <1>1, <1>10 DEF Walk
<1>13. v \in [0 .. size -> Loose] BY DEF W
<1>. QED BY <1>11, <1>12, <1>13, Zenon DEF size

-----------------------------------------------------------------------------
\* The tables r after the first i tried entries of the file, as if they were all
\* there are; their new buckets are vv.
Complete(r, n, vv, i) ==
    [nIdCount |-> r.nIdCount, mapInfo |-> r.mapInfo, mapAddr |-> r.mapAddr, vRandom |-> r.vRandom,
     nTried |-> i, vvTried |-> r.vvTried, nNew |-> n, vvNew |-> vv]
UpToIn(records, k, i) == {j \in 1 .. i : TriedBucketOf[records[j].service] = k}
EntriesOf(file, info, i) ==
    /\ DOMAIN info = 0 .. Len(file.new) + i - 1
    /\ \A j \in 1 .. Len(file.new) : Record(info[j - 1]) = file.new[j] /\ ~info[j - 1].fInTried
    /\ \A j \in 1 .. i : /\ Record(info[Len(file.new) + j - 1]) = file.tried[j]
                         /\ info[Len(file.new) + j - 1].fInTried
Loaded(file, vv, r, i) ==
    /\ AtRest(Complete(r, Len(file.new), vv, i))
    /\ r.nIdCount = Len(file.new) + i /\ EntriesOf(file, r.mapInfo, i)
    /\ \A k \in TriedBuckets : Len(r.vvTried[k]) = Cardinality(UpToIn(file.tried, k, i))
    /\ r.nTried = Len(file.tried)

\* What is known of a readable file.
LEMMA FileIs ==
    ASSUME NEW file, Readable(file)
    PROVE  /\ file.new \in Seq(FileRecords) /\ file.tried \in Seq(FileRecords)
           /\ file.buckets \in [NewBuckets -> SUBSET Ids]
           /\ Len(file.new) \in Nat /\ Len(file.tried) \in Nat
           /\ DOMAIN file.new = 1 .. Len(file.new) /\ DOMAIN file.tried = 1 .. Len(file.tried)
           /\ \A i \in 1 .. Len(file.new) : file.new[i] \in FileRecords
           /\ \A i \in 1 .. Len(file.tried) : file.tried[i] \in FileRecords
<1>. DEFINE news == file.new
            trieds == file.tried
<1>1. /\ news \in Seq(FileRecords) /\ trieds \in Seq(FileRecords)
      /\ file.buckets \in [NewBuckets -> SUBSET Ids]
  BY DEF Readable
<1>. HIDE DEF news, trieds
<1>2. /\ Len(news) \in Nat /\ news \in [1 .. Len(news) -> FileRecords]
      /\ Len(trieds) \in Nat /\ trieds \in [1 .. Len(trieds) -> FileRecords]
  BY <1>1, LenProperties
<1>3. /\ DOMAIN news = 1 .. Len(news) /\ DOMAIN trieds = 1 .. Len(trieds)
      /\ \A i \in 1 .. Len(news) : news[i] \in FileRecords
      /\ \A i \in 1 .. Len(trieds) : trieds[i] \in FileRecords
  BY <1>2
<1>. QED BY <1>1, <1>2, <1>3 DEF news, trieds

\* A tried bucket has room for the next entry of the file.
LEMMA RoomForNext ==
    ASSUME NEW records \in Seq(FileRecords), NEW i \in 0 .. Len(records) - 1,
           NEW k \in TriedBuckets, k = TriedBucketOf[records[i + 1].service],
           Cardinality(Entered(records, k)) <= TriedBucketSize
    PROVE  /\ Cardinality(UpToIn(records, k, i)) < TriedBucketSize
           /\ Cardinality(UpToIn(records, k, i + 1)) = Cardinality(UpToIn(records, k, i)) + 1
<1>. DEFINE before == UpToIn(records, k, i)
            all == Entered(records, k)
            upTo == UpToIn(records, k, i + 1)
<1>1. Len(records) \in Nat /\ DOMAIN records = 1 .. Len(records) BY LenProperties
<1>2. i \in Nat /\ i + 1 \in 1 .. Len(records) /\ \A j \in 1 .. i : j \in 1 .. Len(records) BY <1>1
<1>3. before \union {i + 1} \in SUBSET all /\ i + 1 \notin before
  BY <1>1, <1>2 DEF UpToIn, Entered
<1>4. upTo = before \union {i + 1} BY <1>2 DEF UpToIn
<1>5. IsFiniteSet(all)
  <2>1. IsFiniteSet(1 .. Len(records)) BY <1>1, FS_Interval
  <2>2. all \in SUBSET (1 .. Len(records)) BY <1>1 DEF Entered
  <2>. QED BY <2>1, <2>2, FS_Subset
<1>. HIDE DEF before, all, upTo
<1>6. before \in SUBSET all BY <1>3
<1>7. IsFiniteSet(before) BY <1>5, <1>6, FS_Subset
<1>8. Cardinality(before \union {i + 1}) = Cardinality(before) + 1 BY <1>3, <1>7, OneMore
<1>9. Cardinality(before \union {i + 1}) <= Cardinality(all) BY <1>3, <1>5, FS_Subset
<1>10. Cardinality(before) \in Nat /\ Cardinality(all) \in Nat BY <1>5, <1>7, FS_CardinalityType
<1>11. Cardinality(before) < TriedBucketSize
  <2>1. Cardinality(all) <= TriedBucketSize BY DEF all
  <2>. QED BY <1>8, <1>9, <1>10, <2>1, AddrManAssumption
<1>12. Cardinality(upTo) = Cardinality(before) + 1 BY <1>4, <1>8
<1>. QED BY <1>11, <1>12 DEF before, upTo

\* One tried entry is read: it is not dropped.
LEMMA LoadNext ==
    ASSUME NEW file, Readable(file), NEW vv, NEW r \in Loose,
           NEW i \in 0 .. Len(file.tried) - 1, Loaded(file, vv, r, i)
    PROVE  Loaded(file, vv, ReadTried(r, file.tried[i + 1]), i + 1)
<1>. DEFINE n == Len(file.new)
            t == Len(file.tried)
            m == Complete(r, n, vv, i)
            record == file.tried[i + 1]
            k == TriedBucketOf[record.service]
            q == ReadTried(r, record)
            c == Complete(q, n, vv, i + 1)
<1>1. /\ n \in Nat /\ t \in Nat /\ file.tried \in Seq(FileRecords)
      /\ \A j \in 1 .. t : file.tried[j] \in FileRecords
  BY FileIs
<1>2. i \in Nat /\ i + 1 \in 1 .. t BY <1>1
<1>3. record \in FileRecords BY <1>1, <1>2
<1>4. k \in TriedBuckets
  <2>1. record.service \in Services BY <1>3 DEF FileRecords
  <2>. QED BY <2>1, AddrManAssumption
<1>5. /\ AtRest(m) /\ r.nIdCount = n + i /\ r.nTried = t
      /\ DOMAIN r.mapInfo = 0 .. n + i - 1
      /\ \A j \in 1 .. n : Record(r.mapInfo[j - 1]) = file.new[j] /\ ~r.mapInfo[j - 1].fInTried
      /\ \A j \in 1 .. i : /\ Record(r.mapInfo[n + j - 1]) = file.tried[j]
                           /\ r.mapInfo[n + j - 1].fInTried
      /\ \A b \in TriedBuckets : Len(r.vvTried[b]) = Cardinality(UpToIn(file.tried, b, i))
  BY DEF Loaded, EntriesOf
<1>6. /\ m.nIdCount = r.nIdCount /\ m.mapInfo = r.mapInfo /\ m.mapAddr = r.mapAddr /\ m.vRandom = r.vRandom
      /\ m.nTried = i /\ m.vvTried = r.vvTried /\ m.nNew = n /\ m.vvNew = vv
  BY DEF Complete
<1>. HIDE DEF m
<1>7. /\ n + t <= MaxId /\ record.nLastSuccess # 0
      /\ Cardinality(Entered(file.tried, k)) <= TriedBucketSize
      /\ \A j \in 1 .. t : AddrOf[file.tried[j].service] = AddrOf[record.service] => j = i + 1
      /\ \A j \in 1 .. n : AddrOf[file.new[j].service] # AddrOf[record.service]
  BY <1>2, <1>4 DEF Readable
<1>8. /\ Cardinality(UpToIn(file.tried, k, i)) < TriedBucketSize
      /\ Cardinality(UpToIn(file.tried, k, i + 1)) = Cardinality(UpToIn(file.tried, k, i)) + 1
  BY <1>1, <1>4, <1>7, RoomForNext
<1>. HIDE DEF n, t, record, k, q, c
<1>9. m \in Tables /\ Named(m.mapInfo, m.mapAddr) BY <1>5, Zenon DEF AtRest, AtWork
<1>10. ~Known(m, record.service)
  <2>1. SUFFICES ASSUME Known(m, record.service) PROVE FALSE OBVIOUS
  <2>. DEFINE x == m.mapAddr[AddrOf[record.service]]
  <2>2. x \in DOMAIN m.mapInfo /\ AddrOf[m.mapInfo[x].service] = AddrOf[record.service]
    BY <1>9, <2>1 DEF Known, Named
  <2>. HIDE DEF x
  <2>3. x \in 0 .. n + i - 1 /\ x \in Int
    <3>1. DOMAIN m.mapInfo = 0 .. n + i - 1 BY <1>5, <1>6
    <3>2. x \in 0 .. n + i - 1 BY <2>2, <3>1
    <3>. QED BY <3>2
  <2>4. CASE x < n
    <3>1. x + 1 \in 1 .. n /\ (x + 1) - 1 = x BY <1>1, <2>3, <2>4
    <3>2. Record(r.mapInfo[x]) = file.new[x + 1] BY <1>5, <3>1
    <3>3. file.new[x + 1].service = r.mapInfo[x].service BY <3>2 DEF Record
    <3>. QED BY <1>6, <1>7, <2>2, <3>1, <3>3
  <2>5. CASE ~(x < n)
    <3>. DEFINE j == x - n + 1
    <3>1. j \in 1 .. i /\ j \in 1 .. t /\ n + j - 1 = x /\ j # i + 1 BY <1>1, <1>2, <2>3, <2>5
    <3>. HIDE DEF j
    <3>2. Record(r.mapInfo[x]) = file.tried[j] BY <1>5, <3>1
    <3>3. file.tried[j].service = r.mapInfo[x].service BY <3>2 DEF Record
    <3>. QED BY <1>6, <1>7, <2>2, <3>1, <3>3
  <2>. QED BY <2>4, <2>5
<1>11. m.nIdCount < MaxId BY <1>1, <1>2, <1>5, <1>6, <1>7, AddrManAssumption
<1>12. Len(m.vvTried[k]) < TriedBucketSize BY <1>4, <1>5, <1>6, <1>8
<1>13. /\ AtRest(WithTried(m, record))
       /\ DOMAIN WithTried(m, record).mapInfo = DOMAIN m.mapInfo \union {m.nIdCount}
       /\ Record(WithTried(m, record).mapInfo[m.nIdCount]) = record
       /\ WithTried(m, record).mapInfo[m.nIdCount].fInTried
       /\ \A j \in DOMAIN m.mapInfo : WithTried(m, record).mapInfo[j] = m.mapInfo[j]
  <2>. QED BY <1>3, <1>5, <1>7, <1>10, <1>11, <1>12, TakenKeeps DEF k
<1>14. /\ q.nIdCount = r.nIdCount + 1
       /\ q.mapInfo = Put(r.mapInfo, r.nIdCount, Entry(record, 0, TRUE, Len(r.vRandom) + 1))
       /\ q.mapAddr = Put(r.mapAddr, AddrOf[record.service], r.nIdCount)
       /\ q.vRandom = Append(r.vRandom, r.nIdCount)
       /\ q.vvTried = [r.vvTried EXCEPT ![k] = Append(@, r.nIdCount)]
       /\ q.nTried = r.nTried
  <2>1. Len(r.vvTried[k]) < TriedBucketSize BY <1>6, <1>12
  <2>2. q = [r EXCEPT !.nIdCount = r.nIdCount + 1,
                      !.mapInfo = Put(r.mapInfo, r.nIdCount, Entry(record, 0, TRUE, Len(r.vRandom) + 1)),
                      !.mapAddr = Put(r.mapAddr, AddrOf[record.service], r.nIdCount),
                      !.vRandom = Append(r.vRandom, r.nIdCount),
                      !.vvTried = [r.vvTried EXCEPT ![k] = Append(@, r.nIdCount)]]
    BY <2>1, Zenon DEF ReadTried, q, k
  <2>. QED BY <2>2 DEF Loose
<1>15. c = WithTried(m, record)
  BY <1>6, <1>14 DEF WithTried, Complete, c, k
<1>16. c.mapInfo = q.mapInfo BY DEF Complete, c
<1>17. m.nIdCount = n + i BY <1>5, <1>6
<1>17a. DOMAIN m.mapInfo = 0 .. n + i - 1 BY <1>5, <1>6
<1>17b. \A j \in 0 .. n + i - 1 : q.mapInfo[j] = r.mapInfo[j] BY <1>6, <1>13, <1>15, <1>16, <1>17a
<1>18. EntriesOf(file, q.mapInfo, i + 1)
  <2>1. DOMAIN q.mapInfo = 0 .. n + (i + 1) - 1
    <3>1. DOMAIN q.mapInfo = (0 .. n + i - 1) \union {n + i} BY <1>5, <1>6, <1>13, <1>15, <1>16, <1>17
    <3>. QED BY <1>1, <1>2, <3>1
  <2>2. ASSUME NEW j \in 1 .. n
        PROVE  Record(q.mapInfo[j - 1]) = file.new[j] /\ ~q.mapInfo[j - 1].fInTried
    <3>1. j - 1 \in 0 .. n + i - 1 BY <1>1, <1>2
    <3>2. q.mapInfo[j - 1] = r.mapInfo[j - 1] BY <1>17b, <3>1
    <3>. QED BY <1>5, <3>2
  <2>3. ASSUME NEW j \in 1 .. i + 1
        PROVE  Record(q.mapInfo[n + j - 1]) = file.tried[j] /\ q.mapInfo[n + j - 1].fInTried
    <3>1. CASE j = i + 1
      <4>1. n + j - 1 = m.nIdCount BY <1>1, <1>2, <1>17, <3>1
      <4>. QED BY <1>13, <1>15, <1>16, <3>1, <4>1 DEF record
    <3>2. CASE j # i + 1
      <4>1. j \in 1 .. i /\ n + j - 1 \in 0 .. n + i - 1 BY <1>1, <1>2, <3>2
      <4>2. q.mapInfo[n + j - 1] = r.mapInfo[n + j - 1] BY <1>17b, <4>1
      <4>. QED BY <1>5, <4>1, <4>2
    <3>. QED BY <3>1, <3>2
  <2>. QED BY <2>1, <2>2, <2>3 DEF EntriesOf, n
<1>19. ASSUME NEW b \in TriedBuckets
       PROVE  Len(q.vvTried[b]) = Cardinality(UpToIn(file.tried, b, i + 1))
  <2>. DEFINE bucket == r.vvTried[k]
  <2>1. r.vvTried \in [TriedBuckets -> Seq(Nat)] BY DEF Loose
  <2>2. CASE b = k
    <3>1. bucket \in Seq(Nat) /\ r.nIdCount \in Nat BY <1>1, <1>2, <1>4, <1>5, <2>1
    <3>2. q.vvTried[k] = Append(bucket, r.nIdCount) BY <1>4, <1>14, <2>1
    <3>3. Len(bucket) = Cardinality(UpToIn(file.tried, k, i)) BY <1>4, <1>5
    <3>. HIDE DEF bucket
    <3>4. Len(Append(bucket, r.nIdCount)) = Len(bucket) + 1 BY <3>1, AppendProperties
    <3>. QED BY <1>8, <2>2, <3>2, <3>3, <3>4
  <2>3. CASE b # k
    <3>1. q.vvTried[b] = r.vvTried[b] BY <1>14, <2>1, <2>3
    <3>2. UpToIn(file.tried, b, i + 1) = UpToIn(file.tried, b, i)
      <4>1. ASSUME NEW j \in 1 .. i + 1, TriedBucketOf[file.tried[j].service] = b PROVE j \in 1 .. i
        <5>1. j # i + 1 BY <2>3, <4>1 DEF record, k
        <5>. QED BY <1>2, <5>1
      <4>2. 1 .. i \subseteq 1 .. i + 1 BY <1>2
      <4>. QED BY <4>1, <4>2 DEF UpToIn
    <3>. QED BY <1>5, <3>1, <3>2
  <2>. QED BY <2>2, <2>3
<1>20. AtRest(c) BY <1>13, <1>15
<1>21. q.nIdCount = n + (i + 1) /\ q.nTried = t BY <1>1, <1>2, <1>5, <1>14
<1>22. Loaded(file, vv, q, i + 1) BY <1>18, <1>19, <1>20, <1>21 DEF Loaded, c, n, t
<1>. QED BY <1>22 DEF q, record

-----------------------------------------------------------------------------
\* The new buckets, and the tables with the new entries of the file.
BucketsRead(file, same) ==
    [b \in NewBuckets |->
        IF same
        THEN {nId \in file.buckets[b] :
                 Cardinality({c \in 0 .. b - 1 : nId \in file.buckets[c]}) < BucketsPerAddress}
        ELSE {nId \in 0 .. Len(file.new) - 1 :
                 NewBucketOf[file.new[nId + 1].service, file.new[nId + 1].source] = b}]
NewInfo(file, vv) ==
    [nId \in 0 .. Len(file.new) - 1 |->
        Entry(file.new[nId + 1], Cardinality({b \in NewBuckets : nId \in vv[b]}), FALSE, nId + 1)]
NewAddr(file) ==
    [a \in {AddrOf[file.new[i].service] : i \in 1 .. Len(file.new)} |->
        CHOOSE nId \in 0 .. Len(file.new) - 1 : AddrOf[file.new[nId + 1].service] = a]
NewRandom(file) == [i \in 1 .. Len(file.new) |-> i - 1]
NewRead(file, vv) ==
    [EmptyTables EXCEPT !.nIdCount = Len(file.new), !.nTried = Len(file.tried),
                        !.vRandom = NewRandom(file), !.mapInfo = NewInfo(file, vv),
                        !.mapAddr = NewAddr(file)]

\* The limit for one address leaves nothing out.
LEMMA BucketsReadIs ==
    ASSUME NEW file, Readable(file), NEW same \in BOOLEAN
    PROVE  /\ \A b \in NewBuckets : BucketsRead(file, same)[b] \subseteq 0 .. Len(file.new) - 1
           /\ \A nId \in 0 .. Len(file.new) - 1 :
                 Cardinality(BucketsWith(BucketsRead(file, same), nId)) \in 1 .. BucketsPerAddress
           /\ same => BucketsRead(file, same) = file.buckets
<1>. DEFINE n == Len(file.new)
            vv == BucketsRead(file, same)
<1>1. /\ n \in Nat /\ file.buckets \in [NewBuckets -> SUBSET Ids]
      /\ \A i \in 1 .. n : file.new[i] \in FileRecords
  BY FileIs
<1>2. /\ \A b \in NewBuckets : file.buckets[b] \subseteq 0 .. n - 1
      /\ \A nId \in 0 .. n - 1 : Cardinality(BucketsWith(file.buckets, nId)) \in 1 .. BucketsPerAddress
  BY DEF Readable
<1>. HIDE DEF n
<1>3. CASE same
  <2>1. ASSUME NEW b \in NewBuckets, NEW nId \in file.buckets[b]
        PROVE  Cardinality({c \in 0 .. b - 1 : nId \in file.buckets[c]}) < BucketsPerAddress
    <3>. DEFINE early == {c \in 0 .. b - 1 : nId \in file.buckets[c]}
                all == BucketsWith(file.buckets, nId)
    <3>1. nId \in 0 .. n - 1 BY <1>2
    <3>2. Cardinality(all) \in 1 .. BucketsPerAddress BY <1>2, <3>1
    <3>3. IsFiniteSet(all) /\ Cardinality(all) \in Nat BY BucketsFinite
    <3>4. early \union {b} \in SUBSET all /\ b \notin early
      <4>1. b \in Int /\ 0 .. b - 1 \subseteq NewBuckets /\ b \notin 0 .. b - 1
        BY AddrManAssumption DEF NewBuckets
      <4>. QED BY <4>1 DEF BucketsWith
    <3>. HIDE DEF early, all
    <3>5. early \in SUBSET all BY <3>4
    <3>6. IsFiniteSet(early) BY <3>3, <3>5, FS_Subset
    <3>7. Cardinality(early \union {b}) = Cardinality(early) + 1 BY <3>4, <3>6, OneMore
    <3>8. Cardinality(early \union {b}) <= Cardinality(all) BY <3>3, <3>4, FS_Subset
    <3>9. Cardinality(early) \in Nat BY <3>6, FS_CardinalityType
    <3>10. Cardinality(early) < BucketsPerAddress
      BY <3>2, <3>3, <3>7, <3>8, <3>9, AddrManAssumption
    <3>. QED BY <3>10 DEF early
  <2>2. ASSUME NEW b \in NewBuckets PROVE vv[b] = file.buckets[b]
    BY <1>3, <2>1 DEF BucketsRead
  <2>3. vv = [b \in NewBuckets |-> vv[b]] BY DEF BucketsRead
  <2>4. file.buckets = [b \in NewBuckets |-> file.buckets[b]] BY <1>1
  <2>5. vv = file.buckets
    <3>. HIDE DEF vv
    <3>. QED BY <2>2, <2>3, <2>4
  <2>. QED BY <1>2, <2>5 DEF n
<1>4. CASE ~same
  <2>1. \A b \in NewBuckets :
           vv[b] = {nId \in 0 .. n - 1 : NewBucketOf[file.new[nId + 1].service, file.new[nId + 1].source] = b}
    BY <1>4, Zenon DEF BucketsRead, n
  <2>. HIDE DEF vv
  <2>2. ASSUME NEW nId \in 0 .. n - 1
        PROVE  Cardinality(BucketsWith(vv, nId)) = 1
    <3>. DEFINE home == NewBucketOf[file.new[nId + 1].service, file.new[nId + 1].source]
    <3>1. nId + 1 \in 1 .. n BY <1>1
    <3>2. file.new[nId + 1] \in FileRecords BY <1>1, <3>1
    <3>3. home \in NewBuckets
      <4>. DEFINE record == file.new[nId + 1]
      <4>1. record.service \in Services /\ record.source \in Sources BY <3>2 DEF FileRecords
      <4>. HIDE DEF record
      <4>2. NewBucketOf[record.service, record.source] \in NewBuckets BY <4>1, AddrManAssumption
      <4>. QED BY <4>2 DEF record
    <3>4. ASSUME NEW b \in NewBuckets PROVE nId \in vv[b] <=> b = home
      <4>1. vv[b] = {j \in 0 .. n - 1 : NewBucketOf[file.new[j + 1].service, file.new[j + 1].source] = b}
        BY <2>1
      <4>. QED BY <4>1
    <3>. HIDE DEF home
    <3>5. BucketsWith(vv, nId) = {home} BY <3>3, <3>4 DEF BucketsWith
    <3>. QED BY <3>5, FS_Singleton
  <2>3. 1 \in 1 .. BucketsPerAddress BY AddrManAssumption
  <2>4. \A b \in NewBuckets : vv[b] \subseteq 0 .. n - 1 BY <2>1
  <2>5. \A nId \in 0 .. n - 1 : Cardinality(BucketsWith(vv, nId)) \in 1 .. BucketsPerAddress
    BY <2>2, <2>3
  <2>. QED BY <1>4, <2>4, <2>5 DEF vv, n
<1>. QED BY <1>3, <1>4

\* The new entries are read.
LEMMA LoadFirst ==
    ASSUME NEW file, Readable(file), NEW vv, vv \in [NewBuckets -> SUBSET Ids],
           \A b \in NewBuckets : vv[b] \subseteq 0 .. Len(file.new) - 1,
           \A nId \in 0 .. Len(file.new) - 1 :
               Cardinality(BucketsWith(vv, nId)) \in 1 .. BucketsPerAddress
    PROVE  Loaded(file, vv, NewRead(file, vv), 0) /\ NewRead(file, vv) \in Loose
<1>. DEFINE n == Len(file.new)
            r == NewRead(file, vv)
            m == Complete(r, n, vv, 0)
            D == 0 .. n - 1
            info == NewInfo(file, vv)
            addr == NewAddr(file)
            rand == NewRandom(file)
            tried == [k \in TriedBuckets |-> << >>]
<1>1. /\ n \in Nat /\ Len(file.tried) \in Nat
      /\ \A i \in 1 .. n : file.new[i] \in FileRecords
  BY FileIs
<1>2. n + Len(file.tried) <= MaxId
      /\ \A i, j \in 1 .. n : AddrOf[file.new[i].service] = AddrOf[file.new[j].service] => i = j
  BY DEF Readable
<1>3. /\ r.nIdCount = n /\ r.mapInfo = info /\ r.mapAddr = addr /\ r.vRandom = rand
      /\ r.nTried = Len(file.tried) /\ r.vvTried = tried /\ r.nNew = 0
      /\ r.vvNew = [b \in NewBuckets |-> {}]
      /\ r = [nIdCount |-> r.nIdCount, mapInfo |-> r.mapInfo, mapAddr |-> r.mapAddr, vRandom |-> r.vRandom,
              nTried |-> r.nTried, vvTried |-> r.vvTried, nNew |-> r.nNew, vvNew |-> r.vvNew]
  <2>1. r = [nIdCount |-> n, mapInfo |-> info, mapAddr |-> addr, vRandom |-> rand,
             nTried |-> Len(file.tried), vvTried |-> tried, nNew |-> 0,
             vvNew |-> [b \in NewBuckets |-> {}]]
    <3>. DEFINE none == << >>
                free == [b \in NewBuckets |-> {}]
                t == Len(file.tried)
    <3>1. EmptyTables = [nIdCount |-> 0, mapInfo |-> none, mapAddr |-> none, vRandom |-> none,
                         nTried |-> 0, vvTried |-> tried, nNew |-> 0, vvNew |-> free]
      BY Zenon DEF EmptyTables
    <3>2. r = [EmptyTables EXCEPT !.nIdCount = n, !.nTried = t, !.vRandom = rand,
                                  !.mapInfo = info, !.mapAddr = addr]
      BY Zenon DEF NewRead
    <3>. HIDE DEF none, free, t, r, n, info, addr, rand, tried
    <3>3. /\ r.nIdCount = n /\ r.mapInfo = info /\ r.mapAddr = addr /\ r.vRandom = rand
          /\ r.nTried = t /\ r.vvTried = tried /\ r.nNew = 0 /\ r.vvNew = free
      BY <3>1, <3>2
    <3>4. DOMAIN r = {"nIdCount", "mapInfo", "mapAddr", "vRandom", "nTried", "vvTried", "nNew", "vvNew"}
      BY <3>1, <3>2
    <3>5. r = [x \in DOMAIN r |-> r[x]] BY <3>2
    <3>6. r = [nIdCount |-> r.nIdCount, mapInfo |-> r.mapInfo, mapAddr |-> r.mapAddr,
               vRandom |-> r.vRandom, nTried |-> r.nTried, vvTried |-> r.vvTried,
               nNew |-> r.nNew, vvNew |-> r.vvNew]
      BY <3>4, <3>5
    <3>. QED BY <3>3, <3>6, Zenon DEF t, free
  <2>. HIDE DEF r, n, info, addr, rand, tried
  <2>. QED BY <2>1
<1>. HIDE DEF r
<1>4. /\ m.nIdCount = n /\ m.mapInfo = info /\ m.mapAddr = addr /\ m.vRandom = rand
      /\ m.nTried = 0 /\ m.vvTried = tried /\ m.nNew = n /\ m.vvNew = vv
      /\ m = [nIdCount |-> m.nIdCount, mapInfo |-> m.mapInfo, mapAddr |-> m.mapAddr, vRandom |-> m.vRandom,
              nTried |-> m.nTried, vvTried |-> m.vvTried, nNew |-> m.nNew, vvNew |-> m.vvNew]
  BY <1>3 DEF Complete
<1>. HIDE DEF m
<1>5. MaxId \in Nat /\ D \in SUBSET Ids /\ n \in 0 .. MaxId
  <2>. DEFINE t == Len(file.tried)
  <2>1. t \in Nat /\ n + t <= MaxId BY <1>1, <1>2
  <2>. HIDE DEF n, t
  <2>. QED BY <1>1, <2>1, AddrManAssumption DEF Ids
<1>6. ASSUME NEW nId \in D
      PROVE  /\ nId + 1 \in 1 .. n /\ nId \in Nat /\ (nId + 1) - 1 = nId
             /\ file.new[nId + 1] \in FileRecords
             /\ Cardinality(BucketsWith(vv, nId)) \in 1 .. BucketsPerAddress
             /\ info[nId].service = file.new[nId + 1].service
             /\ Record(info[nId]) = file.new[nId + 1]
             /\ info[nId].nRefCount = Cardinality(BucketsWith(vv, nId))
             /\ info[nId].fInTried = FALSE /\ info[nId].nRandomPos = nId + 1
             /\ info[nId] \in CAddrInfo
  <2>1. nId + 1 \in 1 .. n /\ nId \in Nat /\ (nId + 1) - 1 = nId BY <1>1
  <2>2. file.new[nId + 1] \in FileRecords BY <1>1, <2>1
  <2>. DEFINE card == Cardinality(BucketsWith(vv, nId))
              record == file.new[nId + 1]
  <2>3. card \in 1 .. BucketsPerAddress /\ card \in Nat BY BucketsFinite
  <2>4. info[nId] = Entry(record, card, FALSE, nId + 1) BY DEF NewInfo, BucketsWith
  <2>. HIDE DEF card, record, info
  <2>5. record \in FileRecords BY <2>2 DEF record
  <2>6. /\ info[nId].service = record.service /\ Record(info[nId]) = record
        /\ info[nId].nRefCount = card
        /\ info[nId].fInTried = FALSE /\ info[nId].nRandomPos = nId + 1 /\ info[nId] \in CAddrInfo
    BY <2>1, <2>3, <2>4, <2>5 DEF Entry, Record, FileRecords, CAddrInfo
  <2>. QED BY <2>1, <2>2, <2>3, <2>6 DEF card, record
<1>7. DOMAIN info = D /\ info \in [D -> CAddrInfo]
  <2>1. DOMAIN info = D /\ info = [nId \in D |-> info[nId]] BY DEF NewInfo
  <2>. HIDE DEF info, D
  <2>. QED BY <1>6, <2>1
<1>. DEFINE AddrAt(nId) == AddrOf[file.new[nId + 1].service]
<1>8. /\ DOMAIN addr = {AddrOf[file.new[i].service] : i \in 1 .. n}
      /\ \A a \in DOMAIN addr : addr[a] \in D /\ AddrAt(addr[a]) = a
      /\ \A nId \in D : AddrAt(nId) \in DOMAIN addr
  <2>1. /\ DOMAIN addr = {AddrOf[file.new[i].service] : i \in 1 .. n}
        /\ \A a \in DOMAIN addr : addr[a] = CHOOSE nId \in D : AddrAt(nId) = a
    BY DEF NewAddr
  <2>. HIDE DEF addr
  <2>2. ASSUME NEW a \in DOMAIN addr PROVE \E nId \in D : AddrAt(nId) = a
    <3>1. PICK i \in 1 .. n : AddrOf[file.new[i].service] = a BY <2>1
    <3>2. i - 1 \in D /\ (i - 1) + 1 = i BY <1>1
    <3>3. AddrAt(i - 1) = a BY <3>1, <3>2
    <3>. QED BY <3>2, <3>3
  <2>3. ASSUME NEW nId \in D PROVE AddrAt(nId) \in DOMAIN addr
    <3>1. nId + 1 \in 1 .. n BY <1>1
    <3>. QED BY <2>1, <3>1
  <2>. HIDE DEF AddrAt, D
  <2>. QED BY <2>1, <2>2, <2>3
<1>9. \A i, j \in D : AddrAt(i) = AddrAt(j) => i = j
  <2>1. ASSUME NEW i \in D, NEW j \in D, AddrAt(i) = AddrAt(j) PROVE i = j
    <3>1. i + 1 \in 1 .. n /\ j + 1 \in 1 .. n BY <1>1
    <3>2. i + 1 = j + 1 BY <1>2, <2>1, <3>1
    <3>. QED BY <3>2
  <2>. QED BY <2>1
<1>10. addr \in [DOMAIN addr -> D] /\ DOMAIN addr \in SUBSET Addrs
  <2>1. addr = [a \in DOMAIN addr |-> addr[a]]
    <3>. DEFINE S == {AddrOf[file.new[i].service] : i \in 1 .. n}
                Lowest(a) == CHOOSE nId \in D : AddrOf[file.new[nId + 1].service] = a
    <3>1. addr = [a \in S |-> Lowest(a)] BY DEF NewAddr
    <3>. HIDE DEF S, Lowest, addr
    <3>. QED BY <3>1
  <2>2. ASSUME NEW i \in 1 .. n PROVE AddrOf[file.new[i].service] \in Addrs
    <3>1. file.new[i] \in FileRecords BY <1>1
    <3>. QED BY <3>1, AddrManAssumption DEF FileRecords
  <2>. HIDE DEF addr
  <2>. QED BY <1>8, <2>1, <2>2
<1>11. /\ rand \in [1 .. n -> D] /\ \A i \in 1 .. n : rand[i] = i - 1
  <2>1. \A i \in 1 .. n : i - 1 \in D BY <1>1
  <2>. QED BY <2>1 DEF NewRandom
<1>12. rand \in Seq(D) /\ Len(rand) = n
  <2>. HIDE DEF rand, D
  <2>1. rand \in Seq(D)
    <3>1. n \in Nat /\ rand \in [1 .. n -> D] BY <1>1, <1>11
    <3>. HIDE DEF n
    <3>. QED BY <3>1, IntervalSeq
  <2>2. DOMAIN rand = 1 .. Len(rand) /\ Len(rand) \in Nat BY <2>1, LenProperties
  <2>3. 1 .. n = 1 .. Len(rand) BY <1>11, <2>2
  <2>. QED BY <1>1, <2>1, <2>2, <2>3, SameLength
<1>13. \A k \in TriedBuckets : tried[k] = << >> /\ Len(tried[k]) = 0 OBVIOUS
<1>14. \A S : tried \in [TriedBuckets -> Seq(S)] OBVIOUS
<1>. HIDE DEF info, addr, rand, tried
<1>15. m \in Tables
  <2>1. info \in Infos BY <1>5, <1>7, InfosAre
  <2>2. addr \in UNION {[A -> Ids] : A \in SUBSET Addrs} BY <1>5, <1>10
  <2>3. rand \in Seq(Ids)
    <3>1. n \in Nat /\ rand \in [1 .. n -> Ids] BY <1>1, <1>5, <1>11
    <3>. HIDE DEF n
    <3>. QED BY <3>1, IntervalSeq
  <2>4. tried \in [TriedBuckets -> Seq(Ids)] BY <1>14
  <2>. HIDE DEF n
  <2>. QED BY <1>1, <1>4, <1>5, <2>1, <2>2, <2>3, <2>4 DEF Tables
<1>16. Listed(info, rand)
  <2>1. ASSUME NEW nId \in D
        PROVE  info[nId].nRandomPos \in 1 .. Len(rand) /\ rand[info[nId].nRandomPos] = nId
    BY <1>6, <1>11, <1>12
  <2>2. ASSUME NEW p \in 1 .. Len(rand)
        PROVE  rand[p] \in D /\ info[rand[p]].nRandomPos = p
    <3>1. p \in 1 .. n /\ p \in Int /\ (p - 1) + 1 = p BY <1>1, <1>12
    <3>2. rand[p] = p - 1 /\ p - 1 \in D BY <1>1, <1>11, <3>1
    <3>. HIDE DEF D
    <3>3. info[p - 1].nRandomPos = (p - 1) + 1 BY <1>6, <3>2
    <3>. QED BY <3>1, <3>2, <3>3
  <2>. QED BY <1>7, <2>1, <2>2 DEF Listed
<1>17. Named(info, addr)
  <2>1. ASSUME NEW nId \in D
        PROVE  AddrOf[info[nId].service] \in DOMAIN addr /\ addr[AddrOf[info[nId].service]] = nId
    <3>1. AddrOf[info[nId].service] = AddrAt(nId) BY <1>6
    <3>. HIDE DEF AddrAt
    <3>2. AddrAt(nId) \in DOMAIN addr BY <1>8
    <3>3. addr[AddrAt(nId)] \in D /\ AddrAt(addr[AddrAt(nId)]) = AddrAt(nId) BY <1>8, <3>2
    <3>. QED BY <1>9, <3>1, <3>2, <3>3
  <2>2. ASSUME NEW a \in DOMAIN addr
        PROVE  addr[a] \in D /\ AddrOf[info[addr[a]].service] = a
    BY <1>6, <1>8
  <2>. QED BY <1>7, <2>1, <2>2 DEF Named
<1>18. InPlace(info, tried)
  <2>1. TriedBucketSize \in Nat BY AddrManAssumption
  <2>2. \A k \in TriedBuckets : 1 .. Len(tried[k]) = {} BY <1>13
  <2>3. \A nId \in D : ~info[nId].fInTried BY <1>6
  <2>. QED BY <1>7, <1>13, <2>1, <2>2, <2>3 DEF InPlace
<1>19. CountedIn(info, vv, -1)
  <2>1. ASSUME NEW nId \in D
        PROVE  info[nId].nRefCount = Cardinality(BucketsWith(vv, nId)) + (IF nId = -1 THEN 1 ELSE 0)
    <3>1. nId # -1 OBVIOUS
    <3>2. Cardinality(BucketsWith(vv, nId)) \in Nat BY BucketsFinite
    <3>3. info[nId].nRefCount = Cardinality(BucketsWith(vv, nId)) BY <1>6
    <3>. QED BY <3>1, <3>2, <3>3
  <2>. QED BY <1>7, <2>1 DEF CountedIn
<1>20. Ranked(info, -1)
  <2>1. ASSUME NEW nId \in D
        PROVE  ~info[nId].fInTried /\ nId # -1 /\ info[nId].nRefCount \in 1 .. BucketsPerAddress
    <3>1. nId # -1 OBVIOUS
    <3>2. /\ info[nId].fInTried = FALSE /\ info[nId].nRefCount = Cardinality(BucketsWith(vv, nId))
          /\ Cardinality(BucketsWith(vv, nId)) \in 1 .. BucketsPerAddress
      BY <1>6
    <3>. QED BY <3>1, <3>2
  <2>. QED BY <1>7, <2>1 DEF Ranked
<1>21. Cardinality(TriedIn(info)) = 0 /\ Cardinality(NewIn(info)) = n
  <2>1. TriedIn(info) = {} /\ NewIn(info) = D BY <1>6, <1>7 DEF TriedIn, NewIn
  <2>2. Cardinality(D) = n
    <3>1. 0 \in Int /\ n - 1 \in Int BY <1>1
    <3>2. Cardinality(0 .. n - 1) = IF 0 > n - 1 THEN 0 ELSE (n - 1) - 0 + 1 BY <3>1, FS_Interval
    <3>. QED BY <1>1, <3>2
  <2>. QED BY <2>1, <2>2, FS_EmptySet
<1>22. \A j \in D : j < n BY <1>1
<1>23. AtRest(m)
  BY <1>4, <1>7, <1>15, <1>16, <1>17, <1>18, <1>19, <1>20, <1>21, <1>22 DEF AtRest, AtWork
<1>24. EntriesOf(file, info, 0)
  <2>1. DOMAIN info = 0 .. n + 0 - 1 BY <1>1, <1>7
  <2>2. ASSUME NEW j \in 1 .. n PROVE Record(info[j - 1]) = file.new[j] /\ ~info[j - 1].fInTried
    <3>1. j - 1 \in D /\ (j - 1) + 1 = j BY <1>1
    <3>. QED BY <1>6, <3>1
  <2>. QED BY <2>1, <2>2 DEF EntriesOf
<1>25. ASSUME NEW k \in TriedBuckets PROVE Len(tried[k]) = Cardinality(UpToIn(file.tried, k, 0))
  <2>1. UpToIn(file.tried, k, 0) = {} BY DEF UpToIn
  <2>. QED BY <1>13, <2>1, FS_EmptySet
<1>26. Loaded(file, vv, r, 0)
  <2>1. r.nIdCount = n + 0 BY <1>1, <1>3
  <2>. QED BY <1>3, <1>23, <1>24, <1>25, <2>1 DEF Loaded, m
<1>27. r \in Loose
  <2>. DEFINE infos == UNION {[E -> CAddrInfo] : E \in SUBSET Nat}
              addrs == UNION {[B -> Nat] : B \in SUBSET Addrs}
  <2>1. Loose = [nIdCount : Nat, mapInfo : infos, mapAddr : addrs, vRandom : Seq(Nat),
                 nTried : Int, vvTried : [TriedBuckets -> Seq(Nat)],
                 nNew : Int, vvNew : [NewBuckets -> SUBSET Ids]]
    BY Zenon DEF Loose
  <2>2. D \in SUBSET Nat OBVIOUS
  <2>3. info \in infos BY <1>7, <2>2
  <2>4. addr \in addrs BY <1>10, <2>2
  <2>5. rand \in Seq(Nat)
    <3>. HIDE DEF D, n, infos, addrs
    <3>1. rand \in [1 .. n -> Nat] BY <1>11, <2>2
    <3>. QED BY <1>1, <3>1, SeqDef
  <2>6. [b \in NewBuckets |-> {}] \in [NewBuckets -> SUBSET Ids] OBVIOUS
  <2>7. tried \in [TriedBuckets -> Seq(Nat)] BY <1>14
  <2>. HIDE DEF infos, addrs, n
  <2>. QED BY <1>1, <1>3, <2>1, <2>3, <2>4, <2>5, <2>6, <2>7
<1>. QED BY <1>26, <1>27 DEF r

\* What the reader makes of a file: tables at rest with the entries of the file.
Restored(file, m) == AtRest(m) /\ EntriesOf(file, m.mapInfo, Len(file.tried))

\* The tables read from any readable file are at rest, with its entries and its buckets.
LEMMA UnserializeIs ==
    ASSUME NEW file, Readable(file), NEW same \in BOOLEAN
    PROVE  /\ Restored(file, Unserialize(file, same))
           /\ same => Unserialize(file, same).vvNew = file.buckets
<1>. DEFINE n == Len(file.new)
            t == Len(file.tried)
            vv == BucketsRead(file, same)
            base == NewRead(file, vv)
            read == FoldLeft(ReadTried, base, file.tried)
<1>1. /\ n \in Nat /\ t \in Nat /\ file.tried \in Seq(FileRecords)
      /\ file.buckets \in [NewBuckets -> SUBSET Ids]
  BY FileIs
<1>2. /\ \A b \in NewBuckets : vv[b] \subseteq 0 .. n - 1
      /\ \A nId \in 0 .. n - 1 : Cardinality(BucketsWith(vv, nId)) \in 1 .. BucketsPerAddress
      /\ same => vv = file.buckets
  BY BucketsReadIs
<1>3. vv \in [NewBuckets -> SUBSET Ids]
  <2>1. 0 .. n - 1 \subseteq Ids
    <3>1. n + t <= MaxId BY DEF Readable
    <3>. HIDE DEF n, t
    <3>. QED BY <1>1, <3>1, AddrManAssumption DEF Ids
  <2>2. vv = [b \in NewBuckets |-> vv[b]] BY DEF BucketsRead
  <2>. HIDE DEF vv, n
  <2>. QED BY <1>2, <2>1, <2>2
<1>4. Unserialize(file, same) =
        [nIdCount |-> read.nIdCount, mapInfo |-> read.mapInfo, mapAddr |-> read.mapAddr,
         vRandom |-> read.vRandom, nTried |-> read.nTried, vvTried |-> read.vvTried,
         nNew |-> n, vvNew |-> vv]
  BY Zenon DEF Unserialize, BucketsRead, NewRead, NewInfo, NewAddr, NewRandom
<1>5. Loaded(file, vv, base, 0) /\ base \in Loose
  <2>. HIDE DEF vv
  <2>. QED BY <1>2, <1>3, LoadFirst
<1>. HIDE DEF vv, base
<1>6. PICK v \in [0 .. t -> Loose] :
         /\ v[0] = base /\ v[t] = read
         /\ \A i \in 1 .. t : v[i] = ReadTried(v[i - 1], file.tried[i])
  BY <1>1, <1>5, ReadWalk
<1>. HIDE DEF n, t, read
<1>. DEFINE L == {i \in 0 .. t : Loaded(file, vv, v[i], i)}
<1>7. 0 \in L BY <1>1, <1>5, <1>6
<1>8. ASSUME NEW i \in 0 .. t - 1, i \in L PROVE i + 1 \in L
  <2>1. i \in 0 .. t /\ i + 1 \in 1 .. t /\ i + 1 \in 0 .. t /\ (i + 1) - 1 = i BY <1>1
  <2>2. Loaded(file, vv, v[i], i) /\ v[i] \in Loose BY <1>8, <2>1
  <2>3. v[i + 1] = ReadTried(v[i], file.tried[i + 1]) BY <1>6, <2>1
  <2>4. i \in 0 .. Len(file.tried) - 1 BY DEF t
  <2>5. Loaded(file, vv, ReadTried(v[i], file.tried[i + 1]), i + 1) BY <2>2, <2>4, LoadNext
  <2>. QED BY <2>1, <2>3, <2>5
<1>9. t \in L
  <2>. HIDE DEF L
  <2>1. \A i \in 0 .. t : i \in L BY <1>1, <1>7, <1>8, UpTo
  <2>. QED BY <1>1, <2>1
<1>10. Loaded(file, vv, read, t) BY <1>6, <1>9
<1>11. AtRest(Complete(read, n, vv, t)) /\ EntriesOf(file, read.mapInfo, t) /\ read.nTried = t
  BY <1>10 DEF Loaded, n, t
<1>12. Unserialize(file, same) = Complete(read, n, vv, t) BY <1>4, <1>11 DEF Complete
<1>13. /\ Complete(read, n, vv, t).mapInfo = read.mapInfo
       /\ Complete(read, n, vv, t).vvNew = vv
  BY DEF Complete
<1>. QED BY <1>2, <1>11, <1>12, <1>13 DEF Restored, t

-----------------------------------------------------------------------------
\* The empty tables are at rest.
LEMMA EmptyAtRest == AtRest(EmptyTables)
<1>. DEFINE info == EmptyTables.mapInfo
            rand == EmptyTables.vRandom
            addr == EmptyTables.mapAddr
            tried == EmptyTables.vvTried
            new == EmptyTables.vvNew
            none == [b \in NewBuckets |-> {}]
            free == [k \in TriedBuckets |-> << >>]
<1>1. /\ info = << >> /\ rand = << >> /\ addr = << >> /\ tried = free /\ new = none
      /\ EmptyTables.nIdCount = 0 /\ EmptyTables.nTried = 0 /\ EmptyTables.nNew = 0
      /\ EmptyTables = [nIdCount |-> 0, mapInfo |-> info, mapAddr |-> addr, vRandom |-> rand,
                        nTried |-> 0, vvTried |-> tried, nNew |-> 0, vvNew |-> new]
  BY DEF EmptyTables
<1>2. DOMAIN info = {} /\ DOMAIN addr = {} /\ Len(rand) = 0 /\ rand \in Seq(Ids)
  BY <1>1
<1>3. info \in [{} -> CAddrInfo] /\ addr \in [{} -> Ids] BY <1>1
<1>4. /\ tried \in [TriedBuckets -> Seq(Ids)] /\ new \in [NewBuckets -> SUBSET Ids]
      /\ \A k \in TriedBuckets : Len(tried[k]) = 0
      /\ \A b \in NewBuckets : new[b] = {}
  BY <1>1
<1>. HIDE DEF info, rand, addr, tried, new, none, free
<1>5. info \in Infos BY <1>3, InfosAre
<1>6. EmptyTables \in Tables
  <2>. DEFINE addrs == UNION {[A -> Ids] : A \in SUBSET Addrs}
  <2>1. addr \in addrs BY <1>3
  <2>2. Tables = [nIdCount : 0 .. MaxId, mapInfo : Infos, mapAddr : addrs, vRandom : Seq(Ids),
                  nTried : Int, vvTried : [TriedBuckets -> Seq(Ids)],
                  nNew : Int, vvNew : [NewBuckets -> SUBSET Ids]]
    BY Zenon DEF Tables
  <2>3. 0 \in 0 .. MaxId BY AddrManAssumption
  <2>. HIDE DEF addrs
  <2>. QED BY <1>1, <1>2, <1>4, <1>5, <2>1, <2>2, <2>3
<1>7. Listed(info, rand) BY <1>2 DEF Listed
<1>8. Named(info, addr) BY <1>2 DEF Named
<1>9. InPlace(info, tried)
  <2>1. TriedBucketSize \in Nat BY AddrManAssumption
  <2>2. \A k \in TriedBuckets : 1 .. Len(tried[k]) = {} BY <1>4
  <2>. QED BY <1>2, <1>4, <2>1, <2>2 DEF InPlace
<1>10. CountedIn(info, new, -1) BY <1>2, <1>4 DEF CountedIn
<1>11. Ranked(info, -1) BY <1>2 DEF Ranked
<1>12. Cardinality(TriedIn(info)) = 0 /\ Cardinality(NewIn(info)) = 0
  <2>1. TriedIn(info) = {} /\ NewIn(info) = {} BY <1>2 DEF TriedIn, NewIn
  <2>. QED BY <2>1, FS_EmptySet
<1>. QED
  BY <1>1, <1>2, <1>6, <1>7, <1>8, <1>9, <1>10, <1>11, <1>12 DEF AtRest, AtWork, info, rand, addr, tried, new

\* There are as many places as entries.
LEMMA AllListed ==
    ASSUME NEW info \in Infos, NEW rand \in Seq(Ids), Listed(info, rand)
    PROVE  Len(rand) = Cardinality(DOMAIN info)
<1>. DEFINE D == DOMAIN info
            n == Len(rand)
<1>1. n \in Nat /\ \A i \in 1 .. n : rand[i] \in D /\ info[rand[i]].nRandomPos = i
  BY DEF Listed
<1>2. \A x \in D : info[x].nRandomPos \in 1 .. n /\ rand[info[x].nRandomPos] = x
  BY DEF Listed
<1>4. ExistsBijection(1 .. n, D)
  <2>. DEFINE f == [i \in 1 .. n |-> rand[i]]
  <2>1. f \in [1 .. n -> D] BY <1>1
  <2>2. \A i, j \in 1 .. n : f[i] = f[j] => i = j BY <1>1
  <2>3. \A x \in D : \E i \in 1 .. n : f[i] = x BY <1>2
  <2>. HIDE DEF f, D, n
  <2>4. f \in Bijection(1 .. n, D) BY <2>1, <2>2, <2>3 DEF Bijection, Injection, Surjection, IsInjective
  <2>. QED BY <2>4 DEF ExistsBijection
<1>. QED
  <2>1. IsFiniteSet(D) BY InfoFinite
  <2>. HIDE DEF D, n
  <2>2. Cardinality(D) = n BY <1>1, <1>4, FS_CountingElements
  <2>. QED BY <2>2 DEF D, n

\* The indexes of tables at rest are those Check_ looks for.
LEMMA RestIndexes ==
    ASSUME NEW m, AtRest(m)
    PROVE  IndexesAgreeIn(m)
<1>. DEFINE info == m.mapInfo
            D == DOMAIN info
            addr == m.mapAddr
<1>1. /\ m \in Tables /\ \A nId \in D : nId < m.nIdCount
      /\ Listed(info, m.vRandom) /\ Named(info, addr)
  BY Zenon DEF AtRest, AtWork
<1>2. m.vRandom \in Seq(Ids) /\ info \in Infos
  <2>1. D \in SUBSET Ids /\ info \in [D -> CAddrInfo] /\ m.vRandom \in Seq(Ids) BY <1>1, TablesAre
  <2>. QED BY <2>1, InfosAre
<1>3. Len(m.vRandom) = Cardinality(D) BY <1>1, <1>2, AllListed
<1>4. /\ \A nId \in D : AddrOf[info[nId].service] \in DOMAIN addr /\ addr[AddrOf[info[nId].service]] = nId
      /\ \A a \in DOMAIN addr : addr[a] \in D /\ AddrOf[info[addr[a]].service] = a
  BY <1>1 DEF Named
<1>5. \A nId \in D : info[nId].nRandomPos \in 1 .. Len(m.vRandom) /\ m.vRandom[info[nId].nRandomPos] = nId
  BY <1>1 DEF Listed
<1>6. DOMAIN addr = {AddrOf[info[nId].service] : nId \in D}
  <2>. HIDE DEF addr, info, D
  <2>. QED BY <1>4
<1>. QED BY <1>1, <1>3, <1>4, <1>5, <1>6 DEF IndexesAgreeIn

\* Where a tried entry is.
LEMMA TriedPlaceIs ==
    ASSUME NEW m, m.vvTried \in [TriedBuckets -> Seq(Ids)], NEW nId, NEW k, NEW i
    PROVE  <<k, i>> \in TriedPlacesOf(m, nId) <=>
               k \in TriedBuckets /\ i \in 1 .. Len(m.vvTried[k]) /\ m.vvTried[k][i] = nId
<1>1. ASSUME NEW b \in TriedBuckets PROVE DOMAIN m.vvTried[b] = 1 .. Len(m.vvTried[b])
  <2>1. m.vvTried[b] \in Seq(Ids) OBVIOUS
  <2>. QED BY <2>1, LenProperties
<1>2. <<k, i>> \in TriedPlaces(m) <=> k \in TriedBuckets /\ i \in DOMAIN m.vvTried[k]
  BY DEF TriedPlaces
<1>. QED BY <1>1, <1>2 DEF TriedPlacesOf

\* The places of the entries are those Check_ looks for.
LEMMA RestPlaces ==
    ASSUME NEW m, AtRest(m)
    PROVE  PlacesAgreeIn(m)
<1>. DEFINE info == m.mapInfo
            D == DOMAIN info
            tried == m.vvTried
            new == m.vvNew
            home(nId) == TriedBucketOf[info[nId].service]
<1>1. /\ m \in Tables /\ InPlace(info, tried) /\ CountedIn(info, new, -1) /\ Ranked(info, -1)
  BY Zenon DEF AtRest, AtWork
<1>2. /\ tried \in [TriedBuckets -> Seq(Ids)] /\ new \in [NewBuckets -> SUBSET Ids]
      /\ D \in SUBSET Ids /\ info \in [D -> CAddrInfo]
  BY <1>1, TablesAre
<1>3. ASSUME NEW nId \in D
      PROVE  nId # -1 /\ info[nId].nRefCount \in Nat /\ info[nId].fInTried \in BOOLEAN
             /\ home(nId) \in TriedBuckets
  <2>1. nId \in Nat BY <1>2 DEF Ids
  <2>2. info[nId] \in CAddrInfo BY <1>2
  <2>3. info[nId].service \in Services BY <2>2 DEF CAddrInfo
  <2>. QED BY <2>1, <2>2, <2>3, AddrManAssumption DEF CAddrInfo
<1>4. ASSUME NEW k \in TriedBuckets, NEW i \in 1 .. Len(tried[k])
      PROVE  tried[k][i] \in D /\ info[tried[k][i]].fInTried /\ home(tried[k][i]) = k
  BY <1>1 DEF InPlace
<1>5. \A k \in TriedBuckets : \A i, j \in 1 .. Len(tried[k]) : tried[k][i] = tried[k][j] => i = j
  BY <1>1 DEF InPlace
<1>6. ASSUME NEW nId \in D, info[nId].fInTried
      PROVE  \E i \in 1 .. Len(tried[home(nId)]) : tried[home(nId)][i] = nId
  BY <1>1, <1>6 DEF InPlace
<1>7. ASSUME NEW p \in TriedPlaces(m)
      PROVE  /\ p = <<p[1], p[2]>> /\ p[1] \in TriedBuckets
             /\ p[2] \in 1 .. Len(tried[p[1]])
  <2>1. PICK k \in TriedBuckets : p \in {k} \X DOMAIN tried[k] BY DEF TriedPlaces
  <2>2. DOMAIN tried[k] = 1 .. Len(tried[k])
    <3>1. tried[k] \in Seq(Ids) BY <1>2
    <3>. QED BY <3>1, LenProperties
  <2>. QED BY <2>1, <2>2
<1>8. ASSUME NEW nId \in D
      PROVE  info[nId].nRefCount = Cardinality(NewBucketsWith(m, nId))
  <2>1. info[nId].nRefCount = Cardinality(BucketsWith(new, nId)) + (IF nId = -1 THEN 1 ELSE 0)
    BY <1>1 DEF CountedIn
  <2>2. Cardinality(BucketsWith(new, nId)) \in Nat BY BucketsFinite
  <2>3. nId # -1 BY <1>3
  <2>4. NewBucketsWith(m, nId) = BucketsWith(new, nId) BY DEF NewBucketsWith, BucketsWith
  <2>. QED BY <2>1, <2>2, <2>3, <2>4
<1>9. ASSUME NEW nId \in D, info[nId].fInTried
      PROVE  /\ info[nId].nRefCount = 0 /\ info[nId].nLastSuccess # 0
             /\ \E p \in TriedPlacesOf(m, nId) : TriedPlacesOf(m, nId) = {p} /\ p[1] = home(nId)
  <2>1. info[nId].nRefCount = 0 /\ info[nId].nLastSuccess # 0 BY <1>1, <1>9 DEF Ranked
  <2>. DEFINE k == home(nId)
  <2>2. PICK i \in 1 .. Len(tried[k]) : tried[k][i] = nId BY <1>6, <1>9
  <2>3. k \in TriedBuckets BY <1>3
  <2>4. <<k, i>> \in TriedPlacesOf(m, nId) BY <1>2, <2>2, <2>3, TriedPlaceIs
  <2>5. ASSUME NEW p \in TriedPlacesOf(m, nId) PROVE p = <<k, i>>
    <3>1. p \in TriedPlaces(m) /\ tried[p[1]][p[2]] = nId BY DEF TriedPlacesOf
    <3>2. /\ p = <<p[1], p[2]>> /\ p[1] \in TriedBuckets /\ p[2] \in 1 .. Len(tried[p[1]])
      BY <1>7, <3>1
    <3>3. p[1] = k BY <1>4, <3>1, <3>2
    <3>4. p[2] = i BY <1>5, <2>2, <2>3, <3>1, <3>2, <3>3
    <3>. QED BY <3>2, <3>3, <3>4
  <2>. HIDE DEF k
  <2>6. TriedPlacesOf(m, nId) = {<<k, i>>} BY <2>4, <2>5
  <2>7. <<k, i>>[1] = k OBVIOUS
  <2>8. \E p \in TriedPlacesOf(m, nId) : TriedPlacesOf(m, nId) = {p} /\ p[1] = k BY <2>4, <2>6, <2>7
  <2>. QED BY <2>1, <2>8 DEF k
<1>10. ASSUME NEW nId \in D, ~info[nId].fInTried
       PROVE  info[nId].nRefCount \in 1 .. BucketsPerAddress /\ TriedPlacesOf(m, nId) = {}
  <2>1. info[nId].nRefCount \in 1 .. BucketsPerAddress BY <1>1, <1>3, <1>10 DEF Ranked
  <2>2. ASSUME NEW p \in TriedPlacesOf(m, nId) PROVE FALSE
    <3>1. p \in TriedPlaces(m) /\ tried[p[1]][p[2]] = nId BY DEF TriedPlacesOf
    <3>2. p[1] \in TriedBuckets /\ p[2] \in 1 .. Len(tried[p[1]]) BY <1>7, <3>1
    <3>. QED BY <1>4, <1>10, <3>1, <3>2
  <2>. QED BY <2>1, <2>2
<1>11. \A b \in NewBuckets : new[b] \subseteq D BY <1>1 DEF CountedIn
<1>12. ASSUME NEW p \in TriedPlaces(m) PROVE tried[p[1]][p[2]] \in D
  BY <1>4, <1>7
<1>. HIDE DEF info, D, home, tried, new
<1>13. /\ \A nId \in D :
            /\ info[nId].nRefCount = Cardinality(NewBucketsWith(m, nId))
            /\ IF info[nId].fInTried
               THEN /\ info[nId].nRefCount = 0
                    /\ info[nId].nLastSuccess # 0
                    /\ \E p \in TriedPlacesOf(m, nId) : TriedPlacesOf(m, nId) = {p} /\ p[1] = home(nId)
               ELSE info[nId].nRefCount \in 1 .. BucketsPerAddress /\ TriedPlacesOf(m, nId) = {}
       /\ \A b \in NewBuckets : new[b] \subseteq D
       /\ \A p \in TriedPlaces(m) : tried[p[1]][p[2]] \in D
  BY <1>8, <1>9, <1>10, <1>11, <1>12
<1>. QED BY <1>13, Zenon DEF PlacesAgreeIn, info, D, home, tried, new

\* The counters are those Check_ looks for.
LEMMA RestCounters ==
    ASSUME NEW m, AtRest(m)
    PROVE  CountersAgreeIn(m)
<1>. DEFINE info == m.mapInfo
            D == DOMAIN info
<1>1. /\ m.nTried = Cardinality(TriedIn(info)) /\ m.nNew = Cardinality(NewIn(info))
      /\ Ranked(info, -1) /\ m \in Tables
  BY Zenon DEF AtRest, AtWork
<1>2. D \in SUBSET Ids BY <1>1, TablesAre
<1>3. ASSUME NEW nId \in D PROVE info[nId].nRefCount # 0 <=> ~info[nId].fInTried
  <2>1. nId # -1 BY <1>2 DEF Ids
  <2>2. IF info[nId].fInTried THEN info[nId].nRefCount = 0 /\ info[nId].nLastSuccess # 0
        ELSE info[nId].nRefCount \in (IF nId = -1 THEN 0 ELSE 1) .. BucketsPerAddress
    BY <1>1 DEF Ranked
  <2>. QED BY <2>1, <2>2
<1>4. {nId \in D : info[nId].nRefCount # 0} = NewIn(info)
  <2>. HIDE DEF info, D
  <2>1. \A x : x \in {nId \in D : info[nId].nRefCount # 0} <=> x \in D /\ ~info[x].fInTried
    BY <1>3
  <2>2. NewIn(info) = {nId \in D : ~info[nId].fInTried} BY DEF NewIn, D
  <2>. QED BY <2>1, <2>2
<1>5. {nId \in D : info[nId].fInTried} = TriedIn(info) BY DEF TriedIn
<1>. QED BY <1>1, <1>4, <1>5 DEF CountersAgreeIn

-----------------------------------------------------------------------------
\* Select_ finds a bucket that is not empty.
LEMMA RestSelects ==
    ASSUME NEW m, AtRest(m), Len(m.vRandom) # 0
    PROVE  /\ m.nTried # 0 => \E k \in TriedBuckets : m.vvTried[k] # << >>
           /\ (m.nNew # 0 \/ m.nTried = 0) => \E b \in NewBuckets : m.vvNew[b] # {}
<1>. DEFINE info == m.mapInfo
            D == DOMAIN info
            rand == m.vRandom
<1>1. /\ m \in Tables /\ Listed(info, rand) /\ InPlace(info, m.vvTried)
      /\ CountedIn(info, m.vvNew, -1) /\ Ranked(info, -1)
      /\ m.nTried = Cardinality(TriedIn(info)) /\ m.nNew = Cardinality(NewIn(info))
  BY Zenon DEF AtRest, AtWork
<1>2. D \in SUBSET Ids /\ info \in [D -> CAddrInfo] /\ rand \in Seq(Ids) BY <1>1, TablesAre
<1>3. IsFiniteSet(TriedIn(info)) /\ IsFiniteSet(NewIn(info))
  <2>1. info \in Infos BY <1>2, InfosAre
  <2>. QED BY <2>1, PartsFinite
<1>4. ASSUME m.nTried # 0 PROVE \E k \in TriedBuckets : m.vvTried[k] # << >>
  <2>1. TriedIn(info) # {} BY <1>1, <1>4, FS_EmptySet
  <2>2. PICK nId \in D : info[nId].fInTried BY <2>1 DEF TriedIn
  <2>. DEFINE k == TriedBucketOf[info[nId].service]
  <2>3. k \in TriedBuckets
    <3>1. info[nId] \in CAddrInfo BY <1>2
    <3>2. info[nId].service \in Services BY <3>1 DEF CAddrInfo
    <3>. QED BY <3>2, AddrManAssumption
  <2>4. \E i \in 1 .. Len(m.vvTried[k]) : m.vvTried[k][i] = nId BY <1>1, <2>2 DEF InPlace
  <2>5. ASSUME m.vvTried[k] = << >> PROVE FALSE
    <3>1. Len(m.vvTried[k]) = 0 BY <2>5
    <3>. HIDE DEF k
    <3>. QED BY <2>4, <3>1
  <2>. QED BY <2>3, <2>5
<1>5. ASSUME NEW nId \in NewIn(info) PROVE \E b \in NewBuckets : m.vvNew[b] # {}
  <2>1. nId \in D /\ ~info[nId].fInTried BY DEF NewIn
  <2>2. nId # -1 BY <1>2, <2>1 DEF Ids
  <2>3. info[nId].nRefCount \in 1 .. BucketsPerAddress BY <1>1, <2>1, <2>2 DEF Ranked
  <2>4. info[nId].nRefCount = Cardinality(BucketsWith(m.vvNew, nId)) + (IF nId = -1 THEN 1 ELSE 0)
    BY <1>1, <2>1 DEF CountedIn
  <2>5. Cardinality(BucketsWith(m.vvNew, nId)) \in Nat BY BucketsFinite
  <2>6. Cardinality(BucketsWith(m.vvNew, nId)) # 0 BY <2>2, <2>3, <2>4, <2>5
  <2>7. BucketsWith(m.vvNew, nId) # {} BY <2>6, FS_EmptySet
  <2>. QED BY <2>7 DEF BucketsWith
<1>6. ASSUME m.nTried = 0 PROVE NewIn(info) # {}
  <2>1. TriedIn(info) = {} BY <1>1, <1>3, <1>6, FS_EmptySet
  <2>2. Len(rand) \in Nat BY <1>2, LenProperties
  <2>3. 1 \in 1 .. Len(rand) BY <2>2
  <2>4. rand[1] \in D BY <1>1, <2>3 DEF Listed
  <2>. QED BY <2>1, <2>4 DEF TriedIn, NewIn
<1>7. ASSUME m.nNew # 0 PROVE NewIn(info) # {}
  BY <1>1, <1>7, FS_EmptySet
<1>. QED BY <1>4, <1>5, <1>6, <1>7

\* Tables at rest pass Check_.
LEMMA InvChecks == AddrInv => Check_
<1>. SUFFICES ASSUME AddrInv PROVE Check_ OBVIOUS
<1>1. AtRest(am) /\ Readable(peersDat) BY DEF AddrInv
<1>2. /\ am \in Tables /\ InPlace(am.mapInfo, am.vvTried)
      /\ am.nTried = Cardinality(TriedIn(am.mapInfo)) /\ am.nNew = Cardinality(NewIn(am.mapInfo))
  BY <1>1, Zenon DEF AtRest, AtWork
<1>3. am.nTried \in Nat /\ am.nNew \in Nat
  <2>1. DOMAIN am.mapInfo \in SUBSET Ids /\ am.mapInfo \in [DOMAIN am.mapInfo -> CAddrInfo]
    BY <1>2, TablesAre
  <2>2. am.mapInfo \in Infos BY <2>1, InfosAre
  <2>. QED BY <1>2, <2>2, PartsFinite
<1>4. DOMAIN peersDat.buckets = NewBuckets
  <2>1. peersDat.buckets \in [NewBuckets -> SUBSET Ids] BY <1>1, FileIs
  <2>. QED BY <2>1
<1>5. TypeOK BY <1>2, <1>3, <1>4, TablesAre DEF TypeOK
<1>6. TriedBucketsBounded BY <1>2 DEF InPlace, TriedBucketsBounded
<1>7. SelectFinds BY <1>1, RestSelects DEF SelectFinds
<1>8. IndexesAgree /\ PlacesAgree /\ CountersAgree
  BY <1>1, RestIndexes, RestPlaces, RestCounters DEF IndexesAgree, PlacesAgree, CountersAgree
<1>. QED BY <1>5, <1>6, <1>7, <1>8 DEF Check_

-----------------------------------------------------------------------------
\* What every kind of step does to the tables at rest.
LEMMA FoundEntry ==
    ASSUME NEW m, AtRest(m), NEW s \in Services, Known(m, s)
    PROVE  /\ Find(m, s) \in DOMAIN m.mapInfo /\ m.mapInfo[Find(m, s)] \in CAddrInfo
           /\ AddrOf[m.mapInfo[Find(m, s)].service] = AddrOf[s]
<1>. DEFINE a == AddrOf[s]
<1>1. m \in Tables /\ Named(m.mapInfo, m.mapAddr) BY Zenon DEF AtRest, AtWork
<1>2. a \in DOMAIN m.mapAddr BY DEF Known
<1>3. m.mapAddr[a] \in DOMAIN m.mapInfo /\ AddrOf[m.mapInfo[m.mapAddr[a]].service] = a
  <2>. HIDE DEF a
  <2>. QED BY <1>1, <1>2 DEF Named
<1>4. m.mapInfo \in [DOMAIN m.mapInfo -> CAddrInfo] BY <1>1, TablesAre
<1>. QED BY <1>3, <1>4 DEF Find

\* An entry that counts for its buckets may take part in an announcement.
LEMMA RestWorks ==
    ASSUME NEW m, AtRest(m), NEW nId \in DOMAIN m.mapInfo
    PROVE  AtWork(m, -1, nId)
<1>1. /\ m \in Tables /\ \A j \in DOMAIN m.mapInfo : j < m.nIdCount
      /\ Listed(m.mapInfo, m.vRandom) /\ Named(m.mapInfo, m.mapAddr)
      /\ InPlace(m.mapInfo, m.vvTried) /\ CountedIn(m.mapInfo, m.vvNew, -1) /\ Ranked(m.mapInfo, -1)
      /\ m.nTried = Cardinality(TriedIn(m.mapInfo)) /\ m.nNew = Cardinality(NewIn(m.mapInfo))
  BY Zenon DEF AtRest, AtWork
<1>2. BucketsPerAddress \in Nat BY AddrManAssumption
<1>3. ASSUME NEW j \in DOMAIN m.mapInfo
      PROVE  IF m.mapInfo[j].fInTried THEN m.mapInfo[j].nRefCount = 0 /\ m.mapInfo[j].nLastSuccess # 0
             ELSE m.mapInfo[j].nRefCount \in (IF j = nId THEN 0 ELSE 1) .. BucketsPerAddress
  <2>1. j # -1
    <3>1. DOMAIN m.mapInfo \in SUBSET Ids BY <1>1, TablesAre
    <3>. QED BY <3>1 DEF Ids
  <2>2. IF m.mapInfo[j].fInTried THEN m.mapInfo[j].nRefCount = 0 /\ m.mapInfo[j].nLastSuccess # 0
        ELSE m.mapInfo[j].nRefCount \in (IF j = -1 THEN 0 ELSE 1) .. BucketsPerAddress
    BY <1>1 DEF Ranked
  <2>. QED BY <1>2, <2>1, <2>2
<1>4. Ranked(m.mapInfo, nId) BY <1>3 DEF Ranked
<1>. QED BY <1>1, <1>4 DEF AtWork

\* An unknown service.
LEMMA AddUnknownKeeps ==
    ASSUME AtRest(am), NEW s \in Services, NEW source \in Sources, AddUnknown(s, source)
    PROVE  AtRest(am') /\ Entering(WithNewEntry(am, s, source), am', am.nIdCount)
<1>. DEFINE m == am
            nId == m.nIdCount
            created == WithNewEntry(m, s, source)
<1>1. ~Known(m, s) /\ nId < MaxId /\ am' \in EnterBucket(created, nId, s, source)
  BY DEF AddUnknown, WithNewEntry
<1>. HIDE DEF created
<1>2. /\ AtWork(created, -1, nId) /\ DOMAIN created.mapInfo = DOMAIN m.mapInfo \union {nId}
      /\ ~created.mapInfo[nId].fInTried /\ created.mapInfo[nId].nRefCount = 0
  BY <1>1, CreateKeeps DEF created
<1>3. nId \in DOMAIN created.mapInfo /\ created.mapInfo[nId].nRefCount # BucketsPerAddress
  BY <1>2, AddrManAssumption
<1>. HIDE DEF m, nId
<1>4. AtRest(am') /\ Entering(created, am', nId) BY <1>1, <1>2, <1>3, EnterKeeps
<1>. QED BY <1>4 DEF m, nId, created

\* A known service.
LEMMA AddAgainKeeps ==
    ASSUME AtRest(am), NEW s \in Services, NEW source \in Sources, AddAgain(s, source)
    PROVE  AtRest(am') /\ Entering(am, am', Find(am, s)) /\ ~am.mapInfo[Find(am, s)].fInTried
<1>. DEFINE nId == Find(am, s)
            t == am.mapInfo[nId].service
<1>1. /\ Known(am, s) /\ ~am.mapInfo[nId].fInTried /\ am.mapInfo[nId].nRefCount # BucketsPerAddress
      /\ am' \in EnterBucket(am, nId, t, source)
  BY DEF AddAgain
<1>2. nId \in DOMAIN am.mapInfo /\ am.mapInfo[nId] \in CAddrInfo BY <1>1, FoundEntry
<1>3. t \in Services BY <1>2 DEF CAddrInfo
<1>4. AtWork(am, -1, nId) BY <1>2, RestWorks
<1>. HIDE DEF nId, t
<1>5. AtRest(am') /\ Entering(am, am', nId) BY <1>1, <1>2, <1>3, <1>4, EnterKeeps
<1>. QED BY <1>1, <1>5 DEF nId

\* A connection that has worked: the entry may be promoted.
LEMMA GoodKeeps ==
    ASSUME AtRest(am), NEW s \in Services, NEW nTime \in 1 .. MaxTime, Good(s, nTime)
    PROVE  /\ AtRest(am') /\ Find(am, s) \in DOMAIN am.mapInfo
           /\ \/ /\ DOMAIN am.mapInfo' = DOMAIN am.mapInfo
                 /\ \A j \in DOMAIN am.mapInfo : /\ am.mapInfo'[j].service = am.mapInfo[j].service
                                                 /\ am.mapInfo'[j].fInTried = am.mapInfo[j].fInTried
              \/ ~am.mapInfo[Find(am, s)].fInTried /\ Promoted(am, am', Find(am, s))
<1>. DEFINE nId == Find(am, s)
            found == [am EXCEPT !.mapInfo[nId].nLastSuccess = nTime]
<1>1. /\ Known(am, s)
      /\ \/ am' = found
         \/ \E b \in NewBuckets : ~am.mapInfo[nId].fInTried /\ am' \in MakeTried(found, nId, b)
  BY DEF Good
<1>2. nId \in DOMAIN am.mapInfo BY <1>1, FoundEntry
<1>. HIDE DEF nId
<1>3. /\ AtRest(found) /\ DOMAIN found.mapInfo = DOMAIN am.mapInfo
      /\ found.mapInfo[nId].nLastSuccess # 0
      /\ \A j \in DOMAIN am.mapInfo : /\ found.mapInfo[j].service = am.mapInfo[j].service
                                      /\ found.mapInfo[j].fInTried = am.mapInfo[j].fInTried
  BY <1>2, FoundKeeps
<1>. HIDE DEF found
<1>4. CASE am' = found
  BY <1>2, <1>3, <1>4 DEF nId
<1>5. ASSUME NEW b \in NewBuckets, ~am.mapInfo[nId].fInTried, am' \in MakeTried(found, nId, b)
      PROVE  AtRest(am') /\ Promoted(am, am', nId)
  <2>1. nId \in DOMAIN found.mapInfo /\ ~found.mapInfo[nId].fInTried BY <1>2, <1>3, <1>5
  <2>2. AtRest(am') /\ Promoted(found, am', nId) BY <1>3, <1>5, <2>1, MakeTriedKeeps
  <2>3. Promoted(am, am', nId) BY <1>3, <2>2 DEF Promoted
  <2>. QED BY <2>2, <2>3
<1>. QED BY <1>1, <1>2, <1>4, <1>5 DEF nId

\* The addresses that GetAddr_ gives away are exchanged in vRandom.
LEMMA GetAddrKeeps ==
    ASSUME AtRest(am), GetAddr
    PROVE  AtRest(am') /\ SameEntries(am.mapInfo, am'.mapInfo) /\ DOMAIN am'.mapInfo = DOMAIN am.mapInfo
<1>. DEFINE size == Len(am.vRandom)
            nNodes == (GetAddrMaxPct * size) \div 100
<1>1. am \in Tables /\ Listed(am.mapInfo, am.vRandom) BY Zenon DEF AtRest, AtWork
<1>2. size \in Nat
  <2>1. am.vRandom \in Seq(Ids) BY <1>1, TablesAre
  <2>. QED BY <2>1, LenProperties
<1>3. nNodes \in Nat
  <2>. HIDE DEF size
  <2>1. GetAddrMaxPct * size \in Nat BY <1>2, AddrManAssumption
  <2>. QED BY <2>1
<1>4. PICK pick \in Picks(nNodes, size) :
         am' = [am EXCEPT !.mapInfo = Shuffled(am, pick).mapInfo, !.vRandom = Shuffled(am, pick).vRandom]
  BY DEF GetAddr
<1>. HIDE DEF nNodes
<1>5. Reordered(am, Shuffled(am, pick)) BY <1>1, <1>3, <1>4, ShuffledIs
<1>. QED BY <1>4, <1>5, ReorderedKeeps

-----------------------------------------------------------------------------
\* AddrInv is inductive.
LEMMA AddrInvInit == Init => AddrInv
<1>1. AtRest(EmptyTables) BY EmptyAtRest
<1>2. Readable(Serialize(EmptyTables)) BY <1>1, SerializeIs, SavedReadable
<1>. QED BY <1>1, <1>2 DEF Init, AddrInv

\* Every operation that begins with tables at rest ends with them.
LEMMA AddrInvNext == AddrInv /\ [Next]_vars => AddrInv'
<1>. SUFFICES ASSUME AddrInv, [Next]_vars PROVE AtRest(am') /\ Readable(peersDat')
  BY DEF AddrInv
<1>1. AtRest(am) /\ Readable(peersDat) BY DEF AddrInv
<1>2. ASSUME NEW s \in Services, NEW source \in Sources, AddUnknown(s, source)
      PROVE  AtRest(am') /\ Readable(peersDat')
  <2>1. peersDat' = peersDat BY <1>2 DEF AddUnknown
  <2>2. AtRest(am') BY <1>1, <1>2, AddUnknownKeeps
  <2>. QED BY <1>1, <2>1, <2>2
<1>3. ASSUME NEW s \in Services, NEW source \in Sources, AddAgain(s, source)
      PROVE  AtRest(am') /\ Readable(peersDat')
  <2>1. peersDat' = peersDat BY <1>3 DEF AddAgain
  <2>2. AtRest(am') BY <1>1, <1>3, AddAgainKeeps
  <2>. QED BY <1>1, <2>1, <2>2
<1>4. ASSUME NEW s \in Services, NEW nTime \in 1 .. MaxTime, Good(s, nTime)
      PROVE  AtRest(am') /\ Readable(peersDat')
  <2>1. peersDat' = peersDat BY <1>4 DEF Good
  <2>2. AtRest(am') BY <1>1, <1>4, GoodKeeps
  <2>. QED BY <1>1, <2>1, <2>2
<1>5. CASE GetAddr
  <2>1. peersDat' = peersDat BY <1>5 DEF GetAddr
  <2>2. AtRest(am') BY <1>1, <1>5, GetAddrKeeps
  <2>. QED BY <1>1, <2>1, <2>2
<1>6. CASE DumpAddresses
  <2>1. am' = am /\ peersDat' = Serialize(am) BY <1>6 DEF DumpAddresses
  <2>2. Readable(Serialize(am)) BY <1>1, SerializeIs, SavedReadable
  <2>. QED BY <1>1, <2>1, <2>2
<1>7. ASSUME NEW same \in SameBucketCount, Restart(same)
      PROVE  AtRest(am') /\ Readable(peersDat')
  <2>1. am' = Unserialize(peersDat, same) /\ peersDat' = peersDat BY <1>7 DEF Restart
  <2>2. same \in BOOLEAN BY AddrManAssumption
  <2>3. AtRest(Unserialize(peersDat, same)) BY <1>1, <2>2, UnserializeIs DEF Restored
  <2>. QED BY <1>1, <2>1, <2>3
<1>8. CASE RestartUnreadable
  <2>1. am' = EmptyTables /\ peersDat' = peersDat BY <1>8 DEF RestartUnreadable
  <2>. QED BY <1>1, <2>1, EmptyAtRest
<1>9. CASE UNCHANGED vars
  BY <1>1, <1>9 DEF vars
<1>. QED BY <1>2, <1>3, <1>4, <1>5, <1>6, <1>7, <1>8, <1>9 DEF Next

\* After any announcements, promotions with and without an eviction, removals,
\* shuffles, saves and restarts, with any file the program has written, the tables
\* pass CAddrMan::Check_: indexes, buckets and counters agree, no tried bucket is
\* over its limit, and Select_ does not look for an entry in empty buckets.
THEOREM TablesStayConsistent == Spec => []Check_
<1>1. Init => AddrInv BY AddrInvInit
<1>2. AddrInv /\ [Next]_vars => AddrInv' BY AddrInvNext
<1>3. AddrInv => Check_ BY InvChecks
<1>. QED BY <1>1, <1>2, <1>3, PTL DEF Spec

-----------------------------------------------------------------------------
\* The places of the entries of a file, by the file.
PlacesInFile(file) ==
    UNION {{<<file.new[n + 1], b>> : n \in file.buckets[b]} : b \in NewBuckets}
EntriesInFile(file) == {file.tried[i] : i \in 1 .. Len(file.tried)}

\* What is written has the places of the tables, and what is read those of the file.
LEMMA SavedPlaces ==
    ASSUME NEW m, NEW file, Saved(m, file)
    PROVE  NewPlaces(m) = PlacesInFile(file) /\ TriedEntries(m) = EntriesInFile(file)
<1>. DEFINE N == NewIn(m.mapInfo)
            T == TriedIn(m.mapInfo)
            rec(x) == Record(m.mapInfo[x])
<1>1. /\ \A x \in N : file.new[Rank(N, x) + 1] = rec(x)
      /\ \A x \in T : Rank(T, x) \in 0 .. Cardinality(T) - 1 /\ file.tried[Rank(T, x) + 1] = rec(x)
      /\ \A i \in 0 .. Cardinality(T) - 1 : \E x \in T : Rank(T, x) = i
      /\ \A b \in NewBuckets : m.vvNew[b] \subseteq N /\ file.buckets[b] = {Rank(N, x) : x \in m.vvNew[b]}
      /\ Len(file.tried) = Cardinality(T)
  BY DEF Saved, SavedAs
<1>2. file.tried \in Seq(FileRecords) BY DEF Saved, SavedAs
<1>3. Len(file.tried) \in Nat BY <1>2, LenProperties
<1>. HIDE DEF N, rec
<1>4. ASSUME NEW b \in NewBuckets
      PROVE  {<<rec(x), b>> : x \in m.vvNew[b]} = {<<file.new[n + 1], b>> : n \in file.buckets[b]}
  <2>1. ASSUME NEW x \in m.vvNew[b]
        PROVE  \E n \in file.buckets[b] : <<rec(x), b>> = <<file.new[n + 1], b>>
    <3>1. Rank(N, x) \in file.buckets[b] /\ file.new[Rank(N, x) + 1] = rec(x) BY <1>1
    <3>. QED BY <3>1
  <2>2. ASSUME NEW n \in file.buckets[b]
        PROVE  \E x \in m.vvNew[b] : <<rec(x), b>> = <<file.new[n + 1], b>>
    <3>1. PICK x \in m.vvNew[b] : n = Rank(N, x) BY <1>1
    <3>2. file.new[Rank(N, x) + 1] = rec(x) BY <1>1
    <3>. QED BY <3>1, <3>2
  <2>. QED BY <2>1, <2>2
<1>5. NewPlaces(m) = PlacesInFile(file)
  <2>1. NewPlaces(m) = UNION {{<<rec(x), b>> : x \in m.vvNew[b]} : b \in NewBuckets}
    BY DEF NewPlaces, rec
  <2>. QED BY <1>4, <2>1 DEF PlacesInFile
<1>6. TriedEntries(m) = EntriesInFile(file)
  <2>1. TriedEntries(m) = {rec(x) : x \in T} BY DEF TriedEntries, TriedIn, rec
  <2>. HIDE DEF T
  <2>2. ASSUME NEW x \in T PROVE \E i \in 1 .. Len(file.tried) : file.tried[i] = rec(x)
    <3>1. Rank(T, x) \in 0 .. Cardinality(T) - 1 /\ file.tried[Rank(T, x) + 1] = rec(x) BY <1>1
    <3>2. Rank(T, x) + 1 \in 1 .. Len(file.tried) BY <1>1, <1>3, <3>1
    <3>. QED BY <3>1, <3>2
  <2>3. ASSUME NEW i \in 1 .. Len(file.tried) PROVE \E x \in T : file.tried[i] = rec(x)
    <3>1. i - 1 \in 0 .. Cardinality(T) - 1 /\ (i - 1) + 1 = i BY <1>1, <1>3
    <3>2. PICK x \in T : Rank(T, x) = i - 1 BY <1>1, <3>1
    <3>3. file.tried[Rank(T, x) + 1] = rec(x) BY <1>1
    <3>. QED BY <3>1, <3>2, <3>3
  <2>. QED BY <2>1, <2>2, <2>3 DEF EntriesInFile
<1>. QED BY <1>5, <1>6

\* What is read has the places of the file.
LEMMA RestoredPlaces ==
    ASSUME NEW m, NEW file, Readable(file), Restored(file, m), m.vvNew = file.buckets
    PROVE  NewPlaces(m) = PlacesInFile(file) /\ TriedEntries(m) = EntriesInFile(file)
<1>. DEFINE n == Len(file.new)
            t == Len(file.tried)
            rec(x) == Record(m.mapInfo[x])
<1>1. /\ DOMAIN m.mapInfo = 0 .. n + t - 1
      /\ \A j \in 1 .. n : rec(j - 1) = file.new[j] /\ ~m.mapInfo[j - 1].fInTried
      /\ \A j \in 1 .. t : rec(n + j - 1) = file.tried[j] /\ m.mapInfo[n + j - 1].fInTried
  BY DEF Restored, EntriesOf
<1>2. n \in Nat /\ t \in Nat BY FileIs
<1>3. \A b \in NewBuckets : file.buckets[b] \subseteq 0 .. n - 1 BY DEF Readable
<1>. HIDE DEF n, t, rec
<1>4. ASSUME NEW b \in NewBuckets
      PROVE  {<<rec(x), b>> : x \in m.vvNew[b]} = {<<file.new[x + 1], b>> : x \in file.buckets[b]}
  <2>1. ASSUME NEW x \in file.buckets[b] PROVE rec(x) = file.new[x + 1]
    <3>1. x \in 0 .. n - 1 BY <1>3
    <3>2. x + 1 \in 1 .. n /\ (x + 1) - 1 = x BY <1>2, <3>1
    <3>. QED BY <1>1, <3>2
  <2>. QED BY <2>1
<1>5. NewPlaces(m) = PlacesInFile(file)
  <2>1. NewPlaces(m) = UNION {{<<rec(x), b>> : x \in m.vvNew[b]} : b \in NewBuckets}
    BY DEF NewPlaces, rec
  <2>. QED BY <1>4, <2>1 DEF PlacesInFile
<1>6. TriedEntries(m) = EntriesInFile(file)
  <2>. DEFINE T == {j \in DOMAIN m.mapInfo : m.mapInfo[j].fInTried}
  <2>1. TriedEntries(m) = {rec(x) : x \in T} BY DEF TriedEntries, rec
  <2>2. ASSUME NEW x \in T PROVE \E i \in 1 .. t : file.tried[i] = rec(x)
    <3>1. x \in 0 .. n + t - 1 /\ m.mapInfo[x].fInTried BY <1>1
    <3>2. x \notin 0 .. n - 1
      <4>1. ASSUME x \in 0 .. n - 1 PROVE FALSE
        <5>1. x + 1 \in 1 .. n /\ (x + 1) - 1 = x BY <1>2, <4>1
        <5>2. ~m.mapInfo[(x + 1) - 1].fInTried BY <1>1, <5>1
        <5>. QED BY <3>1, <5>1, <5>2
      <4>. QED BY <4>1
    <3>3. x - n + 1 \in 1 .. t /\ n + (x - n + 1) - 1 = x BY <1>2, <3>1, <3>2
    <3>4. rec(n + (x - n + 1) - 1) = file.tried[x - n + 1] BY <1>1, <3>3
    <3>. QED BY <3>3, <3>4
  <2>3. ASSUME NEW i \in 1 .. t PROVE \E x \in T : file.tried[i] = rec(x)
    <3>1. n + i - 1 \in 0 .. n + t - 1 BY <1>2
    <3>2. rec(n + i - 1) = file.tried[i] /\ m.mapInfo[n + i - 1].fInTried BY <1>1
    <3>. QED BY <1>1, <3>1, <3>2
  <2>. HIDE DEF T
  <2>4. EntriesInFile(file) = {file.tried[i] : i \in 1 .. t} BY DEF EntriesInFile, t
  <2>. QED BY <2>1, <2>2, <2>3, <2>4
<1>. QED BY <1>5, <1>6

\* Whatever the tables are when they are written, they are read back with every
\* entry in its buckets, and pass Check_.
LEMMA RestReturns ==
    ASSUME NEW m, AtRest(m), NEW r, r = Unserialize(Serialize(m), TRUE)
    PROVE  /\ NewPlaces(r) = NewPlaces(m) /\ TriedEntries(r) = TriedEntries(m)
           /\ IndexesAgreeIn(r) /\ PlacesAgreeIn(r) /\ CountersAgreeIn(r)
<1>. DEFINE file == Serialize(m)
<1>1. Saved(m, file) BY SerializeIs
<1>. HIDE DEF file
<1>2. Readable(file) BY <1>1, SavedReadable
<1>3. Restored(file, r) /\ r.vvNew = file.buckets BY <1>2, UnserializeIs DEF file
<1>4. AtRest(r) BY <1>3 DEF Restored
<1>5. NewPlaces(m) = PlacesInFile(file) /\ TriedEntries(m) = EntriesInFile(file)
  BY <1>1, SavedPlaces
<1>6. NewPlaces(r) = PlacesInFile(file) /\ TriedEntries(r) = EntriesInFile(file)
  BY <1>2, <1>3, RestoredPlaces
<1>. QED BY <1>4, <1>5, <1>6, RestIndexes, RestPlaces, RestCounters

\* peers.dat loses nothing: from every reachable state the file that would be
\* written is read back, by a program with as many buckets, with the same entries in
\* the same buckets, although entries are renumbered and most of the tables are
\* not written (Serialize and Unserialize of CAddrMan).
THEOREM PeersReturn == Spec => []RoundTrip
<1>1. Init => AddrInv BY AddrInvInit
<1>2. AddrInv /\ [Next]_vars => AddrInv' BY AddrInvNext
<1>3. AddrInv => RoundTrip BY RestReturns DEF AddrInv, RoundTrip
<1>. QED BY <1>1, <1>2, <1>3, PTL DEF Spec

-----------------------------------------------------------------------------
\* The refinement: what the tables say of an address is what its entry says.
Host(m, j) == AddrOf[m.mapInfo[j].service]
Rated(m, j) == IF m.mapInfo[j].fInTried THEN "tried" ELSE "new"
Indexed(m) == m \in Tables /\ Named(m.mapInfo, m.mapAddr)

\* Tables at work have their indexes.
LEMMA RestIndexed == ASSUME NEW m, NEW owed, NEW spare, AtWork(m, owed, spare) PROVE Indexed(m)
BY Zenon DEF AtWork, Indexed

\* The status of an address is that of its only entry.
LEMMA StatusIs ==
    ASSUME NEW m, Indexed(m)
    PROVE  /\ \A j \in DOMAIN m.mapInfo : Host(m, j) \in Addrs /\ StatusIn(m)[Host(m, j)] = Rated(m, j)
           /\ \A i, j \in DOMAIN m.mapInfo : Host(m, i) = Host(m, j) => i = j
           /\ \A a \in Addrs : (\A j \in DOMAIN m.mapInfo : Host(m, j) # a) => StatusIn(m)[a] = "unknown"
           /\ StatusIn(m) = [a \in Addrs |-> StatusIn(m)[a]]
<1>. DEFINE D == DOMAIN m.mapInfo
            addr == m.mapAddr
<1>1. /\ \A j \in D : Host(m, j) \in DOMAIN addr /\ addr[Host(m, j)] = j
      /\ \A a \in DOMAIN addr : addr[a] \in D /\ Host(m, addr[a]) = a
  BY DEF Indexed, Named, Host
<1>2. \A a \in Addrs : StatusIn(m)[a] = IF a \notin DOMAIN addr THEN "unknown"
                                        ELSE IF m.mapInfo[addr[a]].fInTried THEN "tried" ELSE "new"
  BY DEF StatusIn
<1>3. StatusIn(m) = [a \in Addrs |-> StatusIn(m)[a]] BY DEF StatusIn
<1>4. DOMAIN addr \in SUBSET Addrs BY TablesAre DEF Indexed
<1>. HIDE DEF addr, D
<1>5. ASSUME NEW j \in D PROVE Host(m, j) \in Addrs /\ StatusIn(m)[Host(m, j)] = Rated(m, j)
  <2>1. Host(m, j) \in DOMAIN addr /\ addr[Host(m, j)] = j /\ Host(m, j) \in Addrs BY <1>1, <1>4
  <2>. QED BY <1>2, <2>1 DEF Rated
<1>6. \A i, j \in D : Host(m, i) = Host(m, j) => i = j BY <1>1
<1>7. \A a \in Addrs : (\A j \in D : Host(m, j) # a) => StatusIn(m)[a] = "unknown"
  BY <1>1, <1>2
<1>. QED BY <1>3, <1>5, <1>6, <1>7 DEF D

\* Two tables that have the entries of an address alike say the same of it.
LEMMA SameStatus ==
    ASSUME NEW m, Indexed(m), NEW r, Indexed(r), NEW a \in Addrs,
           \A j \in DOMAIN m.mapInfo : Host(m, j) = a =>
               j \in DOMAIN r.mapInfo /\ Host(r, j) = a /\ Rated(r, j) = Rated(m, j),
           \A j \in DOMAIN r.mapInfo : Host(r, j) = a => j \in DOMAIN m.mapInfo /\ Host(m, j) = a
    PROVE  StatusIn(r)[a] = StatusIn(m)[a]
<1>1. CASE \E j \in DOMAIN m.mapInfo : Host(m, j) = a
  <2>1. PICK j \in DOMAIN m.mapInfo : Host(m, j) = a BY <1>1
  <2>2. j \in DOMAIN r.mapInfo /\ Host(r, j) = a /\ Rated(r, j) = Rated(m, j) BY <2>1
  <2>3. StatusIn(m)[Host(m, j)] = Rated(m, j) BY <2>1, StatusIs
  <2>4. StatusIn(r)[Host(r, j)] = Rated(r, j) BY <2>2, StatusIs
  <2>. QED BY <2>1, <2>2, <2>3, <2>4
<1>2. CASE \A j \in DOMAIN m.mapInfo : Host(m, j) # a
  <2>1. \A j \in DOMAIN r.mapInfo : Host(r, j) # a BY <1>2
  <2>2. StatusIn(m)[a] = "unknown" BY <1>2, StatusIs
  <2>3. StatusIn(r)[a] = "unknown" BY <2>1, StatusIs
  <2>. QED BY <2>2, <2>3
<1>. QED BY <1>1, <1>2

\* Entries alike, a status alike.
LEMMA SameStatuses ==
    ASSUME NEW m, Indexed(m), NEW r, Indexed(r), DOMAIN r.mapInfo = DOMAIN m.mapInfo,
           \A j \in DOMAIN m.mapInfo : /\ r.mapInfo[j].service = m.mapInfo[j].service
                                       /\ r.mapInfo[j].fInTried = m.mapInfo[j].fInTried
    PROVE  StatusIn(r) = StatusIn(m)
<1>1. \A j \in DOMAIN m.mapInfo : Host(r, j) = Host(m, j) /\ Rated(r, j) = Rated(m, j)
  BY DEF Host, Rated
<1>2. ASSUME NEW a \in Addrs PROVE StatusIn(r)[a] = StatusIn(m)[a]
  BY <1>1, SameStatus
<1>3. StatusIn(r) = [a \in Addrs |-> StatusIn(r)[a]] BY StatusIs
<1>4. StatusIn(m) = [a \in Addrs |-> StatusIn(m)[a]] BY StatusIs
<1>. QED BY <1>2, <1>3, <1>4

\* The statuses after an announcement of the address a, or a connection to it, with
\* the addresses in S changed to v.
StatusAfter(before, a, u, S, v) ==
    [x \in Addrs |-> IF x = a THEN u ELSE IF x \in S THEN v ELSE before[x]]

\* Statuses are equal when they are equal for every address.
LEMMA StatusAfterIs ==
    ASSUME NEW r, Indexed(r), NEW before, NEW a, NEW u, NEW S, NEW v,
           \A x \in Addrs : StatusIn(r)[x] = IF x = a THEN u ELSE IF x \in S THEN v ELSE before[x]
    PROVE  StatusIn(r) = StatusAfter(before, a, u, S, v)
<1>1. StatusIn(r) = [x \in Addrs |-> StatusIn(r)[x]] BY StatusIs
<1>. QED BY <1>1 DEF StatusAfter

\* An announcement forgets at most one address, which was new.
LEMMA EnteringLearns ==
    ASSUME NEW m, Indexed(m), NEW r, Indexed(r), NEW nId \in DOMAIN m.mapInfo,
           ~m.mapInfo[nId].fInTried, Entering(m, r, nId)
    PROVE  \E S : /\ S \subseteq {x \in Addrs : StatusIn(m)[x] = "new"} \ {Host(m, nId)}
                  /\ Cardinality(S) <= 1
                  /\ StatusIn(r) = StatusAfter(StatusIn(m), Host(m, nId), "new", S, "unknown")
<1>. DEFINE D == DOMAIN m.mapInfo
            E == DOMAIN r.mapInfo
            a == Host(m, nId)
<1>1. /\ nId \in E /\ E \subseteq D
      /\ \A j \in E : Host(r, j) = Host(m, j) /\ Rated(r, j) = Rated(m, j)
  BY DEF Entering, SameEntries, Host, Rated
<1>2. E = D \/ \E old \in D \ {nId} : D \ {old} \subseteq E /\ ~m.mapInfo[old].fInTried
  BY DEF Entering
<1>3. /\ \A j \in D : Host(m, j) \in Addrs /\ StatusIn(m)[Host(m, j)] = Rated(m, j)
      /\ \A i, j \in D : Host(m, i) = Host(m, j) => i = j
  BY StatusIs
<1>4. StatusIn(m)[a] = "new" BY <1>3 DEF Rated
<1>. HIDE DEF a
<1>5. ASSUME E = D
      PROVE  \E S : /\ S \subseteq {x \in Addrs : StatusIn(m)[x] = "new"} \ {a}
                    /\ Cardinality(S) <= 1
                    /\ StatusIn(r) = StatusAfter(StatusIn(m), a, "new", S, "unknown")
  <2>1. ASSUME NEW x \in Addrs PROVE StatusIn(r)[x] = StatusIn(m)[x] BY <1>1, <1>5, SameStatus
  <2>2. StatusIn(r) = StatusAfter(StatusIn(m), a, "new", {}, "unknown")
    <3>1. \A x \in Addrs : StatusIn(r)[x] = IF x = a THEN "new" ELSE IF x \in {} THEN "unknown" ELSE StatusIn(m)[x]
      BY <1>4, <2>1
    <3>. QED BY <3>1, StatusAfterIs
  <2>3. Cardinality({}) = 0 BY FS_EmptySet
  <2>4. Cardinality({}) <= 1 BY <2>3
  <2>. QED BY <2>2, <2>4
<1>6. ASSUME NEW old \in D \ {nId}, D \ {old} \subseteq E, ~m.mapInfo[old].fInTried, E # D
      PROVE  \E S : /\ S \subseteq {x \in Addrs : StatusIn(m)[x] = "new"} \ {a}
                    /\ Cardinality(S) <= 1
                    /\ StatusIn(r) = StatusAfter(StatusIn(m), a, "new", S, "unknown")
  <2>. DEFINE d == Host(m, old)
  <2>1. E = D \ {old} BY <1>1, <1>6
  <2>2. d # a BY <1>3, <1>6 DEF a
  <2>3. d \in Addrs /\ StatusIn(m)[d] = "new" BY <1>3, <1>6 DEF Rated
  <2>4. StatusIn(r)[d] = "unknown"
    <3>1. \A j \in E : Host(r, j) # d BY <1>1, <1>3, <1>6, <2>1
    <3>. HIDE DEF d
    <3>. QED BY <2>3, <3>1, StatusIs
  <2>5. ASSUME NEW x \in Addrs, x # d PROVE StatusIn(r)[x] = StatusIn(m)[x]
    <3>1. \A j \in D : Host(m, j) = x => j \in E /\ Host(r, j) = x /\ Rated(r, j) = Rated(m, j)
      BY <1>1, <2>1, <2>5
    <3>2. \A j \in E : Host(r, j) = x => j \in D /\ Host(m, j) = x BY <1>1
    <3>. QED BY <3>1, <3>2, SameStatus
  <2>. HIDE DEF d
  <2>6. StatusIn(r) = StatusAfter(StatusIn(m), a, "new", {d}, "unknown")
    <3>1. \A x \in Addrs : StatusIn(r)[x] = IF x = a THEN "new" ELSE IF x \in {d} THEN "unknown" ELSE StatusIn(m)[x]
      BY <1>4, <2>2, <2>4, <2>5
    <3>. QED BY <3>1, StatusAfterIs
  <2>7. Cardinality({d}) = 1 BY FS_Singleton
  <2>8. Cardinality({d}) <= 1 BY <2>7
  <2>9. {d} \subseteq {x \in Addrs : StatusIn(m)[x] = "new"} \ {a} BY <2>2, <2>3
  <2>. QED BY <2>6, <2>8, <2>9
<1>. QED BY <1>2, <1>5, <1>6 DEF a

\* A promotion makes at most one tried address new again.
LEMMA PromotedPromotes ==
    ASSUME NEW m, Indexed(m), NEW r, Indexed(r), NEW nId \in DOMAIN m.mapInfo,
           ~m.mapInfo[nId].fInTried, Promoted(m, r, nId)
    PROVE  \E S : /\ S \subseteq {x \in Addrs : StatusIn(m)[x] = "tried"}
                  /\ Cardinality(S) <= 1
                  /\ StatusIn(r) = StatusAfter(StatusIn(m), Host(m, nId), "tried", S, "new")
<1>. DEFINE D == DOMAIN m.mapInfo
            a == Host(m, nId)
<1>1. /\ DOMAIN r.mapInfo = D /\ \A j \in D : Host(r, j) = Host(m, j)
      /\ Rated(r, nId) = "tried"
      /\ \/ \A j \in D \ {nId} : Rated(r, j) = Rated(m, j)
         \/ \E nOld \in D \ {nId} : /\ Rated(m, nOld) = "tried" /\ Rated(r, nOld) = "new"
                                    /\ \A j \in D \ {nId, nOld} : Rated(r, j) = Rated(m, j)
  BY DEF Promoted, Host, Rated
<1>2. /\ \A j \in D : Host(m, j) \in Addrs /\ StatusIn(m)[Host(m, j)] = Rated(m, j)
      /\ \A i, j \in D : Host(m, i) = Host(m, j) => i = j
  BY StatusIs
<1>3. \A j \in D : StatusIn(r)[Host(r, j)] = Rated(r, j) BY <1>1, StatusIs
<1>4. StatusIn(r)[a] = "tried" BY <1>1, <1>3
<1>5. \A j \in D : Host(m, j) = a => j = nId BY <1>2
<1>. HIDE DEF a
<1>6. ASSUME \A j \in D \ {nId} : Rated(r, j) = Rated(m, j)
      PROVE  \E S : /\ S \subseteq {x \in Addrs : StatusIn(m)[x] = "tried"}
                    /\ Cardinality(S) <= 1
                    /\ StatusIn(r) = StatusAfter(StatusIn(m), a, "tried", S, "new")
  <2>1. ASSUME NEW x \in Addrs, x # a PROVE StatusIn(r)[x] = StatusIn(m)[x]
    <3>1. \A j \in D : Host(m, j) = x => Host(r, j) = x /\ Rated(r, j) = Rated(m, j)
      BY <1>1, <1>6, <2>1 DEF a
    <3>2. \A j \in D : Host(r, j) = x => Host(m, j) = x BY <1>1
    <3>. QED BY <1>1, <3>1, <3>2, SameStatus
  <2>2. StatusIn(r) = StatusAfter(StatusIn(m), a, "tried", {}, "new")
    <3>1. \A x \in Addrs : StatusIn(r)[x] = IF x = a THEN "tried" ELSE IF x \in {} THEN "new" ELSE StatusIn(m)[x]
      BY <1>4, <2>1
    <3>. QED BY <3>1, StatusAfterIs
  <2>3. Cardinality({}) = 0 BY FS_EmptySet
  <2>4. Cardinality({}) <= 1 BY <2>3
  <2>. QED BY <2>2, <2>4
<1>7. ASSUME NEW nOld \in D \ {nId}, Rated(m, nOld) = "tried", Rated(r, nOld) = "new",
             \A j \in D \ {nId, nOld} : Rated(r, j) = Rated(m, j)
      PROVE  \E S : /\ S \subseteq {x \in Addrs : StatusIn(m)[x] = "tried"}
                    /\ Cardinality(S) <= 1
                    /\ StatusIn(r) = StatusAfter(StatusIn(m), a, "tried", S, "new")
  <2>. DEFINE d == Host(m, nOld)
  <2>1. d # a BY <1>5, <1>7
  <2>2. d \in Addrs /\ StatusIn(m)[d] = "tried" /\ StatusIn(r)[d] = "new" BY <1>1, <1>2, <1>3, <1>7
  <2>3. ASSUME NEW x \in Addrs, x # a, x # d PROVE StatusIn(r)[x] = StatusIn(m)[x]
    <3>1. \A j \in D : Host(m, j) = x => Host(r, j) = x /\ Rated(r, j) = Rated(m, j)
      BY <1>1, <1>7, <2>3 DEF a
    <3>2. \A j \in D : Host(r, j) = x => Host(m, j) = x BY <1>1
    <3>. QED BY <1>1, <3>1, <3>2, SameStatus
  <2>. HIDE DEF d
  <2>4. StatusIn(r) = StatusAfter(StatusIn(m), a, "tried", {d}, "new")
    <3>1. \A x \in Addrs : StatusIn(r)[x] = IF x = a THEN "tried" ELSE IF x \in {d} THEN "new" ELSE StatusIn(m)[x]
      BY <1>4, <2>1, <2>2, <2>3
    <3>. QED BY <3>1, StatusAfterIs
  <2>5. Cardinality({d}) = 1 BY FS_Singleton
  <2>6. Cardinality({d}) <= 1 BY <2>5
  <2>7. {d} \subseteq {x \in Addrs : StatusIn(m)[x] = "tried"} BY <2>2
  <2>. QED BY <2>4, <2>6, <2>7
<1>. QED BY <1>1, <1>6, <1>7 DEF a

-----------------------------------------------------------------------------
\* A file that lists the addresses of the new and of the tried entries says of every
\* address what the tables say.
LEMMA FileStatus ==
    ASSUME NEW m, Indexed(m), NEW file,
           \A a \in Addrs : Lists(file.new, a) <=>
               \E j \in DOMAIN m.mapInfo : Host(m, j) = a /\ ~m.mapInfo[j].fInTried,
           \A a \in Addrs : Lists(file.tried, a) <=>
               \E j \in DOMAIN m.mapInfo : Host(m, j) = a /\ m.mapInfo[j].fInTried
    PROVE  StatusInFile(file) = StatusIn(m)
<1>1. ASSUME NEW a \in Addrs
      PROVE  StatusIn(m)[a] = IF Lists(file.new, a) THEN "new"
                              ELSE IF Lists(file.tried, a) THEN "tried" ELSE "unknown"
  <2>1. CASE \E j \in DOMAIN m.mapInfo : Host(m, j) = a
    <3>1. PICK j \in DOMAIN m.mapInfo : Host(m, j) = a BY <2>1
    <3>2. StatusIn(m)[Host(m, j)] = Rated(m, j) BY <3>1, StatusIs
    <3>3. \A i \in DOMAIN m.mapInfo : Host(m, i) = a => i = j
      <4>1. \A i, l \in DOMAIN m.mapInfo : Host(m, i) = Host(m, l) => i = l BY StatusIs
      <4>. QED BY <3>1, <4>1
    <3>4. Lists(file.new, a) <=> ~m.mapInfo[j].fInTried BY <3>1, <3>3
    <3>5. Lists(file.tried, a) <=> m.mapInfo[j].fInTried BY <3>1, <3>3
    <3>. QED BY <3>1, <3>2, <3>4, <3>5 DEF Rated
  <2>2. CASE \A j \in DOMAIN m.mapInfo : Host(m, j) # a
    <3>1. StatusIn(m)[a] = "unknown" BY <2>2, StatusIs
    <3>2. ~Lists(file.new, a) /\ ~Lists(file.tried, a) BY <2>2
    <3>. QED BY <3>1, <3>2
  <2>. QED BY <2>1, <2>2
<1>2. StatusIn(m) = [a \in Addrs |-> StatusIn(m)[a]] BY StatusIs
<1>. QED BY <1>1, <1>2 DEF StatusInFile

\* The address of an entry is that of its record.
LEMMA RecordHost ==
    ASSUME NEW m, NEW j PROVE Host(m, j) = AddrOf[Record(m.mapInfo[j]).service]
BY DEF Host, Record

\* A written file says of every address what the tables say.
LEMMA SavedStatus ==
    ASSUME NEW m, Indexed(m), NEW file, Saved(m, file)
    PROVE  StatusInFile(file) = StatusIn(m)
<1>. DEFINE N == NewIn(m.mapInfo)
            T == TriedIn(m.mapInfo)
            rec(x) == Record(m.mapInfo[x])
            news == file.new
            trieds == file.tried
<1>1. /\ \A x \in N : Rank(N, x) \in 0 .. Cardinality(N) - 1 /\ news[Rank(N, x) + 1] = rec(x)
      /\ \A x \in T : Rank(T, x) \in 0 .. Cardinality(T) - 1 /\ trieds[Rank(T, x) + 1] = rec(x)
      /\ \A i \in 0 .. Cardinality(N) - 1 : \E x \in N : Rank(N, x) = i
      /\ \A i \in 0 .. Cardinality(T) - 1 : \E x \in T : Rank(T, x) = i
      /\ Len(news) = Cardinality(N) /\ Len(trieds) = Cardinality(T)
      /\ news \in Seq(FileRecords) /\ trieds \in Seq(FileRecords)
  BY DEF Saved, SavedAs
<1>2. /\ Len(news) \in Nat /\ DOMAIN news = 1 .. Len(news)
      /\ Len(trieds) \in Nat /\ DOMAIN trieds = 1 .. Len(trieds)
  <2>. HIDE DEF news, trieds, N, T
  <2>. QED BY <1>1, LenProperties
<1>3. \A x : Host(m, x) = AddrOf[rec(x).service] BY RecordHost
<1>. HIDE DEF rec, news, trieds, N, T
<1>4. ASSUME NEW a \in Addrs
      PROVE  /\ Lists(news, a) <=> \E x \in N : Host(m, x) = a
             /\ Lists(trieds, a) <=> \E x \in T : Host(m, x) = a
  <2>1. ASSUME NEW i \in DOMAIN news PROVE \E x \in N : news[i] = rec(x)
    <3>1. i - 1 \in 0 .. Cardinality(N) - 1 /\ (i - 1) + 1 = i BY <1>1, <1>2
    <3>2. PICK x \in N : Rank(N, x) = i - 1 BY <1>1, <3>1
    <3>3. news[Rank(N, x) + 1] = rec(x) BY <1>1
    <3>. QED BY <3>1, <3>2, <3>3
  <2>2. ASSUME NEW x \in N PROVE \E i \in DOMAIN news : news[i] = rec(x)
    <3>1. Rank(N, x) \in 0 .. Cardinality(N) - 1 /\ news[Rank(N, x) + 1] = rec(x) BY <1>1
    <3>2. Rank(N, x) + 1 \in DOMAIN news BY <1>1, <1>2, <3>1
    <3>. QED BY <3>1, <3>2
  <2>3. ASSUME NEW i \in DOMAIN trieds PROVE \E x \in T : trieds[i] = rec(x)
    <3>1. i - 1 \in 0 .. Cardinality(T) - 1 /\ (i - 1) + 1 = i BY <1>1, <1>2
    <3>2. PICK x \in T : Rank(T, x) = i - 1 BY <1>1, <3>1
    <3>3. trieds[Rank(T, x) + 1] = rec(x) BY <1>1
    <3>. QED BY <3>1, <3>2, <3>3
  <2>4. ASSUME NEW x \in T PROVE \E i \in DOMAIN trieds : trieds[i] = rec(x)
    <3>1. Rank(T, x) \in 0 .. Cardinality(T) - 1 /\ trieds[Rank(T, x) + 1] = rec(x) BY <1>1
    <3>2. Rank(T, x) + 1 \in DOMAIN trieds BY <1>1, <1>2, <3>1
    <3>. QED BY <3>1, <3>2
  <2>5. Lists(news, a) <=> \E x \in N : Host(m, x) = a BY <1>3, <2>1, <2>2 DEF Lists
  <2>6. Lists(trieds, a) <=> \E x \in T : Host(m, x) = a BY <1>3, <2>3, <2>4 DEF Lists
  <2>. QED BY <2>5, <2>6
<1>5. \A a \in Addrs : Lists(file.new, a) <=>
         \E j \in DOMAIN m.mapInfo : Host(m, j) = a /\ ~m.mapInfo[j].fInTried
  BY <1>4 DEF news, N, NewIn
<1>6. \A a \in Addrs : Lists(file.tried, a) <=>
         \E j \in DOMAIN m.mapInfo : Host(m, j) = a /\ m.mapInfo[j].fInTried
  BY <1>4 DEF trieds, T, TriedIn
<1>. QED BY <1>5, <1>6, FileStatus

\* The tables that are read say of every address what the file says.
LEMMA RestoredStatus ==
    ASSUME NEW m, Indexed(m), NEW file, Readable(file), Restored(file, m)
    PROVE  StatusInFile(file) = StatusIn(m)
<1>. DEFINE n == Len(file.new)
            t == Len(file.tried)
            rec(x) == Record(m.mapInfo[x])
            D == DOMAIN m.mapInfo
            news == file.new
            trieds == file.tried
<1>1. /\ D = 0 .. n + t - 1
      /\ \A j \in 1 .. n : rec(j - 1) = news[j] /\ ~m.mapInfo[j - 1].fInTried
      /\ \A j \in 1 .. t : rec(n + j - 1) = trieds[j] /\ m.mapInfo[n + j - 1].fInTried
  BY DEF Restored, EntriesOf
<1>2. n \in Nat /\ t \in Nat /\ DOMAIN news = 1 .. n /\ DOMAIN trieds = 1 .. t BY FileIs
<1>3. \A x : Host(m, x) = AddrOf[rec(x).service] BY RecordHost
<1>. HIDE DEF n, t, rec, D, news, trieds
<1>4. ASSUME NEW x \in D
      PROVE  IF x < n THEN x + 1 \in 1 .. n /\ rec(x) = news[x + 1] /\ ~m.mapInfo[x].fInTried
             ELSE x - n + 1 \in 1 .. t /\ rec(x) = trieds[x - n + 1] /\ m.mapInfo[x].fInTried
  <2>1. CASE x < n
    <3>1. x + 1 \in 1 .. n /\ (x + 1) - 1 = x BY <1>1, <1>2, <2>1
    <3>2. rec((x + 1) - 1) = news[x + 1] /\ ~m.mapInfo[(x + 1) - 1].fInTried BY <1>1, <3>1
    <3>. QED BY <2>1, <3>1, <3>2
  <2>2. CASE ~(x < n)
    <3>1. x - n + 1 \in 1 .. t /\ n + (x - n + 1) - 1 = x BY <1>1, <1>2, <2>2
    <3>2. rec(n + (x - n + 1) - 1) = trieds[x - n + 1] /\ m.mapInfo[n + (x - n + 1) - 1].fInTried
      BY <1>1, <3>1
    <3>. QED BY <2>2, <3>1, <3>2
  <2>. QED BY <2>1, <2>2
<1>5. ASSUME NEW i \in 1 .. n PROVE i - 1 \in D /\ rec(i - 1) = news[i] /\ ~m.mapInfo[i - 1].fInTried
  <2>1. i - 1 \in D BY <1>1, <1>2
  <2>2. rec(i - 1) = news[i] /\ ~m.mapInfo[i - 1].fInTried BY <1>1
  <2>. QED BY <2>1, <2>2
<1>6. ASSUME NEW i \in 1 .. t
      PROVE  n + i - 1 \in D /\ rec(n + i - 1) = trieds[i] /\ m.mapInfo[n + i - 1].fInTried
  <2>1. n + i - 1 \in D BY <1>1, <1>2
  <2>2. rec(n + i - 1) = trieds[i] /\ m.mapInfo[n + i - 1].fInTried BY <1>1
  <2>. QED BY <2>1, <2>2
<1>7. ASSUME NEW a \in Addrs
      PROVE  /\ Lists(news, a) <=> \E j \in D : Host(m, j) = a /\ ~m.mapInfo[j].fInTried
             /\ Lists(trieds, a) <=> \E j \in D : Host(m, j) = a /\ m.mapInfo[j].fInTried
  <2>1. Lists(news, a) <=> \E i \in 1 .. n : AddrOf[news[i].service] = a BY <1>2 DEF Lists
  <2>2. Lists(trieds, a) <=> \E i \in 1 .. t : AddrOf[trieds[i].service] = a BY <1>2 DEF Lists
  <2>3. ASSUME NEW i \in 1 .. n, AddrOf[news[i].service] = a
        PROVE  \E j \in D : Host(m, j) = a /\ ~m.mapInfo[j].fInTried
    <3>1. i - 1 \in D /\ rec(i - 1) = news[i] /\ ~m.mapInfo[i - 1].fInTried BY <1>5
    <3>. QED BY <1>3, <2>3, <3>1
  <2>4. ASSUME NEW i \in 1 .. t, AddrOf[trieds[i].service] = a
        PROVE  \E j \in D : Host(m, j) = a /\ m.mapInfo[j].fInTried
    <3>1. n + i - 1 \in D /\ rec(n + i - 1) = trieds[i] /\ m.mapInfo[n + i - 1].fInTried BY <1>6
    <3>. QED BY <1>3, <2>4, <3>1
  <2>5. ASSUME NEW j \in D, Host(m, j) = a, ~m.mapInfo[j].fInTried
        PROVE  \E i \in 1 .. n : AddrOf[news[i].service] = a
    <3>1. j + 1 \in 1 .. n /\ rec(j) = news[j + 1] BY <1>4, <2>5
    <3>. QED BY <1>3, <2>5, <3>1
  <2>6. ASSUME NEW j \in D, Host(m, j) = a, m.mapInfo[j].fInTried
        PROVE  \E i \in 1 .. t : AddrOf[trieds[i].service] = a
    <3>1. j - n + 1 \in 1 .. t /\ rec(j) = trieds[j - n + 1] BY <1>4, <2>6
    <3>. QED BY <1>3, <2>6, <3>1
  <2>. QED BY <2>1, <2>2, <2>3, <2>4, <2>5, <2>6
<1>8. \A a \in Addrs : Lists(file.new, a) <=>
         \E j \in DOMAIN m.mapInfo : Host(m, j) = a /\ ~m.mapInfo[j].fInTried
  BY <1>7 DEF news, D
<1>9. \A a \in Addrs : Lists(file.tried, a) <=>
         \E j \in DOMAIN m.mapInfo : Host(m, j) = a /\ m.mapInfo[j].fInTried
  BY <1>7 DEF trieds, D
<1>. QED BY <1>8, <1>9, FileStatus

-----------------------------------------------------------------------------
\* Every step of the tables is a step of the address book, or changes nothing in it.
LEMMA BookInit == Init => Book!Init
<1>. SUFFICES ASSUME Init PROVE Book!Init OBVIOUS
<1>1. am = EmptyTables /\ peersDat = Serialize(EmptyTables) BY DEF Init
<1>2. StatusIn(EmptyTables) = [a \in Addrs |-> "unknown"]
  <2>1. EmptyTables.mapAddr = << >> BY DEF EmptyTables
  <2>2. DOMAIN EmptyTables.mapAddr = {} BY <2>1
  <2>. QED BY <2>2 DEF StatusIn
<1>3. StatusInFile(Serialize(EmptyTables)) = StatusIn(EmptyTables)
  <2>1. AtRest(EmptyTables) BY EmptyAtRest
  <2>2. Indexed(EmptyTables) BY <2>1, RestIndexed DEF AtRest
  <2>. QED BY <2>1, <2>2, SerializeIs, SavedStatus
<1>. QED BY <1>1, <1>2, <1>3 DEF Book!Init, Book!Unknown

\* The address book counts as the tables do.
LEMMA BookCardinality == ASSUME NEW S PROVE Book!Cardinality(S) = Cardinality(S)
BY DEF Book!Cardinality, Cardinality

\* An announcement of the address a.
LEMMA BookLearns ==
    ASSUME peersDat' = peersDat, NEW a \in Addrs, StatusIn(am)[a] # "tried", NEW S,
           S \subseteq {x \in Addrs : StatusIn(am)[x] = "new"} \ {a}, Cardinality(S) <= 1,
           StatusIn(am') = StatusAfter(StatusIn(am), a, "new", S, "unknown")
    PROVE  Book!Learn(a)
<1>1. a \notin Book!Tried BY DEF Book!Tried
<1>2. S \in Book!AtMostOneOf(Book!New \ {a}) BY BookCardinality DEF Book!AtMostOneOf, Book!New
<1>3. StatusIn(am') = [x \in Addrs |-> IF x = a THEN "new" ELSE IF x \in S THEN "unknown"
                                       ELSE StatusIn(am)[x]]
  BY DEF StatusAfter
<1>4. StatusInFile(peersDat') = StatusInFile(peersDat) OBVIOUS
<1>. QED BY <1>1, <1>2, <1>3, <1>4 DEF Book!Learn

\* Every operation is a step of the address book, or none of its statuses changes.
LEMMA BookNext == AddrInv /\ [Next]_vars => [Book!Next]_(Book!book)
<1>. SUFFICES ASSUME AddrInv, [Next]_vars PROVE Book!Next \/ UNCHANGED Book!book OBVIOUS
<1>. DEFINE Same == StatusIn(am') = StatusIn(am) /\ StatusInFile(peersDat') = StatusInFile(peersDat)
<1>1. Same => UNCHANGED Book!book BY DEF Book!book
<1>2. AtRest(am) /\ Readable(peersDat) BY DEF AddrInv
<1>3. Indexed(am) BY <1>2, RestIndexed DEF AtRest
<1>4. AtRest(am') /\ Indexed(am')
  <2>1. AtRest(am') BY AddrInvNext DEF AddrInv
  <2>. QED BY <2>1, RestIndexed DEF AtRest
<1>5. ASSUME NEW s \in Services, NEW source \in Sources, AddUnknown(s, source)
      PROVE  Book!Next
  <2>. DEFINE nId == am.nIdCount
              created == WithNewEntry(am, s, source)
              a == AddrOf[s]
  <2>1. peersDat' = peersDat /\ ~Known(am, s) /\ am.nIdCount < MaxId BY <1>5 DEF AddUnknown
  <2>2. Entering(created, am', nId) BY <1>2, <1>5, AddUnknownKeeps
  <2>3. /\ AtWork(created, -1, nId) /\ SameEntries(created.mapInfo, am.mapInfo)
        /\ DOMAIN created.mapInfo = DOMAIN am.mapInfo \union {nId} /\ nId \notin DOMAIN am.mapInfo
        /\ created.mapInfo[nId].service = s /\ ~created.mapInfo[nId].fInTried
    BY <1>2, <2>1, CreateKeeps
  <2>. HIDE DEF created, nId
  <2>4. Indexed(created) BY <2>3, RestIndexed
  <2>5. nId \in DOMAIN created.mapInfo /\ Host(created, nId) = a BY <2>3 DEF Host
  <2>6. PICK S : /\ S \subseteq {x \in Addrs : StatusIn(created)[x] = "new"} \ {a}
                 /\ Cardinality(S) <= 1
                 /\ StatusIn(am') = StatusAfter(StatusIn(created), a, "new", S, "unknown")
    BY <1>4, <2>2, <2>3, <2>4, <2>5, EnteringLearns
  <2>7. a \in Addrs BY AddrManAssumption
  <2>8. StatusIn(am)[a] = "unknown" BY <2>1, <2>7 DEF StatusIn, Known
  <2>. HIDE DEF a
  <2>9. ASSUME NEW x \in Addrs, x # a PROVE StatusIn(am)[x] = StatusIn(created)[x]
    <3>1. \A j \in DOMAIN am.mapInfo :
             /\ j \in DOMAIN created.mapInfo
             /\ Host(created, j) = Host(am, j) /\ Rated(created, j) = Rated(am, j)
      BY <2>3 DEF SameEntries, Host, Rated
    <3>2. \A j \in DOMAIN created.mapInfo : Host(created, j) = x => j \in DOMAIN am.mapInfo
      BY <2>3, <2>5, <2>9
    <3>. QED BY <1>3, <2>4, <3>1, <3>2, SameStatus
  <2>10. StatusAfter(StatusIn(created), a, "new", S, "unknown") =
           StatusAfter(StatusIn(am), a, "new", S, "unknown")
    BY <2>9 DEF StatusAfter
  <2>11. S \subseteq {x \in Addrs : StatusIn(am)[x] = "new"} \ {a} BY <2>6, <2>9
  <2>12. Book!Learn(a) BY <2>1, <2>6, <2>7, <2>8, <2>10, <2>11, BookLearns
  <2>. QED BY <2>7, <2>12 DEF Book!Next
<1>6. ASSUME NEW s \in Services, NEW source \in Sources, AddAgain(s, source)
      PROVE  Book!Next
  <2>. DEFINE nId == Find(am, s)
              a == Host(am, nId)
  <2>1. peersDat' = peersDat /\ Known(am, s) BY <1>6 DEF AddAgain
  <2>2. Entering(am, am', nId) /\ ~am.mapInfo[nId].fInTried BY <1>2, <1>6, AddAgainKeeps
  <2>3. nId \in DOMAIN am.mapInfo BY <1>2, <2>1, FoundEntry
  <2>. HIDE DEF nId
  <2>4. PICK S : /\ S \subseteq {x \in Addrs : StatusIn(am)[x] = "new"} \ {a}
                 /\ Cardinality(S) <= 1
                 /\ StatusIn(am') = StatusAfter(StatusIn(am), a, "new", S, "unknown")
    BY <1>3, <1>4, <2>2, <2>3, EnteringLearns
  <2>5. a \in Addrs /\ StatusIn(am)[a] = Rated(am, nId) BY <1>3, <2>3, StatusIs
  <2>6. StatusIn(am)[a] # "tried" BY <2>2, <2>5 DEF Rated
  <2>. HIDE DEF a
  <2>7. Book!Learn(a) BY <2>1, <2>4, <2>5, <2>6, BookLearns
  <2>. QED BY <2>5, <2>7 DEF Book!Next
<1>7. ASSUME NEW s \in Services, NEW nTime \in 1 .. MaxTime, Good(s, nTime)
      PROVE  Book!Next \/ Same
  <2>. DEFINE nId == Find(am, s)
              a == Host(am, nId)
  <2>1. peersDat' = peersDat BY <1>7 DEF Good
  <2>2. /\ nId \in DOMAIN am.mapInfo
        /\ \/ /\ DOMAIN am.mapInfo' = DOMAIN am.mapInfo
              /\ \A j \in DOMAIN am.mapInfo : /\ am.mapInfo'[j].service = am.mapInfo[j].service
                                              /\ am.mapInfo'[j].fInTried = am.mapInfo[j].fInTried
           \/ ~am.mapInfo[nId].fInTried /\ Promoted(am, am', nId)
    BY <1>2, <1>7, GoodKeeps
  <2>. HIDE DEF nId
  <2>3. ASSUME DOMAIN am'.mapInfo = DOMAIN am.mapInfo,
               \A j \in DOMAIN am.mapInfo : /\ am'.mapInfo[j].service = am.mapInfo[j].service
                                            /\ am'.mapInfo[j].fInTried = am.mapInfo[j].fInTried
        PROVE  Same
    BY <1>3, <1>4, <2>1, <2>3, SameStatuses
  <2>4. ASSUME ~am.mapInfo[nId].fInTried, Promoted(am, am', nId) PROVE Book!Next
    <3>1. PICK S : /\ S \subseteq {x \in Addrs : StatusIn(am)[x] = "tried"}
                   /\ Cardinality(S) <= 1
                   /\ StatusIn(am') = StatusAfter(StatusIn(am), a, "tried", S, "new")
      BY <1>3, <1>4, <2>2, <2>4, PromotedPromotes
    <3>2. a \in Addrs /\ StatusIn(am)[a] = Rated(am, nId) BY <1>3, <2>2, StatusIs
    <3>3. StatusIn(am)[a] = "new" BY <2>4, <3>2 DEF Rated
    <3>. HIDE DEF a
    <3>4. a \in Book!New BY <3>2, <3>3 DEF Book!New
    <3>5. S \in Book!AtMostOneOf(Book!Tried) BY <3>1, BookCardinality DEF Book!AtMostOneOf, Book!Tried
    <3>6. StatusIn(am') = [x \in Addrs |-> IF x = a THEN "tried" ELSE IF x \in S THEN "new"
                                           ELSE StatusIn(am)[x]]
      BY <3>1 DEF StatusAfter
    <3>7. StatusInFile(peersDat') = StatusInFile(peersDat) BY <2>1
    <3>8. Book!Promote(a) BY <3>4, <3>5, <3>6, <3>7 DEF Book!Promote
    <3>. QED BY <3>2, <3>8 DEF Book!Next
  <2>. QED BY <2>2, <2>3, <2>4
<1>8. ASSUME GetAddr PROVE Same
  <2>1. peersDat' = peersDat BY <1>8 DEF GetAddr
  <2>2. SameEntries(am.mapInfo, am'.mapInfo) /\ DOMAIN am'.mapInfo = DOMAIN am.mapInfo
    BY <1>2, <1>8, GetAddrKeeps
  <2>3. \A j \in DOMAIN am.mapInfo : /\ am'.mapInfo[j].service = am.mapInfo[j].service
                                     /\ am'.mapInfo[j].fInTried = am.mapInfo[j].fInTried
    BY <2>2 DEF SameEntries
  <2>. QED BY <1>3, <1>4, <2>1, <2>2, <2>3, SameStatuses
<1>9. ASSUME DumpAddresses PROVE Book!Next
  <2>1. am' = am /\ peersDat' = Serialize(am) BY <1>9 DEF DumpAddresses
  <2>2. StatusInFile(Serialize(am)) = StatusIn(am) BY <1>2, <1>3, SerializeIs, SavedStatus
  <2>3. Book!Save BY <2>1, <2>2 DEF Book!Save
  <2>. QED BY <2>3 DEF Book!Next
<1>10. ASSUME NEW same \in SameBucketCount, Restart(same) PROVE Book!Next
  <2>1. am' = Unserialize(peersDat, same) /\ peersDat' = peersDat BY <1>10 DEF Restart
  <2>2. same \in BOOLEAN BY AddrManAssumption
  <2>3. Restored(peersDat, am') BY <1>2, <2>1, <2>2, UnserializeIs
  <2>4. StatusIn(am') = StatusInFile(peersDat) BY <1>2, <1>4, <2>3, RestoredStatus
  <2>5. Book!Restart BY <2>1, <2>4 DEF Book!Restart
  <2>. QED BY <2>5 DEF Book!Next
<1>11. ASSUME RestartUnreadable PROVE Book!Next
  <2>1. am' = EmptyTables /\ peersDat' = peersDat BY <1>11 DEF RestartUnreadable
  <2>2. StatusIn(EmptyTables) = [a \in Addrs |-> "unknown"]
    <3>1. EmptyTables.mapAddr = << >> BY DEF EmptyTables
    <3>2. DOMAIN EmptyTables.mapAddr = {} BY <3>1
    <3>. QED BY <3>2 DEF StatusIn
  <2>3. Book!Restart BY <2>1, <2>2 DEF Book!Restart, Book!Unknown
  <2>. QED BY <2>3 DEF Book!Next
<1>12. ASSUME UNCHANGED vars PROVE Same BY <1>12 DEF vars
<1>. HIDE DEF Same
<1>. QED BY <1>1, <1>5, <1>6, <1>7, <1>8, <1>9, <1>10, <1>11, <1>12 DEF Next

\* The address manager is an address book: whatever buckets, identifiers and files
\* do, only a new address is forgotten, one at a time and to make room, at most one
\* tried address is new again when another is promoted, no unknown address becomes
\* tried, and what is restored is what was saved (Add_, Good_, MakeTried,
\* Serialize and Unserialize of CAddrMan).
THEOREM TablesAreABook == Spec => ImplementsAddrBook
<1>1. Init => AddrInv BY AddrInvInit
<1>2. AddrInv /\ [Next]_vars => AddrInv' BY AddrInvNext
<1>3. Init => Book!Init BY BookInit
<1>4. AddrInv /\ [Next]_vars => [Book!Next]_(Book!book) BY BookNext
<1>. QED BY <1>1, <1>2, <1>3, <1>4, PTL DEF Spec, ImplementsAddrBook, Book!Spec

=============================================================================
