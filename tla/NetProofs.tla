------------------------------ MODULE NetProofs ------------------------------
(***************************************************************************)
(* Theorems about the network side of a node: the life of a CNode, and the *)
(* blocks on their way between the nodes.                                  *)
(***************************************************************************)
EXTENDS Nodes, BlockSync, TreeLemmas, FiniteSetTheorems, SequenceTheorems, TLAPS

-----------------------------------------------------------------------------
(***************************************************************************)
(* The life of a CNode for any number of nodes, threads that open          *)
(* connections and places of the semaphore. Nothing in net.cpp says what   *)
(* nRefCount counts; the invariant does: it is at least the number of      *)
(* threads that are at work on the node, and one more as long as the       *)
(* socket handler has a reference to end. Grants are counted with it.      *)
(***************************************************************************)

CNode == [addr : Remotes \union {Null}, fInbound : BOOLEAN, fNetworkNode : BOOLEAN,
          fDisconnect : BOOLEAN, nRefCount : Int, fHaveGrant : BOOLEAN, held : BOOLEAN]
Opening == {"find", "found", "dial", "connected"}
OpenerState == [pc : Opening \union {"idle", "moved", "ended"}, addr : Remotes \union {Null},
                node : NodeIds \union {Null}, grant : BOOLEAN, count : Int]

NTyped ==
    /\ cnode \in [NodeIds -> CNode]
    /\ semOutbound \in Nat
    /\ opener \in [Openers -> OpenerState]
    /\ socket \in [pc : {"serve", "unlist", "clear", "ended"}, todo : SUBSET NodeIds,
                   node : NodeIds \union {Null}]
    /\ handler \in [pc : {"wait", "work", "ended"}, copy : SUBSET NodeIds]
    /\ handler.pc = "wait" => handler.copy = {}
    /\ fShutdown \in BOOLEAN
    /\ torn \subseteq NodeIds

\* Where the nodes are; one that was not created has no field set.
Placed ==
    /\ vNodes \union vNodesDisconnected \union deleted \union handler.copy \subseteq Created
    /\ vNodes \intersect vNodesDisconnected = {}
    /\ (vNodes \union vNodesDisconnected) \intersect deleted = {}
    /\ Created \ (vNodes \union vNodesDisconnected \union deleted) \subseteq {socket.node}
    /\ socket.todo \subseteq vNodes
    /\ \A n \in NodeIds \ Created : cnode[n] = NoNode

\* A node is between the lists while its grant is cleared, and only then.
Clearing ==
    IF socket.pc = "clear"
    THEN socket.node \in Created \ (vNodes \union vNodesDisconnected \union deleted)
    ELSE socket.node = Null

\* What an opening thread holds follows from where it is.
OpenersKnow ==
    \A o \in Openers :
        /\ opener[o].grant <=> opener[o].pc \in Opening
        /\ opener[o].pc \in Opening => opener[o].addr \in Remotes
        /\ IF opener[o].pc \in {"found", "connected", "moved"}
           THEN opener[o].node \in Created ELSE opener[o].node = Null

\* A node that was found, and has no reference yet, is kept by its release time.
FoundIsKept ==
    \A o \in Openers :
        At(o, "found") =>
            /\ opener[o].node \notin deleted
            /\ opener[o].node \in vNodesDisconnected => cnode[opener[o].node].held

\* Who has a reference to a node: the openers that got that far, the message
\* handler, and whoever connected, whose reference the socket handler will end.
Holders(n) == {o \in Openers : opener[o].pc \in {"connected", "moved"} /\ opener[o].node = n}
InCopy(n) == IF n \in handler.copy THEN 1 ELSE 0
ToEnd(n) == IF n \in vNodes \union {socket.node} /\ EndsReference(n) THEN 1 ELSE 0

RefsCounted ==
    \A n \in NodeIds \ torn :
        cnode[n].nRefCount >= Cardinality(Holders(n)) + InCopy(n) + ToEnd(n)

\* Every grant is free, with a thread or with a node; StopNode posts as many again.
Granted == {o \in Openers : opener[o].grant}
WithGrant == {n \in NodeIds : Grants(n)}
SemCounted ==
    torn = {} =>
        semOutbound + Cardinality(Granted) + Cardinality(WithGrant)
            = MaxOutbound + (IF fShutdown THEN MaxOutbound ELSE 0)

NInv ==
    /\ NTyped /\ Placed /\ Clearing /\ OpenersKnow /\ FoundIsKept
    /\ RefsCounted /\ SemCounted /\ NotUsedAfterDelete

-----------------------------------------------------------------------------
(***************************************************************************)
(* Counting.                                                               *)
(***************************************************************************)
One(p) == IF p THEN 1 ELSE 0

\* Two sets that differ in one element.
LEMMA DifferInOne ==
    ASSUME NEW S, NEW T, NEW x, IsFiniteSet(S), S \ {x} = T \ {x}
    PROVE  /\ IsFiniteSet(T)
           /\ Cardinality(S) \in Nat /\ Cardinality(T) \in Nat
           /\ Cardinality(T) = Cardinality(S) + One(x \in T) - One(x \in S)
<1> DEFINE R == S \ {x}
<1>1. /\ IsFiniteSet(R) /\ Cardinality(R) \in Nat
      /\ Cardinality(S) = Cardinality(R) + One(x \in S)
  <2>1. IsFiniteSet(R) /\ Cardinality(R) = IF x \in S THEN Cardinality(S) - 1 ELSE Cardinality(S)
    BY FS_RemoveElement
  <2>. QED BY <2>1, FS_CardinalityType DEF One
<1>2. CASE x \in T
  <2>1. T = R \union {x} BY <1>2
  <2>2. IsFiniteSet(T) /\ Cardinality(T) = Cardinality(R) + 1
    BY <1>1, <2>1, FS_AddElement
  <2>. QED BY <1>1, <1>2, <2>2, FS_CardinalityType DEF One
<1>3. CASE x \notin T
  <2>1. T = R BY <1>3
  <2>. QED BY <1>1, <1>3, <2>1, FS_CardinalityType DEF One
<1>. QED BY <1>2, <1>3

\* GetRefCount is zero only for a node nobody has a reference to.
LEMMA UnusedCount ==
    ASSUME NTyped, NEW n \in NodeIds
    PROVE  GetRefCount(n) = 0 => cnode[n].nRefCount <= 0 /\ ~cnode[n].held
<1> DEFINE i == cnode[n].nRefCount
           m == Max({i, 0})
<1>1. i \in Int BY DEF NTyped, CNode
<1>2. \E x \in {i, 0} : \A y \in {i, 0} : x >= y
  <2>1. CASE i >= 0 BY <1>1, <2>1
  <2>2. CASE ~(i >= 0) BY <1>1, <2>2
  <2>. QED BY <2>1, <2>2
<1>3. m \in {i, 0} /\ \A y \in {i, 0} : m >= y
  BY <1>2 DEF Max
<1>4. GetRefCount(n) = m + (IF cnode[n].held THEN 1 ELSE 0) BY DEF GetRefCount
<1>. HIDE DEF m, i
<1>5. m \in Int /\ m >= 0 /\ m >= i BY <1>1, <1>3
<1>6. GetRefCount(n) = 0 => i <= 0 /\ ~cnode[n].held
  BY <1>1, <1>4, <1>5
<1>. QED BY <1>6 DEF i

LEMMA FiniteCounts ==
    ASSUME NodesAssumption
    PROVE  /\ \A n : IsFiniteSet(Holders(n)) /\ Cardinality(Holders(n)) \in Nat
           /\ IsFiniteSet(Granted) /\ Cardinality(Granted) \in Nat
           /\ IsFiniteSet(WithGrant) /\ Cardinality(WithGrant) \in Nat
<1>1. /\ \A n : Holders(n) \subseteq Openers
      /\ Granted \subseteq Openers /\ WithGrant \subseteq NodeIds
  BY DEF Holders, Granted, WithGrant
<1>. QED BY <1>1, FS_Subset, FS_CardinalityType DEF NodesAssumption

\* What the step of one opening thread does to the counts.
LEMMA OpenerCounts ==
    ASSUME NodesAssumption, NTyped, NEW o \in Openers, NEW r, Moves(o, r)
    PROVE  /\ \A n \in NodeIds :
                Cardinality(Holders(n))' = Cardinality(Holders(n))
                    + One(r.pc \in {"connected", "moved"} /\ r.node = n) - One(o \in Holders(n))
           /\ Cardinality(Granted)' = Cardinality(Granted) + One(r.grant) - One(opener[o].grant)
           /\ \A n \in NodeIds : Cardinality(Holders(n))' \in Nat
           /\ Cardinality(Granted)' \in Nat
<1>1. \A p \in Openers : opener'[p] = IF p = o THEN r ELSE opener[p]
  BY DEF Moves, NTyped
<1>2. ASSUME NEW n \in NodeIds
      PROVE  /\ Holders(n) \ {o} = Holders(n)' \ {o}
             /\ o \in Holders(n)' <=> (r.pc \in {"connected", "moved"} /\ r.node = n)
  BY <1>1 DEF Holders
<1>3. /\ Granted \ {o} = Granted' \ {o}
      /\ o \in Granted' <=> r.grant
      /\ o \in Granted <=> opener[o].grant
  BY <1>1 DEF Granted
<1>4. ASSUME NEW n \in NodeIds
      PROVE  /\ Cardinality(Holders(n)') = Cardinality(Holders(n))
                    + One(r.pc \in {"connected", "moved"} /\ r.node = n) - One(o \in Holders(n))
             /\ Cardinality(Holders(n)') \in Nat
  BY <1>2, DifferInOne, FiniteCounts DEF One
<1>5. /\ Cardinality(Granted') = Cardinality(Granted) + One(r.grant) - One(opener[o].grant)
      /\ Cardinality(Granted') \in Nat
  BY <1>3, DifferInOne, FiniteCounts DEF One
<1>. QED BY <1>4, <1>5

\* What a step that touches the grant of one node does to their number.
LEMMA NodeGrantCount ==
    ASSUME NodesAssumption, NEW n \in NodeIds,
           \A m \in NodeIds \ {n} : Grants(m)' <=> Grants(m)
    PROVE  /\ Cardinality(WithGrant)' = Cardinality(WithGrant) + One(Grants(n)') - One(Grants(n))
           /\ Cardinality(WithGrant)' \in Nat
<1>1. /\ WithGrant \ {n} = WithGrant' \ {n}
      /\ n \in WithGrant' <=> Grants(n)'
      /\ n \in WithGrant <=> Grants(n)
  BY DEF WithGrant
<1>2. /\ Cardinality(WithGrant') = Cardinality(WithGrant) + One(Grants(n)') - One(Grants(n))
      /\ Cardinality(WithGrant') \in Nat
  BY <1>1, DifferInOne, FiniteCounts DEF One
<1>. QED BY <1>2

-----------------------------------------------------------------------------
(***************************************************************************)
(* The opening threads.                                                    *)
(***************************************************************************)
LEMMA IdleState ==
    /\ Idle \in OpenerState
    /\ Idle.pc = "idle" /\ Idle.addr = Null /\ Idle.node = Null /\ Idle.grant = FALSE
  BY DEF Idle, OpenerState

LEMMA NodesInitially == NodesAssumption /\ NodesInit => NInv
<1>. SUFFICES ASSUME NodesAssumption, NodesInit PROVE NInv
  OBVIOUS
<1>1. /\ Created = {} /\ Granted = {} /\ WithGrant = {}
      /\ \A n : Holders(n) = {}
  BY DEF NodesInit, Created, Granted, WithGrant, Holders, Grants, NoNode, Idle
<1>2. NTyped
  <2>1. NoNode \in CNode BY DEF CNode, NoNode
  <2>2. cnode \in [NodeIds -> CNode]
    BY <2>1 DEF NodesInit
  <2>6. opener \in [Openers -> OpenerState]
    BY IdleState DEF NodesInit
  <2>3. semOutbound \in Nat BY DEF NodesInit, NodesAssumption
  <2>7. fShutdown \in BOOLEAN /\ torn \subseteq NodeIds BY DEF NodesInit
  <2>4. socket \in [pc : {"serve", "unlist", "clear", "ended"}, todo : SUBSET NodeIds,
                    node : NodeIds \union {Null}]
    BY DEF NodesInit
  <2>5. /\ handler \in [pc : {"wait", "work", "ended"}, copy : SUBSET NodeIds]
        /\ handler.pc = "wait" => handler.copy = {}
    BY DEF NodesInit
  <2>. QED BY <2>2, <2>3, <2>4, <2>5, <2>6, <2>7 DEF NTyped
<1>6. OpenersKnow
  BY DEF NodesInit, Opening, OpenersKnow, Idle
<1>3. Placed /\ Clearing /\ FoundIsKept /\ NotUsedAfterDelete
  BY <1>1 DEF NodesInit, Placed, Clearing, FoundIsKept, At, Idle, NotUsedAfterDelete
<1>4. RefsCounted
  <2>1. \A n \in NodeIds : cnode[n].nRefCount = 0 /\ InCopy(n) = 0 /\ ToEnd(n) = 0
    BY DEF NodesInit, NoNode, InCopy, ToEnd, EndsReference
  <2>2. \A n \in NodeIds : Cardinality(Holders(n)) = 0
    BY <1>1, FS_EmptySet
  <2>. QED BY <2>1, <2>2 DEF RefsCounted
<1>5. SemCounted
  BY <1>1, FS_EmptySet DEF NodesInit, SemCounted, NodesAssumption
<1>. QED BY <1>2, <1>3, <1>4, <1>5, <1>6 DEF NInv

\* A step of an opening thread that leaves the nodes alone and, after its
\* step, has a node only if it had that node before.
LEMMA OpenerMovesSound ==
    ASSUME NodesAssumption, NInv, NEW o \in Openers, NEW r \in OpenerState, Moves(o, r),
           r.grant <=> r.pc \in Opening,
           r.pc \in Opening => r.addr \in Remotes,
           r.pc = "found" => r.node \in vNodes,
           r.pc \in {"connected", "moved"} => o \in Holders(r.node),
           r.pc \notin {"found", "connected", "moved"} => r.node = Null,
           semOutbound' \in Nat, semOutbound' = semOutbound + One(opener[o].grant) - One(r.grant),
           UNCHANGED <<cnode, vNodes, vNodesDisconnected, deleted, socket, handler, fShutdown, history>>
    PROVE  NInv'
<1>. USE DEF NInv
<1>1. \A p \in Openers : opener'[p] = IF p = o THEN r ELSE opener[p]
  BY DEF Moves, NTyped
<1>2. NTyped'
  BY DEF NTyped, Moves, history
<1>3. Created' = Created BY DEF Created
<1>4. Placed' /\ Clearing'
  BY <1>3 DEF Placed, Clearing
<1>5. OpenersKnow'
  BY <1>1, <1>3 DEF OpenersKnow, Placed, Holders
<1>6. FoundIsKept'
  BY <1>1 DEF FoundIsKept, At, Placed
<1>7. RefsCounted'
  <2>. SUFFICES ASSUME NEW n \in NodeIds \ torn
                PROVE  cnode[n].nRefCount >= Cardinality(Holders(n))' + InCopy(n) + ToEnd(n)
    BY DEF RefsCounted, InCopy, ToEnd, EndsReference, history
  <2>0. r.pc \in {"connected", "moved"} /\ r.node = n => o \in Holders(n)
    OBVIOUS
  <2>1. Cardinality(Holders(n))' <= Cardinality(Holders(n)) /\ Cardinality(Holders(n))' \in Nat
    BY <2>0, OpenerCounts, FiniteCounts DEF One
  <2>2. InCopy(n) \in Int /\ ToEnd(n) \in Int /\ cnode[n].nRefCount \in Int
    BY DEF InCopy, ToEnd, NTyped, CNode
  <2>. QED BY <2>1, <2>2, FiniteCounts DEF RefsCounted
<1>8. SemCounted'
  <2>1. WithGrant' = WithGrant BY DEF WithGrant, Grants
  <2>2. semOutbound + One(opener[o].grant) - One(r.grant) + Cardinality(Granted)'
           = semOutbound + Cardinality(Granted)
    BY OpenerCounts, FiniteCounts DEF One, NTyped
  <2>. QED BY <2>1, <2>2, FiniteCounts DEF SemCounted, history, One, NTyped
<1>9. NotUsedAfterDelete'
  <2>. SUFFICES ASSUME NEW n \in deleted \ torn PROVE opener'[o].node # n
    BY <1>1 DEF NotUsedAfterDelete, history
  <2>1. n # Null /\ n \notin vNodes /\ opener[o].node # n
    BY DEF Placed, Created, NodesAssumption, NotUsedAfterDelete
  <2>2. r.pc \in {"connected", "moved"} => r.node = opener[o].node
    BY DEF Holders
  <2>. QED BY <1>1, <2>1, <2>2
<1>. QED BY <1>2, <1>4, <1>5, <1>6, <1>7, <1>8, <1>9

LEMMA GiveUpKeeps ==
    ASSUME NodesAssumption, NInv, NEW o \in Openers, GiveUp(o) \/ StopOpener(o)
    PROVE  NInv'
<1> DEFINE r == [Idle EXCEPT !.pc = IF fShutdown THEN "ended" ELSE "idle"]
<1>1. r \in OpenerState /\ r.pc \in {"ended", "idle"} /\ r.grant = FALSE /\ r.node = Null
  BY IdleState DEF OpenerState
<1>2. semOutbound' \in Nat /\ semOutbound' = semOutbound + One(opener[o].grant) - One(r.grant)
  BY <1>1 DEF GiveUp, StopOpener, GivesUp, One, NInv, NTyped
<1>3. /\ Moves(o, r)
      /\ UNCHANGED <<cnode, vNodes, vNodesDisconnected, deleted, socket, handler, fShutdown, history>>
  BY DEF GiveUp, StopOpener, GivesUp
<1>. HIDE DEF r
<1>4. r.pc \notin Opening BY <1>1 DEF Opening
<1>. QED BY <1>1, <1>2, <1>3, <1>4, OpenerMovesSound

LEMMA AcquireKeeps ==
    ASSUME NodesAssumption, NInv, NEW o \in Openers, NEW a \in Remotes, Acquire(o, a)
    PROVE  NInv'
<1> DEFINE r == [Idle EXCEPT !.pc = "find", !.addr = a, !.grant = TRUE]
<1>1. r \in OpenerState /\ r.pc = "find" /\ r.grant = TRUE /\ r.node = Null /\ r.addr = a
  BY IdleState DEF OpenerState, Opening
<1>2. ~opener[o].grant
  BY DEF Acquire, At, NInv, OpenersKnow, Opening
<1>3. semOutbound' \in Nat /\ semOutbound' = semOutbound + One(opener[o].grant) - One(r.grant)
  BY <1>1, <1>2 DEF Acquire, One, NInv, NTyped
<1>4. /\ Moves(o, r)
      /\ UNCHANGED <<cnode, vNodes, vNodesDisconnected, deleted, socket, handler, fShutdown, history>>
  BY DEF Acquire
<1>. HIDE DEF r
<1>5. r.pc \in Opening BY <1>1 DEF Opening
<1>. QED BY <1>1, <1>3, <1>4, <1>5, OpenerMovesSound

LEMMA FindExistingKeeps ==
    ASSUME NodesAssumption, NInv, NEW o \in Openers, FindExisting(o)
    PROVE  NInv'
<1>. USE DEF NInv
<1> DEFINE q == opener[o]
<1>1. /\ q \in OpenerState /\ q.pc = "find" /\ q.grant /\ q.node = Null /\ q.addr \in Remotes
      /\ semOutbound' = semOutbound /\ semOutbound \in Nat
      /\ UNCHANGED <<cnode, vNodes, vNodesDisconnected, deleted, socket, handler, fShutdown, history>>
  <2>1. q.pc = "find" BY DEF FindExisting, At
  <2>2. q.grant /\ q.node = Null /\ q.addr \in Remotes
    BY <2>1 DEF OpenersKnow, Opening
  <2>. QED BY <2>1, <2>2 DEF FindExisting, NTyped
<1>2. CASE Moves(o, [q EXCEPT !.pc = "dial"])
  <2> DEFINE r == [q EXCEPT !.pc = "dial"]
  <2>1. r \in OpenerState /\ r.pc = "dial" /\ r.grant /\ r.node = Null /\ r.addr \in Remotes
    BY <1>1 DEF OpenerState, Opening
  <2>2. Moves(o, r) BY <1>2
  <2>. HIDE DEF r
  <2>. QED BY <1>1, <2>1, <2>2, OpenerMovesSound DEF Opening, One
<1>3. ASSUME NEW n \in vNodes,
             Moves(o, [q EXCEPT !.pc = "found", !.node = n, !.count = cnode[n].nRefCount])
      PROVE  NInv'
  <2> DEFINE r == [q EXCEPT !.pc = "found", !.node = n, !.count = cnode[n].nRefCount]
  <2>0. n \in NodeIds /\ cnode[n].nRefCount \in Int
    BY DEF Placed, Created, NTyped, CNode
  <2>1. r \in OpenerState /\ r.pc = "found" /\ r.grant /\ r.node = n /\ r.addr \in Remotes
    BY <1>1, <2>0 DEF OpenerState, Opening
  <2>2. Moves(o, r) BY <1>3
  <2>. HIDE DEF r
  <2>. QED BY <1>1, <2>1, <2>2, OpenerMovesSound DEF Opening, One
<1>. QED BY <1>2, <1>3 DEF FindExisting

\* A step that changes the fields of one node, and not where the nodes are.
LEMMA SamePlaces ==
    ASSUME NInv, NEW n \in Created, NEW c \in CNode, c.addr = cnode[n].addr,
           cnode' = [cnode EXCEPT ![n] = c],
           UNCHANGED <<vNodes, vNodesDisconnected, deleted, socket, handler>>
    PROVE  /\ cnode' \in [NodeIds -> CNode]
           /\ Created' = Created
           /\ Placed' /\ Clearing'
           /\ \A m \in NodeIds : cnode'[m] = IF m = n THEN c ELSE cnode[m]
<1>1. n \in NodeIds BY DEF Created
<1>2. \A m \in NodeIds : cnode'[m] = IF m = n THEN c ELSE cnode[m]
  BY DEF NInv, NTyped
<1>3. cnode' \in [NodeIds -> CNode] BY DEF NInv, NTyped
<1>4. Created' = Created BY <1>1, <1>2 DEF Created
<1>5. Placed' BY <1>2, <1>4 DEF NInv, Placed
<1>6. Clearing' BY <1>4 DEF NInv, Clearing
<1>. QED BY <1>2, <1>3, <1>4, <1>5, <1>6

\* A node that is lost to nobody: the openers that move on keep what they know.
LEMMA OpenersMoveOn ==
    ASSUME NInv, NEW o \in Openers, NEW r \in OpenerState, Moves(o, r), Created \subseteq Created',
           r.grant <=> r.pc \in Opening, r.pc \in Opening => r.addr \in Remotes,
           IF r.pc \in {"found", "connected", "moved"} THEN r.node \in Created' ELSE r.node = Null
    PROVE  opener' \in [Openers -> OpenerState] /\ OpenersKnow'
<1>1. \A p \in Openers : opener'[p] = IF p = o THEN r ELSE opener[p]
  BY DEF Moves, NInv, NTyped
<1>2. opener' \in [Openers -> OpenerState] BY DEF Moves, NInv, NTyped
<1>3. OpenersKnow' BY <1>1 DEF NInv, OpenersKnow
<1>. QED BY <1>2, <1>3

LEMMA AddRefFoundKeeps ==
    ASSUME NodesAssumption, NInv, NEW o \in Openers, AddRefFound(o)
    PROVE  NInv'
<1>. USE DEF NInv
<1> DEFINE n == opener[o].node
           now == cnode[n].nRefCount
           r == [opener[o] EXCEPT !.pc = "connected"]
<1>1. At(o, "found") /\ n \in Created /\ n \in NodeIds /\ opener[o] \in OpenerState
  BY DEF AddRefFound, At, OpenersKnow, Created, NTyped
<1>2. cnode[n] \in CNode /\ now \in Int /\ opener[o].count \in Int
  BY <1>1 DEF NTyped, CNode, OpenerState
<1>a. PICK c \in {opener[o].count + 1, now + 1}
                    \union (IF now # opener[o].count THEN {now} ELSE {}) :
             /\ cnode' = [cnode EXCEPT ![n].nRefCount = c]
             /\ torn' = IF c = now + 1 THEN torn ELSE torn \union {n}
  BY DEF AddRefFound
<1>3. /\ c \in Int /\ cnode' = [cnode EXCEPT ![n].nRefCount = c]
      /\ torn' = IF c = now + 1 THEN torn ELSE torn \union {n}
  BY <1>2, <1>a
<1> DEFINE d == [cnode[n] EXCEPT !.nRefCount = c]
<1>4. /\ d \in CNode /\ d.nRefCount = c
      /\ d.addr = cnode[n].addr /\ d.fInbound = cnode[n].fInbound /\ d.held = cnode[n].held
      /\ d.fNetworkNode = cnode[n].fNetworkNode /\ d.fHaveGrant = cnode[n].fHaveGrant
  BY <1>2 DEF CNode
<1>5. /\ r \in OpenerState /\ r.pc = "connected" /\ r.node = n
      /\ r.grant = opener[o].grant /\ r.addr = opener[o].addr
  BY <1>1 DEF OpenerState, Opening
<1>6. opener[o].grant = TRUE /\ opener[o].addr \in Remotes
  BY <1>1 DEF OpenersKnow, At, Opening, OpenerState
<1>7. /\ cnode' = [cnode EXCEPT ![n] = d] /\ Moves(o, r)
      /\ UNCHANGED <<vNodes, vNodesDisconnected, deleted, semOutbound, socket, handler, fShutdown>>
  BY <1>3 DEF AddRefFound
<1>. HIDE DEF n, d, r, now
<1>8. /\ cnode' \in [NodeIds -> CNode] /\ Created' = Created
      /\ Placed' /\ Clearing'
      /\ \A m \in NodeIds : cnode'[m] = IF m = n THEN d ELSE cnode[m]
  BY <1>1, <1>4, <1>7, SamePlaces
<1>9. opener' \in [Openers -> OpenerState] /\ OpenersKnow'
  BY <1>1, <1>5, <1>6, <1>7, <1>8, OpenersMoveOn DEF Opening
<1>10. \A p \in Openers : opener'[p] = IF p = o THEN r ELSE opener[p]
  BY <1>7 DEF Moves, NTyped
<1>11. NTyped'
  BY <1>1, <1>3, <1>7, <1>8, <1>9 DEF NTyped
<1>12. FoundIsKept'
  BY <1>4, <1>5, <1>7, <1>8, <1>9, <1>10 DEF FoundIsKept, At, OpenersKnow, Created
<1>13. RefsCounted'
  <2>. SUFFICES ASSUME NEW m \in NodeIds \ torn'
                PROVE  cnode'[m].nRefCount >= Cardinality(Holders(m))' + InCopy(m)' + ToEnd(m)'
    BY DEF RefsCounted
  <2>1. o \notin Holders(m) BY <1>1 DEF Holders, At
  <2>2. Cardinality(Holders(m))' = Cardinality(Holders(m)) + One(m = n)
    BY <1>5, <1>7, <2>1, OpenerCounts, FiniteCounts DEF One
  <2>3. InCopy(m)' = InCopy(m) /\ ToEnd(m)' = ToEnd(m)
    BY <1>4, <1>7, <1>8 DEF InCopy, ToEnd, EndsReference
  <2>4. m \notin torn /\ cnode'[m].nRefCount = cnode[m].nRefCount + One(m = n)
    BY <1>2, <1>3, <1>4, <1>8 DEF One, now, NTyped, CNode
  <2>5. InCopy(m) \in Int /\ ToEnd(m) \in Int /\ cnode[m].nRefCount \in Int /\ One(m = n) \in Int
    BY DEF InCopy, ToEnd, One, NTyped, CNode
  <2>. QED BY <2>2, <2>3, <2>4, <2>5, FiniteCounts DEF RefsCounted
<1>14. SemCounted'
  <2>1. WithGrant' = WithGrant
    BY <1>4, <1>7, <1>8 DEF WithGrant, Grants
  <2>2. Cardinality(Granted)' = Cardinality(Granted)
    BY <1>5, <1>6, <1>7, OpenerCounts, FiniteCounts DEF One
  <2>3. torn' = {} => torn = {} BY <1>3
  <2>. QED BY <1>7, <2>1, <2>2, <2>3 DEF SemCounted
<1>15. NotUsedAfterDelete'
  BY <1>3, <1>5, <1>7, <1>10 DEF NotUsedAfterDelete, n
<1>. QED BY <1>8, <1>9, <1>11, <1>12, <1>13, <1>14, <1>15

LEMMA CreatesNew ==
    ASSUME NEW n, Creates(n)
    PROVE  n \in NodeIds \ Created
<1>1. \E m \in NodeIds : m \notin Created BY DEF Creates, Created
<1>. QED BY <1>1 DEF Creates

LEMMA DialKeeps ==
    ASSUME NodesAssumption, NInv, NEW o \in Openers, NEW n \in NodeIds, Dial(o, n)
    PROVE  NInv'
<1>. USE DEF NInv
<1> DEFINE new == [NoNode EXCEPT !.addr = opener[o].addr, !.nRefCount = 1]
           r == [opener[o] EXCEPT !.pc = "connected", !.node = n]
<1>1. At(o, "dial") /\ ~Locked /\ n \notin Created /\ opener[o] \in OpenerState
  BY CreatesNew DEF Dial, NTyped
<1>2. opener[o].grant = TRUE /\ opener[o].addr \in Remotes
  BY <1>1 DEF OpenersKnow, At, Opening, OpenerState
<1>3. /\ NoNode \in CNode /\ NoNode.fInbound = FALSE /\ NoNode.fNetworkNode = FALSE
      /\ NoNode.fHaveGrant = FALSE
  BY DEF NoNode, CNode
<1>4. /\ new \in CNode /\ new.addr \in Remotes /\ new.nRefCount = 1
      /\ new.fInbound = FALSE /\ new.fNetworkNode = FALSE /\ new.fHaveGrant = FALSE
  <2>1. new \in CNode
    <3>1. [NoNode EXCEPT !.addr = opener[o].addr] \in CNode BY <1>2, <1>3 DEF CNode
    <3>2. \A c \in CNode : [c EXCEPT !.nRefCount = 1] \in CNode BY DEF CNode
    <3>. QED BY <3>1, <3>2
  <2>2. new.addr \in Remotes /\ new.nRefCount = 1 BY <1>2, <1>3 DEF CNode
  <2>3. new.fInbound = FALSE /\ new.fNetworkNode = FALSE /\ new.fHaveGrant = FALSE
    BY <1>3 DEF CNode
  <2>. QED BY <2>1, <2>2, <2>3
<1>5. /\ r \in OpenerState /\ r.pc = "connected" /\ r.node = n
      /\ r.grant = TRUE /\ r.addr = opener[o].addr
  BY <1>1, <1>2 DEF OpenerState, Opening
<1>6. /\ cnode' = [cnode EXCEPT ![n] = new] /\ Moves(o, r) /\ vNodes' = vNodes \union {n}
      /\ UNCHANGED <<vNodesDisconnected, deleted, semOutbound, socket, handler, fShutdown, torn>>
  BY DEF Dial, history
<1>. HIDE DEF new, r
<1>7. \A m \in NodeIds : cnode'[m] = IF m = n THEN new ELSE cnode[m]
  BY <1>6 DEF NTyped
<1>8. \A p \in Openers : opener'[p] = IF p = o THEN r ELSE opener[p]
  BY <1>6 DEF Moves, NTyped
<1>9. Created' = Created \union {n}
  BY <1>4, <1>7 DEF Created, NodesAssumption
<1>10. socket.pc # "clear" /\ socket.node = Null /\ n # Null
  BY <1>1 DEF Locked, Clearing, NodesAssumption
<1>11. NTyped'
  BY <1>4, <1>5, <1>6 DEF NTyped, Moves
<1>12. Placed' /\ Clearing'
  BY <1>1, <1>6, <1>7, <1>9, <1>10 DEF Placed, Clearing
<1>13. OpenersKnow'
  BY <1>2, <1>5, <1>6, <1>9, OpenersMoveOn DEF Opening
<1>14. FoundIsKept'
  BY <1>1, <1>5, <1>6, <1>7, <1>8, <1>10 DEF FoundIsKept, At, Placed
<1>15. RefsCounted'
  <2>. SUFFICES ASSUME NEW m \in NodeIds \ torn
                PROVE  cnode'[m].nRefCount >= Cardinality(Holders(m))' + InCopy(m)' + ToEnd(m)'
    BY <1>6 DEF RefsCounted
  <2>1. o \notin Holders(m) BY <1>1 DEF Holders, At
  <2>2. Cardinality(Holders(m))' = Cardinality(Holders(m)) + One(m = n)
    BY <1>5, <1>6, <2>1, OpenerCounts, FiniteCounts DEF One
  <2>3. CASE m = n
    <3>1. Holders(m) = {}
      BY <1>1, <1>10, <2>3 DEF Holders, OpenersKnow
    <3>2. InCopy(m)' = 0 /\ ToEnd(m)' = 0
      BY <1>1, <1>4, <1>6, <1>7, <2>3 DEF InCopy, ToEnd, EndsReference, Placed
    <3>. QED BY <1>4, <1>7, <2>2, <2>3, <3>1, <3>2, FS_EmptySet DEF One
  <2>4. CASE m # n
    <3>1. InCopy(m)' = InCopy(m) /\ ToEnd(m)' = ToEnd(m)
      BY <1>6, <1>7, <2>4 DEF InCopy, ToEnd, EndsReference
    <3>2. InCopy(m) \in Int /\ ToEnd(m) \in Int /\ cnode[m].nRefCount \in Int
      BY DEF InCopy, ToEnd, NTyped, CNode
    <3>. QED BY <1>7, <2>2, <2>4, <3>1, <3>2, FiniteCounts DEF RefsCounted, One
  <2>. QED BY <2>3, <2>4
<1>16. SemCounted'
  <2>1. cnode[n].fHaveGrant = FALSE
    BY <1>1, <1>3 DEF Placed
  <2>2. WithGrant' = WithGrant
    BY <1>4, <1>6, <1>7, <2>1 DEF WithGrant, Grants
  <2>3. Cardinality(Granted)' = Cardinality(Granted)
    BY <1>2, <1>5, <1>6, OpenerCounts, FiniteCounts DEF One
  <2>. QED BY <1>6, <2>2, <2>3 DEF SemCounted
<1>17. NotUsedAfterDelete'
  BY <1>1, <1>5, <1>6, <1>8 DEF NotUsedAfterDelete, Placed
<1>. QED BY <1>11, <1>12, <1>13, <1>14, <1>15, <1>16, <1>17

LEMMA MoveGrantKeeps ==
    ASSUME NodesAssumption, NInv, NEW o \in Openers, MoveGrant(o)
    PROVE  NInv'
<1>. USE DEF NInv
<1>0. PICK n \in NodeIds : n = opener[o].node
  BY DEF MoveGrant, At, OpenersKnow, Created
<1> DEFINE d == [cnode[n] EXCEPT !.fHaveGrant = opener[o].grant]
           r == [opener[o] EXCEPT !.pc = "moved", !.grant = FALSE]
<1>1. At(o, "connected") /\ n \in Created /\ opener[o] \in OpenerState
  BY <1>0 DEF MoveGrant, At, OpenersKnow, Created, NTyped
<1>2. cnode[n] \in CNode /\ opener[o].grant = TRUE
  BY <1>1 DEF NTyped, OpenersKnow, At, Opening, OpenerState
<1>3. /\ d \in CNode /\ d.nRefCount = cnode[n].nRefCount
      /\ d.addr = cnode[n].addr /\ d.fInbound = cnode[n].fInbound /\ d.held = cnode[n].held
      /\ d.fNetworkNode = cnode[n].fNetworkNode /\ d.fHaveGrant = TRUE
  BY <1>2 DEF CNode
<1>4. r \in OpenerState /\ r.pc = "moved" /\ r.node = n /\ r.grant = FALSE
  BY <1>0, <1>1 DEF OpenerState, Opening
<1>5. /\ cnode' = [cnode EXCEPT ![n] = d] /\ Moves(o, r)
      /\ semOutbound' = semOutbound + Released(cnode[n].fHaveGrant)
      /\ torn' = IF socket.pc = "clear" /\ socket.node = n THEN torn \union {n} ELSE torn
      /\ UNCHANGED <<vNodes, vNodesDisconnected, deleted, socket, handler, fShutdown>>
  BY <1>0 DEF MoveGrant
<1>. HIDE DEF d, r
<1>6. /\ cnode' \in [NodeIds -> CNode] /\ Created' = Created
      /\ Placed' /\ Clearing'
      /\ \A m \in NodeIds : cnode'[m] = IF m = n THEN d ELSE cnode[m]
  BY <1>1, <1>3, <1>5, SamePlaces
<1>7. opener' \in [Openers -> OpenerState] /\ OpenersKnow'
  BY <1>1, <1>4, <1>5, <1>6, OpenersMoveOn DEF Opening
<1>8. \A p \in Openers : opener'[p] = IF p = o THEN r ELSE opener[p]
  BY <1>5 DEF Moves, NTyped
<1>9. NTyped'
  BY <1>1, <1>5, <1>6, <1>7 DEF NTyped, Released
<1>10. FoundIsKept'
  BY <1>3, <1>4, <1>5, <1>6, <1>7, <1>8 DEF FoundIsKept, At, OpenersKnow, Created
<1>11. RefsCounted'
  <2>. SUFFICES ASSUME NEW m \in NodeIds \ torn
                PROVE  cnode'[m].nRefCount >= Cardinality(Holders(m))' + InCopy(m)' + ToEnd(m)'
    BY <1>5 DEF RefsCounted
  <2>1. o \in Holders(m) <=> m = n BY <1>0, <1>1 DEF Holders, At
  <2>2. Cardinality(Holders(m))' = Cardinality(Holders(m))
    BY <1>4, <1>5, <2>1, OpenerCounts, FiniteCounts DEF One
  <2>3. /\ InCopy(m)' = InCopy(m) /\ ToEnd(m)' = ToEnd(m)
        /\ cnode'[m].nRefCount = cnode[m].nRefCount
    BY <1>3, <1>5, <1>6 DEF InCopy, ToEnd, EndsReference
  <2>. QED BY <2>2, <2>3 DEF RefsCounted
<1>12. SemCounted'
  <2>. SUFFICES ASSUME torn' = {}
                PROVE  semOutbound' + Cardinality(Granted)' + Cardinality(WithGrant)'
                          = MaxOutbound + (IF fShutdown THEN MaxOutbound ELSE 0)
    BY <1>5 DEF SemCounted
  <2>1. torn = {} /\ ~(socket.pc = "clear" /\ socket.node = n)
    BY <1>1, <1>5
  <2>2. Grants(n)' /\ (Grants(n) <=> cnode[n].fHaveGrant)
    <3>1. cnode'[n].fHaveGrant BY <1>1, <1>3, <1>6
    <3>2. ~(socket'.pc = "clear" /\ socket'.node = n) BY <1>5, <2>1
    <3>. QED BY <2>1, <3>1, <3>2 DEF Grants
  <2>3. ASSUME NEW m \in NodeIds \ {n} PROVE Grants(m)' <=> Grants(m)
    <3>1. cnode'[m] = cnode[m] BY <1>6
    <3>. QED BY <1>5, <3>1 DEF Grants
  <2>4. /\ Cardinality(WithGrant)' = Cardinality(WithGrant) + 1 - One(Grants(n))
        /\ Cardinality(WithGrant)' \in Nat
    BY <1>1, <2>2, <2>3, NodeGrantCount, FiniteCounts DEF One
  <2>5. Cardinality(Granted)' = Cardinality(Granted) - 1 /\ Cardinality(Granted)' \in Nat
    BY <1>2, <1>4, <1>5, OpenerCounts, FiniteCounts DEF One
  <2>6. semOutbound' = semOutbound + One(Grants(n)) /\ One(Grants(n)) \in Int /\ semOutbound \in Int
    BY <1>5, <2>2 DEF One, Released, NTyped
  <2>. QED BY <2>1, <2>4, <2>5, <2>6, FiniteCounts DEF SemCounted
<1>13. NotUsedAfterDelete'
  BY <1>0, <1>4, <1>5, <1>8 DEF NotUsedAfterDelete
<1>. QED BY <1>6, <1>7, <1>9, <1>10, <1>11, <1>12, <1>13

LEMMA MarkNetworkNodeKeeps ==
    ASSUME NodesAssumption, NInv, NEW o \in Openers, MarkNetworkNode(o)
    PROVE  NInv'
<1>. USE DEF NInv
<1>0. PICK n \in NodeIds : n = opener[o].node
  BY DEF MarkNetworkNode, At, OpenersKnow, Created
<1> DEFINE d == [cnode[n] EXCEPT !.fNetworkNode = TRUE]
           r == [Idle EXCEPT !.pc = IF fShutdown THEN "ended" ELSE "idle"]
<1>1. At(o, "moved") /\ n \in Created /\ opener[o] \in OpenerState
  BY <1>0 DEF MarkNetworkNode, At, OpenersKnow, Created, NTyped
<1>2. cnode[n] \in CNode /\ opener[o].grant = FALSE
  BY <1>1 DEF NTyped, OpenersKnow, At, Opening, OpenerState
<1>3. /\ d \in CNode /\ d.nRefCount = cnode[n].nRefCount /\ d.fNetworkNode = TRUE
      /\ d.addr = cnode[n].addr /\ d.fInbound = cnode[n].fInbound /\ d.held = cnode[n].held
      /\ d.fHaveGrant = cnode[n].fHaveGrant
  BY <1>2 DEF CNode
<1>4. r \in OpenerState /\ r.pc \in {"ended", "idle"} /\ r.node = Null /\ r.grant = FALSE
  BY IdleState DEF OpenerState
<1>5. /\ cnode' = [cnode EXCEPT ![n] = d] /\ Moves(o, r)
      /\ UNCHANGED <<vNodes, vNodesDisconnected, deleted, socket, handler, fShutdown, torn>>
  BY <1>0 DEF MarkNetworkNode, GivesUp, history
<1>6. semOutbound' = semOutbound /\ semOutbound \in Nat
  BY <1>2 DEF MarkNetworkNode, GivesUp, NTyped
<1>. HIDE DEF d, r
<1>7. /\ cnode' \in [NodeIds -> CNode] /\ Created' = Created
      /\ Placed' /\ Clearing'
      /\ \A m \in NodeIds : cnode'[m] = IF m = n THEN d ELSE cnode[m]
  BY <1>1, <1>3, <1>5, SamePlaces
<1>8. opener' \in [Openers -> OpenerState] /\ OpenersKnow'
  BY <1>1, <1>4, <1>5, <1>7, OpenersMoveOn DEF Opening
<1>9. \A p \in Openers : opener'[p] = IF p = o THEN r ELSE opener[p]
  BY <1>5 DEF Moves, NTyped
<1>10. NTyped'
  BY <1>5, <1>6, <1>7, <1>8 DEF NTyped
<1>11. FoundIsKept'
  BY <1>3, <1>4, <1>5, <1>7, <1>8, <1>9 DEF FoundIsKept, At, OpenersKnow, Created
<1>12. RefsCounted'
  <2>. SUFFICES ASSUME NEW m \in NodeIds \ torn
                PROVE  cnode'[m].nRefCount >= Cardinality(Holders(m))' + InCopy(m)' + ToEnd(m)'
    BY <1>5 DEF RefsCounted
  <2>1. o \in Holders(m) <=> m = n BY <1>0, <1>1 DEF Holders, At
  <2>2. Cardinality(Holders(m))' = Cardinality(Holders(m)) - One(m = n)
    BY <1>4, <1>5, <2>1, OpenerCounts, FiniteCounts DEF One
  <2>3. InCopy(m)' = InCopy(m) /\ cnode'[m].nRefCount = cnode[m].nRefCount
    BY <1>3, <1>5, <1>7 DEF InCopy
  <2>4. ToEnd(m)' <= ToEnd(m) + One(m = n) /\ ToEnd(m)' \in Int
    BY <1>5, <1>7 DEF ToEnd, EndsReference, One
  <2>5. InCopy(m) \in Int /\ ToEnd(m) \in Int /\ cnode[m].nRefCount \in Int /\ One(m = n) \in Int
    BY DEF InCopy, ToEnd, One, NTyped, CNode
  <2>. QED BY <2>2, <2>3, <2>4, <2>5, FiniteCounts DEF RefsCounted
<1>13. SemCounted'
  <2>1. WithGrant' = WithGrant
    BY <1>3, <1>5, <1>7 DEF WithGrant, Grants
  <2>2. Cardinality(Granted)' = Cardinality(Granted)
    BY <1>2, <1>4, <1>5, OpenerCounts, FiniteCounts DEF One
  <2>. QED BY <1>5, <1>6, <2>1, <2>2 DEF SemCounted
<1>14. NotUsedAfterDelete'
  BY <1>4, <1>5, <1>9 DEF NotUsedAfterDelete, NodesAssumption, Placed, Created
<1>. QED BY <1>7, <1>8, <1>10, <1>11, <1>12, <1>13, <1>14

-----------------------------------------------------------------------------
(***************************************************************************)
(* The socket handler, the message handler and the end.                    *)
(***************************************************************************)

\* Nothing that is counted changes.
LEMMA SameCounts ==
    ASSUME NInv, torn' = torn, Created' = Created, opener' = opener, handler' = handler,
           deleted' = deleted, semOutbound' = semOutbound, fShutdown' = fShutdown,
           vNodes' \union {socket'.node} = vNodes \union {socket.node},
           \A n \in NodeIds :
             /\ cnode'[n].nRefCount = cnode[n].nRefCount
             /\ cnode'[n].fInbound = cnode[n].fInbound
             /\ cnode'[n].fNetworkNode = cnode[n].fNetworkNode
             /\ Grants(n)' <=> Grants(n)
    PROVE  OpenersKnow' /\ RefsCounted' /\ SemCounted' /\ NotUsedAfterDelete'
<1>. USE DEF NInv
<1>1. OpenersKnow' BY DEF OpenersKnow
<1>2. RefsCounted'
  <2>. SUFFICES ASSUME NEW n \in NodeIds \ torn
                PROVE  cnode'[n].nRefCount >= Cardinality(Holders(n))' + InCopy(n)' + ToEnd(n)'
    BY DEF RefsCounted
  <2>1. Holders(n)' = Holders(n) BY DEF Holders
  <2>2. InCopy(n)' = InCopy(n) BY DEF InCopy
  <2>3. ToEnd(n)' = ToEnd(n) BY DEF ToEnd, EndsReference
  <2>. QED BY <2>1, <2>2, <2>3 DEF RefsCounted
<1>3. SemCounted'
  <2>1. WithGrant' = WithGrant BY DEF WithGrant
  <2>2. Granted' = Granted BY DEF Granted
  <2>. QED BY <2>1, <2>2 DEF SemCounted
<1>4. NotUsedAfterDelete' BY DEF NotUsedAfterDelete
<1>. QED BY <1>1, <1>2, <1>3, <1>4

\* A flag of a node changes; its release time passes only while nobody is
\* about to take a reference.
LEMMA FlagKeeps ==
    ASSUME NodesAssumption, NInv, NEW n \in NodeIds, CloseSocket(n) \/ Misbehave(n) \/ Expire(n)
    PROVE  NInv'
<1>. USE DEF NInv
<1>1. n \in Created
  <2>1. ~NoNode.held BY DEF NoNode
  <2>. QED BY <2>1 DEF CloseSocket, Misbehave, Expire, Placed
<1>2. PICK d \in CNode :
        /\ cnode' = [cnode EXCEPT ![n] = d]
        /\ d.addr = cnode[n].addr /\ d.nRefCount = cnode[n].nRefCount
        /\ d.fInbound = cnode[n].fInbound /\ d.fNetworkNode = cnode[n].fNetworkNode
        /\ d.fHaveGrant = cnode[n].fHaveGrant
        /\ d.held # cnode[n].held => \A o \in Openers : ~(At(o, "found") /\ opener[o].node = n)
  <2>0. cnode[n] \in CNode BY DEF NTyped
  <2>1. CASE CloseSocket(n) \/ Misbehave(n)
    <3> DEFINE d == [cnode[n] EXCEPT !.fDisconnect = TRUE]
    <3>1. /\ d \in CNode
          /\ d.addr = cnode[n].addr /\ d.nRefCount = cnode[n].nRefCount
          /\ d.fInbound = cnode[n].fInbound /\ d.fNetworkNode = cnode[n].fNetworkNode
          /\ d.fHaveGrant = cnode[n].fHaveGrant /\ d.held = cnode[n].held
      BY <2>0 DEF CNode
    <3>2. cnode' = [cnode EXCEPT ![n] = d] BY <2>1 DEF CloseSocket, Misbehave
    <3>. HIDE DEF d
    <3>. QED BY <3>1, <3>2
  <2>2. CASE Expire(n)
    <3> DEFINE d == [cnode[n] EXCEPT !.held = FALSE]
    <3>1. /\ d \in CNode
          /\ d.addr = cnode[n].addr /\ d.nRefCount = cnode[n].nRefCount
          /\ d.fInbound = cnode[n].fInbound /\ d.fNetworkNode = cnode[n].fNetworkNode
          /\ d.fHaveGrant = cnode[n].fHaveGrant
      BY <2>0 DEF CNode
    <3>2. /\ cnode' = [cnode EXCEPT ![n] = d]
          /\ \A o \in Openers : ~(At(o, "found") /\ opener[o].node = n)
      BY <2>2 DEF Expire
    <3>. HIDE DEF d
    <3>. QED BY <3>1, <3>2
  <2>. QED BY <2>1, <2>2
<1>3. UNCHANGED <<vNodes, vNodesDisconnected, deleted, semOutbound, opener, socket, handler,
                  fShutdown, torn>>
  BY DEF CloseSocket, Misbehave, Expire, history
<1>4. /\ cnode' \in [NodeIds -> CNode] /\ Created' = Created
      /\ Placed' /\ Clearing'
      /\ \A m \in NodeIds : cnode'[m] = IF m = n THEN d ELSE cnode[m]
  BY <1>1, <1>2, <1>3, SamePlaces
<1>5. NTyped' BY <1>3, <1>4 DEF NTyped
<1>6. FoundIsKept'
  BY <1>1, <1>2, <1>3, <1>4 DEF FoundIsKept, At, OpenersKnow, Created
<1>7. ASSUME NEW m \in NodeIds
      PROVE  /\ cnode'[m].nRefCount = cnode[m].nRefCount
             /\ cnode'[m].fInbound = cnode[m].fInbound
             /\ cnode'[m].fNetworkNode = cnode[m].fNetworkNode
             /\ Grants(m)' <=> Grants(m)
  <2>1. cnode'[m].fHaveGrant = cnode[m].fHaveGrant BY <1>2, <1>4
  <2>2. Grants(m)' <=> Grants(m) BY <1>3, <2>1 DEF Grants
  <2>. QED BY <1>2, <1>4, <2>2
<1>8. OpenersKnow' /\ RefsCounted' /\ SemCounted' /\ NotUsedAfterDelete'
  BY <1>3, <1>4, <1>7, SameCounts
<1>. QED BY <1>4, <1>5, <1>6, <1>8

LEMMA SweepKeeps ==
    ASSUME NodesAssumption, NInv, Sweep \/ StopSocket
    PROVE  NInv'
<1>. USE DEF NInv
<1>1. /\ socket.pc = "serve" /\ socket.node = Null
      /\ UNCHANGED <<cnode, vNodes, vNodesDisconnected, deleted, semOutbound, opener, handler,
                     fShutdown, torn>>
  BY DEF Sweep, StopSocket, Clearing, history
<1>2. PICK S \in SUBSET vNodes, q \in {"unlist", "ended"} :
        socket'.pc = q /\ socket'.todo = S /\ socket'.node = Null
        /\ socket' \in [pc : {"serve", "unlist", "clear", "ended"}, todo : SUBSET NodeIds,
                        node : NodeIds \union {Null}]
  <2>0. socket.todo \in SUBSET vNodes /\ vNodes \subseteq NodeIds BY DEF Placed, Created
  <2>1. CASE Sweep
    <3>1. PICK S \in SUBSET vNodes : socket' = [socket EXCEPT !.pc = "unlist", !.todo = S]
      BY <2>1 DEF Sweep
    <3>2. socket'.pc = "unlist" /\ socket'.todo = S /\ socket'.node = Null
      BY <1>1, <3>1 DEF NTyped
    <3>3. socket' = [pc |-> "unlist", todo |-> S, node |-> Null]
      BY <1>1, <3>1 DEF NTyped
    <3>. QED BY <2>0, <3>2, <3>3
  <2>2. CASE StopSocket
    <3>1. socket' = [socket EXCEPT !.pc = "ended"] BY <2>2 DEF StopSocket, Socket
    <3>2. socket'.pc = "ended" /\ socket'.todo = socket.todo /\ socket'.node = Null
      BY <1>1, <3>1 DEF NTyped
    <3>3. socket' = [pc |-> "ended", todo |-> socket.todo, node |-> Null]
      BY <1>1, <3>1 DEF NTyped
    <3>. QED BY <2>0, <3>2, <3>3
  <2>. QED BY <2>1, <2>2
<1>3. Created' = Created BY <1>1 DEF Created
<1>4. NTyped' BY <1>1, <1>2 DEF NTyped
<1>5. Placed' /\ Clearing' BY <1>1, <1>2, <1>3 DEF Placed, Clearing
<1>6. FoundIsKept' BY <1>1 DEF FoundIsKept, At
<1>7. \A m \in NodeIds : Grants(m)' <=> Grants(m)
  BY <1>1, <1>2 DEF Grants
<1>8. OpenersKnow' /\ RefsCounted' /\ SemCounted' /\ NotUsedAfterDelete'
  BY <1>1, <1>2, <1>3, <1>7, SameCounts
<1>. QED BY <1>4, <1>5, <1>6, <1>8

\* What the fields of a retired node are.
LEMMA RetiredNode ==
    ASSUME NTyped, NEW n \in NodeIds, Retire(n)
    PROVE  /\ cnode' \in [NodeIds -> CNode]
           /\ \A m \in NodeIds \ {n} : cnode'[m] = cnode[m]
           /\ cnode'[n].held = TRUE /\ cnode'[n].fHaveGrant = FALSE
           /\ cnode'[n].addr = cnode[n].addr
           /\ cnode'[n].nRefCount = cnode[n].nRefCount - (IF EndsReference(n) THEN 1 ELSE 0)
           /\ cnode'[n].fInbound = cnode[n].fInbound
           /\ cnode'[n].fNetworkNode = cnode[n].fNetworkNode
<1> DEFINE k == IF EndsReference(n) THEN 1 ELSE 0
           c1 == [cnode EXCEPT ![n].fDisconnect = TRUE]
           c2 == [c1 EXCEPT ![n].held = TRUE]
           c3 == [c2 EXCEPT ![n].fHaveGrant = FALSE]
           c4 == [c3 EXCEPT ![n].nRefCount = @ - k]
           Agree(c, d) == /\ \A m \in NodeIds \ {n} : c[m] = d[m]
                          /\ c[n].addr = d[n].addr /\ c[n].fInbound = d[n].fInbound
                          /\ c[n].fNetworkNode = d[n].fNetworkNode
<1>1. cnode \in [NodeIds -> CNode] /\ k \in Int BY DEF NTyped
<1>2. cnode' = c4 BY DEF Retire
<1>. HIDE DEF k
<1>3. /\ c1 \in [NodeIds -> CNode] /\ Agree(c1, cnode)
      /\ c1[n].nRefCount = cnode[n].nRefCount
  BY <1>1 DEF CNode
<1>. HIDE DEF c1
<1>4. /\ c2 \in [NodeIds -> CNode] /\ Agree(c2, c1)
      /\ c2[n].nRefCount = c1[n].nRefCount /\ c2[n].held = TRUE
  BY <1>3 DEF CNode
<1>. HIDE DEF c2
<1>5. /\ c3 \in [NodeIds -> CNode] /\ Agree(c3, c2) /\ c3[n].nRefCount = c2[n].nRefCount
      /\ c3[n].held = c2[n].held /\ c3[n].fHaveGrant = FALSE
  BY <1>4 DEF CNode
<1>. HIDE DEF c3
<1>6. /\ c4 \in [NodeIds -> CNode] /\ Agree(c4, c3) /\ c4[n].nRefCount = c3[n].nRefCount - k
      /\ c4[n].held = c3[n].held /\ c4[n].fHaveGrant = c3[n].fHaveGrant
  BY <1>1, <1>5 DEF CNode
<1>. HIDE DEF c4
<1>. QED BY <1>2, <1>3, <1>4, <1>5, <1>6 DEF k

\* A node that leaves vNodes with its grant released is soundly retired.
LEMMA RetireKeeps ==
    ASSUME NodesAssumption, NInv, NEW n \in Created, Retire(n),
           n \notin vNodesDisconnected \union deleted, ~Grants(n),
           socket.pc = "unlist" \/ socket.node = n,
           socket'.pc = "unlist", socket'.node = Null, socket'.todo = socket.todo \ {n},
           socket' \in [pc : {"serve", "unlist", "clear", "ended"}, todo : SUBSET NodeIds,
                        node : NodeIds \union {Null}],
           n \in vNodes \union {socket.node},
           vNodes' = vNodes \ {n}, semOutbound' = semOutbound,
           UNCHANGED <<deleted, opener, handler, fShutdown, torn>>
    PROVE  NInv'
<1>. USE DEF NInv
<1>0. n \in NodeIds /\ vNodesDisconnected' = vNodesDisconnected \union {n}
  BY DEF Created, Retire
<1>1. /\ cnode' \in [NodeIds -> CNode]
      /\ \A m \in NodeIds \ {n} : cnode'[m] = cnode[m]
      /\ cnode'[n].held = TRUE /\ cnode'[n].fHaveGrant = FALSE
      /\ cnode'[n].addr = cnode[n].addr
      /\ cnode'[n].nRefCount = cnode[n].nRefCount - (IF EndsReference(n) THEN 1 ELSE 0)
      /\ cnode'[n].fInbound = cnode[n].fInbound
      /\ cnode'[n].fNetworkNode = cnode[n].fNetworkNode
  BY <1>0, RetiredNode
<1>2. Created' = Created
  <2>1. \A m \in NodeIds : cnode'[m].addr = cnode[m].addr BY <1>0, <1>1
  <2>. QED BY <2>1 DEF Created
<1>3. socket.node \in {Null, n}
  BY DEF Clearing
<1>4. NTyped' BY <1>1 DEF NTyped
<1>5. Placed'
  BY <1>0, <1>1, <1>2, <1>3 DEF Placed
<1>6. Clearing' BY DEF Clearing
<1>7. OpenersKnow' BY <1>2 DEF OpenersKnow
<1>8. FoundIsKept'
  <2>. SUFFICES ASSUME NEW o \in Openers, At(o, "found"), opener[o].node \in vNodesDisconnected'
                PROVE  cnode'[opener[o].node].held
    BY DEF FoundIsKept, At
  <2>1. opener[o].node \in NodeIds BY DEF OpenersKnow, At, Created
  <2>. QED BY <1>0, <1>1, <2>1 DEF FoundIsKept, At
<1>9. RefsCounted'
  <2>. SUFFICES ASSUME NEW m \in NodeIds \ torn
                PROVE  cnode'[m].nRefCount >= Cardinality(Holders(m))' + InCopy(m)' + ToEnd(m)'
    BY DEF RefsCounted
  <2>1. Holders(m)' = Holders(m) /\ InCopy(m)' = InCopy(m) BY DEF Holders, InCopy
  <2>2. InCopy(m) \in Int /\ ToEnd(m) \in Int /\ cnode[m].nRefCount \in Int
    BY DEF InCopy, ToEnd, NTyped, CNode
  <2>3. CASE m = n
    <3>1. ToEnd(m)' = 0 BY <1>0, <2>3 DEF ToEnd, NodesAssumption
    <3>2. cnode'[m].nRefCount = cnode[m].nRefCount - ToEnd(m)
      BY <1>1, <2>3 DEF ToEnd
    <3>. QED BY <2>1, <2>2, <3>1, <3>2, FiniteCounts DEF RefsCounted
  <2>4. CASE m # n
    <3>1. cnode'[m] = cnode[m] BY <1>1, <2>4
    <3>2. m \in (vNodes \union {socket.node})' <=> m \in vNodes \union {socket.node}
      BY <1>3, <2>4 DEF NodesAssumption
    <3>3. ToEnd(m)' = ToEnd(m) BY <3>1, <3>2 DEF ToEnd, EndsReference
    <3>. QED BY <2>1, <3>1, <3>3 DEF RefsCounted
  <2>. QED BY <2>3, <2>4
<1>10. SemCounted'
  <2>1. ASSUME NEW m \in NodeIds PROVE Grants(m)' <=> Grants(m)
    <3>1. CASE m = n BY <1>1, <3>1 DEF Grants
    <3>2. CASE m # n
      <4>1. cnode'[m] = cnode[m] BY <1>1, <3>2
      <4>2. ~(socket.pc = "clear" /\ socket.node = m) BY <3>2
      <4>. QED BY <4>1, <4>2 DEF Grants
    <3>. QED BY <3>1, <3>2
  <2>2. WithGrant' = WithGrant BY <2>1 DEF WithGrant
  <2>3. Granted' = Granted BY DEF Granted
  <2>. QED BY <2>2, <2>3 DEF SemCounted
<1>11. NotUsedAfterDelete' BY DEF NotUsedAfterDelete
<1>. QED BY <1>4, <1>5, <1>6, <1>7, <1>8, <1>9, <1>10, <1>11

LEMMA ClearGrantKeeps ==
    ASSUME NodesAssumption, NInv, ClearGrant
    PROVE  NInv'
<1>. USE DEF NInv
<1>1. PICK n \in Created : n = socket.node /\ Retire(n)
  BY DEF ClearGrant, Clearing
<1>2. /\ socket.pc = "clear" /\ socket' = [socket EXCEPT !.pc = "unlist", !.node = Null]
      /\ UNCHANGED <<vNodes, semOutbound, deleted, opener, handler, fShutdown, torn>>
  BY DEF ClearGrant
<1>3. n \notin vNodes \union vNodesDisconnected \union deleted BY <1>1, <1>2 DEF Clearing
<1>4. socket.todo \ {n} = socket.todo /\ socket.todo \in SUBSET NodeIds
  BY <1>3 DEF Placed, Created
<1>5. socket' = [pc |-> "unlist", todo |-> socket.todo, node |-> Null]
  BY <1>2 DEF NTyped
<1>6. ~Grants(n) BY <1>1, <1>2 DEF Grants
<1>7. vNodes' = vNodes \ {n} BY <1>2, <1>3
<1>8. socket' \in [pc : {"serve", "unlist", "clear", "ended"}, todo : SUBSET NodeIds,
                   node : NodeIds \union {Null}]
  BY <1>4, <1>5
<1>9. socket'.pc = "unlist" /\ socket'.node = Null /\ socket'.todo = socket.todo \ {n}
  BY <1>4, <1>5
<1>. QED BY <1>1, <1>2, <1>3, <1>6, <1>7, <1>8, <1>9, RetireKeeps

LEMMA UnlistKeeps ==
    ASSUME NodesAssumption, NInv, NEW n \in NodeIds, Unlist(n)
    PROVE  NInv'
<1>. USE DEF NInv
<1>1. /\ socket.pc = "unlist" /\ n \in socket.todo /\ vNodes' = vNodes \ {n}
      /\ socket.node = Null /\ n # Null
      /\ UNCHANGED <<deleted, opener, handler, fShutdown, torn>>
  BY DEF Unlist, Clearing, NodesAssumption
<1>2. /\ n \in vNodes /\ n \in Created /\ n \notin vNodesDisconnected \union deleted
      /\ socket.todo \subseteq NodeIds
  BY <1>1 DEF Placed, Created
<1>3. \A m \in NodeIds : Grants(m) <=> cnode[m].fHaveGrant
  BY <1>1 DEF Grants
<1>4. CASE ~cnode[n].fHaveGrant
  <2>1. /\ semOutbound' = semOutbound
        /\ socket' = [socket EXCEPT !.todo = @ \ {n}] /\ Retire(n)
    BY <1>4 DEF Unlist, Released, NTyped
  <2>2. socket' = [pc |-> "unlist", todo |-> socket.todo \ {n}, node |-> Null]
    BY <1>1, <2>1 DEF NTyped
  <2>3. socket'.pc = "unlist" /\ socket'.node = Null /\ socket'.todo = socket.todo \ {n}
    BY <2>2
  <2>4. socket' \in [pc : {"serve", "unlist", "clear", "ended"}, todo : SUBSET NodeIds,
                     node : NodeIds \union {Null}]
    BY <1>2, <2>2
  <2>. QED BY <1>1, <1>2, <1>3, <1>4, <2>1, <2>3, <2>4, RetireKeeps
<1>5. CASE cnode[n].fHaveGrant
  <2>1. /\ semOutbound' = semOutbound + 1
        /\ socket' = [socket EXCEPT !.pc = "clear", !.node = n, !.todo = @ \ {n}]
        /\ UNCHANGED <<cnode, vNodesDisconnected>>
    BY <1>5 DEF Unlist, Released
  <2>2. socket' = [pc |-> "clear", todo |-> socket.todo \ {n}, node |-> n]
    BY <1>1, <2>1 DEF NTyped
  <2>3. socket'.pc = "clear" /\ socket'.node = n /\ socket'.todo = socket.todo \ {n}
    BY <2>2
  <2>4. socket' \in [pc : {"serve", "unlist", "clear", "ended"}, todo : SUBSET NodeIds,
                     node : NodeIds \union {Null}]
    BY <1>2, <2>2
  <2>5. NTyped' BY <1>1, <2>1, <2>4 DEF NTyped
  <2>6. Created' = Created BY <2>1 DEF Created
  <2>7. Placed'
    <3>1. /\ vNodes' \union {n} = vNodes
          /\ vNodesDisconnected' = vNodesDisconnected /\ deleted' = deleted
          /\ handler' = handler /\ cnode' = cnode
      BY <1>1, <1>2, <2>1
    <3>2. Created \ (vNodes' \union vNodesDisconnected \union deleted) \subseteq {n}
      BY <1>1, <3>1 DEF Placed, Created
    <3>. QED BY <1>1, <2>3, <2>6, <3>1, <3>2 DEF Placed
  <2>11. Clearing'
    BY <1>1, <1>2, <2>1, <2>3, <2>6 DEF Clearing
  <2>8. OpenersKnow' /\ FoundIsKept' /\ NotUsedAfterDelete'
    BY <1>1, <2>1, <2>6 DEF OpenersKnow, FoundIsKept, At, NotUsedAfterDelete
  <2>9. RefsCounted'
    <3>. SUFFICES ASSUME NEW m \in NodeIds \ torn
                  PROVE  cnode[m].nRefCount >= Cardinality(Holders(m))' + InCopy(m)' + ToEnd(m)'
      BY <1>1, <2>1 DEF RefsCounted
    <3>1. Holders(m)' = Holders(m) /\ InCopy(m)' = InCopy(m) BY <1>1 DEF Holders, InCopy
    <3>2. m \in (vNodes \union {socket.node})' <=> m \in vNodes \union {socket.node}
      BY <1>1, <1>2, <2>3 DEF NodesAssumption
    <3>3. ToEnd(m)' = ToEnd(m) BY <2>1, <3>2 DEF ToEnd, EndsReference
    <3>. QED BY <3>1, <3>3 DEF RefsCounted
  <2>10. SemCounted'
    <3>1. Granted' = Granted BY <1>1 DEF Granted
    <3>2. ASSUME NEW m \in NodeIds \ {n} PROVE Grants(m)' <=> Grants(m)
      <4>1. ~(socket'.pc = "clear" /\ socket'.node = m) BY <2>3
      <4>. QED BY <1>3, <2>1, <4>1 DEF Grants
    <3>3. Grants(n) /\ ~Grants(n)'
      BY <1>3, <1>5, <2>3 DEF Grants
    <3>4. /\ Cardinality(WithGrant)' = Cardinality(WithGrant) - 1
          /\ Cardinality(WithGrant)' \in Nat
      BY <3>2, <3>3, NodeGrantCount, FiniteCounts DEF One
    <3>. QED BY <1>1, <2>1, <3>1, <3>4, FiniteCounts DEF SemCounted, NTyped
  <2>. QED BY <2>5, <2>7, <2>8, <2>9, <2>10, <2>11
<1>. QED BY <1>4, <1>5

LEMMA DeleteKeeps ==
    ASSUME NodesAssumption, NInv, Delete
    PROVE  NInv'
<1>. USE DEF NInv
<1> DEFINE S == {n \in vNodesDisconnected : Deletable(n)}
           G == {n \in S : cnode[n].fHaveGrant}
<1>1. /\ vNodesDisconnected' = vNodesDisconnected \ S
      /\ deleted' = deleted \union S
      /\ semOutbound' = semOutbound + Cardinality(G)
      /\ cnode' = [n \in NodeIds |-> IF n \in S THEN [cnode[n] EXCEPT !.fHaveGrant = FALSE]
                                     ELSE cnode[n]]
      /\ socket.pc = "unlist" /\ socket.node = Null /\ socket' = [socket EXCEPT !.pc = "serve"]
      /\ UNCHANGED <<vNodes, opener, handler, fShutdown, torn>>
  BY DEF Delete, Socket, Clearing, history
<1>2. /\ socket'.pc = "serve" /\ socket'.node = Null /\ socket'.todo = socket.todo
      /\ socket' \in [pc : {"serve", "unlist", "clear", "ended"}, todo : SUBSET NodeIds,
                      node : NodeIds \union {Null}]
  <2>1. socket' = [pc |-> "serve", todo |-> socket.todo, node |-> Null] BY <1>1 DEF NTyped
  <2>2. socket.todo \in SUBSET NodeIds BY DEF Placed, Created
  <2>. QED BY <2>1, <2>2
<1>3. S \subseteq vNodesDisconnected /\ S \subseteq NodeIds
  BY DEF Placed, Created
<1>4. \A n \in S : cnode[n].nRefCount <= 0 /\ ~cnode[n].held
  BY <1>3, UnusedCount DEF Deletable
<1>. HIDE DEF S
<1>5. ASSUME NEW n \in NodeIds
      PROVE  /\ cnode'[n] \in CNode
             /\ cnode'[n].addr = cnode[n].addr /\ cnode'[n].nRefCount = cnode[n].nRefCount
             /\ cnode'[n].fInbound = cnode[n].fInbound /\ cnode'[n].held = cnode[n].held
             /\ cnode'[n].fNetworkNode = cnode[n].fNetworkNode
             /\ n \in S => cnode'[n].fHaveGrant = FALSE
             /\ n \notin S => cnode'[n] = cnode[n]
  <2>1. cnode[n] \in CNode BY DEF NTyped
  <2>2. CASE n \in S
    <3>1. cnode'[n] = [cnode[n] EXCEPT !.fHaveGrant = FALSE] BY <1>1, <2>2
    <3>. QED BY <2>1, <2>2, <3>1 DEF CNode
  <2>3. CASE n \notin S BY <1>1, <2>1, <2>3
  <2>. QED BY <2>2, <2>3
<1>6. Created' = Created BY <1>5 DEF Created
<1>7. NTyped'
  <2>1. cnode' \in [NodeIds -> CNode] BY <1>1, <1>5
  <2>2. Cardinality(G) \in Nat
    BY <1>3, FS_Subset, FS_CardinalityType DEF NodesAssumption
  <2>. QED BY <1>1, <1>2, <2>1, <2>2 DEF NTyped
<1>8. Placed' /\ Clearing'
  BY <1>1, <1>2, <1>3, <1>5, <1>6 DEF Placed, Clearing
<1>9. OpenersKnow' BY <1>1, <1>6 DEF OpenersKnow
<1>10. \A o \in Openers : At(o, "found") => opener[o].node \notin S
  BY <1>3, <1>4 DEF FoundIsKept
<1>11. FoundIsKept'
  <2>. SUFFICES ASSUME NEW o \in Openers, At(o, "found")
                PROVE  /\ opener[o].node \notin deleted'
                       /\ opener[o].node \in vNodesDisconnected' => cnode'[opener[o].node].held
    BY <1>1 DEF FoundIsKept, At
  <2>1. opener[o].node \in NodeIds BY DEF OpenersKnow, At, Created
  <2>. QED BY <1>1, <1>5, <1>10, <2>1 DEF FoundIsKept
<1>12. RefsCounted'
  <2>. SUFFICES ASSUME NEW n \in NodeIds \ torn
                PROVE  cnode'[n].nRefCount >= Cardinality(Holders(n))' + InCopy(n)' + ToEnd(n)'
    BY <1>1 DEF RefsCounted
  <2>1. Holders(n)' = Holders(n) /\ InCopy(n)' = InCopy(n) BY <1>1 DEF Holders, InCopy
  <2>2. ToEnd(n)' = ToEnd(n) BY <1>1, <1>2, <1>5 DEF ToEnd, EndsReference
  <2>. QED BY <1>5, <2>1, <2>2 DEF RefsCounted
<1>13. SemCounted'
  <2>1. \A n \in NodeIds : Grants(n) <=> cnode[n].fHaveGrant BY <1>1 DEF Grants
  <2>2. \A n \in NodeIds : Grants(n)' <=> cnode'[n].fHaveGrant BY <1>2 DEF Grants
  <2>3. WithGrant' = WithGrant \ G
    BY <1>5, <2>1, <2>2 DEF WithGrant
  <2>4. WithGrant \cap G = G BY <1>3, <2>1 DEF WithGrant
  <2>5. /\ Cardinality(WithGrant') = Cardinality(WithGrant) - Cardinality(G)
        /\ Cardinality(G) \in Nat
    BY <1>3, <2>3, <2>4, FiniteCounts, FS_Difference, FS_Subset, FS_CardinalityType
       DEF NodesAssumption
  <2>6. Granted' = Granted BY <1>1 DEF Granted
  <2>. QED BY <1>1, <2>5, <2>6, FiniteCounts DEF SemCounted, NTyped
<1>14. NotUsedAfterDelete'
  <2>. SUFFICES ASSUME NEW n \in S \ torn
                PROVE  n \notin handler.copy /\ \A o \in Openers : opener[o].node # n
    BY <1>1 DEF NotUsedAfterDelete
  <2>1. /\ Cardinality(Holders(n)) + InCopy(n) + ToEnd(n) <= 0
        /\ InCopy(n) \in {0, 1} /\ ToEnd(n) \in {0, 1}
    <3>1. cnode[n].nRefCount \in Int BY <1>3 DEF NTyped, CNode
    <3>2. InCopy(n) \in {0, 1} /\ ToEnd(n) \in {0, 1} BY DEF InCopy, ToEnd
    <3>. QED BY <1>3, <1>4, <3>1, <3>2, FiniteCounts DEF RefsCounted
  <2>2. Cardinality(Holders(n)) = 0 /\ InCopy(n) = 0
    BY <2>1, FiniteCounts
  <2>3. Holders(n) = {} BY <2>2, FiniteCounts, FS_EmptySet
  <2>4. n \notin handler.copy BY <2>2 DEF InCopy
  <2>5. ASSUME NEW o \in Openers, opener[o].node = n PROVE FALSE
    <3>1. n # Null BY <1>3 DEF NodesAssumption
    <3>2. opener[o].pc \in {"found", "connected", "moved"}
      BY <2>5, <3>1 DEF OpenersKnow
    <3>. QED BY <1>10, <2>3, <2>5, <3>2 DEF Holders, At
  <2>. QED BY <2>4, <2>5
<1>. QED BY <1>7, <1>8, <1>9, <1>11, <1>12, <1>13, <1>14

LEMMA AcceptKeeps ==
    ASSUME NodesAssumption, NInv, NEW n \in NodeIds, NEW a \in Remotes, Accept(n, a)
    PROVE  NInv'
<1>. USE DEF NInv
<1> DEFINE new == [NoNode EXCEPT !.addr = a, !.fInbound = TRUE, !.nRefCount = 1]
<1>1. socket.pc = "serve" /\ n \notin Created /\ n # Null
  BY CreatesNew DEF Accept, NodesAssumption
<1>2. NoNode \in CNode /\ NoNode.fHaveGrant = FALSE
  BY DEF NoNode, CNode
<1>3. new \in CNode
  <2>1. [NoNode EXCEPT !.addr = a] \in CNode BY <1>2 DEF CNode
  <2>2. \A c \in CNode : [c EXCEPT !.fInbound = TRUE] \in CNode BY DEF CNode
  <2>3. \A c \in CNode : [c EXCEPT !.nRefCount = 1] \in CNode BY DEF CNode
  <2>. QED BY <2>1, <2>2, <2>3
<1>4. new.addr = a /\ new.nRefCount = 1 BY <1>2 DEF CNode
<1>5. new.fHaveGrant = FALSE BY <1>2 DEF CNode
<1>6. /\ cnode' = [cnode EXCEPT ![n] = new] /\ vNodes' = vNodes \union {n}
      /\ UNCHANGED <<vNodesDisconnected, deleted, semOutbound, opener, socket, handler, fShutdown, torn>>
  BY DEF Accept, history
<1>. HIDE DEF new
<1>7. \A m \in NodeIds : cnode'[m] = IF m = n THEN new ELSE cnode[m]
  BY <1>6 DEF NTyped
<1>8. Created' = Created \union {n}
  BY <1>4, <1>7 DEF Created, NodesAssumption
<1>9. NTyped' BY <1>3, <1>6 DEF NTyped
<1>10. Placed' /\ Clearing'
  BY <1>1, <1>6, <1>7, <1>8 DEF Placed, Clearing
<1>11. OpenersKnow' BY <1>6, <1>8 DEF OpenersKnow
<1>12. FoundIsKept'
  <2>1. \A o \in Openers : opener[o].node # n BY <1>1 DEF OpenersKnow
  <2>2. \A o \in Openers : At(o, "found") => opener[o].node \in NodeIds
    BY DEF OpenersKnow, At, Created
  <2>. QED BY <1>6, <1>7, <2>1, <2>2 DEF FoundIsKept, At
<1>13. RefsCounted'
  <2>. SUFFICES ASSUME NEW m \in NodeIds \ torn
                PROVE  cnode'[m].nRefCount >= Cardinality(Holders(m))' + InCopy(m)' + ToEnd(m)'
    BY <1>6 DEF RefsCounted
  <2>1. Holders(m)' = Holders(m) /\ InCopy(m)' = InCopy(m) BY <1>6 DEF Holders, InCopy
  <2>2. CASE m = n
    <3>1. Holders(m) = {} BY <1>1, <2>2 DEF Holders, OpenersKnow
    <3>2. InCopy(m) = 0 /\ ToEnd(m)' \in {0, 1}
      BY <1>1, <2>2 DEF InCopy, ToEnd, Placed
    <3>. QED BY <1>4, <1>7, <2>1, <2>2, <3>1, <3>2, FS_EmptySet
  <2>3. CASE m # n
    <3>1. ToEnd(m)' = ToEnd(m) BY <1>6, <1>7, <2>3 DEF ToEnd, EndsReference
    <3>. QED BY <1>7, <2>1, <2>3, <3>1 DEF RefsCounted
  <2>. QED BY <2>2, <2>3
<1>14. SemCounted'
  <2>1. cnode[n].fHaveGrant = FALSE BY <1>1, <1>2 DEF Placed
  <2>2. WithGrant' = WithGrant BY <1>5, <1>6, <1>7, <2>1 DEF WithGrant, Grants
  <2>3. Granted' = Granted BY <1>6 DEF Granted
  <2>. QED BY <1>6, <2>2, <2>3 DEF SemCounted
<1>15. NotUsedAfterDelete' BY <1>6 DEF NotUsedAfterDelete
<1>. QED BY <1>9, <1>10, <1>11, <1>12, <1>13, <1>14, <1>15

\* AddRef and Release of what the message handler works on.
LEMMA HandlerKeeps ==
    ASSUME NodesAssumption, NInv, HandlerStep
    PROVE  NInv'
<1>. USE DEF NInv
<1>1. UNCHANGED <<vNodes, vNodesDisconnected, deleted, semOutbound, opener, socket, fShutdown, torn>>
  BY DEF HandlerStep, CopyToHandle, EndHandle, StopHandler, history
<1>2. CASE StopHandler
  <2>1. handler' = [handler EXCEPT !.pc = "ended"] /\ cnode' = cnode
    BY <1>2 DEF StopHandler
  <2>2. handler' = [pc |-> "ended", copy |-> handler.copy] BY <2>1 DEF NTyped
  <2>3. handler'.copy = handler.copy /\ handler.copy \in SUBSET NodeIds BY <2>2 DEF NTyped
  <2>4. NTyped' BY <1>1, <2>1, <2>2, <2>3 DEF NTyped
  <2>5. Created' = Created BY <2>1 DEF Created
  <2>6. Placed' /\ Clearing' BY <1>1, <2>1, <2>3, <2>5 DEF Placed, Clearing
  <2>7. FoundIsKept' /\ OpenersKnow' /\ NotUsedAfterDelete'
    BY <1>1, <2>1, <2>3, <2>5 DEF FoundIsKept, OpenersKnow, At, NotUsedAfterDelete
  <2>8. RefsCounted'
    <3>1. \A n \in NodeIds : /\ Holders(n)' = Holders(n) /\ InCopy(n)' = InCopy(n)
                             /\ ToEnd(n)' = ToEnd(n)
      BY <1>1, <2>1, <2>3 DEF Holders, InCopy, ToEnd, EndsReference
    <3>. QED BY <1>1, <2>1, <3>1 DEF RefsCounted
  <2>9. SemCounted'
    <3>1. Granted' = Granted /\ WithGrant' = WithGrant
      BY <1>1, <2>1 DEF Granted, WithGrant, Grants
    <3>. QED BY <1>1, <3>1 DEF SemCounted
  <2>. QED BY <2>4, <2>6, <2>7, <2>8, <2>9
<1> DEFINE Fits(S, T, d) ==
        \A n \in NodeIds : (IF n \in T THEN 1 ELSE 0) = InCopy(n) + (IF n \in S THEN d ELSE 0)
<1>3. ASSUME NEW S \in SUBSET NodeIds, NEW T \in SUBSET Created, NEW q \in {"wait", "work"},
             NEW d \in Int, cnode' = Counted(cnode, S, d), handler' = [pc |-> q, copy |-> T],
             q = "wait" => T = {},
             T \intersect deleted = {},
             Fits(S, T, d)
      PROVE  NInv'
  <2>1. handler'.pc = q /\ handler'.copy = T BY <1>3
  <2>2. ASSUME NEW n \in NodeIds
        PROVE  /\ cnode'[n] \in CNode /\ cnode'[n].addr = cnode[n].addr
               /\ cnode'[n].nRefCount = cnode[n].nRefCount + (IF n \in S THEN d ELSE 0)
               /\ cnode'[n].fInbound = cnode[n].fInbound /\ cnode'[n].held = cnode[n].held
               /\ cnode'[n].fNetworkNode = cnode[n].fNetworkNode
               /\ cnode'[n].fHaveGrant = cnode[n].fHaveGrant
               /\ n \notin S => cnode'[n] = cnode[n]
    <3>1. cnode[n] \in CNode /\ cnode[n].nRefCount \in Int BY DEF NTyped, CNode
    <3>2. CASE n \in S
      <4>1. cnode'[n] = [cnode[n] EXCEPT !.nRefCount = cnode[n].nRefCount + d]
        BY <1>3, <3>2 DEF Counted
      <4>2. cnode[n].nRefCount + d \in Int BY <3>1
      <4>. QED BY <3>1, <3>2, <4>1, <4>2 DEF CNode
    <3>3. CASE n \notin S
      <4>1. cnode'[n] = cnode[n] BY <1>3, <3>3 DEF Counted
      <4>. QED BY <3>1, <3>3, <4>1
    <3>. QED BY <3>2, <3>3
  <2>3. Created' = Created BY <2>2 DEF Created
  <2>4. NTyped'
    <3>1. cnode' \in [NodeIds -> CNode] BY <1>3, <2>2 DEF Counted
    <3>2. handler' \in [pc : {"wait", "work", "ended"}, copy : SUBSET NodeIds]
      BY <1>3 DEF Created
    <3>. QED BY <1>1, <1>3, <2>1, <3>1, <3>2 DEF NTyped
  <2>6. ASSUME NEW n \in NodeIds \ Created PROVE cnode'[n] = NoNode
    <3>1. n \notin T /\ n \notin handler.copy BY <1>3 DEF Placed
    <3>2. CASE n \notin S BY <2>2, <3>2 DEF Placed
    <3>3. CASE n \in S
      <4>1. d = 0 BY <1>3, <3>1, <3>3 DEF InCopy
      <4>2. cnode[n] \in CNode /\ cnode[n].nRefCount \in Int BY DEF NTyped, CNode
      <4>3. cnode'[n] = [cnode[n] EXCEPT !.nRefCount = cnode[n].nRefCount]
        BY <1>3, <3>3, <4>1, <4>2 DEF Counted
      <4>. QED BY <4>2, <4>3 DEF CNode, Placed
    <3>. QED BY <3>2, <3>3
  <2>7. Placed' /\ Clearing'
    BY <1>1, <1>3, <2>1, <2>3, <2>6 DEF Placed, Clearing
  <2>8. OpenersKnow' /\ FoundIsKept'
    BY <1>1, <2>2, <2>3 DEF OpenersKnow, FoundIsKept, At, Created
  <2>9. RefsCounted'
    <3>. SUFFICES ASSUME NEW n \in NodeIds \ torn
                  PROVE  cnode'[n].nRefCount >= Cardinality(Holders(n))' + InCopy(n)' + ToEnd(n)'
      BY <1>1 DEF RefsCounted
    <3>1. Holders(n)' = Holders(n) BY <1>1 DEF Holders
    <3>2. ToEnd(n)' = ToEnd(n) BY <1>1, <2>2 DEF ToEnd, EndsReference
    <3>3. InCopy(n)' = InCopy(n) + (IF n \in S THEN d ELSE 0)
      BY <1>3, <2>1 DEF InCopy
    <3>4. InCopy(n) \in Int /\ ToEnd(n) \in Int /\ cnode[n].nRefCount \in Int
      BY DEF InCopy, ToEnd, NTyped, CNode
    <3>. QED BY <2>2, <3>1, <3>2, <3>3, <3>4, FiniteCounts DEF RefsCounted
  <2>10. SemCounted'
    <3>1. Granted' = Granted /\ WithGrant' = WithGrant
      BY <1>1, <2>2 DEF Granted, WithGrant, Grants
    <3>. QED BY <1>1, <3>1 DEF SemCounted
  <2>11. NotUsedAfterDelete'
    BY <1>1, <1>3, <2>1 DEF NotUsedAfterDelete
  <2>. QED BY <2>4, <2>7, <2>8, <2>9, <2>10, <2>11
<1>. HIDE DEF Fits
<1>4. CASE CopyToHandle
  <2>1. /\ handler' = [pc |-> "work", copy |-> vNodes] /\ cnode' = Counted(cnode, vNodes, 1)
        /\ handler.copy = {} /\ vNodes \in SUBSET Created /\ vNodes \in SUBSET NodeIds
        /\ vNodes \intersect deleted = {}
    BY <1>4 DEF CopyToHandle, NTyped, Placed, Created
  <2>2. Fits(vNodes, vNodes, 1) BY <2>1 DEF Fits, InCopy
  <2>3. 1 \in Int /\ "work" \in {"wait", "work"} /\ "work" # "wait" OBVIOUS
  <2>. QED BY <1>3, <2>1, <2>2, <2>3, Zenon
<1>5. CASE EndHandle
  <2>1. /\ handler' = [pc |-> "wait", copy |-> {}] /\ cnode' = Counted(cnode, handler.copy, -1)
        /\ handler.copy \in SUBSET NodeIds
    BY <1>5 DEF EndHandle, NTyped
  <2>2. Fits(handler.copy, {}, -1) BY DEF Fits, InCopy
  <2>3. -1 \in Int /\ "wait" \in {"wait", "work"} /\ {} \in SUBSET Created OBVIOUS
  <2>. QED BY <1>3, <2>1, <2>2, <2>3, Zenon
<1>. QED BY <1>2, <1>4, <1>5 DEF HandlerStep

LEMMA StopNodeKeeps ==
    ASSUME NodesAssumption, NInv, StopNode
    PROVE  NInv'
<1>. USE DEF NInv
<1>1. /\ fShutdown = FALSE /\ fShutdown' = TRUE /\ semOutbound' = semOutbound + MaxOutbound
      /\ UNCHANGED <<cnode, vNodes, vNodesDisconnected, deleted, opener, socket, handler, torn>>
  BY DEF StopNode, Posted, history, NTyped
<1>2. NTyped' BY <1>1 DEF NTyped, NodesAssumption
<1>3. Created' = Created BY <1>1 DEF Created
<1>4. Placed' /\ Clearing' BY <1>1, <1>3 DEF Placed, Clearing
<1>5. OpenersKnow' /\ FoundIsKept' /\ NotUsedAfterDelete'
  BY <1>1, <1>3 DEF OpenersKnow, FoundIsKept, At, NotUsedAfterDelete
<1>6. RefsCounted'
  <2>1. \A n \in NodeIds : /\ Holders(n)' = Holders(n) /\ InCopy(n)' = InCopy(n)
                           /\ ToEnd(n)' = ToEnd(n)
    BY <1>1 DEF Holders, InCopy, ToEnd, EndsReference
  <2>. QED BY <1>1, <2>1 DEF RefsCounted
<1>7. SemCounted'
  <2>1. Granted' = Granted /\ WithGrant' = WithGrant
    BY <1>1 DEF Granted, WithGrant, Grants
  <2>. QED BY <1>1, <2>1, FiniteCounts DEF SemCounted, NTyped, NodesAssumption
<1>. QED BY <1>2, <1>4, <1>5, <1>6, <1>7

-----------------------------------------------------------------------------
LEMMA NodesStep == NodesAssumption /\ NInv /\ [NodesNext]_nvars => NInv'
<1>. SUFFICES ASSUME NodesAssumption, NInv, [NodesNext]_nvars PROVE NInv'
  OBVIOUS
<1>1. ASSUME NEW o \in Openers, OpenerStep(o) PROVE NInv'
  BY <1>1, AcquireKeeps, GiveUpKeeps, FindExistingKeeps, AddRefFoundKeeps, DialKeeps,
     MoveGrantKeeps, MarkNetworkNodeKeeps DEF OpenerStep
<1>2. CASE SocketStep
  BY <1>2, SweepKeeps, ClearGrantKeeps, DeleteKeeps, UnlistKeeps DEF SocketStep
<1>3. CASE HandlerStep BY <1>3, HandlerKeeps
<1>4. CASE UNCHANGED nvars
  <2>1. UNCHANGED <<cnode, vNodes, vNodesDisconnected, deleted, semOutbound, opener, socket, handler,
                    fShutdown, torn>>
    BY <1>4 DEF nvars
  <2>. QED BY <2>1 DEF NInv, NTyped, Placed, Created, Clearing, OpenersKnow, FoundIsKept, At,
          RefsCounted, Holders, InCopy, ToEnd, EndsReference, SemCounted, Granted, WithGrant, Grants,
          NotUsedAfterDelete
<1>. QED
  BY <1>1, <1>2, <1>3, <1>4, AcceptKeeps, FlagKeeps, StopNodeKeeps DEF NodesNext

LEMMA NodesInvariance == NodesSpec => []NInv
  BY NodesAssumption, NodesInitially, NodesStep, PTL DEF NodesSpec

\* However many threads open, serve and use connections, in any order, and
\* whatever is torn elsewhere: no thread has a pointer to a deleted node whose
\* count was not changed by two threads at once.
THEOREM NobodyUsesDeleted == NodesSpec => []NotUsedAfterDelete
<1>1. NInv => NotUsedAfterDelete BY DEF NInv
<1>. QED BY <1>1, NodesInvariance, PTL

\* As long as no count or grant was changed by two threads at once, every node
\* is in one place and every grant of the semaphore is free, with a thread or
\* with one node; StopNode adds its own once.
THEOREM NodesStaySound == NodesSpec => [](Untorn => NodesSound)
<1>1. ASSUME NInv, Untorn PROVE NodesSound
  <2>1. GrantsConserved
    <3>. SUFFICES ASSUME ~fShutdown
                  PROVE  semOutbound + Cardinality(Granted) + Cardinality(WithGrant) = MaxOutbound
      BY DEF GrantsConserved, Granted, WithGrant
    <3>. QED BY <1>1, NodesAssumption DEF NInv, SemCounted, Untorn, NodesAssumption
  <2>2. semOutbound \in 0..(3 * MaxOutbound)
    <3>1. semOutbound \in Nat /\ MaxOutbound \in Nat
      BY <1>1, NodesAssumption DEF NInv, NTyped, NodesAssumption
    <3>2. /\ Cardinality(Granted) \in Nat /\ Cardinality(WithGrant) \in Nat
      BY NodesAssumption, FiniteCounts
    <3>3. semOutbound + Cardinality(Granted) + Cardinality(WithGrant)
            = MaxOutbound + (IF fShutdown THEN MaxOutbound ELSE 0)
      BY <1>1 DEF NInv, SemCounted, Untorn
    <3>. QED BY <3>1, <3>2, <3>3
  <2>3. NodesTypeOK BY <1>1, <2>2 DEF NInv, Placed, NodesTypeOK
  <2>4. NotUsedAfterDelete BY <1>1 DEF NInv
  <2>. QED BY <2>1, <2>3, <2>4 DEF NodesSound
<1>. QED BY <1>1, NodesInvariance, PTL
-----------------------------------------------------------------------------
(***************************************************************************)
(* What is in a sequence.                                                  *)
(***************************************************************************)
LEMMA InSequence ==
    ASSUME NEW S, NEW s \in Seq(S)
    PROVE  /\ ToSet(s) \in SUBSET S
           /\ \A i \in 1 .. Len(s) : s[i] \in ToSet(s)
           /\ \A x : x \in ToSet(s) <=> \E i \in 1 .. Len(s) : x = s[i]
BY DEF ToSet

LEMMA OnPlace ==
    ASSUME NEW S, NEW s \in Seq(S), NEW x \in ToSet(s)
    PROVE  \E i \in 1 .. Len(s) : x = s[i]
BY DEF ToSet

LEMMA EmptyAndSingle ==
    /\ ToSet(<<>>) = {}
    /\ \A x : ToSet(<<x>>) = {x}
    /\ \A S : <<>> \in Seq(S) /\ \A x \in S : <<x>> \in Seq(S)
<1>1. ToSet(<<>>) = {} BY DEF ToSet
<1>2. \A x : ToSet(<<x>>) = {x} BY DEF ToSet
<1>. QED BY <1>1, <1>2

LEMMA InConcat ==
    ASSUME NEW S, NEW s \in Seq(S), NEW t \in Seq(S)
    PROVE  s \o t \in Seq(S) /\ ToSet(s \o t) = ToSet(s) \union ToSet(t)
<1>1. /\ s \o t \in Seq(S) /\ Len(s \o t) = Len(s) + Len(t) /\ Len(s) \in Nat /\ Len(t) \in Nat
      /\ \A i \in 1 .. Len(s) + Len(t) : (s \o t)[i] = IF i <= Len(s) THEN s[i] ELSE t[i - Len(s)]
  BY ConcatProperties
<1>2. ASSUME NEW x \in ToSet(s \o t) PROVE x \in ToSet(s) \union ToSet(t)
  <2>1. PICK i \in 1 .. Len(s) + Len(t) : x = (s \o t)[i]
    <3>1. x \in ToSet(s \o t) BY <1>2
    <3>. QED BY <1>1, <3>1, OnPlace
  <2>2. CASE i <= Len(s) BY <1>1, <2>1, <2>2, InSequence
  <2>3. CASE ~(i <= Len(s))
    <3>1. i - Len(s) \in 1 .. Len(t) BY <1>1, <2>3
    <3>. QED BY <1>1, <2>1, <2>3, <3>1, InSequence
  <2>. QED BY <2>2, <2>3
<1>3. ASSUME NEW x \in ToSet(s) PROVE x \in ToSet(s \o t)
  <2>1. PICK i \in 1 .. Len(s) : x = s[i] BY InSequence
  <2>2. i \in 1 .. Len(s) + Len(t) /\ i <= Len(s) BY <1>1
  <2>3. (s \o t)[i] = x BY <1>1, <2>1, <2>2
  <2>. QED BY <1>1, <2>2, <2>3, InSequence
<1>4. ASSUME NEW x \in ToSet(t) PROVE x \in ToSet(s \o t)
  <2>1. PICK i \in 1 .. Len(t) : x = t[i] BY InSequence
  <2> DEFINE j == Len(s) + i
  <2>2. j \in 1 .. Len(s) + Len(t) /\ ~(j <= Len(s)) /\ j - Len(s) = i BY <1>1
  <2>. HIDE DEF j
  <2>3. (s \o t)[j] = x BY <1>1, <2>1, <2>2
  <2>. QED BY <1>1, <2>2, <2>3, InSequence
<1>. QED BY <1>1, <1>2, <1>3, <1>4

LEMMA InAppend ==
    ASSUME NEW S, NEW s \in Seq(S), NEW x \in S
    PROVE  Append(s, x) \in Seq(S) /\ ToSet(Append(s, x)) = ToSet(s) \union {x}
<1>1. Append(s, x) = s \o <<x>> BY AppendIsConcat
<1>2. <<x>> \in Seq(S) /\ ToSet(<<x>>) = {x} BY EmptyAndSingle
<1>3. s \o <<x>> \in Seq(S) /\ ToSet(s \o <<x>>) = ToSet(s) \union ToSet(<<x>>) BY <1>2, InConcat
<1>. QED BY <1>1, <1>2, <1>3

LEMMA InHeadAndTail ==
    ASSUME NEW S, NEW s \in Seq(S), s # <<>>
    PROVE  /\ Head(s) \in S /\ Tail(s) \in Seq(S)
           /\ ToSet(s) = {Head(s)} \union ToSet(Tail(s))
<1>1. /\ Head(s) \in S /\ Tail(s) \in Seq(S) /\ Len(Tail(s)) = Len(s) - 1 /\ Len(s) \in Nat \ {0}
      /\ \A i \in 1 .. Len(Tail(s)) : Tail(s)[i] = s[i + 1]
      /\ Head(s) = s[1]
  BY HeadTailProperties, EmptySeq
<1>2. ASSUME NEW x \in ToSet(s) PROVE x \in {Head(s)} \union ToSet(Tail(s))
  <2>1. PICK i \in 1 .. Len(s) : x = s[i] BY InSequence
  <2>2. CASE i # 1
    <3>1. i - 1 \in 1 .. Len(Tail(s)) /\ (i - 1) + 1 = i BY <1>1, <2>2
    <3>2. Tail(s)[i - 1] = x BY <1>1, <2>1, <3>1
    <3>. QED BY <1>1, <3>1, <3>2, InSequence
  <2>. QED BY <1>1, <2>1, <2>2
<1>3. ASSUME NEW x \in ToSet(Tail(s)) PROVE x \in ToSet(s)
  <2>1. PICK i \in 1 .. Len(Tail(s)) : x = Tail(s)[i] BY <1>1, <1>3, OnPlace
  <2>2. i + 1 \in 1 .. Len(s) BY <1>1
  <2>. QED BY <1>1, <2>1, <2>2, InSequence
<1>4. Head(s) \in ToSet(s)
  <2>1. 1 \in 1 .. Len(s) BY <1>1
  <2>. QED BY <1>1, <2>1, InSequence
<1>. QED BY <1>1, <1>2, <1>3, <1>4

LEMMA InSubSeq ==
    ASSUME NEW S, NEW s \in Seq(S), NEW n \in Nat, n <= Len(s)
    PROVE  SubSeq(s, 1, n) \in Seq(S) /\ ToSet(SubSeq(s, 1, n)) \subseteq ToSet(s)
<1>0. Len(s) \in Nat BY LenProperties
<1>1. \A i \in 1 .. n : i \in 1 .. Len(s) BY <1>0
<1>2. \A i \in 1 .. n : s[i] \in S BY <1>1, ElementOfSeq
<1>3. /\ SubSeq(s, 1, n) \in Seq(S) /\ Len(SubSeq(s, 1, n)) = n
      /\ \A i \in 1 .. n : SubSeq(s, 1, n)[i] = s[i]
  <2>1. /\ SubSeq(s, 1, n) \in Seq(S) /\ Len(SubSeq(s, 1, n)) = IF 1 <= n THEN n - 1 + 1 ELSE 0
        /\ \A i \in 1 .. n - 1 + 1 : SubSeq(s, 1, n)[i] = s[1 + i - 1]
    BY <1>2, SubSeqProperties
  <2>2. n - 1 + 1 = n /\ \A i \in 1 .. n : 1 + i - 1 = i OBVIOUS
  <2>. QED BY <2>1, <2>2
<1>4. ASSUME NEW x \in ToSet(SubSeq(s, 1, n)) PROVE x \in ToSet(s)
  <2>1. PICK i \in 1 .. n : x = SubSeq(s, 1, n)[i] BY <1>3, <1>4, OnPlace
  <2>. QED BY <1>1, <1>3, <2>1, InSequence
<1>. QED BY <1>3, <1>4

-----------------------------------------------------------------------------
(***************************************************************************)
(* What the handlers do to a CNode.                                        *)
(***************************************************************************)

LEMMA AddInventoryKnownKeeps ==
    ASSUME NEW c \in CNodes, NEW b \in Blocks
    PROVE  /\ AddInventoryKnown(c, b) \in CNodes
           /\ AddInventoryKnown(c, b).setInventoryKnown = c.setInventoryKnown \union {b}
           /\ AddInventoryKnown(c, b).mapAskFor = c.mapAskFor
           /\ AddInventoryKnown(c, b).vInventoryToSend = c.vInventoryToSend
BY DEF AddInventoryKnown, CNodes

LEMMA PushInventoryKeeps ==
    ASSUME NEW c \in CNodes, NEW b \in Blocks
    PROVE  /\ PushInventory(c, b) \in CNodes
           /\ PushInventory(c, b).setInventoryKnown = c.setInventoryKnown
           /\ PushInventory(c, b).mapAskFor = c.mapAskFor
           /\ ToSet(PushInventory(c, b).vInventoryToSend) \subseteq ToSet(c.vInventoryToSend) \union {b}
<1>1. c.vInventoryToSend \in Seq(Blocks) BY DEF CNodes
<1>2. /\ Append(c.vInventoryToSend, b) \in Seq(Blocks)
      /\ ToSet(Append(c.vInventoryToSend, b)) = ToSet(c.vInventoryToSend) \union {b}
  BY <1>1, InAppend
<1>. DEFINE s == Append(c.vInventoryToSend, b)
<1>. HIDE DEF s
<1>3. s \in Seq(Blocks) BY <1>2 DEF s
<1>4. [c EXCEPT !.vInventoryToSend = s] \in CNodes BY <1>3 DEF CNodes
<1>5. /\ [c EXCEPT !.vInventoryToSend = s].setInventoryKnown = c.setInventoryKnown
      /\ [c EXCEPT !.vInventoryToSend = s].mapAskFor = c.mapAskFor
      /\ [c EXCEPT !.vInventoryToSend = s].vInventoryToSend = s
  BY DEF CNodes
<1>6. PushInventory(c, b) = c \/ PushInventory(c, b) = [c EXCEPT !.vInventoryToSend = s]
  BY DEF PushInventory, s
<1>. QED BY <1>2, <1>4, <1>5, <1>6 DEF s

LEMMA AskForKeeps ==
    ASSUME NEW c \in CNodes, NEW b \in Blocks
    PROVE  /\ AskFor(c, b) \in CNodes
           /\ AskFor(c, b).setInventoryKnown = c.setInventoryKnown
           /\ AskFor(c, b).vInventoryToSend = c.vInventoryToSend
           /\ ToSet(AskFor(c, b).mapAskFor) = ToSet(c.mapAskFor) \union {b}
<1>1. c.mapAskFor \in Seq(Blocks) BY DEF CNodes
<1>2. /\ Append(c.mapAskFor, b) \in Seq(Blocks)
      /\ ToSet(Append(c.mapAskFor, b)) = ToSet(c.mapAskFor) \union {b}
  BY <1>1, InAppend
<1>. DEFINE s == Append(c.mapAskFor, b)
<1>. HIDE DEF s
<1>3. s \in Seq(Blocks) BY <1>2 DEF s
<1>4. [c EXCEPT !.mapAskFor = s] \in CNodes BY <1>3 DEF CNodes
<1>5. /\ [c EXCEPT !.mapAskFor = s].setInventoryKnown = c.setInventoryKnown
      /\ [c EXCEPT !.mapAskFor = s].vInventoryToSend = c.vInventoryToSend
      /\ [c EXCEPT !.mapAskFor = s].mapAskFor = s
  BY DEF CNodes
<1>6. CASE Contains(c.mapAskFor, b)
  <2>1. b \in ToSet(c.mapAskFor) BY <1>1, <1>6, InSequence DEF Contains
  <2>. QED BY <1>6, <2>1 DEF AskFor
<1>7. CASE ~Contains(c.mapAskFor, b)
  <2>1. AskFor(c, b) = [c EXCEPT !.mapAskFor = s] BY <1>7 DEF AskFor, s
  <2>. QED BY <1>2, <1>4, <1>5, <2>1 DEF s
<1>. QED BY <1>6, <1>7

\* Messages that carry no blocks.
Quiet == {m \in Messages : m.type \in {"version", "getblocks"}}

LEMMA PushGetBlocksKeeps ==
    ASSUME NEW cm \in CNodes \X Seq(Messages), NEW begin \in Blocks, NEW end \in Blocks \union {Nil}
    PROVE  /\ PushGetBlocks(cm, begin, end) \in CNodes \X Seq(Messages)
           /\ PushGetBlocks(cm, begin, end)[1].setInventoryKnown = cm[1].setInventoryKnown
           /\ PushGetBlocks(cm, begin, end)[1].mapAskFor = cm[1].mapAskFor
           /\ PushGetBlocks(cm, begin, end)[1].vInventoryToSend = cm[1].vInventoryToSend
           /\ ToSet(PushGetBlocks(cm, begin, end)[2]) \subseteq ToSet(cm[2]) \union Quiet
<1>. DEFINE c == cm[1]
            s == cm[2]
            m == GetBlocks(begin, end)
            d == [c EXCEPT !.lastGetBlocks = <<begin, end>>]
<1>1. c \in CNodes /\ s \in Seq(Messages) /\ cm = <<c, s>> OBVIOUS
<1>2. m \in Messages /\ m \in Quiet BY DEF GetBlocks, Messages, Quiet
<1>3. Append(s, m) \in Seq(Messages) /\ ToSet(Append(s, m)) = ToSet(s) \union {m}
  <2>. HIDE DEF s, m
  <2>. QED BY <1>1, <1>2, InAppend
<1>4. /\ d \in CNodes
      /\ d.setInventoryKnown = c.setInventoryKnown
      /\ d.mapAskFor = c.mapAskFor
      /\ d.vInventoryToSend = c.vInventoryToSend
  <2>. HIDE DEF c
  <2>. QED BY <1>1 DEF CNodes
<1>5. \/ PushGetBlocks(cm, begin, end) = cm
      \/ PushGetBlocks(cm, begin, end) = <<d, Append(s, m)>>
  BY DEF PushGetBlocks
<1>. HIDE DEF c, s, m, d
<1>6. CASE PushGetBlocks(cm, begin, end) = cm BY <1>1, <1>6 DEF c, s
<1>7. CASE PushGetBlocks(cm, begin, end) = <<d, Append(s, m)>>
  <2>. DEFINE t == Append(s, m)
  <2>1. t \in Seq(Messages) /\ ToSet(t) \subseteq ToSet(s) \union Quiet BY <1>2, <1>3
  <2>2. PushGetBlocks(cm, begin, end) = <<d, t>> BY <1>7
  <2>. HIDE DEF t
  <2>3. <<d, t>> \in CNodes \X Seq(Messages) /\ <<d, t>>[1] = d /\ <<d, t>>[2] = t BY <1>4, <2>1
  <2>. QED BY <1>4, <2>1, <2>2, <2>3 DEF c, s
<1>. QED BY <1>5, <1>6, <1>7

\* The reply to one request: the block, and perhaps an announcement.
LEMMA ReplyIs ==
    ASSUME NEW n \in Nodes, LastProofOfWork(n) \in Blocks, NEW b \in Blocks, NEW hashContinue
    PROVE  /\ Reply(n, b, hashContinue) \in Seq(Messages)
           /\ [type |-> "block", block |-> b] \in ToSet(Reply(n, b, hashContinue))
           /\ ToSet(Reply(n, b, hashContinue)) \subseteq
                 {[type |-> "block", block |-> b], [type |-> "inv", inv |-> <<LastProofOfWork(n)>>]}
<1>. DEFINE block == [type |-> "block", block |-> b]
            announcement == [type |-> "inv", inv |-> <<LastProofOfWork(n)>>]
<1>1. block \in Messages BY DEF Messages
<1>2. announcement \in Messages
  <2>1. <<LastProofOfWork(n)>> \in Seq(Blocks) BY EmptyAndSingle
  <2>. QED BY <2>1 DEF Messages
<1>3. \/ Reply(n, b, hashContinue) = <<block>> \o <<announcement>>
      \/ Reply(n, b, hashContinue) = <<block>> \o <<>>
  BY DEF Reply
<1>. HIDE DEF block, announcement
<1>4. /\ <<block>> \in Seq(Messages) /\ ToSet(<<block>>) = {block}
      /\ <<announcement>> \in Seq(Messages) /\ ToSet(<<announcement>>) = {announcement}
      /\ <<>> \in Seq(Messages) /\ ToSet(<<>>) = {}
  BY <1>1, <1>2, EmptyAndSingle
<1>5. /\ <<block>> \o <<announcement>> \in Seq(Messages)
      /\ ToSet(<<block>> \o <<announcement>>) = {block} \union {announcement}
  <2>. DEFINE x == <<block>>
              y == <<announcement>>
  <2>. HIDE DEF x, y
  <2>1. x \in Seq(Messages) /\ y \in Seq(Messages) /\ ToSet(x) = {block} /\ ToSet(y) = {announcement}
    BY <1>4 DEF x, y
  <2>2. x \o y \in Seq(Messages) /\ ToSet(x \o y) = ToSet(x) \union ToSet(y) BY <2>1, InConcat
  <2>. QED BY <2>1, <2>2 DEF x, y
<1>6. <<block>> \o <<>> \in Seq(Messages) /\ ToSet(<<block>> \o <<>>) = {block} \union {}
  <2>. DEFINE x == <<block>>
  <2>. HIDE DEF x
  <2>1. x \in Seq(Messages) /\ ToSet(x) = {block} BY <1>4 DEF x
  <2>2. x \o <<>> = x BY <2>1, ConcatEmptySeq
  <2>. QED BY <2>1, <2>2 DEF x
<1>. QED BY <1>3, <1>5, <1>6 DEF block, announcement

\* What the announcement of the blocks B makes of a CNode cm[1] and of the
\* messages cm[2]: the blocks are known, and here or to be asked for.
Heard(n, cm, B, h) ==
    /\ h \in CNodes \X Seq(Messages)
    /\ h[1].setInventoryKnown \subseteq cm[1].setInventoryKnown \union B
    /\ h[1].vInventoryToSend = cm[1].vInventoryToSend
    /\ ToSet(cm[1].mapAskFor) \subseteq ToSet(h[1].mapAskFor)
    /\ ToSet(h[1].mapAskFor) \subseteq ToSet(cm[1].mapAskFor) \union B
    /\ B \subseteq Had(n) \union ToSet(h[1].mapAskFor)
    /\ ToSet(h[2]) \subseteq ToSet(cm[2]) \union Quiet

LEMMA HearOfIs ==
    ASSUME NEW n \in Nodes, pindexBest[n] \in Blocks,
           \A b \in mapOrphanBlocks[n] : GetOrphanRoot(mapOrphanBlocks[n], b) \in Blocks,
           NEW cm \in CNodes \X Seq(Messages), NEW b \in Blocks, NEW isLast
    PROVE  Heard(n, cm, {b}, HearOf(n, cm, b, isLast))
<1>. DEFINE c == AddInventoryKnown(cm[1], b)
<1>1. cm[1] \in CNodes /\ cm[2] \in Seq(Messages) OBVIOUS
<1>2. /\ c \in CNodes /\ c.setInventoryKnown = cm[1].setInventoryKnown \union {b}
      /\ c.mapAskFor = cm[1].mapAskFor /\ c.vInventoryToSend = cm[1].vInventoryToSend
  BY <1>1, AddInventoryKnownKeeps
<1>. DEFINE r == HearOf(n, cm, b, isLast)
            e == <<c, cm[2]>>
<1>3. \/ b \notin Had(n) /\ r = <<AskFor(c, b), cm[2]>>
      \/ b \in Had(n) /\ b \in mapOrphanBlocks[n]
         /\ r = PushGetBlocks(e, pindexBest[n], GetOrphanRoot(mapOrphanBlocks[n], b))
      \/ b \in Had(n) /\ r = PushGetBlocks(e, b, Nil)
      \/ b \in Had(n) /\ r = e
  BY DEF HearOf, AlreadyHave
<1>0. SUFFICES Heard(n, cm, {b}, r) OBVIOUS
<1>. HIDE DEF r, c
<1>4. e \in CNodes \X Seq(Messages) /\ e[1] = c /\ e[2] = cm[2] BY <1>1, <1>2
<1>. HIDE DEF e
<1>5. CASE b \notin Had(n) /\ r = <<AskFor(c, b), cm[2]>>
  <2>1. /\ AskFor(c, b) \in CNodes
        /\ AskFor(c, b).setInventoryKnown = c.setInventoryKnown
        /\ AskFor(c, b).vInventoryToSend = c.vInventoryToSend
        /\ ToSet(AskFor(c, b).mapAskFor) = ToSet(c.mapAskFor) \union {b}
    BY <1>2, AskForKeeps
  <2>2. r \in CNodes \X Seq(Messages) /\ r[1] = AskFor(c, b) /\ r[2] = cm[2] BY <1>1, <1>5, <2>1
  <2>. QED BY <1>2, <1>5, <2>1, <2>2 DEF Heard
<1>6. ASSUME NEW begin \in Blocks, NEW end \in Blocks \union {Nil},
             b \in Had(n), r = PushGetBlocks(e, begin, end)
      PROVE  Heard(n, cm, {b}, r)
  <2>1. /\ r \in CNodes \X Seq(Messages)
        /\ r[1].setInventoryKnown = e[1].setInventoryKnown
        /\ r[1].mapAskFor = e[1].mapAskFor
        /\ r[1].vInventoryToSend = e[1].vInventoryToSend
        /\ ToSet(r[2]) \subseteq ToSet(e[2]) \union Quiet
    BY <1>4, <1>6, PushGetBlocksKeeps
  <2>. QED BY <1>2, <1>4, <1>6, <2>1 DEF Heard
<1>7. CASE b \in Had(n) /\ b \in mapOrphanBlocks[n]
           /\ r = PushGetBlocks(e, pindexBest[n], GetOrphanRoot(mapOrphanBlocks[n], b))
  BY <1>6, <1>7
<1>8. CASE b \in Had(n) /\ r = PushGetBlocks(e, b, Nil)
  <2>1. Nil \in Blocks \union {Nil} OBVIOUS
  <2>. QED BY <1>6, <1>8, <2>1
<1>9. CASE b \in Had(n) /\ r = e BY <1>2, <1>4, <1>9 DEF Heard
<1>. QED BY <1>3, <1>5, <1>7, <1>8, <1>9

-----------------------------------------------------------------------------
(***************************************************************************)
(* The walks over blocks: each is a fold, and so the last of a series of   *)
(* values that starts with the base.                                       *)
(***************************************************************************)
IfIn(t, b, S) == IF b \in S THEN Append(t, b) ELSE t

\* Those of s that are in S.
LEMMA AmongWalk ==
    ASSUME NEW X, NEW S, NEW s \in Seq(X)
    PROVE  \E v \in [0 .. Len(s) -> Seq(X)] :
              /\ v[0] = <<>> /\ v[Len(s)] = Among(s, S)
              /\ \A i \in 1 .. Len(s) : v[i] = IfIn(v[i - 1], s[i], S)
<1>. DEFINE size == Len(s)
            W == Seq(X)
            base == <<>>
            F == [wi \in W \X (1 .. size) |-> IfIn(wi[1], s[wi[2]], S)]
            Follows(it) ==
              it = [t \in SUBSET (1 .. size) |->
                      IF t = {} THEN base
                      ELSE LET x == Max(t)
                           IN  IfIn(it[t \ {x}], s[x], S)]
            it0 == CHOOSE it : Follows(it)
<1>0. size \in Nat /\ DOMAIN s = 1 .. size BY LenProperties
<1>1. Among(s, S) = it0[1 .. size]
  BY <1>0, Zenon DEF Among, FoldLeft, MapThenFoldSet, IfIn
<1>2. base \in W BY EmptyAndSingle
<1>3. F \in [W \X (1 .. size) -> W]
  <2>1. ASSUME NEW wi \in W \X (1 .. size)
        PROVE  IfIn(wi[1], s[wi[2]], S) \in W
    <3>. DEFINE w == wi[1]
                i == wi[2]
    <3>1. w \in W /\ i \in 1 .. Len(s) BY Zenon
    <3>2. s[i] \in X BY <3>1, ElementOfSeq
    <3>. HIDE DEF w, i
    <3>3. IfIn(w, s[i], S) \in W
      BY <3>1, <3>2, InAppend DEF IfIn
    <3>. QED BY <3>3 DEF w, i
  <2>. HIDE DEF W
  <2>. QED BY <2>1
<1>. HIDE DEF W, base, F
<1>4. PICK g \in [SUBSET (1 .. size) -> W] : Folds(g, base, F, size) BY <1>0, <1>2, <1>3, FoldExists
<1>5. ASSUME NEW it, NEW t \in SUBSET (1 .. size), t # {}, it[t \ {Max(t)}] \in W
      PROVE  F[<<it[t \ {Max(t)}], Max(t)>>] =
                IfIn(it[t \ {Max(t)}], s[Max(t)], S)
  <2>1. Max(t) \in 1 .. size BY <1>0, <1>5, MaxInInterval
  <2>. QED BY <1>5, <2>1 DEF F
<1>6. Follows(g)
  <2>1. ASSUME NEW t \in SUBSET (1 .. size)
        PROVE  g[t] = IF t = {} THEN base
                      ELSE LET x == Max(t)
                           IN  IfIn(g[t \ {x}], s[x], S)
    <3>1. g[t] = IF t = {} THEN base ELSE F[<<g[t \ {Max(t)}], Max(t)>>] BY <1>4, Zenon DEF Folds
    <3>2. t \ {Max(t)} \in SUBSET (1 .. size) OBVIOUS
    <3>3. g[t \ {Max(t)}] \in W BY <1>4, <3>2
    <3>. QED BY <1>5, <3>1, <3>3, Zenon
  <2>2. g = [t \in SUBSET (1 .. size) |-> g[t]] OBVIOUS
  <2>. QED BY <2>1, <2>2, Zenon
<1>7. Follows(it0)
  <2>. HIDE DEF Follows
  <2>. QED BY <1>6, Zenon
<1>. HIDE DEF it0
<1>8. it0[{}] = base
  <2>1. {} \in SUBSET (1 .. size) OBVIOUS
  <2>. QED BY <1>7, <2>1, Zenon
<1>9. ASSUME NEW t \in SUBSET (1 .. size), t # {}, it0[t \ {Max(t)}] \in W
      PROVE  it0[t] = F[<<it0[t \ {Max(t)}], Max(t)>>]
  <2>1. it0[t] = IfIn(it0[t \ {Max(t)}], s[Max(t)], S)
    BY <1>7, <1>9, Zenon
  <2>. QED BY <1>5, <1>9, <2>1, Zenon
<1>. HIDE DEF Follows
<1>10. PICK v \in [0 .. size -> W] : Walk(v, it0, base, F, size)
  <2>1. Unfolds(it0, W, base, F, size)
    <3>. HIDE DEF size
    <3>. QED BY <1>8, <1>9 DEF Unfolds
  <2>. HIDE DEF size
  <2>. QED BY <1>0, <1>2, <1>3, <2>1, FoldWalk
<1>11. ASSUME NEW i \in 1 .. size PROVE v[i] = IfIn(v[i - 1], s[i], S)
  <2>1. i - 1 \in 0 .. size /\ i \in 1 .. size BY <1>0
  <2>2. v[i - 1] \in W BY <2>1
  <2>3. <<v[i - 1], i>> \in W \X (1 .. size) BY <2>1, <2>2
  <2>4. F[<<v[i - 1], i>>] = IfIn(v[i - 1], s[i], S)
    BY <2>3, Zenon DEF F
  <2>. QED BY <1>10, <2>1, <2>4 DEF Walk
<1>12. v \in [0 .. Len(s) -> Seq(X)] BY DEF W
<1>13. v[0] = <<>> /\ v[Len(s)] = Among(s, S)
  BY <1>1, <1>10 DEF base, Walk
<1>14. \A i \in 1 .. Len(s) : v[i] = IfIn(v[i - 1], s[i], S) BY <1>11
<1>. HIDE DEF size
<1>. QED BY <1>12, <1>13, <1>14

\* Blocks that are to be announced.
LEMMA PushWalk ==
    ASSUME NEW c \in CNodes, NEW s \in Seq(Blocks)
    PROVE  \E v \in [0 .. Len(s) -> CNodes] :
              /\ v[0] = c /\ v[Len(s)] = PushAllInventory(c, s)
              /\ \A i \in 1 .. Len(s) : v[i] = PushInventory(v[i - 1], s[i])
<1>. DEFINE size == Len(s)
            W == CNodes
            base == c
            F == [wi \in W \X (1 .. size) |-> PushInventory(wi[1], s[wi[2]])]
            Follows(it) ==
              it = [t \in SUBSET (1 .. size) |->
                      IF t = {} THEN base
                      ELSE LET x == Max(t)
                           IN  PushInventory(it[t \ {x}], s[x])]
            it0 == CHOOSE it : Follows(it)
<1>0. size \in Nat /\ DOMAIN s = 1 .. size BY LenProperties
<1>1. PushAllInventory(c, s) = it0[1 .. size]
  BY <1>0, Zenon DEF PushAllInventory, FoldLeft, MapThenFoldSet
<1>2. base \in W OBVIOUS
<1>3. F \in [W \X (1 .. size) -> W]
  <2>1. ASSUME NEW wi \in W \X (1 .. size)
        PROVE  PushInventory(wi[1], s[wi[2]]) \in W
    <3>. DEFINE w == wi[1]
                i == wi[2]
    <3>1. w \in W /\ i \in 1 .. Len(s) BY Zenon
    <3>2. s[i] \in Blocks BY <3>1, ElementOfSeq
    <3>. HIDE DEF w, i
    <3>3. PushInventory(w, s[i]) \in W
      BY <3>1, <3>2, PushInventoryKeeps
    <3>. QED BY <3>3 DEF w, i
  <2>. HIDE DEF W
  <2>. QED BY <2>1
<1>. HIDE DEF W, base, F
<1>4. PICK g \in [SUBSET (1 .. size) -> W] : Folds(g, base, F, size) BY <1>0, <1>2, <1>3, FoldExists
<1>5. ASSUME NEW it, NEW t \in SUBSET (1 .. size), t # {}, it[t \ {Max(t)}] \in W
      PROVE  F[<<it[t \ {Max(t)}], Max(t)>>] =
                PushInventory(it[t \ {Max(t)}], s[Max(t)])
  <2>1. Max(t) \in 1 .. size BY <1>0, <1>5, MaxInInterval
  <2>. QED BY <1>5, <2>1 DEF F
<1>6. Follows(g)
  <2>1. ASSUME NEW t \in SUBSET (1 .. size)
        PROVE  g[t] = IF t = {} THEN base
                      ELSE LET x == Max(t)
                           IN  PushInventory(g[t \ {x}], s[x])
    <3>1. g[t] = IF t = {} THEN base ELSE F[<<g[t \ {Max(t)}], Max(t)>>] BY <1>4, Zenon DEF Folds
    <3>2. t \ {Max(t)} \in SUBSET (1 .. size) OBVIOUS
    <3>3. g[t \ {Max(t)}] \in W BY <1>4, <3>2
    <3>. QED BY <1>5, <3>1, <3>3, Zenon
  <2>2. g = [t \in SUBSET (1 .. size) |-> g[t]] OBVIOUS
  <2>. QED BY <2>1, <2>2, Zenon
<1>7. Follows(it0)
  <2>. HIDE DEF Follows
  <2>. QED BY <1>6, Zenon
<1>. HIDE DEF it0
<1>8. it0[{}] = base
  <2>1. {} \in SUBSET (1 .. size) OBVIOUS
  <2>. QED BY <1>7, <2>1, Zenon
<1>9. ASSUME NEW t \in SUBSET (1 .. size), t # {}, it0[t \ {Max(t)}] \in W
      PROVE  it0[t] = F[<<it0[t \ {Max(t)}], Max(t)>>]
  <2>1. it0[t] = PushInventory(it0[t \ {Max(t)}], s[Max(t)])
    BY <1>7, <1>9, Zenon
  <2>. QED BY <1>5, <1>9, <2>1, Zenon
<1>. HIDE DEF Follows
<1>10. PICK v \in [0 .. size -> W] : Walk(v, it0, base, F, size)
  <2>1. Unfolds(it0, W, base, F, size)
    <3>. HIDE DEF size
    <3>. QED BY <1>8, <1>9 DEF Unfolds
  <2>. HIDE DEF size
  <2>. QED BY <1>0, <1>2, <1>3, <2>1, FoldWalk
<1>11. ASSUME NEW i \in 1 .. size PROVE v[i] = PushInventory(v[i - 1], s[i])
  <2>1. i - 1 \in 0 .. size /\ i \in 1 .. size BY <1>0
  <2>2. v[i - 1] \in W BY <2>1
  <2>3. <<v[i - 1], i>> \in W \X (1 .. size) BY <2>1, <2>2
  <2>4. F[<<v[i - 1], i>>] = PushInventory(v[i - 1], s[i])
    BY <2>3, Zenon DEF F
  <2>. QED BY <1>10, <2>1, <2>4 DEF Walk
<1>12. v \in [0 .. Len(s) -> CNodes] BY DEF W
<1>13. v[0] = c /\ v[Len(s)] = PushAllInventory(c, s)
  BY <1>1, <1>10 DEF base, Walk
<1>14. \A i \in 1 .. Len(s) : v[i] = PushInventory(v[i - 1], s[i]) BY <1>11
<1>. HIDE DEF size
<1>. QED BY <1>12, <1>13, <1>14

\* Blocks that are accepted.
LEMMA AcceptWalk ==
    ASSUME NEW best \in Blocks, NEW seq \in Seq(Blocks)
    PROVE  \E v \in [0 .. Len(seq) -> [best : Blocks, relay : Seq(Blocks)]] :
              /\ v[0] = [best |-> best, relay |-> <<>>] /\ v[Len(seq)] = AcceptEach(best, seq)
              /\ \A i \in 1 .. Len(seq) : v[i] = AcceptOne(v[i - 1], seq[i])
<1>. DEFINE size == Len(seq)
            W == [best : Blocks, relay : Seq(Blocks)]
            base == [best |-> best, relay |-> <<>>]
            F == [wi \in W \X (1 .. size) |-> AcceptOne(wi[1], seq[wi[2]])]
            Follows(it) ==
              it = [t \in SUBSET (1 .. size) |->
                      IF t = {} THEN base
                      ELSE LET x == Max(t)
                           IN  AcceptOne(it[t \ {x}], seq[x])]
            it0 == CHOOSE it : Follows(it)
<1>0. size \in Nat /\ DOMAIN seq = 1 .. size BY LenProperties
<1>1. AcceptEach(best, seq) = it0[1 .. size]
  BY <1>0, Zenon DEF AcceptEach, FoldLeft, MapThenFoldSet
<1>2. base \in W BY EmptyAndSingle
<1>3. F \in [W \X (1 .. size) -> W]
  <2>1. ASSUME NEW wi \in W \X (1 .. size)
        PROVE  AcceptOne(wi[1], seq[wi[2]]) \in W
    <3>. DEFINE w == wi[1]
                i == wi[2]
    <3>1. w \in W /\ i \in 1 .. Len(seq) BY Zenon
    <3>2. seq[i] \in Blocks BY <3>1, ElementOfSeq
    <3>. HIDE DEF w, i
    <3>3. AcceptOne(w, seq[i]) \in W
      <4>1. w.relay \in Seq(Blocks) BY <3>1
      <4>2. Append(w.relay, seq[i]) \in Seq(Blocks) BY <3>2, <4>1, InAppend
      <4>. QED BY <3>1, <3>2, <4>2 DEF AcceptOne
    <3>. QED BY <3>3 DEF w, i
  <2>. HIDE DEF W
  <2>. QED BY <2>1
<1>. HIDE DEF W, base, F
<1>4. PICK g \in [SUBSET (1 .. size) -> W] : Folds(g, base, F, size) BY <1>0, <1>2, <1>3, FoldExists
<1>5. ASSUME NEW it, NEW t \in SUBSET (1 .. size), t # {}, it[t \ {Max(t)}] \in W
      PROVE  F[<<it[t \ {Max(t)}], Max(t)>>] =
                AcceptOne(it[t \ {Max(t)}], seq[Max(t)])
  <2>1. Max(t) \in 1 .. size BY <1>0, <1>5, MaxInInterval
  <2>. QED BY <1>5, <2>1 DEF F
<1>6. Follows(g)
  <2>1. ASSUME NEW t \in SUBSET (1 .. size)
        PROVE  g[t] = IF t = {} THEN base
                      ELSE LET x == Max(t)
                           IN  AcceptOne(g[t \ {x}], seq[x])
    <3>1. g[t] = IF t = {} THEN base ELSE F[<<g[t \ {Max(t)}], Max(t)>>] BY <1>4, Zenon DEF Folds
    <3>2. t \ {Max(t)} \in SUBSET (1 .. size) OBVIOUS
    <3>3. g[t \ {Max(t)}] \in W BY <1>4, <3>2
    <3>. QED BY <1>5, <3>1, <3>3, Zenon
  <2>2. g = [t \in SUBSET (1 .. size) |-> g[t]] OBVIOUS
  <2>. QED BY <2>1, <2>2, Zenon
<1>7. Follows(it0)
  <2>. HIDE DEF Follows
  <2>. QED BY <1>6, Zenon
<1>. HIDE DEF it0
<1>8. it0[{}] = base
  <2>1. {} \in SUBSET (1 .. size) OBVIOUS
  <2>. QED BY <1>7, <2>1, Zenon
<1>9. ASSUME NEW t \in SUBSET (1 .. size), t # {}, it0[t \ {Max(t)}] \in W
      PROVE  it0[t] = F[<<it0[t \ {Max(t)}], Max(t)>>]
  <2>1. it0[t] = AcceptOne(it0[t \ {Max(t)}], seq[Max(t)])
    BY <1>7, <1>9, Zenon
  <2>. QED BY <1>5, <1>9, <2>1, Zenon
<1>. HIDE DEF Follows
<1>10. PICK v \in [0 .. size -> W] : Walk(v, it0, base, F, size)
  <2>1. Unfolds(it0, W, base, F, size)
    <3>. HIDE DEF size
    <3>. QED BY <1>8, <1>9 DEF Unfolds
  <2>. HIDE DEF size
  <2>. QED BY <1>0, <1>2, <1>3, <2>1, FoldWalk
<1>11. ASSUME NEW i \in 1 .. size PROVE v[i] = AcceptOne(v[i - 1], seq[i])
  <2>1. i - 1 \in 0 .. size /\ i \in 1 .. size BY <1>0
  <2>2. v[i - 1] \in W BY <2>1
  <2>3. <<v[i - 1], i>> \in W \X (1 .. size) BY <2>1, <2>2
  <2>4. F[<<v[i - 1], i>>] = AcceptOne(v[i - 1], seq[i])
    BY <2>3, Zenon DEF F
  <2>. QED BY <1>10, <2>1, <2>4 DEF Walk
<1>12. v \in [0 .. Len(seq) -> [best : Blocks, relay : Seq(Blocks)]] BY DEF W
<1>13. v[0] = [best |-> best, relay |-> <<>>] /\ v[Len(seq)] = AcceptEach(best, seq)
  BY <1>1, <1>10 DEF base, Walk
<1>14. \A i \in 1 .. Len(seq) : v[i] = AcceptOne(v[i - 1], seq[i]) BY <1>11
<1>. HIDE DEF size
<1>. QED BY <1>12, <1>13, <1>14

\* Blocks that are sent.
LEMMA ReplyWalk ==
    ASSUME NEW n \in Nodes, LastProofOfWork(n) \in Blocks, NEW hashContinue,
           NEW wanted \in Seq(Blocks)
    PROVE  \E v \in [0 .. Len(wanted) -> Seq(Messages)] :
              /\ v[0] = <<>> /\ v[Len(wanted)] = ReplyAll(n, wanted, hashContinue)
              /\ \A i \in 1 .. Len(wanted) : v[i] = v[i - 1] \o Reply(n, wanted[i], hashContinue)
<1>. DEFINE size == Len(wanted)
            W == Seq(Messages)
            base == <<>>
            F == [wi \in W \X (1 .. size) |-> wi[1] \o Reply(n, wanted[wi[2]], hashContinue)]
            Follows(it) ==
              it = [t \in SUBSET (1 .. size) |->
                      IF t = {} THEN base
                      ELSE LET x == Max(t)
                           IN  it[t \ {x}] \o Reply(n, wanted[x], hashContinue)]
            it0 == CHOOSE it : Follows(it)
<1>0. size \in Nat /\ DOMAIN wanted = 1 .. size BY LenProperties
<1>1. ReplyAll(n, wanted, hashContinue) = it0[1 .. size]
  BY <1>0, Zenon DEF ReplyAll, FoldLeft, MapThenFoldSet
<1>2. base \in W BY EmptyAndSingle
<1>3. F \in [W \X (1 .. size) -> W]
  <2>1. ASSUME NEW wi \in W \X (1 .. size)
        PROVE  wi[1] \o Reply(n, wanted[wi[2]], hashContinue) \in W
    <3>. DEFINE w == wi[1]
                i == wi[2]
    <3>1. w \in W /\ i \in 1 .. Len(wanted) BY Zenon
    <3>2. wanted[i] \in Blocks BY <3>1, ElementOfSeq
    <3>. HIDE DEF w, i
    <3>3. w \o Reply(n, wanted[i], hashContinue) \in W
      <4>1. Reply(n, wanted[i], hashContinue) \in Seq(Messages) BY <3>2, ReplyIs
      <4>. QED BY <3>1, <4>1, InConcat
    <3>. QED BY <3>3 DEF w, i
  <2>. HIDE DEF W
  <2>. QED BY <2>1
<1>. HIDE DEF W, base, F
<1>4. PICK g \in [SUBSET (1 .. size) -> W] : Folds(g, base, F, size) BY <1>0, <1>2, <1>3, FoldExists
<1>5. ASSUME NEW it, NEW t \in SUBSET (1 .. size), t # {}, it[t \ {Max(t)}] \in W
      PROVE  F[<<it[t \ {Max(t)}], Max(t)>>] =
                it[t \ {Max(t)}] \o Reply(n, wanted[Max(t)], hashContinue)
  <2>1. Max(t) \in 1 .. size BY <1>0, <1>5, MaxInInterval
  <2>. QED BY <1>5, <2>1 DEF F
<1>6. Follows(g)
  <2>1. ASSUME NEW t \in SUBSET (1 .. size)
        PROVE  g[t] = IF t = {} THEN base
                      ELSE LET x == Max(t)
                           IN  g[t \ {x}] \o Reply(n, wanted[x], hashContinue)
    <3>1. g[t] = IF t = {} THEN base ELSE F[<<g[t \ {Max(t)}], Max(t)>>] BY <1>4, Zenon DEF Folds
    <3>2. t \ {Max(t)} \in SUBSET (1 .. size) OBVIOUS
    <3>3. g[t \ {Max(t)}] \in W BY <1>4, <3>2
    <3>. QED BY <1>5, <3>1, <3>3, Zenon
  <2>2. g = [t \in SUBSET (1 .. size) |-> g[t]] OBVIOUS
  <2>. QED BY <2>1, <2>2, Zenon
<1>7. Follows(it0)
  <2>. HIDE DEF Follows
  <2>. QED BY <1>6, Zenon
<1>. HIDE DEF it0
<1>8. it0[{}] = base
  <2>1. {} \in SUBSET (1 .. size) OBVIOUS
  <2>. QED BY <1>7, <2>1, Zenon
<1>9. ASSUME NEW t \in SUBSET (1 .. size), t # {}, it0[t \ {Max(t)}] \in W
      PROVE  it0[t] = F[<<it0[t \ {Max(t)}], Max(t)>>]
  <2>1. it0[t] = it0[t \ {Max(t)}] \o Reply(n, wanted[Max(t)], hashContinue)
    BY <1>7, <1>9, Zenon
  <2>. QED BY <1>5, <1>9, <2>1, Zenon
<1>. HIDE DEF Follows
<1>10. PICK v \in [0 .. size -> W] : Walk(v, it0, base, F, size)
  <2>1. Unfolds(it0, W, base, F, size)
    <3>. HIDE DEF size
    <3>. QED BY <1>8, <1>9 DEF Unfolds
  <2>. HIDE DEF size
  <2>. QED BY <1>0, <1>2, <1>3, <2>1, FoldWalk
<1>11. ASSUME NEW i \in 1 .. size PROVE v[i] = v[i - 1] \o Reply(n, wanted[i], hashContinue)
  <2>1. i - 1 \in 0 .. size /\ i \in 1 .. size BY <1>0
  <2>2. v[i - 1] \in W BY <2>1
  <2>3. <<v[i - 1], i>> \in W \X (1 .. size) BY <2>1, <2>2
  <2>4. F[<<v[i - 1], i>>] = v[i - 1] \o Reply(n, wanted[i], hashContinue)
    BY <2>3, Zenon DEF F
  <2>. QED BY <1>10, <2>1, <2>4 DEF Walk
<1>12. v \in [0 .. Len(wanted) -> Seq(Messages)] BY DEF W
<1>13. v[0] = <<>> /\ v[Len(wanted)] = ReplyAll(n, wanted, hashContinue)
  BY <1>1, <1>10 DEF base, Walk
<1>14. \A i \in 1 .. Len(wanted) : v[i] = v[i - 1] \o Reply(n, wanted[i], hashContinue) BY <1>11
<1>. HIDE DEF size
<1>. QED BY <1>12, <1>13, <1>14

\* Blocks that are heard of.
LEMMA HearWalk ==
    ASSUME NEW n \in Nodes, pindexBest[n] \in Blocks,
           \A b \in mapOrphanBlocks[n] : GetOrphanRoot(mapOrphanBlocks[n], b) \in Blocks,
           NEW c \in CNodes, NEW inv \in Seq(Blocks)
    PROVE  \E v \in [0 .. Len(inv) -> CNodes \X Seq(Messages)] :
              /\ v[0] = <<c, <<>>>> /\ v[Len(inv)] = HearAll(n, c, inv)
              /\ \A i \in 1 .. Len(inv) : v[i] = HearOf(n, v[i - 1], inv[i], i = Len(inv))
<1>. DEFINE size == Len(inv)
            W == CNodes \X Seq(Messages)
            base == <<c, <<>>>>
            F == [wi \in W \X (1 .. size) |-> HearOf(n, wi[1], inv[wi[2]], wi[2] = Len(inv))]
            Follows(it) ==
              it = [t \in SUBSET (1 .. size) |->
                      IF t = {} THEN base
                      ELSE LET x == Max(t)
                           IN  HearOf(n, it[t \ {x}], inv[[k \in DOMAIN inv |-> k][x]], [k \in DOMAIN inv |-> k][x] = Len(inv))]
            it0 == CHOOSE it : Follows(it)
<1>0. size \in Nat /\ DOMAIN inv = 1 .. size BY LenProperties
<1>1. HearAll(n, c, inv) = it0[1 .. size]
  BY <1>0, Zenon DEF HearAll, FoldLeftDomain, FoldLeft, MapThenFoldSet
<1>2. base \in W BY EmptyAndSingle
<1>3. F \in [W \X (1 .. size) -> W]
  <2>1. ASSUME NEW wi \in W \X (1 .. size)
        PROVE  HearOf(n, wi[1], inv[wi[2]], wi[2] = Len(inv)) \in W
    <3>. DEFINE w == wi[1]
                i == wi[2]
    <3>1. w \in W /\ i \in 1 .. Len(inv) BY Zenon
    <3>2. inv[i] \in Blocks BY <3>1, ElementOfSeq
    <3>. HIDE DEF w, i
    <3>3. HearOf(n, w, inv[i], i = Len(inv)) \in W
      BY <3>1, <3>2, HearOfIs DEF Heard
    <3>. QED BY <3>3 DEF w, i
  <2>. HIDE DEF W
  <2>. QED BY <2>1
<1>. HIDE DEF W, base, F
<1>4. PICK g \in [SUBSET (1 .. size) -> W] : Folds(g, base, F, size) BY <1>0, <1>2, <1>3, FoldExists
<1>5. ASSUME NEW it, NEW t \in SUBSET (1 .. size), t # {}, it[t \ {Max(t)}] \in W
      PROVE  F[<<it[t \ {Max(t)}], Max(t)>>] =
                HearOf(n, it[t \ {Max(t)}], inv[[k \in DOMAIN inv |-> k][Max(t)]], [k \in DOMAIN inv |-> k][Max(t)] = Len(inv))
  <2>1. Max(t) \in 1 .. size BY <1>0, <1>5, MaxInInterval
  <2>2. [k \in DOMAIN inv |-> k][Max(t)] = Max(t) BY <1>0, <2>1
  <2>. QED BY <1>5, <2>1, <2>2 DEF F
<1>6. Follows(g)
  <2>1. ASSUME NEW t \in SUBSET (1 .. size)
        PROVE  g[t] = IF t = {} THEN base
                      ELSE LET x == Max(t)
                           IN  HearOf(n, g[t \ {x}], inv[[k \in DOMAIN inv |-> k][x]], [k \in DOMAIN inv |-> k][x] = Len(inv))
    <3>1. g[t] = IF t = {} THEN base ELSE F[<<g[t \ {Max(t)}], Max(t)>>] BY <1>4, Zenon DEF Folds
    <3>2. t \ {Max(t)} \in SUBSET (1 .. size) OBVIOUS
    <3>3. g[t \ {Max(t)}] \in W BY <1>4, <3>2
    <3>. QED BY <1>5, <3>1, <3>3, Zenon
  <2>2. g = [t \in SUBSET (1 .. size) |-> g[t]] OBVIOUS
  <2>. QED BY <2>1, <2>2, Zenon
<1>7. Follows(it0)
  <2>. HIDE DEF Follows
  <2>. QED BY <1>6, Zenon
<1>. HIDE DEF it0
<1>8. it0[{}] = base
  <2>1. {} \in SUBSET (1 .. size) OBVIOUS
  <2>. QED BY <1>7, <2>1, Zenon
<1>9. ASSUME NEW t \in SUBSET (1 .. size), t # {}, it0[t \ {Max(t)}] \in W
      PROVE  it0[t] = F[<<it0[t \ {Max(t)}], Max(t)>>]
  <2>1. it0[t] = HearOf(n, it0[t \ {Max(t)}], inv[[k \in DOMAIN inv |-> k][Max(t)]], [k \in DOMAIN inv |-> k][Max(t)] = Len(inv))
    BY <1>7, <1>9, Zenon
  <2>. QED BY <1>5, <1>9, <2>1, Zenon
<1>. HIDE DEF Follows
<1>10. PICK v \in [0 .. size -> W] : Walk(v, it0, base, F, size)
  <2>1. Unfolds(it0, W, base, F, size)
    <3>. HIDE DEF size
    <3>. QED BY <1>8, <1>9 DEF Unfolds
  <2>. HIDE DEF size
  <2>. QED BY <1>0, <1>2, <1>3, <2>1, FoldWalk
<1>11. ASSUME NEW i \in 1 .. size PROVE v[i] = HearOf(n, v[i - 1], inv[i], i = Len(inv))
  <2>1. i - 1 \in 0 .. size /\ i \in 1 .. size BY <1>0
  <2>2. v[i - 1] \in W BY <2>1
  <2>3. <<v[i - 1], i>> \in W \X (1 .. size) BY <2>1, <2>2
  <2>4. F[<<v[i - 1], i>>] = HearOf(n, v[i - 1], inv[i], i = Len(inv))
    BY <2>3, Zenon DEF F
  <2>. QED BY <1>10, <2>1, <2>4 DEF Walk
<1>12. v \in [0 .. Len(inv) -> CNodes \X Seq(Messages)] BY DEF W
<1>13. v[0] = <<c, <<>>>> /\ v[Len(inv)] = HearAll(n, c, inv)
  BY <1>1, <1>10 DEF base, Walk
<1>14. \A i \in 1 .. Len(inv) : v[i] = HearOf(n, v[i - 1], inv[i], i = Len(inv)) BY <1>11
<1>. HIDE DEF size
<1>. QED BY <1>12, <1>13, <1>14

-----------------------------------------------------------------------------
(***************************************************************************)
(* What the walks come to.                                                 *)
(***************************************************************************)

\* The filter keeps the members of S and no others.
LEMMA AmongIs ==
    ASSUME NEW X, NEW S, NEW s \in Seq(X)
    PROVE  Among(s, S) \in Seq(X) /\ ToSet(Among(s, S)) = ToSet(s) \intersect S
<1>0. Len(s) \in Nat BY LenProperties
<1>1. PICK v \in [0 .. Len(s) -> Seq(X)] :
         /\ v[0] = <<>> /\ v[Len(s)] = Among(s, S)
         /\ \A i \in 1 .. Len(s) : v[i] = IfIn(v[i - 1], s[i], S)
  BY AmongWalk
<1>. DEFINE T == {i \in 0 .. Len(s) : ToSet(v[i]) = {s[j] : j \in 1 .. i} \intersect S}
<1>2. 0 \in T
  <2>1. ToSet(v[0]) = {} BY <1>1, EmptyAndSingle
  <2>. QED BY <1>0, <2>1
<1>3. ASSUME NEW i \in 0 .. Len(s) - 1, i \in T PROVE i + 1 \in T
  <2>1. i + 1 \in 1 .. Len(s) /\ (i + 1) - 1 = i /\ i \in 0 .. Len(s) /\ i + 1 \in 0 .. Len(s) BY <1>0
  <2>2. s[i + 1] \in X BY <2>1, ElementOfSeq
  <2>3. v[i] \in Seq(X) BY <1>1, <2>1
  <2>4. {s[j] : j \in 1 .. i + 1} = {s[j] : j \in 1 .. i} \union {s[i + 1]}
    <3>1. \A j : j \in 1 .. i + 1 <=> j \in 1 .. i \/ j = i + 1 BY <1>0, <2>1
    <3>. QED BY <3>1
  <2>5. CASE s[i + 1] \in S
    <3>1. v[i + 1] = Append(v[i], s[i + 1]) BY <1>1, <2>1, <2>5 DEF IfIn
    <3>2. ToSet(v[i + 1]) = ToSet(v[i]) \union {s[i + 1]} BY <2>2, <2>3, <3>1, InAppend
    <3>. QED BY <1>3, <2>1, <2>4, <2>5, <3>2
  <2>6. CASE s[i + 1] \notin S
    <3>1. v[i + 1] = v[i] BY <1>1, <2>1, <2>6 DEF IfIn
    <3>. QED BY <1>3, <2>1, <2>4, <2>6, <3>1
  <2>. QED BY <2>5, <2>6
<1>4. \A i \in 0 .. Len(s) : i \in T
  <2>. HIDE DEF T
  <2>. QED BY <1>0, <1>2, <1>3, UpTo
<1>5. Len(s) \in T /\ Len(s) \in 0 .. Len(s)
  <2>1. Len(s) \in 0 .. Len(s) BY <1>0
  <2>. HIDE DEF T
  <2>. QED BY <1>4, <2>1
<1>6. ToSet(s) = {s[j] : j \in 1 .. Len(s)} BY InSequence
<1>7. ToSet(v[Len(s)]) = ToSet(s) \intersect S BY <1>5, <1>6
<1>. QED BY <1>1, <1>5, <1>7

\* Only what waits to be announced is changed, by blocks of s.
LEMMA PushAllIs ==
    ASSUME NEW c \in CNodes, NEW s \in Seq(Blocks)
    PROVE  /\ PushAllInventory(c, s) \in CNodes
           /\ PushAllInventory(c, s).setInventoryKnown = c.setInventoryKnown
           /\ PushAllInventory(c, s).mapAskFor = c.mapAskFor
           /\ ToSet(PushAllInventory(c, s).vInventoryToSend) \subseteq
                 ToSet(c.vInventoryToSend) \union ToSet(s)
<1>0. Len(s) \in Nat BY LenProperties
<1>1. PICK v \in [0 .. Len(s) -> CNodes] :
         /\ v[0] = c /\ v[Len(s)] = PushAllInventory(c, s)
         /\ \A i \in 1 .. Len(s) : v[i] = PushInventory(v[i - 1], s[i])
  BY PushWalk
<1>. DEFINE T == {i \in 0 .. Len(s) :
              /\ v[i].setInventoryKnown = c.setInventoryKnown
              /\ v[i].mapAskFor = c.mapAskFor
              /\ ToSet(v[i].vInventoryToSend) \subseteq ToSet(c.vInventoryToSend) \union ToSet(s)}
<1>2. 0 \in T BY <1>0, <1>1
<1>3. ASSUME NEW i \in 0 .. Len(s) - 1, i \in T PROVE i + 1 \in T
  <2>1. i + 1 \in 1 .. Len(s) /\ (i + 1) - 1 = i /\ i \in 0 .. Len(s) /\ i + 1 \in 0 .. Len(s) BY <1>0
  <2>2. s[i + 1] \in Blocks /\ s[i + 1] \in ToSet(s) BY <2>1, ElementOfSeq, InSequence
  <2>3. v[i] \in CNodes BY <1>1, <2>1
  <2>4. v[i + 1] = PushInventory(v[i], s[i + 1]) BY <1>1, <2>1
  <2>5. /\ v[i + 1].setInventoryKnown = v[i].setInventoryKnown
        /\ v[i + 1].mapAskFor = v[i].mapAskFor
        /\ ToSet(v[i + 1].vInventoryToSend) \subseteq ToSet(v[i].vInventoryToSend) \union {s[i + 1]}
    <3>. DEFINE b == s[i + 1]
                w == v[i]
    <3>. HIDE DEF b, w
    <3>1. b \in Blocks /\ w \in CNodes /\ v[i + 1] = PushInventory(w, b) BY <2>2, <2>3, <2>4 DEF b, w
    <3>2. /\ PushInventory(w, b).setInventoryKnown = w.setInventoryKnown
          /\ PushInventory(w, b).mapAskFor = w.mapAskFor
          /\ ToSet(PushInventory(w, b).vInventoryToSend) \subseteq ToSet(w.vInventoryToSend) \union {b}
      BY <3>1, PushInventoryKeeps
    <3>. QED BY <3>1, <3>2 DEF b, w
  <2>. QED BY <1>3, <2>1, <2>2, <2>5
<1>4. \A i \in 0 .. Len(s) : i \in T
  <2>. HIDE DEF T
  <2>. QED BY <1>0, <1>2, <1>3, UpTo
<1>5. Len(s) \in T /\ Len(s) \in 0 .. Len(s)
  <2>1. Len(s) \in 0 .. Len(s) BY <1>0
  <2>. HIDE DEF T
  <2>. QED BY <1>4, <2>1
<1>. QED BY <1>1, <1>5

\* After an announcement each of its blocks is known, and here or to be asked for.
LEMMA HearAllIs ==
    ASSUME NEW n \in Nodes, pindexBest[n] \in Blocks,
           \A b \in mapOrphanBlocks[n] : GetOrphanRoot(mapOrphanBlocks[n], b) \in Blocks,
           NEW c \in CNodes, NEW inv \in Seq(Blocks)
    PROVE  Heard(n, <<c, <<>>>>, ToSet(inv), HearAll(n, c, inv))
<1>0. Len(inv) \in Nat BY LenProperties
<1>1. PICK v \in [0 .. Len(inv) -> CNodes \X Seq(Messages)] :
         /\ v[0] = <<c, <<>>>> /\ v[Len(inv)] = HearAll(n, c, inv)
         /\ \A i \in 1 .. Len(inv) : v[i] = HearOf(n, v[i - 1], inv[i], i = Len(inv))
  BY HearWalk
<1>8. \A i \in 0 .. Len(inv) - 1 :
         i + 1 \in 1 .. Len(inv) /\ (i + 1) - 1 = i /\ i \in 0 .. Len(inv) /\ i + 1 \in 0 .. Len(inv)
  BY <1>0
<1>. DEFINE B(i) == {inv[j] : j \in 1 .. i}
            T == {i \in 0 .. Len(inv) : Heard(n, v[0], B(i), v[i])}
<1>2. 0 \in T
  <2>1. v[0] \in CNodes \X Seq(Messages) BY <1>0
  <2>2. 0 \in 0 .. Len(inv) /\ B(0) = {} BY <1>0
  <2>3. Heard(n, v[0], {}, v[0]) BY <2>1 DEF Heard
  <2>. QED BY <2>2, <2>3
<1>3. ASSUME NEW i \in 0 .. Len(inv) - 1, i \in T PROVE i + 1 \in T
  <2>1. i + 1 \in 1 .. Len(inv) /\ (i + 1) - 1 = i /\ i \in 0 .. Len(inv) /\ i + 1 \in 0 .. Len(inv) BY <1>8
  <2>. DEFINE b == inv[i + 1]
              w == v[i]
              isLast == (i + 1 = Len(inv))
  <2>2. b \in Blocks BY <2>1, ElementOfSeq
  <2>3. w \in CNodes \X Seq(Messages) BY <1>1, <2>1
  <2>4. v[i + 1] = HearOf(n, w, b, isLast) BY <1>1, <2>1
  <2>5. B(i + 1) = B(i) \union {b}
    <3>1. \A j : j \in 1 .. i + 1 <=> j \in 1 .. i \/ j = i + 1 BY <2>1
    <3>. QED BY <3>1
  <2>6. Heard(n, v[0], B(i), w) BY <1>3
  <2>. HIDE DEF b, w, isLast, B
  <2>7. Heard(n, w, {b}, HearOf(n, w, b, isLast)) BY <2>2, <2>3, HearOfIs
  <2>8. Heard(n, v[0], B(i) \union {b}, v[i + 1]) BY <2>4, <2>6, <2>7 DEF Heard
  <2>. QED BY <2>1, <2>5, <2>8
<1>4. \A i \in 0 .. Len(inv) : i \in T
  <2>. HIDE DEF T
  <2>. QED BY <1>0, <1>2, <1>3, UpTo
<1>5. Len(inv) \in T
  <2>1. Len(inv) \in 0 .. Len(inv) BY <1>0
  <2>. HIDE DEF T
  <2>. QED BY <1>4, <2>1
<1>6. B(Len(inv)) = ToSet(inv) BY InSequence
<1>. QED BY <1>1, <1>5, <1>6

\* The reply brings what was asked for, and announces one block at most.
LEMMA ReplyAllIs ==
    ASSUME NEW n \in Nodes, LastProofOfWork(n) \in Blocks, NEW hashContinue,
           NEW wanted \in Seq(Blocks)
    PROVE  /\ ReplyAll(n, wanted, hashContinue) \in Seq(Messages)
           /\ \A b \in ToSet(wanted) :
                 [type |-> "block", block |-> b] \in ToSet(ReplyAll(n, wanted, hashContinue))
           /\ ToSet(ReplyAll(n, wanted, hashContinue)) \subseteq
                 {[type |-> "block", block |-> b] : b \in ToSet(wanted)}
                 \union {[type |-> "inv", inv |-> <<LastProofOfWork(n)>>]}
<1>0. Len(wanted) \in Nat BY LenProperties
<1>1. PICK v \in [0 .. Len(wanted) -> Seq(Messages)] :
         /\ v[0] = <<>> /\ v[Len(wanted)] = ReplyAll(n, wanted, hashContinue)
         /\ \A i \in 1 .. Len(wanted) : v[i] = v[i - 1] \o Reply(n, wanted[i], hashContinue)
  BY ReplyWalk
<1>. DEFINE announcement == [type |-> "inv", inv |-> <<LastProofOfWork(n)>>]
            block(b) == [type |-> "block", block |-> b]
            T == {i \in 0 .. Len(wanted) :
              /\ \A j \in 1 .. i : block(wanted[j]) \in ToSet(v[i])
              /\ ToSet(v[i]) \subseteq {block(b) : b \in ToSet(wanted)} \union {announcement}}
<1>2. 0 \in T
  <2>1. ToSet(v[0]) = {} BY <1>1, EmptyAndSingle
  <2>. QED BY <1>0, <2>1
<1>3. ASSUME NEW i \in 0 .. Len(wanted) - 1, i \in T PROVE i + 1 \in T
  <2>1. i + 1 \in 1 .. Len(wanted) /\ (i + 1) - 1 = i /\ i \in 0 .. Len(wanted) /\ i + 1 \in 0 .. Len(wanted) BY <1>0
  <2>. DEFINE b == wanted[i + 1]
              r == Reply(n, b, hashContinue)
  <2>2. b \in Blocks /\ b \in ToSet(wanted) BY <2>1, ElementOfSeq, InSequence
  <2>3. v[i] \in Seq(Messages) BY <1>1, <2>1
  <2>4. v[i + 1] = v[i] \o r BY <1>1, <2>1
  <2>. HIDE DEF b
  <2>5. r \in Seq(Messages) /\ block(b) \in ToSet(r) /\ ToSet(r) \subseteq {block(b), announcement}
    BY <2>2, ReplyIs
  <2>. HIDE DEF r
  <2>6. ToSet(v[i + 1]) = ToSet(v[i]) \union ToSet(r) BY <2>3, <2>4, <2>5, InConcat
  <2>. HIDE DEF block, announcement
  <2>7. ASSUME NEW j \in 1 .. i + 1 PROVE block(wanted[j]) \in ToSet(v[i + 1])
    <3>1. CASE j = i + 1 BY <2>5, <2>6, <3>1 DEF b
    <3>2. CASE j # i + 1
      <4>1. j \in 1 .. i BY <1>0, <2>1, <3>2
      <4>. QED BY <1>3, <2>6, <4>1
    <3>. QED BY <3>1, <3>2
  <2>. QED BY <1>3, <2>1, <2>2, <2>5, <2>6, <2>7
<1>4. \A i \in 0 .. Len(wanted) : i \in T
  <2>. HIDE DEF T
  <2>. QED BY <1>0, <1>2, <1>3, UpTo
<1>5. Len(wanted) \in T /\ Len(wanted) \in 0 .. Len(wanted)
  <2>1. Len(wanted) \in 0 .. Len(wanted) BY <1>0
  <2>. HIDE DEF T
  <2>. QED BY <1>4, <2>1
<1>6. ASSUME NEW b \in ToSet(wanted) PROVE block(b) \in ToSet(v[Len(wanted)])
  <2>1. PICK j \in 1 .. Len(wanted) : b = wanted[j] BY OnPlace
  <2>. QED BY <1>5, <2>1
<1>. QED BY <1>1, <1>5, <1>6

\* The best block after the blocks of seq has no less trust than any of them,
\* and only blocks of seq are relayed.
LEMMA AcceptIs ==
    ASSUME NEW best \in Blocks, NEW seq \in Seq(Blocks)
    PROVE  /\ AcceptEach(best, seq).best \in {best} \union ToSet(seq)
           /\ AcceptEach(best, seq).relay \in Seq(Blocks)
           /\ ToSet(AcceptEach(best, seq).relay) \subseteq ToSet(seq)
           /\ \A b \in {best} \union ToSet(seq) : bnChainTrust[b] <= bnChainTrust[AcceptEach(best, seq).best]
<1>0. Len(seq) \in Nat BY LenProperties
<1>1. PICK v \in [0 .. Len(seq) -> [best : Blocks, relay : Seq(Blocks)]] :
         /\ v[0] = [best |-> best, relay |-> <<>>] /\ v[Len(seq)] = AcceptEach(best, seq)
         /\ \A i \in 1 .. Len(seq) :
               v[i] = AcceptOne(v[i - 1], seq[i])
  BY AcceptWalk
<1>. DEFINE T == {i \in 0 .. Len(seq) :
              /\ v[i].best \in {best} \union ToSet(seq)
              /\ ToSet(v[i].relay) \subseteq ToSet(seq)
              /\ bnChainTrust[best] <= bnChainTrust[v[i].best]
              /\ \A j \in 1 .. i : bnChainTrust[seq[j]] <= bnChainTrust[v[i].best]}
<1>2. 0 \in T
  <2>1. ToSet(v[0].relay) = {} BY <1>1, EmptyAndSingle
  <2>. QED BY <1>0, <1>1, <2>1, TreeAssumption
<1>3. ASSUME NEW i \in 0 .. Len(seq) - 1, i \in T PROVE i + 1 \in T
  <2>1. i + 1 \in 1 .. Len(seq) /\ (i + 1) - 1 = i /\ i \in 0 .. Len(seq) /\ i + 1 \in 0 .. Len(seq) BY <1>0
  <2>2. seq[i + 1] \in Blocks /\ seq[i + 1] \in ToSet(seq) BY <2>1, ElementOfSeq, InSequence
  <2>3. v[i].best \in Blocks /\ v[i].relay \in Seq(Blocks) BY <1>1, <2>1
  <2>4. bnChainTrust[seq[i + 1]] \in Nat /\ bnChainTrust[v[i].best] \in Nat /\ bnChainTrust[best] \in Nat
    BY <2>2, <2>3, TreeAssumption
  <2>5. \A j \in 1 .. i + 1 : j = i + 1 \/ j \in 1 .. i BY <1>0, <2>1
  <2>6. \A j \in 1 .. i : seq[j] \in Blocks /\ bnChainTrust[seq[j]] \in Nat
    <3>1. \A j \in 1 .. i : j \in 1 .. Len(seq) BY <1>0, <2>1
    <3>2. \A j \in 1 .. i : seq[j] \in Blocks BY <3>1, ElementOfSeq
    <3>. QED BY <3>2, TreeAssumption
  <2>7. CASE bnChainTrust[seq[i + 1]] > bnChainTrust[v[i].best]
    <3>1. v[i + 1] = [best |-> seq[i + 1], relay |-> Append(v[i].relay, seq[i + 1])] BY <1>1, <2>1, <2>7 DEF AcceptOne
    <3>2. ToSet(Append(v[i].relay, seq[i + 1])) = ToSet(v[i].relay) \union {seq[i + 1]} BY <2>2, <2>3, InAppend
    <3>3. v[i + 1].best = seq[i + 1] /\ ToSet(v[i + 1].relay) \subseteq ToSet(seq) BY <1>3, <2>2, <3>1, <3>2
    <3>4. bnChainTrust[best] <= bnChainTrust[v[i + 1].best] BY <1>3, <2>4, <2>7, <3>3
    <3>5. ASSUME NEW j \in 1 .. i + 1 PROVE bnChainTrust[seq[j]] <= bnChainTrust[v[i + 1].best]
      <4>1. CASE j = i + 1 BY <2>4, <3>3, <4>1
      <4>2. CASE j \in 1 .. i BY <1>3, <2>4, <2>6, <2>7, <3>3, <4>2
      <4>. QED BY <2>5, <4>1, <4>2
    <3>. QED BY <2>1, <2>2, <3>3, <3>4, <3>5
  <2>8. CASE ~(bnChainTrust[seq[i + 1]] > bnChainTrust[v[i].best])
    <3>1. v[i + 1] = v[i] BY <1>1, <2>1, <2>8 DEF AcceptOne
    <3>2. bnChainTrust[seq[i + 1]] <= bnChainTrust[v[i].best] BY <2>4, <2>8
    <3>. QED BY <1>3, <2>1, <2>5, <3>1, <3>2
  <2>. QED BY <2>7, <2>8
<1>4. \A i \in 0 .. Len(seq) : i \in T
  <2>. HIDE DEF T
  <2>. QED BY <1>0, <1>2, <1>3, UpTo
<1>5. Len(seq) \in T /\ Len(seq) \in 0 .. Len(seq)
  <2>1. Len(seq) \in 0 .. Len(seq) BY <1>0
  <2>. HIDE DEF T
  <2>. QED BY <1>4, <2>1
<1>6. ASSUME NEW b \in ToSet(seq) PROVE bnChainTrust[b] <= bnChainTrust[v[Len(seq)].best]
  <2>1. PICK j \in 1 .. Len(seq) : b = seq[j] BY OnPlace
  <2>. QED BY <1>5, <2>1
<1>7. v[Len(seq)].relay \in Seq(Blocks) BY <1>1, <1>5
<1>. QED BY <1>1, <1>5, <1>6, <1>7

-----------------------------------------------------------------------------
(***************************************************************************)
(* Branches, and the orphans that hang on a block.                         *)
(***************************************************************************)

\* A part of a branch that is not empty has a highest block.
LEMMA Highest ==
    ASSUME NEW b \in Blocks, NEW S \in SUBSET Branch[b], S # {}
    PROVE  \E c \in S : \A d \in S : nHeight[d] <= nHeight[c]
<1>. DEFINE T == {nHeight[b] - nHeight[c] : c \in S}
<1>1. \A c \in S : nHeight[c] \in Nat /\ nHeight[c] <= nHeight[b]
  BY LowerOnBranch, OwnBranch, TreeAssumption
<1>2. T \subseteq Nat /\ T # {} BY <1>1, TreeAssumption
<1>3. PICK m \in T : \A k \in T : m <= k
  <2>. HIDE DEF T
  <2>. QED BY <1>2, LeastNatural
<1>4. PICK c \in S : m = nHeight[b] - nHeight[c] BY <1>3
<1>5. ASSUME NEW d \in S PROVE nHeight[d] <= nHeight[c]
  <2>1. m <= nHeight[b] - nHeight[d] BY <1>3
  <2>. QED BY <1>1, <1>4, <2>1, TreeAssumption
<1>. QED BY <1>5

\* A branch has a block of each height down to that of any of its blocks.
LEMMA OfEachHeight ==
    ASSUME NEW b \in Blocks, NEW c \in Branch[b], NEW h \in Int,
           nHeight[c] <= h, h <= nHeight[b]
    PROVE  \E d \in Branch[b] : nHeight[d] = h
<1>. DEFINE S == {d \in Branch[b] : h <= nHeight[d]}
<1>1. S \in SUBSET Blocks /\ b \in S BY OwnBranch
<1>2. PICK d \in S : \A e \in S : nHeight[d] <= nHeight[e]
  <2>. HIDE DEF S
  <2>. QED BY <1>1, LeastHeight
<1>3. SUFFICES ASSUME nHeight[d] # h PROVE FALSE BY <1>2
<1>4. c \in Blocks /\ d \in Blocks /\ Genesis \in Branch[c] BY <1>1, OwnBranch, GenesisOnBranch
<1>5. nHeight[c] \in Nat /\ nHeight[d] \in Nat /\ nHeight[Genesis] \in Nat BY <1>4, TreeAssumption
<1>6. d # Genesis
  <2>1. nHeight[Genesis] <= nHeight[c] BY <1>4, <1>5, LowerOnBranch
  <2>. QED BY <1>2, <1>3, <1>5, <2>1
<1>7. pprev[d] \in Blocks /\ pprev[d] \in Branch[d] /\ nHeight[d] = nHeight[pprev[d]] + 1
  BY <1>4, <1>6, BranchStep, TrustAssumption
<1>8. pprev[d] \in Branch[b] /\ nHeight[pprev[d]] \in Nat BY <1>2, <1>7, BranchAssumption, TreeAssumption
<1>9. pprev[d] \in S BY <1>2, <1>3, <1>5, <1>7, <1>8
<1>. QED BY <1>2, <1>5, <1>7, <1>8, <1>9

\* The orphan that the orphans below b begin with, and the block it waits for.
LEMMA OrphanRootIs ==
    ASSUME NEW orphans \in SUBSET Blocks, Genesis \notin orphans, NEW b \in Blocks \ {Genesis}
    PROVE  /\ GetOrphanRoot(orphans, b) \in Blocks
           /\ WantedByOrphan(orphans, b) \in Branch[b]
<1>. DEFINE S == {r \in Branch[b] \intersect (orphans \union {b}) :
                    \A c \in Branch[b] \ Branch[r] : c \in orphans \union {b}}
<1>1. S \in SUBSET Blocks /\ b \in S BY OwnBranch
<1>2. PICK r \in S : \A s \in S : nHeight[r] <= nHeight[s]
  <2>. HIDE DEF S
  <2>. QED BY <1>1, LeastHeight
<1>3. r \in Blocks \ {Genesis} /\ r \in Branch[b] BY <1>1, <1>2
<1>4. /\ pprev[r] \in Blocks /\ Branch[r] = {r} \union Branch[pprev[r]]
      /\ pprev[r] \in Branch[r] /\ nHeight[r] = nHeight[pprev[r]] + 1
      /\ nHeight[pprev[r]] \in Nat
  BY <1>3, BranchStep, TrustAssumption, TreeAssumption
<1>5. pprev[r] \in Branch[b] BY <1>3, <1>4, BranchAssumption
<1>6. pprev[r] \notin orphans
  <2>1. SUFFICES ASSUME pprev[r] \in orphans PROVE FALSE OBVIOUS
  <2>2. \A c \in Branch[b] \ Branch[pprev[r]] : c = r \/ c \in Branch[b] \ Branch[r] BY <1>4
  <2>3. pprev[r] \in S BY <1>2, <1>5, <2>1, <2>2
  <2>4. nHeight[r] <= nHeight[pprev[r]] BY <1>2, <2>3
  <2>. QED BY <1>4, <2>4
<1>. DEFINE root == GetOrphanRoot(orphans, b)
<1>7. /\ root \in Branch[b] \intersect (orphans \union {b})
      /\ pprev[root] \notin orphans
  BY <1>2, <1>6 DEF GetOrphanRoot
<1>8. root \in Blocks \ {Genesis} BY <1>7, OwnBranch
<1>9. pprev[root] \in Branch[root]
  <2>. HIDE DEF root
  <2>. QED BY <1>8, BranchStep
<1>10. Branch[root] \subseteq Branch[b]
  <2>. HIDE DEF root
  <2>. QED BY <1>7, BranchAssumption
<1>. QED BY <1>8, <1>9, <1>10 DEF WantedByOrphan

LEMMA LastProofOfWorkIs ==
    ASSUME NEW n \in Nodes, pindexBest[n] \in Blocks
    PROVE  LastProofOfWork(n) \in Branch[pindexBest[n]] /\ LastProofOfWork(n) \in Blocks
<1>. DEFINE S == Branch[pindexBest[n]] \intersect ProofOfWork
<1>1. Genesis \in S BY GenesisOnBranch, SyncAssumption
<1>2. \E b \in S : \A c \in S : nHeight[c] <= nHeight[b]
  <2>1. S \in SUBSET Branch[pindexBest[n]] /\ S # {} BY <1>1
  <2>. HIDE DEF S
  <2>. QED BY <2>1, Highest
<1>3. LastProofOfWork(n) \in S BY <1>2 DEF LastProofOfWork
<1>. QED BY <1>3, OwnBranch

\* What is announced in reply to getblocks lies on the main chain.
LEMMA AboveIs ==
    ASSUME NEW n \in Nodes, pindexBest[n] \in Blocks, NEW begin \in Blocks \union {Nil},
           Genesis \in mapBlockIndex[n]
    PROVE  Above(n, begin) \in Seq(Branch[pindexBest[n]])
<1>. DEFINE best == pindexBest[n]
            common == IF begin = Nil THEN {Genesis}
                      ELSE mapBlockIndex[n] \intersect Branch[begin] \intersect Branch[pindexBest[n]]
            start == Max({nHeight[b] : b \in common})
<1>1. common \in SUBSET Branch[best] /\ common # {}
  <2>1. Genesis \in Branch[best] BY GenesisOnBranch
  <2>2. begin \in Blocks => Genesis \in Branch[begin] BY GenesisOnBranch
  <2>. QED BY <2>1, <2>2
<1>2. PICK c \in common : \A d \in common : nHeight[d] <= nHeight[c]
  <2>. HIDE DEF common
  <2>. QED BY <1>1, Highest
<1>3. start = nHeight[c]
  <2>. DEFINE H == {nHeight[b] : b \in common}
  <2>1. H \in SUBSET Int
    <3>1. \A b \in common : b \in Blocks BY <1>1, OwnBranch
    <3>. HIDE DEF common
    <3>. QED BY <3>1, TreeAssumption
  <2>2. nHeight[c] \in H /\ \A y \in H : y <= nHeight[c] BY <1>2
  <2>. HIDE DEF H
  <2>3. Max(H) = nHeight[c] BY <2>1, <2>2, MaxIs
  <2>. QED BY <2>3 DEF H
<1>4. c \in Branch[best] /\ nHeight[c] \in Nat /\ nHeight[best] \in Nat
  BY <1>1, <1>2, OwnBranch, TreeAssumption
<1>. HIDE DEF common
<1>5. ASSUME NEW i \in 1 .. nHeight[best] - nHeight[c]
      PROVE  (CHOOSE b \in Branch[best] : nHeight[b] = nHeight[c] + i) \in Branch[best]
  <2>1. \E b \in Branch[best] : nHeight[b] = nHeight[c] + i
    <3>. DEFINE h == nHeight[c] + i
    <3>1. h \in Int /\ nHeight[c] <= h /\ h <= nHeight[best] BY <1>4
    <3>. HIDE DEF h, best
    <3>2. best \in Blocks BY DEF best
    <3>3. \E b \in Branch[best] : nHeight[b] = h BY <1>4, <3>1, <3>2, OfEachHeight
    <3>. QED BY <3>3 DEF h
  <2>. QED BY <2>1
<1>6. Above(n, begin) = [i \in 1 .. nHeight[best] - nHeight[c] |->
                            CHOOSE b \in Branch[best] : nHeight[b] = nHeight[c] + i]
  <2>1. Above(n, begin) = [i \in 1 .. Height(n) - start |->
                              CHOOSE b \in Branch[pindexBest[n]] : nHeight[b] = start + i]
    BY Zenon DEF Above, common
  <2>2. Height(n) = nHeight[best] BY DEF Height
  <2>. HIDE DEF start
  <2>. QED BY <1>3, <2>1, <2>2, Zenon
<1>7. nHeight[best] - nHeight[c] \in Nat
  BY <1>4, LowerOnBranch
<1>. DEFINE size == nHeight[best] - nHeight[c]
<1>8. Above(n, begin) \in [1 .. size -> Branch[best]] BY <1>5, <1>6
<1>. HIDE DEF size
<1>. QED BY <1>7, <1>8, SeqDef DEF size

\* What becomes of the index and the orphans when b is accepted, with all that
\* waited for it.
LEMMA DependIs ==
    ASSUME NEW index \in SUBSET Blocks, \A c \in index : Branch[c] \subseteq index,
           NEW orphans \in SUBSET Blocks, orphans \intersect index = {},
           \A c \in orphans : pprev[c] \notin index, Genesis \in index,
           NEW b \in Blocks \ index, pprev[b] \in index
    PROVE  LET accepted == {b} \union Depend(orphans, b)
           IN  /\ accepted \in SUBSET Blocks
               /\ \A c \in index \union accepted : Branch[c] \subseteq index \union accepted
               /\ \A c \in orphans \ accepted : pprev[c] \notin index \union accepted
<1>. DEFINE D == Depend(orphans, b)
            accepted == {b} \union D
<1>1. /\ b \in Blocks \ {Genesis} /\ Branch[b] = {b} \union Branch[pprev[b]]
      /\ b \in Branch[b]
  BY BranchStep, OwnBranch
<1>2. Branch[b] \subseteq index \union {b} BY <1>1
<1>3. ASSUME NEW c \in D PROVE Branch[c] \subseteq index \union accepted
  <2>1. c \in Blocks /\ b \in Branch[c] /\ Branch[c] \ Branch[b] \subseteq orphans BY DEF Depend
  <2>2. ASSUME NEW d \in Branch[c], d \notin Branch[b] PROVE d \in D
    <3>1. d \in orphans BY <2>1, <2>2
    <3>2. b \in Branch[d] BY <2>1, <2>2, BranchAssumption
    <3>3. Branch[d] \subseteq Branch[c] BY <2>1, BranchAssumption
    <3>. QED BY <2>1, <3>1, <3>2, <3>3 DEF Depend
  <2>. QED BY <1>2, <2>2
<1>4. ASSUME NEW c \in orphans, c \notin accepted PROVE pprev[c] \notin index \union accepted
  <2>1. pprev[c] \notin index OBVIOUS
  <2>2. /\ c \in Blocks \ {Genesis} /\ Branch[c] = {c} \union Branch[pprev[c]]
        /\ pprev[c] \in Branch[c]
    BY BranchStep
  <2>3. ASSUME pprev[c] = b PROVE FALSE
    <3>1. b \in Branch[c] /\ Branch[c] \ Branch[b] \subseteq orphans BY <2>2, <2>3
    <3>. QED BY <1>4, <3>1 DEF Depend
  <2>4. ASSUME pprev[c] \in D PROVE FALSE
    <3>1. b \in Branch[pprev[c]] /\ Branch[pprev[c]] \ Branch[b] \subseteq orphans BY <2>4 DEF Depend
    <3>2. b \in Branch[c] /\ Branch[c] \ Branch[b] \subseteq orphans BY <2>2, <3>1
    <3>. QED BY <1>4, <3>2 DEF Depend
  <2>. QED BY <2>1, <2>3, <2>4
<1>5. accepted \in SUBSET Blocks BY DEF Depend
<1>. QED BY <1>2, <1>3, <1>4, <1>5

\* The order in which they are accepted has each of them.
LEMMA CascadeIs ==
    ASSUME NEW orphans \in SUBSET Blocks, IsFiniteSet(orphans), NEW b \in Blocks,
           NEW s \in Cascades(Depend(orphans, b))
    PROVE  /\ <<b>> \o s \in Seq(Blocks)
           /\ ToSet(<<b>> \o s) = {b} \union Depend(orphans, b)
<1>. DEFINE D == Depend(orphans, b)
<1>1. D \subseteq orphans BY DEF Depend
<1>2. IsFiniteSet(D) BY <1>1, FS_Subset
<1>3. Cardinality(D) \in Nat BY <1>2, FS_CardinalityType
<1>4. s \in [1 .. Cardinality(D) -> D] /\ ToSet(s) = D BY DEF Cascades
<1>5. s \in Seq(D) BY <1>3, <1>4, SeqDef
<1>6. s \in Seq(Blocks) BY <1>1, <1>5, SeqMonotonic
<1>. DEFINE x == <<b>>
<1>7. x \in Seq(Blocks) /\ ToSet(x) = {b} BY EmptyAndSingle
<1>. HIDE DEF x
<1>8. x \o s \in Seq(Blocks) /\ ToSet(x \o s) = ToSet(x) \union ToSet(s) BY <1>6, <1>7, InConcat
<1>. QED BY <1>4, <1>7, <1>8 DEF x

-----------------------------------------------------------------------------
(***************************************************************************)
(* The inductive invariant: the index of a node is closed under            *)
(* predecessors, and whatever a node announces, sends or is asked for is   *)
(* in its index, so that no request and no announcement comes to nothing.  *)
(***************************************************************************)
SyncTyped ==
    /\ mapBlockIndex \in [Nodes -> SUBSET Blocks]
    /\ pindexBest \in [Nodes -> Blocks]
    /\ mapOrphanBlocks \in [Nodes -> SUBSET Blocks]
    /\ peer \in [Nodes -> [Nodes -> CNodes \union {Nil}]]
    /\ net \in [Nodes -> [Nodes -> Seq(Messages)]]

Whole(n) ==
    /\ Genesis \in mapBlockIndex[n]
    /\ pindexBest[n] \in mapBlockIndex[n]
    /\ \A b \in mapBlockIndex[n] : Branch[b] \subseteq mapBlockIndex[n]
    /\ \A b \in mapBlockIndex[n] : bnChainTrust[b] <= bnChainTrust[pindexBest[n]]
    /\ \A b \in mapOrphanBlocks[n] : pprev[b] \notin mapBlockIndex[n]
    /\ mapOrphanBlocks[n] \intersect mapBlockIndex[n] = {}
    /\ IsFiniteSet(mapOrphanBlocks[n])

\* Connections have two ends, and messages go along them.
Linked(n, q) ==
    /\ Connected(n, q) <=> Connected(q, n)
    /\ net[n][q] # <<>> => Connected(n, q)

\* What q is told or sent by n, or wants of it, n has.
Held(n, q) ==
    /\ ToSet(peer[n][q].vInventoryToSend) \subseteq mapBlockIndex[n]
    /\ ToSet(peer[q][n].mapAskFor) \subseteq mapBlockIndex[n]
    /\ InTransit(n, q, "inv") \subseteq mapBlockIndex[n]
    /\ InTransit(q, n, "getdata") \subseteq mapBlockIndex[n]
    /\ BlocksInTransit(n, q) \subseteq mapBlockIndex[n]

Remembered(n, q) ==
    peer[n][q].setInventoryKnown \subseteq
        mapBlockIndex[q] \union mapOrphanBlocks[q] \union InTransit(n, q, "inv")
        \union ToSet(peer[q][n].mapAskFor) \union InTransit(q, n, "getdata")
        \union BlocksInTransit(n, q)

SyncInv ==
    /\ SyncTyped
    /\ \A n \in Nodes : Whole(n) /\ peer[n][n] = Nil
    /\ \A n, q \in Nodes : Linked(n, q)
    /\ \A n, q \in Nodes : Connected(n, q) => Held(n, q) /\ Remembered(n, q)

-----------------------------------------------------------------------------
(***************************************************************************)
(* A step of one node: at each connection it may take messages, send       *)
(* others, and change what it keeps about the peer.                        *)
(***************************************************************************)
Deal(n, p, taken, out) ==
    /\ peer'[n][p] \in CNodes
    /\ ToSet(net[p][n]) = taken \union ToSet(net'[p][n])
    /\ ToSet(net'[n][p]) = ToSet(net[n][p]) \union out
    /\ ToSet(peer'[n][p].vInventoryToSend) \subseteq mapBlockIndex'[n]
    /\ ToSet(peer'[n][p].mapAskFor) \subseteq mapBlockIndex[p]
    /\ Carried(out, "inv") \subseteq mapBlockIndex'[n]
    /\ Delivered(out) \subseteq mapBlockIndex'[n]
    /\ Carried(out, "getdata") \subseteq mapBlockIndex[p]
    /\ peer'[n][p].setInventoryKnown \subseteq
          peer[n][p].setInventoryKnown \union Carried(out, "inv") \union mapBlockIndex[p]
    /\ Carried(taken, "getdata") \subseteq Delivered(out)
    /\ Carried(taken, "inv") \subseteq Had(n)' \union ToSet(peer'[n][p].mapAskFor)
    /\ ToSet(peer[n][p].mapAskFor) \subseteq
          ToSet(peer'[n][p].mapAskFor) \union Carried(out, "getdata") \union Had(n)'
    /\ Delivered(taken) \subseteq Had(n)'

LEMMA CarriedUnion ==
    ASSUME NEW M1, NEW M2
    PROVE  /\ \A type : Carried(M1 \union M2, type) = Carried(M1, type) \union Carried(M2, type)
           /\ Delivered(M1 \union M2) = Delivered(M1) \union Delivered(M2)
BY DEF Carried, Delivered

\* Nothing that is on its way between two nodes is lost by such a step.
LEMMA DealKeeps ==
    ASSUME SyncInv, NEW n \in Nodes, NEW p \in Nodes, n # p, Connected(n, p),
           NEW taken, NEW out, Deal(n, p, taken, out),
           mapBlockIndex[n] \subseteq mapBlockIndex'[n], Had(n) \subseteq Had(n)',
           mapBlockIndex'[p] = mapBlockIndex[p], mapOrphanBlocks'[p] = mapOrphanBlocks[p],
           peer'[p][n] = peer[p][n]
    PROVE  /\ Held(n, p)' /\ Held(p, n)'
           /\ Remembered(n, p)' /\ Remembered(p, n)'
<1>1. Connected(p, n) BY DEF SyncInv, Linked
<1>2. Held(n, p) /\ Held(p, n) /\ Remembered(n, p) /\ Remembered(p, n) BY <1>1 DEF SyncInv
<1>3. /\ \A type : InTransit(n, p, type)' = InTransit(n, p, type) \union Carried(out, type)
      /\ BlocksInTransit(n, p)' = BlocksInTransit(n, p) \union Delivered(out)
  <2>1. ToSet(net'[n][p]) = ToSet(net[n][p]) \union out BY DEF Deal
  <2>2. /\ \A type : InTransit(n, p, type)' = Carried(ToSet(net'[n][p]), type)
        /\ BlocksInTransit(n, p)' = Delivered(ToSet(net'[n][p]))
    BY DEF InTransit, BlocksInTransit
  <2>. DEFINE M == ToSet(net[n][p])
  <2>3. /\ \A type : Carried(M \union out, type) = Carried(M, type) \union Carried(out, type)
        /\ Delivered(M \union out) = Delivered(M) \union Delivered(out)
    <3>. HIDE DEF M
    <3>. QED BY CarriedUnion
  <2>. QED BY <2>1, <2>2, <2>3 DEF InTransit, BlocksInTransit
<1>4. /\ \A type : InTransit(p, n, type) = Carried(taken, type) \union InTransit(p, n, type)'
      /\ BlocksInTransit(p, n) = Delivered(taken) \union BlocksInTransit(p, n)'
  <2>1. ToSet(net[p][n]) = taken \union ToSet(net'[p][n]) BY DEF Deal
  <2>2. /\ \A type : InTransit(p, n, type)' = Carried(ToSet(net'[p][n]), type)
        /\ BlocksInTransit(p, n)' = Delivered(ToSet(net'[p][n]))
    BY DEF InTransit, BlocksInTransit
  <2>. DEFINE M == ToSet(net'[p][n])
  <2>3. /\ \A type : Carried(taken \union M, type) = Carried(taken, type) \union Carried(M, type)
        /\ Delivered(taken \union M) = Delivered(taken) \union Delivered(M)
    <3>. HIDE DEF M
    <3>. QED BY CarriedUnion
  <2>. QED BY <2>1, <2>2, <2>3 DEF InTransit, BlocksInTransit
<1>5. Held(n, p)'
  <2>1. ToSet(peer'[n][p].vInventoryToSend) \subseteq mapBlockIndex'[n] BY DEF Deal
  <2>2. ToSet(peer'[p][n].mapAskFor) \subseteq mapBlockIndex'[n] BY <1>2 DEF Held
  <2>3. InTransit(n, p, "inv")' \subseteq mapBlockIndex'[n] BY <1>2, <1>3 DEF Held, Deal
  <2>4. InTransit(p, n, "getdata")' \subseteq mapBlockIndex'[n] BY <1>2, <1>4 DEF Held
  <2>5. BlocksInTransit(n, p)' \subseteq mapBlockIndex'[n] BY <1>2, <1>3 DEF Held, Deal
  <2>. QED BY <2>1, <2>2, <2>3, <2>4, <2>5 DEF Held
<1>6. Held(p, n)'
  <2>1. ToSet(peer'[p][n].vInventoryToSend) \subseteq mapBlockIndex'[p] BY <1>2 DEF Held
  <2>2. ToSet(peer'[n][p].mapAskFor) \subseteq mapBlockIndex'[p] BY DEF Deal
  <2>3. InTransit(p, n, "inv")' \subseteq mapBlockIndex'[p] BY <1>2, <1>4 DEF Held
  <2>4. InTransit(n, p, "getdata")' \subseteq mapBlockIndex'[p] BY <1>2, <1>3 DEF Held, Deal
  <2>5. BlocksInTransit(p, n)' \subseteq mapBlockIndex'[p] BY <1>2, <1>4 DEF Held
  <2>. QED BY <2>1, <2>2, <2>3, <2>4, <2>5 DEF Held
<1>7. Remembered(n, p)'
  <2>1. peer'[n][p].setInventoryKnown \subseteq
           peer[n][p].setInventoryKnown \union Carried(out, "inv") \union mapBlockIndex[p]
    BY DEF Deal
  <2>2. Carried(taken, "getdata") \subseteq Delivered(out) BY DEF Deal
  <2>3. ASSUME NEW b \in peer'[n][p].setInventoryKnown
        PROVE  b \in mapBlockIndex[p] \union mapOrphanBlocks[p] \union InTransit(n, p, "inv")'
                     \union ToSet(peer[p][n].mapAskFor) \union InTransit(p, n, "getdata")'
                     \union BlocksInTransit(n, p)'
    <3>1. CASE b \in Carried(out, "inv") BY <1>3, <3>1
    <3>2. CASE b \in mapBlockIndex[p] BY <3>2
    <3>3. CASE b \in peer[n][p].setInventoryKnown
      <4>1. b \in mapBlockIndex[p] \union mapOrphanBlocks[p] \union InTransit(n, p, "inv")
                  \union ToSet(peer[p][n].mapAskFor) \union InTransit(p, n, "getdata")
                  \union BlocksInTransit(n, p)
        BY <1>2, <3>3 DEF Remembered
      <4>. QED BY <1>3, <1>4, <2>2, <4>1
    <3>. QED BY <2>1, <3>1, <3>2, <3>3
  <2>. QED BY <2>3 DEF Remembered
<1>8. Remembered(p, n)'
  <2>1. ASSUME NEW b \in peer[p][n].setInventoryKnown
        PROVE  b \in Had(n)' \union InTransit(p, n, "inv")'
                     \union ToSet(peer'[n][p].mapAskFor) \union InTransit(n, p, "getdata")'
                     \union BlocksInTransit(p, n)'
    <3>1. b \in Had(n) \union InTransit(p, n, "inv")
                \union ToSet(peer[n][p].mapAskFor) \union InTransit(n, p, "getdata")
                \union BlocksInTransit(p, n)
      BY <1>2, <2>1 DEF Remembered, Had
    <3>2. CASE b \in Had(n) BY <3>2
    <3>3. CASE b \in InTransit(p, n, "inv") BY <1>4, <3>3 DEF Deal
    <3>4. CASE b \in ToSet(peer[n][p].mapAskFor) BY <1>3, <3>4 DEF Deal
    <3>5. CASE b \in InTransit(n, p, "getdata") BY <1>3, <3>5
    <3>6. CASE b \in BlocksInTransit(p, n) BY <1>4, <3>6 DEF Deal
    <3>. QED BY <3>1, <3>2, <3>3, <3>4, <3>5, <3>6
  <2>. QED BY <2>1 DEF Remembered, Had
<1>. QED BY <1>5, <1>6, <1>7, <1>8

\* A step of n that changes nothing of the other nodes.
LEMMA NodeStep ==
    ASSUME SyncInv, NEW n \in Nodes, SyncTyped', Whole(n)',
           mapBlockIndex[n] \subseteq mapBlockIndex'[n], Had(n) \subseteq Had(n)',
           \A a \in Nodes \ {n} : /\ mapBlockIndex'[a] = mapBlockIndex[a]
                                  /\ pindexBest'[a] = pindexBest[a]
                                  /\ mapOrphanBlocks'[a] = mapOrphanBlocks[a],
           \A a \in Nodes \ {n} : \A b \in Nodes : peer'[a][b] = peer[a][b],
           \A a, b \in Nodes \ {n} : net'[a][b] = net[a][b],
           \A p \in Nodes : ~Connected(n, p) =>
               peer'[n][p] = Nil /\ net'[n][p] = net[n][p] /\ net'[p][n] = net[p][n],
           \A p \in Nodes : Connected(n, p) => \E taken, out : Deal(n, p, taken, out)
    PROVE  SyncInv'
<1>1. \A p \in Nodes : Connected(n, p)' <=> Connected(n, p)
  <2>1. ASSUME NEW p \in Nodes, Connected(n, p) PROVE Connected(n, p)'
    <3>1. peer'[n][p] \in CNodes BY <2>1 DEF Deal
    <3>. QED BY <3>1, SyncNilAssumption DEF Connected
  <2>. QED BY <2>1 DEF Connected
<1>2. \A a \in Nodes \ {n} : \A b \in Nodes : Connected(a, b)' <=> Connected(a, b) BY DEF Connected
<1>3. \A a \in Nodes : Whole(a)' /\ peer'[a][a] = Nil
  <2>1. ASSUME NEW a \in Nodes, a # n PROVE Whole(a)' BY <2>1 DEF SyncInv, Whole
  <2>2. ASSUME NEW a \in Nodes PROVE peer'[a][a] = Nil BY DEF SyncInv, Connected
  <2>. QED BY <2>1, <2>2
<1>4. ASSUME NEW a \in Nodes, NEW b \in Nodes PROVE Linked(a, b)'
  <2>1. Connected(a, b)' <=> Connected(a, b) BY <1>1, <1>2
  <2>2. Connected(b, a)' <=> Connected(b, a) BY <1>1, <1>2
  <2>3. Linked(a, b) BY DEF SyncInv
  <2>4. net'[a][b] # <<>> /\ ~Connected(a, b) => net[a][b] # <<>>
    <3>1. CASE a = n BY <3>1
    <3>2. CASE a # n /\ b = n BY <2>3, <3>2 DEF Linked
    <3>3. CASE a # n /\ b # n BY <3>3
    <3>. QED BY <3>1, <3>2, <3>3
  <2>. QED BY <2>1, <2>2, <2>3, <2>4 DEF Linked
<1>5. ASSUME NEW p \in Nodes, Connected(n, p)
      PROVE  Held(n, p)' /\ Held(p, n)' /\ Remembered(n, p)' /\ Remembered(p, n)'
  <2>1. n # p BY <1>5 DEF SyncInv, Connected
  <2>2. PICK taken, out : Deal(n, p, taken, out) BY <1>5
  <2>3. p \in Nodes \ {n} BY <2>1
  <2>4. /\ mapBlockIndex'[p] = mapBlockIndex[p] /\ mapOrphanBlocks'[p] = mapOrphanBlocks[p]
        /\ peer'[p][n] = peer[p][n]
    BY <2>3
  <2>. QED BY <1>5, <2>1, <2>2, <2>4, DealKeeps
<1>6. ASSUME NEW a \in Nodes, NEW b \in Nodes, Connected(a, b)' PROVE Held(a, b)' /\ Remembered(a, b)'
  <2>1. CASE a = n BY <1>1, <1>5, <1>6, <2>1
  <2>2. CASE a # n /\ b = n
    <3>1. Connected(a, n) BY <1>2, <1>6, <2>2
    <3>2. Connected(n, a) BY <3>1 DEF SyncInv, Linked
    <3>. QED BY <1>5, <2>2, <3>2
  <2>3. CASE a # n /\ b # n
    <3>1. Held(a, b) /\ Remembered(a, b) BY <1>2, <1>6, <2>3 DEF SyncInv
    <3>2. /\ mapBlockIndex'[a] = mapBlockIndex[a] /\ mapBlockIndex'[b] = mapBlockIndex[b]
          /\ mapOrphanBlocks'[b] = mapOrphanBlocks[b]
          /\ peer'[a][b] = peer[a][b] /\ peer'[b][a] = peer[b][a]
          /\ net'[a][b] = net[a][b] /\ net'[b][a] = net[b][a]
      BY <2>3
    <3>3. /\ InTransit(a, b, "inv")' = InTransit(a, b, "inv")
          /\ InTransit(b, a, "getdata")' = InTransit(b, a, "getdata")
          /\ BlocksInTransit(a, b)' = BlocksInTransit(a, b)
      BY <3>2 DEF InTransit, BlocksInTransit
    <3>. QED BY <3>1, <3>2, <3>3 DEF Held, Remembered
  <2>. QED BY <2>1, <2>2, <2>3
<1>. QED BY <1>3, <1>4, <1>6 DEF SyncInv

\* A connection at which n takes and sends nothing.
LEMMA IdleDeal ==
    ASSUME SyncInv, NEW n \in Nodes, NEW p \in Nodes, Connected(n, p),
           peer'[n][p] \in CNodes,
           peer'[n][p].setInventoryKnown = peer[n][p].setInventoryKnown,
           peer'[n][p].mapAskFor = peer[n][p].mapAskFor,
           ToSet(peer'[n][p].vInventoryToSend) \subseteq
              ToSet(peer[n][p].vInventoryToSend) \union mapBlockIndex'[n],
           mapBlockIndex[n] \subseteq mapBlockIndex'[n],
           net'[n][p] = net[n][p], net'[p][n] = net[p][n]
    PROVE  Deal(n, p, {}, {})
<1>1. Connected(p, n) BY DEF SyncInv, Linked
<1>2. Held(n, p) /\ Held(p, n) BY <1>1 DEF SyncInv
<1>3. /\ \A type : Carried({}, type) = {}
      /\ Delivered({}) = {}
  BY DEF Carried, Delivered
<1>4. ToSet(peer[n][p].mapAskFor) \subseteq mapBlockIndex[p] BY <1>2 DEF Held
<1>5. ToSet(peer[n][p].vInventoryToSend) \subseteq mapBlockIndex[n] BY <1>2 DEF Held
<1>6. ToSet(peer'[n][p].vInventoryToSend) \subseteq mapBlockIndex'[n] BY <1>5
<1>. QED BY <1>3, <1>4, <1>6 DEF Deal

\* A step of n at its connection to q only.
LEMMA TalkStep ==
    ASSUME SyncInv, NEW n \in Nodes, NEW q \in Nodes, Connected(n, q),
           UNCHANGED <<mapBlockIndex, pindexBest>>,
           mapOrphanBlocks' \in [Nodes -> SUBSET Blocks], Whole(n)', Had(n) \subseteq Had(n)',
           \A a \in Nodes \ {n} : mapOrphanBlocks'[a] = mapOrphanBlocks[a],
           NEW d, peer' = [peer EXCEPT ![n][q] = d],
           net' \in [Nodes -> [Nodes -> Seq(Messages)]],
           \A a, b \in Nodes : (a = n /\ b = q) \/ (a = q /\ b = n) \/ net'[a][b] = net[a][b],
           NEW taken, NEW out, Deal(n, q, taken, out)
    PROVE  SyncInv'
<1>1. SyncTyped BY DEF SyncInv
<1>2. peer[n] \in [Nodes -> CNodes \union {Nil}] BY <1>1 DEF SyncTyped
<1>3. peer'[n][q] = d BY <1>1, <1>2 DEF SyncTyped
<1>4. d \in CNodes BY <1>3 DEF Deal
<1>5. peer' \in [Nodes -> [Nodes -> CNodes \union {Nil}]] BY <1>1, <1>4 DEF SyncTyped
<1>6. SyncTyped' BY <1>1, <1>5 DEF SyncTyped
<1>7. \A a \in Nodes \ {n} : \A b \in Nodes : peer'[a][b] = peer[a][b] BY <1>1 DEF SyncTyped
<1>8. \A b \in Nodes \ {q} : peer'[n][b] = peer[n][b] BY <1>1, <1>2 DEF SyncTyped
<1>9. n # q BY DEF SyncInv, Connected
<1>10. ASSUME NEW p \in Nodes, ~Connected(n, p)
       PROVE  peer'[n][p] = Nil /\ net'[n][p] = net[n][p] /\ net'[p][n] = net[p][n]
  <2>1. p # q BY <1>10
  <2>2. net'[n][p] = net[n][p] /\ net'[p][n] = net[p][n] BY <1>9, <2>1
  <2>. QED BY <1>8, <1>10, <2>1, <2>2 DEF Connected
<1>11. ASSUME NEW p \in Nodes, Connected(n, p) PROVE \E t, o : Deal(n, p, t, o)
  <2>1. CASE p = q BY <2>1
  <2>2. CASE p # q
    <3>1. peer'[n][p] = peer[n][p] BY <1>8, <2>2
    <3>2. net'[n][p] = net[n][p] /\ net'[p][n] = net[p][n] BY <1>9, <2>2
    <3>3. peer[n][p] \in CNodes BY <1>2, <1>11 DEF Connected
    <3>4. mapBlockIndex' = mapBlockIndex OBVIOUS
    <3>. QED BY <1>11, <3>1, <3>2, <3>3, <3>4, IdleDeal
  <2>. QED BY <2>1, <2>2
<1>12. \A a \in Nodes \ {n} : /\ mapBlockIndex'[a] = mapBlockIndex[a]
                              /\ pindexBest'[a] = pindexBest[a]
                              /\ mapOrphanBlocks'[a] = mapOrphanBlocks[a]
  OBVIOUS
<1>13. \A a, b \in Nodes \ {n} : net'[a][b] = net[a][b] OBVIOUS
<1>14. mapBlockIndex[n] \subseteq mapBlockIndex'[n] OBVIOUS
<1>. QED BY <1>6, <1>7, <1>10, <1>11, <1>12, <1>13, <1>14, NodeStep

\* The same of a step that leaves the blocks of all nodes alone.
LEMMA QuietTalk ==
    ASSUME SyncInv, NEW n \in Nodes, NEW q \in Nodes, Connected(n, q), UNCHANGED chainVars,
           NEW d, peer' = [peer EXCEPT ![n][q] = d],
           net' \in [Nodes -> [Nodes -> Seq(Messages)]],
           \A a, b \in Nodes : (a = n /\ b = q) \/ (a = q /\ b = n) \/ net'[a][b] = net[a][b],
           NEW taken, NEW out, Deal(n, q, taken, out)
    PROVE  SyncInv'
<1>1. UNCHANGED <<mapBlockIndex, pindexBest>> /\ mapOrphanBlocks' = mapOrphanBlocks BY DEF chainVars
<1>2. mapOrphanBlocks' \in [Nodes -> SUBSET Blocks] BY <1>1 DEF SyncInv, SyncTyped
<1>3. Whole(n)' BY <1>1 DEF SyncInv, Whole
<1>4. Had(n) \subseteq Had(n)' BY <1>1 DEF Had
<1>5. \A a \in Nodes \ {n} : mapOrphanBlocks'[a] = mapOrphanBlocks[a] BY <1>1
<1>. QED BY <1>1, <1>2, <1>3, <1>4, <1>5, TalkStep

\* The channels after a message was taken and others were sent.
LEMMA Exchanged ==
    ASSUME SyncInv, NEW n \in Nodes, NEW q \in Nodes, n # q, net[q][n] # <<>>,
           NEW msgs \in Seq(Messages), net' = Send(Consumed(n, q), n, q, msgs)
    PROVE  /\ net' \in [Nodes -> [Nodes -> Seq(Messages)]]
           /\ \A a, b \in Nodes : (a = n /\ b = q) \/ (a = q /\ b = n) \/ net'[a][b] = net[a][b]
           /\ ToSet(net[q][n]) = {Head(net[q][n])} \union ToSet(net'[q][n])
           /\ ToSet(net'[n][q]) = ToSet(net[n][q]) \union ToSet(msgs)
<1>1. net \in [Nodes -> [Nodes -> Seq(Messages)]] BY DEF SyncInv, SyncTyped
<1>2. net[q][n] \in Seq(Messages) /\ net[n][q] \in Seq(Messages) BY <1>1
<1>. DEFINE rest == Tail(net[q][n])
            more == net[n][q] \o msgs
<1>3. rest \in Seq(Messages) /\ ToSet(net[q][n]) = {Head(net[q][n])} \union ToSet(rest)
  <2>. DEFINE s == net[q][n]
  <2>. HIDE DEF s
  <2>1. s \in Seq(Messages) /\ s # <<>> BY <1>2 DEF s
  <2>2. Tail(s) \in Seq(Messages) /\ ToSet(s) = {Head(s)} \union ToSet(Tail(s)) BY <2>1, InHeadAndTail
  <2>. QED BY <2>2 DEF s
<1>4. more \in Seq(Messages) /\ ToSet(more) = ToSet(net[n][q]) \union ToSet(msgs)
  <2>. DEFINE s == net[n][q]
  <2>. HIDE DEF s
  <2>1. s \in Seq(Messages) BY <1>2 DEF s
  <2>2. s \o msgs \in Seq(Messages) /\ ToSet(s \o msgs) = ToSet(s) \union ToSet(msgs) BY <2>1, InConcat
  <2>. QED BY <2>2 DEF s
<1>5. net' = [[net EXCEPT ![q][n] = rest] EXCEPT ![n][q] = more]
  <2>1. [net EXCEPT ![q][n] = Tail(net[q][n])][n][q] = net[n][q] BY <1>1
  <2>2. net' = [[net EXCEPT ![q][n] = Tail(net[q][n])] EXCEPT
                  ![n][q] = [net EXCEPT ![q][n] = Tail(net[q][n])][n][q] \o msgs]
    BY Zenon DEF Send, Consumed
  <2>. QED BY <2>1, <2>2
<1>. HIDE DEF rest, more
<1>6. /\ net' \in [Nodes -> [Nodes -> Seq(Messages)]]
      /\ net'[q][n] = rest /\ net'[n][q] = more
      /\ \A a, b \in Nodes : (a = n /\ b = q) \/ (a = q /\ b = n) \/ net'[a][b] = net[a][b]
  <2>. DEFINE mid == [net EXCEPT ![q][n] = rest]
  <2>1. /\ mid \in [Nodes -> [Nodes -> Seq(Messages)]] /\ mid[q][n] = rest
        /\ \A a, b \in Nodes : (a = q /\ b = n) \/ mid[a][b] = net[a][b]
    BY <1>1, <1>3
  <2>2. net' = [mid EXCEPT ![n][q] = more] BY <1>5
  <2>. HIDE DEF mid
  <2>3. net' \in [Nodes -> [Nodes -> Seq(Messages)]] /\ net'[n][q] = more
    BY <1>4, <2>1, <2>2
  <2>4. \A a, b \in Nodes : (a = n /\ b = q) \/ net'[a][b] = mid[a][b]
    BY <2>1, <2>2
  <2>. QED BY <2>1, <2>3, <2>4
<1>. QED BY <1>3, <1>4, <1>6

LEMMA Taken ==
    ASSUME SyncInv, NEW n \in Nodes, NEW q \in Nodes, n # q, net[q][n] # <<>>,
           net' = Consumed(n, q)
    PROVE  /\ net' \in [Nodes -> [Nodes -> Seq(Messages)]]
           /\ \A a, b \in Nodes : (a = n /\ b = q) \/ (a = q /\ b = n) \/ net'[a][b] = net[a][b]
           /\ ToSet(net[q][n]) = {Head(net[q][n])} \union ToSet(net'[q][n])
           /\ net'[n][q] = net[n][q]
<1>1. net \in [Nodes -> [Nodes -> Seq(Messages)]] BY DEF SyncInv, SyncTyped
<1>2. net[q][n] \in Seq(Messages) BY <1>1
<1>. DEFINE rest == Tail(net[q][n])
<1>3. rest \in Seq(Messages) /\ ToSet(net[q][n]) = {Head(net[q][n])} \union ToSet(rest)
  <2>. DEFINE s == net[q][n]
  <2>. HIDE DEF s
  <2>1. s \in Seq(Messages) /\ s # <<>> BY <1>2 DEF s
  <2>2. Tail(s) \in Seq(Messages) /\ ToSet(s) = {Head(s)} \union ToSet(Tail(s)) BY <2>1, InHeadAndTail
  <2>. QED BY <2>2 DEF s
<1>4. net' = [net EXCEPT ![q][n] = rest] BY DEF Consumed
<1>. HIDE DEF rest
<1>5. /\ net' \in [Nodes -> [Nodes -> Seq(Messages)]]
      /\ net'[q][n] = rest /\ net'[n][q] = net[n][q]
      /\ \A a, b \in Nodes : (a = n /\ b = q) \/ (a = q /\ b = n) \/ net'[a][b] = net[a][b]
  BY <1>1, <1>3, <1>4
<1>. QED BY <1>3, <1>5

LEMMA Sent ==
    ASSUME SyncInv, NEW n \in Nodes, NEW q \in Nodes, n # q,
           NEW msgs \in Seq(Messages), net' = Send(net, n, q, msgs)
    PROVE  /\ net' \in [Nodes -> [Nodes -> Seq(Messages)]]
           /\ \A a, b \in Nodes : (a = n /\ b = q) \/ net'[a][b] = net[a][b]
           /\ ToSet(net'[n][q]) = ToSet(net[n][q]) \union ToSet(msgs)
<1>1. net \in [Nodes -> [Nodes -> Seq(Messages)]] BY DEF SyncInv, SyncTyped
<1>2. net[n][q] \in Seq(Messages) BY <1>1
<1>. DEFINE more == net[n][q] \o msgs
<1>4. more \in Seq(Messages) /\ ToSet(more) = ToSet(net[n][q]) \union ToSet(msgs)
  <2>. DEFINE s == net[n][q]
  <2>. HIDE DEF s
  <2>1. s \in Seq(Messages) BY <1>2 DEF s
  <2>2. s \o msgs \in Seq(Messages) /\ ToSet(s \o msgs) = ToSet(s) \union ToSet(msgs) BY <2>1, InConcat
  <2>. QED BY <2>2 DEF s
<1>5. net' = [net EXCEPT ![n][q] = more] BY DEF Send
<1>. HIDE DEF more
<1>6. /\ net' \in [Nodes -> [Nodes -> Seq(Messages)]] /\ net'[n][q] = more
      /\ \A a, b \in Nodes : (a = n /\ b = q) \/ net'[a][b] = net[a][b]
  BY <1>1, <1>4, <1>5
<1>. QED BY <1>4, <1>6

\* What a single message carries, and messages that carry nothing.
LEMMA OneMessage ==
    ASSUME NEW m
    PROVE  /\ \A type : Carried({m}, type) = IF m.type = type THEN ToSet(m.inv) ELSE {}
           /\ Delivered({m}) = IF m.type = "block" THEN {m.block} ELSE {}
BY DEF Carried, Delivered

LEMMA QuietMessages ==
    ASSUME NEW M \in SUBSET Quiet
    PROVE  Carried(M, "inv") = {} /\ Carried(M, "getdata") = {} /\ Delivered(M) = {}
BY DEF Carried, Delivered, Quiet

LEMMA Subcarried ==
    ASSUME NEW M, NEW m \in M
    PROVE  /\ m.type = "inv" => ToSet(m.inv) \subseteq Carried(M, "inv")
           /\ m.type = "getdata" => ToSet(m.inv) \subseteq Carried(M, "getdata")
           /\ m.type = "block" => m.block \in Delivered(M)
BY DEF Carried, Delivered

\* The message that n handles.
LEMMA Received ==
    ASSUME SyncInv, NEW n \in Nodes, NEW q \in Nodes, NEW type, Receive(n, q, type)
    PROVE  /\ n # q /\ Connected(q, n) /\ peer[n][q] \in CNodes /\ net[q][n] # <<>>
           /\ Held(n, q) /\ Held(q, n)
           /\ Head(net[q][n]) \in Messages /\ Head(net[q][n]).type = type
           /\ type = "inv" => ToSet(Head(net[q][n]).inv) \subseteq mapBlockIndex[q]
           /\ type = "getdata" => ToSet(Head(net[q][n]).inv) \subseteq mapBlockIndex[n]
           /\ type = "block" => Head(net[q][n]).block \in mapBlockIndex[q]
<1>1. Connected(n, q) /\ net[q][n] # <<>> /\ Head(net[q][n]).type = type BY DEF Receive
<1>2. n # q /\ Connected(q, n) BY <1>1 DEF SyncInv, Linked, Connected
<1>3. peer[n][q] \in CNodes BY <1>1 DEF SyncInv, SyncTyped, Connected
<1>4. Held(n, q) /\ Held(q, n) BY <1>1, <1>2 DEF SyncInv
<1>5. Head(net[q][n]) \in Messages /\ Head(net[q][n]) \in ToSet(net[q][n])
  <2>. DEFINE s == net[q][n]
  <2>1. s \in Seq(Messages) /\ s # <<>> BY <1>1 DEF SyncInv, SyncTyped
  <2>. HIDE DEF s
  <2>2. Head(s) \in Messages /\ ToSet(s) = {Head(s)} \union ToSet(Tail(s)) BY <2>1, InHeadAndTail
  <2>. QED BY <2>2 DEF s
<1>. DEFINE m == Head(net[q][n])
            M == ToSet(net[q][n])
<1>6. /\ Carried(M, "inv") \subseteq mapBlockIndex[q]
      /\ Carried(M, "getdata") \subseteq mapBlockIndex[n]
      /\ Delivered(M) \subseteq mapBlockIndex[q]
  BY <1>4 DEF Held, InTransit, BlocksInTransit
<1>7. m \in M BY <1>5
<1>. HIDE DEF m, M
<1>8. /\ m.type = "inv" => ToSet(m.inv) \subseteq mapBlockIndex[q]
      /\ m.type = "getdata" => ToSet(m.inv) \subseteq mapBlockIndex[n]
      /\ m.type = "block" => m.block \in mapBlockIndex[q]
  BY <1>6, <1>7, Subcarried
<1>. QED BY <1>1, <1>2, <1>3, <1>4, <1>5, <1>8 DEF m

-----------------------------------------------------------------------------
(***************************************************************************)
(* The handlers.                                                           *)
(***************************************************************************)

\* A handler that answers with messages that carry nothing, if any.
LEMMA QuietDeal ==
    ASSUME SyncInv, NEW n \in Nodes, NEW q \in Nodes, Held(n, q), Held(q, n),
           UNCHANGED chainVars, peer'[n][q] \in CNodes,
           NEW taken, NEW out \in SUBSET Quiet,
           ToSet(net[q][n]) = taken \union ToSet(net'[q][n]),
           ToSet(net'[n][q]) = ToSet(net[n][q]) \union out,
           ToSet(peer'[n][q].vInventoryToSend) \subseteq mapBlockIndex[n],
           ToSet(peer'[n][q].mapAskFor) \subseteq mapBlockIndex[q],
           ToSet(peer[n][q].mapAskFor) \subseteq ToSet(peer'[n][q].mapAskFor),
           peer'[n][q].setInventoryKnown \subseteq peer[n][q].setInventoryKnown \union mapBlockIndex[q],
           Carried(taken, "getdata") = {}, Delivered(taken) \subseteq Had(n),
           Carried(taken, "inv") \subseteq Had(n) \union ToSet(peer'[n][q].mapAskFor)
    PROVE  Deal(n, q, taken, out)
<1>1. Carried(out, "inv") = {} /\ Carried(out, "getdata") = {} /\ Delivered(out) = {}
  BY QuietMessages
<1>2. Had(n)' = Had(n) /\ mapBlockIndex' = mapBlockIndex BY DEF chainVars, Had
<1>. QED BY <1>1, <1>2 DEF Deal

LEMMA VersionStep ==
    ASSUME SyncInv, NEW n \in Nodes, NEW q \in Nodes, ReceiveVersion(n, q)
    PROVE  SyncInv'
<1>. DEFINE m == Head(net[q][n])
            c0 == peer[n][q]
            c == [c0 EXCEPT !.nVersion = TRUE, !.nStartingHeight = m.height]
            asks == AskVersion(n, q, m.height)
            cm == IF asks THEN PushGetBlocks(<<c, <<>>>>, pindexBest[n], Nil) ELSE <<c, <<>>>>
            hello == IF c.fInbound THEN <<Version(n)>> ELSE <<>>
            msgs == hello \o cm[2]
<1>1. Receive(n, q, "version") /\ Connected(n, q) BY DEF ReceiveVersion, Receive
<1>2. /\ peer' = [peer EXCEPT ![n][q] = cm[1]]
      /\ net' = Send(Consumed(n, q), n, q, msgs)
      /\ UNCHANGED chainVars
  BY DEF ReceiveVersion
<1>3. /\ n # q /\ c0 \in CNodes /\ net[q][n] # <<>> /\ Held(n, q) /\ Held(q, n)
      /\ m \in Messages /\ m.type = "version"
  BY <1>1, Received
<1>4. m.height \in Int BY <1>3 DEF Messages
<1>5. pindexBest[n] \in Blocks BY DEF SyncInv, SyncTyped
<1>6. /\ c \in CNodes /\ c.setInventoryKnown = c0.setInventoryKnown
      /\ c.mapAskFor = c0.mapAskFor /\ c.vInventoryToSend = c0.vInventoryToSend
  <2>. HIDE DEF c0, m
  <2>. QED BY <1>3, <1>4 DEF CNodes
<1>7. /\ cm \in CNodes \X Seq(Messages) /\ cm[1].setInventoryKnown = c0.setInventoryKnown
      /\ cm[1].mapAskFor = c0.mapAskFor /\ cm[1].vInventoryToSend = c0.vInventoryToSend
      /\ ToSet(cm[2]) \subseteq Quiet
  <2>. HIDE DEF c, c0, m, asks
  <2>. DEFINE e == <<c, <<>>>>
  <2>1. e \in CNodes \X Seq(Messages) /\ e[1] = c /\ ToSet(e[2]) = {} BY <1>6, EmptyAndSingle
  <2>2. CASE asks
    <3>1. cm = PushGetBlocks(e, pindexBest[n], Nil) BY <2>2
    <3>. HIDE DEF e, cm
    <3>2. Nil \in Blocks \union {Nil} OBVIOUS
    <3>. QED BY <1>5, <1>6, <2>1, <3>1, <3>2, PushGetBlocksKeeps
  <2>3. CASE ~asks
    <3>1. cm = e BY <2>3
    <3>. HIDE DEF e, cm
    <3>. QED BY <1>6, <2>1, <3>1
  <2>. QED BY <2>2, <2>3
<1>8. hello \in Seq(Messages) /\ ToSet(hello) \subseteq Quiet
  <2>1. Version(n) \in Quiet /\ Version(n) \in Messages
    <3>1. Height(n) \in Int BY <1>5, TreeAssumption DEF Height
    <3>. QED BY <3>1 DEF Version, Quiet, Messages
  <2>. HIDE DEF c
  <2>. QED BY <2>1, EmptyAndSingle
<1>9. msgs \in Seq(Messages) /\ ToSet(msgs) \subseteq Quiet
  <2>. DEFINE t == cm[2]
  <2>. HIDE DEF hello, cm
  <2>1. t \in Seq(Messages) /\ ToSet(t) \subseteq Quiet BY <1>7
  <2>. HIDE DEF t
  <2>2. hello \o t \in Seq(Messages) /\ ToSet(hello \o t) = ToSet(hello) \union ToSet(t)
    BY <1>8, <2>1, InConcat
  <2>. QED BY <1>8, <2>1, <2>2 DEF t
<1>. HIDE DEF msgs, cm
<1>10. /\ net' \in [Nodes -> [Nodes -> Seq(Messages)]]
       /\ \A a, b \in Nodes : (a = n /\ b = q) \/ (a = q /\ b = n) \/ net'[a][b] = net[a][b]
       /\ ToSet(net[q][n]) = {m} \union ToSet(net'[q][n])
       /\ ToSet(net'[n][q]) = ToSet(net[n][q]) \union ToSet(msgs)
  BY <1>2, <1>3, <1>9, Exchanged
<1>11. peer'[n][q] = cm[1] BY <1>2 DEF SyncInv, SyncTyped
<1>12. Carried({m}, "inv") = {} /\ Carried({m}, "getdata") = {} /\ Delivered({m}) = {}
  <2>. HIDE DEF m
  <2>. QED BY <1>3, OneMessage
<1>13. ToSet(c0.vInventoryToSend) \subseteq mapBlockIndex[n] /\ ToSet(c0.mapAskFor) \subseteq mapBlockIndex[q]
  BY <1>3 DEF Held
<1>. DEFINE taken == {m}
            out == ToSet(msgs)
<1>14. Deal(n, q, taken, out)
  <2>1. /\ peer'[n][q] \in CNodes /\ peer'[n][q].setInventoryKnown = peer[n][q].setInventoryKnown
        /\ peer'[n][q].mapAskFor = peer[n][q].mapAskFor
        /\ peer'[n][q].vInventoryToSend = peer[n][q].vInventoryToSend
    BY <1>7, <1>11
  <2>2. Carried(taken, "inv") = {} /\ Carried(taken, "getdata") = {} /\ Delivered(taken) = {} BY <1>12
  <2>3. out \in SUBSET Quiet BY <1>9
  <2>4. ToSet(net[q][n]) = taken \union ToSet(net'[q][n]) BY <1>10
  <2>5. ToSet(net'[n][q]) = ToSet(net[n][q]) \union out BY <1>10
  <2>. HIDE DEF taken, out
  <2>. QED BY <1>2, <1>3, <1>13, <2>1, <2>2, <2>3, <2>4, <2>5, QuietDeal
<1>. HIDE DEF taken, out
<1>. QED BY <1>1, <1>2, <1>10, <1>14, QuietTalk

LEMMA InvStep ==
    ASSUME SyncInv, NEW n \in Nodes, NEW q \in Nodes, ReceiveInv(n, q)
    PROVE  SyncInv'
<1>. DEFINE m == Head(net[q][n])
            c == peer[n][q]
            cm == HearAll(n, c, m.inv)
            msgs == cm[2]
<1>1. Receive(n, q, "inv") /\ Connected(n, q) BY DEF ReceiveInv, Receive
<1>2. /\ peer' = [peer EXCEPT ![n][q] = cm[1]]
      /\ net' = Send(Consumed(n, q), n, q, msgs)
      /\ UNCHANGED chainVars
  BY DEF ReceiveInv
<1>3. /\ n # q /\ c \in CNodes /\ net[q][n] # <<>> /\ Held(n, q) /\ Held(q, n)
      /\ m \in Messages /\ m.type = "inv" /\ ToSet(m.inv) \subseteq mapBlockIndex[q]
  BY <1>1, Received
<1>4. m.inv \in Seq(Blocks) BY <1>3 DEF Messages
<1>5. pindexBest[n] \in Blocks BY DEF SyncInv, SyncTyped
<1>6. \A b \in mapOrphanBlocks[n] : GetOrphanRoot(mapOrphanBlocks[n], b) \in Blocks
  <2>1. mapOrphanBlocks[n] \in SUBSET Blocks BY DEF SyncInv, SyncTyped
  <2>2. Genesis \notin mapOrphanBlocks[n] BY DEF SyncInv, Whole
  <2>. QED BY <2>1, <2>2, OrphanRootIs
<1>7. Heard(n, <<c, <<>>>>, ToSet(m.inv), cm)
  <2>. DEFINE inv == m.inv
  <2>1. inv \in Seq(Blocks) BY <1>4
  <2>. HIDE DEF inv, c
  <2>2. Heard(n, <<c, <<>>>>, ToSet(inv), HearAll(n, c, inv)) BY <1>3, <1>5, <1>6, <2>1, HearAllIs
  <2>. QED BY <2>2 DEF inv
<1>8. /\ cm \in CNodes \X Seq(Messages)
      /\ cm[1].setInventoryKnown \subseteq c.setInventoryKnown \union mapBlockIndex[q]
      /\ cm[1].vInventoryToSend = c.vInventoryToSend
      /\ ToSet(c.mapAskFor) \subseteq ToSet(cm[1].mapAskFor)
      /\ ToSet(cm[1].mapAskFor) \subseteq ToSet(c.mapAskFor) \union mapBlockIndex[q]
      /\ ToSet(m.inv) \subseteq Had(n) \union ToSet(cm[1].mapAskFor)
      /\ ToSet(cm[2]) \subseteq Quiet
  <2>. DEFINE e == <<c, <<>>>>
  <2>1. e[1] = c /\ ToSet(e[2]) = {} BY EmptyAndSingle
  <2>2. Heard(n, e, ToSet(m.inv), cm) BY <1>7
  <2>. HIDE DEF e, cm, m, c
  <2>. QED BY <1>3, <2>1, <2>2 DEF Heard
<1>9. msgs \in Seq(Messages) BY <1>8
<1>. HIDE DEF cm
<1>10. /\ net' \in [Nodes -> [Nodes -> Seq(Messages)]]
       /\ \A a, b \in Nodes : (a = n /\ b = q) \/ (a = q /\ b = n) \/ net'[a][b] = net[a][b]
       /\ ToSet(net[q][n]) = {m} \union ToSet(net'[q][n])
       /\ ToSet(net'[n][q]) = ToSet(net[n][q]) \union ToSet(msgs)
  <2>. HIDE DEF msgs
  <2>. QED BY <1>2, <1>3, <1>9, Exchanged
<1>11. peer'[n][q] = cm[1] BY <1>2 DEF SyncInv, SyncTyped
<1>12. Carried({m}, "inv") = ToSet(m.inv) /\ Carried({m}, "getdata") = {} /\ Delivered({m}) = {}
  <2>. HIDE DEF m
  <2>. QED BY <1>3, OneMessage
<1>13. ToSet(c.vInventoryToSend) \subseteq mapBlockIndex[n] /\ ToSet(c.mapAskFor) \subseteq mapBlockIndex[q]
  BY <1>3 DEF Held
<1>. DEFINE taken == {m}
            out == ToSet(msgs)
<1>14. Deal(n, q, taken, out)
  <2>1. /\ peer'[n][q] \in CNodes
        /\ peer'[n][q].setInventoryKnown \subseteq peer[n][q].setInventoryKnown \union mapBlockIndex[q]
        /\ ToSet(peer[n][q].mapAskFor) \subseteq ToSet(peer'[n][q].mapAskFor)
        /\ ToSet(peer'[n][q].mapAskFor) \subseteq mapBlockIndex[q]
        /\ ToSet(peer'[n][q].vInventoryToSend) \subseteq mapBlockIndex[n]
    BY <1>8, <1>11, <1>13
  <2>2. /\ Carried(taken, "inv") \subseteq Had(n) \union ToSet(peer'[n][q].mapAskFor)
        /\ Carried(taken, "getdata") = {} /\ Delivered(taken) = {}
    BY <1>8, <1>11, <1>12
  <2>3. out \in SUBSET Quiet BY <1>8
  <2>4. ToSet(net[q][n]) = taken \union ToSet(net'[q][n]) BY <1>10
  <2>5. ToSet(net'[n][q]) = ToSet(net[n][q]) \union out BY <1>10
  <2>. HIDE DEF taken, out
  <2>. QED BY <1>2, <1>3, <2>1, <2>2, <2>3, <2>4, <2>5, QuietDeal
<1>. HIDE DEF taken, out
<1>. QED BY <1>1, <1>2, <1>10, <1>14, QuietTalk

LEMMA GetBlocksStep ==
    ASSUME SyncInv, NEW n \in Nodes, NEW q \in Nodes, ReceiveGetBlocks(n, q)
    PROVE  SyncInv'
<1>. DEFINE m == Head(net[q][n])
            chain == Above(n, m.begin)
            stop == IF Contains(chain, m.end) THEN CHOOSE i \in DOMAIN chain : chain[i] = m.end
                    ELSE Len(chain) + 1
            limited == stop > Limit /\ Len(chain) >= Limit
            tip == /\ ~limited /\ stop <= Len(chain)
                   /\ m.end # pindexBest[n]
                   /\ nHeight[m.end] + MinAge > Height(n)
            told == SubSeq(chain, 1, IF limited THEN Limit ELSE stop - 1)
                    \o (IF tip THEN <<pindexBest[n]>> ELSE <<>>)
            c0 == peer[n][q]
            c == PushAllInventory(c0, told)
            d == [c EXCEPT !.hashContinue = Continue(limited, chain, @)]
<1>1. Receive(n, q, "getblocks") /\ Connected(n, q) BY DEF ReceiveGetBlocks, Receive
<1>2. peer' = [peer EXCEPT ![n][q] = d] /\ net' = Consumed(n, q) /\ UNCHANGED chainVars
  BY DEF ReceiveGetBlocks
<1>3. /\ n # q /\ c0 \in CNodes /\ net[q][n] # <<>> /\ Held(n, q) /\ Held(q, n)
      /\ m \in Messages /\ m.type = "getblocks"
  BY <1>1, Received
<1>4. m.begin \in Blocks \union {Nil} BY <1>3 DEF Messages
<1>5. /\ pindexBest[n] \in Blocks /\ Branch[pindexBest[n]] \subseteq mapBlockIndex[n]
      /\ mapBlockIndex[n] \subseteq Blocks /\ Genesis \in mapBlockIndex[n] /\ pindexBest[n] \in mapBlockIndex[n]
  BY DEF SyncInv, SyncTyped, Whole
<1>6. chain \in Seq(mapBlockIndex[n])
  <2>1. chain \in Seq(Branch[pindexBest[n]])
    <3>. DEFINE begin == m.begin
    <3>1. begin \in Blocks \union {Nil} BY <1>4
    <3>. HIDE DEF begin
    <3>2. Above(n, begin) \in Seq(Branch[pindexBest[n]]) BY <1>5, <3>1, AboveIs
    <3>. QED BY <3>2 DEF begin
  <2>. HIDE DEF chain
  <2>. QED BY <1>5, <2>1, SeqMonotonic
<1>. HIDE DEF chain
<1>7. Len(chain) \in Nat /\ DOMAIN chain = 1 .. Len(chain) BY <1>6, LenProperties
<1>8. stop \in 1 .. Len(chain) + 1
  <2>1. CASE Contains(chain, m.end)
    <3>1. \E i \in DOMAIN chain : chain[i] = m.end BY <1>7, <2>1 DEF Contains
    <3>. QED BY <1>7, <2>1, <3>1
  <2>2. CASE ~Contains(chain, m.end) BY <1>7, <2>2
  <2>. QED BY <2>1, <2>2
<1>. HIDE DEF stop
<1>9. limited => chain[Limit] \in Blocks
  <2>1. limited => Limit \in 1 .. Len(chain) BY <1>7, SyncAssumption
  <2>. HIDE DEF limited
  <2>2. limited => chain[Limit] \in mapBlockIndex[n] BY <1>6, <2>1, ElementOfSeq
  <2>. QED BY <1>5, <2>2
<1>10. told \in Seq(mapBlockIndex[n])
  <2>. DEFINE k == IF limited THEN Limit ELSE stop - 1
              s == SubSeq(chain, 1, k)
              t == IF tip THEN <<pindexBest[n]>> ELSE <<>>
  <2>1. k \in Nat /\ k <= Len(chain) BY <1>7, <1>8, SyncAssumption
  <2>. HIDE DEF k
  <2>2. s \in Seq(mapBlockIndex[n]) BY <1>6, <2>1, InSubSeq
  <2>. HIDE DEF tip
  <2>3. t \in Seq(mapBlockIndex[n]) BY <1>5, EmptyAndSingle
  <2>. HIDE DEF s, t
  <2>4. s \o t \in Seq(mapBlockIndex[n]) BY <2>2, <2>3, InConcat
  <2>. QED BY <2>4 DEF s, t, k
<1>. HIDE DEF told, c0, limited
<1>11. told \in Seq(Blocks) BY <1>5, <1>10, SeqMonotonic
<1>12. ToSet(told) \subseteq mapBlockIndex[n] BY <1>10, InSequence
<1>13. /\ c \in CNodes /\ c.setInventoryKnown = c0.setInventoryKnown /\ c.mapAskFor = c0.mapAskFor
       /\ ToSet(c.vInventoryToSend) \subseteq ToSet(c0.vInventoryToSend) \union mapBlockIndex[n]
  BY <1>3, <1>11, <1>12, PushAllIs
<1>. HIDE DEF c
<1>14. /\ d \in CNodes /\ d.setInventoryKnown = c0.setInventoryKnown /\ d.mapAskFor = c0.mapAskFor
       /\ ToSet(d.vInventoryToSend) \subseteq ToSet(c0.vInventoryToSend) \union mapBlockIndex[n]
  <2>1. Continue(limited, chain, c.hashContinue) \in Blocks \union {Nil}
    <3>1. c.hashContinue \in Blocks \union {Nil} BY <1>13 DEF CNodes
    <3>. QED BY <1>9, <3>1 DEF Continue
  <2>. DEFINE h == Continue(limited, chain, c.hashContinue)
  <2>2. d = [c EXCEPT !.hashContinue = h] OBVIOUS
  <2>. HIDE DEF h, d
  <2>3. h \in Blocks \union {Nil} BY <2>1 DEF h
  <2>4. /\ d \in CNodes /\ d.setInventoryKnown = c.setInventoryKnown /\ d.mapAskFor = c.mapAskFor
        /\ d.vInventoryToSend = c.vInventoryToSend
    BY <1>13, <2>2, <2>3 DEF CNodes
  <2>. QED BY <1>13, <2>4
<1>. HIDE DEF d
<1>15. /\ net' \in [Nodes -> [Nodes -> Seq(Messages)]]
       /\ \A a, b \in Nodes : (a = n /\ b = q) \/ (a = q /\ b = n) \/ net'[a][b] = net[a][b]
       /\ ToSet(net[q][n]) = {m} \union ToSet(net'[q][n])
       /\ net'[n][q] = net[n][q]
  BY <1>2, <1>3, Taken
<1>16. peer'[n][q] = d BY <1>2 DEF SyncInv, SyncTyped
<1>17. Carried({m}, "inv") = {} /\ Carried({m}, "getdata") = {} /\ Delivered({m}) = {}
  <2>. HIDE DEF m
  <2>. QED BY <1>3, OneMessage
<1>18. ToSet(c0.vInventoryToSend) \subseteq mapBlockIndex[n] /\ ToSet(c0.mapAskFor) \subseteq mapBlockIndex[q]
  BY <1>3 DEF Held, c0
<1>. DEFINE taken == {m}
            out == {}
<1>19. Deal(n, q, taken, out)
  <2>1. /\ peer'[n][q] \in CNodes /\ peer'[n][q].setInventoryKnown = peer[n][q].setInventoryKnown
        /\ peer'[n][q].mapAskFor = peer[n][q].mapAskFor
        /\ ToSet(peer'[n][q].vInventoryToSend) \subseteq mapBlockIndex[n]
        /\ ToSet(peer'[n][q].mapAskFor) \subseteq mapBlockIndex[q]
    BY <1>14, <1>16, <1>18 DEF c0
  <2>2. /\ Carried(taken, "inv") = {} /\ Carried(taken, "getdata") = {}
        /\ Delivered(taken) \subseteq Had(n)
    BY <1>17
  <2>3. out \in SUBSET Quiet OBVIOUS
  <2>4. ToSet(net[q][n]) = taken \union ToSet(net'[q][n]) BY <1>15
  <2>5. ToSet(net'[n][q]) = ToSet(net[n][q]) \union out BY <1>15
  <2>. HIDE DEF taken, out
  <2>. QED BY <1>2, <1>3, <2>1, <2>2, <2>3, <2>4, <2>5, QuietDeal
<1>. HIDE DEF taken, out
<1>20. UNCHANGED chainVars /\ peer' = [peer EXCEPT ![n][q] = d] BY <1>2
<1>21. /\ net' \in [Nodes -> [Nodes -> Seq(Messages)]]
       /\ \A a, b \in Nodes : (a = n /\ b = q) \/ (a = q /\ b = n) \/ net'[a][b] = net[a][b]
  BY <1>15
<1>. QED BY <1>1, <1>19, <1>20, <1>21, QuietTalk

\* What an answer to getdata carries.
LEMMA AnswerCarries ==
    ASSUME NEW W, NEW x, NEW out,
           \A b \in W : [type |-> "block", block |-> b] \in out,
           out \subseteq {[type |-> "block", block |-> b] : b \in W}
                         \union {[type |-> "inv", inv |-> <<x>>]}
    PROVE  /\ Carried(out, "inv") \subseteq {x} /\ Carried(out, "getdata") = {}
           /\ Delivered(out) = W
<1>1. ASSUME NEW m \in out
      PROVE  \/ m.type = "block" /\ m.block \in W
             \/ m.type = "inv" /\ m.inv = <<x>>
  <2>1. CASE m = [type |-> "inv", inv |-> <<x>>] BY <2>1
  <2>2. CASE m \in {[type |-> "block", block |-> b] : b \in W} BY <2>2
  <2>. QED BY <2>1, <2>2
<1>2. Delivered(out) \subseteq W BY <1>1 DEF Delivered
<1>3. ASSUME NEW b \in W PROVE b \in Delivered(out)
  <2>. DEFINE m == [type |-> "block", block |-> b]
  <2>1. m \in out /\ m.type = "block" /\ m.block = b OBVIOUS
  <2>. HIDE DEF m
  <2>. QED BY <2>1 DEF Delivered
<1>4. Carried(out, "getdata") = {} BY <1>1 DEF Carried
<1>5. Carried(out, "inv") \subseteq {x}
  <2>1. ToSet(<<x>>) = {x} BY EmptyAndSingle
  <2>2. \A m \in out : m.type = "inv" => ToSet(m.inv) = {x} BY <1>1, <2>1
  <2>. QED BY <2>2 DEF Carried
<1>. QED BY <1>2, <1>3, <1>4, <1>5

LEMMA GetDataStep ==
    ASSUME SyncInv, NEW n \in Nodes, NEW q \in Nodes, ReceiveGetData(n, q)
    PROVE  SyncInv'
<1>. DEFINE m == Head(net[q][n])
            c == peer[n][q]
            wanted == Among(m.inv, mapBlockIndex[n])
            msgs == ReplyAll(n, wanted, c.hashContinue)
            d == IF Contains(wanted, c.hashContinue) THEN [c EXCEPT !.hashContinue = Nil] ELSE c
<1>1. Receive(n, q, "getdata") /\ Connected(n, q) BY DEF ReceiveGetData, Receive
<1>2. /\ net' = Send(Consumed(n, q), n, q, msgs) /\ UNCHANGED chainVars
      /\ peer' = IF Contains(wanted, c.hashContinue)
                 THEN [peer EXCEPT ![n][q].hashContinue = Nil] ELSE peer
  BY DEF ReceiveGetData
<1>3. /\ n # q /\ c \in CNodes /\ net[q][n] # <<>> /\ Held(n, q) /\ Held(q, n)
      /\ m \in Messages /\ m.type = "getdata" /\ ToSet(m.inv) \subseteq mapBlockIndex[n]
  BY <1>1, Received
<1>4. m.inv \in Seq(Blocks) BY <1>3 DEF Messages
<1>5. peer' = [peer EXCEPT ![n][q] = d]
  <2>1. peer \in [Nodes -> [Nodes -> CNodes \union {Nil}]] BY DEF SyncInv, SyncTyped
  <2>2. CASE Contains(wanted, c.hashContinue) BY <1>2, <2>2
  <2>3. CASE ~Contains(wanted, c.hashContinue)
    <3>1. d = peer[n][q] /\ peer' = peer BY <1>2, <2>3
    <3>. HIDE DEF d
    <3>2. [peer EXCEPT ![n][q] = d] = peer BY <2>1, <3>1
    <3>. QED BY <3>1, <3>2
  <2>. QED BY <2>2, <2>3
<1>6. /\ d \in CNodes /\ d.setInventoryKnown = c.setInventoryKnown /\ d.mapAskFor = c.mapAskFor
      /\ d.vInventoryToSend = c.vInventoryToSend
  <2>. HIDE DEF c, wanted
  <2>. QED BY <1>3 DEF CNodes
<1>7. /\ LastProofOfWork(n) \in mapBlockIndex[n] /\ LastProofOfWork(n) \in Blocks
  <2>1. pindexBest[n] \in Blocks /\ Branch[pindexBest[n]] \subseteq mapBlockIndex[n]
    BY DEF SyncInv, SyncTyped, Whole
  <2>. QED BY <2>1, LastProofOfWorkIs
<1>8. wanted \in Seq(Blocks) /\ ToSet(wanted) = ToSet(m.inv)
  <2>. DEFINE s == m.inv
              S == mapBlockIndex[n]
  <2>1. s \in Seq(Blocks) /\ ToSet(s) \subseteq S BY <1>3, <1>4
  <2>. HIDE DEF s, S
  <2>2. Among(s, S) \in Seq(Blocks) /\ ToSet(Among(s, S)) = ToSet(s) \intersect S BY <2>1, AmongIs
  <2>3. ToSet(Among(s, S)) = ToSet(s) BY <2>1, <2>2
  <2>. QED BY <2>2, <2>3 DEF s, S
<1>. DEFINE hash == c.hashContinue
            last == LastProofOfWork(n)
            W == ToSet(wanted)
            block(b) == [type |-> "block", block |-> b]
<1>9. /\ msgs \in Seq(Messages) /\ \A b \in W : block(b) \in ToSet(msgs)
      /\ ToSet(msgs) \subseteq {block(b) : b \in W} \union {[type |-> "inv", inv |-> <<last>>]}
  <2>. HIDE DEF wanted, hash
  <2>. QED BY <1>7, <1>8, ReplyAllIs
<1>10. /\ Carried(ToSet(msgs), "inv") \subseteq {last} /\ Carried(ToSet(msgs), "getdata") = {}
       /\ Delivered(ToSet(msgs)) = W
  <2>. HIDE DEF wanted, msgs, last
  <2>. QED BY <1>9, AnswerCarries
<1>. HIDE DEF msgs, W, d
<1>11. /\ net' \in [Nodes -> [Nodes -> Seq(Messages)]]
       /\ \A a, b \in Nodes : (a = n /\ b = q) \/ (a = q /\ b = n) \/ net'[a][b] = net[a][b]
       /\ ToSet(net[q][n]) = {m} \union ToSet(net'[q][n])
       /\ ToSet(net'[n][q]) = ToSet(net[n][q]) \union ToSet(msgs)
  BY <1>2, <1>3, <1>9, Exchanged
<1>12. peer'[n][q] = d BY <1>5 DEF SyncInv, SyncTyped
<1>13. Carried({m}, "inv") = {} /\ Carried({m}, "getdata") = ToSet(m.inv) /\ Delivered({m}) = {}
  <2>. HIDE DEF m
  <2>. QED BY <1>3, OneMessage
<1>14. ToSet(c.vInventoryToSend) \subseteq mapBlockIndex[n] /\ ToSet(c.mapAskFor) \subseteq mapBlockIndex[q]
  BY <1>3 DEF Held
<1>. DEFINE taken == {m}
            out == ToSet(msgs)
<1>15. Deal(n, q, taken, out)
  <2>1. mapBlockIndex' = mapBlockIndex BY <1>2 DEF chainVars
  <2>2. /\ peer'[n][q] \in CNodes /\ peer'[n][q].setInventoryKnown = peer[n][q].setInventoryKnown
        /\ peer'[n][q].mapAskFor = peer[n][q].mapAskFor
        /\ ToSet(peer'[n][q].mapAskFor) \subseteq mapBlockIndex[q]
        /\ ToSet(peer'[n][q].vInventoryToSend) \subseteq mapBlockIndex[n]
    BY <1>6, <1>12, <1>14
  <2>3. /\ Carried(taken, "inv") = {} /\ Carried(taken, "getdata") = ToSet(m.inv) /\ Delivered(taken) = {}
    BY <1>13
  <2>4. /\ Carried(out, "inv") \subseteq mapBlockIndex[n] /\ Carried(out, "getdata") = {}
        /\ Delivered(out) = ToSet(m.inv)
    BY <1>7, <1>8, <1>10 DEF W
  <2>5. ToSet(net[q][n]) = taken \union ToSet(net'[q][n]) BY <1>11
  <2>6. ToSet(net'[n][q]) = ToSet(net[n][q]) \union out BY <1>11
  <2>7. ToSet(m.inv) \subseteq mapBlockIndex[n] BY <1>3
  <2>. HIDE DEF taken, out, m
  <2>. QED BY <2>1, <2>2, <2>3, <2>4, <2>5, <2>6, <2>7 DEF Deal
<1>. HIDE DEF taken, out
<1>. QED BY <1>1, <1>2, <1>5, <1>11, <1>15, QuietTalk

\* A block and what waited for it come into the index; the peers are told of
\* blocks that are there.
LEMMA AcceptBlocksIs ==
    ASSUME SyncInv, NEW n \in Nodes, NEW b \in Blocks, b \notin mapBlockIndex[n],
           pprev[b] \in mapBlockIndex[n],
           NEW s \in Cascades(Depend(mapOrphanBlocks[n], b)),
           NEW peers \in [Nodes -> [Nodes -> CNodes \union {Nil}]],
           AcceptBlocks(n, <<b>> \o s, peers)
    PROVE  /\ mapBlockIndex' \in [Nodes -> SUBSET Blocks]
           /\ pindexBest' \in [Nodes -> Blocks]
           /\ mapOrphanBlocks' \in [Nodes -> SUBSET Blocks]
           /\ peer' \in [Nodes -> [Nodes -> CNodes \union {Nil}]]
           /\ Whole(n)' /\ b \in mapBlockIndex'[n]
           /\ mapBlockIndex[n] \subseteq mapBlockIndex'[n] /\ Had(n) \subseteq Had(n)'
           /\ \A a \in Nodes \ {n} : /\ mapBlockIndex'[a] = mapBlockIndex[a]
                                     /\ pindexBest'[a] = pindexBest[a]
                                     /\ mapOrphanBlocks'[a] = mapOrphanBlocks[a]
           /\ \A a \in Nodes \ {n} : peer'[a] = peers[a]
           /\ \A p \in Nodes : peers[n][p] = Nil => peer'[n][p] = Nil
           /\ \A p \in Nodes : peers[n][p] # Nil =>
                 /\ peer'[n][p] \in CNodes
                 /\ peer'[n][p].setInventoryKnown = peers[n][p].setInventoryKnown
                 /\ peer'[n][p].mapAskFor = peers[n][p].mapAskFor
                 /\ ToSet(peer'[n][p].vInventoryToSend) \subseteq
                       ToSet(peers[n][p].vInventoryToSend) \union mapBlockIndex'[n]
<1>. DEFINE index == mapBlockIndex[n]
            orphans == mapOrphanBlocks[n]
            best == pindexBest[n]
            seq == <<b>> \o s
            new == ToSet(seq)
            r == AcceptEach(best, seq)
<1>1. SyncTyped /\ Whole(n) BY DEF SyncInv
<1>2. /\ index \in SUBSET Blocks /\ orphans \in SUBSET Blocks /\ best \in Blocks
      /\ Genesis \in index /\ best \in index /\ orphans \intersect index = {}
      /\ \A c \in index : Branch[c] \subseteq index
      /\ \A c \in index : bnChainTrust[c] <= bnChainTrust[best]
      /\ \A c \in orphans : pprev[c] \notin index
      /\ IsFiniteSet(orphans)
  BY <1>1 DEF SyncTyped, Whole
<1>3. b \in Blocks \ index /\ pprev[b] \in index /\ s \in Cascades(Depend(orphans, b)) OBVIOUS
<1>4. /\ mapBlockIndex' = [mapBlockIndex EXCEPT ![n] = index \union new]
      /\ pindexBest' = [pindexBest EXCEPT ![n] = r.best]
      /\ mapOrphanBlocks' = [mapOrphanBlocks EXCEPT ![n] = orphans \ new]
      /\ peer' = [peers EXCEPT ![n] = [p \in Nodes |-> IF peers[n][p] = Nil THEN Nil
                                                       ELSE Told(peers[n][p], r.relay)]]
  BY DEF AcceptBlocks
<1>. HIDE DEF index, orphans, best
<1>5. seq \in Seq(Blocks) /\ new = {b} \union Depend(orphans, b)
  BY <1>2, <1>3, CascadeIs
<1>6. /\ new \in SUBSET Blocks
      /\ \A c \in index \union new : Branch[c] \subseteq index \union new
      /\ \A c \in orphans \ new : pprev[c] \notin index \union new
  BY <1>2, <1>3, <1>5, DependIs
<1>. HIDE DEF seq
<1>7. /\ r.best \in {best} \union new /\ r.relay \in Seq(Blocks) /\ ToSet(r.relay) \subseteq new
      /\ \A c \in {best} \union new : bnChainTrust[c] <= bnChainTrust[r.best]
  BY <1>2, <1>5, AcceptIs
<1>. HIDE DEF new, r
<1>8. /\ mapBlockIndex' \in [Nodes -> SUBSET Blocks] /\ mapBlockIndex'[n] = index \union new
      /\ \A a \in Nodes \ {n} : mapBlockIndex'[a] = mapBlockIndex[a]
  BY <1>1, <1>2, <1>4, <1>6 DEF SyncTyped
<1>9. /\ pindexBest' \in [Nodes -> Blocks] /\ pindexBest'[n] = r.best
      /\ \A a \in Nodes \ {n} : pindexBest'[a] = pindexBest[a]
  BY <1>1, <1>2, <1>4, <1>6, <1>7 DEF SyncTyped
<1>10. /\ mapOrphanBlocks' \in [Nodes -> SUBSET Blocks] /\ mapOrphanBlocks'[n] = orphans \ new
       /\ \A a \in Nodes \ {n} : mapOrphanBlocks'[a] = mapOrphanBlocks[a]
  BY <1>1, <1>2, <1>4 DEF SyncTyped
<1>11. Whole(n)'
  <2>1. Genesis \in mapBlockIndex'[n] /\ pindexBest'[n] \in mapBlockIndex'[n]
    BY <1>2, <1>7, <1>8, <1>9
  <2>2. \A c \in mapBlockIndex'[n] : Branch[c] \subseteq mapBlockIndex'[n] BY <1>6, <1>8
  <2>3. ASSUME NEW c \in mapBlockIndex'[n] PROVE bnChainTrust[c] <= bnChainTrust[pindexBest'[n]]
    <3>1. c \in Blocks /\ best \in Blocks /\ r.best \in Blocks BY <1>2, <1>6, <1>7, <1>8
    <3>2. bnChainTrust[c] \in Nat /\ bnChainTrust[best] \in Nat /\ bnChainTrust[r.best] \in Nat
      BY <3>1, TreeAssumption
    <3>3. CASE c \in new BY <1>7, <1>9, <3>3
    <3>4. CASE c \in index
      <4>1. bnChainTrust[c] <= bnChainTrust[best] BY <1>2, <3>4
      <4>2. bnChainTrust[best] <= bnChainTrust[r.best] BY <1>7
      <4>. QED BY <1>9, <3>2, <4>1, <4>2
    <3>. QED BY <1>8, <3>3, <3>4
  <2>4. \A c \in mapOrphanBlocks'[n] : pprev[c] \notin mapBlockIndex'[n] BY <1>6, <1>8, <1>10
  <2>5. mapOrphanBlocks'[n] \intersect mapBlockIndex'[n] = {} BY <1>2, <1>8, <1>10
  <2>6. IsFiniteSet(mapOrphanBlocks'[n])
    <3>1. orphans \ new \subseteq orphans OBVIOUS
    <3>2. IsFiniteSet(orphans \ new) BY <1>2, <3>1, FS_Subset
    <3>. QED BY <1>10, <3>2
  <2>. QED BY <2>1, <2>2, <2>3, <2>4, <2>5, <2>6 DEF Whole
<1>12. ASSUME NEW p \in Nodes, peers[n][p] # Nil
       PROVE  /\ Told(peers[n][p], r.relay) \in CNodes
              /\ Told(peers[n][p], r.relay).setInventoryKnown = peers[n][p].setInventoryKnown
              /\ Told(peers[n][p], r.relay).mapAskFor = peers[n][p].mapAskFor
              /\ ToSet(Told(peers[n][p], r.relay).vInventoryToSend) \subseteq
                    ToSet(peers[n][p].vInventoryToSend) \union new
  <2>. DEFINE c == peers[n][p]
              above == IF c.nStartingHeight # -1 THEN c.nStartingHeight - Backlog ELSE Estimate
              S == {d \in Blocks : nHeight[d] > above}
              relay == r.relay
              told == Among(relay, S)
  <2>1. c \in CNodes BY <1>12
  <2>2. relay \in Seq(Blocks) /\ ToSet(relay) \subseteq new BY <1>7
  <2>3. Told(c, relay) = PushAllInventory(c, told) BY DEF Told
  <2>. HIDE DEF c, S, relay
  <2>4. told \in Seq(Blocks) /\ ToSet(told) \subseteq new
    <3>1. Among(relay, S) \in Seq(Blocks) /\ ToSet(Among(relay, S)) = ToSet(relay) \intersect S
      BY <2>2, AmongIs
    <3>. QED BY <2>2, <3>1
  <2>. HIDE DEF told
  <2>5. /\ PushAllInventory(c, told) \in CNodes
        /\ PushAllInventory(c, told).setInventoryKnown = c.setInventoryKnown
        /\ PushAllInventory(c, told).mapAskFor = c.mapAskFor
        /\ ToSet(PushAllInventory(c, told).vInventoryToSend) \subseteq
              ToSet(c.vInventoryToSend) \union ToSet(told)
    BY <2>1, <2>4, PushAllIs
  <2>6. /\ Told(c, relay) \in CNodes
        /\ Told(c, relay).setInventoryKnown = c.setInventoryKnown
        /\ Told(c, relay).mapAskFor = c.mapAskFor
        /\ ToSet(Told(c, relay).vInventoryToSend) \subseteq ToSet(c.vInventoryToSend) \union new
    BY <2>3, <2>4, <2>5
  <2>. QED BY <2>6 DEF c, relay
<1>. DEFINE told(p) == IF peers[n][p] = Nil THEN Nil ELSE Told(peers[n][p], r.relay)
<1>13. \A p \in Nodes : told(p) \in CNodes \union {Nil} BY <1>12
<1>14. /\ peer' = [peers EXCEPT ![n] = [p \in Nodes |-> told(p)]] BY <1>4
<1>15. \A p \in Nodes : /\ peers[n][p] = Nil => told(p) = Nil
                        /\ peers[n][p] # Nil => told(p) = Told(peers[n][p], r.relay)
  OBVIOUS
<1>. HIDE DEF told
<1>16. /\ peer' \in [Nodes -> [Nodes -> CNodes \union {Nil}]]
       /\ \A p \in Nodes : peer'[n][p] = told(p)
       /\ \A a \in Nodes \ {n} : peer'[a] = peers[a]
  BY <1>13, <1>14
<1>17. \A p \in Nodes : peers[n][p] # Nil =>
                 /\ peer'[n][p] \in CNodes
                 /\ peer'[n][p].setInventoryKnown = peers[n][p].setInventoryKnown
                 /\ peer'[n][p].mapAskFor = peers[n][p].mapAskFor
                 /\ ToSet(peer'[n][p].vInventoryToSend) \subseteq
                       ToSet(peers[n][p].vInventoryToSend) \union mapBlockIndex'[n]
  <2>. SUFFICES ASSUME NEW p \in Nodes, peers[n][p] # Nil
                PROVE  /\ peer'[n][p] \in CNodes
                       /\ peer'[n][p].setInventoryKnown = peers[n][p].setInventoryKnown
                       /\ peer'[n][p].mapAskFor = peers[n][p].mapAskFor
                       /\ ToSet(peer'[n][p].vInventoryToSend) \subseteq
                             ToSet(peers[n][p].vInventoryToSend) \union mapBlockIndex'[n]
    OBVIOUS
  <2>1. peer'[n][p] = Told(peers[n][p], r.relay) BY <1>15, <1>16
  <2>. QED BY <1>8, <1>12, <2>1
<1>18. b \in mapBlockIndex'[n] /\ mapBlockIndex[n] \subseteq mapBlockIndex'[n]
  BY <1>5, <1>8 DEF index
<1>19. Had(n) \subseteq Had(n)' BY <1>8, <1>10 DEF Had, index, orphans
<1>. QED BY <1>8, <1>9, <1>10, <1>11, <1>15, <1>16, <1>17, <1>18, <1>19

\* What n knows of its peer p is as before, or p brought b.
Brought(n, p, b, peers) ==
    \/ /\ peers[n][p].setInventoryKnown = peer[n][p].setInventoryKnown
       /\ net'[n][p] = net[n][p] /\ net'[p][n] = net[p][n]
    \/ \E taken :
       /\ ToSet(net[p][n]) = taken \union ToSet(net'[p][n])
       /\ net'[n][p] = net[n][p]
       /\ Carried(taken, "inv") = {} /\ Carried(taken, "getdata") = {}
       /\ Delivered(taken) \subseteq {b}
       /\ peers[n][p].setInventoryKnown = peer[n][p].setInventoryKnown \union {b}
       /\ b \in mapBlockIndex[p]

\* A node takes a block with all that waited for it, and tells its peers.
LEMMA AcceptStep ==
    ASSUME SyncInv, NEW n \in Nodes, NEW b \in Blocks, b \notin mapBlockIndex[n],
           pprev[b] \in mapBlockIndex[n],
           NEW s \in Cascades(Depend(mapOrphanBlocks[n], b)),
           NEW peers \in [Nodes -> [Nodes -> CNodes \union {Nil}]],
           AcceptBlocks(n, <<b>> \o s, peers),
           \A a \in Nodes \ {n} : peers[a] = peer[a],
           \A p \in Nodes : peers[n][p] = Nil <=> ~Connected(n, p),
           \A p \in Nodes : Connected(n, p) =>
              /\ peers[n][p].mapAskFor = peer[n][p].mapAskFor
              /\ peers[n][p].vInventoryToSend = peer[n][p].vInventoryToSend,
           net' \in [Nodes -> [Nodes -> Seq(Messages)]],
           \A a, c \in Nodes \ {n} : net'[a][c] = net[a][c],
           \A p \in Nodes : ~Connected(n, p) => net'[n][p] = net[n][p] /\ net'[p][n] = net[p][n],
           \A p \in Nodes : Brought(n, p, b, peers)
    PROVE  SyncInv'
<1>1. /\ mapBlockIndex' \in [Nodes -> SUBSET Blocks]
      /\ pindexBest' \in [Nodes -> Blocks]
      /\ mapOrphanBlocks' \in [Nodes -> SUBSET Blocks]
      /\ peer' \in [Nodes -> [Nodes -> CNodes \union {Nil}]]
      /\ Whole(n)' /\ b \in mapBlockIndex'[n]
      /\ mapBlockIndex[n] \subseteq mapBlockIndex'[n] /\ Had(n) \subseteq Had(n)'
      /\ \A a \in Nodes \ {n} : /\ mapBlockIndex'[a] = mapBlockIndex[a]
                                /\ pindexBest'[a] = pindexBest[a]
                                /\ mapOrphanBlocks'[a] = mapOrphanBlocks[a]
      /\ \A a \in Nodes \ {n} : peer'[a] = peers[a]
      /\ \A p \in Nodes : peers[n][p] = Nil => peer'[n][p] = Nil
      /\ \A p \in Nodes : peers[n][p] # Nil =>
            /\ peer'[n][p] \in CNodes
            /\ peer'[n][p].setInventoryKnown = peers[n][p].setInventoryKnown
            /\ peer'[n][p].mapAskFor = peers[n][p].mapAskFor
            /\ ToSet(peer'[n][p].vInventoryToSend) \subseteq
                  ToSet(peers[n][p].vInventoryToSend) \union mapBlockIndex'[n]
  BY AcceptBlocksIs
<1>2. SyncTyped' BY <1>1 DEF SyncTyped
<1>3. \A a \in Nodes \ {n} : \A c \in Nodes : peer'[a][c] = peer[a][c] BY <1>1
<1>4. ASSUME NEW p \in Nodes, ~Connected(n, p)
      PROVE  peer'[n][p] = Nil /\ net'[n][p] = net[n][p] /\ net'[p][n] = net[p][n]
  BY <1>1, <1>4
<1>5. ASSUME NEW p \in Nodes, Connected(n, p) PROVE \E taken, out : Deal(n, p, taken, out)
  <2>1. Connected(p, n) /\ n # p BY <1>5 DEF SyncInv, Linked, Connected
  <2>2. Held(n, p) /\ Held(p, n) BY <1>5, <2>1 DEF SyncInv
  <2>3. /\ peer'[n][p] \in CNodes
        /\ peer'[n][p].setInventoryKnown = peers[n][p].setInventoryKnown
        /\ peer'[n][p].mapAskFor = peer[n][p].mapAskFor
        /\ ToSet(peer'[n][p].vInventoryToSend) \subseteq
              ToSet(peer[n][p].vInventoryToSend) \union mapBlockIndex'[n]
    BY <1>1, <1>5
  <2>4. CASE /\ peers[n][p].setInventoryKnown = peer[n][p].setInventoryKnown
             /\ net'[n][p] = net[n][p] /\ net'[p][n] = net[p][n]
    <3>1. Deal(n, p, {}, {}) BY <1>1, <1>5, <2>3, <2>4, IdleDeal
    <3>. QED BY <3>1
  <2>5. CASE \E taken : /\ ToSet(net[p][n]) = taken \union ToSet(net'[p][n])
                        /\ net'[n][p] = net[n][p]
                        /\ Carried(taken, "inv") = {} /\ Carried(taken, "getdata") = {}
                        /\ Delivered(taken) \subseteq {b}
                        /\ peers[n][p].setInventoryKnown = peer[n][p].setInventoryKnown \union {b}
                        /\ b \in mapBlockIndex[p]
    <3>1. PICK taken : /\ ToSet(net[p][n]) = taken \union ToSet(net'[p][n])
                       /\ net'[n][p] = net[n][p]
                       /\ Carried(taken, "inv") = {} /\ Carried(taken, "getdata") = {}
                       /\ Delivered(taken) \subseteq {b}
                       /\ peers[n][p].setInventoryKnown = peer[n][p].setInventoryKnown \union {b}
                       /\ b \in mapBlockIndex[p]
      BY <2>5
    <3>2. Carried({}, "inv") = {} /\ Carried({}, "getdata") = {} /\ Delivered({}) = {}
      BY DEF Carried, Delivered
    <3>3. ToSet(peer[n][p].mapAskFor) \subseteq mapBlockIndex[p] BY <2>2 DEF Held
    <3>4. ToSet(peer'[n][p].vInventoryToSend) \subseteq mapBlockIndex'[n]
      BY <1>1, <2>2, <2>3 DEF Held
    <3>5. b \in Had(n)' BY <1>1 DEF Had
    <3>6. Deal(n, p, taken, {}) BY <2>3, <3>1, <3>2, <3>3, <3>4, <3>5 DEF Deal
    <3>. QED BY <3>6
  <2>. QED BY <2>4, <2>5 DEF Brought
<1>6. Whole(n)' /\ mapBlockIndex[n] \subseteq mapBlockIndex'[n] /\ Had(n) \subseteq Had(n)' BY <1>1
<1>7. \A a \in Nodes \ {n} : /\ mapBlockIndex'[a] = mapBlockIndex[a]
                             /\ pindexBest'[a] = pindexBest[a]
                             /\ mapOrphanBlocks'[a] = mapOrphanBlocks[a]
  BY <1>1
<1>. QED BY <1>2, <1>3, <1>4, <1>5, <1>6, <1>7, NodeStep

LEMMA FindStep ==
    ASSUME SyncInv, NEW n \in Nodes, NEW b \in Blocks, FindBlock(n, b)
    PROVE  SyncInv'
<1>1. /\ b \notin mapBlockIndex[n] /\ pprev[b] = pindexBest[n] /\ net' = net
  BY DEF FindBlock, AlreadyHave, Had
<1>2. PICK s \in Cascades(Depend(mapOrphanBlocks[n], b)) : AcceptBlocks(n, <<b>> \o s, peer)
  BY DEF FindBlock
<1>3. /\ peer \in [Nodes -> [Nodes -> CNodes \union {Nil}]]
      /\ net \in [Nodes -> [Nodes -> Seq(Messages)]]
      /\ pprev[b] \in mapBlockIndex[n]
  BY <1>1 DEF SyncInv, SyncTyped, Whole
<1>4. \A p \in Nodes : peer[n][p] = Nil <=> ~Connected(n, p) BY DEF Connected
<1>5. net' \in [Nodes -> [Nodes -> Seq(Messages)]] BY <1>1, <1>3
<1>6. \A a, c \in Nodes : net'[a][c] = net[a][c] BY <1>1
<1>7. \A p \in Nodes : Brought(n, p, b, peer) BY <1>1 DEF Brought
<1>. QED BY <1>1, <1>2, <1>3, <1>4, <1>5, <1>6, <1>7, AcceptStep

LEMMA BlockStep ==
    ASSUME SyncInv, NEW n \in Nodes, NEW q \in Nodes, ReceiveBlock(n, q)
    PROVE  SyncInv'
<1>. DEFINE m == Head(net[q][n])
            b == m.block
            c0 == peer[n][q]
            c == AddInventoryKnown(c0, b)
            orphans == mapOrphanBlocks[n] \union {b}
<1>1. Receive(n, q, "block") /\ Connected(n, q) BY DEF ReceiveBlock, Receive
<1>2. /\ n # q /\ c0 \in CNodes /\ net[q][n] # <<>> /\ Held(n, q) /\ Held(q, n)
      /\ m \in Messages /\ m.type = "block" /\ b \in mapBlockIndex[q]
  BY <1>1, Received
<1>3. b \in Blocks BY <1>2 DEF Messages
<1>4. Carried({m}, "inv") = {} /\ Carried({m}, "getdata") = {} /\ Delivered({m}) = {b}
  <2>. HIDE DEF m
  <2>. QED BY <1>2, OneMessage
<1>. HIDE DEF b, c0
<1>5. /\ c \in CNodes /\ c.setInventoryKnown = c0.setInventoryKnown \union {b}
      /\ c.mapAskFor = c0.mapAskFor /\ c.vInventoryToSend = c0.vInventoryToSend
  BY <1>2, <1>3, AddInventoryKnownKeeps
<1>. HIDE DEF c
<1>6. ToSet(c0.vInventoryToSend) \subseteq mapBlockIndex[n] /\ ToSet(c0.mapAskFor) \subseteq mapBlockIndex[q]
  BY <1>2 DEF Held, c0
<1>7. /\ peer \in [Nodes -> [Nodes -> CNodes \union {Nil}]]
      /\ net \in [Nodes -> [Nodes -> Seq(Messages)]]
      /\ mapBlockIndex \in [Nodes -> SUBSET Blocks] /\ mapOrphanBlocks \in [Nodes -> SUBSET Blocks]
      /\ pindexBest[n] \in Blocks
  BY DEF SyncInv, SyncTyped
<1>. DEFINE cm == PushGetBlocks(<<c, <<>>>>, pindexBest[n], GetOrphanRoot(orphans, b))
            d == IF IsInitialBlockDownload(n) THEN cm[1] ELSE AskFor(cm[1], WantedByOrphan(orphans, b))
<1>8. \/ /\ AlreadyHave(n, b)
         /\ peer' = [peer EXCEPT ![n][q] = c] /\ net' = Consumed(n, q) /\ UNCHANGED chainVars
      \/ /\ ~AlreadyHave(n, b) /\ pprev[b] \in mapBlockIndex[n]
         /\ \E s \in Cascades(Depend(mapOrphanBlocks[n], b)) :
               AcceptBlocks(n, <<b>> \o s, [peer EXCEPT ![n][q] = c])
         /\ net' = Consumed(n, q)
      \/ /\ ~AlreadyHave(n, b) /\ pprev[b] \notin mapBlockIndex[n]
         /\ mapOrphanBlocks' = [mapOrphanBlocks EXCEPT ![n] = orphans]
         /\ net' = Send(Consumed(n, q), n, q, cm[2])
         /\ peer' = [peer EXCEPT ![n][q] = d]
         /\ UNCHANGED <<mapBlockIndex, pindexBest>>
  BY DEF ReceiveBlock, b, c, c0
<1>. DEFINE taken == {m}
<1>9. ASSUME net' = Consumed(n, q)
      PROVE  /\ net' \in [Nodes -> [Nodes -> Seq(Messages)]]
             /\ \A e, f \in Nodes : (e = n /\ f = q) \/ (e = q /\ f = n) \/ net'[e][f] = net[e][f]
             /\ ToSet(net[q][n]) = taken \union ToSet(net'[q][n])
             /\ net'[n][q] = net[n][q]
  BY <1>2, <1>9, Taken
<1>10. /\ Carried(taken, "inv") = {} /\ Carried(taken, "getdata") = {} /\ Delivered(taken) = {b}
  BY <1>4
<1>. HIDE DEF m, taken, cm, d
<1>11. CASE /\ AlreadyHave(n, b)
            /\ peer' = [peer EXCEPT ![n][q] = c] /\ net' = Consumed(n, q) /\ UNCHANGED chainVars
  <2>1. peer'[n][q] = c BY <1>7, <1>11
  <2>2. UNCHANGED chainVars /\ {} \in SUBSET Quiet BY <1>11
  <2>3. ToSet(net[q][n]) = taken \union ToSet(net'[q][n]) /\ ToSet(net'[n][q]) = ToSet(net[n][q]) \union {}
    BY <1>9, <1>11
  <2>4. /\ peer'[n][q] \in CNodes
        /\ ToSet(peer'[n][q].vInventoryToSend) \subseteq mapBlockIndex[n]
        /\ ToSet(peer'[n][q].mapAskFor) \subseteq mapBlockIndex[q]
        /\ ToSet(peer[n][q].mapAskFor) \subseteq ToSet(peer'[n][q].mapAskFor)
        /\ peer'[n][q].setInventoryKnown \subseteq peer[n][q].setInventoryKnown \union mapBlockIndex[q]
    BY <1>2, <1>5, <1>6, <2>1 DEF c0
  <2>5. /\ Carried(taken, "getdata") = {} /\ Delivered(taken) \subseteq Had(n)
        /\ Carried(taken, "inv") \subseteq Had(n) \union ToSet(peer'[n][q].mapAskFor)
    BY <1>10, <1>11 DEF AlreadyHave
  <2>6. Deal(n, q, taken, {}) BY <1>2, <2>2, <2>3, <2>4, <2>5, QuietDeal
  <2>7. UNCHANGED chainVars /\ peer' = [peer EXCEPT ![n][q] = c] BY <1>11
  <2>8. /\ net' \in [Nodes -> [Nodes -> Seq(Messages)]]
        /\ \A e, f \in Nodes : (e = n /\ f = q) \/ (e = q /\ f = n) \/ net'[e][f] = net[e][f]
    BY <1>9, <1>11
  <2>. QED BY <1>1, <2>6, <2>7, <2>8, QuietTalk
<1>12. CASE /\ ~AlreadyHave(n, b) /\ pprev[b] \in mapBlockIndex[n]
            /\ \E s \in Cascades(Depend(mapOrphanBlocks[n], b)) :
                  AcceptBlocks(n, <<b>> \o s, [peer EXCEPT ![n][q] = c])
            /\ net' = Consumed(n, q)
  <2>. DEFINE peers == [peer EXCEPT ![n][q] = c]
  <2>1. PICK s \in Cascades(Depend(mapOrphanBlocks[n], b)) : AcceptBlocks(n, <<b>> \o s, peers)
    BY <1>12
  <2>2. b \notin mapBlockIndex[n] /\ pprev[b] \in mapBlockIndex[n] BY <1>12 DEF AlreadyHave, Had
  <2>3. /\ peers \in [Nodes -> [Nodes -> CNodes \union {Nil}]] /\ peers[n][q] = c
        /\ \A a \in Nodes \ {n} : peers[a] = peer[a]
        /\ \A p \in Nodes \ {q} : peers[n][p] = peer[n][p]
    BY <1>5, <1>7
  <2>. HIDE DEF peers
  <2>4. \A p \in Nodes : peers[n][p] = Nil <=> ~Connected(n, p)
    BY <1>1, <1>5, <2>3, SyncNilAssumption DEF Connected
  <2>5. \A p \in Nodes : Connected(n, p) =>
              /\ peers[n][p].mapAskFor = peer[n][p].mapAskFor
              /\ peers[n][p].vInventoryToSend = peer[n][p].vInventoryToSend
    BY <1>5, <2>3 DEF c0
  <2>6. /\ net' \in [Nodes -> [Nodes -> Seq(Messages)]]
        /\ \A a, e \in Nodes \ {n} : net'[a][e] = net[a][e]
    BY <1>9, <1>12
  <2>7. \A p \in Nodes : Brought(n, p, b, peers)
    <3>1. ASSUME NEW p \in Nodes, p # q
          PROVE  /\ peers[n][p].setInventoryKnown = peer[n][p].setInventoryKnown
                 /\ net'[n][p] = net[n][p] /\ net'[p][n] = net[p][n]
      BY <1>2, <1>9, <1>12, <2>3, <3>1
    <3>2. /\ ToSet(net[q][n]) = taken \union ToSet(net'[q][n])
          /\ net'[n][q] = net[n][q]
          /\ Carried(taken, "inv") = {} /\ Carried(taken, "getdata") = {}
          /\ Delivered(taken) \subseteq {b}
          /\ peers[n][q].setInventoryKnown = peer[n][q].setInventoryKnown \union {b}
          /\ b \in mapBlockIndex[q]
      BY <1>2, <1>5, <1>9, <1>10, <1>12, <2>3 DEF c0
    <3>. QED BY <3>1, <3>2 DEF Brought
  <2>8. \A p \in Nodes : ~Connected(n, p) => net'[n][p] = net[n][p] /\ net'[p][n] = net[p][n]
    <3>1. \A p \in Nodes : ~Connected(n, p) => p # q BY <1>1
    <3>. QED BY <1>2, <1>9, <1>12, <3>1
  <2>. QED BY <1>3, <2>1, <2>2, <2>3, <2>4, <2>5, <2>6, <2>7, <2>8, AcceptStep
<1>13. CASE /\ ~AlreadyHave(n, b) /\ pprev[b] \notin mapBlockIndex[n]
            /\ mapOrphanBlocks' = [mapOrphanBlocks EXCEPT ![n] = orphans]
            /\ net' = Send(Consumed(n, q), n, q, cm[2])
            /\ peer' = [peer EXCEPT ![n][q] = d]
            /\ UNCHANGED <<mapBlockIndex, pindexBest>>
  <2>1. b \notin mapBlockIndex[n] /\ pprev[b] \notin mapBlockIndex[n] BY <1>13 DEF AlreadyHave, Had
  <2>2. Whole(n) /\ Whole(q) BY DEF SyncInv
  <2>3. orphans \in SUBSET Blocks /\ Genesis \notin orphans /\ b \in Blocks \ {Genesis}
    BY <1>3, <1>7, <2>1, <2>2 DEF Whole
  <2>4. GetOrphanRoot(orphans, b) \in Blocks /\ WantedByOrphan(orphans, b) \in mapBlockIndex[q]
    <3>. HIDE DEF orphans
    <3>1. GetOrphanRoot(orphans, b) \in Blocks /\ WantedByOrphan(orphans, b) \in Branch[b]
      BY <2>3, OrphanRootIs
    <3>2. Branch[b] \subseteq mapBlockIndex[q] BY <1>2, <2>2 DEF Whole
    <3>. QED BY <3>1, <3>2
  <2>5. /\ mapOrphanBlocks' \in [Nodes -> SUBSET Blocks] /\ mapOrphanBlocks'[n] = orphans
        /\ \A a \in Nodes \ {n} : mapOrphanBlocks'[a] = mapOrphanBlocks[a]
        /\ mapBlockIndex' = mapBlockIndex /\ pindexBest' = pindexBest
    BY <1>7, <1>13, <2>3
  <2>6. Had(n)' = Had(n) \union {b} BY <2>5 DEF Had
  <2>7. Whole(n)'
    <3>1. IsFiniteSet(mapOrphanBlocks[n] \union {b}) BY <2>2, FS_AddElement DEF Whole
    <3>. QED BY <2>1, <2>2, <2>5, <3>1 DEF Whole
  <2>. DEFINE root == GetOrphanRoot(orphans, b)
              wants == WantedByOrphan(orphans, b)
              e == <<c, <<>>>>
  <2>8. root \in Blocks /\ wants \in mapBlockIndex[q] /\ wants \in Blocks BY <1>7, <2>4
  <2>9. cm = PushGetBlocks(e, pindexBest[n], root)
        /\ d = IF IsInitialBlockDownload(n) THEN cm[1] ELSE AskFor(cm[1], wants)
    BY DEF cm, d
  <2>10. e \in CNodes \X Seq(Messages) /\ e[1] = c /\ ToSet(e[2]) = {} BY <1>5, EmptyAndSingle
  <2>. HIDE DEF orphans, root, wants, e
  <2>11. /\ cm \in CNodes \X Seq(Messages) /\ cm[1].setInventoryKnown = c.setInventoryKnown
         /\ cm[1].mapAskFor = c.mapAskFor /\ cm[1].vInventoryToSend = c.vInventoryToSend
         /\ ToSet(cm[2]) \subseteq Quiet
    <3>1. root \in Blocks \union {Nil} BY <2>8
    <3>. QED BY <1>7, <2>9, <2>10, <3>1, PushGetBlocksKeeps
  <2>12. /\ d \in CNodes /\ d.setInventoryKnown = c.setInventoryKnown
         /\ d.vInventoryToSend = c.vInventoryToSend
         /\ ToSet(c.mapAskFor) \subseteq ToSet(d.mapAskFor)
         /\ ToSet(d.mapAskFor) \subseteq ToSet(c.mapAskFor) \union {wants}
    <3>. DEFINE f == cm[1]
    <3>1. f \in CNodes BY <2>11
    <3>2. CASE IsInitialBlockDownload(n)
      <4>1. d = f BY <2>9, <3>2
      <4>. QED BY <2>11, <4>1
    <3>3. CASE ~IsInitialBlockDownload(n)
      <4>1. d = AskFor(f, wants) BY <2>9, <3>3
      <4>2. /\ f.setInventoryKnown = c.setInventoryKnown /\ f.mapAskFor = c.mapAskFor
            /\ f.vInventoryToSend = c.vInventoryToSend
        BY <2>11
      <4>. HIDE DEF f
      <4>3. /\ AskFor(f, wants) \in CNodes
            /\ AskFor(f, wants).setInventoryKnown = f.setInventoryKnown
            /\ AskFor(f, wants).vInventoryToSend = f.vInventoryToSend
            /\ ToSet(AskFor(f, wants).mapAskFor) = ToSet(f.mapAskFor) \union {wants}
        BY <2>8, <3>1, AskForKeeps
      <4>. QED BY <4>1, <4>2, <4>3
    <3>. QED BY <3>2, <3>3
  <2>. DEFINE msgs == cm[2]
              out == ToSet(msgs)
  <2>13. msgs \in Seq(Messages) /\ out \in SUBSET Quiet BY <2>11
  <2>14. net' = Send(Consumed(n, q), n, q, msgs) /\ peer' = [peer EXCEPT ![n][q] = d] BY <1>13
  <2>. HIDE DEF msgs
  <2>15. /\ net' \in [Nodes -> [Nodes -> Seq(Messages)]]
         /\ \A a, p \in Nodes : (a = n /\ p = q) \/ (a = q /\ p = n) \/ net'[a][p] = net[a][p]
         /\ ToSet(net[q][n]) = {Head(net[q][n])} \union ToSet(net'[q][n])
         /\ ToSet(net'[n][q]) = ToSet(net[n][q]) \union ToSet(msgs)
    BY <1>2, <2>13, <2>14, Exchanged
  <2>16. peer'[n][q] = d BY <1>7, <2>14
  <2>17. Carried(out, "inv") = {} /\ Carried(out, "getdata") = {} /\ Delivered(out) = {}
    <3>. HIDE DEF out
    <3>. QED BY <2>13, QuietMessages
  <2>18. ToSet(net[q][n]) = taken \union ToSet(net'[q][n]) BY <2>15 DEF taken, m
  <2>19. ToSet(net'[n][q]) = ToSet(net[n][q]) \union out BY <2>15
  <2>. HIDE DEF out
  <2>20. Deal(n, q, taken, out)
    <3>1. /\ peer'[n][q] \in CNodes
          /\ peer'[n][q].setInventoryKnown = peer[n][q].setInventoryKnown \union {b}
          /\ ToSet(peer'[n][q].vInventoryToSend) \subseteq mapBlockIndex[n]
          /\ ToSet(peer'[n][q].mapAskFor) \subseteq mapBlockIndex[q]
          /\ ToSet(peer[n][q].mapAskFor) \subseteq ToSet(peer'[n][q].mapAskFor)
      BY <1>5, <1>6, <2>8, <2>12, <2>16 DEF c0
    <3>. QED BY <1>2, <1>10, <2>5, <2>6, <2>17, <2>18, <2>19, <3>1 DEF Deal
  <2>21. UNCHANGED <<mapBlockIndex, pindexBest>> /\ Had(n) \subseteq Had(n)' BY <2>5, <2>6
  <2>22. /\ net' \in [Nodes -> [Nodes -> Seq(Messages)]]
         /\ \A a, p \in Nodes : (a = n /\ p = q) \/ (a = q /\ p = n) \/ net'[a][p] = net[a][p]
    BY <2>15
  <2>. QED BY <1>1, <2>5, <2>7, <2>14, <2>20, <2>21, <2>22, TalkStep
<1>. QED BY <1>8, <1>11, <1>12, <1>13

\* A message made of a list, unless the list is empty.
LEMMA OfList ==
    ASSUME NEW type \in {"inv", "getdata"}, NEW s \in Seq(Blocks), NEW ms,
           ms = IF s = <<>> THEN <<>> ELSE <<[type |-> type, inv |-> s]>>
    PROVE  /\ ms \in Seq(Messages) /\ Delivered(ToSet(ms)) = {}
           /\ \A t : Carried(ToSet(ms), t) = IF t = type THEN ToSet(s) ELSE {}
<1>1. CASE s = <<>>
  <2>1. ms \in Seq(Messages) /\ ToSet(ms) = {} /\ ToSet(s) = {} BY <1>1, EmptyAndSingle
  <2>. QED BY <2>1 DEF Carried, Delivered
<1>2. CASE s # <<>>
  <2>. DEFINE m == [type |-> type, inv |-> s]
  <2>1. m \in Messages /\ m.type = type /\ m.inv = s /\ m.type # "block" BY DEF Messages
  <2>2. ms = <<m>> BY <1>2
  <2>. HIDE DEF m
  <2>3. ms \in Seq(Messages) /\ ToSet(ms) = {m} BY <2>1, <2>2, EmptyAndSingle
  <2>4. /\ \A t : Carried({m}, t) = IF m.type = t THEN ToSet(m.inv) ELSE {}
        /\ Delivered({m}) = IF m.type = "block" THEN {m.block} ELSE {}
    BY OneMessage
  <2>. QED BY <2>1, <2>3, <2>4
<1>. QED BY <1>1, <1>2

LEMMA SendStep ==
    ASSUME SyncInv, NEW n \in Nodes, NEW q \in Nodes, NEW due, SendMessages(n, q, due)
    PROVE  SyncInv'
<1>. DEFINE c == peer[n][q]
            inv == Among(c.vInventoryToSend, Blocks \ c.setInventoryKnown)
            data == Among(c.mapAskFor, due \ Had(n))
            message(type, s) == IF s = <<>> THEN <<>> ELSE <<[type |-> type, inv |-> s]>>
            first == message("inv", inv)
            second == message("getdata", data)
            msgs == first \o second
            d == [c EXCEPT !.setInventoryKnown = @ \union ToSet(inv),
                           !.vInventoryToSend = <<>>,
                           !.mapAskFor = Among(@, Blocks \ due)]
<1>1. /\ Connected(n, q) /\ peer' = [peer EXCEPT ![n][q] = d]
      /\ net' = Send(net, n, q, msgs) /\ UNCHANGED chainVars
  BY DEF SendMessages
<1>2. n # q /\ Connected(q, n) BY <1>1 DEF SyncInv, Linked, Connected
<1>3. /\ peer \in [Nodes -> [Nodes -> CNodes \union {Nil}]]
      /\ c \in CNodes /\ Held(n, q) /\ Held(q, n)
  BY <1>1, <1>2 DEF SyncInv, SyncTyped, Connected
<1>4. ToSet(c.vInventoryToSend) \subseteq mapBlockIndex[n] /\ ToSet(c.mapAskFor) \subseteq mapBlockIndex[q]
  BY <1>3 DEF Held
<1>5. /\ c.vInventoryToSend \in Seq(Blocks) /\ c.mapAskFor \in Seq(Blocks)
      /\ c.setInventoryKnown \in SUBSET Blocks
  <2>. HIDE DEF c
  <2>. QED BY <1>3 DEF CNodes
<1>. DEFINE keep == Among(c.mapAskFor, Blocks \ due)
<1>6. /\ inv \in Seq(Blocks) /\ ToSet(inv) = ToSet(c.vInventoryToSend) \intersect (Blocks \ c.setInventoryKnown)
      /\ data \in Seq(Blocks) /\ ToSet(data) = ToSet(c.mapAskFor) \intersect (due \ Had(n))
      /\ keep \in Seq(Blocks) /\ ToSet(keep) = ToSet(c.mapAskFor) \intersect (Blocks \ due)
  <2>. DEFINE s == c.vInventoryToSend
              t == c.mapAskFor
              S1 == Blocks \ c.setInventoryKnown
              S2 == due \ Had(n)
              S3 == Blocks \ due
  <2>1. s \in Seq(Blocks) /\ t \in Seq(Blocks) BY <1>5
  <2>. HIDE DEF s, t, S1, S2, S3
  <2>2. Among(s, S1) \in Seq(Blocks) /\ ToSet(Among(s, S1)) = ToSet(s) \intersect S1 BY <2>1, AmongIs
  <2>3. Among(t, S2) \in Seq(Blocks) /\ ToSet(Among(t, S2)) = ToSet(t) \intersect S2 BY <2>1, AmongIs
  <2>4. Among(t, S3) \in Seq(Blocks) /\ ToSet(Among(t, S3)) = ToSet(t) \intersect S3 BY <2>1, AmongIs
  <2>. QED BY <2>2, <2>3, <2>4 DEF s, t, S1, S2, S3
<1>7. d = [c EXCEPT !.setInventoryKnown = c.setInventoryKnown \union ToSet(inv),
                    !.vInventoryToSend = <<>>, !.mapAskFor = keep]
  OBVIOUS
<1>. HIDE DEF inv, data, keep, d
<1>8. /\ first \in Seq(Messages) /\ Delivered(ToSet(first)) = {}
      /\ \A t : Carried(ToSet(first), t) = IF t = "inv" THEN ToSet(inv) ELSE {}
  <2>1. first = IF inv = <<>> THEN <<>> ELSE <<[type |-> "inv", inv |-> inv]>> OBVIOUS
  <2>. HIDE DEF first
  <2>. QED BY <1>6, <2>1, OfList
<1>9. /\ second \in Seq(Messages) /\ Delivered(ToSet(second)) = {}
      /\ \A t : Carried(ToSet(second), t) = IF t = "getdata" THEN ToSet(data) ELSE {}
  <2>1. second = IF data = <<>> THEN <<>> ELSE <<[type |-> "getdata", inv |-> data]>> OBVIOUS
  <2>. HIDE DEF second
  <2>. QED BY <1>6, <2>1, OfList
<1>. HIDE DEF first, second
<1>10. msgs \in Seq(Messages) /\ ToSet(msgs) = ToSet(first) \union ToSet(second)
  BY <1>8, <1>9, InConcat
<1>. HIDE DEF msgs
<1>. DEFINE out == ToSet(msgs)
<1>11. Carried(out, "inv") = ToSet(inv) /\ Carried(out, "getdata") = ToSet(data) /\ Delivered(out) = {}
  <2>. DEFINE M1 == ToSet(first)
              M2 == ToSet(second)
  <2>1. out = M1 \union M2 BY <1>10
  <2>2. /\ Carried(M1, "inv") = ToSet(inv) /\ Carried(M1, "getdata") = {} /\ Delivered(M1) = {}
        /\ Carried(M2, "inv") = {} /\ Carried(M2, "getdata") = ToSet(data) /\ Delivered(M2) = {}
    BY <1>8, <1>9
  <2>. HIDE DEF M1, M2, out
  <2>3. /\ \A t : Carried(M1 \union M2, t) = Carried(M1, t) \union Carried(M2, t)
        /\ Delivered(M1 \union M2) = Delivered(M1) \union Delivered(M2)
    BY CarriedUnion
  <2>. QED BY <2>1, <2>2, <2>3
<1>12. /\ net' \in [Nodes -> [Nodes -> Seq(Messages)]]
       /\ \A a, p \in Nodes : (a = n /\ p = q) \/ net'[a][p] = net[a][p]
       /\ ToSet(net'[n][q]) = ToSet(net[n][q]) \union ToSet(msgs)
  BY <1>1, <1>2, <1>10, Sent
<1>13. net'[q][n] = net[q][n] BY <1>2, <1>12
<1>14. /\ d \in CNodes /\ d.setInventoryKnown = c.setInventoryKnown \union ToSet(inv)
       /\ d.vInventoryToSend = <<>> /\ d.mapAskFor = keep
  <2>1. ToSet(inv) \subseteq Blocks BY <1>6
  <2>2. <<>> \in Seq(Blocks) BY EmptyAndSingle
  <2>. HIDE DEF c
  <2>. QED BY <1>3, <1>5, <1>6, <1>7, <2>1, <2>2 DEF CNodes
<1>15. peer'[n][q] = d BY <1>1, <1>3
<1>16. mapBlockIndex' = mapBlockIndex /\ Had(n)' = Had(n) BY <1>1 DEF chainVars, Had
<1>17. ToSet(<<>>) = {} BY EmptyAndSingle
<1>18. Carried({}, "inv") = {} /\ Carried({}, "getdata") = {} /\ Delivered({}) = {}
  BY DEF Carried, Delivered
<1>19. mapBlockIndex[q] \subseteq Blocks BY DEF SyncInv, SyncTyped
<1>20. ToSet(net'[n][q]) = ToSet(net[n][q]) \union out BY <1>12
<1>. HIDE DEF out
<1>21. Deal(n, q, {}, out)
  <2>1. /\ peer'[n][q] \in CNodes /\ peer'[n][q].setInventoryKnown = c.setInventoryKnown \union ToSet(inv)
        /\ ToSet(peer'[n][q].vInventoryToSend) = {}
        /\ ToSet(peer'[n][q].mapAskFor) = ToSet(c.mapAskFor) \intersect (Blocks \ due)
    BY <1>6, <1>14, <1>15, <1>17
  <2>2. ToSet(inv) \subseteq mapBlockIndex[n] /\ ToSet(data) \subseteq mapBlockIndex[q] BY <1>4, <1>6
  <2>3. ToSet(c.mapAskFor) \subseteq ToSet(peer'[n][q].mapAskFor) \union ToSet(data) \union Had(n)
    BY <1>4, <1>6, <1>19, <2>1
  <2>. HIDE DEF c
  <2>4. c = peer[n][q] BY DEF c
  <2>. QED BY <1>4, <1>11, <1>13, <1>16, <1>18, <1>20, <2>1, <2>2, <2>3, <2>4 DEF Deal
<1>22. \A a, p \in Nodes : (a = n /\ p = q) \/ (a = q /\ p = n) \/ net'[a][p] = net[a][p] BY <1>12
<1>23. UNCHANGED chainVars /\ peer' = [peer EXCEPT ![n][q] = d] BY <1>1
<1>. QED BY <1>1, <1>12, <1>21, <1>22, <1>23, QuietTalk

LEMMA ConnectStep ==
    ASSUME SyncInv, NEW n \in Nodes, NEW q \in Nodes, Connect(n, q)
    PROVE  SyncInv'
<1>. DEFINE c == NewCNode
            d == [NewCNode EXCEPT !.fInbound = TRUE]
            hello == <<Version(n)>>
<1>1. /\ ~Connected(n, q) /\ ~Connected(q, n) /\ n # q
      /\ peer' = [peer EXCEPT ![n][q] = c, ![q][n] = d]
      /\ net' = Send(net, n, q, hello) /\ UNCHANGED chainVars
  BY SyncAssumption DEF Connect
<1>2. /\ peer \in [Nodes -> [Nodes -> CNodes \union {Nil}]]
      /\ net \in [Nodes -> [Nodes -> Seq(Messages)]]
      /\ pindexBest[n] \in Blocks
  BY DEF SyncInv, SyncTyped
<1>3. /\ c \in CNodes /\ c.setInventoryKnown = {} /\ c.mapAskFor = <<>> /\ c.vInventoryToSend = <<>>
      /\ d \in CNodes /\ d.setInventoryKnown = {} /\ d.mapAskFor = <<>> /\ d.vInventoryToSend = <<>>
  <2>1. <<>> \in Seq(Blocks) BY EmptyAndSingle
  <2>2. /\ <<Nil, Nil>> \in (Blocks \union {Nil}) \X (Blocks \union {Nil})
        /\ {} \in SUBSET Blocks /\ -1 \in Int
    OBVIOUS
  <2>3. c \in CNodes BY <2>1, <2>2 DEF NewCNode, CNodes
  <2>4. c.setInventoryKnown = {} /\ c.mapAskFor = <<>> /\ c.vInventoryToSend = <<>> BY DEF NewCNode
  <2>5. d = [c EXCEPT !.fInbound = TRUE] OBVIOUS
  <2>. HIDE DEF c, d
  <2>6. /\ d \in CNodes /\ d.setInventoryKnown = c.setInventoryKnown
        /\ d.mapAskFor = c.mapAskFor /\ d.vInventoryToSend = c.vInventoryToSend
    BY <2>3, <2>5 DEF CNodes
  <2>. QED BY <2>3, <2>4, <2>6
<1>4. hello \in Seq(Messages) /\ ToSet(hello) = {Version(n)} /\ Version(n) \in Quiet
  <2>1. Height(n) \in Int BY <1>2, TreeAssumption DEF Height
  <2>2. Version(n) \in Messages /\ Version(n) \in Quiet BY <2>1 DEF Version, Messages, Quiet
  <2>. QED BY <2>2, EmptyAndSingle
<1>. HIDE DEF c, d, hello
<1>5. /\ peer' \in [Nodes -> [Nodes -> CNodes \union {Nil}]]
      /\ peer'[n][q] = c /\ peer'[q][n] = d
      /\ \A a, b \in Nodes : (a = n /\ b = q) \/ (a = q /\ b = n) \/ peer'[a][b] = peer[a][b]
  <2>. DEFINE mid == [peer EXCEPT ![n][q] = c]
  <2>1. /\ mid \in [Nodes -> [Nodes -> CNodes \union {Nil}]] /\ mid[n][q] = c
        /\ \A a, b \in Nodes : (a = n /\ b = q) \/ mid[a][b] = peer[a][b]
    BY <1>2, <1>3
  <2>2. peer' = [mid EXCEPT ![q][n] = d] BY <1>1
  <2>. HIDE DEF mid
  <2>3. /\ peer' \in [Nodes -> [Nodes -> CNodes \union {Nil}]] /\ peer'[q][n] = d
        /\ \A a, b \in Nodes : (a = q /\ b = n) \/ peer'[a][b] = mid[a][b]
    BY <1>3, <2>1, <2>2
  <2>. QED BY <1>1, <2>1, <2>3
<1>6. /\ net' \in [Nodes -> [Nodes -> Seq(Messages)]]
      /\ \A a, b \in Nodes : (a = n /\ b = q) \/ net'[a][b] = net[a][b]
      /\ ToSet(net'[n][q]) = ToSet(net[n][q]) \union ToSet(hello)
  <2>1. n # q /\ net' = Send(net, n, q, hello) /\ hello \in Seq(Messages) BY <1>1, <1>4
  <2>. QED BY <2>1, Sent
<1>7. net[n][q] = <<>> /\ net[q][n] = <<>> BY <1>1 DEF SyncInv, Linked
<1>8. net'[q][n] = <<>> /\ ToSet(net'[n][q]) \in SUBSET Quiet
  <2>1. ToSet(<<>>) = {} BY EmptyAndSingle
  <2>2. net'[q][n] = net[q][n] BY <1>1, <1>6
  <2>. QED BY <1>4, <1>6, <1>7, <2>1, <2>2
<1>9. UNCHANGED <<mapBlockIndex, pindexBest, mapOrphanBlocks>> BY <1>1 DEF chainVars
<1>10. SyncTyped' BY <1>5, <1>6, <1>9 DEF SyncInv, SyncTyped
<1>11. ASSUME NEW a \in Nodes PROVE Whole(a)' /\ peer'[a][a] = Nil
  <2>1. Whole(a)' BY <1>9 DEF SyncInv, Whole
  <2>2. peer'[a][a] = peer[a][a]
    <3>1. n # q BY <1>1
    <3>2. \A e, f \in Nodes : (e = n /\ f = q) \/ (e = q /\ f = n) \/ peer'[e][f] = peer[e][f] BY <1>5
    <3>. QED BY <3>1, <3>2
  <2>3. peer[a][a] = Nil BY DEF SyncInv
  <2>. QED BY <2>1, <2>2, <2>3
<1>12. Connected(n, q)' /\ Connected(q, n)' BY <1>3, <1>5, SyncNilAssumption DEF Connected
<1>13. \A a, b \in Nodes : (a = n /\ b = q) \/ (a = q /\ b = n) \/ (Connected(a, b)' <=> Connected(a, b))
  BY <1>5 DEF Connected
<1>14. ASSUME NEW a \in Nodes, NEW b \in Nodes PROVE Linked(a, b)'
  <2>1. CASE (a = n /\ b = q) \/ (a = q /\ b = n) BY <1>12, <2>1 DEF Linked
  <2>2. CASE ~((a = n /\ b = q) \/ (a = q /\ b = n))
    <3>1. Linked(a, b) BY DEF SyncInv
    <3>. QED BY <1>6, <1>13, <2>2, <3>1 DEF Linked
  <2>. QED BY <2>1, <2>2
<1>15. ASSUME NEW a \in Nodes, NEW b \in Nodes, Connected(a, b)' PROVE Held(a, b)' /\ Remembered(a, b)'
  <2>1. CASE (a = n /\ b = q) \/ (a = q /\ b = n)
    <3>1. /\ peer'[a][b].setInventoryKnown = {} /\ ToSet(peer'[a][b].vInventoryToSend) = {}
          /\ ToSet(peer'[b][a].mapAskFor) = {}
      BY <1>1, <1>3, <1>5, <2>1, EmptyAndSingle
    <3>2. ToSet(net'[a][b]) \in SUBSET Quiet /\ ToSet(net'[b][a]) \in SUBSET Quiet
      <4>1. ToSet(<<>>) = {} BY EmptyAndSingle
      <4>. QED BY <1>8, <2>1, <4>1
    <3>3. /\ Carried(ToSet(net'[a][b]), "inv") = {} /\ Carried(ToSet(net'[b][a]), "getdata") = {}
          /\ Delivered(ToSet(net'[a][b])) = {}
      <4>. DEFINE M1 == ToSet(net'[a][b])
                  M2 == ToSet(net'[b][a])
      <4>1. M1 \in SUBSET Quiet /\ M2 \in SUBSET Quiet BY <3>2
      <4>. HIDE DEF M1, M2
      <4>2. Carried(M1, "inv") = {} /\ Carried(M2, "getdata") = {} /\ Delivered(M1) = {}
        BY <4>1, QuietMessages
      <4>. QED BY <4>2 DEF M1, M2
    <3>4. /\ InTransit(a, b, "inv")' = {} /\ InTransit(b, a, "getdata")' = {}
          /\ BlocksInTransit(a, b)' = {}
      BY <3>3 DEF InTransit, BlocksInTransit
    <3>. QED BY <3>1, <3>4 DEF Held, Remembered
  <2>2. CASE ~((a = n /\ b = q) \/ (a = q /\ b = n))
    <3>1. Held(a, b) /\ Remembered(a, b) BY <1>13, <1>15, <2>2 DEF SyncInv
    <3>2. /\ peer'[a][b] = peer[a][b] /\ peer'[b][a] = peer[b][a]
          /\ net'[a][b] = net[a][b] /\ net'[b][a] = net[b][a]
      BY <1>5, <1>6, <2>2
    <3>3. /\ InTransit(a, b, "inv")' = InTransit(a, b, "inv")
          /\ InTransit(b, a, "getdata")' = InTransit(b, a, "getdata")
          /\ BlocksInTransit(a, b)' = BlocksInTransit(a, b)
      BY <3>2 DEF InTransit, BlocksInTransit
    <3>. QED BY <1>9, <3>1, <3>2, <3>3 DEF Held, Remembered
  <2>. QED BY <2>1, <2>2
<1>. QED BY <1>10, <1>11, <1>14, <1>15 DEF SyncInv

\* Connections are closed, and the orphans of the node may be forgotten when
\* all of its connections are.
LEMMA CloseStep ==
    ASSUME SyncInv, NEW n \in Nodes, NEW E \in SUBSET Nodes, Closed(n, E),
           UNCHANGED <<mapBlockIndex, pindexBest>>,
           \/ mapOrphanBlocks' = mapOrphanBlocks
           \/ E = Nodes /\ mapOrphanBlocks' = [mapOrphanBlocks EXCEPT ![n] = {}]
    PROVE  SyncInv'
<1>. DEFINE gone(a, b) == (a = n /\ b \in E) \/ (b = n /\ a \in E)
<1>1. /\ peer' = [a \in Nodes |-> [b \in Nodes |-> IF gone(a, b) THEN Nil ELSE peer[a][b]]]
      /\ net' = [a \in Nodes |-> [b \in Nodes |-> IF gone(a, b) THEN <<>> ELSE net[a][b]]]
  BY DEF Closed
<1>2. SyncTyped BY DEF SyncInv
<1>3. \A a, b \in Nodes : gone(a, b) <=> gone(b, a) OBVIOUS
<1>4. \A a, b \in Nodes : gone(a, b) => a = n \/ b = n OBVIOUS
<1>5. E = Nodes => \A b \in Nodes : gone(n, b) /\ gone(b, n) OBVIOUS
<1>. HIDE DEF gone
<1>6. \A a, b \in Nodes : /\ gone(a, b) => peer'[a][b] = Nil /\ net'[a][b] = <<>>
                          /\ ~gone(a, b) => peer'[a][b] = peer[a][b] /\ net'[a][b] = net[a][b]
  BY <1>1
<1>7. /\ peer' \in [Nodes -> [Nodes -> CNodes \union {Nil}]]
      /\ net' \in [Nodes -> [Nodes -> Seq(Messages)]]
  <2>1. <<>> \in Seq(Messages) BY EmptyAndSingle
  <2>2. \A a, b \in Nodes : (IF gone(a, b) THEN Nil ELSE peer[a][b]) \in CNodes \union {Nil}
    BY <1>2 DEF SyncTyped
  <2>3. \A a, b \in Nodes : (IF gone(a, b) THEN <<>> ELSE net[a][b]) \in Seq(Messages)
    BY <1>2, <2>1 DEF SyncTyped
  <2>4. peer' \in [Nodes -> [Nodes -> CNodes \union {Nil}]] BY <1>1, <2>2
  <2>5. net' \in [Nodes -> [Nodes -> Seq(Messages)]] BY <1>1, <2>3
  <2>. QED BY <2>4, <2>5
<1>8. /\ mapOrphanBlocks' \in [Nodes -> SUBSET Blocks]
      /\ \A a \in Nodes : \/ mapOrphanBlocks'[a] = mapOrphanBlocks[a]
                          \/ E = Nodes /\ a = n /\ mapOrphanBlocks'[a] = {}
  <2>1. mapOrphanBlocks \in [Nodes -> SUBSET Blocks] BY <1>2 DEF SyncTyped
  <2>2. CASE mapOrphanBlocks' = mapOrphanBlocks BY <2>1, <2>2
  <2>3. CASE E = Nodes /\ mapOrphanBlocks' = [mapOrphanBlocks EXCEPT ![n] = {}] BY <2>1, <2>3
  <2>. QED BY <2>2, <2>3
<1>9. SyncTyped' BY <1>2, <1>7, <1>8 DEF SyncTyped
<1>10. ASSUME NEW a \in Nodes PROVE Whole(a)' /\ peer'[a][a] = Nil
  <2>1. Whole(a)'
    <3>1. IsFiniteSet({}) BY FS_EmptySet
    <3>. QED BY <1>8, <3>1 DEF SyncInv, Whole
  <2>2. peer'[a][a] = Nil BY <1>6 DEF SyncInv
  <2>. QED BY <2>1, <2>2
<1>11. ASSUME NEW a \in Nodes, NEW b \in Nodes PROVE Linked(a, b)'
  <2>1. Linked(a, b) BY DEF SyncInv
  <2>2. CASE gone(a, b) BY <1>3, <1>6, <2>2 DEF Linked, Connected
  <2>3. CASE ~gone(a, b) BY <1>3, <1>6, <2>1, <2>3 DEF Linked, Connected
  <2>. QED BY <2>2, <2>3
<1>12. ASSUME NEW a \in Nodes, NEW b \in Nodes, Connected(a, b)' PROVE Held(a, b)' /\ Remembered(a, b)'
  <2>1. ~gone(a, b) /\ ~gone(b, a) BY <1>3, <1>6, <1>12 DEF Connected
  <2>2. /\ peer'[a][b] = peer[a][b] /\ peer'[b][a] = peer[b][a]
        /\ net'[a][b] = net[a][b] /\ net'[b][a] = net[b][a]
    BY <1>6, <2>1
  <2>3. Held(a, b) /\ Remembered(a, b) BY <1>12, <2>2 DEF SyncInv, Connected
  <2>4. mapOrphanBlocks'[b] = mapOrphanBlocks[b] BY <1>5, <1>8, <2>1
  <2>5. /\ InTransit(a, b, "inv")' = InTransit(a, b, "inv")
        /\ InTransit(b, a, "getdata")' = InTransit(b, a, "getdata")
        /\ BlocksInTransit(a, b)' = BlocksInTransit(a, b)
    BY <2>2 DEF InTransit, BlocksInTransit
  <2>. QED BY <2>2, <2>3, <2>4, <2>5 DEF Held, Remembered
<1>. QED BY <1>9, <1>10, <1>11, <1>12 DEF SyncInv

-----------------------------------------------------------------------------
\* The invariant holds at the start.
LEMMA SyncInitHolds == SyncInit => SyncInv
<1>. SUFFICES ASSUME SyncInit PROVE SyncInv OBVIOUS
<1>1. <<>> \in Seq(Messages) BY EmptyAndSingle
<1>2. SyncTyped
  <2>1. mapBlockIndex \in [Nodes -> SUBSET Blocks] BY SyncAssumption, TreeAssumption DEF SyncInit
  <2>2. pindexBest \in [Nodes -> Blocks] BY SyncAssumption DEF SyncInit
  <2>3. mapOrphanBlocks \in [Nodes -> SUBSET Blocks] BY DEF SyncInit
  <2>4. peer \in [Nodes -> [Nodes -> CNodes \union {Nil}]] BY DEF SyncInit
  <2>5. net \in [Nodes -> [Nodes -> Seq(Messages)]] BY <1>1 DEF SyncInit
  <2>. QED BY <2>1, <2>2, <2>3, <2>4, <2>5 DEF SyncTyped
<1>3. ASSUME NEW n \in Nodes PROVE Whole(n) /\ peer[n][n] = Nil
  <2>1. /\ mapBlockIndex[n] = Branch[Tip[n]] /\ pindexBest[n] = Tip[n] /\ mapOrphanBlocks[n] = {}
        /\ peer[n][n] = Nil /\ Tip[n] \in Blocks
    BY SyncAssumption DEF SyncInit
  <2>2. Genesis \in Branch[Tip[n]] /\ Tip[n] \in Branch[Tip[n]] BY <2>1, GenesisOnBranch, OwnBranch
  <2>3. \A b \in Branch[Tip[n]] : Branch[b] \subseteq Branch[Tip[n]] BY <2>1, BranchAssumption
  <2>4. \A b \in Branch[Tip[n]] : bnChainTrust[b] <= bnChainTrust[Tip[n]] BY <2>1, TrustOnBranch
  <2>5. IsFiniteSet({}) BY FS_EmptySet
  <2>. QED BY <2>1, <2>2, <2>3, <2>4, <2>5 DEF Whole
<1>4. \A n, q \in Nodes : ~Connected(n, q) /\ net[n][q] = <<>> BY DEF SyncInit, Connected
<1>5. \A n, q \in Nodes : Linked(n, q) BY <1>4 DEF Linked
<1>. QED BY <1>2, <1>3, <1>4, <1>5 DEF SyncInv

\* Every step keeps it.
LEMMA SyncStep == SyncInv /\ [SyncNext]_svars => SyncInv'
<1>. SUFFICES ASSUME SyncInv, [SyncNext]_svars PROVE SyncInv' OBVIOUS
<1>1. ASSUME NEW n \in Nodes, NEW b \in Blocks, FindBlock(n, b) PROVE SyncInv'
  BY <1>1, FindStep
<1>2. ASSUME NEW n \in Nodes, RestartNode(n) PROVE SyncInv'
  <2>1. Closed(n, Nodes) /\ UNCHANGED <<mapBlockIndex, pindexBest>> BY <1>2 DEF RestartNode
  <2>2. mapOrphanBlocks' = [mapOrphanBlocks EXCEPT ![n] = {}] BY <1>2 DEF RestartNode
  <2>. QED BY <2>1, <2>2, CloseStep
<1>3. ASSUME NEW n \in Nodes, NEW q \in Nodes, Connect(n, q) PROVE SyncInv'
  BY <1>3, ConnectStep
<1>4. ASSUME NEW n \in Nodes, NEW q \in Nodes, Disconnect(n, q) PROVE SyncInv'
  <2>1. Closed(n, {q}) /\ UNCHANGED chainVars BY <1>4 DEF Disconnect
  <2>2. UNCHANGED <<mapBlockIndex, pindexBest>> /\ mapOrphanBlocks' = mapOrphanBlocks
    BY <2>1 DEF chainVars
  <2>3. {q} \in SUBSET Nodes OBVIOUS
  <2>. QED BY <2>1, <2>2, <2>3, CloseStep
<1>5. ASSUME NEW n \in Nodes, NEW q \in Nodes, ReceiveAny(n, q) PROVE SyncInv'
  <2>1. CASE ReceiveVersion(n, q) BY <2>1, VersionStep
  <2>2. CASE ReceiveInv(n, q) BY <2>2, InvStep
  <2>3. CASE ReceiveGetBlocks(n, q) BY <2>3, GetBlocksStep
  <2>4. CASE ReceiveGetData(n, q) BY <2>4, GetDataStep
  <2>5. CASE ReceiveBlock(n, q) BY <2>5, BlockStep
  <2>. QED BY <1>5, <2>1, <2>2, <2>3, <2>4, <2>5 DEF ReceiveAny
<1>6. ASSUME NEW n \in Nodes, NEW q \in Nodes, NEW due, SendMessages(n, q, due) PROVE SyncInv'
  BY <1>6, SendStep
<1>7. CASE UNCHANGED svars
  <2>1. UNCHANGED <<mapBlockIndex, pindexBest, mapOrphanBlocks, peer, net>> BY <1>7 DEF svars
  <2>2. SyncTyped' BY <2>1 DEF SyncInv, SyncTyped
  <2>3. \A n \in Nodes : Whole(n)' /\ peer'[n][n] = Nil BY <2>1 DEF SyncInv, Whole
  <2>4. \A n, q \in Nodes : Linked(n, q)' BY <2>1 DEF SyncInv, Linked, Connected
  <2>5. ASSUME NEW n \in Nodes, NEW q \in Nodes, Connected(n, q)' PROVE Held(n, q)' /\ Remembered(n, q)'
    <3>1. Held(n, q) /\ Remembered(n, q) BY <2>1, <2>5 DEF SyncInv, Connected
    <3>2. /\ InTransit(n, q, "inv")' = InTransit(n, q, "inv")
          /\ InTransit(q, n, "getdata")' = InTransit(q, n, "getdata")
          /\ BlocksInTransit(n, q)' = BlocksInTransit(n, q)
      BY <2>1 DEF InTransit, BlocksInTransit
    <3>. QED BY <2>1, <3>1, <3>2 DEF Held, Remembered
  <2>. QED BY <2>2, <2>3, <2>4, <2>5 DEF SyncInv
<1>. QED BY <1>1, <1>2, <1>3, <1>4, <1>5, <1>6, <1>7 DEF SyncNext

\* No block is lost in a node or between two (ProcessBlock, AcceptBlock, the
\* handlers of inv, getblocks, getdata and block, SendMessages): the chain of a
\* node is the best of what it has, its orphans wait for blocks it has not, and
\* what a node believes its peer to have, the peer has or is about to get.
THEOREM BlocksAreNotLost == SyncSpec => []NoBlockLost
<1>1. SyncInv => NoBlockLost
  <2>. SUFFICES ASSUME SyncInv PROVE NoBlockLost OBVIOUS
  <2>1. ASSUME NEW n \in Nodes
        PROVE  /\ Branch[pindexBest[n]] \subseteq mapBlockIndex[n]
               /\ \A b \in mapBlockIndex[n] : bnChainTrust[b] <= bnChainTrust[pindexBest[n]]
               /\ \A b \in mapOrphanBlocks[n] : pprev[b] \notin mapBlockIndex[n]
               /\ mapOrphanBlocks[n] \intersect mapBlockIndex[n] = {}
    BY DEF SyncInv, Whole
  <2>2. \A n, q \in Nodes : (Connected(n, q) <=> Connected(q, n)) /\ (net[n][q] # <<>> => Connected(n, q))
    BY DEF SyncInv, Linked
  <2>3. NothingForgotten BY DEF SyncInv, Remembered, NothingForgotten
  <2>. QED BY <2>1, <2>2, <2>3 DEF NoBlockLost, SyncTypeOK
<1>. QED BY <1>1, SyncInitHolds, SyncStep, PTL DEF SyncSpec

=============================================================================
