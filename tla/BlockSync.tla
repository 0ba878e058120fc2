------------------------------ MODULE BlockSync ------------------------------
(***************************************************************************)
(* How the blocks get from node to node: every node runs the handlers of   *)
(* version, inv, getblocks, getdata and block and SendMessages, the        *)
(* messages of a connection stay in order, connections break and nodes     *)
(* restart.  All blocks are valid; what ProcessBlock refuses and why is    *)
(* the matter of BlockIntake.                                              *)
(***************************************************************************)
EXTENDS BlockTree, Sequences, SequencesExt

CONSTANTS
    Nodes,
    Outbound,      \* pairs <<n, q>>: n opens connections to q
    ProofOfWork,   \* the blocks that are not proof-of-stake
    Miner,         \* of each block the node that finds it
    Tip,           \* of each node its best block at the start
    Limit,         \* blocks announced in reply to one getblocks (500)
    Backlog,       \* a peer that far behind is not told of new blocks (2000)
    Margin,        \* a peer that far behind is not asked for blocks (144)
    MinAge,        \* nStakeMinAge, in blocks
    Estimate,      \* Checkpoints::GetTotalBlocksEstimate()
    MaxFaults      \* bound: disconnections and restarts

ASSUME SyncAssumption ==
    /\ Outbound \subseteq Nodes \X Nodes
    /\ \A e \in Outbound : e[1] # e[2] /\ <<e[2], e[1]>> \notin Outbound
    /\ Genesis \in ProofOfWork
    /\ Miner \in [Blocks -> Nodes]
    /\ Tip \in [Nodes -> Blocks]
    /\ Limit \in Nat \ {0}

\* What n keeps about q, and what it sends.
CNodes == [fInbound : BOOLEAN, nVersion : BOOLEAN, nStartingHeight : Int,
           hashContinue : Blocks \union {Nil},
           lastGetBlocks : (Blocks \union {Nil}) \X (Blocks \union {Nil}),
           setInventoryKnown : SUBSET Blocks, vInventoryToSend : Seq(Blocks),
           mapAskFor : Seq(Blocks)]
Messages == [type : {"version"}, height : Int]
            \union [type : {"inv", "getdata"}, inv : Seq(Blocks)]
            \union [type : {"getblocks"}, begin : Blocks, end : Blocks \union {Nil}]
            \union [type : {"block"}, block : Blocks]

ASSUME SyncNilAssumption == Nil \notin Blocks /\ Nil \notin CNodes

VARIABLES
    mapBlockIndex,    \* of each node
    pindexBest,       \* of each node
    mapOrphanBlocks,  \* of each node
    nAskedForBlocks,  \* of each node, as far as it is 0 or not
    peer,             \* what n keeps about q: a CNode, or Nil while there is none
    net,              \* the messages from n to q that q has not processed
    faults

svars == <<mapBlockIndex, pindexBest, mapOrphanBlocks, nAskedForBlocks, peer, net, faults>>
chainVars == <<mapBlockIndex, pindexBest, mapOrphanBlocks>>

\* A CNode.  mapAskFor is kept in the order of its times; when an entry is due
\* is left open, since a retry waits for minutes and a message for seconds.
NewCNode == [fInbound |-> FALSE, nVersion |-> FALSE, nStartingHeight |-> -1,
             hashContinue |-> Nil, lastGetBlocks |-> <<Nil, Nil>>,
             setInventoryKnown |-> {}, vInventoryToSend |-> <<>>, mapAskFor |-> <<>>]

Connected(n, q) == peer[n][q] # Nil
Height(n) == nHeight[pindexBest[n]]

\* PushMessage.
Send(channel, n, q, msgs) == [channel EXCEPT ![n][q] = @ \o msgs]

\* The handling of the message at the head of net[q][n].
Receive(n, q, type) ==
    /\ Connected(n, q) /\ net[q][n] # <<>>
    /\ Head(net[q][n]).type = type
    /\ peer[n][q].nVersion \/ type = "version"
Consumed(n, q) == [net EXCEPT ![q][n] = Tail(@)]

\* Those of s that are in S.
Among(s, S) == FoldLeft(LAMBDA t, b : IF b \in S THEN Append(t, b) ELSE t, <<>>, s)

-----------------------------------------------------------------------------
(***************************************************************************)
(* What the handlers do to a CNode.                                        *)
(***************************************************************************)

AddInventoryKnown(c, b) == [c EXCEPT !.setInventoryKnown = @ \union {b}]

\* A block that waits already need not be pushed again: SendMessages passes
\* over the second one.
PushInventory(c, b) ==
    IF b \in c.setInventoryKnown \/ Contains(c.vInventoryToSend, b) THEN c
    ELSE [c EXCEPT !.vInventoryToSend = Append(@, b)]
PushAllInventory(c, s) == FoldLeft(PushInventory, c, s)

\* Mutant: one request at a time.
AskForOnce(c, b) == IF c.mapAskFor # <<>> THEN c ELSE [c EXCEPT !.mapAskFor = <<b>>]

AskFor(c, b) ==
    IF Contains(c.mapAskFor, b) THEN c ELSE [c EXCEPT !.mapAskFor = Append(@, b)]

\* PushGetBlocks filters out a repetition of the last request.  A handler is
\* folded over pairs of a CNode and the messages sent so far.
GetBlocks(begin, end) == [type |-> "getblocks", begin |-> begin, end |-> end]
PushGetBlocks(cm, begin, end) ==
    IF cm[1].lastGetBlocks = <<begin, end>> THEN cm
    ELSE <<[cm[1] EXCEPT !.lastGetBlocks = <<begin, end>>],
           Append(cm[2], GetBlocks(begin, end))>>

\* GetOrphanRoot and WantedByOrphan.
GetOrphanRoot(orphans, b) ==
    CHOOSE r \in Branch[b] \intersect (orphans \union {b}) :
        /\ \A c \in Branch[b] \ Branch[r] : c \in orphans \union {b}
        /\ pprev[r] \notin orphans
WantedByOrphan(orphans, b) == pprev[GetOrphanRoot(orphans, b)]

Had(n) == mapBlockIndex[n] \union mapOrphanBlocks[n]
AlreadyHave(n, b) == b \in Had(n)

\* Below the last hardened checkpoint.  (Above it a node takes itself to be in
\* the download only while its best block is a day old; here it is younger.)
IsInitialBlockDownload(n) == Height(n) < Estimate

-----------------------------------------------------------------------------
(***************************************************************************)
(* Connections.                                                            *)
(***************************************************************************)

Version(n) == [type |-> "version", height |-> Height(n)]

Connect(n, q) ==
    /\ <<n, q>> \in Outbound
    /\ ~Connected(n, q) /\ ~Connected(q, n)
    /\ peer' = [peer EXCEPT ![n][q] = NewCNode, ![q][n] = [NewCNode EXCEPT !.fInbound = TRUE]]
    /\ net' = Send(net, n, q, <<Version(n)>>)
    /\ UNCHANGED <<chainVars, nAskedForBlocks, faults>>

\* The connections of n that E names, and what is under way on them, are gone.
Closed(n, E) ==
    /\ peer' = [a \in Nodes |-> [b \in Nodes |->
          IF (a = n /\ b \in E) \/ (b = n /\ a \in E) THEN Nil ELSE peer[a][b]]]
    /\ net' = [a \in Nodes |-> [b \in Nodes |->
          IF (a = n /\ b \in E) \/ (b = n /\ a \in E) THEN <<>> ELSE net[a][b]]]
    /\ faults < MaxFaults
    /\ faults' = faults + 1

Disconnect(n, q) ==
    /\ <<n, q>> \in Outbound
    /\ Connected(n, q)
    /\ Closed(n, {q})
    /\ UNCHANGED <<chainVars, nAskedForBlocks>>

RestartNode(n) ==
    /\ Closed(n, Nodes)
    /\ mapOrphanBlocks' = [mapOrphanBlocks EXCEPT ![n] = {}]
    /\ nAskedForBlocks' = [nAskedForBlocks EXCEPT ![n] = FALSE]
    /\ UNCHANGED <<mapBlockIndex, pindexBest>>

\* The version message: the first peer is asked for blocks, and any peer while
\* it is the only one.
AskVersion(n, q, height) ==
    /\ height > Height(n) - Margin
    /\ ~nAskedForBlocks[n] \/ {p \in Nodes : Connected(n, p)} = {q}

ReceiveVersion(n, q) ==
    /\ Receive(n, q, "version")
    /\ LET height == Head(net[q][n]).height
           c == [peer[n][q] EXCEPT !.nVersion = TRUE, !.nStartingHeight = height]
           asks == AskVersion(n, q, height)
           cm == IF asks THEN PushGetBlocks(<<c, <<>>>>, pindexBest[n], Nil) ELSE <<c, <<>>>>
           hello == IF c.fInbound THEN <<Version(n)>> ELSE <<>>
       IN  /\ peer' = [peer EXCEPT ![n][q] = cm[1]]
           /\ net' = Send(Consumed(n, q), n, q, hello \o cm[2])
           /\ nAskedForBlocks' = [nAskedForBlocks EXCEPT ![n] = @ \/ asks]
    /\ UNCHANGED <<chainVars, faults>>

-----------------------------------------------------------------------------
(***************************************************************************)
(* Announcements and requests.                                             *)
(***************************************************************************)

\* The inv message: unknown blocks are asked for, an orphan makes the node ask
\* for what is missing below it, and a known last block for what is above it.
HearOf(n, cm, b, isLast) ==
    LET c == AddInventoryKnown(cm[1], b)
    IN  IF ~AlreadyHave(n, b) THEN <<AskFor(c, b), cm[2]>>
        ELSE IF b \in mapOrphanBlocks[n]
        THEN PushGetBlocks(<<c, cm[2]>>, pindexBest[n], GetOrphanRoot(mapOrphanBlocks[n], b))
        ELSE IF isLast THEN PushGetBlocks(<<c, cm[2]>>, b, Nil)
        ELSE <<c, cm[2]>>
HearAll(n, c, inv) ==
    FoldLeftDomain(LAMBDA cm, i : HearOf(n, cm, inv[i], i = Len(inv)), <<c, <<>>>>, inv)

ReceiveInv(n, q) ==
    /\ Receive(n, q, "inv")
    /\ LET cm == HearAll(n, peer[n][q], Head(net[q][n]).inv)
       IN  /\ peer' = [peer EXCEPT ![n][q] = cm[1]]
           /\ net' = Send(Consumed(n, q), n, q, cm[2])
    /\ UNCHANGED <<chainVars, nAskedForBlocks, faults>>

\* The main chain of n above the last block of it that the caller has.
Above(n, begin) ==
    LET common == IF begin = Nil THEN {Genesis}
                  ELSE mapBlockIndex[n] \intersect Branch[begin] \intersect Branch[pindexBest[n]]
        start == Max({nHeight[b] : b \in common})
    IN  [i \in 1..(Height(n) - start) |->
            CHOOSE b \in Branch[pindexBest[n]] : nHeight[b] = start + i]

\* Mutant: the place where the announcement stopped is forgotten.
ContinueNever(stops, chain, hashContinue) == hashContinue

\* The block whose request makes this node announce more.
Continue(stops, chain, hashContinue) == IF stops THEN chain[Limit] ELSE hashContinue

\* The getblocks message.
ReceiveGetBlocks(n, q) ==
    /\ Receive(n, q, "getblocks")
    /\ LET m == Head(net[q][n])
           chain == Above(n, m.begin)
           stop == IF Contains(chain, m.end) THEN CHOOSE i \in DOMAIN chain : chain[i] = m.end
                   ELSE Len(chain) + 1
           limited == stop > Limit /\ Len(chain) >= Limit
           tip == /\ ~limited /\ stop <= Len(chain)
                  /\ m.end # pindexBest[n]
                  /\ nHeight[m.end] + MinAge > Height(n)
           c == PushAllInventory(peer[n][q],
                                 SubSeq(chain, 1, IF limited THEN Limit ELSE stop - 1)
                                 \o (IF tip THEN <<pindexBest[n]>> ELSE <<>>))
       IN  peer' = [peer EXCEPT ![n][q] =
                      [c EXCEPT !.hashContinue = Continue(limited, chain, @)]]
    /\ net' = Consumed(n, q)
    /\ UNCHANGED <<chainVars, nAskedForBlocks, faults>>

\* GetLastBlockIndex(pindexBest, false).
LastProofOfWork(n) ==
    CHOOSE b \in Branch[pindexBest[n]] \intersect ProofOfWork :
        \A c \in Branch[pindexBest[n]] \intersect ProofOfWork : nHeight[c] <= nHeight[b]

\* The getdata message: any block of the index is sent, and with the one at
\* hashContinue an announcement that makes the peer ask for the next batch.
Reply(n, b, hashContinue) ==
    <<[type |-> "block", block |-> b]>> \o
    (IF b = hashContinue THEN <<[type |-> "inv", inv |-> <<LastProofOfWork(n)>>]>> ELSE <<>>)
ReplyAll(n, wanted, hashContinue) ==
    FoldLeft(LAMBDA s, b : s \o Reply(n, b, hashContinue), <<>>, wanted)

ReceiveGetData(n, q) ==
    /\ Receive(n, q, "getdata")
    /\ LET wanted == Among(Head(net[q][n]).inv, mapBlockIndex[n])
       IN  /\ net' = Send(Consumed(n, q), n, q, ReplyAll(n, wanted, peer[n][q].hashContinue))
           /\ peer' = IF Contains(wanted, peer[n][q].hashContinue)
                      THEN [peer EXCEPT ![n][q].hashContinue = Nil] ELSE peer
    /\ UNCHANGED <<chainVars, nAskedForBlocks, faults>>

-----------------------------------------------------------------------------
(***************************************************************************)
(* Blocks.                                                                 *)
(***************************************************************************)

\* Mutant: the orphans that waited are thrown away with their parent's entry.
DependOnce(orphans, b) == {c \in orphans : pprev[c] = b}

\* The orphans that depended on a block, and the orders in which they may be
\* taken: generation by generation.
Depend(orphans, b) ==
    {c \in orphans : b \in Branch[c] /\ Branch[c] \ Branch[b] \subseteq orphans}
Cascades(S) ==
    {s \in [1..Cardinality(S) -> S] :
        ToSet(s) = S /\ \A i, j \in DOMAIN s : i < j => nHeight[s[i]] <= nHeight[s[j]]}

\* AcceptBlock of one after the other: of those that become the best, the
\* peers are told.
AcceptOne(s, b) ==
    IF bnChainTrust[b] > bnChainTrust[s.best]
    THEN [best |-> b, relay |-> Append(s.relay, b)] ELSE s
AcceptEach(best, seq) == FoldLeft(AcceptOne, [best |-> best, relay |-> <<>>], seq)
Told(c, relay) ==
    LET above == IF c.nStartingHeight # -1 THEN c.nStartingHeight - Backlog ELSE Estimate
    IN  PushAllInventory(c, Among(relay, {b \in Blocks : nHeight[b] > above}))

AcceptBlocks(n, seq, peers) ==
    LET s == AcceptEach(pindexBest[n], seq)
    IN  /\ mapBlockIndex' = [mapBlockIndex EXCEPT ![n] = @ \union ToSet(seq)]
        /\ pindexBest' = [pindexBest EXCEPT ![n] = s.best]
        /\ mapOrphanBlocks' = [mapOrphanBlocks EXCEPT ![n] = @ \ ToSet(seq)]
        /\ peer' = [peers EXCEPT ![n] = [p \in Nodes |-> IF peers[n][p] = Nil THEN Nil
                                                          ELSE Told(peers[n][p], s.relay)]]

\* The block message.
ReceiveBlock(n, q) ==
    /\ Receive(n, q, "block")
    /\ LET b == Head(net[q][n]).block
           c == AddInventoryKnown(peer[n][q], b)
           orphans == mapOrphanBlocks[n] \union {b}
       IN  IF AlreadyHave(n, b)
           THEN /\ peer' = [peer EXCEPT ![n][q] = c]
                /\ net' = Consumed(n, q)
                /\ UNCHANGED chainVars
           ELSE IF pprev[b] \in mapBlockIndex[n]
           THEN /\ \E s \in Cascades(Depend(mapOrphanBlocks[n], b)) :
                     AcceptBlocks(n, <<b>> \o s, [peer EXCEPT ![n][q] = c])
                /\ net' = Consumed(n, q)
           ELSE LET cm == PushGetBlocks(<<c, <<>>>>, pindexBest[n], GetOrphanRoot(orphans, b))
                IN  /\ mapOrphanBlocks' = [mapOrphanBlocks EXCEPT ![n] = orphans]
                    /\ net' = Send(Consumed(n, q), n, q, cm[2])
                    /\ peer' = [peer EXCEPT ![n][q] =
                          IF IsInitialBlockDownload(n) THEN cm[1]
                          ELSE AskFor(cm[1], WantedByOrphan(orphans, b))]
                    /\ UNCHANGED <<mapBlockIndex, pindexBest>>
    /\ UNCHANGED <<nAskedForBlocks, faults>>

\* A block of its own (CheckWork).
FindBlock(n, b) ==
    /\ Miner[b] = n
    /\ b # Genesis /\ pprev[b] = pindexBest[n]
    /\ ~AlreadyHave(n, b)
    /\ \E s \in Cascades(Depend(mapOrphanBlocks[n], b)) : AcceptBlocks(n, <<b>> \o s, peer)
    /\ UNCHANGED <<nAskedForBlocks, net, faults>>

\* SendMessages: the announcements, and the requests that are due.
SendMessages(n, q, due) ==
    /\ Connected(n, q) /\ peer[n][q].nVersion
    /\ peer[n][q].vInventoryToSend # <<>> \/ due # {}
    /\ LET c == peer[n][q]
           inv == Among(c.vInventoryToSend, Blocks \ c.setInventoryKnown)
           data == Among(c.mapAskFor, due \ Had(n))
           message(type, s) == IF s = <<>> THEN <<>> ELSE <<[type |-> type, inv |-> s]>>
       IN  /\ peer' = [peer EXCEPT ![n][q] =
                 [c EXCEPT !.setInventoryKnown = @ \union ToSet(inv),
                           !.vInventoryToSend = <<>>,
                           !.mapAskFor = Among(@, Blocks \ due)]]
           /\ net' = Send(net, n, q, message("inv", inv) \o message("getdata", data))
    /\ UNCHANGED <<chainVars, nAskedForBlocks, faults>>

ReceiveAny(n, q) ==
    \/ ReceiveVersion(n, q)
    \/ ReceiveInv(n, q)
    \/ ReceiveGetBlocks(n, q)
    \/ ReceiveGetData(n, q)
    \/ ReceiveBlock(n, q)

-----------------------------------------------------------------------------
SyncInit ==
    /\ mapBlockIndex = [n \in Nodes |-> Branch[Tip[n]]]
    /\ pindexBest = Tip
    /\ mapOrphanBlocks = [n \in Nodes |-> {}]
    /\ nAskedForBlocks = [n \in Nodes |-> FALSE]
    /\ peer = [n \in Nodes |-> [q \in Nodes |-> Nil]]
    /\ net = [n \in Nodes |-> [q \in Nodes |-> <<>>]]
    /\ faults = 0

SyncNext ==
    \/ \E n \in Nodes, b \in Blocks : FindBlock(n, b)
    \/ \E n \in Nodes : RestartNode(n)
    \/ \E n, q \in Nodes :
          \/ Connect(n, q)
          \/ Disconnect(n, q)
          \/ ReceiveAny(n, q)
          \/ Connected(n, q) /\ \E due \in SUBSET ToSet(peer[n][q].mapAskFor) : SendMessages(n, q, due)

\* A lost connection is opened again, and the message handler serves every
\* connection again and again: each message is handled, and each announcement
\* and request goes out.  (The last two are the weak fairness of ReceiveAny and
\* of SendMessages with all requests due, in terms of what they do: the one
\* takes the head off the channel, after the other nothing is left to send.)
Unhandled(n, q) == net[q][n] # <<>>
Unsent(n, q) ==
    /\ Connected(n, q) /\ peer[n][q].nVersion
    /\ peer[n][q].vInventoryToSend # <<>> \/ peer[n][q].mapAskFor # <<>>

SyncFairness ==
    /\ \A e \in Outbound : WF_svars(Connect(e[1], e[2]))
    /\ \A e \in Outbound : \A n, q \in {e[1], e[2]} : n # q =>
          /\ []<>~Unhandled(n, q) \/ []<><<Len(net'[q][n]) < Len(net[q][n])>>_svars
          /\ []<>~Unsent(n, q)

SyncSpec == SyncInit /\ [][SyncNext]_svars /\ SyncFairness

-----------------------------------------------------------------------------
(***************************************************************************)
(* Properties.                                                             *)
(***************************************************************************)

\* The best block of a node is in its index with its branch, its orphans have
\* no parent there, and messages are only under way on connections.
SyncTypeOK ==
    /\ \A n \in Nodes :
          /\ Branch[pindexBest[n]] \subseteq mapBlockIndex[n]
          /\ \A b \in mapBlockIndex[n] : bnChainTrust[b] <= bnChainTrust[pindexBest[n]]
          /\ \A b \in mapOrphanBlocks[n] : pprev[b] \notin mapBlockIndex[n]
          /\ mapOrphanBlocks[n] \intersect mapBlockIndex[n] = {}
    /\ \A n, q \in Nodes :
          /\ Connected(n, q) <=> Connected(q, n)
          /\ net[n][q] # <<>> => Connected(n, q)

\* The blocks that messages announce, ask for or bring.
Carried(messages, type) == UNION {ToSet(m.inv) : m \in {x \in messages : x.type = type}}
Delivered(messages) == {m.block : m \in {x \in messages : x.type = "block"}}

InTransit(n, q, type) == Carried(ToSet(net[n][q]), type)
BlocksInTransit(n, q) == Delivered(ToSet(net[n][q]))

\* A block that n believes q to know is never lost between them: q has it, n
\* had it from q, or the announcement, the request or the block is on its way
\* (AddInventoryKnown, AskFor, SendMessages, getdata).
NothingForgotten ==
    \A n, q \in Nodes : Connected(n, q) =>
        peer[n][q].setInventoryKnown \subseteq
            mapBlockIndex[q] \union mapOrphanBlocks[q] \union InTransit(n, q, "inv")
            \union ToSet(peer[q][n].mapAskFor) \union InTransit(q, n, "getdata")
            \union BlocksInTransit(n, q)

\* No block is lost in a node or between two: its chain is the best of what it
\* has, its orphans wait for blocks it has not, and what it need not announce
\* the peer will get.
NoBlockLost == SyncTypeOK /\ NothingForgotten

\* q stopped an announcement at a block that n has already: n will not ask for
\* it, and q announces no more until it has a new block.
Stopped(n, q) == peer[q][n].hashContinue \in mapBlockIndex[n] \union mapOrphanBlocks[n]

\* Once no more blocks are found and connections last, connected nodes come
\* to equally good chains, whatever is lost with connections and restarts,
\* unless an announcement ended with a block that the peer had already
\* (version, inv, getblocks with hashContinue, getdata, orphans).
Converges ==
    <>[](\A n, q \in Nodes : Connected(n, q) =>
            \/ bnChainTrust[pindexBest[n]] = bnChainTrust[pindexBest[q]]
            \/ Stopped(n, q) \/ Stopped(q, n))

=============================================================================
