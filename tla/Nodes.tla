-------------------------------- MODULE Nodes --------------------------------
(***************************************************************************)
(* The life of a CNode, shared by the threads of net.cpp: two threads open *)
(* connections, one accepts, serves and deletes them, and one handles the  *)
(* messages.  vNodes is guarded by cs_vNodes; nRefCount, grantOutbound and *)
(* the flags of a node have no lock of their own.                          *)
(***************************************************************************)
EXTENDS Naturals, Integers, FiniteSets, FiniteSetsExt

CONSTANTS
    NodeIds,      \* bound: the CNodes that are ever created
    Remotes,      \* the addresses that connect or are connected to
    Openers,      \* ThreadOpenConnections and ThreadOpenAddedConnections
    MaxOutbound,  \* MAX_OUTBOUND_CONNECTIONS, with which semOutbound starts
    MaxInbound,
    Null

ASSUME NodesAssumption ==
    /\ MaxOutbound \in Nat \ {0}
    /\ MaxInbound \in Nat
    /\ Null \notin NodeIds \union Remotes
    /\ IsFiniteSet(NodeIds) /\ IsFiniteSet(Openers)

VARIABLES
    cnode,               \* the fields of every CNode
    vNodes,
    vNodesDisconnected,
    deleted,
    semOutbound,         \* the value of the semaphore
    opener,              \* of each opening thread where it is, and what it holds
    socket,              \* where ThreadSocketHandler is, and what it removes
    handler,             \* where ThreadMessageHandler is, and its copy of vNodes
    fShutdown,
    torn,                \* history: a count or a grant was changed by two threads at once
    late                 \* history: it is not Release that ends the last reference

nvars == <<cnode, vNodes, vNodesDisconnected, deleted, semOutbound, opener, socket, handler,
           fShutdown, torn, late>>
history == <<torn, late>>

NoNode == [addr |-> Null, fInbound |-> FALSE, fNetworkNode |-> FALSE, fDisconnect |-> FALSE,
           nRefCount |-> 0, fHaveGrant |-> FALSE, held |-> FALSE]
Idle == [pc |-> "idle", addr |-> Null, node |-> Null, grant |-> FALSE, count |-> 0]

Created == {n \in NodeIds : cnode[n].addr # Null}
Creates(n) == Created # NodeIds /\ n = CHOOSE m \in NodeIds : m \notin Created

\* The socket handler holds cs_vNodes from the first removal to the last deletion.
Locked == socket.pc \in {"unlist", "clear"}

GetRefCount(n) == Max({cnode[n].nRefCount, 0}) + (IF cnode[n].held THEN 1 ELSE 0)

\* AddRef and Release of every node of S.
Counted(nodes, S, d) ==
    [n \in NodeIds |-> IF n \in S THEN [nodes[n] EXCEPT !.nRefCount = @ + d] ELSE nodes[n]]

-----------------------------------------------------------------------------
(***************************************************************************)
(* Opening connections.                                                    *)
(***************************************************************************)
At(o, pc) == opener[o].pc = pc
Moves(o, r) == opener' = [opener EXCEPT ![o] = r]

\* CSemaphoreGrant grant(*semOutbound), and the beginning of
\* OpenNetworkConnection, which connects to no address that it finds.  (If there
\* is none to connect to the grant is released again.)
Acquire(o, a) ==
    /\ At(o, "idle") /\ ~Locked /\ ~fShutdown
    /\ semOutbound > 0
    /\ \A n \in vNodes : cnode[n].addr # a
    /\ semOutbound' = semOutbound - 1
    /\ Moves(o, [Idle EXCEPT !.pc = "find", !.addr = a, !.grant = TRUE])
    /\ UNCHANGED <<cnode, vNodes, vNodesDisconnected, deleted, socket, handler, fShutdown, history>>

\* Mutant: a grant that was moved is released all the same.
GivesUpMoved(o) ==
    /\ semOutbound' = semOutbound + 1
    /\ Moves(o, [Idle EXCEPT !.pc = IF fShutdown THEN "ended" ELSE "idle"])

\* The grant leaves its scope, and the thread with it if it has to stop.
GivesUp(o) ==
    /\ semOutbound' = semOutbound + (IF opener[o].grant THEN 1 ELSE 0)
    /\ Moves(o, [Idle EXCEPT !.pc = IF fShutdown THEN "ended" ELSE "idle"])

\* The connection is not made.
GiveUp(o) ==
    /\ At(o, "dial")
    /\ GivesUp(o)
    /\ UNCHANGED <<cnode, vNodes, vNodesDisconnected, deleted, socket, handler, fShutdown, history>>

\* The port of an incoming connection is not the one its peer listens at.
SameService(n, a) == cnode[n].addr = a /\ ~cnode[n].fInbound

\* ConnectNode looks once more: another thread may have connected meanwhile.
\* The node is used after the lock is given back.
FindExisting(o) ==
    /\ At(o, "find") /\ ~Locked
    /\ LET found == {n \in vNodes : SameService(n, opener[o].addr)}
       IN  \/ /\ found = {}
              /\ Moves(o, [opener[o] EXCEPT !.pc = "dial"])
           \/ \E n \in found :
                 Moves(o, [opener[o] EXCEPT !.pc = "found", !.node = n, !.count = cnode[n].nRefCount])
    /\ UNCHANGED <<cnode, vNodes, vNodesDisconnected, deleted, semOutbound, socket, handler,
                   fShutdown, history>>

\* nRefCount++ without the lock: a change made since the count was read, or
\* this one, may be lost.
AddRefFound(o) ==
    /\ At(o, "found")
    /\ LET n == opener[o].node
           now == cnode[n].nRefCount
       IN  \E c \in {opener[o].count + 1, now + 1} \union (IF now # opener[o].count THEN {now} ELSE {}) :
              /\ cnode' = [cnode EXCEPT ![n].nRefCount = c]
              /\ torn' = IF c = now + 1 THEN torn ELSE torn \union {n}
              /\ late' = late \union {n}
    /\ Moves(o, [opener[o] EXCEPT !.pc = "connected"])
    /\ UNCHANGED <<vNodes, vNodesDisconnected, deleted, semOutbound, socket, handler, fShutdown>>

\* ConnectSocket succeeds: the node is listed before it gets the grant.
Dial(o, n) ==
    /\ At(o, "dial") /\ ~Locked
    /\ Creates(n)
    /\ cnode' = [cnode EXCEPT ![n] = [NoNode EXCEPT !.addr = opener[o].addr, !.nRefCount = 1]]
    /\ vNodes' = vNodes \union {n}
    /\ Moves(o, [opener[o] EXCEPT !.pc = "connected", !.node = n])
    /\ UNCHANGED <<vNodesDisconnected, deleted, semOutbound, socket, handler, fShutdown, history>>

\* What grant.Release() posts.
Released(have) == IF have THEN 1 ELSE 0

\* MoveTo: the grant the node has is released, then it gets that of the thread.
MoveGrant(o) ==
    /\ At(o, "connected") /\ ~fShutdown
    /\ LET n == opener[o].node
       IN  /\ semOutbound' = semOutbound + Released(cnode[n].fHaveGrant)
           /\ cnode' = [cnode EXCEPT ![n].fHaveGrant = opener[o].grant]
           /\ torn' = IF socket.pc = "clear" /\ socket.node = n THEN torn \union {n} ELSE torn
    /\ Moves(o, [opener[o] EXCEPT !.pc = "moved", !.grant = FALSE])
    /\ UNCHANGED <<vNodes, vNodesDisconnected, deleted, socket, handler, fShutdown, late>>

\* The node is no longer this thread's; from now on its removal ends the reference.
MarkNetworkNode(o) ==
    /\ At(o, "moved")
    /\ cnode' = [cnode EXCEPT ![opener[o].node].fNetworkNode = TRUE]
    /\ GivesUp(o)
    /\ UNCHANGED <<vNodes, vNodesDisconnected, deleted, socket, handler, fShutdown, history>>

\* A thread that waits or connects returns once fShutdown is set.
StopOpener(o) ==
    /\ fShutdown
    /\ opener[o].pc \in {"find", "connected"} \/ (At(o, "idle") /\ semOutbound > 0)
    /\ GivesUp(o)
    /\ UNCHANGED <<cnode, vNodes, vNodesDisconnected, deleted, socket, handler, fShutdown, history>>

OpenerStep(o) ==
    \/ \E a \in Remotes : Acquire(o, a)
    \/ GiveUp(o)
    \/ FindExisting(o)
    \/ AddRefFound(o)
    \/ \E n \in NodeIds : Dial(o, n)
    \/ MoveGrant(o)
    \/ MarkNetworkNode(o)
    \/ StopOpener(o)

-----------------------------------------------------------------------------
(***************************************************************************)
(* ThreadSocketHandler.                                                    *)
(***************************************************************************)
Socket(pc) == socket' = [socket EXCEPT !.pc = pc]

\* Mutant: the counts are not looked at.
DeletableHeld(n) == ~cnode[n].held

\* "wait until threads are done using it"
Deletable(n) == GetRefCount(n) = 0

\* Takes cs_vNodes and finds what to remove.  A node without references goes
\* if its buffers are empty, which they may be or not.  (A pass that finds
\* nothing to do is left out.)
Sweep ==
    /\ socket.pc = "serve"
    /\ LET flagged == {n \in vNodes : cnode[n].fDisconnect}
           unused == {n \in vNodes : GetRefCount(n) = 0}
       IN  \E S \in SUBSET unused :
              /\ flagged \union S # {} \/ \E n \in vNodesDisconnected : Deletable(n)
              /\ socket' = [socket EXCEPT !.pc = "unlist", !.todo = flagged \union S]
    /\ UNCHANGED <<cnode, vNodes, vNodesDisconnected, deleted, semOutbound, opener, handler,
                   fShutdown, history>>

\* Mutant: only the connections that this node opened are counted.
EndsReferenceOutbound(n) == cnode[n].fNetworkNode

\* The reference of whoever connected is ended if that thread is through.
EndsReference(n) == cnode[n].fNetworkNode \/ cnode[n].fInbound

\* Mutant: the node is in no list any more.
RetireForgotten(n) ==
    /\ cnode' = [cnode EXCEPT ![n].held = TRUE, ![n].fHaveGrant = FALSE]
    /\ UNCHANGED <<vNodesDisconnected, late>>

\* The node is held in the disconnected pool.
Retire(n) ==
    /\ cnode' = [cnode EXCEPT ![n].fDisconnect = TRUE, ![n].held = TRUE, ![n].fHaveGrant = FALSE,
                              ![n].nRefCount = @ - (IF EndsReference(n) THEN 1 ELSE 0)]
    /\ vNodesDisconnected' = vNodesDisconnected \union {n}
    /\ late' = IF cnode[n].fNetworkNode \/ cnode[n].fInbound THEN late ELSE late \union {n}

\* The node leaves vNodes, and grantOutbound.Release() posts its grant ...
Unlist(n) ==
    /\ socket.pc = "unlist" /\ n \in socket.todo
    /\ vNodes' = vNodes \ {n}
    /\ semOutbound' = semOutbound + Released(cnode[n].fHaveGrant)
    /\ IF cnode[n].fHaveGrant
       THEN /\ socket' = [socket EXCEPT !.pc = "clear", !.node = n, !.todo = @ \ {n}]
            /\ UNCHANGED <<cnode, vNodesDisconnected, late>>
       ELSE /\ socket' = [socket EXCEPT !.todo = @ \ {n}]
            /\ Retire(n)
    /\ UNCHANGED <<deleted, opener, handler, fShutdown, torn>>

\* ... before it notes that there is none any more.
ClearGrant ==
    /\ socket.pc = "clear"
    /\ Retire(socket.node)
    /\ socket' = [socket EXCEPT !.pc = "unlist", !.node = Null]
    /\ UNCHANGED <<vNodes, semOutbound, deleted, opener, handler, fShutdown, torn>>

\* The end of the pass.  The destructor of a node releases its grant.  (The
\* locks of the node are free: who works on a node has a reference.)
Delete ==
    /\ socket.pc = "unlist" /\ socket.todo = {}
    /\ LET S == {n \in vNodesDisconnected : Deletable(n)}
       IN  /\ vNodesDisconnected' = vNodesDisconnected \ S
           /\ deleted' = deleted \union S
           /\ semOutbound' = semOutbound + Cardinality({n \in S : cnode[n].fHaveGrant})
           /\ cnode' = [n \in NodeIds |-> IF n \in S THEN [cnode[n] EXCEPT !.fHaveGrant = FALSE]
                                          ELSE cnode[n]]
    /\ Socket("serve")
    /\ UNCHANGED <<vNodes, opener, handler, fShutdown, history>>

\* A connection is accepted.
Accept(n, a) ==
    /\ socket.pc = "serve" /\ ~fShutdown
    /\ Creates(n)
    /\ Cardinality({m \in vNodes : cnode[m].fInbound}) < MaxInbound
    /\ cnode' = [cnode EXCEPT ![n] = [NoNode EXCEPT !.addr = a, !.fInbound = TRUE, !.nRefCount = 1]]
    /\ vNodes' = vNodes \union {n}
    /\ UNCHANGED <<vNodesDisconnected, deleted, semOutbound, opener, socket, handler, fShutdown, history>>

\* The peer has closed, or an error or a timeout was found.  (The references
\* this thread takes here it gives back before it looks at them again.)
CloseSocket(n) ==
    /\ socket.pc = "serve" /\ n \in vNodes
    /\ ~cnode[n].fDisconnect
    /\ cnode' = [cnode EXCEPT ![n].fDisconnect = TRUE]
    /\ UNCHANGED <<vNodes, vNodesDisconnected, deleted, semOutbound, opener, socket, handler,
                   fShutdown, history>>

StopSocket ==
    /\ fShutdown /\ socket.pc = "serve"
    /\ Socket("ended")
    /\ UNCHANGED <<cnode, vNodes, vNodesDisconnected, deleted, semOutbound, opener, handler,
                   fShutdown, history>>

SocketStep ==
    \/ Sweep \/ ClearGrant \/ Delete \/ StopSocket
    \/ \E n \in NodeIds : Unlist(n)

\* nReleaseTime has passed.  No thread needs 15 minutes from finding a node in
\* vNodes to taking its reference.
Expire(n) ==
    /\ cnode[n].held
    /\ \A o \in Openers : ~(At(o, "found") /\ opener[o].node = n)
    /\ cnode' = [cnode EXCEPT ![n].held = FALSE]
    /\ UNCHANGED <<vNodes, vNodesDisconnected, deleted, semOutbound, opener, socket, handler,
                   fShutdown, history>>

-----------------------------------------------------------------------------
(***************************************************************************)
(* ThreadMessageHandler, and the end.                                      *)
(***************************************************************************)
Working == handler.pc = "work"

CopyToHandle ==
    /\ handler.pc = "wait" /\ ~Locked /\ ~fShutdown
    /\ handler' = [pc |-> "work", copy |-> vNodes]
    /\ cnode' = Counted(cnode, vNodes, 1)
    /\ UNCHANGED <<vNodes, vNodesDisconnected, deleted, semOutbound, opener, socket, fShutdown, history>>

\* A message that has the peer disconnected (Misbehaving).
Misbehave(n) ==
    /\ Working /\ n \in handler.copy
    /\ ~cnode[n].fDisconnect
    /\ cnode' = [cnode EXCEPT ![n].fDisconnect = TRUE]
    /\ UNCHANGED <<vNodes, vNodesDisconnected, deleted, semOutbound, opener, socket, handler,
                   fShutdown, history>>

EndHandle ==
    /\ Working /\ ~Locked
    /\ handler' = [pc |-> "wait", copy |-> {}]
    /\ cnode' = Counted(cnode, handler.copy, -1)
    /\ UNCHANGED <<vNodes, vNodesDisconnected, deleted, semOutbound, opener, socket, fShutdown, history>>

StopHandler ==
    /\ fShutdown /\ handler.pc # "ended"
    /\ handler' = [handler EXCEPT !.pc = "ended"]
    /\ UNCHANGED <<cnode, vNodes, vNodesDisconnected, deleted, semOutbound, opener, socket,
                   fShutdown, history>>

HandlerStep == CopyToHandle \/ EndHandle \/ StopHandler

\* Mutant: whoever waits for the semaphore is left to wait.
PostedNever(value) == value

\* The opening threads may all be waiting for it.
Posted(value) == value + MaxOutbound

StopNode ==
    /\ ~fShutdown
    /\ fShutdown' = TRUE
    /\ semOutbound' = Posted(semOutbound)
    /\ UNCHANGED <<cnode, vNodes, vNodesDisconnected, deleted, opener, socket, handler, history>>

-----------------------------------------------------------------------------
NodesInit ==
    /\ cnode = [n \in NodeIds |-> NoNode]
    /\ vNodes = {} /\ vNodesDisconnected = {} /\ deleted = {}
    /\ semOutbound = MaxOutbound
    /\ opener = [o \in Openers |-> Idle]
    /\ socket = [pc |-> "serve", todo |-> {}, node |-> Null]
    /\ handler = [pc |-> "wait", copy |-> {}]
    /\ fShutdown = FALSE
    /\ torn = {} /\ late = {}

NodesNext ==
    \/ \E o \in Openers : OpenerStep(o)
    \/ SocketStep
    \/ \E n \in NodeIds, a \in Remotes : Accept(n, a)
    \/ \E n \in NodeIds : CloseSocket(n) \/ Misbehave(n) \/ Expire(n)
    \/ HandlerStep
    \/ StopNode

\* Every thread goes on, and time passes.
NodesFairness ==
    /\ WF_nvars(SocketStep)
    /\ WF_nvars(HandlerStep)
    /\ \A o \in Openers : WF_nvars(OpenerStep(o))
    /\ \A n \in NodeIds : WF_nvars(Expire(n))

NodesSpec == NodesInit /\ [][NodesNext]_nvars /\ NodesFairness

-----------------------------------------------------------------------------
(***************************************************************************)
(* Properties.                                                             *)
(***************************************************************************)

\* The properties promise nothing about a node whose count was torn.
Untorn == torn = {}

\* A node is in vNodes, disconnected or deleted, and on the way from one to the
\* other only while cs_vNodes is held.
NodesTypeOK ==
    /\ vNodes \intersect vNodesDisconnected = {}
    /\ (vNodes \union vNodesDisconnected) \intersect deleted = {}
    /\ Created \ (vNodes \union vNodesDisconnected \union deleted) \subseteq {socket.node}
    /\ socket.todo \subseteq vNodes
    /\ semOutbound \in 0..(3 * MaxOutbound)

\* No thread holds a pointer to a deleted node, as long as no count was changed
\* by two threads at once (AddRef, Release, the 15 minutes of nReleaseTime).
NotUsedAfterDelete ==
    \A n \in deleted \ torn :
        /\ n \notin handler.copy
        /\ \A o \in Openers : opener[o].node # n

Grants(n) == cnode[n].fHaveGrant /\ ~(socket.pc = "clear" /\ socket.node = n)

\* Every grant of the semaphore is free, with a thread or with one node
\* (MoveTo, Release, the destructors of grants and nodes).
GrantsConserved ==
    ~fShutdown /\ torn = {} =>
        semOutbound + Cardinality({o \in Openers : opener[o].grant})
                    + Cardinality({n \in NodeIds : Grants(n)}) = MaxOutbound

\* A node is in one place, served from vNodes only, not used after it was
\* deleted, and has its grant to itself.
NodesSound == NodesTypeOK /\ NotUsedAfterDelete /\ GrantsConserved

\* A node whose connecting thread was through with it when it was removed is
\* deleted when the other threads are done with it.
NodesAreFreed ==
    \A n \in NodeIds :
        (n \in vNodesDisconnected \ (late \union torn)) ~>
            (n \in deleted \union late \union torn \/ fShutdown)

\* After StopNode every thread ends, also those that wait for the semaphore.
ThreadsEnd ==
    fShutdown ~> /\ \A o \in Openers : At(o, "ended")
                 /\ socket.pc = "ended" /\ handler.pc = "ended"

\* Removed nodes are deleted and stopped threads end: nothing waits for ever
\* for a reference or for the semaphore.
NothingHangs == NodesAreFreed /\ ThreadsEnd

=============================================================================
