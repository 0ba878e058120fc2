------------------------------- MODULE Alerts -------------------------------
(***************************************************************************)
(* Alerts (alert.cpp): signed messages that are kept in mapAlerts while    *)
(* they are in effect, cancel each other by their numbers, and are relayed *)
(* to every peer once - when they are accepted, and to a peer that         *)
(* connects later with its version message. One thread handles the         *)
(* messages of all peers. Only alerts with a valid signature are modelled; *)
(* an alert is the record of the fields the code looks at, and its own     *)
(* hash.                                                                   *)
(***************************************************************************)
EXTENDS Integers, FiniteSetsExt, SequencesExt

CONSTANTS
    AllAlerts,   \* [nID, nCancel, setCancel, nMinVer, nMaxVer,
                 \*  nRelayUntil, nExpiration, nPriority, proper]
    AlertPeers,
    AlertVersions,  \* of the peers; 0 is that of a peer before its version message
    MyVersion,   \* PROTOCOL_VERSION
    MaxId,       \* the number reserved for a compromised key
    BanScore,    \* -banscore
    LastHour     \* bound: the clock stops

\* What whoever signs alerts has to respect: cancellation is a strict order,
\* and an alert is in effect for as long as those it cancels.
Cancels(a, b) == b.nID <= a.nCancel \/ b.nID \in a.setCancel
\* alert.nID = max is only taken in its one proper form.
Genuine(a) == a.nID = MaxId => a.proper
ASSUME AlertAssumption ==
    /\ AllAlerts \subseteq
         [nID : Int, nCancel : Int, setCancel : SUBSET Int, nMinVer : Int, nMaxVer : Int,
          nRelayUntil : Int, nExpiration : Int, nPriority : Int, proper : BOOLEAN]
    /\ 0 \notin AlertVersions
    /\ BanScore \in Nat \ {0} /\ LastHour \in Nat
    /\ \A a, b \in AllAlerts : Genuine(a) /\ Genuine(b) /\ Cancels(a, b) =>
         /\ ~Cancels(b, a)
         /\ b.nExpiration <= a.nExpiration
         /\ \A c \in AllAlerts : Cancels(b, c) => Cancels(a, c)

VARIABLES
    hour,          \* GetAdjustedTime
    mapAlerts,
    peer,          \* nVersion, setKnown, nMisbehavior; connected and banned
    told,          \* history: pairs of a peer and an alert it was sent, or has sent
    unsaid,        \* history: pairs, with an alert noted as known but not sent to a
                   \* peer that had not told its version
    received       \* history: the alerts that were in effect when they came

avars == <<hour, mapAlerts, peer, told, unsaid, received>>

NewPeer == [nVersion |-> 0, setKnown |-> {}, nMisbehavior |-> 0]
Gone == [nVersion |-> 0, setKnown |-> {}, nMisbehavior |-> -1]
Banned == [nVersion |-> 0, setKnown |-> {}, nMisbehavior |-> BanScore]
Connected(p) == peer[p].nMisbehavior \in 0..(BanScore - 1)

IsInEffect(a) == hour < a.nExpiration
AppliesTo(a, version) ==
    IsInEffect(a) /\ a.nMinVer <= version /\ version <= a.nMaxVer
AppliesToMe(a) == AppliesTo(a, MyVersion)

-----------------------------------------------------------------------------
(***************************************************************************)
(* RelayTo, for some alerts and every peer: an alert is noted as known     *)
(* whether or not it is sent.                                              *)
(***************************************************************************)
Unheard(peers, alerts) ==
    {pa \in peers \X alerts : Connected(pa[1]) /\ IsInEffect(pa[2])
                                /\ pa[2] \notin peer[pa[1]].setKnown}

SentTo(pa, version) ==
    AppliesTo(pa[2], version) \/ AppliesToMe(pa[2]) \/ hour < pa[2].nRelayUntil

-----------------------------------------------------------------------------
MayProcess(a) == IsInEffect(a) /\ Genuine(a)

\* Those that stay when a comes: not cancelled by it, not expired.
Remaining(a) == {b \in mapAlerts : ~Cancels(a, b) /\ IsInEffect(b)}

\* Mutant: an alert that was cancelled is taken when it comes again.
CancelledNever(a) == FALSE
IsCancelled(a) == \E b \in Remaining(a) : Cancels(b, a)

\* ProcessAlert erases what a cancels before it finds that a is cancelled.
Accept(p, a) ==
    LET new == Unheard(AlertPeers \ {p}, {a})
        sent == {pa \in new : SentTo(pa, peer[pa[1]].nVersion)}
    IN  /\ mapAlerts' = Remaining(a) \cup {a}
        /\ peer' = [q \in AlertPeers |->
                      IF q = p \/ <<q, a>> \in new
                      THEN [peer[q] EXCEPT !.setKnown = @ \cup {a}] ELSE peer[q]]
        /\ told' = told \cup {<<p, a>>} \cup sent
        /\ unsaid' = unsaid \cup {pa \in new \ sent : peer[pa[1]].nVersion = 0}

\* A small penalty, which adds up.
Refuse(p, a) ==
    /\ mapAlerts' = IF MayProcess(a) THEN Remaining(a) ELSE mapAlerts
    /\ peer' = [peer EXCEPT ![p] = IF peer[p].nMisbehavior + 10 < BanScore
                                   THEN [peer[p] EXCEPT !.nMisbehavior = @ + 10] ELSE Banned]
    /\ IF peer[p].nMisbehavior + 10 < BanScore
       THEN told' = told \cup {<<p, a>>} /\ UNCHANGED unsaid
       ELSE /\ told' = {pa \in told : pa[1] # p}
            /\ unsaid' = {pa \in unsaid : pa[1] # p}

\* The message "alert".
AlertMessage(p, a) ==
    /\ Connected(p) /\ peer[p].nVersion # 0
    /\ a \notin peer[p].setKnown
    /\ received' = IF MayProcess(a) THEN received \cup {a} ELSE received
    /\ IF MayProcess(a) /\ ~IsCancelled(a) THEN Accept(p, a) ELSE Refuse(p, a)
    /\ UNCHANGED hour

\* Mutant: the alerts are relayed before the version of the peer is known.
VersionTooLate(p, version) ==
    /\ Connected(p) /\ peer[p].nVersion = 0
    /\ LET new == Unheard({p}, mapAlerts)
           sent == {pa \in new : SentTo(pa, 0)}
       IN  /\ peer' = [peer EXCEPT ![p].nVersion = version,
                                   ![p].setKnown = @ \cup {pa[2] : pa \in new}]
           /\ told' = told \cup sent
    /\ UNCHANGED <<hour, mapAlerts, unsaid, received>>

\* The message "version", which every connection sends once.
VersionMessage(p, version) ==
    /\ Connected(p) /\ peer[p].nVersion = 0
    /\ LET new == Unheard({p}, mapAlerts)
           sent == {pa \in new : SentTo(pa, version)}
       IN  /\ peer' = [peer EXCEPT ![p].nVersion = version,
                                   ![p].setKnown = @ \cup {pa[2] : pa \in new}]
           /\ told' = told \cup sent
    /\ UNCHANGED <<hour, mapAlerts, unsaid, received>>

Connect(p) ==
    /\ peer[p] = Gone
    /\ peer' = [peer EXCEPT ![p] = NewPeer]
    /\ UNCHANGED <<hour, mapAlerts, told, unsaid, received>>

Disconnect(p) ==
    /\ Connected(p)
    /\ peer' = [peer EXCEPT ![p] = Gone]
    /\ told' = {pa \in told : pa[1] # p}
    /\ unsaid' = {pa \in unsaid : pa[1] # p}
    /\ UNCHANGED <<hour, mapAlerts, received>>

HourPasses ==
    /\ hour < LastHour
    /\ hour' = hour + 1
    /\ UNCHANGED <<mapAlerts, peer, told, unsaid, received>>

AlertInit ==
    /\ hour = 0
    /\ mapAlerts = {} /\ told = {} /\ unsaid = {} /\ received = {}
    /\ peer = [p \in AlertPeers |-> Gone]

AlertNext ==
    \/ \E p \in AlertPeers :
         \/ Connect(p) \/ Disconnect(p)
         \/ \E version \in AlertVersions : VersionMessage(p, version)
         \/ \E a \in AllAlerts : AlertMessage(p, a)
    \/ HourPasses

AlertSpec == AlertInit /\ [][AlertNext]_avars

-----------------------------------------------------------------------------
(***************************************************************************)
(* GetWarnings("rpc") and the priority of its status bar. The warnings of  *)
(* the program itself come first; mapAlerts is walked in the order of      *)
(* hashes. An invalid checkpoint is a warning with priority 3000 that      *)
(* enters the safe mode.                                                   *)
(***************************************************************************)
GetWarnings(own, order) ==
    FoldLeft(LAMBDA w, a :
               IF AppliesToMe(a) /\ a.nPriority > w.nPriority
               THEN [nPriority |-> a.nPriority,
                     rpc |-> IF a.nPriority > 1000 THEN "warning" ELSE w.rpc]
               ELSE w,
             [nPriority |-> own, rpc |-> IF own = 3000 THEN "warning" ELSE "none"], order)

-----------------------------------------------------------------------------
(* Properties. *)

\* Type invariant.
AlertTypeOK ==
    /\ hour \in 0..LastHour
    /\ mapAlerts \subseteq received /\ received \subseteq AllAlerts
    /\ peer \in [AlertPeers -> [nVersion : AlertVersions \cup {0},
                                setKnown : SUBSET AllAlerts,
                                nMisbehavior : -1..BanScore]]
    /\ told \subseteq AlertPeers \X AllAlerts /\ unsaid \subseteq AlertPeers \X AllAlerts

Shown == {a \in mapAlerts : IsInEffect(a)}

\* The alerts shown depend on the alerts that came, not on their order, nor on
\* how often they came: those in effect that no other one in effect cancels.
AlertsConverge ==
    Shown = {a \in received : IsInEffect(a) /\
               ~\E b \in received : IsInEffect(b) /\ Cancels(b, a)}

\* A peer that has told its version knows every alert that is shown and meant
\* for it: it has sent it or was sent it, unless it had not told its version
\* when the alert came, one that does not concern this node any more.
AlertsReach ==
    \A p \in AlertPeers, a \in Shown :
      Connected(p) /\ peer[p].nVersion # 0 /\ AppliesTo(a, peer[p].nVersion) =>
        \/ <<p, a>> \in told
        \/ <<p, a>> \in unsaid /\ ~AppliesToMe(a) /\ hour >= a.nRelayUntil

\* In whatever order the alerts are walked: the safe mode is entered for an
\* invalid checkpoint or a high alert, and the highest warning is shown.
SafeModeFollows ==
    \A own \in {0, 100, 1000, 3000}, order \in SetToSeqs(mapAlerts) :
      LET w == GetWarnings(own, order)
          mine == {a.nPriority : a \in {b \in mapAlerts : AppliesToMe(b)}}
      IN  /\ w.nPriority = Max(mine \cup {own})
          /\ own <= 1000 => (w.rpc # "none" <=> \E n \in mine : n > 1000)
          /\ own = 3000 => w.rpc # "none"

AlertsSound == AlertTypeOK /\ AlertsConverge /\ AlertsReach /\ SafeModeFollows
=============================================================================
