------------------------------ MODULE Services ------------------------------
(***************************************************************************)
(* Six services of a node that share no state, each with the              *)
(* interleavings of its own: transactions that are signed by several       *)
(* parties (Signing), a wallet that is unlocked for a while (Relock),      *)
(* transactions that arrive before their parents (OrphanTxs), the handles  *)
(* of the database files (DbEnv), alerts (Alerts), and the balances of a   *)
(* wallet with their caches (Balances). A behaviour is one of one of them. *)
(***************************************************************************)
EXTENDS Signing, Relock, OrphanTxs, DbEnv, Alerts, Balances

VARIABLE service

vars == <<service, svars, rvars, ovars, dvars, avars, bvars>>

OfSigning(step) ==
    service = "signing" /\ step /\ UNCHANGED <<service, rvars, ovars, dvars, avars, bvars>>
OfRelock(step) ==
    service = "relock" /\ step /\ UNCHANGED <<service, svars, ovars, dvars, avars, bvars>>
OfOrphans(step) ==
    service = "orphans" /\ step /\ UNCHANGED <<service, svars, rvars, dvars, avars, bvars>>
OfDatabase(step) ==
    service = "database" /\ step /\ UNCHANGED <<service, svars, rvars, ovars, avars, bvars>>
OfAlerts(step) ==
    service = "alerts" /\ step /\ UNCHANGED <<service, svars, rvars, ovars, dvars, bvars>>
OfBalances(step) ==
    service = "balances" /\ step /\ UNCHANGED <<service, svars, rvars, ovars, dvars, avars>>

Init ==
    /\ service \in {"signing", "relock", "orphans", "database", "alerts", "balances"}
    /\ SigningInit /\ RelockInit /\ OrphanInit /\ DbInit /\ AlertInit
    /\ BalanceInit

Next ==
    \/ OfSigning(SigningNext) \/ OfRelock(RelockNext) \/ OfOrphans(OrphanNext)
    \/ OfDatabase(DbNext) \/ OfAlerts(AlertNext)
    \/ OfBalances(BalanceNext)

\* The fairness of each service (RelockSpec, OrphanSpec, DbSpec); nobody has to
\* sign, to send an alert or to pay.
Spec ==
    /\ Init /\ [][Next]_vars
    /\ WF_vars(OfRelock(Returns))
    /\ \A t \in Calls : WF_vars(OfRelock(ThreadStep(t)))
    /\ WF_vars(OfRelock(Tick))
    /\ WF_vars(OfOrphans(HandlerStep))
    /\ \A u \in Users : WF_vars(OfDatabase(Finishes(u)))
    /\ WF_vars(OfDatabase(FlushWallet)) /\ WF_vars(OfDatabase(ShutdownStep))

\* What was begun ends: an unlocked wallet is locked again, a tx message is
\* handled to the end, an update of the wallet reaches its file.
ServicesEnd == WalletIsRelocked /\ MessageEnds /\ WalletIsFlushed
=============================================================================
