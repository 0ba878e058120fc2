---------------------------- MODULE MCWalletChain ----------------------------
(***************************************************************************)
(* A small tree for WalletChain.  c pays the wallet two coins:             *)
(*                                                                         *)
(*    g -- p1 <<z>> -- p2 <<c>> --+-- a3 <<k, t>>                          *)
(*                                +-- b3 <<t>> --+-- b4 -- b5 <<y>>        *)
(*                                               +-- x4 (unsound)          *)
(*                                                                         *)
(* k is a coinstake of the wallet for the first coin, t pays with the      *)
(* second one, y is a foreign transaction that spends the first coin and   *)
(* an output of t, and u a payment the wallet may make of the first coin.  *)
(***************************************************************************)
EXTENDS WalletChain, TLC

CONSTANTS g, p1, p2, a3, b3, b4, b5, x4, z, c, k, t, y, u

MCBlocks == {g, p1, p2, a3, b3, b4, b5, x4}
MCTxs == {z, c, k, t, y, u}
MCpprev == p1 :> g @@ p2 :> p1 @@ a3 :> p2 @@ b3 :> p2 @@ b4 :> b3
            @@ b5 :> b4 @@ x4 :> b3
MCBranch ==
    LET up[b \in MCBlocks] == IF b = g THEN {g} ELSE {b} \union up[MCpprev[b]]
    IN  up
MCnHeight == [b \in MCBlocks |-> Cardinality(MCBranch[b]) - 1]
MCbnChainTrust == g :> 0 @@ p1 :> 1 @@ p2 :> 2 @@ a3 :> 4 @@ b3 :> 3
                  @@ b4 :> 6 @@ b5 :> 7 @@ x4 :> 5
MCvtx == g :> <<>> @@ p1 :> <<z>> @@ p2 :> <<c>> @@ a3 :> <<k, t>>
         @@ b3 :> <<t>> @@ b4 :> <<>> @@ b5 :> <<y>> @@ x4 :> <<y>>
MCvin == z :> {} @@ c :> {<<z, 0>>} @@ k :> {<<c, 0>>} @@ t :> {<<c, 1>>}
         @@ y :> {<<c, 0>>, <<t, 1>>} @@ u :> {<<c, 0>>}
MCvout == z :> 1 @@ c :> 2 @@ k :> 1 @@ t :> 2 @@ y :> 1 @@ u :> 1
MCMine == {<<c, 0>>, <<c, 1>>, <<k, 0>>, <<t, 0>>}

\* The variables of a switch mean nothing when none is open.
Live == <<mapBlockIndex, pnext, pindexBest, disk, pc, poolVars, faultVars, intact,
          walletVars, IF pc = "switch" THEN switchVars ELSE <<>> >>

=============================================================================
