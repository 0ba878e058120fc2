---------------------------- MODULE MCBlockSync ----------------------------
(***************************************************************************)
(* Two nodes, a chain that takes more than one batch and a shorter rival:  *)
(*                                                                         *)
(*    g --+-- a1 -- a2 -- a3 -- a4                                         *)
(*        +-- b1                                                           *)
(***************************************************************************)
EXTENDS BlockSync, TLC

CONSTANTS g, a1, a2, a3, a4, b1, n1, n2

MCBlocks == {g, a1, a2, a3, a4, b1}
MCpprev == a1 :> g @@ a2 :> a1 @@ a3 :> a2 @@ a4 :> a3 @@ b1 :> g
MCBranch == g :> {g} @@ a1 :> {g, a1} @@ a2 :> {g, a1, a2} @@ a3 :> {g, a1, a2, a3}
            @@ a4 :> {g, a1, a2, a3, a4} @@ b1 :> {g, b1}
MCnHeight == g :> 0 @@ a1 :> 1 @@ a2 :> 2 @@ a3 :> 3 @@ a4 :> 4 @@ b1 :> 1
MCMiner == [b \in MCBlocks |-> IF b = b1 THEN n2 ELSE n1]
MCOutbound == {<<n2, n1>>}
MCTip == n1 :> a3 @@ n2 :> g

=============================================================================
