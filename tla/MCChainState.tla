----------------------------- MODULE MCChainState -----------------------------
(***************************************************************************)
(* A small block tree for ChainState.  p1 creates the coinbase c; two      *)
(* branches leave p2 and share the transaction t:                          *)
(*                                                                         *)
(*    g -- p1 <<c>> -- p2 --+-- a3 <<t, w>> -- a4 <<s>>                    *)
(*                          +-- b3 <<t>> -- b4 <<k, u>> --+-- b5 <<s>>     *)
(*                                                        +-- d5           *)
(*                                                                         *)
(* w and u spend the same output of t, s spends w, k is a coinstake.  b5   *)
(* spends w, which is not on its branch.                                   *)
(***************************************************************************)
EXTENDS ChainState, TLC

CONSTANTS g, p1, p2, a3, a4, b3, b4, b5, d5, c, t, w, s, k, u

MCBlocks == {g, p1, p2, a3, a4, b3, b4, b5, d5}
MCTxs == {c, t, w, s, k, u}
MCpprev == p1 :> g @@ p2 :> p1 @@ a3 :> p2 @@ a4 :> a3 @@ b3 :> p2
           @@ b4 :> b3 @@ b5 :> b4 @@ d5 :> b4
MCBranch ==
    LET up[b \in MCBlocks] == IF b = g THEN {g} ELSE {b} \union up[MCpprev[b]]
    IN  up
MCnHeight == [b \in MCBlocks |-> Cardinality(MCBranch[b]) - 1]
MCbnChainTrust == g :> 0 @@ p1 :> 1 @@ p2 :> 2 @@ a3 :> 4 @@ a4 :> 6 @@ b3 :> 3
                  @@ b4 :> 5 @@ b5 :> 7 @@ d5 :> 8
MCvtx == g :> <<>> @@ p1 :> <<c>> @@ p2 :> <<>> @@ a3 :> <<t, w>> @@ a4 :> <<s>>
         @@ b3 :> <<t>> @@ b4 :> <<k, u>> @@ b5 :> <<s>> @@ d5 :> <<>>
MCvin == c :> {} @@ t :> {<<c, 0>>} @@ w :> {<<t, 0>>} @@ s :> {<<w, 0>>}
         @@ k :> {<<c, 1>>} @@ u :> {<<t, 0>>}
MCvout == c :> 2 @@ t :> 1 @@ w :> 1 @@ s :> 1 @@ k :> 1 @@ u :> 1

=============================================================================
