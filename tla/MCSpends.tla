------------------------------- MODULE MCSpends -------------------------------
(***************************************************************************)
(* A block tree for ChainState in which most blocks break one rule of      *)
(* ConnectBlock.  The coinbase c matures after two blocks.                 *)
(*                                                                         *)
(*    g -- p1 <<c>> --+-- i2 <<t>>             t spends immature c         *)
(*                    +-- b2                   low, with much trust        *)
(*                    +-- p2 --+-- x3 <<t, u>> t and u spend the same      *)
(*                             +-- y3 <<w, t>> w spends t, too early       *)
(*                             +-- e3          not sound                   *)
(*                             +-- a3 <<t>> --+-- d4 <<u>>  double spend   *)
(*                                            +-- r4 <<r>>  out of range   *)
(*                                            +-- z4 <<c>>  c is not spent *)
(*                                            +-- a4 <<w>>                 *)
(***************************************************************************)
EXTENDS ChainState, TLC

CONSTANTS g, p1, p2, i2, b2, x3, y3, e3, a3, d4, r4, z4, a4, c, t, u, w, r

MCBlocks == {g, p1, p2, i2, b2, x3, y3, e3, a3, d4, r4, z4, a4}
MCTxs == {c, t, u, w, r}
MCpprev == p1 :> g @@ p2 :> p1 @@ i2 :> p1 @@ b2 :> p1 @@ x3 :> p2 @@ y3 :> p2 @@ e3 :> p2
           @@ a3 :> p2 @@ d4 :> a3 @@ r4 :> a3 @@ z4 :> a3 @@ a4 :> a3
MCBranch ==
    LET up[b \in MCBlocks] == IF b = g THEN {g} ELSE {b} \union up[MCpprev[b]]
    IN  up
MCnHeight == [b \in MCBlocks |-> Cardinality(MCBranch[b]) - 1]
MCbnChainTrust == g :> 0 @@ p1 :> 1 @@ p2 :> 2 @@ i2 :> 6 @@ b2 :> 5 @@ x3 :> 4 @@ y3 :> 4
                  @@ e3 :> 5 @@ a3 :> 3 @@ d4 :> 5 @@ r4 :> 5 @@ z4 :> 5 @@ a4 :> 4
MCvtx == g :> <<>> @@ p1 :> <<c>> @@ p2 :> <<>> @@ i2 :> <<t>> @@ b2 :> <<>> @@ x3 :> <<t, u>>
         @@ y3 :> <<w, t>> @@ e3 :> <<>> @@ a3 :> <<t>> @@ d4 :> <<u>> @@ r4 :> <<r>>
         @@ z4 :> <<c>> @@ a4 :> <<w>>
MCvin == c :> {} @@ t :> {<<c, 0>>} @@ u :> {<<c, 0>>} @@ w :> {<<t, 0>>} @@ r :> {<<t, 1>>}
MCvout == c :> 2 @@ t :> 1 @@ u :> 1 @@ w :> 1 @@ r :> 1

=============================================================================
