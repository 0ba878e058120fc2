---------------------------- MODULE MCBlockIntake ----------------------------
(***************************************************************************)
(* A small tree for BlockIntake.  Three blocks share the stake S; x3 is    *)
(* refused by ConnectBlock, y4 is at the height of a hardened checkpoint.  *)
(*                                                                         *)
(*                 +-- a2 (S) --+-- a3                                     *)
(*    g --- p1 ----+            +-- x3 -- y4 (S)                           *)
(*                 +-- b2 -------- b3 (S) -- b4                            *)
(***************************************************************************)
EXTENDS BlockIntake, TLC

CONSTANTS g, p1, a2, a3, x3, y4, b2, b3, b4, S

MCBlocks == {g, p1, a2, a3, x3, y4, b2, b3, b4}
MCpprev == p1 :> g @@ a2 :> p1 @@ a3 :> a2 @@ x3 :> a2 @@ y4 :> x3
           @@ b2 :> p1 @@ b3 :> b2 @@ b4 :> b3
MCBranch ==
    LET up[b \in MCBlocks] == IF b = g THEN {g} ELSE {b} \union up[MCpprev[b]]
    IN  up
MCnHeight == [b \in MCBlocks |-> Cardinality(MCBranch[b]) - 1]
MCbnChainTrust == g :> 0 @@ p1 :> 1 @@ a2 :> 3 @@ a3 :> 4 @@ x3 :> 5 @@ y4 :> 6
                  @@ b2 :> 2 @@ b3 :> 4 @@ b4 :> 7
MCStake == [b \in MCBlocks |-> IF b \in {a2, b3, y4} THEN S ELSE Nil]
MCKernel == [b \in MCBlocks |-> IF b = b3 THEN p1 ELSE g]
MCTooEasy == {<<x3, g>>}
MCConnectable == MCBlocks \ {x3}

=============================================================================
