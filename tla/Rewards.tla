------------------------------ MODULE Rewards -------------------------------
(***************************************************************************)
(* main.cpp: the rewards of both kinds of blocks, and the jackpot: a block *)
(* whose hash is lucky makes the next one pay its coinbase once more, many *)
(* times over. The chance and the factor grow with the proof-of-work       *)
(* blocks since the last jackpot, whose height every header carries as     *)
(* nSuperBlock. The block at place i of a chain has height i - 1.          *)
(***************************************************************************)
EXTENDS Difficulty

CONSTANTS Tickets,        \* 25200: the random number of a block is in 1..Tickets
          LowerLimit, UpperLimit,  \* 15000 and 15011
          Widening,     \* 5: by how much every block beyond MaxPowBlocks widens them
          MaxPowBlocks, \* SUPER_BONUS_MAX_DAY, in proof-of-work blocks
          CapPowBlocks, \* SUPER_BONUS_CAP_DAY, in proof-of-work blocks
          Factor,       \* Factor[d]: 100 times the power of ten for d blocks, less 100
          Premine,      \* the reward of block 1
          Subsidy, nMinSubsidy,
          StepBlocks,   \* 5040: the reward falls after so many proof-of-work blocks
          MaxSteps,     \* 109: how often it falls before it is nMinSubsidy
          MintStart, MintEnd,  \* the reward of a coin day, first and last
          StageBlocks, Stages, \* 388800 and 20: it falls in so many stages of so many blocks
          LastMint,     \* 7884000: the proof-of-stake height from which it is MintEnd
          POS_BUG_FIX   \* the height from which a new block's own place is used

ASSUME RewardsAssumption ==
    /\ 0 < LowerLimit /\ LowerLimit < UpperLimit - 1 /\ UpperLimit < Tickets
    /\ Widening \in Nat \ {0}
    /\ CapPowBlocks \in Nat /\ MaxPowBlocks >= CapPowBlocks
    /\ Factor \in [0..CapPowBlocks -> Nat \ {0}]
    /\ StepBlocks \in Nat \ {0} /\ MaxSteps \in Nat
    /\ StageBlocks \in Nat \ {0} /\ Stages \in Nat \ {0}
    /\ MintEnd \in Nat /\ MintStart >= MintEnd

-----------------------------------------------------------------------------
\* Mutant: the blocks of both kinds are counted.
CountBlockDelta(chain, n, superBlock) ==
    IF n <= superBlock THEN 0 ELSE n - superBlock

\* The proof-of-work blocks from height superBlock to place n.
CountPowDelta(chain, n, superBlock) ==
    Cardinality({i \in (superBlock + 1)..n : ~chain[i].stake})

Widened(delta) == IF delta > MaxPowBlocks THEN Widening * (delta - MaxPowBlocks) ELSE 0

\* Mutant: the window is moved, not widened.
IsLuckyMoved(random, delta) ==
    /\ random > LowerLimit + Widened(delta)
    /\ random < Min({Tickets, UpperLimit + Widened(delta)})

IsLucky(random, delta) ==
    /\ random > Max({0, LowerLimit - Widened(delta)})
    /\ random < Min({Tickets, UpperLimit + Widened(delta)})

\* GetProofOfWorkBlockBonusRewardFactor of the block at place n: what the next
\* block pays its miner once more, in per cent.
BonusFactor(chain, n) ==
    LET delta == CountPowDelta(chain, n, chain[n].superBlock)
    IN  IF chain[n].stake \/ n - 1 < 3 \/ ~IsLucky(chain[n].random, delta) THEN 0
        ELSE Factor[Min({delta, CapPowBlocks})]

\* What CreateNewBlock puts on top of a chain. Its transactions are of the
\* kinds coinbase, coinstake, reward (a coinbase that pays what the jackpot is
\* worth) and other.
JackpotBlock(chain, stake, random) ==
    LET due == BonusFactor(chain, Len(chain))
    IN  [stake |-> stake, random |-> random, paid |-> due,
         superBlock |-> IF due > 0 THEN Len(chain) ELSE Last(chain).superBlock,
         vtx |-> <<"coinbase">> \o (IF stake THEN <<"coinstake">> ELSE <<>>)
                                \o (IF due > 0 THEN <<"reward">> ELSE <<>>)]

-----------------------------------------------------------------------------
IsCoinBase(tx) == tx \in {"coinbase", "reward"}
IsStakeBlock(vtx) == Len(vtx) > 1 /\ vtx[2] = "coinstake"

\* CheckBlock, of the first transactions.
CheckOrder(vtx) ==
    /\ vtx # <<>> /\ IsCoinBase(vtx[1])
    /\ \A i \in (IF IsStakeBlock(vtx) THEN 4 ELSE 3)..Len(vtx) : ~IsCoinBase(vtx[i])
    /\ \A i \in 3..Len(vtx) : vtx[i] # "coinstake"

\* Mutant: a reward that is missing is not missed.
AcceptAbsent(vtx, due) ==
    \A i \in 2..Len(vtx) : IsCoinBase(vtx[i]) => due > 0 /\ vtx[i] = "reward"

\* AcceptBlock: the loop over the further coinbases, the first of which takes
\* what is due; -1 is a refusal.
AcceptReward(vtx, due) ==
    0 = FoldLeft(LAMBDA left, tx : CASE left = -1 -> -1
                                     [] left # -1 /\ ~IsCoinBase(tx) -> left
                                     [] left > 0 /\ tx = "reward" -> 0
                                     [] OTHER -> -1,
                 due, Tail(vtx))

-----------------------------------------------------------------------------
NoCheckpoints == [h \in {} |-> 0]

\* GetProofOfWorkReward of the block on top of place n, without its fees.
WorkReward(chain, n) ==
    LET steps == (GetPowHeight(chain, n, NoCheckpoints) + 1) \div StepBlocks
        first == IF n = 1 THEN Premine ELSE Subsidy
    IN  IF steps > MaxSteps THEN nMinSubsidy
        ELSE FoldLeft(LAMBDA s, k : (9 * s) \div 10, first, [k \in 1..steps |-> k])

PosHeight(chain, n) == n - 1 - GetPowHeight(chain, n, NoCheckpoints)

\* Mutant: the place of the block before is used, as it was up to POS_BUG_FIX.
CoinDayRewardUnfixed(chain, n, isNew) ==
    LET stage == PosHeight(chain, n) \div StageBlocks
    IN  MintStart - ((MintStart - MintEnd) * stage) \div Stages

\* GetProofOfStakeReward of a coin day: for a new block from the place n of its
\* predecessor, for one that is checked from its own place.
CoinDayReward(chain, n, isNew) ==
    LET fixed == IF isNew /\ n - 1 > POS_BUG_FIX THEN 1 ELSE 0
        posHeight == PosHeight(chain, n) + fixed
        stage == posHeight \div StageBlocks
    IN  IF posHeight < LastMint
        THEN MintStart - ((MintStart - MintEnd) * stage) \div Stages
        ELSE MintEnd
=============================================================================
