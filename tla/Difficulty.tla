----------------------------- MODULE Difficulty -----------------------------
(***************************************************************************)
(* main.cpp: the target of the next block (GetNextTargetRequired) and the  *)
(* count of proof-of-work blocks that the rewards are computed from        *)
(* (GetPowHeight). A chain is the sequence of its blocks from the genesis  *)
(* block; a block has a kind, a time in seconds and a target. The compact  *)
(* form of a target is left out: the targets here are small.               *)
(***************************************************************************)
EXTENDS Integers, FiniteSetsExt, SequencesExt

CONSTANTS Limit    \* bnProofOfWorkLimit and bnProofOfStakeLimit, the same here

ASSUME DifficultyAssumption == Limit \in Nat \ {0}

maxTargetTimespan == 960
nInterval == 30
TargetSpacing(stake) == IF stake THEN 20 ELSE 120

Block(stake, time, target) == [stake |-> stake, time |-> time, target |-> target]

\* GetLastBlockIndex from place n: the walk ends at the genesis block.
LastOfKind(chain, n, stake) ==
    LET found == {i \in 1..n : i = 1 \/ chain[i].stake = stake} IN Max(found)

\* Mutant: a block that is older than the one before counts as very late.
ClippedUnsigned(spacing) ==
    IF spacing < 0 \/ spacing > maxTargetTimespan THEN maxTargetTimespan
    ELSE spacing

Clipped(spacing) ==
    CASE spacing < 0 -> 1
      [] spacing > maxTargetTimespan -> maxTargetTimespan
      [] OTHER -> spacing

\* Mutant: the time is taken to the block just before, of whatever kind.
PreviousOfAnyKind(chain, n, stake) == n - 1

PreviousOfKind(chain, n, stake) == LastOfKind(chain, n - 1, stake)

GetNextTargetRequired(chain, stake) ==
    LET last == LastOfKind(chain, Len(chain), stake)
        before == PreviousOfKind(chain, last, stake)
        spacing == Clipped(chain[last].time - chain[before].time)
        next == (chain[last].target
                   * ((nInterval - 1) * TargetSpacing(stake) + 2 * spacing))
                \div ((nInterval + 1) * TargetSpacing(stake))
    IN  IF last = 1 \/ before = 1 THEN Limit
        ELSE IF next > Limit THEN Limit ELSE next

\* Mutant: the block at the checkpoint is counted again.
GetPowHeightTwice(chain, n, checkpoints) ==
    LET below == {h \in DOMAIN checkpoints : n - 1 > h}
        counted(from) == Cardinality({i \in from..n : ~chain[i].stake})
    IN  IF below = {} THEN counted(2) + 1
        ELSE counted(Max(below) + 1) + checkpoints[Max(below)]

\* The blocks up to place n that are proof-of-work, the genesis block with
\* them, counted back to the last listed height below n's. A list of
\* checkpoints maps heights to counts; the block at place i has height i - 1.
GetPowHeight(chain, n, checkpoints) ==
    LET below == {h \in DOMAIN checkpoints : n - 1 > h}
        counted(from) == Cardinality({i \in from..n : ~chain[i].stake})
    IN  IF below = {} THEN counted(2) + 1
        ELSE counted(Max(below) + 2) + checkpoints[Max(below)]
=============================================================================
