------------------------------- MODULE Kernel -------------------------------
(***************************************************************************)
(* kernel.cpp: the choice of the blocks whose entropy bits make the next   *)
(* stake modifier, and the modifier a stake of a given coin hashes with.   *)
(*                                                                         *)
(* A block has a name, which stands for its hash, a time, a kind, a        *)
(* rank (the order of the selection hashes computed with the previous      *)
(* modifier), an entropy bit, and the modifier it carries, with a mark if  *)
(* the block generated it. The selection hash of a proof-of-stake block is *)
(* divided by 2^32: it comes before that of any proof-of-work block.       *)
(***************************************************************************)
EXTENDS Integers, FiniteSetsExt, SequencesExt

CONSTANTS Interval,     \* nModifierInterval
          Rounds        \* blocks selected: 64

ASSUME KernelAssumption == Interval \in Nat \ {0} /\ Rounds \in Nat \ {0, 1}

Ratio == 3              \* MODIFIER_INTERVAL_RATIO

\* GetStakeModifierSelectionIntervalSection, for 64 sections in the code.
Section(round) ==
    (Interval * (Rounds - 1))
      \div ((Rounds - 1) + ((Rounds - 1 - round) * (Ratio - 1)))

SelectionInterval == MapThenSumSet(Section, 0..(Rounds - 1))

\* The last block at or before place n that generated a modifier.
LastGenerated(chain, n) == Max({i \in 1..n : i = 1 \/ chain[i].generated})

\* The candidates are a suffix of the chain: the walk back stops at the first
\* block that is too old, whatever lies behind it.
FirstCandidate(chain, start) ==
    LET old == {i \in DOMAIN chain : chain[i].time < start}
    IN  IF old = {} THEN 1 ELSE Max(old) + 1

ByTime(a, b) ==
    \/ a.time < b.time
    \/ (a.time = b.time /\ a.name <= b.name)

SortedCandidates(chain, start) ==
    SetToSortSeq({chain[i] : i \in FirstCandidate(chain, start)..Len(chain)},
                 ByTime)

SelectionHash(b) == IF b.stake THEN b.rank ELSE 1000 + b.rank

\* Mutant: a block after stop is taken into the comparison once.
SelectBlockLate(candidates, selected, stop) ==
    LET early == {i \in DOMAIN candidates : candidates[i].time <= stop}
        last == IF early = {} THEN 1 ELSE Max(early) + 1
        open == {candidates[i] : i \in {i \in DOMAIN candidates : i <= last}}
                  \ selected
    IN  {b \in open : \A c \in open : SelectionHash(b) <= SelectionHash(c)}

\* SelectBlockFromCandidates: in the order of time, the least selection hash
\* until the first block after stop, once some block has been found.
SelectBlock(candidates, selected, stop) ==
    LET step(s, b) ==
          CASE s.ended -> s
            [] ~s.ended /\ s.found # {} /\ b.time > stop ->
                 [s EXCEPT !.ended = TRUE]
            [] ~s.ended /\ ~(s.found # {} /\ b.time > stop) /\ b \in selected -> s
            [] OTHER -> IF \A f \in s.found : SelectionHash(b) < SelectionHash(f)
                        THEN [s EXCEPT !.found = {b}] ELSE s
    IN  FoldLeft(step, [found |-> {}, ended |-> FALSE], candidates).found

\* The blocks selected, in the order of the rounds.
RECURSIVE SelectRounds(_, _, _, _)
SelectRounds(candidates, chosen, stop, round) ==
    IF round = (IF Rounds < Len(candidates) THEN Rounds ELSE Len(candidates))
    THEN chosen
    ELSE LET next == stop + Section(round)
             found == SelectBlock(candidates, ToSet(chosen), next)
         IN  IF found = {} THEN <<>>
             ELSE SelectRounds(candidates, Append(chosen, CHOOSE b \in found : TRUE),
                               next, round + 1)

IntervalStart(chain) ==
    (Last(chain).time \div Interval) * Interval - SelectionInterval

\* The modifier of the block after chain: kept, or generated from the bits.
ComputeNextStakeModifier(chain) ==
    LET kept == chain[LastGenerated(chain, Len(chain))]
        candidates == SortedCandidates(chain, IntervalStart(chain))
        chosen == SelectRounds(candidates, <<>>, IntervalStart(chain), 0)
    IN  IF kept.time \div Interval >= Last(chain).time \div Interval
        THEN [modifier |-> kept.modifier, generated |-> FALSE, chosen |-> <<>>]
        ELSE [modifier |-> [i \in DOMAIN chosen |-> chosen[i].entropy],
              generated |-> TRUE, chosen |-> chosen]

\* Mutant: the last generation late enough instead of the first.
KernelModifierOfTip(chain, from) ==
    LET later == {i \in (from + 1)..Len(chain) :
                    /\ chain[i].generated
                    /\ chain[i].time >= chain[from].time + SelectionInterval}
    IN  IF later = {} THEN 0 ELSE Max(later)

\* GetKernelStakeModifier: along pnext from the block of the coin, until a
\* generation is a selection interval later than the coin. None is a failure:
\* the best block is reached first. The test comes before a step, so that a
\* coin needs a generation after its own block.
KernelModifierAt(chain, from) ==
    LET later == {i \in (from + 1)..Len(chain) :
                    /\ chain[i].generated
                    /\ chain[i].time >= chain[from].time + SelectionInterval}
    IN  IF later = {} THEN 0 ELSE Min(later)
=============================================================================
