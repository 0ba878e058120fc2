------------------------------- MODULE Money --------------------------------
(***************************************************************************)
(* main.cpp: the amounts in the transactions of a block. CheckTransaction  *)
(* and CheckBlock look at what is made, ConnectInputs at what is spent, a  *)
(* coin stake may make what the age of its coins is worth, and             *)
(* ConnectBlock adds up what a block makes and burns. A sum over one       *)
(* transaction is checked after every addition; those over a block are     *)
(* 64-bit integers that nobody checks, and coins that are spent over and   *)
(* over in one block may make them overflow.                               *)
(*                                                                         *)
(* A coin is an output with the time of its transaction, the time and      *)
(* height of its block, and whether it was generated. The subsidy is the   *)
(* same for all blocks and there is no jackpot: both are in Rewards.       *)
(***************************************************************************)
EXTENDS Coins, SequencesExt

CONSTANTS MAX_MONEY,
          Word,          \* half the range of an amount: -Word..Word - 1
          BlockSubsidy,
          CoinDay,       \* COIN times the seconds of a day
          MintRate,      \* the reward of a coin day
          nStakeMinAge,
          nCoinbaseMaturity,
          nMaxClockDrift

\* A sum that is checked after every addition does not overflow.
ASSUME MoneyAssumption ==
    /\ CENT <= MAX_MONEY /\ 2 * MAX_MONEY < Word
    /\ BlockSubsidy \in 0..MAX_MONEY
    /\ CoinDay \in Nat \ {0} /\ MintRate \in Nat
    /\ nStakeMinAge \in Nat /\ nCoinbaseMaturity \in Nat /\ nMaxClockDrift \in Nat

Wrap(x) == ((x + Word) % (2 * Word)) - Word
MoneyRange(v) == v \in 0..MAX_MONEY
ValueOut(outs) == FoldLeft(+, 0, outs)

NoBlock == [stake |-> FALSE, time |-> 0, vtx |-> <<>>, nFees |-> 0,
            nValueIn |-> 0, nValueOut |-> 0, paid |-> 0, created |-> 0]

\* The chain after the genesis block, which pays nothing, and the history of
\* what was made: by proof of work and by coin stakes, all of it weighed with
\* the times too, and by the last block.
Treasury ==
    [kind |-> "money", open |-> FALSE, block |-> NoBlock, times |-> <<0>>, made |-> 0,
     coins |-> {}, nMint |-> 0, nMoneySupply |-> 0,
     works |-> 0, minted |-> 0, born |-> 0, moment |-> 0]

NewCoins(chain, outs, time, generated) ==
    {[tx |-> chain.made, n |-> n, value |-> outs[n], time |-> time,
      blockTime |-> chain.block.time, height |-> Len(chain.times), generated |-> generated] :
        n \in {m \in DOMAIN outs : outs[m] # 0}}

-----------------------------------------------------------------------------
\* CheckTransaction, of the outputs; one of 0 is empty.
CheckTransaction(kind, outs) ==
    /\ outs # <<>>
    /\ kind = "other" => \A i \in DOMAIN outs : outs[i] # 0
    /\ \A i \in DOMAIN outs : outs[i] # 0 => outs[i] \in CENT..MAX_MONEY
    /\ MoneyRange(ValueOut(outs))

MedianTime(times) == SortSeq(times, <)[(Len(times) \div 2) + 1]

\* The times AcceptBlock and CheckBlock take for a block and its coinbase.
TimeIsRight(chain, time, baseTime) ==
    /\ time > MedianTime(chain.times)
    /\ time + nMaxClockDrift >= Last(chain.times)
    /\ baseTime <= time /\ time <= baseTime + nMaxClockDrift

MayOpenBlock(chain, stake, time, baseTime, paid) ==
    /\ ~chain.open
    /\ TimeIsRight(chain, time, baseTime)
    /\ stake => paid = 0
    /\ CheckTransaction("coinbase", <<paid>>)

\* ConnectBlock begins, with the coinbase.
OpenBlock(chain, stake, time, baseTime, paid) ==
    LET block == [NoBlock EXCEPT !.stake = stake, !.time = time, !.vtx = <<"coinbase">>,
                                 !.nValueOut = paid, !.paid = paid, !.created = paid]
        begun == [chain EXCEPT !.open = TRUE, !.block = block, !.made = @ + 1]
    IN  [begun EXCEPT !.coins = @ \cup NewCoins(begun, <<paid>>, baseTime, TRUE),
                      !.born = @ + paid, !.moment = @ + paid * baseTime]

-----------------------------------------------------------------------------
\* GetCoinAge, in coin days: coins of this block are not in the index yet, and
\* those of young blocks do not count.
CoinAge(chain, ins, time) ==
    LET counted == {c \in ins : /\ c.height < Len(chain.times)
                                /\ c.blockTime + nStakeMinAge <= time}
        cents == MapThenSumSet(LAMBDA c : (c.value * (time - c.time)) \div CENT, counted)
    IN  (cents * CENT) \div CoinDay

IsMature(chain, c) ==
    c.generated => Len(chain.times) - c.height >= nCoinbaseMaturity

\* Mutant: an input may be later than the transaction.
SpendsTimeless(chain, ins, time) ==
    /\ ins # {} /\ ins \subseteq chain.coins
    /\ \A c \in ins : IsMature(chain, c)
    /\ MoneyRange(Total(ins))

\* The first loop of ConnectInputs, and the second with sound signatures.
SpendsRightly(chain, ins, time) ==
    /\ ins # {} /\ ins \subseteq chain.coins
    /\ \A c \in ins : IsMature(chain, c) /\ c.time <= time
    /\ MoneyRange(Total(ins))

\* Mutant: a coin stake is not limited.
PaysFeesOnly(chain, kind, ins, outs, time) ==
    kind = "other" => Total(ins) - ValueOut(outs) >= MinFee(0)

\* The rest of ConnectInputs: a coin stake earns its reward, another
\* transaction pays a fee.
PaysRightly(chain, kind, ins, outs, time) ==
    IF kind = "coinstake"
    THEN ValueOut(outs) - Total(ins)
           <= CoinAge(chain, ins, time) * MintRate - MinFee(0) + CENT
    ELSE Total(ins) - ValueOut(outs) >= MinFee(0)

MayConnect(chain, kind, ins, outs, time) ==
    /\ chain.open
    /\ IF kind = "coinstake" THEN Len(chain.block.vtx) = 1 /\ chain.block.stake
                                  /\ time = chain.block.time
                                  /\ Len(outs) >= 2 /\ outs[1] = 0
       ELSE chain.block.stake => Len(chain.block.vtx) > 1
    /\ time <= chain.block.time
    /\ CheckTransaction(kind, outs)
    /\ SpendsRightly(chain, ins, time)
    /\ PaysRightly(chain, kind, ins, outs, time)

\* One turn of the loop of ConnectBlock over the transactions.
Connect(chain, kind, ins, outs, time) ==
    LET gain == IF kind = "coinstake" THEN ValueOut(outs) - Total(ins) ELSE 0
    IN  [chain EXCEPT
           !.made = @ + 1,
           !.coins = (@ \ ins) \cup NewCoins(chain, outs, time, kind = "coinstake"),
           !.block.vtx = Append(@, kind),
           !.block.nFees = IF kind = "coinstake" THEN @
                           ELSE Wrap(@ + Total(ins) - ValueOut(outs)),
           !.block.nValueIn = Wrap(@ + Total(ins)),
           !.block.nValueOut = Wrap(@ + ValueOut(outs)),
           !.block.created = @ + gain,
           !.minted = @ + gain,
           !.born = @ + gain, !.moment = @ + gain * time]

\* Mutant: the fees are not kept apart from what the block spends.
MayCloseFreely(chain) ==
    /\ chain.open
    /\ chain.block.stake => Len(chain.block.vtx) > 1
    /\ chain.block.paid <= BlockSubsidy + chain.block.nValueIn

\* The end of ConnectBlock: the coinbase may pay the subsidy and the fees.
MayCloseBlock(chain) ==
    /\ chain.open
    /\ chain.block.stake => Len(chain.block.vtx) > 1
    /\ chain.block.paid <= BlockSubsidy + chain.block.nFees

CloseBlock(chain) ==
    LET b == chain.block
        change == Wrap(b.nValueOut - b.nValueIn)
    IN  [chain EXCEPT
           !.open = FALSE,
           !.times = Append(@, b.time),
           !.nMint = Wrap(change + b.nFees),
           !.nMoneySupply = Wrap(@ + change),
           !.works = IF b.stake THEN @ ELSE @ + 1]
=============================================================================
