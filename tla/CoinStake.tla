----------------------------- MODULE CoinStake ------------------------------
(***************************************************************************)
(* wallet.cpp, CreateCoinStake: the coins of the wallet are searched for a *)
(* kernel, coins of the same owner are added to it, and what they hold is  *)
(* paid out with the reward. The set of coins is ordered by pointers and   *)
(* the hash of a kernel by chance: both are a choice. A coin is its value, *)
(* its transaction, its age in days, and the form and key of its script.   *)
(***************************************************************************)
EXTENDS Coins, Sequences

CONSTANTS SplitAmount,       \* nStakeSplitLimitByAmounts
          SplitShare,        \* 64: what part of the balance is split
          nCombineThreshold,
          MaxInputs,         \* 100
          StakeReward        \* GetProofOfStakeReward of the coin stake

ASSUME CoinStakeAssumption ==
    /\ SplitAmount \in Nat /\ SplitShare \in Nat \ {0}
    /\ nCombineThreshold \in Nat /\ MaxInputs \in Nat \ {0} /\ StakeReward \in Nat

Stake(coins, reserve) ==
    [kind |-> "stake", state |-> "searching", coins |-> coins, reserve |-> reserve,
     kernel |-> {}, ins |-> {}, left |-> {}, split |-> FALSE, fee |-> 0, bytes |-> 0]

\* nBalance - nReserveBalance.
Allowed(stake) == Total(stake.coins) - stake.reserve

Kernels(coins) == {c \in coins : c.age >= 1 /\ c.form \in {"pubkey", "hash"}}

\* The output is split if the coin is older than two days, or if it is big.
IsSplit(stake, c) ==
    \/ c.age > 2
    \/ c.age < 7 /\ c.value > SplitAmount /\ c.value > Total(stake.coins) \div SplitShare

\* Mutant: the kernel may exceed what is allowed.
FoundAny(stake, chosen, c) ==
    [stake EXCEPT !.state = "combining", !.kernel = {c}, !.ins = {c},
                  !.left = chosen \ {c}, !.split = IsSplit(stake, c)]

Found(stake, chosen, c) ==
    IF c.value > Allowed(stake) THEN [stake EXCEPT !.state = "none"]
    ELSE [stake EXCEPT !.state = "combining", !.kernel = {c}, !.ins = {c},
                       !.left = chosen \ {c}, !.split = IsSplit(stake, c)]

\* The outcomes of the search through the coins that were selected.
Searches(stake) ==
    LET none == [stake EXCEPT !.state = "none"]
        selections == {s \in SUBSET stake.coins \ {{}} : Total(s) >= Allowed(stake)}
    IN  IF Allowed(stake) <= 0 THEN {none}
        ELSE {none} \cup
             UNION {{Found(stake, s, c) : c \in Kernels(s)} : s \in selections}

\* The script of a coin is that of the kernel, or that of the output.
SameOwner(kernel, c) ==
    \/ c.form = kernel.form /\ c.key = kernel.key
    \/ c.form = "pubkey" /\ c.key = kernel.key

\* Mutant: the reserve is looked at before the coin is added, not with it.
StopsBefore(stake, c) ==
    \/ Cardinality(stake.ins) >= MaxInputs
    \/ Total(stake.ins) > nCombineThreshold
    \/ Total(stake.ins) > Allowed(stake)

\* What ends the loop at a coin that could be added.
Stops(stake, c) ==
    \/ Cardinality(stake.ins) >= MaxInputs
    \/ Total(stake.ins) > nCombineThreshold
    \/ Total(stake.ins) + c.value > Allowed(stake)

\* One more coin is looked at.
Combined(stake, c) ==
    LET kernel == CHOOSE k \in stake.kernel : TRUE
    IN  CASE ~SameOwner(kernel, c) \/ c.tx = kernel.tx ->
               [stake EXCEPT !.left = @ \ {c}]
          [] SameOwner(kernel, c) /\ c.tx # kernel.tx /\ Stops(stake, c) ->
               [stake EXCEPT !.left = {}]
          [] OTHER ->
               [stake EXCEPT !.left = @ \ {c},
                  !.ins = IF c.value > nCombineThreshold \/ c.age < 30 THEN @
                          ELSE @ \cup {c}]

Combines(stake) ==
    IF stake.split \/ stake.left = {} THEN {[stake EXCEPT !.state = "paying"]}
    ELSE {Combined(stake, c) : c \in stake.left}

\* Mutant: both outputs get the rounded half.
OutputsHalved(stake) ==
    LET half == (((Total(stake.ins) + StakeReward - stake.fee) \div 2) \div CENT) * CENT
    IN  IF stake.split THEN <<half, half>> ELSE <<Total(stake.ins) + StakeReward - stake.fee>>

\* The values of the outputs after the empty one.
StakeOutputs(stake) ==
    LET value == Total(stake.ins) + StakeReward - stake.fee
        half == ((value \div 2) \div CENT) * CENT
    IN  IF stake.split THEN <<half, value - half>> ELSE <<value>>

\* Mutant: the fee is raised to what the bytes cost.
StakePaidForBytes(stake, short) ==
    LET bytes == Bytes(Cardinality(stake.ins), 1 + Len(StakeOutputs(stake)), short)
    IN  IF bytes >= MaxTxBytes THEN [stake EXCEPT !.state = "none"]
        ELSE IF stake.fee < MinFee(bytes) - CENT
        THEN [stake EXCEPT !.fee = MinFee(bytes) - CENT]
        ELSE [stake EXCEPT !.state = "made", !.bytes = bytes]

\* One turn of the loop over the fee.  GetMinFee is called without the number of
\* bytes, so a base fee is all it ever asks for, and that is given back: the
\* fee stays 0, whatever the size, and the first turn is the last.
StakePaid(stake, short) ==
    LET bytes == Bytes(Cardinality(stake.ins), 1 + Len(StakeOutputs(stake)), short)
        needed == MinFee(0) - CENT
    IN  IF bytes >= MaxTxBytes THEN [stake EXCEPT !.state = "none"]
        ELSE IF stake.fee < needed THEN [stake EXCEPT !.fee = needed]
        ELSE [stake EXCEPT !.state = "made", !.bytes = bytes]

StakeTurns(stake) ==
    CASE stake.state = "searching" -> Searches(stake)
      [] stake.state = "combining" -> Combines(stake)
      [] stake.state = "paying" -> {StakePaid(stake, short) : short \in {0, 1}}
=============================================================================
