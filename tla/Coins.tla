------------------------------- MODULE Coins --------------------------------
(***************************************************************************)
(* wallet.cpp: the choice of the coins of a payment (SelectCoinsMinConf,   *)
(* SelectCoins) and one turn of the loop of CreateTransaction, which       *)
(* raises the fee until the transaction it made pays it. Amounts are small *)
(* integers; what random_shuffle and rand decide is a choice among all     *)
(* outcomes.                                                               *)
(*                                                                         *)
(* A coin is an available output: its value, its depth, whether its        *)
(* transaction is our own (fromMe), the time of it, and a name.            *)
(***************************************************************************)
EXTENDS Integers, FiniteSetsExt

CONSTANTS CENT,          \* also MIN_TX_FEE and MIN_TXOUT_AMOUNT
          BytesPerInput, BytesPerOutput,
          KiloByte,      \* a fee pays for so many bytes
          MaxTxBytes     \* MAX_BLOCK_SIZE_GEN / 5

ASSUME CoinsAssumption ==
    /\ CENT \in Nat \ {0} /\ KiloByte \in Nat \ {0}
    /\ BytesPerInput \in Nat /\ BytesPerOutput \in Nat /\ MaxTxBytes \in Nat

Total(coins) == MapThenSumSet(LAMBDA c : c.value, coins)
Larger(a, b) == IF a < b THEN b ELSE a
Smaller(a, b) == IF a < b THEN a ELSE b

\* The subsets ApproximateBestSubset may come to: all, or one that reaches the
\* target and would not without the coin added last.
Approximations(lower, target) ==
    {lower} \cup {s \in SUBSET lower :
      /\ Total(s) >= target
      /\ \E c \in s : Total(s \ {c}) < target}

Eligible(coins, spendTime, confMine, confTheirs) ==
    {c \in coins :
       /\ c.depth >= (IF c.fromMe THEN confMine ELSE confTheirs)
       /\ c.time <= spendTime}

\* Mutant: the larger coin is not looked at when the smaller do not reach.
SelectAmongLower(target, eligible) ==
    LET lower == {c \in eligible : c.value < target + CENT}
    IN  IF Total(lower) < target THEN {} ELSE Approximations(lower, target)

\* The sets of coins SelectCoinsMinConf may return; none is a failure.
SelectCoinsMinConf(target, eligible) ==
    LET exact == {c \in eligible : c.value = target}
        lower == {c \in eligible : c.value < target + CENT}
        larger == {c \in eligible \ lower :
                     \A d \in eligible \ lower : c.value <= d.value}
        \* what the one or two approximations leave in vfBest
        best == LET first == Approximations(lower, target)
                IN  UNION {IF Total(s) # target /\ Total(lower) >= target + CENT
                           THEN Approximations(lower, target + CENT) ELSE {s} :
                             s \in first}
        prefers(s) == /\ larger # {}
                      /\ LET big == (CHOOSE c \in larger : TRUE).value
                         IN  \/ Total(s) # target /\ Total(s) < target + CENT
                             \/ big <= Total(s)
    IN  CASE exact # {} -> {{c} : c \in exact}
          [] exact = {} /\ Total(lower) = target -> {lower}
          [] exact = {} /\ Total(lower) < target -> {{c} : c \in larger}
          [] OTHER -> UNION {IF prefers(s) THEN {{c} : c \in larger} ELSE {s} :
                               s \in best}

\* SelectCoins: with coin control all that was selected, or the first of three
\* limits on the depth that succeeds.
SelectCoins(target, spendTime, coins, control) ==
    LET tried(i) ==
          SelectCoinsMinConf(target,
            CASE i = 1 -> Eligible(coins, spendTime, 1, 6)
              [] i = 2 -> Eligible(coins, spendTime, 1, 1)
              [] i = 3 -> Eligible(coins, spendTime, 0, 1))
        successful == {i \in 1..3 : tried(i) # {}}
    IN  IF control THEN {c \in {coins} : Total(coins) >= target}
        ELSE IF successful = {} THEN {}
        ELSE tried(Min(successful))

-----------------------------------------------------------------------------
(* CreateTransaction. *)

\* The serialized size; a signature may be a byte shorter.
Bytes(nInputs, nOutputs, short) ==
    nInputs * BytesPerInput + nOutputs * BytesPerOutput - short

MinFee(bytes) == (1 + bytes \div KiloByte) * CENT     \* GetMinFee(1, false, ..)

\* Mutant: the change that is too small for an output is dropped.
SettleDropping(left, fee) ==
    IF left > 0 /\ left < CENT THEN [change |-> 0, fee |-> fee]
    ELSE [change |-> left, fee |-> fee]

\* The change and the fee: change below CENT goes into the fee, up to the
\* least fee, and then whatever is too small for an output.
Settle(left, fee) ==
    LET move == IF fee < CENT /\ left > 0 /\ left < CENT
                THEN Smaller(left, CENT - fee) ELSE 0
        change == left - move
    IN  IF change > 0 /\ change < CENT
        THEN [change |-> 0, fee |-> fee + move + change]
        ELSE [change |-> change, fee |-> fee + move]

Payment(coins, value, baseFee, control) ==
    [kind |-> "payment", coins |-> coins, value |-> value, baseFee |-> baseFee,
     control |-> control, fee |-> baseFee, state |-> "making",
     chosen |-> {}, change |-> 0, bytes |-> 0]

\* What pays for the bytes of the transaction.
FeeNeeded(pay, bytes) ==
    Larger(pay.baseFee * (1 + bytes \div KiloByte), MinFee(bytes))

\* Mutant: the turn starts again with the fee it had.
FeeAfterUnraised(pay, needed) == pay.fee

\* The fee of the next turn.
FeeAfter(pay, needed) == needed

\* One turn of the loop with one choice of coins.
Turn(pay, chosen, short) ==
    LET settled == Settle(Total(chosen) - pay.value - pay.fee, pay.fee)
        outputs == IF settled.change > 0 THEN 2 ELSE 1
        bytes == Bytes(Cardinality(chosen), outputs, short)
        needed == FeeNeeded(pay, bytes)
    IN  IF bytes >= MaxTxBytes THEN [pay EXCEPT !.state = "failed"]
        ELSE IF settled.fee < needed
        THEN [pay EXCEPT !.fee = FeeAfter(pay, needed)]
        ELSE [pay EXCEPT !.state = "made", !.fee = settled.fee,
                         !.chosen = chosen, !.change = settled.change,
                         !.bytes = bytes]

\* The outcomes of a turn.
Turns(pay) ==
    LET choices == SelectCoins(pay.value + pay.fee, 1, pay.coins, pay.control)
    IN  IF choices = {} THEN {[pay EXCEPT !.state = "failed"]}
        ELSE {Turn(pay, chosen, short) : chosen \in choices, short \in {0, 1}}
=============================================================================
