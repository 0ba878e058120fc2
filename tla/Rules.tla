------------------------------- MODULE Rules --------------------------------
(***************************************************************************)
(* The rules of the program that are computed by one thread at a time, at  *)
(* work: a script is written and run, a payment is made, a block is filled *)
(* from the memory pool, a chain grows under the difficulty rules, a chain *)
(* grows under the rules of the stake modifier or of the jackpot, the      *)
(* coinbases of a block are checked, coins are made, spent and burned by   *)
(* the blocks of a chain, the transactions of a block are hashed, two      *)
(* nodes find where their chains fork, a file of blocks is written and     *)
(* imported. A behaviour does one job; the definitions are in the modules  *)
(* extended, what is asked of them is here, most of it against a second    *)
(* definition written another way.                                         *)
(***************************************************************************)
EXTENDS Script, CoinStake, Template, Rewards, Kernel, Money, Storage

CONSTANTS Ops,          \* the instructions scripts are written with
          Stacks,       \* what the input's script leaves for them
          MaxScript,    \* instructions of a script
          Payments,     \* the payments to make
          Mints,        \* the coin stakes to make
          Pools,        \* memory pools
          Starts,       \* chains to grow under the difficulty rules
          Spacings,     \* the times from one block to the next, there
          MaxGrowth,    \* blocks added to such a chain
          Steps,        \* the times between blocks, for the stake modifiers
          MaxBlocks,    \* blocks of such a chain
          Rolls,        \* kinds and random numbers of blocks, for the jackpots
          MaxJackpots,  \* blocks of such a chain
          MaxFirst,     \* how many transactions of a block are looked at
          CoinbaseAmounts, OutputLists,  \* what coinbases and transactions pay
          MaxTime,      \* the latest time of a block that pays
          MaxMade,      \* transactions of a chain of such blocks
          LeafTxs,      \* the transactions of blocks that are hashed
          MaxHashed,    \* how many of them a block has
          MaxTip        \* the height of the chain a locator is made of

VARIABLE job

NoContext == [tx |-> [ins |-> <<>>, outs |-> <<>>], n |-> 1]

FirstBlock == [name |-> 1, time |-> Interval, stake |-> FALSE, rank |-> 1,
               entropy |-> 1, generated |-> TRUE, modifier |-> <<>>]

GenesisBlock == [stake |-> FALSE, random |-> 1, paid |-> 0, superBlock |-> 0,
                 vtx |-> <<"coinbase">>]

Init ==
    \/ \E s \in Stacks : job = [kind |-> "script", stack |-> s, script |-> <<>>]
    \/ job \in Payments \cup Mints
    \/ \E p \in Pools : job = FirstTemplate(p)
    \/ \E c \in Starts : job = [kind |-> "targets", chain |-> c, grown |-> 0]
    \/ job = [kind |-> "modifiers", chain |-> <<FirstBlock>>]
    \/ job = [kind |-> "jackpots", chain |-> <<GenesisBlock>>]
    \/ job = Treasury
    \/ \E t \in LeafTxs : job = [kind |-> "hashes", vtx |-> <<t>>]
    \/ \E tip \in 0..MaxTip, fork \in 0..MaxTip :
         fork <= tip /\ job = [kind |-> "locator", tip |-> tip, fork |-> fork]
    \/ job = EmptyFile
    \/ \E n \in 1..MaxFirst :
         job \in [kind : {"coinbases"}, due : {0, 900},
                  vtx : [1..n -> {"coinbase", "coinstake", "reward", "other"}]]

\* A script that has not failed yet is continued.
WriteScript ==
    /\ job.kind = "script"
    /\ Len(job.script) < MaxScript
    /\ RunScript(job.stack, job.script, NoContext).ok
    /\ \E op \in Ops : job' = [job EXCEPT !.script = Append(@, op)]

PayTurn ==
    /\ job.kind = "payment"
    /\ job.state = "making"
    /\ job' \in Turns(job)

StakeTurn ==
    /\ job.kind = "stake"
    /\ job.state \in {"searching", "combining", "paying"}
    /\ job' \in StakeTurns(job)

TemplateTurn ==
    /\ job.kind = "template"
    /\ job.state = "collecting"
    /\ job' \in Takes(job)

\* A block whose target is the one required, the only one AcceptBlock takes.
AddBlock(chain, stake, spacing) ==
    Append(chain, Block(stake, Last(chain).time + spacing,
                        GetNextTargetRequired(chain, stake)))

GrowTargets ==
    /\ job.kind = "targets"
    /\ job.grown < MaxGrowth
    /\ \E stake \in BOOLEAN, spacing \in Spacings :
         job' = [job EXCEPT !.chain = AddBlock(@, stake, spacing),
                            !.grown = @ + 1]

Ranks(chain) == {chain[i].rank : i \in DOMAIN chain}

GrowModifiers ==
    /\ job.kind = "modifiers"
    /\ Len(job.chain) < MaxBlocks
    /\ LET next == ComputeNextStakeModifier(job.chain)
       IN \E stake \in BOOLEAN, step \in Steps,
             rank \in (1..MaxBlocks) \ Ranks(job.chain) :
            job' = [job EXCEPT !.chain =
                      Append(@, [name |-> Len(job.chain) + 1,
                                 time |-> Last(job.chain).time + step,
                                 stake |-> stake, rank |-> rank,
                                 entropy |-> Len(job.chain) + 1,
                                 generated |-> next.generated,
                                 modifier |-> next.modifier])]

\* A block of CreateNewBlock, which AcceptBlock takes.
GrowJackpots ==
    /\ job.kind = "jackpots"
    /\ Len(job.chain) < MaxJackpots
    /\ \E roll \in Rolls :
         LET block == JackpotBlock(job.chain, roll[1], roll[2])
         IN  /\ CheckOrder(block.vtx)
             /\ AcceptReward(block.vtx, BonusFactor(job.chain, Len(job.chain)))
             /\ job' = [job EXCEPT !.chain = Append(@, block)]

\* ConnectBlock, one transaction at a time; a block that is refused is none.
GrowMoney ==
    /\ job.kind = "money"
    /\ job.made < MaxMade
    /\ \E stake \in BOOLEAN, time, baseTime \in 0..MaxTime, paid \in CoinbaseAmounts :
         /\ MayOpenBlock(job, stake, time, baseTime, paid)
         /\ job' = OpenBlock(job, stake, time, baseTime, paid)

SpendMoney ==
    /\ job.kind = "money"
    /\ job.made < MaxMade
    /\ \E kind \in {"coinstake", "other"}, outs \in OutputLists, time \in 0..MaxTime,
          ins \in {{c, d} : c, d \in job.coins} :
         /\ MayConnect(job, kind, ins, outs, time)
         /\ job' = Connect(job, kind, ins, outs, time)

CountMoney ==
    /\ job.kind = "money"
    /\ MayCloseBlock(job)
    /\ job' = CloseBlock(job)

AddHash ==
    /\ job.kind = "hashes"
    /\ Len(job.vtx) < MaxHashed
    /\ \E t \in LeafTxs : job' = [job EXCEPT !.vtx = Append(@, t)]

AppendBlock ==
    /\ job.kind = "file"
    /\ job.state = "writing" /\ job.records < MaxRecords
    /\ job' \in {AppendWhole(job, b) : b \in FileBlocks} \cup AppendTorn(job)

StartImport ==
    /\ job.kind = "file"
    /\ job.state = "writing"
    /\ job' = [job EXCEPT !.state = "reading"]

Importing == job.kind = "file" /\ job.state = "reading"

ImportTurn ==
    /\ Importing
    /\ job' \in ImportTurns(job)

Next ==
    \/ WriteScript \/ PayTurn \/ StakeTurn \/ TemplateTurn
    \/ GrowTargets \/ GrowModifiers \/ GrowJackpots
    \/ GrowMoney \/ SpendMoney \/ CountMoney
    \/ AddHash \/ AppendBlock \/ StartImport \/ ImportTurn

\* A thread that computes goes on: nothing here waits for anything.
Spec ==
    /\ Init /\ [][Next]_job
    /\ WF_job(PayTurn) /\ WF_job(StakeTurn) /\ WF_job(TemplateTurn)

-----------------------------------------------------------------------------
(* Scripts. *)

\* How many conditionals are open before place i.
Depth(script, i) ==
    LET before(names) == Cardinality({k \in 1..(i - 1) : script[k][1] \in names})
    IN  before({"IF", "NOTIF"}) - before({"ENDIF"})

\* Conditionals that close, and nothing that is refused wherever it stands.
WellFormed(script) ==
    /\ \A i \in DOMAIN script :
         /\ script[i][1] \in {"ELSE", "ENDIF"} => Depth(script, i) > 0
         /\ script[i][1] \notin Disabled \cup {"cut"}
         /\ script[i] # Push(Big)
    /\ Depth(script, Len(script) + 1) = 0

\* The place that closes the conditional at the first place, the places of its
\* own ELSEs, and the instructions of every other part from part first on.
Closing(script) == Min({i \in DOMAIN script :
                          script[i][1] = "ENDIF" /\ Depth(script, i + 1) = 0})
Body(script, first) ==
    LET own == {i \in 2..(Closing(script) - 1) :
                  script[i][1] = "ELSE" /\ Depth(script, i) = 1}
        part(i) == Cardinality({k \in own : k <= i})
        chosen == {i \in 2..(Closing(script) - 1) :
                     i \notin own /\ part(i) % 2 = first}
    IN  [k \in 1..Cardinality(chosen) |->
           script[CHOOSE i \in chosen :
                    Cardinality({j \in chosen : j <= i}) = k]]

\* What a well-formed script does to a stack, by its structure: a conditional
\* is replaced by the parts of it that are run.
RECURSIVE Structured(_, _)
Structured(script, m) ==
    IF script = <<>> \/ ~m.ok THEN m
    ELSE LET op == Head(script)
             rest == SubSeq(script, Closing(script) + 1, Len(script))
             first == IF CastToBool(Last(m.stack)) = (op[1] = "IF") THEN 0 ELSE 1
             next == IF IsPush(op) THEN Replace(m, 0, <<op[2]>>)
                     ELSE Switch(m, op[1], <<>>, NoContext)
         IN  IF op[1] \in {"IF", "NOTIF"}
             THEN IF m.stack = <<>> THEN Fail(m)
                  ELSE Structured(Body(script, first) \o rest,
                                  Replace(m, 1, <<>>))
             ELSE Structured(Tail(script),
                    IF Len(next.stack) + Len(next.alt) > MaxStack
                    THEN Fail(next) ELSE next)

\* EvalScript runs exactly the parts of the nested conditionals that their
\* values select, counts the operations of all parts and the keys of those it
\* runs, and refuses a script whose conditionals do not close.
ScriptFollowsStructure ==
    job.kind = "script" =>
      LET result == EvalScript(job.stack, job.script, NoContext)
          reference == Structured(job.script, Machine(job.stack))
          operations == Cardinality({i \in DOMAIN job.script :
                                       ~IsPush(job.script[i])})
      IN  IF WellFormed(job.script)
          THEN /\ result.ok = (/\ reference.ok
                               /\ operations + reference.ops <= MaxOps)
               /\ result.ok => result.stack = reference.stack
          ELSE ~result.ok

\* A script is never charged for fewer signatures than it has checked: the
\* limit on a block's signature operations bounds the work of checking it.
SigOpsBoundChecks ==
    job.kind = "script" =>
      RunScript(job.stack, job.script, NoContext).checks
        <= GetSigOpCount(job.script, TRUE)

\* EvalScript and GetSigOpCount agree with the structure of every short script.
ScriptRules == ScriptFollowsStructure /\ SigOpsBoundChecks

-----------------------------------------------------------------------------
(* Payments. *)

\* A coin selection takes coins it was offered, reaches the amount, and fails
\* only if all the coins that may be spent do not reach it.
SelectionIsSound ==
    job.kind = "payment" /\ job.state = "making" =>
      LET target == job.value + job.fee
          offered == IF job.control THEN job.coins
                     ELSE Eligible(job.coins, 1, 0, 1)
          choices == SelectCoins(target, 1, job.coins, job.control)
      IN  /\ \A s \in choices : s \subseteq offered /\ Total(s) >= target
          /\ choices = {} <=> Total(offered) < target

\* A payment that is made spends what its coins hold to the last unit: what is
\* sent, a change that is no dust, and a fee that pays for its bytes and is
\* the fee its owner is told.
PaymentBalances ==
    job.kind = "payment" /\ job.state = "made" =>
      /\ Total(job.chosen) = job.value + job.change + job.fee
      /\ job.change = 0 \/ job.change >= CENT
      /\ job.fee >= FeeNeeded(job, job.bytes)

-----------------------------------------------------------------------------
(* Coin stakes. *)

Owners(coins) == {c.key : c \in coins}

\* A coin stake never touches the reserve, never spends the coins of two
\* owners, and stays small: beyond its kernel it takes coins only while what it
\* has is not more than the threshold, and none if its output is split.
StakeKeepsLimits ==
    job.kind = "stake" =>
      /\ Total(job.ins) <= Larger(0, Allowed(job))
      /\ job.ins # {} => Cardinality(Owners(job.ins)) = 1
      /\ Cardinality(job.ins) <= MaxInputs
      /\ job.split => job.ins = job.kernel
      /\ job.ins # job.kernel =>
           \E c \in job.ins \ job.kernel : Total(job.ins \ {c}) <= nCombineThreshold

\* A coin stake that is made mints, to the last unit, the most that ConnectInputs
\* lets it mint: its reward, with nothing taken off for its bytes, however many
\* coins it combines. It stays below the limit on its size, and no output is
\* below the least amount if there is enough for two.
StakeIsTaken ==
    job.kind = "stake" /\ job.state = "made" =>
      LET outs == StakeOutputs(job)
          value == FoldLeft(+, 0, outs)
      IN  /\ value - Total(job.ins) = StakeReward - MinFee(0) + CENT
          /\ job.bytes < MaxTxBytes
          /\ value >= 2 * CENT => \A i \in DOMAIN outs : outs[i] >= CENT

\* CreateTransaction chooses enough coins and gives none of them away;
\* CreateCoinStake mints no more than it may, from no more than it may.
SpendingRules == SelectionIsSound /\ PaymentBalances /\ StakeKeepsLimits /\ StakeIsTaken

-----------------------------------------------------------------------------
(* Block templates. *)

InBlock == {job.block[i].id : i \in DOMAIN job.block}

\* What is collected is a block ConnectBlock takes: every input is unspent
\* where it stands, and size and signature operations, those of the scripts
\* behind hashes with them, are below the limits.
TemplateIsValid ==
    job.kind = "template" =>
      LET made(n) == UNION {{<<job.block[i].id, k>> : k \in 1..job.block[i].outs} :
                              i \in 1..n}
          spent(n) == UNION {job.block[i].ins : i \in 1..n}
          all == ToSet(job.block)
      IN  /\ \A i \in DOMAIN job.block :
               job.block[i].ins \subseteq (Chain \cup made(i - 1)) \ spent(i - 1)
          /\ BaseSize + MapThenSumSet(LAMBDA t : t.size, all) <= nBlockMaxSize
          /\ BaseSigOps + MapThenSumSet(LAMBDA t : t.sigops + t.hashedSigops, all)
               <= MAX_BLOCK_SIGOPS

\* A transaction that is left out has a reason that still holds when the block
\* is made: no other transaction of the pool was forgotten.
TemplateIsComplete ==
    job.kind = "template" /\ job.state = "made" =>
      \A t \in job.pool : t.id \notin InBlock =>
        \/ ~t.timely
        \/ \E u \in job.pool : u.id \in DependsOn(t) /\ u.id \notin InBlock
        \/ job.size + t.size >= nBlockMaxSize
        \/ job.sigops + t.sigops + t.hashedSigops >= MAX_BLOCK_SIGOPS
        \/ t.feePerKb < nMinTxFee /\ job.size + t.size >= nBlockMinSize
        \/ t.fee < BlockMinFee(job.size)

\* CreateNewBlock makes a valid block, and leaves out only what does not fit.
TemplateRules == TemplateIsValid /\ TemplateIsComplete

-----------------------------------------------------------------------------
(* Difficulty. *)

OfKind(chain, stake) ==
    <<Head(chain)>> \o SelectSeq(Tail(chain), LAMBDA b : b.stake = stake)

\* The two difficulties do not see each other: the target of one kind is what
\* it would be if no block of the other kind stood between.
KindsAreIndependent ==
    job.kind = "targets" =>
      \A stake \in BOOLEAN :
        GetNextTargetRequired(job.chain, stake)
          = GetNextTargetRequired(OfKind(job.chain, stake), stake)

\* Blocks that come late make the next one no harder, blocks that come early,
\* with a time before the previous one's even, no easier.
RetargetFollowsPace ==
    job.kind = "targets" =>
      \A stake \in BOOLEAN :
        LET kind == OfKind(job.chain, stake)
            spacing == Last(kind).time - kind[Len(kind) - 1].time
            next == GetNextTargetRequired(job.chain, stake)
        IN  Len(kind) > 2 =>
              /\ spacing >= TargetSpacing(stake) => next >= Last(kind).target
              /\ spacing <= TargetSpacing(stake) => next <= Last(kind).target

\* The height the rewards are computed from is the number of proof-of-work
\* blocks, whichever checkpoint of a correct list the count starts from.
PowHeightCounts ==
    job.kind = "targets" =>
      LET chain == job.chain
          work(n) == Cardinality({i \in 1..n : ~chain[i].stake})
          last == Len(chain)
          recent == Max({2, last - MaxGrowth})..last
      IN  last > 1 =>
            \A heights \in SUBSET {n - 1 : n \in recent} :
              GetPowHeight(chain, last, [h \in heights |-> work(h + 1)])
                = work(last)

-----------------------------------------------------------------------------
(* Rewards. *)

\* The proof-of-work blocks since the last one that paid a jackpot, with it.
SinceJackpot(chain) ==
    LET payers == {i \in DOMAIN chain : chain[i].paid > 0}
        first == IF payers = {} THEN 1 ELSE Max(payers)
    IN  Cardinality({i \in first..Len(chain) : ~chain[i].stake})

\* What a jackpot is worth depends on the proof-of-work blocks since the last
\* one that was paid, over any number of headers that only hand on its height.
JackpotGrows ==
    job.kind = "jackpots" =>
      LET factor == BonusFactor(job.chain, Len(job.chain))
      IN  factor > 0 => factor = Factor[Min({SinceJackpot(job.chain), CapPowBlocks})]

\* The window of lucky numbers only grows until the next jackpot: in the end
\* every number but the greatest wins.
JackpotComes ==
    job.kind = "jackpots" /\ Len(job.chain) > 3 /\ ~Last(job.chain).stake =>
      LET since == SinceJackpot(job.chain)
          random == Last(job.chain).random
          wins == BonusFactor(job.chain, Len(job.chain)) > 0
      IN  /\ LowerLimit < random /\ random < UpperLimit => wins
          /\ /\ random < Tickets
             /\ Widening * (since - MaxPowBlocks) >= Max({LowerLimit, Tickets - UpperLimit})
             => wins

\* Creation and check agree about the reward: AcceptBlock and CheckBlock take
\* the block CreateNewBlock makes, of either kind.
RewardIsAgreed ==
    job.kind = "jackpots" =>
      \A stake \in BOOLEAN :
        LET vtx == JackpotBlock(job.chain, stake, 1).vtx
        IN  CheckOrder(vtx) /\ AcceptReward(vtx, BonusFactor(job.chain, Len(job.chain)))

\* A block is taken exactly if the one reward that is due stands right after
\* its coinbase and its coinstake, and there is no other coinbase.
OneReward ==
    job.kind = "coinbases" =>
      LET vtx == job.vtx
          fixed == (IF IsStakeBlock(vtx) THEN <<"coinstake">> ELSE <<>>)
                     \o (IF job.due > 0 THEN <<"reward">> ELSE <<>>)
      IN  CheckOrder(vtx) /\ AcceptReward(vtx, job.due)
            <=> /\ IsCoinBase(vtx[1])
                /\ IsPrefix(fixed, Tail(vtx))
                /\ \A i \in (Len(fixed) + 2)..Len(vtx) : vtx[i] = "other"

\* From the second block on the reward of proof-of-work blocks falls to its
\* minimum and never rises, and the reward a coin day is minted with is the one
\* it is checked with.
RewardsFall ==
    job.kind = "jackpots" =>
      LET chain == job.chain
          n == Len(chain)
      IN  /\ n > 2 => /\ WorkReward(chain, n) <= WorkReward(chain, n - 1)
                      /\ WorkReward(chain, n) >= nMinSubsidy
          /\ n > POS_BUG_FIX + 2 /\ chain[n].stake =>
               CoinDayReward(chain, n - 1, TRUE) = CoinDayReward(chain, n, FALSE)

\* The money supply of a block is the worth of the unspent coins and nMint what
\* it made, although the sums they come from may overflow.
SupplyIsUnspent ==
    job.kind = "money" /\ ~job.open =>
      /\ job.nMoneySupply = Wrap(Total(job.coins))
      /\ job.nMint = job.block.created

\* All money comes from the subsidies of proof-of-work blocks and the rewards
\* of coin stakes: a fee is paid out again once at most.
MoneyHasSource ==
    job.kind = "money" /\ ~job.open =>
      Total(job.coins) <= job.works * BlockSubsidy + job.minted

\* No second of a coin's age is paid for twice, by whatever spends the coin is
\* divided, merged and dated in between: what coin stakes made is at most what
\* the ages of all that was ever made are worth, less the ages there still are.
AgePaysOnce ==
    job.kind = "money" =>
      LET now == Max(ToSet(job.times) \cup {job.block.time})
          left == MapThenSumSet(LAMBDA c : c.value * (now - c.time), job.coins)
      IN  job.minted * CoinDay <= MintRate * (job.born * now - job.moment - left)

\* The rewards follow the chain, whoever makes a block reckons them like whoever
\* checks it, and there is no money but what they made.
RewardRules ==
    /\ JackpotGrows /\ JackpotComes /\ RewardIsAgreed /\ OneReward /\ RewardsFall
    /\ SupplyIsUnspent /\ MoneyHasSource /\ AgePaysOnce

-----------------------------------------------------------------------------
(* Stake modifiers. *)

\* Every round selects, among the candidates not selected yet, the least
\* selection hash of those in time, or else the earliest: the order in which
\* the candidates are walked makes no difference.
SelectionIsFair ==
    job.kind = "modifiers" =>
      LET start == IntervalStart(job.chain)
          candidates == ToSet(SortedCandidates(job.chain, start))
          next == ComputeNextStakeModifier(job.chain)
          stop(r) == start + MapThenSumSet(Section, 0..(r - 1))
      IN  /\ next.generated =>
               Len(next.chosen) = Min({Rounds, Cardinality(candidates)})
          /\ \A r \in DOMAIN next.chosen :
               LET open == candidates \ {next.chosen[k] : k \in 1..(r - 1)}
                   inTime == {b \in open : b.time <= stop(r)}
                   chosen == next.chosen[r]
               IN  /\ chosen \in open
                   /\ inTime # {} => /\ chosen \in inTime
                                     /\ \A b \in inTime :
                                          SelectionHash(chosen) <= SelectionHash(b)
                   /\ inTime = {} => \A b \in open : ByTime(chosen, b)

\* The modifier the kernel of a coin hashes with, once there is one, stays the
\* same however the chain grows: a stake that was valid is found valid again.
KernelModifierIsSettled ==
    [][job.kind = "modifiers" =>
         \A from \in DOMAIN job.chain :
           KernelModifierAt(job.chain, from) # 0 =>
             KernelModifierAt(job'.chain, from) = KernelModifierAt(job.chain, from)
      ]_job

\* What headers commit to: the two difficulties and the height of the rewards
\* follow the chain, a modifier is selected fairly and does not change under a
\* stake.
HeaderRules ==
    /\ [](KindsAreIndependent /\ RetargetFollowsPace /\ PowHeightCounts)
    /\ []SelectionIsFair /\ KernelModifierIsSettled

-----------------------------------------------------------------------------
(* Blocks as they are hashed, located and stored. *)

\* The lists of transactions CheckBlock lets through.
CheckedLists ==
    {vtx \in UNION {[1..n -> LeafTxs] : n \in 1..MaxHashed} : UniqueTransactions(vtx)}
RootsOfChecked == [vtx \in CheckedLists |-> BuildMerkleTree(vtx)]

\* A header commits to the transactions of its block: lists with one root, of
\* which there are some, differ in repetitions, which CheckBlock refuses.
RootBindsBlock ==
    job.kind = "hashes" /\ UniqueTransactions(job.vtx) =>
      \A other \in CheckedLists :
        RootsOfChecked[other] = BuildMerkleTree(job.vtx) => other = job.vtx

\* The branch a wallet keeps of a transaction leads to the root from its place,
\* and that of no branch from any place for a transaction not in the block.
BranchProvesPlace ==
    job.kind = "hashes" =>
      LET places == 0..(Len(job.vtx) - 1)
          root == BuildMerkleTree(job.vtx)
      IN  \A i \in places :
            LET branch == GetMerkleBranch(job.vtx, i)
            IN  /\ CheckMerkleBranch(<<job.vtx[i + 1]>>, branch, i) = root
                /\ \A t \in LeafTxs \ ToSet(job.vtx), j \in places :
                     CheckMerkleBranch(<<t>>, branch, j) # root

\* The block found from a locator is in both chains and at most about twice as
\* far back as the fork; how far is known without the chain it was made of, and
\* the answer to getblocks always gets past what the asking node has.
LocatorFindsFork ==
    job.kind = "locator" =>
      LET vHave == LocatorOf(job.tip)
          back == job.tip - FoundBlock(vHave, job.fork)
          ahead == job.tip - job.fork
      IN  /\ ahead <= back
          /\ back <= Max({ahead, 2 * ahead - 11})
          /\ FoundAt(vHave, job.fork) < Len(vHave) => GetDistanceBack(vHave, job.fork) = back
          /\ AnnouncedUpTo(vHave, job.fork) >= job.tip + MaxAnswer

\* The whole records of a file, with their places.
WholeRecords(f) ==
    {r \in (1..Len(f.cells)) \X FileBlocks : StandsAt(f, r[1], BlockRecord(r[2]))}

\* An import passes over no block that was written completely, whatever torn
\* writes stand before it, is given up only in a file that has some, and gets
\* further or ends with every turn.
ImportMissesNothing ==
    job.kind = "file" =>
      LET whole == WholeRecords(job)
          cells == MapThenSumSet(LAMBDA r : Sizes[r[2]] + 2, whole)
      IN  /\ \A r \in whole : r[1] < job.pos \/ job.state = "done" => r[2] \in job.offered
          /\ job.state = "broken" => cells < Len(job.cells)
          /\ job.loaded = job.offered \cap Wanted
          /\ Importing => \A next \in ImportTurns(job) :
               next.pos > job.pos \/ next.state # "reading"

\* A block is what its header says, is found by those who lack it, and is not
\* lost in a file.
StorageRules ==
    RootBindsBlock /\ BranchProvesPlace /\ LocatorFindsFork /\ ImportMissesNothing

\* Every job comes to an end: CreateTransaction raises its fee only so often,
\* CreateCoinStake looks at each coin once, a template is made.
JobsEnd ==
    <>(/\ job.kind = "payment" => job.state # "making"
       /\ job.kind = "stake" => job.state \in {"made", "none"}
       /\ job.kind = "template" => job.state = "made")
=============================================================================
