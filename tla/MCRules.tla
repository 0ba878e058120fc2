------------------------------ MODULE MCRules -------------------------------
(* Small jobs for Rules. *)
EXTENDS Rules

MCOps == {Push(Num(0)), Push(Num(1)), <<"IF">>, <<"NOTIF">>, <<"ELSE">>,
          <<"ENDIF">>, <<"VERIFY">>, <<"CHECKMULTISIG">>, <<"CHECKSIG">>,
          <<"CAT">>}
MCStacks == {<<>>, <<Num(0), Num(0), Num(0), Num(1), Num(2)>>}

Coin(name, value, depth, fromMe, time) ==
    [name |-> name, value |-> value, depth |-> depth, fromMe |-> fromMe,
     time |-> time]
Wallet == {Coin(1, 3, 7, FALSE, 0), Coin(2, 4, 1, TRUE, 0),
           Coin(3, 7, 2, FALSE, 0), Coin(4, 9, 0, TRUE, 1),
           Coin(5, 20, 9, FALSE, 1), Coin(6, 5, 9, FALSE, 2)}
MCPayments ==
    {Payment(coins, value, baseFee, control) :
       coins \in SUBSET Wallet, value \in {4, 6, 9, 14}, baseFee \in {0, 4},
       control \in BOOLEAN}

Mint(value, tx, age, form, key) ==
    [value |-> value, tx |-> tx, age |-> age, form |-> form, key |-> key]
MintCoins == {Mint(9, 1, 31, "hash", "a"), Mint(4, 1, 31, "hash", "a"),
              Mint(6, 2, 31, "pubkey", "a"), Mint(4, 3, 1, "hash", "a"),
              Mint(20, 4, 1, "pubkey", "b"), Mint(5, 5, 0, "other", "a"),
              Mint(7, 6, 31, "pubkey", "a"), Mint(11, 7, 31, "pubkey", "a")}
MCMints == {Stake(coins, reserve) : coins \in SUBSET MintCoins, reserve \in {0, 15}}

MCChain == {<<"a", 1>>, <<"a", 2>>, <<"b", 1>>, <<"c", 1>>, <<"d", 1>>}
Tx(id, ins, outs, size, sigops, hashed, timely, priority, fee) ==
    [id |-> id, ins |-> ins, outs |-> outs, size |-> size, sigops |-> sigops,
     hashedSigops |-> hashed, timely |-> timely, priority |-> priority,
     feePerKb |-> fee \div size, fee |-> fee]
Txs == {Tx("p", {<<"a", 1>>}, 2, 2, 1, 0, TRUE, 9, 2),
        Tx("q", {<<"b", 1>>}, 1, 3, 1, 2, TRUE, 5, 12),
        Tx("r", {<<"p", 1>>, <<"q", 1>>, <<"d", 1>>}, 1, 2, 1, 1, TRUE, 6, 8),
        Tx("s", {<<"p", 2>>}, 1, 1, 0, 0, TRUE, 0, 1),
        Tx("t", {<<"a", 2>>}, 1, 2, 0, 0, FALSE, 9, 9),
        Tx("u", {<<"t", 1>>}, 1, 1, 0, 1, TRUE, 0, 9),
        Tx("v", {<<"c", 1>>}, 1, 2, 1, 3, TRUE, 5, 4)}

\* The parents of a transaction of the pool are in the chain or in the pool.
MCPools == {p \in SUBSET Txs :
              \A t \in p : {o[1] : o \in t.ins}
                             \subseteq {u.id : u \in p} \cup {"a", "b", "c", "d"}}

\* The genesis block, and twenty-six blocks of a kind after it in quick succession.
Genesis == <<Block(FALSE, 0, Limit)>>
Quick(stake) == FoldLeft(LAMBDA c, i : AddBlock(c, stake, 1), Genesis,
                         [i \in 1..26 |-> i])
MCStarts == {Genesis, Quick(TRUE), Quick(FALSE)}
MCSpacings == {-5, 1, 20, 120, 1000}
MCSteps == {-1, 0, 2, 4}
MCFactor == [d \in 0..3 |-> 900 + 100 * d]
MCOutputLists == {<<12>>, <<16>>, <<20>>, <<16, 3>>, <<4, 16>>, <<0, 28>>, <<0, 8, 20>>}
MCSizes == [x |-> 1, y |-> 2]
MCRolls == {<<TRUE, 1>>, <<FALSE, 1>>, <<FALSE, 5>>, <<FALSE, 9>>}
=============================================================================
