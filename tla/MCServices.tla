----------------------------- MODULE MCServices -----------------------------
(***************************************************************************)
(* Signing: three parties share a two-of-three output, one key each. The   *)
(* second input is a plain output of p1, which the node of p3 cannot look  *)
(* up.                                                                     *)
(* With one output SIGHASH_SINGLE has none for the second input, with two  *)
(* outputs it has.                                                         *)
(* Relocking: two calls, with periods of no time, a short and a long one,  *)
(* and one whose milliseconds overflow.                                    *)
(* Orphans: a chain a, b, d, e of transactions, c that spends two of them  *)
(* and competes with d, and f, which is too big to be kept; b may be       *)
(* refused as a free transaction.                                          *)
(* The database: two files and two threads that use them.                  *)
(* Alerts: an old one, one for all versions, one that cancels the old one, *)
(* and two with the reserved number, of which one lacks the proper form.   *)
(* Balances: those of MCBalances, with fewer blocks.                       *)
(***************************************************************************)
EXTENDS Services, MCBalances

MCParties == {"p1", "p2", "p3"}
MCKeysOf == [p1 |-> {"k1", "own"}, p2 |-> {"k2"}, p3 |-> {"k3"}]
Redeem == <<Push(Num(2)), Push(KeyVal("k1")), Push(KeyVal("k2")),
            Push(KeyVal("k3")), Push(Num(3)), <<"CHECKMULTISIG">>>>
Plain1 == <<<<"DUP">>, <<"HASH160">>, Push(Hashed(KeyVal("own"))),
            <<"EQUALVERIFY">>, <<"CHECKSIG">>>>
MCScriptsOf == [p \in MCParties |-> {Redeem}]
MCKnown == [p1 |-> {1, 2}, p2 |-> {1, 2}, p3 |-> {1}]
MCCoins == <<"c1", "c2">>
MCPubKeyOf == <<<<<<"HASH160">>, Push(Hashed(ScriptVal(Redeem))), <<"EQUAL">>>>,
                Plain1>>
MCCodeOf == <<Redeem, Plain1>>
MCThreshold == <<2, 1>>
MCOutputs == {<<"a">>, <<"b", "a">>}
MCFirst == <<"a">>
MCTypes == {<<"ALL", FALSE>>, <<"NONE", TRUE>>, <<"SINGLE", FALSE>>}
MCPeriods == {-3, 0, 1, 2}
MCLoose == {"a", "b", "c", "d", "e", "f"}
MCParents == [a |-> {}, b |-> {"a"}, c |-> {"a", "b"}, d |-> {"b"}, e |-> {"d"}, f |-> {"a"}]
MCConflicts == {<<"c", "d">>, <<"d", "c">>}
MCVerdicts == [t \in MCLoose |-> IF t = "b" THEN BOOLEAN ELSE {TRUE}]

Alert(id, cancel, set, versions, relay, expires, priority, proper) ==
    [nID |-> id, nCancel |-> cancel, setCancel |-> set, nMinVer |-> versions[1],
     nMaxVer |-> versions[2], nRelayUntil |-> relay, nExpiration |-> expires,
     nPriority |-> priority, proper |-> proper]
MCAlerts == {Alert(1, 0, {}, <<1, 1>>, 0, 2, 5000, TRUE),
             Alert(2, 0, {}, <<1, 2>>, 0, 1, 10, TRUE),
             Alert(3, 1, {}, <<1, 2>>, 1, 2, 2000, TRUE),
             Alert(9, 8, {}, <<0, 9>>, 9, 9, 9999, TRUE),
             Alert(9, 0, {3}, <<0, 9>>, 9, 9, 9, FALSE)}
=============================================================================
