----------------------------- MODULE MCBalances -----------------------------
(***************************************************************************)
(* A wallet that mines, stakes and pays. b is a coinbase of mine; s stakes *)
(* its output, p pays from it to me and to a key that is imported later; q *)
(* is paid by others to that key. r and x spend what q pays to the key: r  *)
(* for me, to a script that is added later; x for the owner of the key     *)
(* before it is imported, to me.                                           *)
(***************************************************************************)
EXTENDS Balances

MCPayments == {"b", "s", "p", "q", "r", "x"}
MCOuts == [b |-> 1, s |-> 1, p |-> 2, q |-> 1, r |-> 1, x |-> 1]
MCIns == [b |-> {}, s |-> {<<"b", 0>>}, p |-> {<<"b", 0>>},
          q |-> {}, r |-> {<<"q", 0>>, <<"p", 1>>}, x |-> {<<"q", 0>>}]
MCGenerates == [b |-> "base", s |-> "stake", p |-> "no", q |-> "no", r |-> "no",
                x |-> "no"]
MCOutPoints == UNION {{<<t, n>> : n \in 0 .. MCOuts[t] - 1} : t \in MCPayments}
MCWorth == [o \in MCOutPoints |->
              CASE o = <<"b", 0>> -> 8 [] o = <<"s", 0>> -> 9
                [] o = <<"p", 0>> -> 2 [] o = <<"p", 1>> -> 5
                [] o = <<"q", 0>> -> 3 [] o = <<"r", 0>> -> 7
                [] o = <<"x", 0>> -> 1]
MCPaidTo == [o \in MCOutPoints |->
              CASE o \in {<<"b", 0>>, <<"s", 0>>, <<"x", 0>>} -> "mine"
                [] o = <<"p", 1>> -> "change"
                [] o \in {<<"p", 0>>, <<"q", 0>>} -> "imported"
                [] o = <<"r", 0>> -> "script"]

=============================================================================
