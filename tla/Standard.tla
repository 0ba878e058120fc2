------------------------------ MODULE Standard ------------------------------
(***************************************************************************)
(* script.cpp: the standard outputs (Solver), how a key store signs for    *)
(* them (SignSignature), how two signature scripts for the same input are  *)
(* merged (CombineSignatures), and what relaying asks of an input          *)
(* (AreInputsStandard of main.cpp).                                        *)
(*                                                                         *)
(* A key store ks has the keys it can sign with and the redemption scripts *)
(* it knows, ks.keys and ks.scripts. Signing with a key does not fail.     *)
(***************************************************************************)
EXTENDS Script

Solution(ok, kind, data) == [ok |-> ok, kind |-> kind, data |-> data]

SmallInts == {Num(n) : n \in 0..16}
IsMultisigForm(script) ==
    LET n == Len(script)
    IN  /\ n >= 3
        /\ \A i \in 1..(n - 1) : IsPush(script[i])
        /\ script[n] = <<"CHECKMULTISIG">>
        /\ \A i \in 2..(n - 2) : script[i][2][1] = "key"
        /\ script[1][2] \in SmallInts
        /\ script[n - 1][2] \in SmallInts

\* The public keys or hashes of a standard output. A multisignature output
\* whose counts do not fit is refused but keeps its kind.
Solver(script) ==
    LET values == [i \in DOMAIN script |->
                     IF IsPush(script[i]) THEN script[i][2] ELSE <<"none">>]
        n == Len(script)
    IN  CASE IsPayToScriptHash(script) ->
               Solution(TRUE, "scripthash", <<values[2]>>)
          [] /\ n = 2 /\ script[2] = <<"CHECKSIG">> /\ values[1][1] = "key" ->
               Solution(TRUE, "pubkey", <<values[1]>>)
          [] /\ n = 5
             /\ <<script[1], script[2], script[4], script[5]>> =
                  <<<<"DUP">>, <<"HASH160">>, <<"EQUALVERIFY">>, <<"CHECKSIG">>>>
             /\ values[3][1] = "hash" ->
               Solution(TRUE, "pubkeyhash", <<values[3]>>)
          [] IsMultisigForm(script) ->
               LET required == values[1][2]
                   total == values[n - 1][2]
               IN  Solution(required >= 1 /\ total >= required /\ total = n - 3,
                            "multisig", SubSeq(values, 1, n - 1))
          [] /\ n = 2 /\ script[1] = <<"RETURN">>
             /\ script[2] \notin {Push(Big), <<"cut">>} ->
               Solution(TRUE, "nulldata", <<>>)
          [] OTHER -> Solution(FALSE, "nonstandard", <<>>)

PubKeys(solution) == SubSeq(solution.data, 2, Len(solution.data) - 1)
Required(solution) == solution.data[1][2]

-----------------------------------------------------------------------------
(* Signing. *)

\* SignN: in the order of the keys, no more signatures than are required.
SignN(solution, ks, hash, type) ==
    LET mine == SelectSeq(PubKeys(solution), LAMBDA key : key[2] \in ks.keys)
        used == SubSeq(mine, 1, IF Len(mine) < Required(solution)
                                THEN Len(mine) ELSE Required(solution))
    IN  [i \in DOMAIN used |-> Sig(used[i][2], type, hash)]

\* The values of the signature script and whether they are all there.
SolveWith(ks, script, hash, type) ==
    LET solution == Solver(script)
        answer(ok, values) == [ok |-> ok, kind |-> solution.kind, values |-> values]
        owners == {k \in ks.keys :
                     \/ solution.kind = "pubkey" /\ KeyVal(k) = solution.data[1]
                     \/ /\ solution.kind = "pubkeyhash"
                        /\ Hashed(KeyVal(k)) = solution.data[1]}
    IN  CASE ~solution.ok -> answer(FALSE, <<>>)
          [] solution.ok /\ solution.kind \in {"pubkey", "pubkeyhash"} ->
               IF owners = {} THEN answer(FALSE, <<>>)
               ELSE LET k == CHOOSE k \in owners : TRUE
                    IN  answer(TRUE, IF solution.kind = "pubkey"
                                     THEN <<Sig(k, type, hash)>>
                                     ELSE <<Sig(k, type, hash), KeyVal(k)>>)
          [] solution.ok /\ solution.kind = "multisig" ->
               LET sigs == SignN(solution, ks, hash, type)
               IN  answer(Len(sigs) = Required(solution), <<Num(0)>> \o sigs)
          [] solution.ok /\ solution.kind = "nulldata" -> answer(FALSE, <<>>)
          [] solution.ok /\ solution.kind = "scripthash" ->
               answer(\E s \in ks.scripts : Hashed(ScriptVal(s)) = solution.data[1],
                      <<>>)

\* The signature script SignSignature leaves in input n, complete or not.
\* A redemption script that is itself a script hash is left out.
SignSignature(ks, script, tx, n, type) ==
    LET first == SolveWith(ks, script, SignatureHash(script, tx, n, type), type)
        subscript == CHOOSE s \in ks.scripts :
                       Hashed(ScriptVal(s)) = Solver(script).data[1]
        second == SolveWith(ks, subscript,
                            SignatureHash(subscript, tx, n, type), type)
    IN  IF first.kind # "scripthash" THEN first.values
        ELSE IF ~first.ok THEN <<>>
        ELSE Append(second.values, ScriptVal(subscript))

-----------------------------------------------------------------------------
(* Merging two signature scripts. *)

\* A signature for each key that has one, found by trying them all.
SigFor(key, sigs, code, tx, n) ==
    {s \in sigs : s # Num(0) /\ CheckSig(s, key, code, tx, n)}

\* Mutant: the signatures in the order in which the variants bring them.
CombineInOrder(code, tx, n, solution, sigs1, sigs2) ==
    LET good == SelectSeq(sigs1 \o SelectSeq(sigs2, LAMBDA s : s \notin ToSet(sigs1)),
                  LAMBDA s : \E key \in ToSet(PubKeys(solution)) :
                               SigFor(key, {s}, code, tx, n) # {})
        kept == SubSeq(good, 1, IF Len(good) < Required(solution)
                                THEN Len(good) ELSE Required(solution))
    IN  <<Num(0)>> \o kept
        \o [i \in 1..(Required(solution) - Len(kept)) |-> Num(0)]

CombineMultisig(code, tx, n, solution, sigs1, sigs2) ==
    LET all == ToSet(sigs1) \cup ToSet(sigs2)
        signed == SelectSeq(PubKeys(solution),
                            LAMBDA key : SigFor(key, all, code, tx, n) # {})
        kept == SubSeq(signed, 1, IF Len(signed) < Required(solution)
                                  THEN Len(signed) ELSE Required(solution))
    IN  <<Num(0)>>
        \o [i \in DOMAIN kept |->
              CHOOSE s \in SigFor(kept[i], all, code, tx, n) : TRUE]
        \o [i \in 1..(Required(solution) - Len(kept)) |-> Num(0)]

\* The kinds other than a script hash.
CombinePlain(code, tx, n, sigs1, sigs2) ==
    LET solution == Solver(code)
    IN  CASE solution.kind \in {"nonstandard", "nulldata"} ->
               IF Len(sigs1) >= Len(sigs2) THEN sigs1 ELSE sigs2
          [] solution.kind \in {"pubkey", "pubkeyhash"} ->
               IF sigs1 = <<>> \/ sigs1[1] = Num(0) THEN sigs2 ELSE sigs1
          [] solution.kind = "multisig" ->
               CombineMultisig(code, tx, n, solution, sigs1, sigs2)
          [] solution.kind = "scripthash" -> sigs1

NoTx == [ins |-> <<>>, outs |-> <<>>]

\* Mutant: the redemption script is appended as instructions.
CombineInline(script, tx, n, scriptSig1, scriptSig2) ==
    LET ctx == [tx |-> NoTx, n |-> 1]
        sigs1 == EvalScript(<<>>, scriptSig1, ctx).stack
        sigs2 == EvalScript(<<>>, scriptSig2, ctx).stack
    IN  IF Solver(script).kind = "scripthash" /\ sigs1 # <<>> /\ sigs2 # <<>>
        THEN PushAll(CombinePlain(Last(sigs1)[2], tx, n, Front(sigs1),
                                  Front(sigs2))) \o Last(sigs1)[2]
        ELSE PushAll(IF sigs1 = <<>> THEN sigs2 ELSE sigs1)

\* The same on the values the two scripts leave.
CombineStacks(script, tx, n, sigs1, sigs2) ==
    LET empty(sigs) == sigs = <<>> \/ Last(sigs) = Num(0)
    IN  CASE Solver(script).kind # "scripthash" ->
               CombinePlain(script, tx, n, sigs1, sigs2)
          [] Solver(script).kind = "scripthash" /\ empty(sigs1) -> sigs2
          [] Solver(script).kind = "scripthash" /\ ~empty(sigs1)
               /\ empty(sigs2) -> sigs1
          [] OTHER ->
               Append(CombinePlain(Last(sigs1)[2], tx, n, Front(sigs1), Front(sigs2)),
                      Last(sigs1))

CombineSignatures(script, tx, n, scriptSig1, scriptSig2) ==
    LET ctx == [tx |-> NoTx, n |-> 1]
    IN  PushAll(CombineStacks(script, tx, n, EvalScript(<<>>, scriptSig1, ctx).stack,
                              EvalScript(<<>>, scriptSig2, ctx).stack))

-----------------------------------------------------------------------------
(* What relaying asks of the input that spends an output. *)

\* Mutant: the value CHECKMULTISIG takes in excess is not counted.
ScriptSigArgsExact(solution) ==
    CASE solution.kind = "nonstandard" -> -1
      [] solution.kind \in {"nulldata", "pubkey", "scripthash"} -> 1
      [] solution.kind = "pubkeyhash" -> 2
      [] solution.kind = "multisig" -> Required(solution)

ScriptSigArgsExpected(solution) ==
    CASE solution.kind = "nonstandard" -> -1
      [] solution.kind \in {"nulldata", "pubkey", "scripthash"} -> 1
      [] solution.kind = "pubkeyhash" -> 2
      [] solution.kind = "multisig" -> Required(solution) + 1

StackIsStandard(solution, result) ==
    LET inner == Solver(Last(result.stack)[2])
        hashed == solution.kind = "scripthash"
    IN  /\ solution.ok
        /\ result.ok
        /\ hashed =>
             /\ result.stack # <<>> /\ Last(result.stack)[1] = "script"
             /\ inner.ok /\ inner.kind # "scripthash"
        /\ Len(result.stack) =
             ScriptSigArgsExpected(solution)
               + (IF hashed THEN ScriptSigArgsExpected(inner) ELSE 0)
InputIsStandard(scriptSig, script, ctx) ==
    StackIsStandard(Solver(script), EvalScript(<<>>, scriptSig, ctx))
=============================================================================
