------------------------------- MODULE Script -------------------------------
(***************************************************************************)
(* script.cpp: the stack machine that decides whether an input may spend   *)
(* an output, the hash a signature commits to, and the count of signature  *)
(* operations a script is charged for.                                     *)
(*                                                                         *)
(* A value on the stack is a tuple whose first element is its sort:        *)
(*   <<"num", n>>      the shortest encoding of the number n, where n = 0  *)
(*                     is the empty string, also the machine's false;      *)
(*   <<"negzero">>     the byte 0x80: zero as a number, false, not empty;  *)
(*   <<"big">>         a string longer than 520 bytes;                     *)
(*   <<"key", k>>, <<"hash", v>>, <<"script", s>>, <<"sig", k, t, h>>.     *)
(* A script is a sequence of instructions: <<"push", v>>, which stands for *)
(* OP_0, OP_1NEGATE, OP_1 to OP_16 and the pushes of data, or <<name>>.    *)
(* The byte length of a script, OP_SIZE and the hashes other than          *)
(* OP_HASH160 are left out, and numbers stay within the four bytes that    *)
(* CastToBigNum reads.                                                     *)
(***************************************************************************)
EXTENDS Integers, FiniteSets, SequencesExt

CONSTANTS MaxOps,   \* operations of a script that are no pushes: 201
          MaxStack  \* values on the two stacks together: 1000

ASSUME ScriptAssumption == MaxOps \in Nat /\ MaxStack \in Nat

Num(n) == <<"num", n>>
NegZero == <<"negzero">>
Big == <<"big">>
KeyVal(k) == <<"key", k>>
Sig(k, t, h) == <<"sig", k, t, h>>
ScriptVal(s) == <<"script", s>>
Hashed(v) == <<"hash", v>>

Push(v) == <<"push", v>>
IsPush(op) == op[1] = "push"
PushAll(vs) == [i \in DOMAIN vs |-> Push(vs[i])]
IsPushOnly(script) == \A i \in DOMAIN script : IsPush(script[i])

CastToBool(v) == v \notin {Num(0), NegZero}
IsNumber(v) == v[1] \in {"num", "negzero"}
NumberOf(v) == IF v = NegZero THEN 0 ELSE v[2]
Truth(b) == Num(IF b THEN 1 ELSE 0)

-----------------------------------------------------------------------------
(* What a signature commits to. A transaction has the coins it spends and  *)
(* its outputs; sequence numbers are left out.                             *)

Base(type) == type[1]            \* "ALL", "NONE" or "SINGLE"
AnyoneCanPay(type) == type[2]

One == <<"one">>                 \* the hash 1 that stands for an error

SignatureHash(code, tx, n, type) ==
    IF \/ n > Len(tx.ins)
       \/ Base(type) = "SINGLE" /\ n > Len(tx.outs)
    THEN One
    ELSE <<"tx",
           SelectSeq(code, LAMBDA op : op # <<"CODESEPARATOR">>),
           IF AnyoneCanPay(type) THEN <<tx.ins[n]>> ELSE tx.ins,
           IF AnyoneCanPay(type) THEN 1 ELSE n,
           CASE Base(type) = "ALL"    -> tx.outs
             [] Base(type) = "NONE"   -> <<>>
             [] Base(type) = "SINGLE" ->
                  [i \in 1..n |-> IF i < n THEN "null" ELSE tx.outs[i]],
           type>>

\* The signature carries its type; every caller passes nHashType = 0, "any".
CheckSig(sig, key, code, tx, n) ==
    /\ sig[1] = "sig"
    /\ key[1] = "key"
    /\ sig[2] = key[2]
    /\ sig[4] = SignatureHash(code, tx, n, sig[3])

-----------------------------------------------------------------------------
(* The machine. m.exec holds one BOOLEAN for every open conditional;       *)
(* m.checks counts the signatures that may have been checked.              *)

Machine(stack) == [ok |-> TRUE, stack |-> stack, alt |-> <<>>, exec |-> <<>>,
                   ops |-> 0, code |-> <<>>, checks |-> 0]

Fail(m) == [m EXCEPT !.ok = FALSE]
Top(m, i) == m.stack[Len(m.stack) + 1 - i]
Replace(m, n, vs) ==
    [m EXCEPT !.stack = SubSeq(@, 1, Len(@) - n) \o vs]
Needs(m, n, next) == IF Len(m.stack) < n THEN Fail(m) ELSE next
NeedsNumbers(m, n, next) ==
    Needs(m, n, IF \A i \in 1..n : IsNumber(Top(m, i)) THEN next ELSE Fail(m))

Verified(m) ==
    Needs(m, 1, IF CastToBool(Top(m, 1)) THEN Replace(m, 1, <<>>) ELSE Fail(m))

\* The operations that only rearrange: the values they take off the top and
\* the values they leave, by their places counted from the top.
Shuffles == [
    DROP |-> <<1, <<>> >>,          2DROP |-> <<2, <<>> >>,
    DUP  |-> <<1, <<1, 1>> >>,      2DUP  |-> <<2, <<2, 1, 2, 1>> >>,
    3DUP |-> <<3, <<3, 2, 1, 3, 2, 1>> >>,
    OVER |-> <<2, <<2, 1, 2>> >>,   2OVER |-> <<4, <<4, 3, 2, 1, 4, 3>> >>,
    ROT  |-> <<3, <<2, 1, 3>> >>,   2ROT  |-> <<6, <<4, 3, 2, 1, 6, 5>> >>,
    SWAP |-> <<2, <<1, 2>> >>,      2SWAP |-> <<4, <<2, 1, 4, 3>> >>,
    NIP  |-> <<2, <<1>> >>,         TUCK  |-> <<2, <<1, 2, 1>> >>]

Shuffle(m, name) ==
    LET takes == Shuffles[name][1]
        gives == Shuffles[name][2]
    IN  Needs(m, takes,
          Replace(m, takes, [i \in DOMAIN gives |-> Top(m, gives[i])]))

StackOp(m, name) ==
    CASE name = "TOALTSTACK" ->
           Needs(m, 1, [Replace(m, 1, <<>>) EXCEPT !.alt = Append(@, Top(m, 1))])
      [] name = "FROMALTSTACK" ->
           IF m.alt = <<>> THEN Fail(m)
           ELSE [Replace(m, 0, <<Last(m.alt)>>) EXCEPT !.alt = Front(@)]
      [] name = "IFDUP" ->
           Needs(m, 1, IF CastToBool(Top(m, 1))
                       THEN Replace(m, 0, <<Top(m, 1)>>) ELSE m)
      [] name = "DEPTH" -> Replace(m, 0, <<Num(Len(m.stack))>>)
      [] name \in {"PICK", "ROLL"} ->
           Needs(m, 2,
             IF ~IsNumber(Top(m, 1)) THEN Fail(m)
             ELSE LET n == NumberOf(Top(m, 1))
                      below == Replace(m, 1, <<>>)
                      at == Len(below.stack) - n
                  IN  IF n < 0 \/ n >= Len(below.stack) THEN Fail(m)
                      ELSE IF name = "PICK"
                           THEN Replace(below, 0, <<below.stack[at]>>)
                           ELSE [below EXCEPT !.stack =
                                   Append(RemoveAt(@, at), @[at])])

AsNum(b) == IF b THEN 1 ELSE 0

Unary(name, a) ==
    CASE name = "1ADD" -> a + 1
      [] name = "1SUB" -> a - 1
      [] name = "NEGATE" -> -a
      [] name = "ABS" -> IF a < 0 THEN -a ELSE a
      [] name = "NOT" -> AsNum(a = 0)
      [] name = "0NOTEQUAL" -> AsNum(a # 0)

Binary(name, a, b) ==
    CASE name = "ADD" -> a + b
      [] name = "SUB" -> a - b
      [] name = "BOOLAND" -> AsNum(a # 0 /\ b # 0)
      [] name = "BOOLOR" -> AsNum(a # 0 \/ b # 0)
      [] name = "NUMEQUAL" -> AsNum(a = b)
      [] name = "NUMNOTEQUAL" -> AsNum(a # b)
      [] name = "LESSTHAN" -> AsNum(a < b)
      [] name = "GREATERTHAN" -> AsNum(a > b)
      [] name = "LESSTHANOREQUAL" -> AsNum(a <= b)
      [] name = "GREATERTHANOREQUAL" -> AsNum(a >= b)
      [] name = "MIN" -> IF a < b THEN a ELSE b
      [] name = "MAX" -> IF a > b THEN a ELSE b

UnaryNames == {"1ADD", "1SUB", "NEGATE", "ABS", "NOT", "0NOTEQUAL"}
BinaryNames == {"ADD", "SUB", "BOOLAND", "BOOLOR", "NUMEQUAL", "NUMNOTEQUAL",
                "LESSTHAN", "GREATERTHAN", "LESSTHANOREQUAL",
                "GREATERTHANOREQUAL", "MIN", "MAX"}

NumericOp(m, name) ==
    IF name \in UnaryNames
    THEN NeedsNumbers(m, 1,
           Replace(m, 1, <<Num(Unary(name, NumberOf(Top(m, 1))))>>))
    ELSE NeedsNumbers(m, 2,
           Replace(m, 2,
             <<Num(Binary(name, NumberOf(Top(m, 2)), NumberOf(Top(m, 1))))>>))

Within(m) ==
    NeedsNumbers(m, 3,
      LET v(i) == NumberOf(Top(m, i))
      IN  Replace(m, 3, <<Truth(v(2) <= v(3) /\ v(3) < v(1))>>))

CryptoOp(m, name, rest, ctx) ==
    CASE name = "HASH160" -> Needs(m, 1, Replace(m, 1, <<Hashed(Top(m, 1))>>))
      [] name = "CODESEPARATOR" -> [m EXCEPT !.code = rest]
      [] name = "CHECKSIG" ->
           Needs(m, 2,
             LET code == SelectSeq(m.code, LAMBDA op : op # Push(Top(m, 2)))
             IN  [Replace(m, 2, <<Truth(CheckSig(Top(m, 2), Top(m, 1), code,
                                                 ctx.tx, ctx.n))>>)
                    EXCEPT !.checks = @ + 1])

\* The signatures are tried in the order of the keys, from the top down: a
\* key is used once. The loop of the code gives up as soon as more signatures
\* than keys are left, which changes no result.
Matched(sigs, keys, code, ctx) ==
    FoldLeft(LAMBDA j, key :
               IF j < Len(sigs) /\ CheckSig(sigs[j + 1], key, code, ctx.tx, ctx.n)
               THEN j + 1 ELSE j,
             0, keys)

CheckMultiSig(m, ctx) ==
    NeedsNumbers(m, 1,
      LET nKeys == NumberOf(Top(m, 1))
          counted == [m EXCEPT !.ops = @ + nKeys, !.checks = @ + nKeys]
      IN  IF nKeys \notin 0..20 \/ counted.ops > MaxOps THEN Fail(m)
          ELSE Needs(m, 2 + nKeys,
            IF ~IsNumber(Top(m, 2 + nKeys)) THEN Fail(m)
            ELSE
              LET nSigs == NumberOf(Top(m, 2 + nKeys))
                  keys == [i \in 1..nKeys |-> Top(m, 1 + i)]
                  sigs == [i \in 1..nSigs |-> Top(m, 2 + nKeys + i)]
                  code == SelectSeq(m.code,
                            LAMBDA op : op \notin {Push(s) : s \in ToSet(sigs)})
              IN  IF nSigs \notin 0..nKeys THEN Fail(m)
                  ELSE Needs(m, 3 + nKeys + nSigs,
                         Replace(counted, 3 + nKeys + nSigs,
                           <<Truth(Matched(sigs, keys, code, ctx) = nSigs)>>))))

Disabled == {"CAT", "SUBSTR", "LEFT", "RIGHT", "INVERT", "AND", "OR", "XOR",
             "2MUL", "2DIV", "MUL", "DIV", "MOD", "LSHIFT", "RSHIFT"}
Conditional == {"IF", "NOTIF", "ELSE", "ENDIF"}

Executes(m) == \A i \in DOMAIN m.exec : m.exec[i]

\* Mutant: a conditional that is not executed is not opened either.
ConditionalOpFlat(m, name) ==
    CASE name \in {"IF", "NOTIF"} ->
           IF Executes(m)
           THEN Needs(m, 1,
                  [Replace(m, 1, <<>>) EXCEPT !.exec =
                     Append(@, CastToBool(Top(m, 1)) = (name = "IF"))])
           ELSE m
      [] name = "ELSE" ->
           IF m.exec = <<>> THEN Fail(m)
           ELSE [m EXCEPT !.exec[Len(m.exec)] = ~@]
      [] name = "ENDIF" ->
           IF m.exec = <<>> THEN Fail(m) ELSE [m EXCEPT !.exec = Front(@)]

ConditionalOp(m, name) ==
    CASE name \in {"IF", "NOTIF"} ->
           IF Executes(m)
           THEN Needs(m, 1,
                  [Replace(m, 1, <<>>) EXCEPT !.exec =
                     Append(@, CastToBool(Top(m, 1)) = (name = "IF"))])
           ELSE [m EXCEPT !.exec = Append(@, FALSE)]
      [] name = "ELSE" ->
           IF m.exec = <<>> THEN Fail(m)
           ELSE [m EXCEPT !.exec[Len(m.exec)] = ~@]
      [] name = "ENDIF" ->
           IF m.exec = <<>> THEN Fail(m) ELSE [m EXCEPT !.exec = Front(@)]

Equal(m) == Needs(m, 2, Replace(m, 2, <<Truth(Top(m, 1) = Top(m, 2))>>))

VerifyForms == {"EQUALVERIFY", "NUMEQUALVERIFY", "CHECKSIGVERIFY",
                "CHECKMULTISIGVERIFY"}
Plain(name) == CASE name = "EQUALVERIFY" -> "EQUAL"
                 [] name = "NUMEQUALVERIFY" -> "NUMEQUAL"
                 [] name = "CHECKSIGVERIFY" -> "CHECKSIG"
                 [] name = "CHECKMULTISIGVERIFY" -> "CHECKMULTISIG"
                 [] OTHER -> name

\* The switch of EvalScript. "cut" is the end of the bytes inside a push and
\* any name that is not listed an opcode the machine does not know.
Perform(m, name, rest, ctx) ==
    CASE name = "NOP" -> m
      [] name \in Conditional -> ConditionalOp(m, name)
      [] name = "VERIFY" -> Verified(m)
      [] name \in DOMAIN Shuffles -> Shuffle(m, name)
      [] name \in {"TOALTSTACK", "FROMALTSTACK", "IFDUP", "DEPTH", "PICK",
                   "ROLL"} -> StackOp(m, name)
      [] name = "EQUAL" -> Equal(m)
      [] name \in UnaryNames \cup BinaryNames -> NumericOp(m, name)
      [] name = "WITHIN" -> Within(m)
      [] name \in {"HASH160", "CODESEPARATOR", "CHECKSIG"} ->
           CryptoOp(m, name, rest, ctx)
      [] name = "CHECKMULTISIG" -> CheckMultiSig(m, ctx)
      [] OTHER -> Fail(m)

AndVerify(name, done) ==
    IF name \in VerifyForms /\ done.ok THEN Verified(done) ELSE done
Switch(m, name, rest, ctx) == AndVerify(name, Perform(m, Plain(name), rest, ctx))

\* One turn of the loop: the limits that hold even where nothing is executed,
\* the instruction, and the size of the stacks.
Counted(m, op) == IF IsPush(op) THEN m ELSE [m EXCEPT !.ops = @ + 1]

Limited(m, op, done) ==
    IF \/ ~m.ok
       \/ op = <<"cut">>
       \/ op = Push(Big)
       \/ Counted(m, op).ops > MaxOps
       \/ op[1] \in Disabled
       \/ Len(done.stack) + Len(done.alt) > MaxStack
    THEN Fail(m) ELSE done

Instruction(m, op, rest, ctx) ==
    Limited(m, op,
      CASE IsPush(op) /\ Executes(m) -> Replace(Counted(m, op), 0, <<op[2]>>)
        [] IsPush(op) /\ ~Executes(m) -> Counted(m, op)
        [] ~IsPush(op) /\ (Executes(m) \/ op[1] \in Conditional) ->
             Switch(Counted(m, op), op[1], rest, ctx)
        [] OTHER -> Counted(m, op))

RunScript(stack, script, ctx) ==
    LET turn(m, i) ==
          Instruction(m, script[i], SubSeq(script, i + 1, Len(script)), ctx)
    IN  FoldLeft(turn, [Machine(stack) EXCEPT !.code = script],
                 [i \in DOMAIN script |-> i])

Ended(m) == [ok |-> m.ok /\ m.exec = <<>>, stack |-> m.stack, checks |-> m.checks]
EvalScript(stack, script, ctx) == Ended(RunScript(stack, script, ctx))

IsPayToScriptHash(script) ==
    /\ Len(script) = 3
    /\ script[1] = <<"HASH160">>
    /\ IsPush(script[2]) /\ script[2][2][1] = "hash"
    /\ script[3] = <<"EQUAL">>

\* A stack accepts when its top is true.
Accepts(result) ==
    /\ result.ok
    /\ result.stack # <<>>
    /\ CastToBool(Last(result.stack))

\* What is left of the verification after the signature script was run.
VerifySigned(signed, scriptSig, scriptPubKey, ctx) ==
    /\ signed.ok
    /\ Accepts(EvalScript(signed.stack, scriptPubKey, ctx))
    /\ IsPayToScriptHash(scriptPubKey) =>
         /\ IsPushOnly(scriptSig)
         /\ LET redeem == Last(signed.stack)
            IN  Accepts(EvalScript(Front(signed.stack),
                          IF redeem[1] = "script" THEN redeem[2]
                          ELSE <<<<"cut">>>>, ctx))

\* With fValidatePayToScriptHash set, as every caller of interest sets it.
VerifyScript(scriptSig, scriptPubKey, ctx) ==
    VerifySigned(EvalScript(<<>>, scriptSig, ctx), scriptSig, scriptPubKey, ctx)

-----------------------------------------------------------------------------
(* The signature operations a script is charged for. With fAccurate a      *)
(* CHECKMULTISIG just after OP_1 .. OP_16 counts as that many keys.        *)

\* Mutant: the last number pushed stays the count of keys whatever follows it.
GetSigOpCountStale(script, fAccurate) ==
    LET number(i) == {k \in 1..(i - 1) :
                        IsPush(script[k]) /\ script[k][2] \in {Num(n) : n \in 1..16}}
        cost(i) ==
          CASE script[i][1] \in {"CHECKSIG", "CHECKSIGVERIFY"} -> 1
            [] script[i][1] \in {"CHECKMULTISIG", "CHECKMULTISIGVERIFY"} ->
                 IF fAccurate /\ number(i) # {}
                 THEN script[CHOOSE k \in number(i) :
                               \A j \in number(i) : j <= k][2][2] ELSE 20
            [] OTHER -> 0
    IN  FoldLeft(LAMBDA n, i : n + cost(i), 0, [i \in DOMAIN script |-> i])

GetSigOpCount(script, fAccurate) ==
    LET cost(i) ==
          CASE script[i][1] \in {"CHECKSIG", "CHECKSIGVERIFY"} -> 1
            [] script[i][1] \in {"CHECKMULTISIG", "CHECKMULTISIGVERIFY"} ->
                 IF /\ fAccurate /\ i > 1 /\ IsPush(script[i - 1])
                    /\ script[i - 1][2] \in {Num(k) : k \in 1..16}
                 THEN script[i - 1][2][2] ELSE 20
            [] OTHER -> 0
        read == SelectInSeq(script, LAMBDA op : op = <<"cut">>)
    IN  FoldLeft(LAMBDA n, i : n + cost(i), 0,
                 [i \in 1..(IF read = 0 THEN Len(script) ELSE read - 1) |-> i])
=============================================================================
