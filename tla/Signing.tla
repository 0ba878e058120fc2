------------------------------ MODULE Signing -------------------------------
(***************************************************************************)
(* Several parties complete one transaction: each has a copy with the      *)
(* signature scripts it knows, calls signrawtransaction on its copy and    *)
(* perhaps another party's (rpcrawtransaction.cpp), and may have changed   *)
(* the outputs of its copy before.                                         *)
(***************************************************************************)
EXTENDS Standard

CONSTANTS Parties,
          KeysOf,      \* KeysOf[p]: the keys in the wallet of p
          ScriptsOf,   \* ScriptsOf[p]: the redemption scripts p knows
          Known,       \* Known[p]: the inputs whose coins p can look up
          Coins,       \* the coins spent, a sequence
          PubKeyOf,    \* PubKeyOf[i]: scriptPubKey of the coin of input i
          CodeOf,      \* CodeOf[i]: the script that is signed for it
          Threshold,   \* Threshold[i]: how many keys the coin asks for
          Outputs,     \* the lists of outputs a copy may have
          FirstOutputs,
          Types,       \* the signature types used
          MaxCalls, MaxEdits

ASSUME SigningAssumption ==
    /\ FirstOutputs \in Outputs
    /\ MaxCalls \in Nat /\ MaxEdits \in Nat
    /\ DOMAIN PubKeyOf = DOMAIN Coins

VARIABLES copy,      \* copy[p]: outputs and signature scripts
          consents,  \* every signature made: key, input, type, outputs
          last,      \* of the last call: the inputs that verified, and those
                     \* whose coins were given enough signatures
          calls, edits

svars == <<copy, consents, last, calls, edits>>

Inputs == DOMAIN Coins
TxOf(outs) == [ins |-> Coins, outs |-> outs]
Ctx(outs, i) == [tx |-> TxOf(outs), n |-> i]
KeyStore(p) == [keys |-> KeysOf[p], scripts |-> ScriptsOf[p]]

Verifies(outs, scriptSig, i) == VerifyScript(scriptSig, PubKeyOf[i], Ctx(outs, i))

SigningInit ==
    /\ copy = [p \in Parties |->
                 [outs |-> FirstOutputs, sigs |-> [i \in Inputs |-> <<>>]]]
    /\ consents = {}
    /\ last = [verified |-> {}, enough |-> {}]
    /\ calls = 0 /\ edits = 0

\* Mutant: SIGHASH_SINGLE is signed without a corresponding output, too.
MaySignAlways(outs, i, type) == TRUE

\* Only sign SIGHASH_SINGLE if there is a corresponding output.
MaySign(outs, i, type) == Base(type) # "SINGLE" \/ i <= Len(outs)

Fresh(p, outs, i, type) ==
    IF i \in Known[p] /\ MaySign(outs, i, type)
    THEN SignSignature(KeyStore(p), PubKeyOf[i], TxOf(outs), i, type)
    ELSE <<>>

\* The script of an input after the call: the variants are merged in their
\* order, the first being the transaction that is signed.
Merged(p, variants, i, type) ==
    LET outs == variants[1].outs
    IN  IF i \notin Known[p] THEN variants[1].sigs[i]
        ELSE FoldLeft(LAMBDA s, v : CombineSignatures(PubKeyOf[i], TxOf(outs), i,
                                                      s, v.sigs[i]),
                      PushAll(Fresh(p, outs, i, type)), variants)

\* What a reader of all the variants could use: the keys with a signature
\* that fits the first variant.
KeysHeard(p, variants, i, type) ==
    LET outs == variants[1].outs
        given == ToSet(Fresh(p, outs, i, type))
                   \cup UNION {{op[2] : op \in ToSet(v.sigs[i])} :
                                 v \in ToSet(variants)}
    IN  {s[2] : s \in {s \in given :
           /\ s[1] = "sig"
           /\ s[4] = SignatureHash(CodeOf[i], TxOf(outs), i, s[3])}}

SignRawTransaction(p, variants, type) ==
    LET outs == variants[1].outs
        sigs == [i \in Inputs |-> Merged(p, variants, i, type)]
        made(i) == {s \in ToSet(Fresh(p, outs, i, type)) : s[1] = "sig"}
    IN  /\ calls < MaxCalls
        /\ copy' = [copy EXCEPT ![p] = [outs |-> outs, sigs |-> sigs]]
        /\ consents' = consents \cup
             UNION {{[key |-> s[2], input |-> i, type |-> type, outs |-> outs] :
                       s \in made(i)} : i \in Inputs}
        /\ last' = [verified |-> {i \in Known[p] : Verifies(outs, sigs[i], i)},
                    enough |-> {i \in Known[p] :
                      Cardinality(KeysHeard(p, variants, i, type))
                        >= Threshold[i]}]
        /\ calls' = calls + 1
        /\ UNCHANGED edits

SignOwn(p) == \E type \in Types : SignRawTransaction(p, <<copy[p]>>, type)

SignWith(p, q) ==
    \E type \in Types, variants \in {<<copy[p], copy[q]>>, <<copy[q], copy[p]>>} :
      SignRawTransaction(p, variants, type)

\* The caller's own doing: he hands in the transaction with other outputs.
ChangeOutputs(p) ==
    /\ edits < MaxEdits
    /\ \E outs \in Outputs \ {copy[p].outs} :
         copy' = [copy EXCEPT ![p].outs = outs]
    /\ edits' = edits + 1
    /\ UNCHANGED <<consents, last, calls>>

SigningNext ==
    \/ \E p \in Parties : SignOwn(p)
    \/ \E p \in Parties : \E q \in Parties \ {p} : SignWith(p, q)
    \/ \E p \in Parties : ChangeOutputs(p)

-----------------------------------------------------------------------------
\* Every copy has one of the lists of outputs and a script for every input,
\* made of pushes only.
SigningTypeOK ==
    /\ copy \in [Parties -> [outs : Outputs, sigs : {copy[p].sigs : p \in Parties}]]
    /\ \A p \in Parties :
         /\ DOMAIN copy[p].sigs = Inputs
         /\ \A i \in Inputs : IsPushOnly(copy[p].sigs[i])
    /\ last.verified \subseteq Inputs /\ last.enough \subseteq Inputs

\* What a signature type lets the others change of the outputs.
Covers(consent, outs) ==
    CASE Base(consent.type) = "ALL" -> consent.outs = outs
      [] Base(consent.type) = "NONE" -> TRUE
      [] Base(consent.type) = "SINGLE" ->
           /\ consent.input <= Len(outs) /\ consent.input <= Len(consent.outs)
           /\ consent.outs[consent.input] = outs[consent.input]

\* An input that verifies has been agreed to: as many different keys as the
\* coin asks for have signed this input with outputs that the type of the
\* signature makes binding (SignatureHash, CheckSig, OP_CHECKMULTISIG, the
\* SIGHASH_SINGLE guard of signrawtransaction).
Consent ==
    \A p \in Parties, i \in Inputs :
      Verifies(copy[p].outs, copy[p].sigs[i], i) =>
        Cardinality({c.key : c \in {c \in consents :
                       c.input = i /\ Covers(c, copy[p].outs)}}) >= Threshold[i]

\* Merging loses nothing: after a call a multisignature input verifies exactly
\* if the signatures handed in, with those the caller could make, fit it and
\* come from enough keys, in whatever order and however incomplete they were
\* (CombineMultisig against OP_CHECKMULTISIG).
MergeLosesNothing ==
    \A i \in Inputs : Solver(CodeOf[i]).kind = "multisig" =>
      (i \in last.verified <=> i \in last.enough)

\* An input signed to the end for a standard coin is one that nodes relay:
\* merging leaves no surplus value on the stack (AreInputsStandard).
SignedIsStandard ==
    \A p \in Parties, i \in Inputs :
      Verifies(copy[p].outs, copy[p].sigs[i], i) =>
        InputIsStandard(copy[p].sigs[i], PubKeyOf[i], Ctx(copy[p].outs, i))

\* An input verifies with enough consent only, and however the copies are
\* merged, the signatures they hold are found, and the result is relayed.
SigningSound == SigningTypeOK /\ Consent /\ MergeLosesNothing /\ SignedIsStandard

=============================================================================
