---------------------------- MODULE MCInterchange ----------------------------
(* Instances of Interchange: the documents this program builds, and the    *)
(* same with one or two members changed, left out or added, so that every  *)
(* pair of changes meets.  Widths are scaled and keep their order.         *)
EXTENDS Interchange, TLC

CovenantIdOf(outpoint, output) == <<outpoint[1][1], 200>>

P2pk(key) == <<OP_P2PK, key>>
P2sh(hash) == <<OP_P2SH, hash>>
TwoOfTwo == <<2, 1, 2, 2, OP_MULTISIG>>

PlanIn(amount, script, redeem, txid) ==
  [amount |-> amount, script |-> script, daa |-> 9, txid |-> txid, index |-> 1,
   sequence |-> 3, redeem |-> redeem, sigops |-> 1, paths |-> <<>>]

PlanOut(amount, script, covenant, hint) ==
  [amount |-> amount, script |-> script, covenant |-> covenant, hint |-> hint]

(* A payment from a P2PK and a multisig coin, with a bound output *)
Payment ==
  EncodeDocument(1,
    <<PlanIn(100, P2pk(1), <<>>, <<11, 12>>), PlanIn(50, P2sh(7), TwoOfTwo, <<13, 14>>)>>,
    <<PlanOut(90, P2sh(8), Some([auth |-> 0, id |-> <<21, 22>>]), None),
      PlanOut(50, P2pk(2), None, Some(<<1, 5>>))>>,
    Some(<<6, 6>>), TRUE)

(* One coin, one output *)
Single ==
  EncodeDocument(0, <<PlanIn(20, P2pk(1), <<>>, <<11, 12>>)>>,
                 <<PlanOut(19, P2pk(2), None, None)>>, None, FALSE)

(* As many coins as the compact signer takes *)
Sweep ==
  EncodeDocument(0, <<PlanIn(20, P2pk(1), <<>>, <<11, 12>>), PlanIn(20, P2pk(1), <<>>, <<12, 13>>),
                      PlanIn(20, P2pk(1), <<>>, <<13, 14>>)>>,
                 <<PlanOut(59, P2pk(2), None, None)>>, None, FALSE)

-----------------------------------------------------------------------------
(* Changes *)

Change(kind, index, field, value) ==
  [scope |-> Scope(kind, index), field |-> field, value |-> value]

Without(o, f) == [g \in DOMAIN o \ {f} |-> o[g]]

Set(o, change) ==
  IF change.value = None THEN Without(o, change.field)
  ELSE (change.field :> change.value[1]) @@ o

Applied(d, c) ==
  LET new == Set(ScopeObject(d, c.scope), c)
      at(section, k, v) == [d EXCEPT ![section] = Arr([d[section][2] EXCEPT ![k] = v])]
      k   == c.scope.index
  IN  CASE c.scope.kind = "top" -> new
        [] c.scope.kind = "global" -> [d EXCEPT !.global = Obj(new)]
        [] c.scope.kind = "input" -> at("inputs", k, new)
        [] c.scope.kind = "utxo" ->
             at("inputs", k, [d.inputs[2][k] EXCEPT !.utxoEntry = Obj(new)])
        [] c.scope.kind = "outpoint" ->
             at("inputs", k, [d.inputs[2][k] EXCEPT !.previousOutpoint = Obj(new)])
        [] c.scope.kind = "output" -> at("outputs", k, new)

Values(kind, index, field, values) == {Change(kind, index, field, v) : v \in values}

GlobalChanges ==
  UNION {
    Values("global", 0, "version", {Some(Dec(0))}),
    Values("global", 0, "txVersion", {Some(Num(0)), Some(Num(2)), Some(Dec(1))}),
    Values("global", 0, "inputCount", {Some(Num(1))}),
    Values("global", 0, "fallbackLockTime",
           {None, Some(Num(5)), Some(Num(128)), Some(Dec(128))}),
    Values("global", 0, "inputsModifiable", {None, Some(Flag(TRUE)), Some(Null)}),
    Values("global", 0, "xpubs", {None, Some(Obj([a |-> Null]))}),
    Values("global", 0, "id", {Some(Text("x"))}),
    Values("global", 0, "subnetworkId", {None, Some(Null), Some(Hex(<<1, 2>>)), Some(Hex(<<1>>))}),
    Values("global", 0, "gas", {Some(Null), Some(Num(127)), Some(Num(128)), Some(Dec(255))}),
    Values("global", 0, "txPayload", {None, Some(Hex(<<>>)), Some(Hex(<<1, 2, 3, 4>>))}),
    Values("global", 0, "note", {Some(Num(3)), Some(Num(300)), Some(Text("n"))}),
    Values("top", 0, "note", {Some(Obj([a |-> Null]))})}

InputChanges ==
  UNION {
    Values("input", 1, "sequence", {None, Some(Num(128)), Some(Dec(200)), Some(Null)}),
    Values("input", 1, "minTime", {Some(Num(3))}),
    Values("input", 1, "partialSigs", {None, Some(Obj(1 :> SigFor(1))), Some(Null)}),
    Values("input", 2, "partialSigs",
           {Some(Obj(2 :> SigFor(2))), Some(Obj((1 :> SigFor(1)) @@ (2 :> SigFor(2))))}),
    Values("input", 1, "sighashType", {Some(Num(2))}),
    Values("input", 1, "redeemScript", {None, Some(Hex(<<>>)), Some(Hex(TwoOfTwo))}),
    Values("input", 2, "redeemScript", {Some(Null), Some(Hex(<<1, 2, 3, 4, 5, 6, 7>>))}),
    Values("input", 1, "sigOpCount", {None, Some(Num(2))}),
    Values("input", 2, "bip32Derivations",
           {None, Some(Obj(<<Ms45Path(1, 0, 3)>>)), Some(Obj(<<OtherPath, Ms45Path(1, 0, 3)>>)),
            Some(Obj(<<BadPath>>)), Some(Obj(<<Ms45Path(1, 0, 3), Ms45Path(2, 0, 3)>>)),
            Some(Obj(<<Behind(Ms45Path(2, 0, 4), Ms45Path(1, 0, 3))>>))}),
    Values("input", 1, "finalScriptSig", {Some(Hex(<<1>>))}),
    Values("input", 2, "covenantExecution",
           {Some(Null), Some(Obj([suppliedMask |-> Num(3), suppliedTrueMask |-> Num(2)])),
            Some(Obj([suppliedMask |-> Num(1), suppliedTrueMask |-> Num(2)]))}),
    Values("input", 1, "proprietaries",
           {None, Some(Obj([kassignerDerivation |-> Obj([branch |-> Num(0), index |-> Dec(31)])])),
            Some(Obj([kassignerDerivation |-> Obj([branch |-> Num(0), index |-> Dec(32)])])),
            Some(Obj([stealthTweak |-> Hex(<<5, 5>>)])),
            Some(Obj([persistentVault |-> Flag(TRUE)]))}),
    Values("input", 1, "minimumSignatures", {Some(Num(1))}),
    Values("input", 2, "note", {Some(Text("n"))})}

CoinChanges ==
  UNION {
    Values("utxo", 1, "amount", {Some(Num(100)), Some(Dec(240)), Some(Dec(3))}),
    Values("utxo", 1, "scriptPublicKey", {Some(Hex(<<0, 1, 1, 2, 3, 4>>))}),
    Values("utxo", 1, "blockDaaScore", {None, Some(Num(4))}),
    Values("utxo", 1, "isCoinbase", {None, Some(Flag(TRUE))}),
    Values("utxo", 2, "covenantId", {Some(Hex(<<3, 3>>))}),
    Values("utxo", 1, "note", {Some(Num(3))}),
    Values("outpoint", 1, "index", {Some(Num(64)), Some(Dec(63))}),
    Values("outpoint", 2, "note", {Some(Num(3))})}

OutputChanges ==
  UNION {
    Values("output", 1, "amount", {Some(Num(90)), Some(Dec(255))}),
    Values("output", 1, "scriptPublicKey",
           {Some(Hex(<<0, 1, 1, 2, 3, 4>>)), Some(Hex(<<0, 0, 1, 2, 3, 4, 5, 6, 7>>))}),
    Values("output", 1, "redeemScript", {Some(Hex(<<2>>))}),
    Values("output", 2, "bip32Derivations",
           {Some(Obj(<<Ms45Path(1, 1, 3)>>)), Some(Obj(<<OtherPath, Ms45Path(1, 1, 3)>>)),
            Some(Obj(<<Behind(BadPath, Ms45Path(1, 1, 3))>>)),
            Some(Obj(<<Behind(Ms45Path(2, 1, 4), OtherPath)>>))}),
    Values("output", 1, "covenantBinding",
           {None, Some(Null), Some(Obj([authorizingInput |-> Num(2), covenantId |-> Hex(<<2, 2>>)])),
            Some(Obj([authorizingInput |-> Num(1), covenantId |-> Hex(<<2, 2>>), note |-> Null]))}),
    Values("output", 2, "proprietaries", {None, Some(Null)}),
    Values("output", 1, "note", {Some(Text("n"))})}

(* Members every reader refuses, one at a time *)
Refusals ==
  UNION {
    Values("global", 0, "version", {Some(Num(1))}),
    Values("global", 0, "inputCount", {Some(Num(2))}),
    Values("global", 0, "fallbackLockTime", {Some(Text("soon"))}),
    Values("global", 0, "id", {Some(Num(1))}),
    Values("input", 1, "sighashType", {Some(Dec(2))}),
    Values("input", 1, "sigOpCount", {Some(Num(4))}),
    Values("input", 1, "minimumSignatures", {Some(Num(0))}),
    Values("input", 1, "proprietaries",
           {Some(Obj([stealthTweak |-> Hex(<<5>>)])), Some(Obj([persistentVault |-> Text("yes")]))}),
    Values("utxo", 1, "scriptPublicKey", {Some(Hex(<<0>>))}),
    Values("utxo", 1, "covenantId", {Some(Hex(<<3>>))}),
    Values("outpoint", 1, "transactionId", {Some(Hex(<<11>>))}),
    Values("output", 1, "covenantBinding",
           {Some(Obj([authorizingInput |-> Num(0), covenantId |-> Hex(<<2>>)]))})}

Changes == GlobalChanges \cup InputChanges \cup CoinChanges \cup OutputChanges

Singles(d) == {Applied(d, c) : c \in {x \in Changes \cup Refusals : x.scope \in Scopes(d)}}

AllDocuments ==
  {Payment, Single, Sweep} \cup Singles(Single)
    \cup {Applied(Applied(Payment, c), e) : c, e \in Changes}

(* The documents whose wire has every kind of record *)
Rich ==
  {Applied(Applied(Applied(Applied(Payment,
     Change("input", 1, "proprietaries",
            Some(Obj([kassignerDerivation |-> Obj([branch |-> Num(0), index |-> Dec(31)]),
                      stealthTweak |-> Hex(<<5, 5>>)])))),
     Change("input", 2, "bip32Derivations", Some(Obj(<<Ms45Path(1, 0, 3)>>)))),
     Change("output", 2, "bip32Derivations", Some(Obj(<<Ms45Path(1, 1, 3)>>)))),
     Change("input", 2, "partialSigs", Some(Obj((1 :> SigFor(1)) @@ (2 :> SigFor(2)))))),
   Applied(Payment,
     Change("input", 2, "covenantExecution",
            Some(Obj([suppliedMask |-> Num(3), suppliedTrueMask |-> Num(2)]))))}

EveryDocument == AllDocuments \cup Rich

EditedDocuments == {Payment, Single, Sweep} \cup Singles(Single) \cup Singles(Payment)

NoiseTokens == {0, 1, 2, 3, 4, 5, 63, 129, NETWORK, MS45_INPUT, STEALTH, OUTPUT_DERIVATION}

=============================================================================
