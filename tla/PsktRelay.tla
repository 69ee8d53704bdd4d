------------------------------ MODULE PsktRelay ------------------------------
(***************************************************************************)
(* The host's two readers of a PSKT document (module Pskt): pipeline/      *)
(* checks it against the schema and builds the transaction it relays to a  *)
(* signer as a compact KSPT, review/ builds what a user is shown; and the  *)
(* host's edits of a document.                                             *)
(*                                                                         *)
(* Scripts are scaled: a P2PK script is <<OP_P2PK, key>>, a multisig       *)
(* redeem script <<m, key, ..., key, n, OP_MULTISIG>>.  Any other redeem   *)
(* script stands for a covenant without a generic plan: it is never        *)
(* complete, and nobody signs it here.                                     *)
(***************************************************************************)
EXTENDS Pskt

LOCAL INSTANCE FiniteSetsExt
LOCAL INSTANCE SequencesExt

CONSTANTS MAX_MULTISIG_KEYS,
          CovenantId(_, _)   \* identity::covenant_id of an outpoint and an output

OP_P2PK == 32
OP_MULTISIG == 174

(* primitives::address::p2pk_xonly, multisig_script::parse *)
P2pkXonly(script) == IF Len(script) = 2 /\ script[1] = OP_P2PK THEN Some(script[2]) ELSE None

ParseMultisigRedeem(redeem) ==
  LET n == Len(redeem) - 3
  IN  IF /\ n >= 1 /\ n <= MAX_MULTISIG_KEYS
         /\ redeem[n + 3] = OP_MULTISIG /\ redeem[n + 2] = n
         /\ redeem[1] \in 1..n
      THEN Some([m |-> redeem[1], keys |-> SubSeq(redeem, 2, n + 1)])
      ELSE None

-----------------------------------------------------------------------------
(* pipeline/schema_validate.rs *)

KindOk(v, kind) ==
  CASE kind = "u64"    -> ExactU64(v) # None
    [] kind = "hex"    -> Kind(v) = "hex"
    [] kind = "spk"    -> Kind(v) = "hex" /\ Len(v[2]) >= 2
    [] kind = "string" -> IsString(v)
    [] OTHER           -> Kind(v) = kind

(* validate_object: any member the schema does not know is let through *)
ObjectOk(v, specs) ==
  /\ Kind(v) = "obj"
  /\ FieldsMarked(v[2], specs)
  /\ \A f \in DOMAIN specs \cap DOMAIN v[2] :
       Kind(v[2][f]) # "null" => KindOk(v[2][f], specs[f].kind)

InputSchemaOk(v) ==
  /\ ObjectOk(v, INPUT_FIELDS)
  /\ LET i == v[2]
     IN  /\ ObjectOk(i.utxoEntry, UTXO_FIELDS)
         /\ ObjectOk(i.previousOutpoint, OUTPOINT_FIELDS)
         /\ NullOr(i, "covenantExecution",
                   ObjectOk(i.covenantExecution, COVENANT_EXECUTION_FIELDS))
         /\ i.sighashType[2] = 1
         /\ "minimumSignatures" \in DOMAIN i => i.minimumSignatures[2] \in 1..MAX_SIGS
         /\ "partialSigs" \in DOMAIN i => Cardinality(DOMAIN i.partialSigs[2]) <= MAX_SIGS

OutputSchemaOk(v) ==
  /\ ObjectOk(v, OUTPUT_FIELDS)
  /\ NullOr(v[2], "covenantBinding", ObjectOk(v[2].covenantBinding, COVENANT_BINDING_FIELDS))

ValidateDocument(doc) ==
  /\ ObjectOk(Obj(doc), TOP_LEVEL_FIELDS)
  /\ ObjectOk(doc.global, GLOBAL_FIELDS)
  /\ \A k \in DOMAIN doc.inputs[2] : InputSchemaOk(Obj(doc.inputs[2][k]))
  /\ LET g == doc.global[2]
     IN  /\ g.version[2] = 0 /\ g.txVersion[2] <= 1
         /\ g.inputCount[2] = Len(doc.inputs[2]) /\ g.outputCount[2] = Len(doc.outputs[2])
  /\ \A k \in DOMAIN doc.outputs[2] : OutputSchemaOk(Obj(doc.outputs[2][k]))

-----------------------------------------------------------------------------
(* pipeline/relay_fields.rs: InputFields::parse *)

ExecutionOk(i) ==
  NullOr(i, "covenantExecution",
         LET e == i.covenantExecution[2]
         IN  /\ Cardinality(DOMAIN e) = 2
             /\ e.suppliedMask[2] <= U16_MAX /\ e.suppliedTrueMask[2] <= U16_MAX
             /\ SubMask(e.suppliedTrueMask[2], e.suppliedMask[2]))

InputFieldsOk(i) ==
  /\ Len(i.utxoEntry[2].scriptPublicKey[2]) - 2 <= MAX_SCRIPT
  /\ NullOr(i.utxoEntry[2], "covenantId", HexLen(i.utxoEntry[2], "covenantId", {HASH_LEN}))
  /\ HexLen(i.previousOutpoint[2], "transactionId", {HASH_LEN})
  /\ i.previousOutpoint[2].index[2] <= U32_MAX
  /\ "sigOpCount" \in DOMAIN i => i.sigOpCount[2] <= MAX_SIGS
  /\ NullOr(i, "redeemScript", Len(i.redeemScript[2]) <= MAX_REDEEM)
  /\ ExecutionOk(i)

(* relay_fields/signatures.rs: where each key's signature goes, if it may  *)
SigsOf(i) == IF Missing(i, "partialSigs") THEN <<>> ELSE i.partialSigs[2]

SigPosition(i, key) ==
  LET redeem == HexOr(i, "redeemScript", <<>>)
      multi  == ParseMultisigRedeem(redeem)
  IN  IF Missing(i, "redeemScript")
      THEN IF P2pkXonly(SpkOf(i.utxoEntry[2], "scriptPublicKey").script) = Some(key)
           THEN {0} ELSE {}
      ELSE IF multi = None THEN {} ELSE {k - 1 : k \in {j \in DOMAIN multi[1].keys :
                                                       multi[1].keys[j] = key}}

CollectOk(i) ==
  LET keys == DOMAIN SigsOf(i)
  IN  /\ \A k \in keys : SigPosition(i, k) # {}
      /\ Missing(i, "redeemScript") => Cardinality(keys) <= 1
      /\ \A k, j \in keys : k # j => Min(SigPosition(i, k)) # Min(SigPosition(i, j))

CollectSignatures(i) ==
  LET sigs == {[position |-> Min(SigPosition(i, k)), sighash |-> 1, bytes |-> SigsOf(i)[k]] :
               k \in DOMAIN SigsOf(i)}
  IN  SetToSortSeq(sigs, LAMBDA a, b : a.position < b.position)

-----------------------------------------------------------------------------
(* relay/extensions.rs and relay_fields/scripts.rs *)

(* parse_ms45: every path must be MS45 or of another kind, and the MS45    *)
(* ones must agree.                                                        *)
OwnPaths(o) == {OwnPath(e) : e \in Range(Entries(o))}

Ms45Of(o) == {path[2] : path \in {p \in OwnPaths(o) : Kind(p) = "ms45"}}

Ms45Ok(o) ==
  /\ \A path \in OwnPaths(o) : Kind(path) \in {"null", "ms45", "other"}
  /\ Cardinality(Ms45Of(o)) <= 1

Ms45Hint(o) == IF Ms45Of(o) = {} THEN None ELSE Some(CHOOSE h \in Ms45Of(o) : TRUE)

(* parse_derivation *)
Prop(o, f) == IF Missing(o, "proprietaries") THEN Null ELSE Get(o.proprietaries[2], f)

HasProp(o, f) == ~Missing(o, "proprietaries") /\ f \in DOMAIN o.proprietaries[2]

DerivationOk(o) ==
  HasProp(o, "kassignerDerivation") =>
    LET v == Prop(o, "kassignerDerivation")
    IN  /\ Kind(v) = "obj" /\ {"branch", "index"} \subseteq DOMAIN v[2]
        /\ U64Within(v[2], "branch", 1)
        /\ U64Within(v[2], "index", MAX_HARDENED - 1)

DerivationOf(o) ==
  IF ~HasProp(o, "kassignerDerivation") THEN None
  ELSE LET h == Prop(o, "kassignerDerivation")[2] IN Some(<<h.branch[2], h.index[2]>>)

(* find_stealth *)
StealthOk(inputs) ==
  LET with == {k \in DOMAIN inputs : HasProp(inputs[k], "stealthTweak")}
  IN  /\ \A k \in with : HexLen(inputs[k].proprietaries[2], "stealthTweak", {HASH_LEN})
      /\ \A k, j \in with : Prop(inputs[k], "stealthTweak") = Prop(inputs[j], "stealthTweak")

StealthOf(inputs) ==
  LET with == {k \in DOMAIN inputs : HasProp(inputs[k], "stealthTweak")}
  IN  IF with = {} THEN None ELSE Some(Prop(inputs[Min(with)], "stealthTweak")[2])

(* apply_covenants: a binding the document spells out, else one for output *)
(* 0 when an input asks for a persistent vault.                            *)
ExplicitOk(o, inputs) ==
  NullOr(o, "covenantBinding",
         LET b == o.covenantBinding[2]
         IN  /\ Cardinality(DOMAIN b) = 2
             /\ b.authorizingInput[2] <= U16_MAX /\ b.authorizingInput[2] < Len(inputs)
             /\ HexLen(b, "covenantId", {HASH_LEN}))

PersistentOk(inputs) ==
  \A k \in DOMAIN inputs :
    HasProp(inputs[k], "persistentVault") =>
      Kind(Prop(inputs[k], "persistentVault")) = "bool"

PersistentRequested(inputs) ==
  \E k \in DOMAIN inputs : Prop(inputs[k], "persistentVault") = Flag(TRUE)

(* persistent_vault_requested is not asked when output 0 has a covenant *)
CovenantsOk(inputs, outputs) ==
  /\ \A k \in DOMAIN outputs : ExplicitOk(outputs[k], inputs)
  /\ (outputs # <<>> /\ BindingOf(outputs[1]) # None)
       \/ (PersistentOk(inputs) /\ (PersistentRequested(inputs) => inputs # <<>>))

(* Mutant of RelayInput: a count that is left out reads as none *)
RelayInputNoSigops(i) ==
  LET u == i.utxoEntry[2]
      p == i.previousOutpoint[2]
  IN  [txid |-> p.transactionId[2], index |-> p.index[2], amount |-> u.amount[2],
       sequence |-> U64Or(i, "sequence", 0), sigops |-> U64Or(i, "sigOpCount", 0),
       spk |-> SpkOf(u, "scriptPublicKey"), sigs |-> CollectSignatures(i),
       redeem |-> HexOr(i, "redeemScript", <<>>),
       derivation |-> DerivationOf(i), ms45 |-> Ms45Hint(i),
       exec |-> IF Missing(i, "covenantExecution") THEN None
                ELSE Some([mask  |-> i.covenantExecution[2].suppliedMask[2],
                           truth |-> i.covenantExecution[2].suppliedTrueMask[2]])]

RelayInput(i) ==
  LET u == i.utxoEntry[2]
      p == i.previousOutpoint[2]
  IN  [txid |-> p.transactionId[2], index |-> p.index[2], amount |-> u.amount[2],
       sequence |-> U64Or(i, "sequence", 0), sigops |-> U64Or(i, "sigOpCount", 1),
       spk |-> SpkOf(u, "scriptPublicKey"), sigs |-> CollectSignatures(i),
       redeem |-> HexOr(i, "redeemScript", <<>>),
       derivation |-> DerivationOf(i), ms45 |-> Ms45Hint(i),
       exec |-> IF Missing(i, "covenantExecution") THEN None
                ELSE Some([mask  |-> i.covenantExecution[2].suppliedMask[2],
                           truth |-> i.covenantExecution[2].suppliedTrueMask[2]])]

RelayOutput(o, covenant) ==
  [amount |-> o.amount[2], spk |-> SpkOf(o, "scriptPublicKey"),
   derivation |-> DerivationOf(o), ms45 |-> Ms45Hint(o), covenant |-> covenant]

(* The binding of output k *)
RelayBinding(inputs, outputs, k) ==
  IF BindingOf(outputs[k]) # None THEN BindingOf(outputs[k])
  ELSE IF k = 1 /\ PersistentRequested(inputs)
       THEN LET p == inputs[1].previousOutpoint[2]
            IN  Some([auth |-> 0,
                      id |-> CovenantId(<<p.transactionId[2], p.index[2]>>,
                                        <<outputs[1].amount[2],
                                          SpkOf(outputs[1], "scriptPublicKey")>>)])
       ELSE None

(* compact/verify.rs required_signature_count.  That a collected signature *)
(* verifies is module Cosign: here all of them do.                         *)
RequiredSignatures(i) ==
  IF i.redeem = <<>> THEN IF P2pkXonly(i.spk.script) = None THEN None ELSE Some(1)
  ELSE IF ParseMultisigRedeem(i.redeem) = None THEN None
       ELSE Some(ParseMultisigRedeem(i.redeem)[1].m)

Complete(tx) ==
  tx.inputs # <<>>
    /\ \A k \in DOMAIN tx.inputs : RequiredSignatures(tx.inputs[k]) = Some(Len(tx.inputs[k].sigs))

DocumentFits(doc, maxInputs, maxPayload) ==
  /\ Len(doc.inputs[2]) <= maxInputs /\ Len(doc.outputs[2]) <= MAX_OUTPUTS
  /\ LET g == doc.global[2]
     IN  /\ NullOr(g, "subnetworkId", HexLen(g, "subnetworkId", {SUBNETWORK_LEN}))
         /\ NullOr(g, "txPayload", Len(g.txPayload[2]) <= maxPayload)
  /\ \A k \in DOMAIN doc.inputs[2] :
       InputFieldsOk(doc.inputs[2][k]) /\ CollectOk(doc.inputs[2][k])
  /\ \A k \in DOMAIN doc.outputs[2] :
       Len(doc.outputs[2][k].scriptPublicKey[2]) - 2 <= MAX_SCRIPT

ExtensionsOk(inputs, outputs) ==
  /\ StealthOk(inputs)
  /\ \A k \in DOMAIN inputs : Ms45Ok(inputs[k]) /\ DerivationOk(inputs[k])
  /\ \A k \in DOMAIN outputs : Ms45Ok(outputs[k]) /\ DerivationOk(outputs[k])
  /\ CovenantsOk(inputs, outputs)

(* relay.rs build_transaction, but for the flag *)
BuildTransaction(doc, network) ==
  LET g == doc.global[2]
      inputs == doc.inputs[2]
      outputs == doc.outputs[2]
  IN  [version |-> g.txVersion[2], locktime |-> U64Or(g, "fallbackLockTime", 0),
       subnetwork |-> HexOr(g, "subnetworkId", [k \in 1..SUBNETWORK_LEN |-> 0]),
       gas |-> U64Or(g, "gas", 0), payload |-> HexOr(g, "txPayload", <<>>),
       network |-> network, stealth |-> StealthOf(inputs),
       inputs |-> [k \in DOMAIN inputs |-> RelayInput(inputs[k])],
       outputs |-> [k \in DOMAIN outputs |->
                      RelayOutput(outputs[k], RelayBinding(inputs, outputs, k))]]

RelayRead(doc, network, maxInputs, maxPayload) ==
  IF /\ ValidateDocument(doc) /\ DocumentFits(doc, maxInputs, maxPayload)
     /\ ExtensionsOk(doc.inputs[2], doc.outputs[2])
  THEN Some(BuildTransaction(doc, network))
  ELSE None

-----------------------------------------------------------------------------
(* review/: what the user is shown, read from the document a third time.   *)
(* The amounts go through another parse_exact_u64, that takes decimal      *)
(* strings only; txVersion and index are taken as numbers only.            *)

SummaryInputOk(i) ==
  /\ Kind(i.utxoEntry[2].amount) = "dec"
  /\ Kind(i.previousOutpoint[2].index) = "num"

(* generic_covenant_signature_count: no plan, no count *)
CountableInput(i) == i.redeem = <<>> \/ ParseMultisigRedeem(i.redeem) # None

(* parse_input_summary; the signatures counted are the verified ones *)
SummaryInput(i, verified) ==
  [txid |-> i.previousOutpoint[2].transactionId[2], index |-> i.previousOutpoint[2].index[2],
   amount |-> i.utxoEntry[2].amount[2], script |-> SpkOf(i.utxoEntry[2], "scriptPublicKey").script,
   redeem |-> HexOr(i, "redeemScript", <<>>), sigs |-> verified]

(* parse_output_summary *)
SummaryOutput(o) ==
  [amount |-> o.amount[2], script |-> SpkOf(o, "scriptPublicKey").script,
   derivation |-> DerivationOf(o)]

(* parse_pskt_object *)
SummaryOk(doc) ==
  LET ins  == Total(doc.inputs[2], LAMBDA i : i.utxoEntry[2].amount[2])
      outs == Total(doc.outputs[2], LAMBDA o : o.amount[2])
  IN  /\ Kind(doc.global[2].txVersion) = "num"
      /\ \A k \in DOMAIN doc.inputs[2] : SummaryInputOk(doc.inputs[2][k])
      /\ \A k \in DOMAIN doc.outputs[2] : Kind(doc.outputs[2][k].amount) = "dec"
      /\ ins <= U64_MAX /\ outs <= ins

Summary(doc, tx) ==
  [version |-> doc.global[2].txVersion[2],
   inputs  |-> [k \in DOMAIN doc.inputs[2] |->
                  SummaryInput(doc.inputs[2][k], Len(tx.inputs[k].sigs))],
   outputs |-> [k \in DOMAIN doc.outputs[2] |-> SummaryOutput(doc.outputs[2][k])],
   fee     |-> Total(doc.inputs[2], LAMBDA i : i.utxoEntry[2].amount[2])
                 - Total(doc.outputs[2], LAMBDA o : o.amount[2]),
   ready   |-> Complete(tx)]

(* parse_summary: the document, then apply_verified_status, which reads it *)
(* with the pipeline under the widest limits.                              *)
Review(doc, network) ==
  LET read == RelayRead(doc, network, U32_MAX, MAX_PAYLOAD)
  IN  IF read = None THEN None
      ELSE IF SummaryOk(doc) /\ \A k \in DOMAIN read[1].inputs : CountableInput(read[1].inputs[k])
           THEN Some(Summary(doc, read[1])) ELSE None

-----------------------------------------------------------------------------
(* pskb/: the document this program writes for an unsigned plan *)

(* json.rs input_value *)
InputValue(i) ==
  [utxoEntry |-> Obj([amount |-> Dec(i.amount), scriptPublicKey |-> Hex(<<0, 0>> \o i.script),
                      blockDaaScore |-> Dec(i.daa), isCoinbase |-> Flag(FALSE)]),
   previousOutpoint |-> Obj([transactionId |-> Hex(i.txid), index |-> Num(i.index)]),
   sequence |-> Dec(i.sequence), minTime |-> Null, partialSigs |-> Obj(<<>>),
   sighashType |-> Num(1),
   redeemScript |-> IF i.redeem = <<>> THEN Null ELSE Hex(i.redeem),
   sigOpCount |-> Num(i.sigops), bip32Derivations |-> Obj(i.paths),
   finalScriptSig |-> Null, proprietaries |-> Obj(<<>>)]

(* json.rs output_value *)
OutputValue(o, includeCovenantBinding) ==
  [amount |-> Dec(o.amount), scriptPublicKey |-> Hex(<<0, 0>> \o o.script),
   redeemScript |-> Null, bip32Derivations |-> Obj(<<>>),
   proprietaries |->
     Obj([f \in {h \in {"kassignerDerivation"} : o.hint # None} |->
            Obj([branch |-> Num(o.hint[1][1]), index |-> Dec(o.hint[1][2])])])]
  @@ [f \in {g \in {"covenantBinding"} : includeCovenantBinding} |->
        IF o.covenant = None THEN Null
        ELSE Obj([authorizingInput |-> Num(o.covenant[1].auth),
                  covenantId |-> Hex(o.covenant[1].id)])]

(* encoder.rs encode_document and encode_pskt_document *)
EncodeDocument(version, inputs, outputs, payload, includeCovenantBinding) ==
  [global |->
     Obj([version |-> Num(0), txVersion |-> Num(version), fallbackLockTime |-> Null,
          inputsModifiable |-> Flag(FALSE), outputsModifiable |-> Flag(FALSE),
          inputCount |-> Num(Len(inputs)), outputCount |-> Num(Len(outputs)),
          xpubs |-> Obj(<<>>), id |-> Null, proprietaries |-> Obj(<<>>),
          subnetworkId |-> Hex([k \in 1..SUBNETWORK_LEN |-> 0])]
         @@ [f \in {g \in {"txPayload"} : payload # None} |-> Hex(payload[1])]),
   inputs  |-> Arr([k \in DOMAIN inputs |-> InputValue(inputs[k])]),
   outputs |-> Arr([k \in DOMAIN outputs |-> OutputValue(outputs[k], includeCovenantBinding)])]

-----------------------------------------------------------------------------
(* Edits of a document *)

(* attach_input_derivation, attach_output_derivation *)
AttachDerivation(doc, section, k, branch, index) ==
  LET entry == doc[section][2][k]
      hint  == Obj([branch |-> Num(branch), index |-> Dec(index)])
      props == IF Missing(entry, "proprietaries") THEN <<>> ELSE entry.proprietaries[2]
      new   == [f \in DOMAIN entry \cup {"proprietaries"} |->
                  IF f = "proprietaries"
                  THEN Obj([kassignerDerivation |-> hint] @@ props) ELSE entry[f]]
  IN  IF /\ branch <= 1 /\ index < MAX_HARDENED
         /\ NullOr(entry, "proprietaries", Kind(entry.proprietaries) = "obj")
      THEN Some([doc EXCEPT ![section] = Arr([doc[section][2] EXCEPT ![k] = new])])
      ELSE None

(* attach_sole_signature *)
AttachSoleSignature(doc, key, signature) ==
  IF /\ Len(doc.inputs[2]) = 1
     /\ Kind(Get(doc.inputs[2][1], "partialSigs")) = "obj"
     /\ DOMAIN doc.inputs[2][1].partialSigs[2] = {}
  THEN Some([doc EXCEPT !.inputs =
               Arr(<<[doc.inputs[2][1] EXCEPT !.partialSigs = Obj(key :> signature)]>>)])
  ELSE None

(* set_tx_lane; set_payload is its last member alone *)
SetTxLane(doc, subnetwork, gas, version, payload) ==
  IF Len(payload) <= MAX_PAYLOAD /\ Len(subnetwork) = SUBNETWORK_LEN
  THEN Some([doc EXCEPT !.global =
               Obj([subnetworkId |-> Hex(subnetwork), gas |-> Dec(gas),
                    txVersion |-> Num(version), txPayload |-> Hex(payload)] @@ doc.global[2])])
  ELSE None

SetPayload(doc, payload) ==
  IF Len(payload) <= MAX_PAYLOAD
  THEN Some([doc EXCEPT !.global = Obj([txPayload |-> Hex(payload)] @@ doc.global[2])])
  ELSE None

(* append_output *)
AppendOutput(doc, amount, script) ==
  [doc EXCEPT !.outputs = Arr(Append(doc.outputs[2], OutputValue([amount |-> amount, script |-> script, covenant |-> None, hint |-> None], FALSE))),
              !.global  = Obj([outputCount |-> Num(Len(doc.outputs[2]) + 1)] @@ doc.global[2])]

=============================================================================
