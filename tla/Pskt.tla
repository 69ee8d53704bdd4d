-------------------------------- MODULE Pskt --------------------------------
(***************************************************************************)
(* The PSKT document, transaction/interchange/pskt: its schema, and the    *)
(* three readers of it in this program,                                    *)
(*   standard/   a signer reads the document itself, keeps what it does    *)
(*               not understand and writes the document again;             *)
(*   pipeline/   a host checks the document against the schema and relays  *)
(*               the transaction in it as a compact KSPT (module Kspt);    *)
(*   review/     a host shows its user what the document pays.             *)
(*                                                                         *)
(* The lexical part of JSON is left out: one validator (schema/json.rs)    *)
(* runs before every reader, so an object is a function on its field names *)
(* and a value one of the kinds below.  A byte string keeps its length.    *)
(* A member of partialSigs is a key and its signature: the forms of it     *)
(* that one reader refuses all of them refuse.  What signatures verify is  *)
(* module Cosign.                                                          *)
(***************************************************************************)
EXTENDS Integers, Sequences, FiniteSets

LOCAL INSTANCE FiniteSetsExt
LOCAL INSTANCE SequencesExt

CONSTANTS JS_MAX_SAFE_U64, U64_MAX, U32_MAX, U16_MAX,
          MAX_HARDENED,               \* 2^31, the first hardened index
          HASH_LEN, SUBNETWORK_LEN,   \* bytes of a hash, a subnetwork id
          MAX_INPUTS, MAX_OUTPUTS, MAX_PAYLOAD,
          MAX_SCRIPT, MAX_REDEEM, REDEEM_POOL,
          MAX_SIGS,                   \* MAX_SIGS_PER_INPUT
          MAX_REGIONS                 \* MAX_PSKT_UNKNOWN_REGIONS

ASSUME WidthAssumption ==
  /\ U16_MAX \in Nat /\ U32_MAX \in Nat /\ JS_MAX_SAFE_U64 \in Nat /\ U64_MAX \in Nat
  /\ U16_MAX < MAX_HARDENED /\ MAX_HARDENED <= U32_MAX
  /\ U32_MAX <= JS_MAX_SAFE_U64 /\ JS_MAX_SAFE_U64 < U64_MAX

None == <<>>
Some(v) == <<v>>

(* JSON values.  Hex is an even-length lowercase hex string, Dec a         *)
(* canonical decimal string of odd length (it is never also a Hex), Text   *)
(* any other string.                                                       *)
Null == <<"null">>
Num(n) == <<"num", n>>
Dec(n) == <<"dec", n>>
Hex(b) == <<"hex", b>>
Text(t) == <<"text", t>>
Flag(b) == <<"bool", b>>
Obj(f) == <<"obj", f>>
Arr(s) == <<"arr", s>>

(* An entry of bip32Derivations: null, or an object with an MS45 path, a   *)
(* malformed MS45 path, a path of another kind, no path at all; or one of  *)
(* these whose path stands behind a member that holds a derivationPath of  *)
(* its own.                                                                *)
Ms45Path(cosigner, chain, index) == <<"ms45", <<cosigner, chain, index>>>>
BadPath == <<"bad">>
OtherPath == <<"other">>
NoPath == <<"nopath">>
Behind(inner, own) == <<"behind", inner, own>>

Kind(v) == v[1]

(* An absent member reads like a null one wherever null is allowed. *)
Get(o, f) == IF f \in DOMAIN o THEN o[f] ELSE Null

Missing(o, f) == Kind(Get(o, f)) = "null"

(* parse_exact_u64, expect_u64: a decimal string, or a JSON number that    *)
(* JavaScript represents exactly.                                          *)
ExactU64(v) ==
  IF \/ Kind(v) = "dec" /\ v[2] <= U64_MAX
     \/ Kind(v) = "num" /\ v[2] <= JS_MAX_SAFE_U64
  THEN Some(v[2]) ELSE None

U64Within(o, f, max) == ExactU64(o[f]) # None /\ o[f][2] <= max

U64Or(o, f, default) == IF Missing(o, f) THEN default ELSE o[f][2]

IsHex(o, f) == Kind(Get(o, f)) = "hex"

HexOr(o, f, default) == IF Missing(o, f) THEN default ELSE o[f][2]

HexLen(o, f, lengths) == IsHex(o, f) /\ Len(o[f][2]) \in lengths

IsString(v) == Kind(v) \in {"dec", "hex", "text"}

(* A member that may be absent or null, else is what ok says. *)
NullOr(o, f, ok) == Missing(o, f) \/ ok

-----------------------------------------------------------------------------
(* schema/tables.rs *)

Required(kind) == [required |-> TRUE, nullable |-> FALSE, kind |-> kind]
Optional(kind) == [required |-> FALSE, nullable |-> FALSE, kind |-> kind]
Nullable(kind) == [required |-> FALSE, nullable |-> TRUE, kind |-> kind]

TOP_LEVEL_FIELDS ==
  [global |-> Required("obj"), inputs |-> Required("arr"), outputs |-> Required("arr")]

GLOBAL_FIELDS ==
  [version |-> Required("u64"), txVersion |-> Required("u64"),
   inputCount |-> Required("u64"), outputCount |-> Required("u64"),
   fallbackLockTime |-> Nullable("u64"),
   inputsModifiable |-> Optional("bool"), outputsModifiable |-> Optional("bool"),
   xpubs |-> Optional("obj"), id |-> Nullable("string"), proprietaries |-> Optional("obj"),
   subnetworkId |-> Nullable("hex"), gas |-> Nullable("u64"), txPayload |-> Nullable("hex")]

INPUT_FIELDS ==
  [utxoEntry |-> Required("obj"), previousOutpoint |-> Required("obj"),
   sighashType |-> Required("u64"), sequence |-> Optional("u64"),
   minTime |-> Nullable("u64"), partialSigs |-> Optional("obj"),
   redeemScript |-> Nullable("hex"), sigOpCount |-> Optional("u64"),
   bip32Derivations |-> Optional("obj"), finalScriptSig |-> Nullable("hex"),
   covenantExecution |-> Nullable("obj"), proprietaries |-> Optional("obj"),
   minimumSignatures |-> Optional("u64")]

UTXO_FIELDS ==
  [amount |-> Required("u64"), scriptPublicKey |-> Required("spk"),
   blockDaaScore |-> Optional("u64"), isCoinbase |-> Optional("bool"),
   covenantId |-> Nullable("hex")]

OUTPOINT_FIELDS == [transactionId |-> Required("hex"), index |-> Required("u64")]

OUTPUT_FIELDS ==
  [amount |-> Required("u64"), scriptPublicKey |-> Required("spk"),
   redeemScript |-> Nullable("hex"), bip32Derivations |-> Optional("obj"),
   covenantBinding |-> Nullable("obj"), proprietaries |-> Optional("obj")]

COVENANT_EXECUTION_FIELDS ==
  [suppliedMask |-> Required("u64"), suppliedTrueMask |-> Required("u64")]

COVENANT_BINDING_FIELDS ==
  [authorizingInput |-> Required("u64"), covenantId |-> Required("hex")]

(* mark_schema_field and required_fields_present: what both readers ask of *)
(* the field names of an object.                                           *)
FieldsMarked(o, specs) ==
  \A f \in DOMAIN specs :
    /\ specs[f].required => f \in DOMAIN o
    /\ f \in DOMAIN o => specs[f].nullable \/ Kind(o[f]) # "null"

UnknownFields(o, specs) == DOMAIN o \ DOMAIN specs

(* A scriptPublicKey is a two-byte version and the script. *)
SpkOk(o, f) == IsHex(o, f) /\ Len(o[f][2]) >= 2 /\ Len(o[f][2]) - 2 <= MAX_SCRIPT

SpkOf(o, f) ==
  [version |-> 256 * o[f][2][1] + o[f][2][2],
   script  |-> SubSeq(o[f][2], 3, Len(o[f][2]))]

(* truth & !mask == 0 *)
SubMask(truth, mask) ==
  \A i \in 0..15 : (truth \div 2^i) % 2 <= (mask \div 2^i) % 2

-----------------------------------------------------------------------------
(* Transaction::checked_amounts *)

Total(s, amount(_)) == FoldLeft(LAMBDA acc, e : acc + amount(e), 0, s)

InputTotal(tx) == Total(tx.inputs, LAMBDA i : i.amount)
OutputTotal(tx) == Total(tx.outputs, LAMBDA o : o.amount)

CheckedAmounts(tx) ==
  /\ InputTotal(tx) <= U64_MAX /\ OutputTotal(tx) <= U64_MAX
  /\ OutputTotal(tx) <= InputTotal(tx)

(* Transaction::store_redeem: a script longer than an inline buffer takes  *)
(* its place in a pool all inputs share.                                   *)
RedeemsFit(tx) ==
  Total(tx.inputs, LAMBDA i : IF Len(i.redeem) > MAX_SCRIPT THEN Len(i.redeem) ELSE 0)
    <= REDEEM_POOL

BindingsInRange(tx) ==
  \A k \in DOMAIN tx.outputs :
    tx.outputs[k].covenant # None => tx.outputs[k].covenant[1].auth < Len(tx.inputs)

-----------------------------------------------------------------------------
(* standard/parser: what a signer accepts of each object *)

(* skip_value checks the numbers of a field it does not know. *)
StdUnknownOk(o, specs) ==
  \A f \in UnknownFields(o, specs) : Kind(o[f]) = "num" => o[f][2] <= U64_MAX

(* parser/global.rs *)
StdGlobalOk(g) ==
  /\ FieldsMarked(g, GLOBAL_FIELDS) /\ StdUnknownOk(g, GLOBAL_FIELDS)
  /\ U64Within(g, "version", 0)
  /\ U64Within(g, "txVersion", 1)
  /\ U64Within(g, "inputCount", MAX_INPUTS)
  /\ U64Within(g, "outputCount", MAX_OUTPUTS)
  /\ \A f \in {"fallbackLockTime", "gas"} : NullOr(g, f, ExactU64(g[f]) # None)
  /\ \A f \in {"inputsModifiable", "outputsModifiable"} :
       f \in DOMAIN g => Kind(g[f]) = "bool"
  /\ NullOr(g, "subnetworkId", HexLen(g, "subnetworkId", {SUBNETWORK_LEN}))
  /\ NullOr(g, "txPayload", HexLen(g, "txPayload", 0..MAX_PAYLOAD))
  /\ NullOr(g, "id", IsString(g.id))
  /\ \A f \in {"xpubs", "proprietaries"} : f \in DOMAIN g => Kind(g[f]) = "obj"

(* parser/inputs/details.rs *)
StdUtxoOk(u) ==
  /\ FieldsMarked(u, UTXO_FIELDS) /\ StdUnknownOk(u, UTXO_FIELDS)
  /\ ExactU64(u.amount) # None
  /\ SpkOk(u, "scriptPublicKey")
  /\ "blockDaaScore" \in DOMAIN u => ExactU64(u.blockDaaScore) # None
  /\ "isCoinbase" \in DOMAIN u => Kind(u.isCoinbase) = "bool"
  /\ NullOr(u, "covenantId", HexLen(u, "covenantId", {HASH_LEN}))

StdOutpointOk(p) ==
  /\ FieldsMarked(p, OUTPOINT_FIELDS) /\ StdUnknownOk(p, OUTPOINT_FIELDS)
  /\ HexLen(p, "transactionId", {HASH_LEN})
  /\ U64Within(p, "index", U32_MAX)

(* parse_covenant_execution_object: no unknown member *)
StdExecutionOk(e) ==
  /\ FieldsMarked(e, COVENANT_EXECUTION_FIELDS)
  /\ UnknownFields(e, COVENANT_EXECUTION_FIELDS) = {}
  /\ U64Within(e, "suppliedMask", U16_MAX) /\ U64Within(e, "suppliedTrueMask", U16_MAX)
  /\ SubMask(e.suppliedTrueMask[2], e.suppliedMask[2])

(* parser/inputs/mod.rs and metadata.rs *)
StdInputOk(i) ==
  /\ FieldsMarked(i, INPUT_FIELDS) /\ StdUnknownOk(i, INPUT_FIELDS)
  /\ Kind(i.utxoEntry) = "obj" /\ StdUtxoOk(i.utxoEntry[2])
  /\ Kind(i.previousOutpoint) = "obj" /\ StdOutpointOk(i.previousOutpoint[2])
  /\ ExactU64(i.sighashType) = Some(1)
  /\ "sequence" \in DOMAIN i => ExactU64(i.sequence) # None
  /\ NullOr(i, "minTime", ExactU64(i.minTime) # None)
  /\ "partialSigs" \in DOMAIN i =>
       Kind(i.partialSigs) = "obj" /\ Cardinality(DOMAIN i.partialSigs[2]) <= MAX_SIGS
  /\ NullOr(i, "redeemScript", HexLen(i, "redeemScript", 0..MAX_REDEEM))
  /\ "sigOpCount" \in DOMAIN i => U64Within(i, "sigOpCount", MAX_SIGS)
  /\ "bip32Derivations" \in DOMAIN i =>
       Kind(i.bip32Derivations) = "obj" /\ Len(i.bip32Derivations[2]) <= MAX_SIGS
  /\ NullOr(i, "finalScriptSig", IsHex(i, "finalScriptSig"))
  /\ NullOr(i, "covenantExecution",
            Kind(i.covenantExecution) = "obj" /\ StdExecutionOk(i.covenantExecution[2]))
  /\ "proprietaries" \in DOMAIN i => Kind(i.proprietaries) = "obj"
  /\ "minimumSignatures" \in DOMAIN i =>
       U64Within(i, "minimumSignatures", MAX_SIGS) /\ i.minimumSignatures[2] # 0

(* CovenantBindingParser *)
StdBindingOk(b) ==
  /\ FieldsMarked(b, COVENANT_BINDING_FIELDS)
  /\ UnknownFields(b, COVENANT_BINDING_FIELDS) = {}
  /\ U64Within(b, "authorizingInput", U16_MAX)
  /\ HexLen(b, "covenantId", {HASH_LEN})

(* parser/outputs.rs *)
StdOutputOk(o) ==
  /\ FieldsMarked(o, OUTPUT_FIELDS) /\ StdUnknownOk(o, OUTPUT_FIELDS)
  /\ ExactU64(o.amount) # None
  /\ SpkOk(o, "scriptPublicKey")
  /\ NullOr(o, "covenantBinding",
            Kind(o.covenantBinding) = "obj" /\ StdBindingOk(o.covenantBinding[2]))
  /\ NullOr(o, "redeemScript", IsHex(o, "redeemScript"))
  /\ \A f \in {"bip32Derivations", "proprietaries"} : f \in DOMAIN o => Kind(o[f]) = "obj"

Entries(o) == IF Missing(o, "bip32Derivations") THEN <<>> ELSE o.bip32Derivations[2]

(* find_derivation_path: the first derivationPath in the bytes of an entry, *)
(* whichever member it belongs to.                                         *)
FirstPath(e) == IF Kind(e) = "behind" THEN e[2] ELSE e

(* The member of that name of the entry itself *)
OwnPath(e) == IF Kind(e) = "behind" THEN e[3] ELSE e

FirstPaths(o, kinds) ==
  SelectSeq([n \in DOMAIN Entries(o) |-> FirstPath(Entries(o)[n])],
            LAMBDA path : Kind(path) \in kinds)

(* extract_ms45_hint *)
HintOf(paths) ==
  IF paths # <<>> /\ Kind(paths[1]) = "ms45" THEN Some(paths[1][2]) ELSE None

(* An input looks at its entries one by one until one gives a hint; an     *)
(* output looks for one path in all of them.                               *)
StdInputHint(i) == HintOf(FirstPaths(i, {"ms45"}))
StdOutputHint(o) == HintOf(FirstPaths(o, {"ms45", "bad", "other"}))

StdInput(i) ==
  LET u == i.utxoEntry[2]
      p == i.previousOutpoint[2]
  IN  [txid     |-> p.transactionId[2], index |-> p.index[2],
       amount   |-> u.amount[2],
       spk      |-> SpkOf(u, "scriptPublicKey"),
       daa      |-> U64Or(u, "blockDaaScore", 0),
       sequence |-> U64Or(i, "sequence", 0),
       sigops   |-> U64Or(i, "sigOpCount", 1),
       redeem   |-> HexOr(i, "redeemScript", <<>>),
       exec     |-> IF Missing(i, "covenantExecution") THEN None
                    ELSE Some([mask  |-> i.covenantExecution[2].suppliedMask[2],
                               truth |-> i.covenantExecution[2].suppliedTrueMask[2]]),
       ms45     |-> StdInputHint(i),
       sigs     |-> IF Missing(i, "partialSigs") THEN <<>> ELSE i.partialSigs[2]]

BindingOf(o) ==
  IF Missing(o, "covenantBinding") THEN None
  ELSE Some([auth |-> o.covenantBinding[2].authorizingInput[2],
             id   |-> o.covenantBinding[2].covenantId[2]])

StdOutput(o) ==
  [amount   |-> o.amount[2],
   spk      |-> SpkOf(o, "scriptPublicKey"),
   covenant |-> BindingOf(o),
   ms45     |-> StdOutputHint(o)]

StdTransaction(doc) ==
  LET g == doc.global[2]
  IN  [version    |-> g.txVersion[2],
       locktime   |-> U64Or(g, "fallbackLockTime", 0),
       subnetwork |-> HexOr(g, "subnetworkId", [k \in 1..SUBNETWORK_LEN |-> 0]),
       gas        |-> U64Or(g, "gas", 0),
       payload    |-> HexOr(g, "txPayload", <<>>),
       inputs     |-> [k \in DOMAIN doc.inputs[2] |-> StdInput(doc.inputs[2][k])],
       outputs    |-> [k \in DOMAIN doc.outputs[2] |-> StdOutput(doc.outputs[2][k])]]

-----------------------------------------------------------------------------
(* standard/preservation.rs: the fields kept to be written again *)

NonEmpty(v) == Kind(v) = "obj" /\ DOMAIN v[2] # {}

CapturedGlobal(g) ==
  {f \in {"fallbackLockTime", "id"} : ~Missing(g, f)}
    \cup {f \in {"inputsModifiable", "outputsModifiable"} \cap DOMAIN g : g[f] = Flag(FALSE)}
    \cup {f \in {"xpubs", "proprietaries"} \cap DOMAIN g : NonEmpty(g[f])}
    \cup UnknownFields(g, GLOBAL_FIELDS)

CapturedUtxo(u) ==
  {f \in {"isCoinbase"} \cap DOMAIN u : u[f] = Flag(TRUE)}
    \cup {f \in {"covenantId"} : ~Missing(u, f)}
    \cup UnknownFields(u, UTXO_FIELDS)

CapturedInput(i) ==
  {f \in {"minTime", "finalScriptSig"} : ~Missing(i, f)}
    \cup {f \in {"bip32Derivations", "proprietaries"} \cap DOMAIN i : NonEmpty(i[f])}
    \cup ({"minimumSignatures"} \cap DOMAIN i)
    \cup UnknownFields(i, INPUT_FIELDS)

CapturedOutput(o) ==
  {f \in {"redeemScript"} : ~Missing(o, f)}
    \cup {f \in {"bip32Derivations", "proprietaries"} \cap DOMAIN o : NonEmpty(o[f])}
    \cup UnknownFields(o, OUTPUT_FIELDS)

(* The object a PsktUnknownScope names *)
ScopeObject(doc, s) ==
  CASE s.kind = "top" -> doc
    [] s.kind = "global" -> doc.global[2]
    [] s.kind = "input" -> doc.inputs[2][s.index]
    [] s.kind = "utxo" -> doc.inputs[2][s.index].utxoEntry[2]
    [] s.kind = "outpoint" -> doc.inputs[2][s.index].previousOutpoint[2]
    [] s.kind = "output" -> doc.outputs[2][s.index]

Scope(kind, index) == [kind |-> kind, index |-> index]

Scopes(doc) ==
  {Scope("top", 0), Scope("global", 0)}
    \cup {Scope(kind, k) : kind \in {"input", "utxo", "outpoint"}, k \in DOMAIN doc.inputs[2]}
    \cup {Scope("output", k) : k \in DOMAIN doc.outputs[2]}

Captured(s, o) ==
  CASE s.kind = "top" -> UnknownFields(o, TOP_LEVEL_FIELDS)
    [] s.kind = "global" -> CapturedGlobal(o)
    [] s.kind = "input" -> CapturedInput(o)
    [] s.kind = "utxo" -> CapturedUtxo(o)
    [] s.kind = "outpoint" -> UnknownFields(o, OUTPOINT_FIELDS)
    [] s.kind = "output" -> CapturedOutput(o)

(* For every scope its captured members *)
Regions(doc) ==
  [s \in Scopes(doc) |->
     LET o == ScopeObject(doc, s) IN [f \in Captured(s, o) |-> o[f]]]

RegionCount(kept) ==
  FoldSet(LAMBDA s, n : n + Cardinality(DOMAIN kept[s]), 0, DOMAIN kept)

(* parse_pskt *)
StdShapeOk(doc) ==
  /\ FieldsMarked(doc, TOP_LEVEL_FIELDS) /\ StdUnknownOk(doc, TOP_LEVEL_FIELDS)
  /\ Kind(doc.global) = "obj" /\ Kind(doc.inputs) = "arr" /\ Kind(doc.outputs) = "arr"
  /\ StdGlobalOk(doc.global[2])
  /\ Len(doc.inputs[2]) <= MAX_INPUTS /\ Len(doc.outputs[2]) <= MAX_OUTPUTS
  /\ \A k \in DOMAIN doc.inputs[2] : StdInputOk(doc.inputs[2][k])
  /\ \A k \in DOMAIN doc.outputs[2] : StdOutputOk(doc.outputs[2][k])

(* validate_top_level_object *)
StdDocumentOk(doc, tx) ==
  /\ doc.global[2].inputCount[2] = Len(tx.inputs)
  /\ doc.global[2].outputCount[2] = Len(tx.outputs)
  /\ BindingsInRange(tx) /\ CheckedAmounts(tx) /\ RedeemsFit(tx)

StdRead(doc) ==
  IF ~StdShapeOk(doc) THEN None
  ELSE LET tx   == StdTransaction(doc)
           kept == Regions(doc)
       IN  IF StdDocumentOk(doc, tx) /\ RegionCount(kept) <= MAX_REGIONS
           THEN Some([tx |-> tx, kept |-> kept,
                      bound |-> {k \in DOMAIN doc.outputs[2] :
                                   "covenantBinding" \in DOMAIN doc.outputs[2][k]}])
           ELSE None

-----------------------------------------------------------------------------
(* standard/serializer: the document written again from the transaction    *)
(* and the kept members.  Members kept in a scope that the emitter does    *)
(* not name follow the named ones.                                         *)

(* emit_value_or_default *)
KeptOr(kept, s, f, default) == IF f \in DOMAIN kept[s] THEN kept[s][f] ELSE default

EmitGlobal(tx, kept) ==
  LET s == Scope("global", 0)
  IN  [version |-> Num(0), txVersion |-> Num(tx.version),
       subnetworkId |-> Hex(tx.subnetwork), gas |-> Dec(tx.gas), txPayload |-> Hex(tx.payload),
       fallbackLockTime |-> IF "fallbackLockTime" \in DOMAIN kept[s]
                            THEN Dec(tx.locktime) ELSE Null,
       inputsModifiable  |-> KeptOr(kept, s, "inputsModifiable", Flag(TRUE)),
       outputsModifiable |-> KeptOr(kept, s, "outputsModifiable", Flag(TRUE)),
       inputCount |-> Num(Len(tx.inputs)), outputCount |-> Num(Len(tx.outputs)),
       xpubs |-> KeptOr(kept, s, "xpubs", Obj(<<>>)),
       id |-> KeptOr(kept, s, "id", Null),
       proprietaries |-> KeptOr(kept, s, "proprietaries", Obj(<<>>))] @@ kept[s]

EmitSpk(spk) == Hex(<<spk.version \div 256, spk.version % 256>> \o spk.script)

EmitUtxo(i, kept, s) ==
  [amount |-> Dec(i.amount), scriptPublicKey |-> EmitSpk(i.spk),
   blockDaaScore |-> Dec(i.daa),
   isCoinbase |-> KeptOr(kept, s, "isCoinbase", Flag(FALSE))] @@ kept[s]

EmitOutpoint(i, kept, s) ==
  [transactionId |-> Hex(i.txid), index |-> Num(i.index)] @@ kept[s]

(* emit_bip32_derivations_for_input: a null entry for every signature *)
EmitDerivations(i, kept, s) ==
  KeptOr(kept, s, "bip32Derivations",
         Obj([k \in 1..Cardinality(DOMAIN i.sigs) |-> Null]))

EmitInput(i, kept, k) ==
  LET s == Scope("input", k)
  IN  [utxoEntry |-> Obj(EmitUtxo(i, kept, Scope("utxo", k))),
       previousOutpoint |-> Obj(EmitOutpoint(i, kept, Scope("outpoint", k))),
       sequence |-> Dec(i.sequence),
       minTime |-> KeptOr(kept, s, "minTime", Null),
       partialSigs |-> Obj(i.sigs), sighashType |-> Num(1),
       redeemScript |-> IF i.redeem = <<>> THEN Null ELSE Hex(i.redeem),
       sigOpCount |-> Num(i.sigops),
       bip32Derivations |-> EmitDerivations(i, kept, s),
       finalScriptSig |-> KeptOr(kept, s, "finalScriptSig", Null),
       proprietaries |-> KeptOr(kept, s, "proprietaries", Obj(<<>>))]
      @@ [f \in {g \in {"covenantExecution"} : i.exec # None} |->
            Obj([suppliedMask |-> Num(i.exec[1].mask),
                 suppliedTrueMask |-> Num(i.exec[1].truth)])]
      @@ kept[s]

(* emit_covenant_binding: also as null, when the field was there *)
EmitBinding(o) ==
  IF o.covenant = None THEN Null
  ELSE Obj([authorizingInput |-> Num(o.covenant[1].auth), covenantId |-> Hex(o.covenant[1].id)])

EmitOutput(o, kept, k, named) ==
  LET s == Scope("output", k)
  IN  [amount |-> Dec(o.amount), scriptPublicKey |-> EmitSpk(o.spk),
       redeemScript |-> KeptOr(kept, s, "redeemScript", Null),
       bip32Derivations |-> KeptOr(kept, s, "bip32Derivations", Obj(<<>>)),
       proprietaries |-> KeptOr(kept, s, "proprietaries", Obj(<<>>))]
      @@ [f \in {g \in {"covenantBinding"} : named \/ o.covenant # None} |-> EmitBinding(o)]
      @@ kept[s]

EmitDocument(p) ==
  [global  |-> Obj(EmitGlobal(p.tx, p.kept)),
   inputs  |-> Arr([k \in DOMAIN p.tx.inputs |-> EmitInput(p.tx.inputs[k], p.kept, k)]),
   outputs |-> Arr([k \in DOMAIN p.tx.outputs |->
                      EmitOutput(p.tx.outputs[k], p.kept, k, k \in p.bound)])]
  @@ p.kept[Scope("top", 0)]

(* serialize_pskt: validate_serialization_shape, then the document *)
Serialize(p) ==
  IF /\ Len(p.tx.inputs) <= MAX_INPUTS /\ CheckedAmounts(p.tx) /\ BindingsInRange(p.tx)
     /\ RegionCount(p.kept) <= MAX_REGIONS
  THEN Some(EmitDocument(p)) ELSE None

(* standard/signatures.rs: the signatures the signer made, one function    *)
(* from keys per input, join the ones that came with the document; all     *)
(* inputs or none.                                                         *)
SigsJoin(i, made) ==
  /\ \A k \in DOMAIN made \cap DOMAIN i.sigs : made[k] = i.sigs[k]
  /\ Cardinality(DOMAIN made \cup DOMAIN i.sigs) <= MAX_SIGS

MoveKspSigsToPskt(tx, made) ==
  IF \A k \in DOMAIN tx.inputs : SigsJoin(tx.inputs[k], made[k])
  THEN Some([tx EXCEPT !.inputs =
               [k \in DOMAIN tx.inputs |->
                  [tx.inputs[k] EXCEPT !.sigs = tx.inputs[k].sigs @@ made[k]]]])
  ELSE None

=============================================================================
