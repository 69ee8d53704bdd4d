------------------------------- MODULE Claims -------------------------------
(***************************************************************************)
(* How a signed covenant document becomes a signature script:              *)
(* pskt/pipeline/specialized (typed claims with proof material), the       *)
(* completeness rules of compact/verify.rs for covenant inputs, and the    *)
(* witness plans of verified/.  A document is the one covenant input of a  *)
(* PSKT:                                                                   *)
(*   redeem, spk   its redeem script and the script it spends              *)
(*   exec          option of [mask, true], the covenantExecution selectors *)
(*   partialSigs   set of [key, parity, by]: the key a signature is filed  *)
(*                 under, its SEC1 parity, and who made the signature      *)
(*   proprietaries option of field name -> value                           *)
(*   global        names among the global proprietary fields               *)
(*   covenantBranch  whether the legacy global field is present            *)
(* A value is <<kind, content>>: "hex" lower-case hexadecimal, "decimal" a *)
(* canonical decimal string, "text" any other, "number", "bool", "array"   *)
(* or "object".  A result is an option: None is the code's Err.  A signature script is written as its   *)
(* pushes, without the redeem script that follows them.                    *)
(***************************************************************************)
EXTENDS Templates

MAX_MERKLE_DEPTH == 15

SPECIALIZED_COVENANT_ROUTING_FIELDS ==
  {"escrowBranch", "shipBranch", "privateSwapClaim", "oracleV1Claim", "oracleV1Signature",
   "risc0OracleMb", "oracleMbPassthrough", "oracleMbHeartbeat", "oracleMbConsumer", "zkProof",
   "zkPublicInputs", "zkVk", "risc0Seal", "risc0Fields", "risc0Bridge", "groth16Bridge",
   "commitPartA", "commitPartB", "commitPreimage", "merkleProof", "merkleDestSpk",
   "withdrawalSpk", "rollupStateAdvance", "rollupStateRefund", "rollupProof", "rollupPrefix",
   "rollupSuffix", "rollupDepositAdvance", "rollupUnifiedAdvance", "rollupForcedExit",
   "depositHoldingCredit", "depositHoldingRefund"}

SUPPORTED_SPECIALIZED_COVENANT_ROUTING_FIELDS ==
  {"privateSwapClaim", "oracleV1Claim", "oracleV1Signature", "commitPartA", "commitPartB",
   "merkleProof", "merkleDestSpk"}

-----------------------------------------------------------------------------
(* Reading proprietary values. *)

Field(fields, key) == IF key \in DOMAIN fields THEN Some(fields[key]) ELSE None

require_true(fields, key) == Field(fields, key) = Some(<<"bool", TRUE>>)

\* A width of zero stands for any length.
required_hex(fields, key, width) ==
  LET v == Field(fields, key) IN
  IF v # None /\ v[1][1] = "hex" /\ (width = 0 \/ ByteLen(v[1][2]) = width)
  THEN Some(v[1][2]) ELSE None

\* A number, or a canonical decimal string; "text" is a non-canonical one.
merkle_direction_u64(v) == IF v[1] \in {"number", "decimal"} THEN Some(v[2]) ELSE None

parse_merkle_proof_item(v) ==
  LET item == v[2]
      sibling   == required_hex(item, "sibling", 32)
      direction == IF "direction" \in DOMAIN item THEN merkle_direction_u64(item["direction"])
                   ELSE None
  IN IF /\ v[1] = "object" /\ Cardinality(DOMAIN item) = 2
        /\ sibling # None /\ direction \in {Some(0), Some(1)}
     THEN Some([sibling |-> sibling[1], direction |-> direction[1]]) ELSE None

parse_merkle_proof(v) ==
  LET items == [n \in 1 .. Len(v[1][2]) |-> parse_merkle_proof_item(v[1][2][n])]
  IN IF \/ v = None \/ v[1][1] # "array" \/ Len(v[1][2]) > MAX_MERKLE_DEPTH
        \/ \E n \in DOMAIN items : items[n] = None
     THEN None ELSE Some([n \in DOMAIN items |-> items[n][1]])

-----------------------------------------------------------------------------
(* Signatures of a document. *)

unique_position_for_key(res, key) ==
  LET found == { n \in 1 .. Len(res.keys) : res.keys[n].key = key } IN
  IF Cardinality(found) = 1 THEN (CHOOSE n \in found : TRUE) - 1 ELSE -1

covenant_signature_position(d, res, key) ==
  IF d.exec = None THEN unique_position_for_key(res, key)
  ELSE position_for_key_with_selectors(res, key, d.exec[1].mask, d.exec[1].true)

\* The signatures by position, or nothing when one is bound to no branch or
\* two to the same.
distinct_positions(placed) ==
  IF \/ \E p \in placed : p.position < 0
     \/ \E p, q \in placed : p # q /\ p.position = q.position
  THEN None ELSE Some({ [position |-> p.position, by |-> p.entry.by] : p \in placed })

collect_for(d, res) ==
  IF res.err # "" THEN None
  ELSE distinct_positions({ [position |-> covenant_signature_position(d, res, e.key), entry |-> e] :
                              e \in d.partialSigs })

collect_covenant_signatures(d) ==
  IF d.partialSigs = {} THEN Some({}) ELSE collect_for(d, resolve_covenant_branches(d.redeem))

\* Adds the only signature of an unsigned input.
attach_sole_signature(d, entry) ==
  IF d.partialSigs = {} THEN Some([d EXCEPT !.partialSigs = {entry}]) ELSE None

\* The key a position is bound to, on the branch covenantExecution chose.
covenant_bound_key(d, position) ==
  LET res == resolve_covenant_branches(d.redeem) IN
  IF \/ res.err # "" \/ position >= Len(res.keys)
     \/ d.exec # None /\ ~matches_selectors(res.keys[position + 1], d.exec[1].mask, d.exec[1].true)
  THEN None ELSE Some(res.keys[position + 1].key)

verify_input_signatures(d, sigs) == \A s \in sigs : covenant_bound_key(d, s.position) = Some(s.by)

-----------------------------------------------------------------------------
(* The typed claims. *)

recognize_oracle_v1(script)     == oracle_v1_script_fields(script)
recognize_commit_reveal(script) == commit_reveal_script_fields(script)
recognize_private_swap(script)  == private_swap_script_fields(script)
recognize_merkle(script) ==
  LET f == merkle_whitelist_script_fields(script) IN
  IF f # None /\ f[1].depth <= MAX_MERKLE_DEPTH THEN f ELSE None

private_swap_claim_script(sig)         == <<TxSig(sig.by), True>>
oracle_claim_script(attestation, sig)  == <<attestation, TxSig(sig.by), False>>
commit_reveal_claim_script(a, b, sig)  == <<a, b, TxSig(sig.by), False>>
build_merkle_witness(dest, proof, sig) ==
  LET back == Reverse(proof) IN
  <<dest>> \o FlattenSeq([n \in DOMAIN back |-> <<back[n].sibling, Num(back[n].direction)>>])
  \o <<dest, TxSig(sig.by), False>>

\* The route is proved already; the witness follows the signature.
witness_once_signed(sigs, Build(_)) == IF sigs = {} THEN <<>> ELSE Build(CHOOSE s \in sigs : TRUE)

bind_private_swap(fields, d, sigs) ==
  IF /\ require_true(fields, "privateSwapClaim")
     /\ recognize_private_swap(d.redeem) # None
     /\ d.exec[1] = [mask |-> {0}, true |-> {0}]
  THEN Some(witness_once_signed(sigs, private_swap_claim_script)) ELSE None

\* The attestation is checked against the key and statement in the script.
verify_oracle_attestation(template, attestation) ==
  attestation = MsgSig(template.oracle, template.statement)

bind_oracle_v1(fields, d, sigs) ==
  LET attestation == required_hex(fields, "oracleV1Signature", 64)
      template    == recognize_oracle_v1(d.redeem)
      script(s)   == oracle_claim_script(attestation[1], s)
  IN IF /\ require_true(fields, "oracleV1Claim") /\ attestation # None /\ template # None
        /\ d.exec[1] = [mask |-> {0}, true |-> {}]
        /\ verify_oracle_attestation(template[1], attestation[1])
     THEN Some(witness_once_signed(sigs, script)) ELSE None

bind_commit_reveal(fields, d, sigs) ==
  LET a == required_hex(fields, "commitPartA", 0)
      b == required_hex(fields, "commitPartB", 0)
      template  == recognize_commit_reveal(d.redeem)
      script(s) == commit_reveal_claim_script(a[1], b[1], s)
  IN IF /\ a # None /\ b # None /\ template # None
        /\ d.exec[1] = [mask |-> {0}, true |-> {}]
        /\ Hash(a[1] \o b[1]) = template[1].commitment
     THEN Some(witness_once_signed(sigs, script)) ELSE None

\* Bit 0, the claim branch, stays false; level n sets bit n + 1.
merkle_truth_from_proof(proof) == { n \in DOMAIN proof : proof[n].direction = 1 }

merkle_step(current, item) ==
  Hash(IF item.direction = 1 THEN current \o item.sibling ELSE item.sibling \o current)

verify_merkle_root(dest, proof, root) == FoldLeft(merkle_step, Hash(dest), proof) = root

validate_merkle_claim(proof, template, exec) ==
  /\ Len(proof) = template.depth
  /\ exec = [mask |-> 0 .. template.depth, true |-> merkle_truth_from_proof(proof)]

bind_merkle(fields, d, sigs) ==
  LET dest      == required_hex(fields, "merkleDestSpk", 0)
      proof     == parse_merkle_proof(Field(fields, "merkleProof"))
      template  == recognize_merkle(d.redeem)
      script(s) == build_merkle_witness(dest[1], proof[1], s)
  IN IF /\ dest # None /\ proof # None /\ template # None
        /\ validate_merkle_claim(proof[1], template[1], d.exec[1])
        /\ verify_merkle_root(dest[1], proof[1], template[1].root)
     THEN Some(witness_once_signed(sigs, script)) ELSE None

-----------------------------------------------------------------------------
(* Routes: which claim the proprietary fields of an input announce. *)

route_presence(fields) ==
  { r \in {"private", "oracle", "commit", "merkle"} :
      DOMAIN fields \cap (CASE r = "private" -> {"privateSwapClaim"}
                            [] r = "oracle"  -> {"oracleV1Claim", "oracleV1Signature"}
                            [] r = "commit"  -> {"commitPartA", "commitPartB"}
                            [] r = "merkle"  -> {"merkleProof", "merkleDestSpk"}) # {} }

reject_unsupported_route_fields(fields) ==
  DOMAIN fields \cap SPECIALIZED_COVENANT_ROUTING_FIELDS
    \subseteq SUPPORTED_SPECIALIZED_COVENANT_ROUTING_FIELDS

reject_mixed_routes(routes) == Cardinality(routes) <= 1

route_from_presence(routes) == IF routes = {} THEN None ELSE Some(CHOOSE r \in routes : TRUE)

\* None: refused; else an option of the announced route.
detect_route(fields) ==
  LET routes == route_presence(fields) IN
  IF reject_mixed_routes(routes) /\ reject_unsupported_route_fields(fields)
  THEN Some(route_from_presence(routes)) ELSE None

\* A claim may wait for its one signature; it may never carry more.
claim_signature(sigs) == Cardinality(sigs) <= 1

validate_route_binding(d, sigs) ==
  LET res == resolve_covenant_branches(d.redeem) IN
  /\ d.redeem # <<>> /\ d.exec # None /\ res.err = ""
  /\ claim_signature(sigs)
  /\ \A s \in sigs : covenant_bound_key(d, s.position) # None

dispatch_route(route, fields, d, sigs) ==
  CASE route = "private" -> bind_private_swap(fields, d, sigs)
    [] route = "oracle"  -> bind_oracle_v1(fields, d, sigs)
    [] route = "commit"  -> bind_commit_reveal(fields, d, sigs)
    [] route = "merkle"  -> bind_merkle(fields, d, sigs)

bind_route(d, route, sigs) ==
  IF validate_route_binding(d, sigs) THEN dispatch_route(route, d.proprietaries[1], d, sigs)
  ELSE None

\* Routing fields belong to inputs; among the global fields they are refused.
reject_all_specialized(d) == d.global \cap SPECIALIZED_COVENANT_ROUTING_FIELDS = {}

typed_script(script) == IF script = None THEN None ELSE Some(script)

bind_detected(d, sigs, route) ==
  CASE route = None       -> None
    [] route = Some(None) -> Some(None)
    [] OTHER              -> typed_script(bind_route(d, route[1][1], sigs))

\* None: refused; Some(None): no typed route; Some(Some(script)): its script.
bind_specialized_witnesses(d, sigs) ==
  IF d.covenantBranch \/ ~reject_all_specialized(d) THEN None
  ELSE bind_detected(d, sigs, IF d.proprietaries = None THEN Some(None)
                              ELSE detect_route(d.proprietaries[1]))

-----------------------------------------------------------------------------
(* Completeness and the verified witness. *)

NO_GENERIC_PLAN == {"IncompleteSelectors", "UnsupportedSignatureCheck", "UnsupportedOpcode",
                    "WitnessDataRequired", "DataDependentBranch"}

\* None is an error; Some(-1) says that no number of signatures completes it.
required_by(t) ==
  CASE t.err \in NO_GENERIC_PLAN -> Some(-1)
    [] t.err = "" -> Some(Len(SelectSeq(t.items, LAMBDA i : i[1] = "signature")))
    [] OTHER -> None

PathTrace(d) == trace_witness(d.redeem, d.exec[1].mask, d.exec[1].true)

generic_covenant_required(d) ==
  IF d.exec = None THEN Some(-1) ELSE The({ required_by(t) : t \in {PathTrace(d)} })

\* None is an error, else whether the input has exactly what it needs.
verified_complete(d, sigs, typed) ==
  LET required == IF typed # None THEN Some(IF Cardinality(sigs) = 1 THEN 1 ELSE -1)
                  ELSE generic_covenant_required(d)
  IN CASE required = None -> None
       [] required # None /\ Cardinality(sigs) # required[1] -> Some(FALSE)
       [] OTHER -> IF verify_input_signatures(d, sigs) THEN Some(TRUE) ELSE None

require_p2sh_redeem_binding(d) == d.spk = P2SH(d.redeem)

\* The items of the traced path with the signature of each position.
covenant_witness_plan(d, sigs) ==
  The({ [n \in DOMAIN items |->
           IF items[n][1] = "selector" THEN Bool(items[n][2])
           ELSE TxSig((CHOOSE s \in sigs : s.position = items[n][2]).by)] :
        items \in {PathTrace(d).items} })

\* The item consumed first is pushed last.
materialize_covenant(items) == Reverse(items)

materialize_specialized(d, script) == IF d.exec[1].true \subseteq d.exec[1].mask
                                      THEN Some(script) ELSE None

\* The pushes of the finalized input, or None.
witness_plan(d, sigs, typed) ==
  CASE ~require_p2sh_redeem_binding(d) -> None
    [] require_p2sh_redeem_binding(d) /\ typed # None -> materialize_specialized(d, typed[1])
    [] OTHER -> Some(materialize_covenant(covenant_witness_plan(d, sigs)))

\* The verdict on a document: refused, incomplete, or complete with its pushes.
NotComplete(status) == [status |-> status, script |-> None]

finalized(plan) == IF plan = None THEN NotComplete("refused")
                   ELSE [status |-> "complete", script |-> plan]

verified_with(d, sigs, typed, done) ==
  CASE done = None        -> NotComplete("refused")
    [] done = Some(FALSE) -> NotComplete("incomplete")
    [] done = Some(TRUE)  -> finalized(witness_plan(d, sigs, typed))

routed_with(d, sigs, typed) ==
  IF typed = None THEN NotComplete("refused")
  ELSE The({ verified_with(d, sigs, typed[1], done) :
               done \in {verified_complete(d, sigs, typed[1])} })

collected_with(d, sigs) ==
  IF sigs = None THEN NotComplete("refused")
  ELSE The({ routed_with(d, sigs[1], typed) :
               typed \in {bind_specialized_witnesses(d, sigs[1])} })

verify_complete_pskt(d) ==
  The({ collected_with(d, sigs) : sigs \in {collect_covenant_signatures(d)} })

=============================================================================
