------------------------------- MODULE Signing -------------------------------
(***************************************************************************)
(* The two-round signing protocols: a host commits to a secret, the        *)
(* device commits to its nonces, the host reveals, the device finalizes    *)
(* with both contributions and the host checks the transcript.  Three      *)
(* protocols share the scheme: transactions (KAKP, signing/anti_klepto and *)
(* kspt/signing/anti_klepto), covenant commitments (CVSG,                  *)
(* signing/covenant) and adaptor pre-signatures of private swaps (PSWG).   *)
(*                                                                         *)
(* The library has the messages, their checks and the mathematics; the     *)
(* loop that calls them belongs to the host and device applications.  Here *)
(* a device holds one session at a time, takes requests and reveals in any *)
(* order, may restart, and gives a session up once it has answered.        *)
(***************************************************************************)
EXTENDS Schnorr, SequencesExt

CONSTANTS
  Scenes,        \* what a host may ask for: sets of requests, one set per behaviour
  Secrets,       \* host secrets
  Accounts,      \* of the device: [key, derived], private keys of the account and its addresses
  Hierarchy,     \* account -> instance -> private key: the isolated covenant hierarchy
  MaxAsks,       \* bound on the requests of the host
  MaxDraws,      \* bound on the entropy samples the device draws
  MaxSplices     \* bound on the messages damaged in transport

\* Documents of a host: what is signed already came over the wire, without its key.
\* Distinct inputs have distinct sighashes.
MAX_SIGS_PER_INPUT == 5
NoKey == <<0, 0>>
Documents ==
  { doc \in [id : Nat,
             inputs : Seq([kind : {"p2pk", "multisig"}, keys : Seq(Canonical),
                           sigs : Seq([pos : Nat, pk : {NoKey}, r : Nat, s : Nat])])] :
      \A i \in DOMAIN doc.inputs :
        /\ Len(doc.inputs[i].sigs) <= MAX_SIGS_PER_INPUT
        /\ doc.inputs[i].kind = "p2pk" => Len(doc.inputs[i].keys) = 1 }

KeysOf(accounts) == UNION { {a.key} \cup a.derived : a \in accounts }
DeviceKeys == KeysOf(Accounts)

\* Every account and every instance of the hierarchy has a key; no address has the key
\* of an account.
ASSUME SigningAssumption ==
  /\ DeviceKeys \subseteq 1 .. Q - 1
  /\ \A a, b \in Accounts : \A k \in b.derived : PointX(a.key) # PointX(k)
  /\ \A keys \in {Hierarchy.covenant, Hierarchy.claim, Hierarchy.adaptor} :
       \A i \in DOMAIN keys : keys[i] \in 1 .. Q - 1
  /\ \A requests \in Scenes : \A req \in requests :
       /\ req.flow \in {"tx", "covenant", "swap"}
       /\ req.flow = "tx" => req.doc \in Documents /\ Len(req.doc.inputs) < Q
       /\ req.flow = "covenant" => /\ {"key_id", "commitment"} \subseteq DOMAIN req.q
                                   /\ req.q.key_id[1] \in DOMAIN Hierarchy.covenant
                                   /\ req.q.commitment[1] \in Nat
       /\ req.flow = "swap" => req.key_id \in DOMAIN Hierarchy.claim /\ req.tx.id \in Nat

VARIABLES
  scene,         \* the requests this host may make
  asks,          \* what the host asked for: records [req, secret, session]
  net,           \* every message sent; a message may be read late, twice or never
  dev,           \* the device's session, or None
  drawn,         \* entropy samples the device has drawn
  released,      \* final signatures that left the device, with their base nonce (history)
  spliced        \* damaged messages so far

vars == <<scene, asks, net, dev, drawn, released, spliced>>

None == <<>>
Some(v) == <<v>>

-----------------------------------------------------------------------------
(* Hashes are injective: a digest is its preimage. *)

host_commitment(secret) == <<"commit", secret>>
verify_host_secret(commitment, secret) == commitment = host_commitment(secret)
transaction_digest(doc) == <<"digest", doc>>

session_id(commitment, digest) == [flow |-> "tx", commitment |-> commitment, about |-> digest]

\* The bytes of a session id as they enter a hash.
SessionNumber(session) ==
  Mix(<<session.commitment[2]>> \o
      IF session.flow = "tx" THEN <<session.about[2].id, Len(session.about[2].inputs[1].sigs)>>
      ELSE session.about)

-----------------------------------------------------------------------------
(* Transactions: kspt/signing.  A document is [id, inputs]; an input has its *)
(* kind, its keys (x coordinates) and its signature slots [pos, pk, r, s].   *)
(* Every signature is SIGHASH_ALL, the only one the wire carries.            *)

\* Compact KSPT identifies a signer by its position and drops its key.
Wire(doc) ==
  [doc EXCEPT !.inputs = [i \in 1 .. Len(doc.inputs) |->
     [doc.inputs[i] EXCEPT !.sigs = [n \in 1 .. Len(@) |-> [@[n] EXCEPT !.pk = NoKey]]]]]

calculate_sighash(doc, i) == (doc.id * 4 + i) % Q

PrivateOf(keys, x) == { k \in keys : PointX(k) = x }

\* account_positions: an account that a script names signs where it is named first.
ByAccount(keys, p) ==
  /\ \E a \in Accounts : PointX(a.key) = keys[p]
  /\ \A q \in 1 .. p - 1 : keys[q] # keys[p]

\* cached_address_material: any other one signs wherever one of its addresses is named.
ByAddress(keys, p) ==
  \E a \in Accounts : /\ PrivateOf(a.derived, keys[p]) # {}
                      /\ \A q \in 1 .. Len(keys) : keys[q] # PointX(a.key)

\* direct_address_material
ByPayee(keys, p) == \E a \in Accounts : PrivateOf(a.derived, keys[p]) # {}

\* The free positions that the device signs, in order.
Open(input) ==
  LET signed == { input.sigs[n].pos : n \in 1 .. Len(input.sigs) }
      mine   == { p \in 1 .. Len(input.keys) :
                    IF input.kind = "p2pk" THEN ByPayee(input.keys, p)
                    ELSE ByAccount(input.keys, p) \/ ByAddress(input.keys, p) }
  IN IF input.kind = "p2pk" /\ input.sigs # <<>> THEN <<>>
     ELSE FlattenSeq([p \in 1 .. Len(input.keys) |-> IF p \in mine \ signed THEN <<p>> ELSE <<>>])

UpTo(n, s) == IF Len(s) > n THEN SubSeq(s, 1, n) ELSE s

\* Signatures an input has no slot for are left out.
ToSign(input) == UpTo(MAX_SIGS_PER_INPUT - Len(input.sigs), Open(input))

Provisional(doc, i, p, aux) ==
  LET k == CHOOSE k \in DeviceKeys : PointX(k) = doc.inputs[i].keys[p]
      s == schnorr_sign_with_aux_rand(k, calculate_sighash(doc, i), aux)
  IN [err |-> s.err, pos |-> p, pk |-> Compressed(k), sig |-> s.v]

\* sign_transaction_multisig, with entropy (aux > 0) or without.
sign_transaction(doc, aux) ==
  LET new(i)  == [n \in 1 .. Len(ToSign(doc.inputs[i])) |->
                    Provisional(doc, i, ToSign(doc.inputs[i])[n], aux)]
      failed  == \E i \in 1 .. Len(doc.inputs) : \E n \in DOMAIN new(i) : new(i)[n].err # ""
      slots(i) == [n \in DOMAIN new(i) |->
                    [pos |-> new(i)[n].pos, pk |-> new(i)[n].pk,
                     r |-> new(i)[n].sig.r, s |-> new(i)[n].sig.s]]
  IN IF failed THEN Fail("SigningFailed")
     ELSE Done([doc EXCEPT !.inputs = [i \in 1 .. Len(doc.inputs) |->
                  [doc.inputs[i] EXCEPT !.sigs = @ \o slots(i)]]])

initial_signature_counts(doc) == [i \in 1 .. Len(doc.inputs) |-> Len(doc.inputs[i].sigs)]

\* <<input, slot>> of every signature added since the counts were taken.
Added(doc, counts) ==
  FlattenSeq([i \in 1 .. Len(doc.inputs) |->
    [n \in 1 .. Len(doc.inputs[i].sigs) - counts[i] |-> <<i, counts[i] + n>>]])

Slot(doc, at) == doc.inputs[at[1]].sigs[at[2]]

nonce_commitment_records(doc, counts) ==
  LET at == Added(doc, counts)
  IN IF at = <<>> THEN Fail("NoInputs")
     ELSE IF \E n \in DOMAIN at : Slot(doc, at[n]).pk = NoKey THEN Fail("InvalidSignatureState")
     ELSE Done([n \in DOMAIN at |->
                 [at |-> at[n], public_key |-> Even(Slot(doc, at[n]).pk[2]),
                  nonce_point |-> provisional_nonce_point(Slot(doc, at[n]))]])

proof_records(doc, counts) == Added(doc, counts)

finalization_error(err) == IF err = "ReusableProvisionalNonce" THEN "ReusableNonce" ELSE "SigningFailed"

Explained(final) == IF final.err = "" THEN final ELSE Fail(finalization_error(final.err))

finalize_signature_slot(doc, at, session, secret, keys) ==
  LET slot  == Slot(doc, at)
      found == { k \in PrivateOf(keys, slot.pk[2]) : Compressed(k) = slot.pk }
  IN IF slot.pk = NoKey THEN Fail("InvalidSignatureState")
     ELSE IF found = {} THEN Fail("DerivationFailed")
     ELSE Explained(tweak_provisional_signature(
            CHOOSE k \in found : TRUE, calculate_sighash(doc, at[1]),
            [r |-> slot.r, s |-> slot.s], SessionNumber(session), secret, at[1], at[2]))

Before(a, b) == a[1] < b[1] \/ (a[1] = b[1] /\ a[2] < b[2])

\* Slots are finalized in place, one after the other: an error leaves the
\* earlier ones finalized.
InPlace(doc, final) ==
  LET at     == DOMAIN final
      failed == { a \in at : final[a].err # "" }
      first  == CHOOSE a \in failed : \A b \in failed : ~Before(b, a)
      done   == { a \in at : \A b \in failed : Before(a, b) }
  IN [err |-> IF at = {} THEN "NoInputs" ELSE IF failed = {} THEN "" ELSE final[first].err,
      doc |-> [doc EXCEPT !.inputs = [i \in 1 .. Len(doc.inputs) |->
                [doc.inputs[i] EXCEPT !.sigs = [n \in 1 .. Len(@) |->
                  LET slot == Slot(doc, <<i, n>>)
                  IN IF <<i, n>> \in done
                     THEN [slot EXCEPT !.r = final[<<i, n>>].v.r, !.s = final[<<i, n>>].v.s]
                     ELSE slot]]]]]

finalize_matching(doc, counts, session, secret, keys) ==
  InPlace(doc, [a \in ToSet(Added(doc, counts)) |->
                  finalize_signature_slot(doc, a, session, secret, keys)])

-----------------------------------------------------------------------------
(* The host's checks: kspt/signing/anti_klepto/{commitment,transcript}. *)

commitment_position_is_valid(original, at) ==
  /\ at[1] <= Len(original.inputs)
  /\ at[2] > Len(original.inputs[at[1]].sigs)
  /\ at[2] <= MAX_SIGS_PER_INPUT

pubkey_is_allowed_for_input(original, i, x) == x \in ToSet(original.inputs[i].keys)

validate_host_commitment(original, records) ==
  \A n \in DOMAIN records :
    LET rec == records[n] IN
    /\ n > 1 => Before(records[n - 1].at, rec.at)
    /\ commitment_position_is_valid(original, rec.at)
    /\ rec.public_key[1] = 2 /\ rec.nonce_point[1] = 2
    /\ rec.public_key[2] \in Canonical /\ rec.nonce_point[2] \in Canonical
    /\ pubkey_is_allowed_for_input(original, rec.at[1], rec.public_key[2])

Unsigned(doc) ==
  [doc EXCEPT !.inputs = [i \in 1 .. Len(doc.inputs) |-> [doc.inputs[i] EXCEPT !.sigs = <<>>]]]

same_transaction_body(original, signed) ==
  /\ Unsigned(original) = Unsigned(signed)
  /\ \A i \in 1 .. Len(original.inputs) : IsPrefix(original.inputs[i].sigs, signed.inputs[i].sigs)

signing_pubkey_xonly(doc, i, pos) ==
  IF doc.inputs[i].kind = "p2pk" THEN doc.inputs[i].keys[1]
  ELSE IF pos <= Len(doc.inputs[i].keys) THEN doc.inputs[i].keys[pos] ELSE 0

verify_transcript_proof(signed, rec, proof, session, secret) ==
  /\ rec.at = proof
  /\ proof[1] <= Len(signed.inputs) /\ proof[2] <= Len(signed.inputs[proof[1]].sigs)
  /\ LET slot == Slot(signed, proof)
         x    == signing_pubkey_xonly(signed, proof[1], slot.pos)
     IN /\ rec.public_key[2] = x
        /\ schnorr_verify(x, calculate_sighash(signed, proof[1]), slot)
        /\ verify_nonce_relation(rec.nonce_point, slot, SessionNumber(session), secret,
                                 proof[1], proof[2], rec.public_key)

verify_host_transcript(original, commitment, signed, secret) ==
  LET recs == commitment.records IN
  /\ validate_host_commitment(original, recs)
  /\ commitment.session = signed.session /\ commitment.digest = signed.digest
  /\ same_transaction_body(original, signed.doc)
  /\ Len(recs) = Len(signed.proofs)
  /\ Len(Added(signed.doc, initial_signature_counts(original))) = Len(recs)
  /\ \A n \in DOMAIN recs :
       verify_transcript_proof(signed.doc, recs[n], signed.proofs[n], commitment.session, secret)

-----------------------------------------------------------------------------
(* The covenant hierarchy: wallet/derivation/covenant.rs.  Every account and *)
(* instance has a key of its own; a token is an HMAC under a binding key.    *)

derive_covenant_key(instance) == Hierarchy.covenant[instance]

\* Mutant: swaps claim with the key of universal covenant signing.
Mutant_SharedKey(instance) == Hierarchy.covenant[instance]

derive_private_swap_claim_key(instance) == Hierarchy.claim[instance]

private_swap_adaptor_secret_and_point(instance) == adaptor_point_from_secret(Hierarchy.adaptor[instance])

covenant_public_key(instance)     == PointX(derive_covenant_key(instance))
private_swap_public_key(instance) == PointX(derive_private_swap_claim_key(instance))

covenant_binding_token(instance, script) ==
  <<"binding", instance, script, covenant_public_key(instance)>>
private_swap_binding_token(instance, script) ==
  <<"swap_binding", instance, script, private_swap_public_key(instance)>>

-----------------------------------------------------------------------------
(* Covenant commitments: signing/covenant/protocol.  A request has its kind, *)
(* scheme, binding hint, key_id (an instance), token, commitment (a scalar), *)
(* script and context; fields that are all zero are None.                    *)

SCHEMES == {"Sha256Preimage", "OracleV1"}

expected_known_binding(scheme) == IF scheme = "None" THEN "None" ELSE "FixedCheckSigFromStack"

validate_bind_fields(q) ==
  /\ q.key_id # None /\ q.token = None /\ q.script # None
  /\ IF q.scheme = "None"
     THEN q.binding \in {"None", "KeyPresent"} /\ q.commitment = None /\ q.context = None
     ELSE q.binding = expected_known_binding(q.scheme) /\ q.context # None

validate_known_fields(q) ==
  /\ q.scheme # "None" /\ q.binding = expected_known_binding(q.scheme)
  /\ None \notin {q.key_id, q.token, q.script, q.context}

validate_opaque_fields(q) ==
  /\ q.scheme = "None" /\ q.binding \in {"None", "KeyPresent"}
  /\ None \notin {q.key_id, q.token, q.script} /\ q.context = None

validate_fields(q) ==
  CASE q.kind = "Bind"   -> validate_bind_fields(q)
    [] q.kind = "Known"  -> validate_known_fields(q)
    [] q.kind = "Opaque" -> validate_opaque_fields(q)

\* A script is [shape, commitment, keys]: the fixed check of one commitment by
\* one key, an oracle contract, or something else that pushes keys.
recompute_known_commitment(scheme, context) ==
  IF scheme = "OracleV1" /\ ~context.oracle THEN None ELSE Some(context.hash)

known_script_binds(scheme, script, commitment, x) ==
  /\ script.shape = (IF scheme = "OracleV1" THEN "oracle" ELSE "fixed")
  /\ script.commitment = commitment /\ script.keys = {x}

script_contains_xonly_key(script, x) == x \in script.keys

\* What a request says of the script must be true before the device binds or signs.
ScriptAgrees(q) ==
  LET x == covenant_public_key(q.key_id[1]) IN
  IF q.scheme = "None"
  THEN q.binding = "KeyPresent" => script_contains_xonly_key(q.script[1], x)
  ELSE /\ recompute_known_commitment(q.scheme, q.context[1]) = q.commitment
       /\ known_script_binds(q.scheme, q.script[1], q.commitment[1], x)

covenant_binding_matches(instance, script, token) == token = covenant_binding_token(instance, script)

-----------------------------------------------------------------------------
(* Private swaps: signing/private_swap and signing/covenant/protocol/        *)
(* private_swap.rs.  A claim is [id, inputs, outputs, payload, signed,       *)
(* sighash_type, script, amount, value, spk].                                *)

PRIVATE_SWAP_MAX_FEE_SOMPI == 500000000

validate_claim_transaction_shape(tx) ==
  /\ tx.inputs = 1 /\ tx.outputs = 1 /\ ~tx.payload /\ ~tx.signed
  /\ tx.sighash_type \in {"zero", "All"}

validate_claim_policy(tx, x) ==
  tx.script # None /\ tx.script[1].shape = "swap" /\ tx.script[1].claimer = x

validate_claim_output(tx) ==
  /\ tx.spk = tx.script[1].spk
  /\ tx.amount >= tx.value /\ tx.amount - tx.value <= PRIVATE_SWAP_MAX_FEE_SOMPI

private_swap_claim_sighash(tx, x) ==
  IF validate_claim_transaction_shape(tx) /\ validate_claim_policy(tx, x) /\ validate_claim_output(tx)
  THEN Some(tx.id) ELSE None

swap_session_id(commitment, tx, key_id, adaptor_point) ==
  [flow |-> "swap", commitment |-> commitment, about |-> <<tx.id, key_id, adaptor_point>>]

validate_presign_request(m) ==
  /\ m.token # None /\ m.adaptor_point # 0
  /\ m.session = swap_session_id(m.commitment, m.tx, m.key_id, m.adaptor_point)

validate_complete_request(m) == m.token # None /\ m.adaptor_point # 0

-----------------------------------------------------------------------------
(* The host. *)

Init ==
  /\ scene \in Scenes
  /\ asks = {} /\ net = {} /\ dev = None /\ drawn = 0 /\ released = {} /\ spliced = 0

Send(m) == net' = net \cup {m}

\* Tokens the host has received for a script under a key.
Tokens(type, key_id, script) ==
  { m.token : m \in { b \in net : b.type = type /\ b.key_id = key_id /\ b.script = script } }

encode_request(doc, secret) ==
  LET digest == transaction_digest(doc) IN
  [type |-> "tx_request", session |-> session_id(host_commitment(secret), digest),
   commitment |-> host_commitment(secret), digest |-> digest, doc |-> doc]

AskTx(req, secret) ==
  /\ req.flow = "tx"
  /\ LET m == encode_request(req.doc, secret) IN
     /\ asks' = asks \cup {[req |-> req, secret |-> secret, session |-> m.session]}
     /\ Send(m)

\* The host of a covenant commitment chooses the session's name.
AskCovenant(req, secret) ==
  /\ req.flow = "covenant"
  /\ \E token \in Tokens("covenant_binding", req.q.key_id[1], req.q.script[1]) :
       LET session == [flow |-> "covenant", commitment |-> host_commitment(secret),
                       about |-> <<Cardinality(asks)>>]
           q == [req.q EXCEPT !.token = token]
       IN /\ validate_fields(q)
          /\ asks' = asks \cup {[req |-> req, secret |-> secret, session |-> session]}
          /\ Send([type |-> "covenant_request", session |-> session,
                   commitment |-> host_commitment(secret), q |-> q])

AskSwap(req, secret) ==
  /\ req.flow = "swap"
  /\ \E token \in Tokens("swap_binding", req.key_id, req.tx.script[1]) :
       LET m == [type |-> "swap_request",
                 session |-> swap_session_id(host_commitment(secret), req.tx, req.key_id,
                                             req.adaptor_point),
                 commitment |-> host_commitment(secret), key_id |-> req.key_id, token |-> token,
                 adaptor_point |-> req.adaptor_point, tx |-> req.tx]
       IN /\ asks' = asks \cup {[req |-> req, secret |-> secret, session |-> m.session]}
          /\ Send(m)

HostAsks(req, secret) ==
  /\ Cardinality(asks) < MaxAsks
  /\ AskTx(req, secret) \/ AskCovenant(req, secret) \/ AskSwap(req, secret)
  /\ UNCHANGED <<scene, dev, drawn, released, spliced>>

\* The host reveals its secret once it likes the commitment to the nonces.
nonce_response_valid(m) == m.token # None /\ m.nonce_point[1] = 2

HostReveals(ask, m) ==
  /\ m.session = ask.session
  /\ \/ /\ m.type = "tx_commitment" /\ validate_host_commitment(ask.req.doc, m.records)
        /\ Send([type |-> "tx_reveal", session |-> m.session, secret |-> ask.secret])
     \/ /\ m.type = "covenant_nonce" /\ nonce_response_valid(m)
        /\ Send([type |-> "covenant_reveal", session |-> m.session, key_id |-> m.key_id,
                 message |-> m.message, secret |-> ask.secret])
     \/ /\ m.type = "swap_nonce" /\ m.token # None
        /\ Send([type |-> "swap_reveal", session |-> m.session, key_id |-> m.key_id,
                 message |-> m.message, secret |-> ask.secret])
  /\ UNCHANGED <<scene, asks, dev, drawn, released, spliced>>

-----------------------------------------------------------------------------
(* The device. *)

Respond(session, answer) ==
  /\ dev' = Some(session)
  /\ drawn' = IF session.aux > drawn THEN session.aux ELSE drawn
  /\ Send(answer)
  /\ UNCHANGED <<scene, asks, released, spliced>>

\* Fresh entropy, or the signers that take none.
Entropy == {0} \cup (IF drawn < MaxDraws THEN {drawn + 1} ELSE {})

validate_request_binding(m) ==
  m.digest = transaction_digest(m.doc) /\ m.session = session_id(m.commitment, m.digest)

SignTx(m, aux) ==
  LET counts == initial_signature_counts(m.doc)
      signed == sign_transaction(m.doc, aux)
      recs   == nonce_commitment_records(signed.v, counts)
  IN /\ m.type = "tx_request" /\ validate_request_binding(m)
     /\ signed.err = "" /\ recs.err = ""
     /\ Respond([session |-> m.session, commitment |-> m.commitment, aux |-> aux, tries |-> 0,
                 doc |-> signed.v, counts |-> counts, digest |-> m.digest],
                [type |-> "tx_commitment", session |-> m.session, digest |-> m.digest,
                 records |-> recs.v])

provisional_covenant_signature(instance, message, aux) ==
  schnorr_sign_with_aux_rand(derive_covenant_key(instance), message, aux)

\* The script and the token are checked before anything is committed to.
SignCovenant(m, aux) ==
  LET q   == m.q
      key == q.key_id[1]
      sig == provisional_covenant_signature(key, q.commitment[1], aux)
  IN /\ m.type = "covenant_request" /\ validate_fields(q) /\ ScriptAgrees(q)
     /\ covenant_binding_matches(key, q.script[1], q.token)
     /\ sig.err = ""
     /\ Respond([session |-> m.session, commitment |-> m.commitment, aux |-> aux, tries |-> 0,
                 key_id |-> key, message |-> q.commitment[1], sig |-> sig.v, token |-> q.token],
                [type |-> "covenant_nonce", session |-> m.session, key_id |-> key,
                 x |-> covenant_public_key(key), token |-> q.token,
                 message |-> q.commitment[1], nonce_point |-> provisional_nonce_point(sig.v)])

PreSign(m, aux) ==
  LET x       == private_swap_public_key(m.key_id)
      sighash == private_swap_claim_sighash(m.tx, x)
      nonce   == adaptor_base_nonce_point(derive_private_swap_claim_key(m.key_id), sighash[1],
                                          m.adaptor_point, SessionNumber(m.session), aux)
  IN /\ m.type = "swap_request" /\ validate_presign_request(m)
     /\ sighash # None
     /\ m.token = private_swap_binding_token(m.key_id, m.tx.script[1])
     /\ nonce.err = ""
     /\ Respond([session |-> m.session, commitment |-> m.commitment, aux |-> aux, tries |-> 0,
                 key_id |-> m.key_id, message |-> sighash[1], adaptor_point |-> m.adaptor_point,
                 token |-> m.token],
                [type |-> "swap_nonce", session |-> m.session, key_id |-> m.key_id, x |-> x,
                 token |-> m.token, adaptor_point |-> m.adaptor_point, message |-> sighash[1],
                 nonce_point |-> nonce.v])

\* A new request replaces the session in hand.
DeviceSigns(m, aux) == SignTx(m, aux) \/ SignCovenant(m, aux) \/ PreSign(m, aux)

\* A signature leaves the device with the nonce it was first made with, for a script
\* that names these keys.
Released(base, x, keys, message, sig, session, secret) ==
  [base |-> base, x |-> x, keys |-> keys, message |-> message, sig |-> sig, session |-> session,
   secret |-> secret]

FinalSlots(d, doc, secret) ==
  { LET at == Added(doc, d.counts)[n]
        slot == Slot(doc, at)
        message == calculate_sighash(doc, at[1])
    IN Released(<<slot.pk, message, d.aux>>, slot.pk[2], doc.inputs[at[1]].keys, message,
                [r |-> slot.r, s |-> slot.s], d.session, secret)
    : n \in DOMAIN Added(doc, d.counts) }

Answered(out, answer) ==
  /\ dev' = None
  /\ released' = released \cup out
  /\ Send(answer)
  /\ UNCHANGED <<scene, asks, drawn, spliced>>

Reveals(m, type) ==
  /\ m.type = type /\ dev # None
  /\ m.session = dev[1].session
  /\ verify_host_secret(dev[1].commitment, m.secret)

\* The caller names the accounts to sign with; a slot none of them has the key of
\* is an error, and the slots before it stay finalized in the document.
FinalizeTx(m, keys) ==
  LET d == dev[1]
      f == finalize_matching(d.doc, d.counts, m.session, m.secret, keys)
  IN /\ Reveals(m, "tx_reveal")
     /\ \/ /\ f.err = ""
           /\ Answered(FinalSlots(d, f.doc, m.secret),
                       [type |-> "tx_signed", session |-> m.session, digest |-> d.digest,
                        proofs |-> proof_records(f.doc, d.counts), doc |-> Wire(f.doc),
                        retried |-> d.tries > 0])
        \/ /\ f.err # "" /\ d.tries = 0
           /\ dev' = Some([d EXCEPT !.doc = f.doc, !.tries = 1])
           /\ UNCHANGED <<scene, asks, net, drawn, released, spliced>>

finalize_covenant_signature(d, secret) ==
  tweak_provisional_signature(derive_covenant_key(d.key_id), d.message, d.sig,
                              SessionNumber(d.session), secret, 0, 0)

FinalizeCovenant(m) ==
  LET d == dev[1]
      x == covenant_public_key(d.key_id)
      f == finalize_covenant_signature(d, m.secret)
  IN /\ Reveals(m, "covenant_reveal") /\ m.key_id = d.key_id /\ m.message = d.message
     /\ f.err = ""
     /\ Answered({Released(<<Even(x), d.message, d.aux>>, x, <<x>>, d.message, f.v, d.session, m.secret)},
                 [type |-> "covenant_signature", session |-> d.session, key_id |-> d.key_id, x |-> x,
                  token |-> d.token, message |-> d.message,
                  nonce_point |-> provisional_nonce_point(d.sig), sig |-> f.v])

FinalizeSwap(m) ==
  LET d == dev[1]
      k == derive_private_swap_claim_key(d.key_id)
      n == SessionNumber(d.session)
      f == create_adaptor_presignature(k, d.message, d.adaptor_point, n, d.aux, m.secret)
  IN /\ Reveals(m, "swap_reveal") /\ m.key_id = d.key_id /\ m.message = d.message
     /\ f.err = ""
     /\ Answered({Released(<<Even(PointX(k)), d.message, d.aux, d.adaptor_point, d.session>>, PointX(k),
                           <<PointX(k)>>, d.message, f.v, d.session, m.secret)},
                 [type |-> "swap_presig", session |-> d.session, key_id |-> d.key_id, x |-> PointX(k),
                  token |-> d.token, adaptor_point |-> d.adaptor_point, message |-> d.message,
                  nonce_point |-> adaptor_base_nonce_point(k, d.message, d.adaptor_point, n, d.aux).v,
                  presig |-> f.v])

DeviceFinalizes(m) ==
  \/ \E keys \in { KeysOf(accounts) : accounts \in SUBSET Accounts } \cup { {k} : k \in DeviceKeys } :
       FinalizeTx(m, keys)
  \/ FinalizeCovenant(m)
  \/ FinalizeSwap(m)

\* Binding a script to an instance needs no session.
DeviceBinds(req) ==
  /\ \/ /\ req.flow = "covenant"
        /\ LET q == [req.q EXCEPT !.kind = "Bind", !.token = None,
                                  !.commitment = IF req.q.scheme = "None" THEN None ELSE @]
           IN /\ validate_fields(q) /\ ScriptAgrees(q)
              /\ Send([type |-> "covenant_binding", key_id |-> q.key_id[1], script |-> q.script[1],
                       x |-> covenant_public_key(q.key_id[1]),
                       token |-> covenant_binding_token(q.key_id[1], q.script[1])])
     \/ /\ req.flow = "swap" /\ req.tx.script # None
        /\ Send([type |-> "swap_binding", key_id |-> req.key_id, script |-> req.tx.script[1],
                 x |-> private_swap_public_key(req.key_id),
                 token |-> private_swap_binding_token(req.key_id, req.tx.script[1])])
  /\ UNCHANGED <<scene, asks, dev, drawn, released, spliced>>

complete_private_swap_adaptor_presignature(instance, presig) ==
  complete_adaptor_presignature(presig, private_swap_adaptor_secret_and_point(instance).v.secret)

\* The holder of an adaptor secret completes a pre-signature made for its point.
DeviceCompletes(m, instance) ==
  /\ m.type = "swap_presig" /\ validate_complete_request(m)
  /\ m.adaptor_point = private_swap_adaptor_secret_and_point(instance).v.x
  /\ verify_adaptor_presignature(m.x, m.message, m.presig, m.adaptor_point)
  /\ LET f == complete_private_swap_adaptor_presignature(instance, m.presig)
     IN /\ f.err = ""
        /\ Send([type |-> "swap_completed", key_id |-> instance, x |-> m.x,
                 message |-> m.message, sig |-> f.v])
  /\ UNCHANGED <<scene, asks, dev, drawn, released, spliced>>

Restart ==
  /\ dev # None
  /\ dev' = None
  /\ UNCHANGED <<scene, asks, net, drawn, released, spliced>>

-----------------------------------------------------------------------------
(* Transport: the header of one message meets the body of another of its kind. *)
(* Requests that carry their session's preimage cannot be mixed up.            *)

Splice(m, other) ==
  /\ spliced < MaxSplices
  /\ m.type = other.type
  /\ m.type \in {"tx_commitment", "tx_reveal", "tx_signed", "covenant_request", "covenant_nonce",
                 "covenant_reveal", "covenant_signature", "swap_nonce", "swap_reveal", "swap_presig"}
  /\ m.session # other.session
  /\ spliced' = spliced + 1
  /\ Send([m EXCEPT !.session = other.session])
  /\ UNCHANGED <<scene, asks, dev, drawn, released>>

Next ==
  \/ \E req \in scene, secret \in Secrets : HostAsks(req, secret)
  \/ \E ask \in asks, m \in net : "session" \in DOMAIN m /\ HostReveals(ask, m)
  \/ \E m \in net, aux \in Entropy : DeviceSigns(m, aux)
  \/ \E m \in net : DeviceFinalizes(m)
  \/ \E req \in scene : DeviceBinds(req)
  \/ \E m \in net, instance \in DOMAIN Hierarchy.adaptor : DeviceCompletes(m, instance)
  \/ Restart
  \/ \E m, other \in net : Splice(m, other)

Spec == Init /\ [][Next]_vars

-----------------------------------------------------------------------------
(* Properties *)

\* A script that names an address of the device at two positions.
NamedTwice(x, keys) ==
  /\ \A a \in Accounts : PointX(a.key) # x
  /\ \E p, q \in 1 .. Len(keys) : p # q /\ keys[p] = x /\ keys[q] = x

OneUse(a, b) ==
  /\ a.session = b.session /\ a.secret = b.secret
  /\ a.sig = b.sig \/ NamedTwice(a.x, a.keys)

\* Two final signatures made from one nonce give the private key away
\* (kspt/signing/anti_klepto/records.rs).  Whatever the host asks for again, the
\* device restarts through or signs without entropy, no nonce is used in two sessions
\* or with two host secrets, and it makes one signature, unless a script names an
\* address of the device twice (sign_multisig_position signs at both places).
NonceSignsOnce ==
  \A a, b \in released : a.base = b.base => OneUse(a, b)

\* What provisional_nonce (crypto/anti_klepto.rs) is there for: it recovers the nonce to
\* "refuse one that is not fresh", as one finalized twice gives the key away.
NonceIsFresh ==
  \A a, b \in released : a.base = b.base => a.sig = b.sig

OfType(type) == { m \in net : m.type = type }

\* A transcript the host accepts (verify_host_transcript) holds signatures the
\* device released in that very session for that very secret: damaged, repeated or
\* mixed-up messages and retried finalizations are never taken for an answer.
AcceptedIsAnswered ==
  \A ask \in asks, c \in OfType("tx_commitment"), s \in OfType("tx_signed") :
    ask.req.flow = "tx" /\ verify_host_transcript(ask.req.doc, c, s, ask.secret) =>
      \A n \in DOMAIN s.proofs :
        LET slot == Slot(s.doc, s.proofs[n]) IN
        \E rel \in released : /\ rel.sig = [r |-> slot.r, s |-> slot.s]
                              /\ rel.session = ask.session /\ rel.secret = ask.secret
                              /\ rel.message = calculate_sighash(ask.req.doc, s.proofs[n][1])

\* With undamaged messages, what the device finalized at the first try is accepted
\* under a commitment it sent for the session, in all three protocols, whatever the
\* parities of keys and nonces.
TranscriptsVerify ==
  spliced = 0 =>
    /\ \A s \in OfType("tx_signed") : ~s.retried =>
         \E ask \in asks, c \in OfType("tx_commitment") :
           ask.session = s.session /\ verify_host_transcript(ask.req.doc, c, s, ask.secret)
    /\ \A s \in OfType("covenant_signature") :
         /\ schnorr_verify(s.x, s.message, s.sig)
         /\ \E ask \in asks : ask.session = s.session /\
              verify_nonce_relation(s.nonce_point, s.sig, SessionNumber(s.session), ask.secret,
                                    0, 0, Even(s.x))
    /\ \A s \in OfType("swap_presig") :
         \E ask \in asks : ask.session = s.session /\
           verify_host_nonce_relation(s.x, s.message, s.adaptor_point, SessionNumber(s.session),
                                      ask.secret, s.nonce_point, s.presig)

\* Every pre-signature the counterparty would accept completes, with the adaptor
\* secret, to a signature that spends the coin and gives the secret back to whoever
\* holds the pre-signature.
SwapsComplete ==
  \A p \in OfType("swap_presig"), i \in DOMAIN Hierarchy.adaptor :
    LET t == private_swap_adaptor_secret_and_point(i).v
        f == complete_adaptor_presignature(p.presig, t.secret)
    IN t.x = p.adaptor_point /\ verify_adaptor_presignature(p.x, p.message, p.presig, t.x) /\ f.v.s # 0
         => /\ schnorr_verify(p.x, p.message, f.v)
            /\ extract_adaptor_secret(f.v, p.presig) = Done(t.secret)

\* The device's own answers pass every check they are made for: the host accepts
\* the transcript (verify_host_transcript, verify_nonce_relation,
\* verify_host_nonce_relation) and the counterparty of a swap gets its coin.
AnswersVerify == TranscriptsVerify /\ SwapsComplete

\* Nothing the device signs in any protocol spends the coin of a swap without
\* giving the adaptor secret away.
NothingElseSpends ==
  \A ask \in asks, m \in OfType("covenant_signature") \cup OfType("swap_completed") :
    ask.req.flow = "swap" /\ schnorr_verify(private_swap_public_key(ask.req.key_id), ask.req.tx.id, m.sig)
      => \E p \in OfType("swap_presig") :
           LET e == extract_adaptor_secret(m.sig, p.presig)
           IN e.err = "" /\ PointX(e.v) = ask.req.adaptor_point

\* Nothing but an answer verifies: an accepted transcript was released in its own
\* session, and the coin of a swap (derive_private_swap_claim_key) is spent by a
\* completed pre-signature alone.
OnlyAnswersVerify == AcceptedIsAnswered /\ NothingElseSpends

==============================================================================
