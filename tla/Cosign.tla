------------------------------- MODULE Cosign -------------------------------
(***************************************************************************)
(* Co-signing a transaction, transaction/interchange/{kspt,pskt}: a host   *)
(* keeps a PSKT and relays it as a compact KSPT to signing devices; the    *)
(* signed KSPTs come back in any order, late, more than once or never, and *)
(* are merged into the PSKT until it can be finalized.                     *)
(*                                                                         *)
(* A signature is the key, transaction, input and nonce it was made with   *)
(* and verifies exactly for them.  `tx` stands for everything the sighash  *)
(* commits to, `hint` for the derivation hints, which it does not.  An     *)
(* input is what its scripts say: the keys in script order and             *)
(*   p2pk       one key;                                                   *)
(*   multisig   a threshold m; `ms45` says that the KSPT carries a         *)
(*              multisig derivation hint for it;                           *)
(*   covenant   covenantExecution absent, partial or full (`exec`), the    *)
(*              positions in the branches it selects (`active`), whether   *)
(*              trace_witness finds a generic plan (`plan`) and the order  *)
(*              in which its path consumes signatures (`path`).            *)
(* A device holds seeds (the keys behind each of their derivations) and    *)
(* possibly a raw key, and signs deterministically or with fresh entropy.  *)
(***************************************************************************)
EXTENDS Naturals, Sequences, FiniteSets, SequencesExt

CONSTANTS Templates,  \* sequences of inputs, one of which is signed
          Devices,    \* set of [seeds, raw, entropy]
          Keys, NoKey,
          Txs,        \* contents the transaction can be edited to
          FirstTx,    \* its content in the beginning
          Nonces,     \* results of fresh entropy
          MAX_SIGS,   \* MAX_SIGNATURE_RECORDS = MAX_SIGS_PER_INPUT
          MaxDocs,    \* bound: KSPTs in circulation
          MaxEdits    \* bound: edits of the PSKT

Hints == {"none", "right", "wrong"}

(* The scripts of an input.  A generic path of a covenant consumes one     *)
(* signature for each key in the branches it selects.                      *)
IsInput(inp) ==
  /\ inp.kind \in {"p2pk", "multisig", "covenant"} /\ inp.keys \in Seq(Keys)
  /\ inp.kind = "p2pk" => Len(inp.keys) = 1
  /\ inp.kind = "covenant" => inp.active \subseteq DOMAIN inp.keys
  /\ inp.kind = "covenant" /\ inp.exec = "full" /\ inp.plan =>
       /\ inp.path \in Seq(inp.active) /\ IsInjective(inp.path)
       /\ Range(inp.path) = inp.active

(* The nonce of a deterministic signature is 0. *)
ASSUME CosignAssumption ==
  /\ NoKey \notin Keys
  /\ FirstTx \in Txs
  /\ 0 \notin Nonces
  /\ MAX_SIGS \in Nat \ {0}
  /\ \A T \in Templates : \A i \in DOMAIN T : IsInput(T[i])
  /\ \A dev \in Devices : Len(dev.seeds) \in Nat

VARIABLES inputs,  \* the template of this behaviour, never changed
          host,    \* PSKT: [tx, hint, sigs], sigs[i] a map of keys to signatures
          docs,    \* compact KSPTs: [tx, hint, sigs, flag], sigs[i] a list
          edits

vars == <<inputs, host, docs, edits>>

Sig(key, tx, i, nonce) == [key |-> key, tx |-> tx, input |-> i, nonce |-> nonce]

(* An entry of partialSigs, and a signature record of a compact KSPT. *)
Partial(key, sig) == [pub |-> key, sig |-> sig]

Record(pos, sig) == [pos |-> pos, sig |-> sig]

(* The members of P up to n, sorted. *)
Ascending(P, n) ==
  LET up[i \in 0 .. n] ==
        IF i = 0 THEN <<>> ELSE IF i \in P THEN Append(up[i - 1], i) ELSE up[i - 1]
  IN  up[n]

-----------------------------------------------------------------------------
(* Host: verification, pipeline/compact/verify.rs *)

InBranch(inp, pos) ==
  inp.kind = "covenant" /\ inp.exec # "absent" => pos \in inp.active

(* bound_public_key and verify_bip340 *)
Verifies(inp, i, tx, r) ==
  /\ r.pos \in DOMAIN inp.keys
  /\ InBranch(inp, r.pos)
  /\ r.sig.key = inp.keys[r.pos] /\ r.sig.tx = tx /\ r.sig.input = i

DistinctPositions(rs) ==
  \A j, k \in DOMAIN rs : rs[j].pos = rs[k].pos => j = k

(* verify_input_signatures *)
VerifyInput(inp, i, tx, rs) ==
  /\ DistinctPositions(rs)
  /\ \A k \in DOMAIN rs : Verifies(inp, i, tx, rs[k])

(* verify_all_signatures *)
VerifyAll(tx, sigs) ==
  \A i \in DOMAIN inputs : VerifyInput(inputs[i], i, tx, sigs[i])

(* The number of signatures is the one required_signature_count returns. *)
HasRequired(inp, rs) ==
  \/ inp.kind = "p2pk" /\ Len(rs) = 1
  \/ inp.kind = "multisig" /\ Len(rs) = inp.m
  \/ /\ inp.kind = "covenant" /\ inp.exec = "full" /\ inp.plan
     /\ Len(rs) = Len(inp.path)

(* verified_complete stops at the first input that is not complete, with   *)
(* an error if an earlier one does not verify.                             *)
VerifiedComplete(tx, sigs) ==
  LET open   == {i \in DOMAIN inputs : ~HasRequired(inputs[i], sigs[i])}
      before == {i \in DOMAIN inputs : \A o \in open : i < o}
  IN  IF \E i \in before : ~VerifyInput(inputs[i], i, tx, sigs[i]) THEN "err"
      ELSE IF open = {} THEN "yes" ELSE "no"

-----------------------------------------------------------------------------
(* Host: relay, pipeline/relay.rs and relay_fields/signatures.rs *)

PositionsOf(inp, key) ==
  {p \in DOMAIN inp.keys : inp.keys[p] = key /\ InBranch(inp, p)}

(* collect_signatures succeeds *)
Collectable(inp, partials) ==
  /\ inp.kind = "p2pk" => Cardinality(partials) <= 1
  /\ \A s \in partials : Cardinality(PositionsOf(inp, s.pub)) = 1

(* sorted by position *)
Collect(inp, partials) ==
  LET at(p) == CHOOSE s \in partials : p \in PositionsOf(inp, s.pub)
      order == Ascending(UNION {PositionsOf(inp, s.pub) : s \in partials}, Len(inp.keys))
  IN  [k \in DOMAIN order |-> Record(order[k], at(order[k]).sig)]

Collected(h) == [i \in DOMAIN inputs |-> Collect(inputs[i], h.sigs[i])]

(* encode_pskt succeeds *)
Encodable(h) ==
  /\ \A i \in DOMAIN inputs :
       Collectable(inputs[i], h.sigs[i]) /\ Cardinality(h.sigs[i]) <= MAX_SIGS
  /\ VerifiedComplete(h.tx, Collected(h)) # "err"

encode_pskt(h) ==
  [tx |-> h.tx, hint |-> h.hint, sigs |-> Collected(h),
   flag |-> VerifiedComplete(h.tx, Collected(h)) = "yes"]

-----------------------------------------------------------------------------
(* Device: verification, transaction/signature_verification *)

(* required_for_input, compared with the number of verified signatures *)
DeviceHasRequired(inp, rs) ==
  \/ inp.kind = "p2pk" /\ Len(rs) = 1
  \/ inp.kind = "multisig" /\ Len(rs) = inp.m
  \/ /\ inp.kind = "covenant" /\ inp.exec = "full"
     /\ Cardinality(inp.active) \in 1 .. MAX_SIGS /\ Len(rs) = Cardinality(inp.active)

(* verified_kspt_count succeeds; a covenant needs every selector assigned *)
DeviceVerify(inp, i, tx, rs) ==
  /\ VerifyInput(inp, i, tx, rs)
  /\ inp.kind = "covenant" /\ rs # <<>> => inp.exec = "full"

IsFullySigned(tx, sigs) ==
  \A i \in DOMAIN inputs :
    DeviceHasRequired(inputs[i], sigs[i]) /\ DeviceVerify(inputs[i], i, tx, sigs[i])

(* parse_compact_kspt succeeds *)
ParseOk(d) ==
  /\ d.flag = IsFullySigned(d.tx, d.sigs)
  /\ \A i \in DOMAIN inputs : DistinctPositions(d.sigs[i]) /\ Len(d.sigs[i]) <= MAX_SIGS

-----------------------------------------------------------------------------
(* Device: signing, kspt/signing *)

(* append_signature, also has_pubkey_position *)
AppendSignature(rs, r) ==
  IF (\E k \in DOMAIN rs : rs[k].pos = r.pos) \/ Len(rs) >= MAX_SIGS
  THEN rs ELSE Append(rs, r)

(* one after the other *)
AppendSignatures(rs, new) ==
  LET all[k \in 0 .. Len(new)] == IF k = 0 THEN rs ELSE AppendSignature(all[k - 1], new[k])
  IN  all[Len(new)]

(* account_positions and multisig_material: a seed whose account key is in *)
(* the script signs for that position only, another one for its addresses. *)
Holds(inp, seed, p) ==
  LET account == {q \in DOMAIN inp.keys : inp.keys[q] = seed.account}
  IN  IF account # {} THEN p = Min(account) ELSE inp.keys[p] \in seed.table

(* The positions a device signs for, in the order of its loops: by seed    *)
(* with a multisig hint (ms45.rs), by position without.                    *)
SigningOrder(inp, dev) ==
  IF inp.ms45
  THEN LET pos(s) == {p \in DOMAIN inp.keys : inp.keys[p] = dev.seeds[s].ms45}
           able   == Ascending({s \in DOMAIN dev.seeds : pos(s) # {}}, Len(dev.seeds))
       IN  [k \in DOMAIN able |-> Min(pos(able[k]))]
  ELSE Ascending({p \in DOMAIN inp.keys :
                    \E s \in DOMAIN dev.seeds : Holds(inp, dev.seeds[s], p)}, Len(inp.keys))

(* candidate_keys_for_input fails, and with it the whole call *)
CovenantRefused(inp, rs) ==
  inp.kind = "covenant" /\ rs = <<>> /\ ~(inp.exec = "full" /\ Cardinality(inp.active) = 1)

(* covenant_material, for the seeds that are active *)
CovenantHeld(seed, key) ==
  seed.account = key \/ key \in seed.table \/ key \in seed.kip22

(* sign_supported_input *)
SignSupported(inp, i, tx, rs, dev, only, nonce) ==
  LET sign(p) == Record(p, Sig(inp.keys[p], tx, i, nonce))
  IN  CASE inp.kind = "multisig" ->
             LET order == SigningOrder(inp, dev)
             IN  AppendSignatures(rs, [k \in DOMAIN order |-> sign(order[k])])
        [] inp.kind = "p2pk" ->
             IF rs = <<>> /\ \E s \in DOMAIN dev.seeds : inp.keys[1] \in dev.seeds[s].scan
             THEN <<sign(1)>> ELSE rs
        [] OTHER ->
             LET p == CHOOSE q \in inp.active : TRUE
             IN  IF rs = <<>> /\ \E s \in DOMAIN dev.seeds :
                       only \in {0, s} /\ CovenantHeld(dev.seeds[s], inp.keys[p])
                 THEN <<sign(p)>> ELSE rs

(* sign_account_input: a hint is followed, no hint means a search, and a   *)
(* stealth tweak is tried last.                                            *)
AccountHeld(seed, hint, key) ==
  \/ hint = "none" /\ key \in seed.scan
  \/ hint = "right" /\ key \in seed.scan \cup seed.far
  \/ key \in seed.stealth

(* The signatures each entry point leaves in the transaction: with all     *)
(* seeds (sign_transaction_multisig), from one account                     *)
(* (sign_transaction_multi_addr), with a raw key for every input           *)
(* (sign_transaction_in_place) or for its own                              *)
(* (sign_matching_inputs_in_place).  Only the first keeps what is there.   *)
SignedSigs(d, dev, route, only, nonce) ==
  [i \in DOMAIN inputs |->
    LET inp  == inputs[i]
        own  == IF route = "addr" THEN inp.keys[1] ELSE dev.raw
        mine == CASE route = "addr"    -> inp.kind = "p2pk" /\ AccountHeld(dev.seeds[1], d.hint[i], own)
                  [] route = "inplace" -> TRUE
                  [] OTHER             -> inp.kind = "p2pk" /\ inp.keys[1] = own
    IN  IF route = "multisig" THEN SignSupported(inp, i, d.tx, d.sigs[i], dev, only, nonce)
        ELSE IF mine THEN <<Record(1, Sig(own, d.tx, i, nonce))>> ELSE d.sigs[i]]

(* The entry point can be called and adds a signature; a covenant without  *)
(* a single active key fails the whole call of the first.                  *)
CanSign(d, dev, route, only, nonce) ==
  /\ route # "multisig" => only = 0
  /\ route = "matching" => dev.entropy
  /\ CASE route = "multisig" -> \A i \in DOMAIN inputs : ~CovenantRefused(inputs[i], d.sigs[i])
       [] route = "addr"     -> Len(dev.seeds) > 0
       [] OTHER              -> dev.raw # NoKey
  /\ SignedSigs(d, dev, route, only, nonce) # d.sigs

(* serialize_compact_kspt *)
SignedDoc(d, dev, route, only, nonce) ==
  LET sigs == SignedSigs(d, dev, route, only, nonce)
  IN  [d EXCEPT !.sigs = sigs, !.flag = IsFullySigned(d.tx, sigs)]

-----------------------------------------------------------------------------
(* Host: merge, pipeline/compact/merge.rs *)

SameBody(h, d) == d.tx = h.tx /\ d.hint = h.hint

(* the entries merge_p2pk, merge_multisig and merge_covenant insert *)
Bindings(inp, rs) == {Partial(inp.keys[rs[k].pos], rs[k].sig) : k \in DOMAIN rs}

(* Mutant: a second signature for a key replaces the first. *)
Mutant_LastWins(partials, new) == TRUE

(* insert_signature accepts them: the same bytes again, or a key not seen *)
Compatible(partials, new) ==
  \A s \in partials \cup new : \A n \in new : s.pub = n.pub => s.sig = n.sig

(* a map insert, bounded by MAX_SIGNATURE_RECORDS *)
Insert(partials, new) ==
  {s \in partials : \A n \in new : n.pub # s.pub} \cup new

(* validate_and_merge succeeds; it writes nothing unless every input does *)
MergeOk(h, d) ==
  /\ Encodable(h)
  /\ SameBody(h, d)
  /\ \E i \in DOMAIN inputs : d.sigs[i] # <<>>
  /\ VerifyAll(h.tx, Collected(h))
  /\ VerifyAll(d.tx, d.sigs)
  /\ \A i \in DOMAIN inputs :
       LET new == Bindings(inputs[i], d.sigs[i])
       IN  /\ inputs[i].kind = "p2pk" => Len(d.sigs[i]) <= 1
           /\ Compatible(h.sigs[i], new)
           /\ Cardinality(Insert(h.sigs[i], new)) <= MAX_SIGS

Merged(h, d) ==
  [h EXCEPT !.sigs =
     [i \in DOMAIN inputs |-> Insert(h.sigs[i], Bindings(inputs[i], d.sigs[i]))]]

-----------------------------------------------------------------------------
(* Finalization, pipeline/verified *)

(* Mutant: the records of a multisig input in the order they were added. *)
Mutant_Unsorted(inp, rs) ==
  LET at(p) == rs[CHOOSE j \in DOMAIN rs : rs[j].pos = p].sig
      order == IF inp.kind = "covenant" THEN Reverse(inp.path)
               ELSE [k \in DOMAIN rs |-> rs[k].pos]
  IN  [k \in DOMAIN order |-> at(order[k])]

(* witness_plan and materialize_signature_script: the pushed signatures.   *)
(* What a covenant consumes first is pushed last.                          *)
Witness(inp, rs) ==
  LET at(p) == rs[CHOOSE j \in DOMAIN rs : rs[j].pos = p].sig
      order == IF inp.kind = "covenant" THEN Reverse(inp.path)
               ELSE Ascending({rs[k].pos : k \in DOMAIN rs}, Len(inp.keys))
  IN  [k \in DOMAIN order |-> at(order[k])]

(* verify_complete_pskt succeeds *)
PsktFinal(h) ==
  /\ \A i \in DOMAIN inputs : Collectable(inputs[i], h.sigs[i])
  /\ VerifiedComplete(h.tx, Collected(h)) = "yes"

(* verify_complete_kspt succeeds; a covenant must go through its PSKT *)
KsptFinal(d) ==
  /\ d.flag
  /\ \A i \in DOMAIN inputs : inputs[i].kind # "covenant"
  /\ VerifiedComplete(d.tx, d.sigs) = "yes"

-----------------------------------------------------------------------------
Init ==
  /\ inputs \in Templates
  /\ host = [tx |-> FirstTx, hint |-> [i \in 0 .. Len(inputs) |-> "none"],
             sigs |-> [i \in DOMAIN inputs |-> {}]]
  /\ docs = {}
  /\ edits = 0

(* encode_pskt, and the KSPT is handed to signers *)
Export ==
  /\ Encodable(host)
  /\ Cardinality(docs \cup {encode_pskt(host)}) <= MaxDocs
  /\ docs' = docs \cup {encode_pskt(host)}
  /\ UNCHANGED <<inputs, host, edits>>

DeviceNonces(dev) == IF dev.entropy THEN Nonces ELSE {0}

(* a device parses a KSPT, signs and serializes it *)
Sign(d, dev, route, only, nonce) ==
  /\ ParseOk(d)
  /\ CanSign(d, dev, route, only, nonce)
  /\ LET signed == SignedDoc(d, dev, route, only, nonce)
     IN  /\ Cardinality(docs \cup {signed}) <= MaxDocs
         /\ docs' = docs \cup {signed}
  /\ UNCHANGED <<inputs, host, edits>>

(* sign_pskt: relay, sign and merge in one call *)
SignPskt(dev, route, only, nonce) ==
  /\ Encodable(host)
  /\ LET d == encode_pskt(host)
         s == SignedDoc(d, dev, route, only, nonce)
     IN  /\ ParseOk(d)
         /\ CanSign(d, dev, route, only, nonce)
         /\ MergeOk(host, s)
         /\ host' = Merged(host, s)
  /\ UNCHANGED <<inputs, docs, edits>>

(* merge_signed_kspt *)
Merge(d) ==
  /\ MergeOk(host, d)
  /\ host' = Merged(host, d)
  /\ UNCHANGED <<inputs, docs, edits>>

(* set_payload, set_tx_lane, append_output: the signatures stay *)
Edit(tx) ==
  /\ edits < MaxEdits
  /\ host' = [host EXCEPT !.tx = tx]
  /\ edits' = edits + 1
  /\ UNCHANGED <<inputs, docs>>

(* attach_input_derivation, attach_output_derivation (i = 0) *)
AttachDerivation(i, hint) ==
  /\ edits < MaxEdits
  /\ host' = [host EXCEPT !.hint[i] = hint]
  /\ edits' = edits + 1
  /\ UNCHANGED <<inputs, docs>>

(* attach_sole_signature, with a signature made elsewhere *)
AttachSole(pub, key) ==
  /\ edits < MaxEdits
  /\ Len(inputs) = 1 /\ host.sigs[1] = {}
  /\ host' = [host EXCEPT !.sigs[1] = {Partial(pub, Sig(key, host.tx, 1, 0))}]
  /\ edits' = edits + 1
  /\ UNCHANGED <<inputs, docs>>

Routes == {"multisig", "addr", "inplace", "matching"}

Next ==
  \/ Export
  \/ \E dev \in Devices : \E route \in Routes, nonce \in DeviceNonces(dev),
                            only \in 0 .. Len(dev.seeds) :
       \/ \E d \in docs : Sign(d, dev, route, only, nonce)
       \/ SignPskt(dev, route, only, nonce)
  \/ \E d \in docs : Merge(d)
  \/ \E tx \in Txs : Edit(tx)
  \/ \E i \in DOMAIN host.hint, hint \in Hints \ {"none"} : AttachDerivation(i, hint)
  \/ \E pub, key \in Keys : AttachSole(pub, key)

Spec == Init /\ [][Next]_vars

-----------------------------------------------------------------------------
(* Properties *)

Signatures == [key : Keys, tx : Txs, input : DOMAIN inputs, nonce : Nonces \cup {0}]

(* The PSKT is a map of keys to signatures and every KSPT has at most one  *)
(* record for a position and at most MAX_SIGS of them.                     *)
TypeOK ==
  /\ inputs \in Templates
  /\ host.tx \in Txs /\ host.hint \in [0 .. Len(inputs) -> Hints]
  /\ host.sigs \in [DOMAIN inputs -> SUBSET [pub : Keys, sig : Signatures]]
  /\ \A i \in DOMAIN inputs : \A s, t \in host.sigs[i] : s.pub = t.pub => s = t
  /\ \A d \in docs :
       /\ d.tx \in Txs /\ d.flag \in BOOLEAN
       /\ \A i \in DOMAIN inputs :
            /\ DistinctPositions(d.sigs[i]) /\ Len(d.sigs[i]) <= MAX_SIGS
            /\ \A k \in DOMAIN d.sigs[i] :
                 d.sigs[i][k].pos \in Nat /\ d.sigs[i][k].sig \in Signatures
  /\ edits \in Nat

(* Consensus: what the script of an input accepts, read from the top of    *)
(* the stack for a covenant and in key order for CHECKMULTISIG.            *)
Spends(inp, i, tx, w) ==
  LET good(sig, p) == sig.key = inp.keys[p] /\ sig.tx = tx /\ sig.input = i
  IN  CASE inp.kind = "p2pk" -> Len(w) = 1 /\ good(w[1], 1)
        [] inp.kind = "multisig" ->
             /\ Len(w) = inp.m
             /\ \E f \in [1 .. inp.m -> DOMAIN inp.keys] :
                  /\ \A j, k \in 1 .. inp.m : j < k => f[j] < f[k]
                  /\ \A k \in 1 .. inp.m : good(w[k], f[k])
        [] OTHER ->
             /\ Len(w) = Len(inp.path)
             /\ \A k \in DOMAIN w : good(w[Len(w) - k + 1], inp.path[k])

(* Whatever is finalized, from a PSKT or from a KSPT a device returned, is *)
(* accepted by the scripts it spends: after any relay between devices and  *)
(* any edit, no stale, misplaced or unordered signature gets through.      *)
FinalIsSpendable ==
  /\ PsktFinal(host) =>
       \A i \in DOMAIN inputs :
         Spends(inputs[i], i, host.tx, Witness(inputs[i], Collected(host)[i]))
  /\ \A d \in docs : KsptFinal(d) =>
       \A i \in DOMAIN inputs :
         Spends(inputs[i], i, d.tx, Witness(inputs[i], d.sigs[i]))

(* The covenants on which host and device can disagree: no generic plan    *)
(* for the path, selectors missing, or a path without a key.               *)
Ordinary ==
  \A i \in DOMAIN inputs :
    inputs[i].kind = "covenant" =>
      inputs[i].exec = "full" /\ inputs[i].plan /\ inputs[i].active # {}

(* The host's and the device's completeness checks, written twice, agree   *)
(* on every KSPT either of them issued, so a device can always parse it.   *)
FlagsAgree ==
  Ordinary => \A d \in docs :
    /\ d.flag = (VerifiedComplete(d.tx, d.sigs) = "yes")
    /\ ParseOk(d)

(* What is finalized can be spent, and host and device agree on when that  *)
(* is: both of the above.                                                  *)
FinalizationIsSound == FinalIsSpendable /\ FlagsAgree

(* No key stands twice in the branch that is spent: with a key that does,  *)
(* a merged PSKT is not relayed any more.                                  *)
Unambiguous ==
  \A i \in DOMAIN inputs : \A p \in DOMAIN inputs[i].keys :
    InBranch(inputs[i], p) => PositionsOf(inputs[i], inputs[i].keys[p]) = {p}

(* There are no more keys than a KSPT has signature records. *)
Roomy == \A i \in DOMAIN inputs : Len(inputs[i].keys) <= MAX_SIGS

(* Two returned KSPTs can be merged in either order, with the same result: *)
(* the order in which cosigners answer does not matter.                    *)
MergeCommutes ==
  Unambiguous =>
  \A a, b \in docs :
    MergeOk(host, a) /\ MergeOk(Merged(host, a), b) =>
      /\ MergeOk(host, b) /\ MergeOk(Merged(host, b), a)
      /\ Merged(Merged(host, a), b) = Merged(Merged(host, b), a)

Deterministic(d) ==
  \A i \in DOMAIN inputs :
    /\ \A k \in DOMAIN d.sigs[i] : d.sigs[i][k].sig.nonce = 0
    /\ \A s \in host.sigs[i] : s.sig.nonce = 0

Answers(d) ==
  /\ SameBody(host, d) /\ VerifyAll(d.tx, d.sigs)
  /\ \E i \in DOMAIN inputs : d.sigs[i] # <<>>

Intact(h) == Encodable(h) /\ VerifyAll(h.tx, Collected(h))

(* With deterministic signers a KSPT of the current transaction can be     *)
(* merged whenever it arrives, again too: a retry never fails.             *)
RetryMerges ==
  Roomy =>
  \A d \in docs : (Deterministic(d) /\ Answers(d) /\ Intact(host)) => MergeOk(host, d)

(* Answers of cosigners may arrive in any order and again: merging commutes *)
(* and a repeated answer is accepted.                                      *)
MergeIsOrderFree == MergeCommutes /\ RetryMerges

(* No operation drops a signature the PSKT already holds. *)
SignaturesKept ==
  [][\A i \in DOMAIN inputs : host.sigs[i] \subseteq host'.sigs[i]]_vars
=============================================================================
