----------------------------- MODULE Interchange -----------------------------
(***************************************************************************)
(* A transaction on its way between a host and its signers.                *)
(*                                                                         *)
(* The host holds a PSKT document, may edit it and shows it to its user.   *)
(* From there it goes one of two ways:                                     *)
(*   - to a standard signer, which reads the document, signs, and writes   *)
(*     the document again (module Pskt);                                   *)
(*   - as a compact KSPT (module Kspt) to a compact signer, which reads it *)
(*     and writes what it read.  The wire may be damaged on the way.       *)
(* What is signed and merged is module Cosign; here the question is        *)
(* whether everybody reads the same transaction.                           *)
(***************************************************************************)
EXTENDS Kspt

LOCAL INSTANCE FiniteSetsExt
LOCAL INSTANCE TLC

CONSTANTS
  Documents,        \* the documents the host may start with
  Network,          \* the wire code of the host's network
  Keys,             \* the keys of the standard signers
  MaxRewrites,      \* bound: times a standard signer writes the document
  MaxEdits,         \* bound: edits of the host
  Editable,         \* the documents the host edits
  Noise,            \* tokens a damaged wire may show
  Fragile           \* the documents whose wire is damaged

VARIABLES
  stage,      \* the step the document is at, see Next
  doc,        \* the document
  shown,      \* what the host shows its user of doc
  sent,       \* what the host relays of doc
  wire,       \* the compact KSPT on its way, None if there is none
  damaged,    \* whether it was damaged
  device,     \* the compact signer's reading of the wire, and the host's
  held,       \* the standard signer's reading of doc, and what it signed
  origin,     \* history: what doc was before a standard signer wrote it
  rewrites, edits

vars == <<stage, doc, shown, sent, wire, damaged, device, held, origin, rewrites, edits>>

(* shown, sent, device and held are None until the reader has read; then   *)
(* they are Some(result), a result itself being None when it refused.      *)
Accepted(reading) == reading # None /\ reading[1] # None

Got(reading) == reading[1][1]

Fresh(d) ==
  /\ stage' = "show" /\ doc' = d
  /\ shown' = None /\ sent' = None /\ wire' = None /\ device' = None /\ held' = None

Init ==
  /\ stage = "show" /\ doc \in Documents
  /\ shown = None /\ sent = None /\ wire = None /\ device = None /\ held = None
  /\ origin = None /\ damaged = FALSE /\ rewrites = 0 /\ edits = 0

-----------------------------------------------------------------------------
(* The host *)

(* parse_summary *)
Show ==
  /\ stage = "show"
  /\ shown' = Some(Review(doc, Network))
  /\ stage' = "relay"
  /\ UNCHANGED <<doc, sent, wire, damaged, device, held, origin, rewrites, edits>>

(* relay.rs encode_pskt: the transaction of the document, flagged complete *)
(* if it is, on the wire                                                   *)
Flagged(tx) == [flags |-> IF Complete(tx) THEN FLAG_SIGNED_OR_COMPLETE ELSE 0] @@ tx

EncodePskt(read) ==
  IF read = None THEN [tx |-> None, wire |-> None]
  ELSE [tx |-> Some(Flagged(read[1])), wire |-> Encode(Flagged(read[1]), MAX_INPUTS, MAX_PAYLOAD)]

Relay ==
  /\ stage = "relay"
  /\ LET e == EncodePskt(RelayRead(doc, Network, MAX_INPUTS, MAX_PAYLOAD))
     IN  /\ sent' = Some(e.tx) /\ wire' = e.wire
         /\ stage' = IF e.wire = None THEN "standard" ELSE "wire"
  /\ UNCHANGED <<doc, shown, damaged, device, held, origin, rewrites, edits>>

(* An edit makes another document, which nobody has read *)
Edit(result) ==
  /\ stage = "show" /\ edits < MaxEdits /\ doc \in Editable
  /\ result # None /\ Fresh(result[1])
  /\ edits' = edits + 1 /\ origin' = None
  /\ UNCHANGED <<damaged, rewrites>>

EditDerivation ==
  \E section \in {"inputs", "outputs"} : \E k \in DOMAIN doc[section][2] :
    Edit(AttachDerivation(doc, section, k, 1, MAX_HARDENED - 1))

EditSignature == \E key \in Keys : Edit(AttachSoleSignature(doc, key, SigFor(key)))

EditLane ==
  Edit(SetTxLane(doc, [k \in 1..SUBNETWORK_LEN |-> k], U64_MAX, 1, [k \in 1..MAX_PAYLOAD |-> k]))

EditPayload == Edit(SetPayload(doc, <<7>>))

EditOutput == Edit(Some(AppendOutput(doc, 1, <<OP_P2PK, 1>>)))

-----------------------------------------------------------------------------
(* The wire, and the compact signer *)

Replaced(w, p, token) == [w EXCEPT ![p] = token]
Inserted(w, p, token) == SubSeq(w, 1, p - 1) \o <<token>> \o SubSeq(w, p, Len(w))
Dropped(w, p) == SubSeq(w, 1, p - 1) \o SubSeq(w, p + 1, Len(w))
Doubled(w, p) == SubSeq(w, 1, p) \o SubSeq(w, p, Len(w))
Swapped(w, p) == [w EXCEPT ![p] = w[p + 1], ![p + 1] = w[p]]

Damage ==
  /\ stage = "wire" /\ ~damaged /\ doc \in Fragile
  /\ LET w == wire[1]
     IN  \E p \in DOMAIN w :
           \/ \E token \in Noise \ {w[p]} : wire' = Some(Replaced(w, p, token))
           \/ \E token \in Noise \ {w[p]} : wire' = Some(Inserted(w, p, token))
           \/ wire' = Some(Dropped(w, p))
           \/ wire' = Some(Doubled(w, p))
           \/ p < Len(w) /\ w[p] # w[p + 1] /\ wire' = Some(Swapped(w, p))
  /\ damaged' = TRUE
  /\ UNCHANGED <<stage, doc, shown, sent, device, held, origin, rewrites, edits>>

(* The wire as the host reads and writes it (compact/parser.rs), and as    *)
(* the signer does (parse_compact_kspt, serialize_compact_kspt).           *)
Readings(host, signer) ==
  [host |-> host, signer |-> signer,
   hostWire |-> IF host = None THEN None ELSE Encode(host[1], MAX_INPUTS, MAX_PAYLOAD),
   signerWire |-> IF signer = None THEN None
                  ELSE SerializeCompact(signer[1], MAX_INPUTS, MAX_PAYLOAD)]

BothReadings(host) == Readings(host, AcceptCompact(host, MAX_INPUTS, MAX_PAYLOAD))

ReadCompact ==
  /\ stage = "wire"
  /\ device' = Some(BothReadings(Decode(wire[1], MAX_INPUTS, MAX_PAYLOAD)))
  /\ stage' = IF damaged THEN "done" ELSE "standard"
  /\ UNCHANGED <<doc, shown, sent, wire, damaged, held, origin, rewrites, edits>>

-----------------------------------------------------------------------------
(* The standard signer *)

(* parse_pskt *)
ReadStandard ==
  /\ stage = "standard"
  /\ held' = Some(StdRead(doc))
  /\ stage' = IF held' = Some(None) \/ rewrites = MaxRewrites THEN "done" ELSE "sign"
  /\ UNCHANGED <<doc, shown, sent, wire, damaged, device, origin, rewrites, edits>>

(* The key signs every input whose script names it *)
SignsWith(key, i) ==
  LET keys == KeysOf(i) IN keys # None /\ \E k \in DOMAIN keys[1].keys : keys[1].keys[k] = key

MadeBy(key, tx) ==
  [k \in DOMAIN tx.inputs |->
     IF SignsWith(key, tx.inputs[k]) THEN key :> SigFor(key) ELSE <<>>]

SignStandard(key) ==
  /\ stage = "sign"
  /\ LET tx     == Got(held).tx
         signed == MoveKspSigsToPskt(tx, MadeBy(key, tx))
     IN  /\ signed # None /\ signed[1] # tx
         /\ held' = Some(Some([Got(held) EXCEPT !.tx = signed[1]]))
  /\ UNCHANGED <<stage, doc, shown, sent, wire, damaged, device, origin, rewrites, edits>>

(* serialize_pskt *)
WriteStandard ==
  /\ stage = "sign"
  /\ LET written == Serialize(Got(held))
     IN  written # None /\ Fresh(written[1])
  /\ origin' = Some([doc |-> doc, held |-> Got(held), sent |-> sent[1]])
  /\ rewrites' = rewrites + 1
  /\ UNCHANGED <<damaged, edits>>

(* What one reader makes of a document has no influence on another: they   *)
(* read it in one order, the host, the compact signer, the standard one.   *)
Next ==
  \/ Show \/ Relay
  \/ EditDerivation \/ EditSignature \/ EditLane \/ EditPayload \/ EditOutput
  \/ Damage \/ ReadCompact
  \/ ReadStandard \/ (\E key \in Keys : SignStandard(key)) \/ WriteStandard

Spec == Init /\ [][Next]_vars

-----------------------------------------------------------------------------
(* What of a transaction every reader has, in one form *)
Common(tx) ==
  [version |-> tx.version, locktime |-> tx.locktime, subnetwork |-> tx.subnetwork,
   gas |-> tx.gas, payload |-> tx.payload,
   inputs |-> [k \in DOMAIN tx.inputs |->
                 LET i == tx.inputs[k]
                 IN  [txid |-> i.txid, index |-> i.index, amount |-> i.amount, spk |-> i.spk,
                      sequence |-> i.sequence, sigops |-> i.sigops, redeem |-> i.redeem,
                      exec |-> i.exec]],
   outputs |-> [k \in DOMAIN tx.outputs |->
                  [amount |-> tx.outputs[k].amount, spk |-> tx.outputs[k].spk]]]

Bindings(tx) == [k \in DOMAIN tx.outputs |-> tx.outputs[k].covenant]

(* The document leaves the covenant of output 0 to the relay *)
Derived ==
  /\ doc.outputs[2] # <<>> /\ BindingOf(doc.outputs[2][1]) = None
  /\ PersistentRequested(doc.inputs[2])

(* The signer finds the path of each entry where the relay does.           *)
PathsInFront(o) == \A n \in DOMAIN Entries(o) : FirstPath(Entries(o)[n]) = OwnPath(Entries(o)[n])

(* A standard signer and the relay never read two transactions out of one  *)
(* document: when both accept it, every field a signature covers is the    *)
(* same, the output covenants too (but for the one the relay derives for a *)
(* persistent vault), no signature that came with the document is missing  *)
(* on either side, and a multisig hint the signer sees is the one relayed, *)
(* unless a member in front of it holds another path: the signer takes the *)
(* first path in the bytes, the relay the entry's own.  (A hint only tells *)
(* a device where to look for its key.)                                    *)
ReadersAgree ==
  Accepted(sent) /\ Accepted(held) =>
    LET s == Got(held).tx
        r == Got(sent)
    IN  /\ Common(s) = Common(r)
        /\ Derived \/ Bindings(s) = Bindings(r)
        /\ \A k \in DOMAIN s.inputs :
             /\ PathsInFront(doc.inputs[2][k]) /\ s.inputs[k].ms45 # None =>
                  s.inputs[k].ms45 = r.inputs[k].ms45
             /\ {r.inputs[k].sigs[j].bytes : j \in DOMAIN r.inputs[k].sigs}
                  \subseteq {s.inputs[k].sigs[key] : key \in DOMAIN s.inputs[k].sigs}
             /\ stage = "done" =>
                  Cardinality(DOMAIN s.inputs[k].sigs) = Len(r.inputs[k].sigs)
        /\ \A k \in DOMAIN s.outputs :
             PathsInFront(doc.outputs[2][k]) /\ s.outputs[k].ms45 # None =>
               s.outputs[k].ms45 = r.outputs[k].ms45

(* What a relayed transaction says beyond the signatures *)
Unsigned(tx) ==
  [tx EXCEPT !.flags = 0,
             !.inputs = [k \in DOMAIN tx.inputs |-> [tx.inputs[k] EXCEPT !.sigs = <<>>]]]

(* The members of each scope that the transaction itself holds, and may be *)
(* written in another form.                                                *)
Held(kind) ==
  CASE kind = "top" -> {"global", "inputs", "outputs"}
    [] kind = "global" -> {"version", "txVersion", "inputCount", "outputCount",
                           "fallbackLockTime", "subnetworkId", "gas", "txPayload"}
    [] kind = "input" -> {"utxoEntry", "previousOutpoint", "sighashType", "sequence",
                          "partialSigs", "redeemScript", "sigOpCount", "covenantExecution"}
    [] kind = "utxo" -> {"amount", "scriptPublicKey", "blockDaaScore"}
    [] kind = "outpoint" -> {"transactionId", "index"}
    [] kind = "output" -> {"amount", "scriptPublicKey", "covenantBinding"}

Survives(old, new) ==
  \A s \in Scopes(old) :
    LET a == ScopeObject(old, s)
    IN  \A f \in DOMAIN a \ Held(s.kind) :
          (s.kind = "input" /\ f = "bip32Derivations" /\ a[f][2] = <<>>)
            \/ Get(ScopeObject(new, s), f) = a[f]

(* A standard signer that writes the document again adds its signatures    *)
(* and loses nothing: every other member of the document, known to it or   *)
(* not, is as it was; read again, it is the transaction the signer had;    *)
(* and a relay that took the document before takes it now, the same        *)
(* transaction with every hint it found.  (It may also be refused: the     *)
(* writer adds entries that the reader counts against its limit.)          *)
RewriteKeeps ==
  origin # None =>
    /\ Survives(origin[1].doc, doc)
    /\ Accepted(held) /\ stage = "done" => Got(held).tx = origin[1].held.tx
    /\ origin[1].sent # None /\ sent # None =>
         /\ Accepted(sent)
         /\ Unsigned(Got(sent)) = Unsigned(origin[1].sent[1])

(* A compact wire has one form.  Whatever wire a reader accepts, damaged   *)
(* or not, is exactly the wire it writes for the transaction it read; an   *)
(* undamaged one reads as the transaction that was relayed, and the signer *)
(* takes it whenever that transaction is valid and says rightly whether it *)
(* is complete.                                                            *)
WireIsCanonical ==
  device # None =>
    LET d == device[1]
    IN  /\ d.host # None => d.hostWire = wire
        /\ d.signer # None => d.signerWire = wire /\ d.signer = d.host
        /\ ~damaged =>
             /\ d.host = sent[1]
             /\ ValidPartialSigned(Got(sent), MAX_INPUTS, MAX_PAYLOAD)
                  /\ (Got(sent).flags = FLAG_SIGNED_OR_COMPLETE) = FullySigned(Got(sent))
                  => d.signer # None

(* What the user is shown is what a signer has before it, whichever way    *)
(* the document goes: the coins, the payments, the fee, and the output a   *)
(* derivation hint calls the user's own.                                   *)
Pays(summary, tx) ==
  /\ summary.version = tx.version
  /\ summary.fee = InputTotal(tx) - OutputTotal(tx)
  /\ Len(summary.inputs) = Len(tx.inputs) /\ Len(summary.outputs) = Len(tx.outputs)
  /\ \A k \in DOMAIN tx.inputs :
       LET a == summary.inputs[k]
           b == tx.inputs[k]
       IN  /\ <<a.txid, a.index, a.amount>> = <<b.txid, b.index, b.amount>>
           /\ a.script = b.spk.script /\ a.redeem = b.redeem
  /\ \A k \in DOMAIN tx.outputs :
       /\ summary.outputs[k].amount = tx.outputs[k].amount
       /\ summary.outputs[k].script = tx.outputs[k].spk.script

ShownIsSigned ==
  Accepted(shown) =>
    /\ Accepted(held) => Pays(Got(shown), Got(held).tx)
    /\ device # None /\ ~damaged =>
         LET tx == device[1].signer
         IN  tx # None =>
               /\ Pays(Got(shown), tx[1])
               /\ Got(shown).ready = (tx[1].flags = FLAG_SIGNED_OR_COMPLETE)
               /\ \A k \in DOMAIN tx[1].outputs :
                    Got(shown).outputs[k].derivation = tx[1].outputs[k].derivation

\* The signer, the relay and the review read one transaction: both of the above.
OneReading == ReadersAgree /\ ShownIsSigned

\* A document keeps its meaning between readers and across rewrites: both of
\* OneReading and RewriteKeeps.
OneMeaning == OneReading /\ RewriteKeeps
=============================================================================
