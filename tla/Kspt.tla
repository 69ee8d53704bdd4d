-------------------------------- MODULE Kspt --------------------------------
(***************************************************************************)
(* The compact KSPT envelope, transaction/interchange/kspt: the grammar    *)
(* (wire/), the device's reader and writer of it (codec/, validation.rs)   *)
(* and the host's reader (pskt/pipeline/compact/parser.rs).                *)
(*                                                                         *)
(* A wire is a sequence of tokens.  A token is one byte of a string, or    *)
(* one number, whose width the reader checks: counts and lengths are data, *)
(* so a wrong one makes the reader take the rest for something else.       *)
(* Magic and version are one token each.  A signature is one token, valid  *)
(* for the key it was made with: what it signs is module Cosign.           *)
(*                                                                         *)
(* A transaction is what BuildTransaction of PsktRelay builds, and flags.  *)
(***************************************************************************)
EXTENDS PsktRelay

LOCAL INSTANCE SequencesExt
LOCAL INSTANCE TLC

CONSTANTS EXTENDED_SCRIPT_LENGTH,  \* 0xff, the mark of a long script
          MAX_POSITION             \* u8::MAX, the last position a trailer names

MAGIC == 75
KSPT_VERSION == 1
FLAG_SIGNED_OR_COMPLETE == 1
BYTE_MAX == 255
OP_P2SH == 170

SIGHASHES == {1, 2, 4, 129, 130, 132}
NETWORKS == 1..4

ValidDerivation(d) == d[1] <= 1 /\ d[2] < MAX_HARDENED
ValidMs45(d) == d[1] < MAX_HARDENED /\ d[2] <= 1 /\ d[3] < MAX_HARDENED
ValidExecution(e) == SubMask(e.truth, e.mask)

(* The trailer markers and, in marker_rank's order, what follows each.     *)
NETWORK == 78
MS45_INPUT == 73
MS45_OUTPUT == 79
STEALTH == 83
COVENANT == 67
COVENANT_EXECUTION == 69
INPUT_DERIVATION == 65
OUTPUT_DERIVATION == 68

MARKERS == <<NETWORK, MS45_INPUT, MS45_OUTPUT, STEALTH, COVENANT,
             COVENANT_EXECUTION, INPUT_DERIVATION, OUTPUT_DERIVATION>>

Bytes(n) == [k \in 1..n |-> BYTE_MAX]

BodyWidths ==
  (NETWORK            :> <<BYTE_MAX>>) @@
  (MS45_INPUT         :> <<MAX_POSITION, U32_MAX, U32_MAX, U32_MAX>>) @@
  (MS45_OUTPUT        :> <<MAX_POSITION, U32_MAX, U32_MAX, U32_MAX>>) @@
  (STEALTH            :> Bytes(HASH_LEN)) @@
  (COVENANT           :> <<MAX_POSITION, U16_MAX>> \o Bytes(HASH_LEN)) @@
  (COVENANT_EXECUTION :> <<MAX_POSITION, U16_MAX, U16_MAX>>) @@
  (INPUT_DERIVATION   :> <<MAX_POSITION, BYTE_MAX, U32_MAX>>) @@
  (OUTPUT_DERIVATION  :> <<MAX_POSITION, BYTE_MAX, U32_MAX>>)

MarkerRank(marker) == CHOOSE r \in DOMAIN MARKERS : MARKERS[r] = marker

-----------------------------------------------------------------------------
(* wire/encode.rs.  What the writer refuses is in EncodeOk, in one piece:  *)
(* nothing is delivered when any of it fails.                              *)

EncodeScript(s) ==
  (IF Len(s) < EXTENDED_SCRIPT_LENGTH THEN <<Len(s)>>
   ELSE <<EXTENDED_SCRIPT_LENGTH, Len(s)>>) \o s

EncodeInput(i) ==
  i.txid \o <<i.index, i.amount, i.sequence, i.sigops, i.spk.version>>
    \o EncodeScript(i.spk.script)
    \o <<Len(i.sigs)>>
    \o FlattenSeq([k \in DOMAIN i.sigs |->
                     <<i.sigs[k].position, i.sigs[k].sighash, i.sigs[k].bytes>>])
    \o <<Len(i.redeem)>> \o i.redeem

EncodeOutput(o) == <<o.amount, o.spk.version>> \o EncodeScript(o.spk.script)

(* One trailer for every entry that has the member, in order of position *)
Trailers(marker, entries, member(_), body(_)) ==
  FlattenSeq([k \in DOMAIN entries |->
                IF member(entries[k]) = None THEN <<>>
                ELSE <<marker, k - 1>> \o body(member(entries[k])[1])])

EncodeTrailers(t) ==
  <<NETWORK, t.network>>
    \o Trailers(MS45_INPUT, t.inputs, LAMBDA e : e.ms45, LAMBDA d : d)
    \o Trailers(MS45_OUTPUT, t.outputs, LAMBDA e : e.ms45, LAMBDA d : d)
    \o (IF t.stealth = None THEN <<>> ELSE <<STEALTH>> \o t.stealth[1])
    \o Trailers(COVENANT, t.outputs, LAMBDA e : e.covenant, LAMBDA c : <<c.auth>> \o c.id)
    \o Trailers(COVENANT_EXECUTION, t.inputs, LAMBDA e : e.exec, LAMBDA x : <<x.mask, x.truth>>)
    \o Trailers(INPUT_DERIVATION, t.inputs, LAMBDA e : e.derivation, LAMBDA d : d)
    \o Trailers(OUTPUT_DERIVATION, t.outputs, LAMBDA e : e.derivation, LAMBDA d : d)

DistinctPositions(sigs) ==
  \A k, j \in DOMAIN sigs : k # j => sigs[k].position # sigs[j].position

EncodeInputOk(i) ==
  /\ i.sigops <= MAX_SIGS /\ Len(i.spk.script) <= MAX_SCRIPT
  /\ Len(i.sigs) <= MAX_SIGS /\ DistinctPositions(i.sigs)
  /\ \A k \in DOMAIN i.sigs : i.sigs[k].sighash \in SIGHASHES
  /\ Len(i.redeem) <= MAX_REDEEM
  /\ i.ms45 # None => ValidMs45(i.ms45[1])
  /\ i.exec # None => ValidExecution(i.exec[1])
  /\ i.derivation # None => ValidDerivation(i.derivation[1])

EncodeOutputOk(o) ==
  /\ Len(o.spk.script) <= MAX_SCRIPT
  /\ o.ms45 # None => ValidMs45(o.ms45[1])
  /\ o.derivation # None => ValidDerivation(o.derivation[1])

(* position(): a trailer names an entry by one byte *)
PositionsFit(t) ==
  /\ \A k \in DOMAIN t.inputs :
       k - 1 > MAX_POSITION =>
         LET i == t.inputs[k] IN i.ms45 = None /\ i.exec = None /\ i.derivation = None
  /\ \A k \in DOMAIN t.outputs :
       k - 1 > MAX_POSITION =>
         LET o == t.outputs[k] IN o.ms45 = None /\ o.covenant = None /\ o.derivation = None

EncodeOk(t, maxInputs, maxPayload) ==
  /\ t.version <= 1 /\ t.flags <= FLAG_SIGNED_OR_COMPLETE
  /\ Len(t.inputs) <= maxInputs /\ Len(t.outputs) <= MAX_OUTPUTS /\ Len(t.payload) <= maxPayload
  /\ \A k \in DOMAIN t.inputs : EncodeInputOk(t.inputs[k])
  /\ \A k \in DOMAIN t.outputs : EncodeOutputOk(t.outputs[k])
  /\ t.network \in NETWORKS
  /\ PositionsFit(t)

Encode(t, maxInputs, maxPayload) ==
  IF EncodeOk(t, maxInputs, maxPayload)
  THEN Some(<<MAGIC, KSPT_VERSION, t.flags, t.version, Len(t.inputs), Len(t.outputs), t.locktime>>
              \o t.subnetwork \o <<t.gas, Len(t.payload)>> \o t.payload
              \o FlattenSeq([k \in DOMAIN t.inputs |-> EncodeInput(t.inputs[k])])
              \o FlattenSeq([k \in DOMAIN t.outputs |-> EncodeOutput(t.outputs[k])])
              \o EncodeTrailers(t))
  ELSE None

-----------------------------------------------------------------------------
(* wire/io.rs and wire/decode.rs.  A reader takes a position and returns   *)
(* what it read and the position after it, or None.                        *)

(* As many tokens as widths, none too wide for its field *)
Fits(w, p, widths) ==
  /\ p + Len(widths) <= Len(w) + 1
  /\ \A k \in DOMAIN widths : w[p + k - 1] <= widths[k]

ReadBytes(w, p, count) ==
  IF Fits(w, p, Bytes(count))
  THEN Some([v |-> SubSeq(w, p, p + count - 1), next |-> p + count]) ELSE None

(* A length and as many bytes *)
ReadSized(w, p, max) ==
  IF Fits(w, p, <<max>>) THEN ReadBytes(w, p + 1, w[p]) ELSE None

(* Mutant of ReadScript: the long form is taken for a short script too *)
ReadScriptLoose(w, p) ==
  IF ~Fits(w, p, <<EXTENDED_SCRIPT_LENGTH>>) THEN None
  ELSE IF w[p] < EXTENDED_SCRIPT_LENGTH THEN ReadSized(w, p, MAX_SCRIPT)
       ELSE ReadSized(w, p + 1, MAX_SCRIPT)

(* Reader::script: lengths below the marker have exactly one encoding *)
ReadScript(w, p) ==
  IF ~Fits(w, p, <<EXTENDED_SCRIPT_LENGTH>>) THEN None
  ELSE IF w[p] < EXTENDED_SCRIPT_LENGTH THEN ReadSized(w, p, MAX_SCRIPT)
       ELSE IF Fits(w, p + 1, <<MAX_SCRIPT>>) /\ w[p + 1] >= EXTENDED_SCRIPT_LENGTH
            THEN ReadSized(w, p + 1, MAX_SCRIPT) ELSE None

(* read_signatures *)
ReadSignatures(w, p) ==
  IF ~Fits(w, p, <<MAX_SIGS>>) THEN None
  ELSE LET n    == w[p]
           sigs == [k \in 1..n |-> [position |-> w[p + 3 * k - 2], sighash |-> w[p + 3 * k - 1],
                                    bytes |-> w[p + 3 * k]]]
       IN  IF /\ Fits(w, p + 1, [k \in 1..(3 * n) |-> BYTE_MAX])
              /\ DistinctPositions(sigs)
              /\ \A k \in 1..n : sigs[k].sighash \in SIGHASHES
           THEN Some([v |-> sigs, next |-> p + 3 * n + 1]) ELSE None

(* read_input *)
InputWidths == Bytes(HASH_LEN) \o <<U32_MAX, U64_MAX, U64_MAX, MAX_SIGS, U16_MAX>>

ReadRedeem(w, p, script, sigs) ==
  IF sigs = None THEN None
  ELSE LET redeem == ReadSized(w, sigs[1].next, MAX_REDEEM)
           h      == p + HASH_LEN
       IN  IF redeem = None THEN None
           ELSE Some([v |-> [txid |-> SubSeq(w, p, h - 1), index |-> w[h], amount |-> w[h + 1],
                             sequence |-> w[h + 2], sigops |-> w[h + 3],
                             spk |-> [version |-> w[h + 4], script |-> script],
                             sigs |-> sigs[1].v, redeem |-> redeem[1].v,
                             derivation |-> None, ms45 |-> None, exec |-> None],
                      next |-> redeem[1].next])

ReadScripts(w, p, script) ==
  IF script = None THEN None
  ELSE ReadRedeem(w, p, script[1].v, ReadSignatures(w, script[1].next))

ReadInput(w, p) ==
  IF Fits(w, p, InputWidths) THEN ReadScripts(w, p, ReadScript(w, p + HASH_LEN + 5)) ELSE None

(* read_outputs, its body *)
ReadOutput(w, p) ==
  IF ~Fits(w, p, <<U64_MAX, U16_MAX>>) THEN None
  ELSE LET script == ReadScript(w, p + 2)
       IN  IF script = None THEN None
           ELSE Some([v |-> [amount |-> w[p], spk |-> [version |-> w[p + 1], script |-> script[1].v],
                             derivation |-> None, ms45 |-> None, covenant |-> None],
                      next |-> script[1].next])

(* read_inputs, read_outputs *)
ReadEntry(kind, w, p) == IF kind = "input" THEN ReadInput(w, p) ELSE ReadOutput(w, p)

RECURSIVE ReadMany(_, _, _, _)
ReadMany(kind, w, p, count) ==
  IF count = 0 THEN Some([v |-> <<>>, next |-> p])
  ELSE LET first == ReadEntry(kind, w, p)
           rest  == IF first = None THEN None ELSE ReadMany(kind, w, first[1].next, count - 1)
       IN  IF rest = None THEN None
           ELSE Some([v |-> <<first[1].v>> \o rest[1].v, next |-> rest[1].next])

(* read_trailers: the network first, then in rank order, the positions of  *)
(* a kind increasing.  Network and stealth have no position and come once: *)
(* for them the last position is 0.                                        *)
HasPosition(marker) == marker \notin {NETWORK, STEALTH}

OnInput(marker) == marker \in {MS45_INPUT, COVENANT_EXECUTION, INPUT_DERIVATION}

TrailerOk(marker, b, t, rank, last) ==
  /\ rank = 0 => marker = NETWORK
  /\ MarkerRank(marker) >= rank
  /\ LET pos == IF HasPosition(marker) THEN b[1] ELSE 0
     IN  MarkerRank(marker) = rank => pos > last
  /\ HasPosition(marker) => b[1] < Len(IF OnInput(marker) THEN t.inputs ELSE t.outputs)
  /\ CASE marker = NETWORK -> b[1] \in NETWORKS
       [] marker = STEALTH -> TRUE
       [] marker \in {MS45_INPUT, MS45_OUTPUT} -> ValidMs45(Tail(b))
       [] marker = COVENANT -> b[2] < Len(t.inputs)
       [] marker = COVENANT_EXECUTION -> ValidExecution([mask |-> b[2], truth |-> b[3]])
       [] OTHER -> ValidDerivation(Tail(b))

ApplyTrailer(marker, b, t) ==
  CASE marker = NETWORK -> [t EXCEPT !.network = b[1]]
    [] marker = STEALTH -> [t EXCEPT !.stealth = Some(b)]
    [] marker = MS45_INPUT -> [t EXCEPT !.inputs[b[1] + 1].ms45 = Some(Tail(b))]
    [] marker = MS45_OUTPUT -> [t EXCEPT !.outputs[b[1] + 1].ms45 = Some(Tail(b))]
    [] marker = COVENANT ->
         [t EXCEPT !.outputs[b[1] + 1].covenant =
            Some([auth |-> b[2], id |-> SubSeq(b, 3, Len(b))])]
    [] marker = COVENANT_EXECUTION ->
         [t EXCEPT !.inputs[b[1] + 1].exec = Some([mask |-> b[2], truth |-> b[3]])]
    [] marker = INPUT_DERIVATION -> [t EXCEPT !.inputs[b[1] + 1].derivation = Some(Tail(b))]
    [] marker = OUTPUT_DERIVATION -> [t EXCEPT !.outputs[b[1] + 1].derivation = Some(Tail(b))]

RECURSIVE ReadTrailers(_, _, _, _, _)
ReadTrailers(w, p, t, rank, last) ==
  IF p = Len(w) + 1 THEN IF rank = 0 THEN None ELSE Some(t)   \* MissingNetwork
  ELSE LET m == w[p]
       IN  IF m \notin DOMAIN BodyWidths \/ ~Fits(w, p + 1, BodyWidths[m]) THEN None
           ELSE LET b == SubSeq(w, p + 1, p + Len(BodyWidths[m]))
                IN  IF TrailerOk(m, b, t, rank, last)
                    THEN ReadTrailers(w, p + Len(BodyWidths[m]) + 1, ApplyTrailer(m, b, t),
                                      MarkerRank(m), IF HasPosition(m) THEN b[1] ELSE 0)
                    ELSE None

(* validate_input_capacity, so that a count alone allocates nothing *)
MIN_INPUT_WIRE == HASH_LEN + 8

GlobalWidths(maxInputs) ==
  <<MAGIC, KSPT_VERSION, FLAG_SIGNED_OR_COMPLETE, 1, maxInputs, MAX_OUTPUTS, U64_MAX>>
    \o Bytes(SUBNETWORK_LEN) \o <<U64_MAX>>

(* decode_envelope with the host's sink, which refuses nothing *)
DecodeTrailers(w, payload, inputs, outputs) ==
  IF outputs = None THEN None
  ELSE ReadTrailers(w, outputs[1].next,
         [flags |-> w[3], version |-> w[4], locktime |-> w[7],
          subnetwork |-> SubSeq(w, 8, 7 + SUBNETWORK_LEN), gas |-> w[8 + SUBNETWORK_LEN],
          payload |-> payload, network |-> 0, stealth |-> None,
          inputs |-> inputs, outputs |-> outputs[1].v], 0, -1)

DecodeOutputs(w, payload, inputs) ==
  IF inputs = None THEN None
  ELSE DecodeTrailers(w, payload, inputs[1].v, ReadMany("output", w, inputs[1].next, w[6]))

DecodeInputs(w, payload) ==
  IF payload = None \/ w[5] * MIN_INPUT_WIRE > Len(w) + 1 - payload[1].next THEN None
  ELSE DecodeOutputs(w, payload[1].v, ReadMany("input", w, payload[1].next, w[5]))

Decode(w, maxInputs, maxPayload) ==
  IF Fits(w, 1, GlobalWidths(maxInputs)) /\ w[1] = MAGIC /\ w[2] = KSPT_VERSION
  THEN DecodeInputs(w, ReadSized(w, 9 + SUBNETWORK_LEN, maxPayload)) ELSE None

-----------------------------------------------------------------------------
(* The device: codec/sink.rs, codec/partial_signed.rs, validation.rs *)

SigFor(key) == 100 + key

(* signature_verification: the key of a position, from the script's kind *)
KeysOf(i) ==
  LET script == i.spk.script
      multi  == IF Len(script) = 2 /\ script[1] = OP_P2SH /\ i.redeem # <<>>
                THEN ParseMultisigRedeem(i.redeem) ELSE ParseMultisigRedeem(script)
  IN  IF P2pkXonly(script) # None THEN Some([m |-> 1, keys |-> P2pkXonly(script)]) ELSE multi

SigVerifies(i, s) ==
  /\ s.position + 1 \in DOMAIN KeysOf(i)[1].keys
  /\ s.bytes = SigFor(KeysOf(i)[1].keys[s.position + 1])

(* kspt_is_fully_signed *)
FullySigned(t) ==
  t.inputs # <<>>
    /\ \A k \in DOMAIN t.inputs :
         LET i == t.inputs[k]
         IN  /\ KeysOf(i) # None
             /\ Len(i.sigs) = KeysOf(i)[1].m
             /\ \A s \in DOMAIN i.sigs : SigVerifies(i, i.sigs[s])

(* validate_partial_signed *)
ValidPartialSigned(t, maxInputs, maxPayload) ==
  /\ Len(t.inputs) \in 1..maxInputs /\ Len(t.outputs) \in 1..MAX_OUTPUTS
  /\ Len(t.payload) <= maxPayload
  /\ CheckedAmounts(t) /\ RedeemsFit(t) /\ BindingsInRange(t)
  /\ \A k \in DOMAIN t.inputs :
       /\ DistinctPositions(t.inputs[k].sigs)
       /\ \A s \in DOMAIN t.inputs[k].sigs : t.inputs[k].sigs[s].sighash = 1

(* parse_compact_kspt of what Decode returns *)
AcceptCompact(read, maxInputs, maxPayload) ==
  IF read = None THEN None
  ELSE IF /\ ValidPartialSigned(read[1], maxInputs, maxPayload)
          /\ (read[1].flags = FLAG_SIGNED_OR_COMPLETE) = FullySigned(read[1])
       THEN read ELSE None

(* serialize_compact_kspt *)
SerializeCompact(t, maxInputs, maxPayload) ==
  IF ValidPartialSigned(t, maxInputs, maxPayload)
  THEN Encode([t EXCEPT !.flags = IF FullySigned(t) THEN FLAG_SIGNED_OR_COMPLETE ELSE 0],
              maxInputs, maxPayload)
  ELSE None

=============================================================================
