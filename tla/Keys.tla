--------------------------------- MODULE Keys ---------------------------------
(***************************************************************************)
(* Keys and the texts that name them: BIP32 derivation (wallet/derivation),*)
(* account-key encodings (wallet/key), multisig descriptors                *)
(* (wallet/multisig) and the redeem scripts built from them.               *)
(*                                                                         *)
(* A key is the path that leads to it: hashing is injective, and a public  *)
(* child of a public parent is the public half of the private child, so    *)
(* one term stands for both halves.  The byte order of keys, which two     *)
(* implementations have to agree on, is unrelated to their paths.          *)
(***************************************************************************)
EXTENDS Naturals, FiniteSets, SequencesExt

CONSTANTS
  HARDENED_BIT,       \* 2^31 in the code
  COIN,               \* the coin type 111111
  MAX_SCRIPT_KEYS,    \* 16: keys a redeem script can declare
  Underivable         \* keys whose derivation fails (no valid scalar)

ASSUME KeysAssumption ==
  /\ HARDENED_BIT \in Nat /\ COIN \in 0 .. HARDENED_BIT - 1
  /\ MAX_SCRIPT_KEYS \in Nat

Hardened(n) == HARDENED_BIT + n

NoKey == [seed |-> 0, path |-> <<>>]

\* The one element of a set: binds a value that is used several times.
The(S) == CHOOSE x \in S : TRUE

Usable(key) == IF key \in Underivable THEN NoKey ELSE key

master_key_from_seed(seed) == Usable([seed |-> seed, path |-> <<>>])

derive_child(parent, index) ==
  IF parent = NoKey THEN NoKey ELSE Usable([parent EXCEPT !.path = Append(@, index)])

\* Public derivation knows no hardened children.
derive_child_pub(parent, index) ==
  IF index >= HARDENED_BIT THEN NoKey ELSE derive_child(parent, index)

\* The host's own public derivation (account/derivation.rs) on a decoded key.
ext_derive_child(parent, index) ==
  IF index >= HARDENED_BIT THEN NoKey ELSE derive_child(parent, index)

derive_path(seed, path) ==
  IF path = <<>> THEN NoKey ELSE FoldLeft(derive_child, master_key_from_seed(seed), path)

KASPA_ACCOUNT_PATH == <<Hardened(44), Hardened(COIN), Hardened(0)>>
KASPA_MULTISIG_ACCOUNT_PREFIX == <<Hardened(45), Hardened(COIN)>>

derive_account_key(seed) == derive_path(seed, KASPA_ACCOUNT_PATH)

derive_multisig_account_key(seed, account) ==
  IF account >= HARDENED_BIT THEN NoKey
  ELSE derive_path(seed, Append(KASPA_MULTISIG_ACCOUNT_PREFIX, Hardened(account)))

kip22_derive_account_key(seed, account) ==
  IF account >= HARDENED_BIT THEN NoKey
  ELSE derive_path(seed, <<Hardened(22), Hardened(COIN), Hardened(account)>>)

derive_address_key(account, index) == derive_child(derive_child(account, 0), index)
derive_change_key(account, index) == derive_child(derive_child(account, 1), index)

derive_multisig_address_key(account, cosigner, chain, index) ==
  IF cosigner >= HARDENED_BIT \/ chain > 1 \/ index >= HARDENED_BIT THEN NoKey
  ELSE derive_child(derive_child(derive_child(account, cosigner), chain), index)

kip22_derive_address_key(account, chain, index) ==
  IF index >= HARDENED_BIT THEN NoKey
  ELSE derive_child(derive_child(account, chain), index)

\* The bytes of a key as a number: an order that follows no path.
Bytes(key) == FoldLeft(LAMBDA a, x : (a * 53 + x + 1) % 30011, key.seed, key.path)

-----------------------------------------------------------------------------
(* Account keys as other wallets write them: wallet/key. *)

ACCOUNT_KEY_DEPTH == 3
ACCOUNT_KEY_CHILD_INDEX == HARDENED_BIT

parent_fingerprint(parent) == Bytes(parent) % 7

Parent(key) == [key EXCEPT !.path = SubSeq(@, 1, Len(@) - 1)]

\* The five fields of a serialized account key; the key term stands for the
\* chain code and the public key.
Parts(depth, fp, num, key) == [depth |-> depth, fp |-> fp, num |-> num, key |-> key]
EmptyParts == Parts(0, 0, 0, NoKey)

validate_account_key_payload(payload) ==
  /\ payload.version = "kpub"
  /\ payload.parts.depth = ACCOUNT_KEY_DEPTH
  /\ payload.parts.num = ACCOUNT_KEY_CHILD_INDEX
  /\ payload.parts.key # NoKey

\* A text is its form and what it encodes.
encode_account_key_text(payload) == [form |-> "kpub1", payload |-> payload]

decode_account_key_text(text) ==
  IF text.form = "kpub1" /\ validate_account_key_payload(text.payload)
  THEN <<text.payload>> ELSE <<>>

decode_account_key(text, version) ==
  LET p == text.payload
  IN IF /\ text.form = "base58" /\ p.version = version
        /\ p.parts.depth = ACCOUNT_KEY_DEPTH /\ p.parts.num = ACCOUNT_KEY_CHILD_INDEX
        /\ p.parts.key # NoKey
     THEN <<[p EXCEPT !.version = "kpub"]>> ELSE <<>>

\* The first of the three forms that reads.
decode_kpub_or_xpub(text) ==
  LET forms == SelectSeq(<<decode_account_key_text(text), decode_account_key(text, "kpub"),
                           decode_account_key(text, "xpub")>>, LAMBDA f : f # <<>>)
  IN IF forms = <<>> THEN <<>> ELSE forms[1]

parse_kpub_parts(text) ==
  LET payload == decode_kpub_or_xpub(text)
  IN IF payload = <<>> THEN <<>> ELSE <<payload[1].parts>>

serialize_kpub_parts(parts) == encode_account_key_text([version |-> "kpub", parts |-> parts])

derive_multisig_account_parts(seed, account) ==
  LET key == derive_multisig_account_key(seed, account)
  IN IF key = NoKey THEN EmptyParts
     ELSE Parts(3, parent_fingerprint(Parent(key)), Hardened(account), key)

derive_and_serialize_kpub(seed) ==
  LET key == derive_account_key(seed)
  IN serialize_kpub_parts(
       IF key = NoKey THEN EmptyParts
       ELSE Parts(3, parent_fingerprint(Parent(key)), ACCOUNT_KEY_CHILD_INDEX, key))

\* The key below m/22'/111111'/0', exported the same way.
SerializeKip22Kpub(seed) ==
  LET key == kip22_derive_account_key(seed, 0)
  IN serialize_kpub_parts(
       IF key = NoKey THEN EmptyParts
       ELSE Parts(3, parent_fingerprint(Parent(key)), ACCOUNT_KEY_CHILD_INDEX, key))

\* An account private key as text: only accounts at depth 3 are written.
serialize_account_xprv(key, fp) ==
  [form |-> IF Len(key.path) = 3 THEN "base58" ELSE "none",
   payload |-> [version |-> "xprv", parts |-> Parts(3, fp, ACCOUNT_KEY_CHILD_INDEX, key)]]

import_xprv(text) ==
  LET p == text.payload
  IN IF /\ text.form = "base58" /\ p.version = "xprv" /\ p.parts.depth = 3
        /\ p.parts.num = ACCOUNT_KEY_CHILD_INDEX /\ p.parts.key # NoKey
     THEN p.parts.key ELSE NoKey

-----------------------------------------------------------------------------
(* Scripts. *)

P2pk(key) == <<"p2pk", key>>
P2sh(script) == <<"p2sh", script>>

IsMultisig(script) == script[1] = "multisig"

\* primitives/multisig_script.rs encode, through wallet/multisig and the device.
multisig_encode(threshold, keys) ==
  IF threshold >= 1 /\ threshold <= Len(keys) /\ Len(keys) <= MAX_SCRIPT_KEYS
  THEN <<"multisig", threshold, keys>> ELSE <<"invalid">>

build_redeem_script(threshold, keys) == multisig_encode(threshold, keys)

\* <P> OP_CHECKSIG, byte for byte a P2PK script over the same key.
kip22_redeem_script(key) == P2pk(key)
kip22_is_redeem_script(script) == script[1] = "p2pk"

-----------------------------------------------------------------------------
(* The descriptor grammar: wallet/multisig/grammar.rs.                      *)
(* A text has its function name, its threshold digits and its participants; *)
(* a participant is [len, ok, text, parts]: the length class of what is     *)
(* written, whether it decodes, and what it decodes to.                     *)

Width(kind) == [multi |-> 64, multi_hd |-> 130, multi_hd45 |-> 162][kind]

\* What is wrong with participant n, in the order the parser looks.
ParticipantError(kind, part, n, capacity) ==
  IF n > capacity THEN "TooManyParticipants"
  ELSE IF part.len # Width(kind) THEN "InvalidParticipantLength"
  ELSE IF kind = "multi_hd45"
       THEN IF decode_account_key_text(part.text) = <<>> THEN "InvalidKpub"
            ELSE IF part.text.payload.parts.depth # 3 THEN "InvalidKpubDepth" ELSE ""
  ELSE IF ~part.ok THEN "InvalidHex"
  ELSE IF kind = "multi_hd" /\ part.text.payload.parts.key = NoKey
       THEN "InvalidCompressedPublicKey"
  ELSE ""

\* Serialized keys compare as their bytes do: fixed lower-case hex keeps the
\* order of depth, fingerprint, child number, chain code and public key.
PartsBefore(a, b) ==
  \/ a.depth < b.depth
  \/ a.depth = b.depth /\ a.fp < b.fp
  \/ a.depth = b.depth /\ a.fp = b.fp /\ a.num < b.num
  \/ a.depth = b.depth /\ a.fp = b.fp /\ a.num = b.num /\ Bytes(a.key) < Bytes(b.key)

sort_hd45_by_encoded(parts) == SortSeq(parts, PartsBefore)

\* Static and HD44 participants keep their order; what is compared differs.
Duplicates(kind, parts) ==
  \E a, b \in 1 .. Len(parts) : a < b /\
    IF kind = "multi_hd45" THEN parts[a] = parts[b] ELSE parts[a].key = parts[b].key

parse_multisig_descriptor(text, capacity) ==
  LET errors == [n \in 1 .. Len(text.parts) |->
                   ParticipantError(text.kind, text.parts[n], n, capacity)]
      bad == SelectSeq(errors, LAMBDA e : e # "")
      raw == [n \in 1 .. Len(text.parts) |->
                LET p == text.parts[n].text.payload.parts
                IN IF text.kind = "multi_hd45" THEN p ELSE Parts(0, 0, 0, p.key)]
      error(parts) ==
        IF text.kind \notin {"multi", "multi_hd", "multi_hd45"} \/ ~text.closed
        THEN "UnsupportedFormat"
        ELSE IF text.parts = <<>> THEN "TooFewParticipants"
        ELSE IF text.threshold \notin 0 .. 255 THEN "InvalidThreshold"
        ELSE IF bad # <<>> THEN bad[1]
        ELSE IF Duplicates(text.kind, parts) THEN "DuplicateParticipant"
        ELSE IF Len(parts) < 2 THEN "TooFewParticipants"
        ELSE IF text.threshold \notin 1 .. Len(parts) THEN "InvalidThreshold"
        ELSE ""
      Read(parts) == [err |-> error(parts), kind |-> text.kind, threshold |-> text.threshold,
                      parts |-> parts]
  IN The({ Read(parts) : parts \in {IF text.kind = "multi_hd45" THEN sort_hd45_by_encoded(raw) ELSE raw} })
=============================================================================
