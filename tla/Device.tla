------------------------------- MODULE Device -------------------------------
(***************************************************************************)
(* The signing device: its multisig wallets (transaction/model/multisig),  *)
(* the keys it finds for an input (kspt/signing/context), what it signs    *)
(* (kspt/signing) and how it judges change outputs (multisig_change,       *)
(* derivation/kip22).                                                      *)
(***************************************************************************)
EXTENDS Keys

CONSTANTS
  MAX_MULTISIG_KEYS,     \* 5: cosigners of a wallet on the device
  MAX_MULTISIG_WALLETS,  \* 2
  MAX_SIGS_PER_INPUT,    \* 5
  MAX_SEED_SLOTS,        \* 8
  ADDR_SCAN_DEPTH,       \* 20: entries per chain of the cached table
  SIGN_MATCH_DEPTH,      \* 100: indices per chain of the scan without a table
  OWNERSHIP_SCAN_DEPTH   \* 20: KIP-22 outputs recognised per chain

ASSUME DeviceAssumption ==
  /\ {MAX_MULTISIG_KEYS, MAX_MULTISIG_WALLETS, MAX_SIGS_PER_INPUT, MAX_SEED_SLOTS,
      ADDR_SCAN_DEPTH, SIGN_MATCH_DEPTH, OWNERSHIP_SCAN_DEPTH} \subseteq Nat \ {0}
  /\ MAX_MULTISIG_KEYS <= MAX_SCRIPT_KEYS

NoHint == [present |-> FALSE, cosigner |-> 0, chain |-> 0, index |-> 0]
Hint(cosigner, chain, index) ==
  [present |-> TRUE, cosigner |-> cosigner, chain |-> chain, index |-> index]

\* A KeySource path below m/45'/111111'/0', as the PSKT reader takes it.
parse_ms45_path(cosigner, chain, index) ==
  IF cosigner < HARDENED_BIT /\ chain <= 1 /\ index < HARDENED_BIT
  THEN Hint(cosigner, chain, index) ELSE NoHint

-----------------------------------------------------------------------------
(* Multisig wallets. *)

NewConfig ==
  [m |-> 0, n |-> 0, parts |-> [i \in 1 .. MAX_MULTISIG_KEYS |-> EmptyParts],
   addr_index |-> 0, v45 |-> FALSE, cosigner_index |-> 0, chain |-> 0,
   script |-> <<>>, active |-> FALSE]

valid_config(m, n) == m # 0 /\ n # 0 /\ m <= n /\ n <= MAX_MULTISIG_KEYS

slot_empty(config, i) == i \in 1 .. MAX_MULTISIG_KEYS /\ config.parts[i].key = NoKey

contains_cosigner(config, parts, except) ==
  \E i \in 1 .. MAX_MULTISIG_KEYS : i # except /\ config.parts[i] = parts

\* The config with the participant in place, or the same config: refused.
set_cosigner(config, i, parts) ==
  IF i > MAX_MULTISIG_KEYS \/ contains_cosigner(config, parts, i) THEN config
  ELSE [config EXCEPT !.parts[i] = parts]

\* <<>> when a key does not derive.
derive_children_at(config, cosigner, chain, index) ==
  LET Child(slot) ==
        LET parent == config.parts[slot].key
            family == IF config.v45 THEN derive_child_pub(parent, cosigner) ELSE parent
        IN derive_child_pub(derive_child_pub(family, chain), index)
      children == [slot \in 1 .. config.n |-> Child(slot)]
  IN IF \E slot \in 1 .. config.n : children[slot] = NoKey THEN <<>> ELSE children

derive_multisig_children(config) ==
  derive_children_at(config, IF config.v45 THEN config.cosigner_index ELSE 0,
                     IF config.v45 THEN config.chain ELSE 0, config.addr_index)

sort_xonly_children(children) == SortSeq(children, LAMBDA a, b : Bytes(a) < Bytes(b))

encode_redeem(m, n, children) ==
  IF valid_config(m, n) THEN multisig_encode(m, children) ELSE <<"invalid">>

build_script(config) ==
  LET children == IF valid_config(config.m, config.n) THEN derive_multisig_children(config)
                  ELSE <<>>
      ordered == IF config.v45 THEN children ELSE sort_xonly_children(children)
  IN IF children = <<>> THEN config
     ELSE [config EXCEPT !.script = encode_redeem(config.m, config.n, ordered)]

matches_at(config, hint, script) ==
  LET children == derive_children_at(config, hint.cosigner, hint.chain, hint.index)
  IN /\ config.v45 /\ hint.present /\ hint.chain <= 1
     /\ hint.cosigner < HARDENED_BIT /\ hint.index < HARDENED_BIT
     /\ valid_config(config.m, config.n)
     /\ children # <<>>
     /\ script = P2sh(encode_redeem(config.m, config.n, children))

\* Mutant of sort_cosigners: participants stay in the order they were scanned.
Mutant_ScanOrderKept(config) == config

sort_cosigners(config) ==
  IF ~config.v45 THEN config
  ELSE LET sorted == SortSeq(SubSeq(config.parts, 1, config.n), PartsBefore)
       IN [config EXCEPT !.parts = [i \in DOMAIN @ |-> IF i <= config.n THEN sorted[i] ELSE @[i]]]

same_wallet_as(a, b) ==
  /\ a.v45 = b.v45 /\ a.m = b.m /\ a.n = b.n
  /\ \A i \in 1 .. MAX_MULTISIG_KEYS : a.parts[i].key = b.parts[i].key

\* Positions count from zero in the code; FALSE when the seed is no participant.
resolves_cosigner(config, own) ==
  ~config.v45 \/ \E i \in 1 .. config.n : config.parts[i] = own

resolve_cosigner_index(config, own) ==
  [config EXCEPT !.cosigner_index =
     IF ~config.v45 THEN 0
     ELSE IF resolves_cosigner(config, own)
     THEN (CHOOSE i \in 1 .. config.n :
             config.parts[i] = own /\ \A j \in 1 .. i - 1 : config.parts[j] # own) - 1
     ELSE @]

config_address(config) == IF config.script = <<>> THEN <<>> ELSE P2sh(config.script)

\* A static descriptor fills none of the hierarchical fields.
from_descriptor(parsed) ==
  [NewConfig EXCEPT
     !.m = parsed.threshold, !.n = Len(parsed.parts), !.v45 = parsed.kind = "multi_hd45",
     !.parts = [i \in DOMAIN @ |->
                  IF i <= Len(parsed.parts) /\ parsed.kind # "multi" THEN parsed.parts[i] ELSE @[i]]]

Participant(kind, parts) ==
  [len |-> Width(kind), ok |-> TRUE,
   text |-> IF kind = "multi_hd45" THEN serialize_kpub_parts(parts)
            ELSE [form |-> "hex", payload |-> [version |-> "kpub", parts |-> parts]]]

write_descriptor(config) ==
  LET kind == IF config.v45 THEN "multi_hd45" ELSE "multi_hd"
  IN [kind |-> kind, closed |-> TRUE, threshold |-> config.m,
      parts |-> [i \in 1 .. config.n |-> Participant(kind, config.parts[i])]]

\* 0 when both slots are taken.
find_free(store) ==
  LET free == { i \in 1 .. MAX_MULTISIG_WALLETS : ~store[i].active }
  IN IF free = {} THEN 0 ELSE CHOOSE i \in free : \A j \in free : i <= j

-----------------------------------------------------------------------------
(* Keys of the loaded seeds. *)

EmptySlot == [account |-> NoKey, ms45 |-> NoKey, kip22 |-> NoKey]

Slots(seq) == SubSeq(seq, 1, IF Len(seq) < MAX_SEED_SLOTS THEN Len(seq) ELSE MAX_SEED_SLOTS)

\* Seed 0 is an empty slot.
from_seeds(seeds) ==
  [n \in DOMAIN Slots(seeds) |->
     IF seeds[n] = 0 THEN EmptySlot
     ELSE [account |-> derive_account_key(seeds[n]),
           ms45 |-> derive_multisig_account_key(seeds[n], 0),
           kip22 |-> kip22_derive_account_key(seeds[n], 0)]]

from_account_raw(accounts) ==
  [n \in DOMAIN Slots(accounts) |-> [EmptySlot EXCEPT !.account = accounts[n]]]

from_account_sets(accounts, ms45_accounts) ==
  LET context == from_account_raw(accounts)
  IN [n \in DOMAIN context |->
        IF n <= Len(ms45_accounts) THEN [context[n] EXCEPT !.ms45 = ms45_accounts[n]]
        ELSE context[n]]

derive_child_key(account, chain, index) ==
  IF chain = 1 THEN derive_change_key(account, index) ELSE derive_address_key(account, index)

\* Receive indices first, then change indices, up to depth.
ScanOrder(depth) ==
  [n \in 1 .. 2 * depth |-> IF n <= depth THEN <<0, n - 1>> ELSE <<1, n - 1 - depth>>]

Scan(account, depth, target) ==
  LET n == SelectInSeq(ScanOrder(depth),
                       LAMBDA p : derive_child_key(account, p[1], p[2]) = target)
  IN IF n = 0 THEN <<>> ELSE ScanOrder(depth)[n]

find_address_index_for_pubkey(account, target) == Scan(account, SIGN_MATCH_DEPTH, target)

\* The table holds the keys that derive, in the same order.
find_by_pubkey(account, target) == Scan(account, ADDR_SCAN_DEPTH, target)

KeyAt(account, place) ==
  IF place = <<>> THEN NoKey ELSE derive_child_key(account, place[1], place[2])

scanned_material(account, target) ==
  IF account = NoKey THEN NoKey
  ELSE KeyAt(account, find_address_index_for_pubkey(account, target))

direct_address_material(context, s, target) == scanned_material(context[s].account, target)
kip22_material(context, s, target) == scanned_material(context[s].kip22, target)

cached_address_material(context, s, target) ==
  IF context[s].account = NoKey THEN NoKey
  ELSE KeyAt(context[s].account, find_by_pubkey(context[s].account, target))

ms45_material(context, s, hint) ==
  IF ~hint.present \/ hint.chain > 1 \/ context[s].ms45 = NoKey THEN NoKey
  ELSE derive_multisig_address_key(context[s].ms45, hint.cosigner, hint.chain, hint.index)

-----------------------------------------------------------------------------
(* Signing.  An input is [script, redeem, hint, path, exec, sigs]: redeem is *)
(* <<>> when absent, hint the 45' hint, path the account hint (<<>> or       *)
(* <<branch, index>>), exec whether the covenant execution is stated, sigs   *)
(* the signatures, each [key, pos].                                          *)

is_p2pk(script) == script[1] = "p2pk"
is_p2sh(script) == script[1] = "p2sh"

parse_multisig_script(script) ==
  IF IsMultisig(script) /\ Len(script[3]) <= MAX_MULTISIG_KEYS
  THEN <<[m |-> script[2], keys |-> script[3]]>> ELSE <<>>

detect_script_type(script) ==
  IF is_p2pk(script) THEN "P2PK"
  ELSE IF is_p2sh(script) THEN "P2SH"
  ELSE IF parse_multisig_script(script) # <<>> THEN "Multisig" ELSE "Unknown"

analyze_input_script(input) ==
  [type |-> detect_script_type(input.script),
   multisig |-> IF is_p2sh(input.script) /\ input.redeem # <<>>
                THEN parse_multisig_script(input.redeem)
                ELSE parse_multisig_script(input.script)]

has_pubkey_position(input, pos) == \E n \in DOMAIN input.sigs : input.sigs[n].pos = pos

Sig(key, pos) == [key |-> key, pos |-> pos]

set_single_signature(input, key, pos) == [input EXCEPT !.sigs = <<Sig(key, pos)>>]

append_signature(input, key, pos) ==
  IF has_pubkey_position(input, pos) \/ Len(input.sigs) >= MAX_SIGS_PER_INPUT THEN input
  ELSE [input EXCEPT !.sigs = Append(@, Sig(key, pos))]

\* The first key of the list that was found.
FirstKey(keys) ==
  LET n == SelectInSeq(keys, LAMBDA k : k # NoKey) IN IF n = 0 THEN NoKey ELSE keys[n]

sign_p2pk_input(input, context) ==
  LET key == FirstKey([s \in DOMAIN context |->
                         direct_address_material(context, s, input.script[2])])
  IN IF input.sigs # <<>> \/ key = NoKey THEN input ELSE set_single_signature(input, key, 0)

\* Where a seed's account key itself stands; 0 when nowhere.
account_position(context, s, keys) ==
  IF context[s].account = NoKey THEN 0
  ELSE SelectInSeq(keys, LAMBDA k : k = context[s].account)

multisig_material(context, s, keys, pos) ==
  LET own == account_position(context, s, keys)
  IN IF own = pos THEN context[s].account
     ELSE IF own = 0 THEN cached_address_material(context, s, keys[pos])
     ELSE NoKey

sign_multisig_position(input, context, keys, pos) ==
  LET key == FirstKey([s \in DOMAIN context |-> multisig_material(context, s, keys, pos)])
  IN IF has_pubkey_position(input, pos - 1) \/ key = NoKey THEN input
     ELSE append_signature(input, key, pos - 1)

\* One signature per seed whose key at the hint stands in the script.
ms45_sign_input(input, context, keys) ==
  LET SignWith(in, s) ==
        LET key == ms45_material(context, s, input.hint)
            pos == IF key = NoKey THEN 0 ELSE SelectInSeq(keys, LAMBDA k : k = key)
        IN IF pos = 0 \/ has_pubkey_position(in, pos - 1) THEN in
           ELSE append_signature(in, key, pos - 1)
  IN FoldLeft(SignWith, input, [s \in DOMAIN context |-> s])

sign_multisig_input(input, context, keys) ==
  IF input.hint.present THEN ms45_sign_input(input, context, keys)
  ELSE FoldLeft(LAMBDA in, pos : sign_multisig_position(in, context, keys, pos),
                input, [pos \in DOMAIN keys |-> pos])

covenant_material(context, s, target) ==
  IF context[s].account = target THEN target
  ELSE FirstKey(<<cached_address_material(context, s, target), kip22_material(context, s, target)>>)

\* Of the covenants only the KIP-22 redeem script, one key and no branch, is
\* told apart here; an input without its execution is an error.
CovenantError(input) ==
  /\ input.sigs = <<>>
  /\ ~input.exec \/ input.redeem = <<>> \/ ~kip22_is_redeem_script(input.redeem)

sign_covenant_input(input, context, active) ==
  LET key == FirstKey([s \in DOMAIN context |->
                 IF active \notin {0, s} THEN NoKey
                 ELSE covenant_material(context, s, input.redeem[2])])
  IN IF input.sigs # <<>> \/ key = NoKey THEN input ELSE set_single_signature(input, key, 0)

\* What signing made of an input, how many signatures that counts, and the error.
Signed(input, count) == [input |-> input, count |-> count, err |-> ""]
Extended(input, old) == Signed(input, Len(input.sigs) - Len(old.sigs))

sign_supported_input(input, context, active) ==
  LET script == analyze_input_script(input)
  IN CASE script.type = "P2PK" -> Extended(sign_p2pk_input(input, context), input)
       [] script.type # "P2PK" /\ script.multisig # <<>> ->
            Extended(sign_multisig_input(input, context, script.multisig[1].keys), input)
       [] script.type = "P2SH" /\ script.multisig = <<>> ->
            IF CovenantError(input) THEN [Signed(input, 0) EXCEPT !.err = "InvalidModel"]
            ELSE Extended(sign_covenant_input(input, context, active), input)
       [] OTHER -> Signed(input, 0)

\* Inputs in order; an error leaves what was signed before it in place.
SignInputs(inputs, Sign(_)) ==
  LET Step(acc, n) ==
        IF acc.err # "" THEN acc
        ELSE LET r == Sign(inputs[n])
             IN [inputs |-> [acc.inputs EXCEPT ![n] = r.input],
                 count |-> acc.count + r.count, err |-> r.err]
      done == FoldLeft(Step, [inputs |-> inputs, count |-> 0, err |-> ""],
                       [n \in DOMAIN inputs |-> n])
  IN IF done.err = "" /\ done.count = 0 THEN [done EXCEPT !.err = "NoInputs"] ELSE done

sign_transaction_with_context(inputs, context, active) ==
  SignInputs(inputs, LAMBDA in : sign_supported_input(in, context, active))

sign_transaction_multisig(inputs, seeds, active) ==
  sign_transaction_with_context(inputs, from_seeds(seeds), active)

sign_transaction_multisig_accounts(inputs, accounts, active) ==
  sign_transaction_with_context(inputs, from_account_raw(accounts), active)

\* The firmware signs input by input with both account sets.
sign_multisig_account_sets_input(inputs, accounts, ms45_accounts, active) ==
  SignInputs(inputs, LAMBDA in :
    sign_supported_input(in, from_account_sets(accounts, ms45_accounts), active))

-----------------------------------------------------------------------------
(* One account: multi_address.rs; one raw key: single_key.rs. *)

\* A stealth output pays the account key plus the document's tweak.
Stealth(account, tweak) ==
  [account EXCEPT !.path = Append(@, 2 * HARDENED_BIT + tweak)]

\* Mutant of derive_hinted_input_key: the hint is believed.
Mutant_HintBelieved(account, path, target) ==
  IF path[1] > 1 \/ path[2] >= HARDENED_BIT THEN NoKey
  ELSE derive_child_key(account, path[1], path[2])

derive_hinted_input_key(account, path, target) ==
  IF path[1] > 1 \/ path[2] >= HARDENED_BIT THEN NoKey
  ELSE LET key == derive_child_key(account, path[1], path[2])
       IN IF key = target THEN key ELSE NoKey

derive_standard_input_key(account, input) ==
  IF input.path # <<>> THEN derive_hinted_input_key(account, input.path, input.script[2])
  ELSE scanned_material(account, input.script[2])

sign_account_input(input, account, tweak) ==
  LET own == derive_standard_input_key(account, input)
      stealth == Stealth(account, tweak)
  IN IF ~is_p2pk(input.script) THEN Signed(input, 0)
     ELSE IF own # NoKey THEN Signed(set_single_signature(input, own, 0), 1)
     ELSE IF tweak # 0 /\ stealth = input.script[2]
     THEN Signed(set_single_signature(input, stealth, 0), 1)
     ELSE Signed(input, 0)

sign_transaction_multi_addr(inputs, account, tweak) ==
  SignInputs(inputs, LAMBDA in : sign_account_input(in, account, tweak))

sign_raw_if_matching(input, key) ==
  IF is_p2pk(input.script) /\ input.script[2] = key
  THEN Signed(set_single_signature(input, key, 0), 1) ELSE Signed(input, 0)

sign_matching_inputs(inputs, key) ==
  SignInputs(inputs, LAMBDA in : sign_raw_if_matching(in, key))

-----------------------------------------------------------------------------
(* Change outputs as the device shows them. *)

matches_input_script(inputs, script) == \E n \in DOMAIN inputs : inputs[n].script = script

\* The first stored wallet that some input proves; 0 when there is none.
trusted_descriptor(inputs, store) ==
  LET proven == { i \in 1 .. MAX_MULTISIG_WALLETS :
                    /\ store[i].active /\ store[i].v45
                    /\ \E n \in DOMAIN inputs :
                         /\ is_p2sh(inputs[n].script)
                         /\ matches_at(store[i], inputs[n].hint, inputs[n].script) }
  IN IF proven = {} THEN 0 ELSE CHOOSE i \in proven : \A j \in proven : i <= j

\* Outputs that claim a path; the first one the trusted wallet contradicts.
find_forged_change(inputs, outputs, store) ==
  LET t == trusted_descriptor(inputs, store)
      forged == { n \in DOMAIN outputs :
                    /\ outputs[n].hint.present /\ is_p2sh(outputs[n].script)
                    /\ ~matches_input_script(inputs, outputs[n].script)
                    /\ ~matches_at(store[t], outputs[n].hint, outputs[n].script) }
  IN IF t = 0 \/ forged = {} THEN 0 ELSE CHOOSE n \in forged : \A k \in forged : n <= k

\* The chain shown for an output; 2 for none.
trusted_multisig_output_chain(inputs, outputs, store, n) ==
  LET t == trusted_descriptor(inputs, store)
  IN IF /\ t # 0 /\ n \in DOMAIN outputs /\ outputs[n].hint.present
        /\ is_p2sh(outputs[n].script)
        /\ ~matches_input_script(inputs, outputs[n].script)
        /\ matches_at(store[t], outputs[n].hint, outputs[n].script)
     THEN outputs[n].hint.chain ELSE 2

\* Change first, then receive: <<chain, index>> of a KIP-22 output or <<>>.
find_owned_script(account, script) ==
  LET order == [n \in 1 .. 2 * OWNERSHIP_SCAN_DEPTH |->
                  IF n <= OWNERSHIP_SCAN_DEPTH THEN <<1, n - 1>>
                  ELSE <<0, n - 1 - OWNERSHIP_SCAN_DEPTH>>]
      Key(p) == kip22_derive_address_key(account, p[1], p[2])
      hit == SelectInSeq(order, LAMBDA p :
               Key(p) = NoKey \/ script = P2sh(kip22_redeem_script(Key(p))))
  IN IF hit = 0 THEN <<>> ELSE IF Key(order[hit]) = NoKey THEN <<>> ELSE order[hit]
=============================================================================
