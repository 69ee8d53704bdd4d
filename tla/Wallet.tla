------------------------------- MODULE Wallet -------------------------------
(***************************************************************************)
(* A watch-only host wallet (wallet/account, wallet/multisig,              *)
(* builder/multisig), the signing devices of Device and the chain.         *)
(*                                                                         *)
(* Host and device derive every address twice, from the public and from    *)
(* the private side, and neither sees the other's state: what one offers   *)
(* to be paid, the others have to recognise, spend and sign.               *)
(***************************************************************************)
EXTENDS Device, TLC

CONSTANTS
  Scenes,                \* [kind, m, who, held, orders, makers, funds, shown]: a wallet of
                         \* m of the seeds who; the seeds each device holds; bounds: the orders
                         \* in which participants are listed, the devices that set it up by
                         \* hand, the payments it receives, the indices devices show
  Outsider,              \* a seed nobody here holds
  IMPORT_DEPTH,          \* 20: addresses per chain of a fresh import
  MAX_DISCOVERY_INDEX,   \* 100: indices scanned to place a multisig address
  BRANCH_DEPTH,          \* 40: MULTISIG_BRANCH_SCAN_DEPTH
  MAX_HOST_KEYS,         \* 16: cosigners of a descriptor on the host
  MAX_SOURCES,           \* 3: coins of a consolidation
  EXTENSION,             \* bound: addresses added at a time
  MAX_ADDRESSES,         \* bound: addresses per chain after extensions
  MAX_COINS,             \* bound: coins ever made
  MAX_SPENDS             \* bound: documents ever made

ASSUME WalletAssumption ==
  /\ {IMPORT_DEPTH, MAX_DISCOVERY_INDEX, BRANCH_DEPTH, MAX_HOST_KEYS, MAX_SOURCES,
      EXTENSION, MAX_ADDRESSES, MAX_COINS, MAX_SPENDS} \subseteq Nat
  /\ \A scene \in Scenes : \A n \in DOMAIN scene.held : Len(scene.held[n]) > 0

-----------------------------------------------------------------------------
(* The host's single-key wallet: wallet/account. *)

\* Addresses as scripts; <<>> when a key does not derive.
DeriveRange(chainKey, start, count) ==
  LET keys == [n \in 1 .. count |-> ext_derive_child(chainKey, start + n - 1)]
  IN IF \E n \in 1 .. count : keys[n] = NoKey THEN <<"error">> ELSE [n \in 1 .. count |-> P2pk(keys[n])]

NoWallet == [kpub |-> <<>>, receive |-> <<>>, change |-> <<>>]

import_kpub(text) ==
  LET Derived(payload, receive, change) ==
        IF <<"error">> \in {receive, change} THEN NoWallet
        ELSE [kpub |-> encode_account_key_text(payload), receive |-> receive, change |-> change]
      Chain(payload, chain) == DeriveRange(ext_derive_child(payload.parts.key, chain), 0, IMPORT_DEPTH)
      Imported(decoded) ==
        IF decoded = <<>> THEN NoWallet
        ELSE Derived(decoded[1], Chain(decoded[1], 0), Chain(decoded[1], 1))
  IN The({ Imported(decoded) : decoded \in {decode_kpub_or_xpub(text)} })

import_kpub_raw(payload) ==
  IF validate_account_key_payload(payload) THEN import_kpub(encode_account_key_text(payload))
  ELSE NoWallet

\* The wallet is returned unchanged when a key does not derive.
extend_addresses(wallet, extraReceive, extraChange) ==
  LET xpub == decode_kpub_or_xpub(wallet.kpub)[1].parts.key
      Longer(receive, change) ==
        IF <<"error">> \in {receive, change} THEN wallet
        ELSE [wallet EXCEPT !.receive = @ \o receive, !.change = @ \o change]
  IN Longer(DeriveRange(ext_derive_child(xpub, 0), Len(wallet.receive), extraReceive),
            DeriveRange(ext_derive_child(xpub, 1), Len(wallet.change), extraChange))

derive_kip22_addresses(text, chain, start, count) ==
  LET Keys(chainKey) == [n \in 1 .. count |-> ext_derive_child(chainKey, start + n - 1)]
      Addresses(keys) ==
        IF \E n \in 1 .. count : keys[n] = NoKey THEN <<>>
        ELSE [n \in 1 .. count |->
                [script |-> P2sh(kip22_redeem_script(keys[n])), key |-> keys[n], index |-> start + n - 1]]
      Decoded(payload) ==
        IF payload = <<>> THEN <<>>
        ELSE Addresses(Keys(ext_derive_child(payload[1].parts.key, chain)))
  IN The({ Decoded(payload) : payload \in {decode_kpub_or_xpub(text)} })

wallet_addresses(wallet) == wallet.receive \o wallet.change

summarize_balance(wallet, coins) ==
  LET funded == { u.script : u \in coins }
      Indices(list) == { n - 1 : n \in { k \in DOMAIN list : list[k] \in funded } }
  IN [coins |-> Cardinality(coins), funded |-> Cardinality(funded),
      receive |-> Indices(wallet.receive), change |-> Indices(wallet.change)]

-----------------------------------------------------------------------------
(* The host's multisig wallet: wallet/multisig. *)

NoDesc == [err |-> "none"]

parse_descriptor(text) == parse_multisig_descriptor(text, MAX_HOST_KEYS)

is_hd(desc) == desc.kind # "multi"
is_hd45(desc) == desc.kind = "multi_hd45"

\* <<>> when a key does not derive.
public_keys_at(desc, index, cosigner, chain) ==
  LET path == IF is_hd45(desc) THEN <<cosigner, chain, index>>
              ELSE IF is_hd(desc) THEN <<0, index>> ELSE <<>>
      Ordered(keys) ==
        IF (\E n \in DOMAIN keys : keys[n] = NoKey) \/ (is_hd45(desc) /\ chain > 1) THEN <<>>
        ELSE IF is_hd45(desc) THEN keys
        ELSE SortSeq(keys, LAMBDA a, b : Bytes(a) < Bytes(b))
  IN The({ Ordered(keys) : keys \in
           {[n \in DOMAIN desc.parts |-> FoldLeft(ext_derive_child, desc.parts[n].key, path)]} })

RedeemAt(desc, path) ==
  build_redeem_script(desc.threshold,
                      public_keys_at(desc, path.index, path.cosigner, path.chain))

\* One path for every key of a 45' wallet, none for the others.
bip32_derivations(desc, path) ==
  IF is_hd45(desc) THEN parse_ms45_path(path.cosigner, path.chain, path.index) ELSE NoHint

Path(cosigner, chain, index) == [cosigner |-> cosigner, chain |-> chain, index |-> index]

\* Mutant of scan_shape: only the receive chain of a 45' wallet is searched.
Mutant_ReceiveOnly(desc) ==
  [cosigners |-> IF is_hd45(desc) THEN Len(desc.parts) ELSE 1, chains |-> 1]

scan_shape(desc) ==
  IF is_hd45(desc) THEN [cosigners |-> Len(desc.parts), chains |-> 2]
  ELSE [cosigners |-> 1, chains |-> 1]

\* Chains outermost, then cosigners, then indices; <<>> when not found.
scan_hierarchical_path(desc, script) ==
  LET shape == scan_shape(desc)
      size == shape.chains * shape.cosigners * MAX_DISCOVERY_INDEX
      At(n) == Path(((n - 1) \div MAX_DISCOVERY_INDEX) % shape.cosigners,
                    (n - 1) \div (MAX_DISCOVERY_INDEX * shape.cosigners),
                    (n - 1) % MAX_DISCOVERY_INDEX)
      Stops(n) == RedeemAt(desc, At(n)) \in {<<"invalid">>, script[2]}
      Found(n) == IF n = 0 THEN <<>>
                  ELSE IF RedeemAt(desc, At(n)) = <<"invalid">> THEN <<>> ELSE <<At(n)>>
  IN The({ Found(n) : n \in {SelectInSeq([k \in 1 .. size |-> k], Stops)} })

resolve_address_path(desc, script, requested) ==
  IF is_hd(desc) THEN scan_hierarchical_path(desc, script) ELSE <<Path(0, 0, requested)>>

-----------------------------------------------------------------------------
(* Spending from a multisig wallet: builder/multisig. *)

Input(script, redeem, hint, path, exec) ==
  [script |-> script, redeem |-> redeem, hint |-> hint, path |-> path, exec |-> exec,
   sigs |-> <<>>]
Output(script, hint) == [script |-> script, hint |-> hint]

Destination == Output(P2pk([seed |-> Outsider, path |-> <<>>]), NoHint)

branch_address(desc, cosigner, chain, index) == P2sh(RedeemAt(desc, Path(cosigner, chain, index)))

branch_addresses(desc, cosigner, depth) ==
  { Path(cosigner, chain, index) : chain \in 0 .. 1, index \in 0 .. depth - 1 }

\* The coins of a branch with their paths, and the indices they use.
summarize_branch_utxos(desc, cosigner, depth, coins) ==
  LET Labels(u) == { [id |-> u.id, at |-> p] : p \in
                     { q \in branch_addresses(desc, cosigner, depth) : P2sh(RedeemAt(desc, q)) = u.script } }
      Used(labelled, chain) == { l.at.index : l \in { k \in labelled : k.at.chain = chain } }
      Summary(labelled) == [labelled |-> labelled, receive_used |-> Used(labelled, 0),
                            change_used |-> Used(labelled, 1)]
  IN The({ Summary(labelled) : labelled \in {UNION { Labels(u) : u \in coins }} })

first_free(used, depth) ==
  IF used = 0 .. depth - 1 THEN depth
  ELSE CHOOSE i \in (0 .. depth - 1) \ used : \A j \in (0 .. depth - 1) \ used : i <= j

next_branch_address(desc, cosigner, chain, used, depth) ==
  branch_address(desc, cosigner, chain, first_free(used, depth))

finalize_branch_scan(desc, cosigner, depth, coins) ==
  LET Scanned(summary) ==
        [labelled |-> summary.labelled,
         receive_index |-> first_free(summary.receive_used, depth),
         receive |-> next_branch_address(desc, cosigner, 0, summary.receive_used, depth),
         change_index |-> first_free(summary.change_used, depth),
         change |-> next_branch_address(desc, cosigner, 1, summary.change_used, depth)]
  IN The({ Scanned(s) : s \in {summarize_branch_utxos(desc, cosigner, depth, coins)} })

first_unused_change_index(desc, cosigner, coins) ==
  first_free({ i \in 0 .. BRANCH_DEPTH - 1 :
                 \E u \in coins : u.script = branch_address(desc, cosigner, 1, i) }, BRANCH_DEPTH)

transaction_change_index(desc, path, coins) ==
  IF is_hd45(desc) THEN first_unused_change_index(desc, path.cosigner, coins) ELSE path.index

\* <<input>> or <<>> when the descriptor does not control the address.
prepare_source_material(desc, path, script) ==
  LET Material(redeem) ==
        IF P2sh(redeem) # script THEN <<>>
        ELSE <<Input(script, redeem, bip32_derivations(desc, path), <<>>, FALSE)>>
  IN The({ Material(redeem) : redeem \in {RedeemAt(desc, path)} })

prepare_hd45_change(desc, cosigner, index) ==
  Output(branch_address(desc, cosigner, 1, index), bip32_derivations(desc, Path(cosigner, 1, index)))

\* 44' and static wallets pay their change to the source.
prepare_change_material(desc, path, source, index) ==
  IF is_hd45(desc) THEN prepare_hd45_change(desc, path.cosigner, index)
  ELSE Output(source, NoHint)

\* create: every coin of one address, a destination and, last, the change; no
\* document when the address is not found or not the descriptor's.
create(desc, source, requested, coins) ==
  LET spent == SetToSortSeq({ u.id : u \in { c \in coins : c.script = source } }, <)
      From(path, input) ==
        { [ids |-> spent, inputs |-> [n \in DOMAIN spent |-> input],
           outputs |-> <<Destination, prepare_change_material(desc, path, source,
                                        transaction_change_index(desc, path, coins))>>] }
      At(path) == UNION { From(path, input) : input \in Range(prepare_source_material(desc, path, source)) }
  IN IF spent = <<>> THEN {}
     ELSE UNION { At(path) : path \in Range(resolve_address_path(desc, source, requested)) }

resolve_consolidation_source(desc, u, cosigner) ==
  { Input(u.script, RedeemAt(desc, path), bip32_derivations(desc, path), <<>>, FALSE) :
    path \in { p \in Range(resolve_address_path(desc, u.script, BRANCH_DEPTH)) :
                p.cosigner = cosigner } }

consolidation_change_output(desc, cosigner, coins) ==
  prepare_hd45_change(desc, cosigner, first_unused_change_index(desc, cosigner, coins))

\* create_multi_address: up to MAX_SOURCES chosen coins of one cosigner branch.
consolidate(desc, chosen, cosigner, coins) ==
  LET Joined(inputs) ==
        IF \E n \in DOMAIN chosen : inputs[n] = {} THEN {}
        ELSE { [ids |-> [n \in DOMAIN chosen |-> chosen[n].id],
                inputs |-> [n \in DOMAIN chosen |-> The(inputs[n])],
                outputs |-> <<Destination, consolidation_change_output(desc, cosigner, coins)>>] }
  IN IF ~is_hd45(desc) \/ Len(chosen) \notin 1 .. MAX_SOURCES THEN {}
     ELSE UNION { Joined(inputs) : inputs \in
            {[n \in DOMAIN chosen |-> resolve_consolidation_source(desc, chosen[n], cosigner)]} }

-----------------------------------------------------------------------------
(* The parties. *)

VARIABLES
  sc,       \* the scene: fixed
  host,     \* the host: its account wallet, its KIP-22 key text, its descriptor
  store,    \* the multisig wallets of each device, in memory only
  draft,    \* the multisig wallet a device is setting up
  utxos,    \* coins: [id, script, at], at the path whose address was offered
  made,     \* coins made so far
  doc,      \* the document in flight, or NoDoc
  spends    \* documents made so far

vars == <<sc, host, store, draft, utxos, made, doc, spends>>

NoDoc == [ids |-> <<>>, inputs |-> <<>>, outputs |-> <<>>, tweak |-> 0, altered |-> FALSE]
Idle == [NewConfig EXCEPT !.n = 0]
Devices == DOMAIN sc.held
EmptyStore == [i \in 1 .. MAX_MULTISIG_WALLETS |-> NewConfig]

IsMultisigScene == sc.kind \in {"multi", "multi_hd", "multi_hd45"}

\* What a participant exports for this kind of wallet.
ParticipantParts(seed) ==
  IF sc.kind = "multi_hd45" THEN derive_multisig_account_parts(seed, 0)
  ELSE parse_kpub_parts(derive_and_serialize_kpub(seed))[1]

\* A descriptor someone typed.
TypedText(order) ==
  [kind |-> sc.kind, closed |-> TRUE, threshold |-> sc.m,
   parts |-> [n \in DOMAIN sc.who |-> Participant(sc.kind, ParticipantParts(sc.who[order[n]]))]]

ExportedTexts ==
  { write_descriptor(store[d][i]) : <<d, i>> \in
      { e \in Devices \X (1 .. MAX_MULTISIG_WALLETS) : store[e[1]][e[2]].active } }

Texts == { TypedText(order) : order \in sc.orders } \cup ExportedTexts

Init ==
  /\ sc \in Scenes
  /\ host = [wallet |-> NoWallet, kip22 |-> <<>>, desc |-> NoDesc]
  /\ store = [d \in Devices |-> EmptyStore]
  /\ draft = [d \in Devices |-> Idle]
  /\ utxos = {} /\ made = 0 /\ doc = NoDoc /\ spends = 0

-----------------------------------------------------------------------------
(* The host. *)

HostImport ==
  /\ sc.kind = "account" /\ host.wallet = NoWallet
  /\ LET text == derive_and_serialize_kpub(sc.who[1])
         base58 == [text EXCEPT !.form = "base58"]
     IN \E wallet \in { import_kpub(text), import_kpub(base58), import_kpub_raw(text.payload),
                        import_kpub([base58 EXCEPT !.payload.version = "xpub"]) } :
          host' = [host EXCEPT !.wallet = wallet]
  /\ host' # host
  /\ UNCHANGED <<sc, store, draft, utxos, made, doc, spends>>

HostExtend ==
  /\ host.wallet # NoWallet /\ made = 0
  /\ \E r, c \in {0, EXTENSION} :
       /\ Len(host.wallet.receive) + r <= MAX_ADDRESSES
       /\ Len(host.wallet.change) + c <= MAX_ADDRESSES
       /\ host' = [host EXCEPT !.wallet = extend_addresses(@, r, c)]
  /\ host' # host
  /\ UNCHANGED <<sc, store, draft, utxos, made, doc, spends>>

HostKip22 ==
  /\ sc.kind = "kip22" /\ host.kip22 = <<>>
  /\ host' = [host EXCEPT !.kip22 = SerializeKip22Kpub(sc.who[1])]
  /\ UNCHANGED <<sc, store, draft, utxos, made, doc, spends>>

HostDescriptor ==
  /\ IsMultisigScene /\ host.desc = NoDesc
  /\ \E text \in Texts : host' = [host EXCEPT !.desc = parse_descriptor(text)]
  /\ host'.desc.err = ""
  /\ UNCHANGED <<sc, store, draft, utxos, made, doc, spends>>

-----------------------------------------------------------------------------
(* The devices' multisig wallets.  The order of the calls is the           *)
(* application's.                                                          *)

BeginConfig(d) ==
  /\ sc.kind \in {"multi_hd", "multi_hd45"} /\ draft[d] = Idle /\ find_free(store[d]) # 0
  /\ d \in sc.makers /\ store[d] = EmptyStore /\ made = 0
  /\ draft' = [draft EXCEPT ![d] = [NewConfig EXCEPT !.m = sc.m, !.n = Len(sc.who),
                                                     !.v45 = sc.kind = "multi_hd45"]]
  /\ UNCHANGED <<sc, host, store, utxos, made, doc, spends>>

\* A participant scanned twice is refused.
SetCosigner(d, seed) ==
  LET free == { i \in 1 .. draft[d].n : slot_empty(draft[d], i) }
      slot == CHOOSE i \in free : \A j \in free : i <= j
      Follows(order) == /\ seed = sc.who[order[slot]]
                        /\ \A i \in 1 .. slot - 1 :
                             draft[d].parts[i] = ParticipantParts(sc.who[order[i]])
  IN /\ free # {}
     /\ \/ \E order \in sc.orders : Follows(order)
        \/ contains_cosigner(draft[d], ParticipantParts(seed), 0)
     /\ draft' = [draft EXCEPT ![d] = set_cosigner(@, slot, ParticipantParts(seed))]
     /\ draft' # draft
     /\ UNCHANGED <<sc, host, store, utxos, made, doc, spends>>

\* Ready: sorted, placed among the cosigners, its first address built.
Adopt(d, config) ==
  LET Ready(sorted, own) ==
        IF resolves_cosigner(sorted, own) THEN build_script(resolve_cosigner_index(sorted, own))
        ELSE NewConfig
      Kept(ready) ==
        IF find_free(store[d]) = 0 \/ ready.script = <<>> THEN store
        ELSE [store EXCEPT ![d][find_free(store[d])] = [ready EXCEPT !.active = TRUE]]
      own == ParticipantParts(CHOOSE s \in Range(sc.held[d]) : s # 0)
  IN The({ Kept(ready) : ready \in {Ready(sort_cosigners(config), own)} })

FinishConfig(d) ==
  /\ draft[d] # Idle /\ \A i \in 1 .. draft[d].n : ~slot_empty(draft[d], i)
  /\ store' = Adopt(d, draft[d])
  /\ draft' = [draft EXCEPT ![d] = Idle]
  /\ UNCHANGED <<sc, host, utxos, made, doc, spends>>

ImportDescriptor(d) ==
  /\ IsMultisigScene /\ doc = NoDoc
  /\ d \in sc.makers => draft[d] = Idle /\ store[d] = EmptyStore
  /\ \E text \in Texts :
       \E parsed \in {parse_multisig_descriptor(text, MAX_MULTISIG_KEYS)} :
          /\ parsed.err = ""
          /\ \A i \in 1 .. MAX_MULTISIG_WALLETS :
               ~store[d][i].active \/ ~same_wallet_as(store[d][i], from_descriptor(parsed))
          /\ store' = Adopt(d, from_descriptor(parsed))
  /\ store' # store
  /\ UNCHANGED <<sc, host, draft, utxos, made, doc, spends>>

SelectAddress(d) ==
  /\ d \in sc.makers /\ made < sc.funds /\ doc = NoDoc
  /\ \E i \in 1 .. MAX_MULTISIG_WALLETS, chain \in 0 .. 1, index \in sc.shown :
       /\ store[d][i].active
       /\ store[d][i].v45 \/ chain = 0
       /\ store' = [store EXCEPT ![d][i] =
                       build_script([@ EXCEPT !.chain = chain, !.addr_index = index])]
  /\ UNCHANGED <<sc, host, draft, utxos, made, doc, spends>>

Restart(d) ==
  /\ store[d] # EmptyStore \/ draft[d] # Idle
  /\ store' = [store EXCEPT ![d] = EmptyStore]
  /\ draft' = [draft EXCEPT ![d] = Idle]
  /\ UNCHANGED <<sc, host, utxos, made, doc, spends>>
-----------------------------------------------------------------------------
(* Addresses, coins, documents. *)

Offer(script, at) == [script |-> script, at |-> at]

TWEAK == 1

\* Addresses that are shown to a payer: the account's receive addresses and one
\* stealth address, KIP-22 addresses, the address on a device's screen, the
\* next free address of a branch, the one address of a static wallet.
Offered ==
  CASE sc.kind = "account" ->
         { Offer(host.wallet.receive[n], Path(0, 0, n - 1)) : n \in DOMAIN host.wallet.receive }
         \cup { Offer(P2pk(Stealth(derive_account_key(s), TWEAK)), Path(0, 2, TWEAK)) :
                s \in { x \in {sc.who[1]} : host.wallet # NoWallet } }
    [] sc.kind = "kip22" ->
         IF host.kip22 = <<>> THEN {}
         ELSE { Offer(a.script, Path(0, 0, a.index)) :
                a \in UNION { Range(derive_kip22_addresses(host.kip22, 0, i, 1)) : i \in sc.shown } }
    [] sc.kind = "multi" ->
         IF host.desc = NoDesc THEN {}
         ELSE { Offer(P2sh(RedeemAt(host.desc, Path(0, 0, 0))), Path(0, 0, 0)) }
    [] OTHER ->
         { Offer(config_address(store[e[1]][e[2]]),
                 Path(store[e[1]][e[2]].cosigner_index, store[e[1]][e[2]].chain,
                      store[e[1]][e[2]].addr_index)) :
           e \in { x \in Devices \X (1 .. MAX_MULTISIG_WALLETS) : store[x[1]][x[2]].active } }
         \cup
         { Offer(scan.receive, Path(scan.cosigner, 0, scan.receive_index)) : scan \in
           IF sc.kind # "multi_hd45" \/ host.desc = NoDesc THEN {}
           ELSE { [cosigner |-> c] @@ finalize_branch_scan(host.desc, c, BRANCH_DEPTH, utxos) :
                  c \in 0 .. Len(host.desc.parts) - 1 } }

Fund ==
  /\ made < sc.funds /\ made' = made + 1
  /\ \E offer \in Offered :
       utxos' = utxos \cup {[id |-> made', script |-> offer.script, at |-> offer.at]}
  /\ UNCHANGED <<sc, host, store, draft, doc, spends>>

\* A single-key coin as the builder writes it, with or without its path.
AccountInput(u, hinted) ==
  Input(u.script, <<>>, NoHint,
        IF hinted /\ u.at.chain <= 1 THEN <<u.at.chain, u.at.index>> ELSE <<>>, FALSE)

Kip22Input(u) ==
  LET key == derive_kip22_addresses(host.kip22, u.at.chain, u.at.index, 1)[1].key
  IN Input(u.script, kip22_redeem_script(key), NoHint, <<>>, TRUE)

Coins(ids) == [n \in DOMAIN ids |-> CHOOSE u \in utxos : u.id = ids[n]]

\* Every document the host can make of a choice of coins.
Documents(ids, hinted) ==
  LET coins == Coins(ids)
      Made(inputs, change) == [ids |-> ids, inputs |-> inputs, outputs |-> <<Destination, change>>]
  IN CASE sc.kind = "account" ->
            { Made([n \in DOMAIN ids |-> AccountInput(coins[n], hinted)], Output(script, NoHint)) :
              script \in {host.wallet.change[1], Last(host.wallet.change)} }
       [] sc.kind = "kip22" ->
            { Made([n \in DOMAIN ids |-> Kip22Input(coins[n])], Output(a.script, NoHint)) :
              a \in Range(derive_kip22_addresses(host.kip22, 1, 0, 1)) }
       [] OTHER ->
            create(host.desc, coins[1].script, 0, utxos)
            \cup IF sc.kind # "multi_hd45" THEN {}
                 ELSE UNION { consolidate(host.desc, coins, c, utxos) :
                              c \in 0 .. Len(host.desc.parts) - 1 }

HostReady == IF IsMultisigScene THEN host.desc # NoDesc ELSE TRUE

CoinChoices == { SetToSortSeq(S, <) : S \in (SUBSET { u.id : u \in utxos }) \ {{}} }

Build ==
  /\ doc = NoDoc /\ spends < MAX_SPENDS /\ HostReady
  /\ \E ids \in CoinChoices, hinted \in BOOLEAN :
       \E d \in Documents(ids, hinted) :
         doc' = [altered |-> FALSE,
                 tweak |-> IF \E u \in Range(Coins(ids)) : u.at.chain = 2 THEN TWEAK ELSE 0] @@ d
  /\ spends' = spends + 1
  /\ UNCHANGED <<sc, host, store, draft, utxos, made>>

\* What comes back from the carrier need not be what the host wrote: a hint
\* that leads elsewhere, an output that pays someone else under our path.
Alter ==
  /\ doc # NoDoc /\ ~doc.altered /\ \A n \in DOMAIN doc.inputs : doc.inputs[n].sigs = <<>>
  /\ \/ \E n \in DOMAIN doc.inputs, hint \in {Hint(0, 0, 0), Hint(1, 1, 1), NoHint} :
          doc' = [doc EXCEPT !.altered = TRUE, !.inputs[n].hint = hint]
     \/ \E n \in DOMAIN doc.inputs :
          doc' = [doc EXCEPT !.altered = TRUE, !.inputs[n].path = <<1, 1>>]
     \/ doc' = [doc EXCEPT !.altered = TRUE, !.outputs[2].script = P2sh(<<"other">>)]
     \/ \E hint \in {Hint(0, 0, 0), Hint(0, 1, 0), Hint(1, 1, 1)} :
          doc' = [doc EXCEPT !.altered = TRUE, !.outputs[2].hint = hint]
  /\ UNCHANGED <<sc, host, store, draft, utxos, made, spends>>

Accounts(d) == [n \in DOMAIN sc.held[d] |->
                  IF sc.held[d][n] = 0 THEN NoKey ELSE derive_account_key(sc.held[d][n])]
Ms45Accounts(d) == [n \in DOMAIN sc.held[d] |->
                  IF sc.held[d][n] = 0 THEN NoKey ELSE derive_multisig_account_key(sc.held[d][n], 0)]

\* The signing entry points the device offers for the inputs of a document.
SignedBy(d, inputs, tweak) ==
  { sign_transaction_multisig(inputs, sc.held[d], active) : active \in 0 .. Len(sc.held[d]) }
  \cup { sign_multisig_account_sets_input(inputs, Accounts(d), Ms45Accounts(d), 0),
         sign_transaction_multisig_accounts(inputs, Accounts(d), 0) }
  \cup { sign_transaction_multi_addr(inputs, account, tweak) :
         account \in Range(Accounts(d)) \ {NoKey} }
  \cup { sign_matching_inputs(inputs, derive_address_key(account, 0)) :
         account \in Range(Accounts(d)) \ {NoKey} }

Sign(d) ==
  /\ doc # NoDoc
  /\ \E result \in SignedBy(d, doc.inputs, doc.tweak) : doc' = [doc EXCEPT !.inputs = result.inputs]
  /\ doc' # doc
  /\ UNCHANGED <<sc, host, store, draft, utxos, made, spends>>

Required(input) ==
  LET script == analyze_input_script(input)
  IN IF script.multisig # <<>> THEN script.multisig[1].m ELSE 1

Complete(input) == Len(input.sigs) >= Required(input)

\* Where the change of an unaltered document went.
ChangePath ==
  LET script == doc.outputs[2].script
  IN CASE sc.kind = "account" ->
            Path(0, 1, (CHOOSE n \in DOMAIN host.wallet.change : host.wallet.change[n] = script) - 1)
       [] sc.kind = "kip22" -> Path(0, 1, 0)
       [] sc.kind = "multi_hd45" ->
            Path(doc.outputs[2].hint.cosigner, 1, doc.outputs[2].hint.index)
       [] OTHER -> (CHOOSE u \in utxos : u.script = script).at

Broadcast ==
  /\ doc # NoDoc /\ ~doc.altered /\ \A n \in DOMAIN doc.inputs : Complete(doc.inputs[n])
  /\ made < MAX_COINS /\ made' = made + 1
  /\ utxos' = { u \in utxos : u.id \notin Range(doc.ids) }
               \cup {[id |-> made', script |-> doc.outputs[2].script, at |-> ChangePath]}
  /\ doc' = NoDoc
  /\ UNCHANGED <<sc, host, store, draft, spends>>

Discard ==
  /\ doc # NoDoc /\ doc' = NoDoc
  /\ UNCHANGED <<sc, host, store, draft, utxos, made, spends>>

Next ==
  \/ HostImport \/ HostExtend \/ HostKip22 \/ HostDescriptor
  \/ Fund \/ Build \/ Alter \/ Broadcast \/ Discard
  \/ \E d \in Devices :
       \/ BeginConfig(d) \/ FinishConfig(d) \/ ImportDescriptor(d) \/ SelectAddress(d)
       \/ Restart(d) \/ Sign(d)
       \/ \E seed \in Range(sc.who) : SetCosigner(d, seed)

Spec == Init /\ [][Next]_vars
-----------------------------------------------------------------------------
(* Properties. *)

\* The wallet as its participants agreed on it, in whatever order.
Agreed == parse_descriptor(TypedText(CHOOSE order \in sc.orders : TRUE))

Configs(d) == { store[d][i] : i \in { k \in 1 .. MAX_MULTISIG_WALLETS : store[d][k].active } }

\* However the participants were listed, scanned, imported or exported, host
\* and devices hold the same wallet: the script on a device's screen is the
\* one the host derives for that path, a device of a 45' wallet shows the
\* family of its own key, and every coin lies where it was said to lie.
ScriptsAgree ==
  IsMultisigScene =>
    /\ \A d \in Devices : \A config \in Configs(d) :
         /\ config.script = RedeemAt(Agreed, Path(config.cosigner_index, config.chain, config.addr_index))
         /\ config.v45 => config.parts[config.cosigner_index + 1].key.seed \in Range(sc.held[d])
    /\ host.desc # NoDesc => \A u \in utxos : u.script = P2sh(RedeemAt(host.desc, u.at))

SignAll(inputs) ==
  FoldLeft(LAMBDA ins, d : sign_transaction_multisig(ins, sc.held[d], 0).inputs,
           inputs, [d \in Devices |-> d])

AllComplete(inputs) == \A n \in DOMAIN inputs : Complete(inputs[n])

\* How deep the devices search for the key of a coin: an address of a multisig is
\* looked up in the cached table (cached_address_material), any other one is scanned for.
InReach(u) ==
  u.at.index < CASE sc.kind = "multi_hd" -> ADDR_SCAN_DEPTH
                 [] sc.kind = "multi_hd45" -> MAX_DISCOVERY_INDEX
                 [] OTHER -> SIGN_MATCH_DEPTH

\* The account as another device gets it from an exported private key.
ReimportedAccount(seed) ==
  LET key == derive_account_key(seed)
  IN import_xprv(serialize_account_xprv(key, parent_fingerprint(Parent(key))))

\* The host builds a document that spends a coin of a multisig and the devices complete it.
CompletedByAll(u) ==
  \E made1 \in create(host.desc, u.script, 0, utxos) : AllComplete(SignAll(made1.inputs))

Spendable(u) ==
  CASE sc.kind = "account" ->
         LET account == ReimportedAccount(sc.who[1])
             By(hinted) == sign_transaction_multi_addr(<<AccountInput(u, hinted)>>, account, TWEAK)
         IN AllComplete(By(TRUE).inputs) /\ (InReach(u) => AllComplete(By(FALSE).inputs))
    [] sc.kind = "kip22" -> InReach(u) => AllComplete(SignAll(<<Kip22Input(u)>>))
    [] sc.kind = "multi_hd" -> CompletedByAll(u) = InReach(u)
    [] OTHER -> InReach(u) => CompletedByAll(u)

\* The host's balance and branch scans miss no coin they cover, place each one
\* where it was paid, and offer as next an address that holds nothing.
ScansAreComplete ==
  /\ sc.kind = "account" =>
       LET listed == { u \in utxos : u.script \in Range(wallet_addresses(host.wallet)) }
           balance == summarize_balance(host.wallet, listed)
           On(chain) == { u \in utxos : u.at.chain = chain }
       IN /\ balance.coins = Cardinality(On(0) \cup On(1))
          /\ balance.receive = { u.at.index : u \in On(0) }
          /\ balance.change = { u.at.index : u \in On(1) }
  /\ sc.kind = "multi_hd45" /\ host.desc # NoDesc /\ doc = NoDoc =>
       \A c \in 0 .. Len(sc.who) - 1 :
         \A scan \in {finalize_branch_scan(host.desc, c, BRANCH_DEPTH, utxos)} :
           /\ scan.labelled = { [id |-> u.id, at |-> u.at] : u \in
                { x \in utxos : x.at.cosigner = c /\ x.at.index < BRANCH_DEPTH } }
           /\ \A u \in utxos : /\ scan.receive_index < BRANCH_DEPTH => u.script # scan.receive
                               /\ scan.change_index < BRANCH_DEPTH => u.script # scan.change

\* Every coin paid to an address that was offered, and every change, is seen by
\* the host's scans where it was paid, can be built into a document and
\* completed by the devices, within the depth each side searches; a coin of a 44'
\* multisig beyond the cached table is not (see ReachIsAsStated).  (A document in
\* flight changes none of this.)
CoinsCanBeSpent ==
  /\ ScansAreComplete
  /\ doc = NoDoc /\ HostReady => \A u \in utxos : Spendable(u)

\* What address_lookup.rs says of SIGN_MATCH_DEPTH: it is the depth of "key MATCHING
\* during signing (P2PK funding + per-address multisig)", and the index of a coin "must
\* be reachable here or signing returns 0 sigs".
ReachIsAsStated ==
  sc.kind = "multi_hd" /\ doc = NoDoc /\ HostReady =>
    \A u \in utxos : u.at.index < SIGN_MATCH_DEPTH => CompletedByAll(u)

\* Whatever hints a document carries, a signature is one of the key that its
\* place in the script names, of a seed some device holds, and no place is
\* signed twice.
SignedByItsKey ==
  \A n \in DOMAIN doc.inputs :
    LET in == doc.inputs[n]
        info == analyze_input_script(in).multisig
        named == IF info # <<>> THEN info[1].keys
                 ELSE IF is_p2pk(in.script) THEN <<in.script[2]>> ELSE <<in.redeem[2]>>
    IN /\ \A k \in DOMAIN in.sigs :
            /\ in.sigs[k].pos + 1 \in DOMAIN named
            /\ in.sigs[k].key = named[in.sigs[k].pos + 1]
            /\ \E d \in Devices : in.sigs[k].key.seed \in Range(sc.held[d]) \ {0}
       /\ \A j, k \in DOMAIN in.sigs : j # k => in.sigs[j].pos # in.sigs[k].pos

\* The change a device shows as its wallet's own is: an output labelled with
\* a chain pays the wallet there, an untouched document is never called
\* forged, and an output put in the change's place is, by every device that
\* knows the wallet and finds the inputs' paths as the host wrote them.
ChangeIsOurs ==
  doc # NoDoc =>
    LET change == doc.outputs[2]
    IN \A d \in Devices :
         \A forged \in {find_forged_change(doc.inputs, doc.outputs, store[d])},
            chain \in {trusted_multisig_output_chain(doc.inputs, doc.outputs, store[d], 2)} :
            /\ chain # 2 =>
                 /\ change.script = branch_address(Agreed, change.hint.cosigner, chain, change.hint.index)
                 /\ forged = 0
            /\ ~doc.altered => forged = 0
            /\ (sc.kind = "multi_hd45" /\ Configs(d) # {} /\ change.script = P2sh(<<"other">>))
                 => forged = 2 /\ chain = 2
            /\ sc.kind = "kip22" =>
                 LET owned == find_owned_script(kip22_derive_account_key(sc.who[1], 0), change.script)
                 IN IF doc.altered /\ change.script = P2sh(<<"other">>) THEN owned = <<>>
                    ELSE owned = <<1, 0>>

\* Both: a device signs with the keys a script names and vouches for its own change only.
DevicesKeepTheirOwn == SignedByItsKey /\ ChangeIsOurs
=============================================================================
