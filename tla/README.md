# Verification of kaspa-portal

TLA+ models of the parts of `kaspa-portal` whose correctness depends on the order in which things
happen, on two implementations agreeing, or on arithmetic at its edges: what a caller is told, what
reaches the node, what the index holds, what a signature may be used for, what a script lets whom
spend. Paths below are relative to the crate's `src/` directory (`src/src/` in this tree).

## 1. The system

`KaspaPortal` (`portal/facade.rs`) is a facade over capability APIs. The core domains are plain Rust
without I/O; transports, clocks, entropy and storage are injected by `platform/native` and
`platform/browser`.

| Component | State | Operations | Hard behaviour |
|---|---|---|---|
| Native wRPC transport (`platform/native/websocket*.rs`) | driver slot, driver task: socket, active call, queued calls, queued notifications, waiters, remembered subscriptions | call, next_notification, disconnect; connect, replay, send, receive, deadline | concurrent callers, several drivers after `disconnect`, timeouts against late answers, one retry, replay of subscriptions |
| Browser transport (`platform/browser/websocket.rs`, `notifications.rs`) | one socket per call; a registry of notification sockets, a key slot, one waiter | call, subscribe_on, next_on, close | callbacks, one waiter slot, opens that overlap, a close that wakes nobody |
| `NetworkApi` (`network/facade.rs`) | connection status | connect, disconnect, reconnect, health | status written after an await |
| Resolver and first connection (`network/resolver.rs`, `portal/resolved.rs`) | answers, queue, seen endpoints, current attempt | absorb answer, attempt, fail, succeed | race of resolver answers and connection attempts |
| Live indexer bridge (`portal/facade.rs`) | task slot | start_live_indexer, disconnect, drop | check, await, act; a task that ends silently |
| Indexer (`indexer/`) | maps and queues of transactions, blocks, matches; duplicate window; matchers; checkpoint; events | ingest, batch, sync, reconcile, query, save, restore, clear | eviction, expiry, reorganisation, atomic batches, crash between save and restore |
| Chain queries (`chain/`, `network/queries`, `network/codec`, `network/wrpc`) | none | encode, decode | wire formats |
| Transaction model, mass, policy, sighash (`transaction/{model,mass,policy,sighash,consensus}`) | none | pure functions | overflow, storage mass, dust, time locks |
| Builders (`transaction/builder`) | none (a plan) | select coins, plan, consolidate, build | fees that depend on their own size, change below dust |
| KSPT and PSKT (`transaction/interchange`) | a partially signed transaction | parse, validate, sign, merge, finalise, relay | signatures of several signers in any order; several readers of one document |
| Signing protocols (`transaction/signing`, `crypto/{anti_klepto,adaptor}.rs`) | transcripts, nonces, presignatures | commit, reveal, sign, verify, complete, extract | two-party protocols, replayed or reordered messages |
| QR frames (`transaction/interchange/qr`) | a reassembly buffer | encode, push frame, finish | lost, repeated, reordered frames, frames of another message |
| Contracts (`contract/`) | none (scripts) | build script, recognize, pick branch, plan spending | which branch may spend when, boundary times and amounts |
| Wallet (`wallet/`) | keys, descriptors, words, seeds | mnemonic, BIP32, BIP85, addresses, scanning | the same address derived twice, index limits, slips of a copyist |
| Crypto (`crypto/`), privacy (`privacy/`) | none | Schnorr, ECIES, KDF, stealth addresses | arithmetic on a curve |
| Randomness (`randomness/`) | last beacon, health counters | fetch, mix, verify, statistical tests | freshness, rate limits, one source failing |
| Primitives (`primitives/`) | none | addresses, hashes, scripts, byte readers | boundary lengths |
| Browser bindings (`platform/browser/bindings`), self tests (`self_test/`) | none | conversion to and from JavaScript values; known-answer tests | conversion only |

`KaspaPortal` calls `NetworkApi`, which calls the transport through `NetworkClient`; `ChainApi`,
`WalletApi` and `TransactionApi` share that client. The live bridge feeds notifications of the
transport into `IndexerApi`; `ChainApi` looks transactions up in it. The wallet's keys feed the
signing code; builders produce what KSPT and PSKT carry; contracts write the scripts that covenant
inputs spend; broadcast submits what finalisation yields.

### What makes each component correct

- *Transports*: a call gets the answer to its own request; a transaction is submitted at most once;
  subscriptions are in force before a new socket is used; notifications keep their order and are not
  lost; a timeout says truly whether the request left; every wait ends.
- *Indexer*: queues and maps agree and respect the limits; matches point at retained transactions; a
  failed batch leaves no trace; after any reorganisation, crash or restore the index is that of the
  chain at its checkpoint; events suffice to follow the store.
- *Live bridge, first connection, NetworkApi*: at most one consumer; no waiter is forgotten; the first
  node that accepts wins, and giving up means that every node offered was tried.
- *Interchange and signing*: everybody who accepts a document reads the same transaction; merging is
  independent of order and repetition and drops nothing; what is finalized can be spent; a nonce signs
  one message; completing an adaptor signature reveals the secret and nothing else does.
- *QR*: any sequence of frames yields the message or nothing.
- *Builders*: value is conserved, fees cover the mass, change is never dust.
- *Contracts*: a script lets a spend through exactly when the documented terms allow it.
- *Wallet*: host and devices derive the same scripts, every coin received can be found and spent, a
  device signs with the keys it was asked for; words, backups and addresses come back as they were or
  are refused; the signing policy keeps its hours.

## 2. Plan

Done, in this order:

1. `WrpcDriver` refining `WrpcService`, with `WrpcDriverProofs`.
2. `Indexer`, with `IndexerProofs` (and `IterationProofs` below it).
3. `Portal`: the resolver race, the status of `NetworkApi` and the live bridge, with `PortalProofs`.
4. `QrFrames`: the animated-QR transfer that carries interchange documents, with `QrFramesProofs`.
5. `Cosign`: relaying, signing, merging and finalizing a transaction with several signers, with
   `CosignProofs`.
6. `Script`, `Templates`, `Claims`, `Covenants`: the contracts, their documents and the script engine.
7. `Schnorr`, `Signing`: the two-round signing protocols, with `SigningProofs`.
8. `Pskt`, `PsktRelay`, `Kspt`, `Interchange`: the documents and their readers.
9. `Browser`: the browser transport, with `BrowserProofs`.
10. `Mass`, `Builder`: fees and plans.
11. `Keys`, `Device`, `Wallet`, `Calendar`, `Texts`, `Vault`, `Custody`: wallet, devices and what an owner
    keeps.
12. `Unlock` and `Desk`, which put components side by side that one application holds, and the four runs
    about what comments and tests of the repository say and the code does not do.

Left: the byte layouts of the signing messages, the sighash, ECIES and stealth addresses, randomness, the
network codec, and the lexical part of JSON and hexadecimal. Proofs left: the three properties of `Wallet`.

## 3. Modules and the code

| Module | Extends | Models |
|---|---|---|
| `WrpcDriver` | | `platform/native/websocket.rs`, `websocket_driver.rs` |
| `WrpcService` | | what `network/transport/traits.rs` promises; refined by `WrpcDriver` |
| `WrpcDriverProofs` | `WrpcDriver` | the proofs |
| `Indexer` | | `indexer/engine.rs`, `facade.rs`, `storage/`, `scanner.rs` |
| `IterationProofs` | | induction and recursion over `0 .. n`, for the proofs below |
| `IndexerProofs` | `Indexer`, `IterationProofs` | the proofs |
| `Portal` | | `portal/{builder,resolved,facade}.rs`, `network/facade.rs` |
| `PortalProofs` | `Portal` | the proofs |
| `QrFrames` | | `transaction/interchange/qr/` |
| `QrFramesProofs` | `QrFrames` | the proofs |
| `Cosign` | | `transaction/interchange/kspt/{signing,codec}`, `pskt/pipeline`, `transaction/signature_verification` |
| `CosignProofs` | `Cosign`, `IterationProofs` | the proofs |
| `Browser` | | `platform/browser/{websocket,notifications}.rs` |
| `BrowserProofs` | `Browser` | the proofs |
| `Script` | | `contract/covenant/{branch,execution}.rs`, script writing and reading; the engine (external) |
| `Templates` | `Script` | the redeem scripts and recognizers of `contract/` |
| `Claims` | `Templates` | `pskt/pipeline/specialized`, `compact/verify.rs` for covenants, `verified/` |
| `Covenants` | `Claims` | the life of a covenant coin, `builder/pskb/global_thread.rs` |
| `Schnorr` | | `crypto/{schnorr,anti_klepto,adaptor}.rs` |
| `Signing` | `Schnorr` | `transaction/signing`, `kspt/signing/anti_klepto` |
| `SigningProofs` | `Signing`, `IterationProofs` | the proofs |
| `Pskt` | | `interchange/pskt/{schema,standard}` |
| `PsktRelay` | `Pskt` | `interchange/pskt/{pipeline,review,wire}` |
| `Kspt` | `PsktRelay` | `interchange/kspt/{wire,codec}`, `pipeline/compact/parser.rs` |
| `Interchange` | `Kspt` | a document on its way between host and signers |
| `Mass` | | `transaction/mass.rs`, `builder/planning/amounts`, `builder/covenant/fee.rs` |
| `Builder` | `Mass` | `transaction/builder` |
| `Keys` | | `wallet/{derivation,key,multisig}` |
| `Device` | `Keys` | `kspt/signing/context`, `transaction/model/multisig`, change recognition |
| `Wallet` | `Device` | `wallet/{account,multisig}`, `builder/multisig`, and the chain |
| `Calendar` | | `transaction/policy/time.rs` |
| `Texts` | | `wallet/mnemonic/bip39`, `wallet/key/xpub/base58.rs`, `primitives/address` |
| `Vault` | `Keys`, `Calendar`, `Texts` | `wallet/mnemonic`, `derivation/bip85.rs`, `crypto/kdf/password.rs` |
| `Custody` | `Wallet`, `Vault`, `Builder` | all three, for one owner |
| `Unlock` | `Cosign`, `Covenants` | the two ways a coin is unlocked |
| `Desk` | `Browser`, `Portal`, `QrFrames` | what an application embeds beside the wallet |
| `MC...` | the above | values of the constants for TLC |

`PROJECT.json` maps every definition to the lines it models. Definitions whose comment starts with
"Mutant" are deliberate mistakes, used to show that a property notices them; no specification reaches
them.

### WrpcDriver

`drv[d]` is the local state of the `d`-th `run_driver` task. Its `phase` is the await point the task
stands at: the head of the loop (`top`), inside `establish_stream` (`connect`, `replay`, `ack`), at the
send of `start_next_queued_call` (`start`), and in the `select!` (`select`). `cl[c]` is the position of
a caller in `call_inner` (acquire a driver, send the command, await the oneshot, decide on a retry).
A *ticket* names one attempt of one call and stands for its oneshot: a ticket is live while its caller
still awaits that attempt, so dropping a future (`Cancel`) turns every copy of it in any queue into a
dead sender, as in the code. `reqs` is the history of the process-wide `NEXT_REQUEST_ID` counter, `hist`
the outcomes callers were told. The fields `open`, `srv`, `got` and `took` describe the peer's side of
the socket and the notification stream and have no counterpart in memory.

Abstractions: payloads are dropped except the topic of a subscription; errors keep the single
distinction `reconnectable_transport_error` draws; time is a timeout that may fire at any moment while
it is armed; backoff delays and pings have no effect on the state and are left out. The peer may answer,
answer with an error, close, stay silent, and (constant `Faults`) send undecodable frames, foreign
request ids and answers marked with another operation.

### Indexer

`eng` is the `IndexerEngine` behind the mutex: the maps and order queues of `MemoryStore`, the match
queue, the duplicate window, the matchers, the three retained-record gauges, the checkpoint and the running
flag. An operation
that loops over records (`ingest_block_batch`, `apply_sync_batches`, `reconcile_virtual_chain`,
`restore_state`, `restore_snapshot`) is a *job*: it holds the lock, takes one record per step, and either
commits or, for the operations under `with_atomic`, is aborted and leaves `eng` alone. `saves` holds the
states captured by `save_to` whose futures have not completed; they complete in any order, fail, or die
with the process (`Restart`). `cfg`, chosen in `Init` and never changed, is the configuration: limits,
rules, blocks, chains, states an earlier process left in storage, and the calls the application uses.

Abstractions: a transaction is its id, the rules that match it and whether `validate_transaction` refuses
it are part of `cfg`; the order in which a `HashMap` of matchers is scanned is a nondeterministic choice;
event payloads are reduced to the last news of each transaction and the set of announced matches. Byte
matching, paging and the pure statistics counters are left out.

### Portal

`race` is the `Race` of `first_connected` with the answers still outstanding; `PopEndpoint`, `Answer`,
`AnswersEnd`, `AttemptFails`, `AttemptOk` and `GiveUp` are the arms of its loop and `select!`. After a
connection, application tasks run `start_live_indexer`, whose check of the slot (`StartLive`), awaited
subscription (`SubscribeOk`, `SubscribeFails`), spawn (`Spawn`) and installation (`Replace`) are separate
steps, `KaspaPortal::disconnect` (`Abort`, then `NetDisconnect`), and the calls of `NetworkApi`. The
spawned loop waits for a frame, ingests it, and sleeps after a transport error; an abort takes effect at
its next await. `net` reduces the transport of `WrpcDriver` to what the bridge sees: whether the current
driver remembers the subscription, and its queued frames.

### QrFrames

`screen` is what a producer displays: a payload and the frames `frame_payloads` cuts it into. `decoder` is
the thread-local `DECODER`. `Show` replaces the screen, `Scan(i)` feeds the `i`-th code of the loop to
`decode_frame` (missed, repeated and reordered frames are the choices of `i`), `Reset` is `reset_decoder`.
`Absorb` is `DecoderState::absorb` with its outcome, and `AfterFrame` and `Returned` are the state and the
value `decode_frame` leaves and returns. `got` is a history variable: what was returned since the screen
changed.

Abstractions: a byte is a unit of a short sequence; the session id is the payload itself, that is, the
96-bit digest prefix is taken to be free of collisions; a code that is not a frame (a payload that fits
one code is shown bare) is refused before the decoder is touched and has no `Scan` step. A producer is its
pair of capacities: this library's are `MAX_FRAME_DATA` and `SINGLE_FRAME_DATA`, and the comment at
`codec.rs:19` speaks of hardware with smaller ones.

### Cosign

`host` is the PSKT a wallet keeps: the transaction, the derivation hints, and per input the `partialSigs`
map. `docs` are the compact KSPTs in circulation, each with its records per input and its completeness
flag; a document is never withdrawn, so a signer may work on an old one and an answer may arrive late,
twice or not at all. `Export` is `encode_pskt`; `Sign` is `parse_compact_kspt`, one of the four signing entry
points and `serialize_compact_kspt`; `SignPskt` does all that and the merge in one call; `Merge` is
`merge_signed_kspt`. `Edit`, `AttachDerivation` and `AttachSole` are the mutations of a PSKT, which keep
the signatures it has. The host's checks (`HasRequired`, `VerifyInput`, `VerifiedComplete`) and the
device's (`DeviceHasRequired`, `DeviceVerify`, `IsFullySigned`) are separate operators because the code has
both. `PsktFinal`, `KsptFinal` and `Witness` are finalization, which changes no state. `Spends` is not
code of the repository: it says what the scripts accept.

Abstractions: a signature is the key, transaction, input and nonce it was made with, and verifies for
exactly these; the nonce distinguishes signatures made with fresh entropy. `tx` is everything the sighash
commits to. A script is its kind, its keys in order and, for a covenant, what the branch resolver and
`trace_witness` say of it (`IsInput`); a seed is the set of keys behind each derivation the code tries.
Signing calls that fail leave their KSPT alone, so they have no step.

### Script, Templates, Claims, Covenants

A script is a sequence of tokens and a byte string a sequence of atoms with a width, so that pushes,
substrings at offsets and hashes of script bytes keep their meaning. `Templates` has every builder of
`contract/` as the sequence of its pushes, and every recognizer as what it reads back. `Claims` says how a
signed covenant document becomes a signature script: typed claims with their proof material, completeness
and witness plans. `Covenants` runs one coin of one contract: time passes, a party proposes a spend on one of
the paths, the witness is laid out, the engine (external: modelled from what the templates rely on)
judges it, and the document of the spend, whole or with one flaw, is finalized. A `custom` contract grows
by one piece at a time, so that branch resolution, witness tracing and execution meet every short script.

### Schnorr, Signing

A point is its discrete logarithm over a small prime field; a point and its negation share the x coordinate.
The hash is a parameter (`Digest`), which `MCSigning` defines recursively.
`Signing` has the messages and checks of the three two-round protocols (KAKP for transactions, CVSG for
covenant commitments, PSWG for the adaptor pre-signatures of a private swap). A host asks, reveals and
checks; a device commits, finalizes, restarts, and may be asked again; messages arrive late, mixed up or
damaged. The loop around the library's calls belongs to applications and is modelled from the calls. A
device holds accounts, each an account key and keys of addresses. `Open` are the positions of an input it
signs: an account whose key the script names signs where it is named first (`ByAccount`), any other one
wherever one of its addresses is named (`ByAddress`), a P2PK input is signed by an address (`ByPayee`).
`ToSign` are those of them that have a slot left (`MAX_SIGS_PER_INPUT`). The search for the accounts to finalize
with is the caller's choice.

### Pskt, PsktRelay, Kspt, Interchange

A document is a function on its field names. `Pskt` has the schema and the standard signer's reader and
writer, `PsktRelay` the host's relay, review and edits, `Kspt` the compact wire as a sequence of tokens with
its two readers. An entry of `bip32Derivations` is its path, or one with another path nested in front of it
(`Behind`): the signer takes the first `derivationPath` in the bytes of the entry (`FirstPath`), the relay the
entry's own member (`OwnPath`). `Interchange` sends a document through all of them, with a damaged wire where
the question is whether a reader notices.

### Browser

`sock` are the notification sockets with their queue and waiter, `registry` the sockets whose handlers are
installed (`SOCKETS`), `slot` is `notification_key`, `task[a]` the control state of an application task, and
`call[a]` its request-scoped socket with the result cell. JavaScript runs one callback at a time and, before
the next event, every continuation whose promise is resolved: `Calm` (no continuation is due) guards the
events of the browser. A dropped future runs its destructors and resumes nowhere (`Drop`). `left` holds
what the bounds leave.

### Mass, Builder

`Mass` is the arithmetic of fees with checked operations; money is in units of 10 sompi so that the
constants of the code fit TLC's integers. `Builder` has one action per builder; callers name coins by their
place in the list, also one coin twice, where the code does not refuse it; `plan` is the plan it
returned, and `Settle` applies a plan to the wallet's coins, so that a second plan meets the change of the
first.

### Keys, Device, Wallet

A key is the path that leads to it, for both halves. `Device` has the stored multisig wallets, the search for
the keys of an input and the recognition of change; `Wallet` the watch-only hosts, with their
addresses, scans and spends. Each side derives on its own; the properties compare what they derive.

### Calendar, Texts, Vault

`Texts` has recovery words, Base58 and addresses with their checksums and regroupings of bits, `Calendar`
dates, weekly windows and the policy, `Vault` what a device keeps: words, a seed derived in pieces,
child words, backups and the policy with a clock that may be set back.

### Custody, Unlock, Desk

Each puts components side by side that share no state: a behaviour moves one of them while the others stay
in one initial state, so that a run asks about all of them what separate runs would. `Desk` is the conjunction
of the fairness of its parts, none of which asks a part in its initial state to move.

## 4. What the runs check

| Run | Question | Properties |
|---|---|---|
| `wrpc_calls` | do concurrent calls, retries, cancellations and disconnects over two drivers keep answers and submissions straight, and does every wait end? | `AnswerIsOwn`, `SubmitAtMostOnce`, `OnlyActiveUnanswered`, `ImplementsService`, `EveryWaitEnds` |
| `wrpc_notes` | are notifications ordered and delivered, and subscriptions replayed, across socket losses? | `NotesInOrder`, `FrameLostOnlyToCancelled`, `ReplayedOnStream` |
| `desk` | browser: do overlapping opens, failures, closes and dropped futures leave the slot usable, the frames complete and every wait ending? | `SlotIsRegistered`, `FramesComplete`, `TimeoutIsTold`, `EveryWaitReturns` |
| | portal: is every offered node tried, and can no bridge task escape `disconnect` and drop? | `FailuresAreComplete`, `BridgeReachable`, `PortalRunsItsCourse` |
| | QR: does a decoder that survives screens, producers, missed and repeated frames deliver what is on the screen and nothing else? | `DeliveredIsOnScreen`, `AssemblyIsFaithful`, `ScreenIsDelivered` |
| `indexer` | do maps, queues, limits and matches agree, do drained events account for the store, and is the index that of the accepted chain over forks, crashes and late saves? | `StoreIsSound`, `EventsTellTheStory`, `IndexIsTheChain`, `RestoreIsFaithful` |
| `unlock` | can several signers, in any order and with repetitions, produce anything the scripts refuse or lose a signature? | `FinalizationIsSound`, `SignaturesKept`, `MergeIsOrderFree` |
| | does the engine accept a spend of a contract exactly when its terms allow it, and are exactly the documents finalized that open their script? | `PromiseKept`, `ContractsPayAsAgreed`, `ReadBack` |
| `interchange` | does everybody who accepts a document read the same transaction? | `OneMeaning`, `WireIsCanonical` |
| `signing` | do the two-round protocols survive repeated, late, mixed-up and damaged messages and restarts? | `NonceSignsOnce`, `AnswersVerify`, `OnlyAnswersVerify` |
| `custody` | do host and devices agree on scripts and keys, do copies come back as they were, and does the policy keep its hours? | `ScriptsAgree`, `CoinsCanBeSpent`, `DevicesKeepTheirOwn`, `CopiesReadBack`, `SigningKeepsHours` |
| | do plans add up, pay for the mass of the transaction they become, and cost no more than needed? | `PlansAreSound`, `PayloadSendIsCheapest` |

All hold. Four further runs check what a comment or a test states and TLC refutes, on the instances above:

| Run | Statement | What the code does |
|---|---|---|
| `limits` | `StatedLimitsHold`: a whitelist spend binds output zero to the destination it proves (`contract/merkle/script.rs:13`), and an untagged deposit of a spending limit is never spent (`covenant/script/spending_limit.rs:10`) | the paid destination is a witness item of its own; zero tagged outputs are what a close expects, so a deposit up to the cap is spent. Either contract alone violates it |
| `reach` | `ReachIsAsStated`: per-address multisig signing reaches `SIGN_MATCH_DEPTH` (`address_lookup.rs:45`) | `multisig_material` asks the table of `ADDR_SCAN_DEPTH` addresses (`kspt/signing/multisig.rs:174`) |
| `quote` | `QuoteIsLargest`: `maximum_withdraw` is the largest fit (`transaction/mass.rs:329`, `unit_tests/mass.rs:199`) | a small payout has a large storage mass, so a fit is not monotone and the bit search misses it: a thread of 10 KAS with a cap of 2,097,150 sompi at rate 100 is quoted zero although the cap fits |
| `fresh` | `NonceIsFresh`: a nonce that is not fresh is refused (`crypto/anti_klepto.rs:140`) | a multisig that names a derived address twice is signed at both places with one entropy sample, and the two slots are finalized with different host scalars |

Every property of a passing run has a mutant in `PROJECT.json`: a plausible mistake in the code it is about, under
which TLC finds it violated with the same configuration. Several properties are conjunctions of named
parts: `EveryWaitEnds` is `CallReturns` and `DisconnectStops`; `PortalRunsItsCourse` is `OfferedIsTried`,
`DropEndsBridge` and `BlocksAreConsumed`; `EveryWaitReturns` is `ReaderIsServed` and `CallReturns`;
`FinalizationIsSound` is `FinalIsSpendable` and `FlagsAgree`; `MergeIsOrderFree` is `MergeCommutes` and
`RetryMerges`; `AnswersVerify` is `TranscriptsVerify` and `SwapsComplete`; `OnlyAnswersVerify` is
`AcceptedIsAnswered` and `NothingElseSpends`.

Some statements have conditions that the code needs:

- `FrameLostOnlyToCancelled` allows one loss, which the code has: `handle_command` hands a queued frame to a
  `NextNotification` request without noticing that its caller has gone.
- `StoreIsSound` excludes duplicate matches only when the duplicate window covers the store.
  `IndexerConfig::default()` is not such a configuration (4,096 ids for 50,000 transactions): there a
  redelivered transaction that is retained, but forgotten by the window, is scanned again and its matches
  are kept twice. It says that queries return no expired record only for records stamped with the clock's
  time: `purge_expired` stops at the first record that is not expired, so a record an application stamps
  late can hide older ones behind it.
- `IndexIsTheChain` is about applications that only follow the chain (`OnlyFollowsChain`): they keep all
  records without a lifetime, with room for those of every chain, and what an earlier process left in the
  storage is the state of a chain or is refused. Chains form a tree (`ConfigAssumption`), and the checkpoint
  is the block up to which one was applied.
- `EventsTellTheStory` is about applications that neither replace the store nor follow reorganisations, whose
  event names no transaction.
- `MergeCommutes` is about branches in which no key stands twice (`Unambiguous`), and `RetryMerges` about inputs
  with no more keys than a KSPT has records (`Roomy`); section 7 says how the proofs found both.
- `FlagsAgree` is about inputs that host and device count alike (`Ordinary`).
- `NonceSignsOnce` allows two signatures of one nonce where a script names an address of the device twice
  (`NamedTwice`), which the code has; session and host secret are the same even then. The run `fresh` is about
  that case.
- `PromiseKept` states the terms that the scripts enforce: they are the documented ones but for the two limits
  of the run `limits`.
- `CoinsCanBeSpent` says of a per-address multisig that exactly the coins within the device's table can be
  completed; what the comment says of it is the run `reach`.
- `PlansAreSound` does not promise that a plan spends no coin twice where the caller named one twice to
  `create_pskb_with_utxos`, KIP-22 with chosen coins, a manual deposit or multisig consolidation: these take the
  list as it is. Every other part of it holds of such a plan too. Of a withdrawal quote it says that one sompi
  more does not fit; that no larger amount fits is what `mass.rs` states and the run `quote` refutes.
- `ReadersAgree` (in `OneMeaning`) compares multisig hints where no entry has a path nested in front of its own
  (`PathsInFront`): for such an entry signer and relay can take different hints. No line says that they
  agree, a hint is "never authoritative" (`standard/parser/derivation.rs:7`), and that a device signs with the
  named key whatever the hint is part of `DevicesKeepTheirOwn`.
- `ReaderIsServed` is about one reader at a time and a socket that `disconnect` does not close;
  `BlocksAreConsumed` about a bridge that no ingest error ended.

## 5. Bounds

Constants whose names start with `Max`, and `MAX_COINS`, `MAX_SPENDS` of `Wallet`, bound what may happen; the
other constants are parameters of the code, scaled down where their size does not matter.

- `wrpc_calls`: two submissions of one caller and a read or a notification wait of another, so that two
  calls can queue behind the active call of a cancelled third; two drivers, so that an old one is stopping
  while a new one works; a channel of one command, so that a sender blocks; one connect retry; every fault.
- `wrpc_notes`: two topics, so that a replay can fail between two of them; three frames and a queue of
  two, so that frames queue behind each other and the queue overflows; two waits, so that a cancelled
  waiter can stand before a live one. One driver suffices, since nothing of this state is shared between
  drivers. The run uses the symmetry of its topics, which no operation tells apart.
- `desk`, browser: two subscribers and a task with two calls, each a read or a request; two sockets and two
  frames, so that two opens overlap and a frame can arrive before, between and after the reads; one disconnect
  and one dropped future. There is one reader, as the crate's facade has. Portal: three resolvers and two
  nodes, so that a node can be offered twice and once more beside an attempt; two tasks with two calls each,
  so that two starts and a disconnect overlap; three bridge tasks and two blocks. QR: payloads that share
  fragments, so that a frame of one would complete another; producers of two capacities, so that the same
  payload comes with two totals; one payload at `MAX_FRAMES` (4) and one beyond it for the smaller producer;
  three screens and one reset. The assumption `RealCapacities` of `MCDesk` evaluates the split at the code's own
  sizes for every length.
- `indexer`, configuration `Store`: limits of one transaction, one block, two matches and a window of one id,
  so that every insertion evicts; two rules that share a transaction; two matcher ids, so that the newest
  can be removed; a snapshot left by an earlier process. `Events`: a block with a refused transaction behind
  a valid one, a store of one, three clock values with a lifetime of one. `Chain`: a fork of two tips that
  share a transaction, a block above one of them that holds a refused one, two saves in flight, states of an
  earlier process in storage. The store is large enough for the chain, which is what `IndexIsTheChain` is
  about.
- `unlock`, transactions: a 2-of-3 multisig, so that one signer too many can answer; a 2-of-2 with a derivation hint
  whose seeds are in the opposite order of the keys; a covenant with the same key in two branches beside a
  P2PK input; a covenant without a key; one with an open selector. One device holds two cosigners, one an
  imported key and fresh entropy with two nonces. Three KSPTs at a time, so that two answers to one export
  exist; one edit. `MAX_SIGS` is the number of keys, as in the code (`MAX_SIGS_PER_INPUT` and
  `MAX_MULTISIG_KEYS` are both 5). Contracts: twenty-five of them with times, amounts and counts at their edges,
  among them an untagged deposit and a whitelist whose spender names any destination; custom scripts of up to
  six pieces; one finalization. The twenty-five flaws meet every path of a claim; on paths without claims only
  the unsigned document differs from the honest one.
- `interchange`: integer widths scaled to 15, 63, 127 and 255 (`u16`, `u32`, safe JavaScript integers, `u64`),
  so that each boundary is met; a document with every pair of changes of its fields, and with every single
  value a reader must refuse; one rewrite, one edit, one damaged token.
- `signing`: a field of 10,007 elements, so that distinct terms are distinct numbers; two requests, two draws
  and one mixed-up message; two accounts with an address each; a scene per protocol, one for derived keys and
  a script that names an address twice beside one that names an account twice.
- `custody`: six scenes of wallets and devices, depths of 2, 4 and 2 for the scans so that an address can lie
  between them, three coins and one spend; recovery words of the real lengths with a hash that is arbitrary
  but fixed, four PBKDF2 rounds so that a derivation can be interrupted at each, eight bytes of Base58; four
  spans of the clock, in minutes, around a leap day, the ends of two years and the end of 2099. Plans: money in
  units of 10 sompi with `u64::MAX` at 2·10^9, so that overflow is met; coin lists and amounts at the dust edges
  and where the fee search takes many passes; coins named once, twice and not at all; payloads that change
  which mass decides; two spends, so that change is spent.

Deadlock is not checked, because a run ends when its bounds are used up and, in the code, when nobody calls.

## 6. Fairness

`wrpc_calls` assumes weak fairness of each caller's and driver's own steps. Tokio polls every ready task; a
`select!` picks among its ready arms at random; `connect` and the acknowledgement of a replay carry a
timeout, the active call a deadline, and a socket send completes or fails. Fairness is never assumed of
the peer, of `Begin`, `Cancel` or `Disconnect`. The bounds on calls and frames keep commands and
notifications from arriving for ever, which is why weak fairness is enough. A notification wait may last
for ever and `CallReturns` excludes it.

`desk` assumes, of the browser, weak fairness of the continuations of each task that makes such a call (`Doing`)
and of the timer of a request, and of nothing else: the event loop runs what is due. Sockets may stay silent for ever.

Of the portal, it assumes weak fairness of the bridge tasks, of popping the next endpoint, and of an attempt's end
(it has timeouts). Nothing makes a resolver answer: `OfferedIsTried` has to hold with silent resolvers.

Of the decoder, it assumes weak fairness of scanning each code of the screen: the display loops and the camera stays on
it. It does not assume that the user calls `reset_decoder`.

## 7. Proofs

### WrpcDriverProofs

For any callers, topics, operations, bounds, capacities and faults, the transport keeps its types
(`TypeCorrect`), subscriptions are in force on every socket in use (`ReplayCorrect`), the only answer a socket
can still owe is the active call's (`NoStaleAnswer`), and frames are queued without gap or reordering
(`NotesOrdered`). The properties are not inductive by themselves: that a socket in use misses no subscription
depends on how far the replay has come, and that only the active call is unanswered depends on a socket
under replay owing exactly the replayed request. The invariant `IInv` adds this as a predicate on one
driver record: `PhaseInv` (what the task holds at each await point, and that the first `pos - 1`
subscriptions are acknowledged during a replay), `OpenInv` (which ids a peer may still answer) and
`NoteInv` (queue, waiters and counters). Since a step of a driver replaces only its own record, each action is
shown to map a good record to a good record; `SetDriver` lifts this to all drivers, and callers' steps
change no more than a driver's channel, its shutdown flag or an unborn driver's phase.

An answer goes to the call that asked (`AnswersAreOwn`), a submission leaves at most once
(`SubmissionsLeaveOnce`), frames reach the callers who wait (`FramesReachCallers`), and the transport
implements `WrpcService` (`TransportRefinesService`, without its fairness). They rest on `TicketsInOrder`: a
ticket is in one place only - a channel, a queue, the active call of one driver, a waiter list; a ticket some
driver holds is awaited, or its call was cancelled; a ticket not yet sent is not in the log of requests; an
active call was sent under its id. A step is summarised by what it does to tickets: `Serves(d)` for a step
of a driver, `Moves(c)` for one of a caller. The refinement maps every step to a step of the service or to
stuttering from the same invariant. The proof of `FrameLostOnlyToCancelled` failed for its first
statement, which compared counts that a step without a frame leaves alone; it now speaks of steps that take
a frame (`took' > took`).

### PortalProofs

`BridgeReachable` holds for any number of application tasks and bridge tasks (`BridgeAlwaysReachable`). With
the types of the slot, the tasks and the applications it is inductive: the only step that starts a task
leaves it with an application in `replace`, the step that leaves `replace` puts the task into the slot and
aborts the one that was there, and every step that empties the slot aborts it or found it finished.

`LostRaceIsComplete` proves `FailuresAreComplete`: when `first_connected` gives up, every resolver that answered
with a node had that node tried, and the list of failures says so. `RaceInv` follows each answer: it is
refused, failed, being tried or queued, and in one of these places only.

### QrFramesProofs

`ScanDeliversScreen` proves `DeliveredIsOnScreen` for all payloads, producers and frame limits: what
`decode_frame` returns is the payload of the scanned frame's session, whatever fragments an earlier screen
left in the decoder. `AssemblyStaysFaithful` proves that the fragments held are those of the session, at
their places, and that a complete assembly is the payload: the chunks of `frame_payloads`, whose sizes
`BalancedCount` balances, concatenate to the payload. This is an induction over the chunks, done with the
least length at which the concatenation would differ. The assumption that a framed chunk is no larger
than what one code shows bare is the code's (`codec.rs`: 91 of 134 bytes).

### CosignProofs

`MergedSignaturesStay`, `FinalizationAlwaysSound` and `MergeAlwaysOrderFree` prove the three properties for all
transactions, devices and bounds. The invariant `CosignInv` has the shape of the PSKT, that the entries of each
input are a finite map from keys to signatures, and that each document's records are a list with distinct
positions of at most `MAX_SIGS` signatures whose flag is `IsFullySigned`. From it:

- a compatible insertion that replaces an entry replaces it by itself (`InsertKeeps`), so signatures stay;
- `WitnessSpends`: for each kind of script, what passed the host's checks is laid out as the script wants it
  (the sort by position is the ascending enumeration; a covenant's signatures are on the path, and as many
  as the path consumes, so the whole path is covered);
- `ChecksAgree`: the host's count over the map and the device's over the list are equal;
- `MatchesVerify` and `MatchesCollect`: matching records are the verified ones, so that merging two answers in
  either order makes the same union (`InsertIsUnion`, `SwapOnInput`), and a repeated answer adds nothing
  (`RetryOnInput`).

The assumption `IsInput` on a covenant is that its path consumes each active position once, which is what
`compact/verify.rs` relies on ("Signatures off the path fail their branch binding"). The attempts showed that
the order may matter when a key stands twice in the branch that is spent (so `Unambiguous`), and that a
retry can be refused when an input has more keys than `MAX_SIGS` (so `Roomy`); both conditions are in the
properties now, and section 8 says what happens without them.

### BrowserProofs

`SlotStaysRegistered`, `TimeoutsAreTold` and `ReadersGetEveryFrame` prove the three invariants of `Browser` for any
tasks, operations and bounds. `RequestInv` says that the handlers of a request live as long as the call, and
that its continuation is due exactly when there is a result, which keeps events out (`Calm`). `FrameInv`
says that a socket a subscriber waits for belongs to it alone and receives nothing into a queue until it
is registered.

### SigningProofs

`NonceNeverReused` proves `NonceSignsOnce` for any keys, documents, bounds and hash: what a device's nonce is
made of (`base`: key, message and entropy, with the adaptor point and the session for a pre-signature) is
finalized in one session with one host secret, and to one signature unless a script names an address of the
device twice, over restarts, repeated requests and devices without entropy. `NonceInv` says what
the device holds between the rounds: entropy that no released signature was made with (`Holding`), in a KAKP
document at most one new slot per input and key or an address named twice (`Repeats`), and, if there was no
entropy, slots that are exactly what signing without entropy gives (`ZeroSlot`), which `provisional_nonce`
then refuses to finalize. Every release has one of two bases (`RelInv`): with fresh entropy, or that of a pre-signature, which its base determines.
That an account key stands at one position only is `OpenIs`, from the way `account_positions` stops at the first
one and the assumption that no address has the key of an account; a proof without the exception fails at
`OpenIs`, and the run `fresh` shows why.
Since the hash is a parameter, the proof depends on what goes into a nonce and not on how it is mixed.

`AnswersAlwaysVerify` proves `AnswersVerify`: as long as no message was mixed up or damaged, the host accepts
every answer of KAKP, CVSG and PSWG, and every adaptor pre-signature that verifies, damaged messages or not,
completes to a signature that gives the secret back. `VerInv` says that as long as nothing was spliced every
request goes back to something the host asked, the device's session to a request and to the commitment it
sent, and every answer passes the check the host will make (`RequestInv`, `SessionInv`, `AnswerInv`). The
equations behind it (`s G = R + e P` for the even points, the two ways a nonce and a key may be negated, and the
adaptor that may be negated too) are proved for arithmetic modulo any odd `Q > 3`; the order of the records
of a KAKP transcript is that in which `FlattenSeq` lists the signed positions, by induction on inputs and
positions.

### IndexerProofs, IterationProofs

`StoreAlwaysSound`, `EventsAlwaysTell` and `RestoresAreFaithful` prove `StoreIsSound`, `EventsTellTheStory` and
`RestoreIsFaithful` for every set of configurations. The invariant of an engine, `Good`, says that each order
queue is a list of the keys of its map, that each match belongs to a retained transaction and to a rule that
matches it, that what was told in events and what is retained differ by what eviction and expiry explain,
that stamps are not of the future, and, where the window covers the store, that a retained transaction is in
it. It holds of `eng` and of the engine a job works on; `SavedInv` says the same of what is being saved or
in storage, and `RestoredTo` follows a restore record by record, up to the state that was saved. `IndexInv` is
their conjunction, which TLC checked on the `indexer` run before it was proved. The assumption `SavedUnder` is
that states in storage were saved by a process with equal limits. The attempts showed the conditions
under which the properties hold: matcher ids that are not given out again (`KeepsIds`), a window that covers
the store (`WindowCovers`), a lifetime that is not zero, and no reorganisation for the events.

`IndexIsAlwaysTheChain` proves `IndexIsTheChain` from `ChainInv`, beside `IndexInv`: the engine holds the chain to
its checkpoint, every state on its way to, in or from the storage that `validate_snapshot` accepts is the
state of the chain to its checkpoint, and the clone of a synchronisation is on its way (`Synced`): it holds
nothing but records of the target chain, each transaction under the first block of that chain that has it, the
batches still to come bring whatever is missing, in the order of the chain, and the duplicate window names
only retained transactions. Three things make this inductive. A transaction that two blocks share is kept
under the first of them, so a reorganisation that removes the second keeps it and one that removes the
first brings it again; two chains that share a block agree up to it (`ChainsAgree`), so what stays of one is
the beginning of the other; and `rebuild_recent_txids` forgets the removed transactions, without which the
window would refuse them when the new chain brings them. `ReorgChained` is the step that uses all three. The
property used to leave out applications with matchers; the proof showed that they need not be, and which
conditions are needed: no lifetime, and storage that holds a chain.

`IterationProofs` has the two facts these proofs and those of `Cosign` and `Signing` need about loops: a set
of numbers closed under successor holds all of `0 .. n` (`InductTo`), and a step relation can be iterated
(`IterExists`). They take sets and functions rather than operators, so that the provers can instantiate them.

### Assumptions

`BoundsAssumption`, `OpsAssumption`, `MarksAssumption`, `FaultsAssumption`, `PortalAssumption`,
`QrAssumption`, `ConfigAssumption`, `CosignAssumption`, `BrowserAssumption`, `SchnorrAssumption` and
`SigningAssumption` are those the proofs use: bounds are naturals, the group order is odd and private keys are not
zero, the channel holds a command, marks (`None`, `Replay`, the operations) are distinct from data, and
inputs have the shapes described above. `WidthAssumption`, `BuilderAssumption`,
`KeysAssumption`, `DeviceAssumption`, `WalletAssumption`, `TextsAssumption` and `VaultAssumption` belong to
modules without proofs. TLC evaluates all of them in the runs.

### Only model-checked

Liveness under fairness is out of the prover's reach: `EveryWaitEnds`, `PortalRunsItsCourse`,
`ScreenIsDelivered`, `EveryWaitReturns`. `Script`, `Templates`, `Claims`, `Covenants`, `Kspt`, `Interchange`, `Mass`,
`Builder`, `Calendar`, `Texts` and `Vault` reach recursive operators, which the prover does not support; what
those compute would need an induction over data as well. `OnlyAnswersVerify` says that nothing but an answer
passes for one, which holds only as far as the hash of the run has no collisions between the terms of the
run; no assumption on a hash into a finite field says so for all terms. The three properties of `Wallet`
compare searches and folds over derived keys and have no proof.

## 8. Not modelled, and known limits

The components of section 1 that have no module, and the parts of the others that are left out, are listed
with the reason in `PROJECT.json`. The modules leave out, besides what section 3 says: the facade's
`next_notification` loop over the browser transport; IndexedDB; an explicit change index, PSKB encoding and
plans of global threads in `Builder`; the parity of keys, sighash types and documents without change in
`Wallet`; seconds, the word list and the wiping of workspaces in `Vault`; storage mass and the JSON of a
finalized transaction in `Claims`. In `Interchange` a field or byte is one token, a signature is valid for
its key whatever the transaction (that is `Cosign`'s subject), readers take the document in one order, and
covenant redeems are opaque. The mapped lines are 21 % of the crate's lines, of which a large part are
unit tests.

Behaviour seen while modelling that no property covers, or that a property excludes:

*Transports.*
- `NetworkApi::reconnect` is `disconnect` followed by `connect` (`network/facade.rs:74`): the driver leaves with
  its subscription list (`platform/native/websocket.rs:125`), and a live bridge then waits on a transport
  that no longer subscribes. `docs/PUBLIC_API.md:70` says "successful subscriptions are replayed after
  reconnect", which is so for a lost socket (`ReplayedOnStream`).
- The status of `NetworkApi` is written after an await (`network/facade.rs:57`), so overlapping `connect` and
  `disconnect` calls can leave a status that is not the transport's.
- In the browser, two first subscriptions that overlap leave a socket registered that `disconnect` cannot
  reach (`platform/browser/notifications.rs:218`); a disconnect during an open is undone by it; a reader's
  error empties the slot of another socket; `close` and a second reader leave the first waiter's promise
  unresolved; a subscription on a socket the peer has closed succeeds; a dropped open leaves its socket open.

*Indexer.*
- A state saved under larger limits is restored under smaller ones (`indexer/storage/memory.rs:65`): the
  transactions are trimmed as they are inserted, then every saved match is inserted, those of trimmed
  transactions too.
- `restore_snapshot` (`indexer/engine.rs:284`) keeps the current matchers but brings back matches with the
  ids of the process that took the snapshot, and `restore_state` lets removed ids be given out again
  (`indexer/engine.rs:197`, `378`).
- A reorganisation announces counts, not the transactions it removes (`indexer/engine.rs:240`).
- The event queue (`indexer/engine.rs:40`) has no bound, and the live bridge drains none.
- Eviction and expiry do not lower the gauge of retained records (`indexer/engine.rs:329`,
  `indexer/metrics.rs:5`).

*QR.* `frame.rs:6` says that frames of another payload are rejected without resetting the assembly;
`decode_frame` (`codec.rs:219`) resets after every rejected frame, as its own comment says.
`ScreenIsDelivered` depends on the reset.

*Cosigning and interchange.*
- A multisig input is complete with exactly `m` signatures (`pskt/pipeline/compact/verify.rs:28`), and nothing
  removes one. A device that holds more cosigners than needed, or one answer too many, leaves a PSKT that
  is never complete. Signatures collected before an edit block it in the same way.
- A key twice in a branch can make a merged PSKT one that cannot be relayed; more keys than
  `MAX_SIGS_PER_INPUT` can make a retry refused.
- For covenants without a key on the chosen path, without a generic plan or with an open selector the host
  and the device count differently (`transaction/signature_verification/mod.rs:71`), so a device can refuse
  a KSPT the host exported.
- A derivation hint attached after an export changes the body that `validate_same_transaction`
  (`pskt/pipeline/compact/merge.rs:27`) compares: answers to that export can no longer be merged.
- The standard writer adds a preserved region for each null derivation entry
  (`pskt/standard/serializer/inputs.rs:249`) and a reader takes at most 16 (`preservation.rs:37`): a document
  signed on 15 or more inputs is written, and refused when read.
- Absent modifiable flags are written back as true; the standard parser ignores the derivation, stealth and
  vault extensions, reads the first path of an output only, and takes a `derivationPath` nested in front of an
  entry's own where the relay reads the member (`standard/parser/derivation.rs:13`, `relay_fields/scripts.rs:43`);
  an unknown number above `u64` is refused by
  the standard parser and relayed by the host; review drops the script version; a coin's covenant id is not
  carried in a KSPT.

*Contracts.*
- The whitelist and untagged deposits of a spending limit: the run `limits`.
- `commit_reveal/script.rs:24` documents another reveal script than the one the code writes.
- A private-swap claim needs no announcement, and the parts of a commitment may be divided anywhere.

*Signing.* A retry after a partly failed finalization yields a transcript the host refuses; the key search of
`finalization.rs:84` has limits of its own. Descriptors refuse repeated participants
(`wallet/multisig/grammar.rs:311`), but a redeem script that arrives with a document is not checked for a repeated
key: the run `fresh`. Inputs with a 45' hint (`kspt/signing/ms45.rs`) are in `Device`, not in `Signing`.

*Builders.*
- The fee walk refuses when the fee overshoots although the change could be burned (rate 300, 0.12 KAS left
  over), and gives up after 256 passes near a remainder of 2·sqrt(rate·C).
- `CovenantFeeShape` prices compute mass only; `PlansAreSound` states no more for deposits.
- `create_pskb_with_utxos` (`builder/standard.rs:141`), KIP-22 with chosen coins (`kip22.rs:50`), manual deposit
  selection and multisig consolidation accept a coin named twice; only `selection/explicit.rs:17` refuses it; a picked
  deposit that is short sends what is left; consolidation is not checked for dust; the multisig change index counts unspent
  coins only.

*Wallet and vault.*
- Multisig under 44' beyond index 19: the run `reach`. KIP-22 change is recognised up to 20; a wallet can be
  extended beyond index 99.
- The host allows 16 cosigners and a device 5; two extended keys that differ in the fingerprint pass the
  duplicate check.
- A passphrase longer than 248 bytes does not fit `salt_buf` (`bip39/seed.rs`); `KaspaNetwork::from_name` does not
  know "kaspa" (`address/mod.rs:64`).
- A weekly window cannot include 23:59; a lock beyond 2099 is invalid; a clock set back by less than the time
  since the last floor is not noticed.
