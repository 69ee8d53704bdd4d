------------------------------ MODULE Covenants ------------------------------
(***************************************************************************)
(* The life of one covenant coin: a contract of kaspa-portal is funded,    *)
(* its parties propose spends on the paths the contract documents, the     *)
(* witness is laid out by covenant/execution.rs (or by the contract's own  *)
(* signature-script builder), and the script engine judges it.  Threads    *)
(* are also spent by the plans of builder/pskb/global_thread.rs.  A        *)
(* contract of kind "custom" is a script that grows by one piece at a      *)
(* time: the signer resolves and traces scripts it did not write.          *)
(***************************************************************************)
EXTENDS Claims, FiniteSetsExt

CONSTANTS
  Contracts,     \* name -> [kind, f, id, amount, offers, extras, horizon, spends]: the
                 \* contracts funded; horizon bounds the DAA score, spends the confirmed spends
  Parties,          \* the parties; a party's key is its name
  Withdrawals,   \* amounts asked of plan_global_thread_withdrawal
  Wallets,       \* wallet totals offered to plan_global_thread_topup
  NetworkFee,    \* the fee of those plans
  Journals,      \* oracle journals [price, time, root]
  Pieces,        \* token sequences a custom script is made of
  Flaws,         \* what may be wrong with the document of a typed claim
  MaxFinalized,  \* bound: the coins of a contract whose spends become documents
  MaxPieces      \* bound on the pieces of a custom script

VARIABLES
  name,          \* which contract was funded
  fields,        \* its fields; a roll changes the oracle's price and time
  redeem,        \* its redeem script, as it stands; a roll changes it, Write extends it
  coin,          \* the live coin [amount, born], or None
  daa,           \* the chain's DAA score
  proposed,      \* the spend being judged, or None
  confirmed,     \* number of spends confirmed
  taken,         \* sompi that left a thread through its capped path
  paid           \* sompi paid to each party

covenantVars == <<name, fields, redeem, coin, daa, proposed, confirmed, taken, paid>>

c == Contracts[name]

-----------------------------------------------------------------------------
(* The contracts and the selectors of their documented paths. *)

Build(kind, f) ==
  CASE kind = "allowance"      -> build_global_allowance_script(f)
    [] kind = "spending_limit" -> build_global_spending_limit_script(f)
    [] kind = "coin_allowance" -> build_allowance_script(f)
    [] kind = "dms"            -> build_dms_csv_script(f)
    [] kind = "piggy_bank"     -> build_piggy_bank_script(f)
    [] kind = "savings"        -> build_timelocked_savings_script(f)
    [] kind = "tagged_vault"   -> build_tagged_vault_script(f)
    [] kind = "split_vault"    -> build_split_vault_script(f)
    [] kind = "escrow"         -> build_escrow_script(f)
    [] kind = "timed_escrow"   -> build_timelocked_escrow_script(f)
    [] kind = "shipping"       -> build_ship_escrow_script(f)
    [] kind = "oracle_v1"      -> build_oracle_v1_covenant_script(f)
    [] kind = "payjoin"        -> build_payjoin_covenant_script(f)
    [] kind = "private_swap"   -> build_private_swap_script(f)
    [] kind = "commit_reveal"  -> build_commit_reveal_script(f)
    [] kind = "whitelist"      -> build_merkle_whitelist_script(f)
    [] kind = "crowdfund"      -> crowdfund_redeem_script(f)
    [] kind = "oracle"         -> build_oracle_mb_redeem(f)
    [] kind = "custom"         -> <<>>

Self == P2SH(redeem)

\* The fields each recognizer finds in a script.
Recognizers(script) ==
  [allowance      |-> global_allowance_script_fields(script),
   spending_limit |-> global_spending_limit_script_fields(script),
   dms            |-> dms_script_fields(script),
   piggy_bank     |-> piggy_bank_script_fields(script),
   savings        |-> timelocked_savings_script_fields(script),
   escrow         |-> escrow_script_fields(script),
   shipping       |-> ship_escrow_terms(script),
   oracle_v1      |-> oracle_v1_script_fields(script),
   payjoin        |-> payjoin_script_fields(script),
   private_swap   |-> private_swap_script_fields(script),
   commit_reveal  |-> commit_reveal_script_fields(script),
   whitelist      |-> merkle_whitelist_script_fields(script)]

\* For every path, the branches (numbered in script order) whose selector is true.
PathSelectors ==
  [allowance      |-> [owner |-> {0}, withdraw |-> {}],
   spending_limit |-> [withdraw |-> {}],
   coin_allowance |-> [owner |-> {0}, withdraw |-> {}],
   dms            |-> [owner |-> {0}, heir |-> {}],
   piggy_bank     |-> [goal |-> {0, 1}, deadline |-> {0}, deposit |-> {}],
   savings        |-> [first |-> {0}, second |-> {}],
   tagged_vault   |-> [owner |-> {}],
   split_vault    |-> [owner |-> {}],
   escrow         |-> [release |-> {0}, refund |-> {1}, award |-> {2, 3}, cancel |-> {2},
                       buyer_disputes |-> {4}, seller_disputes |-> {}],
   timed_escrow   |-> [release |-> {0}, refund |-> {1}, timeout |-> {}],
   shipping       |-> [pickup |-> {0, 1}, cancel |-> {0, 2}, pickup_expired |-> {0},
                       confirm |-> {3, 4, 5}, award |-> {3, 4, 6}, delivery_expired |-> {3, 4},
                       refund |-> {3}],
   oracle_v1      |-> [owner |-> {0}, attested |-> {}],
   payjoin        |-> [owner |-> {0}, join |-> {}],
   private_swap   |-> [claim |-> {0}, refund |-> {}],
   commit_reveal  |-> [owner |-> {0}, reveal |-> {}],
   whitelist      |-> [owner |-> {0}, listed |-> {}],
   crowdfund      |-> [refund |-> {0}, sweep |-> {}],
   oracle         |-> [roll |-> {0}, passthrough |-> {}],
   custom         |-> <<>>]

Paths(kind) == DOMAIN PathSelectors[kind]

\* A piggy bank without conditions has no inner branch.
SelectorsOf(path) ==
  IF c.kind = "piggy_bank" /\ fields.goal = 0 /\ fields.deadline = 0
  THEN PathSelectors[c.kind][path] \ {1} ELSE PathSelectors[c.kind][path]

-----------------------------------------------------------------------------
(* Witnesses. *)

VK       == Named("verifying_key", 300)
PartA    == Named("part_a", 8)
PartB    == Named("part_b", 8)
Leaves   == <<P2PK("owner"), P2PK("other"), P2PK("third")>>
Forged   == Named("unsolved", 32)

\* Data a path takes besides selectors and signatures: every path has a
\* faithful choice and one that does not open what the contract committed to.
\* The whitelist takes the leaf it hashes and, as an item of its own, the script it
\* compares with output zero: the leaf again, or the output's script.
Data(path) ==
  CASE path = "attested" -> { MsgSig(k, fields.statement) : k \in {fields.oracle, "owner"} }
    [] path = "reveal"   -> { PartB, Forged }
    [] path = "listed"   -> (0 .. Len(Leaves) - 1) \X {"leaf", "output"}
    [] path = "sweep"    -> { Proof(VK), Forged }
    [] path \in {"roll", "passthrough"} -> Journals
    [] OTHER             -> {"none"}

\* The journal: price, publish time, root of the price feed.
JournalBytes(j) == U64(j.price) \o U64(j.time) \o j.root

RECURSIVE ProofItems(_)
ProofItems(proof) ==
  IF proof = <<>> THEN <<>>
  ELSE <<Num(Head(proof).direction), Head(proof).sibling>> \o ProofItems(Tail(proof))

\* The items of a traced path, as the signer and the finalizer fill them in.
Filled(items, by) ==
  [n \in 1 .. Len(items) |-> IF items[n][1] = "selector" THEN Bool(items[n][2]) ELSE TxSig(by)]

\* <part A> <part B> <signature> OP_0, and the like: the first item is on top.
build_oracle_mb_publish_sig_script(f, j) ==
  <<True, JournalBytes(j), Proof(<<f.image, Hash(JournalBytes(j))>>),
    Named("digests", 32), Named("index", 4), Named("claim", 32)>>

SpendWitness(script, s) ==
  CASE s.path = "attested" -> <<False, TxSig(s.by), s.data>>
    [] s.path = "reveal"   -> <<False, TxSig(s.by), s.data, PartA>>
    [] s.path = "listed"   ->
         <<False, TxSig(s.by), Leaves[s.data[1] + 1]>>
         \o ProofItems(generate_merkle_proof(Leaves, s.data[1]))
         \o <<IF s.data[2] = "leaf" THEN Leaves[s.data[1] + 1] ELSE s.outs[1].spk>>
    [] s.path = "sweep"    -> <<False, VK, s.data, Num(1), Named("total", 32)>>
    [] s.path = "roll"     -> build_oracle_mb_publish_sig_script(fields, s.data)
    [] OTHER ->
         LET branches == resolve_covenant_branches(script)
             t == trace_witness(script, branches.selector, s.true)
         IN IF t.err = "" THEN Filled(t.items, s.by) ELSE <<>>

\* What indexers read off a confirmed spend: the selector next to the redeem push.
is_single_path(script) ==
  LET body == IF Len(script) > 1 /\ IsPush(script[1]) /\ ByteLen(script[1][2]) = 8
                 /\ script[2] = <<"DROP">> THEN 3 ELSE 1
  IN /\ Len(script) > body
     /\ IsPush(script[body]) /\ ByteLen(script[body][2]) = 32
     /\ script[body + 1] = <<"CHECKSIGVERIFY">>

spend_path(witness, script) ==
  CASE is_single_path(script) -> "Owner"
    [] ~is_single_path(script) /\ witness # <<>> /\ witness[1] = True  -> "Owner"
    [] ~is_single_path(script) /\ witness # <<>> /\ witness[1] = False -> "Other"
    [] OTHER -> "None"

-----------------------------------------------------------------------------
(* Judging a spend: consensus admits it when it is final and every script of *)
(* the contract accepts (external).                                          *)

Total(seq) == FoldLeft(LAMBDA sum, x : sum + x.amount, 0, seq)

SigScript(script) == PushHeader(ByteLen(ScriptBytes(script))) \o ScriptBytes(script)

InputOf(script, amount, id, sequence, from) ==
  [spk |-> P2SH(script), amount |-> amount, id |-> id, sequence |-> sequence,
   sig |-> SigScript(script), from |-> from]

\* Inputs beside the contract's: a wallet's coin, another contribution to the
\* campaign, the oracle's heartbeat, a second coin of the same address.
ExtraInput(x) ==
  CASE x.from = "wallet" -> [spk |-> P2PK(x.key), amount |-> x.amount, id |-> ZERO_HASH,
                             sequence |-> 0, sig |-> TxSig(x.key), from |-> "wallet"]
    [] x.from = "campaign" ->
         InputOf(crowdfund_redeem_script([fields EXCEPT !.contributor = x.key]),
                 x.amount, ZERO_HASH, 0, "campaign")
    [] x.from = "heartbeat" ->
         InputOf(build_oracle_mb_heartbeat_script, x.amount, fields.heartbeat, 0, "heartbeat")
    [] x.from = "self" -> InputOf(redeem, x.amount, ZERO_HASH, 0, "self")

Rolled(j)     == [fields EXCEPT !.price = j.price, !.time = j.time]
NextOracle(j) == P2SH(build_oracle_mb_redeem(Rolled(j)))

\* An output to a party, to this contract, or to the oracle's next redeem script.
OutputOf(o, data) ==
  [amount |-> o.amount, by |-> 0,
   id  |-> CASE o.tag = "own"       -> c.id
             [] o.tag = "heartbeat" -> fields.heartbeat
             [] OTHER               -> ZERO_HASH,
   spk |-> CASE o.to = "self"      -> Self
             [] o.to = "heartbeat" -> P2SH(build_oracle_mb_heartbeat_script)
             [] o.to = "rolled"    -> NextOracle(data)
             [] OTHER              -> P2PK(o.to)]

Transaction(s) ==
  [ins   |-> <<InputOf(redeem, coin[1].amount, c.id, s.sequence, "contract")>> \o s.ins,
   outs  |-> s.outs, lock |-> s.lock, index |-> 0]

\* The heartbeat an oracle roll must spend runs its own script.
HeartbeatAccepts(tx) ==
  \A n \in 1 .. Len(tx.ins) :
     tx.ins[n].from = "heartbeat" =>
       Accepts(build_oracle_mb_heartbeat_script, <<>>, [tx EXCEPT !.index = n - 1])

Admitted(s) ==
  LET tx == Transaction(s) IN
  /\ s.lock <= daa /\ s.sequence <= daa - coin[1].born
  /\ Total(tx.outs) <= Total(tx.ins)
  /\ Accepts(redeem, SpendWitness(redeem, s), tx)
  /\ HeartbeatAccepts(tx)

-----------------------------------------------------------------------------
(* What each contract promises, from its documentation: the same decision    *)
(* without scripts, selectors or stacks.                                     *)

PaysTo(s, n, spk)   == Len(s.outs) > n /\ s.outs[n + 1].spk = spk
Age                 == daa - coin[1].born

\* One tagged output at this address that keeps all but the cap, or a close of
\* a balance within the cap.
ThreadPromise(s) ==
  LET next == Tagged(s.outs, c.id) IN
  \/ Cardinality(next) = 1 /\ \A n \in next : s.outs[n].spk = Self
                                             /\ s.outs[n].amount >= coin[1].amount - fields.max
  \/ next = {} /\ coin[1].amount <= fields.max

ShippingPromise(f, s) ==
  LET tr == Tranches(f.product, f.fee)
      funded  == coin[1].amount = tr.total
      transit == coin[1].amount = tr.remainder /\ ~funded
      toBuyer == PaysTo(s, 0, P2PK(f.buyer)) /\ Len(s.outs) = 1
      delivered == /\ PaysTo(s, 0, P2PK(f.seller)) /\ PaysTo(s, 1, P2PK(f.deliverer))
                   /\ s.outs[2].amount = f.fee /\ Len(s.outs) = 2
  IN CASE s.path = "pickup" -> /\ funded /\ s.by = f.deliverer /\ PaysTo(s, 0, Self)
                               /\ s.outs[1].amount = tr.remainder
                               /\ PaysTo(s, 1, P2PK(f.seller)) /\ Len(s.outs) = 2
       [] s.path = "cancel"           -> funded /\ s.by = f.arbiter /\ toBuyer
       [] s.path = "pickup_expired"   -> funded /\ daa >= f.pickup /\ toBuyer
       [] s.path = "confirm"          -> transit /\ s.by = f.buyer /\ delivered
       [] s.path = "award"            -> transit /\ s.by = f.arbiter /\ delivered
       [] s.path = "delivery_expired" -> transit /\ daa >= f.delivery /\ delivered
       [] s.path = "refund"           -> transit /\ s.by = f.arbiter /\ toBuyer

EscrowPromise(f, s) ==
  CASE s.path = "release" -> s.by = f.alice /\ PaysTo(s, 0, f.bob_spk)
    [] s.path = "refund"  -> s.by = f.bob /\ PaysTo(s, 0, f.alice_spk)
    [] s.path = "award"   -> s.by = f.arbiter /\ PaysTo(s, 0, f.bob_spk)
    [] s.path = "cancel"  -> s.by = f.arbiter /\ PaysTo(s, 0, f.alice_spk)
    [] s.path = "timeout" -> daa >= f.lock /\ PaysTo(s, 0, f.alice_spk)
    [] s.path = "buyer_disputes"  -> s.by = f.alice /\ PaysTo(s, 0, Self)
    [] s.path = "seller_disputes" -> s.by = f.bob /\ PaysTo(s, 0, Self)

PiggyPromise(f, s) ==
  CASE s.path = "deposit" -> PaysTo(s, 0, Self) /\ s.outs[1].amount >= coin[1].amount
    [] f.goal = 0 /\ f.deadline = 0 /\ s.path # "deposit" -> s.by = f.owner
    [] s.path = "goal"     /\ f.goal + f.deadline > 0 ->
         s.by = f.owner /\ f.goal > 0 /\ s.outs[1].amount >= f.goal
    [] s.path = "deadline" /\ f.goal + f.deadline > 0 ->
         s.by = f.owner /\ f.deadline > 0 /\ daa >= f.deadline

SweepPromise(s) ==
  LET ins == Transaction(s).ins IN
  /\ s.data = Proof(VK)
  /\ Len(ins) <= CROWDFUND_MAX_TX_INPUTS
  /\ \A n \in 1 .. Len(s.ins) : s.ins[n].from = "campaign"
  /\ Total(ins) >= fields.goal
  /\ Len(s.outs) = 1 /\ PaysTo(s, 0, fields.organizer)
  /\ Total(ins) - s.outs[1].amount \in 0 .. CROWDFUND_MAX_SWEEP_FEE_SOMPI

\* The heartbeat, when spent, lives on once at its address and loses nothing.
HeartbeatPromise(s) ==
  \A n \in 1 .. Len(s.ins) : s.ins[n].from = "heartbeat" =>
     LET next == Tagged(s.outs, fields.heartbeat) IN
     /\ Cardinality(next) = 1
     /\ \A m \in next : s.outs[m].amount >= s.ins[n].amount
                        /\ s.outs[m].spk = P2SH(build_oracle_mb_heartbeat_script)

\* A roll moves price and time to the journal's, never back in time; both
\* oracle and heartbeat live on exactly once.
RollPromise(s) ==
  /\ s.data.root = fields.set_root /\ s.data.price >= 1
  /\ s.data.time >= fields.time
  /\ Cardinality(Tagged(s.ins, fields.heartbeat)) = 1 /\ HeartbeatPromise(s)
  /\ s.outs[1].spk = NextOracle(s.data)
  /\ Cardinality(Tagged(s.outs, c.id)) = 1
  /\ s.outs[1].amount >= coin[1].amount - ORACLE_MB_MAX_FEE_SOMPI

Promise(s) ==
  LET f == fields IN
  CASE s.path = "owner" /\ c.kind \in {"allowance", "coin_allowance", "dms"} -> s.by = f.owner
    [] s.path = "owner" /\ c.kind = "tagged_vault" -> s.by = f.owner /\ s.outs[1].id = c.id
    [] s.path = "owner" /\ c.kind = "split_vault"  -> /\ s.by = f.owner
                                                     /\ Cardinality(Tagged(s.outs, c.id)) = 2
    [] s.path = "owner" /\ c.kind \in {"oracle_v1", "payjoin", "commit_reveal", "whitelist"} ->
         s.by = f.owner /\ daa >= f.lock
    [] c.kind = "allowance" /\ s.path = "withdraw" ->
         s.by = f.beneficiary /\ daa >= f.start /\ Age >= f.cooldown /\ ThreadPromise(s)
    [] c.kind = "spending_limit" -> s.by = f.owner /\ Age >= f.cooldown /\ ThreadPromise(s)
    [] c.kind = "coin_allowance" /\ s.path = "withdraw" ->
         /\ s.by = f.beneficiary /\ daa >= f.start /\ Age >= f.cooldown
         /\ PaysTo(s, 0, Self) /\ s.outs[1].amount >= coin[1].amount - f.max
         /\ Len(s.outs) = 2
    [] s.path = "heir"     -> s.by = f.heir /\ Age >= f.inactivity
    [] c.kind = "savings"  -> /\ s.by = (IF s.path = "first" THEN f.wallet1 ELSE f.wallet2)
                              /\ daa >= f.lock
    [] c.kind = "piggy_bank" -> PiggyPromise(f, s)
    [] c.kind \in {"escrow", "timed_escrow"} -> EscrowPromise(f, s)
    [] c.kind = "shipping"   -> ShippingPromise(f, s)
    [] s.path = "attested"   -> s.by = f.beneficiary /\ s.data = MsgSig(f.oracle, f.statement)
    [] s.path = "join" -> /\ s.by = f.beneficiary
                          /\ 1 + Len(s.ins) >= f.min_inputs /\ Len(s.outs) >= f.min_outputs
                          /\ s.ins # <<>> /\ s.ins[1].spk # Self
    [] s.path = "claim" -> /\ s.by = f.claimer /\ s.ins = <<>>
                           /\ Len(s.outs) = 1 /\ PaysTo(s, 0, f.spk)
                           /\ coin[1].amount - s.outs[1].amount <= PRIVATE_SWAP_MAX_FEE_SOMPI
    [] c.kind = "private_swap" /\ s.path = "refund" -> s.by = f.owner /\ daa >= f.lock
    [] c.kind = "crowdfund" /\ s.path = "refund"    -> s.by = f.contributor /\ daa >= f.lock
    [] s.path = "reveal" -> s.by = f.owner /\ s.data = PartB
    [] s.path = "listed" -> /\ s.by = f.owner
                            /\ s.data[2] = "leaf" => PaysTo(s, 0, Leaves[s.data[1] + 1])
    [] s.path = "sweep"  -> SweepPromise(s)
    [] s.path = "roll"   -> RollPromise(s)
    [] s.path = "passthrough" ->
         /\ HeartbeatPromise(s)
         /\ Cardinality(Tagged(s.outs, c.id)) = 1
         /\ \A n \in Tagged(s.outs, c.id) :
              s.outs[n].spk = Self /\ s.outs[n].amount >= coin[1].amount - ORACLE_MB_MAX_FEE_SOMPI

-----------------------------------------------------------------------------
(* Plans for threads: builder/pskb/global_thread.rs. *)

MIN_THREAD_CONTINUATION_SOMPI == 10000000

ThreadKinds == {"allowance", "spending_limit"}

\* A coin that carries the thread's covenant id; a plain deposit at its address does not.
IsThread == c.kind \in ThreadKinds /\ c.id # ZERO_HASH

\* The policies the wallet makes from the script's own numbers.
ThreadPolicy ==
  LET csv == Or(extract_csv_sequence(redeem), 0)
      start == Or(extract_cltv_locktime(redeem), 0)
  IN IF c.kind = "allowance"
     THEN [lock |-> start, csv |-> csv, topup_sequence |-> 0, topup_true |-> {0},
           spender |-> fields.beneficiary]
     ELSE [lock |-> 0, csv |-> csv, topup_sequence |-> csv, topup_true |-> {},
           spender |-> fields.owner]

\* Mutant: the fee leaves the thread on top of the withdrawal.
MutantFeeOnTop(total, withdrawal, fee) ==
  LET close        == total <= withdrawal + fee
      continuation == IF close THEN 0 ELSE total - withdrawal - fee
  IN IF \/ total <= fee \/ withdrawal <= fee
        \/ ~close /\ continuation < MIN_THREAD_CONTINUATION_SOMPI
     THEN None
     ELSE Some([close |-> close, continuation |-> continuation,
                receives |-> IF close THEN total - fee ELSE withdrawal])

withdrawal_amounts(total, withdrawal, fee) ==
  LET close        == total <= withdrawal
      continuation == IF close THEN 0 ELSE total - withdrawal
  IN IF \/ total <= fee \/ withdrawal <= fee
        \/ ~close /\ continuation < MIN_THREAD_CONTINUATION_SOMPI
     THEN None
     ELSE Some([close |-> close, continuation |-> continuation,
                receives |-> (IF close THEN total ELSE withdrawal) - fee])

Plan(path, true, by, offer, extra, data, lock, sequence, asked) ==
  [path |-> path, true |-> true, by |-> by, offer |-> offer, extra |-> extra, data |-> data,
   lock |-> lock, sequence |-> sequence, asked |-> asked]

Kept(amount) == [to |-> "self", amount |-> amount, tag |-> "own"]

plan_global_thread_withdrawal(withdrawal) ==
  LET a == withdrawal_amounts(coin[1].amount, withdrawal, NetworkFee)
      p == ThreadPolicy
      pay == [to |-> p.spender, amount |-> a[1].receives, tag |-> "none"]
  IN IF a = None THEN None
     ELSE Some(Plan("withdraw", {}, p.spender,
                    (IF a[1].close THEN <<>> ELSE <<Kept(a[1].continuation)>>) \o <<pay>>,
                    <<>>, "none", p.lock, p.csv, withdrawal))

plan_global_thread_topup(wallet_total) ==
  LET p == ThreadPolicy IN
  IF wallet_total <= NetworkFee THEN None
  ELSE Some(Plan(IF c.kind = "allowance" THEN "owner" ELSE "withdraw", p.topup_true, fields.owner,
                 <<Kept(coin[1].amount + wallet_total - NetworkFee)>>,
                 <<[from |-> "wallet", key |-> fields.owner, amount |-> wallet_total]>>,
                 "none", 0, p.topup_sequence, 0))

\* A plan with its inputs and outputs written out.
Spend(p) ==
  [path |-> p.path, true |-> p.true, by |-> p.by, data |-> p.data,
   lock |-> p.lock, sequence |-> p.sequence,
   outs |-> [n \in 1 .. Len(p.offer) |-> OutputOf(p.offer[n], p.data)],
   ins  |-> [n \in 1 .. Len(p.extra) |-> ExtraInput(p.extra[n])]]

-----------------------------------------------------------------------------
(* The document a spend travels in, and what may be wrong with it. *)

\* Paths that take no signature, of which it does not matter who proposes them.
Keyless == {"deposit", "timeout", "pickup_expired", "delivery_expired", "sweep", "roll",
            "passthrough"}

ClaimPaths == {"claim", "attested", "reveal", "listed"}

ProofValue(proof) ==
  <<"array", [n \in DOMAIN proof |-> <<"object", [sibling   |-> <<"hex", proof[n].sibling>>,
                                                  direction |-> <<"number", proof[n].direction>>]>>]>>

ProofOf(s) == IF s.path = "listed" THEN generate_merkle_proof(Leaves, s.data[1]) ELSE <<>>

\* The proof material of a claim, as the wallet's builders file it.
ClaimFields(s) ==
  CASE s.path = "claim"    -> [privateSwapClaim |-> <<"bool", TRUE>>]
    [] s.path = "attested" -> [oracleV1Claim |-> <<"bool", TRUE>>, oracleV1Signature |-> <<"hex", s.data>>]
    [] s.path = "reveal"   -> [commitPartA |-> <<"hex", PartA>>, commitPartB |-> <<"hex", s.data>>]
    [] s.path = "listed"   -> [merkleDestSpk |-> <<"hex", Leaves[s.data[1] + 1]>>,
                               merkleProof |-> ProofValue(ProofOf(s))]

SignatureOf(key, by) == [key |-> key, parity |-> 2, by |-> by]

\* An unsigned document: selectors for every branch, a listed path with the
\* directions of its proof (merkle_claim_truth).
Unsigned(s) ==
  LET true == IF s.path = "listed" THEN merkle_truth_from_proof(ProofOf(s)) ELSE s.true IN
  [redeem |-> redeem, spk |-> Self,
   exec |-> Some([mask |-> resolve_covenant_branches(redeem).selector, true |-> true]),
   partialSigs |-> {}, global |-> {}, covenantBranch |-> FALSE,
   proprietaries |-> IF s.path \in ClaimPaths THEN Some(ClaimFields(s)) ELSE None]

SignedUnless(keyless, d, by) ==
  IF keyless THEN d ELSE attach_sole_signature(d, SignatureOf(by, by))[1]

Document(s) == SignedUnless(s.path \in Keyless, Unsigned(s), s.by)

WithProof(d, proof) == [d EXCEPT !.proprietaries[1].merkleProof = ProofValue(proof)]
FirstItem(d, v)     == [d EXCEPT !.proprietaries[1].merkleProof[2][1][2].direction = v]
Toggled(set, n)     == IF n \in set THEN set \ {n} ELSE set \cup {n}
Flip1(proof)        == [proof EXCEPT ![1].direction = 1 - @]

\* One thing changed in an honest document.
Altered(s, d, proof, flaw) ==
  LET props  == d.proprietaries[1]
      exec   == d.exec[1]
      one    == CHOOSE k \in DOMAIN props : TRUE
      filed(f) == [d EXCEPT !.proprietaries = Some(f)]
  IN CASE flaw = "none"         -> d
       [] flaw = "unsigned"     -> Unsigned(s)
       [] flaw = "both_parities"-> [d EXCEPT !.partialSigs = @ \cup { [e EXCEPT !.parity = 3] : e \in @ }]
       [] flaw = "forged"       -> [d EXCEPT !.partialSigs = { SignatureOf(s.by, "unknown") }]
       [] flaw = "no_selectors" -> [d EXCEPT !.exec = None]
       [] flaw = "other_branch" -> [d EXCEPT !.exec[1].true = Toggled(@, 0)]
       [] flaw = "other_level"  -> [d EXCEPT !.exec[1].true = Toggled(@, Max(exec.mask))]
       [] flaw = "short_mask"   -> [d EXCEPT !.exec[1].mask = @ \ {Max(@)}]
       [] flaw = "no_fields"    -> [d EXCEPT !.proprietaries = None]
       [] flaw = "field_missing"-> filed([k \in DOMAIN props \ {one} |-> props[k]])
       [] flaw = "field_text"   -> filed([props EXCEPT ![one] = <<"text", "FF">>])
       [] flaw = "mixed"        -> filed([k \in DOMAIN props \cup {"privateSwapClaim", "commitPartA"} |->
                                             IF k \in DOMAIN props THEN props[k] ELSE <<"bool", TRUE>>])
       [] flaw = "unsupported"  -> filed([k \in DOMAIN props \cup {"zkProof"} |->
                                             IF k \in DOMAIN props THEN props[k] ELSE <<"hex", VK>>])
       [] flaw = "global_field" -> [d EXCEPT !.global = {one}]
       [] flaw = "global_branch"-> [d EXCEPT !.covenantBranch = TRUE]
       [] flaw = "other_redeem" -> [d EXCEPT !.spk = P2SH(build_oracle_mb_heartbeat_script)]
       [] flaw = "boundary"     -> filed([commitPartA |-> <<"hex", PartA \o s.data>>, commitPartB |-> <<"hex", <<>>>>])
       [] flaw = "proof_flipped"-> WithProof(d, Flip1(proof))
       [] flaw = "both_flipped" -> [WithProof(d, Flip1(proof)) EXCEPT !.exec[1].true = Toggled(@, 1)]
       [] flaw = "level_added"  -> WithProof(d, proof \o <<[sibling |-> Forged, direction |-> 0]>>)
       [] flaw = "level_missing"-> WithProof(d, Front(proof))
       [] flaw = "sibling"      -> WithProof(d, [proof EXCEPT ![1].sibling = Forged])
       [] flaw = "destination"  -> filed([props EXCEPT !.merkleDestSpk = <<"hex", P2PK("fourth")>>])
       [] flaw = "direction_two"-> FirstItem(d, <<"number", 2>>)
       [] flaw = "as_decimal"   -> FirstItem(d, <<"decimal", proof[1].direction>>)
       [] flaw = "as_padded"    -> FirstItem(d, <<"text", "01">>)

Flawed(s, flaw) ==
  The(UNION { { Altered(s, d, proof, flaw) : proof \in {ProofOf(s)} } : d \in {Document(s)} })

\* Flaws that only the fields of one claim can have.
FlawFits(path, flaw) ==
  CASE flaw = "boundary" -> path = "reveal"
    [] flaw \in {"proof_flipped", "both_flipped", "level_added", "level_missing", "sibling",
                 "destination", "direction_two", "as_decimal", "as_padded"} -> path = "listed"
    [] flaw \in {"none", "unsigned"} -> TRUE
    [] OTHER -> path \in ClaimPaths

-----------------------------------------------------------------------------
(* The life of the coin. *)

CovenantsInit ==
  /\ name \in DOMAIN Contracts
  /\ fields = Contracts[name].f
  /\ redeem = Build(Contracts[name].kind, fields)
  /\ coin = Some([amount |-> Contracts[name].amount, born |-> 0])
  /\ daa = 0
  /\ proposed = None
  /\ confirmed = 0
  /\ taken = 0
  /\ paid = [k \in Parties |-> 0]

Judge(p) ==
  /\ proposed' = LET s == Spend(p) IN Some([plan |-> p, spend |-> s, ok |-> Admitted(s), final |-> None])
  /\ UNCHANGED <<name, fields, redeem, coin, daa, confirmed, taken, paid>>

Idle == coin # None /\ proposed = None /\ confirmed < c.spends

\* A party spends on a documented path, as late-dated as consensus allows.
Propose(path, by) ==
  /\ Idle
  /\ path \in Keyless => by = "owner"
  /\ \E offer \in c.offers, extra \in c.extras, data \in Data(path) :
       Judge(Plan(path, SelectorsOf(path), by, offer, extra, data, daa, daa - coin[1].born, 0))

Withdraw(amount) ==
  /\ Idle /\ IsThread
  /\ LET p == plan_global_thread_withdrawal(amount) IN p # None /\ Judge(p[1])

TopUp(wallet_total) ==
  /\ Idle /\ IsThread
  /\ LET p == plan_global_thread_topup(wallet_total) IN p # None /\ Judge(p[1])

\* A document names the destination of a whitelist once (merkleDestSpk).
HasDocument(s) == s.path = "listed" => s.data[2] = "leaf"

\* The spend's document is verified and finalized (a sweep and a roll have
\* signature-script builders of their own).
Finalize(flaw) ==
  /\ confirmed < MaxFinalized
  /\ proposed # None /\ proposed[1].final = None
  /\ proposed[1].spend.path \notin {"sweep", "roll"}
  /\ HasDocument(proposed[1].spend)
  /\ FlawFits(proposed[1].spend.path, flaw)
  /\ \E d \in {Flawed(proposed[1].spend, flaw)} :
       proposed' = [proposed EXCEPT ![1].final =
                      Some([flaw |-> flaw, verdict |-> verify_complete_pskt(d)])]
  /\ UNCHANGED <<name, fields, redeem, coin, daa, confirmed, taken, paid>>

\* An accepted spend is confirmed: outputs to the contract's address, or to the
\* oracle's next address, are its next coin.
NextCoin(s) ==
  LET at == { n \in 1 .. Len(s.outs) :
                s.outs[n].spk = (IF s.path = "roll" THEN NextOracle(s.data) ELSE Self) }
  IN IF at = {} THEN None ELSE Some([amount |-> s.outs[Min(at)].amount, born |-> daa])

Settle(p, s, next, left) ==
  /\ coin' = next
  /\ fields' = IF s.path = "roll" THEN Rolled(s.data) ELSE fields
  /\ redeem' = IF s.path = "roll" THEN build_oracle_mb_redeem(fields') ELSE redeem
  /\ taken' = IF IsThread /\ s.path = "withdraw" /\ left < coin[1].amount
              THEN taken + coin[1].amount - left ELSE taken
  /\ paid' = [k \in Parties |-> paid[k] + Total(SelectSeq(p.offer, LAMBDA o : o.to = k))]

AmountIn(next) == IF next = None THEN 0 ELSE next[1].amount

Confirm ==
  /\ proposed # None /\ proposed[1].ok
  /\ \E next \in {NextCoin(proposed[1].spend)} :
       Settle(proposed[1].plan, proposed[1].spend, next, AmountIn(next))
  /\ proposed' = None
  /\ confirmed' = confirmed + 1
  /\ UNCHANGED <<name, daa>>

Refuse ==
  /\ proposed # None /\ ~proposed[1].ok
  /\ proposed' = None
  /\ UNCHANGED <<name, fields, redeem, coin, daa, confirmed, taken, paid>>

Tick ==
  /\ daa < c.horizon /\ proposed = None
  /\ daa' = daa + 1
  /\ UNCHANGED <<name, fields, redeem, coin, proposed, confirmed, taken, paid>>

Write(piece) ==
  /\ c.kind = "custom" /\ confirmed < MaxPieces
  /\ ResolveFrom(redeem \o piece, 1, Fresh).err = ""
  /\ redeem' = redeem \o piece
  /\ confirmed' = confirmed + 1
  /\ UNCHANGED <<name, fields, coin, daa, proposed, taken, paid>>

CovenantsNext ==
  \/ \E path \in Paths(c.kind), by \in Parties : Propose(path, by)
  \/ \E w \in Withdrawals : Withdraw(w)
  \/ \E w \in Wallets : TopUp(w)
  \/ \E flaw \in Flaws : Finalize(flaw)
  \/ Confirm
  \/ Refuse
  \/ Tick
  \/ \E piece \in Pieces : Write(piece)

CovenantsSpec == CovenantsInit /\ [][CovenantsNext]_covenantVars

-----------------------------------------------------------------------------
(* Properties *)

\* A judged spend; what finalization adds to it is a matter of its own.
Judged == proposed # None /\ proposed[1].final = None

\* The engine accepts a spend exactly when the contract's terms allow it: who
\* signs, since when, to whom, how much and what must live on.  This covers the
\* redeem scripts of contract/**, the witness layout of covenant/execution.rs and
\* the locks and amounts of the thread plans.  The terms are the documented ones but
\* for what StatedLimitsHold is about.
PromiseKept ==
  Judged => LET s == proposed[1].spend IN
            proposed[1].ok = /\ Promise(s)
                             /\ Total(s.outs) <= coin[1].amount + Total(s.ins)

\* Two limits that builders state of their scripts: a whitelist spend "must bind
\* output zero to that destination", the one its proof is about
\* (contract/merkle/script.rs), and at a spending limit "an untagged deposit can
\* never be spent through this script" (covenant/script/spending_limit.rs).
StatedLimitsHold ==
  Judged /\ proposed[1].ok =>
    LET s == proposed[1].spend IN
    /\ s.path = "listed" => PaysTo(s, 0, Leaves[s.data[1] + 1])
    /\ c.kind = "spending_limit" => c.id # ZERO_HASH

\* A withdrawal planned by plan_global_thread_withdrawal is accepted exactly
\* when the thread has rested, has started, and what is asked (or, for a close,
\* the whole balance) is within the cap: the fee, the sequence and the lock time
\* the plan chooses never cost the user a withdrawal the policy allows.
PlannedWithdrawalsPass ==
  Judged /\ proposed[1].plan.asked > 0 =>
    LET w == proposed[1].plan.asked
        gone == IF coin[1].amount <= w THEN coin[1].amount ELSE w
    IN proposed[1].ok = /\ gone <= fields.max
                        /\ daa - coin[1].born >= fields.cooldown
                        /\ c.kind = "allowance" => daa >= fields.start

\* However withdrawals, top-ups and closes interleave, the capped path of a
\* thread has paid out at most one cap per cooldown elapsed since funding.
ThreadsRateLimited ==
  IsThread /\ fields.cooldown > 0 =>
    taken <= fields.max * (daa \div fields.cooldown)

\* A shipping escrow ends in one of two ways: the deliverer got exactly the fee,
\* the buyer nothing and the seller at most the product's price; or the buyer got
\* the rest, the deliverer nothing and the seller at most the first tranche.
ShippingSettles ==
  c.kind = "shipping" =>
    LET tr == Tranches(fields.product, fields.fee) IN
    /\ coin # None => /\ coin[1].amount \in {tr.total, tr.remainder}
                      /\ paid[fields.buyer] = 0 /\ paid[fields.deliverer] = 0
                      /\ paid[fields.seller] <= tr.total - coin[1].amount
    /\ coin = None => \/ /\ paid[fields.deliverer] = fields.fee /\ paid[fields.buyer] = 0
                         /\ paid[fields.seller] <= tr.first + tr.second
                      \/ /\ paid[fields.deliverer] = 0
                         /\ paid[fields.seller] <= tr.first
                         /\ paid[fields.buyer] + paid[fields.seller] <= tr.total

\* Over all its spends a contract pays what was agreed: planned withdrawals go
\* through and no faster than the thread's terms, and a shipping escrow settles
\* one of its two ways.
ContractsPayAsAgreed == PlannedWithdrawalsPass /\ ThreadsRateLimited /\ ShippingSettles

FoundAlone(found, kind, what) ==
  \A k \in DOMAIN found : found[k] = IF k = kind THEN what ELSE None

\* What was written is read back: the recognizer of the contract's kind, and no
\* other, finds its fields, and the path an indexer reads off a spend
\* (covenant/spend_path.rs) is the branch the spender chose.
RecognizedBack ==
  /\ daa + confirmed = 0 /\ ~Judged /\ c.kind # "custom" =>
       FoundAlone(Recognizers(redeem), c.kind, Some(fields))
  /\ Judged /\ c.kind \notin {"shipping", "oracle"} =>
       LET s == proposed[1].spend
       IN spend_path(SpendWitness(redeem, s), redeem) =
            IF is_single_path(redeem) \/ 0 \in s.true THEN "Owner" ELSE "Other"

\* Selectors as the witness of a custom script carries them, told apart from the
\* truth values the script computes itself.
Mark(v) == IF v THEN Named("selected", 1) ELSE <<>>

BranchesBefore(script, i) ==
  Cardinality({ n \in 1 .. i - 1 : script[n][1] \in {"IF", "NOTIF"} })

\* Selectors and signatures for the items of a trace, and a bare transaction.
MarkedWitness(keys, items) ==
  [n \in 1 .. Len(items) |-> IF items[n][1] = "selector" THEN Mark(items[n][2])
                             ELSE TxSig(keys[items[n][2] + 1].key)]

BareTransaction == [ins |-> <<[amount |-> 1, sequence |-> 0, id |-> ZERO_HASH]>>,
                    outs |-> <<>>, lock |-> 0, index |-> 0]

Asked(items) == { items[n][2] : n \in { m \in 1 .. Len(items) : items[m][1] = "signature" } }

\* A traced path asks for exactly the keys its selectors match.
AsksMatch(res, true, asked) ==
  /\ asked = { n \in 0 .. Len(res.keys) - 1 :
                  matches_selectors(res.keys[n + 1], res.selector, true) }
  /\ \A n \in asked :
       position_for_key_with_selectors(res, res.keys[n + 1].key, res.selector, true) \in {n, -2}

\* The run e of a witness pops every selector at the branch it was meant for
\* and leaves what the trace counted.
RunMatches(true, produced, e) ==
  LET as(ch) == Truth(ch[2]) = (BranchesBefore(redeem, ch[1]) \in true)
      marked == { ch \in e.chosen : ch[2] \in {Mark(TRUE), Mark(FALSE)} }
  IN (\A ch \in e.chosen \ marked : as(ch)) =>
       /\ \A ch \in marked : as(ch)
       /\ e.why \in {"", "verify"}
       /\ e.why = "" => Len(e.stack) = produced

TraceMatches(res, true, t) ==
  t.err = "" =>
    /\ AsksMatch(res, true, Asked(t.items))
    /\ RunMatches(true, t.produced, Exec(redeem, MarkedWitness(res.keys, t.items), BareTransaction))

ReadAlike(res, malformed) ==
  /\ (res.err = "MalformedScript") = malformed
  /\ res.err = "" => \A true \in SUBSET res.selector :
                       TraceMatches(res, true, trace_witness(redeem, res.selector, true))

\* The signer (covenant/branch.rs) and the finalizer (covenant/execution.rs)
\* read any script alike, and the engine agrees with both: a traced path asks for
\* exactly the signatures whose selectors match, every branch that takes a
\* witness item takes the selector meant for it, and the witness is neither short
\* nor long, as long as branches the script decides itself go the selected way.
TraceFits ==
  c.kind = "custom" =>
    ReadAlike(resolve_covenant_branches(redeem), ParseScript(redeem).err = "MalformedScript")

\* Flaws that leave a document's meaning alone: the two parts of a revealed
\* secret divided elsewhere, a direction written as a string, a swap claim that
\* is not announced (its path needs no proof material).
Harmless(s, flaw) == \/ flaw \in {"none", "boundary", "as_decimal"}
                     \/ s.path = "claim" /\ flaw \in {"no_fields", "field_missing"}

ClaimSigner(s) == CASE s.path = "claim"    -> fields.claimer
                    [] s.path = "attested" -> fields.beneficiary
                    [] OTHER               -> fields.owner

\* The signature and the proof material are those the claim's script asks for.
ClaimOpens(s) ==
  /\ s.by = ClaimSigner(s)
  /\ s.path = "attested" => s.data = MsgSig(fields.oracle, fields.statement)
  /\ s.path = "reveal"   => s.data = PartB

\* The finalizer of the PSKT pipeline completes a typed claim exactly when its
\* signature and proof material open the script; it completes every spend the
\* engine accepts; whatever is done to a document, the engine judges a completed
\* one as it judges the spend the parties meant; and a claim is refused before
\* its signature is asked for whenever it would be refused after it.
DocumentsFinalize ==
  proposed # None /\ proposed[1].final # None =>
    LET s == proposed[1].spend
        v == proposed[1].final[1].verdict
        flaw == proposed[1].final[1].flaw
    IN /\ Harmless(s, flaw) /\ s.path \in ClaimPaths => (v.status = "complete") = ClaimOpens(s)
       /\ Harmless(s, flaw) /\ proposed[1].ok => v.status = "complete"
       /\ ~Harmless(s, flaw) /\ s.path \in ClaimPaths => v.status # "complete"
       /\ v.status = "complete" =>
            Accepts(redeem, Reverse(v.script[1]), Transaction(s))
              = Accepts(redeem, SpendWitness(redeem, s), Transaction(s))
       /\ flaw = "unsigned" /\ s.path \in ClaimPaths =>
            (v.status = "incomplete") = ClaimOpens([s EXCEPT !.by = ClaimSigner(s)])
       /\ flaw = "unsigned" => (v.status = "complete") = (s.path \in Keyless)

\* Every reader of a script finds what its writer put there: the recognizers and
\* the indexer in the contracts, signer and finalizer in any script and in the
\* documents spends travel in.
ReadBack == RecognizedBack /\ TraceFits /\ DocumentsFinalize

==============================================================================
