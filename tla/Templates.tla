------------------------------ MODULE Templates ------------------------------
(***************************************************************************)
(* The redeem scripts kaspa-portal writes (contract/**/script) and the      *)
(* recognizers that read their fields back.  Every builder is the sequence *)
(* of pushes of the code, from a record of its arguments; a recognizer     *)
(* reads the elements the code reads, rebuilds the script and compares.    *)
(***************************************************************************)
EXTENDS Script

CONSTANT CROWDFUND_MAX_TX_INPUTS   \* 8 in the code; the sweep branch unrolls it

Salted(salt) == push_data(salt) \o Ops(<<"DROP">>)
Signed(k)    == push_pubkey(k) \o Ops(<<"CHECKSIGVERIFY">>)
After(daa)   == push_int(daa) \o Ops(<<"CHECKLOCKTIMEVERIFY">>)
Rested(daa)  == push_int(daa) \o Ops(<<"CHECKSEQUENCEVERIFY">>)
OutputSpk(n) == push_int(n) \o Ops(<<"TX_OUTPUT_SPK">>)
OutputAmt(n) == push_int(n) \o Ops(<<"TX_OUTPUT_AMOUNT">>)
OP_1         == push_int(1)
OP_0         == push_int(0)

AtLeast      == Ops(<<"GREATERTHANOREQUAL", "VERIFY">>)
AtMost       == Ops(<<"LESSTHANOREQUAL", "VERIFY">>)
Same         == Ops(<<"EQUALVERIFY">>)
SameNumber   == Ops(<<"NUMEQUALVERIFY">>)
OwnSpk       == Ops(<<"TX_INPUT_INDEX", "TX_INPUT_SPK">>)
OwnAmount    == Ops(<<"TX_INPUT_INDEX", "TX_INPUT_AMOUNT">>)
OwnId        == Ops(<<"TX_INPUT_INDEX", "INPUT_COVENANT_ID">>)
Pays(n, spk) == OutputSpk(n) \o push_data(spk) \o Same
If(then, other) == Ops(<<"IF">>) \o then \o Ops(<<"ELSE">>) \o other \o Ops(<<"ENDIF">>)

\* A recognizer's fields are options; the script is recognized when every one
\* was found and rebuilding from them gives the same script.
Recognized(opts, Build(_), script) ==
  LET f == [n \in DOMAIN opts |-> opts[n][1]] IN
  IF \E n \in DOMAIN opts : opts[n] = None THEN None
  ELSE IF Build(f) = script THEN Some(f) ELSE None

-----------------------------------------------------------------------------
(* Threads: one tagged UTXO, capped withdrawals, a cooldown between them. *)

append_global_thread_enforcement(max) ==
  OwnId \o Ops(<<"DUP", "COV_OUTPUT_COUNT", "DUP">>) \o OP_1 \o Ops(<<"EQUAL">>)
  \o If(Ops(<<"DROP">>) \o OP_0 \o Ops(<<"COV_OUTPUT_IDX", "DUP", "TX_OUTPUT_SPK">>)
          \o OwnSpk \o Same \o Ops(<<"TX_OUTPUT_AMOUNT">>) \o OwnAmount \o push_int(max)
          \o Ops(<<"SUB">>) \o AtLeast,
        OP_0 \o Same \o Ops(<<"DROP">>) \o OwnAmount \o push_int(max) \o AtMost)
  \o OP_1

build_global_allowance_script(f) ==
  Salted(f.salt)
  \o If(push_pubkey(f.owner) \o Ops(<<"CHECKSIG">>),
        Signed(f.beneficiary)
          \o (IF f.start > 0 THEN After(f.start) ELSE <<>>)
          \o (IF f.cooldown > 0 THEN Rested(f.cooldown) ELSE <<>>)
          \o append_global_thread_enforcement(f.max))

global_allowance_script_fields(script) ==
  Recognized([salt        |-> ArrayAt(script, 0, 8),
              owner       |-> KeyAt(script, 3),
              beneficiary |-> KeyAt(script, 6),
              max         |-> find_preceding_script_integer(script, "SUB"),
              cooldown    |-> Some(Or(extract_csv_sequence(script), 0)),
              start       |-> Some(Or(extract_cltv_locktime(script), 0))],
             build_global_allowance_script, script)

build_global_spending_limit_script(f) ==
  Salted(f.salt) \o Signed(f.owner) \o Rested(f.cooldown)
  \o append_global_thread_enforcement(f.max)

global_spending_limit_script_fields(script) ==
  Recognized([salt     |-> ArrayAt(script, 0, 8),
              owner    |-> KeyAt(script, 2),
              cooldown |-> element_integer(script, 4),
              max      |-> find_preceding_script_integer(script, "SUB")],
             build_global_spending_limit_script, script)

\* The per-UTXO allowance has no recognizer.
build_allowance_script(f) ==
  If(push_pubkey(f.owner) \o Ops(<<"CHECKSIG">>),
     Signed(f.beneficiary)
       \o (IF f.start > 0 THEN After(f.start) ELSE <<>>)
       \o OwnSpk \o OutputSpk(0) \o Same
       \o OutputAmt(0) \o OwnAmount \o push_int(f.max) \o Ops(<<"SUB">>) \o AtLeast
       \o (IF f.cooldown > 0 THEN Rested(f.cooldown) ELSE <<>>)
       \o Ops(<<"TX_OUTPUT_COUNT">>) \o push_int(2) \o Ops(<<"EQUAL">>))

-----------------------------------------------------------------------------
(* Savings and inheritance. *)

build_dms_csv_script(f) ==
  If(push_pubkey(f.owner) \o Ops(<<"CHECKSIG">>),
     Rested(f.inactivity) \o push_pubkey(f.heir) \o Ops(<<"CHECKSIG">>))

dms_script_fields(script) ==
  Recognized([owner |-> KeyAt(script, 1), inactivity |-> element_integer(script, 4),
              heir |-> KeyAt(script, 6)],
             build_dms_csv_script, script)

build_piggy_bank_script(f) ==
  Salted(f.salt)
  \o If(IF f.goal > 0 \/ f.deadline > 0
        THEN Signed(f.owner)
             \o If(IF f.goal > 0
                   THEN OutputAmt(0) \o push_int(f.goal) \o Ops(<<"GREATERTHANOREQUAL">>)
                   ELSE OP_0,
                   IF f.deadline > 0 THEN After(f.deadline) \o OP_1 ELSE OP_0)
        ELSE push_pubkey(f.owner) \o Ops(<<"CHECKSIG">>),
        OwnSpk \o Ops(<<"TX_INPUT_INDEX", "TX_OUTPUT_SPK">>) \o Same
          \o Ops(<<"TX_INPUT_INDEX", "TX_OUTPUT_AMOUNT">>) \o OwnAmount
          \o Ops(<<"GREATERTHANOREQUAL">>))

\* Mutant: a goal of zero is not told from the deposit check's comparison.
MutantGoalRequired(script) ==
  Recognized([salt     |-> ArrayAt(script, 0, 8),
              owner    |-> KeyAt(script, 3),
              goal     |-> find_preceding_script_integer(script, "GREATERTHANOREQUAL"),
              deadline |-> Some(Or(extract_cltv_locktime(script), 0))],
             build_piggy_bank_script, script)

piggy_bank_script_fields(script) ==
  Recognized([salt     |-> ArrayAt(script, 0, 8),
              owner    |-> KeyAt(script, 3),
              goal     |-> Some(Or(find_preceding_script_integer(script, "GREATERTHANOREQUAL"), 0)),
              deadline |-> Some(Or(extract_cltv_locktime(script), 0))],
             build_piggy_bank_script, script)

build_timelocked_savings_script(f) ==
  If(Signed(f.wallet1) \o After(f.lock) \o OP_1, Signed(f.wallet2) \o After(f.lock) \o OP_1)

timelocked_savings_script_fields(script) ==
  Recognized([wallet1 |-> KeyAt(script, 1), lock |-> element_integer(script, 3),
              wallet2 |-> KeyAt(script, 7)],
             build_timelocked_savings_script, script)

build_tagged_vault_script(f) ==
  Signed(f.owner) \o OwnId \o OP_0 \o Ops(<<"OUTPUT_COVENANT_ID">>) \o Same \o OP_1

build_split_vault_script(f) ==
  Signed(f.owner) \o OwnId \o Ops(<<"DUP", "COV_OUTPUT_COUNT">>) \o push_int(2) \o Same
  \o Ops(<<"TX_INPUT_INDEX", "AUTH_OUTPUT_COUNT">>) \o push_int(2) \o Same
  \o Ops(<<"DROP">>) \o OP_1

-----------------------------------------------------------------------------
(* Escrows. *)

\* A destination is committed to with its script version; the fields drop it.
SpkAt(script, at) ==
  LET d == ElementData(script, at) IN
  IF d # None /\ d[1] # <<>> /\ d[1][1] = Version0[1] THEN d ELSE None

build_escrow_script(f) ==
  Salted(f.salt)
  \o If(Signed(f.alice) \o Pays(0, f.bob_spk) \o OP_1,
        If(Signed(f.bob) \o Pays(0, f.alice_spk) \o OP_1,
           If(Signed(f.arbiter) \o If(Pays(0, f.bob_spk) \o OP_1, Pays(0, f.alice_spk) \o OP_1),
              If(Signed(f.alice), Signed(f.bob)) \o OwnSpk \o OutputSpk(0) \o Same \o OP_1)))

escrow_script_fields(script) ==
  Recognized([salt |-> ArrayAt(script, 0, 8), alice |-> KeyAt(script, 3),
              bob_spk |-> SpkAt(script, 7), bob |-> KeyAt(script, 12),
              alice_spk |-> SpkAt(script, 16), arbiter |-> KeyAt(script, 21)],
             build_escrow_script, script)

build_timelocked_escrow_script(f) ==
  LET pays(spk) == OutputSpk(0) \o push_data(spk) \o Ops(<<"EQUAL">>) IN
  If(Signed(f.alice) \o pays(f.bob_spk),
     If(Signed(f.bob) \o pays(f.alice_spk), After(f.lock) \o pays(f.alice_spk)))

-----------------------------------------------------------------------------
(* Shipping escrow: the amount held says which state the escrow is in. *)

\* The seller is paid first at pickup and second on delivery.
Tranches(product, fee) ==
  [total |-> product + fee, first |-> product \div 2,
   second |-> product - product \div 2, remainder |-> product + fee - product \div 2]

append_pickup_or_refund(f, tr) ==
  If(Signed(f.deliverer) \o OutputSpk(0) \o OwnSpk \o Same
       \o OutputAmt(0) \o push_int(tr.remainder) \o Same \o Pays(1, P2PK(f.seller))
       \o Ops(<<"TX_OUTPUT_COUNT">>) \o push_int(2) \o Same \o OP_1,
     If(Signed(f.arbiter), After(f.pickup)) \o Pays(0, P2PK(f.buyer))
       \o Ops(<<"TX_OUTPUT_COUNT">>) \o OP_1 \o Same \o OP_1)

append_delivery_or_refund(f) ==
  If(If(Signed(f.buyer), If(Signed(f.arbiter), After(f.delivery)))
       \o Pays(0, P2PK(f.seller)) \o Pays(1, P2PK(f.deliverer))
       \o OutputAmt(1) \o push_int(f.fee) \o Same
       \o Ops(<<"TX_OUTPUT_COUNT">>) \o push_int(2) \o Same \o OP_1,
     Signed(f.arbiter) \o Pays(0, P2PK(f.buyer))
       \o Ops(<<"TX_OUTPUT_COUNT">>) \o OP_1 \o Same \o OP_1)

HoldsExactly(amount) == Ops(<<"DUP">>) \o push_int(amount) \o Ops(<<"EQUAL">>)

build_ship_escrow_script(f) ==
  LET tr == Tranches(f.product, f.fee) IN
  Salted(f.salt) \o OwnAmount \o HoldsExactly(tr.total)
  \o If(Ops(<<"DROP">>) \o append_pickup_or_refund(f, tr),
        HoldsExactly(tr.remainder)
        \o If(Ops(<<"DROP">>) \o append_delivery_or_refund(f), Ops(<<"DROP">>) \o OP_0))

\* The key inside a pay-to-public-key script, at bytes 3 to 35.
spk_pubkey(script, at) ==
  LET d == ElementData(script, at)
      k == Cut(d[1], 3, 35)
  IN IF d # None /\ ByteLen(d[1]) >= 35 /\ k[1][1] = "key" THEN Some(k[1][2]) ELSE None

ship_escrow_terms(script) ==
  LET total == element_integer(script, 5)
      fee   == element_integer(script, 75)
  IN Recognized([salt      |-> ArrayAt(script, 0, 8),
                 product   |-> IF total # None /\ fee # None /\ total[1] >= fee[1]
                               THEN Some(total[1] - fee[1]) ELSE None,
                 fee       |-> fee,
                 deliverer |-> KeyAt(script, 10),
                 seller    |-> spk_pubkey(script, 23),
                 arbiter   |-> KeyAt(script, 31),
                 pickup    |-> element_integer(script, 34),
                 buyer     |-> spk_pubkey(script, 39),
                 delivery  |-> element_integer(script, 61)],
                build_ship_escrow_script, script)

-----------------------------------------------------------------------------
(* Conditional payments. *)

build_oracle_v1_covenant_script(f) ==
  Salted(f.salt)
  \o If(Signed(f.owner) \o After(f.lock) \o OP_1,
        Signed(f.beneficiary) \o push_data(f.statement) \o push_pubkey(f.oracle)
          \o Ops(<<"CHECKSIGFROMSTACK", "VERIFY">>) \o OP_1)

oracle_v1_script_fields(script) ==
  Recognized([salt |-> ArrayAt(script, 0, 16), owner |-> KeyAt(script, 3),
              lock |-> element_integer(script, 5), beneficiary |-> KeyAt(script, 9),
              statement |-> ArrayAt(script, 11, 32), oracle |-> KeyAt(script, 12)],
             build_oracle_v1_covenant_script, script)

build_payjoin_covenant_script(f) ==
  If(Signed(f.owner) \o After(f.lock) \o OP_1,
     Signed(f.beneficiary)
       \o Ops(<<"TX_INPUT_COUNT">>) \o push_int(f.min_inputs) \o AtLeast
       \o Ops(<<"TX_OUTPUT_COUNT">>) \o push_int(f.min_outputs) \o AtLeast
       \o OP_0 \o Ops(<<"TX_INPUT_SPK">>) \o OP_1
       \o Ops(<<"TX_INPUT_SPK", "EQUAL", "NOT", "VERIFY">>) \o OP_1)

payjoin_script_fields(script) ==
  Recognized([owner |-> KeyAt(script, 1), lock |-> element_integer(script, 3),
              beneficiary |-> KeyAt(script, 7), min_inputs |-> element_integer(script, 10),
              min_outputs |-> element_integer(script, 14)],
             build_payjoin_covenant_script, script)

PRIVATE_SWAP_MAX_FEE_SOMPI == 500000000

append_claim_fee_bound ==
  OP_0 \o Ops(<<"TX_INPUT_AMOUNT", "DUP">>) \o OutputAmt(0) \o AtLeast
  \o OutputAmt(0) \o Ops(<<"SUB">>) \o push_int(PRIVATE_SWAP_MAX_FEE_SOMPI) \o AtMost

PrivateSwapScript(f) ==
  Salted(f.salt)
  \o If(Signed(f.claimer)
          \o Ops(<<"TX_INPUT_COUNT">>) \o OP_1 \o SameNumber
          \o Ops(<<"TX_OUTPUT_COUNT">>) \o OP_1 \o SameNumber
          \o Pays(0, f.spk) \o append_claim_fee_bound \o OP_1,
        Signed(f.owner) \o After(f.lock) \o OP_1)

\* The builder refuses a zero timeout, a zero salt and equal keys.
build_private_swap_script(f) ==
  IF f.lock = 0 \/ f.salt = Named("0", 16) \/ f.owner = f.claimer THEN <<>>
  ELSE PrivateSwapScript(f)

private_swap_script_fields(script) ==
  Recognized([salt |-> ArrayAt(script, 0, 16), claimer |-> KeyAt(script, 3),
              spk |-> SpkAt(script, 13), owner |-> KeyAt(script, 30),
              lock |-> element_integer(script, 32)],
             build_private_swap_script, script)

build_commit_reveal_script(f) ==
  If(Signed(f.owner) \o After(f.lock) \o OP_1,
     Signed(f.owner) \o Ops(<<"CAT", "BLAKE2B">>) \o push_data(f.commitment) \o Same \o OP_1)

commit_reveal_script_fields(script) ==
  Recognized([owner |-> KeyAt(script, 1), lock |-> element_integer(script, 3),
              commitment |-> ArrayAt(script, 11, 32)],
             build_commit_reveal_script, script)

-----------------------------------------------------------------------------
(* Merkle whitelist: pay only to a destination of a committed tree. *)

append_whitelist_branch(f) ==
  Signed(f.owner) \o Ops(<<"BLAKE2B">>)
  \o FlattenSeq([n \in 1 .. f.depth |-> Ops(<<"SWAP", "IF", "SWAP", "ENDIF", "CAT", "BLAKE2B">>)])
  \o push_data(f.root) \o Same \o OutputSpk(0) \o Same \o OP_1

build_merkle_whitelist_script(f) ==
  If(Signed(f.owner) \o After(f.lock) \o OP_1, append_whitelist_branch(f))

merkle_whitelist_script_fields(script) ==
  LET layers == (Len(script) - 17) \div 6 IN
  IF Len(script) < 17 THEN None
  ELSE Recognized([owner |-> KeyAt(script, 1), lock |-> element_integer(script, 3),
                   root |-> ArrayAt(script, 10 + layers * 6, 32), depth |-> Some(layers)],
                  build_merkle_whitelist_script, script)

\* Hashed leaves padded with zero hashes to the next power of two.
PaddedLeaves(leaves) ==
  LET target == CHOOSE p \in {1, 2, 4, 8} :
                  p >= Len(leaves) /\ \A q \in {1, 2, 4, 8} : q >= Len(leaves) => p <= q
  IN [i \in 1 .. target |-> IF i <= Len(leaves) THEN Hash(leaves[i]) ELSE Named("0", 32)]

NextLevel(level) == [i \in 1 .. Len(level) \div 2 |-> Hash(level[2 * i - 1] \o level[2 * i])]

RECURSIVE RootOf(_)
RootOf(level) == IF Len(level) = 1 THEN level[1] ELSE RootOf(NextLevel(level))

compute_merkle_root(leaves) == IF leaves = <<>> THEN Named("0", 32) ELSE RootOf(PaddedLeaves(leaves))

\* The siblings of a 0-based leaf with the direction the script's SWAP needs.
RECURSIVE ProofFrom(_, _)
ProofFrom(level, idx) ==
  IF Len(level) = 1 THEN <<>>
  ELSE <<[sibling   |-> IF idx % 2 = 0 THEN level[idx + 2] ELSE level[idx],
          direction |-> IF idx % 2 = 0 THEN 1 ELSE 0]>>
       \o ProofFrom(NextLevel(level), idx \div 2)

generate_merkle_proof(leaves, idx) ==
  IF leaves = <<>> \/ idx >= Len(leaves) THEN <<>> ELSE ProofFrom(PaddedLeaves(leaves), idx)

-----------------------------------------------------------------------------
(* Crowdfunding: every input of a sweep shows its campaign in its last bytes. *)

CROWDFUND_MAX_SWEEP_FEE_SOMPI == 500000000
CAMPAIGN_TAIL_LEN             == 35
CAMPAIGN_ID_START_FROM_END    == 34
CAMPAIGN_ID_END_FROM_END      == 2

crowdfund_campaign_id(f) == Hash(f.vk \o U64(f.goal) \o U64(f.lock) \o f.organizer)

append_proof_verification(vk) ==
  Ops(<<"DUP", "BLAKE2B">>) \o push_data(vk) \o Same
  \o push_data(Named("groth16", 1)) \o Ops(<<"ZK_PRECOMPILE", "VERIFY">>)

append_input_bounds ==
  Ops(<<"TX_INPUT_COUNT">>) \o OP_1 \o AtLeast
  \o Ops(<<"TX_INPUT_COUNT">>) \o push_int(CROWDFUND_MAX_TX_INPUTS) \o AtMost

append_campaign_isolation(n, id) ==
  push_int(n) \o push_int(n) \o Ops(<<"TX_INPUT_SCRIPT_SIG_LEN", "DUP">>)
  \o push_int(CAMPAIGN_TAIL_LEN) \o AtLeast
  \o Ops(<<"DUP">>) \o push_int(CAMPAIGN_ID_START_FROM_END) \o Ops(<<"SUB", "SWAP">>)
  \o push_int(CAMPAIGN_ID_END_FROM_END) \o Ops(<<"SUB", "TX_INPUT_SCRIPT_SIG_SUBSTR">>)
  \o push_data(id) \o Same

append_campaign_inputs_total(id) ==
  OP_0 \o FlattenSeq([m \in 1 .. CROWDFUND_MAX_TX_INPUTS |->
     Ops(<<"TX_INPUT_COUNT">>) \o push_int(m) \o Ops(<<"GREATERTHANOREQUAL", "IF">>)
     \o append_campaign_isolation(m - 1, id)
     \o push_int(m - 1) \o Ops(<<"TX_INPUT_AMOUNT", "ADD", "ENDIF">>)])

\* Mutant: the fee is computed as output minus inputs, which is never too large.
MutantSweepFeeReversed(goal, organizer) ==
  Ops(<<"DUP">>) \o push_int(goal) \o AtLeast
  \o Ops(<<"TX_OUTPUT_COUNT">>) \o OP_1 \o SameNumber \o Pays(0, organizer)
  \o Ops(<<"DUP">>) \o OutputAmt(0) \o AtLeast
  \o OutputAmt(0) \o Ops(<<"SWAP", "SUB">>) \o push_int(CROWDFUND_MAX_SWEEP_FEE_SOMPI) \o AtMost

append_sweep_constraints(goal, organizer) ==
  Ops(<<"DUP">>) \o push_int(goal) \o AtLeast
  \o Ops(<<"TX_OUTPUT_COUNT">>) \o OP_1 \o SameNumber \o Pays(0, organizer)
  \o Ops(<<"DUP">>) \o OutputAmt(0) \o AtLeast
  \o OutputAmt(0) \o Ops(<<"SUB">>) \o push_int(CROWDFUND_MAX_SWEEP_FEE_SOMPI) \o AtMost

\* The builder refuses a zero goal, a zero timeout and a zero salt.
crowdfund_redeem_script(f) ==
  LET id == crowdfund_campaign_id(f) IN
  IF f.goal = 0 \/ f.lock = 0 \/ f.salt = Named("0", 8) THEN <<>>
  ELSE Salted(f.salt)
       \o If(Signed(f.contributor) \o After(f.lock),
             append_proof_verification(f.vk) \o append_input_bounds
               \o append_campaign_inputs_total(id) \o append_sweep_constraints(f.goal, f.organizer))
       \o push_data(id) \o Ops(<<"DROP">>) \o OP_1

-----------------------------------------------------------------------------
(* Oracle (Model B): price and time sit in the redeem script's first bytes. *)

ORACLE_MB_MAX_FEE_SOMPI == 1000000
ORACLE_MB_BODY_LEN      == 288
ORACLE_MB_REDEEM_LEN    == 308

oracle_mb_prefix(price, t) == Salted(U64(price)) \o Salted(U64(t))

OnlyOneTagged(op) == Ops(<<op>>) \o OP_1 \o SameNumber

push_oracle_mb_singleton_strict ==
  OwnId \o Ops(<<"DUP">>) \o OnlyOneTagged("COV_INPUT_COUNT") \o OnlyOneTagged("COV_OUTPUT_COUNT")

\* Bytes of the journal that lies n items below the top.
JournalCut(n, s, e) == push_int(n) \o Ops(<<"PICK">>) \o push_int(s) \o push_int(e) \o Ops(<<"SUBSTR">>)

CatWith(d) == push_data(d) \o Ops(<<"CAT">>)
PrependBytes(d) == push_data(d) \o Ops(<<"SWAP", "CAT">>)
OwnSigLen  == Ops(<<"TX_INPUT_INDEX", "TX_INPUT_INDEX", "TX_INPUT_SCRIPT_SIG_LEN", "DUP">>)

KeepsValue == OwnAmount \o push_int(ORACLE_MB_MAX_FEE_SOMPI) \o Ops(<<"SUB">>) \o AtLeast

push_oracle_roll_branch(f) ==
  push_data(Id(f.heartbeat)) \o OnlyOneTagged("COV_INPUT_COUNT")
  \o JournalCut(0, 16, 48) \o push_data(f.set_root) \o Same
  \o JournalCut(0, 0, 8) \o OP_1 \o push_int(HUGE) \o Ops(<<"WITHIN", "VERIFY">>)
  \* the new time is not before the time of the redeem script being spent
  \o JournalCut(0, 8, 16) \o OwnSigLen
  \o push_int(ORACLE_MB_REDEEM_LEN - 11) \o Ops(<<"SUB", "SWAP">>)
  \o push_int(ORACLE_MB_REDEEM_LEN - 19) \o Ops(<<"SUB", "TX_INPUT_SCRIPT_SIG_SUBSTR">>) \o AtLeast
  \* the next redeem script: a new prefix before this script's own body
  \o push_data(Byte(8)) \o JournalCut(1, 0, 8) \o Ops(<<"CAT">>)
  \o CatWith(OpByte("DROP") \o Byte(8)) \o JournalCut(1, 8, 16) \o Ops(<<"CAT">>)
  \o CatWith(OpByte("DROP"))
  \o OwnSigLen \o push_int(ORACLE_MB_BODY_LEN)
  \o Ops(<<"SUB", "SWAP", "TX_INPUT_SCRIPT_SIG_SUBSTR", "CAT">>)
  \o push_oracle_mb_singleton_strict
  \o Ops(<<"BLAKE2B">>) \o CatWith(OpByte("EQUAL"))
  \o PrependBytes(OpByte("BLAKE2B") \o Byte(32)) \o PrependBytes(Version0)
  \o OutputSpk(0) \o Same \o OutputAmt(0) \o KeepsValue
  \o Ops(<<"SHA256">>) \o push_data(f.image) \o push_data(f.control) \o push_data(f.hashfn)
  \o push_data(Named("risc0", 1)) \o Ops(<<"ZK_PRECOMPILE", "VERIFY">>) \o OP_1

LocateContinuation ==
  OwnId \o Ops(<<"DUP">>) \o OnlyOneTagged("COV_INPUT_COUNT")
  \o Ops(<<"DUP">>) \o OnlyOneTagged("COV_OUTPUT_COUNT")
  \o OP_0 \o Ops(<<"COV_OUTPUT_IDX", "DUP", "TX_OUTPUT_SPK">>) \o OwnSpk \o Same

push_oracle_passthrough_branch ==
  LocateContinuation \o Ops(<<"TX_OUTPUT_AMOUNT">>) \o KeepsValue \o OP_1

build_oracle_mb_publish_body(f) == If(push_oracle_roll_branch(f), push_oracle_passthrough_branch)

build_oracle_mb_redeem(f) == oracle_mb_prefix(f.price, f.time) \o build_oracle_mb_publish_body(f)

build_oracle_mb_heartbeat_script ==
  LocateContinuation \o Ops(<<"TX_OUTPUT_AMOUNT">>) \o OwnAmount \o AtLeast \o OP_1

==============================================================================
