------------------------------- MODULE Builder -------------------------------
(***************************************************************************)
(* The transaction builders (transaction/builder): coin selection, change, *)
(* fees and the plans they give, over a session of spends.  One wallet is  *)
(* of one kind: "standard" (P2PK accounts), "kip22", "static" and "hd45"   *)
(* multisig, or "thread" (a covenant thread whose withdrawals are priced). *)
(*                                                                         *)
(* coins is the list the node returns for the wallet's addresses: a coin   *)
(* is [id, amount, at], at being 0 for the receive address and k + 1 for   *)
(* change address k.  plan is what the last request came to, not yet       *)
(* signed.  Signing and the node are external: Settle applies a plan.      *)
(***************************************************************************)
EXTENDS Mass

CONSTANTS
  Wallets,        \* initial wallets: records [kind, amounts]
  Amounts, Fees,  \* amounts and fees an application asks for
  Rates,          \* fee rates the node estimates; Failed: the query failed
  Payloads,       \* payload lengths
  Picks,          \* lists of coins (by position) the user picks
  Caps, Returns,  \* bounds of a thread withdrawal
  NCHANGE,        \* change addresses an account has derived
  SCAN_DEPTH,     \* MULTISIG_BRANCH_SCAN_DEPTH
  MaxSpends       \* spends of one session

ASSUME BuilderAssumption ==
  NCHANGE \in Nat /\ SCAN_DEPTH \in Nat \ {0} /\ MaxSpends \in Nat \ {0}

VARIABLES
  kind,     \* the kind of wallet
  coins,    \* its coins as the node lists them
  nextChange, \* WalletData::next_change_index
  plan,     \* the plan last built, a refusal, or NoPlan
  settled    \* plans settled so far

builderVars == <<kind, coins, nextChange, plan, settled>>

DEFAULT_PLANNER_FEE_RATE == 11
MINIMUM_PLANNER_FEE == 30000
MAX_INPUTS == 8
MAX_FEE_PASSES == 256
CONSOLIDATED_INPUTS == 5
KIP9_MIN_CHANGE == 1000000
MIN_GENESIS == 1000000
P2PK_LEN == 34
P2SH_LEN == 35

NoPlan == [op |-> "none"]
Declined(op) == [op |-> op, ok |-> FALSE]

\* What every plan says: the coins it spends, its outputs, the fee it was
\* priced at, the shape of its signed inputs, and the request it answers.
Plan(op, inputs, outputs, fee, shape, payload, version, asked) ==
  [op |-> op, ok |-> TRUE, inputs |-> inputs, outputs |-> outputs, fee |-> fee,
   shape |-> shape, payload |-> payload, version |-> version, asked |-> asked]

Foreign == -1
PlannedOutput(amount, len, to) == [amount |-> amount, len |-> len, bound |-> FALSE, to |-> to]

checked_total(selected) == checked_sum(Column(selected, "amount"))

Distinct(list) == \A i, j \in DOMAIN list : list[i] = list[j] => i = j

-----------------------------------------------------------------------------
(* Selection                                                               *)

\* Stable: coins of one amount stay in the node's order.
sort_largest_first(list) ==
  LET Before(i, j) == \/ list[i].amount > list[j].amount
                      \/ list[i].amount = list[j].amount /\ i < j
      Place(i) == Cardinality({j \in DOMAIN list : Before(j, i)}) + 1
  IN  [k \in DOMAIN list |-> list[CHOOSE i \in DOMAIN list : Place(i) = k]]

\* By amount, then by outpoint.
sort_for_display(list) ==
  LET Before(i, j) == \/ list[i].amount > list[j].amount
                      \/ list[i].amount = list[j].amount /\ list[i].id < list[j].id
      Place(i) == Cardinality({j \in DOMAIN list : Before(j, i)}) + 1
  IN  [k \in DOMAIN list |-> list[CHOOSE i \in DOMAIN list : Place(i) = k]]

Prefix(list, n) == SubSeq(list, 1, Smaller(n, Len(list)))

\* The shortest prefix of at most limit coins that satisfies Covers, or <<>>.
Shortest(list, limit, Covers(_)) ==
  LET enough == {n \in 1 .. Smaller(limit, Len(list)) : Covers(Prefix(list, n))}
  IN  IF enough = {} THEN <<>> ELSE Prefix(list, Min(enough))

select_automatic_with_limit(list, required, limit) ==
  Shortest(sort_largest_first(list), limit, LAMBDA s : checked_total(s) >= required)

\* Positions, counted from one, in the list the user was shown; <<>> when one
\* is out of range or given twice.
select_explicit(list, picks) ==
  IF ~Distinct(picks) \/ \E i \in DOMAIN picks : picks[i] \notin DOMAIN list THEN <<>>
  ELSE [i \in DOMAIN picks |-> sort_for_display(list)[picks[i]]]

select_for_consolidation(list) ==
  IF Len(list) < 2 THEN <<>> ELSE Prefix(sort_largest_first(list), CONSOLIDATED_INPUTS)

-----------------------------------------------------------------------------
(* Standard plans                                                          *)

\* What is left for change: Failed when the selection falls short, nothing when
\* it would be dust.
calculate_change(total, spend, fee) ==
  Sole({IF change # Failed /\ is_dust(change) THEN 0 ELSE change : change \in {Sub(total, Add(spend, fee))}})

validate_recipient_amount(amount) == ~is_dust(amount)

\* The outputs of a payment and its change, or <<>> for a refusal.
WithChange(payment, selected, fee, len, to, available) ==
  LET Outputs(change) ==
        CASE change = 0 -> <<payment>>
          [] change > 0 /\ available -> <<payment, PlannedOutput(change, len, to)>>
          [] OTHER -> <<>>
  IN  Sole({Outputs(change) :
             change \in {calculate_change(checked_total(selected), payment.amount, fee)}})

Asked(amount, fee, rate, picks) == [amount |-> amount, fee |-> fee, rate |-> rate, picks |-> picks]

plan_payment(op, selected, payment, fee, payload, asked) ==
  Sole({IF outputs = <<>> THEN Declined(op)
       ELSE Plan(op, selected, outputs, fee, P2PK, payload, 0, asked) :
         outputs \in {WithChange(payment, selected, fee, P2PK_LEN, nextChange + 1,
                                 nextChange < NCHANGE)}})

\* prepare_send, then the selection, then the plan.
Pay(op, amount, fee, Select(_), picks) ==
  LET Paying(selected) ==
        IF ~validate_recipient_amount(amount) \/ Add(amount, fee) = Failed \/ selected = <<>>
        THEN Declined(op)
        ELSE plan_payment(op, selected, PlannedOutput(amount, P2PK_LEN, Foreign), fee, 0,
                          Asked(amount, fee, Failed, picks))
  IN  Sole({Paying(selected) : selected \in {Select(Add(amount, fee))}})

plan_consolidation(fee) ==
  LET Gathered(selected, amount) ==
        IF selected = <<>> \/ amount \in {Failed, 0} THEN Declined("consolidate")
        ELSE Plan("consolidate", selected, <<PlannedOutput(amount, P2PK_LEN, 0)>>, fee, P2PK, 0, 0,
                  Asked(amount, fee, Failed, <<>>))
  IN  Sole({Gathered(selected, Sub(checked_total(selected), fee)) :
             selected \in {select_for_consolidation(coins)}})

-----------------------------------------------------------------------------
(* Fees that depend on the change they leave                               *)

Entries(amounts) == [i \in DOMAIN amounts |-> [amount |-> amounts[i], plurality |-> 1]]

required_mass_fee_for_scripts(inputs, outputs, lengths, payload, rate, minimum) ==
  LET effective == Larger(rate, MIN_STANDARD_FEE_RATE)
  IN  IF Len(lengths) # Len(outputs) THEN Failed
      ELSE Larger(Larger(
             estimate_non_contextual_fee_for_shape(P2PK, Len(inputs), lengths, payload, effective),
             Times(storage_mass_estimate(Entries(inputs), Entries(outputs)), effective)),
             minimum)

\* One pass of the search raises the fee to what the change it leaves costs; it
\* ends when the fee suffices, exceeds what there is, or leaves only dust, and
\* gives up after MAX_FEE_PASSES (taken here in rounds of sixteen).
storage_mass_fee_with_payload(inputs, amount, requested, payload, lengths, rate) ==
  LET minimum == Larger(MINIMUM_PLANNER_FEE, requested)
      available == Sub(checked_sum(inputs), amount)
      Needed(outputs, n) == required_mass_fee_for_scripts(
                              inputs, outputs, Prefix(lengths, n), payload, rate, minimum)
      Ended(fee) == [fee |-> fee, ended |-> TRUE]
      Pass(fee) ==
        IF fee > available THEN Ended(fee)
        ELSE IF is_dust(available - fee) THEN Ended(Larger(Needed(<<amount>>, 1), available))
        ELSE Sole({IF kept <= fee THEN Ended(Larger(kept, fee)) ELSE [fee |-> kept, ended |-> FALSE] :
                    kept \in {Needed(<<amount, available - fee>>, 2)}})
      RECURSIVE Round(_, _)
      Round(s, n) == IF s.ended \/ n = 0 THEN s
                     ELSE Sole({Round(next, n - 1) : next \in {Pass(s.fee)}})
      RECURSIVE Search(_, _)
      Search(s, n) == IF s.ended THEN s.fee ELSE IF n = 0 THEN Failed
                      ELSE Sole({Search(next, n - 16) : next \in {Round(s, 16)}})
  IN  IF Add(amount, minimum) = Failed \/ available = Failed THEN Failed
      ELSE Search([fee |-> minimum, ended |-> FALSE], MAX_FEE_PASSES)

\* The plan that spends exactly these coins.  The non-contextual fee of the
\* outputs it really has is looked at again, up to eight times.
plan_payload_send(selected, amount, requested, payload, rate) ==
  LET lengths == <<P2PK_LEN>> \o IF nextChange < NCHANGE THEN <<P2PK_LEN>> ELSE <<>>
      Candidate(fee) ==
        IF fee = Failed THEN Declined("payload")
        ELSE plan_payment("payload", selected, PlannedOutput(amount, P2PK_LEN, Foreign), fee, payload,
                          Asked(amount, requested, rate, <<>>))
      Exact(p) == estimate_non_contextual_fee_for_shape(
                    P2PK, Len(selected), Column(p.outputs, "len"), payload, rate)
      RECURSIVE Settled(_, _)
      Settled(p, passes) ==
        IF ~p.ok THEN p
        ELSE Sole({IF exact = Failed \/ passes = 0 THEN Declined("payload")
                  ELSE IF exact <= p.fee THEN p
                  ELSE Settled(Candidate(Larger(exact, Larger(requested, MINIMUM_PLANNER_FEE))),
                               passes - 1) : exact \in {Exact(p)}})
  IN  Sole({Settled(Candidate(fee), 8) :
             fee \in {storage_mass_fee_with_payload(Column(selected, "amount"), amount, requested,
                                                    payload, lengths, rate)}})

Paid(p) == checked_total(p.inputs) - checked_sum(Column(p.outputs, "amount"))

\* "Insufficient funds within the current selection limit".
NoSend(amount, requested, payload, rate) ==
  [op |-> "unpaid", ok |-> FALSE, payload |-> payload, asked |-> Asked(amount, requested, rate, <<>>)]

Mutant_FirstCovering(amount, requested, payload, rate) ==
  LET required == Add(amount, Larger(MINIMUM_PLANNER_FEE, requested))
      Candidates(sorted) ==
        {plan_payload_send(Prefix(sorted, n), amount, requested, payload, rate) :
           n \in {n \in 1 .. Smaller(MAX_INPUTS, Len(sorted)) :
                    checked_total(Prefix(sorted, n)) >= required}}
      Best(complete) ==
        IF complete = {} THEN NoSend(amount, requested, payload, rate)
        ELSE CHOOSE p \in complete : \A q \in complete \ {p} : Len(p.inputs) < Len(q.inputs)
  IN  IF required = Failed THEN NoSend(amount, requested, payload, rate)
      ELSE Sole({Best({p \in all : p.ok}) : all \in {Candidates(sort_largest_first(coins))}})

\* The cheapest plan over the largest-first prefixes, the shortest among equals.
create_send_with_payload_from_utxos(amount, requested, payload, rate) ==
  LET required == Add(amount, Larger(MINIMUM_PLANNER_FEE, requested))
      Candidates(sorted) ==
        {plan_payload_send(Prefix(sorted, n), amount, requested, payload, rate) :
           n \in {n \in 1 .. Smaller(MAX_INPUTS, Len(sorted)) :
                    checked_total(Prefix(sorted, n)) >= required}}
      Best(complete) ==
        IF complete = {} THEN NoSend(amount, requested, payload, rate)
        ELSE CHOOSE p \in complete : \A q \in complete \ {p} : 
                \/ Paid(p) < Paid(q)
                \/ Paid(p) = Paid(q) /\ Len(p.inputs) < Len(q.inputs)
  IN  IF required = Failed THEN NoSend(amount, requested, payload, rate)
      ELSE Sole({Best({p \in all : p.ok}) : all \in {Candidates(sort_largest_first(coins))}})

\* The coins a caller names, as often as it names them.
Named(picks) == [i \in DOMAIN picks |-> coins[picks[i]]]

\* The caller's coins, in the caller's order; nothing refuses a coin named twice.
create_pskb_with_utxos(amount, requested, picks) ==
  LET selected == Named(picks)
      Priced(fee) ==
        IF ~validate_recipient_amount(amount) \/ selected = <<>> \/ fee = Failed
        THEN Declined("with")
        ELSE plan_payment("with", selected, PlannedOutput(amount, P2PK_LEN, Foreign), fee, 0,
                          Asked(amount, requested, DEFAULT_PLANNER_FEE_RATE, picks))
  IN  Sole({Priced(fee) :
             fee \in {storage_mass_fee_with_payload(
                        Column(selected, "amount"), amount, requested, 0,
                        <<P2PK_LEN, P2PK_LEN>>, DEFAULT_PLANNER_FEE_RATE)}})

-----------------------------------------------------------------------------
(* KIP-22 payments and covenant deposits                                   *)

Kip22Shape == [sig |-> 66 + 36, sigops |-> 1]

\* The caller lists the coins to select from.
kip22_payment(amount, fee, picks) ==
  LET Spending(selected, outputs) ==
        IF Add(amount, fee) = Failed \/ selected = <<>> \/ outputs = <<>> THEN Declined("kip22")
        ELSE Plan("kip22", selected, outputs, fee, Kip22Shape, 0, 0,
                  Asked(amount, fee, Failed, picks))
      To(selected) ==
        WithChange(PlannedOutput(amount, P2PK_LEN, Foreign), selected, fee, P2SH_LEN, 1, TRUE)
  IN  Sole({Spending(selected, To(selected)) :
             selected \in {select_automatic_with_limit(IF picks = <<>> THEN coins ELSE Named(picks),
                                                       Add(amount, fee), MAX_INPUTS)}})

\* An encoding is [tagged, payload]; a bound genesis is tagged and has no
\* payload, and only a tagged payload follows the genesis policy.
DepositFee(encoding, count) ==
  CovenantFee(count, 0, encoding.payload, IF encoding.tagged THEN 32 ELSE 0)

\* The selection and its fee: the user's coins, repeated ones included, or the
\* shortest prefix that pays for itself (the whole list when none does).
deposit_select(encoding, amount, requested, picks) ==
  LET FeeOf(s) == Larger(requested, DepositFee(encoding, Len(s)))
      Automatic(shown) == Sole({IF s = <<>> THEN shown ELSE s :
        s \in {Shortest(shown, Len(shown),
                        LAMBDA s : checked_total(s) >= Add(amount, FeeOf(s)))}})
      Selected(shown) ==
        IF picks = <<>> THEN Automatic(shown)
        ELSE IF ToSet(picks) \subseteq DOMAIN shown THEN [i \in DOMAIN picks |-> shown[picks[i]]]
        ELSE <<>>
  IN  Sole({[selected |-> s, fee |-> FeeOf(s), total |-> checked_total(s)] :
             s \in {Selected(sort_for_display(coins))}})

\* selected_send_amount, the genesis policy and the dust policy.
adjusted_send(encoding, amount, total, fee, manual, fold) ==
  LET genesis == encoding.tagged /\ encoding.policy
      chosen == IF total >= Add(amount, fee)
                THEN IF genesis /\ amount = 0 /\ total > fee THEN total - fee ELSE amount
                ELSE IF total <= fee \/ ~manual THEN Failed ELSE total - fee
      Folded(sent, change) ==
        IF fold /\ manual /\ change > 0 /\ change < KIP9_MIN_CHANGE THEN total - fee
        ELSE IF change = Failed THEN Failed ELSE sent
  IN  Sole({IF genesis /\ sent < MIN_GENESIS THEN Failed ELSE sent :
             sent \in {Folded(c, Sub(Sub(total, c), fee)) : c \in {chosen}}})

deposit(encoding, amount, requested, picks, fold) ==
  LET Outputs(sent, change) ==
        <<[PlannedOutput(sent, P2SH_LEN, Foreign) EXCEPT !.bound = encoding.tagged]>>
          \o IF change > 0 THEN <<PlannedOutput(change, P2PK_LEN, 0)>> ELSE <<>>
      Funded(c, sent) ==
        IF c.selected = <<>> \/ c.fee = Failed \/ Add(amount, c.fee) = Failed \/ c.total = Failed \/ sent = Failed
        THEN Declined("deposit")
        ELSE Plan("deposit", c.selected, Outputs(sent, c.total - sent - c.fee), c.fee, P2PK,
                  encoding.payload, IF encoding.tagged THEN 1 ELSE 0,
                  Asked(amount, requested, Failed, picks))
  IN  Sole({Sole({Funded(c, sent) :
                  sent \in {adjusted_send(encoding, amount, c.total, c.fee, picks # <<>>, fold)}}) :
             c \in {deposit_select(encoding, amount, requested, picks)}})

-----------------------------------------------------------------------------
(* Multisig spends: two signatures of three keys                           *)

Threshold == 2
Keys == 3
RedeemLen == 3 + 33 * Keys

multisig_signature_script_len(threshold, redeem) ==
  threshold * 66 + redeem + (IF redeem <= 75 THEN 1 ELSE IF redeem <= 255 THEN 2 ELSE 3)

MultisigShape == [sig |-> multisig_signature_script_len(Threshold, RedeemLen), sigops |-> Keys]

Mutant_PricedForOneInput(count, requested) ==
  Larger(requested, estimate_non_contextual_fee_for_shape(
                      MultisigShape, 1, <<P2PK_LEN, P2SH_LEN>>, 0, MIN_STANDARD_FEE_RATE))

multisig_standard_fee(count, requested) ==
  Larger(requested, estimate_non_contextual_fee_for_shape(
                      MultisigShape, count, <<P2PK_LEN, P2SH_LEN>>, 0, MIN_STANDARD_FEE_RATE))

\* The first change address that holds no coin, SCAN_DEPTH when all do.
FirstUnusedChange ==
  Min({i \in 0 .. SCAN_DEPTH : i = SCAN_DEPTH \/ \A c \in DOMAIN coins : coins[c].at # i + 1})

MultisigChange == IF kind = "static" THEN 0 ELSE FirstUnusedChange + 1

\* Every input raises the fee, so the selection is priced at each step; more
\* than three inputs are refused by plan_multisig.
multisig_spend(source, amount, requested, picks) ==
  LET Price(s) == Add(amount, multisig_standard_fee(Len(s), requested))
      Selected(held) ==
        IF picks # <<>> THEN select_explicit(held, picks)
        ELSE Shortest(sort_largest_first(held), Len(held),
                      LAMBDA s : Sole({p # Failed /\ checked_total(s) >= p : p \in {Price(s)}}))
      Spending(selected, fee, outputs) ==
        IF is_dust(amount) \/ selected = <<>> \/ Len(selected) > 3 \/ outputs = <<>>
        THEN Declined("multisig")
        ELSE Plan("multisig", selected, outputs, fee, MultisigShape, 0, 0,
                  Asked(amount, requested, Failed, picks))
      Priced(selected, fee) ==
        Spending(selected, fee, WithChange(PlannedOutput(amount, P2PK_LEN, Foreign), selected, fee,
                                           P2SH_LEN, MultisigChange, TRUE))
  IN  Sole({Priced(s, multisig_standard_fee(Len(s), requested)) :
             s \in {Selected(SelectSeq(coins, LAMBDA c : c.at = source))}})

\* One to three named coins of any address of the branch; naming one twice is
\* not refused here.
multisig_consolidation(picks, amount, requested) ==
  LET Gathered(selected, fee, change) ==
        IF change = Failed THEN Declined("gather")
        ELSE Plan("gather", selected,
                  <<PlannedOutput(amount, P2PK_LEN, Foreign)>> \o
                    IF is_dust(change) THEN <<>> ELSE <<PlannedOutput(change, P2SH_LEN, MultisigChange)>>,
                  fee, MultisigShape, 0, 0, Asked(amount, requested, Failed, picks))
      Priced(selected, fee) ==
        Sole({Gathered(selected, fee, change) :
               change \in {Sub(checked_total(selected), Add(amount, fee))}})
  IN  IF Len(picks) \notin 1 .. 3 \/ ~(ToSet(picks) \subseteq DOMAIN coins) THEN Declined("gather")
      ELSE Priced(Named(picks),
                  multisig_standard_fee(Len(picks), requested))

-----------------------------------------------------------------------------
(* The session                                                             *)

Opened(w) ==
  /\ kind = w.kind
  /\ coins = [i \in DOMAIN w.amounts |-> [id |-> i, amount |-> w.amounts[i], at |-> 0]]
  /\ nextChange = 0 /\ plan = NoPlan /\ settled = 0

BuilderInit == \E w \in Wallets : Opened(w)

\* A request of a wallet of this kind comes to the plan p.
Requested(of, p) ==
  /\ plan = NoPlan /\ settled < MaxSpends /\ kind \in of
  /\ plan' = p
  /\ UNCHANGED <<kind, coins, nextChange, settled>>

CreateSend == \E a \in Amounts, f \in Fees :
  Requested({"standard"},
          Pay("send", a, f, LAMBDA r : select_automatic_with_limit(coins, r, MAX_INPUTS), <<>>))

\* A limit of zero is refused by the selection.
CreateSendLimited == \E a \in Amounts, f \in Fees, limit \in 0 .. 2 :
  Requested({"standard"},
          Pay("send", a, f, LAMBDA r : select_automatic_with_limit(coins, r, limit), <<>>))

CreateSendSelected == \E a \in Amounts, f \in Fees, picks \in Picks \ {<<>>} :
  Requested({"standard"}, Pay("selected", a, f, LAMBDA r : select_explicit(coins, picks), picks))

\* The node's estimate when there is one, DEFAULT_PLANNER_FEE_RATE when not.
CreateSendWithPayload == \E a \in Amounts, f \in Fees, p \in Payloads, r \in Rates :
  LET rate == IF r = Failed THEN DEFAULT_PLANNER_FEE_RATE ELSE r
  IN  Requested({"standard"},
              IF validate_recipient_amount(a)
              THEN create_send_with_payload_from_utxos(a, f, p, rate) ELSE Declined("payload"))

CreateWithUtxos == \E a \in Amounts, f \in Fees, picks \in Picks :
  /\ ToSet(picks) \subseteq DOMAIN coins
  /\ Requested({"standard"}, create_pskb_with_utxos(a, f, picks))

CreateConsolidation == \E f \in Fees : Requested({"standard"}, plan_consolidation(f))

Encodings == [tagged : {TRUE}, policy : {FALSE}, payload : {0}]
             \cup {e \in [tagged : BOOLEAN, policy : BOOLEAN, payload : Payloads] : e.policy = e.tagged}

Deposit == \E e \in Encodings, a \in Amounts \cup {0}, f \in Fees, picks \in Picks, fold \in BOOLEAN :
  /\ coins # <<>>
  /\ Requested({"standard"}, deposit(e, a, f, picks, fold))

PayFromKip22 == \E a \in Amounts, f \in Fees, picks \in Picks :
  /\ ToSet(picks) \subseteq DOMAIN coins
  /\ Requested({"kip22"}, kip22_payment(a, f, picks))

SpendMultisig ==
  \E a \in Amounts, f \in Fees, picks \in Picks, source \in ToSet(Column(coins, "at")) :
    Requested({"static", "hd45"}, multisig_spend(source, a, f, picks))

ConsolidateMultisig == \E a \in Amounts, f \in Fees, picks \in Picks :
  Requested({"hd45"}, multisig_consolidation(picks, a, f))

QuoteWithdrawal == \E cap \in Caps, ret \in Returns, rate \in Rates \ {Failed} :
  LET thread == [amount |-> coins[1].amount, minimum |-> MINIMUM_PLANNER_FEE, rate |-> rate]
  IN  Requested({"thread"}, [op |-> "withdraw", ok |-> FALSE, thread |-> thread, cap |-> cap,
                           return |-> ret, quote |-> maximum_withdraw(thread, cap, ret)])

\* The node takes a plan that spends coins it has, each once: the wallet's own
\* outputs become coins, and the application moves on to a new change address.
Settle ==
  /\ plan # NoPlan /\ plan.ok /\ Distinct(plan.inputs)
  /\ LET kept == SelectSeq(coins, LAMBDA c : c \notin ToSet(plan.inputs))
         own == {i \in DOMAIN plan.outputs : plan.outputs[i].to # Foreign}
         new == SetToSeq({[id |-> 100 * (settled + 1) + i, amount |-> plan.outputs[i].amount,
                           at |-> plan.outputs[i].to] : i \in own})
     IN  coins' = kept \o new
  /\ nextChange' = IF kind = "standard" /\ \E i \in DOMAIN plan.outputs :
                                              plan.outputs[i].to = nextChange + 1
                   THEN nextChange + 1 ELSE nextChange
  /\ plan' = NoPlan /\ settled' = settled + 1
  /\ UNCHANGED kind

\* The application does not sign, or was refused.
Abandon ==
  /\ plan # NoPlan /\ plan' = NoPlan
  /\ UNCHANGED <<kind, coins, nextChange, settled>>

BuilderNext ==
  \/ CreateSend \/ CreateSendLimited \/ CreateSendSelected \/ CreateSendWithPayload
  \/ CreateWithUtxos \/ CreateConsolidation \/ Deposit \/ PayFromKip22
  \/ SpendMultisig \/ ConsolidateMultisig \/ QuoteWithdrawal \/ Settle \/ Abandon

BuilderSpec == BuilderInit /\ [][BuilderNext]_builderVars

-----------------------------------------------------------------------------
(* Properties                                                              *)

Planned == plan # NoPlan /\ plan.ok

Burned == Paid(plan) - plan.fee

\* Every plan adds up: it spends the wallet's own coins, none of them twice
\* unless the caller named it twice, and then only a deposit, a consolidation of
\* multisig coins, create_pskb_with_utxos and the KIP-22 payment do; the
\* recipient gets what was asked for (a picked deposit that falls short gets
\* all of the selection but the fee); the fee is the one asked for or more, and
\* what is paid beyond it is dust that could not be change; change is never
\* dust and goes to a change address without a coin while one is left.
PlansAddUp ==
  Planned =>
    /\ ToSet(plan.inputs) \subseteq ToSet(coins)
    /\ plan.op \notin {"deposit", "gather", "with", "kip22"} => Distinct(plan.inputs)
    /\ Distinct(plan.asked.picks) => Distinct(plan.inputs)
    /\ plan.fee >= plan.asked.fee
    /\ Burned >= 0
    /\ Burned > 0 => Len(plan.outputs) = 1 /\ is_dust(Burned)
    /\ plan.op \in {"send", "selected", "payload", "with", "kip22", "multisig", "gather"} =>
         plan.outputs[1].amount = plan.asked.amount
    /\ plan.op \in {"consolidate", "deposit"} => Burned = 0
    /\ plan.op = "deposit" /\ plan.outputs[1].amount < plan.asked.amount =>
         plan.asked.picks # <<>> /\ Len(plan.outputs) = 1
    /\ Len(plan.outputs) = 2 /\ plan.op # "deposit" =>
         /\ ~is_dust(plan.outputs[2].amount)
         /\ kind \in {"standard", "hd45"} =>
              \A c \in DOMAIN coins : coins[c].at = plan.outputs[2].to => coins[c].at > SCAN_DEPTH

\* The transaction of a plan once its inputs are signed.
SignedTx(p) ==
  [version |-> p.version, inputs |-> [i \in DOMAIN p.inputs |-> p.shape],
   outputs |-> p.outputs, payload |-> p.payload]

StorageFee(p) ==
  Times(storage_mass_estimate(Entries(Column(p.inputs, "amount")),
                              Entries(Column(p.outputs, "amount"))),
        Larger(p.asked.rate, MIN_STANDARD_FEE_RATE))

\* A withdrawal within the cap that leaves the covenant its minimum.
Fits(p, amount) == amount \in 1 .. p.cap /\ leaves_return(p.thread, amount, p.return)

\* A builder that prices its plan charges enough for the transaction it turns
\* into: preflight analysis of the signed transaction finds its fee sufficient,
\* a standard plan pays for the storage mass of the change it really leaves, a
\* deposit for its compute mass, and one sompi more than a quoted withdrawal would
\* exceed the cap or leave the covenant less than its minimum.
FeesCoverMass ==
  /\ Planned /\ plan.op \in {"payload", "with", "multisig", "gather"} =>
       Paid(plan) >= minimum_fee(SignedTx(plan))
  /\ Planned /\ plan.op \in {"payload", "with"} => Paid(plan) >= StorageFee(plan)
  /\ Planned /\ plan.op = "deposit" =>
       Paid(plan) >= compute_mass(SignedTx(plan)) * MIN_STANDARD_FEE_RATE
  /\ plan.op = "withdraw" => ~Fits(plan, plan.quote + 1)

\* What a builder hands out is a transaction the node accepts, coins the caller named
\* twice aside: it adds up and it pays for its mass.
PlansAreSound == PlansAddUp /\ FeesCoverMass

\* What maximum_withdraw says of itself: the quote is "the largest withdrawal, at most
\* `cap`, whose priced fee still leaves `minimum_return` in the covenant" and "0 when
\* no withdrawal fits" (transaction/mass.rs).
QuoteIsLargest ==
  plan.op = "withdraw" => \A amount \in Caps : amount > plan.quote => ~Fits(plan, amount)

Powers == {2 ^ k : k \in 0 .. 24}

Rest(selected, p) == Sub(checked_total(selected), p.asked.amount)

\* Whether a payload plan with these coins could pay this fee: with a change
\* output worth having, or with nothing left but dust to burn.
Feasible(selected, fee, p) ==
  LET inputs == Column(selected, "amount")
      left == Sub(Rest(selected, p), fee)
      change == IF left > 0 THEN <<left>> ELSE <<>>
      lengths == [i \in 1 .. 1 + Len(change) |-> P2PK_LEN]
  IN  /\ left # Failed
      /\ IF left = 0 THEN is_dust(fee) ELSE ~is_dust(left) /\ nextChange < NCHANGE
      /\ required_mass_fee_for_scripts(inputs, <<p.asked.amount>> \o change, lengths, p.payload,
                                       p.asked.rate, Larger(MINIMUM_PLANNER_FEE, p.asked.fee)) \in 0 .. fee

\* The fee search gave up on these coins: it stopped at MAX_FEE_PASSES, still
\* below the fee the change it leaves would need.
SearchExhausted(selected, p) ==
  storage_mass_fee_with_payload(Column(selected, "amount"), p.asked.amount, p.asked.fee, p.payload,
                                [i \in 1 .. 1 + Smaller(1, NCHANGE - nextChange) |-> P2PK_LEN],
                                p.asked.rate) = Failed

\* No largest-first selection within the limit is cheaper than the payload plan
\* chosen, with a lower fee or by burning its dust, and none could have paid
\* when the builder says that the funds do not suffice, except one on which the
\* fee search gave up.
PayloadSendIsCheapest ==
  LET sorted == sort_largest_first(coins)
      least == Larger(MINIMUM_PLANNER_FEE, plan.asked.fee)
      Ends(selected) == {Rest(selected, plan), Rest(selected, plan) \div 2}
      Tried(selected) ==
        IF plan.op = "payload"
        THEN {f \in Ends(selected) \cup {Paid(plan) - d : d \in Powers} : f < Paid(plan)}
        ELSE Ends(selected) \cup {least} \cup {least + d : d \in Powers}
  IN  plan.op = "unpaid" \/ (plan.op = "payload" /\ plan.ok) =>
        \A n \in 1 .. Smaller(MAX_INPUTS, Len(sorted)) :
          \/ \A f \in Tried(Prefix(sorted, n)) : f > 0 => ~Feasible(Prefix(sorted, n), f, plan)
          \/ SearchExhausted(Prefix(sorted, n), plan)

=============================================================================
