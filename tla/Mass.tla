-------------------------------- MODULE Mass --------------------------------
(***************************************************************************)
(* Mass and fee arithmetic (transaction/mass.rs, builder/planning/amounts, *)
(* builder/covenant/fee.rs).  Bytes and grams are the source's.  Money is  *)
(* counted in units of 10 sompi, so that the rates 100 and 110 sompi per   *)
(* gram are 10 and 11 and STORAGE_MASS_C is 10^11; U64 stands for the      *)
(* largest amount and for any quotient beyond it.  An amount is a natural  *)
(* number or Failed, the Err(String) of the source, which every checked    *)
(* operation hands on.                                                     *)
(***************************************************************************)
EXTENDS Integers, Sequences, SequencesExt, FiniteSetsExt, Functions

U64 == 2000000000
Failed == -1

MIN_STANDARD_FEE_RATE == 10
MAX_COMPUTE_MASS == 500000
MAX_STORAGE_MASS == 500000
MAX_TRANSIENT_MASS == 1000000
DUST_THRESHOLD == 2000000
MAX_STANDARD_MASS == 100000

\* The member of a singleton: Sole({F(x) : x \in {e}}) is F(e), with e computed
\* once however often F uses it.
Sole(S) == CHOOSE x \in S : TRUE

Larger(a, b) == IF a = Failed \/ b = Failed THEN Failed ELSE IF a < b THEN b ELSE a

Smaller(a, b) == IF a < b THEN a ELSE b

\* checked_add, checked_sub and checked_mul followed by `?`.
Add(a, b) == IF a = Failed \/ b = Failed THEN Failed ELSE IF a > U64 - b THEN Failed ELSE a + b

Sub(a, b) == IF a = Failed \/ b = Failed \/ a < b THEN Failed ELSE a - b

Times(a, b) ==
  IF a = Failed \/ b = Failed THEN Failed
  ELSE IF a # 0 /\ b > U64 \div a THEN Failed ELSE a * b

checked_sum(amounts) == Sole({IF sum > U64 THEN Failed ELSE sum : sum \in {SumFunction(amounts)}})

Column(entries, field) == [i \in DOMAIN entries |-> entries[i][field]]

-----------------------------------------------------------------------------
(* Storage mass (KIP-9).  An entry is [amount, plurality].                  *)

\* STORAGE_MASS_C * plurality^2 / amount, exactly: 10^8 is divided first and
\* three decimal digits follow.  Far beyond every limit it stays at 10^8.
storage_mass_term(amount, plurality) ==
  LET n == plurality * plurality * 100000000
      a == IF amount = 0 THEN 1 ELSE amount
      Digit(d) == [q |-> d.q * 10 + (d.r * 10) \div a, r |-> (d.r * 10) % a]
      Digits(S) == {Digit(d) : d \in S}
  IN  IF a < 1000 * plurality * plurality THEN 100000000
      ELSE Sole(Digits(Digits(Digits({[q |-> n \div a, r |-> n % a]})))).q

harmonic_mass(entries) ==
  SumFunction([i \in DOMAIN entries |-> storage_mass_term(entries[i].amount, entries[i].plurality)])

plurality_total(entries) == checked_sum(Column(entries, "plurality"))

uses_relaxed_storage_mass(i, o) == i = 1 \/ o = 1 \/ <<i, o>> = <<2, 2>>

arithmetic_input_mass(ins, plurality) ==
  plurality * storage_mass_term(checked_sum(Column(ins, "amount")) \div plurality, 1)

storage_mass_estimate(ins, outs) ==
  LET i == plurality_total(ins)
      input == IF uses_relaxed_storage_mass(i, plurality_total(outs))
               THEN harmonic_mass(ins) ELSE arithmetic_input_mass(ins, i)
  IN  Sole({IF m < 0 THEN 0 ELSE m : m \in {harmonic_mass(outs) - input}})

utxo_plurality(len, hasCovenant) == (63 + len + (IF hasCovenant THEN 32 ELSE 0) + 99) \div 100

is_dust(amount) ==
  \/ amount = 0
  \/ amount < DUST_THRESHOLD /\ storage_mass_term(amount, 1) > MAX_STANDARD_MASS

-----------------------------------------------------------------------------
(* The fee of a planned shape, before anything is signed.                   *)

P2PK == [sig |-> 66, sigops |-> 1]

SumOf(lengths, fixed) == SumFunction(lengths) + fixed * Len(lengths)

estimated_plan_size(sig, count, lengths, payload) ==
  94 + payload + count * (52 + sig) + SumOf(lengths, 18)

\* mass * MAX_COMPUTE_MASS / MAX_TRANSIENT_MASS, rounded up.
normalized(transient) == (transient + 1) \div 2

estimate_non_contextual_fee_for_shape(shape, count, lengths, payload, rate) ==
  LET Priced(size, compute) ==
        IF compute > MAX_COMPUTE_MASS \/ 4 * size > MAX_TRANSIENT_MASS THEN Failed
        ELSE Times(Larger(compute, normalized(4 * size)), Larger(rate, MIN_STANDARD_FEE_RATE))
  IN  Sole({Priced(size, size + 10 * SumOf(lengths, 2) + count * shape.sigops * 1000) :
             size \in {estimated_plan_size(shape.sig, count, lengths, payload)}})

\* CovenantFeeShape::calculate: the compute mass of a covenant transaction at
\* the minimum rate with 15 percent on top.
CovenantFee(inputs, redeem, payload, binding) ==
  LET p2sh == IF redeem > 0 THEN 1 ELSE 0
      size == 46 + inputs * 115 + p2sh * (118 + redeem) + 35 + binding + 43 + payload + 10
      compute == size + (inputs + p2sh) * 1000 + 690
  IN  Larger(Times(compute * MIN_STANDARD_FEE_RATE, 115) \div 100, 10000)

-----------------------------------------------------------------------------
(* analyze_verified: the fee the signed transaction must pay.  A signed     *)
(* transaction is [version, inputs: Seq([sig, sigops]), outputs: Seq([len,  *)
(* bound]), payload].                                                       *)

estimated_serialized_size(tx) ==
  94 + tx.payload
     + SumOf(Column(tx.inputs, "sig"), 52 + IF tx.version >= 1 THEN 2 ELSE 0)
     + SumOf([i \in DOMAIN tx.outputs |->
                tx.outputs[i].len + IF tx.outputs[i].bound THEN 34 ELSE 0], 18)

compute_mass(tx) ==
  estimated_serialized_size(tx) + 10 * SumOf(Column(tx.outputs, "len"), 2)
    + 1000 * SumOf(Column(tx.inputs, "sigops"), 0)

minimum_fee(tx) ==
  Times(Larger(compute_mass(tx), normalized(4 * estimated_serialized_size(tx))),
        MIN_STANDARD_FEE_RATE)

-----------------------------------------------------------------------------
(* ThreadWithdrawFee.  A thread is [amount, minimum, rate].                 *)

withdraw_fee(thread, withdraw) ==
  LET remainder == Sub(Sub(thread.amount, withdraw), thread.minimum)
      covenant == utxo_plurality(35, TRUE)
      storage == storage_mass_estimate(
                   <<[amount |-> thread.amount, plurality |-> covenant]>>,
                   <<[amount |-> withdraw, plurality |-> utxo_plurality(34, FALSE)],
                     [amount |-> remainder, plurality |-> covenant]>>)
  IN  IF remainder \in {Failed, 0} \/ withdraw = 0 THEN thread.minimum
      ELSE Sole({IF s > MAX_STORAGE_MASS THEN Failed
                ELSE Larger(Times(Larger(s, 2500), thread.rate), thread.minimum) : s \in {storage}})

leaves_return(thread, withdraw, return) ==
  Sub(Sub(thread.amount, withdraw), withdraw_fee(thread, withdraw)) >= return

withdraw_ceiling(thread, cap, return) ==
  LET left == Sub(Sub(thread.amount, return), thread.minimum)
  IN  Smaller(IF left = Failed THEN 0 ELSE left, cap)

\* The answer is fixed one bit at a time from the top.
maximum_withdraw(thread, cap, return) ==
  LET Fits(w) == w <= withdraw_ceiling(thread, cap, return) /\ leaves_return(thread, w, return)
      RECURSIVE Fix(_, _)
      Fix(best, bit) ==
        IF bit < 0 THEN best
        ELSE Sole({Fix(next, bit - 1) :
                    next \in {IF Fits(best + 2 ^ bit) THEN best + 2 ^ bit ELSE best}})
  IN  Fix(0, 29)
=============================================================================
