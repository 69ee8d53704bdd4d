------------------------------ MODULE MCSigning ------------------------------
(* Two documents, a covenant whose commitment is the sighash of a swap's claim,  *)
(* and the swap itself; keys of either parity, an account and an address named twice *)
(* by a script.                                                                  *)
EXTENDS Signing

\* A polynomial for a hash.
RECURSIVE MCDigest(_)
MCDigest(parts) == IF parts = <<>> THEN 5 % Q
                   ELSE Add(Mul(3, Head(parts)), Mul(7, MCDigest(Tail(parts))))

\* 17 and 9001 have odd and even points; 4000 belongs to a cosigner.
MCAccounts == {[key |-> 17, derived |-> {31}], [key |-> 2222, derived |-> {9001}]}
Cosigner   == 4000

Slot0(keys, kind, sigs) == [kind |-> kind, keys |-> keys, sigs |-> sigs]
Foreign == [pos |-> 3, pk |-> NoKey, r |-> 77, s |-> 88]

DocOf(id) ==
  [id |-> id,
   inputs |-> << Slot0(<<PointX(31)>>, "p2pk", <<>>),
                 Slot0(<<PointX(9001), PointX(17), PointX(Cosigner), PointX(17)>>,
                       "multisig", <<Foreign>>) >>]

Single == [id |-> 7, inputs |-> << Slot0(<<PointX(31)>>, "p2pk", <<>>) >>]

\* A script that names an address twice.
Twice == [id |-> 9, inputs |-> << Slot0(<<PointX(9001), PointX(9001)>>, "multisig", <<>>) >>]

MCHierarchy == [covenant |-> <<101, 7002>>, claim |-> <<8103, 204>>, adaptor |-> <<305, 9906>>]

Claimer == PointX(MCHierarchy.claim[1])
SwapPoint == PointX(MCHierarchy.adaptor[2])

SwapScript == [shape |-> "swap", claimer |-> Claimer, spk |-> "alice"]
Claim == [id |-> 42, inputs |-> 1, outputs |-> 1, payload |-> FALSE, signed |-> FALSE,
          sighash_type |-> "zero", script |-> Some(SwapScript), amount |-> 600000000,
          value |-> 100000000, spk |-> "alice"]

SwapReq(tx) == [flow |-> "swap", key_id |-> 1, adaptor_point |-> SwapPoint, tx |-> tx]

CovReq(kind, scheme, binding, commitment, script, context) ==
  [flow |-> "covenant",
   q |-> [kind |-> kind, scheme |-> scheme, binding |-> binding, key_id |-> Some(1), token |-> None,
          commitment |-> Some(commitment), script |-> Some(script), context |-> context]]

CovKey == PointX(MCHierarchy.covenant[1])
Statement(o, h) == Some([oracle |-> o, hash |-> h])
ScriptOf(shape, h) == [shape |-> shape, commitment |-> h, keys |-> {CovKey}]

\* An opaque request for the very digest that claims the swap.
OpaqueClaim == CovReq("Opaque", "None", "KeyPresent", 42, ScriptOf("any", 0), None)

MCScenes ==
  { {[flow |-> "tx", doc |-> DocOf(5)]}, {[flow |-> "tx", doc |-> doc] : doc \in {Single, Twice}},
    {OpaqueClaim, SwapReq(Claim)},
    {SwapReq(Claim), SwapReq([Claim EXCEPT !.value = @ - 1, !.id = 43])},
    {CovReq("Known", "Sha256Preimage", "FixedCheckSigFromStack", 6, ScriptOf("fixed", 6),
            Statement(FALSE, 6)),
     CovReq("Known", "OracleV1", "FixedCheckSigFromStack", 6, ScriptOf("oracle", 6),
            Statement(FALSE, 6))} }

==============================================================================
