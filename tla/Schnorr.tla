------------------------------- MODULE Schnorr -------------------------------
(***************************************************************************)
(* BIP340 signatures, their host-assisted variant (crypto/anti_klepto.rs)  *)
(* and adaptor signatures (crypto/adaptor.rs), over a small prime field.   *)
(*                                                                         *)
(* A point of the curve is its discrete logarithm, so that G * k is k.     *)
(* As on the curve, a point and its negation share the x coordinate and    *)
(* differ in parity.  The hash is a parameter; as the message ranges over  *)
(* the field, so does the challenge.                                       *)
(***************************************************************************)
EXTENDS Integers, Sequences, FiniteSets

CONSTANTS
  Q,             \* the order of the group, an odd prime
  Digest(_)      \* the hash of a sequence of numbers

ASSUME SchnorrAssumption == Q \in Nat /\ Q > 3 /\ Q % 2 = 1

Scalars == 0 .. Q - 1

Add(a, b) == (a + b) % Q
Mul(a, b) == (a * b) % Q
Neg(a)    == (Q - a) % Q

\* The group: parity and x coordinate of a point, and the even point of an x.
Odd(P)    == P > Q \div 2
PointX(P) == IF Odd(P) THEN Neg(P) ELSE P
Canonical == 1 .. Q \div 2          \* x coordinates, each its own even point

Fail(why)    == [err |-> why, v |-> 0]
Done(v)      == [err |-> "", v |-> v]

\* SHA-256 as a scalar; a digest that is none counts as zero.
AsScalar(h) == IF h \in Scalars THEN h ELSE 0

Mix(parts) == AsScalar(Digest(parts))

challenge(nonce_x, public_x, message) == Add(message, Mix(<<nonce_x, public_x>>))

normalized_secret(private_key) == PointX(private_key)

-----------------------------------------------------------------------------
(* crypto/schnorr: the k256 implementation of BIP340. *)

\* The nonce k' of BIP340 for the given auxiliary randomness.
AuxNonce(secret, public_x, message, aux) == Mix(<<aux, secret, message, public_x>>)

schnorr_sign_with_aux_rand(private_key, message, aux) ==
  LET d  == normalized_secret(private_key)
      k0 == AuxNonce(d, PointX(private_key), message, aux)
      k  == PointX(k0)
      s  == Add(k, Mul(challenge(k, PointX(private_key), message), d))
  IN IF private_key = 0 \/ k0 = 0 \/ s = 0 THEN Fail("SigningFailed")
     ELSE Done([r |-> k, s |-> s])

schnorr_verify(public_x, message, sig) ==
  /\ public_x \in Canonical /\ sig.r \in Canonical /\ sig.s # 0
  /\ sig.s = Add(sig.r, Mul(challenge(sig.r, public_x, message), public_x))

-----------------------------------------------------------------------------
(* crypto/anti_klepto.rs.  A compressed point is <<parity, x>>. *)

Even(x) == <<2, x>>
Compressed(P) == <<IF Odd(P) THEN 3 ELSE 2, PointX(P)>>
PointOf(compressed) == IF compressed[1] = 3 THEN Neg(compressed[2]) ELSE compressed[2]

provisional_nonce_point(sig) == Even(sig.r)

host_scalar(session, host_secret, input_index, slot, public_key, nonce_point) ==
  Mix(<<session, host_secret, input_index, slot, public_key[2], nonce_point[2]>>)

zero_aux_nonce(secret, public_x, message) == AuxNonce(secret, public_x, message, 0)

\* Mutant: the deterministic nonce is taken like any other.
Mutant_AnyNonce(sig, secret, public_x, message) ==
  LET k == Add(sig.s, Neg(Mul(challenge(sig.r, public_x, message), secret)))
  IN IF k = 0 THEN Fail("InvalidProvisionalSignature") ELSE Done(k)

provisional_nonce(sig, secret, public_x, message) ==
  LET k   == Add(sig.s, Neg(Mul(challenge(sig.r, public_x, message), secret)))
      det == zero_aux_nonce(secret, public_x, message)
  IN IF k = 0 THEN Fail("InvalidProvisionalSignature")
     ELSE IF Mul(k, k) = Mul(det, det) THEN Fail("ReusableProvisionalNonce")
     ELSE Done(k)

tweak_provisional_signature(private_key, message, sig, session, host_secret, input_index, slot) ==
  LET d == normalized_secret(private_key)
      x == PointX(private_key)
      k == provisional_nonce(sig, d, x, message)
      h == host_scalar(session, host_secret, input_index, slot, Even(x), Even(sig.r))
      c == Add(k.v, h)
      n == PointX(c)
      final == [r |-> n, s |-> Add(n, Mul(challenge(n, x, message), d))]
  IN IF private_key = 0 THEN Fail("InvalidPrivateKey")
     ELSE IF k.err # "" THEN k
     ELSE IF h = 0 \/ c = 0 THEN Fail("InvalidHostContribution")
     ELSE IF ~schnorr_verify(x, message, final) THEN Fail("InvalidFinalSignature")
     ELSE Done(final)

verify_nonce_relation(nonce_point, sig, session, host_secret, input_index, slot, public_key) ==
  LET h == host_scalar(session, host_secret, input_index, slot, public_key, nonce_point)
      expected == Add(PointOf(nonce_point), h)
  IN /\ public_key[1] = 2 /\ nonce_point[1] = 2
     /\ public_key[2] \in Canonical /\ nonce_point[2] \in Canonical
     /\ h # 0 /\ expected # 0
     /\ PointX(expected) = sig.r

-----------------------------------------------------------------------------
(* crypto/adaptor.rs.  A pre-signature is [r, s, negated]. *)

adaptor_point_from_secret(secret) ==
  IF secret = 0 THEN Fail("InvalidPrivateKey") ELSE Done([secret |-> PointX(secret), x |-> PointX(secret)])

base_nonce_scalar(secret, public_x, message, adaptor_x, session, aux) ==
  Mix(<<secret, public_x, message, adaptor_x, session, aux, 1>>)

adaptor_host_scalar(session, host_secret, public_x, base_point, message, adaptor_x) ==
  Mix(<<session, host_secret, public_x, PointOf(base_point), message, adaptor_x>>)

adaptor_base_nonce_point(private_key, message, adaptor_x, session, aux) ==
  LET k == base_nonce_scalar(normalized_secret(private_key), PointX(private_key), message,
                             adaptor_x, session, aux)
  IN IF private_key = 0 THEN Fail("InvalidPrivateKey")
     ELSE IF adaptor_x \notin Canonical THEN Fail("InvalidAdaptorPoint")
     ELSE IF k = 0 THEN Fail("InvalidNonce") ELSE Done(Compressed(k))

SignedAdaptor(presig, adaptor_x) == IF presig.negated THEN Neg(adaptor_x) ELSE adaptor_x

verify_adaptor_presignature(public_x, message, presig, adaptor_x) ==
  /\ {public_x, adaptor_x, presig.r} \subseteq Canonical
  /\ presig.s = Add(Add(presig.r, Neg(SignedAdaptor(presig, adaptor_x))),
                    Mul(challenge(presig.r, public_x, message), public_x))

create_adaptor_presignature(private_key, message, adaptor_x, session, aux, host_secret) ==
  LET d  == normalized_secret(private_key)
      x  == PointX(private_key)
      k  == base_nonce_scalar(d, x, message, adaptor_x, session, aux)
      h  == adaptor_host_scalar(session, host_secret, x, Compressed(k), message, adaptor_x)
      c  == Add(k, h)
      R  == Add(c, adaptor_x)
      n  == IF Odd(R) THEN Neg(c) ELSE c
      presig == [r |-> PointX(R), s |-> Add(n, Mul(challenge(PointX(R), x, message), d)),
                 negated |-> Odd(R)]
  IN IF private_key = 0 THEN Fail("InvalidPrivateKey")
     ELSE IF adaptor_x \notin Canonical THEN Fail("InvalidAdaptorPoint")
     ELSE IF k = 0 \/ R = 0 THEN Fail("InvalidNonce")
     ELSE IF h = 0 \/ c = 0 THEN Fail("InvalidHostContribution")
     ELSE IF ~verify_adaptor_presignature(x, message, presig, adaptor_x)
          THEN Fail("InvalidPreSignature")
     ELSE Done(presig)

complete_adaptor_presignature(presig, secret) ==
  IF secret = 0 THEN Fail("InvalidAdaptorPoint")
  ELSE Done([r |-> presig.r, s |-> Add(presig.s, SignedAdaptor(presig, secret))])

extract_adaptor_secret(completed, presig) ==
  LET delta == Add(completed.s, Neg(presig.s))
  IN IF completed.r # presig.r \/ delta = 0 THEN Fail("InvalidCompletedSignature")
     ELSE Done(SignedAdaptor(presig, delta))

\* Mutant: the nonce of a negated pre-signature is not negated back.
Mutant_PlainRecovery(public_x, message, adaptor_x, session, host_secret, base_point, presig) ==
  LET h == adaptor_host_scalar(session, host_secret, public_x, base_point, message, adaptor_x)
  IN /\ base_point[2] \in Canonical /\ {adaptor_x, presig.r} \subseteq Canonical
     /\ h # 0
     /\ Add(PointOf(base_point), h) = Add(presig.r, Neg(SignedAdaptor(presig, adaptor_x)))

verify_host_nonce_relation(public_x, message, adaptor_x, session, host_secret, base_point, presig) ==
  LET h == adaptor_host_scalar(session, host_secret, public_x, base_point, message, adaptor_x)
      r == Add(presig.r, Neg(SignedAdaptor(presig, adaptor_x)))
      recovered == IF presig.negated THEN Neg(r) ELSE r
  IN /\ base_point[2] \in Canonical /\ {adaptor_x, presig.r} \subseteq Canonical
     /\ h # 0
     /\ Add(PointOf(base_point), h) = recovered

==============================================================================
