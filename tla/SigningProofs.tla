---------------------------- MODULE SigningProofs ----------------------------
EXTENDS Signing, IterationProofs

(***************************************************************************)
(* Arithmetic modulo the order of the group.                               *)
(***************************************************************************)

LEMMA ModFacts ==
  ASSUME NEW a \in Int
  PROVE  a % Q \in Scalars /\ \E t \in Int : a = Q * t + (a % Q)
<1>0. Q \in Nat /\ Q > 0
  BY SchnorrAssumption
<1>1. a % Q \in 0 .. Q - 1
  BY <1>0
<1>2. a \div Q \in Int
  BY <1>0
<1>3. a = Q * (a \div Q) + (a % Q)
  BY <1>0, Z3
<1> QED BY <1>1, <1>2, <1>3 DEF Scalars

LEMMA ModUnique ==
  ASSUME NEW a \in Int, NEW t \in Int, NEW r \in Scalars, a = Q * t + r
  PROVE  a % Q = r
<1>1. PICK u \in Int : a = Q * u + (a % Q)
  BY ModFacts
<1>2. a % Q \in 0 .. Q - 1 /\ Q \in Nat /\ Q > 0 /\ r \in 0 .. Q - 1
  BY ModFacts, SchnorrAssumption DEF Scalars
<1>3. CASE t = u
  BY <1>1, <1>2, <1>3
<1>4. CASE t > u
  <2>1. t >= u + 1
    BY <1>4
  <2>2. Q * t >= Q * (u + 1)
    BY <2>1, <1>2
  <2>3. Q * (u + 1) = Q * u + Q
    BY <1>2
  <2> QED BY <1>1, <1>2, <2>2, <2>3
<1>5. CASE t < u
  <2>1. u >= t + 1
    BY <1>5
  <2>2. Q * u >= Q * (t + 1)
    BY <2>1, <1>2
  <2>3. Q * (t + 1) = Q * t + Q
    BY <1>2
  <2> QED BY <1>1, <1>2, <2>2, <2>3
<1> QED BY <1>3, <1>4, <1>5

LEMMA ScalarMod ==
  ASSUME NEW a \in Scalars
  PROVE  a % Q = a
<1>1. a \in Int /\ a = Q * 0 + a
  BY SchnorrAssumption DEF Scalars
<1> QED BY <1>1, ModUnique

(* Sums and negations of scalars, without the modulus. *)
LEMMA AddIs ==
  ASSUME NEW a \in Scalars, NEW b \in Scalars
  PROVE  /\ Add(a, b) \in Scalars
         /\ Add(a, b) = IF a + b < Q THEN a + b ELSE a + b - Q
<1>1. a \in 0 .. Q - 1 /\ b \in 0 .. Q - 1 /\ Q \in Nat
  BY SchnorrAssumption DEF Scalars
<1>2. CASE a + b < Q
  <2>1. a + b \in Scalars
    BY <1>1, <1>2 DEF Scalars
  <2> QED BY <1>2, <2>1, ScalarMod DEF Add
<1>3. CASE a + b >= Q
  <2>1. a + b - Q \in Scalars /\ a + b \in Int /\ a + b = Q * 1 + (a + b - Q)
    BY <1>1, <1>3 DEF Scalars
  <2>2. (a + b) % Q = a + b - Q
    BY <2>1, ModUnique
  <2> QED BY <1>1, <1>3, <2>1, <2>2 DEF Add
<1> QED BY <1>1, <1>2, <1>3

LEMMA NegIs ==
  ASSUME NEW a \in Scalars
  PROVE  /\ Neg(a) \in Scalars
         /\ Neg(a) = IF a = 0 THEN 0 ELSE Q - a
<1>1. a \in 0 .. Q - 1 /\ Q \in Nat /\ Q > 0
  BY SchnorrAssumption DEF Scalars
<1>2. CASE a = 0
  <2>1. 0 \in Scalars /\ Q \in Int /\ Q = Q * 1 + 0
    BY <1>1 DEF Scalars
  <2>2. PICK t \in Int, r \in Scalars : t = 1 /\ r = 0 /\ Q = Q * t + r
    BY <2>1
  <2>3. Q % Q = 0
    BY <2>1, <2>2, ModUnique
  <2> QED BY <1>1, <1>2, <2>1, <2>3 DEF Neg
<1>3. CASE a # 0
  <2>1. Q - a \in Scalars
    BY <1>1, <1>3 DEF Scalars
  <2> QED BY <1>3, <2>1, ScalarMod DEF Neg
<1> QED BY <1>2, <1>3

LEMMA MulScalar ==
  ASSUME NEW a \in Int, NEW b \in Int
  PROVE  Mul(a, b) \in Scalars
<1>1. a * b \in Int
  OBVIOUS
<1> QED BY <1>1, ModFacts DEF Mul

LEMMA AddScalar ==
  ASSUME NEW a \in Int, NEW b \in Int
  PROVE  Add(a, b) \in Scalars
<1>1. a + b \in Int
  OBVIOUS
<1> QED BY <1>1, ModFacts DEF Add

LEMMA ScalarsAreInts == Scalars \subseteq Int /\ 0 \in Scalars
BY SchnorrAssumption DEF Scalars

LEMMA MixScalar ==
  ASSUME NEW parts
  PROVE  Mix(parts) \in Scalars
BY ScalarsAreInts DEF Mix, AsScalar

LEMMA ChallengeScalar ==
  ASSUME NEW r, NEW x, NEW message \in Int
  PROVE  challenge(r, x, message) \in Scalars
<1>1. Mix(<<r, x>>) \in Int
  BY MixScalar, ScalarsAreInts
<1> QED BY <1>1, AddScalar DEF challenge

(* A scalar and its negation have the same square. *)
LEMMA SquareOfNeg ==
  ASSUME NEW a \in Scalars
  PROVE  Mul(Neg(a), Neg(a)) = Mul(a, a)
<1>1. a \in Int /\ Q \in Int
  BY SchnorrAssumption DEF Scalars
<1>2. CASE a = 0
  BY <1>2, NegIs
<1>3. CASE a # 0
  <2>1. Neg(a) = Q - a
    BY <1>3, NegIs
  <2>0. PICK b \in Int : b = a * a
    BY <1>1
  <2>2. PICK t \in Int : b = Q * t + (b % Q)
    BY ModFacts
  <2>3. PICK r \in Scalars : r = b % Q
    BY ModFacts
  <2>4. (Q - a) * (Q - a) = Q * (Q - 2 * a) + a * a
    BY <1>1
  <2>5. Q * (Q - 2 * a) + Q * t = Q * (Q - 2 * a + t)
    BY <1>1
  <2>6. PICK u \in Int : u = Q - 2 * a + t
    BY <1>1
  <2>7. r \in Int /\ Q * u \in Int /\ Q * (Q - 2 * a) \in Int /\ Q * t \in Int
    BY <1>1, ScalarsAreInts
  <2>a. PICK c \in Int : c = (Q - a) * (Q - a)
    BY <1>1
  <2>8. c = Q * u + r
    <3>1. c = Q * (Q - 2 * a) + Q * t + r
      BY <2>0, <2>2, <2>3, <2>4, <2>7, <2>a
    <3> QED BY <3>1, <2>5, <2>6
  <2>9. c % Q = r
    BY <2>8, ModUnique
  <2> QED BY <2>0, <2>1, <2>3, <2>9, <2>a DEF Mul
<1> QED BY <1>2, <1>3

(* Points: the x coordinate of a point, and which of the two points it is. *)
LEMMA HalfIs ==
  Q \div 2 \in Nat /\ Q = 2 * (Q \div 2) + 1
BY SchnorrAssumption

LEMMA PointXIs ==
  ASSUME NEW P \in Scalars
  PROVE  /\ PointX(P) \in Scalars
         /\ P # 0 => PointX(P) \in Canonical
         /\ PointX(P) = 0 => P = 0
         /\ PointX(P) = P \/ (PointX(P) = Neg(P) /\ Odd(P))
         /\ PointX(PointX(P)) = PointX(P)
         /\ ~Odd(PointX(P))
<1>1. PICK h \in Nat : h = Q \div 2 /\ Q = 2 * h + 1
  BY HalfIs
<1>2. P \in 0 .. 2 * h
  BY <1>1 DEF Scalars
<1>3. Neg(P) = (IF P = 0 THEN 0 ELSE Q - P) /\ Neg(P) \in Scalars
  BY NegIs
<1>4. CASE Odd(P)
  <2>1. P > h /\ PointX(P) = Q - P /\ ~(Q - P > h) /\ Q - P \in 1 .. h
    BY <1>1, <1>2, <1>3, <1>4 DEF Odd, PointX
  <2>2. PointX(PointX(P)) = PointX(P) /\ ~Odd(PointX(P))
    BY <1>1, <2>1 DEF Odd, PointX
  <2> QED BY <1>1, <1>2, <1>3, <1>4, <2>1, <2>2 DEF Canonical
<1>5. CASE ~Odd(P)
  <2>1. PointX(P) = P /\ ~(P > h)
    BY <1>1, <1>5 DEF Odd, PointX
  <2>2. P # 0 => P \in 1 .. h
    BY <1>2, <2>1
  <2> QED BY <1>1, <1>5, <2>1, <2>2 DEF Canonical, PointX
<1> QED BY <1>4, <1>5

LEMMA CanonicalIs ==
  ASSUME NEW x \in Canonical
  PROVE  x \in Scalars /\ x # 0 /\ PointX(x) = x /\ ~Odd(x)
<1>1. PICK h \in Nat : h = Q \div 2 /\ Q = 2 * h + 1
  BY HalfIs
<1> QED BY <1>1 DEF Canonical, Scalars, PointX, Odd

-----------------------------------------------------------------------------
(* FlattenSeq: every element of every sequence, in order. *)

LEMMA BeforeIsOrder ==
  ASSUME NEW a \in Nat \X Nat, NEW b \in Nat \X Nat
  PROVE  ~Before(a, a) /\ (Before(a, b) => ~Before(b, a))
<1>1. a[1] \in Nat /\ a[2] \in Nat /\ b[1] \in Nat /\ b[2] \in Nat
  OBVIOUS
<1> QED BY <1>1 DEF Before

(* f joins the sequences of w, from[m] being the place its m-th element had. *)
Joined(f, from, w, n) ==
  /\ from \in [1 .. Len(f) -> Nat \X Nat]
  /\ \A m \in 1 .. Len(f) : /\ from[m][1] \in 1 .. n
                            /\ from[m][2] \in 1 .. Len(w[from[m][1]])
                            /\ f[m] = w[from[m][1]][from[m][2]]
  /\ \A m, l \in 1 .. Len(f) : m < l => Before(from[m], from[l])
  /\ \A i \in 1 .. n : \A j \in 1 .. Len(w[i]) : \E m \in 1 .. Len(f) : from[m] = <<i, j>>

Joins(f, w, n) == \E from : Joined(f, from, w, n)

LEMMA JoinsNext ==
  ASSUME NEW S, NEW n \in Nat \ {0}, NEW w, NEW f \in Seq(S), w[n] \in Seq(S), Joins(f, w, n - 1)
  PROVE  Joins(f \o w[n], w, n)
<1>1. PICK from : Joined(f, from, w, n - 1)
  BY DEF Joins
<1>2. PICK a \in Nat, b \in Nat : a = Len(f) /\ b = Len(w[n])
  BY LenProperties
<1>3. PICK h : h = f \o w[n]
  OBVIOUS
<1>4. /\ h \in Seq(S) /\ Len(h) = a + b
      /\ \A i \in 1 .. a + b : h[i] = IF i <= a THEN f[i] ELSE w[n][i - a]
  BY <1>2, <1>3, ConcatProperties
<1>5. PICK to : to = [m \in 1 .. a + b |-> IF m <= a THEN from[m] ELSE <<n, m - a>>]
  OBVIOUS
<1>6. /\ from \in [1 .. a -> Nat \X Nat]
      /\ \A m \in 1 .. a : /\ from[m][1] \in 1 .. n - 1
                          /\ from[m][2] \in 1 .. Len(w[from[m][1]])
                          /\ f[m] = w[from[m][1]][from[m][2]]
      /\ \A m, l \in 1 .. a : m < l => Before(from[m], from[l])
      /\ \A i \in 1 .. n - 1 : \A j \in 1 .. Len(w[i]) : \E m \in 1 .. a : from[m] = <<i, j>>
  BY <1>1, <1>2 DEF Joined
<1>7. \A m \in 1 .. a + b : IF m <= a THEN m \in 1 .. a /\ to[m] = from[m]
                                      ELSE m - a \in 1 .. b /\ to[m] = <<n, m - a>>
  BY <1>5
<1>8. to \in [1 .. a + b -> Nat \X Nat]
  <2>1. ASSUME NEW m \in 1 .. a + b
        PROVE  to[m] \in Nat \X Nat
    <3>1. CASE m <= a
      BY <1>6, <1>7, <3>1
    <3>2. CASE ~(m <= a)
      <4>1. to[m] = <<n, m - a>> /\ m - a \in Nat /\ n \in Nat
        BY <1>7, <3>2
      <4> QED BY <4>1
    <3> QED BY <3>1, <3>2
  <2> QED BY <1>5, <2>1
<1>9. \A m \in 1 .. a + b : /\ to[m][1] \in 1 .. n
                           /\ to[m][2] \in 1 .. Len(w[to[m][1]])
                           /\ h[m] = w[to[m][1]][to[m][2]]
  <2> SUFFICES ASSUME NEW m \in 1 .. a + b
               PROVE  /\ to[m][1] \in 1 .. n
                      /\ to[m][2] \in 1 .. Len(w[to[m][1]])
                      /\ h[m] = w[to[m][1]][to[m][2]]
    OBVIOUS
  <2>1. CASE m <= a
    <3>1. m \in 1 .. a /\ to[m] = from[m] /\ h[m] = f[m]
      BY <1>4, <1>7, <2>1
    <3>2. \A i \in 1 .. n - 1 : i \in 1 .. n
      OBVIOUS
    <3> QED BY <1>6, <3>1, <3>2
  <2>2. CASE ~(m <= a)
    <3>1. m - a \in 1 .. b /\ to[m] = <<n, m - a>> /\ h[m] = w[n][m - a]
      BY <1>4, <1>7, <2>2
    <3>2. n \in 1 .. n
      OBVIOUS
    <3> QED BY <1>2, <3>1, <3>2
  <2> QED BY <2>1, <2>2
<1>10. ASSUME NEW m \in 1 .. a + b, NEW l \in 1 .. a + b, m < l
       PROVE  Before(to[m], to[l])
  <2>1. CASE l <= a
    <3>1. m <= a
      BY <1>10, <2>1
    <3> QED BY <1>6, <1>7, <1>10, <2>1, <3>1
  <2>2. CASE ~(l <= a) /\ m <= a
    <3>1. to[l][1] = n /\ to[m] = from[m] /\ from[m][1] \in 1 .. n - 1
      BY <1>6, <1>7, <2>2
    <3>2. to[m][1] < to[l][1]
      BY <3>1
    <3> QED BY <3>2 DEF Before
  <2>3. CASE ~(l <= a) /\ ~(m <= a)
    <3>1. to[l] = <<n, l - a>> /\ to[m] = <<n, m - a>>
      BY <1>7, <2>3
    <3>2. m - a < l - a
      BY <1>10
    <3> QED BY <3>1, <3>2 DEF Before
  <2> QED BY <2>1, <2>2, <2>3
<1>11. ASSUME NEW i \in 1 .. n, NEW j \in 1 .. Len(w[i])
       PROVE  \E m \in 1 .. a + b : to[m] = <<i, j>>
  <2>1. CASE i = n
    <3>1. j \in 1 .. b
      BY <1>2, <1>11, <2>1
    <3>2. j + a \in 1 .. a + b /\ ~(j + a <= a) /\ (j + a) - a = j
      BY <3>1
    <3>3. to[j + a] = <<i, j>>
      BY <1>7, <2>1, <3>2
    <3> QED BY <3>2, <3>3
  <2>2. CASE i # n
    <3>1. i \in 1 .. n - 1
      BY <1>11, <2>2
    <3>2. PICK m \in 1 .. a : from[m] = <<i, j>>
      BY <1>6, <1>11, <3>1
    <3>3. m \in 1 .. a + b /\ to[m] = <<i, j>>
      BY <1>7, <3>2
    <3> QED BY <3>3
  <2> QED BY <2>1, <2>2
<1>12. Joined(h, to, w, n)
  BY <1>4, <1>8, <1>9, <1>10, <1>11 DEF Joined
<1> QED BY <1>3, <1>12 DEF Joins

Flattens(f, w, n) == f = [i \in 1 .. n |-> IF i = 1 THEN w[i] ELSE f[i - 1] \o w[i]]
FlattenExists(w, n) == \E f : Flattens(f, w, n)

LEMMA FlattenJoins ==
  ASSUME NEW S, NEW n \in Nat, NEW w \in [1 .. n -> Seq(S)]
  PROVE  FlattenSeq(w) \in Seq(S) /\ Joins(FlattenSeq(w), w, n)
<1>0. w \in Seq(Seq(S)) /\ Len(w) = n
  OBVIOUS
<1>1. CASE n = 0
  <2>1. w = <<>> /\ FlattenSeq(w) = w
    BY <1>0, <1>1 DEF FlattenSeq
  <2>2. Joined(<<>>, <<>>, w, 0)
    BY DEF Joined
  <2>3. Joins(<<>>, w, 0)
    BY <2>2 DEF Joins
  <2>4. FlattenSeq(w) = <<>> /\ <<>> \in Seq(S)
    BY <2>1
  <2> QED BY <1>1, <2>3, <2>4
<1>2. CASE n # 0
  <2>1. FlattenExists(w, n)
    <3>1. PICK V : V = Seq(S)
      OBVIOUS
    <3>2. \A i \in 1 .. n, v \in V : v \o w[i] \in V
      BY <3>1, ConcatProperties
    <3>3. PICK step : step = [i \in 1 .. n |-> [v \in V |-> v \o w[i]]]
      OBVIOUS
    <3>4. step \in [1 .. n -> [V -> V]] /\ <<>> \in V
      BY <3>1, <3>2, <3>3
    <3>5. PICK g \in [0 .. n -> V] : Iterates(g, <<>>, n, step)
      BY <3>4, IterExists
    <3>6. PICK f : f = [i \in 1 .. n |-> g[i]]
      OBVIOUS
    <3>7. \A i \in 1 .. n : f[i] = IF i = 1 THEN w[i] ELSE f[i - 1] \o w[i]
      <4> SUFFICES ASSUME NEW i \in 1 .. n
                   PROVE  f[i] = IF i = 1 THEN w[i] ELSE f[i - 1] \o w[i]
        OBVIOUS
      <4>1. i - 1 \in 0 .. n /\ g[i - 1] \in V /\ g[i] = step[i][g[i - 1]]
        BY <3>5 DEF Iterates
      <4>2. g[i] = g[i - 1] \o w[i] /\ f[i] = g[i]
        BY <3>3, <3>6, <4>1
      <4>3. CASE i = 1
        <5>1. g[0] = <<>> /\ w[i] \in Seq(S)
          BY <3>5 DEF Iterates
        <5>2. <<>> \o w[i] = w[i]
          BY <5>1, ConcatEmptySeq
        <5> QED BY <4>2, <4>3, <5>1, <5>2
      <4>4. CASE i # 1
        <5>1. i - 1 \in 1 .. n /\ f[i - 1] = g[i - 1]
          BY <3>6, <4>4
        <5> QED BY <4>2, <4>4, <5>1
      <4> QED BY <4>3, <4>4
    <3>8. f = [i \in 1 .. n |-> IF i = 1 THEN w[i] ELSE f[i - 1] \o w[i]]
      BY <3>6, <3>7
    <3> QED BY <3>8, Zenon DEF Flattens, FlattenExists
  <2> DEFINE f == CHOOSE f : Flattens(f, w, n)
  <2>2. Flattens(f, w, n)
    BY <2>1, Zenon DEF FlattenExists
  <2>3. FlattenSeq(w) = f[n]
    BY <1>0, <1>2, Zenon DEF FlattenSeq, Flattens
  <2> HIDE DEF f
  <2>4. \A i \in 1 .. n : f[i] = IF i = 1 THEN w[i] ELSE f[i - 1] \o w[i]
    BY <2>2 DEF Flattens
  <2> DEFINE P == {i \in 0 .. n : i = 0 \/ (f[i] \in Seq(S) /\ Joins(f[i], w, i))}
  <2>5. 0 \in P
    OBVIOUS
  <2>6. ASSUME NEW i \in 1 .. n, i - 1 \in P
        PROVE  i \in P
    <3>0. i \in 0 .. n /\ i \in Nat \ {0} /\ w[i] \in Seq(S)
      OBVIOUS
    <3>1. CASE i = 1
      <4>1. f[1] = w[1] /\ <<>> \in Seq(S)
        BY <2>4, <3>1
      <4>2. Joined(<<>>, <<>>, w, i - 1)
        BY <3>1 DEF Joined
      <4>3. Joins(<<>> \o w[i], w, i)
        BY <3>0, <4>1, <4>2, JoinsNext DEF Joins
      <4>4. <<>> \o w[i] = w[i]
        BY <3>0, ConcatEmptySeq
      <4> QED BY <3>0, <3>1, <4>1, <4>3, <4>4
    <3>2. CASE i # 1
      <4>1. f[i] = f[i - 1] \o w[i]
        BY <2>4, <3>2
      <4>2. f[i - 1] \in Seq(S) /\ Joins(f[i - 1], w, i - 1)
        BY <2>6, <3>2
      <4>3. Joins(f[i - 1] \o w[i], w, i) /\ f[i - 1] \o w[i] \in Seq(S)
        BY <3>0, <4>2, JoinsNext, ConcatProperties
      <4> QED BY <3>0, <4>1, <4>3
    <3> QED BY <3>1, <3>2
  <2> HIDE DEF P
  <2>7. n \in P
    <3>1. \A i \in 0 .. n : i \in P
      BY <2>5, <2>6, InductTo
    <3> QED BY <3>1
  <2> QED BY <1>2, <2>3, <2>7 DEF P
<1> QED BY <1>1, <1>2

-----------------------------------------------------------------------------
(* Signatures.  A device that signs without entropy gets the nonce that     *)
(* provisional_nonce refuses.                                               *)

Keys == 1 .. Q - 1

LEMMA KeysAreScalars ==
  ASSUME NEW k \in Keys
  PROVE  k \in Scalars /\ k # 0 /\ PointX(k) \in Canonical /\ PointX(k) \in Scalars
BY SchnorrAssumption, PointXIs DEF Keys, Scalars

LEMMA DoneIs ==
  ASSUME NEW v
  PROVE  Done(v).err = "" /\ Done(v).v = v
BY DEF Done

LEMMA FailIs ==
  ASSUME NEW why
  PROVE  Fail(why).err = why
BY DEF Fail

LEMMA RecoverNonce ==
  ASSUME NEW k \in Scalars, NEW u \in Scalars
  PROVE  Add(Add(k, u), Neg(u)) = k
<1>1. PICK c \in Scalars : c = Add(k, u) /\ c = (IF k + u < Q THEN k + u ELSE k + u - Q)
  BY AddIs
<1>2. PICK v \in Scalars : v = Neg(u) /\ v = (IF u = 0 THEN 0 ELSE Q - u)
  BY NegIs
<1>3. Add(c, v) = IF c + v < Q THEN c + v ELSE c + v - Q
  BY AddIs
<1>4. k \in 0 .. Q - 1 /\ u \in 0 .. Q - 1 /\ Q \in Nat
  BY SchnorrAssumption DEF Scalars
<1> QED BY <1>1, <1>2, <1>3, <1>4

(* What schnorr_sign_with_aux_rand returns. *)
LEMMA SignIs ==
  ASSUME NEW key \in Keys, NEW message \in Int, NEW aux,
         schnorr_sign_with_aux_rand(key, message, aux).err = ""
  PROVE  LET sig == schnorr_sign_with_aux_rand(key, message, aux).v
             k0  == AuxNonce(PointX(key), PointX(key), message, aux)
         IN /\ k0 \in Scalars /\ k0 # 0
            /\ sig = [r |-> PointX(k0),
                      s |-> Add(PointX(k0), Mul(challenge(PointX(k0), PointX(key), message), PointX(key)))]
            /\ sig.r \in Canonical /\ sig.s \in Scalars /\ sig.s # 0
<1>1. PICK x \in Scalars : x = PointX(key)
  BY KeysAreScalars
<1>2. PICK k0 \in Scalars : k0 = AuxNonce(x, x, message, aux)
  BY MixScalar DEF AuxNonce
<1>3. PICK k \in Scalars : k = PointX(k0)
  BY PointXIs
<1>4. PICK e \in Scalars : e = challenge(k, x, message)
  BY ChallengeScalar
<1>5. PICK s \in Scalars : s = Add(k, Mul(e, x))
  BY ScalarsAreInts, AddScalar, MulScalar
<1>6. schnorr_sign_with_aux_rand(key, message, aux) =
        IF key = 0 \/ k0 = 0 \/ s = 0 THEN Fail("SigningFailed") ELSE Done([r |-> k, s |-> s])
  BY <1>1, <1>2, <1>3, <1>4, <1>5 DEF schnorr_sign_with_aux_rand, normalized_secret
<1>7. /\ k0 # 0 /\ s # 0
      /\ schnorr_sign_with_aux_rand(key, message, aux).v = [r |-> k, s |-> s]
  <2>0. Fail("SigningFailed").err = "SigningFailed"
    BY FailIs, Zenon
  <2>1. ~(key = 0 \/ k0 = 0 \/ s = 0)
    <3> SUFFICES ASSUME key = 0 \/ k0 = 0 \/ s = 0 PROVE FALSE
      OBVIOUS
    <3>1. schnorr_sign_with_aux_rand(key, message, aux) = Fail("SigningFailed")
      BY <1>6, Zenon
    <3> QED BY <2>0, <3>1
  <2> QED BY <1>6, <2>1, DoneIs
<1>8. k \in Canonical
  BY <1>3, <1>7, PointXIs
<1>9. PICK sig : sig = [r |-> k, s |-> s]
  OBVIOUS
<1>10. sig.r = k /\ sig.s = s
  BY <1>9
<1> QED BY <1>1, <1>2, <1>3, <1>4, <1>5, <1>7, <1>8, <1>9, <1>10

LEMMA ZeroAuxRefused ==
  ASSUME NEW key \in Keys, NEW message \in Int, NEW sig,
         schnorr_sign_with_aux_rand(key, message, 0) = Done(sig),
         NEW other \in Keys, PointX(other) = PointX(key),
         NEW session, NEW secret, NEW i, NEW slot
  PROVE  tweak_provisional_signature(other, message, sig, session, secret, i, slot).err # ""
<1>0. /\ schnorr_sign_with_aux_rand(key, message, 0).err = ""
      /\ schnorr_sign_with_aux_rand(key, message, 0).v = sig
  BY DoneIs
<1>1. PICK x \in Scalars : x = PointX(key)
  BY KeysAreScalars
<1>2. PICK k0 \in Scalars : k0 = AuxNonce(x, x, message, 0) /\ k0 # 0
  BY <1>0, <1>1, SignIs
<1>3. PICK k \in Scalars : k = PointX(k0) /\ k # 0 /\ (k = k0 \/ k = Neg(k0))
  BY <1>2, PointXIs
<1>4. PICK u \in Scalars : u = Mul(challenge(k, x, message), x)
  <2>1. challenge(k, x, message) \in Scalars
    BY ChallengeScalar
  <2>2. Mul(challenge(k, x, message), x) \in Scalars
    BY <2>1, ScalarsAreInts, MulScalar
  <2> QED BY <2>2
<1>5. sig.r = k /\ sig.s = Add(k, u)
  <2>1. sig = [r |-> k, s |-> Add(k, u)]
    BY <1>0, <1>1, <1>2, <1>3, <1>4, SignIs
  <2> QED BY <2>1
<1>6. Add(sig.s, Neg(Mul(challenge(sig.r, x, message), x))) = k
  BY <1>4, <1>5, RecoverNonce
<1>7. Mul(k, k) = Mul(k0, k0)
  BY <1>3, SquareOfNeg
<1>8. provisional_nonce(sig, x, x, message) = Fail("ReusableProvisionalNonce")
  BY <1>2, <1>3, <1>6, <1>7 DEF provisional_nonce, zero_aux_nonce
<1>9. provisional_nonce(sig, normalized_secret(other), PointX(other), message).err
        = "ReusableProvisionalNonce"
  BY <1>1, <1>8 DEF normalized_secret, Fail
<1> QED BY <1>9 DEF tweak_provisional_signature, Fail

(* What tweak_provisional_signature returns is a signature that verifies. *)
LEMMA TweakIs ==
  ASSUME NEW key \in Keys, NEW message \in Int, NEW sig, NEW session, NEW secret, NEW i, NEW slot,
         tweak_provisional_signature(key, message, sig, session, secret, i, slot).err = ""
  PROVE  LET final == tweak_provisional_signature(key, message, sig, session, secret, i, slot)
         IN /\ final.v.r \in Canonical /\ final.v.s \in Scalars
            /\ final.v = [r |-> final.v.r, s |-> final.v.s]
            /\ schnorr_verify(PointX(key), message, final.v)
<1> DEFINE d == normalized_secret(key)
           x == PointX(key)
           k == provisional_nonce(sig, d, x, message)
           h == host_scalar(session, secret, i, slot, Even(x), Even(sig.r))
           c == Add(k.v, h)
           n == PointX(c)
           last == [r |-> n, s |-> Add(n, Mul(challenge(n, x, message), d))]
           final == tweak_provisional_signature(key, message, sig, session, secret, i, slot)
<1>1. final = IF key = 0 THEN Fail("InvalidPrivateKey")
              ELSE IF k.err # "" THEN k
              ELSE IF h = 0 \/ c = 0 THEN Fail("InvalidHostContribution")
              ELSE IF ~schnorr_verify(x, message, last) THEN Fail("InvalidFinalSignature")
              ELSE Done(last)
  BY DEF tweak_provisional_signature
<1>2. final.v = last /\ schnorr_verify(x, message, last)
  <2> HIDE DEF d, x, k, h, c, n, last, final
  <2>1. final.err = ""
    BY DEF final
  <2> QED BY <1>1, <2>1 DEF Fail, Done
<1>3. last.r = n /\ last.s = Add(n, Mul(challenge(n, x, message), d))
  OBVIOUS
<1> HIDE DEF d, k, h, c, final
<1>4. n \in Canonical
  BY <1>2, <1>3 DEF schnorr_verify
<1>5. n \in Scalars /\ x \in Scalars /\ d = x
  BY <1>4, CanonicalIs, KeysAreScalars DEF d, normalized_secret
<1>6. challenge(n, x, message) \in Scalars
  BY ChallengeScalar
<1>7. Mul(challenge(n, x, message), d) \in Int
  BY <1>5, <1>6, ScalarsAreInts, MulScalar
<1>8. last.s \in Scalars
  BY <1>3, <1>5, <1>7, ScalarsAreInts, AddScalar
<1> QED BY <1>2, <1>3, <1>4, <1>8 DEF final

-----------------------------------------------------------------------------
(* Documents, and the signatures a device adds to one. *)

Slots  == [pos : Nat, pk : Nat \X Nat, r : Int, s : Int]
Inputs == [kind : {"p2pk", "multisig"}, keys : Seq(Canonical), sigs : Seq(Slots)]
Docs   == [id : Nat, inputs : Seq(Inputs)]

LEMMA DocumentsAreDocs ==
  ASSUME NEW doc \in Documents
  PROVE  doc \in Docs
<1>1. [pos : Nat, pk : {NoKey}, r : Nat, s : Nat] \subseteq Slots
  BY DEF Slots, NoKey
<1>2. Seq([pos : Nat, pk : {NoKey}, r : Nat, s : Nat]) \subseteq Seq(Slots)
  BY <1>1, SeqMonotonic
<1>3. [kind : {"p2pk", "multisig"}, keys : Seq(Canonical),
       sigs : Seq([pos : Nat, pk : {NoKey}, r : Nat, s : Nat])] \subseteq Inputs
  BY <1>2 DEF Inputs
<1>4. Seq([kind : {"p2pk", "multisig"}, keys : Seq(Canonical),
           sigs : Seq([pos : Nat, pk : {NoKey}, r : Nat, s : Nat])]) \subseteq Seq(Inputs)
  BY <1>3, SeqMonotonic
<1> QED BY <1>4 DEF Documents, Docs

LEMMA FunctionIsSeq ==
  ASSUME NEW S, NEW n \in Nat, NEW f \in [1 .. n -> S]
  PROVE  f \in Seq(S) /\ Len(f) = n
OBVIOUS

IsConcat(all, old, add) ==
  /\ Len(all) = Len(old) + Len(add)
  /\ \A n \in 1 .. Len(old) : all[n] = old[n]
  /\ \A n \in 1 .. Len(add) : all[Len(old) + n] = add[n]

LEMMA ConcatIs ==
  ASSUME NEW S, NEW old \in Seq(S), NEW add \in Seq(S)
  PROVE  old \o add \in Seq(S) /\ IsConcat(old \o add, old, add)
<1>0. PICK all : all = old \o add
  OBVIOUS
<1>1. PICK a \in Nat, b \in Nat : a = Len(old) /\ b = Len(add)
  BY LenProperties
<1>2. /\ all \in Seq(S) /\ Len(all) = a + b
      /\ \A n \in 1 .. a + b : all[n] = IF n <= a THEN old[n] ELSE add[n - a]
  BY <1>0, <1>1, ConcatProperties
<1>3. \A n \in 1 .. a : all[n] = old[n]
  BY <1>2
<1>4. ASSUME NEW n \in 1 .. b
      PROVE  all[a + n] = add[n]
  <2>1. a + n \in 1 .. a + b /\ ~(a + n <= a) /\ (a + n) - a = n
    OBVIOUS
  <2> QED BY <1>2, <2>1
<1> QED BY <1>0, <1>1, <1>2, <1>3, <1>4 DEF IsConcat

LEMMA DocIs ==
  ASSUME NEW doc \in Docs
  PROVE  /\ doc.id \in Nat /\ Len(doc.inputs) \in Nat /\ DOMAIN doc.inputs = 1 .. Len(doc.inputs)
         /\ \A i \in 1 .. Len(doc.inputs) :
              /\ doc.inputs[i] \in Inputs
              /\ Len(doc.inputs[i].sigs) \in Nat
              /\ doc.inputs[i].sigs \in [1 .. Len(doc.inputs[i].sigs) -> Slots]
              /\ Len(doc.inputs[i].keys) \in Nat
              /\ doc.inputs[i].keys \in [1 .. Len(doc.inputs[i].keys) -> Canonical]
<1>1. doc.id \in Nat /\ doc.inputs \in Seq(Inputs)
  BY DEF Docs
<1>2. \A i \in 1 .. Len(doc.inputs) : doc.inputs[i] \in Inputs
  BY <1>1
<1>3. ASSUME NEW inp \in Inputs
      PROVE  /\ Len(inp.sigs) \in Nat /\ inp.sigs \in [1 .. Len(inp.sigs) -> Slots]
             /\ Len(inp.keys) \in Nat /\ inp.keys \in [1 .. Len(inp.keys) -> Canonical]
  BY LenProperties DEF Inputs
<1>4. Len(doc.inputs) \in Nat /\ DOMAIN doc.inputs = 1 .. Len(doc.inputs)
  BY <1>1, LenProperties
<1> QED BY <1>1, <1>2, <1>3, <1>4

Counted(doc, counts) ==
  \A i \in 1 .. Len(doc.inputs) : counts[i] \in 0 .. Len(doc.inputs[i].sigs)

Places(doc, counts) ==
  { a \in Nat \X Nat : /\ a[1] \in 1 .. Len(doc.inputs)
                       /\ a[2] \in counts[a[1]] + 1 .. Len(doc.inputs[a[1]].sigs) }

InOrder(A) == \A m, l \in 1 .. Len(A) : m < l => Before(A[m], A[l])

LEMMA AddedIs ==
  ASSUME NEW doc \in Docs, NEW counts, Counted(doc, counts)
  PROVE  /\ Added(doc, counts) \in Seq(Nat \X Nat)
         /\ ToSet(Added(doc, counts)) = Places(doc, counts)
         /\ InOrder(Added(doc, counts))
<1>1. PICK N \in Nat : N = Len(doc.inputs)
  BY DocIs
<1>2. PICK w : w = [i \in 1 .. N |-> [n \in 1 .. Len(doc.inputs[i].sigs) - counts[i] |-> <<i, counts[i] + n>>]]
  OBVIOUS
<1>3. \A i \in 1 .. N : counts[i] \in Nat /\ Len(doc.inputs[i].sigs) - counts[i] \in Nat
  BY <1>1, DocIs DEF Counted
<1>4. \A i \in 1 .. N : /\ w[i] \in Seq(Nat \X Nat)
                        /\ Len(w[i]) = Len(doc.inputs[i].sigs) - counts[i]
                        /\ \A n \in 1 .. Len(w[i]) : w[i][n] = <<i, counts[i] + n>>
  <2> SUFFICES ASSUME NEW i \in 1 .. N
               PROVE  /\ w[i] \in Seq(Nat \X Nat)
                      /\ Len(w[i]) = Len(doc.inputs[i].sigs) - counts[i]
                      /\ \A n \in 1 .. Len(w[i]) : w[i][n] = <<i, counts[i] + n>>
    OBVIOUS
  <2>1. PICK c \in Nat, k \in Nat : c = counts[i] /\ k = Len(doc.inputs[i].sigs) - counts[i]
    BY <1>3
  <2>2. w[i] = [n \in 1 .. k |-> <<i, c + n>>]
    BY <1>2, <2>1
  <2>3. w[i] \in [1 .. k -> Nat \X Nat]
    BY <2>2
  <2>4. w[i] \in Seq(Nat \X Nat) /\ Len(w[i]) = k
    BY <2>2, <2>3
  <2> QED BY <2>1, <2>2, <2>4
<1>5. w \in [1 .. N -> Seq(Nat \X Nat)]
  BY <1>2, <1>4
<1>6. PICK A : A = FlattenSeq(w)
  OBVIOUS
<1>7. A = Added(doc, counts)
  BY <1>1, <1>2, <1>6 DEF Added
<1>8. A \in Seq(Nat \X Nat) /\ Joins(A, w, N)
  BY <1>5, <1>6, FlattenJoins
<1>9. PICK from : Joined(A, from, w, N)
  BY <1>8 DEF Joins
<1>10. \A m \in 1 .. Len(A) : /\ from[m][1] \in 1 .. N /\ from[m][2] \in 1 .. Len(w[from[m][1]])
                              /\ A[m] = <<from[m][1], counts[from[m][1]] + from[m][2]>>
  BY <1>4, <1>9 DEF Joined
<1>11. ASSUME NEW m \in 1 .. Len(A)
       PROVE  A[m] \in Places(doc, counts)
  <2>1. PICK i \in 1 .. N, j \in Nat : i = from[m][1] /\ j = from[m][2] /\ j \in 1 .. Len(w[i])
    BY <1>10, SMTT(30)
  <2>2. PICK c \in Nat, k \in Nat : c = counts[i] /\ k = Len(doc.inputs[i].sigs)
    BY <1>1, <1>3, DocIs
  <2>3. j \in 1 .. k - c /\ A[m] = <<i, c + j>>
    BY <1>4, <1>10, <2>1, <2>2
  <2>4. c + j \in c + 1 .. k /\ c + j \in Nat /\ i \in Nat
    BY <2>3
  <2> QED BY <1>1, <2>2, <2>3, <2>4, SMTT(30) DEF Places
<1>12. ASSUME NEW a \in Places(doc, counts)
       PROVE  \E m \in 1 .. Len(A) : A[m] = a
  <2>1. /\ a[1] \in 1 .. N /\ a[2] \in counts[a[1]] + 1 .. Len(doc.inputs[a[1]].sigs)
        /\ a = <<a[1], a[2]>> /\ a[2] \in Nat
    BY <1>1 DEF Places
  <2>2. PICK c \in Nat, k \in Nat : c = counts[a[1]] /\ k = Len(doc.inputs[a[1]].sigs)
    BY <1>1, <1>3, <2>1, DocIs
  <2>3. PICK j \in Nat : j = a[2] - c /\ j \in 1 .. k - c
    BY <2>1, <2>2
  <2>4. j \in 1 .. Len(w[a[1]])
    BY <1>4, <2>1, <2>2, <2>3
  <2>5. PICK m \in 1 .. Len(A) : from[m] = <<a[1], j>>
    BY <1>9, <2>1, <2>4 DEF Joined
  <2>6. from[m][1] = a[1] /\ from[m][2] = j
    BY <2>5
  <2>7. A[m] = <<a[1], c + j>> /\ c + j = a[2]
    BY <1>10, <2>1, <2>2, <2>3, <2>6
  <2> QED BY <2>1, <2>7
<1>13. ToSet(A) = Places(doc, counts)
  <2>1. DOMAIN A = 1 .. Len(A)
    BY <1>8, LenProperties
  <2> QED BY <1>11, <1>12, <2>1 DEF ToSet
<1>14. InOrder(A)
  <2> SUFFICES ASSUME NEW m \in 1 .. Len(A), NEW l \in 1 .. Len(A), m < l
               PROVE  Before(A[m], A[l])
    BY DEF InOrder
  <2>1. Before(from[m], from[l])
    BY <1>9 DEF Joined
  <2>2. PICK i \in 1 .. N, j \in Nat : i = from[m][1] /\ j = from[m][2]
    BY <1>10
  <2>3. PICK p \in 1 .. N, q \in Nat : p = from[l][1] /\ q = from[l][2]
    BY <1>10
  <2>4. A[m] = <<i, counts[i] + j>> /\ A[l] = <<p, counts[p] + q>>
    BY <1>10, <2>2, <2>3
  <2>5. i < p \/ (i = p /\ j < q)
    BY <2>1, <2>2, <2>3 DEF Before
  <2>6. i = p /\ j < q => counts[i] + j < counts[p] + q
    BY <1>3
  <2> QED BY <2>4, <2>5, <2>6 DEF Before
<1> QED BY <1>7, <1>8, <1>13, <1>14

(* Where the device signs an input, before what is signed already is left out. *)
Mine(inp, p) ==
  IF inp.kind = "p2pk" THEN ByPayee(inp.keys, p)
  ELSE ByAccount(inp.keys, p) \/ ByAddress(inp.keys, p)

LEMMA AccountKeys ==
  ASSUME NEW a \in Accounts
  PROVE  a.key \in DeviceKeys /\ \A k \in a.derived : k \in DeviceKeys
<1>1. ({a.key} \cup a.derived) \in { {b.key} \cup b.derived : b \in Accounts }
  BY Zenon
<1>2. \A k \in {a.key} \cup a.derived : k \in DeviceKeys
  BY <1>1, Zenon DEF DeviceKeys, KeysOf
<1> QED BY <1>2, Zenon

LEMMA MineIs ==
  ASSUME NEW inp, NEW p, Mine(inp, p)
  PROVE  /\ PrivateOf(DeviceKeys, inp.keys[p]) # {}
         /\ \/ \A q \in 1 .. p - 1 : inp.keys[q] # inp.keys[p]
            \/ \A a \in Accounts : PointX(a.key) # inp.keys[p]
<1>1. CASE ByAccount(inp.keys, p)
  <2>1. PICK a \in Accounts : PointX(a.key) = inp.keys[p]
    BY <1>1, Zenon DEF ByAccount
  <2>2. a.key \in DeviceKeys
    BY AccountKeys
  <2>3. a.key \in PrivateOf(DeviceKeys, inp.keys[p])
    BY <2>1, <2>2, Zenon DEF PrivateOf
  <2>4. \A q \in 1 .. p - 1 : inp.keys[q] # inp.keys[p]
    BY <1>1, Zenon DEF ByAccount
  <2> QED BY <2>3, <2>4, Zenon
<1>2. CASE ~ByAccount(inp.keys, p)
  <2>1. PICK a \in Accounts : PrivateOf(a.derived, inp.keys[p]) # {}
    BY <1>2, Zenon DEF Mine, ByPayee, ByAddress
  <2>2. PICK k : k \in PrivateOf(a.derived, inp.keys[p])
    BY <2>1, Zenon
  <2>3. k \in a.derived /\ PointX(k) = inp.keys[p]
    BY <2>2, Zenon DEF PrivateOf
  <2>4. k \in DeviceKeys
    BY <2>3, AccountKeys, Zenon
  <2>5. k \in PrivateOf(DeviceKeys, inp.keys[p])
    BY <2>3, <2>4, Zenon DEF PrivateOf
  <2>6. \A b \in Accounts : PointX(b.key) # PointX(k)
    BY <2>3, SigningAssumption, Zenon
  <2>7. \A b \in Accounts : PointX(b.key) # inp.keys[p]
    BY <2>3, <2>6, Zenon
  <2> QED BY <2>5, <2>7, Zenon
<1> QED BY <1>1, <1>2

(* Positions of keys of the device; a key stands at two of them only as an  *)
(* address that the script names twice.                                    *)
KeysOnce(T, inp) ==
  /\ T \in Seq(Nat)
  /\ \A m \in 1 .. Len(T) : /\ T[m] \in 1 .. Len(inp.keys)
                            /\ PrivateOf(DeviceKeys, inp.keys[T[m]]) # {}
  /\ \A m, l \in 1 .. Len(T) :
       m # l => inp.keys[T[m]] # inp.keys[T[l]] \/ NamedTwice(inp.keys[T[m]], inp.keys)

LEMMA OpenIs ==
  ASSUME NEW inp \in Inputs
  PROVE  KeysOnce(Open(inp), inp)
<1>1. PICK N \in Nat : N = Len(inp.keys)
  BY LenProperties DEF Inputs
<1>2. CASE inp.kind = "p2pk" /\ inp.sigs # <<>>
  <2>1. Open(inp) = <<>>
    BY <1>2 DEF Open
  <2> QED BY <2>1 DEF KeysOnce
<1>3. CASE ~(inp.kind = "p2pk" /\ inp.sigs # <<>>)
  <2>1. PICK mine : mine = { p \in 1 .. N : Mine(inp, p) }
    OBVIOUS
  <2>2. PICK signed : signed = { inp.sigs[n].pos : n \in 1 .. Len(inp.sigs) }
    OBVIOUS
  <2>3. PICK w : w = [p \in 1 .. N |-> IF p \in mine \ signed THEN <<p>> ELSE <<>>]
    OBVIOUS
  <2>4. PICK T : T = FlattenSeq(w)
    OBVIOUS
  <2>5. T = Open(inp)
    BY <1>1, <1>3, <2>1, <2>2, <2>3, <2>4 DEF Open, Mine
  <2>6. \A p \in 1 .. N : /\ w[p] \in Seq(Nat)
                          /\ \A j \in 1 .. Len(w[p]) : p \in mine /\ j = 1 /\ w[p][j] = p
    BY <2>3
  <2>7. w \in [1 .. N -> Seq(Nat)]
    BY <2>3, <2>6
  <2>8. T \in Seq(Nat) /\ Joins(T, w, N)
    BY <2>4, <2>7, FlattenJoins
  <2>9. PICK from : Joined(T, from, w, N)
    BY <2>8 DEF Joins
  <2>10. \A m \in 1 .. Len(T) : from[m][1] \in 1 .. N /\ from[m][1] \in mine /\ from[m][2] = 1 /\ T[m] = from[m][1]
    BY <2>6, <2>9 DEF Joined
  <2>11. \A m, l \in 1 .. Len(T) : m < l => T[m] < T[l]
    <3> SUFFICES ASSUME NEW m \in 1 .. Len(T), NEW l \in 1 .. Len(T), m < l
                 PROVE  T[m] < T[l]
      OBVIOUS
    <3>1. Before(from[m], from[l])
      BY <2>9 DEF Joined
    <3> QED BY <2>10, <3>1 DEF Before
  <2>12. ASSUME NEW m \in 1 .. Len(T), NEW l \in 1 .. Len(T), m < l
         PROVE  inp.keys[T[m]] # inp.keys[T[l]] \/ NamedTwice(inp.keys[T[m]], inp.keys)
    <3>1. T[m] \in 1 .. N /\ T[l] \in 1 .. N /\ T[m] < T[l] /\ Mine(inp, T[l])
      BY <2>1, <2>10, <2>11, <2>12
    <3>2. T[m] \in 1 .. T[l] - 1 /\ T[m] # T[l]
      BY <3>1
    <3>3. \/ \A q \in 1 .. T[l] - 1 : inp.keys[q] # inp.keys[T[l]]
          \/ \A a \in Accounts : PointX(a.key) # inp.keys[T[l]]
      BY <3>1, MineIs, Zenon
    <3>4. T[m] \in 1 .. Len(inp.keys) /\ T[l] \in 1 .. Len(inp.keys)
      BY <1>1, <3>1
    <3>5. ASSUME inp.keys[T[m]] = inp.keys[T[l]], \A a \in Accounts : PointX(a.key) # inp.keys[T[l]]
          PROVE  NamedTwice(inp.keys[T[m]], inp.keys)
      BY <3>2, <3>4, <3>5, Zenon DEF NamedTwice
    <3> QED BY <3>2, <3>3, <3>5, Zenon
  <2>13. Len(T) \in Nat
    BY <2>8, LenProperties
  <2>14. \A m, l \in 1 .. Len(T) : m # l => m < l \/ l < m
    BY <2>13
  <2>15. \A m, l \in 1 .. Len(T) :
           m # l => inp.keys[T[m]] # inp.keys[T[l]] \/ NamedTwice(inp.keys[T[m]], inp.keys)
    <3> SUFFICES ASSUME NEW m \in 1 .. Len(T), NEW l \in 1 .. Len(T), m # l,
                        inp.keys[T[m]] = inp.keys[T[l]]
                 PROVE  NamedTwice(inp.keys[T[m]], inp.keys)
      BY Zenon
    <3>1. CASE m < l
      BY <2>12, <3>1, Zenon
    <3>2. CASE l < m
      <4>1. NamedTwice(inp.keys[T[l]], inp.keys)
        BY <2>12, <3>2, Zenon
      <4> QED BY <4>1, Zenon
    <3> QED BY <2>14, <3>1, <3>2
  <2>16. \A m \in 1 .. Len(T) : T[m] \in 1 .. N /\ PrivateOf(DeviceKeys, inp.keys[T[m]]) # {}
    <3> SUFFICES ASSUME NEW m \in 1 .. Len(T)
                 PROVE  T[m] \in 1 .. N /\ PrivateOf(DeviceKeys, inp.keys[T[m]]) # {}
      OBVIOUS
    <3>1. T[m] \in 1 .. N /\ Mine(inp, T[m])
      BY <2>1, <2>10
    <3> QED BY <3>1, MineIs, Zenon
  <2> QED BY <1>1, <2>5, <2>8, <2>15, <2>16 DEF KeysOnce
<1> QED BY <1>2, <1>3

LEMMA ToSignIs ==
  ASSUME NEW inp \in Inputs
  PROVE  /\ KeysOnce(ToSign(inp), inp)
         /\ Len(inp.sigs) <= MAX_SIGS_PER_INPUT => Len(inp.sigs) + Len(ToSign(inp)) <= MAX_SIGS_PER_INPUT
<1>1. PICK c \in Nat, room \in Int : c = Len(inp.sigs) /\ room = MAX_SIGS_PER_INPUT - c
  BY LenProperties DEF Inputs, MAX_SIGS_PER_INPUT
<1>2. PICK all \in Seq(Nat), L \in Nat : all = Open(inp) /\ KeysOnce(all, inp) /\ L = Len(all)
  BY OpenIs, LenProperties DEF KeysOnce
<1>3. PICK T : T = ToSign(inp) /\ T = IF L > room THEN SubSeq(all, 1, room) ELSE all
  BY <1>1, <1>2 DEF ToSign, UpTo
<1>4. KeysOnce(T, inp) /\ (room >= 0 => Len(T) <= room)
  <2>1. CASE L > room /\ room >= 0
    <3>1. T = SubSeq(all, 1, room) /\ room \in 0 .. L
      BY <1>2, <1>3, <2>1
    <3>2. T \in Seq(Nat) /\ Len(T) = room /\ \A n \in 1 .. room : T[n] = all[n] /\ n \in 1 .. L
      BY <1>2, <3>1, SubSeqProperties
    <3>3. \A m \in 1 .. L : all[m] \in 1 .. Len(inp.keys) /\ PrivateOf(DeviceKeys, inp.keys[all[m]]) # {}
      BY <1>2 DEF KeysOnce
    <3>4. \A m, l \in 1 .. L :
            m # l => inp.keys[all[m]] # inp.keys[all[l]] \/ NamedTwice(inp.keys[all[m]], inp.keys)
      BY <1>2 DEF KeysOnce
    <3>5. KeysOnce(T, inp)
      BY <3>2, <3>3, <3>4 DEF KeysOnce
    <3> QED BY <3>2, <3>5
  <2>2. CASE L > room /\ room < 0
    <3>1. T = <<>>
      BY <1>2, <1>3, <2>2
    <3>2. KeysOnce(T, inp)
      BY <3>1 DEF KeysOnce
    <3> QED BY <2>2, <3>2
  <2>3. CASE ~(L > room)
    BY <1>2, <1>3, <2>3
  <2> QED BY <2>1, <2>2, <2>3
<1>5. Len(T) \in Nat
  BY <1>4, LenProperties DEF KeysOnce
<1>6. c <= 5 => c + Len(T) <= 5
  BY <1>1, <1>4, <1>5 DEF MAX_SIGS_PER_INPUT
<1> QED BY <1>1, <1>3, <1>4, <1>6 DEF MAX_SIGS_PER_INPUT

(* A slot as sign_transaction fills it for position p of input i. *)
SlotSigned(slot, doc, i, p, aux) ==
  /\ slot.pos = p
  /\ \E k \in DeviceKeys :
       /\ PointX(k) = doc.inputs[i].keys[p] /\ slot.pk = Compressed(k)
       /\ schnorr_sign_with_aux_rand(k, calculate_sighash(doc, i), aux)
            = Done([r |-> slot.r, s |-> slot.s])

LEMMA SighashIs ==
  ASSUME NEW doc \in Docs, NEW i \in 1 .. Len(doc.inputs)
  PROVE  calculate_sighash(doc, i) \in Scalars /\ calculate_sighash(doc, i) \in Int
<1>1. doc.id * 4 + i \in Int
  BY DocIs
<1> QED BY <1>1, ModFacts, ScalarsAreInts DEF calculate_sighash

LEMMA DeviceKeysAreKeys == DeviceKeys \subseteq Keys
BY SigningAssumption DEF Keys

LEMMA CompressedIs ==
  ASSUME NEW k \in Keys
  PROVE  /\ Compressed(k) \in Nat \X Nat /\ Compressed(k)[2] = PointX(k) /\ Compressed(k) # NoKey
<1>1. PointX(k) \in Nat
  BY KeysAreScalars DEF Scalars
<1>2. \A b \in {2, 3} : /\ <<b, PointX(k)>> \in Nat \X Nat /\ <<b, PointX(k)>>[2] = PointX(k)
                        /\ <<b, PointX(k)>> # <<0, 0>>
  BY <1>1
<1> QED BY <1>2 DEF Compressed, NoKey

LEMMA SlotIs ==
  ASSUME NEW doc \in Docs, NEW i \in 1 .. Len(doc.inputs), NEW p \in Nat,
         p \in 1 .. Len(doc.inputs[i].keys), PrivateOf(DeviceKeys, doc.inputs[i].keys[p]) # {}, NEW aux,
         Provisional(doc, i, p, aux).err = ""
  PROVE  LET n    == Provisional(doc, i, p, aux)
             slot == [pos |-> n.pos, pk |-> n.pk, r |-> n.sig.r, s |-> n.sig.s]
         IN slot \in Slots /\ SlotSigned(slot, doc, i, p, aux)
<1>1. PICK k : k = CHOOSE j \in DeviceKeys : PointX(j) = doc.inputs[i].keys[p]
  OBVIOUS
<1>2. k \in DeviceKeys /\ PointX(k) = doc.inputs[i].keys[p]
  BY <1>1, Zenon DEF PrivateOf
<1>3. k \in Keys
  BY <1>2, DeviceKeysAreKeys
<1>4. PICK message \in Int : message = calculate_sighash(doc, i)
  BY SighashIs
<1>5. PICK s : s = schnorr_sign_with_aux_rand(k, message, aux)
  OBVIOUS
<1>6. PICK n, e, v, pk : /\ n = Provisional(doc, i, p, aux) /\ e = s.err /\ v = s.v /\ pk = Compressed(k)
                         /\ n = [err |-> e, pos |-> p, pk |-> pk, sig |-> v]
  BY <1>1, <1>4, <1>5 DEF Provisional
<1>7. s.err = "" /\ n.pos = p /\ n.pk = pk /\ n.sig = v
  <2>1. n = [err |-> e, pos |-> p, pk |-> pk, sig |-> v]
    BY <1>6
  <2>2. n.err = e /\ n.pos = p /\ n.pk = pk /\ n.sig = v
    BY ONLY <2>1
  <2> QED BY <1>6, <2>2
<1>8. PICK r \in Canonical, t \in Scalars : s.v = [r |-> r, s |-> t]
  <2>1. PICK r, t : s.v = [r |-> r, s |-> t] /\ s.v.r \in Canonical /\ s.v.s \in Scalars
    BY <1>3, <1>5, <1>7, SignIs
  <2> QED BY <2>1
<1>9. PICK slot : slot = [pos |-> p, pk |-> Compressed(k), r |-> r, s |-> t]
  OBVIOUS
<1>10. r \in Int /\ t \in Int
  BY ScalarsAreInts, CanonicalIs
<1>11. slot \in Slots /\ slot.pos = p /\ slot.pk = Compressed(k) /\ slot.r = r /\ slot.s = t
  BY <1>3, <1>9, <1>10, CompressedIs DEF Slots
<1>12. s = Done([r |-> r, s |-> t])
  <2>1. s = Fail("SigningFailed") \/ \E w : s = Done(w)
    BY <1>5 DEF schnorr_sign_with_aux_rand
  <2>2. Fail("SigningFailed").err = "SigningFailed"
    BY FailIs, Zenon
  <2>3. PICK w : s = Done(w)
    BY <1>7, <2>1, <2>2
  <2> QED BY <1>8, <2>3, DoneIs
<1>13. SlotSigned(slot, doc, i, p, aux)
  BY <1>2, <1>4, <1>5, <1>11, <1>12 DEF SlotSigned
<1>14. v.r = r /\ v.s = t
  <2>1. v = [r |-> r, s |-> t]
    BY <1>6, <1>8
  <2> QED BY ONLY <2>1
<1>15. [pos |-> n.pos, pk |-> n.pk, r |-> n.sig.r, s |-> n.sig.s] = slot
  BY <1>6, <1>7, <1>9, <1>14
<1> QED BY <1>6, <1>11, <1>13, <1>15

(* The document after sign_transaction: the old signatures, then new ones. *)
SignedDoc(d, doc, aux) ==
  /\ d \in Docs /\ d.id = doc.id /\ Len(d.inputs) = Len(doc.inputs)
  /\ \A i \in 1 .. Len(doc.inputs) :
       LET old == doc.inputs[i].sigs
           T   == ToSign(doc.inputs[i])
           all == d.inputs[i].sigs
       IN /\ d.inputs[i].kind = doc.inputs[i].kind /\ d.inputs[i].keys = doc.inputs[i].keys
          /\ Len(all) = Len(old) + Len(T)
          /\ \A n \in 1 .. Len(old) : all[n] = old[n]
          /\ \A n \in 1 .. Len(T) : SlotSigned(all[Len(old) + n], doc, i, T[n], aux)

LEMMA SignedIs ==
  ASSUME NEW doc \in Docs, NEW aux, sign_transaction(doc, aux).err = ""
  PROVE  SignedDoc(sign_transaction(doc, aux).v, doc, aux)
<1> DEFINE T(i) == ToSign(doc.inputs[i])
           new(i) == [n \in 1 .. Len(T(i)) |-> Provisional(doc, i, T(i)[n], aux)]
           slots(i) == [n \in DOMAIN new(i) |->
                          [pos |-> new(i)[n].pos, pk |-> new(i)[n].pk,
                           r |-> new(i)[n].sig.r, s |-> new(i)[n].sig.s]]
           failed == \E i \in 1 .. Len(doc.inputs) : \E n \in DOMAIN new(i) : new(i)[n].err # ""
           ins == [i \in 1 .. Len(doc.inputs) |-> [doc.inputs[i] EXCEPT !.sigs = @ \o slots(i)]]
           d == [doc EXCEPT !.inputs = ins]
<1>1. sign_transaction(doc, aux) = IF failed THEN Fail("SigningFailed") ELSE Done(d)
  BY DEF sign_transaction
<1>2. ~failed /\ sign_transaction(doc, aux).v = d
  <2> HIDE DEF failed, d
  <2>1. Fail("SigningFailed").err = "SigningFailed"
    BY FailIs, Zenon
  <2>2. ~failed
    <3> SUFFICES ASSUME failed PROVE FALSE
      OBVIOUS
    <3>1. sign_transaction(doc, aux) = Fail("SigningFailed")
      BY <1>1, Zenon
    <3> QED BY <2>1, <3>1
  <2>3. sign_transaction(doc, aux) = Done(d)
    BY <1>1, <2>2, Zenon
  <2> QED BY <2>2, <2>3, DoneIs
<1>3. PICK N \in Nat : N = Len(doc.inputs)
  BY DocIs
<1>4. \A i \in 1 .. N : doc.inputs[i] \in Inputs
  BY <1>3, DocIs
<1>5. ASSUME NEW i \in 1 .. N
      PROVE  /\ slots(i) \in Seq(Slots) /\ Len(slots(i)) = Len(T(i)) /\ Len(T(i)) \in Nat
             /\ \A n \in 1 .. Len(T(i)) : SlotSigned(slots(i)[n], doc, i, T(i)[n], aux)
  <2>1. /\ T(i) \in Seq(Nat)
        /\ \A n \in 1 .. Len(T(i)) : /\ T(i)[n] \in 1 .. Len(doc.inputs[i].keys)
                                    /\ PrivateOf(DeviceKeys, doc.inputs[i].keys[T(i)[n]]) # {}
    <3>1. PICK inp \in Inputs : inp = doc.inputs[i]
      BY <1>4
    <3>2. KeysOnce(T(i), inp)
      BY <3>1, ToSignIs
    <3> QED BY <3>1, <3>2 DEF KeysOnce
  <2> HIDE DEF T
  <2>2. Len(T(i)) \in Nat /\ \A n \in 1 .. Len(T(i)) : T(i)[n] \in Nat
    BY <2>1, LenProperties, ElementOfSeq
  <2>3. DOMAIN new(i) = 1 .. Len(T(i)) /\ DOMAIN slots(i) = 1 .. Len(T(i))
    OBVIOUS
  <2>4. ASSUME NEW n \in 1 .. Len(T(i))
        PROVE  slots(i)[n] \in Slots /\ SlotSigned(slots(i)[n], doc, i, T(i)[n], aux)
    <3>1. PICK p \in Nat : p = T(i)[n]
      BY <2>2
    <3>2. PICK b : b = Provisional(doc, i, p, aux)
      OBVIOUS
    <3>3. new(i)[n] = b
      BY <2>4, <3>1, <3>2
    <3>4. b.err = ""
      BY <1>2, <1>3, <2>3, <3>3
    <3>5. slots(i)[n] = [pos |-> b.pos, pk |-> b.pk, r |-> b.sig.r, s |-> b.sig.s]
      BY <2>3, <3>3
    <3>6. i \in 1 .. Len(doc.inputs) /\ p \in 1 .. Len(doc.inputs[i].keys)
          /\ PrivateOf(DeviceKeys, doc.inputs[i].keys[p]) # {}
      BY <1>3, <2>1, <3>1
    <3> HIDE DEF slots, new
    <3>7. /\ [pos |-> b.pos, pk |-> b.pk, r |-> b.sig.r, s |-> b.sig.s] \in Slots
          /\ SlotSigned([pos |-> b.pos, pk |-> b.pk, r |-> b.sig.r, s |-> b.sig.s], doc, i, p, aux)
      BY <3>2, <3>4, <3>6, SlotIs
    <3> QED BY <3>1, <3>5, <3>7
  <2>5. PICK f : f = slots(i)
    OBVIOUS
  <2>6. f \in [1 .. Len(T(i)) -> Slots]
    <3>1. f = [n \in 1 .. Len(T(i)) |-> f[n]]
      BY <2>3, <2>5
    <3>2. \A n \in 1 .. Len(T(i)) : f[n] \in Slots
      BY <2>4, <2>5
    <3> QED BY <3>1, <3>2
  <2>7. f \in Seq(Slots) /\ Len(f) = Len(T(i))
    BY <2>2, <2>6, FunctionIsSeq
  <2> HIDE DEF slots
  <2> QED BY <2>2, <2>4, <2>5, <2>7
<1> HIDE DEF slots, failed, new
<1>6. ins = [i \in 1 .. Len(doc.inputs) |-> [doc.inputs[i] EXCEPT !.sigs = @ \o slots(i)]]
  OBVIOUS
<1>7. d = [doc EXCEPT !.inputs = ins]
  OBVIOUS
<1> HIDE DEF ins, d, T
<1>8. ASSUME NEW i \in 1 .. N
      PROVE  /\ ins[i] \in Inputs
             /\ ins[i].kind = doc.inputs[i].kind /\ ins[i].keys = doc.inputs[i].keys
             /\ ins[i].sigs = doc.inputs[i].sigs \o slots(i)
  <2>1. PICK inp \in Inputs : inp = doc.inputs[i]
    BY <1>4
  <2>2. PICK sl \in Seq(Slots) : sl = slots(i)
    BY <1>5
  <2>3. ins[i] = [inp EXCEPT !.sigs = inp.sigs \o sl]
    BY <1>3, <1>6, <2>1, <2>2
  <2>4. inp.sigs \o sl \in Seq(Slots)
    BY ConcatProperties DEF Inputs
  <2> QED BY <2>1, <2>2, <2>3, <2>4 DEF Inputs
<1>9. ins \in Seq(Inputs) /\ Len(ins) = N
  <2>1. ins \in [1 .. N -> Inputs]
    BY <1>3, <1>6, <1>8
  <2> QED BY <2>1, FunctionIsSeq
<1>10. d \in Docs /\ d.id = doc.id /\ d.inputs = ins
  BY <1>7, <1>9 DEF Docs
<1>11. ASSUME NEW i \in 1 .. N
       PROVE  LET old == doc.inputs[i].sigs
                  all == d.inputs[i].sigs
              IN /\ d.inputs[i].kind = doc.inputs[i].kind /\ d.inputs[i].keys = doc.inputs[i].keys
                 /\ Len(all) = Len(old) + Len(T(i))
                 /\ \A n \in 1 .. Len(old) : all[n] = old[n]
                 /\ \A n \in 1 .. Len(T(i)) : SlotSigned(all[Len(old) + n], doc, i, T(i)[n], aux)
  <2>1. PICK old \in Seq(Slots), add \in Seq(Slots) : old = doc.inputs[i].sigs /\ add = slots(i)
    BY <1>4, <1>5 DEF Inputs
  <2>0. PICK all : all = d.inputs[i].sigs /\ all = old \o add
    BY <1>8, <1>10, <2>1
  <2>2. /\ Len(all) = Len(old) + Len(add)
        /\ \A n \in 1 .. Len(old) : all[n] = old[n]
        /\ \A n \in 1 .. Len(add) : all[Len(old) + n] = add[n]
    <3>1. IsConcat(old \o add, old, add)
      BY ConcatIs, Zenon
    <3> QED BY <2>0, <3>1 DEF IsConcat
  <2>3. Len(add) = Len(T(i)) /\ \A n \in 1 .. Len(T(i)) : SlotSigned(add[n], doc, i, T(i)[n], aux)
    BY <1>5, <2>1
  <2>4. \A n \in 1 .. Len(T(i)) : SlotSigned(all[Len(old) + n], doc, i, T(i)[n], aux)
    BY <2>2, <2>3
  <2>5. d.inputs[i].kind = doc.inputs[i].kind /\ d.inputs[i].keys = doc.inputs[i].keys
    BY <1>8, <1>10
  <2> QED BY <2>0, <2>1, <2>2, <2>3, <2>4, <2>5
<1>12. SignedDoc(d, doc, aux)
  BY <1>3, <1>9, <1>10, <1>11 DEF SignedDoc, T
<1> QED BY <1>2, <1>12, ZenonT(60)

LEMMA PlaceIs ==
  ASSUME NEW doc \in Docs, NEW counts, Counted(doc, counts), NEW a \in Places(doc, counts)
  PROVE  /\ a[1] \in 1 .. Len(doc.inputs) /\ a[2] \in 1 .. Len(doc.inputs[a[1]].sigs)
         /\ a = <<a[1], a[2]>> /\ a[2] > counts[a[1]] /\ a[1] \in Nat /\ a[2] \in Nat
         /\ Slot(doc, a) = doc.inputs[a[1]].sigs[a[2]] /\ Slot(doc, a) \in Slots
<1>1. /\ a[1] \in 1 .. Len(doc.inputs) /\ a = <<a[1], a[2]>> /\ a[1] \in Nat /\ a[2] \in Nat
      /\ a[2] \in counts[a[1]] + 1 .. Len(doc.inputs[a[1]].sigs)
  BY DEF Places
<1>2. PICK c \in Nat, k \in Nat : c = counts[a[1]] /\ k = Len(doc.inputs[a[1]].sigs)
  BY <1>1, DocIs DEF Counted
<1>3. a[2] \in 1 .. k /\ a[2] > c
  BY <1>1, <1>2
<1>4. doc.inputs[a[1]].sigs[a[2]] \in Slots
  BY <1>1, <1>2, <1>3, DocIs
<1> QED BY <1>1, <1>2, <1>3, <1>4 DEF Slot

(* A slot that is finalized: with the key it names. *)
LEMMA SlotFinalIs ==
  ASSUME NEW doc \in Docs, NEW a, a[1] \in 1 .. Len(doc.inputs), NEW session, NEW secret,
         NEW keys \in SUBSET DeviceKeys,
         finalize_signature_slot(doc, a, session, secret, keys).err = ""
  PROVE  LET slot  == Slot(doc, a)
             final == finalize_signature_slot(doc, a, session, secret, keys)
         IN \E k \in keys :
              /\ Compressed(k) = slot.pk
              /\ final = tweak_provisional_signature(k, calculate_sighash(doc, a[1]),
                           [r |-> slot.r, s |-> slot.s], SessionNumber(session), secret, a[1], a[2])
              /\ final.v.r \in Canonical /\ final.v.s \in Scalars
              /\ final.v = [r |-> final.v.r, s |-> final.v.s]
              /\ schnorr_verify(PointX(k), calculate_sighash(doc, a[1]), final.v)
<1> DEFINE slot  == Slot(doc, a)
           found == { k \in PrivateOf(keys, slot.pk[2]) : Compressed(k) = slot.pk }
           k     == CHOOSE k \in found : TRUE
           final == tweak_provisional_signature(k, calculate_sighash(doc, a[1]),
                      [r |-> slot.r, s |-> slot.s], SessionNumber(session), secret, a[1], a[2])
           F     == finalize_signature_slot(doc, a, session, secret, keys)
<1>1. F = IF slot.pk = NoKey THEN Fail("InvalidSignatureState")
          ELSE IF found = {} THEN Fail("DerivationFailed")
          ELSE IF final.err = "" THEN final
          ELSE Fail(finalization_error(final.err))
  BY DEF finalize_signature_slot, Explained
<1>2. found # {} /\ final.err = "" /\ F = final
  <2>1. F.err = ""
    OBVIOUS
  <2>2. \A e : finalization_error(e) # ""
    BY DEF finalization_error
  <2> HIDE DEF slot, found, final, F
  <2>3. \A why : Fail(why).err = why
    BY FailIs, Zenon
  <2> QED BY <1>1, <2>1, <2>2, <2>3
<1>3. k \in found
  BY <1>2
<1> HIDE DEF k
<1>4. k \in keys /\ Compressed(k) = slot.pk
  BY <1>3 DEF PrivateOf
<1>5. k \in Keys /\ calculate_sighash(doc, a[1]) \in Int
  BY <1>4, DeviceKeysAreKeys, SighashIs
<1>6. /\ final.v.r \in Canonical /\ final.v.s \in Scalars
      /\ final.v = [r |-> final.v.r, s |-> final.v.s]
      /\ schnorr_verify(PointX(k), calculate_sighash(doc, a[1]), final.v)
  BY <1>2, <1>5, TweakIs
<1> HIDE DEF F, final
<1>7. /\ F = final /\ F.v.r \in Canonical /\ F.v.s \in Scalars /\ F.v = [r |-> F.v.r, s |-> F.v.s]
      /\ schnorr_verify(PointX(k), calculate_sighash(doc, a[1]), F.v)
  BY <1>2, <1>6, Zenon
<1> QED BY <1>4, <1>7 DEF F, final

(* The document after finalize_matching: the slots before the first failure *)
(* are filled in, everything else is as it was.                             *)
FinalDoc(d, doc, done, session, secret, keys) ==
  /\ d \in Docs /\ d.id = doc.id /\ Len(d.inputs) = Len(doc.inputs)
  /\ \A i \in 1 .. Len(doc.inputs) :
       /\ d.inputs[i].kind = doc.inputs[i].kind /\ d.inputs[i].keys = doc.inputs[i].keys
       /\ Len(d.inputs[i].sigs) = Len(doc.inputs[i].sigs)
       /\ \A n \in 1 .. Len(doc.inputs[i].sigs) :
            LET old == doc.inputs[i].sigs[n]
                now == d.inputs[i].sigs[n]
                f   == finalize_signature_slot(doc, <<i, n>>, session, secret, keys)
            IN /\ now.pos = old.pos /\ now.pk = old.pk
               /\ <<i, n>> \in done => now.r = f.v.r /\ now.s = f.v.s
               /\ <<i, n>> \notin done => now = old

(* The slots that cannot be finalized, and those before the first of them. *)
FailedAt(doc, counts, session, secret, keys) ==
  { a \in Places(doc, counts) : finalize_signature_slot(doc, a, session, secret, keys).err # "" }

DoneAt(doc, counts, session, secret, keys) ==
  { a \in Places(doc, counts) : \A b \in FailedAt(doc, counts, session, secret, keys) : Before(a, b) }

LEMMA FinalizeIs ==
  ASSUME NEW doc \in Docs, NEW counts, Counted(doc, counts), NEW session, NEW secret,
         NEW keys \in SUBSET DeviceKeys
  PROVE  LET f == finalize_matching(doc, counts, session, secret, keys)
         IN /\ FinalDoc(f.doc, doc, DoneAt(doc, counts, session, secret, keys), session, secret, keys)
            /\ f.err = "" <=> /\ Places(doc, counts) # {}
                              /\ FailedAt(doc, counts, session, secret, keys) = {}
<1> DEFINE at == Places(doc, counts)
           slot_final(a) == finalize_signature_slot(doc, a, session, secret, keys)
<1>1. PICK F : F = [a \in at |-> slot_final(a)]
  OBVIOUS
<1>2. DOMAIN F = at /\ \A a \in at : F[a] = slot_final(a)
  BY <1>1
<1> DEFINE final(a) == F[a]
           f      == finalize_matching(doc, counts, session, secret, keys)
           failed == { a \in at : final(a).err # "" }
           done   == { a \in at : \A b \in failed : Before(a, b) }
           first  == CHOOSE a \in failed : \A b \in failed : ~Before(b, a)
           slots(i) == [n \in 1 .. Len(doc.inputs[i].sigs) |->
                          LET slot == Slot(doc, <<i, n>>)
                          IN IF <<i, n>> \in done
                             THEN [slot EXCEPT !.r = final(<<i, n>>).v.r, !.s = final(<<i, n>>).v.s]
                             ELSE slot]
           ins == [i \in 1 .. Len(doc.inputs) |-> [doc.inputs[i] EXCEPT !.sigs = slots(i)]]
           err == IF at = {} THEN "NoInputs" ELSE IF failed = {} THEN "" ELSE final(first).err
<1>3. f = [err |-> err, doc |-> [doc EXCEPT !.inputs = ins]]
  <2>1. ToSet(Added(doc, counts)) = Places(doc, counts)
    BY AddedIs
  <2>2. f = InPlace(doc, F)
    BY <1>1, <2>1 DEF finalize_matching
  <2> QED BY <1>2, <2>2 DEF InPlace
<1>4. f.err = err /\ f.doc = [doc EXCEPT !.inputs = ins]
  <2> HIDE DEF f, err, ins
  <2> QED BY <1>3
<1>5. PICK N \in Nat : N = Len(doc.inputs)
  BY DocIs
<1>6. at # {} /\ failed # {} => final(first).err # ""
  <2> SUFFICES ASSUME failed # {} PROVE final(first).err # ""
    OBVIOUS
  <2>1. PICK A : A = Added(doc, counts)
    OBVIOUS
  <2>2. A \in Seq(Nat \X Nat) /\ ToSet(A) = at /\ InOrder(A)
    BY <2>1, AddedIs
  <2>3. PICK L \in Nat : L = Len(A) /\ DOMAIN A = 1 .. L
    BY <2>2, LenProperties
  <2>0. failed \subseteq at
    OBVIOUS
  <2> HIDE DEF failed, at
  <2> DEFINE M == { m \in 1 .. L : A[m] \in failed }
  <2>4. M \subseteq Nat /\ M # {}
    <3>1. PICK a \in failed : TRUE
      OBVIOUS
    <3>2. PICK m \in 1 .. L : A[m] = a
      BY <2>0, <2>2, <2>3, <3>1 DEF ToSet
    <3>3. m \in M
      BY <3>1, <3>2
    <3>4. M \subseteq Nat
      OBVIOUS
    <3> QED BY <3>3, <3>4
  <2>5. PICK m \in M : \A l \in M : m <= l
    BY <2>4, LeastExists
  <2>6. ASSUME NEW b \in failed
        PROVE  ~Before(b, A[m])
    <3>1. PICK l \in 1 .. L : A[l] = b
      BY <2>0, <2>2, <2>3, <2>6 DEF ToSet
    <3>2. l \in M /\ m \in 1 .. L /\ m <= l
      BY <2>5, <2>6, <3>1
    <3>3. A[m] \in Nat \X Nat /\ b \in Nat \X Nat
      BY <2>2, <2>3, <3>1, <3>2, ElementOfSeq
    <3>4. CASE m = l
      <4>1. A[m] = b
        BY <3>1, <3>4
      <4> QED BY <3>3, <4>1, BeforeIsOrder
    <3>5. CASE m < l
      <4>1. Before(A[m], b)
        BY <2>2, <2>3, <3>1, <3>2, <3>5 DEF InOrder
      <4> QED BY <3>3, <4>1, BeforeIsOrder
    <3>6. m = l \/ m < l
      BY <3>2
    <3> QED BY <3>4, <3>5, <3>6
  <2>7. A[m] \in failed
    BY <2>5
  <2>8. first \in failed
    BY <2>6, <2>7
  <2> HIDE DEF first
  <2> QED BY <2>8 DEF failed
<1>7. f.err = "" <=> at # {} /\ failed = {}
  <2> HIDE DEF f, at, failed, first, final
  <2> QED BY <1>4, <1>6
<1>8. ASSUME NEW i \in 1 .. N, NEW n \in 1 .. Len(doc.inputs[i].sigs)
      PROVE  LET old == doc.inputs[i].sigs[n]
                 now == slots(i)[n]
             IN /\ now \in Slots /\ now.pos = old.pos /\ now.pk = old.pk
                /\ <<i, n>> \in done => now.r = final(<<i, n>>).v.r /\ now.s = final(<<i, n>>).v.s
                /\ <<i, n>> \notin done => now = old
  <2>1. PICK old \in Slots : old = doc.inputs[i].sigs[n]
    BY <1>5, DocIs
  <2>2. PICK now : now = slots(i)[n]
    OBVIOUS
  <2>3. Slot(doc, <<i, n>>) = old
    BY <2>1 DEF Slot
  <2>4. PICK r, s : r = final(<<i, n>>).v.r /\ s = final(<<i, n>>).v.s
    OBVIOUS
  <2>5. now = IF <<i, n>> \in done THEN [old EXCEPT !.r = r, !.s = s] ELSE old
    BY <2>2, <2>3, <2>4
  <2>6. CASE <<i, n>> \in done
    <3>1. final(<<i, n>>).err = ""
      <4>1. ~Before(<<i, n>>, <<i, n>>)
        <5>1. Len(doc.inputs[i].sigs) \in Nat
          BY <1>5, DocIs
        <5> QED BY <5>1 DEF Before
      <4> QED BY <2>6, <4>1
    <3>2. r \in Int /\ s \in Int
      <4>1. <<i, n>>[1] = i /\ i \in 1 .. Len(doc.inputs)
        BY <1>5
      <4>2. final(<<i, n>>) = slot_final(<<i, n>>)
        BY <1>2, <2>6
      <4>3. r \in Canonical /\ s \in Scalars
        <5>1. slot_final(<<i, n>>).err = "" /\ r = slot_final(<<i, n>>).v.r /\ s = slot_final(<<i, n>>).v.s
          BY <2>4, <3>1, <4>2
        <5> HIDE DEF final, done, slots, at
        <5> QED BY <5>1, <4>1, SlotFinalIs
      <4> QED BY <4>3, CanonicalIs, ScalarsAreInts
    <3>3. now = [old EXCEPT !.r = r, !.s = s]
      BY <2>5, <2>6
    <3>4. now \in Slots /\ now.pos = old.pos /\ now.pk = old.pk /\ now.r = r /\ now.s = s
      BY <3>2, <3>3 DEF Slots
    <3> HIDE DEF slots, done, final
    <3> QED BY <2>1, <2>2, <2>4, <2>6, <3>4
  <2>7. CASE <<i, n>> \notin done
    <3>1. now = old
      BY <2>5, <2>7
    <3> HIDE DEF slots, done
    <3> QED BY <2>1, <2>2, <2>7, <3>1
  <2> QED BY <2>6, <2>7
<1>9. ASSUME NEW i \in 1 .. N
      PROVE  slots(i) \in Seq(Slots) /\ Len(slots(i)) = Len(doc.inputs[i].sigs)
  <2>1. PICK k \in Nat : k = Len(doc.inputs[i].sigs)
    BY <1>5, DocIs
  <2>2. PICK s : s = slots(i)
    OBVIOUS
  <2>3. DOMAIN s = 1 .. k /\ s = [n \in 1 .. k |-> s[n]]
    BY <2>1, <2>2
  <2>4. \A n \in 1 .. k : s[n] \in Slots
    BY <1>8, <2>1, <2>2
  <2>5. s \in [1 .. k -> Slots]
    BY <2>3, <2>4
  <2> HIDE DEF slots
  <2> QED BY <2>1, <2>2, <2>5, FunctionIsSeq
<1>10. ins = [i \in 1 .. Len(doc.inputs) |-> [doc.inputs[i] EXCEPT !.sigs = slots(i)]]
  OBVIOUS
<1>11. \A a \in done : final(a) = slot_final(a)
  BY <1>2
<1>12. /\ done = DoneAt(doc, counts, session, secret, keys)
      /\ failed = FailedAt(doc, counts, session, secret, keys)
  <2>1. failed = FailedAt(doc, counts, session, secret, keys)
    BY <1>2 DEF FailedAt
  <2> HIDE DEF failed
  <2> QED BY <2>1 DEF DoneAt
<1> HIDE DEF slots, ins, done, final, f
<1>13. ASSUME NEW i \in 1 .. N
      PROVE  /\ ins[i] \in Inputs /\ ins[i].sigs = slots(i)
             /\ ins[i].kind = doc.inputs[i].kind /\ ins[i].keys = doc.inputs[i].keys
  <2>1. PICK inp \in Inputs : inp = doc.inputs[i]
    BY <1>5, DocIs
  <2>2. PICK sl \in Seq(Slots) : sl = slots(i)
    BY <1>9
  <2>3. ins[i] = [inp EXCEPT !.sigs = sl]
    BY <1>5, <1>10, <2>1, <2>2
  <2> QED BY <2>1, <2>2, <2>3 DEF Inputs
<1>14. ins \in Seq(Inputs) /\ Len(ins) = N
  <2>1. ins \in [1 .. N -> Inputs]
    BY <1>5, <1>10, <1>13
  <2> QED BY <2>1, FunctionIsSeq
<1>15. f.doc \in Docs /\ f.doc.id = doc.id /\ f.doc.inputs = ins
  BY <1>4, <1>14 DEF Docs
<1>16. FinalDoc(f.doc, doc, done, session, secret, keys)
  BY <1>5, <1>8, <1>9, <1>13, <1>14, <1>15, <1>11, SMTT(30) DEF FinalDoc
<1> QED BY <1>7, <1>16, <1>12, Zenon DEF f

-----------------------------------------------------------------------------
(* The invariant behind NonceSignsOnce: entropy is used by one session, a   *)
(* session ends with its first answer, and a session without entropy cannot *)
(* be finalized at all, except to the pre-signature its base determines.    *)

TxTypes       == {"tx_request", "tx_commitment", "tx_reveal", "tx_signed"}
CovenantTypes == {"covenant_request", "covenant_nonce", "covenant_reveal", "covenant_signature"}
SwapTypes     == {"swap_request", "swap_nonce", "swap_reveal", "swap_presig"}

(* Messages carry sessions of their own protocol. *)
MsgInv(m) ==
  /\ "type" \in DOMAIN m
  /\ m.type \in TxTypes => "session" \in DOMAIN m /\ m.session.flow = "tx"
  /\ m.type \in CovenantTypes => "session" \in DOMAIN m /\ m.session.flow = "covenant"
  /\ m.type \in SwapTypes => "session" \in DOMAIN m /\ m.session.flow = "swap"
  /\ m.type = "tx_request" => m.doc \in Documents /\ Len(m.doc.inputs) < Q
  /\ m.type = "covenant_request" =>
       "q" \in DOMAIN m /\ m.q.key_id[1] \in DOMAIN Hierarchy.covenant /\ m.q.commitment[1] \in Nat
  /\ m.type = "swap_request" => m.key_id \in DOMAIN Hierarchy.claim /\ m.tx.id \in Nat

NetInv == \A m \in net : MsgInv(m)

(* A slot signed without entropy. *)
ZeroSlot(doc, a) ==
  \E k \in DeviceKeys :
    /\ Slot(doc, a).pk = Compressed(k)
    /\ schnorr_sign_with_aux_rand(k, calculate_sighash(doc, a[1]), 0)
         = Done([r |-> Slot(doc, a).r, s |-> Slot(doc, a).s])

(* A slot for an address that its script names twice. *)
Repeats(doc, a) == NamedTwice(Slot(doc, a).pk[2], doc.inputs[a[1]].keys)

HoldsTx(d) ==
  /\ {"session", "aux", "doc", "counts"} \subseteq DOMAIN d
  /\ d.doc \in Docs /\ Len(d.doc.inputs) < Q
  /\ Counted(d.doc, d.counts) /\ Places(d.doc, d.counts) # {}
  /\ \A a, b \in Places(d.doc, d.counts) :
       a[1] = b[1] /\ Slot(d.doc, a).pk = Slot(d.doc, b).pk => a = b \/ Repeats(d.doc, a)
  /\ d.aux = 0 => \A a \in Places(d.doc, d.counts) : ZeroSlot(d.doc, a)

HoldsCovenant(d) ==
  /\ d.key_id \in DOMAIN Hierarchy.covenant /\ d.message \in Nat
  /\ d.aux = 0 => schnorr_sign_with_aux_rand(derive_covenant_key(d.key_id), d.message, 0) = Done(d.sig)

HoldsSwap(d) ==
  d.key_id \in DOMAIN Hierarchy.claim /\ d.session.commitment = d.commitment

Holding(d, out, top) ==
  /\ d.aux \in 0 .. top
  /\ d.aux # 0 => \A rel \in out : rel.base[3] # d.aux
  /\ d.session.flow = "tx" => HoldsTx(d)
  /\ d.session.flow = "covenant" => HoldsCovenant(d)
  /\ d.session.flow = "swap" => HoldsSwap(d)

DevInv == dev # None => dev = <<dev[1]>> /\ Holding(dev[1], released, drawn)

(* The base of a final signature, and of a pre-signature. *)
FinalBase(rel) == \E pk, message, aux : rel.base = <<pk, message, aux>> /\ aux # 0
SwapBase(rel) ==
  \E x, message, aux, point, session :
    /\ rel.base = <<Even(x), message, aux, point, session>>
    /\ rel.session = session /\ rel.secret = session.commitment[2]
    /\ rel.sig = create_adaptor_presignature(x, message, point, SessionNumber(session), aux,
                                             session.commitment[2]).v

RelInv == \A rel \in released : rel.base[3] \in 0 .. drawn /\ (FinalBase(rel) \/ SwapBase(rel))

NonceInv ==
  /\ scene \in Scenes /\ drawn \in Nat
  /\ NetInv /\ DevInv /\ RelInv
  /\ NonceSignsOnce

LEMMA NonceInit == Init => NonceInv
BY DEF Init, NonceInv, NetInv, DevInv, RelInv, NonceSignsOnce

(* Steps that only send a message. *)
LEMMA NonceSend ==
  ASSUME NonceInv, UNCHANGED <<scene, dev, drawn, released>>, NEW m, MsgInv(m), Send(m)
  PROVE  NonceInv'
<1>1. NetInv'
  BY DEF NonceInv, NetInv, Send
<1>2. DevInv' /\ RelInv' /\ NonceSignsOnce'
  BY DEF NonceInv, DevInv, RelInv, NonceSignsOnce
<1> QED BY <1>1, <1>2 DEF NonceInv

LEMMA NonceAsks ==
  ASSUME NonceInv, NEW req \in scene, NEW secret, HostAsks(req, secret)
  PROVE  NonceInv'
<1>0. UNCHANGED <<scene, dev, drawn, released>>
  BY DEF HostAsks
<1>1. /\ req.flow = "tx" => req.doc \in Documents /\ Len(req.doc.inputs) < Q
      /\ req.flow = "covenant" => /\ {"key_id", "commitment"} \subseteq DOMAIN req.q
                                  /\ req.q.key_id[1] \in DOMAIN Hierarchy.covenant
                                  /\ req.q.commitment[1] \in Nat
      /\ req.flow = "swap" => req.key_id \in DOMAIN Hierarchy.claim /\ req.tx.id \in Nat
  BY SigningAssumption DEF NonceInv
<1>2. CASE AskTx(req, secret)
  <2>1. PICK m : m = encode_request(req.doc, secret) /\ Send(m)
    BY <1>2 DEF AskTx
  <2>2. PICK s, c, g : /\ m = [type |-> "tx_request", session |-> s, commitment |-> c, digest |-> g, doc |-> req.doc]
                       /\ s = session_id(c, g)
    BY <2>1 DEF encode_request
  <2>3. s.flow = "tx"
    BY <2>2 DEF session_id
  <2>4. m.type = "tx_request" /\ m.session = s /\ m.doc = req.doc /\ {"type", "session"} \subseteq DOMAIN m
    BY <2>2
  <2>5. MsgInv(m)
    BY <1>1, <1>2, <2>3, <2>4 DEF MsgInv, AskTx, TxTypes, CovenantTypes, SwapTypes
  <2> QED BY <1>0, <2>1, <2>5, NonceSend
<1>3. CASE AskCovenant(req, secret)
  <2>1. PICK token, s, c, q, m :
          /\ s = [flow |-> "covenant", commitment |-> c, about |-> <<Cardinality(asks)>>]
          /\ q = [req.q EXCEPT !.token = token]
          /\ m = [type |-> "covenant_request", session |-> s, commitment |-> c, q |-> q]
          /\ Send(m)
    BY <1>3, Zenon DEF AskCovenant
  <2>2. s.flow = "covenant"
    BY <2>1
  <2>3. q.key_id = req.q.key_id /\ q.commitment = req.q.commitment
    BY <1>1, <1>3, <2>1 DEF AskCovenant
  <2>4. m.type = "covenant_request" /\ m.session = s /\ m.q = q /\ {"type", "session", "q"} \subseteq DOMAIN m
    BY <2>1
  <2>5. MsgInv(m)
    BY <1>1, <1>3, <2>2, <2>3, <2>4 DEF MsgInv, AskCovenant, TxTypes, CovenantTypes, SwapTypes
  <2> QED BY <1>0, <2>1, <2>5, NonceSend
<1>4. CASE AskSwap(req, secret)
  <2>1. PICK token, s, c, m :
          /\ s = swap_session_id(c, req.tx, req.key_id, req.adaptor_point)
          /\ m = [type |-> "swap_request", session |-> s, commitment |-> c, key_id |-> req.key_id,
                  token |-> token, adaptor_point |-> req.adaptor_point, tx |-> req.tx]
          /\ Send(m)
    BY <1>4, Zenon DEF AskSwap
  <2>2. s.flow = "swap"
    BY <2>1 DEF swap_session_id
  <2>3. /\ m.type = "swap_request" /\ m.session = s /\ m.key_id = req.key_id /\ m.tx = req.tx
        /\ {"type", "session"} \subseteq DOMAIN m
    BY <2>1
  <2>4. MsgInv(m)
    BY <1>1, <1>4, <2>2, <2>3 DEF MsgInv, AskSwap, TxTypes, CovenantTypes, SwapTypes
  <2> QED BY <1>0, <2>1, <2>4, NonceSend
<1> QED BY <1>2, <1>3, <1>4 DEF HostAsks

LEMMA NonceReveals ==
  ASSUME NonceInv, NEW ask, NEW m \in net, HostReveals(ask, m)
  PROVE  NonceInv'
<1>0. UNCHANGED <<scene, dev, drawn, released>> /\ MsgInv(m)
  BY DEF HostReveals, NonceInv, NetInv
<1> USE DEF TxTypes, CovenantTypes, SwapTypes
<1>1. CASE /\ m.type = "tx_commitment"
           /\ Send([type |-> "tx_reveal", session |-> m.session, secret |-> ask.secret])
  <2>1. PICK r, s, h : /\ s = m.session /\ h = ask.secret
                       /\ r = [type |-> "tx_reveal", session |-> s, secret |-> h] /\ Send(r)
    BY <1>1
  <2>2. r.type = "tx_reveal" /\ r.session = s /\ {"type", "session"} \subseteq DOMAIN r
    BY <2>1
  <2>3. s.flow = "tx"
    BY <1>0, <1>1, <2>1 DEF MsgInv
  <2>4. MsgInv(r)
    BY <2>2, <2>3 DEF MsgInv
  <2> QED BY <1>0, <2>1, <2>4, NonceSend
<1>2. CASE \E type \in {"covenant_nonce", "swap_nonce"} :
             /\ m.type = type
             /\ Send([type |-> IF type = "swap_nonce" THEN "swap_reveal" ELSE "covenant_reveal",
                      session |-> m.session, key_id |-> m.key_id, message |-> m.message,
                      secret |-> ask.secret])
  <2>1. PICK type \in {"covenant_nonce", "swap_nonce"} :
             /\ m.type = type
             /\ Send([type |-> IF type = "swap_nonce" THEN "swap_reveal" ELSE "covenant_reveal",
                      session |-> m.session, key_id |-> m.key_id, message |-> m.message,
                      secret |-> ask.secret])
    BY <1>2
  <2>2. PICK r, s, k, g, h, t :
          /\ s = m.session /\ h = ask.secret /\ k = m.key_id /\ g = m.message
          /\ t = (IF type = "swap_nonce" THEN "swap_reveal" ELSE "covenant_reveal")
          /\ r = [type |-> t, session |-> s, key_id |-> k, message |-> g, secret |-> h]
          /\ Send(r)
    BY <2>1
  <2>3. r.type = t /\ r.session = s /\ {"type", "session"} \subseteq DOMAIN r
    BY <2>2
  <2>4. IF type = "swap_nonce" THEN s.flow = "swap" ELSE s.flow = "covenant"
    BY <1>0, <2>1, <2>2 DEF MsgInv
  <2>5. MsgInv(r)
    BY <2>2, <2>3, <2>4 DEF MsgInv
  <2> QED BY <1>0, <2>2, <2>5, NonceSend
<1> QED BY <1>1, <1>2 DEF HostReveals

LEMMA NonceSplice ==
  ASSUME NonceInv, NEW m \in net, NEW other \in net, Splice(m, other)
  PROVE  NonceInv'
<1>0. UNCHANGED <<scene, dev, drawn, released>> /\ MsgInv(m) /\ MsgInv(other) /\ m.type = other.type
  BY DEF Splice, NonceInv, NetInv
<1>1. PICK r, s : s = other.session /\ r = [m EXCEPT !.session = s] /\ Send(r)
  BY DEF Splice
<1>2. m.type \in (TxTypes \cup CovenantTypes \cup SwapTypes) \ {"tx_request", "swap_request"}
  BY DEF Splice, TxTypes, CovenantTypes, SwapTypes
<1>3. /\ "type" \in DOMAIN r /\ r.type = m.type /\ "session" \in DOMAIN r /\ r.session = s
      /\ "q" \in DOMAIN m => "q" \in DOMAIN r /\ r.q = m.q
  BY <1>0, <1>1, <1>2 DEF MsgInv
<1>4. MsgInv(r)
  BY <1>0, <1>1, <1>2, <1>3 DEF MsgInv, TxTypes, CovenantTypes, SwapTypes
<1> QED BY <1>0, <1>1, <1>4, NonceSend

(* Messages outside the sessions. *)
LEMMA NonceBinding ==
  ASSUME NonceInv, UNCHANGED <<scene, dev, drawn, released>>,
         NEW t \in {"covenant_binding", "swap_binding"}, NEW k, NEW w, NEW x, NEW b,
         Send([type |-> t, key_id |-> k, script |-> w, x |-> x, token |-> b])
  PROVE  NonceInv'
<1>2. PICK m : m = [type |-> t, key_id |-> k, script |-> w, x |-> x, token |-> b] /\ Send(m)
  OBVIOUS
<1>3. m.type = t /\ "type" \in DOMAIN m
  BY <1>2
<1>4. MsgInv(m)
  BY <1>3 DEF MsgInv, TxTypes, CovenantTypes, SwapTypes
<1> QED BY <1>2, <1>4, NonceSend

LEMMA NonceBinds ==
  ASSUME NonceInv, NEW req, DeviceBinds(req)
  PROVE  NonceInv'
<1>0. UNCHANGED <<scene, dev, drawn, released>>
  BY DEF DeviceBinds
<1>1. CASE req.flow = "covenant"
  <2>1. PICK k, w, x, b :
          Send([type |-> "covenant_binding", key_id |-> k, script |-> w, x |-> x, token |-> b])
    BY <1>1, Zenon DEF DeviceBinds
  <2> QED BY <1>0, <2>1, NonceBinding
<1>2. CASE req.flow # "covenant"
  <2>1. PICK k, w, x, b :
          Send([type |-> "swap_binding", key_id |-> k, script |-> w, x |-> x, token |-> b])
    BY <1>2, Zenon DEF DeviceBinds
  <2> QED BY <1>0, <2>1, NonceBinding
<1> QED BY <1>1, <1>2

LEMMA NonceCompletes ==
  ASSUME NonceInv, NEW m, NEW instance, DeviceCompletes(m, instance)
  PROVE  NonceInv'
<1>0. UNCHANGED <<scene, dev, drawn, released>>
  BY DEF DeviceCompletes
<1>1. PICK x, g, v, r : r = [type |-> "swap_completed", key_id |-> instance, x |-> x, message |-> g, sig |-> v]
                        /\ Send(r)
  BY Zenon DEF DeviceCompletes
<1>2. r.type = "swap_completed" /\ "type" \in DOMAIN r
  BY <1>1
<1>3. MsgInv(r)
  BY <1>2 DEF MsgInv, TxTypes, CovenantTypes, SwapTypes
<1> QED BY <1>0, <1>1, <1>3, NonceSend

LEMMA NonceRestart ==
  ASSUME NonceInv, Restart
  PROVE  NonceInv'
BY DEF Restart, NonceInv, NetInv, DevInv, RelInv, NonceSignsOnce

(* A device that takes up a session: entropy is new. *)
LEMMA NonceRespond ==
  ASSUME NonceInv, NEW d, NEW answer, d.aux \in Entropy, Respond(d, answer), MsgInv(answer),
         d.session.flow = "tx" => HoldsTx(d),
         d.session.flow = "covenant" => HoldsCovenant(d),
         d.session.flow = "swap" => HoldsSwap(d)
  PROVE  NonceInv'
<1>0. /\ drawn \in Nat /\ UNCHANGED <<scene, released>> /\ dev' = <<d>> /\ Send(answer)
      /\ drawn' = IF d.aux > drawn THEN d.aux ELSE drawn
  BY DEF Respond, NonceInv, Some
<1>1. d.aux = 0 \/ d.aux = drawn + 1
  BY DEF Entropy
<1>2. drawn' \in Nat /\ drawn' >= drawn /\ d.aux \in 0 .. drawn'
  BY <1>0, <1>1
<1>3. RelInv'
  <2>1. \A n \in 0 .. drawn : n \in 0 .. drawn'
    BY <1>0, <1>2
  <2> QED BY <1>0, <2>1 DEF NonceInv, RelInv
<1>4. d.aux # 0 => \A rel \in released : rel.base[3] # d.aux
  <2>1. drawn + 1 \notin 0 .. drawn
    BY <1>0
  <2> QED BY <1>1, <2>1 DEF NonceInv, RelInv
<1>5. Holding(d, released', drawn')
  BY <1>0, <1>2, <1>4 DEF Holding
<1>6. DevInv'
  BY <1>0, <1>5 DEF DevInv
<1>7. NetInv'
  BY <1>0 DEF NonceInv, NetInv, Send
<1> QED BY <1>0, <1>2, <1>3, <1>6, <1>7 DEF NonceInv, NonceSignsOnce

(* The counts a session starts from: what it adds are the new signatures. *)
LEMMA SignedCounts ==
  ASSUME NEW doc \in Docs, NEW aux, NEW d, SignedDoc(d, doc, aux)
  PROVE  LET counts == initial_signature_counts(doc)
         IN /\ Counted(d, counts)
            /\ \A a \in Places(d, counts) :
                 LET n == a[2] - counts[a[1]] IN
                 /\ a[1] \in 1 .. Len(doc.inputs) /\ counts[a[1]] = Len(doc.inputs[a[1]].sigs)
                 /\ n \in 1 .. Len(ToSign(doc.inputs[a[1]])) /\ a[2] = counts[a[1]] + n
                 /\ SlotSigned(Slot(d, a), doc, a[1], ToSign(doc.inputs[a[1]])[n], aux)
<1>1. PICK counts : counts = initial_signature_counts(doc)
  OBVIOUS
<1>2. \A i \in 1 .. Len(doc.inputs) : counts[i] = Len(doc.inputs[i].sigs) /\ counts[i] \in Nat
  BY <1>1, DocIs DEF initial_signature_counts
<1>3. \A i \in 1 .. Len(doc.inputs) : /\ Len(ToSign(doc.inputs[i])) \in Nat
                                      /\ Len(d.inputs[i].sigs) = counts[i] + Len(ToSign(doc.inputs[i]))
  <2> SUFFICES ASSUME NEW i \in 1 .. Len(doc.inputs)
               PROVE  /\ Len(ToSign(doc.inputs[i])) \in Nat
                      /\ Len(d.inputs[i].sigs) = counts[i] + Len(ToSign(doc.inputs[i]))
    OBVIOUS
  <2>1. ToSign(doc.inputs[i]) \in Seq(Nat)
    <3>1. PICK inp \in Inputs : inp = doc.inputs[i]
      BY DocIs
    <3> QED BY <3>1, ToSignIs DEF KeysOnce
  <2> QED BY <1>2, <2>1, LenProperties DEF SignedDoc
<1>4. Counted(d, counts)
  <2>1. \A i \in 1 .. Len(doc.inputs) : counts[i] \in 0 .. Len(d.inputs[i].sigs)
    BY <1>2, <1>3
  <2> QED BY <2>1 DEF Counted, SignedDoc
<1>5. ASSUME NEW a \in Places(d, counts)
      PROVE  LET n == a[2] - counts[a[1]] IN
                 /\ a[1] \in 1 .. Len(doc.inputs) /\ counts[a[1]] = Len(doc.inputs[a[1]].sigs)
                 /\ n \in 1 .. Len(ToSign(doc.inputs[a[1]])) /\ a[2] = counts[a[1]] + n
                 /\ SlotSigned(Slot(d, a), doc, a[1], ToSign(doc.inputs[a[1]])[n], aux)
  <2>1. d \in Docs /\ Len(d.inputs) = Len(doc.inputs)
    BY DEF SignedDoc
  <2>2. /\ a[1] \in 1 .. Len(doc.inputs) /\ a[2] \in 1 .. Len(d.inputs[a[1]].sigs)
        /\ a[2] > counts[a[1]] /\ a[2] \in Nat /\ Slot(d, a) = d.inputs[a[1]].sigs[a[2]]
    BY <1>4, <2>1, PlaceIs
  <2>3. PICK c \in Nat, t \in Nat : c = counts[a[1]] /\ t = Len(ToSign(doc.inputs[a[1]]))
    BY <1>2, <1>3, <2>2
  <2>0. a[2] \in 1 .. c + t /\ a[2] > c /\ a[2] \in Nat
    BY <1>3, <2>2, <2>3
  <2>4. PICK n \in Nat : n = a[2] - c /\ n \in 1 .. t /\ a[2] = c + n
    BY <2>0
  <2>5. SlotSigned(d.inputs[a[1]].sigs[c + n], doc, a[1], ToSign(doc.inputs[a[1]])[n], aux)
    BY <1>2, <2>2, <2>3, <2>4 DEF SignedDoc
  <2> QED BY <1>2, <2>2, <2>3, <2>4, <2>5
<1> QED BY <1>1, <1>4, <1>5

LEMMA NonceSignTx ==
  ASSUME NonceInv, NEW m \in net, NEW aux \in Entropy, SignTx(m, aux)
  PROVE  NonceInv'
<1>0. MsgInv(m) /\ m.type = "tx_request"
  BY DEF NonceInv, NetInv, SignTx
<1>1. PICK doc \in Docs : doc = m.doc /\ Len(doc.inputs) < Q /\ m.session.flow = "tx"
  BY <1>0, DocumentsAreDocs DEF MsgInv, TxTypes
<1>2. PICK counts, v, recs, signed :
        /\ counts = initial_signature_counts(doc) /\ signed = sign_transaction(doc, aux) /\ v = signed.v
        /\ recs = nonce_commitment_records(v, counts)
        /\ signed.err = "" /\ recs.err = ""
  BY <1>1 DEF SignTx
<1>3. PICK d, s, c, g :
        /\ s = m.session /\ c = m.commitment /\ g = m.digest
        /\ d = [session |-> s, commitment |-> c, aux |-> aux, tries |-> 0,
                doc |-> v, counts |-> counts, digest |-> g]
        /\ Respond(d, [type |-> "tx_commitment", session |-> s, digest |-> g, records |-> recs.v])
  BY <1>1, <1>2 DEF SignTx
<1>4. PICK answer, w : /\ w = recs.v
                       /\ answer = [type |-> "tx_commitment", session |-> s, digest |-> g, records |-> w]
                       /\ Respond(d, answer)
  BY <1>3
<1>5. MsgInv(answer)
  <2>1. answer.type = "tx_commitment" /\ answer.session = s /\ {"type", "session"} \subseteq DOMAIN answer
    BY <1>4
  <2>2. s.flow = "tx"
    BY <1>1, <1>3
  <2> QED BY <2>1, <2>2 DEF MsgInv, TxTypes, CovenantTypes, SwapTypes
<1>6. /\ d.session = s /\ d.aux = aux /\ d.doc = v /\ d.counts = counts
      /\ {"session", "aux", "doc", "counts"} \subseteq DOMAIN d
  BY <1>3
<1>7. SignedDoc(v, doc, aux)
  BY <1>2, SignedIs
<1>8. v \in Docs /\ Len(v.inputs) = Len(doc.inputs) /\ v.id = doc.id
  BY <1>7 DEF SignedDoc
<1>9. /\ Counted(v, counts)
      /\ \A a \in Places(v, counts) :
           LET n == a[2] - counts[a[1]] IN
           /\ a[1] \in 1 .. Len(doc.inputs) /\ counts[a[1]] = Len(doc.inputs[a[1]].sigs)
           /\ n \in 1 .. Len(ToSign(doc.inputs[a[1]])) /\ a[2] = counts[a[1]] + n
           /\ SlotSigned(Slot(v, a), doc, a[1], ToSign(doc.inputs[a[1]])[n], aux)
  BY <1>2, <1>7, SignedCounts
<1>10. Places(v, counts) # {}
  <2>1. Added(v, counts) # <<>>
    <3>1. Fail("NoInputs").err = "NoInputs"
      BY FailIs, Zenon
    <3> SUFFICES ASSUME Added(v, counts) = <<>> PROVE FALSE
      OBVIOUS
    <3>2. recs = Fail("NoInputs")
      BY <1>2 DEF nonce_commitment_records
    <3> QED BY <1>2, <3>1, <3>2
  <2>2. Added(v, counts) \in Seq(Nat \X Nat) /\ ToSet(Added(v, counts)) = Places(v, counts)
    BY <1>8, <1>9, AddedIs
  <2>3. PICK A : A = Added(v, counts)
    OBVIOUS
  <2>4. 1 \in DOMAIN A
    BY <2>1, <2>2, <2>3
  <2>5. A[1] \in ToSet(A)
    BY <2>4 DEF ToSet
  <2> QED BY <2>2, <2>3, <2>5
<1>11. ASSUME NEW a \in Places(v, counts), NEW b \in Places(v, counts),
              a[1] = b[1], Slot(v, a).pk = Slot(v, b).pk
       PROVE  a = b \/ Repeats(v, a)
  <2>1. PICK i \in 1 .. Len(doc.inputs) : i = a[1]
    BY <1>9
  <2>2. PICK T : T = ToSign(doc.inputs[i])
    OBVIOUS
  <2>3. PICK n : n \in 1 .. Len(T) /\ a[2] = counts[i] + n /\ SlotSigned(Slot(v, a), doc, i, T[n], aux)
    BY <1>9, <2>1, <2>2
  <2>4. PICK l : l \in 1 .. Len(T) /\ b[2] = counts[i] + l /\ SlotSigned(Slot(v, b), doc, i, T[l], aux)
    BY <1>9, <1>11, <2>1, <2>2
  <2>5. n = l \/ doc.inputs[i].keys[T[n]] # doc.inputs[i].keys[T[l]]
          \/ NamedTwice(doc.inputs[i].keys[T[n]], doc.inputs[i].keys)
    <3>1. PICK inp \in Inputs : inp = doc.inputs[i]
      BY <2>1, DocIs
    <3>2. KeysOnce(T, inp)
      BY <2>2, <3>1, ToSignIs
    <3>3. n = l \/ inp.keys[T[n]] # inp.keys[T[l]] \/ NamedTwice(inp.keys[T[n]], inp.keys)
      BY <2>3, <2>4, <3>2, Zenon DEF KeysOnce
    <3> QED BY <3>1, <3>3
  <2>6. PICK j \in DeviceKeys : PointX(j) = doc.inputs[i].keys[T[n]] /\ Slot(v, a).pk = Compressed(j)
    BY <2>3 DEF SlotSigned
  <2>7. PICK k \in DeviceKeys : PointX(k) = doc.inputs[i].keys[T[l]] /\ Slot(v, b).pk = Compressed(k)
    BY <2>4 DEF SlotSigned
  <2>8. PointX(j) = PointX(k)
    <3>1. Compressed(j) = Compressed(k)
      BY <1>11, <2>6, <2>7
    <3>2. Compressed(j)[2] = PointX(j) /\ Compressed(k)[2] = PointX(k)
      BY <2>6, <2>7, DeviceKeysAreKeys, CompressedIs
    <3> QED BY <3>1, <3>2
  <2>9. n = l \/ NamedTwice(PointX(j), doc.inputs[i].keys)
    BY <2>5, <2>6, <2>7, <2>8, Zenon
  <2>10. a = <<a[1], a[2]>> /\ b = <<b[1], b[2]>>
    BY <1>8, <1>9, PlaceIs
  <2>11. CASE n = l
    BY <1>11, <2>3, <2>4, <2>10, <2>11
  <2>12. CASE NamedTwice(PointX(j), doc.inputs[i].keys)
    <3>1. Slot(v, a).pk[2] = PointX(j)
      BY <2>6, DeviceKeysAreKeys, CompressedIs
    <3>2. v.inputs[i].keys = doc.inputs[i].keys
      BY <1>7, <2>1, Zenon DEF SignedDoc
    <3> QED BY <2>1, <2>12, <3>1, <3>2 DEF Repeats
  <2> QED BY <2>9, <2>11, <2>12
<1>12. ASSUME aux = 0, NEW a \in Places(v, counts)
       PROVE  ZeroSlot(v, a)
  <2>1. PICK p : SlotSigned(Slot(v, a), doc, a[1], p, 0)
    BY <1>9, <1>12
  <2>2. calculate_sighash(doc, a[1]) = calculate_sighash(v, a[1])
    BY <1>8 DEF calculate_sighash
  <2> QED BY <2>1, <2>2 DEF SlotSigned, ZeroSlot
<1>13. HoldsTx(d)
  BY <1>1, <1>6, <1>8, <1>9, <1>10, <1>11, <1>12 DEF HoldsTx
<1>14. d.session.flow = "tx" /\ d.aux \in Entropy
  BY <1>1, <1>3, <1>6
<1> QED BY <1>4, <1>5, <1>13, <1>14, NonceRespond

LEMMA NonceSignCovenant ==
  ASSUME NonceInv, NEW m \in net, NEW aux \in Entropy, SignCovenant(m, aux)
  PROVE  NonceInv'
<1>0. MsgInv(m) /\ m.type = "covenant_request"
  BY DEF NonceInv, NetInv, SignCovenant
<1>1. /\ m.session.flow = "covenant" /\ m.q.key_id[1] \in DOMAIN Hierarchy.covenant
      /\ m.q.commitment[1] \in Nat
  BY <1>0 DEF MsgInv, CovenantTypes
<1>2. PICK key, message, sig : /\ key = m.q.key_id[1] /\ message = m.q.commitment[1]
                               /\ sig = provisional_covenant_signature(key, message, aux)
                               /\ sig.err = ""
  BY DEF SignCovenant
<1>3. PICK s, c, v, w, x, g :
        /\ s = m.session /\ v = sig.v
        /\ Respond([session |-> s, commitment |-> c, aux |-> aux, tries |-> 0,
                    key_id |-> key, message |-> message, sig |-> v, token |-> w],
                   [type |-> "covenant_nonce", session |-> s, key_id |-> key, x |-> x, token |-> w,
                    message |-> message, nonce_point |-> g])
  BY <1>2, Zenon DEF SignCovenant
<1>4. PICK d, answer :
        /\ d = [session |-> s, commitment |-> c, aux |-> aux, tries |-> 0,
                key_id |-> key, message |-> message, sig |-> v, token |-> w]
        /\ answer = [type |-> "covenant_nonce", session |-> s, key_id |-> key, x |-> x, token |-> w,
                     message |-> message, nonce_point |-> g]
        /\ Respond(d, answer)
  BY <1>3
<1>5. d.session = s /\ d.aux = aux /\ d.key_id = key /\ d.message = message /\ d.sig = v
  BY <1>4
<1>6. answer.type = "covenant_nonce" /\ answer.session = s /\ {"type", "session"} \subseteq DOMAIN answer
  BY <1>4
<1>7. s.flow = "covenant"
  BY <1>1, <1>3
<1>8. MsgInv(answer)
  BY <1>6, <1>7 DEF MsgInv, TxTypes, CovenantTypes, SwapTypes
<1>9. sig = Done(v)
  <2>1. sig = schnorr_sign_with_aux_rand(derive_covenant_key(key), message, aux)
    BY <1>2 DEF provisional_covenant_signature
  <2>2. sig = Fail("SigningFailed") \/ \E u : sig = Done(u)
    BY <2>1 DEF schnorr_sign_with_aux_rand
  <2>3. Fail("SigningFailed").err = "SigningFailed"
    BY FailIs, Zenon
  <2>4. PICK u : sig = Done(u)
    BY <1>2, <2>2, <2>3
  <2> QED BY <1>3, <2>4, DoneIs
<1>10. HoldsCovenant(d)
  BY <1>1, <1>2, <1>5, <1>9 DEF HoldsCovenant, provisional_covenant_signature
<1>11. d.aux \in Entropy /\ d.session.flow = "covenant"
  BY <1>5, <1>7
<1> QED BY <1>4, <1>8, <1>10, <1>11, NonceRespond

LEMMA NoncePreSign ==
  ASSUME NonceInv, NEW m \in net, NEW aux \in Entropy, PreSign(m, aux)
  PROVE  NonceInv'
<1>0. MsgInv(m) /\ m.type = "swap_request"
  BY DEF NonceInv, NetInv, PreSign
<1>1. m.session.flow = "swap" /\ m.key_id \in DOMAIN Hierarchy.claim
  BY <1>0 DEF MsgInv, SwapTypes
<1>2. PICK s, c, k, g, t, w, x, p :
        /\ s = m.session /\ c = m.commitment /\ k = m.key_id
        /\ Respond([session |-> s, commitment |-> c, aux |-> aux, tries |-> 0,
                    key_id |-> k, message |-> g, adaptor_point |-> t, token |-> w],
                   [type |-> "swap_nonce", session |-> s, key_id |-> k, x |-> x, token |-> w,
                    adaptor_point |-> t, message |-> g, nonce_point |-> p])
  BY Zenon DEF PreSign
<1>3. PICK d, answer :
        /\ d = [session |-> s, commitment |-> c, aux |-> aux, tries |-> 0,
                key_id |-> k, message |-> g, adaptor_point |-> t, token |-> w]
        /\ answer = [type |-> "swap_nonce", session |-> s, key_id |-> k, x |-> x, token |-> w,
                     adaptor_point |-> t, message |-> g, nonce_point |-> p]
        /\ Respond(d, answer)
  BY <1>2
<1>4. d.session = s /\ d.aux = aux /\ d.key_id = k /\ d.commitment = c
  BY <1>3
<1>5. answer.type = "swap_nonce" /\ answer.session = s /\ {"type", "session"} \subseteq DOMAIN answer
  BY <1>3
<1>6. s.flow = "swap" /\ s.commitment = c
  <2>1. m.session = swap_session_id(m.commitment, m.tx, m.key_id, m.adaptor_point)
    BY DEF PreSign, validate_presign_request
  <2>2. s.commitment = c
    BY <1>2, <2>1 DEF swap_session_id
  <2> QED BY <1>1, <1>2, <2>2
<1>7. MsgInv(answer)
  BY <1>5, <1>6 DEF MsgInv, TxTypes, CovenantTypes, SwapTypes
<1>8. HoldsSwap(d)
  BY <1>1, <1>2, <1>4, <1>6 DEF HoldsSwap
<1>9. d.aux \in Entropy /\ d.session.flow = "swap"
  BY <1>4, <1>6
<1> QED BY <1>3, <1>7, <1>8, <1>9, NonceRespond

(* A device that answers gives its session up; what it releases has bases of *)
(* its own, or is what an earlier release of the base was.                   *)
LEMMA NonceAnswers ==
  ASSUME NonceInv, NEW out, NEW answer, MsgInv(answer), Answered(out, answer),
         \A rel \in out : rel.base[3] \in 0 .. drawn /\ (FinalBase(rel) \/ SwapBase(rel)),
         \A a, b \in out : a.base = b.base => OneUse(a, b),
         \A a \in out, b \in released : a.base = b.base => OneUse(a, b) /\ OneUse(b, a)
  PROVE  NonceInv'
<1>1. /\ dev' = None /\ released' = released \cup out /\ net' = net \cup {answer}
      /\ UNCHANGED <<scene, drawn>>
  BY DEF Answered, Send
<1>2. NetInv' /\ DevInv'
  BY <1>1 DEF NonceInv, NetInv, DevInv
<1>3. \A rel \in released' : rel.base[3] \in 0 .. drawn' /\ (FinalBase(rel) \/ SwapBase(rel))
  BY <1>1 DEF NonceInv, RelInv
<1>4. NonceSignsOnce'
  <2> SUFFICES ASSUME NEW a \in released', NEW b \in released', a.base = b.base PROVE OneUse(a, b)
    BY DEF NonceSignsOnce
  <2>1. \A x, y \in released : x.base = y.base => OneUse(x, y)
    BY DEF NonceInv, NonceSignsOnce
  <2>2. (a \in released \/ a \in out) /\ (b \in released \/ b \in out)
    BY <1>1
  <2> QED BY <2>1, <2>2, Zenon
<1> QED BY <1>1, <1>2, <1>3, <1>4 DEF NonceInv, RelInv

LEMMA ReleasedIs ==
  ASSUME NEW base, NEW x, NEW keys, NEW message, NEW sig, NEW session, NEW secret
  PROVE  LET rel == Released(base, x, keys, message, sig, session, secret)
         IN /\ rel.base = base /\ rel.x = x /\ rel.keys = keys /\ rel.sig = sig
            /\ rel.session = session /\ rel.secret = secret
BY DEF Released

LEMMA NonceFinalizeCovenant ==
  ASSUME NonceInv, NEW m \in net, FinalizeCovenant(m)
  PROVE  NonceInv'
<1>0. MsgInv(m) /\ m.type = "covenant_reveal" /\ dev # None
  BY DEF NonceInv, NetInv, FinalizeCovenant, Reveals
<1>1. PICK d : d = dev[1] /\ Holding(d, released, drawn) /\ d.session = m.session
  BY <1>0 DEF NonceInv, DevInv, FinalizeCovenant, Reveals
<1>2. d.session.flow = "covenant" /\ HoldsCovenant(d)
  BY <1>0, <1>1 DEF MsgInv, CovenantTypes, Holding
<1>3. finalize_covenant_signature(d, m.secret).err = ""
  BY <1>1 DEF FinalizeCovenant
<1>4. d.aux # 0
  <2> SUFFICES ASSUME d.aux = 0 PROVE FALSE
    OBVIOUS
  <2>1. schnorr_sign_with_aux_rand(derive_covenant_key(d.key_id), d.message, 0) = Done(d.sig)
    BY <1>2 DEF HoldsCovenant
  <2>2. derive_covenant_key(d.key_id) \in Keys /\ d.message \in Int
    BY <1>2, SigningAssumption DEF HoldsCovenant, derive_covenant_key, Keys
  <2>3. finalize_covenant_signature(d, m.secret).err # ""
    BY <2>1, <2>2, ZeroAuxRefused DEF finalize_covenant_signature
  <2> QED BY <1>3, <2>3
<1>5. PICK x, g, v, s, k, w, p, a :
        /\ s = d.session /\ a = d.aux
        /\ Answered({Released(<<Even(x), g, a>>, x, <<x>>, g, v, s, m.secret)},
                    [type |-> "covenant_signature", session |-> s, key_id |-> k, x |-> x,
                     token |-> w, message |-> g, nonce_point |-> p, sig |-> v])
  BY <1>1, Zenon DEF FinalizeCovenant
<1>6. PICK rel, answer :
        /\ rel = Released(<<Even(x), g, a>>, x, <<x>>, g, v, s, m.secret)
        /\ answer = [type |-> "covenant_signature", session |-> s, key_id |-> k, x |-> x,
                     token |-> w, message |-> g, nonce_point |-> p, sig |-> v]
        /\ Answered({rel}, answer)
  BY <1>5
<1>7. rel.base = <<Even(x), g, a>>
  BY <1>6, ReleasedIs
<1>8. answer.type = "covenant_signature" /\ answer.session = s /\ {"type", "session"} \subseteq DOMAIN answer
  BY <1>6
<1>9. MsgInv(answer)
  BY <1>2, <1>5, <1>8 DEF MsgInv, TxTypes, CovenantTypes, SwapTypes
<1>10. rel.base[3] \in 0 .. drawn /\ FinalBase(rel) /\ rel.base[3] = d.aux
  BY <1>1, <1>4, <1>5, <1>7 DEF Holding, FinalBase
<1>11. \A b \in released : b.base[3] # d.aux
  BY <1>1, <1>4 DEF Holding
<1>12. \A b \in released : rel.base # b.base
  BY <1>10, <1>11
<1>13. OneUse(rel, rel)
  BY Zenon DEF OneUse
<1> QED BY <1>6, <1>9, <1>10, <1>12, <1>13, NonceAnswers

(* A pre-signature depends on the x coordinate of the key alone. *)
LEMMA CreateByX ==
  ASSUME NEW key \in Keys, NEW message, NEW point, NEW session, NEW aux, NEW secret
  PROVE  create_adaptor_presignature(key, message, point, session, aux, secret)
           = create_adaptor_presignature(PointX(key), message, point, session, aux, secret)
<1>1. PICK x \in Canonical : x = PointX(key)
  BY KeysAreScalars, PointXIs DEF Keys
<1>2. PointX(x) = x /\ x # 0 /\ key # 0
  BY CanonicalIs, SchnorrAssumption DEF Keys
<1>3. normalized_secret(key) = x /\ normalized_secret(x) = x
  BY <1>1, <1>2 DEF normalized_secret
<1> QED BY <1>1, <1>2, <1>3, Zenon DEF create_adaptor_presignature

(* A base of a pre-signature has been used for that pre-signature alone. *)
LEMMA SwapBaseIs ==
  ASSUME NEW a, NEW b, SwapBase(a), FinalBase(b) \/ SwapBase(b), a.base = b.base
  PROVE  OneUse(a, b) /\ OneUse(b, a)
<1>1. PICK x, message, aux, point, session :
        /\ a.base = <<Even(x), message, aux, point, session>>
        /\ a.session = session /\ a.secret = session.commitment[2]
        /\ a.sig = create_adaptor_presignature(x, message, point, SessionNumber(session), aux,
                                               session.commitment[2]).v
  BY DEF SwapBase
<1>2. ~FinalBase(b)
  <2> SUFFICES ASSUME FinalBase(b) PROVE FALSE
    OBVIOUS
  <2>1. PICK p, g, u : b.base = <<p, g, u>>
    BY DEF FinalBase
  <2>2. Len(b.base) = 3
    BY ONLY <2>1
  <2>3. PICK e : a.base = <<e, message, aux, point, session>>
    BY <1>1
  <2>4. Len(a.base) = 5
    BY ONLY <2>3
  <2> QED BY <2>2, <2>4
<1>3. PICK y, g, u, q, s :
        /\ b.base = <<Even(y), g, u, q, s>>
        /\ b.session = s /\ b.secret = s.commitment[2]
        /\ b.sig = create_adaptor_presignature(y, g, q, SessionNumber(s), u, s.commitment[2]).v
  BY <1>2 DEF SwapBase
<1>4. <<Even(x), message, aux, point, session>> = <<Even(y), g, u, q, s>>
  BY <1>1, <1>3
<1>5. Even(x) = Even(y) /\ message = g /\ aux = u /\ point = q /\ session = s
  BY ONLY <1>4
<1>6. x = y
  BY <1>5 DEF Even
<1>7. a.sig = b.sig /\ a.session = b.session /\ a.secret = b.secret
  BY <1>1, <1>3, <1>5, <1>6
<1> QED BY <1>7, Zenon DEF OneUse

LEMMA NonceFinalizeSwap ==
  ASSUME NonceInv, NEW m \in net, FinalizeSwap(m)
  PROVE  NonceInv'
<1>0. MsgInv(m) /\ m.type = "swap_reveal" /\ dev # None
  BY DEF NonceInv, NetInv, FinalizeSwap, Reveals
<1>1. PICK d : /\ d = dev[1] /\ Holding(d, released, drawn) /\ d.session = m.session
               /\ d.commitment = host_commitment(m.secret)
  BY <1>0 DEF NonceInv, DevInv, FinalizeSwap, Reveals, verify_host_secret
<1>2. d.session.flow = "swap" /\ HoldsSwap(d)
  BY <1>0, <1>1 DEF MsgInv, SwapTypes, Holding
<1>3. PICK key \in Keys : key = derive_private_swap_claim_key(d.key_id)
  BY <1>2, SigningAssumption DEF HoldsSwap, derive_private_swap_claim_key, Keys
<1>4. PICK x, g, t, s, a, u, v :
        /\ x = PointX(key) /\ g = d.message /\ t = d.adaptor_point /\ s = d.session /\ a = d.aux
        /\ u = m.secret
        /\ v = create_adaptor_presignature(key, g, t, SessionNumber(s), a, u).v
  OBVIOUS
<1>5. PICK k, w, p :
        Answered({Released(<<Even(x), g, a, t, s>>, x, <<x>>, g, v, s, u)},
                 [type |-> "swap_presig", session |-> s, key_id |-> k, x |-> x, token |-> w,
                  adaptor_point |-> t, message |-> g, nonce_point |-> p, presig |-> v])
  BY <1>1, <1>3, <1>4, Zenon DEF FinalizeSwap
<1>6. PICK rel, answer :
        /\ rel = Released(<<Even(x), g, a, t, s>>, x, <<x>>, g, v, s, u)
        /\ answer = [type |-> "swap_presig", session |-> s, key_id |-> k, x |-> x, token |-> w,
                     adaptor_point |-> t, message |-> g, nonce_point |-> p, presig |-> v]
        /\ Answered({rel}, answer)
  BY <1>5
<1>7. rel.base = <<Even(x), g, a, t, s>> /\ rel.sig = v /\ rel.session = s /\ rel.secret = u
  BY <1>6, ReleasedIs
<1>8. answer.type = "swap_presig" /\ answer.session = s /\ {"type", "session"} \subseteq DOMAIN answer
  BY <1>6
<1>9. MsgInv(answer)
  BY <1>2, <1>4, <1>8 DEF MsgInv, TxTypes, CovenantTypes, SwapTypes
<1>10. rel.base[3] \in 0 .. drawn
  BY <1>1, <1>4, <1>7 DEF Holding
<1>11. SwapBase(rel)
  <2>1. s.commitment = host_commitment(u)
    BY <1>1, <1>2, <1>4 DEF HoldsSwap
  <2>2. s.commitment[2] = u
    BY <2>1 DEF host_commitment
  <2>3. v = create_adaptor_presignature(x, g, t, SessionNumber(s), a, s.commitment[2]).v
    BY <1>4, <2>2, CreateByX
  <2> QED BY <1>7, <2>2, <2>3, Zenon DEF SwapBase
<1>12. \A b \in released : rel.base = b.base => OneUse(rel, b) /\ OneUse(b, rel)
  <2> SUFFICES ASSUME NEW b \in released, rel.base = b.base PROVE OneUse(rel, b) /\ OneUse(b, rel)
    OBVIOUS
  <2>1. FinalBase(b) \/ SwapBase(b)
    BY DEF NonceInv, RelInv
  <2> QED BY <1>11, <2>1, SwapBaseIs
<1>13. OneUse(rel, rel)
  BY Zenon DEF OneUse
<1> QED BY <1>6, <1>9, <1>10, <1>11, <1>12, <1>13, NonceAnswers

(* Distinct inputs have distinct sighashes. *)
LEMMA SighashInjective ==
  ASSUME NEW doc \in Docs, Len(doc.inputs) < Q,
         NEW i \in 1 .. Len(doc.inputs), NEW j \in 1 .. Len(doc.inputs),
         calculate_sighash(doc, i) = calculate_sighash(doc, j)
  PROVE  i = j
<1>1. PICK a \in Int : a = doc.id * 4
  BY DocIs
<1>2. PICK q \in Nat : q = Q /\ q > 0 /\ i \in 1 .. q - 1 /\ j \in 1 .. q - 1
  BY SchnorrAssumption, DocIs
<1>3. a + i \in Int /\ a + j \in Int
  BY <1>2
<1>4. PICK t \in Int, u \in Int, r \in Scalars : a + i = Q * t + r /\ a + j = Q * u + r
  <2>1. (a + i) % Q = (a + j) % Q /\ (a + i) % Q \in Scalars
    BY <1>1, <1>3, ModFacts DEF calculate_sighash
  <2>2. PICK t \in Int : a + i = Q * t + ((a + i) % Q)
    BY <1>3, ModFacts
  <2>3. PICK u \in Int : a + j = Q * u + ((a + j) % Q)
    BY <1>3, ModFacts
  <2> QED BY <2>1, <2>2, <2>3
<1>5. r \in Int
  BY ScalarsAreInts
<1>6. PICK e \in Int : e = t - u
  OBVIOUS
<1>7. i - j = q * e
  <2>1. q * t - q * u = q * (t - u)
    BY <1>2
  <2> QED BY <1>2, <1>4, <1>5, <1>6, <2>1
<1>8. e >= 1 => q * e >= q
  BY <1>2
<1>9. e <= -1 => q * e <= -q
  BY <1>2
<1>10. e = 0
  BY <1>2, <1>7, <1>8, <1>9
<1> QED BY <1>2, <1>7, <1>10

(* finalize_matching leaves the places and their keys alone. *)
PlacesKept(d, doc, counts, done) ==
  /\ d \in Docs /\ Len(d.inputs) = Len(doc.inputs) /\ Counted(d, counts)
  /\ Places(d, counts) = Places(doc, counts)
  /\ \A a \in Places(doc, counts) :
       /\ Slot(d, a).pk = Slot(doc, a).pk /\ d.inputs[a[1]].keys = doc.inputs[a[1]].keys
       /\ calculate_sighash(d, a[1]) = calculate_sighash(doc, a[1])
       /\ a \notin done => Slot(d, a) = Slot(doc, a)

LEMMA FinalPlaces ==
  ASSUME NEW doc \in Docs, NEW counts, Counted(doc, counts), NEW d, NEW done, NEW session,
         NEW secret, NEW keys, FinalDoc(d, doc, done, session, secret, keys)
  PROVE  PlacesKept(d, doc, counts, done)
<1>1. /\ d \in Docs /\ Len(d.inputs) = Len(doc.inputs) /\ d.id = doc.id
      /\ \A i \in 1 .. Len(doc.inputs) : Len(d.inputs[i].sigs) = Len(doc.inputs[i].sigs)
  BY DEF FinalDoc
<1>2. Counted(d, counts)
  BY <1>1 DEF Counted
<1>3. Places(d, counts) = Places(doc, counts)
  BY <1>1 DEF Places
<1>4. ASSUME NEW a \in Places(doc, counts)
      PROVE  /\ Slot(d, a).pk = Slot(doc, a).pk /\ d.inputs[a[1]].keys = doc.inputs[a[1]].keys
             /\ calculate_sighash(d, a[1]) = calculate_sighash(doc, a[1])
             /\ a \notin done => Slot(d, a) = Slot(doc, a)
  <2>1. PICK i, n : /\ i = a[1] /\ n = a[2] /\ a = <<i, n>> /\ i \in 1 .. Len(doc.inputs)
                    /\ n \in 1 .. Len(doc.inputs[i].sigs)
    BY PlaceIs
  <2>0. PICK old, now : old = doc.inputs[i].sigs[n] /\ now = d.inputs[i].sigs[n]
    OBVIOUS
  <2>2. now.pk = old.pk /\ (<<i, n>> \notin done => now = old)
    BY <2>0, <2>1, Zenon DEF FinalDoc
  <2>3. Slot(d, a) = now /\ Slot(doc, a) = old
    BY <2>0, <2>1 DEF Slot
  <2>4. calculate_sighash(d, i) = calculate_sighash(doc, i)
    BY <1>1 DEF calculate_sighash
  <2>5. d.inputs[i].keys = doc.inputs[i].keys
    BY <2>1, Zenon DEF FinalDoc
  <2> QED BY <2>1, <2>2, <2>3, <2>4, <2>5
<1> QED BY <1>1, <1>2, <1>3, <1>4 DEF PlacesKept

(* A slot signed without entropy is never finalized. *)
LEMMA ZeroSlotFails ==
  ASSUME NEW doc \in Docs, NEW counts, Counted(doc, counts), NEW a \in Places(doc, counts),
         ZeroSlot(doc, a), NEW session, NEW secret, NEW keys \in SUBSET DeviceKeys
  PROVE  finalize_signature_slot(doc, a, session, secret, keys).err # ""
<1> SUFFICES ASSUME finalize_signature_slot(doc, a, session, secret, keys).err = ""
             PROVE  FALSE
  OBVIOUS
<1>1. PICK g, sig, pk : /\ g = calculate_sighash(doc, a[1]) /\ pk = Slot(doc, a).pk
                        /\ sig = [r |-> Slot(doc, a).r, s |-> Slot(doc, a).s]
  OBVIOUS
<1>2. a[1] \in 1 .. Len(doc.inputs)
  BY PlaceIs
<1>3. PICK k \in keys :
        /\ Compressed(k) = pk
        /\ tweak_provisional_signature(k, g, sig, SessionNumber(session), secret, a[1], a[2]).err = ""
  <2>1. PICK f : f = finalize_signature_slot(doc, a, session, secret, keys) /\ f.err = ""
    OBVIOUS
  <2>2. PICK k \in keys :
          /\ Compressed(k) = Slot(doc, a).pk
          /\ f = tweak_provisional_signature(k, calculate_sighash(doc, a[1]),
                   [r |-> Slot(doc, a).r, s |-> Slot(doc, a).s], SessionNumber(session), secret, a[1], a[2])
    BY <1>2, <2>1, SlotFinalIs, ZenonT(60)
  <2> QED BY <1>1, <2>1, <2>2
<1>4. PICK j \in DeviceKeys : pk = Compressed(j) /\ schnorr_sign_with_aux_rand(j, g, 0) = Done(sig)
  BY <1>1 DEF ZeroSlot
<1>5. j \in Keys /\ k \in Keys /\ g \in Int
  BY <1>1, <1>2, <1>3, <1>4, DeviceKeysAreKeys, SighashIs
<1>6. PointX(k) = PointX(j)
  <2>1. Compressed(k)[2] = PointX(k) /\ Compressed(j)[2] = PointX(j)
    BY <1>5, CompressedIs
  <2> QED BY <1>3, <1>4, <2>1
<1> QED BY <1>3, <1>4, <1>5, <1>6, ZeroAuxRefused

(* One signature of a key in an input, or an address that is named twice. *)
KeysApart(doc, counts) ==
  \A a, b \in Places(doc, counts) :
    a[1] = b[1] /\ Slot(doc, a).pk = Slot(doc, b).pk => a = b \/ Repeats(doc, a)

(* What a finalized transaction releases: one signature of each place, and  *)
(* of each key unless an address is named twice.                            *)
OneOfEach(out, aux) ==
  /\ \A rel \in out : \E pk, g : rel.base = <<pk, g, aux>>
  /\ \A x, y \in out : x.base = y.base => OneUse(x, y)

LEMMA FinalSlotsAre ==
  ASSUME NEW d, NEW doc \in Docs, Counted(doc, d.counts), Len(doc.inputs) < Q,
         KeysApart(doc, d.counts), NEW secret
  PROVE  OneOfEach(FinalSlots(d, doc, secret), d.aux)
<1>1. PICK A : A = Added(doc, d.counts)
  OBVIOUS
<1>2. \A n \in DOMAIN A : A[n] \in Places(doc, d.counts)
  <2>1. ToSet(A) = Places(doc, d.counts)
    BY <1>1, AddedIs
  <2> QED BY <2>1 DEF ToSet
<1>3. ASSUME NEW rel \in FinalSlots(d, doc, secret)
      PROVE  \E a \in Places(doc, d.counts) :
               /\ rel.base = <<Slot(doc, a).pk, calculate_sighash(doc, a[1]), d.aux>>
               /\ rel.sig = [r |-> Slot(doc, a).r, s |-> Slot(doc, a).s]
               /\ rel.session = d.session /\ rel.secret = secret
               /\ NamedTwice(rel.x, rel.keys) <=> Repeats(doc, a)
  <2>1. PICK n \in DOMAIN A :
          rel = Released(<<Slot(doc, A[n]).pk, calculate_sighash(doc, A[n][1]), d.aux>>,
                         Slot(doc, A[n]).pk[2], doc.inputs[A[n][1]].keys, calculate_sighash(doc, A[n][1]),
                         [r |-> Slot(doc, A[n]).r, s |-> Slot(doc, A[n]).s], d.session, secret)
    BY <1>1 DEF FinalSlots
  <2>2. A[n] \in Places(doc, d.counts)
    BY <1>2
  <2>3. PICK base, x, keys, g, sig, s :
          /\ base = <<Slot(doc, A[n]).pk, calculate_sighash(doc, A[n][1]), d.aux>>
          /\ x = Slot(doc, A[n]).pk[2] /\ keys = doc.inputs[A[n][1]].keys /\ s = d.session
          /\ sig = [r |-> Slot(doc, A[n]).r, s |-> Slot(doc, A[n]).s]
          /\ rel = Released(base, x, keys, g, sig, s, secret)
    BY <2>1, Zenon
  <2>4. /\ rel.base = base /\ rel.x = x /\ rel.keys = keys /\ rel.sig = sig
        /\ rel.session = s /\ rel.secret = secret
    BY <2>3, ReleasedIs
  <2>5. NamedTwice(rel.x, rel.keys) <=> Repeats(doc, A[n])
    BY <2>3, <2>4 DEF Repeats
  <2> QED BY <2>2, <2>3, <2>4, <2>5
<1>4. ASSUME NEW x \in FinalSlots(d, doc, secret), NEW y \in FinalSlots(d, doc, secret), x.base = y.base
      PROVE  OneUse(x, y)
  <2>1. PICK a \in Places(doc, d.counts) :
               /\ x.base = <<Slot(doc, a).pk, calculate_sighash(doc, a[1]), d.aux>>
               /\ x.sig = [r |-> Slot(doc, a).r, s |-> Slot(doc, a).s]
               /\ x.session = d.session /\ x.secret = secret
               /\ NamedTwice(x.x, x.keys) <=> Repeats(doc, a)
    BY <1>3
  <2>2. PICK b \in Places(doc, d.counts) :
               /\ y.base = <<Slot(doc, b).pk, calculate_sighash(doc, b[1]), d.aux>>
               /\ y.sig = [r |-> Slot(doc, b).r, s |-> Slot(doc, b).s]
               /\ y.session = d.session /\ y.secret = secret
    BY <1>3
  <2>3. Slot(doc, a).pk = Slot(doc, b).pk /\ calculate_sighash(doc, a[1]) = calculate_sighash(doc, b[1])
    <3>1. PICK p, q, g, h, u : /\ p = Slot(doc, a).pk /\ q = Slot(doc, b).pk
                               /\ g = calculate_sighash(doc, a[1]) /\ h = calculate_sighash(doc, b[1])
                               /\ u = d.aux
      OBVIOUS
    <3>2. <<p, g, u>> = <<q, h, u>>
      BY <1>4, <2>1, <2>2, <3>1, Zenon
    <3>3. p = q /\ g = h
      BY ONLY <3>2
    <3> QED BY <3>1, <3>3
  <2>4. a[1] \in 1 .. Len(doc.inputs) /\ b[1] \in 1 .. Len(doc.inputs)
    BY PlaceIs
  <2>5. a[1] = b[1]
    BY <2>3, <2>4, SighashInjective
  <2>6. a = b \/ Repeats(doc, a)
    BY <2>3, <2>5, Zenon DEF KeysApart
  <2>7. x.sig = y.sig \/ NamedTwice(x.x, x.keys)
    BY <2>1, <2>2, <2>6
  <2>8. x.session = y.session /\ x.secret = y.secret
    BY <2>1, <2>2
  <2> QED BY <2>7, <2>8, Zenon DEF OneUse
<1>5. \A rel \in FinalSlots(d, doc, secret) : \E pk, g : rel.base = <<pk, g, d.aux>>
  BY <1>3, Zenon
<1> QED BY <1>4, <1>5 DEF OneOfEach

AllZero(doc, counts) == \A a \in Places(doc, counts) : ZeroSlot(doc, a)

StillHolds(f, doc, counts) ==
  /\ f.doc \in Docs /\ Len(f.doc.inputs) = Len(doc.inputs) /\ Counted(f.doc, counts)
  /\ Places(f.doc, counts) # {} /\ KeysApart(f.doc, counts)
  /\ AllZero(doc, counts) => f.err # "" /\ AllZero(f.doc, counts)

LEMMA FinalizeHolds ==
  ASSUME NEW doc \in Docs, NEW counts, Counted(doc, counts), NEW session, NEW secret,
         NEW keys \in SUBSET DeviceKeys, Places(doc, counts) # {}, KeysApart(doc, counts)
  PROVE  StillHolds(finalize_matching(doc, counts, session, secret, keys), doc, counts)
<1>1. PICK f : f = finalize_matching(doc, counts, session, secret, keys)
  OBVIOUS
<1>2. PICK at, failed, done : /\ at = Places(doc, counts)
                              /\ failed = FailedAt(doc, counts, session, secret, keys)
                              /\ done = DoneAt(doc, counts, session, secret, keys)
  OBVIOUS
<1>3. FinalDoc(f.doc, doc, done, session, secret, keys) /\ (f.err = "" <=> at # {} /\ failed = {})
  BY <1>1, <1>2, FinalizeIs, Zenon
<1>4. PICK d : d = f.doc
  OBVIOUS
<1>5. /\ d \in Docs /\ Len(d.inputs) = Len(doc.inputs) /\ Counted(d, counts)
      /\ Places(d, counts) = at
      /\ \A a \in at : /\ Slot(d, a).pk = Slot(doc, a).pk /\ d.inputs[a[1]].keys = doc.inputs[a[1]].keys
                       /\ calculate_sighash(d, a[1]) = calculate_sighash(doc, a[1])
                       /\ a \notin done => Slot(d, a) = Slot(doc, a)
  <2>1. PlacesKept(d, doc, counts, done)
    BY <1>3, <1>4, FinalPlaces, Zenon
  <2> QED BY <1>2, <2>1 DEF PlacesKept
<1>6. KeysApart(d, counts)
  <2>1. \A a \in at : Repeats(doc, a) <=> Repeats(d, a)
    BY <1>5 DEF Repeats
  <2> QED BY <1>2, <1>5, <2>1 DEF KeysApart
<1>7. ASSUME AllZero(doc, counts)
      PROVE  f.err # "" /\ AllZero(d, counts)
  <2>1. \A a \in at : finalize_signature_slot(doc, a, session, secret, keys).err # ""
    BY <1>2, <1>7, ZeroSlotFails DEF AllZero
  <2>2. failed = at
    BY <1>2, <2>1 DEF FailedAt
  <2>3. \A a \in at : ~Before(a, a)
    BY <1>2, BeforeIsOrder DEF Places
  <2>4. done = {}
    BY <1>2, <2>2, <2>3 DEF DoneAt
  <2>5. ASSUME NEW a \in at
        PROVE  ZeroSlot(d, a)
    <3>1. ZeroSlot(doc, a)
      BY <1>2, <1>7 DEF AllZero
    <3>2. Slot(d, a) = Slot(doc, a) /\ calculate_sighash(d, a[1]) = calculate_sighash(doc, a[1])
      BY <1>5, <2>4
    <3> QED BY <3>1, <3>2 DEF ZeroSlot
  <2> QED BY <1>2, <1>3, <1>5, <2>2, <2>5 DEF AllZero
<1> QED BY <1>1, <1>2, <1>4, <1>5, <1>6, <1>7 DEF StillHolds

LEMMA HoldsTxIs ==
  ASSUME NEW d
  PROVE  HoldsTx(d) <=> /\ {"session", "aux", "doc", "counts"} \subseteq DOMAIN d
                        /\ d.doc \in Docs /\ Len(d.doc.inputs) < Q /\ Counted(d.doc, d.counts)
                        /\ Places(d.doc, d.counts) # {} /\ KeysApart(d.doc, d.counts)
                        /\ d.aux = 0 => AllZero(d.doc, d.counts)
BY DEF HoldsTx, KeysApart, AllZero

LEMMA NonceFinalizeTx ==
  ASSUME NonceInv, NEW m \in net, NEW keys \in SUBSET DeviceKeys, FinalizeTx(m, keys)
  PROVE  NonceInv'
<1>0. MsgInv(m) /\ m.type = "tx_reveal" /\ dev # None
  BY DEF NonceInv, NetInv, FinalizeTx, Reveals
<1>1. PICK d : d = dev[1] /\ Holding(d, released, drawn) /\ d.session = m.session
  BY <1>0 DEF NonceInv, DevInv, FinalizeTx, Reveals
<1>2. d.session.flow = "tx" /\ HoldsTx(d)
  BY <1>0, <1>1 DEF MsgInv, TxTypes, Holding
<1>3. PICK doc, counts, u, s :
        /\ doc = d.doc /\ counts = d.counts /\ u = m.secret /\ s = m.session
        /\ doc \in Docs /\ Counted(doc, counts) /\ Places(doc, counts) # {} /\ Len(doc.inputs) < Q
        /\ KeysApart(doc, counts) /\ (d.aux = 0 => AllZero(doc, counts))
        /\ {"session", "aux", "doc", "counts"} \subseteq DOMAIN d
  BY <1>2, HoldsTxIs
<1>4. PICK f, now : f = finalize_matching(doc, counts, s, u, keys) /\ now = f.doc
  OBVIOUS
<1>5. /\ now \in Docs /\ Len(now.inputs) = Len(doc.inputs) /\ Counted(now, counts)
      /\ Places(now, counts) # {} /\ KeysApart(now, counts)
      /\ AllZero(doc, counts) => f.err # "" /\ AllZero(now, counts)
  <2>1. StillHolds(f, doc, counts)
    BY <1>3, <1>4, FinalizeHolds, Zenon
  <2> QED BY <1>4, <2>1 DEF StillHolds
<1>8. CASE f.err = ""
  <2>1. d.aux # 0
    BY <1>3, <1>5, <1>8
  <2>2. PICK out, answer, g, p, w, t :
          /\ out = FinalSlots(d, now, u)
          /\ answer = [type |-> "tx_signed", session |-> s, digest |-> g, proofs |-> p, doc |-> w,
                       retried |-> t]
          /\ Answered(out, answer)
    BY <1>1, <1>3, <1>4, <1>8, Zenon DEF FinalizeTx
  <2>3. answer.type = "tx_signed" /\ answer.session = s /\ {"type", "session"} \subseteq DOMAIN answer
    BY <2>2
  <2>4. MsgInv(answer)
    BY <1>1, <1>2, <1>3, <2>3 DEF MsgInv, TxTypes, CovenantTypes, SwapTypes
  <2>5. /\ \A rel \in out : \E pk, h : rel.base = <<pk, h, d.aux>>
        /\ \A x, y \in out : x.base = y.base => OneUse(x, y)
    <3>1. Len(now.inputs) < Q
      BY <1>3, <1>5
    <3>2. OneOfEach(out, d.aux)
      BY <1>3, <1>5, <2>2, <3>1, FinalSlotsAre, Zenon
    <3> QED BY <3>2 DEF OneOfEach
  <2>6. \A rel \in out : rel.base[3] = d.aux /\ FinalBase(rel)
    <3> SUFFICES ASSUME NEW rel \in out PROVE rel.base[3] = d.aux /\ FinalBase(rel)
      OBVIOUS
    <3>1. PICK pk, h, a : a = d.aux /\ rel.base = <<pk, h, a>>
      BY <2>5
    <3>2. rel.base[3] = a
      BY ONLY <3>1
    <3> QED BY <2>1, <3>1, <3>2 DEF FinalBase
  <2>7. d.aux \in 0 .. drawn /\ \A b \in released : b.base[3] # d.aux
    BY <1>1, <2>1 DEF Holding
  <2>8. \A a \in out, b \in released : a.base # b.base
    BY <2>6, <2>7
  <2> QED BY <2>2, <2>4, <2>5, <2>6, <2>7, <2>8, NonceAnswers
<1>9. CASE f.err # ""
  <2>1. PICK e : /\ e = [d EXCEPT !.doc = now, !.tries = 1] /\ dev' = <<e>>
                 /\ UNCHANGED <<scene, net, drawn, released>>
    BY <1>1, <1>3, <1>4, <1>9 DEF FinalizeTx, Some
  <2>3. /\ e.session = d.session /\ e.aux = d.aux /\ e.doc = now /\ e.counts = counts
        /\ DOMAIN e = DOMAIN d
    BY <1>3, <2>1
  <2>5. HoldsTx(e)
    BY <1>3, <1>5, <2>3, HoldsTxIs
  <2>6. Holding(e, released, drawn)
    BY <1>1, <1>2, <2>3, <2>5 DEF Holding
  <2>7. DevInv'
    BY <2>1, <2>6 DEF DevInv
  <2> QED BY <2>1, <2>7 DEF NonceInv, NetInv, RelInv, NonceSignsOnce
<1> QED BY <1>8, <1>9

(* Whatever accounts or single key the caller names, they are the device's. *)
CallersKeys == { KeysOf(accounts) : accounts \in SUBSET Accounts } \cup { {k} : k \in DeviceKeys }

LEMMA CallersKeysAre ==
  ASSUME NEW keys \in CallersKeys
  PROVE  keys \in SUBSET DeviceKeys
<1>1. CASE \E accounts \in SUBSET Accounts : keys = KeysOf(accounts)
  <2>1. PICK accounts \in SUBSET Accounts : keys = KeysOf(accounts)
    BY <1>1
  <2>2. ASSUME NEW k \in keys
        PROVE  k \in DeviceKeys
    <3>1. PICK a \in accounts : k \in {a.key} \cup a.derived
      BY <2>1, <2>2, Zenon DEF KeysOf
    <3>2. a \in Accounts
      BY <3>1, <2>1
    <3> QED BY <3>1, <3>2, AccountKeys, Zenon
  <2> QED BY <2>2, Zenon
<1>2. CASE \E k \in DeviceKeys : keys = {k}
  BY <1>2, Zenon
<1> QED BY <1>1, <1>2, Zenon DEF CallersKeys

LEMMA NonceStep == NonceInv /\ [Next]_vars => NonceInv'
<1> SUFFICES ASSUME NonceInv, [Next]_vars PROVE NonceInv'
  OBVIOUS
<1>1. ASSUME NEW req \in scene, NEW secret \in Secrets, HostAsks(req, secret)
      PROVE  NonceInv'
  BY <1>1, NonceAsks
<1>2. ASSUME NEW ask \in asks, NEW m \in net, HostReveals(ask, m)
      PROVE  NonceInv'
  BY <1>2, NonceReveals
<1>3. ASSUME NEW m \in net, NEW aux \in Entropy, DeviceSigns(m, aux)
      PROVE  NonceInv'
  BY <1>3, NonceSignTx, NonceSignCovenant, NoncePreSign DEF DeviceSigns
<1>4. ASSUME NEW m \in net, DeviceFinalizes(m)
      PROVE  NonceInv'
  <2>1. CASE \E keys \in CallersKeys : FinalizeTx(m, keys)
    <3>1. PICK keys \in CallersKeys : FinalizeTx(m, keys)
      BY <2>1
    <3>2. keys \in SUBSET DeviceKeys
      BY <3>1, CallersKeysAre
    <3> QED BY <3>1, <3>2, NonceFinalizeTx
  <2>2. CASE FinalizeCovenant(m)
    BY <2>2, NonceFinalizeCovenant
  <2>3. CASE FinalizeSwap(m)
    BY <2>3, NonceFinalizeSwap
  <2>4. \/ \E keys \in CallersKeys : FinalizeTx(m, keys)
        \/ FinalizeCovenant(m) \/ FinalizeSwap(m)
    BY <1>4, Zenon DEF DeviceFinalizes, CallersKeys
  <2> QED BY <2>1, <2>2, <2>3, <2>4
<1>5. ASSUME NEW req \in scene, DeviceBinds(req)
      PROVE  NonceInv'
  BY <1>5, NonceBinds
<1>6. ASSUME NEW m \in net, NEW instance \in DOMAIN Hierarchy.adaptor, DeviceCompletes(m, instance)
      PROVE  NonceInv'
  BY <1>6, NonceCompletes
<1>7. CASE Restart
  BY <1>7, NonceRestart
<1>8. ASSUME NEW m \in net, NEW other \in net, Splice(m, other)
      PROVE  NonceInv'
  BY <1>8, NonceSplice
<1>9. CASE UNCHANGED vars
  BY <1>9 DEF vars, NonceInv, NetInv, DevInv, RelInv, NonceSignsOnce
<1> QED BY <1>1, <1>2, <1>3, <1>4, <1>5, <1>6, <1>7, <1>8, <1>9 DEF Next

(***************************************************************************)
(* No nonce is used in two sessions or with two host secrets, and it makes *)
(* one signature unless a script names an address of the device twice      *)
(* (NonceSignsOnce), for any group order, hash, keys, documents and        *)
(* bounds: entropy is fresh in every session, a session ends with its      *)
(* first answer (kspt/signing/anti_klepto), a provisional signature made   *)
(* without entropy is refused (provisional_nonce in crypto/anti_klepto.rs) *)
(* and an account signs a script at one position (account_positions in     *)
(* kspt/signing/multisig.rs), whatever restarts, retries or messages reach *)
(* the device.                                                             *)
(***************************************************************************)
THEOREM NonceNeverReused == Spec => []NonceSignsOnce
<1>1. NonceInv => NonceSignsOnce
  BY DEF NonceInv
<1> QED BY <1>1, NonceInit, NonceStep, PTL DEF Spec

-----------------------------------------------------------------------------
(* The device's own answers verify. *)

LEMMA EvenIs ==
  ASSUME NEW x
  PROVE  Even(x)[1] = 2 /\ Even(x)[2] = x /\ PointOf(Even(x)) = x
BY DEF Even, PointOf

(* The nonce tweak_provisional_signature combines is the one the signature *)
(* of schnorr_sign_with_aux_rand committed to.                             *)
LEMMA TweakRelation ==
  ASSUME NEW key \in Keys, NEW message \in Int, NEW aux, NEW sig,
         schnorr_sign_with_aux_rand(key, message, aux) = Done(sig),
         NEW other \in Keys, PointX(other) = PointX(key),
         NEW session, NEW secret, NEW i, NEW slot,
         tweak_provisional_signature(other, message, sig, session, secret, i, slot).err = ""
  PROVE  verify_nonce_relation(Even(sig.r),
           tweak_provisional_signature(other, message, sig, session, secret, i, slot).v,
           session, secret, i, slot, Even(PointX(other)))
<1>0. /\ schnorr_sign_with_aux_rand(key, message, aux).err = ""
      /\ schnorr_sign_with_aux_rand(key, message, aux).v = sig
  BY DoneIs
<1>1. PICK x \in Canonical : x = PointX(key)
  BY KeysAreScalars, PointXIs DEF Keys
<1>2. x \in Scalars
  BY CanonicalIs
<1>3. PICK k0 \in Scalars : k0 = AuxNonce(x, x, message, aux) /\ k0 # 0
  BY <1>0, <1>1, SignIs
<1>4. PICK k \in Canonical : k = PointX(k0)
  BY <1>3, PointXIs
<1>5. k \in Scalars /\ k # 0
  BY CanonicalIs
<1>6. PICK u \in Scalars : u = Mul(challenge(k, x, message), x)
  <2>1. challenge(k, x, message) \in Scalars
    BY ChallengeScalar
  <2>2. Mul(challenge(k, x, message), x) \in Scalars
    BY <1>2, <2>1, ScalarsAreInts, MulScalar
  <2> QED BY <2>2
<1>7. sig.r = k /\ sig.s = Add(k, u)
  <2>1. sig = [r |-> k, s |-> Add(k, u)]
    BY <1>0, <1>1, <1>3, <1>4, <1>6, SignIs
  <2> QED BY <2>1
<1>8. Add(sig.s, Neg(Mul(challenge(sig.r, x, message), x))) = k
  BY <1>5, <1>6, <1>7, RecoverNonce
<1> DEFINE n == provisional_nonce(sig, x, x, message)
           h == host_scalar(session, secret, i, slot, Even(x), Even(sig.r))
           c == Add(n.v, h)
           last == [r |-> PointX(c), s |-> Add(PointX(c), Mul(challenge(PointX(c), x, message), x))]
           final == tweak_provisional_signature(other, message, sig, session, secret, i, slot)
<1>9. final = IF other = 0 THEN Fail("InvalidPrivateKey")
              ELSE IF n.err # "" THEN n
              ELSE IF h = 0 \/ c = 0 THEN Fail("InvalidHostContribution")
              ELSE IF ~schnorr_verify(x, message, last) THEN Fail("InvalidFinalSignature")
              ELSE Done(last)
  BY <1>1 DEF tweak_provisional_signature, normalized_secret
<1>10. n.err = "" /\ h # 0 /\ c # 0 /\ final.v = last
  <2> HIDE DEF n, h, c, last, final
  <2>1. final.err = ""
    BY DEF final
  <2>2. \A why : Fail(why).err = why
    BY FailIs, Zenon
  <2>3. Done(last).v = last
    BY DoneIs
  <2> QED BY <1>9, <2>1, <2>2, <2>3
<1>11. n.v = k
  <2>1. n = Done(k)
    <3>1. \/ n = Fail("InvalidProvisionalSignature") \/ n = Fail("ReusableProvisionalNonce")
          \/ n = Done(k)
      BY <1>8 DEF provisional_nonce
    <3> HIDE DEF n
    <3>2. /\ Fail("InvalidProvisionalSignature").err = "InvalidProvisionalSignature"
          /\ Fail("ReusableProvisionalNonce").err = "ReusableProvisionalNonce"
      BY FailIs, Zenon
    <3>3. n # Fail("InvalidProvisionalSignature") /\ n # Fail("ReusableProvisionalNonce")
      BY <1>10, <3>2
    <3> QED BY <3>1, <3>3
  <2> HIDE DEF n
  <2> QED BY <2>1, DoneIs
<1>12. last.r = PointX(c)
  OBVIOUS
<1>13. /\ Even(k)[1] = 2 /\ Even(k)[2] = k /\ Even(x)[1] = 2 /\ Even(x)[2] = x
       /\ PointOf(Even(k)) = k
  BY EvenIs, Zenon
<1> HIDE DEF n, last, final
<1>14. PICK e, p : e = Even(k) /\ p = Even(x) /\ h = host_scalar(session, secret, i, slot, p, e)
  BY <1>7
<1>15. c = Add(PointOf(e), h)
  BY <1>11, <1>13, <1>14
<1> HIDE DEF h, c
<1>16. verify_nonce_relation(e, final.v, session, secret, i, slot, p)
  BY <1>10, <1>12, <1>13, <1>14, <1>15 DEF verify_nonce_relation
<1> QED BY <1>1, <1>7, <1>14, <1>16 DEF final

(* The sum of a pre-signature and its adaptor, and back. *)
LEMMA AdaptorSum ==
  ASSUME NEW r \in Scalars, NEW t \in Scalars, NEW u \in Scalars
  PROVE  /\ Add(Add(Add(r, Neg(t)), u), t) = Add(r, u)
         /\ Add(Add(r, u), Neg(Add(Add(r, Neg(t)), u))) = t
<1>1. PICK q \in Nat : q = Q /\ r \in 0 .. q - 1 /\ t \in 0 .. q - 1 /\ u \in 0 .. q - 1
  BY SchnorrAssumption DEF Scalars
<1>2. PICK a \in Scalars : a = Neg(t) /\ a = (IF t = 0 THEN 0 ELSE q - t)
  BY <1>1, NegIs
<1>3. PICK b \in Scalars : b = Add(r, a) /\ b = (IF r + a < q THEN r + a ELSE r + a - q)
  BY <1>1, AddIs
<1>4. PICK c \in Scalars : c = Add(b, u) /\ c = (IF b + u < q THEN b + u ELSE b + u - q)
  BY <1>1, AddIs
<1>5. PICK d \in Scalars : d = Add(r, u) /\ d = (IF r + u < q THEN r + u ELSE r + u - q)
  BY <1>1, AddIs
<1>6. Add(c, t) = IF c + t < q THEN c + t ELSE c + t - q
  BY <1>1, AddIs
<1>7. PICK e \in Scalars : e = Neg(c) /\ e = (IF c = 0 THEN 0 ELSE q - c)
  BY <1>1, NegIs
<1>8. Add(d, e) = IF d + e < q THEN d + e ELSE d + e - q
  BY <1>1, AddIs
<1>9. \A z \in Scalars : z \in 0 .. q - 1
  BY <1>1 DEF Scalars
<1>10. Add(c, t) = d
  BY <1>1, <1>2, <1>3, <1>4, <1>5, <1>6, <1>9
<1>11. Add(d, e) = t
  <2>1. d = IF c + t < q THEN c + t ELSE c + t - q
    BY <1>6, <1>10
  <2> QED BY <1>1, <1>7, <1>8, <1>9, <2>1
<1> QED BY <1>2, <1>3, <1>4, <1>5, <1>7, <1>10, <1>11

LEMMA NegNeg ==
  ASSUME NEW a \in Scalars
  PROVE  Neg(Neg(a)) = a /\ (a # 0 => Neg(a) # 0) /\ Neg(a) \in Scalars
<1>1. PICK q \in Nat : q = Q /\ a \in 0 .. q - 1
  BY SchnorrAssumption DEF Scalars
<1>2. PICK b \in Scalars : b = Neg(a) /\ b = (IF a = 0 THEN 0 ELSE q - a)
  BY <1>1, NegIs
<1>3. Neg(b) = IF b = 0 THEN 0 ELSE q - b
  BY <1>1, NegIs
<1>4. b \in 0 .. q - 1
  BY <1>1 DEF Scalars
<1> QED BY <1>1, <1>2, <1>3, <1>4

(* With the adaptor secret a pre-signature becomes a signature, which gives *)
(* the secret back.                                                         *)
Completes(x, message, presig, t) ==
  LET f == complete_adaptor_presignature(presig, t)
  IN verify_adaptor_presignature(x, message, presig, t) /\ f.v.s # 0
       => schnorr_verify(x, message, f.v) /\ extract_adaptor_secret(f.v, presig) = Done(t)

LEMMA CompletesIs ==
  ASSUME NEW x, NEW message \in Int, NEW presig, NEW t \in Canonical
  PROVE  Completes(x, message, presig, t)
<1> SUFFICES ASSUME verify_adaptor_presignature(x, message, presig, t),
                    complete_adaptor_presignature(presig, t).v.s # 0
             PROVE  LET v == complete_adaptor_presignature(presig, t).v
                    IN schnorr_verify(x, message, v) /\ extract_adaptor_secret(v, presig) = Done(t)
  BY Zenon DEF Completes
<1>1. PICK r \in Canonical : r = presig.r /\ x \in Canonical
  BY DEF verify_adaptor_presignature
<1>2. r \in Scalars /\ x \in Scalars /\ t \in Scalars /\ t # 0
  BY <1>1, CanonicalIs
<1>3. PICK u \in Scalars : u = Mul(challenge(r, x, message), x)
  <2>1. challenge(r, x, message) \in Scalars
    BY ChallengeScalar
  <2>2. Mul(challenge(r, x, message), x) \in Scalars
    BY <1>2, <2>1, ScalarsAreInts, MulScalar
  <2> QED BY <2>2
<1>4. PICK w \in Scalars : w = SignedAdaptor(presig, t) /\ w # 0
  BY <1>2, NegNeg DEF SignedAdaptor
<1>5. PICK p : p = presig.s /\ p = Add(Add(r, Neg(w)), u)
  BY <1>1, <1>3, <1>4 DEF verify_adaptor_presignature
<1>6. PICK v : v = complete_adaptor_presignature(presig, t).v /\ v = [r |-> r, s |-> Add(p, w)]
  <2>1. complete_adaptor_presignature(presig, t) = Done([r |-> r, s |-> Add(p, w)])
    BY <1>1, <1>2, <1>4, <1>5 DEF complete_adaptor_presignature
  <2> QED BY <2>1, DoneIs
<1>7. Add(p, w) = Add(r, u) /\ Add(Add(r, u), Neg(p)) = w
  BY <1>2, <1>5, AdaptorSum
<1>8. v.r = r /\ v.s = Add(r, u)
  BY <1>6, <1>7
<1>9. v.s # 0
  BY <1>6
<1>10. schnorr_verify(x, message, v)
  BY <1>1, <1>3, <1>8, <1>9 DEF schnorr_verify
<1>11. SignedAdaptor(presig, w) = t
  BY <1>2, <1>4, NegNeg DEF SignedAdaptor
<1>12. extract_adaptor_secret(v, presig) = Done(t)
  <2>1. Add(v.s, Neg(presig.s)) = w
    BY <1>5, <1>7, <1>8
  <2> QED BY <1>1, <1>4, <1>8, <1>11, <2>1 DEF extract_adaptor_secret
<1> QED BY <1>6, <1>10, <1>12

(* The nonce of a pre-signature is the host's and the device's together. *)
LEMMA PointOfCompressed ==
  ASSUME NEW k \in Scalars
  PROVE  PointOf(Compressed(k)) = k /\ (k # 0 => Compressed(k)[2] \in Canonical)
<1>1. Compressed(k)[1] = (IF Odd(k) THEN 3 ELSE 2) /\ Compressed(k)[2] = PointX(k)
  BY DEF Compressed
<1>2. CASE Odd(k)
  <2>1. PointX(k) = Neg(k)
    BY <1>2 DEF PointX
  <2>2. PointOf(Compressed(k)) = Neg(PointX(k))
    BY <1>1, <1>2 DEF PointOf
  <2> QED BY <1>1, <2>1, <2>2, NegNeg, PointXIs
<1>3. CASE ~Odd(k)
  <2>1. PointX(k) = k
    BY <1>3 DEF PointX
  <2>2. PointOf(Compressed(k)) = PointX(k)
    BY <1>1, <1>3 DEF PointOf
  <2> QED BY <1>1, <2>1, <2>2, PointXIs
<1> QED BY <1>2, <1>3

LEMMA RecoverAdaptor ==
  ASSUME NEW c \in Scalars, NEW t \in Scalars
  PROVE  LET R == Add(c, t)
         IN /\ R \in Scalars /\ Add(R, Neg(t)) = c
            /\ Neg(Add(Neg(R), Neg(Neg(t)))) = c
<1>1. PICK q \in Nat : q = Q /\ c \in 0 .. q - 1 /\ t \in 0 .. q - 1
  BY SchnorrAssumption DEF Scalars
<1>2. PICK R \in Scalars : R = Add(c, t) /\ R = (IF c + t < q THEN c + t ELSE c + t - q)
  BY <1>1, AddIs
<1>3. PICK a \in Scalars : a = Neg(t) /\ a = (IF t = 0 THEN 0 ELSE q - t)
  BY <1>1, NegIs
<1>4. Add(R, a) = IF R + a < q THEN R + a ELSE R + a - q
  BY <1>1, AddIs
<1>5. PICK b \in Scalars : b = Neg(R) /\ b = (IF R = 0 THEN 0 ELSE q - R)
  BY <1>1, NegIs
<1>6. PICK d \in Scalars : d = Add(b, t) /\ d = (IF b + t < q THEN b + t ELSE b + t - q)
  BY <1>1, AddIs
<1>7. Neg(d) = IF d = 0 THEN 0 ELSE q - d
  BY <1>1, NegIs
<1>8. \A z \in Scalars : z \in 0 .. q - 1
  BY <1>1 DEF Scalars
<1>9. Add(R, a) = c
  BY <1>1, <1>2, <1>3, <1>4, <1>8
<1>10. Neg(d) = c
  BY <1>1, <1>2, <1>5, <1>6, <1>7, <1>8
<1>11. Neg(Neg(t)) = t
  BY NegNeg
<1> QED BY <1>2, <1>3, <1>5, <1>6, <1>9, <1>10, <1>11

LEMMA PreSignRelation ==
  ASSUME NEW key \in Keys, NEW message, NEW point, NEW session, NEW aux, NEW secret,
         create_adaptor_presignature(key, message, point, session, aux, secret).err = ""
  PROVE  verify_host_nonce_relation(PointX(key), message, point, session, secret,
           adaptor_base_nonce_point(key, message, point, session, aux).v,
           create_adaptor_presignature(key, message, point, session, aux, secret).v)
<1> DEFINE x  == PointX(key)
           k  == base_nonce_scalar(x, x, message, point, session, aux)
           h  == adaptor_host_scalar(session, secret, x, Compressed(k), message, point)
           c  == Add(k, h)
           R  == Add(c, point)
           n  == IF Odd(R) THEN Neg(c) ELSE c
           presig == [r |-> PointX(R), s |-> Add(n, Mul(challenge(PointX(R), x, message), x)),
                      negated |-> Odd(R)]
           f == create_adaptor_presignature(key, message, point, session, aux, secret)
<1>1. f = IF key = 0 THEN Fail("InvalidPrivateKey")
          ELSE IF point \notin Canonical THEN Fail("InvalidAdaptorPoint")
          ELSE IF k = 0 \/ R = 0 THEN Fail("InvalidNonce")
          ELSE IF h = 0 \/ c = 0 THEN Fail("InvalidHostContribution")
          ELSE IF ~verify_adaptor_presignature(x, message, presig, point)
               THEN Fail("InvalidPreSignature")
          ELSE Done(presig)
  BY DEF create_adaptor_presignature, normalized_secret
<1>2. f.err = ""
  OBVIOUS
<1>3. presig.r = PointX(R) /\ presig.negated = Odd(R)
  OBVIOUS
<1>4. k \in Scalars /\ h \in Scalars
  BY MixScalar DEF base_nonce_scalar, adaptor_host_scalar
<1>5. c = Add(k, h) /\ R = Add(c, point) /\ h = adaptor_host_scalar(session, secret, x, Compressed(k), message, point)
  OBVIOUS
<1>6. adaptor_base_nonce_point(key, message, point, session, aux) =
        IF key = 0 THEN Fail("InvalidPrivateKey")
        ELSE IF point \notin Canonical THEN Fail("InvalidAdaptorPoint")
        ELSE IF k = 0 THEN Fail("InvalidNonce") ELSE Done(Compressed(k))
  BY DEF adaptor_base_nonce_point, normalized_secret
<1>0. x = PointX(key) /\ f = create_adaptor_presignature(key, message, point, session, aux, secret)
  OBVIOUS
<1> HIDE DEF x, k, h, c, R, presig, f
<1>7. /\ f # Fail("InvalidPrivateKey") /\ f # Fail("InvalidAdaptorPoint") /\ f # Fail("InvalidNonce")
      /\ f # Fail("InvalidHostContribution") /\ f # Fail("InvalidPreSignature")
  <2> DEFINE whys == {"InvalidPrivateKey", "InvalidAdaptorPoint", "InvalidNonce",
                      "InvalidHostContribution", "InvalidPreSignature"}
  <2> SUFFICES \A why \in whys : f # Fail(why)
    OBVIOUS
  <2>1. \A why \in whys : Fail(why).err = why /\ why # ""
    BY FailIs
  <2> HIDE DEF whys
  <2> QED BY <1>2, <2>1
<1>8. /\ key # 0 /\ point \in Canonical /\ k # 0 /\ R # 0 /\ h # 0
      /\ verify_adaptor_presignature(x, message, presig, point) /\ f = Done(presig)
  BY <1>1, <1>7, Zenon
<1>9. f.v = presig
  BY <1>8, DoneIs
<1>10. adaptor_base_nonce_point(key, message, point, session, aux).v = Compressed(k)
  <2>1. adaptor_base_nonce_point(key, message, point, session, aux) = Done(Compressed(k))
    BY <1>6, <1>8
  <2> QED BY <2>1, DoneIs
<1>11. c \in Scalars /\ point \in Scalars /\ presig.r \in Canonical
  BY <1>4, <1>5, <1>8, AddIs, CanonicalIs DEF verify_adaptor_presignature
<1>12. /\ R \in Scalars /\ Add(R, Neg(point)) = c
       /\ Neg(Add(Neg(R), Neg(Neg(point)))) = c
  BY <1>5, <1>11, RecoverAdaptor
<1>13. PICK r : r = Add(presig.r, Neg(SignedAdaptor(presig, point)))
  OBVIOUS
<1>14. (IF presig.negated THEN Neg(r) ELSE r) = c
  BY <1>3, <1>12, <1>13 DEF SignedAdaptor, PointX
<1>15. PointOf(Compressed(k)) = k /\ Compressed(k)[2] \in Canonical
  BY <1>4, <1>8, PointOfCompressed
<1>16. verify_host_nonce_relation(x, message, point, session, secret, Compressed(k), presig)
  BY <1>5, <1>8, <1>11, <1>13, <1>14, <1>15 DEF verify_host_nonce_relation
<1> QED BY <1>0, <1>9, <1>10, <1>16

(* A document over the wire, and what the host compares of two documents. *)
SameBody(w, d) ==
  /\ w \in Docs /\ w.id = d.id /\ Len(w.inputs) = Len(d.inputs)
  /\ \A i \in 1 .. Len(d.inputs) : /\ w.inputs[i].kind = d.inputs[i].kind
                                   /\ w.inputs[i].keys = d.inputs[i].keys

WireDoc(w, d) ==
  /\ SameBody(w, d)
  /\ \A i \in 1 .. Len(d.inputs) :
       /\ Len(w.inputs[i].sigs) = Len(d.inputs[i].sigs)
       /\ \A n \in 1 .. Len(d.inputs[i].sigs) :
            /\ w.inputs[i].sigs[n].pos = d.inputs[i].sigs[n].pos /\ w.inputs[i].sigs[n].pk = NoKey
            /\ w.inputs[i].sigs[n].r = d.inputs[i].sigs[n].r
            /\ w.inputs[i].sigs[n].s = d.inputs[i].sigs[n].s

LEMMA WireIs ==
  ASSUME NEW d \in Docs
  PROVE  WireDoc(Wire(d), d)
<1>1. PICK N \in Nat : N = Len(d.inputs)
  BY DocIs
<1>2. PICK ins, w : /\ ins = [i \in 1 .. N |-> [d.inputs[i] EXCEPT !.sigs =
                               [n \in 1 .. Len(@) |-> [@[n] EXCEPT !.pk = NoKey]]]]
                    /\ w = [d EXCEPT !.inputs = ins] /\ w = Wire(d)
  BY <1>1 DEF Wire
<1>3. ASSUME NEW i \in 1 .. N
      PROVE  /\ ins[i] \in Inputs /\ ins[i].kind = d.inputs[i].kind /\ ins[i].keys = d.inputs[i].keys
             /\ Len(ins[i].sigs) = Len(d.inputs[i].sigs)
             /\ \A n \in 1 .. Len(d.inputs[i].sigs) :
                  /\ ins[i].sigs[n].pos = d.inputs[i].sigs[n].pos /\ ins[i].sigs[n].pk = NoKey
                  /\ ins[i].sigs[n].r = d.inputs[i].sigs[n].r /\ ins[i].sigs[n].s = d.inputs[i].sigs[n].s
  <2>1. PICK inp \in Inputs, L \in Nat : inp = d.inputs[i] /\ L = Len(inp.sigs)
    BY <1>1, DocIs
  <2>2. PICK sl : sl = [n \in 1 .. L |-> [inp.sigs[n] EXCEPT !.pk = NoKey]]
    OBVIOUS
  <2>3. ins[i] = [inp EXCEPT !.sigs = sl]
    BY <1>2, <2>1, <2>2
  <2>4. \A n \in 1 .. L : inp.sigs[n] \in Slots
    BY <2>1 DEF Inputs
  <2>5. \A n \in 1 .. L : /\ sl[n] \in Slots /\ sl[n].pos = inp.sigs[n].pos /\ sl[n].pk = NoKey
                          /\ sl[n].r = inp.sigs[n].r /\ sl[n].s = inp.sigs[n].s
    BY <2>2, <2>4 DEF Slots, NoKey
  <2>6. sl \in Seq(Slots) /\ Len(sl) = L
    <3>1. sl \in [1 .. L -> Slots]
      BY <2>2, <2>5
    <3> QED BY <3>1, FunctionIsSeq
  <2>7. /\ ins[i] \in Inputs /\ ins[i].sigs = sl /\ ins[i].kind = inp.kind /\ ins[i].keys = inp.keys
    BY <2>3, <2>6 DEF Inputs
  <2> QED BY <2>1, <2>5, <2>6, <2>7
<1>4. ins \in Seq(Inputs) /\ Len(ins) = N
  <2>1. ins \in [1 .. N -> Inputs]
    BY <1>2, <1>3
  <2> QED BY <2>1, FunctionIsSeq
<1>5. w \in Docs /\ w.id = d.id /\ w.inputs = ins
  BY <1>2, <1>4 DEF Docs
<1>6. WireDoc(w, d)
  BY <1>1, <1>3, <1>4, <1>5 DEF WireDoc, SameBody
<1> QED BY <1>2, <1>6

LEMMA AddedSame ==
  ASSUME NEW d, NEW w, NEW counts, Len(w.inputs) = Len(d.inputs),
         \A i \in 1 .. Len(d.inputs) : Len(w.inputs[i].sigs) = Len(d.inputs[i].sigs)
  PROVE  Added(w, counts) = Added(d, counts)
<1>1. [i \in 1 .. Len(w.inputs) |-> [n \in 1 .. Len(w.inputs[i].sigs) - counts[i] |-> <<i, counts[i] + n>>]]
        = [i \in 1 .. Len(d.inputs) |-> [n \in 1 .. Len(d.inputs[i].sigs) - counts[i] |-> <<i, counts[i] + n>>]]
  OBVIOUS
<1> QED BY <1>1 DEF Added

LEMMA UnsignedSame ==
  ASSUME NEW d \in Docs, NEW w, SameBody(w, d)
  PROVE  Unsigned(w) = Unsigned(d)
<1>1. ASSUME NEW x \in Docs
      PROVE  Unsigned(x) = [id |-> x.id, inputs |-> [i \in 1 .. Len(x.inputs) |->
                              [kind |-> x.inputs[i].kind, keys |-> x.inputs[i].keys, sigs |-> <<>>]]]
  <2>1. \A i \in 1 .. Len(x.inputs) :
          [x.inputs[i] EXCEPT !.sigs = <<>>]
            = [kind |-> x.inputs[i].kind, keys |-> x.inputs[i].keys, sigs |-> <<>>]
    <3> SUFFICES ASSUME NEW i \in 1 .. Len(x.inputs)
                 PROVE  [x.inputs[i] EXCEPT !.sigs = <<>>]
                          = [kind |-> x.inputs[i].kind, keys |-> x.inputs[i].keys, sigs |-> <<>>]
      OBVIOUS
    <3>1. PICK inp \in Inputs : inp = x.inputs[i]
      BY DocIs
    <3>2. [inp EXCEPT !.sigs = <<>>] = [kind |-> inp.kind, keys |-> inp.keys, sigs |-> <<>>]
      BY DEF Inputs
    <3> QED BY <3>1, <3>2
  <2>2. PICK ins : ins = [i \in 1 .. Len(x.inputs) |-> [x.inputs[i] EXCEPT !.sigs = <<>>]]
    OBVIOUS
  <2>3. ins = [i \in 1 .. Len(x.inputs) |->
                 [kind |-> x.inputs[i].kind, keys |-> x.inputs[i].keys, sigs |-> <<>>]]
    BY <2>1, <2>2
  <2>4. Unsigned(x) = [x EXCEPT !.inputs = ins]
    BY <2>2 DEF Unsigned
  <2>5. [x EXCEPT !.inputs = ins] = [id |-> x.id, inputs |-> ins]
    BY DEF Docs
  <2> QED BY <2>3, <2>4, <2>5
<1>2. [i \in 1 .. Len(w.inputs) |-> [kind |-> w.inputs[i].kind, keys |-> w.inputs[i].keys, sigs |-> <<>>]]
        = [i \in 1 .. Len(d.inputs) |-> [kind |-> d.inputs[i].kind, keys |-> d.inputs[i].keys, sigs |-> <<>>]]
  BY DEF SameBody
<1>3. w \in Docs /\ w.id = d.id
  BY DEF SameBody
<1> QED BY <1>1, <1>2, <1>3

LEMMA PrefixIs ==
  ASSUME NEW s \in Seq(Slots), NEW t \in Seq(Slots), Len(s) <= Len(t),
         \A n \in 1 .. Len(s) : t[n] = s[n]
  PROVE  IsPrefix(s, t)
<1>1. PICK L \in Nat : L = Len(s) /\ L <= Len(t) /\ Len(t) \in Nat
  BY LenProperties
<1>2. /\ Len(SubSeq(s, 1, L)) = L /\ SubSeq(s, 1, L) \in Seq(Slots)
      /\ \A n \in 1 .. L : SubSeq(s, 1, L)[n] = s[n]
  BY <1>1, SubSeqProperties
<1>3. /\ Len(SubSeq(t, 1, L)) = L /\ SubSeq(t, 1, L) \in Seq(Slots)
      /\ \A n \in 1 .. L : SubSeq(t, 1, L)[n] = t[n]
  BY <1>1, SubSeqProperties
<1>4. SubSeq(s, 1, L) = SubSeq(t, 1, L)
  BY <1>1, <1>2, <1>3, SeqEqual
<1> QED BY <1>1, <1>4 DEF IsPrefix

RecordOf(d, a) ==
  [at |-> a, public_key |-> Even(Slot(d, a).pk[2]), nonce_point |-> Even(Slot(d, a).r)]

RecordsListed(d, counts) ==
  nonce_commitment_records(d, counts).v
    = [n \in DOMAIN Added(d, counts) |-> RecordOf(d, Added(d, counts)[n])]

LEMMA RecordsAre ==
  ASSUME NEW d, NEW counts, nonce_commitment_records(d, counts).err = ""
  PROVE  RecordsListed(d, counts)
<1>1. PICK A, all : /\ A = Added(d, counts)
                    /\ all = [n \in DOMAIN A |-> RecordOf(d, A[n])]
  OBVIOUS
<1>2. nonce_commitment_records(d, counts) = Fail("NoInputs")
      \/ nonce_commitment_records(d, counts) = Fail("InvalidSignatureState")
      \/ nonce_commitment_records(d, counts) = Done(all)
  BY <1>1 DEF nonce_commitment_records, RecordOf, provisional_nonce_point
<1>3. Fail("NoInputs").err = "NoInputs" /\ Fail("InvalidSignatureState").err = "InvalidSignatureState"
  BY FailIs, Zenon
<1>4. nonce_commitment_records(d, counts) = Done(all)
  BY <1>2, <1>3
<1> QED BY <1>1, <1>4, DoneIs DEF RecordsListed

(* What a device knows of a place it signed. *)
SignedPlace(d, doc, a, aux, i, p, k) ==
  /\ i = a[1] /\ i \in 1 .. Len(doc.inputs) /\ a[2] \in Nat
  /\ a[2] > Len(doc.inputs[i].sigs) /\ a[2] <= MAX_SIGS_PER_INPUT
  /\ p \in 1 .. Len(doc.inputs[i].keys) /\ k \in DeviceKeys /\ PointX(k) = doc.inputs[i].keys[p]
  /\ Slot(d, a).pos = p /\ Slot(d, a).pk = Compressed(k)
  /\ schnorr_sign_with_aux_rand(k, calculate_sighash(doc, i), aux)
       = Done([r |-> Slot(d, a).r, s |-> Slot(d, a).s])

LEMMA SignedPlaceIs ==
  ASSUME NEW doc \in Documents, NEW aux, NEW d, SignedDoc(d, doc, aux),
         NEW a \in Places(d, initial_signature_counts(doc))
  PROVE  \E i, p, k : SignedPlace(d, doc, a, aux, i, p, k)
<1>0. doc \in Docs
  BY DocumentsAreDocs
<1>1. PICK counts : counts = initial_signature_counts(doc)
  OBVIOUS
<1>2. LET n == a[2] - counts[a[1]] IN
      /\ a[1] \in 1 .. Len(doc.inputs) /\ counts[a[1]] = Len(doc.inputs[a[1]].sigs)
      /\ n \in 1 .. Len(ToSign(doc.inputs[a[1]])) /\ a[2] = counts[a[1]] + n
      /\ SlotSigned(Slot(d, a), doc, a[1], ToSign(doc.inputs[a[1]])[n], aux)
  BY <1>0, <1>1, SignedCounts
<1>3. PICK i, n, c, inp, T :
        /\ i = a[1] /\ i \in 1 .. Len(doc.inputs) /\ inp = doc.inputs[i] /\ c = Len(inp.sigs)
        /\ T = ToSign(inp) /\ n \in 1 .. Len(T) /\ a[2] = c + n
        /\ SlotSigned(Slot(d, a), doc, i, T[n], aux)
  BY <1>2, Zenon
<1>4. inp \in Inputs /\ c \in Nat
  BY <1>0, <1>3, DocIs
<1>5. /\ T \in Seq(Nat) /\ T[n] \in 1 .. Len(inp.keys)
      /\ c <= MAX_SIGS_PER_INPUT => c + Len(T) <= MAX_SIGS_PER_INPUT
  BY <1>3, <1>4, ToSignIs DEF KeysOnce
<1>6. c <= MAX_SIGS_PER_INPUT
  <2>1. i \in DOMAIN doc.inputs
    BY <1>0, <1>3, DocIs
  <2> QED BY <1>3, <2>1 DEF Documents
<1>7. Len(T) \in Nat
  BY <1>5, LenProperties
<1>8. a[2] \in Nat /\ a[2] > c /\ a[2] <= MAX_SIGS_PER_INPUT
  <2>1. PICK L \in Nat, m \in Nat : L = Len(T) /\ m = MAX_SIGS_PER_INPUT
    BY <1>7 DEF MAX_SIGS_PER_INPUT
  <2>2. n \in 1 .. L /\ c + L <= m
    BY <1>3, <1>5, <1>6, <2>1
  <2>3. c + n \in Nat /\ c + n > c /\ c + n <= m
    BY <1>4, <2>1, <2>2
  <2> QED BY <1>3, <2>1, <2>3
<1>9. PICK p : p = T[n]
  OBVIOUS
<1>10. PICK k \in DeviceKeys :
         /\ PointX(k) = doc.inputs[i].keys[p] /\ Slot(d, a).pk = Compressed(k)
         /\ schnorr_sign_with_aux_rand(k, calculate_sighash(doc, i), aux)
              = Done([r |-> Slot(d, a).r, s |-> Slot(d, a).s])
  BY <1>3, <1>9 DEF SlotSigned
<1>11. Slot(d, a).pos = p
  BY <1>3, <1>9 DEF SlotSigned
<1>12. SignedPlace(d, doc, a, aux, i, p, k)
  BY <1>3, <1>5, <1>8, <1>9, <1>10, <1>11 DEF SignedPlace
<1> QED BY <1>12

(* What the host asks of a record before it reveals, and of the slot that *)
(* answers it.                                                            *)
RecordGood(original, rec) ==
  /\ commitment_position_is_valid(original, rec.at)
  /\ rec.public_key[1] = 2 /\ rec.nonce_point[1] = 2
  /\ rec.public_key[2] \in Canonical /\ rec.nonce_point[2] \in Canonical
  /\ pubkey_is_allowed_for_input(original, rec.at[1], rec.public_key[2])

LEMMA RecordIs ==
  ASSUME NEW doc \in Documents, NEW aux, NEW d, NEW a, NEW i, NEW p, NEW k,
         SignedPlace(d, doc, a, aux, i, p, k)
  PROVE  RecordGood(doc, RecordOf(d, a))
<1>0. doc \in Docs /\ i \in 1 .. Len(doc.inputs) /\ i = a[1] /\ k \in Keys
  BY DocumentsAreDocs, DeviceKeysAreKeys DEF SignedPlace
<1>1. PICK x \in Canonical : x = PointX(k) /\ Slot(d, a).pk[2] = x
  <2>1. PointX(k) \in Canonical
    BY <1>0, KeysAreScalars, PointXIs DEF Keys
  <2>2. Slot(d, a).pk = Compressed(k)
    BY DEF SignedPlace
  <2>3. Compressed(k)[2] = PointX(k)
    BY <1>0, CompressedIs
  <2> QED BY <2>1, <2>2, <2>3
<1>2. PICK r : r = Slot(d, a).r /\ r \in Canonical
  <2>0. PICK g \in Int : g = calculate_sighash(doc, i)
    BY <1>0, SighashIs
  <2>1. PICK r, s : /\ r = Slot(d, a).r
                    /\ schnorr_sign_with_aux_rand(k, g, aux) = Done([r |-> r, s |-> s])
    BY <2>0, Zenon DEF SignedPlace
  <2>2. PICK v : v = [r |-> r, s |-> s]
    OBVIOUS
  <2>3. v.r = r
    BY <2>2
  <2>4. v.r \in Canonical
    <3>1. PICK f : f = schnorr_sign_with_aux_rand(k, g, aux) /\ f.err = "" /\ f.v = v
      BY <2>1, <2>2, DoneIs
    <3>2. f.v.r \in Canonical
      BY <1>0, <3>1, SignIs
    <3> QED BY <3>1, <3>2
  <2> QED BY <2>1, <2>3, <2>4
<1>3. PICK rec : rec = RecordOf(d, a) /\ rec = [at |-> a, public_key |-> Even(x), nonce_point |-> Even(r)]
  BY <1>1, <1>2 DEF RecordOf
<1>4. rec.at = a /\ rec.public_key = Even(x) /\ rec.nonce_point = Even(r)
  BY <1>3
<1>5. Even(x)[1] = 2 /\ Even(x)[2] = x /\ Even(r)[1] = 2 /\ Even(r)[2] = r
  BY EvenIs, Zenon
<1>6. commitment_position_is_valid(doc, a)
  BY <1>0, DocIs DEF SignedPlace, commitment_position_is_valid
<1>7. pubkey_is_allowed_for_input(doc, i, x)
  <2>1. p \in DOMAIN doc.inputs[i].keys /\ doc.inputs[i].keys[p] = x
    BY <1>0, <1>1, DocIs DEF SignedPlace
  <2> QED BY <2>1 DEF pubkey_is_allowed_for_input, ToSet
<1> QED BY <1>0, <1>1, <1>2, <1>3, <1>4, <1>5, <1>6, <1>7 DEF RecordGood

LEMMA OneOfOne ==
  ASSUME NEW L \in Nat, NEW m \in 1 .. L
  PROVE  m <= L /\ (L = 1 => m = 1)
OBVIOUS

(* The slot the device finalized is the one the host expects. *)
LEMMA ProofIs ==
  ASSUME NEW doc \in Documents, NEW aux, NEW d, SignedDoc(d, doc, aux),
         NEW a, NEW i, NEW p, NEW k, SignedPlace(d, doc, a, aux, i, p, k),
         NEW session, NEW secret, NEW keys \in SUBSET DeviceKeys,
         NEW f, f = finalize_signature_slot(d, a, session, secret, keys), f.err = "",
         NEW w, SameBody(w, d), Len(w.inputs[i].sigs) = Len(d.inputs[i].sigs),
         a[2] <= Len(d.inputs[i].sigs),
         Slot(w, a).pos = p, Slot(w, a).r = f.v.r, Slot(w, a).s = f.v.s
  PROVE  verify_transcript_proof(w, RecordOf(d, a), a, session, secret)
<1>0. /\ doc \in Docs /\ i \in 1 .. Len(doc.inputs) /\ i = a[1] /\ k \in Keys /\ d \in Docs
      /\ i \in 1 .. Len(d.inputs) /\ d.id = doc.id /\ Len(d.inputs) = Len(doc.inputs)
  BY DocumentsAreDocs, DeviceKeysAreKeys DEF SignedPlace, SignedDoc
<1>1. PICK x \in Canonical : x = PointX(k) /\ Slot(d, a).pk[2] = x
  <2>1. PointX(k) \in Canonical
    BY <1>0, KeysAreScalars, PointXIs DEF Keys
  <2>2. Slot(d, a).pk = Compressed(k)
    BY DEF SignedPlace
  <2>3. Compressed(k)[2] = PointX(k)
    BY <1>0, CompressedIs
  <2> QED BY <2>1, <2>2, <2>3
<1>2. PICK g \in Int : /\ g = calculate_sighash(doc, i) /\ g = calculate_sighash(d, i)
                       /\ g = calculate_sighash(w, i)
  BY <1>0, SighashIs DEF calculate_sighash, SameBody
<1>3. PICK sig : /\ sig = [r |-> Slot(d, a).r, s |-> Slot(d, a).s] /\ sig.r = Slot(d, a).r
                 /\ schnorr_sign_with_aux_rand(k, g, aux) = Done(sig)
  BY <1>2 DEF SignedPlace
<1>4. PICK j \in keys :
        /\ Compressed(j) = Slot(d, a).pk
        /\ f = tweak_provisional_signature(j, g, sig, SessionNumber(session), secret, i, a[2])
        /\ f.v = [r |-> f.v.r, s |-> f.v.s] /\ schnorr_verify(PointX(j), g, f.v)
  <2>1. PICK j \in keys :
        /\ Compressed(j) = Slot(d, a).pk
        /\ f = tweak_provisional_signature(j, calculate_sighash(d, a[1]),
                 [r |-> Slot(d, a).r, s |-> Slot(d, a).s], SessionNumber(session), secret, a[1], a[2])
        /\ f.v = [r |-> f.v.r, s |-> f.v.s] /\ schnorr_verify(PointX(j), calculate_sighash(d, a[1]), f.v)
    BY <1>0, SlotFinalIs
  <2> QED BY <1>0, <1>2, <1>3, <2>1
<1>5. j \in Keys /\ PointX(j) = x
  <2>1. j \in Keys
    BY <1>4, DeviceKeysAreKeys
  <2>2. Compressed(j)[2] = PointX(j)
    BY <2>1, CompressedIs
  <2> QED BY <1>1, <1>4, <2>1, <2>2
<1>6. verify_nonce_relation(Even(sig.r), f.v, SessionNumber(session), secret, i, a[2], Even(x))
  BY <1>0, <1>1, <1>3, <1>4, <1>5, TweakRelation
<1>7. PICK slot, e, o : slot = Slot(w, a) /\ e = Even(sig.r) /\ o = Even(x)
  OBVIOUS
<1>8. schnorr_verify(x, g, slot)
  BY <1>4, <1>5, <1>7 DEF schnorr_verify
<1>9. verify_nonce_relation(e, slot, SessionNumber(session), secret, i, a[2], o)
  BY <1>6, <1>7 DEF verify_nonce_relation
<1>10. PICK rec : rec = RecordOf(d, a) /\ rec = [at |-> a, public_key |-> o, nonce_point |-> e]
  BY <1>1, <1>3, <1>7 DEF RecordOf
<1>11. rec.at = a /\ rec.public_key = o /\ rec.nonce_point = e /\ o[2] = x
  <2>1. rec = [at |-> a, public_key |-> o, nonce_point |-> e]
    BY <1>10
  <2>2. rec.at = a /\ rec.public_key = o /\ rec.nonce_point = e
    BY ONLY <2>1
  <2> QED BY <1>7, <2>2, EvenIs
<1>12. signing_pubkey_xonly(w, i, slot.pos) = x
  <2>1. /\ w.inputs[i].kind = doc.inputs[i].kind /\ w.inputs[i].keys = doc.inputs[i].keys
    BY <1>0 DEF SameBody, SignedDoc
  <2>2. p \in 1 .. Len(doc.inputs[i].keys) /\ doc.inputs[i].keys[p] = x /\ slot.pos = p
    BY <1>1, <1>7 DEF SignedPlace
  <2>3. doc.inputs[i].kind = "p2pk" => Len(doc.inputs[i].keys) = 1
    BY <1>0, DocIs DEF Documents
  <2>4. PICK L \in Nat : L = Len(doc.inputs[i].keys)
    BY <1>0, DocIs
  <2>0. p \in 1 .. L
    BY <2>2, <2>4
  <2>5. p <= L /\ (L = 1 => p = 1)
    BY <2>0, OneOfOne
  <2> QED BY <2>1, <2>2, <2>3, <2>4, <2>5 DEF signing_pubkey_xonly
<1>13. a[1] <= Len(w.inputs) /\ a[2] <= Len(w.inputs[a[1]].sigs)
  <2>1. PICK N \in Nat : N = Len(w.inputs) /\ N = Len(d.inputs) /\ i \in 1 .. N
    BY <1>0, DocIs DEF SameBody
  <2>2. i <= N
    BY ONLY <2>1
  <2> QED BY <1>0, <2>1, <2>2
<1> QED BY <1>0, <1>2, <1>7, <1>8, <1>9, <1>10, <1>11, <1>12, <1>13 DEF verify_transcript_proof

(* A transcript of one session: what the device committed to and answered. *)
Transcript(c, s, doc, d, aux, session, secret, keys) ==
  LET counts == initial_signature_counts(doc)
      recs   == nonce_commitment_records(d, counts)
      f      == finalize_matching(d, counts, session, secret, keys)
  IN /\ SignedDoc(d, doc, aux) /\ recs.err = "" /\ f.err = ""
     /\ c.session = session /\ s.session = session /\ c.digest = s.digest /\ c.records = recs.v
     /\ s.proofs = proof_records(f.doc, counts) /\ s.doc = Wire(f.doc)

LEMMA TranscriptAccepted ==
  ASSUME NEW doc \in Documents, NEW d, NEW aux, NEW session, NEW secret,
         NEW keys \in SUBSET DeviceKeys, NEW c, NEW s,
         Transcript(c, s, doc, d, aux, session, secret, keys)
  PROVE  verify_host_transcript(doc, c, s, secret)
<1>1. PICK counts, recs, f : /\ counts = initial_signature_counts(doc)
                             /\ recs = nonce_commitment_records(d, counts)
                             /\ f = finalize_matching(d, counts, session, secret, keys)
  OBVIOUS
<1>2. /\ SignedDoc(d, doc, aux) /\ recs.err = "" /\ f.err = ""
      /\ c.session = session /\ s.session = session /\ c.digest = s.digest /\ c.records = recs.v
      /\ s.proofs = proof_records(f.doc, counts) /\ s.doc = Wire(f.doc)
  BY <1>1 DEF Transcript
<1>3. doc \in Docs /\ d \in Docs /\ Len(d.inputs) = Len(doc.inputs) /\ d.id = doc.id
  BY <1>2, DocumentsAreDocs DEF SignedDoc
<1>4. Counted(d, counts)
  BY <1>1, <1>2, <1>3, SignedCounts
<1>5. PICK at, done : at = Places(d, counts) /\ done = DoneAt(d, counts, session, secret, keys)
  OBVIOUS
<1>6. FinalDoc(f.doc, d, done, session, secret, keys) /\ FailedAt(d, counts, session, secret, keys) = {}
  BY <1>1, <1>2, <1>3, <1>4, <1>5, FinalizeIs, Zenon
<1>7. done = at
  BY <1>5, <1>6 DEF DoneAt
<1>8. PICK fd, w : fd = f.doc /\ w = Wire(fd)
  OBVIOUS
<1>9. fd \in Docs /\ fd.id = d.id /\ Len(fd.inputs) = Len(d.inputs)
  BY <1>6, <1>8 DEF FinalDoc
<1>10. WireDoc(w, fd)
  BY <1>8, <1>9, WireIs
<1>11. ASSUME NEW i \in 1 .. Len(d.inputs)
       PROVE  /\ w.inputs[i].kind = d.inputs[i].kind /\ w.inputs[i].keys = d.inputs[i].keys
              /\ Len(w.inputs[i].sigs) = Len(d.inputs[i].sigs)
              /\ Len(fd.inputs[i].sigs) = Len(d.inputs[i].sigs)
  <2>1. /\ fd.inputs[i].kind = d.inputs[i].kind /\ fd.inputs[i].keys = d.inputs[i].keys
        /\ Len(fd.inputs[i].sigs) = Len(d.inputs[i].sigs)
    BY <1>6, <1>8 DEF FinalDoc
  <2> QED BY <1>9, <1>10, <2>1 DEF WireDoc, SameBody
<1>12. SameBody(w, d)
  BY <1>9, <1>10, <1>11 DEF WireDoc, SameBody
<1>13. ASSUME NEW i \in 1 .. Len(d.inputs), NEW n \in 1 .. Len(d.inputs[i].sigs)
       PROVE  LET old == d.inputs[i].sigs[n]
                  now == w.inputs[i].sigs[n]
                  v   == finalize_signature_slot(d, <<i, n>>, session, secret, keys).v
              IN /\ now.pos = old.pos /\ now.pk = NoKey
                 /\ <<i, n>> \in done => now.r = v.r /\ now.s = v.s
                 /\ <<i, n>> \notin done => now.r = old.r /\ now.s = old.s
  <2>1. PICK old, mid, now, v :
          /\ old = d.inputs[i].sigs[n] /\ mid = fd.inputs[i].sigs[n] /\ now = w.inputs[i].sigs[n]
          /\ v = finalize_signature_slot(d, <<i, n>>, session, secret, keys).v
    OBVIOUS
  <2>2. /\ mid.pos = old.pos
        /\ <<i, n>> \in done => mid.r = v.r /\ mid.s = v.s
        /\ <<i, n>> \notin done => mid = old
    BY <1>6, <1>8, <2>1, Zenon DEF FinalDoc
  <2>3. now.pos = mid.pos /\ now.pk = NoKey /\ now.r = mid.r /\ now.s = mid.s
    BY <1>9, <1>10, <1>11, <2>1 DEF WireDoc
  <2> QED BY <2>1, <2>2, <2>3
<1>14. PICK A : /\ A = Added(d, counts) /\ A = Added(w, counts) /\ A = s.proofs
  <2>1. Added(fd, counts) = Added(d, counts)
    BY <1>9, <1>11, AddedSame
  <2>2. Added(w, counts) = Added(d, counts)
    BY <1>11, <1>12, AddedSame DEF SameBody
  <2> QED BY <1>2, <1>8, <2>1, <2>2 DEF proof_records
<1>15. /\ A \in Seq(Nat \X Nat) /\ InOrder(A) /\ DOMAIN A = 1 .. Len(A) /\ Len(A) \in Nat
       /\ \A n \in DOMAIN A : A[n] \in at
  <2>1. A \in Seq(Nat \X Nat) /\ ToSet(A) = at /\ InOrder(A)
    BY <1>3, <1>4, <1>5, <1>14, AddedIs
  <2>2. DOMAIN A = 1 .. Len(A) /\ Len(A) \in Nat
    BY <2>1, LenProperties
  <2>3. \A n \in DOMAIN A : A[n] \in ToSet(A)
    BY DEF ToSet
  <2> QED BY <2>1, <2>2, <2>3
<1>16. PICK R : R = c.records /\ R = [n \in DOMAIN A |-> RecordOf(d, A[n])]
  <2>1. nonce_commitment_records(d, counts).err = ""
    BY <1>1, <1>2, Zenon
  <2>2. nonce_commitment_records(d, counts).v
          = [n \in DOMAIN Added(d, counts) |-> RecordOf(d, Added(d, counts)[n])]
    <3>1. RecordsListed(d, counts)
      BY <2>1, RecordsAre, Zenon
    <3> QED BY <3>1, Zenon DEF RecordsListed
  <2>3. [n \in DOMAIN Added(d, counts) |-> RecordOf(d, Added(d, counts)[n])]
          = [n \in DOMAIN A |-> RecordOf(d, A[n])]
    BY <1>14, Zenon
  <2>4. c.records = nonce_commitment_records(d, counts).v
    BY <1>1, <1>2, Zenon
  <2> QED BY <2>2, <2>3, <2>4, Zenon
<1>17. DOMAIN R = 1 .. Len(A) /\ Len(R) = Len(A) /\ \A n \in 1 .. Len(A) : R[n] = RecordOf(d, A[n])
  <2>1. PICK L \in Nat : L = Len(A) /\ DOMAIN A = 1 .. L
    BY <1>15
  <2>2. R = [n \in 1 .. L |-> RecordOf(d, A[n])]
    BY <1>16, <2>1
  <2>3. Len(R) = L
    BY <2>1, <2>2
  <2> QED BY <2>1, <2>2, <2>3, SMTT(30)
<1>18. ASSUME NEW n \in 1 .. Len(A)
       PROVE  /\ RecordGood(doc, R[n]) /\ R[n].at = A[n]
              /\ verify_transcript_proof(w, R[n], A[n], session, secret)
  <2>1. PICK a : a = A[n] /\ a \in at /\ R[n] = RecordOf(d, a)
    BY <1>15, <1>17
  <2>2. PICK i, p, k : SignedPlace(d, doc, a, aux, i, p, k)
    BY <1>1, <1>2, <1>5, <2>1, SignedPlaceIs
  <2>3. /\ i = a[1] /\ i \in 1 .. Len(d.inputs) /\ a[2] \in 1 .. Len(d.inputs[i].sigs)
        /\ a = <<i, a[2]>> /\ a[2] <= Len(d.inputs[i].sigs)
    <3>1. i = a[1]
      BY <2>2 DEF SignedPlace
    <3>2. /\ a[1] \in 1 .. Len(d.inputs) /\ a[2] \in 1 .. Len(d.inputs[a[1]].sigs)
          /\ a = <<a[1], a[2]>>
      BY <1>3, <1>4, <1>5, <2>1, PlaceIs
    <3>3. Len(d.inputs[i].sigs) \in Nat
      BY <1>3, <3>1, <3>2, DocIs
    <3>4. a[2] <= Len(d.inputs[i].sigs)
      BY <3>1, <3>2, <3>3, OneOfOne
    <3> QED BY <3>1, <3>2, <3>4
  <2>4. PICK g : g = finalize_signature_slot(d, a, session, secret, keys) /\ g.err = ""
    BY <1>5, <1>6, <2>1 DEF FailedAt
  <2>5. Slot(w, a).pos = p /\ Slot(w, a).r = g.v.r /\ Slot(w, a).s = g.v.s
    <3>1. PICK n2, now : n2 = a[2] /\ now = w.inputs[i].sigs[n2] /\ now = Slot(w, a)
      BY <2>3 DEF Slot
    <3>2. Slot(d, a) = d.inputs[i].sigs[n2] /\ Slot(d, a).pos = p
      BY <2>2, <2>3, <3>1 DEF Slot, SignedPlace
    <3>3. now.pos = d.inputs[i].sigs[n2].pos /\ now.r = g.v.r /\ now.s = g.v.s
      <4>1. <<i, n2>> = a /\ n2 \in 1 .. Len(d.inputs[i].sigs) /\ i \in 1 .. Len(d.inputs)
        BY <2>3, <3>1, Zenon
      <4>2. <<i, n2>> \in done
        BY <1>7, <2>1, <4>1, Zenon
      <4>3. PICK v : v = g.v /\ v = finalize_signature_slot(d, <<i, n2>>, session, secret, keys).v
        BY <2>4, <4>1, Zenon
      <4>4. /\ w.inputs[i].sigs[n2].pos = d.inputs[i].sigs[n2].pos
            /\ w.inputs[i].sigs[n2].r = v.r /\ w.inputs[i].sigs[n2].s = v.s
        BY <1>13, <4>1, <4>2, <4>3, Zenon
      <4> QED BY <3>1, <4>3, <4>4, Zenon
    <3> QED BY <3>1, <3>2, <3>3, Zenon
  <2>6. verify_transcript_proof(w, RecordOf(d, a), a, session, secret)
    <3>1. Len(w.inputs[i].sigs) = Len(d.inputs[i].sigs)
      BY <1>11, <2>3, Zenon
    <3>2. a[2] <= Len(d.inputs[i].sigs)
      BY <2>3, Zenon
    <3>3. SignedDoc(d, doc, aux) /\ g.err = "" /\ g = finalize_signature_slot(d, a, session, secret, keys)
      BY <1>2, <2>4, Zenon
    <3> QED BY <1>12, <2>2, <2>5, <3>1, <3>2, <3>3, ProofIs, Zenon
  <2>7. RecordGood(doc, RecordOf(d, a))
    BY <2>2, RecordIs
  <2>8. RecordOf(d, a).at = a
    BY DEF RecordOf
  <2> QED BY <2>1, <2>6, <2>7, <2>8
<1>19. validate_host_commitment(doc, R)
  <2> SUFFICES ASSUME NEW n \in 1 .. Len(A)
               PROVE  /\ n > 1 => Before(R[n - 1].at, R[n].at)
                      /\ RecordGood(doc, R[n])
    BY <1>17 DEF validate_host_commitment, RecordGood
  <2>1. ASSUME n > 1
        PROVE  Before(R[n - 1].at, R[n].at)
    <3>1. n - 1 \in 1 .. Len(A) /\ n - 1 < n
      BY <1>15, <2>1
    <3>2. Before(A[n - 1], A[n])
      BY <1>15, <3>1 DEF InOrder
    <3> QED BY <1>18, <3>1, <3>2
  <2> QED BY <1>18, <2>1
<1>20. same_transaction_body(doc, w)
  <2>1. Unsigned(doc) = Unsigned(w)
    <3>1. SameBody(w, doc)
      BY <1>2, <1>3, <1>12 DEF SameBody, SignedDoc
    <3> QED BY <1>3, <3>1, UnsignedSame
  <2>2. ASSUME NEW i \in 1 .. Len(doc.inputs)
        PROVE  IsPrefix(doc.inputs[i].sigs, w.inputs[i].sigs)
    <3>1. PICK o \in Seq(Slots), t \in Seq(Slots) : o = doc.inputs[i].sigs /\ t = w.inputs[i].sigs
      BY <1>3, <1>12, DocIs DEF Inputs, SameBody
    <3>2. PICK l \in Nat, m \in Nat : l = Len(o) /\ m = Len(ToSign(doc.inputs[i])) /\ Len(t) = l + m
      <4>1. KeysOnce(ToSign(doc.inputs[i]), doc.inputs[i])
        BY <1>3, DocIs, ToSignIs
      <4>2. Len(ToSign(doc.inputs[i])) \in Nat
        BY <4>1, LenProperties DEF KeysOnce
      <4>3. Len(d.inputs[i].sigs) = Len(doc.inputs[i].sigs) + Len(ToSign(doc.inputs[i]))
        BY <1>2 DEF SignedDoc
      <4> QED BY <1>3, <1>11, <3>1, <4>2, <4>3, LenProperties
    <3>3. ASSUME NEW n \in 1 .. l
          PROVE  t[n] = o[n]
      <4>1. d.inputs[i].sigs[n] = o[n] /\ n \in 1 .. Len(d.inputs[i].sigs)
        <5>1. \A q \in 1 .. Len(doc.inputs[i].sigs) : d.inputs[i].sigs[q] = doc.inputs[i].sigs[q]
          BY <1>2 DEF SignedDoc
        <5>2. Len(d.inputs[i].sigs) = l + m
          BY <1>3, <1>11, <3>1, <3>2
        <5>3. n \in 1 .. l + m
          OBVIOUS
        <5> QED BY <3>1, <3>2, <5>1, <5>2, <5>3
      <4>2. <<i, n>> \notin at
        <5>1. counts[i] = l
          BY <1>1, <3>1, <3>2 DEF initial_signature_counts
        <5>2. n \notin l + 1 .. Len(d.inputs[i].sigs)
          BY <3>2
        <5> QED BY <1>5, <5>1, <5>2 DEF Places
      <4>3. t[n].pos = o[n].pos /\ t[n].pk = NoKey /\ t[n].r = o[n].r /\ t[n].s = o[n].s
        <5>1. i \in 1 .. Len(d.inputs) /\ n \in 1 .. Len(d.inputs[i].sigs) /\ <<i, n>> \notin done
          BY <1>3, <1>7, <4>1, <4>2
        <5>2. /\ w.inputs[i].sigs[n].pos = d.inputs[i].sigs[n].pos
              /\ w.inputs[i].sigs[n].pk = NoKey
              /\ w.inputs[i].sigs[n].r = d.inputs[i].sigs[n].r
              /\ w.inputs[i].sigs[n].s = d.inputs[i].sigs[n].s
          BY <1>13, <5>1, Zenon
        <5>3. t = w.inputs[i].sigs
          BY <3>1, Zenon
        <5> QED BY <4>1, <5>2, <5>3, Zenon
      <4>4. o[n].pk = NoKey
        <5>1. PICK h : h = doc.inputs[i]
          OBVIOUS
        <5>2. h.sigs \in Seq([pos : Nat, pk : {NoKey}, r : Nat, s : Nat])
          <6>0. doc.inputs \in Seq([kind : {"p2pk", "multisig"}, keys : Seq(Canonical),
                                    sigs : Seq([pos : Nat, pk : {NoKey}, r : Nat, s : Nat])])
            BY DEF Documents
          <6>1. h \in [kind : {"p2pk", "multisig"}, keys : Seq(Canonical),
                       sigs : Seq([pos : Nat, pk : {NoKey}, r : Nat, s : Nat])]
            BY <5>1, <6>0, ElementOfSeq
          <6> QED BY <6>1
        <5>3. o[n] \in [pos : Nat, pk : {NoKey}, r : Nat, s : Nat]
          <6>1. o \in Seq([pos : Nat, pk : {NoKey}, r : Nat, s : Nat]) /\ n \in 1 .. Len(o)
            BY <3>1, <3>2, <5>1, <5>2
          <6> QED BY <6>1, ElementOfSeq
        <5> QED BY <5>3
      <4>5. o[n] \in Slots /\ t[n] \in Slots
        <5>1. n \in 1 .. Len(t)
          BY <3>2
        <5> QED BY <3>1, <3>2, <5>1, ElementOfSeq
      <4>6. \A x, y \in Slots : x.pos = y.pos /\ x.pk = y.pk /\ x.r = y.r /\ x.s = y.s => x = y
        BY DEF Slots
      <4> QED BY <4>3, <4>4, <4>5, <4>6
    <3>4. Len(o) <= Len(t)
      BY <3>2
    <3>5. \A n \in 1 .. Len(o) : t[n] = o[n]
      BY <3>2, <3>3, Zenon
    <3>6. IsPrefix(o, t)
      BY <3>4, <3>5, PrefixIs, Zenon
    <3> QED BY <3>1, <3>6, Zenon
  <2> QED BY <2>1, <2>2 DEF same_transaction_body
<1>21. /\ c.session = s.session /\ c.digest = s.digest /\ Len(R) = Len(s.proofs)
       /\ Len(Added(w, initial_signature_counts(doc))) = Len(R) /\ w = s.doc
  BY <1>1, <1>2, <1>8, <1>14, <1>17
<1>22. \A n \in DOMAIN R : verify_transcript_proof(w, R[n], s.proofs[n], c.session, secret)
  BY <1>2, <1>14, <1>17, <1>18
<1> QED BY <1>16, <1>19, <1>20, <1>21, <1>22, Zenon DEF verify_host_transcript

(***************************************************************************)
(* The inductive invariant: as long as no message was damaged, every       *)
(* request goes back to an ask of the host, the session the device holds   *)
(* to a request and to the commitment it answered with, and every answer   *)
(* passes its check.                                                       *)
(***************************************************************************)
Asked(from, session, commitment) ==
  \E ask \in from : ask.session = session /\ commitment = host_commitment(ask.secret)

AskedTx(from, session, commitment, doc) ==
  \E ask \in from : /\ ask.session = session /\ commitment = host_commitment(ask.secret)
                    /\ ask.req.doc = doc

RequestInv(m, from) ==
  /\ m.type = "tx_request" => AskedTx(from, m.session, m.commitment, m.doc)
  /\ m.type \in {"covenant_request", "swap_request"} => Asked(from, m.session, m.commitment)

TxVerifies(s, from, sent) ==
  \E ask \in from, c \in sent : /\ c.type = "tx_commitment" /\ ask.session = s.session
                                /\ verify_host_transcript(ask.req.doc, c, s, ask.secret)

CovenantVerifies(s, from) ==
  /\ schnorr_verify(s.x, s.message, s.sig)
  /\ \E ask \in from : ask.session = s.session /\
       verify_nonce_relation(s.nonce_point, s.sig, SessionNumber(s.session), ask.secret,
                             0, 0, Even(s.x))

SwapVerifies(s, from) ==
  \E ask \in from : ask.session = s.session /\
    verify_host_nonce_relation(s.x, s.message, s.adaptor_point, SessionNumber(s.session),
                               ask.secret, s.nonce_point, s.presig)

AnswerInv(m, from, sent) ==
  /\ m.type = "tx_signed" => (~m.retried => TxVerifies(m, from, sent))
  /\ m.type = "covenant_signature" => CovenantVerifies(m, from)
  /\ m.type = "swap_presig" => SwapVerifies(m, from)

PresigInv(m) == m.type = "swap_presig" => "message" \in DOMAIN m /\ m.message \in Nat

(* The session of a transaction at its first try. *)
FirstTry(d, c, doc, from) ==
  /\ c.type = "tx_commitment" /\ c.session = d.session /\ c.digest = d.digest
  /\ d.counts = initial_signature_counts(doc) /\ SignedDoc(d.doc, doc, d.aux)
  /\ nonce_commitment_records(d.doc, d.counts).err = ""
  /\ c.records = nonce_commitment_records(d.doc, d.counts).v
  /\ AskedTx(from, d.session, d.commitment, doc)

TriesTx(d, from, sent) ==
  /\ "tries" \in DOMAIN d /\ d.tries \in Nat
  /\ d.tries = 0 => \E doc \in Documents, c \in sent : FirstTry(d, c, doc, from)

SignsCovenant(d) ==
  schnorr_sign_with_aux_rand(derive_covenant_key(d.key_id), d.message, d.aux) = Done(d.sig)

SessionInv(d, from, sent) ==
  /\ d.session.flow = "tx" => TriesTx(d, from, sent)
  /\ d.session.flow = "covenant" => Asked(from, d.session, d.commitment) /\ SignsCovenant(d)
  /\ d.session.flow = "swap" => Asked(from, d.session, d.commitment)

ClaimInv(d) == d.session.flow = "swap" => d.message \in Nat

VerInv ==
  /\ spliced \in Nat
  /\ \A m \in net : PresigInv(m)
  /\ dev # None => ClaimInv(dev[1])
  /\ spliced = 0 => /\ \A m \in net : RequestInv(m, asks) /\ AnswerInv(m, asks, net)
                    /\ dev # None => SessionInv(dev[1], asks, net)

LEMMA VerInit == Init => VerInv
BY DEF Init, VerInv

LEMMA RequestGrows ==
  ASSUME NEW m, NEW from, NEW more, from \subseteq more, RequestInv(m, from)
  PROVE  RequestInv(m, more)
BY DEF RequestInv, Asked, AskedTx

LEMMA AnswerGrows ==
  ASSUME NEW m, NEW from, NEW more, NEW sent, NEW now, from \subseteq more, sent \subseteq now,
         AnswerInv(m, from, sent)
  PROVE  AnswerInv(m, more, now)
<1>1. TxVerifies(m, from, sent) => TxVerifies(m, more, now)
  BY Zenon DEF TxVerifies
<1>2. CovenantVerifies(m, from) => CovenantVerifies(m, more)
  BY Zenon DEF CovenantVerifies
<1>3. SwapVerifies(m, from) => SwapVerifies(m, more)
  BY Zenon DEF SwapVerifies
<1> QED BY <1>1, <1>2, <1>3 DEF AnswerInv

LEMMA SessionGrows ==
  ASSUME NEW d, NEW from, NEW more, NEW sent, NEW now, from \subseteq more, sent \subseteq now,
         SessionInv(d, from, sent)
  PROVE  SessionInv(d, more, now)
<1>1. Asked(from, d.session, d.commitment) => Asked(more, d.session, d.commitment)
  BY DEF Asked
<1>2. TriesTx(d, from, sent) => TriesTx(d, more, now)
  <2>1. \A doc, c : FirstTry(d, c, doc, from) => FirstTry(d, c, doc, more)
    BY DEF FirstTry, AskedTx
  <2> QED BY <2>1, Zenon DEF TriesTx
<1> QED BY <1>1, <1>2 DEF SessionInv

(* A message nobody has to answer for. *)
LEMMA Untold ==
  ASSUME NEW m, m.type \in {"tx_commitment", "tx_reveal", "covenant_nonce", "covenant_reveal",
                            "swap_nonce", "swap_reveal", "covenant_binding", "swap_binding",
                            "swap_completed"}
  PROVE  /\ PresigInv(m)
         /\ \A from, sent : RequestInv(m, from) /\ AnswerInv(m, from, sent)
BY DEF PresigInv, RequestInv, AnswerInv

(* Steps that send a message. *)
LEMMA VerNet ==
  ASSUME VerInv, spliced' = spliced, asks \subseteq asks', NEW m, Send(m), PresigInv(m),
         spliced = 0 => RequestInv(m, asks') /\ AnswerInv(m, asks', net')
  PROVE  /\ \A r \in net' : PresigInv(r)
         /\ spliced' = 0 => \A r \in net' : RequestInv(r, asks') /\ AnswerInv(r, asks', net')
<1>1. net' = net \cup {m} /\ net \subseteq net'
  BY DEF Send
<1>2. ASSUME spliced = 0, NEW r \in net
      PROVE  RequestInv(r, asks') /\ AnswerInv(r, asks', net')
  <2>1. RequestInv(r, asks) /\ AnswerInv(r, asks, net)
    BY <1>2 DEF VerInv
  <2> QED BY <1>1, <2>1, RequestGrows, AnswerGrows
<1> QED BY <1>1, <1>2 DEF VerInv

LEMMA VerSend ==
  ASSUME VerInv, UNCHANGED <<dev, spliced>>, asks \subseteq asks', NEW m, Send(m), PresigInv(m),
         spliced = 0 => RequestInv(m, asks') /\ AnswerInv(m, asks', net')
  PROVE  VerInv'
<1>1. /\ \A r \in net' : PresigInv(r)
      /\ spliced' = 0 => \A r \in net' : RequestInv(r, asks') /\ AnswerInv(r, asks', net')
  BY VerNet
<1>2. ASSUME dev # None, spliced = 0
      PROVE  SessionInv(dev[1], asks', net')
  <2>1. SessionInv(dev[1], asks, net)
    BY <1>2 DEF VerInv
  <2>2. net \subseteq net'
    BY DEF Send
  <2> QED BY <2>1, <2>2, SessionGrows
<1> QED BY <1>1, <1>2 DEF VerInv

LEMMA VerRespond ==
  ASSUME VerInv, NEW d, NEW answer, Respond(d, answer),
         answer.type \in {"tx_commitment", "covenant_nonce", "swap_nonce"},
         ClaimInv(d), spliced = 0 => SessionInv(d, asks, net \cup {answer})
  PROVE  VerInv'
<1>1. dev' = <<d>> /\ UNCHANGED <<asks, spliced>> /\ Send(answer) /\ net' = net \cup {answer}
  BY DEF Respond, Some, Send
<1>2. PresigInv(answer) /\ RequestInv(answer, asks') /\ AnswerInv(answer, asks', net')
  BY Untold
<1>3. /\ \A r \in net' : PresigInv(r)
      /\ spliced' = 0 => \A r \in net' : RequestInv(r, asks') /\ AnswerInv(r, asks', net')
  BY <1>1, <1>2, VerNet
<1>4. dev'[1] = d
  BY <1>1
<1> QED BY <1>1, <1>3, <1>4 DEF VerInv

LEMMA VerAnswers ==
  ASSUME VerInv, NEW out, NEW answer, Answered(out, answer), PresigInv(answer),
         answer.type \in {"tx_signed", "covenant_signature", "swap_presig"},
         spliced = 0 => AnswerInv(answer, asks, net)
  PROVE  VerInv'
<1>1. dev' = None /\ UNCHANGED <<asks, spliced>> /\ Send(answer) /\ net \subseteq net'
  BY DEF Answered, Send
<1>2. spliced = 0 => RequestInv(answer, asks') /\ AnswerInv(answer, asks', net')
  BY <1>1, AnswerGrows DEF RequestInv
<1>3. /\ \A r \in net' : PresigInv(r)
      /\ spliced' = 0 => \A r \in net' : RequestInv(r, asks') /\ AnswerInv(r, asks', net')
  BY <1>1, <1>2, VerNet
<1> QED BY <1>1, <1>3 DEF VerInv

LEMMA VerAsks ==
  ASSUME VerInv, NEW req, NEW secret, HostAsks(req, secret)
  PROVE  VerInv'
<1>0. UNCHANGED <<dev, spliced>>
  BY DEF HostAsks
<1>1. PICK c : c = host_commitment(secret)
  OBVIOUS
<1>2. ASSUME NEW s, asks' = asks \cup {[req |-> req, secret |-> secret, session |-> s]}
      PROVE  AskedTx(asks', s, c, req.doc) /\ Asked(asks', s, c) /\ asks \subseteq asks'
  <2>1. PICK ask : ask = [req |-> req, secret |-> secret, session |-> s] /\ ask \in asks'
    BY <1>2
  <2>2. ask.req = req /\ ask.secret = secret /\ ask.session = s
    BY ONLY <2>1
  <2> QED BY <1>1, <1>2, <2>1, <2>2 DEF AskedTx, Asked
<1>3. CASE AskTx(req, secret)
  <2>1. PICK m, g, s, doc :
          /\ doc = req.doc /\ g = transaction_digest(doc) /\ s = session_id(c, g)
          /\ m = [type |-> "tx_request", session |-> s, commitment |-> c, digest |-> g, doc |-> doc]
          /\ Send(m) /\ m = encode_request(req.doc, secret)
          /\ asks' = asks \cup {[req |-> req, secret |-> secret, session |-> m.session]}
    BY <1>1, <1>3 DEF AskTx, encode_request
  <2>2. m.type = "tx_request" /\ m.session = s /\ m.commitment = c /\ m.doc = doc
    BY <2>1
  <2>3. AskedTx(asks', s, c, doc) /\ asks \subseteq asks'
    BY <1>2, <2>1, <2>2
  <2>4. RequestInv(m, asks') /\ AnswerInv(m, asks', net') /\ PresigInv(m)
    BY <2>2, <2>3 DEF RequestInv, AnswerInv, PresigInv
  <2> QED BY <1>0, <2>1, <2>3, <2>4, VerSend
<1>4. CASE AskCovenant(req, secret) \/ AskSwap(req, secret)
  <2>1. PICK m, s : /\ m.type \in {"covenant_request", "swap_request"} /\ m.session = s /\ m.commitment = c
                    /\ Send(m)
                    /\ asks' = asks \cup {[req |-> req, secret |-> secret, session |-> s]}
    <3>1. CASE AskCovenant(req, secret)
      <4>1. PICK q, s, m :
              /\ m = [type |-> "covenant_request", session |-> s, commitment |-> c, q |-> q] /\ Send(m)
              /\ asks' = asks \cup {[req |-> req, secret |-> secret, session |-> s]}
        BY <1>1, <3>1, Zenon DEF AskCovenant
      <4>2. m.type = "covenant_request" /\ m.session = s /\ m.commitment = c
        BY <4>1
      <4> QED BY <4>1, <4>2
    <3>2. CASE AskSwap(req, secret)
      <4>1. PICK w, s, m :
              /\ s = swap_session_id(host_commitment(secret), req.tx, req.key_id, req.adaptor_point)
              /\ m = [type |-> "swap_request", session |-> s, commitment |-> host_commitment(secret),
                      key_id |-> req.key_id, token |-> w, adaptor_point |-> req.adaptor_point,
                      tx |-> req.tx]
              /\ Send(m)
              /\ asks' = asks \cup {[req |-> req, secret |-> secret, session |-> m.session]}
        BY <3>2, Zenon DEF AskSwap
      <4>2. m.type = "swap_request" /\ m.session = s /\ m.commitment = c
        <5>1. PICK k, x, a : m = [type |-> "swap_request", session |-> s, commitment |-> c,
                                  key_id |-> k, token |-> w, adaptor_point |-> a, tx |-> x]
          BY <1>1, <4>1
        <5> QED BY ONLY <5>1
      <4> QED BY <4>1, <4>2
    <3> QED BY <1>4, <3>1, <3>2
  <2>2. Asked(asks', s, c) /\ asks \subseteq asks'
    BY <1>2, <2>1
  <2>3. RequestInv(m, asks') /\ AnswerInv(m, asks', net') /\ PresigInv(m)
    BY <2>1, <2>2 DEF RequestInv, AnswerInv, PresigInv
  <2> QED BY <1>0, <2>1, <2>2, <2>3, VerSend
<1> QED BY <1>3, <1>4 DEF HostAsks

LEMMA VerUntold ==
  ASSUME VerInv, UNCHANGED <<dev, spliced, asks>>, NEW m, Send(m),
         m.type \in {"tx_commitment", "tx_reveal", "covenant_nonce", "covenant_reveal",
                     "swap_nonce", "swap_reveal", "covenant_binding", "swap_binding",
                     "swap_completed"}
  PROVE  VerInv'
<1>1. PresigInv(m) /\ RequestInv(m, asks') /\ AnswerInv(m, asks', net')
  BY Untold
<1> QED BY <1>1, VerSend

LEMMA VerReveals ==
  ASSUME VerInv, NEW ask, NEW m, HostReveals(ask, m)
  PROVE  VerInv'
<1>1. UNCHANGED <<dev, spliced, asks>>
  BY DEF HostReveals
<1>2. PICK r : r.type \in {"tx_reveal", "covenant_reveal", "swap_reveal"} /\ Send(r)
  <2>1. CASE Send([type |-> "tx_reveal", session |-> m.session, secret |-> ask.secret])
    <3>1. PICK s, h, r : r = [type |-> "tx_reveal", session |-> s, secret |-> h] /\ Send(r)
      BY <2>1
    <3>2. r.type = "tx_reveal"
      BY ONLY <3>1
    <3> QED BY <3>1, <3>2
  <2>2. CASE \E t \in {"covenant_reveal", "swap_reveal"} :
               Send([type |-> t, session |-> m.session, key_id |-> m.key_id,
                     message |-> m.message, secret |-> ask.secret])
    <3>0. PICK t \in {"covenant_reveal", "swap_reveal"} :
               Send([type |-> t, session |-> m.session, key_id |-> m.key_id,
                     message |-> m.message, secret |-> ask.secret])
      BY <2>2
    <3>1. PICK s, k, g, h, r : /\ r = [type |-> t, session |-> s, key_id |-> k, message |-> g, secret |-> h]
                               /\ Send(r)
      BY <3>0
    <3>2. r.type = t
      BY ONLY <3>1
    <3> QED BY <3>1, <3>2
  <2> QED BY <2>1, <2>2 DEF HostReveals
<1> QED BY <1>1, <1>2, VerUntold

LEMMA VerBinds ==
  ASSUME VerInv, NEW req, DeviceBinds(req)
  PROVE  VerInv'
<1>1. UNCHANGED <<dev, spliced, asks>>
  BY DEF DeviceBinds
<1>2. ASSUME NEW t \in {"covenant_binding", "swap_binding"}, NEW k, NEW w, NEW x, NEW b,
             Send([type |-> t, key_id |-> k, script |-> w, x |-> x, token |-> b])
      PROVE  VerInv'
  <2>1. PICK m : m = [type |-> t, key_id |-> k, script |-> w, x |-> x, token |-> b] /\ Send(m)
    BY <1>2
  <2>2. m.type = t
    BY ONLY <2>1
  <2> QED BY <1>1, <2>1, <2>2, VerUntold
<1>3. CASE req.flow = "covenant"
  <2>1. PICK k, w, x, b :
          Send([type |-> "covenant_binding", key_id |-> k, script |-> w, x |-> x, token |-> b])
    BY <1>3, Zenon DEF DeviceBinds
  <2> QED BY <1>2, <2>1
<1>4. CASE req.flow # "covenant"
  <2>1. PICK k, w, x, b :
          Send([type |-> "swap_binding", key_id |-> k, script |-> w, x |-> x, token |-> b])
    BY <1>4, Zenon DEF DeviceBinds
  <2> QED BY <1>2, <2>1
<1> QED BY <1>3, <1>4

LEMMA VerCompletes ==
  ASSUME VerInv, NEW m, NEW instance, DeviceCompletes(m, instance)
  PROVE  VerInv'
<1>1. UNCHANGED <<dev, spliced, asks>>
  BY DEF DeviceCompletes
<1>2. PICK x, g, v, r : /\ r = [type |-> "swap_completed", key_id |-> instance, x |-> x, message |-> g,
                               sig |-> v]
                        /\ Send(r)
  BY Zenon DEF DeviceCompletes
<1>3. r.type = "swap_completed"
  BY ONLY <1>2
<1> QED BY <1>1, <1>2, <1>3, VerUntold

LEMMA VerRestart ==
  ASSUME VerInv, Restart
  PROVE  VerInv'
BY DEF Restart, VerInv

LEMMA VerSplice ==
  ASSUME NonceInv, VerInv, NEW m \in net, NEW other \in net, Splice(m, other)
  PROVE  VerInv'
<1>1. spliced' \in Nat /\ spliced' # 0 /\ dev' = dev
  BY DEF Splice, VerInv
<1>2. PICK r, s : r = [m EXCEPT !.session = s] /\ net' = net \cup {r}
  BY DEF Splice, Send
<1>3. "type" \in DOMAIN m /\ PresigInv(m)
  BY DEF NonceInv, NetInv, MsgInv, VerInv
<1>4. /\ r.type = m.type /\ DOMAIN r = DOMAIN m
      /\ "message" \in DOMAIN m => r.message = m.message
  BY <1>2, <1>3
<1>5. PresigInv(r)
  BY <1>3, <1>4 DEF PresigInv
<1> QED BY <1>1, <1>2, <1>5 DEF VerInv

LEMMA VerSignTx ==
  ASSUME NonceInv, VerInv, NEW m \in net, NEW aux, SignTx(m, aux)
  PROVE  VerInv'
<1>0. MsgInv(m) /\ m.type = "tx_request"
  BY DEF NonceInv, NetInv, SignTx
<1>1. PICK doc \in Documents : doc = m.doc /\ m.session.flow = "tx" /\ doc \in Docs
  BY <1>0, DocumentsAreDocs DEF MsgInv, TxTypes
<1>2. PICK counts, v, recs, signed :
        /\ counts = initial_signature_counts(doc) /\ signed = sign_transaction(doc, aux) /\ v = signed.v
        /\ recs = nonce_commitment_records(v, counts)
        /\ signed.err = "" /\ recs.err = ""
  BY <1>1 DEF SignTx
<1>3. PICK s, c, g, w :
        /\ s = m.session /\ c = m.commitment /\ g = m.digest /\ w = recs.v
        /\ Respond([session |-> s, commitment |-> c, aux |-> aux, tries |-> 0,
                    doc |-> v, counts |-> counts, digest |-> g],
                   [type |-> "tx_commitment", session |-> s, digest |-> g, records |-> w])
  BY <1>1, <1>2 DEF SignTx
<1>4. PICK d, answer : /\ d = [session |-> s, commitment |-> c, aux |-> aux, tries |-> 0,
                               doc |-> v, counts |-> counts, digest |-> g]
                       /\ answer = [type |-> "tx_commitment", session |-> s, digest |-> g, records |-> w]
                       /\ Respond(d, answer)
  BY <1>3
<1>5. /\ d.session = s /\ d.commitment = c /\ d.aux = aux /\ d.tries = 0 /\ d.doc = v
      /\ d.counts = counts /\ d.digest = g /\ "tries" \in DOMAIN d
  BY <1>4
<1>6. answer.type = "tx_commitment" /\ answer.session = s /\ answer.digest = g /\ answer.records = w
  BY <1>4
<1>7. SignedDoc(v, doc, aux)
  BY <1>1, <1>2, SignedIs
<1>8. s.flow = "tx"
  BY <1>1, <1>3
<1>9. ASSUME spliced = 0
      PROVE  SessionInv(d, asks, net \cup {answer})
  <2>1. AskedTx(asks, s, c, doc)
    BY <1>0, <1>1, <1>3, <1>9 DEF VerInv, RequestInv
  <2>2. FirstTry(d, answer, doc, asks)
    BY <1>2, <1>3, <1>5, <1>6, <1>7, <2>1, Zenon DEF FirstTry
  <2>3. TriesTx(d, asks, net \cup {answer})
    BY <1>5, <2>2 DEF TriesTx
  <2> QED BY <1>5, <1>8, <2>3 DEF SessionInv
<1>10. ClaimInv(d)
  BY <1>5, <1>8 DEF ClaimInv
<1> QED BY <1>4, <1>6, <1>9, <1>10, VerRespond

LEMMA VerSignCovenant ==
  ASSUME NonceInv, VerInv, NEW m \in net, NEW aux, SignCovenant(m, aux)
  PROVE  VerInv'
<1>0. MsgInv(m) /\ m.type = "covenant_request"
  BY DEF NonceInv, NetInv, SignCovenant
<1>1. m.session.flow = "covenant"
  BY <1>0 DEF MsgInv, CovenantTypes
<1>2. PICK key, message, sig : /\ key = m.q.key_id[1] /\ message = m.q.commitment[1]
                               /\ sig = provisional_covenant_signature(key, message, aux)
                               /\ sig.err = ""
  BY DEF SignCovenant
<1>3. PICK s, c, v, w, x, g :
        /\ s = m.session /\ c = m.commitment /\ v = sig.v
        /\ Respond([session |-> s, commitment |-> c, aux |-> aux, tries |-> 0,
                    key_id |-> key, message |-> message, sig |-> v, token |-> w],
                   [type |-> "covenant_nonce", session |-> s, key_id |-> key, x |-> x, token |-> w,
                    message |-> message, nonce_point |-> g])
  BY <1>2, Zenon DEF SignCovenant
<1>4. PICK d, answer :
        /\ d = [session |-> s, commitment |-> c, aux |-> aux, tries |-> 0,
                key_id |-> key, message |-> message, sig |-> v, token |-> w]
        /\ answer = [type |-> "covenant_nonce", session |-> s, key_id |-> key, x |-> x, token |-> w,
                     message |-> message, nonce_point |-> g]
        /\ Respond(d, answer)
  BY <1>3
<1>5. /\ d.session = s /\ d.commitment = c /\ d.aux = aux /\ d.key_id = key /\ d.message = message
      /\ d.sig = v
  BY <1>4
<1>6. answer.type = "covenant_nonce"
  BY <1>4
<1>7. s.flow = "covenant"
  BY <1>1, <1>3
<1>8. sig = Done(v)
  <2>1. sig = schnorr_sign_with_aux_rand(derive_covenant_key(key), message, aux)
    BY <1>2 DEF provisional_covenant_signature
  <2>2. sig = Fail("SigningFailed") \/ \E u : sig = Done(u)
    BY <2>1 DEF schnorr_sign_with_aux_rand
  <2>3. Fail("SigningFailed").err = "SigningFailed"
    BY FailIs, Zenon
  <2>4. PICK u : sig = Done(u)
    BY <1>2, <2>2, <2>3
  <2> QED BY <1>3, <2>4, DoneIs
<1>9. SignsCovenant(d)
  BY <1>2, <1>5, <1>8 DEF SignsCovenant, provisional_covenant_signature
<1>10. ASSUME spliced = 0
       PROVE  SessionInv(d, asks, net \cup {answer})
  <2>1. Asked(asks, s, c)
    BY <1>0, <1>3, <1>10 DEF VerInv, RequestInv
  <2> QED BY <1>5, <1>7, <1>9, <2>1 DEF SessionInv
<1>11. ClaimInv(d)
  BY <1>5, <1>7 DEF ClaimInv
<1> QED BY <1>4, <1>6, <1>10, <1>11, VerRespond

LEMMA VerPreSign ==
  ASSUME NonceInv, VerInv, NEW m \in net, NEW aux, PreSign(m, aux)
  PROVE  VerInv'
<1>0. MsgInv(m) /\ m.type = "swap_request"
  BY DEF NonceInv, NetInv, PreSign
<1>1. m.session.flow = "swap" /\ m.tx.id \in Nat
  BY <1>0 DEF MsgInv, SwapTypes
<1>x. PICK x : x = private_swap_public_key(m.key_id)
  OBVIOUS
<1>2. PICK h : h = private_swap_claim_sighash(m.tx, x) /\ h # None
  <2>1. private_swap_claim_sighash(m.tx, private_swap_public_key(m.key_id)) # None
    BY Zenon DEF PreSign
  <2> QED BY <1>x, <2>1, Zenon
<1>3. h[1] \in Nat
  <2>1. h = Some(m.tx.id) \/ h = None
    BY <1>2 DEF private_swap_claim_sighash
  <2>2. Some(m.tx.id)[1] = m.tx.id
    BY DEF Some
  <2> QED BY <1>1, <1>2, <2>1, <2>2
<1>4. PICK s, c, k, g, t, w, p :
        /\ s = m.session /\ c = m.commitment /\ g = h[1]
        /\ Respond([session |-> s, commitment |-> c, aux |-> aux, tries |-> 0,
                    key_id |-> k, message |-> g, adaptor_point |-> t, token |-> w],
                   [type |-> "swap_nonce", session |-> s, key_id |-> k, x |-> x, token |-> w,
                    adaptor_point |-> t, message |-> g, nonce_point |-> p])
  BY <1>x, <1>2, Zenon DEF PreSign
<1>5. PICK d, answer :
        /\ d = [session |-> s, commitment |-> c, aux |-> aux, tries |-> 0,
                key_id |-> k, message |-> g, adaptor_point |-> t, token |-> w]
        /\ answer = [type |-> "swap_nonce", session |-> s, key_id |-> k, x |-> x, token |-> w,
                     adaptor_point |-> t, message |-> g, nonce_point |-> p]
        /\ Respond(d, answer)
  BY <1>4
<1>6. d.session = s /\ d.commitment = c /\ d.message = g
  BY <1>5
<1>7. answer.type = "swap_nonce"
  BY <1>5
<1>8. s.flow = "swap"
  BY <1>1, <1>4
<1>9. ASSUME spliced = 0
      PROVE  SessionInv(d, asks, net \cup {answer})
  <2>1. Asked(asks, s, c)
    BY <1>0, <1>4, <1>9 DEF VerInv, RequestInv
  <2> QED BY <1>6, <1>8, <2>1 DEF SessionInv
<1>10. ClaimInv(d)
  BY <1>3, <1>4, <1>6 DEF ClaimInv
<1> QED BY <1>5, <1>7, <1>9, <1>10, VerRespond

(* The secret that opens a commitment is the one the host asked with. *)
LEMMA CommitmentOpens ==
  ASSUME NEW a, NEW b, host_commitment(a) = host_commitment(b)
  PROVE  a = b
<1>1. <<"commit", a>> = <<"commit", b>>
  BY DEF host_commitment
<1> QED BY ONLY <1>1

LEMMA VerFinalizeTx ==
  ASSUME NonceInv, VerInv, NEW m \in net, NEW keys \in SUBSET DeviceKeys, FinalizeTx(m, keys)
  PROVE  VerInv'
<1>0. MsgInv(m) /\ m.type = "tx_reveal" /\ dev # None
  BY DEF NonceInv, NetInv, FinalizeTx, Reveals
<1>1. PICK d : /\ d = dev[1] /\ Holding(d, released, drawn) /\ d.session = m.session
               /\ d.commitment = host_commitment(m.secret)
  BY <1>0 DEF NonceInv, DevInv, FinalizeTx, Reveals, verify_host_secret
<1>2. d.session.flow = "tx" /\ HoldsTx(d)
  BY <1>0, <1>1 DEF MsgInv, TxTypes, Holding
<1>3. PICK v, counts, u, s, f, fd :
        /\ v = d.doc /\ counts = d.counts /\ u = m.secret /\ s = m.session
        /\ f = finalize_matching(v, counts, s, u, keys) /\ fd = f.doc
  OBVIOUS
<1>4. spliced = 0 => TriesTx(d, asks, net)
  BY <1>0, <1>1, <1>2 DEF VerInv, SessionInv
<1>5. CASE f.err = ""
  <2>1. PICK g, p, w, r, answer :
          /\ g = d.digest /\ p = proof_records(fd, counts) /\ w = Wire(fd) /\ r = (d.tries > 0)
          /\ answer = [type |-> "tx_signed", session |-> s, digest |-> g, proofs |-> p, doc |-> w,
                       retried |-> r]
          /\ Answered(FinalSlots(d, fd, u), answer)
    BY <1>1, <1>3, <1>5, Zenon DEF FinalizeTx
  <2>2. /\ answer.type = "tx_signed" /\ answer.session = s /\ answer.digest = g /\ answer.proofs = p
        /\ answer.doc = w /\ answer.retried = r
    <3>1. answer = [type |-> "tx_signed", session |-> s, digest |-> g, proofs |-> p, doc |-> w,
                    retried |-> r]
      BY <2>1
    <3> QED BY ONLY <3>1
  <2>3. ASSUME spliced = 0, ~answer.retried
        PROVE  TxVerifies(answer, asks, net)
    <3>1. d.tries = 0
      <4>1. PICK tries \in Nat : tries = d.tries
        BY <1>4, <2>3 DEF TriesTx
      <4>2. ~(tries > 0)
        BY <2>1, <2>2, <2>3, <4>1
      <4>3. tries = 0
        BY ONLY tries \in Nat, <4>2
      <4> QED BY <4>1, <4>3
    <3>2. PICK doc \in Documents, c \in net : FirstTry(d, c, doc, asks)
      BY <1>4, <2>3, <3>1 DEF TriesTx
    <3>3. PICK ask \in asks : /\ ask.session = d.session /\ d.commitment = host_commitment(ask.secret)
                              /\ ask.req.doc = doc
      BY <3>2 DEF FirstTry, AskedTx
    <3>4. ask.secret = u
      BY <1>1, <1>3, <3>3, CommitmentOpens
    <3>5. PICK aux : aux = d.aux
      OBVIOUS
    <3>6. Transcript(c, answer, doc, v, aux, s, u, keys)
      <4>1. /\ c.session = s /\ c.digest = g /\ counts = initial_signature_counts(doc)
            /\ SignedDoc(v, doc, aux) /\ nonce_commitment_records(v, counts).err = ""
            /\ c.records = nonce_commitment_records(v, counts).v
        BY <1>1, <1>3, <2>1, <3>2, <3>5, Zenon DEF FirstTry
      <4>2. /\ finalize_matching(v, counts, s, u, keys).err = ""
            /\ finalize_matching(v, counts, s, u, keys).doc = fd
        BY <1>3, <1>5, Zenon
      <4>3. answer.session = s /\ c.digest = answer.digest
        BY <2>2, <4>1, Zenon
      <4>4. answer.proofs = proof_records(fd, counts) /\ answer.doc = Wire(fd)
        BY <2>1, <2>2, Zenon
      <4> QED BY <4>1, <4>2, <4>3, <4>4, Zenon DEF Transcript
    <3>7. verify_host_transcript(doc, c, answer, u)
      BY <3>6, TranscriptAccepted, Zenon
    <3>8. c.type = "tx_commitment" /\ ask.session = answer.session
      BY <1>1, <1>3, <2>2, <3>2, <3>3 DEF FirstTry
    <3> QED BY <3>3, <3>4, <3>7, <3>8, Zenon DEF TxVerifies
  <2>4. PresigInv(answer) /\ (spliced = 0 => AnswerInv(answer, asks, net))
    BY <2>2, <2>3 DEF PresigInv, AnswerInv
  <2> QED BY <2>1, <2>2, <2>4, VerAnswers
<1>6. CASE f.err # ""
  <2>1. PICK e : /\ e = [d EXCEPT !.doc = fd, !.tries = 1] /\ dev' = <<e>>
                 /\ UNCHANGED <<asks, net, spliced>>
    BY <1>1, <1>3, <1>6 DEF FinalizeTx, Some
  <2>2. "session" \in DOMAIN d
    BY <1>2 DEF HoldsTx
  <2>3. e.session = d.session /\ DOMAIN e = DOMAIN d /\ ("tries" \in DOMAIN d => e.tries = 1)
    BY <2>1, <2>2
  <2>4. spliced = 0 => SessionInv(e, asks, net)
    BY <1>2, <1>4, <2>3 DEF SessionInv, TriesTx
  <2>5. ClaimInv(e)
    BY <1>2, <2>3 DEF ClaimInv
  <2> QED BY <2>1, <2>4, <2>5 DEF VerInv
<1> QED BY <1>5, <1>6

LEMMA VerFinalizeCovenant ==
  ASSUME NonceInv, VerInv, NEW m \in net, FinalizeCovenant(m)
  PROVE  VerInv'
<1>0. MsgInv(m) /\ m.type = "covenant_reveal" /\ dev # None
  BY DEF NonceInv, NetInv, FinalizeCovenant, Reveals
<1>1. PICK d : /\ d = dev[1] /\ Holding(d, released, drawn) /\ d.session = m.session
               /\ d.commitment = host_commitment(m.secret)
  BY <1>0 DEF NonceInv, DevInv, FinalizeCovenant, Reveals, verify_host_secret
<1>2. d.session.flow = "covenant" /\ HoldsCovenant(d)
  BY <1>0, <1>1 DEF MsgInv, CovenantTypes, Holding
<1>3. PICK key \in Keys : key = derive_covenant_key(d.key_id)
  BY <1>2, SigningAssumption DEF HoldsCovenant, derive_covenant_key, Keys
<1>4. PICK g \in Nat : g = d.message
  BY <1>2 DEF HoldsCovenant
<1>5. PICK x, s, u, sig, a, n, f, v, p :
        /\ x = PointX(key) /\ s = d.session /\ u = m.secret /\ sig = d.sig /\ a = d.aux
        /\ n = SessionNumber(s) /\ f = tweak_provisional_signature(key, g, sig, n, u, 0, 0)
        /\ v = f.v /\ p = Even(sig.r)
  OBVIOUS
<1>6. f.err = ""
  <2>1. finalize_covenant_signature(d, m.secret).err = ""
    BY <1>1 DEF FinalizeCovenant
  <2> QED BY <1>3, <1>4, <1>5, <2>1 DEF finalize_covenant_signature
<1>7. PICK out, k, w, answer :
        /\ answer = [type |-> "covenant_signature", session |-> s, key_id |-> k, x |-> x,
                     token |-> w, message |-> g, nonce_point |-> p, sig |-> v]
        /\ Answered(out, answer)
  <2>1. /\ covenant_public_key(d.key_id) = x /\ finalize_covenant_signature(d, m.secret).v = v
        /\ provisional_nonce_point(d.sig) = p
    BY <1>3, <1>4, <1>5 DEF covenant_public_key, finalize_covenant_signature, provisional_nonce_point
  <2> QED BY <1>1, <1>4, <1>5, <2>1, Zenon DEF FinalizeCovenant
<1>8. /\ answer.type = "covenant_signature" /\ answer.session = s /\ answer.x = x /\ answer.message = g
      /\ answer.nonce_point = p /\ answer.sig = v
  <2>1. answer = [type |-> "covenant_signature", session |-> s, key_id |-> k, x |-> x,
                  token |-> w, message |-> g, nonce_point |-> p, sig |-> v]
    BY <1>7
  <2> QED BY ONLY <2>1
<1>9. schnorr_verify(x, g, v)
  <2>1. g \in Int
    BY <1>4
  <2>2. tweak_provisional_signature(key, g, sig, n, u, 0, 0).err = ""
    BY <1>5, <1>6, Zenon
  <2>3. schnorr_verify(PointX(key), g, tweak_provisional_signature(key, g, sig, n, u, 0, 0).v)
    BY <2>1, <2>2, TweakIs, Zenon
  <2> QED BY <1>5, <2>3, Zenon
<1>10. ASSUME spliced = 0
       PROVE  CovenantVerifies(answer, asks)
  <2>1. Asked(asks, d.session, d.commitment) /\ SignsCovenant(d)
    BY <1>0, <1>1, <1>2, <1>10 DEF VerInv, SessionInv
  <2>2. PICK ask \in asks : ask.session = s /\ d.commitment = host_commitment(ask.secret)
    BY <1>5, <2>1 DEF Asked
  <2>3. ask.secret = u
    BY <1>1, <1>5, <2>2, CommitmentOpens
  <2>4. schnorr_sign_with_aux_rand(key, g, a) = Done(sig)
    BY <1>3, <1>4, <1>5, <2>1 DEF SignsCovenant
  <2>5. g \in Int
    BY <1>4
  <2>6. verify_nonce_relation(Even(sig.r), tweak_provisional_signature(key, g, sig, n, u, 0, 0).v,
                              n, u, 0, 0, Even(PointX(key)))
    BY <1>5, <1>6, <2>4, <2>5, TweakRelation
  <2>7. verify_nonce_relation(p, v, n, u, 0, 0, Even(x))
    BY <1>5, <2>6, Zenon
  <2>8. schnorr_verify(answer.x, answer.message, answer.sig)
    BY <1>8, <1>9, Zenon
  <2>9. verify_nonce_relation(answer.nonce_point, answer.sig, SessionNumber(answer.session), ask.secret,
                              0, 0, Even(answer.x))
    BY <1>5, <1>8, <2>3, <2>7, Zenon
  <2>10. ask.session = answer.session
    BY <1>8, <2>2, Zenon
  <2> QED BY <2>2, <2>8, <2>9, <2>10, Zenon DEF CovenantVerifies
<1>11. PresigInv(answer) /\ (spliced = 0 => AnswerInv(answer, asks, net))
  BY <1>8, <1>10 DEF PresigInv, AnswerInv
<1> QED BY <1>7, <1>8, <1>11, VerAnswers

LEMMA VerFinalizeSwap ==
  ASSUME NonceInv, VerInv, NEW m \in net, FinalizeSwap(m)
  PROVE  VerInv'
<1>0. MsgInv(m) /\ m.type = "swap_reveal" /\ dev # None
  BY DEF NonceInv, NetInv, FinalizeSwap, Reveals
<1>1. PICK d : /\ d = dev[1] /\ Holding(d, released, drawn) /\ d.session = m.session
               /\ d.commitment = host_commitment(m.secret)
  BY <1>0 DEF NonceInv, DevInv, FinalizeSwap, Reveals, verify_host_secret
<1>2. d.session.flow = "swap" /\ HoldsSwap(d)
  BY <1>0, <1>1 DEF MsgInv, SwapTypes, Holding
<1>3. PICK key \in Keys : key = derive_private_swap_claim_key(d.key_id)
  BY <1>2, SigningAssumption DEF HoldsSwap, derive_private_swap_claim_key, Keys
<1>4. PICK g \in Nat : g = d.message
  BY <1>0, <1>1, <1>2 DEF VerInv, ClaimInv
<1>5. PICK x, t, s, a, u, n, f, v, p :
        /\ x = PointX(key) /\ t = d.adaptor_point /\ s = d.session /\ a = d.aux /\ u = m.secret
        /\ n = SessionNumber(s) /\ f = create_adaptor_presignature(key, g, t, n, a, u)
        /\ v = f.v /\ p = adaptor_base_nonce_point(key, g, t, n, a).v
  OBVIOUS
<1>6. f.err = ""
  BY <1>1, <1>3, <1>4, <1>5, Zenon DEF FinalizeSwap
<1>7. PICK out, k, w, answer :
        /\ answer = [type |-> "swap_presig", session |-> s, key_id |-> k, x |-> x, token |-> w,
                     adaptor_point |-> t, message |-> g, nonce_point |-> p, presig |-> v]
        /\ Answered(out, answer)
  BY <1>1, <1>3, <1>4, <1>5, Zenon DEF FinalizeSwap
<1>8. /\ answer.type = "swap_presig" /\ answer.session = s /\ answer.x = x /\ answer.message = g
      /\ answer.adaptor_point = t /\ answer.nonce_point = p /\ answer.presig = v
      /\ "message" \in DOMAIN answer
  <2>1. answer = [type |-> "swap_presig", session |-> s, key_id |-> k, x |-> x, token |-> w,
                  adaptor_point |-> t, message |-> g, nonce_point |-> p, presig |-> v]
    BY <1>7
  <2> QED BY ONLY <2>1
<1>9. ASSUME spliced = 0
      PROVE  SwapVerifies(answer, asks)
  <2>1. Asked(asks, d.session, d.commitment)
    BY <1>0, <1>1, <1>2, <1>9 DEF VerInv, SessionInv
  <2>2. PICK ask \in asks : ask.session = s /\ d.commitment = host_commitment(ask.secret)
    BY <1>5, <2>1 DEF Asked
  <2>3. ask.secret = u
    BY <1>1, <1>5, <2>2, CommitmentOpens
  <2>4. verify_host_nonce_relation(PointX(key), g, t, n, u, adaptor_base_nonce_point(key, g, t, n, a).v,
                                   create_adaptor_presignature(key, g, t, n, a, u).v)
    BY <1>5, <1>6, PreSignRelation
  <2>5. verify_host_nonce_relation(x, g, t, n, u, p, v)
    BY <1>5, <2>4, Zenon
  <2>6. verify_host_nonce_relation(answer.x, answer.message, answer.adaptor_point,
                                   SessionNumber(answer.session), ask.secret, answer.nonce_point,
                                   answer.presig)
    BY <1>5, <1>8, <2>3, <2>5, Zenon
  <2>7. ask.session = answer.session
    BY <1>8, <2>2, Zenon
  <2> QED BY <2>2, <2>6, <2>7, Zenon DEF SwapVerifies
<1>10. PresigInv(answer) /\ (spliced = 0 => AnswerInv(answer, asks, net))
  BY <1>8, <1>9 DEF PresigInv, AnswerInv
<1> QED BY <1>7, <1>8, <1>10, VerAnswers

LEMMA VerStep == NonceInv /\ VerInv /\ [Next]_vars => VerInv'
<1> SUFFICES ASSUME NonceInv, VerInv, [Next]_vars PROVE VerInv'
  OBVIOUS
<1>1. ASSUME NEW req \in scene, NEW secret \in Secrets, HostAsks(req, secret)
      PROVE  VerInv'
  BY <1>1, VerAsks
<1>2. ASSUME NEW ask \in asks, NEW m \in net, HostReveals(ask, m)
      PROVE  VerInv'
  BY <1>2, VerReveals
<1>3. ASSUME NEW m \in net, NEW aux \in Entropy, DeviceSigns(m, aux)
      PROVE  VerInv'
  BY <1>3, VerSignTx, VerSignCovenant, VerPreSign DEF DeviceSigns
<1>4. ASSUME NEW m \in net, DeviceFinalizes(m)
      PROVE  VerInv'
  <2>1. CASE \E keys \in CallersKeys : FinalizeTx(m, keys)
    <3>1. PICK keys \in CallersKeys : FinalizeTx(m, keys)
      BY <2>1
    <3>2. keys \in SUBSET DeviceKeys
      BY <3>1, CallersKeysAre
    <3> QED BY <3>1, <3>2, VerFinalizeTx
  <2>2. CASE FinalizeCovenant(m)
    BY <2>2, VerFinalizeCovenant
  <2>3. CASE FinalizeSwap(m)
    BY <2>3, VerFinalizeSwap
  <2>4. \/ \E keys \in CallersKeys : FinalizeTx(m, keys)
        \/ FinalizeCovenant(m) \/ FinalizeSwap(m)
    BY <1>4, Zenon DEF DeviceFinalizes, CallersKeys
  <2> QED BY <2>1, <2>2, <2>3, <2>4
<1>5. ASSUME NEW req \in scene, DeviceBinds(req)
      PROVE  VerInv'
  BY <1>5, VerBinds
<1>6. ASSUME NEW m \in net, NEW instance \in DOMAIN Hierarchy.adaptor, DeviceCompletes(m, instance)
      PROVE  VerInv'
  BY <1>6, VerCompletes
<1>7. CASE Restart
  BY <1>7, VerRestart
<1>8. ASSUME NEW m \in net, NEW other \in net, Splice(m, other)
      PROVE  VerInv'
  BY <1>8, VerSplice
<1>9. CASE UNCHANGED vars
  BY <1>9 DEF vars, VerInv
<1> QED BY <1>1, <1>2, <1>3, <1>4, <1>5, <1>6, <1>7, <1>8, <1>9 DEF Next

LEMMA VerMeans == VerInv => AnswersVerify
<1> SUFFICES ASSUME VerInv PROVE AnswersVerify
  OBVIOUS
<1>1. TranscriptsVerify
  <2> SUFFICES ASSUME spliced = 0 PROVE TranscriptsVerify
    BY DEF TranscriptsVerify
  <2>1. \A m \in net : AnswerInv(m, asks, net)
    BY DEF VerInv
  <2>2. ASSUME NEW s \in OfType("tx_signed"), ~s.retried
        PROVE  \E ask \in asks, c \in OfType("tx_commitment") :
                 ask.session = s.session /\ verify_host_transcript(ask.req.doc, c, s, ask.secret)
    <3>1. TxVerifies(s, asks, net)
      BY <2>1, <2>2 DEF OfType, AnswerInv
    <3> QED BY <3>1, Zenon DEF OfType, TxVerifies
  <2>3. ASSUME NEW s \in OfType("covenant_signature")
        PROVE  CovenantVerifies(s, asks)
    BY <2>1 DEF OfType, AnswerInv
  <2>4. ASSUME NEW s \in OfType("swap_presig")
        PROVE  SwapVerifies(s, asks)
    BY <2>1 DEF OfType, AnswerInv
  <2> QED BY <2>2, <2>3, <2>4, Zenon DEF TranscriptsVerify, CovenantVerifies, SwapVerifies
<1>2. SwapsComplete
  <2> SUFFICES ASSUME NEW p \in OfType("swap_presig"), NEW i \in DOMAIN Hierarchy.adaptor,
                      NEW t, t = private_swap_adaptor_secret_and_point(i).v,
                      t.x = p.adaptor_point, verify_adaptor_presignature(p.x, p.message, p.presig, t.x),
                      complete_adaptor_presignature(p.presig, t.secret).v.s # 0
               PROVE  LET v == complete_adaptor_presignature(p.presig, t.secret).v
                      IN /\ schnorr_verify(p.x, p.message, v)
                         /\ extract_adaptor_secret(v, p.presig) = Done(t.secret)
    BY Zenon DEF SwapsComplete
  <2>1. p.message \in Int
    BY DEF OfType, VerInv, PresigInv
  <2>2. PICK key \in Keys : key = Hierarchy.adaptor[i]
    BY SigningAssumption DEF Keys
  <2>3. PICK h \in Canonical : h = PointX(key)
    BY KeysAreScalars, PointXIs DEF Keys
  <2>4. PICK w : w = [secret |-> h, x |-> h] /\ t = w
    <3>1. key # 0
      BY DEF Keys
    <3>2. private_swap_adaptor_secret_and_point(i) = Done([secret |-> h, x |-> h])
      BY <2>2, <2>3, <3>1 DEF private_swap_adaptor_secret_and_point, adaptor_point_from_secret
    <3> QED BY <3>2, DoneIs, Zenon
  <2>5. w.secret = h /\ w.x = h
    BY <2>4
  <2>6. Completes(p.x, p.message, p.presig, h)
    BY <2>1, CompletesIs
  <2> QED BY <2>4, <2>5, <2>6, Zenon DEF Completes
<1> QED BY <1>1, <1>2 DEF AnswersVerify

(***************************************************************************)
(* What the device answers passes every check it was made for              *)
(* (AnswersVerify), for any group order, hash, keys, documents and bounds: *)
(* with undamaged messages the host accepts the transcript of a first try  *)
(* (verify_host_transcript), the covenant signature and its nonce relation *)
(* (verify_nonce_relation) and the adaptor pre-signature                   *)
(* (verify_host_nonce_relation), whatever the parities of keys and nonces; *)
(* and every pre-signature that verifies completes to a signature which    *)
(* gives the adaptor secret back (crypto/adaptor.rs).                      *)
(***************************************************************************)
THEOREM AnswersAlwaysVerify == Spec => []AnswersVerify
BY NonceInit, NonceStep, VerInit, VerStep, VerMeans, PTL DEF Spec

==============================================================================
