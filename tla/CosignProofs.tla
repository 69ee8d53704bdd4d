---------------------------- MODULE CosignProofs ----------------------------
(* What holds of the PSKT for any transaction, devices and bounds. *)
EXTENDS Cosign, IterationProofs, FiniteSetTheorems

-----------------------------------------------------------------------------
(* Sorting positions.                                                      *)

(* o lists the members of P up to m, in ascending order. *)
Sorted(o, P, m) ==
  /\ o \in Seq(Nat)
  /\ \A i, j \in 1 .. Len(o) : i < j => o[i] < o[j]
  /\ \A i \in 1 .. Len(o) : o[i] \in P /\ o[i] \in 1 .. m
  /\ \A p \in 1 .. m : p \in P => \E i \in 1 .. Len(o) : o[i] = p

Climbs(g, P, n) ==
  g = [i \in 0 .. n |-> IF i = 0 THEN <<>> ELSE IF i \in P THEN Append(g[i - 1], i) ELSE g[i - 1]]

ClimbExists(P, n) == \E g : Climbs(g, P, n)

LEMMA ClimbsExist ==
  ASSUME NEW P, NEW n \in Nat
  PROVE  ClimbExists(P, n)
<1>1. PICK V : V = Seq(Nat)
  OBVIOUS
<1>2. \A i \in 1 .. n, w \in V : (IF i \in P THEN Append(w, i) ELSE w) \in V
  BY <1>1, AppendProperties
<1>3. PICK step : step = [i \in 1 .. n |-> [w \in V |-> IF i \in P THEN Append(w, i) ELSE w]]
  OBVIOUS
<1>4. step \in [1 .. n -> [V -> V]]
  BY <1>2, <1>3
<1>5. <<>> \in V
  BY <1>1
<1>6. PICK g \in [0 .. n -> V] : Iterates(g, <<>>, n, step)
  BY <1>4, <1>5, IterExists
<1>7. \A i \in 0 .. n : g[i] = IF i = 0 THEN <<>>
                               ELSE IF i \in P THEN Append(g[i - 1], i) ELSE g[i - 1]
  <2> SUFFICES ASSUME NEW i \in 0 .. n, i # 0
               PROVE  g[i] = IF i \in P THEN Append(g[i - 1], i) ELSE g[i - 1]
    BY <1>6 DEF Iterates
  <2>1. i \in 1 .. n /\ i - 1 \in 0 .. n
    OBVIOUS
  <2>2. g[i] = step[i][g[i - 1]] /\ g[i - 1] \in V
    BY <1>6, <2>1 DEF Iterates
  <2> QED BY <1>3, <2>1, <2>2
<1>8. Climbs(g, P, n)
  BY <1>6, <1>7 DEF Climbs
<1> QED BY <1>8 DEF ClimbExists

LEMMA SortedNext ==
  ASSUME NEW P, NEW m \in Nat \ {0}, NEW o, Sorted(o, P, m - 1)
  PROVE  Sorted(IF m \in P THEN Append(o, m) ELSE o, P, m)
<1>0. PICK n \in Nat : n = Len(o) /\ o \in Seq(Nat)
  BY LenProperties DEF Sorted
<1>1. \A i \in 1 .. m : i = m \/ i \in 1 .. m - 1
  OBVIOUS
<1>2. \A i \in 1 .. n : o[i] \in P /\ o[i] \in 1 .. m - 1 /\ o[i] \in 1 .. m /\ o[i] < m
  BY <1>0 DEF Sorted
<1>3. CASE m \notin P
  <2>1. \A p \in 1 .. m : p \in P => \E i \in 1 .. n : o[i] = p
    BY <1>0, <1>1, <1>3 DEF Sorted
  <2> QED BY <1>0, <1>2, <1>3, <2>1 DEF Sorted
<1>4. CASE m \in P
  <2>1. PICK r : r = Append(o, m)
    OBVIOUS
  <2>2. /\ r \in Seq(Nat) /\ Len(r) = n + 1 /\ (\A i \in 1 .. n : r[i] = o[i]) /\ r[n + 1] = m
    BY <1>0, <2>1, AppendProperties
  <2>3. \A i \in 1 .. n + 1 : i = n + 1 \/ i \in 1 .. n
    OBVIOUS
  <2>4. \A i \in 1 .. n + 1 : r[i] \in P /\ r[i] \in 1 .. m
    BY <1>2, <1>4, <2>2, <2>3
  <2>5. \A i, j \in 1 .. n + 1 : i < j => r[i] < r[j]
    <3> SUFFICES ASSUME NEW i \in 1 .. n + 1, NEW j \in 1 .. n + 1, i < j
                 PROVE  r[i] < r[j]
      OBVIOUS
    <3>1. i \in 1 .. n
      OBVIOUS
    <3>2. CASE j = n + 1
      BY <1>2, <2>2, <3>1, <3>2
    <3>3. CASE j \in 1 .. n
      BY <1>0, <2>2, <3>1, <3>3 DEF Sorted
    <3> QED BY <2>3, <3>2, <3>3
  <2>6. \A p \in 1 .. m : p \in P => \E i \in 1 .. n + 1 : r[i] = p
    <3> SUFFICES ASSUME NEW p \in 1 .. m, p \in P
                 PROVE  \E i \in 1 .. n + 1 : r[i] = p
      OBVIOUS
    <3>1. CASE p = m
      BY <2>2, <3>1
    <3>2. CASE p \in 1 .. m - 1
      <4>1. PICK i \in 1 .. n : o[i] = p
        BY <1>0, <3>2 DEF Sorted
      <4>2. i \in 1 .. n + 1 /\ r[i] = p
        BY <2>2, <4>1
      <4> QED BY <4>2
    <3> QED BY <1>1, <3>1, <3>2
  <2>7. Sorted(r, P, m)
    BY <2>2, <2>4, <2>5, <2>6 DEF Sorted
  <2> QED BY <1>4, <2>1, <2>7
<1> QED BY <1>3, <1>4

LEMMA AscendingSorts ==
  ASSUME NEW P, NEW n \in Nat
  PROVE  Sorted(Ascending(P, n), P, n)
<1> DEFINE g == CHOOSE g : Climbs(g, P, n)
<1>1. Climbs(g, P, n)
  BY ClimbsExist, Zenon DEF ClimbExists
<1>2. Ascending(P, n) = g[n]
  BY Zenon DEF Ascending, Climbs
<1> HIDE DEF g
<1>3. \A i \in 0 .. n : g[i] = IF i = 0 THEN <<>>
                               ELSE IF i \in P THEN Append(g[i - 1], i) ELSE g[i - 1]
  BY <1>1, Zenon DEF Climbs
<1> DEFINE Q == {i \in 0 .. n : Sorted(g[i], P, i)}
<1>4. 0 \in Q
  <2>1. 0 \in 0 .. n
    OBVIOUS
  <2>2. g[0] = <<>>
    BY <1>3, <2>1
  <2>3. Sorted(<<>>, P, 0)
    BY DEF Sorted
  <2> QED BY <2>1, <2>2, <2>3
<1>5. ASSUME NEW m \in 1 .. n, m - 1 \in Q
      PROVE  m \in Q
  <2>1. m \in 0 .. n /\ m # 0 /\ m \in Nat \ {0}
    OBVIOUS
  <2>2. Sorted(g[m - 1], P, m - 1)
    BY <1>5
  <2>3. g[m] = IF m \in P THEN Append(g[m - 1], m) ELSE g[m - 1]
    BY <1>3, <2>1
  <2>4. Sorted(g[m], P, m)
    BY <2>1, <2>2, <2>3, SortedNext
  <2> QED BY <2>1, <2>4
<1> HIDE DEF Q
<1>6. \A i \in 0 .. n : i \in Q
  BY <1>4, <1>5, InductTo
<1>7. n \in Q
  BY <1>6
<1> QED BY <1>2, <1>7 DEF Q

(* A sorted list has as many elements as the set. *)
LEMMA SortedLength ==
  ASSUME NEW P, NEW n \in Nat, NEW o, Sorted(o, P, n), P \subseteq 1 .. n
  PROVE  /\ IsFiniteSet(P) /\ Cardinality(P) = Len(o) /\ DOMAIN o = 1 .. Len(o)
         /\ \A i, j \in 1 .. Len(o) : o[i] = o[j] => i = j
<1>0. PICK m \in Nat : m = Len(o) /\ DOMAIN o = 1 .. m /\ o \in [1 .. m -> Nat]
  BY LenProperties DEF Sorted
<1>1. \A i \in 1 .. m : o[i] \in P /\ o[i] \in Nat
  BY <1>0 DEF Sorted
<1>2. \A i, j \in 1 .. m : o[i] = o[j] => i = j
  <2> SUFFICES ASSUME NEW i \in 1 .. m, NEW j \in 1 .. m, o[i] = o[j], i # j
               PROVE  FALSE
    OBVIOUS
  <2>1. i < j \/ j < i
    OBVIOUS
  <2>2. o[i] < o[j] \/ o[j] < o[i]
    BY <1>0, <2>1 DEF Sorted
  <2> QED BY <1>1, <2>2
<1>3. o \in [1 .. m -> P]
  BY <1>0, <1>1
<1>4. \A p \in P : \E i \in 1 .. m : o[i] = p
  BY <1>0 DEF Sorted
<1>5. o \in Bijection(1 .. m, P)
  BY <1>2, <1>3, <1>4 DEF Bijection, Injection, Surjection, IsInjective
<1>6. ExistsBijection(1 .. m, P)
  BY <1>5 DEF ExistsBijection
<1>7. IsFiniteSet(1 .. m) /\ Cardinality(1 .. m) = m
  BY FS_Interval
<1>8. IsFiniteSet(P) /\ Cardinality(P) = m
  BY <1>6, <1>7, FS_Bijection
<1> QED BY <1>0, <1>2, <1>8

-----------------------------------------------------------------------------
(* Lists of signature records.                                             *)

IsList(rs) == \E S : rs \in Seq(S)

(* A function on 1 .. n is a list. *)
LEMMA FunctionIsList ==
  ASSUME NEW n \in Nat, NEW f, f = [k \in 1 .. n |-> f[k]]
  PROVE  IsList(f) /\ Len(f) = n /\ DOMAIN f = 1 .. n
<1>1. PICK S : S = {f[k] : k \in 1 .. n}
  OBVIOUS
<1>2. f \in [1 .. n -> S] /\ DOMAIN f = 1 .. n
  BY <1>1
<1>3. f \in Seq(S)
  BY <1>2, SeqDef
<1>4. Len(f) \in Nat /\ DOMAIN f = 1 .. Len(f)
  BY <1>3, LenProperties
<1>5. Len(f) = n
  BY <1>2, <1>4
<1> QED BY <1>2, <1>3, <1>5 DEF IsList

LEMMA ListShape ==
  ASSUME NEW rs, IsList(rs)
  PROVE  Len(rs) \in Nat /\ DOMAIN rs = 1 .. Len(rs)
BY LenProperties DEF IsList

PositionsIn(rs) == {rs[k].pos : k \in DOMAIN rs}

(* Records with distinct positions have as many positions as there are records. *)
LEMMA PositionsCounted ==
  ASSUME NEW rs, IsList(rs), DistinctPositions(rs)
  PROVE  IsFiniteSet(PositionsIn(rs)) /\ Cardinality(PositionsIn(rs)) = Len(rs)
<1>1. PICK n \in Nat : n = Len(rs) /\ DOMAIN rs = 1 .. n
  BY ListShape
<1>2. PICK P : P = PositionsIn(rs)
  OBVIOUS
<1>3. PICK f : f = [k \in 1 .. n |-> rs[k].pos]
  OBVIOUS
<1>4. \A k \in 1 .. n : rs[k].pos \in P
  BY <1>1, <1>2 DEF PositionsIn
<1>5. \A p \in P : \E k \in 1 .. n : rs[k].pos = p
  BY <1>1, <1>2 DEF PositionsIn
<1>6. \A j, k \in 1 .. n : rs[j].pos = rs[k].pos => j = k
  BY <1>1 DEF DistinctPositions
<1>7. f \in Bijection(1 .. n, P)
  BY <1>3, <1>4, <1>5, <1>6 DEF Bijection, Injection, Surjection, IsInjective
<1>8. ExistsBijection(1 .. n, P)
  BY <1>7 DEF ExistsBijection
<1>9. IsFiniteSet(1 .. n) /\ Cardinality(1 .. n) = n
  BY FS_Interval
<1> QED BY <1>1, <1>2, <1>8, <1>9, FS_Bijection

-----------------------------------------------------------------------------
(* What is complete can be spent.                                          *)

Good(inp, i, tx, sig, p) == sig.key = inp.keys[p] /\ sig.tx = tx /\ sig.input = i

SigAt(rs, p) == rs[CHOOSE j \in DOMAIN rs : rs[j].pos = p].sig

Along(rs, o) == [k \in DOMAIN o |-> SigAt(rs, o[k])]

WitnessOrder(inp, rs) ==
  IF inp.kind = "covenant" THEN Reverse(inp.path)
  ELSE Ascending(PositionsIn(rs), Len(inp.keys))

LEMMA WitnessAlong ==
  ASSUME NEW inp, NEW rs
  PROVE  Witness(inp, rs) = Along(rs, WitnessOrder(inp, rs))
BY Zenon DEF Witness, Along, WitnessOrder, SigAt, PositionsIn

(* The signature found at a position is a good one for it. *)
LEMMA SigAtGood ==
  ASSUME NEW inp, NEW i, NEW tx, NEW rs, VerifyInput(inp, i, tx, rs),
         NEW p \in PositionsIn(rs)
  PROVE  /\ Good(inp, i, tx, SigAt(rs, p), p)
         /\ p \in DOMAIN inp.keys /\ InBranch(inp, p)
<1>1. PICK j : j = CHOOSE k \in DOMAIN rs : rs[k].pos = p
  OBVIOUS
<1>2. \E k \in DOMAIN rs : rs[k].pos = p
  BY DEF PositionsIn
<1>3. j \in DOMAIN rs /\ rs[j].pos = p
  BY <1>1, <1>2
<1>4. SigAt(rs, p) = rs[j].sig
  BY <1>1, Zenon DEF SigAt
<1>5. Verifies(inp, i, tx, rs[j])
  BY <1>3 DEF VerifyInput
<1> QED BY <1>3, <1>4, <1>5 DEF Verifies, Good

LEMMA AlongList ==
  ASSUME NEW rs, NEW n \in Nat, NEW o, DOMAIN o = 1 .. n
  PROVE  /\ IsList(Along(rs, o)) /\ Len(Along(rs, o)) = n /\ DOMAIN Along(rs, o) = 1 .. n
         /\ \A k \in 1 .. n : Along(rs, o)[k] = SigAt(rs, o[k])
<1>1. PICK w : w = Along(rs, o)
  OBVIOUS
<1>2. w = [k \in 1 .. n |-> SigAt(rs, o[k])]
  BY <1>1 DEF Along
<1>3. w = [k \in 1 .. n |-> w[k]] /\ \A k \in 1 .. n : w[k] = SigAt(rs, o[k])
  BY <1>2
<1> QED BY <1>1, <1>3, FunctionIsList

(* The path of a covenant takes one signature for each active position. *)
LEMMA PathCounts ==
  ASSUME NEW inp, IsInput(inp), inp.kind = "covenant", inp.exec = "full", inp.plan
  PROVE  /\ IsFiniteSet(inp.active) /\ Cardinality(inp.active) = Len(inp.path)
         /\ Len(inp.path) \in Nat /\ DOMAIN inp.path = 1 .. Len(inp.path)
         /\ \A k \in 1 .. Len(inp.path) : inp.path[k] \in inp.active
<1>1. PICK A, q : A = inp.active /\ q = inp.path
  OBVIOUS
<1>2. q \in Seq(A) /\ (\A x, y \in DOMAIN q : q[x] = q[y] => x = y)
      /\ {q[x] : x \in DOMAIN q} = A
  BY <1>1 DEF IsInput, IsInjective, Range
<1>3. PICK n \in Nat : n = Len(q) /\ DOMAIN q = 1 .. n /\ q \in [1 .. n -> A]
  BY <1>2, LenProperties
<1>4. \A p \in A : \E k \in 1 .. n : q[k] = p
  BY <1>2, <1>3
<1>5. q \in Bijection(1 .. n, A)
  BY <1>2, <1>3, <1>4 DEF Bijection, Injection, Surjection, IsInjective
<1>6. ExistsBijection(1 .. n, A)
  BY <1>5 DEF ExistsBijection
<1>7. IsFiniteSet(1 .. n) /\ Cardinality(1 .. n) = n
  BY FS_Interval
<1>8. IsFiniteSet(A) /\ Cardinality(A) = n
  BY <1>6, <1>7, FS_Bijection
<1> QED BY <1>1, <1>3, <1>8

(* The three kinds of script. *)
LEMMA SpendsP2pk ==
  ASSUME NEW inp, IsInput(inp), inp.kind = "p2pk", NEW i, NEW tx, NEW w,
         Len(w) = 1, Good(inp, i, tx, w[1], 1)
  PROVE  Spends(inp, i, tx, w)
BY DEF Spends, Good

LEMMA SpendsMultisig ==
  ASSUME NEW inp, inp.kind = "multisig", NEW i, NEW tx, NEW w, NEW f,
         Len(w) = inp.m, f \in [1 .. inp.m -> DOMAIN inp.keys],
         \A j, k \in 1 .. inp.m : j < k => f[j] < f[k],
         \A k \in 1 .. inp.m : Good(inp, i, tx, w[k], f[k])
  PROVE  Spends(inp, i, tx, w)
BY DEF Spends, Good

LEMMA SpendsCovenant ==
  ASSUME NEW inp, inp.kind = "covenant", NEW i, NEW tx, NEW w,
         Len(w) = Len(inp.path),
         \A k \in DOMAIN w : Good(inp, i, tx, w[Len(w) - k + 1], inp.path[k])
  PROVE  Spends(inp, i, tx, w)
BY DEF Spends, Good

(* Records that verify, as many as the script requires, make a witness     *)
(* that the script accepts.                                                *)
LEMMA WitnessSpends ==
  ASSUME NEW inp, IsInput(inp), NEW i, NEW tx, NEW rs, IsList(rs),
         HasRequired(inp, rs), VerifyInput(inp, i, tx, rs)
  PROVE  Spends(inp, i, tx, Witness(inp, rs))
<1>1. PICK P : P = PositionsIn(rs)
  OBVIOUS
<1>2. PICK n \in Nat : n = Len(rs) /\ IsFiniteSet(P) /\ Cardinality(P) = n
  BY <1>1, ListShape, PositionsCounted DEF VerifyInput
<1>3. \A p \in P : /\ Good(inp, i, tx, SigAt(rs, p), p)
                   /\ p \in DOMAIN inp.keys /\ InBranch(inp, p)
  BY <1>1, SigAtGood
<1>4. PICK len \in Nat : len = Len(inp.keys) /\ DOMAIN inp.keys = 1 .. len
  <2>1. PICK K : K = inp.keys
    OBVIOUS
  <2>2. K \in Seq(Keys)
    BY <2>1 DEF IsInput
  <2> QED BY <2>1, <2>2, LenProperties
<1>5. P \subseteq 1 .. len
  BY <1>3, <1>4
<1>6. PICK o : o = WitnessOrder(inp, rs)
  OBVIOUS
<1>7. Witness(inp, rs) = Along(rs, o)
  BY <1>6, WitnessAlong
<1>8. PICK w : w = Witness(inp, rs)
  OBVIOUS
<1>9. ASSUME inp.kind # "covenant"
      PROVE  /\ DOMAIN o = 1 .. n /\ Len(w) = n
             /\ \A k \in 1 .. n : o[k] \in 1 .. len /\ Good(inp, i, tx, w[k], o[k])
             /\ \A j, k \in 1 .. n : j < k => o[j] < o[k]
  <2>1. o = Ascending(P, len)
    BY <1>1, <1>4, <1>6, <1>9 DEF WitnessOrder
  <2>2. Sorted(o, P, len)
    BY <2>1, AscendingSorts
  <2>3. DOMAIN o = 1 .. n /\ Len(o) = n
    BY <1>2, <1>5, <2>2, SortedLength
  <2>4. /\ \A k \in 1 .. n : o[k] \in P /\ o[k] \in 1 .. len
        /\ \A j, k \in 1 .. n : j < k => o[j] < o[k]
    BY <2>2, <2>3 DEF Sorted
  <2>5. Len(w) = n /\ \A k \in 1 .. n : w[k] = SigAt(rs, o[k])
    BY <1>7, <1>8, <2>3, AlongList
  <2> QED BY <1>3, <2>3, <2>4, <2>5
<1>10. CASE inp.kind = "p2pk"
  <2>1. n = 1 /\ len = 1
    BY <1>2, <1>4, <1>10 DEF HasRequired, IsInput
  <2>2. Len(w) = 1 /\ o[1] = 1 /\ Good(inp, i, tx, w[1], o[1])
    BY <1>9, <1>10, <2>1
  <2> QED BY <1>8, <1>10, <2>2, SpendsP2pk
<1>11. CASE inp.kind = "multisig"
  <2>1. n = inp.m
    BY <1>2, <1>11 DEF HasRequired
  <2>2. PICK f : f = [k \in 1 .. n |-> o[k]]
    OBVIOUS
  <2>3. /\ Len(w) = n /\ f \in [1 .. n -> DOMAIN inp.keys]
        /\ \A j, k \in 1 .. n : j < k => f[j] < f[k]
        /\ \A k \in 1 .. n : Good(inp, i, tx, w[k], f[k])
    BY <1>4, <1>9, <1>11, <2>2
  <2> QED BY <1>8, <1>11, <2>1, <2>3, SpendsMultisig
<1>12. CASE inp.kind = "covenant"
  <2>1. inp.exec = "full" /\ inp.plan /\ n = Len(inp.path)
    BY <1>2, <1>12 DEF HasRequired
  <2>2. PICK A, q : A = inp.active /\ q = inp.path
    OBVIOUS
  <2>3. /\ IsFiniteSet(A) /\ Cardinality(A) = n
        /\ Len(q) = n /\ \A k \in 1 .. n : q[k] \in A
    BY <1>12, <2>1, <2>2, PathCounts
  <2>4. P \subseteq A
    BY <1>3, <1>12, <2>1, <2>2 DEF InBranch
  <2>5. P = A
    BY <1>2, <2>3, <2>4, FS_Subset
  <2>6. o = [j \in 1 .. n |-> q[(n - j) + 1]]
    BY <1>6, <1>12, <2>2, <2>3 DEF WitnessOrder, Reverse
  <2>7. /\ Len(w) = n /\ DOMAIN w = 1 .. n
        /\ \A k \in 1 .. n : w[k] = SigAt(rs, o[k])
    BY <1>7, <1>8, <2>6, AlongList
  <2>8. ASSUME NEW k \in DOMAIN w
        PROVE  Good(inp, i, tx, w[Len(w) - k + 1], q[k])
    <3>1. PICK j : j = n - k + 1
      OBVIOUS
    <3>2. k \in 1 .. n /\ j \in 1 .. n /\ (n - j) + 1 = k
      BY <2>7, <3>1
    <3>3. o[j] = q[k]
      BY <2>6, <3>2
    <3>4. w[j] = SigAt(rs, q[k]) /\ q[k] \in P
      BY <2>3, <2>5, <2>7, <3>2, <3>3
    <3> QED BY <1>3, <2>7, <3>1, <3>4
  <2> QED BY <1>8, <1>12, <2>1, <2>2, <2>7, <2>8, SpendsCovenant
<1> QED BY <1>10, <1>11, <1>12 DEF IsInput

(* verified_complete says yes exactly when every input has what it         *)
(* requires and all of it verifies.                                        *)
LEMMA CompleteMeans ==
  ASSUME NEW tx, NEW sigs
  PROVE  VerifiedComplete(tx, sigs) = "yes" <=>
           \A i \in DOMAIN inputs :
             HasRequired(inputs[i], sigs[i]) /\ VerifyInput(inputs[i], i, tx, sigs[i])
BY DEF VerifiedComplete

(* The device counts as the host does on an ordinary transaction. *)
LEMMA CountsAgree ==
  ASSUME NEW inp, IsInput(inp), NEW i, NEW tx, NEW rs, IsList(rs), Len(rs) <= MAX_SIGS,
         inp.kind = "covenant" => inp.exec = "full" /\ inp.plan /\ inp.active # {}
  PROVE  HasRequired(inp, rs) /\ VerifyInput(inp, i, tx, rs) <=>
           DeviceHasRequired(inp, rs) /\ DeviceVerify(inp, i, tx, rs)
<1>1. CASE inp.kind # "covenant"
  BY <1>1 DEF HasRequired, DeviceHasRequired, DeviceVerify
<1>2. CASE inp.kind = "covenant"
  <2>1. inp.exec = "full" /\ inp.plan /\ inp.active # {}
    BY <1>2
  <2>2. PICK A, q : A = inp.active /\ q = inp.path
    OBVIOUS
  <2>3. IsFiniteSet(A) /\ Cardinality(A) = Len(q) /\ Len(q) \in Nat /\ A # {}
    BY <1>2, <2>1, <2>2, PathCounts
  <2>4. Cardinality(A) # 0
    BY <2>3, FS_EmptySet
  <2>5. Len(rs) = Len(q) => Cardinality(A) \in 1 .. MAX_SIGS
    BY <2>3, <2>4, CosignAssumption
  <2> QED BY <1>2, <2>1, <2>2, <2>3, <2>5 DEF HasRequired, DeviceHasRequired, DeviceVerify
<1> QED BY <1>1, <1>2

(* The host's and the device's completeness checks agree. *)
LEMMA ChecksAgree ==
  ASSUME inputs \in Templates, Ordinary, NEW tx, NEW sigs,
         \A i \in DOMAIN inputs : IsList(sigs[i]) /\ Len(sigs[i]) <= MAX_SIGS
  PROVE  VerifiedComplete(tx, sigs) = "yes" <=> IsFullySigned(tx, sigs)
<1>1. ASSUME NEW i \in DOMAIN inputs
      PROVE  HasRequired(inputs[i], sigs[i]) /\ VerifyInput(inputs[i], i, tx, sigs[i]) <=>
               DeviceHasRequired(inputs[i], sigs[i]) /\ DeviceVerify(inputs[i], i, tx, sigs[i])
  <2>1. IsInput(inputs[i])
    BY CosignAssumption
  <2>2. inputs[i].kind = "covenant" =>
          inputs[i].exec = "full" /\ inputs[i].plan /\ inputs[i].active # {}
    BY DEF Ordinary
  <2> QED BY <2>1, <2>2, CountsAgree
<1> QED BY <1>1, CompleteMeans DEF IsFullySigned

-----------------------------------------------------------------------------
(* Relaying the entries of the PSKT.                                       *)

IsSignature(sig) == sig = Sig(sig.key, sig.tx, sig.input, sig.nonce)

(* partialSigs: a finite map of keys to signatures. *)
Entries(partials) ==
  /\ IsFiniteSet(partials)
  /\ \A s \in partials : s = Partial(s.pub, s.sig) /\ IsSignature(s.sig)
  /\ \A s, t \in partials : s.pub = t.pub => s = t

(* The signature records of an input in a KSPT. *)
Records(rs) ==
  /\ IsList(rs) /\ DistinctPositions(rs) /\ Len(rs) <= MAX_SIGS
  /\ \A k \in DOMAIN rs : IsSignature(rs[k].sig)

LEMMA KeysShape ==
  ASSUME NEW inp, IsInput(inp)
  PROVE  Len(inp.keys) \in Nat /\ DOMAIN inp.keys = 1 .. Len(inp.keys)
<1>1. PICK K : K = inp.keys
  OBVIOUS
<1>2. K \in Seq(Keys)
  BY <1>1 DEF IsInput
<1> QED BY <1>1, <1>2, LenProperties

PositionsFor(inp, partials) == UNION {PositionsOf(inp, s.pub) : s \in partials}

EntryAt(inp, partials, p) == CHOOSE s \in partials : p \in PositionsOf(inp, s.pub)

LEMMA EntryFound ==
  ASSUME NEW inp, NEW partials, NEW p \in PositionsFor(inp, partials)
  PROVE  /\ EntryAt(inp, partials, p) \in partials
         /\ p \in PositionsOf(inp, EntryAt(inp, partials, p).pub)
<1>1. \E s \in partials : p \in PositionsOf(inp, s.pub)
  BY DEF PositionsFor
<1> QED BY <1>1 DEF EntryAt

Gathered(inp, partials, o) ==
  [k \in DOMAIN o |-> Record(o[k], EntryAt(inp, partials, o[k]).sig)]

LEMMA CollectGathers ==
  ASSUME NEW inp, NEW partials
  PROVE  Collect(inp, partials) =
           Gathered(inp, partials, Ascending(PositionsFor(inp, partials), Len(inp.keys)))
BY Zenon DEF Collect, Gathered, EntryAt, PositionsFor

(* What collect_signatures builds: one record for each position of an      *)
(* entry, with the signature of that entry.                                *)
Relays(rs, inp, partials) ==
  /\ IsList(rs) /\ DistinctPositions(rs)
  /\ PositionsIn(rs) = PositionsFor(inp, partials)
  /\ \A k \in DOMAIN rs :
       /\ rs[k].pos \in PositionsFor(inp, partials)
       /\ rs[k].sig = EntryAt(inp, partials, rs[k].pos).sig

LEMMA CollectRelays ==
  ASSUME NEW inp, IsInput(inp), NEW partials
  PROVE  Relays(Collect(inp, partials), inp, partials)
<1>1. PICK P : P = PositionsFor(inp, partials)
  OBVIOUS
<1>2. PICK len \in Nat : len = Len(inp.keys) /\ DOMAIN inp.keys = 1 .. len
  BY KeysShape
<1>3. P \subseteq 1 .. len
  BY <1>1, <1>2 DEF PositionsFor, PositionsOf
<1>4. PICK o : o = Ascending(P, len)
  OBVIOUS
<1>5. Sorted(o, P, len)
  BY <1>4, AscendingSorts
<1>6. PICK n \in Nat : n = Len(o) /\ DOMAIN o = 1 .. n /\ \A j, k \in 1 .. n : o[j] = o[k] => j = k
  <2>1. o \in Seq(Nat)
    BY <1>5 DEF Sorted
  <2>2. Len(o) \in Nat
    BY <2>1, LenProperties
  <2>3. DOMAIN o = 1 .. Len(o) /\ \A j, k \in 1 .. Len(o) : o[j] = o[k] => j = k
    BY <1>3, <1>5, SortedLength
  <2> QED BY <2>2, <2>3
<1>7. (\A k \in 1 .. n : o[k] \in P) /\ (\A p \in P : \E k \in 1 .. n : o[k] = p)
  BY <1>3, <1>5, <1>6 DEF Sorted
<1>8. PICK rs : rs = Collect(inp, partials)
  OBVIOUS
<1>9. rs = [k \in DOMAIN o |-> Record(o[k], EntryAt(inp, partials, o[k]).sig)]
  <2>1. rs = Gathered(inp, partials, o)
    BY <1>1, <1>2, <1>4, <1>8, CollectGathers
  <2> QED BY <2>1 DEF Gathered
<1>10. /\ rs = [k \in 1 .. n |-> rs[k]]
       /\ \A k \in 1 .. n : rs[k].pos = o[k] /\ rs[k].sig = EntryAt(inp, partials, o[k]).sig
  BY <1>6, <1>9 DEF Record
<1>11. IsList(rs) /\ DOMAIN rs = 1 .. n
  BY <1>10, FunctionIsList
<1>12. DistinctPositions(rs)
  BY <1>6, <1>10, <1>11 DEF DistinctPositions
<1>13. PositionsIn(rs) = P
  <2>1. \A p \in PositionsIn(rs) : p \in P
    BY <1>7, <1>10, <1>11 DEF PositionsIn
  <2>2. \A p \in P : p \in PositionsIn(rs)
    BY <1>7, <1>10, <1>11 DEF PositionsIn
  <2> QED BY <2>1, <2>2
<1>14. \A k \in DOMAIN rs : rs[k].pos \in P /\ rs[k].sig = EntryAt(inp, partials, rs[k].pos).sig
  BY <1>7, <1>10, <1>11
<1> QED BY <1>1, <1>8, <1>11, <1>12, <1>13, <1>14 DEF Relays

LEMMA PositionUnique ==
  ASSUME NEW inp, IsInput(inp), NEW key, Cardinality(PositionsOf(inp, key)) = 1,
         NEW p \in PositionsOf(inp, key), NEW q \in PositionsOf(inp, key)
  PROVE  p = q
<1>1. PICK S : S = PositionsOf(inp, key)
  OBVIOUS
<1>2. PICK len \in Nat : DOMAIN inp.keys = 1 .. len
  BY KeysShape
<1>3. S \in SUBSET (1 .. len) /\ IsFiniteSet(1 .. len)
  BY <1>1, <1>2, FS_Interval DEF PositionsOf
<1>4. IsFiniteSet(S)
  BY <1>3, FS_Subset
<1>5. PICK x : S = {x}
  BY <1>1, <1>4, FS_Singleton
<1> QED BY <1>1, <1>5

(* The entries of an input become records within the bound. *)
LEMMA CollectRecords ==
  ASSUME NEW inp, IsInput(inp), NEW partials, Entries(partials),
         Collectable(inp, partials), Cardinality(partials) <= MAX_SIGS
  PROVE  Records(Collect(inp, partials))
<1>1. PICK rs, P : rs = Collect(inp, partials) /\ P = PositionsFor(inp, partials)
  OBVIOUS
<1>2. Relays(rs, inp, partials)
  BY <1>1, CollectRelays
<1>3. IsList(rs) /\ DistinctPositions(rs) /\ Cardinality(P) = Len(rs)
  BY <1>1, <1>2, PositionsCounted DEF Relays
<1>4. PICK f : f = [p \in P |-> EntryAt(inp, partials, p)]
  OBVIOUS
<1>5. \A p \in P : f[p] \in partials /\ p \in PositionsOf(inp, f[p].pub)
  BY <1>1, <1>4, EntryFound
<1>6. ASSUME NEW p \in P, NEW q \in P, f[p] = f[q]
      PROVE  p = q
  <2>1. p \in PositionsOf(inp, f[p].pub) /\ q \in PositionsOf(inp, f[p].pub)
    BY <1>5, <1>6
  <2>2. Cardinality(PositionsOf(inp, f[p].pub)) = 1
    BY <1>5 DEF Collectable
  <2> QED BY <2>1, <2>2, PositionUnique
<1>7. f \in Injection(P, partials)
  BY <1>4, <1>5, <1>6 DEF Injection, IsInjective
<1>8. IsFiniteSet(partials)
  BY DEF Entries
<1>9. Cardinality(P) <= Cardinality(partials) /\ IsFiniteSet(P)
  BY <1>7, <1>8, FS_Injection
<1>10. Len(rs) <= MAX_SIGS
  <2>1. Cardinality(P) \in Nat /\ Cardinality(partials) \in Nat /\ MAX_SIGS \in Nat
    BY <1>8, <1>9, FS_CardinalityType, CosignAssumption
  <2> QED BY <1>3, <1>9, <2>1
<1>11. \A k \in DOMAIN rs : IsSignature(rs[k].sig)
  BY <1>1, <1>2, EntryFound DEF Relays, Entries
<1> QED BY <1>1, <1>3, <1>10, <1>11 DEF Records

-----------------------------------------------------------------------------
(* Signing on a device.                                                    *)

LEMMA AppendKeepsRecords ==
  ASSUME NEW rs, Records(rs), NEW r, IsSignature(r.sig)
  PROVE  Records(AppendSignature(rs, r))
<1>1. CASE (\E k \in DOMAIN rs : rs[k].pos = r.pos) \/ Len(rs) >= MAX_SIGS
  BY <1>1 DEF AppendSignature
<1>2. CASE ~((\E k \in DOMAIN rs : rs[k].pos = r.pos) \/ Len(rs) >= MAX_SIGS)
  <2>1. PICK n \in Nat : n = Len(rs) /\ DOMAIN rs = 1 .. n
    BY ListShape DEF Records
  <2>2. PICK S : rs \in Seq(S)
    BY DEF Records, IsList
  <2>3. PICK T : T = S \cup {r}
    OBVIOUS
  <2>4. rs \in Seq(T) /\ r \in T
    BY <2>2, <2>3, SeqMonotonic
  <2>5. PICK w : w = Append(rs, r)
    OBVIOUS
  <2>6. /\ w \in Seq(T) /\ Len(w) = n + 1
        /\ (\A k \in 1 .. n : w[k] = rs[k]) /\ w[n + 1] = r
    BY <2>1, <2>4, <2>5, AppendProperties
  <2>7. DOMAIN w = 1 .. n + 1
    BY <2>6, LenProperties
  <2>8. \A k \in 1 .. n + 1 : k = n + 1 \/ k \in 1 .. n
    OBVIOUS
  <2>9. \A k \in 1 .. n : rs[k].pos # r.pos /\ IsSignature(rs[k].sig)
    BY <1>2, <2>1 DEF Records
  <2>10. DistinctPositions(w)
    <3> SUFFICES ASSUME NEW j \in 1 .. n + 1, NEW k \in 1 .. n + 1, w[j].pos = w[k].pos
                 PROVE  j = k
      BY <2>7 DEF DistinctPositions
    <3>1. CASE j \in 1 .. n /\ k \in 1 .. n
      <4>1. rs[j].pos = rs[k].pos
        BY <2>6, <3>1
      <4> QED BY <2>1, <3>1, <4>1 DEF Records, DistinctPositions
    <3>2. CASE j = n + 1 /\ k \in 1 .. n
      BY <2>6, <2>9, <3>2
    <3>3. CASE k = n + 1 /\ j \in 1 .. n
      BY <2>6, <2>9, <3>3
    <3>4. CASE j = n + 1 /\ k = n + 1
      BY <3>4
    <3> QED BY <2>8, <3>1, <3>2, <3>3, <3>4
  <2>11. \A k \in DOMAIN w : IsSignature(w[k].sig)
    BY <2>6, <2>7, <2>8, <2>9
  <2>12. Len(w) <= MAX_SIGS
    BY <1>2, <2>1, <2>6, CosignAssumption
  <2>13. Records(w)
    BY <2>6, <2>10, <2>11, <2>12 DEF Records, IsList
  <2> QED BY <1>2, <2>5, <2>13 DEF AppendSignature
<1> QED BY <1>1, <1>2

Grows(g, rs, new) ==
  g = [k \in 0 .. Len(new) |-> IF k = 0 THEN rs ELSE AppendSignature(g[k - 1], new[k])]

GrowthExists(rs, new) == \E g : Grows(g, rs, new)

LEMMA AppendStays ==
  ASSUME NEW S, NEW w \in Seq(S), NEW r \in S
  PROVE  AppendSignature(w, r) \in Seq(S)
BY AppendProperties DEF AppendSignature

LEMMA GrowsExist ==
  ASSUME NEW rs, NEW new, IsList(rs), IsList(new)
  PROVE  GrowthExists(rs, new)
<1>0. PICK n \in Nat : n = Len(new) /\ DOMAIN new = 1 .. n
  BY ListShape
<1>1. PICK T : rs \in Seq(T)
  BY DEF IsList
<1>2. PICK S : S = T \cup {new[k] : k \in 1 .. n}
  OBVIOUS
<1>3. PICK V : V = Seq(S)
  OBVIOUS
<1>4. rs \in V
  BY <1>1, <1>2, <1>3, SeqMonotonic
<1>5. \A k \in 1 .. n, w \in V : AppendSignature(w, new[k]) \in V
  BY <1>2, <1>3, AppendStays
<1>6. PICK step : step = [k \in 1 .. n |-> [w \in V |-> AppendSignature(w, new[k])]]
  OBVIOUS
<1>7. step \in [1 .. n -> [V -> V]]
  BY <1>5, <1>6
<1>8. PICK g \in [0 .. n -> V] : Iterates(g, rs, n, step)
  BY <1>4, <1>7, IterExists
<1>9. \A k \in 0 .. n : g[k] = IF k = 0 THEN rs ELSE AppendSignature(g[k - 1], new[k])
  <2> SUFFICES ASSUME NEW k \in 0 .. n, k # 0
               PROVE  g[k] = AppendSignature(g[k - 1], new[k])
    BY <1>8 DEF Iterates
  <2>1. k \in 1 .. n /\ k - 1 \in 0 .. n
    OBVIOUS
  <2>2. g[k] = step[k][g[k - 1]] /\ g[k - 1] \in V
    BY <1>8, <2>1 DEF Iterates
  <2> QED BY <1>6, <2>1, <2>2
<1>10. Grows(g, rs, new)
  BY <1>0, <1>8, <1>9 DEF Grows
<1> QED BY <1>10 DEF GrowthExists

(* A run of append_signature keeps the records distinct and bounded. *)
LEMMA AppendAllKeepsRecords ==
  ASSUME NEW rs, NEW new, Records(rs), IsList(new), \A k \in DOMAIN new : IsSignature(new[k].sig)
  PROVE  Records(AppendSignatures(rs, new))
<1>0. PICK n \in Nat : n = Len(new) /\ DOMAIN new = 1 .. n
  BY ListShape
<1> DEFINE g == CHOOSE g : Grows(g, rs, new)
<1>1. Grows(g, rs, new)
  <2>1. GrowthExists(rs, new)
    BY GrowsExist DEF Records
  <2> QED BY <2>1, Zenon DEF GrowthExists
<1>2. AppendSignatures(rs, new) = g[Len(new)]
  BY Zenon DEF AppendSignatures, Grows
<1> HIDE DEF g
<1>3. \A k \in 0 .. n : g[k] = IF k = 0 THEN rs ELSE AppendSignature(g[k - 1], new[k])
  BY <1>0, <1>1 DEF Grows
<1> DEFINE Q == {k \in 0 .. n : Records(g[k])}
<1>4. 0 \in Q
  BY <1>3
<1>5. ASSUME NEW k \in 1 .. n, k - 1 \in Q
      PROVE  k \in Q
  <2>1. k \in 0 .. n /\ k # 0
    OBVIOUS
  <2>2. g[k] = AppendSignature(g[k - 1], new[k])
    BY <1>3, <2>1
  <2>3. Records(g[k - 1]) /\ IsSignature(new[k].sig)
    BY <1>0, <1>5
  <2>4. Records(g[k])
    BY <2>2, <2>3, AppendKeepsRecords
  <2> QED BY <2>1, <2>4
<1> HIDE DEF Q
<1>6. \A k \in 0 .. n : k \in Q
  BY <1>4, <1>5, InductTo
<1>7. n \in Q
  BY <1>6
<1> QED BY <1>0, <1>2, <1>7 DEF Q

LEMMA OneRecord ==
  ASSUME NEW r, IsSignature(r.sig)
  PROVE  Records(<<r>>)
<1>1. PICK w : w = <<r>>
  OBVIOUS
<1>2. w \in Seq({r}) /\ Len(w) = 1 /\ DOMAIN w = 1 .. 1 /\ w[1] = r
  BY <1>1
<1>3. IsList(w)
  BY <1>2 DEF IsList
<1>4. \A k \in DOMAIN w : k = 1
  BY <1>2
<1>5. DistinctPositions(w)
  BY <1>4 DEF DistinctPositions
<1>6. \A k \in DOMAIN w : IsSignature(w[k].sig)
  BY <1>2, <1>4
<1>7. Len(w) <= MAX_SIGS
  BY <1>2, CosignAssumption
<1> QED BY <1>1, <1>3, <1>5, <1>6, <1>7 DEF Records

LEMMA SigIsSignature ==
  ASSUME NEW key, NEW tx, NEW i, NEW nonce, NEW p
  PROVE  IsSignature(Record(p, Sig(key, tx, i, nonce)).sig)
BY DEF IsSignature, Record, Sig

(* The positions a device signs for are a list. *)
LEMMA OrderIsList ==
  ASSUME NEW inp, IsInput(inp), NEW dev \in Devices
  PROVE  \E n \in Nat : DOMAIN SigningOrder(inp, dev) = 1 .. n
<1>1. Len(inp.keys) \in Nat /\ Len(dev.seeds) \in Nat
  BY KeysShape, CosignAssumption
<1>2. ASSUME NEW P, NEW m \in Nat
      PROVE  \E n \in Nat : DOMAIN Ascending(P, m) = 1 .. n
  <2>1. PICK o : o = Ascending(P, m)
    OBVIOUS
  <2>2. o \in Seq(Nat)
    BY <2>1, AscendingSorts DEF Sorted
  <2> QED BY <2>1, <2>2, LenProperties
<1>3. CASE inp.ms45
  <2> DEFINE pos(s) == {p \in DOMAIN inp.keys : inp.keys[p] = dev.seeds[s].ms45}
             able == Ascending({s \in DOMAIN dev.seeds : pos(s) # {}}, Len(dev.seeds))
  <2>1. SigningOrder(inp, dev) = [k \in DOMAIN able |-> Min(pos(able[k]))]
    BY <1>3, Zenon DEF SigningOrder
  <2>2. \E n \in Nat : DOMAIN able = 1 .. n
    BY <1>1, <1>2
  <2> HIDE DEF able, pos
  <2> QED BY <2>1, <2>2
<1>4. CASE ~inp.ms45
  <2> DEFINE P == {p \in DOMAIN inp.keys :
                     \E s \in DOMAIN dev.seeds : Holds(inp, dev.seeds[s], p)}
  <2>1. SigningOrder(inp, dev) = Ascending(P, Len(inp.keys))
    BY <1>4, Zenon DEF SigningOrder
  <2> HIDE DEF P
  <2> QED BY <1>1, <1>2, <2>1
<1> QED BY <1>3, <1>4

(* sign_supported_input keeps the records. *)
LEMMA SupportedKeepsRecords ==
  ASSUME NEW inp, IsInput(inp), NEW dev \in Devices, NEW i, NEW tx, NEW rs, Records(rs),
         NEW only, NEW nonce
  PROVE  Records(SignSupported(inp, i, tx, rs, dev, only, nonce))
<1> DEFINE sign(p) == Record(p, Sig(inp.keys[p], tx, i, nonce))
<1>1. \A p : IsSignature(sign(p).sig)
  BY SigIsSignature
<1>2. \A p : Records(<<sign(p)>>)
  <2> HIDE DEF sign
  <2> QED BY <1>1, OneRecord
<1>3. CASE inp.kind = "multisig"
  <2>1. PICK o : o = SigningOrder(inp, dev)
    OBVIOUS
  <2>2. PICK n \in Nat : DOMAIN o = 1 .. n
    BY <2>1, OrderIsList
  <2>3. PICK new : new = [k \in DOMAIN o |-> sign(o[k])]
    OBVIOUS
  <2>4. SignSupported(inp, i, tx, rs, dev, only, nonce) = AppendSignatures(rs, new)
    BY <1>3, <2>1, <2>3 DEF SignSupported
  <2> HIDE DEF sign
  <2>5. new = [k \in 1 .. n |-> new[k]] /\ \A k \in 1 .. n : new[k] = sign(o[k])
    BY <2>2, <2>3
  <2>6. IsList(new) /\ DOMAIN new = 1 .. n
    BY <2>5, FunctionIsList
  <2>7. \A k \in DOMAIN new : IsSignature(new[k].sig)
    BY <1>1, <2>5, <2>6
  <2> QED BY <2>4, <2>6, <2>7, AppendAllKeepsRecords
<1>4. CASE inp.kind = "p2pk"
  <2>1. SignSupported(inp, i, tx, rs, dev, only, nonce) \in {<<sign(1)>>, rs}
    BY <1>4 DEF SignSupported
  <2> HIDE DEF sign
  <2> QED BY <1>2, <2>1
<1>5. CASE inp.kind = "covenant"
  <2>1. PICK p : p = CHOOSE q \in inp.active : TRUE
    OBVIOUS
  <2>2. SignSupported(inp, i, tx, rs, dev, only, nonce) \in {<<sign(p)>>, rs}
    BY <1>5, <2>1 DEF SignSupported
  <2> HIDE DEF sign
  <2> QED BY <1>2, <2>2
<1> QED BY <1>3, <1>4, <1>5 DEF IsInput

-----------------------------------------------------------------------------
(* The PSKT is a record whose partialSigs map keys to signatures, for the *)
(* inputs of the transaction.                                             *)
HostShape ==
  /\ host = [tx |-> host.tx, hint |-> host.hint, sigs |-> host.sigs]
  /\ host.sigs = [i \in DOMAIN inputs |-> host.sigs[i]]
  /\ \A i \in DOMAIN inputs : \A s \in host.sigs[i] : s = Partial(s.pub, s.sig)

(* A compatible insertion (merge.rs, insert_signature) loses no entry. *)
LEMMA InsertKeeps ==
  ASSUME NEW partials, NEW new, Compatible(partials, new),
         \A s \in partials \cup new : s = Partial(s.pub, s.sig)
  PROVE  partials \subseteq Insert(partials, new)
<1> SUFFICES ASSUME NEW s \in partials PROVE s \in Insert(partials, new)
  OBVIOUS
<1>1. CASE \A n \in new : n.pub # s.pub
  BY <1>1 DEF Insert
<1>2. CASE \E n \in new : n.pub = s.pub
  <2> PICK n \in new : n.pub = s.pub  BY <1>2
  <2>1. s.sig = n.sig  BY DEF Compatible
  <2>2. s = Partial(s.pub, s.sig) /\ n = Partial(n.pub, n.sig)  OBVIOUS
  <2>3. s = n  BY <2>1, <2>2
  <2> QED  BY <2>3 DEF Insert
<1> QED  BY <1>1, <1>2

(* The records of a KSPT become entries of the same form. *)
LEMMA BindingsAreEntries ==
  ASSUME NEW inp, NEW rs PROVE \A s \in Bindings(inp, rs) : s = Partial(s.pub, s.sig)
BY DEF Bindings, Partial

-----------------------------------------------------------------------------
(* The invariant of a transaction that is being co-signed.                 *)

(* A KSPT in circulation. *)
Document(d) ==
  /\ d = [tx |-> d.tx, hint |-> d.hint, sigs |-> d.sigs, flag |-> d.flag]
  /\ \A i \in DOMAIN inputs : Records(d.sigs[i])
  /\ Ordinary => (d.flag <=> IsFullySigned(d.tx, d.sigs)) /\ d.flag \in BOOLEAN

CosignInv ==
  /\ inputs \in Templates
  /\ HostShape
  /\ \A i \in DOMAIN inputs : Entries(host.sigs[i])
  /\ \A d \in docs : Document(d)

LEMMA InputsAreInputs ==
  ASSUME inputs \in Templates, NEW i \in DOMAIN inputs
  PROVE  IsInput(inputs[i])
BY CosignAssumption

(* What encode_pskt writes. *)
LEMMA ExportIsDocument ==
  ASSUME CosignInv, Encodable(host)
  PROVE  Document(encode_pskt(host))
<1>1. PICK d : d = encode_pskt(host)
  OBVIOUS
<1>2. PICK sigs, flag : sigs = Collected(host) /\ flag = (VerifiedComplete(host.tx, sigs) = "yes")
  OBVIOUS
<1>3. d = [tx |-> host.tx, hint |-> host.hint, sigs |-> sigs, flag |-> flag]
  BY <1>1, <1>2 DEF encode_pskt
<1>4. d.tx = host.tx /\ d.hint = host.hint /\ d.sigs = sigs /\ d.flag = flag
  BY <1>3
<1>5. ASSUME NEW i \in DOMAIN inputs
      PROVE  Records(sigs[i])
  <2>1. sigs[i] = Collect(inputs[i], host.sigs[i])
    BY <1>2 DEF Collected
  <2>2. IsInput(inputs[i]) /\ Entries(host.sigs[i])
    BY InputsAreInputs DEF CosignInv
  <2>3. Collectable(inputs[i], host.sigs[i]) /\ Cardinality(host.sigs[i]) <= MAX_SIGS
    BY DEF Encodable
  <2> QED BY <2>1, <2>2, <2>3, CollectRecords
<1>6. ASSUME Ordinary
      PROVE  VerifiedComplete(host.tx, sigs) = "yes" <=> IsFullySigned(host.tx, sigs)
  <2>1. \A i \in DOMAIN inputs : IsList(sigs[i]) /\ Len(sigs[i]) <= MAX_SIGS
    BY <1>5 DEF Records
  <2>2. inputs \in Templates
    BY DEF CosignInv
  <2> QED BY <1>6, <2>1, <2>2, ChecksAgree
<1>7. flag \in BOOLEAN /\ (flag <=> VerifiedComplete(host.tx, sigs) = "yes")
  BY <1>2
<1>8. Ordinary => (d.flag <=> IsFullySigned(d.tx, d.sigs)) /\ d.flag \in BOOLEAN
  BY <1>4, <1>6, <1>7, Zenon
<1>9. d = [tx |-> d.tx, hint |-> d.hint, sigs |-> d.sigs, flag |-> d.flag]
  BY <1>3
<1>10. \A i \in DOMAIN inputs : Records(d.sigs[i])
  BY <1>4, <1>5
<1>11. Document(d)
  BY <1>8, <1>9, <1>10 DEF Document
<1> QED BY <1>1, <1>11

(* What every entry point of a device leaves in the transaction. *)
LEMMA SignedRecords ==
  ASSUME inputs \in Templates, NEW d, NEW dev \in Devices, NEW route, NEW only, NEW nonce,
         \A i \in DOMAIN inputs : Records(d.sigs[i]),
         NEW i \in DOMAIN inputs
  PROVE  Records(SignedSigs(d, dev, route, only, nonce)[i])
<1>1. PICK inp, rs : inp = inputs[i] /\ rs = d.sigs[i]
  OBVIOUS
<1>2. IsInput(inp) /\ Records(rs)
  BY <1>1, InputsAreInputs
<1>3. PICK own : own = IF route = "addr" THEN inp.keys[1] ELSE dev.raw
  OBVIOUS
<1>4. SignedSigs(d, dev, route, only, nonce)[i] \in
        {SignSupported(inp, i, d.tx, rs, dev, only, nonce),
         <<Record(1, Sig(own, d.tx, i, nonce))>>, rs}
  BY <1>1, <1>3 DEF SignedSigs
<1>5. Records(SignSupported(inp, i, d.tx, rs, dev, only, nonce))
  BY <1>2, SupportedKeepsRecords
<1>6. Records(<<Record(1, Sig(own, d.tx, i, nonce))>>)
  <2>1. PICK r : r = Record(1, Sig(own, d.tx, i, nonce))
    OBVIOUS
  <2>2. IsSignature(r.sig)
    BY <2>1, SigIsSignature
  <2> QED BY <2>1, <2>2, OneRecord
<1> QED BY <1>2, <1>4, <1>5, <1>6

LEMMA SignedIsDocument ==
  ASSUME inputs \in Templates, NEW d, Document(d), NEW dev \in Devices,
         NEW route, NEW only, NEW nonce
  PROVE  Document(SignedDoc(d, dev, route, only, nonce))
<1>1. PICK e, sigs : /\ e = SignedDoc(d, dev, route, only, nonce)
                     /\ sigs = SignedSigs(d, dev, route, only, nonce)
  OBVIOUS
<1>2. PICK flag : flag = IsFullySigned(d.tx, sigs)
  OBVIOUS
<1>3. e = [d EXCEPT !.sigs = sigs, !.flag = flag]
  BY <1>1, <1>2, Zenon DEF SignedDoc
<1>4. d = [tx |-> d.tx, hint |-> d.hint, sigs |-> d.sigs, flag |-> d.flag]
  BY DEF Document
<1>5. e = [tx |-> d.tx, hint |-> d.hint, sigs |-> sigs, flag |-> flag]
  BY <1>3, <1>4
<1>6. e.tx = d.tx /\ e.hint = d.hint /\ e.sigs = sigs /\ e.flag = flag
  BY <1>5
<1>7. \A i \in DOMAIN inputs : Records(e.sigs[i])
  BY <1>1, <1>6, SignedRecords DEF Document
<1>8. flag \in BOOLEAN /\ (flag <=> IsFullySigned(d.tx, sigs))
  BY <1>2, Zenon DEF IsFullySigned
<1>9. Ordinary => (e.flag <=> IsFullySigned(e.tx, e.sigs)) /\ e.flag \in BOOLEAN
  BY <1>6, <1>8, Zenon
<1>10. e = [tx |-> e.tx, hint |-> e.hint, sigs |-> e.sigs, flag |-> e.flag]
  BY <1>5, <1>6
<1>11. Document(e)
  BY <1>7, <1>9, <1>10 DEF Document
<1> QED BY <1>1, <1>11

(* The entries the records of an input become. *)
LEMMA BindingsFinite ==
  ASSUME NEW inp, NEW rs, Records(rs)
  PROVE  /\ IsFiniteSet(Bindings(inp, rs))
         /\ \A s \in Bindings(inp, rs) : s = Partial(s.pub, s.sig) /\ IsSignature(s.sig)
<1>1. PICK n \in Nat : n = Len(rs) /\ DOMAIN rs = 1 .. n
  BY ListShape DEF Records
<1>2. PICK B : B = Bindings(inp, rs)
  OBVIOUS
<1>3. B = {Partial(inp.keys[rs[k].pos], rs[k].sig) : k \in 1 .. n}
  BY <1>1, <1>2 DEF Bindings
<1>4. PICK f : f = [k \in 1 .. n |-> Partial(inp.keys[rs[k].pos], rs[k].sig)]
  OBVIOUS
<1>5. f \in [1 .. n -> B] /\ \A s \in B : \E k \in 1 .. n : f[k] = s
  BY <1>3, <1>4
<1>6. f \in Surjection(1 .. n, B)
  BY <1>5 DEF Surjection
<1>7. IsFiniteSet(1 .. n)
  BY FS_Interval
<1>8. IsFiniteSet(B)
  BY <1>6, <1>7, FS_Surjection
<1>9. \A k \in 1 .. n : IsSignature(rs[k].sig)
  BY <1>1 DEF Records
<1>10. ASSUME NEW s \in B
       PROVE  s = Partial(s.pub, s.sig) /\ IsSignature(s.sig)
  <2>1. PICK k \in 1 .. n : s = Partial(inp.keys[rs[k].pos], rs[k].sig)
    BY <1>3
  <2>2. s.pub = inp.keys[rs[k].pos] /\ s.sig = rs[k].sig
    BY <2>1 DEF Partial
  <2> QED BY <1>9, <2>1, <2>2
<1> QED BY <1>2, <1>8, <1>10

(* A compatible insertion is a union, and again a map. *)
LEMMA InsertIsUnion ==
  ASSUME NEW partials, NEW new, Compatible(partials, new),
         \A s \in partials \cup new : s = Partial(s.pub, s.sig)
  PROVE  Insert(partials, new) = partials \cup new
<1>1. partials \subseteq Insert(partials, new)
  BY InsertKeeps
<1> QED BY <1>1 DEF Insert

LEMMA UnionIsEntries ==
  ASSUME NEW partials, Entries(partials), NEW new, IsFiniteSet(new),
         \A s \in new : s = Partial(s.pub, s.sig) /\ IsSignature(s.sig),
         Compatible(partials, new)
  PROVE  Entries(partials \cup new)
<1>1. IsFiniteSet(partials \cup new)
  BY FS_Union DEF Entries
<1>2. \A s \in partials \cup new : s = Partial(s.pub, s.sig) /\ IsSignature(s.sig)
  BY DEF Entries
<1>3. ASSUME NEW s \in partials \cup new, NEW t \in partials \cup new, s.pub = t.pub
      PROVE  s = t
  <2>1. s = Partial(s.pub, s.sig) /\ t = Partial(t.pub, t.sig)
    BY <1>2
  <2>2. CASE s \in partials /\ t \in partials
    BY <1>3, <2>2 DEF Entries
  <2>3. CASE t \in new
    <3>1. s.sig = t.sig
      BY <1>3, <2>3 DEF Compatible
    <3> QED BY <1>3, <2>1, <3>1
  <2>4. CASE s \in new
    <3>1. t.sig = s.sig
      BY <1>3, <2>4 DEF Compatible
    <3> QED BY <1>3, <2>1, <3>1
  <2> QED BY <2>2, <2>3, <2>4
<1> QED BY <1>1, <1>2, <1>3 DEF Entries

LEMMA InsertIsEntries ==
  ASSUME NEW inp, NEW partials, Entries(partials), NEW rs, Records(rs),
         Compatible(partials, Bindings(inp, rs))
  PROVE  /\ Insert(partials, Bindings(inp, rs)) = partials \cup Bindings(inp, rs)
         /\ Entries(partials \cup Bindings(inp, rs))
<1>1. PICK new : new = Bindings(inp, rs)
  OBVIOUS
<1>2. IsFiniteSet(new) /\ \A s \in new : s = Partial(s.pub, s.sig) /\ IsSignature(s.sig)
  BY <1>1, BindingsFinite
<1>3. \A s \in partials \cup new : s = Partial(s.pub, s.sig)
  BY <1>2 DEF Entries
<1> QED BY <1>1, <1>2, <1>3, InsertIsUnion, UnionIsEntries

(* A merge keeps the shape of the PSKT and every entry it had. *)
LEMMA MergeKeeps ==
  ASSUME HostShape, NEW d, MergeOk(host, d), host' = Merged(host, d), UNCHANGED inputs
  PROVE  /\ HostShape'
         /\ \A i \in DOMAIN inputs : host.sigs[i] \subseteq host'.sigs[i]
<1> DEFINE new(i) == Bindings(inputs[i], d.sigs[i])
           sigs   == [i \in DOMAIN inputs |-> Insert(host.sigs[i], new(i))]
<1>1. host' = [tx |-> host.tx, hint |-> host.hint, sigs |-> sigs]
  <2>1. host' = [host EXCEPT !.sigs = sigs]  BY DEF Merged
  <2> HIDE DEF sigs
  <2>2. host = [tx |-> host.tx, hint |-> host.hint, sigs |-> host.sigs]  BY DEF HostShape
  <2> QED  BY <2>1, <2>2
<1>2. \A i \in DOMAIN inputs : host'.sigs[i] = Insert(host.sigs[i], new(i))
  BY <1>1
<1>3. ASSUME NEW i \in DOMAIN inputs
      PROVE  /\ Compatible(host.sigs[i], new(i))
             /\ \A s \in host.sigs[i] \cup new(i) : s = Partial(s.pub, s.sig)
  BY BindingsAreEntries DEF MergeOk, HostShape
<1>4. \A i \in DOMAIN inputs : host.sigs[i] \subseteq host'.sigs[i]
  <2> TAKE i \in DOMAIN inputs
  <2> HIDE DEF new
  <2> QED  BY <1>2, <1>3, InsertKeeps
<1>5. HostShape'
  <2>1. (host = [tx |-> host.tx, hint |-> host.hint, sigs |-> host.sigs])'
    <3> HIDE DEF sigs
    <3> QED  BY <1>1
  <2>2. (host.sigs = [i \in DOMAIN inputs |-> host.sigs[i]])'
    <3>1. host'.sigs = sigs  BY <1>1
    <3> QED  BY <3>1
  <2>3. (\A i \in DOMAIN inputs : \A s \in host.sigs[i] : s = Partial(s.pub, s.sig))'
    <3> SUFFICES ASSUME NEW i \in DOMAIN inputs, NEW s \in host'.sigs[i]
                 PROVE  s = Partial(s.pub, s.sig)
      BY DEF Partial
    <3>1. s \in host.sigs[i] \cup new(i)  BY <1>2 DEF Insert
    <3> QED  BY <3>1, <1>3
  <2> QED  BY <2>1, <2>2, <2>3 DEF HostShape
<1> QED  BY <1>4, <1>5

(* Every step keeps the shape of the PSKT and its entries. *)
LEMMA StepKeeps ==
  ASSUME HostShape, [Next]_vars
  PROVE  /\ HostShape'
         /\ \A i \in DOMAIN inputs : host.sigs[i] \subseteq host'.sigs[i]
<1> USE DEF HostShape, Partial
<1>1. CASE UNCHANGED <<inputs, host>>
  BY <1>1
<1>2. ASSUME NEW d, MergeOk(host, d), host' = Merged(host, d), UNCHANGED inputs
      PROVE  /\ HostShape'
             /\ \A i \in DOMAIN inputs : host.sigs[i] \subseteq host'.sigs[i]
  BY <1>2, MergeKeeps
<1>3. ASSUME NEW tx, Edit(tx)
      PROVE  /\ HostShape'
             /\ \A i \in DOMAIN inputs : host.sigs[i] \subseteq host'.sigs[i]
  <2>1. host' = [tx |-> tx, hint |-> host.hint, sigs |-> host.sigs] /\ inputs' = inputs
    BY <1>3 DEF Edit
  <2> QED  BY <2>1
<1>4. ASSUME NEW j, NEW h, AttachDerivation(j, h)
      PROVE  /\ HostShape'
             /\ \A i \in DOMAIN inputs : host.sigs[i] \subseteq host'.sigs[i]
  <2> DEFINE hints == [host.hint EXCEPT ![j] = h]
  <2>1. host' = [tx |-> host.tx, hint |-> hints, sigs |-> host.sigs] /\ inputs' = inputs
    BY <1>4 DEF AttachDerivation
  <2> HIDE DEF hints
  <2> QED  BY <2>1
<1>5. ASSUME NEW pub, NEW key, AttachSole(pub, key)
      PROVE  /\ HostShape'
             /\ \A i \in DOMAIN inputs : host.sigs[i] \subseteq host'.sigs[i]
  <2> DEFINE one  == Partial(pub, Sig(key, host.tx, 1, 0))
             sigs == [host.sigs EXCEPT ![1] = {one}]
  <2>1. host' = [host EXCEPT !.sigs = sigs] /\ inputs' = inputs /\ host.sigs[1] = {}
    BY <1>5 DEF AttachSole
  <2>2. host' = [tx |-> host.tx, hint |-> host.hint, sigs |-> sigs]
    <3> HIDE DEF sigs
    <3> QED  BY <2>1
  <2>3. /\ sigs = [i \in DOMAIN inputs |-> sigs[i]]
        /\ \A i \in DOMAIN inputs : sigs[i] = IF i = 1 THEN {one} ELSE host.sigs[i]
    <3> HIDE DEF one
    <3> QED  OBVIOUS
  <2>4. one = Partial(one.pub, one.sig)  OBVIOUS
  <2> HIDE DEF sigs, one
  <2>5. host'.sigs = sigs  BY <2>2
  <2>6. \A i \in DOMAIN inputs : host.sigs[i] \subseteq host'.sigs[i]
    BY <2>1, <2>3, <2>5
  <2>7. \A i \in DOMAIN inputs : \A s \in sigs[i] : s = Partial(s.pub, s.sig)
    BY <2>3, <2>4
  <2> QED  BY <2>1, <2>2, <2>3, <2>5, <2>6, <2>7
<1> QED
  BY <1>1, <1>2, <1>3, <1>4, <1>5 DEF Next, vars, Export, Sign, SignPskt, Merge

(* No operation drops a signature the PSKT holds: relays, merges of KSPTs  *)
(* from any signer, edits and attachments only add entries.                *)
THEOREM MergedSignaturesStay == Spec => SignaturesKept
<1>1. Init => HostShape
  BY DEF Init, HostShape, Partial
<1>2. HostShape /\ [Next]_vars => HostShape'
  BY StepKeeps
<1>3. HostShape /\ [Next]_vars =>
        [\A i \in DOMAIN inputs : host.sigs[i] \subseteq host'.sigs[i]]_vars
  BY StepKeeps
<1> QED  BY <1>1, <1>2, <1>3, PTL DEF Spec, SignaturesKept

-----------------------------------------------------------------------------
(* Every step keeps the invariant.                                         *)

(* A step that merges d. *)
LEMMA MergeKeepsEntries ==
  ASSUME CosignInv, NEW d, \A i \in DOMAIN inputs : Records(d.sigs[i]),
         MergeOk(host, d), host' = Merged(host, d), UNCHANGED inputs
  PROVE  \A i \in DOMAIN inputs : Entries(host'.sigs[i])
<1>1. SUFFICES ASSUME NEW i \in DOMAIN inputs PROVE Entries(host'.sigs[i])
  OBVIOUS
<1>2. PICK sigs : sigs = [j \in DOMAIN inputs |-> Insert(host.sigs[j], Bindings(inputs[j], d.sigs[j]))]
  OBVIOUS
<1>3. host' = [host EXCEPT !.sigs = sigs]
  BY <1>2 DEF Merged
<1>4. host = [tx |-> host.tx, hint |-> host.hint, sigs |-> host.sigs]
  BY DEF CosignInv, HostShape
<1>5. host'.sigs = sigs
  BY <1>3, <1>4
<1>6. host'.sigs[i] = Insert(host.sigs[i], Bindings(inputs[i], d.sigs[i]))
  BY <1>2, <1>5
<1>7. Entries(host.sigs[i]) /\ Records(d.sigs[i]) /\ Compatible(host.sigs[i], Bindings(inputs[i], d.sigs[i]))
  BY DEF CosignInv, MergeOk
<1>8. PICK h, B : h = host.sigs[i] /\ B = Bindings(inputs[i], d.sigs[i])
  OBVIOUS
<1>9. Insert(h, B) = h \cup B /\ Entries(h \cup B)
  BY <1>7, <1>8, InsertIsEntries
<1>10. host'.sigs[i] = h \cup B
  BY <1>6, <1>8, <1>9
<1> QED BY <1>9, <1>10, Zenon

LEMMA DocumentStays ==
  ASSUME UNCHANGED inputs, NEW d, Document(d)
  PROVE  Document(d)'
<1>1. IsFullySigned(d.tx, d.sigs)' <=> IsFullySigned(d.tx, d.sigs)
  BY DEF IsFullySigned
<1>2. Ordinary' <=> Ordinary
  BY DEF Ordinary
<1> QED BY <1>1, <1>2 DEF Document

LEMMA CosignStep == CosignInv /\ [Next]_vars => CosignInv'
<1> SUFFICES ASSUME CosignInv, [Next]_vars
             PROVE  CosignInv'
  OBVIOUS
<1>1. HostShape'
  BY StepKeeps DEF CosignInv
<1>2. inputs' = inputs
  BY DEF Next, vars, Export, Sign, SignPskt, Merge, Edit, AttachDerivation, AttachSole
<1>3. inputs \in Templates /\ inputs' \in Templates
  BY <1>2 DEF CosignInv
<1>4. (\A d \in docs : Document(d))'
  <2>1. ASSUME NEW e, Document(e), docs' = docs \cup {e}
        PROVE  (\A d \in docs : Document(d))'
    <3> SUFFICES ASSUME NEW d \in docs' PROVE Document(d)'
      OBVIOUS
    <3>1. Document(d)
      BY <2>1 DEF CosignInv
    <3> QED BY <1>2, <3>1, DocumentStays
  <2>2. CASE Export
    BY <2>1, <2>2, ExportIsDocument DEF Export
  <2>3. ASSUME NEW dev \in Devices, NEW route, NEW nonce, NEW only, NEW d \in docs,
               Sign(d, dev, route, only, nonce)
        PROVE  (\A d2 \in docs : Document(d2))'
    <3>1. Document(SignedDoc(d, dev, route, only, nonce))
      BY <1>3, SignedIsDocument DEF CosignInv
    <3> QED BY <2>1, <2>3, <3>1 DEF Sign
  <2>4. CASE docs' = docs
    <3> SUFFICES ASSUME NEW d \in docs' PROVE Document(d)'
      OBVIOUS
    <3>1. Document(d)
      BY <2>4 DEF CosignInv
    <3> QED BY <1>2, <3>1, DocumentStays
  <2> QED BY <2>2, <2>3, <2>4 DEF Next, vars, SignPskt, Merge, Edit, AttachDerivation, AttachSole
<1>5. \A i \in DOMAIN inputs : Entries(host'.sigs[i])
  <2>0. host = [tx |-> host.tx, hint |-> host.hint, sigs |-> host.sigs]
    BY DEF CosignInv, HostShape
  <2>1. CASE host'.sigs = host.sigs
    BY <2>1 DEF CosignInv
  <2>2. CASE UNCHANGED host
    BY <2>1, <2>2
  <2>3. ASSUME NEW tx, Edit(tx)
        PROVE  host'.sigs = host.sigs
    BY <2>0, <2>3 DEF Edit
  <2>4. ASSUME NEW j, NEW h, AttachDerivation(j, h)
        PROVE  host'.sigs = host.sigs
    BY <2>0, <2>4 DEF AttachDerivation
  <2>5. ASSUME NEW dev \in Devices, NEW route, NEW nonce, NEW only,
               SignPskt(dev, route, only, nonce)
        PROVE  \A i \in DOMAIN inputs : Entries(host'.sigs[i])
    <3>1. PICK s : s = SignedDoc(encode_pskt(host), dev, route, only, nonce)
      OBVIOUS
    <3>2. Document(s)
      BY <1>3, <2>5, <3>1, ExportIsDocument, SignedIsDocument DEF SignPskt
    <3>3. MergeOk(host, s) /\ host' = Merged(host, s)
      BY <2>5, <3>1 DEF SignPskt
    <3> QED BY <1>2, <3>2, <3>3, MergeKeepsEntries DEF Document
  <2>6. ASSUME NEW d \in docs, Merge(d)
        PROVE  \A i \in DOMAIN inputs : Entries(host'.sigs[i])
    <3>1. Document(d) /\ MergeOk(host, d) /\ host' = Merged(host, d)
      BY <2>6 DEF Merge, CosignInv
    <3> QED BY <1>2, <3>1, MergeKeepsEntries DEF Document
  <2>7. ASSUME NEW pub, NEW key, AttachSole(pub, key)
        PROVE  \A i \in DOMAIN inputs : Entries(host'.sigs[i])
    <3>1. PICK s : s = Partial(pub, Sig(key, host.tx, 1, 0))
      OBVIOUS
    <3>2. s = Partial(s.pub, s.sig) /\ IsSignature(s.sig)
      BY <3>1 DEF Partial, Sig, IsSignature
    <3>3. IsFiniteSet({s})
      BY FS_Singleton
    <3>4. Entries({s})
      BY <3>2, <3>3 DEF Entries
    <3>5. host' = [host EXCEPT !.sigs[1] = {s}]
      BY <2>7, <3>1 DEF AttachSole
    <3>6. PICK sigs : sigs = [host.sigs EXCEPT ![1] = {s}]
      OBVIOUS
    <3>7. host'.sigs = sigs
      BY <2>0, <3>5, <3>6
    <3>8. host.sigs = [i \in DOMAIN inputs |-> host.sigs[i]]
      BY DEF CosignInv, HostShape
    <3>9. \A i \in DOMAIN inputs : sigs[i] = {s} \/ sigs[i] = host.sigs[i]
      BY <3>6, <3>8
    <3> QED BY <3>4, <3>7, <3>9 DEF CosignInv
  <2> QED BY <2>1, <2>2, <2>3, <2>4, <2>5, <2>6, <2>7 DEF Next, vars, Export, Sign
<1>6. (\A i \in DOMAIN inputs : Entries(host.sigs[i]))'
  BY <1>2, <1>5
<1> QED BY <1>1, <1>3, <1>4, <1>6 DEF CosignInv

LEMMA CosignAlways == Spec => []CosignInv
<1>1. Init => CosignInv
  <2> SUFFICES ASSUME Init PROVE CosignInv
    OBVIOUS
  <2>1. HostShape
    BY DEF Init, HostShape, Partial
  <2>2. Entries({})
    BY FS_EmptySet DEF Entries
  <2>3. \A i \in DOMAIN inputs : host.sigs[i] = {}
    BY DEF Init
  <2>4. inputs \in Templates /\ docs = {}
    BY DEF Init
  <2> QED BY <2>1, <2>2, <2>3, <2>4 DEF CosignInv
<1> QED BY <1>1, CosignStep, PTL DEF Spec

(* The invariant makes finalization sound. *)
LEMMA FinalFromInv == CosignInv => FinalizationIsSound
<1> SUFFICES ASSUME CosignInv PROVE FinalizationIsSound
  OBVIOUS
<1>1. ASSUME NEW tx, NEW sigs, NEW i \in DOMAIN inputs, IsList(sigs[i]),
             VerifiedComplete(tx, sigs) = "yes"
      PROVE  Spends(inputs[i], i, tx, Witness(inputs[i], sigs[i]))
  <2>1. HasRequired(inputs[i], sigs[i]) /\ VerifyInput(inputs[i], i, tx, sigs[i])
    BY <1>1, CompleteMeans
  <2>2. IsInput(inputs[i])
    BY InputsAreInputs DEF CosignInv
  <2> QED BY <1>1, <2>1, <2>2, WitnessSpends
<1>2. ASSUME PsktFinal(host), NEW i \in DOMAIN inputs
      PROVE  Spends(inputs[i], i, host.tx, Witness(inputs[i], Collected(host)[i]))
  <2>1. VerifiedComplete(host.tx, Collected(host)) = "yes"
    BY <1>2 DEF PsktFinal
  <2>2. Collected(host)[i] = Collect(inputs[i], host.sigs[i])
    BY DEF Collected
  <2>3. IsList(Collected(host)[i])
    BY <2>2, InputsAreInputs, CollectRelays DEF Relays, CosignInv
  <2> QED BY <1>1, <2>1, <2>3
<1>3. ASSUME NEW d \in docs, KsptFinal(d), NEW i \in DOMAIN inputs
      PROVE  Spends(inputs[i], i, d.tx, Witness(inputs[i], d.sigs[i]))
  <2>1. VerifiedComplete(d.tx, d.sigs) = "yes" /\ IsList(d.sigs[i])
    BY <1>3 DEF KsptFinal, CosignInv, Document, Records
  <2> QED BY <1>1, <2>1
<1>4. FinalIsSpendable
  BY <1>2, <1>3 DEF FinalIsSpendable
<1>5. ASSUME Ordinary, NEW d \in docs
      PROVE  d.flag = (VerifiedComplete(d.tx, d.sigs) = "yes") /\ ParseOk(d)
  <2>1. \A i \in DOMAIN inputs : Records(d.sigs[i])
    BY DEF CosignInv, Document
  <2>2. (d.flag <=> IsFullySigned(d.tx, d.sigs)) /\ d.flag \in BOOLEAN
    BY <1>5 DEF CosignInv, Document
  <2>3. VerifiedComplete(d.tx, d.sigs) = "yes" <=> IsFullySigned(d.tx, d.sigs)
    <3>1. \A i \in DOMAIN inputs : IsList(d.sigs[i]) /\ Len(d.sigs[i]) <= MAX_SIGS
      BY <2>1 DEF Records
    <3>2. inputs \in Templates
      BY DEF CosignInv
    <3> QED BY <1>5, <3>1, <3>2, ChecksAgree
  <2>4. d.flag = (VerifiedComplete(d.tx, d.sigs) = "yes")
    BY <2>2, <2>3
  <2>5. d.flag = IsFullySigned(d.tx, d.sigs)
    BY <2>2 DEF IsFullySigned
  <2> QED BY <2>1, <2>4, <2>5 DEF ParseOk, Records
<1>6. FlagsAgree
  BY <1>5 DEF FlagsAgree
<1> QED BY <1>4, <1>6 DEF FinalizationIsSound

(* Whatever the host or a device finalizes is accepted by the scripts it   *)
(* spends, and the two completeness checks (verify.rs and                  *)
(* signature_verification) agree on every KSPT issued, for any scripts,    *)
(* devices and number of edits and relays.                                 *)
THEOREM FinalizationAlwaysSound == Spec => []FinalizationIsSound
BY CosignAlways, FinalFromInv, PTL

-----------------------------------------------------------------------------
(* Merging in any order.                                                   *)

(* Entries that are good signatures for keys of the branch. *)
Matches(inp, i, tx, X) ==
  \A s \in X : /\ s.sig.key = s.pub /\ s.sig.tx = tx /\ s.sig.input = i
               /\ \E p : p \in PositionsOf(inp, s.pub)

Unique(inp) ==
  \A p \in DOMAIN inp.keys : InBranch(inp, p) => PositionsOf(inp, inp.keys[p]) = {p}

LEMMA HostMatches ==
  ASSUME NEW inp, IsInput(inp), NEW i, NEW tx, NEW H, Entries(H), Collectable(inp, H),
         VerifyInput(inp, i, tx, Collect(inp, H))
  PROVE  Matches(inp, i, tx, H)
<1>1. PICK rs : rs = Collect(inp, H)
  OBVIOUS
<1>2. Relays(rs, inp, H)
  BY <1>1, CollectRelays
<1> SUFFICES ASSUME NEW s \in H
             PROVE  /\ s.sig.key = s.pub /\ s.sig.tx = tx /\ s.sig.input = i
                    /\ \E p : p \in PositionsOf(inp, s.pub)
  BY DEF Matches
<1>3. PICK S : S = PositionsOf(inp, s.pub) /\ Cardinality(S) = 1
  BY DEF Collectable
<1>4. PICK p : p \in S
  <2>1. S # {}
    BY <1>3, FS_EmptySet
  <2> QED BY <2>1
<1>5. p \in PositionsFor(inp, H)
  BY <1>3, <1>4 DEF PositionsFor
<1>6. PICK k \in DOMAIN rs : rs[k].pos = p /\ rs[k].sig = EntryAt(inp, H, p).sig
  BY <1>2, <1>5 DEF Relays, PositionsIn
<1>7. PICK t : t = EntryAt(inp, H, p)
  OBVIOUS
<1>8. t \in H /\ p \in PositionsOf(inp, t.pub)
  BY <1>5, <1>7, EntryFound
<1>9. t.pub = s.pub /\ inp.keys[p] = s.pub
  BY <1>3, <1>4, <1>8 DEF PositionsOf
<1>10. t = s
  BY <1>8, <1>9 DEF Entries
<1>11. Verifies(inp, i, tx, rs[k])
  BY <1>1, <1>6 DEF VerifyInput
<1> QED BY <1>3, <1>4, <1>6, <1>7, <1>9, <1>10, <1>11 DEF Verifies

LEMMA AnswerMatches ==
  ASSUME NEW inp, NEW i, NEW tx, NEW rs, VerifyInput(inp, i, tx, rs)
  PROVE  Matches(inp, i, tx, Bindings(inp, rs))
<1> SUFFICES ASSUME NEW s \in Bindings(inp, rs)
             PROVE  /\ s.sig.key = s.pub /\ s.sig.tx = tx /\ s.sig.input = i
                    /\ \E p : p \in PositionsOf(inp, s.pub)
  BY DEF Matches
<1>1. PICK k \in DOMAIN rs : s = Partial(inp.keys[rs[k].pos], rs[k].sig)
  BY DEF Bindings
<1>2. s.pub = inp.keys[rs[k].pos] /\ s.sig = rs[k].sig
  BY <1>1 DEF Partial
<1>3. Verifies(inp, i, tx, rs[k])
  BY DEF VerifyInput
<1>4. rs[k].pos \in PositionsOf(inp, s.pub)
  BY <1>2, <1>3 DEF Verifies, PositionsOf
<1> QED BY <1>2, <1>3, <1>4 DEF Verifies

LEMMA UnionMatches ==
  ASSUME NEW inp, NEW i, NEW tx, NEW X, NEW Y, Matches(inp, i, tx, X), Matches(inp, i, tx, Y)
  PROVE  Matches(inp, i, tx, X \cup Y)
BY DEF Matches

(* Good entries verify when they are relayed. *)
LEMMA MatchesVerify ==
  ASSUME NEW inp, IsInput(inp), NEW i, NEW tx, NEW X, Matches(inp, i, tx, X)
  PROVE  VerifyInput(inp, i, tx, Collect(inp, X))
<1>1. PICK rs : rs = Collect(inp, X)
  OBVIOUS
<1>2. Relays(rs, inp, X)
  BY <1>1, CollectRelays
<1>3. ASSUME NEW k \in DOMAIN rs
      PROVE  Verifies(inp, i, tx, rs[k])
  <2>1. PICK p, t : p = rs[k].pos /\ t = EntryAt(inp, X, p)
    OBVIOUS
  <2>2. p \in PositionsFor(inp, X) /\ rs[k].sig = t.sig
    BY <1>2, <2>1 DEF Relays
  <2>3. t \in X /\ p \in PositionsOf(inp, t.pub)
    BY <2>1, <2>2, EntryFound
  <2>4. t.sig.key = t.pub /\ t.sig.tx = tx /\ t.sig.input = i
    BY <2>3 DEF Matches
  <2> QED BY <2>1, <2>2, <2>3, <2>4 DEF Verifies, PositionsOf
<1> QED BY <1>1, <1>2, <1>3 DEF VerifyInput, Relays

(* Good entries can be relayed when no key stands twice in the branch. *)
LEMMA MatchesCollect ==
  ASSUME NEW inp, IsInput(inp), Unique(inp), NEW i, NEW tx, NEW X, Entries(X),
         Matches(inp, i, tx, X)
  PROVE  Collectable(inp, X)
<1>1. ASSUME NEW s \in X
      PROVE  Cardinality(PositionsOf(inp, s.pub)) = 1
  <2>1. PICK p : p \in PositionsOf(inp, s.pub)
    BY DEF Matches
  <2>2. p \in DOMAIN inp.keys /\ inp.keys[p] = s.pub /\ InBranch(inp, p)
    BY <2>1 DEF PositionsOf
  <2>3. PositionsOf(inp, s.pub) = {p}
    BY <2>2 DEF Unique
  <2> QED BY <2>3, FS_Singleton
<1>2. ASSUME inp.kind = "p2pk"
      PROVE  Cardinality(X) <= 1
  <2>1. PICK len \in Nat : len = Len(inp.keys) /\ DOMAIN inp.keys = 1 .. len
    BY KeysShape
  <2>2. len = 1
    BY <1>2, <2>1 DEF IsInput
  <2>3. \A p \in DOMAIN inp.keys : p = 1
    BY <2>1, <2>2
  <2>4. \A s \in X : s.pub = inp.keys[1]
    BY <2>3 DEF Matches, PositionsOf
  <2>5. \A s, t \in X : s = t
    BY <2>4 DEF Entries
  <2>6. CASE X = {}
    BY <2>6, FS_EmptySet
  <2>7. CASE X # {}
    <3>1. PICK s : s \in X
      BY <2>7
    <3>2. X = {s}
      BY <2>5, <3>1
    <3>3. Cardinality(X) = 1
      BY <3>2, FS_Singleton
    <3> QED BY <3>3
  <2> QED BY <2>6, <2>7
<1> QED BY <1>1, <1>2 DEF Collectable

(* One input, with the entries H of the PSKT and the records of two        *)
(* answers: what is known when they are merged one after the other.        *)
InTurn(inp, i, tx, H, ra, rb) ==
  /\ Entries(H) /\ Records(ra) /\ Records(rb)
  /\ Collectable(inp, H) /\ VerifyInput(inp, i, tx, Collect(inp, H))
  /\ VerifyInput(inp, i, tx, ra) /\ VerifyInput(inp, i, tx, rb)
  /\ Compatible(H, Bindings(inp, ra))
  /\ Compatible(Insert(H, Bindings(inp, ra)), Bindings(inp, rb))
  /\ Cardinality(Insert(Insert(H, Bindings(inp, ra)), Bindings(inp, rb))) <= MAX_SIGS

Swapped(inp, i, tx, H, ra, rb) ==
  LET A == Bindings(inp, ra)
      B == Bindings(inp, rb)
  IN  /\ Compatible(H, B) /\ Cardinality(Insert(H, B)) <= MAX_SIGS
      /\ Collectable(inp, Insert(H, B)) /\ VerifyInput(inp, i, tx, Collect(inp, Insert(H, B)))
      /\ Compatible(Insert(H, B), A) /\ Cardinality(Insert(Insert(H, B), A)) <= MAX_SIGS
      /\ Insert(Insert(H, A), B) = Insert(Insert(H, B), A)

LEMMA CompatibleSwaps ==
  ASSUME NEW H, NEW A, NEW B, Compatible(H, A), Compatible(H \cup A, B)
  PROVE  Compatible(H, B) /\ Compatible(H \cup B, A)
<1>1. Compatible(H, B)
  BY DEF Compatible
<1>2. Compatible(H \cup B, A)
  <2> SUFFICES ASSUME NEW s \in (H \cup B) \cup A, NEW n \in A, s.pub = n.pub
               PROVE  s.sig = n.sig
    BY DEF Compatible
  <2>1. CASE s \in H \cup A
    BY <2>1 DEF Compatible
  <2>2. CASE s \in B
    <3>1. n \in (H \cup A) \cup B /\ n.pub = s.pub
      OBVIOUS
    <3>2. n.sig = s.sig
      BY <2>2, <3>1 DEF Compatible
    <3> QED BY <3>2
  <2> QED BY <2>1, <2>2
<1> QED BY <1>1, <1>2

LEMMA SwapOnInput ==
  ASSUME NEW inp, IsInput(inp), Unique(inp), NEW i, NEW tx, NEW H, NEW ra, NEW rb,
         InTurn(inp, i, tx, H, ra, rb)
  PROVE  Swapped(inp, i, tx, H, ra, rb)
<1>1. PICK A, B : A = Bindings(inp, ra) /\ B = Bindings(inp, rb)
  OBVIOUS
<1>2. Entries(H) /\ Records(ra) /\ Records(rb)
  BY DEF InTurn
<1>3. Compatible(H, A)
  BY <1>1 DEF InTurn
<1>4. Insert(H, A) = H \cup A /\ Entries(H \cup A)
  BY <1>1, <1>2, <1>3, InsertIsEntries
<1>5. Compatible(H \cup A, B)
  BY <1>1, <1>4 DEF InTurn
<1>6. Insert(H \cup A, B) = (H \cup A) \cup B /\ Entries((H \cup A) \cup B)
  BY <1>1, <1>2, <1>4, <1>5, InsertIsEntries
<1>7. Compatible(H, B) /\ Compatible(H \cup B, A)
  BY <1>3, <1>5, CompatibleSwaps
<1>8. Insert(H, B) = H \cup B /\ Entries(H \cup B)
  BY <1>1, <1>2, <1>7, InsertIsEntries
<1>9. Insert(H \cup B, A) = (H \cup B) \cup A
  BY <1>1, <1>2, <1>7, <1>8, InsertIsEntries
<1>10. (H \cup A) \cup B = (H \cup B) \cup A
  OBVIOUS
<1>11. PICK U : U = (H \cup A) \cup B
  OBVIOUS
<1>12. IsFiniteSet(U) /\ Cardinality(U) <= MAX_SIGS
  BY <1>1, <1>4, <1>6, <1>11 DEF InTurn, Entries
<1>13. Cardinality(H \cup B) <= MAX_SIGS
  <2>1. IsFiniteSet(H \cup B) /\ Cardinality(H \cup B) <= Cardinality(U)
    BY <1>11, <1>12, FS_Subset
  <2>2. Cardinality(H \cup B) \in Nat /\ Cardinality(U) \in Nat /\ MAX_SIGS \in Nat
    BY <1>12, <2>1, FS_CardinalityType, CosignAssumption
  <2> QED BY <1>12, <2>1, <2>2
<1>14. Matches(inp, i, tx, H) /\ Matches(inp, i, tx, B)
  BY <1>1, <1>2, HostMatches, AnswerMatches DEF InTurn
<1>15. Matches(inp, i, tx, H \cup B)
  BY <1>14, UnionMatches
<1>16. Collectable(inp, H \cup B)
  BY <1>8, <1>15, MatchesCollect
<1>17. VerifyInput(inp, i, tx, Collect(inp, H \cup B))
  BY <1>15, MatchesVerify
<1>18. /\ Compatible(H, B) /\ Cardinality(Insert(H, B)) <= MAX_SIGS
       /\ Collectable(inp, Insert(H, B)) /\ VerifyInput(inp, i, tx, Collect(inp, Insert(H, B)))
       /\ Compatible(Insert(H, B), A)
  BY <1>7, <1>8, <1>13, <1>16, <1>17
<1>19. Insert(Insert(H, A), B) = U /\ Insert(Insert(H, B), A) = U
  BY <1>4, <1>6, <1>8, <1>9, <1>10, <1>11
<1> QED BY <1>1, <1>12, <1>18, <1>19, Zenon DEF Swapped

HostRecord(h) ==
  /\ h = [tx |-> h.tx, hint |-> h.hint, sigs |-> h.sigs]
  /\ h.sigs = [i \in DOMAIN inputs |-> h.sigs[i]]

LEMMA MergedRecord ==
  ASSUME NEW h, HostRecord(h), NEW d
  PROVE  /\ HostRecord(Merged(h, d)) /\ Merged(h, d).tx = h.tx /\ Merged(h, d).hint = h.hint
         /\ \A i \in DOMAIN inputs :
              Merged(h, d).sigs[i] = Insert(h.sigs[i], Bindings(inputs[i], d.sigs[i]))
<1>1. PICK sigs : sigs = [i \in DOMAIN inputs |-> Insert(h.sigs[i], Bindings(inputs[i], d.sigs[i]))]
  OBVIOUS
<1>2. PICK m : m = Merged(h, d)
  OBVIOUS
<1>3. m = [h EXCEPT !.sigs = sigs]
  BY <1>1, <1>2 DEF Merged
<1>4. h = [tx |-> h.tx, hint |-> h.hint, sigs |-> h.sigs]
  BY DEF HostRecord
<1>5. m = [tx |-> h.tx, hint |-> h.hint, sigs |-> sigs]
  BY <1>3, <1>4
<1>6. m.tx = h.tx /\ m.hint = h.hint /\ m.sigs = sigs
  BY <1>5
<1>7. /\ sigs = [i \in DOMAIN inputs |-> sigs[i]]
      /\ \A i \in DOMAIN inputs : sigs[i] = Insert(h.sigs[i], Bindings(inputs[i], d.sigs[i]))
  BY <1>1
<1>8. HostRecord(m)
  BY <1>5, <1>6, <1>7 DEF HostRecord
<1> QED BY <1>2, <1>6, <1>7, <1>8

LEMMA RecordsEqual ==
  ASSUME NEW g, NEW h, HostRecord(g), HostRecord(h), g.tx = h.tx, g.hint = h.hint,
         \A i \in DOMAIN inputs : g.sigs[i] = h.sigs[i]
  PROVE  g = h
<1>1. g.sigs = h.sigs
  BY DEF HostRecord
<1> QED BY <1>1 DEF HostRecord

(* What verifies everywhere is no error. *)
LEMMA VerifiedIsNoError ==
  ASSUME NEW tx, NEW sigs, VerifyAll(tx, sigs)
  PROVE  VerifiedComplete(tx, sigs) # "err"
BY DEF VerifyAll, VerifiedComplete

LEMMA OrderFree ==
  ASSUME CosignInv, Unambiguous, NEW a \in docs, NEW b \in docs,
         MergeOk(host, a), MergeOk(Merged(host, a), b)
  PROVE  /\ MergeOk(host, b) /\ MergeOk(Merged(host, b), a)
         /\ Merged(Merged(host, a), b) = Merged(Merged(host, b), a)
<1>1. PICK ma, mb : ma = Merged(host, a) /\ mb = Merged(host, b)
  OBVIOUS
<1>2. HostRecord(host)
  BY DEF CosignInv, HostShape, HostRecord
<1>3. /\ HostRecord(ma) /\ ma.tx = host.tx /\ ma.hint = host.hint
      /\ \A i \in DOMAIN inputs : ma.sigs[i] = Insert(host.sigs[i], Bindings(inputs[i], a.sigs[i]))
  BY <1>1, <1>2, MergedRecord
<1>4. /\ HostRecord(mb) /\ mb.tx = host.tx /\ mb.hint = host.hint
      /\ \A i \in DOMAIN inputs : mb.sigs[i] = Insert(host.sigs[i], Bindings(inputs[i], b.sigs[i]))
  BY <1>1, <1>2, MergedRecord
<1>5. /\ a.tx = host.tx /\ a.hint = host.hint /\ b.tx = host.tx /\ b.hint = host.hint
      /\ Encodable(host) /\ VerifyAll(host.tx, Collected(host))
      /\ VerifyAll(host.tx, a.sigs) /\ VerifyAll(host.tx, b.sigs)
      /\ (\E i \in DOMAIN inputs : a.sigs[i] # <<>>) /\ (\E i \in DOMAIN inputs : b.sigs[i] # <<>>)
  BY <1>1, <1>3 DEF MergeOk, SameBody
<1>6. ASSUME NEW i \in DOMAIN inputs
      PROVE  /\ inputs[i].kind = "p2pk" => Len(a.sigs[i]) <= 1
             /\ inputs[i].kind = "p2pk" => Len(b.sigs[i]) <= 1
             /\ Swapped(inputs[i], i, host.tx, host.sigs[i], a.sigs[i], b.sigs[i])
  <2>1. IsInput(inputs[i]) /\ Unique(inputs[i])
    BY InputsAreInputs DEF CosignInv, Unambiguous, Unique
  <2>2. Entries(host.sigs[i]) /\ Records(a.sigs[i]) /\ Records(b.sigs[i])
    BY DEF CosignInv, Document
  <2>3. Collected(host)[i] = Collect(inputs[i], host.sigs[i])
    BY DEF Collected
  <2>4. /\ Collectable(inputs[i], host.sigs[i])
        /\ VerifyInput(inputs[i], i, host.tx, Collect(inputs[i], host.sigs[i]))
        /\ VerifyInput(inputs[i], i, host.tx, a.sigs[i])
        /\ VerifyInput(inputs[i], i, host.tx, b.sigs[i])
    BY <1>5, <2>3 DEF Encodable, VerifyAll
  <2>5. /\ inputs[i].kind = "p2pk" => Len(a.sigs[i]) <= 1
        /\ Compatible(host.sigs[i], Bindings(inputs[i], a.sigs[i]))
    BY DEF MergeOk
  <2>6. /\ inputs[i].kind = "p2pk" => Len(b.sigs[i]) <= 1
        /\ Compatible(ma.sigs[i], Bindings(inputs[i], b.sigs[i]))
        /\ Cardinality(Insert(ma.sigs[i], Bindings(inputs[i], b.sigs[i]))) <= MAX_SIGS
    BY <1>1 DEF MergeOk
  <2>7. InTurn(inputs[i], i, host.tx, host.sigs[i], a.sigs[i], b.sigs[i])
    BY <1>3, <2>2, <2>4, <2>5, <2>6 DEF InTurn
  <2> QED BY <2>1, <2>5, <2>6, <2>7, SwapOnInput
<1>7. MergeOk(host, b)
  BY <1>5, <1>6 DEF MergeOk, SameBody, Swapped
<1>8. ASSUME NEW i \in DOMAIN inputs
      PROVE  /\ Collectable(inputs[i], mb.sigs[i]) /\ Cardinality(mb.sigs[i]) <= MAX_SIGS
             /\ VerifyInput(inputs[i], i, host.tx, Collect(inputs[i], mb.sigs[i]))
             /\ Compatible(mb.sigs[i], Bindings(inputs[i], a.sigs[i]))
             /\ Cardinality(Insert(mb.sigs[i], Bindings(inputs[i], a.sigs[i]))) <= MAX_SIGS
             /\ Insert(ma.sigs[i], Bindings(inputs[i], b.sigs[i]))
                  = Insert(mb.sigs[i], Bindings(inputs[i], a.sigs[i]))
  BY <1>3, <1>4, <1>6 DEF Swapped
<1>9. VerifyAll(mb.tx, Collected(mb))
  <2>1. \A i \in DOMAIN inputs : Collected(mb)[i] = Collect(inputs[i], mb.sigs[i])
    BY DEF Collected
  <2> QED BY <1>4, <1>8, <2>1 DEF VerifyAll
<1>10. Encodable(mb)
  BY <1>8, <1>9, VerifiedIsNoError DEF Encodable
<1>11. MergeOk(mb, a)
  BY <1>4, <1>5, <1>6, <1>8, <1>9, <1>10 DEF MergeOk, SameBody
<1>12. Merged(ma, b) = Merged(mb, a)
  <2>1. PICK x, y : x = Merged(ma, b) /\ y = Merged(mb, a)
    OBVIOUS
  <2>2. /\ HostRecord(x) /\ x.tx = host.tx /\ x.hint = host.hint
        /\ \A i \in DOMAIN inputs : x.sigs[i] = Insert(ma.sigs[i], Bindings(inputs[i], b.sigs[i]))
    BY <1>3, <2>1, MergedRecord
  <2>3. /\ HostRecord(y) /\ y.tx = host.tx /\ y.hint = host.hint
        /\ \A i \in DOMAIN inputs : y.sigs[i] = Insert(mb.sigs[i], Bindings(inputs[i], a.sigs[i]))
    BY <1>4, <2>1, MergedRecord
  <2>4. \A i \in DOMAIN inputs : x.sigs[i] = y.sigs[i]
    BY <1>8, <2>2, <2>3
  <2> QED BY <2>1, <2>2, <2>3, <2>4, RecordsEqual
<1> QED BY <1>1, <1>7, <1>11, <1>12

(* Deterministic signatures of one key for one input are the same, and     *)
(* there are no more of them than keys.                                    *)
LEMMA RetryOnInput ==
  ASSUME NEW inp, IsInput(inp), Len(inp.keys) <= MAX_SIGS, NEW i, NEW tx,
         NEW H, Entries(H), Matches(inp, i, tx, H), \A s \in H : s.sig.nonce = 0,
         NEW rs, Records(rs), VerifyInput(inp, i, tx, rs),
         \A k \in DOMAIN rs : rs[k].sig.nonce = 0
  PROVE  /\ inp.kind = "p2pk" => Len(rs) <= 1
         /\ Compatible(H, Bindings(inp, rs))
         /\ Cardinality(Insert(H, Bindings(inp, rs))) <= MAX_SIGS
<1>1. PICK B : B = Bindings(inp, rs)
  OBVIOUS
<1>2. Matches(inp, i, tx, B) /\ Matches(inp, i, tx, H \cup B)
  BY <1>1, AnswerMatches, UnionMatches
<1>3. \A s \in H \cup B : IsSignature(s.sig) /\ s.sig.nonce = 0
  <2>1. \A s \in B : IsSignature(s.sig)
    BY <1>1, BindingsFinite
  <2>2. ASSUME NEW s \in B
        PROVE  s.sig.nonce = 0
    <3>1. PICK k \in DOMAIN rs : s = Partial(inp.keys[rs[k].pos], rs[k].sig)
      BY <1>1 DEF Bindings
    <3>2. s.sig = rs[k].sig
      BY <3>1 DEF Partial
    <3> QED BY <3>2
  <2> QED BY <2>1, <2>2 DEF Entries
<1>4. Compatible(H, B)
  <2> SUFFICES ASSUME NEW s \in H \cup B, NEW n \in B, s.pub = n.pub
               PROVE  s.sig = n.sig
    BY DEF Compatible
  <2>1. s.sig = Sig(s.pub, tx, i, 0) /\ n.sig = Sig(n.pub, tx, i, 0)
    BY <1>2, <1>3 DEF Matches, IsSignature
  <2> QED BY <2>1
<1>5. PICK len \in Nat : len = Len(inp.keys) /\ DOMAIN inp.keys = 1 .. len
  BY KeysShape
<1>6. PICK X : X = H \cup B /\ Entries(X) /\ Insert(H, B) = X
  BY <1>1, <1>4, InsertIsEntries
<1>7. Cardinality(X) <= MAX_SIGS
  <2>1. PICK f : f = [s \in X |-> CHOOSE p : p \in PositionsOf(inp, s.pub)]
    OBVIOUS
  <2>2. \A s \in X : f[s] \in PositionsOf(inp, s.pub)
    BY <1>2, <1>6, <2>1 DEF Matches
  <2>3. \A s \in X : f[s] \in 1 .. len /\ inp.keys[f[s]] = s.pub
    BY <1>5, <2>2 DEF PositionsOf
  <2>4. \A s, t \in X : f[s] = f[t] => s = t
    BY <1>6, <2>3 DEF Entries
  <2>5. f \in Injection(X, 1 .. len)
    BY <2>1, <2>3, <2>4 DEF Injection, IsInjective
  <2>6. IsFiniteSet(1 .. len) /\ Cardinality(1 .. len) = len
    BY FS_Interval
  <2>7. Cardinality(X) <= len /\ IsFiniteSet(X)
    BY <2>5, <2>6, FS_Injection
  <2>8. Cardinality(X) \in Nat /\ MAX_SIGS \in Nat
    BY <2>7, FS_CardinalityType, CosignAssumption
  <2> QED BY <1>5, <2>7, <2>8
<1>8. ASSUME inp.kind = "p2pk"
      PROVE  Len(rs) <= 1
  <2>1. len = 1
    BY <1>5, <1>8 DEF IsInput
  <2>2. PICK n \in Nat : n = Len(rs) /\ DOMAIN rs = 1 .. n
    BY ListShape DEF Records
  <2>3. \A k \in 1 .. n : rs[k].pos = 1
    BY <1>5, <2>1, <2>2 DEF VerifyInput, Verifies
  <2>4. \A j, k \in 1 .. n : j = k
    BY <2>2, <2>3 DEF VerifyInput, DistinctPositions
  <2> QED BY <2>2, <2>4
<1> QED BY <1>1, <1>4, <1>6, <1>7, <1>8

LEMMA RetryFits ==
  ASSUME CosignInv, Roomy, NEW d \in docs, Deterministic(d), Answers(d), Intact(host)
  PROVE  MergeOk(host, d)
<1>1. /\ SameBody(host, d) /\ VerifyAll(d.tx, d.sigs) /\ d.tx = host.tx
      /\ (\E i \in DOMAIN inputs : d.sigs[i] # <<>>)
      /\ Encodable(host) /\ VerifyAll(host.tx, Collected(host))
  BY DEF Answers, Intact, SameBody
<1>2. ASSUME NEW i \in DOMAIN inputs
      PROVE  /\ inputs[i].kind = "p2pk" => Len(d.sigs[i]) <= 1
             /\ Compatible(host.sigs[i], Bindings(inputs[i], d.sigs[i]))
             /\ Cardinality(Insert(host.sigs[i], Bindings(inputs[i], d.sigs[i]))) <= MAX_SIGS
  <2>1. PICK inp, H, rs : inp = inputs[i] /\ H = host.sigs[i] /\ rs = d.sigs[i]
    OBVIOUS
  <2>2. IsInput(inp) /\ Len(inp.keys) <= MAX_SIGS
    BY <2>1, InputsAreInputs DEF CosignInv, Roomy
  <2>3. Entries(H) /\ Records(rs)
    BY <2>1 DEF CosignInv, Document
  <2>4. Collected(host)[i] = Collect(inp, H)
    BY <2>1 DEF Collected
  <2>5. /\ Collectable(inp, H) /\ VerifyInput(inp, i, host.tx, Collect(inp, H))
        /\ VerifyInput(inp, i, host.tx, rs)
    BY <1>1, <2>1, <2>4 DEF Encodable, VerifyAll
  <2>6. Matches(inp, i, host.tx, H)
    BY <2>2, <2>3, <2>5, HostMatches
  <2>7. (\A s \in H : s.sig.nonce = 0) /\ (\A k \in DOMAIN rs : rs[k].sig.nonce = 0)
    BY <2>1 DEF Deterministic
  <2>8. /\ inp.kind = "p2pk" => Len(rs) <= 1
        /\ Compatible(H, Bindings(inp, rs))
        /\ Cardinality(Insert(H, Bindings(inp, rs))) <= MAX_SIGS
    BY <2>2, <2>3, <2>5, <2>6, <2>7, RetryOnInput
  <2> QED BY <2>1, <2>8
<1> QED BY <1>1, <1>2 DEF MergeOk

(* The answers of cosigners can be merged in either order with the same    *)
(* result (merge.rs, validate_and_merge), and with deterministic signers   *)
(* an answer can be merged whenever it arrives, again too.                 *)
THEOREM MergeAlwaysOrderFree == Spec => []MergeIsOrderFree
<1>1. CosignInv => MergeCommutes
  BY OrderFree DEF MergeCommutes
<1>2. CosignInv => RetryMerges
  BY RetryFits DEF RetryMerges
<1>3. CosignInv => MergeIsOrderFree
  BY <1>1, <1>2 DEF MergeIsOrderFree
<1> QED BY <1>3, CosignAlways, PTL
=============================================================================
