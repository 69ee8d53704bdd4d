--------------------------- MODULE IndexerProofs ---------------------------
(***************************************************************************)
(* The index stays sound for every configuration: all limits, rules,       *)
(* chains, saved states and uses of the API.                               *)
(***************************************************************************)
EXTENDS Indexer, IterationProofs, FiniteSetTheorems

-----------------------------------------------------------------------------
(* Remove keeps the other elements, each once and in their order.           *)

(* f says where the elements of r stand in s. *)
Embeds(f, r, s) ==
  /\ f \in [1 .. Len(r) -> 1 .. Len(s)]
  /\ \A i, j \in 1 .. Len(r) : i < j => f[i] < f[j]
  /\ \A i \in 1 .. Len(r) : r[i] = s[f[i]]

KeptUpTo(s, G, r, k, f) ==
  /\ f \in [1 .. Len(r) -> 1 .. k]
  /\ \A i, j \in 1 .. Len(r) : i < j => f[i] < f[j]
  /\ \A i \in 1 .. Len(r) : r[i] = s[f[i]] /\ r[i] \notin G
  /\ \A i \in 1 .. k : s[i] \notin G => \E j \in 1 .. Len(r) : f[j] = i

Kept(g, s, G) ==
  g = [i \in 0 .. Len(s) |-> IF i = 0 THEN <<>>
                             ELSE IF s[i] \in G THEN g[i - 1] ELSE Append(g[i - 1], s[i])]

LEMMA KeptExists ==
  ASSUME NEW S, NEW s \in Seq(S), NEW G
  PROVE  \E g \in [0 .. Len(s) -> Seq(S)] : Kept(g, s, G)
<1>0. Len(s) \in Nat /\ \A i \in 1 .. Len(s) : s[i] \in S
  BY LenProperties, ElementOfSeq
<1>1. PICK n \in Nat : n = Len(s)
  BY <1>0
<1>2. PICK V : V = Seq(S)
  OBVIOUS
<1>3. \A i \in 1 .. n, w \in V : (IF s[i] \in G THEN w ELSE Append(w, s[i])) \in V
  BY <1>0, <1>1, <1>2, AppendProperties
<1>4. PICK step : step = [i \in 1 .. n |-> [w \in V |-> IF s[i] \in G THEN w ELSE Append(w, s[i])]]
  OBVIOUS
<1>5. step \in [1 .. n -> [V -> V]]
  BY <1>3, <1>4
<1>6. <<>> \in V
  BY <1>2
<1>7. PICK g \in [0 .. n -> V] : Iterates(g, <<>>, n, step)
  BY <1>5, <1>6, IterExists
<1>8. \A i \in 0 .. n : g[i] = IF i = 0 THEN <<>>
                               ELSE IF s[i] \in G THEN g[i - 1] ELSE Append(g[i - 1], s[i])
  <2> SUFFICES ASSUME NEW i \in 0 .. n, i # 0
               PROVE  g[i] = IF s[i] \in G THEN g[i - 1] ELSE Append(g[i - 1], s[i])
    BY <1>7 DEF Iterates
  <2>1. i \in 1 .. n /\ i - 1 \in 0 .. n
    OBVIOUS
  <2>2. g[i] = step[i][g[i - 1]] /\ g[i - 1] \in V
    BY <1>7, <2>1 DEF Iterates
  <2> QED BY <1>4, <2>1, <2>2
<1>9. Kept(g, s, G)
  BY <1>1, <1>7, <1>8 DEF Kept
<1> QED BY <1>1, <1>2, <1>7, <1>9

LEMMA RemoveKeeps ==
  ASSUME NEW S, NEW s \in Seq(S), NEW G
  PROVE  /\ Remove(s, G) \in Seq(S)
         /\ \E f : KeptUpTo(s, G, Remove(s, G), Len(s), f)
<1> DEFINE g == CHOOSE g : Kept(g, s, G)
<1>0. PICK n \in Nat : n = Len(s)
  BY LenProperties
<1>e. PICK h \in [0 .. n -> Seq(S)] : Kept(h, s, G)
  BY <1>0, KeptExists
<1>k. Kept(g, s, G)
  BY <1>e, Zenon
<1>1. Remove(s, G) = g[n]
  BY <1>0, Zenon DEF Remove, Kept
<1> HIDE DEF g
<1>2. /\ g[0] = <<>>
      /\ \A i \in 1 .. n : g[i] = IF s[i] \in G THEN g[i - 1] ELSE Append(g[i - 1], s[i])
  <2>1. g = [i \in 0 .. n |-> IF i = 0 THEN <<>>
                             ELSE IF s[i] \in G THEN g[i - 1] ELSE Append(g[i - 1], s[i])]
    BY <1>0, <1>k DEF Kept
  <2>2. 0 \in 0 .. n /\ \A i \in 1 .. n : i \in 0 .. n /\ i # 0
    OBVIOUS
  <2>3. \A i \in 0 .. n : g[i] = IF i = 0 THEN <<>>
                                 ELSE IF s[i] \in G THEN g[i - 1] ELSE Append(g[i - 1], s[i])
    BY <2>1, Zenon
  <2> QED BY <2>2, <2>3
<1> DEFINE P == {k \in 0 .. n : g[k] \in Seq(S) /\ \E f : KeptUpTo(s, G, g[k], k, f)}
<1>3. 0 \in P
  <2>1. g[0] \in Seq(S) /\ Len(g[0]) = 0
    BY <1>2
  <2>2. KeptUpTo(s, G, g[0], 0, [i \in {} |-> 0])
    BY <2>1 DEF KeptUpTo
  <2> QED BY <2>1, <2>2
<1>4. ASSUME NEW k \in 1 .. n, k - 1 \in P
      PROVE  k \in P
  <2>1. PICK r : r = g[k - 1]
    OBVIOUS
  <2>2. PICK f : KeptUpTo(s, G, r, k - 1, f)
    BY <1>4, <2>1
  <2>3. r \in Seq(S) /\ Len(r) \in Nat
    BY <1>4, <2>1, LenProperties
  <2>4. CASE s[k] \in G
    <3>1. g[k] = r
      BY <1>2, <2>1, <2>4
    <3>2. KeptUpTo(s, G, r, k, f)
      <4>1. f \in [1 .. Len(r) -> 1 .. k]
        BY <2>2, <2>3 DEF KeptUpTo
      <4>2. \A i \in 1 .. k : s[i] \notin G => i \in 1 .. k - 1
        BY <2>4
      <4> QED BY <2>2, <4>1, <4>2 DEF KeptUpTo
    <3> QED BY <2>3, <3>1, <3>2
  <2>5. CASE s[k] \notin G
    <3>1. PICK q : q = Append(r, s[k])
      OBVIOUS
    <3>2. g[k] = q
      BY <1>2, <2>1, <2>5, <3>1
    <3>s. s[k] \in S
      BY <1>0, ElementOfSeq
    <3>3. /\ q \in Seq(S) /\ Len(q) = Len(r) + 1
          /\ \A i \in 1 .. Len(r) : q[i] = r[i]
          /\ q[Len(r) + 1] = s[k]
      BY <2>3, <3>1, <3>s, AppendProperties
    <3>4. PICK m \in Nat : m = Len(r)
      BY <2>3
    <3>5. PICK e : e = [i \in 1 .. m + 1 |-> IF i = m + 1 THEN k ELSE f[i]]
      OBVIOUS
    <3>6. /\ \A i \in 1 .. m : e[i] = f[i] /\ f[i] \in 1 .. k - 1 /\ i \in 1 .. m + 1
          /\ e[m + 1] = k /\ m + 1 \in 1 .. m + 1
          /\ \A i \in 1 .. m + 1 : i = m + 1 \/ i \in 1 .. m
      <4>1. /\ \A i \in 1 .. m : i \in 1 .. m + 1 /\ i # m + 1
            /\ m + 1 \in 1 .. m + 1
            /\ \A i \in 1 .. m + 1 : i = m + 1 \/ i \in 1 .. m
        OBVIOUS
      <4>2. f \in [1 .. m -> 1 .. k - 1]
        BY <2>2, <3>4 DEF KeptUpTo
      <4> QED BY <3>5, <4>1, <4>2
    <3>7. e \in [1 .. m + 1 -> 1 .. k]
      <4>1. k \in 1 .. k /\ \A v \in 1 .. k - 1 : v \in 1 .. k
        OBVIOUS
      <4>2. \A i \in 1 .. m + 1 : e[i] \in 1 .. k
        BY <3>6, <4>1, Zenon
      <4> QED BY <3>5, <4>2
    <3>8. \A i, j \in 1 .. m + 1 : i < j => e[i] < e[j]
      <4> SUFFICES ASSUME NEW i \in 1 .. m + 1, NEW j \in 1 .. m + 1, i < j
                   PROVE  e[i] < e[j]
        OBVIOUS
      <4>1. i \in 1 .. m
        BY <3>4
      <4>2. CASE j = m + 1
        <5>1. e[i] \in 1 .. k - 1 /\ e[j] = k
          BY <3>6, <4>1, <4>2
        <5> QED BY <5>1
      <4>3. CASE j \in 1 .. m
        BY <2>2, <3>4, <3>6, <4>1, <4>3 DEF KeptUpTo
      <4> QED BY <3>6, <4>2, <4>3
    <3>9. \A i \in 1 .. m + 1 : q[i] = s[e[i]] /\ q[i] \notin G
      BY <2>2, <2>5, <3>3, <3>4, <3>6 DEF KeptUpTo
    <3>10. \A i \in 1 .. k : s[i] \notin G => \E j \in 1 .. m + 1 : e[j] = i
      <4> SUFFICES ASSUME NEW i \in 1 .. k, s[i] \notin G
                   PROVE  \E j \in 1 .. m + 1 : e[j] = i
        OBVIOUS
      <4>1. CASE i = k
        BY <3>6, <4>1
      <4>2. CASE i # k
        <5>1. i \in 1 .. k - 1
          BY <4>2
        <5>2. PICK j \in 1 .. m : f[j] = i
          BY <2>2, <3>4, <5>1 DEF KeptUpTo
        <5> QED BY <3>6, <5>2
      <4> QED BY <4>1, <4>2
    <3>11. Len(q) = m + 1
      BY <3>3, <3>4
    <3>12. KeptUpTo(s, G, q, k, e)
      BY <3>7, <3>8, <3>9, <3>10, <3>11 DEF KeptUpTo
    <3> QED BY <3>2, <3>3, <3>12
  <2> QED BY <2>4, <2>5
<1> HIDE DEF P
<1>5. \A k \in 0 .. n : k \in P
  BY <1>3, <1>4, InductTo
<1>6. n \in P
  BY <1>5
<1> QED BY <1>0, <1>1, <1>6 DEF P

(* What is kept of a sequence: some of its elements, in their order. *)
LEMMA EmbedsFacts ==
  ASSUME NEW S, NEW s \in Seq(S), NEW r \in Seq(S), NEW f, Embeds(f, r, s)
  PROVE  /\ Len(r) <= Len(s)
         /\ Distinct(s) => Distinct(r)
         /\ SingleMatches(s) => SingleMatches(r)
<1>0. PICK m \in Nat, n \in Nat : m = Len(r) /\ n = Len(s) /\ DOMAIN r = 1 .. m /\ DOMAIN s = 1 .. n
  BY LenProperties
<1>1. /\ f \in [1 .. m -> 1 .. n]
      /\ \A i, j \in 1 .. m : i < j => f[i] < f[j]
      /\ \A i \in 1 .. m : r[i] = s[f[i]]
  BY <1>0 DEF Embeds
<1>2. m <= n
  <2> DEFINE P == {i \in 0 .. m : i = 0 \/ f[i] >= i}
  <2>1. 0 \in P
    OBVIOUS
  <2>2. ASSUME NEW i \in 1 .. m, i - 1 \in P
        PROVE  i \in P
    <3>1. i \in 0 .. m /\ f[i] \in 1 .. n
      BY <1>1
    <3>2. CASE i = 1
      BY <3>1, <3>2
    <3>3. CASE i # 1
      <4>1. i - 1 \in 1 .. m /\ i - 1 < i
        BY <3>3
      <4>2. f[i - 1] >= i - 1 /\ f[i - 1] < f[i] /\ f[i - 1] \in 1 .. n
        BY <1>1, <2>2, <3>3, <4>1
      <4>3. f[i] >= i
        BY <3>1, <4>2
      <4> QED BY <3>1, <4>3
    <3> QED BY <3>2, <3>3
  <2> HIDE DEF P
  <2>3. \A i \in 0 .. m : i \in P
    BY <2>1, <2>2, InductTo
  <2>4. m = 0 \/ f[m] >= m
    BY <2>3 DEF P
  <2>5. m # 0 => f[m] \in 1 .. n
    BY <1>1
  <2> QED BY <2>4, <2>5
<1>3. \A i, j \in 1 .. m : f[i] = f[j] => i = j
  <2> SUFFICES ASSUME NEW i \in 1 .. m, NEW j \in 1 .. m, f[i] = f[j], i # j PROVE FALSE
    OBVIOUS
  <2>1. f[i] \in 1 .. n /\ (i < j \/ j < i)
    BY <1>1
  <2>2. f[i] < f[j] \/ f[j] < f[i]
    BY <1>1, <2>1
  <2> QED BY <2>1, <2>2
<1>4. Distinct(s) => Distinct(r)
  BY <1>0, <1>1, <1>3 DEF Distinct
<1>5. SingleMatches(s) => SingleMatches(r)
  BY <1>0, <1>1, <1>3 DEF SingleMatches
<1> QED BY <1>0, <1>2, <1>4, <1>5

LEMMA RemoveFacts ==
  ASSUME NEW S, NEW s \in Seq(S), NEW G, NEW r, r = Remove(s, G)
  PROVE  /\ r \in Seq(S) /\ \E f : Embeds(f, r, s)
         /\ Range(r) = Range(s) \ G
<1>1. r \in Seq(S) /\ Len(r) \in Nat /\ Len(s) \in Nat /\ DOMAIN r = 1 .. Len(r) /\ DOMAIN s = 1 .. Len(s)
  BY RemoveKeeps, LenProperties
<1>2. PICK f : KeptUpTo(s, G, r, Len(s), f)
  BY RemoveKeeps
<1>3. Embeds(f, r, s)
  BY <1>2 DEF KeptUpTo, Embeds
<1>4. Range(r) \subseteq Range(s) \ G
  BY <1>1, <1>2 DEF KeptUpTo, Range
<1>5. ASSUME NEW i \in 1 .. Len(s), s[i] \notin G
      PROVE  s[i] \in Range(r)
  <2>1. PICK j \in 1 .. Len(r) : f[j] = i
    BY <1>2, <1>5 DEF KeptUpTo
  <2>2. r[j] = s[i]
    BY <1>2, <2>1 DEF KeptUpTo
  <2> QED BY <1>1, <2>2 DEF Range
<1> QED BY <1>1, <1>3, <1>4, <1>5 DEF Range

LEMMA AfterFacts ==
  ASSUME NEW S, NEW s \in Seq(S), NEW n \in 0 .. Len(s), NEW r, r = After(s, n)
  PROVE  /\ r \in Seq(S) /\ Len(r) = Len(s) - n /\ Len(r) \in Nat /\ DOMAIN r = 1 .. Len(r)
         /\ \A i \in 1 .. Len(r) : r[i] = s[i + n] /\ i + n \in 1 .. Len(s)
         /\ \E f : Embeds(f, r, s)
<1>0. PICK l \in Nat : l = Len(s) /\ n \in 0 .. l /\ n + 1 \in 1 .. l + 1
  BY LenProperties
<1>1. /\ r \in Seq(S)
      /\ Len(r) = IF n + 1 <= l THEN l - (n + 1) + 1 ELSE 0
      /\ \A i \in 1 .. l - (n + 1) + 1 : r[i] = s[n + 1 + i - 1]
  BY <1>0, SubSeqProperties DEF After
<1>2. Len(r) = l - n /\ Len(r) \in Nat
  BY <1>0, <1>1
<1>3. DOMAIN r = 1 .. Len(r)
  BY <1>1, LenProperties
<1>4. \A i \in 1 .. Len(r) : r[i] = s[i + n] /\ i + n \in 1 .. l
  BY <1>0, <1>1, <1>2
<1>5. Embeds([i \in 1 .. Len(r) |-> i + n], r, s)
  BY <1>0, <1>2, <1>4 DEF Embeds
<1> QED BY <1>0, <1>1, <1>2, <1>3, <1>4, <1>5

LEMMA LastOfIsAfter ==
  ASSUME NEW S, NEW s \in Seq(S), NEW n \in Nat
  PROVE  \E d \in 0 .. Len(s) : LastOf(s, n) = After(s, d) /\ Len(s) - d <= n
                               /\ (Len(s) <= n => d = 0) /\ (Len(s) > n => Len(s) - d = n)
<1>0. Len(s) \in Nat
  BY LenProperties
<1>1. CASE Len(s) <= n
  <2>1. After(s, 0) = s
    BY <1>0, SubSeqFull DEF After
  <2>2. LastOf(s, n) = s
    BY <1>1 DEF LastOf
  <2> QED BY <1>0, <1>1, <2>1, <2>2
<1>2. CASE ~(Len(s) <= n)
  <2>1. LastOf(s, n) = After(s, Len(s) - n)
    BY <1>2 DEF LastOf, After
  <2> QED BY <1>0, <1>2, <2>1
<1> QED BY <1>1, <1>2

(* The front that leaves a queue and what stays of it are disjoint. *)
LEMMA FrontAndRest ==
  ASSUME NEW S, NEW s \in Seq(S), NEW n \in 0 .. Len(s)
  PROVE  /\ Range(SubSeq(s, 1, n)) = {s[i] : i \in 1 .. n}
         /\ Range(SubSeq(s, 1, n)) \subseteq Range(s)
         /\ Distinct(s) => Range(After(s, n)) = Range(s) \ Range(SubSeq(s, 1, n))
<1>0. PICK l \in Nat : l = Len(s) /\ n \in 0 .. l /\ n \in Nat /\ DOMAIN s = 1 .. l
  BY LenProperties
<1>1. PICK q : q = SubSeq(s, 1, n)
  OBVIOUS
<1>2. DOMAIN q = 1 .. n /\ \A i \in 1 .. n : q[i] = s[i]
  <2>1. /\ q \in Seq(S) /\ Len(q) = IF 1 <= n THEN n - 1 + 1 ELSE 0
        /\ \A i \in 1 .. n - 1 + 1 : q[i] = s[1 + i - 1]
    <3>1. 1 \in 1 .. l + 1 /\ n \in 1 - 1 .. l
      BY <1>0
    <3> QED BY <1>0, <1>1, <3>1, SubSeqProperties
  <2>2. Len(q) = n
    BY <1>0, <2>1
  <2>3. DOMAIN q = 1 .. n
    BY <2>1, <2>2, LenProperties
  <2> QED BY <1>0, <2>1, <2>3
<1>3. Range(q) = {s[i] : i \in 1 .. n}
  BY <1>2 DEF Range
<1>4. \A i \in 1 .. n : i \in 1 .. l
  BY <1>0
<1>5. Range(q) \subseteq Range(s)
  BY <1>0, <1>3, <1>4 DEF Range
<1>6. ASSUME Distinct(s) PROVE Range(After(s, n)) = Range(s) \ Range(q)
  <2>1. PICK r : r = After(s, n)
    OBVIOUS
  <2>2. /\ Len(r) = l - n /\ DOMAIN r = 1 .. l - n
        /\ \A i \in 1 .. l - n : r[i] = s[i + n] /\ i + n \in 1 .. l
    BY <1>0, <2>1, AfterFacts
  <2>3. ASSUME NEW i \in 1 .. l - n PROVE r[i] \in Range(s) /\ r[i] \notin Range(q)
    <3>1. r[i] = s[i + n] /\ i + n \in 1 .. l
      BY <2>2
    <3>2. \A j \in 1 .. n : s[j] # s[i + n]
      <4> SUFFICES ASSUME NEW j \in 1 .. n, s[j] = s[i + n] PROVE FALSE
        OBVIOUS
      <4>1. j = i + n
        BY <1>0, <1>4, <1>6, <3>1 DEF Distinct
      <4> QED BY <1>0, <4>1
    <3> QED BY <1>0, <1>3, <3>1, <3>2 DEF Range
  <2>4. ASSUME NEW j \in 1 .. l, s[j] \notin Range(q) PROVE s[j] \in Range(r)
    <3>1. j \notin 1 .. n
      BY <1>3, <2>4
    <3>2. j - n \in 1 .. l - n /\ (j - n) + n = j
      BY <1>0, <3>1
    <3>3. r[j - n] = s[j]
      BY <2>2, <3>2
    <3> QED BY <2>2, <3>2, <3>3 DEF Range
  <2>5. \A v \in Range(r) : v \in Range(s) \ Range(q)
    BY <2>2, <2>3 DEF Range
  <2>6. \A v \in Range(s) \ Range(q) : v \in Range(r)
    BY <1>0, <2>4 DEF Range
  <2> QED BY <2>1, <2>5, <2>6
<1> QED BY <1>1, <1>3, <1>5, <1>6

(* A queue without repetitions is as long as it has elements. *)
LEMMA DistinctLength ==
  ASSUME NEW S, NEW s \in Seq(S), Distinct(s)
  PROVE  IsFiniteSet(Range(s)) /\ Cardinality(Range(s)) = Len(s)
<1>0. PICK n \in Nat : n = Len(s) /\ DOMAIN s = 1 .. n /\ s \in [1 .. n -> S]
  BY LenProperties
<1>1. PICK T : T = Range(s)
  OBVIOUS
<1>2. s \in [1 .. n -> T] /\ (\A y \in T : \E x \in 1 .. n : s[x] = y)
      /\ \A i, j \in 1 .. n : s[i] = s[j] => i = j
  BY <1>0, <1>1 DEF Range, Distinct
<1>3. s \in Bijection(1 .. n, T)
  BY <1>2 DEF Bijection, Injection, Surjection, IsInjective
<1>4. ExistsBijection(1 .. n, T)
  BY <1>3 DEF ExistsBijection
<1>5. IsFiniteSet(1 .. n) /\ Cardinality(1 .. n) = n
  <2>1. 1 \in Int /\ n \in Int
    OBVIOUS
  <2>2. IsFiniteSet(1 .. n) /\ Cardinality(1 .. n) = IF 1 > n THEN 0 ELSE n - 1 + 1
    BY <2>1, FS_Interval
  <2> QED BY <2>2
<1>6. IsFiniteSet(T) /\ Cardinality(T) = Cardinality(1 .. n)
  BY <1>4, <1>5, FS_Bijection
<1> QED BY <1>0, <1>1, <1>5, <1>6

(* r is the end of s. *)
Suffix(r, s) == Len(r) <= Len(s) /\ \A i \in 1 .. Len(r) : r[i] = s[Len(s) - Len(r) + i]

LEMMA SuffixRange ==
  ASSUME NEW S, NEW r \in Seq(S), NEW s \in Seq(S), Suffix(r, s)
  PROVE  Range(r) \subseteq Range(s)
<1>0. PICK m \in Nat, n \in Nat : m = Len(r) /\ n = Len(s) /\ DOMAIN r = 1 .. m /\ DOMAIN s = 1 .. n
  BY LenProperties
<1>1. \A i \in 1 .. m : n - m + i \in 1 .. n /\ r[i] = s[n - m + i]
  BY <1>0 DEF Suffix
<1> QED BY <1>0, <1>1 DEF Range

LEMMA SuffixAfter ==
  ASSUME NEW S, NEW r \in Seq(S), NEW s \in Seq(S), Suffix(r, s), NEW n \in 0 .. Len(r)
  PROVE  Suffix(After(r, n), s)
<1>0. PICK m \in Nat, l \in Nat : m = Len(r) /\ l = Len(s) /\ n \in 0 .. m
  BY LenProperties
<1>1. PICK q : q = After(r, n)
  OBVIOUS
<1>2. Len(q) = m - n /\ \A i \in 1 .. m - n : q[i] = r[i + n] /\ i + n \in 1 .. m
  <2>1. Len(q) = Len(r) - n /\ \A i \in 1 .. Len(q) : q[i] = r[i + n] /\ i + n \in 1 .. Len(r)
    BY <1>1, AfterFacts
  <2> QED BY <1>0, <2>1
<1>3. ASSUME NEW i \in 1 .. m - n PROVE q[i] = s[l - (m - n) + i]
  <2>1. r[i + n] = s[l - m + (i + n)]
    BY <1>0, <1>2 DEF Suffix
  <2>2. l - m + (i + n) = l - (m - n) + i
    BY <1>0
  <2> QED BY <1>2, <2>1, <2>2
<1>4. m - n <= l
  BY <1>0 DEF Suffix
<1> QED BY <1>0, <1>1, <1>2, <1>3, <1>4 DEF Suffix

LEMMA SuffixAppend ==
  ASSUME NEW S, NEW r \in Seq(S), NEW s \in Seq(S), Suffix(r, s), NEW x \in S
  PROVE  Suffix(Append(r, x), Append(s, x))
<1>0. PICK m \in Nat, l \in Nat : m = Len(r) /\ l = Len(s)
  BY LenProperties
<1>1. PICK q, t : q = Append(r, x) /\ t = Append(s, x)
  OBVIOUS
<1>2. /\ Len(q) = m + 1 /\ q[m + 1] = x /\ \A i \in 1 .. m : q[i] = r[i]
      /\ Len(t) = l + 1 /\ t[l + 1] = x /\ \A i \in 1 .. l : t[i] = s[i]
  BY <1>0, <1>1, AppendProperties
<1>3. ASSUME NEW i \in 1 .. m + 1 PROVE q[i] = t[l + 1 - (m + 1) + i]
  <2>1. CASE i = m + 1
    <3>1. l + 1 - (m + 1) + i = l + 1
      BY <2>1
    <3> QED BY <1>2, <2>1, <3>1
  <2>2. CASE i # m + 1
    <3>1. i \in 1 .. m /\ l + 1 - (m + 1) + i = l - m + i
      BY <2>2
    <3>2. r[i] = s[l - m + i] /\ m <= l
      BY <1>0, <3>1 DEF Suffix
    <3>3. l - m + i \in 1 .. l
      BY <3>1, <3>2
    <3> QED BY <1>2, <3>1, <3>2, <3>3
  <2> QED BY <2>1, <2>2
<1>4. m + 1 <= l + 1
  BY <1>0 DEF Suffix
<1>5. Suffix(q, t)
  BY <1>2, <1>3, <1>4 DEF Suffix
<1> QED BY <1>1, <1>5

LEMMA SuffixLastOf ==
  ASSUME NEW S, NEW r \in Seq(S), NEW s \in Seq(S), Suffix(r, s), NEW w \in Nat, Len(r) <= w
  PROVE  Suffix(r, LastOf(s, w))
<1>0. PICK m \in Nat, l \in Nat : m = Len(r) /\ l = Len(s) /\ m <= l /\ m <= w
  BY LenProperties DEF Suffix
<1>1. PICK t : t = LastOf(s, w)
  OBVIOUS
<1>2. PICK d \in 0 .. l : t = After(s, d) /\ (l <= w => d = 0) /\ (l > w => l - d = w)
  BY <1>0, <1>1, LastOfIsAfter
<1>3. Len(t) = l - d /\ \A i \in 1 .. l - d : t[i] = s[i + d]
  BY <1>0, <1>2, AfterFacts
<1>4. m <= l - d
  BY <1>0, <1>2
<1>5. ASSUME NEW i \in 1 .. m PROVE r[i] = t[l - d - m + i]
  <2>1. l - d - m + i \in 1 .. l - d /\ l - d - m + i + d = l - m + i
    BY <1>0, <1>4
  <2>2. r[i] = s[l - m + i]
    BY <1>0 DEF Suffix
  <2> QED BY <1>3, <2>1, <2>2
<1> QED BY <1>0, <1>1, <1>3, <1>4, <1>5 DEF Suffix

LEMMA SuffixItself ==
  ASSUME NEW S, NEW s \in Seq(S)
  PROVE  Suffix(s, s)
<1>0. PICK n \in Nat : n = Len(s)
  BY LenProperties
<1>1. \A i \in 1 .. n : n - n + i = i
  OBVIOUS
<1> QED BY <1>0, <1>1 DEF Suffix

-----------------------------------------------------------------------------
(* The inductive invariant, part by part, for a configuration k.            *)

TxRecord(k) == [txid : k.txids, block : k.hashes \cup {None}, at : 0 .. k.maxTime]
BlockRecord(k) == [hash : k.hashes, at : 0 .. k.maxTime]
MatchRecord(k) == [matcher : 1 .. k.maxIds, txid : k.txids, at : 0 .. k.maxTime]

(* Map and queue of the transactions; if records carry the clock's time, they *)
(* stand in the queue in the order of their time.                             *)
TxInv(k, T, q) ==
  /\ q \in Seq(k.txids) /\ T \in [DOMAIN T -> TxRecord(k)]
  /\ Distinct(q) /\ Range(q) = DOMAIN T
  /\ \A t \in DOMAIN T : T[t].txid = t
  /\ k.skew = 0 => \A i, j \in 1 .. Len(q) : i < j => T[q[i]].at <= T[q[j]].at

BlockInv(k, B, q) ==
  /\ q \in Seq(k.hashes) /\ B \in [DOMAIN B -> BlockRecord(k)]
  /\ Distinct(q) /\ Range(q) = DOMAIN B
  /\ \A h \in DOMAIN B : B[h].hash = h

(* Matches s beside matchers M, the next id n and retained transactions D. *)
MatchInv(k, s, M, n, D) ==
  /\ s \in Seq(MatchRecord(k))
  /\ \A i \in 1 .. Len(s) : s[i].txid \in D
  /\ KeepsIds(k) => Attributed(k, s, M)
  /\ KeepsIds(k) /\ "match" \in k.uses =>
       n \in Nat /\ (\A i \in 1 .. Len(s) : s[i].matcher < n) /\ \A i \in DOMAIN M : i < n
  /\ WindowCovers(k) => SingleMatches(s)

Fields ==
  {"tx", "txOrder", "blocks", "blockOrder", "matches", "recent", "matchers", "nextId",
   "running", "last", "count", "cp", "news", "announced"}

(* An engine, apart from the number of transactions and the duplicate window. *)
EngBase(k, e) ==
  /\ DOMAIN e = Fields
  /\ TxInv(k, e.tx, e.txOrder)
  /\ BlockInv(k, e.blocks, e.blockOrder) /\ Len(e.blockOrder) <= k.maxBlocks
  /\ MatchInv(k, e.matches, e.matchers, e.nextId, DOMAIN e.tx)
  /\ Len(e.matches) <= k.maxMatches
  /\ DOMAIN e.matchers \subseteq 1 .. k.maxIds /\ e.matchers \in [DOMAIN e.matchers -> k.rules]
  /\ e.recent \in Seq(k.txids) /\ Len(e.recent) <= k.dedupeWindow
  /\ e.cp \in k.hashes \cup {None} /\ e.news \in [k.txids -> News]

(* A consumer that applies the events to v knows the store. *)
Told(k, v, e) ==
  k.uses \cap {"clear", "restart", "restore", "snapshot", "sync"} = {} =>
  /\ DOMAIN e.tx = (v.txs \ {t \in k.txids : e.news[t] = "evicted"})
                     \cup {t \in k.txids : e.news[t] = "added"}
  /\ \A i \in 1 .. Len(e.matches) :
       <<e.matches[i].matcher, e.matches[i].txid>> \in v.matches \cup e.announced

(* If records carry the clock's time, none was stamped after t. *)
Past(k, e, t) == k.skew = 0 => \A x \in DOMAIN e.tx : e.tx[x].at <= t

Base(k, e, v, t) == EngBase(k, e) /\ Told(k, v, e) /\ Past(k, e, t)

(* The window holds the retained transactions, if it is large enough and all *)
(* are kept: they are the ones that were seen last.                          *)
Windowed(k, e) == WindowCovers(k) => Suffix(e.txOrder, e.recent)

Good(k, e, v, t) ==
  Base(k, e, v, t) /\ Len(e.txOrder) <= k.maxTransactions /\ Windowed(k, e)

(* Some of the queue stays, with the records it lists. *)
TxLess(k, T, q, G, r) ==
  TxInv(k, T, q) /\ r \in Seq(k.txids) /\ (\E f : Embeds(f, r, q)) /\ Range(r) = Range(q) \ G

TxLeft(k, T, q, G, U, r) ==
  /\ TxInv(k, U, r) /\ Len(r) <= Len(q)
  /\ DOMAIN U = DOMAIN T \ G
  /\ \A t \in DOMAIN T \ G : U[t] = T[t]

LEMMA TxSubset ==
  ASSUME NEW k, NEW T, NEW q, NEW G, NEW r, TxLess(k, T, q, G, r)
  PROVE  TxLeft(k, T, q, G, Without(T, G), r)
<1> USE DEF TxLess
<1>f. PICK f : Embeds(f, r, q)
  OBVIOUS
<1> DEFINE U == Without(T, G)
<1>0. q \in Seq(k.txids) /\ Len(r) \in Nat /\ Len(q) \in Nat
      /\ DOMAIN r = 1 .. Len(r) /\ DOMAIN q = 1 .. Len(q)
  BY LenProperties DEF TxInv
<1>1. DOMAIN U = DOMAIN T \ G /\ (\A t \in DOMAIN T \ G : U[t] = T[t])
      /\ U \in [DOMAIN U -> TxRecord(k)]
  BY DEF Without, TxInv
<1> HIDE DEF U
<1>2. Len(r) <= Len(q) /\ Distinct(r)
  BY <1>0, <1>f, EmbedsFacts DEF TxInv
<1>3. Range(r) = DOMAIN U
  BY <1>1 DEF TxInv
<1>4. \A t \in DOMAIN U : U[t].txid = t
  BY <1>1 DEF TxInv
<1>5. ASSUME k.skew = 0, NEW i \in 1 .. Len(r), NEW j \in 1 .. Len(r), i < j
      PROVE  U[r[i]].at <= U[r[j]].at
  <2>1. f[i] \in 1 .. Len(q) /\ f[j] \in 1 .. Len(q) /\ f[i] < f[j]
        /\ r[i] = q[f[i]] /\ r[j] = q[f[j]]
    BY <1>5, <1>f DEF Embeds
  <2>2. T[q[f[i]]].at <= T[q[f[j]]].at
    BY <1>5, <2>1 DEF TxInv
  <2>3. r[i] \in DOMAIN U /\ r[j] \in DOMAIN U
    BY <1>0, <1>3 DEF Range
  <2> QED BY <1>1, <2>1, <2>2, <2>3
<1>6. TxInv(k, U, r)
  BY <1>1, <1>2, <1>3, <1>4, <1>5 DEF TxInv
<1> QED BY <1>1, <1>2, <1>6 DEF U, TxLeft

BlockLess(k, B, q, G, r) ==
  BlockInv(k, B, q) /\ r \in Seq(k.hashes) /\ (\E f : Embeds(f, r, q)) /\ Range(r) = Range(q) \ G

LEMMA BlockSubset ==
  ASSUME NEW k, NEW B, NEW q, NEW G, NEW r, BlockLess(k, B, q, G, r)
  PROVE  BlockInv(k, Without(B, G), r) /\ Len(r) <= Len(q)
<1> USE DEF BlockLess
<1> DEFINE U == Without(B, G)
<1>0. q \in Seq(k.hashes)
  BY DEF BlockInv
<1>1. DOMAIN U = DOMAIN B \ G /\ (\A t \in DOMAIN B \ G : U[t] = B[t])
      /\ U \in [DOMAIN U -> BlockRecord(k)]
  BY DEF Without, BlockInv
<1> HIDE DEF U
<1>2. Len(r) <= Len(q) /\ Distinct(r)
  BY <1>0, EmbedsFacts DEF BlockInv
<1>3. BlockInv(k, U, r)
  BY <1>1, <1>2 DEF BlockInv
<1> QED BY <1>2, <1>3 DEF U

(* A new record behind the others. *)
LEMMA AppendDistinct ==
  ASSUME NEW S, NEW q \in Seq(S), NEW x \in S, Distinct(q), x \notin Range(q)
  PROVE  Distinct(Append(q, x))
<1>0. PICK n \in Nat : n = Len(q) /\ DOMAIN q = 1 .. n
  BY LenProperties
<1>r. PICK r : r = Append(q, x)
  OBVIOUS
<1>1. /\ r \in Seq(S) /\ Len(r) = n + 1 /\ r[n + 1] = x /\ \A i \in 1 .. n : r[i] = q[i]
  BY <1>0, <1>r, AppendProperties
<1>2. DOMAIN r = 1 .. n + 1
  BY <1>1, LenProperties
<1>3. /\ \A i \in 1 .. n + 1 : i = n + 1 \/ i \in 1 .. n
      /\ \A i \in 1 .. n : i \in 1 .. n + 1 /\ q[i] # x
  BY <1>0 DEF Range
<1>4. Distinct(r)
  BY <1>0, <1>1, <1>2, <1>3 DEF Distinct
<1> QED BY <1>r, <1>4

LEMMA AppendRange ==
  ASSUME NEW S, NEW q \in Seq(S), NEW x \in S
  PROVE  Range(Append(q, x)) = Range(q) \cup {x}
<1>0. PICK n \in Nat : n = Len(q) /\ DOMAIN q = 1 .. n
  BY LenProperties
<1>r. PICK r : r = Append(q, x)
  OBVIOUS
<1>1. /\ r \in Seq(S) /\ Len(r) = n + 1 /\ r[n + 1] = x /\ \A i \in 1 .. n : r[i] = q[i]
  BY <1>0, <1>r, AppendProperties
<1>2. DOMAIN r = 1 .. n + 1
  BY <1>1, LenProperties
<1>3. /\ \A i \in 1 .. n + 1 : i = n + 1 \/ i \in 1 .. n
      /\ \A i \in 1 .. n : i \in 1 .. n + 1
      /\ n + 1 \in 1 .. n + 1
  BY <1>0
<1>5. Range(r) = Range(q) \cup {x}
  BY <1>0, <1>1, <1>2, <1>3 DEF Range
<1> QED BY <1>r, <1>5

TxNew(k, T, q, x) ==
  /\ TxInv(k, T, q) /\ x \in TxRecord(k) /\ x.txid \notin DOMAIN T
  /\ k.skew = 0 => \A t \in DOMAIN T : T[t].at <= x.at

TxMore(k, T, x, U, p) ==
  /\ TxInv(k, U, p) /\ DOMAIN U = DOMAIN T \cup {x.txid}
  /\ \A t \in DOMAIN T : U[t] = T[t]
  /\ U[x.txid] = x

LEMMA TxAppend ==
  ASSUME NEW k, NEW T, NEW q, NEW x, TxNew(k, T, q, x)
  PROVE  TxMore(k, T, x, Insert(T, x.txid, x), Append(q, x.txid))
<1> USE DEF TxNew
<1> DEFINE U == Insert(T, x.txid, x)
<1>0. q \in Seq(k.txids) /\ x.txid \in k.txids
  BY DEF TxInv, TxRecord
<1>1. /\ DOMAIN U = DOMAIN T \cup {x.txid} /\ U[x.txid] = x
      /\ \A t \in DOMAIN T : U[t] = T[t]
  BY DEF Insert
<1>2. U \in [DOMAIN U -> TxRecord(k)]
  BY DEF Insert, TxInv
<1> HIDE DEF U
<1>3. PICK r : r = Append(q, x.txid)
  OBVIOUS
<1>4. PICK n \in Nat : n = Len(q) /\ DOMAIN q = 1 .. n
  BY <1>0, LenProperties
<1>5. /\ r \in Seq(k.txids) /\ Len(r) = n + 1
      /\ r[n + 1] = x.txid /\ \A i \in 1 .. n : r[i] = q[i]
  <2>1. PICK S, y : S = k.txids /\ y = x.txid
    OBVIOUS
  <2>2. q \in Seq(S) /\ y \in S /\ r = Append(q, y)
    BY <1>0, <1>3, <2>1
  <2>3. /\ r \in Seq(S) /\ Len(r) = Len(q) + 1
        /\ r[Len(q) + 1] = y /\ \A i \in 1 .. Len(q) : r[i] = q[i]
    BY <2>2, AppendProperties
  <2> QED BY <1>4, <2>1, <2>3
<1>d. Distinct(r)
  <2>1. Distinct(q) /\ x.txid \notin Range(q)
    BY DEF TxInv
  <2> QED BY <1>0, <1>3, <2>1, AppendDistinct
<1>g. Range(r) = Range(q) \cup {x.txid}
  BY <1>0, <1>3, AppendRange, Zenon
<1>6. \A t \in DOMAIN U : U[t].txid = t
  BY <1>1 DEF TxInv
<1>7. ASSUME k.skew = 0, NEW i \in 1 .. n + 1, NEW j \in 1 .. n + 1, i < j
      PROVE  U[r[i]].at <= U[r[j]].at
  <2>1. i \in 1 .. n
    BY <1>7
  <2>2. r[i] = q[i] /\ q[i] \in DOMAIN T
    BY <1>4, <1>5, <2>1 DEF Range, TxInv
  <2>3. CASE j = n + 1
    BY <1>1, <1>5, <1>7, <2>2, <2>3
  <2>4. CASE j # n + 1
    <3>1. j \in 1 .. n
      BY <2>4
    <3>2. r[j] = q[j] /\ q[j] \in DOMAIN T
      BY <1>4, <1>5, <3>1 DEF Range, TxInv
    <3>3. T[q[i]].at <= T[q[j]].at
      BY <1>4, <1>7, <2>1, <3>1 DEF TxInv
    <3> QED BY <1>1, <2>2, <3>2, <3>3
  <2> QED BY <2>3, <2>4
<1>8. Range(r) = DOMAIN U
  BY <1>1, <1>g DEF TxInv
<1>9. TxInv(k, U, r)
  BY <1>2, <1>5, <1>d, <1>6, <1>7, <1>8 DEF TxInv
<1> QED BY <1>1, <1>3, <1>9 DEF U, TxMore

LEMMA BlockAppend ==
  ASSUME NEW k, NEW B, NEW q, BlockInv(k, B, q), NEW b \in BlockRecord(k), b.hash \notin DOMAIN B
  PROVE  /\ BlockInv(k, Insert(B, b.hash, b), Append(q, b.hash))
         /\ DOMAIN Insert(B, b.hash, b) = DOMAIN B \cup {b.hash}
<1> DEFINE U == Insert(B, b.hash, b)
<1>0. q \in Seq(k.hashes) /\ b.hash \in k.hashes
  BY DEF BlockInv, BlockRecord
<1>1. /\ DOMAIN U = DOMAIN B \cup {b.hash} /\ U[b.hash] = b
      /\ \A t \in DOMAIN B : U[t] = B[t]
  BY DEF Insert
<1>2. U \in [DOMAIN U -> BlockRecord(k)]
  BY DEF Insert, BlockInv
<1> HIDE DEF U
<1>3. PICK r : r = Append(q, b.hash)
  OBVIOUS
<1>4. r \in Seq(k.hashes)
  BY <1>0, <1>3, AppendProperties
<1>5. Distinct(r)
  <2>1. Distinct(q) /\ b.hash \notin Range(q)
    BY DEF BlockInv
  <2> QED BY <1>0, <1>3, <2>1, AppendDistinct
<1>g. Range(r) = Range(q) \cup {b.hash}
  BY <1>0, <1>3, AppendRange, Zenon
<1>6. BlockInv(k, U, r)
  BY <1>1, <1>2, <1>4, <1>5, <1>g DEF BlockInv
<1> QED BY <1>1, <1>3, <1>6 DEF U

(* Some of the matches stay. *)
MatchLess(k, s, M, n, D, r) ==
  /\ MatchInv(k, r, M, n, D) /\ Len(r) <= Len(s)
  /\ \A i \in 1 .. Len(r) : \E j \in 1 .. Len(s) : r[i] = s[j]

LEMMA MatchSubset ==
  ASSUME NEW k, NEW s, NEW M, NEW n, NEW D, MatchInv(k, s, M, n, D),
         NEW r, r \in Seq(MatchRecord(k)), \E f : Embeds(f, r, s),
         NEW E, \A i \in 1 .. Len(r) : r[i].txid \in E
  PROVE  MatchLess(k, s, M, n, E, r)
<1>f. PICK f : Embeds(f, r, s)
  OBVIOUS
<1>0. /\ s \in Seq(MatchRecord(k)) /\ DOMAIN r = 1 .. Len(r) /\ DOMAIN s = 1 .. Len(s)
  BY LenProperties DEF MatchInv
<1>1. \A i \in 1 .. Len(r) : f[i] \in 1 .. Len(s) /\ r[i] = s[f[i]]
  BY <1>f DEF Embeds
<1>2. Len(r) <= Len(s) /\ (SingleMatches(s) => SingleMatches(r))
  BY <1>0, <1>f, EmbedsFacts
<1>3. Attributed(k, s, M) => Attributed(k, r, M)
  BY <1>0, <1>1 DEF Attributed
<1>4. MatchInv(k, r, M, n, E)
  BY <1>0, <1>1, <1>2, <1>3 DEF MatchInv
<1> QED BY <1>1, <1>2, <1>4 DEF MatchLess

LEMMA DropMatches ==
  ASSUME NEW k, NEW s, NEW M, NEW n, NEW D, MatchInv(k, s, M, n, D), NEW G
  PROVE  MatchLess(k, s, M, n, D \ G, Remove(s, MatchesOf(s, G)))
<1>r. PICK r : r = Remove(s, MatchesOf(s, G))
  OBVIOUS
<1>0. s \in Seq(MatchRecord(k)) /\ DOMAIN s = 1 .. Len(s)
  BY LenProperties DEF MatchInv
<1>1. r \in Seq(MatchRecord(k)) /\ (\E f : Embeds(f, r, s)) /\ Range(r) = Range(s) \ MatchesOf(s, G)
  BY <1>0, <1>r, RemoveFacts
<1>2. DOMAIN r = 1 .. Len(r)
  BY <1>1, LenProperties
<1>3. ASSUME NEW i \in 1 .. Len(r) PROVE r[i].txid \in D \ G
  <2>1. r[i] \in Range(r)
    BY <1>2 DEF Range
  <2>2. r[i] \in Range(s) /\ r[i] \notin MatchesOf(s, G)
    BY <1>1, <2>1
  <2>3. r[i].txid \notin G
    BY <2>2 DEF MatchesOf
  <2>4. r[i].txid \in D
    BY <1>0, <2>2 DEF Range, MatchInv
  <2> QED BY <2>3, <2>4
<1>4. MatchLess(k, s, M, n, D \ G, r)
  BY <1>1, <1>3, MatchSubset
<1> QED BY <1>r, <1>4

(* New matches of one transaction, by the matchers ids. *)
NewMatches(k, s, M, D, m, ids, t, at) ==
  /\ m \in Nat /\ ids \in [1 .. m -> 1 .. k.maxIds]
  /\ \A i, j \in 1 .. m : ids[i] = ids[j] => i = j
  /\ t \in k.txids /\ at \in 0 .. k.maxTime
  /\ \A i \in 1 .. m : ids[i] \in DOMAIN M /\ t \in k.hits[M[ids[i]]]
  /\ m # 0 => t \in D
  /\ WindowCovers(k) => \A i \in 1 .. Len(s) : s[i].txid # t

(* The elements of w are in s or are the new ones. *)
OldOrNew(s, m, ids, t, w) ==
  \A i \in 1 .. Len(w) :
    \/ \E j \in 1 .. Len(s) : w[i] = s[j]
    \/ \E j \in 1 .. m : w[i].matcher = ids[j] /\ w[i].txid = t

LEMMA AddMatches ==
  ASSUME NEW k, NEW s, NEW M, NEW n, NEW D, MatchInv(k, s, M, n, D),
         NEW m, NEW ids, NEW t, NEW at, NewMatches(k, s, M, D, m, ids, t, at),
         NEW new, new = [i \in 1 .. m |-> [matcher |-> ids[i], txid |-> t, at |-> at]]
  PROVE  MatchInv(k, s \o new, M, n, D) /\ OldOrNew(s, m, ids, t, s \o new)
<1> USE DEF NewMatches
<1>0. PICK S : S = MatchRecord(k)
  OBVIOUS
<1>1. s \in Seq(S)
  BY <1>0 DEF MatchInv
<1>2. PICK l \in Nat : l = Len(s)
  BY <1>1, LenProperties
<1>3. \A i \in 1 .. m : new[i] \in S
  BY <1>0 DEF MatchRecord
<1>4. new \in Seq(S) /\ Len(new) = m
  BY <1>3, IsASeq, LenProperties
<1>5. PICK w : w = s \o new
  OBVIOUS
<1>6. /\ w \in Seq(S) /\ Len(w) = l + m /\ DOMAIN w = 1 .. l + m
      /\ \A i \in 1 .. l + m : w[i] = IF i <= l THEN s[i] ELSE new[i - l]
  <2>1. /\ w \in Seq(S) /\ Len(w) = l + m
        /\ \A i \in 1 .. l + m : w[i] = IF i <= l THEN s[i] ELSE new[i - l]
    BY <1>1, <1>2, <1>4, <1>5, ConcatProperties
  <2> QED BY <2>1, LenProperties
<1>7. /\ \A i \in 1 .. l : i \in 1 .. l + m /\ w[i] = s[i]
      /\ \A i \in 1 .. l + m : i \notin 1 .. l => i - l \in 1 .. m /\ w[i] = new[i - l]
  <2>1. \A i \in 1 .. l : i \in 1 .. l + m /\ i <= l
    OBVIOUS
  <2>2. \A i \in 1 .. l + m : i \notin 1 .. l => i - l \in 1 .. m /\ ~(i <= l)
    OBVIOUS
  <2> QED BY <1>6, <2>1, <2>2
<1>8. \A j \in 1 .. m : new[j].matcher = ids[j] /\ new[j].txid = t
  OBVIOUS
<1>9. ASSUME NEW i \in 1 .. l + m
      PROVE  \/ i \in 1 .. l /\ w[i] = s[i]
             \/ i - l \in 1 .. m /\ w[i].matcher = ids[i - l] /\ w[i].txid = t
  <2>1. CASE i \in 1 .. l
    BY <1>7, <2>1
  <2>2. CASE i \notin 1 .. l
    <3>1. i - l \in 1 .. m /\ w[i] = new[i - l]
      BY <1>7, <2>2
    <3> QED BY <1>8, <3>1
  <2> QED BY <2>1, <2>2
<1>10. \A i \in 1 .. l + m : w[i].txid \in D
  BY <1>2, <1>9 DEF MatchInv
<1>11. KeepsIds(k) => Attributed(k, w, M)
  <2> SUFFICES ASSUME KeepsIds(k), NEW i \in 1 .. l + m, w[i].matcher \in DOMAIN M
               PROVE  w[i].txid \in k.hits[M[w[i].matcher]]
    BY <1>6 DEF Attributed
  <2>1. CASE i \in 1 .. l /\ w[i] = s[i]
    <3>1. Attributed(k, s, M) /\ DOMAIN s = 1 .. l
      BY <1>1, <1>2, LenProperties DEF MatchInv
    <3> QED BY <2>1, <3>1 DEF Attributed
  <2>2. CASE i - l \in 1 .. m /\ w[i].matcher = ids[i - l] /\ w[i].txid = t
    BY <2>2
  <2> QED BY <1>9, <2>1, <2>2
<1>12. KeepsIds(k) /\ "match" \in k.uses =>
         n \in Nat /\ (\A i \in 1 .. l + m : w[i].matcher < n) /\ \A i \in DOMAIN M : i < n
  BY <1>2, <1>9 DEF MatchInv
<1>13. ASSUME WindowCovers(k) PROVE SingleMatches(w)
  <2> SUFFICES ASSUME NEW i \in 1 .. l + m, NEW j \in 1 .. l + m,
                      w[i].matcher = w[j].matcher, w[i].txid = w[j].txid
               PROVE  i = j
    BY <1>6 DEF SingleMatches
  <2>0. SingleMatches(s) /\ DOMAIN s = 1 .. l /\ \A h \in 1 .. l : s[h].txid # t
    BY <1>1, <1>2, <1>13, LenProperties DEF MatchInv
  <2>1. CASE i \in 1 .. l /\ j \in 1 .. l
    BY <1>7, <2>0, <2>1 DEF SingleMatches
  <2>2. CASE i \in 1 .. l /\ j \notin 1 .. l
    BY <1>7, <1>8, <2>0, <2>2
  <2>3. CASE i \notin 1 .. l /\ j \in 1 .. l
    BY <1>7, <1>8, <2>0, <2>3
  <2>4. CASE i \notin 1 .. l /\ j \notin 1 .. l
    <3>1. i - l \in 1 .. m /\ j - l \in 1 .. m /\ ids[i - l] = ids[j - l]
      BY <1>7, <1>8, <2>4
    <3>2. i - l = j - l
      BY <3>1
    <3> QED BY <3>2
  <2> QED BY <2>1, <2>2, <2>3, <2>4
<1>14. MatchInv(k, w, M, n, D)
  BY <1>0, <1>6, <1>10, <1>11, <1>12, <1>13 DEF MatchInv
<1>15. \A i \in 1 .. Len(w) :
         \/ \E j \in 1 .. Len(s) : w[i] = s[j]
         \/ \E j \in 1 .. m : w[i].matcher = ids[j] /\ w[i].txid = t
  <2>1. ASSUME NEW i \in 1 .. l + m
        PROVE  \/ \E j \in 1 .. l : w[i] = s[j]
               \/ \E j \in 1 .. m : w[i].matcher = ids[j] /\ w[i].txid = t
    BY <1>9
  <2> QED BY <1>2, <1>6, <2>1
<1> QED BY <1>5, <1>14, <1>15 DEF OldOrNew

-----------------------------------------------------------------------------
(* MemoryStore: what leaves the store and what comes in.                    *)

Popped(e, n, G, r) ==
  /\ DOMAIN r = Fields
  /\ r.tx = Without(e.tx, G) /\ r.txOrder = After(e.txOrder, n)
  /\ r.matches = Remove(e.matches, MatchesOf(e.matches, G))
  /\ r.news = [t \in Txids |-> IF t \in G THEN "evicted" ELSE e.news[t]]
  /\ r.blocks = e.blocks /\ r.blockOrder = e.blockOrder /\ r.recent = e.recent
  /\ r.matchers = e.matchers /\ r.nextId = e.nextId /\ r.cp = e.cp
  /\ r.announced = e.announced

LEMMA PopFields ==
  ASSUME NEW e, DOMAIN e = Fields, NEW n
  PROVE  Popped(e, n, Range(SubSeq(e.txOrder, 1, n)), PopTransactions(e, n))
  BY DEF PopTransactions, Fields, Popped

(* Transactions that leave the front of the queue take their matches along, *)
(* and are announced.                                                       *)
Shrunk(k, e, v, t, r) ==
  /\ Base(k, r, v, t) /\ Len(r.txOrder) <= Len(e.txOrder)
  /\ Windowed(k, e) => Windowed(k, r)
  /\ r.recent = e.recent /\ r.matchers = e.matchers /\ r.nextId = e.nextId
  /\ DOMAIN r.tx \subseteq DOMAIN e.tx
  /\ \A x \in DOMAIN r.tx : r.tx[x] = e.tx[x]
  /\ \A i \in 1 .. Len(r.matches) : \E j \in 1 .. Len(e.matches) : r.matches[i] = e.matches[j]

LEMMA PopGood ==
  ASSUME cfg \in Configs, NEW e, NEW v, NEW t, Base(cfg, e, v, t), NEW n, n \in 0 .. Len(e.txOrder)
  PROVE  Shrunk(cfg, e, v, t, PopTransactions(e, n))
         /\ PopTransactions(e, n).txOrder = After(e.txOrder, n)
<1>r. PICK r : r = PopTransactions(e, n)
  OBVIOUS
<1>q. PICK q : q = e.txOrder
  OBVIOUS
<1>0. EngBase(cfg, e) /\ Told(cfg, v, e) /\ Past(cfg, e, t) /\ DOMAIN e = Fields
  BY DEF Base, EngBase
<1>1. TxInv(cfg, e.tx, q) /\ q \in Seq(cfg.txids) /\ n \in 0 .. Len(q)
      /\ MatchInv(cfg, e.matches, e.matchers, e.nextId, DOMAIN e.tx)
  BY <1>0, <1>q DEF EngBase, TxInv
<1>2. PICK G : G = Range(SubSeq(q, 1, n))
  OBVIOUS
<1>3. /\ DOMAIN r = Fields
      /\ r.tx = Without(e.tx, G) /\ r.txOrder = After(q, n)
      /\ r.matches = Remove(e.matches, MatchesOf(e.matches, G))
      /\ r.news = [x \in Txids |-> IF x \in G THEN "evicted" ELSE e.news[x]]
      /\ r.blocks = e.blocks /\ r.blockOrder = e.blockOrder /\ r.recent = e.recent
      /\ r.matchers = e.matchers /\ r.nextId = e.nextId /\ r.cp = e.cp
      /\ r.announced = e.announced
  <2>1. Popped(e, n, Range(SubSeq(e.txOrder, 1, n)), PopTransactions(e, n))
    BY <1>0, PopFields
  <2> QED BY <1>r, <1>q, <1>2, <2>1 DEF Popped
<1>4. PICK p : p = After(q, n)
  OBVIOUS
<1>5. p \in Seq(cfg.txids) /\ \E f : Embeds(f, p, q)
  BY <1>1, <1>4, AfterFacts
<1>6. Range(p) = Range(q) \ G /\ G \subseteq Range(q)
  <2>1. Distinct(q)
    BY <1>1 DEF TxInv
  <2> QED BY <1>1, <1>2, <1>4, <2>1, FrontAndRest
<1>8. /\ TxInv(cfg, r.tx, r.txOrder) /\ Len(p) <= Len(q)
      /\ DOMAIN r.tx = DOMAIN e.tx \ G
      /\ \A x \in DOMAIN e.tx \ G : r.tx[x] = e.tx[x]
  <2>1. PICK T, k : T = e.tx /\ k = cfg
    OBVIOUS
  <2>2. TxLess(k, T, q, G, p)
    BY <1>1, <1>5, <1>6, <2>1 DEF TxLess
  <2>3. TxLeft(k, T, q, G, Without(T, G), p)
    BY <2>2, TxSubset
  <2>4. TxLeft(cfg, e.tx, q, G, r.tx, r.txOrder)
    BY <1>3, <1>4, <2>1, <2>3
  <2> QED BY <1>3, <1>4, <2>4 DEF TxLeft
<1>9. /\ MatchInv(cfg, r.matches, r.matchers, r.nextId, DOMAIN r.tx)
      /\ Len(r.matches) <= Len(e.matches)
      /\ \A i \in 1 .. Len(r.matches) : \E j \in 1 .. Len(e.matches) : r.matches[i] = e.matches[j]
  <2>1. PICK k, s, M, m, D : k = cfg /\ s = e.matches /\ M = e.matchers /\ m = e.nextId /\ D = DOMAIN e.tx
    OBVIOUS
  <2>2. MatchInv(k, s, M, m, D)
    BY <1>1, <2>1
  <2>3. MatchLess(k, s, M, m, D \ G, Remove(s, MatchesOf(s, G)))
    BY <2>2, DropMatches
  <2>4. MatchLess(cfg, e.matches, e.matchers, e.nextId, DOMAIN r.tx, r.matches)
    BY <1>3, <1>8, <2>1, <2>3
  <2> QED BY <1>3, <2>4 DEF MatchLess
<1>10. r.news \in [cfg.txids -> News]
  BY <1>0, <1>3 DEF EngBase, News, Txids
<1>11. Len(r.matches) <= cfg.maxMatches
  <2>1. Len(r.matches) \in Nat /\ Len(e.matches) \in Nat
    BY <1>1, <1>9, LenProperties DEF MatchInv
  <2>2. Len(e.matches) <= cfg.maxMatches
    BY <1>0 DEF EngBase
  <2>3. cfg.maxMatches \in Nat
    BY ConfigAssumption
  <2> QED BY <1>9, <2>1, <2>2, <2>3
<1>12. EngBase(cfg, r)
  BY <1>0, <1>3, <1>8, <1>9, <1>10, <1>11 DEF EngBase
<1>13. Told(cfg, v, r)
  <2> SUFFICES ASSUME cfg.uses \cap {"clear", "restart", "restore", "snapshot", "sync"} = {}
               PROVE  /\ DOMAIN r.tx = (v.txs \ {x \in cfg.txids : r.news[x] = "evicted"})
                                         \cup {x \in cfg.txids : r.news[x] = "added"}
                      /\ \A i \in 1 .. Len(r.matches) :
                           <<r.matches[i].matcher, r.matches[i].txid>> \in v.matches \cup r.announced
    BY DEF Told
  <2>1. DOMAIN e.tx = (v.txs \ {x \in cfg.txids : e.news[x] = "evicted"})
                       \cup {x \in cfg.txids : e.news[x] = "added"}
    BY <1>0 DEF Told
  <2>2. G \subseteq cfg.txids
    BY <1>1, <1>6, RangeOfSeq
  <2>3. \A x \in cfg.txids : r.news[x] = IF x \in G THEN "evicted" ELSE e.news[x]
    BY <1>3 DEF Txids
  <2>4. DOMAIN r.tx = (v.txs \ {x \in cfg.txids : r.news[x] = "evicted"})
                        \cup {x \in cfg.txids : r.news[x] = "added"}
    BY <1>8, <2>1, <2>2, <2>3
  <2>5. \A i \in 1 .. Len(r.matches) :
          <<r.matches[i].matcher, r.matches[i].txid>> \in v.matches \cup r.announced
    BY <1>0, <1>3, <1>9 DEF Told
  <2> QED BY <2>4, <2>5
<1>14. Past(cfg, r, t)
  BY <1>0, <1>8 DEF Past
<1>15. Windowed(cfg, e) => Windowed(cfg, r)
  <2>1. e.recent \in Seq(cfg.txids)
    BY <1>0 DEF EngBase
  <2> QED BY <1>q, <1>1, <1>3, <2>1, SuffixAfter DEF Windowed
<1>16. Shrunk(cfg, e, v, t, r) /\ r.txOrder = After(e.txOrder, n)
  BY <1>q, <1>3, <1>4, <1>8, <1>9, <1>12, <1>13, <1>14, <1>15 DEF Base, Shrunk
<1> QED BY <1>r, <1>16

(* purge_expired stops at the first transaction that is not expired. *)
LEMMA FrontExists ==
  ASSUME NEW e, NEW t, Len(e.txOrder) \in Nat
  PROVE  /\ ExpiredFront(e, t) \in 0 .. Len(e.txOrder)
         /\ \A i \in 1 .. ExpiredFront(e, t) : Expired(e, t, e.txOrder[i])
         /\ ExpiredFront(e, t) < Len(e.txOrder) => ~Expired(e, t, e.txOrder[ExpiredFront(e, t) + 1])
<1>0. PICK l \in Nat : l = Len(e.txOrder)
  OBVIOUS
<1> DEFINE S == {n \in 0 .. l : n < l => ~Expired(e, t, e.txOrder[n + 1])}
<1>1. S \subseteq Nat /\ l \in S
  BY <1>0
<1>2. PICK n \in S : \A m \in S : n <= m
  BY <1>1, LeastExists
<1>3. \A i \in 1 .. n : Expired(e, t, e.txOrder[i])
  <2> SUFFICES ASSUME NEW i \in 1 .. n, ~Expired(e, t, e.txOrder[i]) PROVE FALSE
    OBVIOUS
  <2>1. i - 1 \in 0 .. l /\ (i - 1) + 1 = i
    BY <1>2
  <2>2. i - 1 \in S
    BY <2>1
  <2> QED BY <1>2, <2>2, SMTT(30)
<1>4. \E m \in 0 .. Len(e.txOrder) :
         /\ \A i \in 1 .. m : Expired(e, t, e.txOrder[i])
         /\ m < Len(e.txOrder) => ~Expired(e, t, e.txOrder[m + 1])
  BY <1>0, <1>2, <1>3
<1> QED BY <1>4 DEF ExpiredFront

LEMMA PurgeGood ==
  ASSUME cfg \in Configs, NEW e, NEW v, NEW t, Base(cfg, e, v, t), NEW a
  PROVE  Shrunk(cfg, e, v, t, PurgeExpired(e, a))
<1>1. Len(e.txOrder) \in Nat
  BY LenProperties DEF Base, EngBase, TxInv
<1>2. CASE Ttl = 0
  <2>1. PurgeExpired(e, a) = e
    BY <1>2 DEF PurgeExpired
  <2>2. Shrunk(cfg, e, v, t, e)
    BY <1>1 DEF Shrunk
  <2> QED BY <2>1, <2>2
<1>3. CASE Ttl # 0
  <2>1. PurgeExpired(e, a) = PopTransactions(e, ExpiredFront(e, a))
    BY <1>3 DEF PurgeExpired
  <2>2. ExpiredFront(e, a) \in 0 .. Len(e.txOrder)
    BY <1>1, FrontExists
  <2>3. PICK n : n = ExpiredFront(e, a)
    OBVIOUS
  <2>4. Shrunk(cfg, e, v, t, PopTransactions(e, n))
    BY <2>2, <2>3, PopGood
  <2> QED BY <2>1, <2>3, <2>4
<1> QED BY <1>2, <1>3

(* Records that carry the clock's time stand in the order of their time, so *)
(* looking at the front is enough.                                          *)
LEMMA PurgeFresh ==
  ASSUME cfg \in Configs, NEW e, NEW v, NEW t, t \in Nat, Base(cfg, e, v, t), cfg.skew = 0, Ttl # 0
  PROVE  \A x \in DOMAIN PurgeExpired(e, t).tx : Age(t, e.tx[x].at) <= Ttl
<1>q. PICK q, T : q = e.txOrder /\ T = e.tx
  OBVIOUS
<1>0. /\ TxInv(cfg, T, q) /\ q \in Seq(cfg.txids) /\ (\A x \in DOMAIN T : T[x].at <= t)
      /\ T \in [DOMAIN T -> TxRecord(cfg)] /\ Range(q) = DOMAIN T
  BY <1>q DEF Base, EngBase, TxInv, Past
<1>l. PICK l \in Nat : l = Len(q) /\ DOMAIN q = 1 .. l
  BY <1>0, LenProperties
<1>1. PICK n : n = ExpiredFront(e, t)
  OBVIOUS
<1>2. n \in 0 .. l /\ (n < l => ~Expired(e, t, q[n + 1]))
  BY <1>q, <1>l, <1>1, FrontExists
<1>3. PICK r : r = PurgeExpired(e, t)
  OBVIOUS
<1>4. r = PopTransactions(e, n)
  BY <1>1, <1>3 DEF PurgeExpired
<1>5. Shrunk(cfg, e, v, t, r) /\ r.txOrder = After(q, n)
  BY <1>q, <1>l, <1>2, <1>4, PopGood
<1>6. Range(r.txOrder) = DOMAIN r.tx
  BY <1>5 DEF Shrunk, Base, EngBase, TxInv
<1>7. PICK p : p = After(q, n)
  OBVIOUS
<1>8. /\ Len(p) = l - n /\ DOMAIN p = 1 .. Len(p)
      /\ \A i \in 1 .. Len(p) : p[i] = q[i + n] /\ i + n \in 1 .. l
  BY <1>0, <1>l, <1>2, <1>7, AfterFacts
<1>9. ASSUME NEW x \in DOMAIN r.tx PROVE Age(t, T[x].at) <= Ttl
  <2>1. PICK i \in 1 .. Len(p) : x = p[i]
    BY <1>5, <1>6, <1>7, <1>8, <1>9 DEF Range
  <2>2. x = q[i + n] /\ i + n \in 1 .. l /\ n + 1 \in 1 .. l /\ n < l /\ i >= 1 /\ i \in Nat
    BY <1>2, <1>8, <2>1
  <2>3. PICK y : y = q[n + 1]
    OBVIOUS
  <2>4. y \in DOMAIN T /\ x \in DOMAIN T
    BY <1>0, <1>l, <2>2, <2>3 DEF Range
  <2>5. ~(Age(t, T[y].at) > Ttl)
    BY <1>q, <1>2, <2>2, <2>3, <2>4 DEF Expired
  <2>6. T[y].at <= T[x].at
    <3>1. CASE i = 1
      <4>1. x = y
        BY <1>2, <2>2, <2>3, <3>1
      <4>2. T[x].at \in Nat
        BY <1>0, <2>4, ConfigAssumption DEF TxRecord
      <4> QED BY <4>1, <4>2
    <3>2. CASE i # 1
      <4>1. n + 1 < i + n /\ i + n \in 1 .. Len(q) /\ n + 1 \in 1 .. Len(q)
        BY <1>2, <1>l, <2>2, <3>2
      <4> QED BY <1>0, <2>2, <2>3, <4>1 DEF TxInv
    <3> QED BY <3>1, <3>2
  <2>7. T[x].at \in Nat /\ T[y].at \in Nat /\ Ttl \in Nat
    BY <1>0, <2>4, ConfigAssumption DEF TxRecord, Ttl
  <2>8. T[x].at <= t /\ T[y].at <= t
    BY <1>0, <2>4
  <2> QED BY <2>5, <2>6, <2>7, <2>8 DEF Age
<1> QED BY <1>q, <1>3, <1>9

(* A queue with one transaction too many loses the one in front, never the  *)
(* one that was just added.                                                 *)
Trimmed(k, e, v, t, n, r) ==
  /\ Shrunk(k, e, v, t, r) /\ Len(r.txOrder) <= k.maxTransactions
  /\ n \in 0 .. Len(e.txOrder) /\ r.txOrder = After(e.txOrder, n)
  /\ e.txOrder[Len(e.txOrder)] \in DOMAIN r.tx

LEMMA TrimGood ==
  ASSUME cfg \in Configs, NEW e, NEW v, NEW t, Base(cfg, e, v, t),
         Len(e.txOrder) # 0, Len(e.txOrder) <= cfg.maxTransactions + 1
  PROVE  \E n : Trimmed(cfg, e, v, t, n, TrimTransactions(e))
<1>q. PICK q : q = e.txOrder
  OBVIOUS
<1>0. TxInv(cfg, e.tx, q) /\ q \in Seq(cfg.txids) /\ Distinct(q) /\ Range(q) = DOMAIN e.tx
  BY <1>q DEF Base, EngBase, TxInv
<1>l. PICK l \in Nat : l = Len(q) /\ DOMAIN q = 1 .. l
  BY <1>0, LenProperties
<1>m. PICK m \in Nat : m = cfg.maxTransactions /\ m # 0
  BY ConfigAssumption
<1>1. Cardinality(DOMAIN e.tx) = l
  <2>1. Cardinality(Range(q)) = Len(q)
    BY <1>0, DistinctLength
  <2> QED BY <1>0, <1>l, <2>1
<1>2. PICK n : n = Down(l, m)
  OBVIOUS
<1>3. n \in 0 .. l /\ n < l /\ l - n <= m
  BY <1>q, <1>l, <1>m, <1>2 DEF Down
<1>4. PICK r : r = PopTransactions(e, n)
  OBVIOUS
<1>5. r = TrimTransactions(e)
  BY <1>1, <1>2, <1>4, <1>m DEF TrimTransactions, MaxTransactions
<1>6. Shrunk(cfg, e, v, t, r) /\ r.txOrder = After(q, n)
  BY <1>q, <1>l, <1>3, <1>4, PopGood
<1>7. PICK p : p = After(q, n)
  OBVIOUS
<1>8. /\ Len(p) = l - n /\ DOMAIN p = 1 .. Len(p)
      /\ \A i \in 1 .. Len(p) : p[i] = q[i + n] /\ i + n \in 1 .. l
  <2>1. n \in 0 .. Len(q)
    BY <1>l, <1>3
  <2>2. /\ Len(p) = Len(q) - n /\ DOMAIN p = 1 .. Len(p)
        /\ \A i \in 1 .. Len(p) : p[i] = q[i + n] /\ i + n \in 1 .. Len(q)
    BY <1>0, <1>7, <2>1, AfterFacts
  <2> QED BY <1>l, <2>2
<1>9. l - n \in 1 .. Len(p) /\ (l - n) + n = l
  BY <1>3, <1>8
<1>10. q[l] \in Range(p)
  BY <1>8, <1>9 DEF Range
<1>11. Range(r.txOrder) = DOMAIN r.tx
  BY <1>6 DEF Shrunk, Base, EngBase, TxInv
<1>12. Trimmed(cfg, e, v, t, n, r)
  BY <1>q, <1>l, <1>m, <1>3, <1>6, <1>7, <1>8, <1>10, <1>11 DEF Trimmed
<1> QED BY <1>5, <1>12

-----------------------------------------------------------------------------
(* Ingestion.                                                               *)

(* r is e with x behind its transactions, announced, and window w. *)
Extended(e, x, w, r) ==
  /\ DOMAIN r = Fields
  /\ r.tx = Insert(e.tx, x.txid, x) /\ r.txOrder = Append(e.txOrder, x.txid)
  /\ r.news = [e.news EXCEPT ![x.txid] = "added"] /\ r.recent = w
  /\ r.blocks = e.blocks /\ r.blockOrder = e.blockOrder /\ r.matches = e.matches
  /\ r.matchers = e.matchers /\ r.nextId = e.nextId /\ r.cp = e.cp
  /\ r.announced = e.announced

LEMMA ExtendGood ==
  ASSUME cfg \in Configs, NEW e, NEW v, NEW x, Base(cfg, e, v, x.at), x \in TxRecord(cfg),
         x.txid \notin DOMAIN e.tx, NEW w, w \in Seq(cfg.txids), Len(w) <= cfg.dedupeWindow,
         NEW r, Extended(e, x, w, r)
  PROVE  Base(cfg, r, v, x.at)
<1>0. EngBase(cfg, e) /\ Told(cfg, v, e) /\ Past(cfg, e, x.at) /\ DOMAIN e = Fields
      /\ TxInv(cfg, e.tx, e.txOrder) /\ x.txid \in cfg.txids
  BY DEF Base, EngBase, TxRecord
<1>1. PICK T, q, k : T = e.tx /\ q = e.txOrder /\ k = cfg
  OBVIOUS
<1>2. TxNew(k, T, q, x)
  BY <1>0, <1>1 DEF Past, TxNew
<1>3. TxMore(k, T, x, Insert(T, x.txid, x), Append(q, x.txid))
  BY <1>2, TxAppend
<1>4. /\ TxInv(cfg, r.tx, r.txOrder) /\ DOMAIN r.tx = DOMAIN e.tx \cup {x.txid}
      /\ (\A t \in DOMAIN e.tx : r.tx[t] = e.tx[t]) /\ r.tx[x.txid] = x
  <2>1. TxMore(cfg, e.tx, x, r.tx, r.txOrder)
    BY <1>1, <1>3 DEF Extended
  <2> QED BY <2>1 DEF TxMore
<1>5. MatchInv(cfg, r.matches, r.matchers, r.nextId, DOMAIN r.tx)
  <2>1. MatchInv(cfg, e.matches, e.matchers, e.nextId, DOMAIN e.tx)
    BY <1>0 DEF EngBase
  <2>2. MatchInv(cfg, e.matches, e.matchers, e.nextId, DOMAIN r.tx)
    BY <1>4, <2>1 DEF MatchInv
  <2> QED BY <2>2 DEF Extended
<1>6. r.news \in [cfg.txids -> News]
  BY <1>0 DEF EngBase, Extended, News
<1>7. EngBase(cfg, r)
  BY <1>0, <1>4, <1>5, <1>6 DEF EngBase, Extended
<1>8. Told(cfg, v, r)
  <2> SUFFICES ASSUME cfg.uses \cap {"clear", "restart", "restore", "snapshot", "sync"} = {}
               PROVE  /\ DOMAIN r.tx = (v.txs \ {y \in cfg.txids : r.news[y] = "evicted"})
                                         \cup {y \in cfg.txids : r.news[y] = "added"}
                      /\ \A i \in 1 .. Len(r.matches) :
                           <<r.matches[i].matcher, r.matches[i].txid>> \in v.matches \cup r.announced
    BY DEF Told
  <2>1. DOMAIN e.tx = (v.txs \ {y \in cfg.txids : e.news[y] = "evicted"})
                       \cup {y \in cfg.txids : e.news[y] = "added"}
    BY <1>0 DEF Told
  <2>2. \A y \in cfg.txids : r.news[y] = IF y = x.txid THEN "added" ELSE e.news[y]
    BY <1>0 DEF EngBase, Extended
  <2>3. DOMAIN r.tx = (v.txs \ {y \in cfg.txids : r.news[y] = "evicted"})
                        \cup {y \in cfg.txids : r.news[y] = "added"}
    BY <1>0, <1>4, <2>1, <2>2
  <2>4. \A i \in 1 .. Len(r.matches) :
          <<r.matches[i].matcher, r.matches[i].txid>> \in v.matches \cup r.announced
    BY <1>0 DEF Told, Extended
  <2> QED BY <2>3, <2>4
<1>9. Past(cfg, r, x.at)
  <2>1. x.at \in Nat
    BY ConfigAssumption DEF TxRecord
  <2> QED BY <1>0, <1>4, <2>1 DEF Past
<1> QED BY <1>7, <1>8, <1>9 DEF Base

LEMMA SameBut ==
  ASSUME NEW k, NEW e, NEW v, NEW t, Base(k, e, v, t), NEW r, DOMAIN r = Fields,
         \A f \in Fields \ {"recent", "count", "running", "last", "cp"} : r[f] = e[f],
         r.recent \in Seq(k.txids), Len(r.recent) <= k.dedupeWindow, r.cp \in k.hashes \cup {None}
  PROVE  Base(k, r, v, t)
<1>1. /\ r.tx = e.tx /\ r.txOrder = e.txOrder /\ r.blocks = e.blocks /\ r.blockOrder = e.blockOrder
      /\ r.matches = e.matches /\ r.matchers = e.matchers /\ r.nextId = e.nextId
      /\ r.news = e.news /\ r.announced = e.announced
  BY DEF Fields
<1>2. EngBase(k, r)
  BY <1>1 DEF Base, EngBase
<1>3. Told(k, v, r) /\ Past(k, r, t)
  BY <1>1 DEF Base, Told, Past
<1> QED BY <1>2, <1>3 DEF Base

(* RecentKeys::observe *)
LEMMA ObserveFacts ==
  ASSUME cfg \in Configs, NEW e, EngBase(cfg, e), NEW x, x \in cfg.txids, NEW w,
         w = LastOf(Append(e.recent, x), DedupeWindow)
  PROVE  /\ w \in Seq(cfg.txids) /\ Len(w) <= cfg.dedupeWindow
<1>1. PICK S, d : S = cfg.txids /\ d = cfg.dedupeWindow
  OBVIOUS
<1>2. d \in Nat /\ e.recent \in Seq(S) /\ x \in S
  BY <1>1, ConfigAssumption DEF EngBase
<1>3. PICK p : p = Append(e.recent, x)
  OBVIOUS
<1>4. p \in Seq(S)
  BY <1>2, <1>3, AppendProperties
<1>5. PICK l \in Nat : l = Len(p)
  BY <1>4, LenProperties
<1>6. PICK n \in 0 .. Len(p) : LastOf(p, d) = After(p, n) /\ Len(p) - n <= d
  BY <1>2, <1>4, LastOfIsAfter
<1>7. w = After(p, n)
  BY <1>1, <1>3, <1>6 DEF DedupeWindow
<1>8. w \in Seq(S) /\ Len(w) = Len(p) - n
  BY <1>4, <1>6, <1>7, AfterFacts
<1> QED BY <1>1, <1>6, <1>8

(* A transaction enters a store that does not hold it: at most the oldest   *)
(* one leaves, and the window still covers the queue.                       *)
Entered(k, e, v, x, r) ==
  /\ Good(k, r, v, x.at) /\ r.matchers = e.matchers /\ x.txid \in DOMAIN r.tx
  /\ \A i \in 1 .. Len(r.matches) : \E j \in 1 .. Len(e.matches) : r.matches[i] = e.matches[j]

LEMMA EnterGood ==
  ASSUME cfg \in Configs, NEW e, NEW v, NEW x, Good(cfg, e, v, x.at), x \in TxRecord(cfg),
         x.txid \notin DOMAIN e.tx,
         NEW w, w = LastOf(Append(e.recent, x.txid), DedupeWindow),
         NEW u, Extended(e, x, w, u)
  PROVE  Entered(cfg, e, v, x, TrimTransactions(u))
<1>0. Base(cfg, e, v, x.at) /\ EngBase(cfg, e) /\ x.txid \in cfg.txids
  BY DEF Good, Base, TxRecord
<1>1. w \in Seq(cfg.txids) /\ Len(w) <= cfg.dedupeWindow
  BY <1>0, ObserveFacts
<1>2. Base(cfg, u, v, x.at)
  BY <1>0, <1>1, ExtendGood
<1>3. PICK q, y, S : q = e.txOrder /\ y = x.txid /\ S = cfg.txids
  OBVIOUS
<1>4. q \in Seq(S) /\ y \in S /\ e.recent \in Seq(S)
  BY <1>0, <1>3 DEF EngBase, TxInv
<1>5. PICK p : p = Append(q, y)
  OBVIOUS
<1>6. p \in Seq(S) /\ Len(p) = Len(q) + 1 /\ p[Len(q) + 1] = y /\ Len(q) \in Nat
  BY <1>4, <1>5, AppendProperties, LenProperties
<1>7. u.txOrder = p /\ u.matchers = e.matchers /\ u.matches = e.matches /\ u.recent = w
  BY <1>3, <1>5 DEF Extended
<1>8. Len(q) <= cfg.maxTransactions /\ cfg.maxTransactions \in Nat /\ cfg.dedupeWindow \in Nat
  BY <1>3, ConfigAssumption DEF Good
<1>9. Len(u.txOrder) # 0 /\ Len(u.txOrder) <= cfg.maxTransactions + 1
  BY <1>6, <1>7, <1>8
<1>10. PICK r : r = TrimTransactions(u)
  OBVIOUS
<1>11. PICK n : Trimmed(cfg, u, v, x.at, n, r)
  BY <1>2, <1>9, <1>10, TrimGood
<1>12. /\ Base(cfg, r, v, x.at) /\ r.matchers = u.matchers /\ r.recent = w
       /\ Len(r.txOrder) <= cfg.maxTransactions /\ y \in DOMAIN r.tx
       /\ n \in 0 .. Len(p) /\ r.txOrder = After(p, n)
       /\ \A i \in 1 .. Len(r.matches) : \E j \in 1 .. Len(u.matches) : r.matches[i] = u.matches[j]
  BY <1>6, <1>7, <1>11 DEF Trimmed, Shrunk
<1>13. ASSUME WindowCovers(cfg) PROVE Suffix(r.txOrder, r.recent)
  <2>1. Suffix(q, e.recent)
    BY <1>3, <1>13 DEF Good, Windowed
  <2>2. PICK z, o : z = Append(e.recent, y) /\ o = After(p, n)
    OBVIOUS
  <2>3. Suffix(p, z)
    BY <1>4, <1>5, <2>1, <2>2, SuffixAppend
  <2>4. z \in Seq(S)
    BY <1>4, <2>2, AppendProperties
  <2>5. Suffix(o, z)
    BY <1>6, <1>12, <2>2, <2>3, <2>4, SuffixAfter
  <2>6. o \in Seq(S) /\ Len(o) \in Nat
    BY <1>6, <1>12, <2>2, AfterFacts
  <2>7. Len(o) <= cfg.dedupeWindow
    <3>1. Len(o) <= cfg.maxTransactions
      BY <1>12, <2>2
    <3> QED BY <1>8, <1>13, <2>6, <3>1 DEF WindowCovers
  <2>8. Suffix(o, LastOf(z, cfg.dedupeWindow))
    BY <1>8, <2>4, <2>5, <2>6, <2>7, SuffixLastOf
  <2> QED BY <1>3, <1>12, <2>2, <2>8 DEF DedupeWindow
<1>14. Good(cfg, r, v, x.at)
  BY <1>12, <1>13 DEF Good, Windowed
<1>15. Entered(cfg, e, v, x, r)
  BY <1>3, <1>7, <1>12, <1>14 DEF Entered
<1> QED BY <1>10, <1>15

(* After retain_transaction, x is in the store if it has to be, and no match *)
(* of x is there yet if the window covers the store.                         *)
Retained(k, e, v, x, b, r) ==
  /\ Good(k, r, v, x.at) /\ r.matchers = e.matchers
  /\ k.keepTxs \/ (k.keepMatches /\ b) => x.txid \in DOMAIN r.tx
  /\ WindowCovers(k) => \A i \in 1 .. Len(r.matches) : r.matches[i].txid # x.txid

LEMMA ObserveFields ==
  ASSUME NEW e, DOMAIN e = Fields, NEW y, NEW r, r = Observe(e, y)
  PROVE  /\ DOMAIN r = Fields
         /\ \A f \in Fields \ {"recent"} : r[f] = e[f]
         /\ r.recent = LastOf(Append(e.recent, y), DedupeWindow)
  BY DEF Observe, Fields

LEMMA CountFields ==
  ASSUME NEW e, DOMAIN e = Fields, NEW c, NEW r, r = [e EXCEPT !.count = c]
  PROVE  DOMAIN r = Fields /\ \A f \in Fields \ {"count"} : r[f] = e[f]
  BY DEF Fields

LEMMA CountGood ==
  ASSUME NEW k, NEW e, NEW v, NEW t, Good(k, e, v, t), NEW c, NEW r, r = [e EXCEPT !.count = c]
  PROVE  /\ Good(k, r, v, t) /\ r.matchers = e.matchers /\ r.tx = e.tx /\ r.matches = e.matches
<1>0. DOMAIN e = Fields /\ Base(k, e, v, t) /\ EngBase(k, e)
  BY DEF Good, Base, EngBase
<1>1. DOMAIN r = Fields /\ \A f \in Fields \ {"count"} : r[f] = e[f]
  BY <1>0, CountFields
<1>2. /\ r.recent = e.recent /\ r.cp = e.cp /\ r.txOrder = e.txOrder
      /\ r.matchers = e.matchers /\ r.tx = e.tx /\ r.matches = e.matches
  BY <1>1 DEF Fields
<1>3. r.recent \in Seq(k.txids) /\ Len(r.recent) <= k.dedupeWindow /\ r.cp \in k.hashes \cup {None}
  BY <1>0, <1>2 DEF EngBase
<1>4. Base(k, r, v, t)
  BY <1>0, <1>1, <1>3, SameBut
<1> QED BY <1>2, <1>4 DEF Good, Windowed

LEMMA RetainGood ==
  ASSUME cfg \in Configs, NEW e, NEW v, NEW x, Good(cfg, e, v, x.at), x \in TxRecord(cfg),
         x.txid \notin Range(e.recent), NEW b \in BOOLEAN
  PROVE  Retained(cfg, e, v, x, b, Retain(Observe(e, x.txid), x, b))
<1>0. /\ Base(cfg, e, v, x.at) /\ EngBase(cfg, e) /\ x.txid \in cfg.txids /\ DOMAIN e = Fields
      /\ e.txOrder \in Seq(cfg.txids) /\ e.recent \in Seq(cfg.txids) /\ Range(e.txOrder) = DOMAIN e.tx
      /\ \A i \in 1 .. Len(e.matches) : e.matches[i].txid \in DOMAIN e.tx
  BY DEF Good, Base, EngBase, TxInv, MatchInv, TxRecord
<1>1. PICK o : o = Observe(e, x.txid)
  OBVIOUS
<1>2. /\ DOMAIN o = Fields /\ (\A f \in Fields \ {"recent"} : o[f] = e[f])
      /\ o.recent = LastOf(Append(e.recent, x.txid), DedupeWindow)
  BY <1>0, <1>1, ObserveFields
<1>3. /\ o.tx = e.tx /\ o.txOrder = e.txOrder /\ o.news = e.news /\ o.matchers = e.matchers
      /\ o.matches = e.matches /\ o.cp = e.cp /\ o.blocks = e.blocks /\ o.blockOrder = e.blockOrder
      /\ o.nextId = e.nextId /\ o.announced = e.announced
  BY <1>2 DEF Fields
<1>4. WindowCovers(cfg) => x.txid \notin DOMAIN e.tx
  <2>1. WindowCovers(cfg) => Suffix(e.txOrder, e.recent)
    BY DEF Good, Windowed
  <2>2. PICK S, q, w : S = cfg.txids /\ q = e.txOrder /\ w = e.recent
    OBVIOUS
  <2>3. Suffix(q, w) => Range(q) \subseteq Range(w)
    BY <1>0, <2>2, SuffixRange
  <2> QED BY <1>0, <2>1, <2>2, <2>3
<1>5. CASE ~RetainsTransaction(b) \/ HasTransaction(o, x)
  <2>1. Retain(o, x, b) = o
    BY <1>5 DEF Retain
  <2>2. ~WindowCovers(cfg)
    BY <1>3, <1>4, <1>5 DEF RetainsTransaction, HasTransaction, WindowCovers, KeepTxs
  <2>3. o.recent \in Seq(cfg.txids) /\ Len(o.recent) <= cfg.dedupeWindow /\ o.cp \in cfg.hashes \cup {None}
    BY <1>0, <1>2, <1>3, ObserveFacts DEF EngBase
  <2>4. Base(cfg, o, v, x.at)
    BY <1>0, <1>2, <2>3, SameBut
  <2>5. Good(cfg, o, v, x.at)
    BY <1>3, <2>2, <2>4 DEF Good, Windowed
  <2>6. cfg.keepTxs \/ (cfg.keepMatches /\ b) => x.txid \in DOMAIN o.tx
    BY <1>5 DEF RetainsTransaction, HasTransaction, KeepTxs, KeepMatches
  <2> QED BY <1>1, <1>3, <2>1, <2>2, <2>5, <2>6 DEF Retained
<1>6. CASE ~(~RetainsTransaction(b) \/ HasTransaction(o, x))
  <2>1. x.txid \notin DOMAIN e.tx
    BY <1>3, <1>6 DEF HasTransaction
  <2>2. PICK a : a = [o EXCEPT !.news[x.txid] = "added"]
    OBVIOUS
  <2>3. PICK u : u = [a EXCEPT !.tx = Insert(@, x.txid, x), !.txOrder = Append(@, x.txid)]
    OBVIOUS
  <2>4. a.tx = o.tx
    BY <1>2, <2>2 DEF Fields
  <2>5. Extended(e, x, o.recent, u)
    <3>1. /\ DOMAIN a = Fields /\ (\A f \in Fields \ {"news"} : a[f] = o[f])
          /\ a.news = [o.news EXCEPT ![x.txid] = "added"]
      BY <1>2, <2>2 DEF Fields
    <3>2. /\ DOMAIN u = Fields /\ (\A f \in Fields \ {"tx", "txOrder"} : u[f] = a[f])
          /\ u.tx = Insert(a.tx, x.txid, x) /\ u.txOrder = Append(a.txOrder, x.txid)
      BY <2>3, <3>1 DEF Fields
    <3>3. /\ a.txOrder = o.txOrder /\ u.news = a.news /\ u.recent = o.recent
          /\ u.blocks = o.blocks /\ u.blockOrder = o.blockOrder /\ u.matches = o.matches
          /\ u.matchers = o.matchers /\ u.nextId = o.nextId /\ u.cp = o.cp
          /\ u.announced = o.announced
      BY <3>1, <3>2 DEF Fields
    <3> QED BY <1>3, <2>4, <3>1, <3>2, <3>3 DEF Extended
  <2>6. PICK z : z = TrimTransactions(u)
    OBVIOUS
  <2>7. Entered(cfg, e, v, x, z)
    BY <1>2, <2>1, <2>5, <2>6, EnterGood
  <2>8. InsertTransaction(a, x) = z
    BY <1>6, <2>3, <2>4, <2>6 DEF InsertTransaction, HasTransaction
  <2>9. \E c : Retain(o, x, b) = [z EXCEPT !.count = c]
    BY <1>6, <2>2, <2>8 DEF Retain
  <2>10. PICK c, r : r = [z EXCEPT !.count = c] /\ r = Retain(o, x, b)
    BY <2>9
  <2>11. Good(cfg, r, v, x.at) /\ r.matchers = z.matchers /\ r.tx = z.tx /\ r.matches = z.matches
    BY <2>7, <2>10, CountGood DEF Entered
  <2>12. \A i \in 1 .. Len(r.matches) : r.matches[i].txid # x.txid
    BY <1>0, <2>1, <2>7, <2>11 DEF Entered
  <2>13. Retained(cfg, e, v, x, b, r)
    BY <2>7, <2>11, <2>12 DEF Retained, Entered
  <2> QED BY <1>1, <2>10, <2>13
<1> QED BY <1>1, <1>5, <1>6

LEMMA PublishFields ==
  ASSUME NEW e, DOMAIN e = Fields, NEW x, NEW s, NEW r, r = Publish(e, x, s),
         NEW new, new = [i \in DOMAIN s |-> [matcher |-> s[i], txid |-> x.txid, at |-> x.at]]
  PROVE  /\ DOMAIN r = Fields
         /\ \A f \in Fields \ {"announced", "matches", "count"} : r[f] = e[f]
         /\ r.announced = e.announced \cup {<<i, x.txid>> : i \in Range(s)}
         /\ r.matches = IF KeepMatches THEN LastOf(e.matches \o new, MaxMatches) ELSE e.matches
<1>1. PICK told : told = [e EXCEPT !.announced = @ \cup {<<i, x.txid>> : i \in Range(s)}]
  OBVIOUS
<1>2. /\ DOMAIN told = Fields /\ (\A f \in Fields \ {"announced"} : told[f] = e[f])
      /\ told.announced = e.announced \cup {<<i, x.txid>> : i \in Range(s)}
      /\ told.matches = e.matches
  BY <1>1 DEF Fields
<1>3. CASE ~KeepMatches
  BY <1>1, <1>2, <1>3 DEF Publish
<1>4. CASE KeepMatches
  <2>1. \E c : r = [told EXCEPT !.matches = LastOf(@ \o new, MaxMatches), !.count = c]
    BY <1>1, <1>4 DEF Publish
  <2>2. PICK c : r = [told EXCEPT !.matches = LastOf(@ \o new, MaxMatches), !.count = c]
    BY <2>1
  <2>3. /\ DOMAIN r = Fields /\ (\A f \in Fields \ {"matches", "count"} : r[f] = told[f])
        /\ r.matches = LastOf(told.matches \o new, MaxMatches)
    BY <1>2, <2>2 DEF Fields
  <2>4. r.announced = told.announced
    BY <2>3 DEF Fields
  <2> QED BY <1>2, <1>4, <2>3, <2>4
<1> QED BY <1>3, <1>4

(* publish_matches *)
LEMMA PublishGood ==
  ASSUME cfg \in Configs, NEW e, NEW v, NEW x, x \in TxRecord(cfg),
         NEW s, s \in Scans(e, x), NEW d, Retained(cfg, d, v, x, s # <<>>, e)
  PROVE  Good(cfg, Publish(e, x, s), v, x.at)
<1>0. Good(cfg, e, v, x.at) /\ Base(cfg, e, v, x.at) /\ EngBase(cfg, e) /\ DOMAIN e = Fields
      /\ Told(cfg, v, e) /\ Past(cfg, e, x.at)
  BY DEF Retained, Good, Base, EngBase
<1>1. PICK r : r = Publish(e, x, s)
  OBVIOUS
<1>2. PICK new : new = [i \in DOMAIN s |-> [matcher |-> s[i], txid |-> x.txid, at |-> x.at]]
  OBVIOUS
<1>3. /\ DOMAIN r = Fields
      /\ (\A f \in Fields \ {"announced", "matches", "count"} : r[f] = e[f])
      /\ r.announced = e.announced \cup {<<i, x.txid>> : i \in Range(s)}
      /\ r.matches = IF KeepMatches THEN LastOf(e.matches \o new, MaxMatches) ELSE e.matches
  BY <1>0, <1>1, <1>2, PublishFields
<1>4. /\ r.tx = e.tx /\ r.txOrder = e.txOrder /\ r.blocks = e.blocks /\ r.blockOrder = e.blockOrder
      /\ r.recent = e.recent /\ r.matchers = e.matchers /\ r.nextId = e.nextId
      /\ r.news = e.news /\ r.cp = e.cp
  BY <1>3 DEF Fields
<1>5. PICK H : H = HitIds(e, x)
  OBVIOUS
<1>6. /\ H \subseteq DOMAIN e.matchers /\ H \subseteq 1 .. cfg.maxIds
      /\ \A i \in H : x.txid \in cfg.hits[e.matchers[i]]
  BY <1>0, <1>5 DEF HitIds, Hits, EngBase
<1>7. PICK m \in Nat : m = Cardinality(H)
  <2>1. cfg.maxIds \in Nat
    BY ConfigAssumption
  <2>2. IsFiniteSet(1 .. cfg.maxIds)
    BY <2>1, FS_Interval
  <2> QED BY <1>6, <2>2, FS_Subset, FS_CardinalityType
<1>8. s \in [1 .. m -> H] /\ Range(s) = H /\ \A i, j \in 1 .. m : s[i] = s[j] => i = j
  BY <1>5, <1>7 DEF Scans, IsScan
<1>9. MatchInv(cfg, e.matches, e.matchers, e.nextId, DOMAIN e.tx) /\ Len(e.matches) <= cfg.maxMatches
  BY <1>0 DEF EngBase
<1>10. CASE ~KeepMatches
  <2>1. r.matches = e.matches
    BY <1>3, <1>10
  <2>2. EngBase(cfg, r)
    BY <1>0, <1>3, <1>4, <2>1 DEF EngBase
  <2>3. Told(cfg, v, r) /\ Past(cfg, r, x.at)
    BY <1>0, <1>3, <1>4, <2>1 DEF Told, Past
  <2> QED BY <1>0, <1>1, <1>4, <2>2, <2>3 DEF Good, Base, Windowed
<1>11. CASE KeepMatches
  <2>1. m # 0 => x.txid \in DOMAIN e.tx
    <3>1. m # 0 => s # <<>>
      BY <1>8
    <3> QED BY <1>11, <3>1 DEF Retained, KeepMatches
  <2>2. NewMatches(cfg, e.matches, e.matchers, DOMAIN e.tx, m, s, x.txid, x.at)
    <3>1. x.txid \in cfg.txids /\ x.at \in 0 .. cfg.maxTime
      BY DEF TxRecord
    <3>2. WindowCovers(cfg) => \A i \in 1 .. Len(e.matches) : e.matches[i].txid # x.txid
      BY DEF Retained
    <3> QED BY <1>6, <1>8, <2>1, <3>1, <3>2 DEF NewMatches
  <2>3. PICK k, a, M, n, D, y, at : /\ k = cfg /\ a = e.matches /\ M = e.matchers /\ n = e.nextId
                                    /\ D = DOMAIN e.tx /\ y = x.txid /\ at = x.at
    OBVIOUS
  <2>4. MatchInv(k, a, M, n, D) /\ NewMatches(k, a, M, D, m, s, y, at)
    BY <1>9, <2>2, <2>3
  <2>5. new = [i \in 1 .. m |-> [matcher |-> s[i], txid |-> y, at |-> at]]
    BY <1>2, <1>8, <2>3
  <2>6. MatchInv(k, a \o new, M, n, D) /\ OldOrNew(a, m, s, y, a \o new)
    BY <2>4, <2>5, AddMatches
  <2>7. PICK w, z : w = a \o new /\ z = r.matches
    OBVIOUS
  <2>8. w \in Seq(MatchRecord(k)) /\ k.maxMatches \in Nat
    BY <2>3, <2>6, <2>7, ConfigAssumption DEF MatchInv
  <2>9. z = LastOf(w, k.maxMatches)
    BY <1>3, <1>11, <2>3, <2>7 DEF MaxMatches
  <2>10. PICK o \in 0 .. Len(w) : LastOf(w, k.maxMatches) = After(w, o) /\ Len(w) - o <= k.maxMatches
    BY <2>8, LastOfIsAfter
  <2>11. z \in Seq(MatchRecord(k)) /\ Len(z) = Len(w) - o /\ \E f : Embeds(f, z, w)
    BY <2>8, <2>9, <2>10, AfterFacts
  <2>12. \A i \in 1 .. Len(z) : z[i].txid \in D
    <3>1. PICK f : Embeds(f, z, w)
      BY <2>11
    <3>2. \A i \in 1 .. Len(w) : w[i].txid \in D
      BY <2>6, <2>7 DEF MatchInv
    <3> QED BY <3>1, <3>2 DEF Embeds
  <2>13. MatchInv(k, w, M, n, D)
    BY <2>6, <2>7
  <2>14. MatchLess(k, w, M, n, D, z)
    BY <2>11, <2>12, <2>13, MatchSubset
  <2>15. MatchInv(cfg, r.matches, r.matchers, r.nextId, DOMAIN r.tx)
    BY <1>4, <2>3, <2>7, <2>14 DEF MatchLess
  <2>16. Len(r.matches) <= cfg.maxMatches
    BY <2>3, <2>7, <2>10, <2>11
  <2>17. EngBase(cfg, r)
    BY <1>0, <1>3, <1>4, <2>15, <2>16 DEF EngBase
  <2>18. ASSUME cfg.uses \cap {"clear", "restart", "restore", "snapshot", "sync"} = {},
                NEW i \in 1 .. Len(z)
         PROVE  <<z[i].matcher, z[i].txid>> \in v.matches \cup r.announced
    <3>1. PICK j \in 1 .. Len(w) : z[i] = w[j]
      BY <2>14 DEF MatchLess
    <3>2. CASE \E h \in 1 .. Len(a) : w[j] = a[h]
      BY <1>0, <1>3, <2>3, <2>18, <3>1, <3>2 DEF Told
    <3>3. CASE \E h \in 1 .. m : w[j].matcher = s[h] /\ w[j].txid = y
      <4>1. PICK h \in 1 .. m : w[j].matcher = s[h] /\ w[j].txid = y
        BY <3>3
      <4>2. s[h] \in Range(s)
        BY <1>8 DEF Range
      <4> QED BY <1>3, <2>3, <3>1, <4>1, <4>2
    <3> QED BY <2>6, <2>7, <3>2, <3>3 DEF OldOrNew
  <2>19. Told(cfg, v, r) /\ Past(cfg, r, x.at)
    BY <1>0, <1>4, <2>7, <2>18 DEF Told, Past
  <2> QED BY <1>0, <1>1, <1>4, <2>17, <2>19 DEF Good, Base, Windowed
<1> QED BY <1>10, <1>11

(* ingest_transaction *)
LEMMA IngestGood ==
  ASSUME cfg \in Configs, NEW e, NEW v, NEW x, Good(cfg, e, v, x.at), x \in TxRecord(cfg),
         NEW s, s \in Scans(e, x)
  PROVE  Good(cfg, IngestTransaction(e, x, s), v, x.at)
<1>1. PICK p : p = PurgeExpired(e, x.at)
  OBVIOUS
<1>2. Shrunk(cfg, e, v, x.at, p)
  BY <1>1, PurgeGood DEF Good
<1>3. Good(cfg, p, v, x.at)
  <2>1. Len(p.txOrder) \in Nat /\ Len(e.txOrder) \in Nat /\ cfg.maxTransactions \in Nat
    BY <1>2, LenProperties, ConfigAssumption DEF Shrunk, Good, Base, EngBase, TxInv
  <2> QED BY <1>2, <2>1 DEF Shrunk, Good
<1>4. CASE x.txid \in Range(p.recent)
  BY <1>1, <1>3, <1>4 DEF IngestTransaction
<1>5. CASE x.txid \notin Range(p.recent)
  <2>1. PICK r : r = Retain(Observe(p, x.txid), x, s # <<>>)
    OBVIOUS
  <2>2. Retained(cfg, p, v, x, s # <<>>, r)
    BY <1>3, <1>5, <2>1, RetainGood
  <2>3. r.matchers = e.matchers
    BY <1>2, <2>2 DEF Retained, Shrunk
  <2>4. s \in Scans(r, x)
    BY <2>3 DEF Scans, IsScan, HitIds
  <2>5. Good(cfg, Publish(r, x, s), v, x.at)
    BY <2>2, <2>4, PublishGood
  <2> QED BY <1>1, <1>5, <2>1, <2>5 DEF IngestTransaction
<1> QED BY <1>4, <1>5

(* A block enters a store that does not hold it. *)
LEMMA EnterBlock ==
  ASSUME NEW k, NEW B, NEW q, BlockInv(k, B, q), NEW b, b \in BlockRecord(k), b.hash \notin DOMAIN B,
         NEW m \in Nat, NEW n, n = Down(Cardinality(DOMAIN Insert(B, b.hash, b)), m),
         NEW p, p = Append(q, b.hash)
  PROVE  /\ BlockInv(k, Without(Insert(B, b.hash, b), Range(SubSeq(p, 1, n))), After(p, n))
         /\ Len(After(p, n)) <= m
<1>0. PICK C : C = Insert(B, b.hash, b)
  OBVIOUS
<1>1. BlockInv(k, C, p)
  BY <1>0, BlockAppend
<1>2. p \in Seq(k.hashes) /\ Distinct(p) /\ Range(p) = DOMAIN C
  BY <1>1 DEF BlockInv
<1>3. PICK l \in Nat : l = Len(p)
  BY <1>2, LenProperties
<1>4. Cardinality(DOMAIN C) = l
  <2>1. Cardinality(Range(p)) = Len(p)
    BY <1>2, DistinctLength
  <2> QED BY <1>2, <1>3, <2>1
<1>5. n \in 0 .. Len(p) /\ Len(p) - n <= m
  BY <1>0, <1>3, <1>4 DEF Down
<1>6. PICK G, r : G = Range(SubSeq(p, 1, n)) /\ r = After(p, n)
  OBVIOUS
<1>s. PICK S, h : S = k.hashes /\ h = n
  OBVIOUS
<1>t. p \in Seq(S) /\ h \in 0 .. Len(p) /\ r = After(p, h) /\ G = Range(SubSeq(p, 1, h))
  BY <1>2, <1>5, <1>6, <1>s
<1>7. r \in Seq(k.hashes) /\ Len(r) = Len(p) - n /\ \E f : Embeds(f, r, p)
  <2>1. r \in Seq(S) /\ Len(r) = Len(p) - h /\ \E f : Embeds(f, r, p)
    BY <1>t, AfterFacts, ZenonT(60)
  <2> QED BY <1>s, <2>1
<1>8. Range(r) = Range(p) \ G
  <2>1. Range(After(p, h)) = Range(p) \ Range(SubSeq(p, 1, h))
    BY <1>t, <1>2, FrontAndRest, ZenonT(60)
  <2> QED BY <1>t, <2>1
<1>9. BlockLess(k, C, p, G, r)
  BY <1>1, <1>7, <1>8 DEF BlockLess
<1>10. BlockInv(k, Without(C, G), r)
  BY <1>9, BlockSubset
<1> QED BY <1>0, <1>5, <1>6, <1>7, <1>10

LEMMA BlocksGood ==
  ASSUME NEW k, NEW e, NEW v, NEW t, Base(k, e, v, t), NEW r, DOMAIN r = Fields,
         \A f \in Fields \ {"blocks", "blockOrder", "last", "count"} : r[f] = e[f],
         BlockInv(k, r.blocks, r.blockOrder), Len(r.blockOrder) <= k.maxBlocks
  PROVE  Base(k, r, v, t) /\ (Good(k, e, v, t) => Good(k, r, v, t))
<1>1. /\ r.tx = e.tx /\ r.txOrder = e.txOrder /\ r.recent = e.recent /\ r.cp = e.cp
      /\ r.matches = e.matches /\ r.matchers = e.matchers /\ r.nextId = e.nextId
      /\ r.news = e.news /\ r.announced = e.announced
  BY DEF Fields
<1>2. EngBase(k, r)
  BY <1>1 DEF Base, EngBase
<1>3. Told(k, v, r) /\ Past(k, r, t)
  BY <1>1 DEF Base, Told, Past
<1> QED BY <1>1, <1>2, <1>3 DEF Base, Good, Windowed

BlockIn(e, C, p, n, r) ==
  /\ DOMAIN r = Fields
  /\ \A f \in Fields \ {"blocks", "blockOrder"} : r[f] = e[f]
  /\ r.blocks = Without(C, Range(SubSeq(p, 1, n))) /\ r.blockOrder = After(p, n)

LEMMA InsertBlockFields ==
  ASSUME NEW e, DOMAIN e = Fields, NEW b, b.hash \notin DOMAIN e.blocks,
         NEW C, C = Insert(e.blocks, b.hash, b), NEW p, p = Append(e.blockOrder, b.hash),
         NEW n, n = Down(Cardinality(DOMAIN C), MaxBlocks)
  PROVE  BlockIn(e, C, p, n, InsertBlock(e, b))
<1>r. PICK r : r = InsertBlock(e, b)
  OBVIOUS
<1>1. PICK u : u = [e EXCEPT !.blocks = Insert(@, b.hash, b), !.blockOrder = Append(@, b.hash)]
  OBVIOUS
<1>2. /\ DOMAIN u = Fields /\ (\A f \in Fields \ {"blocks", "blockOrder"} : u[f] = e[f])
      /\ u.blocks = C /\ u.blockOrder = p
  BY <1>1 DEF Fields
<1>3. r = TrimBlocks(u)
  BY <1>r, <1>1 DEF InsertBlock
<1>4. PICK X, y : X = Without(C, Range(SubSeq(p, 1, n))) /\ y = After(p, n)
  OBVIOUS
<1>5. r = [u EXCEPT !.blocks = X, !.blockOrder = y]
  BY <1>2, <1>3, <1>4 DEF TrimBlocks
<1>6. DOMAIN r = Fields /\ r.blocks = X /\ r.blockOrder = y
  BY <1>2, <1>5 DEF Fields
<1>7. \A f \in Fields \ {"blocks", "blockOrder"} : r[f] = e[f]
  BY <1>2, <1>5 DEF Fields
<1> QED BY <1>r, <1>4, <1>6, <1>7 DEF BlockIn

LEMMA InsertBlockGood ==
  ASSUME cfg \in Configs, NEW e, NEW v, NEW t, Base(cfg, e, v, t), NEW b, b \in BlockRecord(cfg),
         NEW r, r = InsertBlock(e, b)
  PROVE  /\ Base(cfg, r, v, t) /\ (Good(cfg, e, v, t) => Good(cfg, r, v, t))
         /\ DOMAIN r = Fields /\ \A f \in Fields \ {"blocks", "blockOrder"} : r[f] = e[f]
<1>0. DOMAIN e = Fields /\ BlockInv(cfg, e.blocks, e.blockOrder)
  BY DEF Base, EngBase
<1>1. CASE b.hash \in DOMAIN e.blocks
  BY <1>0, <1>1 DEF InsertBlock
<1>2. CASE b.hash \notin DOMAIN e.blocks
  <2>1. PICK C, p : C = Insert(e.blocks, b.hash, b) /\ p = Append(e.blockOrder, b.hash)
    OBVIOUS
  <2>2. PICK n : n = Down(Cardinality(DOMAIN C), MaxBlocks)
    OBVIOUS
  <2>3. /\ DOMAIN r = Fields
        /\ (\A f \in Fields \ {"blocks", "blockOrder"} : r[f] = e[f])
        /\ r.blocks = Without(C, Range(SubSeq(p, 1, n))) /\ r.blockOrder = After(p, n)
    <3>1. BlockIn(e, C, p, n, r)
      BY <1>0, <1>2, <2>1, <2>2, InsertBlockFields
    <3> QED BY <3>1 DEF BlockIn
  <2>4. PICK k, B, q, m : k = cfg /\ B = e.blocks /\ q = e.blockOrder /\ m = cfg.maxBlocks
    OBVIOUS
  <2>5. /\ BlockInv(k, B, q) /\ b \in BlockRecord(k) /\ b.hash \notin DOMAIN B /\ m \in Nat
        /\ n = Down(Cardinality(DOMAIN Insert(B, b.hash, b)), m) /\ p = Append(q, b.hash)
    BY <1>0, <1>2, <2>1, <2>2, <2>4, ConfigAssumption DEF MaxBlocks
  <2>6. /\ BlockInv(k, Without(Insert(B, b.hash, b), Range(SubSeq(p, 1, n))), After(p, n))
        /\ Len(After(p, n)) <= m
    BY <2>5, EnterBlock
  <2>7. BlockInv(cfg, r.blocks, r.blockOrder) /\ Len(r.blockOrder) <= cfg.maxBlocks
    BY <2>1, <2>3, <2>4, <2>6
  <2>8. Base(cfg, r, v, t) /\ (Good(cfg, e, v, t) => Good(cfg, r, v, t))
    BY <2>3, <2>7, BlocksGood
  <2> QED BY <2>3, <2>8
<1> QED BY <1>1, <1>2

LEMMA LastFields ==
  ASSUME NEW e, DOMAIN e = Fields, NEW a, NEW r, r = [e EXCEPT !.last = a]
  PROVE  DOMAIN r = Fields /\ \A f \in Fields \ {"last"} : r[f] = e[f]
  BY DEF Fields

(* ingest_block *)
LEMMA IngestBlockGood ==
  ASSUME cfg \in Configs, NEW e, NEW v, NEW t, Good(cfg, e, v, t), NEW b, b \in BlockRecord(cfg)
  PROVE  Good(cfg, IngestBlock(e, b), v, t)
<1>1. PICK p : p = PurgeExpired(e, b.at)
  OBVIOUS
<1>2. Shrunk(cfg, e, v, t, p)
  BY <1>1, PurgeGood DEF Good
<1>3. Good(cfg, p, v, t)
  <2>1. Len(p.txOrder) \in Nat /\ Len(e.txOrder) \in Nat /\ cfg.maxTransactions \in Nat
    BY <1>2, LenProperties, ConfigAssumption DEF Shrunk, Good, Base, EngBase, TxInv
  <2> QED BY <1>2, <2>1 DEF Shrunk, Good
<1>4. PICK u : u = [p EXCEPT !.last = b.at]
  OBVIOUS
<1>5. Good(cfg, u, v, t)
  <2>0. DOMAIN p = Fields /\ BlockInv(cfg, p.blocks, p.blockOrder) /\ Len(p.blockOrder) <= cfg.maxBlocks
        /\ Base(cfg, p, v, t)
    BY <1>3 DEF Good, Base, EngBase
  <2>1. DOMAIN u = Fields /\ \A f \in Fields \ {"last"} : u[f] = p[f]
    BY <1>4, <2>0, LastFields
  <2>2. u.blocks = p.blocks /\ u.blockOrder = p.blockOrder
    BY <2>1 DEF Fields
  <2> QED BY <1>3, <2>0, <2>1, <2>2, BlocksGood
<1>6. CASE ~KeepBlocks \/ b.hash \in DOMAIN u.blocks
  BY <1>1, <1>4, <1>5, <1>6 DEF IngestBlock
<1>7. CASE ~(~KeepBlocks \/ b.hash \in DOMAIN u.blocks)
  <2>1. PICK z : z = InsertBlock(u, b)
    OBVIOUS
  <2>2. Good(cfg, z, v, t)
    BY <1>5, <2>1, InsertBlockGood DEF Good
  <2>3. \E c : IngestBlock(e, b) = [z EXCEPT !.count = c]
    BY <1>1, <1>4, <1>7, <2>1 DEF IngestBlock
  <2> QED BY <2>2, <2>3, CountGood
<1> QED BY <1>6, <1>7

-----------------------------------------------------------------------------
(* Reorganisation.                                                          *)

Reorged(e, R, G, r) ==
  /\ DOMAIN r = Fields
  /\ r.blocks = Without(e.blocks, R) /\ r.blockOrder = Remove(e.blockOrder, R)
  /\ r.tx = Without(e.tx, G) /\ r.txOrder = Remove(e.txOrder, G)
  /\ r.matches = Remove(e.matches, MatchesOf(e.matches, G))
  /\ r.recent = LastOf(Remove(e.txOrder, G), DedupeWindow)
  /\ r.matchers = e.matchers /\ r.nextId = e.nextId /\ r.cp = e.cp
  /\ r.news = e.news /\ r.announced = e.announced

LEMMA ReorgFields ==
  ASSUME NEW e, DOMAIN e = Fields, NEW R, NEW G, G = {t \in DOMAIN e.tx : e.tx[t].block \in R}
  PROVE  Reorged(e, R, G, RebuildRecentTxids(RemoveChainBlocks(e, R)))
<1>r. PICK r : r = RebuildRecentTxids(RemoveChainBlocks(e, R))
  OBVIOUS
<1>1. PICK u : u = RemoveChainBlocks(e, R)
  OBVIOUS
<1>2. \E c : u = [e EXCEPT !.blocks = Without(@, R), !.blockOrder = Remove(@, R),
                           !.tx = Without(@, G), !.txOrder = Remove(@, G),
                           !.matches = Remove(e.matches, MatchesOf(e.matches, G)), !.count = c]
  BY <1>1, ZenonT(60) DEF RemoveChainBlocks
<1>3. PICK c : u = [e EXCEPT !.blocks = Without(@, R), !.blockOrder = Remove(@, R),
                           !.tx = Without(@, G), !.txOrder = Remove(@, G),
                           !.matches = Remove(e.matches, MatchesOf(e.matches, G)), !.count = c]
  BY <1>2
<1>4. /\ DOMAIN u = Fields
      /\ u.blocks = Without(e.blocks, R) /\ u.blockOrder = Remove(e.blockOrder, R)
      /\ u.tx = Without(e.tx, G) /\ u.txOrder = Remove(e.txOrder, G)
      /\ u.matches = Remove(e.matches, MatchesOf(e.matches, G))
      /\ u.matchers = e.matchers /\ u.nextId = e.nextId /\ u.cp = e.cp
      /\ u.news = e.news /\ u.announced = e.announced
  BY <1>3 DEF Fields
<1>5. r = [u EXCEPT !.recent = LastOf(u.txOrder, DedupeWindow)]
  BY <1>r, <1>1 DEF RebuildRecentTxids
<1>6. Reorged(e, R, G, r)
  BY <1>4, <1>5 DEF Fields, Reorged
<1> QED BY <1>r, <1>6

LEMMA ReorgGood ==
  ASSUME cfg \in Configs, NEW e, NEW v, NEW t, Good(cfg, e, v, t), "sync" \in cfg.uses, NEW R
  PROVE  Good(cfg, RebuildRecentTxids(RemoveChainBlocks(e, R)), v, t)
<1>0. /\ EngBase(cfg, e) /\ Past(cfg, e, t) /\ DOMAIN e = Fields
      /\ TxInv(cfg, e.tx, e.txOrder) /\ BlockInv(cfg, e.blocks, e.blockOrder)
      /\ MatchInv(cfg, e.matches, e.matchers, e.nextId, DOMAIN e.tx)
      /\ Len(e.matches) <= cfg.maxMatches /\ Len(e.blockOrder) <= cfg.maxBlocks
      /\ Len(e.txOrder) <= cfg.maxTransactions
  BY DEF Good, Base, EngBase
<1>1. PICK r : r = RebuildRecentTxids(RemoveChainBlocks(e, R))
  OBVIOUS
<1>2. PICK G : G = {x \in DOMAIN e.tx : e.tx[x].block \in R}
  OBVIOUS
<1>3. /\ DOMAIN r = Fields
      /\ r.blocks = Without(e.blocks, R) /\ r.blockOrder = Remove(e.blockOrder, R)
      /\ r.tx = Without(e.tx, G) /\ r.txOrder = Remove(e.txOrder, G)
      /\ r.matches = Remove(e.matches, MatchesOf(e.matches, G))
      /\ r.recent = LastOf(Remove(e.txOrder, G), DedupeWindow)
      /\ r.matchers = e.matchers /\ r.nextId = e.nextId /\ r.cp = e.cp
      /\ r.news = e.news /\ r.announced = e.announced
  <2>1. Reorged(e, R, G, r)
    BY <1>0, <1>1, <1>2, ReorgFields
  <2> QED BY <2>1 DEF Reorged
<1>4. PICK k, T, q, B, bq, ms, M, n, D :
        /\ k = cfg /\ T = e.tx /\ q = e.txOrder /\ B = e.blocks /\ bq = e.blockOrder
        /\ ms = e.matches /\ M = e.matchers /\ n = e.nextId /\ D = DOMAIN e.tx
  OBVIOUS
<1>5. TxInv(k, T, q) /\ BlockInv(k, B, bq) /\ MatchInv(k, ms, M, n, D)
  BY <1>0, <1>4
<1>6. PICK p, c : p = Remove(q, G) /\ c = Remove(bq, R)
  OBVIOUS
<1>7. TxLeft(k, T, q, G, Without(T, G), p) /\ p \in Seq(k.txids)
  <2>1. q \in Seq(k.txids)
    BY <1>5 DEF TxInv
  <2>2. p \in Seq(k.txids) /\ (\E f : Embeds(f, p, q)) /\ Range(p) = Range(q) \ G
    BY <1>6, <2>1, RemoveFacts
  <2>3. TxLess(k, T, q, G, p)
    BY <1>5, <2>2 DEF TxLess
  <2> QED BY <2>2, <2>3, TxSubset
<1>8. BlockInv(k, Without(B, R), c) /\ Len(c) <= Len(bq) /\ Len(c) \in Nat /\ Len(bq) \in Nat
  <2>1. bq \in Seq(k.hashes)
    BY <1>5 DEF BlockInv
  <2>2. c \in Seq(k.hashes) /\ (\E f : Embeds(f, c, bq)) /\ Range(c) = Range(bq) \ R
    BY <1>6, <2>1, RemoveFacts
  <2>3. BlockLess(k, B, bq, R, c)
    BY <1>5, <2>2 DEF BlockLess
  <2> QED BY <2>1, <2>2, <2>3, BlockSubset, LenProperties
<1>9. MatchLess(k, ms, M, n, D \ G, Remove(ms, MatchesOf(ms, G)))
  BY <1>5, DropMatches
<1>10. /\ TxInv(cfg, r.tx, r.txOrder) /\ Len(p) <= Len(q) /\ r.txOrder = p
       /\ DOMAIN r.tx = DOMAIN e.tx \ G
       /\ \A x \in DOMAIN r.tx : r.tx[x] = e.tx[x]
  BY <1>3, <1>4, <1>6, <1>7 DEF TxLeft
<1>11. BlockInv(cfg, r.blocks, r.blockOrder) /\ Len(r.blockOrder) <= cfg.maxBlocks
  <2>1. cfg.maxBlocks \in Nat /\ Len(bq) <= cfg.maxBlocks
    BY <1>0, <1>4, ConfigAssumption
  <2>2. r.blocks = Without(B, R) /\ r.blockOrder = c
    BY <1>3, <1>4, <1>6
  <2> QED BY <1>4, <1>8, <2>1, <2>2
<1>12. /\ MatchInv(cfg, r.matches, r.matchers, r.nextId, DOMAIN r.tx)
       /\ Len(r.matches) <= cfg.maxMatches
  <2>1. MatchLess(cfg, e.matches, r.matchers, r.nextId, DOMAIN r.tx, r.matches)
    BY <1>3, <1>4, <1>9, <1>10
  <2>2. MatchInv(cfg, r.matches, r.matchers, r.nextId, DOMAIN r.tx) /\ Len(r.matches) <= Len(e.matches)
    BY <2>1 DEF MatchLess
  <2>3. Len(r.matches) \in Nat /\ Len(e.matches) \in Nat /\ cfg.maxMatches \in Nat
    BY <1>0, <2>2, LenProperties, ConfigAssumption DEF MatchInv
  <2> QED BY <1>0, <2>2, <2>3
<1>13. /\ Len(p) <= cfg.maxTransactions /\ r.recent \in Seq(cfg.txids)
       /\ Len(r.recent) <= cfg.dedupeWindow /\ Windowed(cfg, r)
  <2>1. PICK S, d, m : S = cfg.txids /\ d = cfg.dedupeWindow /\ m = cfg.maxTransactions
    OBVIOUS
  <2>2. d \in Nat /\ m \in Nat /\ p \in Seq(S) /\ q \in Seq(S)
    BY <1>4, <1>5, <1>7, <2>1, ConfigAssumption DEF TxInv
  <2>3. Len(p) \in Nat /\ Len(q) \in Nat /\ Len(q) <= m
    BY <1>0, <1>4, <2>1, <2>2, LenProperties
  <2>4. r.recent = LastOf(p, d)
    BY <1>3, <1>4, <1>6, <2>1 DEF DedupeWindow
  <2>5. PICK o \in 0 .. Len(p) : LastOf(p, d) = After(p, o) /\ Len(p) - o <= d
    BY <2>2, LastOfIsAfter
  <2>6. After(p, o) \in Seq(S) /\ Len(After(p, o)) = Len(p) - o
    BY <2>2, <2>5, AfterFacts
  <2>7. Len(p) <= m
    BY <1>10, <2>2, <2>3
  <2>8. ASSUME WindowCovers(cfg) PROVE Suffix(p, LastOf(p, d))
    <3>1. LastOf(p, d) = p
      BY <2>1, <2>2, <2>3, <2>7, <2>8 DEF LastOf, WindowCovers
    <3> QED BY <2>2, <3>1, SuffixItself
  <2> QED BY <1>10, <2>1, <2>4, <2>5, <2>6, <2>7, <2>8 DEF Windowed
<1>14. EngBase(cfg, r)
  BY <1>0, <1>3, <1>10, <1>11, <1>12, <1>13 DEF EngBase
<1>15. Told(cfg, v, r)
  BY DEF Told
<1>16. Past(cfg, r, t)
  BY <1>0, <1>10 DEF Past
<1>17. Good(cfg, r, v, t)
  BY <1>10, <1>13, <1>14, <1>15, <1>16 DEF Good, Base
<1> QED BY <1>1, <1>17

-----------------------------------------------------------------------------
(* The other operations on the engine.                                      *)

LEMMA GoodLater ==
  ASSUME NEW k \in Configs, NEW e, NEW v, NEW t, Good(k, e, v, t), NEW u,
         k.skew = 0 => t \in Nat /\ u \in Nat /\ t <= u
  PROVE  Good(k, e, v, u)
<1>1. e.tx \in [DOMAIN e.tx -> TxRecord(k)] /\ k.maxTime \in Nat
  BY ConfigAssumption DEF Good, Base, EngBase, TxInv
<1>2. \A x \in DOMAIN e.tx : e.tx[x].at \in Nat
  BY <1>1 DEF TxRecord
<1>3. Past(k, e, u)
  BY <1>2 DEF Good, Base, Past
<1> QED BY <1>3 DEF Good, Base

LEMMA PurgeKeepsGood ==
  ASSUME cfg \in Configs, NEW e, NEW v, NEW t, Good(cfg, e, v, t), NEW a
  PROVE  Good(cfg, PurgeExpired(e, a), v, t)
<1>1. PICK p : p = PurgeExpired(e, a)
  OBVIOUS
<1>2. Shrunk(cfg, e, v, t, p)
  BY <1>1, PurgeGood DEF Good
<1>3. Len(p.txOrder) \in Nat /\ Len(e.txOrder) \in Nat /\ cfg.maxTransactions \in Nat
  BY <1>2, LenProperties, ConfigAssumption DEF Shrunk, Good, Base, EngBase, TxInv
<1> QED BY <1>1, <1>2, <1>3 DEF Shrunk, Good

LEMMA AdminGood ==
  ASSUME NEW k, NEW e, NEW v, NEW t, Good(k, e, v, t), NEW r, DOMAIN r = Fields,
         \A f \in Fields \ {"count", "running", "last", "cp"} : r[f] = e[f],
         r.cp \in k.hashes \cup {None}
  PROVE  Good(k, r, v, t)
<1>1. r.recent = e.recent /\ r.txOrder = e.txOrder
  BY DEF Fields
<1>2. r.recent \in Seq(k.txids) /\ Len(r.recent) <= k.dedupeWindow
  BY <1>1 DEF Good, Base, EngBase
<1>3. Base(k, r, v, t)
  BY <1>2, SameBut DEF Good
<1> QED BY <1>1, <1>3 DEF Good, Windowed

(* A store without records, under matchers M. *)
EmptyEngine(k, r) ==
  /\ DOMAIN r = Fields
  /\ r.tx = EmptyMap /\ r.txOrder = <<>> /\ r.blocks = EmptyMap /\ r.blockOrder = <<>>
  /\ r.matches = <<>> /\ r.recent = <<>> /\ r.cp = None /\ r.news = [x \in k.txids |-> "none"]
  /\ DOMAIN r.matchers \subseteq 1 .. k.maxIds /\ r.matchers \in [DOMAIN r.matchers -> k.rules]
  /\ KeepsIds(k) /\ "match" \in k.uses => r.nextId \in Nat /\ \A i \in DOMAIN r.matchers : i < r.nextId

LEMMA EmptyGood ==
  ASSUME NEW k \in Configs, NEW r, EmptyEngine(k, r), NEW v, NEW t,
         k.uses \cap {"clear", "restart", "restore", "snapshot", "sync"} = {} => v.txs = {}
  PROVE  Good(k, r, v, t)
<1> USE DEF EmptyEngine
<1>0. /\ k.maxTransactions \in Nat /\ k.maxBlocks \in Nat /\ k.maxMatches \in Nat /\ k.dedupeWindow \in Nat
  BY ConfigAssumption
<1>1. DOMAIN EmptyMap = {} /\ Len(<<>>) = 0 /\ Range(<<>>) = {} /\ DOMAIN <<>> = {}
  BY DEF EmptyMap, Range
<1>2. TxInv(k, r.tx, r.txOrder)
  BY <1>1 DEF TxInv, Distinct, EmptyMap
<1>3. BlockInv(k, r.blocks, r.blockOrder)
  BY <1>1 DEF BlockInv, Distinct, EmptyMap
<1>4. MatchInv(k, r.matches, r.matchers, r.nextId, DOMAIN r.tx)
  BY <1>1 DEF MatchInv, Attributed, SingleMatches
<1>5. r.recent \in Seq(k.txids) /\ r.news \in [k.txids -> News]
  BY DEF News
<1>6. EngBase(k, r)
  BY <1>0, <1>1, <1>2, <1>3, <1>4, <1>5 DEF EngBase
<1>7. Told(k, v, r)
  BY <1>1 DEF Told
<1>8. Past(k, r, t) /\ Windowed(k, r)
  BY <1>1 DEF Past, Windowed, Suffix
<1> QED BY <1>0, <1>1, <1>6, <1>7, <1>8 DEF Good, Base

LEMMA NewGood ==
  ASSUME cfg \in Configs, NEW t
  PROVE  Good(cfg, New, EmptyView, t)
<1>1. PICK r : r = New
  OBVIOUS
<1>2. EmptyEngine(cfg, r)
  BY <1>1 DEF EmptyEngine, New, Fields, NoNews, Txids, EmptyMap
<1> QED BY <1>1, <1>2, EmptyGood DEF EmptyView

(* clear, which keeps the matchers *)
LEMMA ClearGood ==
  ASSUME cfg \in Configs, NEW e, NEW v, NEW t, Good(cfg, e, v, t), "clear" \in cfg.uses
  PROVE  Good(cfg, Cleared(e), v, t)
<1>1. PICK r : r = Cleared(e)
  OBVIOUS
<1>2. /\ DOMAIN r = Fields
      /\ r.tx = EmptyMap /\ r.txOrder = <<>> /\ r.blocks = EmptyMap /\ r.blockOrder = <<>>
      /\ r.matches = <<>> /\ r.recent = <<>> /\ r.cp = None /\ r.news = [x \in cfg.txids |-> "none"]
      /\ r.matchers = e.matchers /\ r.nextId = e.nextId
  BY <1>1 DEF Cleared, New, Fields, NoNews, Txids
<1>3. EmptyEngine(cfg, r)
  BY <1>2 DEF EmptyEngine, Good, Base, EngBase, MatchInv
<1> QED BY <1>1, <1>3, EmptyGood

LEMMA MatchersGood ==
  ASSUME NEW k, NEW e, NEW v, NEW t, Good(k, e, v, t), NEW r, DOMAIN r = Fields,
         \A f \in Fields \ {"matchers", "nextId"} : r[f] = e[f],
         DOMAIN r.matchers \subseteq 1 .. k.maxIds, r.matchers \in [DOMAIN r.matchers -> k.rules],
         MatchInv(k, e.matches, r.matchers, r.nextId, DOMAIN e.tx)
  PROVE  Good(k, r, v, t)
<1>1. /\ r.tx = e.tx /\ r.txOrder = e.txOrder /\ r.recent = e.recent /\ r.cp = e.cp
      /\ r.blocks = e.blocks /\ r.blockOrder = e.blockOrder
      /\ r.matches = e.matches /\ r.news = e.news /\ r.announced = e.announced
  BY DEF Fields
<1>2. EngBase(k, r)
  BY <1>1 DEF Good, Base, EngBase
<1>3. Told(k, v, r) /\ Past(k, r, t)
  BY <1>1 DEF Good, Base, Told, Past
<1> QED BY <1>1, <1>2, <1>3 DEF Base, Good, Windowed

(* add_matcher gives out an id that no retained match carries. *)
LEMMA AddMatcherGood ==
  ASSUME cfg \in Configs, NEW e, NEW v, NEW t, Good(cfg, e, v, t), "match" \in cfg.uses,
         NEW g, g \in cfg.rules, e.nextId \in 1 .. cfg.maxIds
  PROVE  Good(cfg, [e EXCEPT !.matchers = Insert(@, e.nextId, g), !.nextId = @ + 1], v, t)
<1>0. /\ DOMAIN e = Fields /\ MatchInv(cfg, e.matches, e.matchers, e.nextId, DOMAIN e.tx)
      /\ DOMAIN e.matchers \subseteq 1 .. cfg.maxIds /\ e.matchers \in [DOMAIN e.matchers -> cfg.rules]
  BY DEF Good, Base, EngBase
<1>1. PICK M, n, N, s, D : M = e.matchers /\ n = e.nextId /\ N = Insert(M, n, g) /\ s = e.matches /\ D = DOMAIN e.tx
  OBVIOUS
<1>2. /\ DOMAIN N = DOMAIN M \cup {n} /\ N[n] = g /\ (\A i \in DOMAIN M \ {n} : N[i] = M[i])
      /\ N \in [DOMAIN N -> cfg.rules]
  BY <1>0, <1>1 DEF Insert
<1>3. PICK r : r = [e EXCEPT !.matchers = Insert(@, e.nextId, g), !.nextId = @ + 1]
  OBVIOUS
<1>4. /\ DOMAIN r = Fields /\ (\A f \in Fields \ {"matchers", "nextId"} : r[f] = e[f])
      /\ r.matchers = N /\ r.nextId = n + 1
  BY <1>0, <1>1, <1>3 DEF Fields
<1>5. MatchInv(cfg, s, M, n, D) /\ n \in 1 .. cfg.maxIds /\ cfg.maxIds \in Nat
  BY <1>0, <1>1, ConfigAssumption
<1>6. s \in Seq(MatchRecord(cfg)) /\ DOMAIN s = 1 .. Len(s)
  BY <1>5, LenProperties DEF MatchInv
<1>i. \A i \in 1 .. Len(s) : s[i].matcher \in Nat
  <2>1. \A i \in 1 .. Len(s) : s[i] \in MatchRecord(cfg)
    BY <1>6, ElementOfSeq
  <2> QED BY <1>5, <2>1 DEF MatchRecord
<1>7. KeepsIds(cfg) => Attributed(cfg, s, N)
  <2> SUFFICES ASSUME KeepsIds(cfg), NEW i \in DOMAIN s, s[i].matcher \in DOMAIN N
               PROVE  s[i].txid \in cfg.hits[N[s[i].matcher]]
    BY DEF Attributed
  <2>1. s[i].matcher < n /\ s[i].matcher \in Nat /\ n \in Nat
    BY <1>5, <1>6, <1>i DEF MatchInv
  <2>2. s[i].matcher \in DOMAIN M /\ s[i].matcher # n
    BY <1>2, <2>1
  <2>3. s[i].txid \in cfg.hits[M[s[i].matcher]]
    BY <1>5, <2>2 DEF MatchInv, Attributed
  <2> QED BY <1>2, <2>2, <2>3
<1>8. KeepsIds(cfg) => /\ n + 1 \in Nat /\ (\A i \in 1 .. Len(s) : s[i].matcher < n + 1)
                       /\ \A i \in DOMAIN N : i < n + 1
  <2>1. DOMAIN M \subseteq Nat
    BY <1>0, <1>1, <1>5
  <2> QED BY <1>2, <1>5, <1>i, <2>1 DEF MatchInv
<1>9. MatchInv(cfg, s, N, n + 1, D)
  BY <1>5, <1>7, <1>8 DEF MatchInv
<1>10. DOMAIN r.matchers \subseteq 1 .. cfg.maxIds /\ r.matchers \in [DOMAIN r.matchers -> cfg.rules]
  BY <1>0, <1>1, <1>2, <1>4, <1>5
<1>11. MatchInv(cfg, e.matches, r.matchers, r.nextId, DOMAIN e.tx)
  BY <1>1, <1>4, <1>9
<1>12. Good(cfg, r, v, t)
  BY <1>4, <1>10, <1>11, MatchersGood
<1> QED BY <1>3, <1>12

LEMMA RemoveMatcherGood ==
  ASSUME cfg \in Configs, NEW e, NEW v, NEW t, Good(cfg, e, v, t), NEW i
  PROVE  Good(cfg, [e EXCEPT !.matchers = Without(@, {i})], v, t)
<1>0. /\ DOMAIN e = Fields /\ MatchInv(cfg, e.matches, e.matchers, e.nextId, DOMAIN e.tx)
      /\ DOMAIN e.matchers \subseteq 1 .. cfg.maxIds /\ e.matchers \in [DOMAIN e.matchers -> cfg.rules]
  BY DEF Good, Base, EngBase
<1>1. PICK M, N : M = e.matchers /\ N = Without(M, {i})
  OBVIOUS
<1>2. DOMAIN N \subseteq DOMAIN M /\ (\A j \in DOMAIN N : N[j] = M[j]) /\ N \in [DOMAIN N -> cfg.rules]
  BY <1>0, <1>1 DEF Without
<1>3. PICK r : r = [e EXCEPT !.matchers = Without(@, {i})]
  OBVIOUS
<1>4. /\ DOMAIN r = Fields /\ (\A f \in Fields \ {"matchers"} : r[f] = e[f])
      /\ r.matchers = N /\ r.nextId = e.nextId
  BY <1>0, <1>1, <1>3 DEF Fields
<1>5. Attributed(cfg, e.matches, M) => Attributed(cfg, e.matches, N)
  BY <1>2 DEF Attributed
<1>6. MatchInv(cfg, e.matches, r.matchers, r.nextId, DOMAIN e.tx)
  BY <1>0, <1>1, <1>2, <1>4, <1>5 DEF MatchInv
<1>7. DOMAIN r.matchers \subseteq 1 .. cfg.maxIds /\ r.matchers \in [DOMAIN r.matchers -> cfg.rules]
  BY <1>0, <1>1, <1>2, <1>4
<1>8. Good(cfg, r, v, t)
  BY <1>4, <1>6, <1>7, MatchersGood
<1> QED BY <1>3, <1>8

(* drain_events: the consumer knows the store, and the queue is empty. *)
LEMMA DrainGood ==
  ASSUME cfg \in Configs, NEW e, NEW v, NEW t, Good(cfg, e, v, t)
  PROVE  Good(cfg, [e EXCEPT !.news = NoNews, !.announced = {}], AfterEvents(v, e), t)
<1>0. DOMAIN e = Fields /\ EngBase(cfg, e) /\ Told(cfg, v, e) /\ Past(cfg, e, t)
  BY DEF Good, Base, EngBase
<1>1. PICK r, w : r = [e EXCEPT !.news = NoNews, !.announced = {}] /\ w = AfterEvents(v, e)
  OBVIOUS
<1>2. /\ DOMAIN r = Fields /\ r.news = [x \in cfg.txids |-> "none"] /\ r.announced = {}
      /\ r.tx = e.tx /\ r.txOrder = e.txOrder /\ r.recent = e.recent /\ r.cp = e.cp
      /\ r.blocks = e.blocks /\ r.blockOrder = e.blockOrder /\ r.matchers = e.matchers
      /\ r.matches = e.matches /\ r.nextId = e.nextId
  BY <1>0, <1>1 DEF Fields, NoNews, Txids
<1>3. r.news \in [cfg.txids -> News]
  BY <1>2 DEF News
<1>4. EngBase(cfg, r)
  BY <1>0, <1>2, <1>3 DEF EngBase
<1>5. /\ w.txs = (v.txs \ {x \in cfg.txids : e.news[x] = "evicted"})
                   \cup {x \in cfg.txids : e.news[x] = "added"}
      /\ w.matches = v.matches \cup e.announced
  BY <1>1 DEF AfterEvents, Txids
<1>6. Told(cfg, w, r)
  BY <1>0, <1>2, <1>5 DEF Told
<1>7. Past(cfg, r, t)
  BY <1>0, <1>2 DEF Past
<1>8. Good(cfg, r, w, t)
  BY <1>2, <1>4, <1>6, <1>7 DEF Good, Base, Windowed
<1> QED BY <1>1, <1>8

-----------------------------------------------------------------------------
(* Saved states.                                                            *)

(* A state in the storage, on its way there or on its way back. *)
SavedInv(k, p, t) ==
  /\ SavedUnder(k, p)
  /\ WindowCovers(k) => SingleMatches(p.matches)
  /\ KeepsIds(k) => Attributed(k, p.matches, p.matchers)
  /\ KeepsIds(k) /\ "snapshot" \in k.uses => p.matches = <<>>
  /\ k.skew = 0 => /\ \A i, j \in 1 .. Len(p.txs) : i < j => p.txs[i].at <= p.txs[j].at
                   /\ \A i \in 1 .. Len(p.txs) : p.txs[i].at <= t

LEMMA SavedLater ==
  ASSUME NEW k \in Configs, NEW p, NEW t \in Nat, NEW u \in Nat, SavedInv(k, p, t), t <= u
  PROVE  SavedInv(k, p, u)
<1>1. p.txs \in Seq(TxRecord(k)) /\ k.maxTime \in Nat
  BY ConfigAssumption DEF SavedInv, SavedUnder, TxRecord
<1>2. \A i \in 1 .. Len(p.txs) : p.txs[i] \in TxRecord(k)
  BY <1>1, ElementOfSeq
<1>3. \A i \in 1 .. Len(p.txs) : p.txs[i].at \in Nat
  BY <1>1, <1>2 DEF TxRecord
<1> QED BY <1>3 DEF SavedInv

LEMMA FoundSaved ==
  ASSUME NEW k \in Configs, NEW p \in k.disks
  PROVE  SavedInv(k, p, 0)
<1>1. /\ SavedUnder(k, p) /\ (WindowCovers(k) => SingleMatches(p.matches))
      /\ (KeepsIds(k) => Attributed(k, p.matches, p.matchers))
      /\ k.skew = 0 => \A i \in DOMAIN p.txs : p.txs[i].at = 0
  BY ConfigAssumption
<1>2. KeepsIds(k) /\ "snapshot" \in k.uses => p.matches = <<>>
  BY DEF KeepsIds
<1>3. DOMAIN p.txs = 1 .. Len(p.txs)
  BY <1>1, LenProperties DEF SavedUnder
<1> QED BY <1>1, <1>2, <1>3 DEF SavedInv

(* The records in the order of a queue. *)
LEMMA Listed ==
  ASSUME NEW K, NEW R, NEW q \in Seq(K), NEW T, T \in [DOMAIN T -> R], Range(q) = DOMAIN T, Distinct(q),
         NEW s, s = [i \in DOMAIN q |-> T[q[i]]]
  PROVE  s \in Seq(R) /\ Len(s) = Len(q) /\ DOMAIN s = DOMAIN q /\ DOMAIN q = 1 .. Len(q)
<1>1. PICK n \in Nat : n = Len(q) /\ DOMAIN q = 1 .. n
  BY LenProperties
<1>2. \A i \in 1 .. n : s[i] \in R
  BY <1>1 DEF Range
<1>3. s = [i \in 1 .. n |-> s[i]]
  BY <1>1
<1>4. s \in Seq(R) /\ Len(s) = n
  BY <1>2, <1>3, IsASeq, LenProperties
<1> QED BY <1>1, <1>4

(* persisted_state *)
LEMMA PersistGood ==
  ASSUME cfg \in Configs, NEW e, NEW v, NEW t, Good(cfg, e, v, t), "save" \in cfg.uses
  PROVE  SavedInv(cfg, Persisted(e), t)
<1>0. /\ TxInv(cfg, e.tx, e.txOrder) /\ BlockInv(cfg, e.blocks, e.blockOrder)
      /\ MatchInv(cfg, e.matches, e.matchers, e.nextId, DOMAIN e.tx)
      /\ Len(e.matches) <= cfg.maxMatches /\ Len(e.blockOrder) <= cfg.maxBlocks
      /\ Len(e.txOrder) <= cfg.maxTransactions /\ Past(cfg, e, t)
      /\ DOMAIN e.matchers \subseteq 1 .. cfg.maxIds /\ e.matchers \in [DOMAIN e.matchers -> cfg.rules]
      /\ e.cp \in cfg.hashes \cup {None}
  BY DEF Good, Base, EngBase
<1>1. PICK T, q, B, c, p : /\ T = e.tx /\ q = e.txOrder /\ B = e.blocks /\ c = e.blockOrder
                           /\ p = Persisted(e)
  OBVIOUS
<1>2. /\ p.txs = [i \in DOMAIN q |-> T[q[i]]] /\ p.blocks = [i \in DOMAIN c |-> B[c[i]]]
      /\ p.matches = e.matches /\ p.matchers = e.matchers /\ p.cp = e.cp
  BY <1>1 DEF Persisted
<1>3. /\ TxInv(cfg, T, q) /\ q \in Seq(cfg.txids) /\ T \in [DOMAIN T -> TxRecord(cfg)]
      /\ Range(q) = DOMAIN T /\ Distinct(q) /\ \A x \in DOMAIN T : T[x].txid = x
  BY <1>0, <1>1 DEF TxInv
<1>4. /\ BlockInv(cfg, B, c) /\ c \in Seq(cfg.hashes) /\ B \in [DOMAIN B -> BlockRecord(cfg)]
      /\ Range(c) = DOMAIN B /\ Distinct(c) /\ \A x \in DOMAIN B : B[x].hash = x
  BY <1>0, <1>1 DEF BlockInv
<1>5. PICK s, z : s = p.txs /\ z = p.blocks
  OBVIOUS
<1>6. s \in Seq(TxRecord(cfg)) /\ Len(s) = Len(q) /\ DOMAIN s = DOMAIN q /\ DOMAIN q = 1 .. Len(q)
  <2>1. PICK K, R : K = cfg.txids /\ R = TxRecord(cfg)
    OBVIOUS
  <2>2. q \in Seq(K) /\ T \in [DOMAIN T -> R] /\ s = [i \in DOMAIN q |-> T[q[i]]]
    BY <1>2, <1>3, <1>5, <2>1
  <2>3. s \in Seq(R) /\ Len(s) = Len(q) /\ DOMAIN s = DOMAIN q /\ DOMAIN q = 1 .. Len(q)
    BY <1>3, <2>2, Listed
  <2> QED BY <2>1, <2>3
<1>7. z \in Seq(BlockRecord(cfg)) /\ Len(z) = Len(c) /\ DOMAIN z = DOMAIN c /\ DOMAIN c = 1 .. Len(c)
  <2>1. PICK K, R : K = cfg.hashes /\ R = BlockRecord(cfg)
    OBVIOUS
  <2>2. c \in Seq(K) /\ B \in [DOMAIN B -> R] /\ z = [i \in DOMAIN c |-> B[c[i]]]
    BY <1>2, <1>4, <1>5, <2>1
  <2>3. z \in Seq(R) /\ Len(z) = Len(c) /\ DOMAIN z = DOMAIN c /\ DOMAIN c = 1 .. Len(c)
    BY <1>4, <2>2, Listed
  <2> QED BY <2>1, <2>3
<1>8. \A i \in DOMAIN q : q[i] \in DOMAIN T /\ s[i] = T[q[i]] /\ s[i].txid = q[i]
  BY <1>2, <1>3, <1>5 DEF Range
<1>9. \A i \in DOMAIN c : c[i] \in DOMAIN B /\ z[i].hash = c[i]
  BY <1>2, <1>4, <1>5 DEF Range
<1>10. Distinct([i \in DOMAIN s |-> s[i].txid]) /\ Distinct([i \in DOMAIN z |-> z[i].hash])
  BY <1>3, <1>4, <1>6, <1>7, <1>8, <1>9 DEF Distinct
<1>11. e.matches \in Seq(MatchRecord(cfg)) /\ DOMAIN e.matches = 1 .. Len(e.matches)
  BY <1>0, LenProperties DEF MatchInv
<1>12. \A i \in DOMAIN e.matches : \E j \in DOMAIN s : e.matches[i].txid = s[j].txid
  <2> SUFFICES ASSUME NEW i \in DOMAIN e.matches PROVE \E j \in DOMAIN s : e.matches[i].txid = s[j].txid
    OBVIOUS
  <2>1. e.matches[i].txid \in Range(q)
    BY <1>0, <1>1, <1>3, <1>11 DEF MatchInv
  <2>2. PICK j \in DOMAIN q : q[j] = e.matches[i].txid
    BY <2>1 DEF Range
  <2> QED BY <1>6, <1>8, <2>2
<1>13. SavedUnder(cfg, p)
  <2>1. /\ p.txs \in Seq(TxRecord(cfg)) /\ p.blocks \in Seq(BlockRecord(cfg))
        /\ p.matches \in Seq(MatchRecord(cfg))
    BY <1>2, <1>5, <1>6, <1>7, <1>11
  <2>2. Len(p.txs) <= cfg.maxTransactions /\ Len(p.blocks) <= cfg.maxBlocks /\ Len(p.matches) <= cfg.maxMatches
    BY <1>0, <1>1, <1>2, <1>5, <1>6, <1>7
  <2>3. /\ Distinct([i \in DOMAIN p.txs |-> p.txs[i].txid])
        /\ Distinct([i \in DOMAIN p.blocks |-> p.blocks[i].hash])
    BY <1>5, <1>10
  <2>4. \A i \in DOMAIN p.matches : \E j \in DOMAIN p.txs : p.matches[i].txid = p.txs[j].txid
    BY <1>2, <1>5, <1>12
  <2>5. /\ DOMAIN p.matchers \subseteq 1 .. cfg.maxIds /\ p.matchers \in [DOMAIN p.matchers -> cfg.rules]
        /\ p.cp \in cfg.hashes \cup {None}
    BY <1>0, <1>2
  <2> QED BY <2>1, <2>2, <2>3, <2>4, <2>5 DEF SavedUnder, TxRecord, BlockRecord, MatchRecord
<1>14. KeepsIds(cfg) /\ "snapshot" \in cfg.uses => p.matches = <<>>
  BY DEF KeepsIds
<1>15. cfg.skew = 0 => /\ \A i, j \in 1 .. Len(p.txs) : i < j => p.txs[i].at <= p.txs[j].at
                       /\ \A i \in 1 .. Len(p.txs) : p.txs[i].at <= t
  <2> SUFFICES ASSUME cfg.skew = 0
               PROVE  /\ \A i, j \in 1 .. Len(s) : i < j => s[i].at <= s[j].at
                      /\ \A i \in 1 .. Len(s) : s[i].at <= t
    BY <1>5
  <2>1. \A i, j \in 1 .. Len(q) : i < j => T[q[i]].at <= T[q[j]].at
    BY <1>3 DEF TxInv
  <2>2. \A x \in DOMAIN T : T[x].at <= t
    BY <1>0, <1>1 DEF Past
  <2> QED BY <1>6, <1>8, <2>1, <2>2
<1>16. SavedInv(cfg, p, t)
  BY <1>0, <1>2, <1>13, <1>14, <1>15 DEF SavedInv, MatchInv
<1> QED BY <1>1, <1>16

-----------------------------------------------------------------------------
(* Restoring.                                                               *)

(* Map T and queue q hold the first a of the records s, under their keys h. *)
Part(R, s, h, T, q, a) ==
  /\ q = [i \in 1 .. a |-> h[i]]
  /\ T \in [{h[i] : i \in 1 .. a} -> R] /\ \A i \in 1 .. a : T[h[i]] = s[i]

Keyed(K, R, s, h) ==
  /\ s \in Seq(R) /\ h \in Seq(K) /\ Len(h) = Len(s) /\ Distinct(h)

LEMMA PartQueue ==
  ASSUME NEW K, NEW R, NEW s, NEW h, Keyed(K, R, s, h), NEW a, a \in 0 .. Len(s),
         NEW T, NEW q, Part(R, s, h, T, q, a)
  PROVE  /\ q \in Seq(K) /\ Len(q) = a /\ Distinct(q) /\ Range(q) = DOMAIN T
         /\ DOMAIN q = 1 .. a /\ Cardinality(DOMAIN T) = a
<1>0. PICK n \in Nat : n = Len(s) /\ DOMAIN h = 1 .. n /\ a \in 0 .. n /\ a \in Nat
  BY LenProperties DEF Keyed
<1>1. \A i \in 1 .. a : i \in 1 .. n /\ h[i] \in K
  <2>1. \A i \in 1 .. Len(h) : h[i] \in K
    BY ElementOfSeq DEF Keyed
  <2> QED BY <1>0, <2>1 DEF Keyed
<1>2. q \in Seq(K) /\ Len(q) = a
  <2>1. q = [i \in 1 .. a |-> q[i]] /\ \A i \in 1 .. a : q[i] \in K
    BY <1>1 DEF Part
  <2> QED BY <1>0, <2>1, IsASeq, LenProperties
<1>3. DOMAIN q = 1 .. a /\ \A i \in 1 .. a : q[i] = h[i]
  BY DEF Part
<1>4. Distinct(q)
  BY <1>0, <1>1, <1>3 DEF Distinct, Keyed
<1>5. DOMAIN T = {h[i] : i \in 1 .. a}
  BY DEF Part
<1>6. Range(q) = DOMAIN T
  BY <1>3, <1>5 DEF Range
<1>7. Cardinality(Range(q)) = Len(q)
  BY <1>2, <1>4, DistinctLength
<1> QED BY <1>2, <1>3, <1>4, <1>6, <1>7

LEMMA PartNext ==
  ASSUME NEW K, NEW R, NEW s, NEW h, Keyed(K, R, s, h), NEW a, a \in 0 .. Len(s), a # Len(s),
         NEW T, NEW q, Part(R, s, h, T, q, a)
  PROVE  /\ Part(R, s, h, Insert(T, h[a + 1], s[a + 1]), Append(q, h[a + 1]), a + 1)
         /\ h[a + 1] \notin DOMAIN T
<1>0. PICK n \in Nat : n = Len(s) /\ DOMAIN h = 1 .. n /\ DOMAIN s = 1 .. n /\ a \in 0 .. n /\ a \in Nat /\ a # n
  BY LenProperties DEF Keyed
<1>1. /\ q \in Seq(K) /\ Len(q) = a /\ DOMAIN q = 1 .. a
  BY PartQueue
<1>2. /\ a + 1 \in 1 .. n /\ (\A i \in 1 .. a : i \in 1 .. n /\ i # a + 1 /\ i \in 1 .. a + 1)
      /\ a + 1 \in 1 .. a + 1 /\ \A i \in 1 .. a + 1 : i = a + 1 \/ i \in 1 .. a
  BY <1>0, SMTT(30)
<1>3. s[a + 1] \in R /\ h[a + 1] \in K
  BY <1>0, <1>2, ElementOfSeq DEF Keyed
<1>4. PICK U, p, x, y : x = h[a + 1] /\ y = s[a + 1] /\ U = Insert(T, x, y) /\ p = Append(q, x)
  OBVIOUS
<1>5. DOMAIN T = {h[i] : i \in 1 .. a} /\ T \in [DOMAIN T -> R] /\ (\A i \in 1 .. a : T[h[i]] = s[i])
      /\ \A i \in 1 .. a : q[i] = h[i]
  BY DEF Part
<1>6. x \notin DOMAIN T
  BY <1>0, <1>2, <1>4, <1>5 DEF Distinct, Keyed
<1>7. /\ DOMAIN U = DOMAIN T \cup {x} /\ U[x] = y /\ (\A t \in DOMAIN T : U[t] = T[t])
      /\ U \in [DOMAIN U -> R]
  BY <1>3, <1>4, <1>5, <1>6 DEF Insert
<1>8. DOMAIN U = {h[i] : i \in 1 .. a + 1}
  <2>1. \A t \in DOMAIN U : t \in {h[i] : i \in 1 .. a + 1}
    BY <1>2, <1>4, <1>5, <1>7
  <2>2. \A i \in 1 .. a + 1 : h[i] \in DOMAIN U
    BY <1>2, <1>4, <1>5, <1>7
  <2> QED BY <2>1, <2>2
<1>9. \A i \in 1 .. a + 1 : U[h[i]] = s[i]
  BY <1>2, <1>4, <1>5, <1>7
<1>10. p = [i \in 1 .. a + 1 |-> h[i]]
  <2>1. p \in Seq(K) /\ Len(p) = a + 1 /\ p[a + 1] = x /\ \A i \in 1 .. a : p[i] = q[i]
    <3>1. x \in K
      BY <1>3, <1>4
    <3>2. p \in Seq(K) /\ Len(p) = Len(q) + 1 /\ p[Len(q) + 1] = x /\ \A i \in 1 .. Len(q) : p[i] = q[i]
      BY <1>1, <1>4, <3>1, AppendProperties
    <3> QED BY <1>1, <3>2
  <2>2. p \in [1 .. a + 1 -> K]
    BY <2>1, LenProperties
  <2>3. \A i \in 1 .. a + 1 : p[i] = h[i]
    BY <1>2, <1>4, <1>5, <2>1
  <2> QED BY <2>2, <2>3
<1>11. Part(R, s, h, U, p, a + 1)
  BY <1>7, <1>8, <1>9, <1>10 DEF Part
<1> QED BY <1>4, <1>6, <1>11

LEMMA NoneLeaves ==
  ASSUME NEW K, NEW q \in Seq(K), NEW T, NEW D, NEW R, T \in [D -> R]
  PROVE  Range(SubSeq(q, 1, 0)) = {} /\ Without(T, {}) = T /\ After(q, 0) = q
<1>1. 0 \in 0 .. Len(q)
  BY LenProperties
<1>2. Range(SubSeq(q, 1, 0)) = {q[i] : i \in 1 .. 0}
  BY <1>1, FrontAndRest
<1>3. After(q, 0) = q
  BY LenProperties, SubSeqFull DEF After
<1>4. Without(T, {}) = T
  BY DEF Without
<1> QED BY <1>2, <1>3, <1>4

LEMMA NoneRemoved ==
  ASSUME NEW G
  PROVE  Remove(<<>>, G) = <<>>
<1>1. PICK S, z, r : S = {0} /\ z = <<>> /\ r = Remove(z, G)
  OBVIOUS
<1>2. z \in Seq(S) /\ Len(z) = 0
  BY <1>1
<1>3. Remove(z, G) \in Seq(S) /\ \E f : KeptUpTo(z, G, Remove(z, G), Len(z), f)
  BY <1>2, RemoveKeeps
<1>4. PICK f : KeptUpTo(z, G, r, Len(z), f)
  BY <1>1, <1>3
<1>5. r \in Seq(S) /\ Len(r) \in Nat
  BY <1>1, <1>3, LenProperties
<1>6. \A i \in 1 .. Len(r) : f[i] \in 1 .. 0
  BY <1>2, <1>4 DEF KeptUpTo
<1>7. Len(r) = 0
  <2> SUFFICES ASSUME Len(r) # 0 PROVE FALSE
    OBVIOUS
  <2>1. 1 \in 1 .. Len(r)
    BY <1>5
  <2> QED BY <1>6, <2>1
<1>8. r = <<>>
  BY <1>5, <1>7, EmptySeq
<1> QED BY <1>1, <1>8

TxKeys(p) == [i \in DOMAIN p.txs |-> p.txs[i].txid]
BlockKeys(p) == [i \in DOMAIN p.blocks |-> p.blocks[i].hash]

LEMMA SavedKeyed ==
  ASSUME NEW k, NEW p, SavedUnder(k, p)
  PROVE  /\ Keyed(k.txids, TxRecord(k), p.txs, TxKeys(p))
         /\ Keyed(k.hashes, BlockRecord(k), p.blocks, BlockKeys(p))
<1>1. PICK K, R, s, h : K = k.txids /\ R = TxRecord(k) /\ s = p.txs /\ h = TxKeys(p)
  OBVIOUS
<1>2. s \in Seq(R) /\ Distinct(h) /\ h = [i \in DOMAIN s |-> s[i].txid]
  BY <1>1 DEF SavedUnder, TxRecord, TxKeys
<1>3. PICK n \in Nat : n = Len(s) /\ DOMAIN s = 1 .. n
  BY <1>2, LenProperties
<1>4. \A i \in 1 .. n : s[i].txid \in K
  <2>1. \A i \in 1 .. n : s[i] \in R
    BY <1>2, <1>3, ElementOfSeq
  <2> QED BY <1>1, <2>1 DEF TxRecord
<1>5. h = [i \in 1 .. n |-> h[i]] /\ \A i \in 1 .. n : h[i] \in K
  BY <1>2, <1>3, <1>4
<1>6. h \in Seq(K) /\ Len(h) = n
  BY <1>5, IsASeq, LenProperties
<1>7. Keyed(K, R, s, h)
  BY <1>2, <1>3, <1>6 DEF Keyed
<1>11. PICK C, B, z, g : C = k.hashes /\ B = BlockRecord(k) /\ z = p.blocks /\ g = BlockKeys(p)
  OBVIOUS
<1>12. z \in Seq(B) /\ Distinct(g) /\ g = [i \in DOMAIN z |-> z[i].hash]
  BY <1>11 DEF SavedUnder, BlockRecord, BlockKeys
<1>13. PICK m \in Nat : m = Len(z) /\ DOMAIN z = 1 .. m
  BY <1>12, LenProperties
<1>14. \A i \in 1 .. m : z[i].hash \in C
  <2>1. \A i \in 1 .. m : z[i] \in B
    BY <1>12, <1>13, ElementOfSeq
  <2> QED BY <1>11, <2>1 DEF BlockRecord
<1>15. g = [i \in 1 .. m |-> g[i]] /\ \A i \in 1 .. m : g[i] \in C
  BY <1>12, <1>13, <1>14
<1>16. g \in Seq(C) /\ Len(g) = m
  BY <1>15, IsASeq, LenProperties
<1>17. Keyed(C, B, z, g)
  BY <1>12, <1>13, <1>16 DEF Keyed
<1> QED BY <1>1, <1>7, <1>11, <1>17

(* The staged engine e holds the first a transactions, b blocks and m        *)
(* matches of the saved state p.                                             *)
Filled(k, p, e, a, b, m) ==
  /\ DOMAIN e = Fields
  /\ Part(TxRecord(k), p.txs, TxKeys(p), e.tx, e.txOrder, a)
  /\ Part(BlockRecord(k), p.blocks, BlockKeys(p), e.blocks, e.blockOrder, b)
  /\ e.matches = [i \in 1 .. m |-> p.matches[i]]

(* What the restored matches mean under the matchers that will be there. *)
Labelled(k, p, e) ==
  /\ DOMAIN e.matchers \subseteq 1 .. k.maxIds /\ e.matchers \in [DOMAIN e.matchers -> k.rules]
  /\ KeepsIds(k) => Attributed(k, p.matches, e.matchers)
  /\ KeepsIds(k) /\ "match" \in k.uses =>
       /\ e.nextId \in Nat /\ \A i \in 1 .. Len(p.matches) : p.matches[i].matcher < e.nextId
       /\ \A i \in DOMAIN e.matchers : i < e.nextId

SameLabels(e, r) == r.matchers = e.matchers /\ r.nextId = e.nextId

LEMMA FillTx ==
  ASSUME cfg \in Configs, NEW p, SavedUnder(cfg, p), NEW e, NEW a, a \in 0 .. Len(p.txs), a # Len(p.txs),
         Filled(cfg, p, e, a, 0, 0)
  PROVE  /\ Filled(cfg, p, InsertTransaction(e, p.txs[a + 1]), a + 1, 0, 0)
         /\ SameLabels(e, InsertTransaction(e, p.txs[a + 1]))
<1>1. PICK K, R, s, h, T, q, x : /\ K = cfg.txids /\ R = TxRecord(cfg) /\ s = p.txs /\ h = TxKeys(p)
                                 /\ T = e.tx /\ q = e.txOrder /\ x = p.txs[a + 1]
  OBVIOUS
<1>2. Keyed(K, R, s, h) /\ Part(R, s, h, T, q, a) /\ a \in 0 .. Len(s) /\ a # Len(s) /\ x = s[a + 1]
  BY <1>1, SavedKeyed DEF Filled
<1>3. /\ Part(R, s, h, Insert(T, h[a + 1], s[a + 1]), Append(q, h[a + 1]), a + 1)
      /\ h[a + 1] \notin DOMAIN T
  BY <1>2, PartNext
<1>n. PICK n \in Nat : n = Len(s) /\ DOMAIN s = 1 .. n /\ a \in 0 .. n /\ a # n
  BY <1>2, LenProperties DEF Keyed
<1>4. h[a + 1] = x.txid
  <2>1. a + 1 \in DOMAIN p.txs
    BY <1>1, <1>n
  <2> QED BY <1>1, <2>1 DEF TxKeys
<1>5. PICK U, o : U = Insert(T, x.txid, x) /\ o = Append(q, x.txid)
  OBVIOUS
<1>6. Part(R, s, h, U, o, a + 1) /\ x.txid \notin DOMAIN T
  BY <1>2, <1>3, <1>4, <1>5
<1>7. a + 1 \in 0 .. Len(s)
  BY <1>n
<1>8. o \in Seq(K) /\ Cardinality(DOMAIN U) = a + 1
  BY <1>2, <1>6, <1>7, PartQueue
<1>9. Down(a + 1, cfg.maxTransactions) = 0
  <2>1. n <= cfg.maxTransactions /\ cfg.maxTransactions \in Nat
    BY <1>1, <1>n, ConfigAssumption DEF SavedUnder
  <2> QED BY <1>n, <2>1 DEF Down
<1>10. PICK u : u = [e EXCEPT !.tx = Insert(@, x.txid, x), !.txOrder = Append(@, x.txid)]
  OBVIOUS
<1>11. DOMAIN e = Fields /\ e.matches = <<>>
  BY DEF Filled
<1>12. /\ DOMAIN u = Fields /\ u.tx = U /\ u.txOrder = o
       /\ u.blocks = e.blocks /\ u.blockOrder = e.blockOrder /\ u.matches = <<>>
       /\ u.matchers = e.matchers /\ u.nextId = e.nextId
  BY <1>1, <1>5, <1>10, <1>11 DEF Fields
<1>13. PICK r : r = PopTransactions(u, 0)
  OBVIOUS
<1>14. InsertTransaction(e, x) = r
  <2>1. InsertTransaction(e, x) = TrimTransactions(u)
    BY <1>1, <1>6, <1>10 DEF InsertTransaction, HasTransaction
  <2> QED BY <1>8, <1>9, <1>12, <1>13, <2>1 DEF TrimTransactions, MaxTransactions
<1>15. U \in [{h[i] : i \in 1 .. a + 1} -> R]
  BY <1>6 DEF Part
<1>16. Range(SubSeq(o, 1, 0)) = {} /\ Without(U, {}) = U /\ After(o, 0) = o
  BY <1>8, <1>15, NoneLeaves
<1>17. PICK G : G = Range(SubSeq(u.txOrder, 1, 0))
  OBVIOUS
<1>18. /\ DOMAIN r = Fields
       /\ r.tx = Without(u.tx, G) /\ r.txOrder = After(u.txOrder, 0)
       /\ r.matches = Remove(u.matches, MatchesOf(u.matches, G))
       /\ r.blocks = u.blocks /\ r.blockOrder = u.blockOrder
       /\ r.matchers = u.matchers /\ r.nextId = u.nextId
  <2>1. Popped(u, 0, Range(SubSeq(u.txOrder, 1, 0)), PopTransactions(u, 0))
    BY <1>12, PopFields
  <2> QED BY <1>13, <1>17, <2>1 DEF Popped
<1>19. r.tx = U /\ r.txOrder = o /\ r.blocks = e.blocks /\ r.blockOrder = e.blockOrder
       /\ r.matchers = e.matchers /\ r.nextId = e.nextId
  BY <1>12, <1>16, <1>17, <1>18
<1>20. r.matches = <<>>
  BY <1>12, <1>18, NoneRemoved
<1>21. Filled(cfg, p, r, a + 1, 0, 0)
  BY <1>1, <1>6, <1>11, <1>18, <1>19, <1>20 DEF Filled
<1> QED BY <1>1, <1>14, <1>19, <1>21 DEF SameLabels

LEMMA FillBlock ==
  ASSUME cfg \in Configs, NEW p, SavedUnder(cfg, p), NEW e, NEW a,
         NEW b, b \in 0 .. Len(p.blocks), b # Len(p.blocks), Filled(cfg, p, e, a, b, 0)
  PROVE  /\ Filled(cfg, p, InsertBlock(e, p.blocks[b + 1]), a, b + 1, 0)
         /\ SameLabels(e, InsertBlock(e, p.blocks[b + 1]))
<1>1. PICK K, R, s, h, T, q, x : /\ K = cfg.hashes /\ R = BlockRecord(cfg) /\ s = p.blocks /\ h = BlockKeys(p)
                                 /\ T = e.blocks /\ q = e.blockOrder /\ x = p.blocks[b + 1]
  OBVIOUS
<1>2. Keyed(K, R, s, h) /\ Part(R, s, h, T, q, b) /\ b \in 0 .. Len(s) /\ b # Len(s) /\ x = s[b + 1]
  BY <1>1, SavedKeyed DEF Filled
<1>3. /\ Part(R, s, h, Insert(T, h[b + 1], s[b + 1]), Append(q, h[b + 1]), b + 1)
      /\ h[b + 1] \notin DOMAIN T
  BY <1>2, PartNext
<1>n. PICK n \in Nat : n = Len(s) /\ DOMAIN s = 1 .. n /\ b \in 0 .. n /\ b # n
  BY <1>2, LenProperties DEF Keyed
<1>4. h[b + 1] = x.hash
  <2>1. b + 1 \in DOMAIN p.blocks
    BY <1>1, <1>n
  <2> QED BY <1>1, <2>1 DEF BlockKeys
<1>5. PICK U, o : U = Insert(T, x.hash, x) /\ o = Append(q, x.hash)
  OBVIOUS
<1>6. Part(R, s, h, U, o, b + 1) /\ x.hash \notin DOMAIN T
  BY <1>2, <1>3, <1>4, <1>5
<1>7. b + 1 \in 0 .. Len(s)
  BY <1>n
<1>8. o \in Seq(K) /\ Cardinality(DOMAIN U) = b + 1
  BY <1>2, <1>6, <1>7, PartQueue
<1>9. Down(b + 1, cfg.maxBlocks) = 0
  <2>1. n <= cfg.maxBlocks /\ cfg.maxBlocks \in Nat
    BY <1>1, <1>n, ConfigAssumption DEF SavedUnder
  <2> QED BY <1>n, <2>1 DEF Down
<1>10. DOMAIN e = Fields
  BY DEF Filled
<1>11. PICK c, r : c = Down(Cardinality(DOMAIN U), MaxBlocks) /\ r = InsertBlock(e, x)
  OBVIOUS
<1>12. BlockIn(e, U, o, c, r)
  BY <1>1, <1>5, <1>6, <1>10, <1>11, InsertBlockFields
<1>13. c = 0
  BY <1>8, <1>9, <1>11 DEF MaxBlocks
<1>14. U \in [{h[i] : i \in 1 .. b + 1} -> R]
  BY <1>6 DEF Part
<1>15. Range(SubSeq(o, 1, 0)) = {} /\ Without(U, {}) = U /\ After(o, 0) = o
  BY <1>8, <1>14, NoneLeaves
<1>16. /\ DOMAIN r = Fields /\ r.blocks = U /\ r.blockOrder = o
       /\ r.tx = e.tx /\ r.txOrder = e.txOrder /\ r.matches = e.matches
       /\ r.matchers = e.matchers /\ r.nextId = e.nextId
  BY <1>12, <1>13, <1>15 DEF BlockIn, Fields
<1>17. Filled(cfg, p, r, a, b + 1, 0)
  BY <1>1, <1>6, <1>16 DEF Filled
<1> QED BY <1>1, <1>11, <1>16, <1>17 DEF SameLabels

LEMMA FillMatch ==
  ASSUME cfg \in Configs, NEW p, SavedUnder(cfg, p), NEW e, NEW a, NEW b,
         NEW m, m \in 0 .. Len(p.matches), m # Len(p.matches), Filled(cfg, p, e, a, b, m)
  PROVE  /\ Filled(cfg, p, InsertMatch(e, p.matches[m + 1]), a, b, m + 1)
         /\ SameLabels(e, InsertMatch(e, p.matches[m + 1]))
<1>1. PICK R, s, q, x, r : /\ R = MatchRecord(cfg) /\ s = p.matches /\ q = e.matches
                           /\ x = p.matches[m + 1] /\ r = InsertMatch(e, x)
  OBVIOUS
<1>2. PICK n \in Nat : n = Len(s) /\ DOMAIN s = 1 .. n /\ m \in 0 .. n /\ m # n /\ m \in Nat
  BY <1>1, LenProperties DEF SavedUnder
<1>3. s \in Seq(R) /\ n <= cfg.maxMatches /\ cfg.maxMatches \in Nat
  BY <1>1, <1>2, ConfigAssumption DEF SavedUnder, MatchRecord
<1>4. \A i \in 1 .. n : s[i] \in R
  BY <1>2, <1>3, ElementOfSeq
<1>5. /\ m + 1 \in 1 .. n /\ (\A i \in 1 .. m : i \in 1 .. n)
      /\ \A i \in 1 .. m + 1 : i = m + 1 \/ i \in 1 .. m
  BY <1>2
<1>6. q = [i \in 1 .. m |-> s[i]]
  BY <1>1 DEF Filled
<1>7. q \in Seq(R) /\ Len(q) = m
  <2>1. q = [i \in 1 .. m |-> q[i]] /\ \A i \in 1 .. m : q[i] \in R
    BY <1>4, <1>5, <1>6
  <2> QED BY <1>2, <2>1, IsASeq, LenProperties
<1>8. PICK o : o = Append(q, x)
  OBVIOUS
<1>9. x \in R /\ x = s[m + 1]
  BY <1>1, <1>4, <1>5
<1>10. o \in Seq(R) /\ Len(o) = m + 1 /\ o[m + 1] = x /\ \A i \in 1 .. m : o[i] = q[i]
  <2>1. o \in Seq(R) /\ Len(o) = Len(q) + 1 /\ o[Len(q) + 1] = x /\ \A i \in 1 .. Len(q) : o[i] = q[i]
    BY <1>7, <1>8, <1>9, AppendProperties
  <2> QED BY <1>7, <2>1
<1>11. o = [i \in 1 .. m + 1 |-> s[i]]
  <2>1. o \in [1 .. m + 1 -> R]
    BY <1>10, LenProperties
  <2>2. \A i \in 1 .. m + 1 : o[i] = s[i]
    BY <1>5, <1>6, <1>9, <1>10
  <2> QED BY <2>1, <2>2
<1>12. LastOf(o, cfg.maxMatches) = o
  BY <1>2, <1>3, <1>10 DEF LastOf
<1>13. DOMAIN e = Fields
  BY DEF Filled
<1>14. r = [e EXCEPT !.matches = o]
  BY <1>1, <1>8, <1>12 DEF InsertMatch, MaxMatches
<1>15. /\ DOMAIN r = Fields /\ r.matches = o
       /\ r.tx = e.tx /\ r.txOrder = e.txOrder /\ r.blocks = e.blocks /\ r.blockOrder = e.blockOrder
       /\ r.matchers = e.matchers /\ r.nextId = e.nextId
  BY <1>13, <1>14 DEF Fields
<1>16. Filled(cfg, p, r, a, b, m + 1)
  BY <1>1, <1>11, <1>15 DEF Filled
<1> QED BY <1>1, <1>15, <1>16 DEF SameLabels

(* The items of a restore, by their positions. *)
ItemsInOrder(p, w) ==
  /\ Len(w) = Len(p.txs) + Len(p.blocks) + Len(p.matches)
  /\ \A i \in 1 .. Len(p.txs) : w[i] = [kind |-> "tx", rec |-> p.txs[i]]
  /\ \A i \in 1 .. Len(p.blocks) : w[Len(p.txs) + i] = [kind |-> "block", rec |-> p.blocks[i]]
  /\ \A i \in 1 .. Len(p.matches) :
       w[Len(p.txs) + Len(p.blocks) + i] = [kind |-> "match", rec |-> p.matches[i]]

ItemOf(kind, R, S) == \A x \in R : [kind |-> kind, rec |-> x] \in S

ItemsListed(kind, s, S, w) ==
  /\ w \in Seq(S) /\ Len(w) = Len(s)
  /\ \A i \in 1 .. Len(s) : w[i] = [kind |-> kind, rec |-> s[i]]

LEMMA ItemsFacts ==
  ASSUME NEW R, NEW S, NEW s, s \in Seq(R), NEW kind, ItemOf(kind, R, S)
  PROVE  ItemsListed(kind, s, S, Items(kind, s))
<1>1. PICK n \in Nat : n = Len(s) /\ DOMAIN s = 1 .. n
  BY LenProperties
<1>2. PICK w : w = Items(kind, s)
  OBVIOUS
<1>3. w = [i \in 1 .. n |-> [kind |-> kind, rec |-> s[i]]]
  BY <1>1, <1>2 DEF Items
<1>4. \A i \in 1 .. n : s[i] \in R
  BY <1>1, ElementOfSeq
<1>5. w = [i \in 1 .. n |-> w[i]] /\ \A i \in 1 .. n : w[i] = [kind |-> kind, rec |-> s[i]] /\ w[i] \in S
  BY <1>3, <1>4 DEF ItemOf
<1>6. w \in Seq(S) /\ Len(w) = n
  BY <1>5, IsASeq, LenProperties
<1> QED BY <1>1, <1>2, <1>5, <1>6 DEF ItemsListed

LEMMA RestoreItemsFacts ==
  ASSUME NEW k, NEW p, SavedUnder(k, p)
  PROVE  ItemsInOrder(p, RestoreItems(p)) /\ \E S : RestoreItems(p) \in Seq(S)
<1>1. PICK s, z, y : s = p.txs /\ z = p.blocks /\ y = p.matches
  OBVIOUS
<1>2. PICK A, B, C : A = TxRecord(k) /\ B = BlockRecord(k) /\ C = MatchRecord(k)
  OBVIOUS
<1>3. s \in Seq(A) /\ z \in Seq(B) /\ y \in Seq(C)
  BY <1>1, <1>2 DEF SavedUnder, TxRecord, BlockRecord, MatchRecord
<1>4. PICK S : S = [kind : {"tx", "block", "match"}, rec : A \cup B \cup C]
  OBVIOUS
<1>5. ItemOf("tx", A, S) /\ ItemOf("block", B, S) /\ ItemOf("match", C, S)
  BY <1>4 DEF ItemOf
<1>6. PICK n \in Nat, l \in Nat, m \in Nat : n = Len(s) /\ l = Len(z) /\ m = Len(y)
  BY <1>3, LenProperties
<1>7. PICK f, g, h : f = Items("tx", s) /\ g = Items("block", z) /\ h = Items("match", y)
  OBVIOUS
<1>8. f \in Seq(S) /\ Len(f) = n /\ \A i \in 1 .. n : f[i] = [kind |-> "tx", rec |-> s[i]]
  <2>1. ItemsListed("tx", s, S, f)
    BY <1>3, <1>5, <1>7, ItemsFacts
  <2> QED BY <1>6, <2>1 DEF ItemsListed
<1>9. g \in Seq(S) /\ Len(g) = l /\ \A i \in 1 .. l : g[i] = [kind |-> "block", rec |-> z[i]]
  <2>1. ItemsListed("block", z, S, g)
    BY <1>3, <1>5, <1>7, ItemsFacts
  <2> QED BY <1>6, <2>1 DEF ItemsListed
<1>10. h \in Seq(S) /\ Len(h) = m /\ \A i \in 1 .. m : h[i] = [kind |-> "match", rec |-> y[i]]
  <2>1. ItemsListed("match", y, S, h)
    BY <1>3, <1>5, <1>7, ItemsFacts
  <2> QED BY <1>6, <2>1 DEF ItemsListed
<1>11. PICK u, w : u = f \o g /\ w = u \o h
  OBVIOUS
<1>12. /\ u \in Seq(S) /\ Len(u) = n + l
       /\ \A i \in 1 .. n + l : u[i] = IF i <= n THEN f[i] ELSE g[i - n]
  BY <1>8, <1>9, <1>11, ConcatProperties, ZenonT(60)
<1>13. /\ w \in Seq(S) /\ Len(w) = n + l + m
       /\ \A i \in 1 .. n + l + m : w[i] = IF i <= n + l THEN u[i] ELSE h[i - (n + l)]
  <2>1. /\ w \in Seq(S) /\ Len(w) = Len(u) + Len(h)
        /\ \A i \in 1 .. Len(u) + Len(h) : w[i] = IF i <= Len(u) THEN u[i] ELSE h[i - Len(u)]
    <3>1. u \in Seq(S) /\ h \in Seq(S) /\ w = u \o h
      BY <1>10, <1>11, <1>12
    <3> QED BY <3>1, ConcatProperties
  <2> QED BY <1>10, <1>12, <2>1
<1>14. w = RestoreItems(p)
  BY <1>1, <1>7, <1>11 DEF RestoreItems
<1>15. \A i \in 1 .. n : w[i] = f[i]
  <2>1. \A i \in 1 .. n : i \in 1 .. n + l /\ i \in 1 .. n + l + m /\ i <= n + l /\ i <= n
    OBVIOUS
  <2> QED BY <1>12, <1>13, <2>1
<1>16. \A i \in 1 .. l : w[n + i] = g[i]
  <2>1. \A i \in 1 .. l : /\ n + i \in 1 .. n + l /\ n + i \in 1 .. n + l + m /\ n + i <= n + l
                           /\ ~(n + i <= n) /\ (n + i) - n = i
    OBVIOUS
  <2> QED BY <1>12, <1>13, <2>1
<1>17. \A i \in 1 .. m : w[n + l + i] = h[i]
  <2>1. \A i \in 1 .. m : /\ n + l + i \in 1 .. n + l + m /\ ~(n + l + i <= n + l)
                           /\ (n + l + i) - (n + l) = i
    OBVIOUS
  <2> QED BY <1>13, <2>1
<1>18. ItemsInOrder(p, w)
  BY <1>1, <1>6, <1>8, <1>9, <1>10, <1>13, <1>15, <1>16, <1>17 DEF ItemsInOrder
<1> QED BY <1>13, <1>14, <1>18

LEMMA AfterStep ==
  ASSUME NEW S, NEW w \in Seq(S), NEW c, c \in 0 .. Len(w)
  PROVE  /\ After(w, c) = <<>> => c = Len(w)
         /\ After(w, c) # <<>> => /\ c # Len(w) /\ Head(After(w, c)) = w[c + 1]
                                  /\ Tail(After(w, c)) = After(w, c + 1)
<1>0. PICK n \in Nat : n = Len(w) /\ c \in 0 .. n /\ c \in Nat
  BY LenProperties
<1>1. PICK r : r = After(w, c)
  OBVIOUS
<1>2. r \in Seq(S) /\ Len(r) = n - c /\ \A i \in 1 .. n - c : r[i] = w[i + c]
  <2>1. r \in Seq(S) /\ Len(r) = Len(w) - c /\ \A i \in 1 .. Len(r) : r[i] = w[i + c]
    BY <1>1, AfterFacts
  <2> QED BY <1>0, <2>1
<1>3. r = <<>> => c = n
  BY <1>0, <1>2
<1>4. ASSUME r # <<>>
      PROVE  c # n /\ Head(r) = w[c + 1] /\ Tail(r) = After(w, c + 1)
  <2>1. c # n
    BY <1>0, <1>2, <1>4, EmptySeq
  <2>2. 1 \in 1 .. n - c /\ c + 1 \in 0 .. n /\ 1 + c = c + 1
    BY <1>0, <2>1
  <2>3. Head(r) = w[c + 1]
    BY <1>2, <2>2
  <2>4. PICK t, o : t = Tail(r) /\ o = After(w, c + 1)
    OBVIOUS
  <2>5. t \in Seq(S) /\ Len(t) = n - c - 1 /\ \A i \in 1 .. n - c - 1 : t[i] = r[i + 1]
    <3>1. t \in Seq(S) /\ Len(t) = Len(r) - 1 /\ \A i \in 1 .. Len(t) : t[i] = r[i + 1]
      BY <1>2, <1>4, <2>4, HeadTailProperties
    <3> QED BY <1>2, <3>1
  <2>6. o \in Seq(S) /\ Len(o) = n - (c + 1) /\ \A i \in 1 .. n - (c + 1) : o[i] = w[i + (c + 1)]
    <3>1. c + 1 \in 0 .. Len(w)
      BY <1>0, <2>2
    <3>2. o \in Seq(S) /\ Len(o) = Len(w) - (c + 1) /\ \A i \in 1 .. Len(o) : o[i] = w[i + (c + 1)]
      BY <2>4, <3>1, AfterFacts
    <3> QED BY <1>0, <3>2
  <2>7. Len(t) = Len(o) /\ Len(t) = n - c - 1
    BY <1>0, <2>5, <2>6
  <2>8. ASSUME NEW i \in 1 .. n - c - 1 PROVE t[i] = o[i]
    <3>1. i + 1 \in 1 .. n - c /\ i \in 1 .. n - (c + 1) /\ (i + 1) + c = i + (c + 1)
      BY <1>0
    <3> QED BY <1>2, <2>5, <2>6, <3>1
  <2>9. t = o
    BY <2>5, <2>6, <2>7, <2>8, SeqEqual
  <2> QED BY <2>1, <2>3, <2>4, <2>9
<1> QED BY <1>0, <1>1, <1>3, <1>4

(* How far a restore of p has come: e holds what is not in todo any more. *)
RestoredTo(k, p, e, todo, a, b, m) ==
  /\ a \in 0 .. Len(p.txs) /\ b \in 0 .. Len(p.blocks) /\ m \in 0 .. Len(p.matches)
  /\ b # 0 => a = Len(p.txs)
  /\ m # 0 => a = Len(p.txs) /\ b = Len(p.blocks)
  /\ todo = After(RestoreItems(p), a + b + m)
  /\ Filled(k, p, e, a, b, m)

RestoreTurn(e, it) ==
  CASE it.kind = "tx" -> InsertTransaction(e, it.rec)
    [] it.kind = "block" -> InsertBlock(e, it.rec)
    [] it.kind = "match" -> InsertMatch(e, it.rec)

LEMMA RestoreStepGood ==
  ASSUME cfg \in Configs, NEW p, SavedUnder(cfg, p), NEW e, NEW todo, todo # <<>>,
         NEW a, NEW b, NEW m, RestoredTo(cfg, p, e, todo, a, b, m),
         NEW r, r = RestoreTurn(e, Head(todo))
  PROVE  /\ \E i, j, h : RestoredTo(cfg, p, r, Tail(todo), i, j, h)
         /\ SameLabels(e, r)
<1>1. PICK w : w = RestoreItems(p)
  OBVIOUS
<1>2. ItemsInOrder(p, w) /\ \E S : w \in Seq(S)
  BY <1>1, RestoreItemsFacts
<1>3. PICK S : w \in Seq(S)
  BY <1>2
<1>4. PICK n \in Nat, l \in Nat, y \in Nat : n = Len(p.txs) /\ l = Len(p.blocks) /\ y = Len(p.matches)
  BY LenProperties DEF SavedUnder
<1>5. /\ a \in 0 .. n /\ b \in 0 .. l /\ m \in 0 .. y /\ (b # 0 => a = n) /\ (m # 0 => a = n /\ b = l)
      /\ todo = After(w, a + b + m) /\ Filled(cfg, p, e, a, b, m)
  BY <1>1, <1>4 DEF RestoredTo
<1>6. Len(w) = n + l + y
  BY <1>2, <1>4 DEF ItemsInOrder
<1>7. PICK c : c = a + b + m
  OBVIOUS
<1>8. c \in 0 .. Len(w)
  BY <1>5, <1>6, <1>7
<1>9. c # Len(w) /\ Head(todo) = w[c + 1] /\ Tail(todo) = After(w, c + 1)
  BY <1>3, <1>5, <1>7, <1>8, AfterStep
<1>10. CASE a # n
  <2>1. b = 0 /\ m = 0 /\ c = a /\ a + 1 \in 1 .. n
    BY <1>5, <1>7, <1>10
  <2>2. Head(todo) = [kind |-> "tx", rec |-> p.txs[a + 1]]
    BY <1>2, <1>4, <1>9, <2>1 DEF ItemsInOrder
  <2>3. r = InsertTransaction(e, p.txs[a + 1])
    BY <2>2 DEF RestoreTurn
  <2>4. a \in 0 .. Len(p.txs) /\ a # Len(p.txs) /\ Filled(cfg, p, e, a, 0, 0)
    BY <1>4, <1>5, <1>10, <2>1
  <2>5. Filled(cfg, p, r, a + 1, 0, 0) /\ SameLabels(e, r)
    BY <2>3, <2>4, FillTx
  <2>6. /\ a + 1 \in 0 .. n /\ 0 \in 0 .. l /\ 0 \in 0 .. y /\ a + 1 + 0 + 0 = c + 1
    BY <1>5, <2>1
  <2>7. RestoredTo(cfg, p, r, Tail(todo), a + 1, 0, 0)
    BY <1>1, <1>4, <1>9, <2>5, <2>6 DEF RestoredTo
  <2> QED BY <2>5, <2>7
<1>11. CASE a = n /\ b # l
  <2>1. m = 0 /\ c = n + b /\ b + 1 \in 1 .. l /\ c + 1 = n + (b + 1)
    BY <1>5, <1>7, <1>11
  <2>2. Head(todo) = [kind |-> "block", rec |-> p.blocks[b + 1]]
    BY <1>2, <1>4, <1>9, <2>1 DEF ItemsInOrder
  <2>3. r = InsertBlock(e, p.blocks[b + 1])
    BY <2>2 DEF RestoreTurn
  <2>4. b \in 0 .. Len(p.blocks) /\ b # Len(p.blocks) /\ Filled(cfg, p, e, a, b, 0)
    BY <1>4, <1>5, <1>11, <2>1
  <2>5. Filled(cfg, p, r, a, b + 1, 0) /\ SameLabels(e, r)
    BY <2>3, <2>4, FillBlock
  <2>6. /\ b + 1 \in 0 .. l /\ 0 \in 0 .. y /\ a + (b + 1) + 0 = c + 1
    BY <1>5, <1>11, <2>1
  <2>7. RestoredTo(cfg, p, r, Tail(todo), a, b + 1, 0)
    BY <1>1, <1>4, <1>5, <1>9, <1>11, <2>5, <2>6 DEF RestoredTo
  <2> QED BY <2>5, <2>7
<1>12. CASE a = n /\ b = l
  <2>1. c = n + l + m /\ m # y /\ m + 1 \in 1 .. y /\ c + 1 = n + l + (m + 1)
    BY <1>5, <1>6, <1>7, <1>9, <1>12
  <2>2. Head(todo) = [kind |-> "match", rec |-> p.matches[m + 1]]
    BY <1>2, <1>4, <1>9, <2>1 DEF ItemsInOrder
  <2>3. r = InsertMatch(e, p.matches[m + 1])
    BY <2>2 DEF RestoreTurn
  <2>4. m \in 0 .. Len(p.matches) /\ m # Len(p.matches)
    BY <1>4, <1>5, <2>1
  <2>5. Filled(cfg, p, r, a, b, m + 1) /\ SameLabels(e, r)
    BY <1>5, <2>3, <2>4, FillMatch
  <2>6. m + 1 \in 0 .. y /\ a + b + (m + 1) = c + 1
    BY <1>5, <1>12, <2>1
  <2>7. RestoredTo(cfg, p, r, Tail(todo), a, b, m + 1)
    BY <1>1, <1>4, <1>5, <1>9, <1>12, <2>5, <2>6 DEF RestoredTo
  <2> QED BY <2>5, <2>7
<1> QED BY <1>10, <1>11, <1>12

LEMMA RestoreEnd ==
  ASSUME NEW k, NEW p, SavedUnder(k, p), NEW e, NEW a, NEW b, NEW m, RestoredTo(k, p, e, <<>>, a, b, m)
  PROVE  Filled(k, p, e, Len(p.txs), Len(p.blocks), Len(p.matches))
<1>1. PICK w : w = RestoreItems(p)
  OBVIOUS
<1>2. ItemsInOrder(p, w) /\ \E S : w \in Seq(S)
  BY <1>1, RestoreItemsFacts
<1>3. PICK S : w \in Seq(S)
  BY <1>2
<1>4. PICK n \in Nat, l \in Nat, y \in Nat : n = Len(p.txs) /\ l = Len(p.blocks) /\ y = Len(p.matches)
  BY LenProperties DEF SavedUnder
<1>5. /\ a \in 0 .. n /\ b \in 0 .. l /\ m \in 0 .. y
      /\ After(w, a + b + m) = <<>> /\ Filled(k, p, e, a, b, m)
  BY <1>1, <1>4 DEF RestoredTo
<1>6. Len(w) = n + l + y
  BY <1>2, <1>4 DEF ItemsInOrder
<1>7. PICK c : c = a + b + m
  OBVIOUS
<1>8. c \in 0 .. Len(w)
  BY <1>5, <1>6, <1>7
<1>9. c = Len(w)
  BY <1>3, <1>5, <1>7, <1>8, AfterStep
<1>10. a = n /\ b = l /\ m = y
  BY <1>5, <1>6, <1>7, <1>9
<1> QED BY <1>4, <1>5, <1>10

(* A restore starts with an empty store. *)
LEMMA RestoreBegins ==
  ASSUME NEW k, NEW p, SavedUnder(k, p), NEW r, DOMAIN r = Fields,
         r.tx = EmptyMap, r.txOrder = <<>>, r.blocks = EmptyMap, r.blockOrder = <<>>, r.matches = <<>>
  PROVE  RestoredTo(k, p, r, RestoreItems(p), 0, 0, 0)
<1>1. PICK w : w = RestoreItems(p)
  OBVIOUS
<1>2. PICK S : w \in Seq(S)
  BY <1>1, RestoreItemsFacts
<1>3. After(w, 0) = w
  BY <1>2, LenProperties, SubSeqFull DEF After
<1>4. Len(p.txs) \in Nat /\ Len(p.blocks) \in Nat /\ Len(p.matches) \in Nat
  BY LenProperties DEF SavedUnder
<1>5. Part(TxRecord(k), p.txs, TxKeys(p), r.tx, r.txOrder, 0)
  BY DEF Part, EmptyMap
<1>6. Part(BlockRecord(k), p.blocks, BlockKeys(p), r.blocks, r.blockOrder, 0)
  BY DEF Part, EmptyMap
<1>7. r.matches = [i \in 1 .. 0 |-> p.matches[i]]
  OBVIOUS
<1>8. Filled(k, p, r, 0, 0, 0)
  BY <1>5, <1>6, <1>7 DEF Filled
<1> QED BY <1>1, <1>3, <1>4, <1>8 DEF RestoredTo

(* A full part is the map and the queue of a sound store. *)
AllTx(k, p, t, T, q) ==
  /\ TxInv(k, T, q) /\ Len(q) = Len(p.txs) /\ DOMAIN T = {p.txs[i].txid : i \in 1 .. Len(p.txs)}
  /\ k.skew = 0 => \A x \in DOMAIN T : T[x].at <= t
  /\ [i \in DOMAIN q |-> T[q[i]]] = p.txs

LEMMA FullTx ==
  ASSUME NEW k \in Configs, NEW p, NEW t, SavedInv(k, p, t), NEW T, NEW q,
         Part(TxRecord(k), p.txs, TxKeys(p), T, q, Len(p.txs))
  PROVE  AllTx(k, p, t, T, q)
<1>1. PICK K, R, s, h, n : K = k.txids /\ R = TxRecord(k) /\ s = p.txs /\ h = TxKeys(p) /\ n = Len(s)
  OBVIOUS
<1>2. Keyed(K, R, s, h) /\ Part(R, s, h, T, q, n)
  BY <1>1, SavedKeyed DEF SavedInv
<1>3. n \in Nat /\ DOMAIN s = 1 .. n /\ s \in [1 .. n -> R]
  BY <1>1, <1>2, LenProperties DEF Keyed
<1>4. n \in 0 .. Len(s)
  BY <1>1, <1>3
<1>5. q \in Seq(K) /\ Len(q) = n /\ Distinct(q) /\ Range(q) = DOMAIN T /\ DOMAIN q = 1 .. n
  BY <1>2, <1>4, PartQueue
<1>6. \A i \in 1 .. n : h[i] = s[i].txid
  BY <1>1, <1>3 DEF TxKeys
<1>7. DOMAIN T = {h[i] : i \in 1 .. n} /\ T \in [DOMAIN T -> R] /\ (\A i \in 1 .. n : T[h[i]] = s[i] /\ q[i] = h[i])
  BY <1>2 DEF Part
<1>8. \A x \in DOMAIN T : T[x].txid = x
  BY <1>6, <1>7
<1>9. DOMAIN T = {s[i].txid : i \in 1 .. n}
  BY <1>6, <1>7
<1>10. k.skew = 0 => /\ \A i, j \in 1 .. n : i < j => s[i].at <= s[j].at
                     /\ \A i \in 1 .. n : s[i].at <= t
  <2>1. k.skew = 0 => /\ \A i, j \in 1 .. Len(p.txs) : i < j => p.txs[i].at <= p.txs[j].at
                      /\ \A i \in 1 .. Len(p.txs) : p.txs[i].at <= t
    BY DEF SavedInv
  <2>2. n = Len(p.txs) /\ s = p.txs
    BY <1>1
  <2> QED BY <2>1, <2>2
<1>11. k.skew = 0 => \A i, j \in 1 .. Len(q) : i < j => T[q[i]].at <= T[q[j]].at
  BY <1>5, <1>7, <1>10
<1>12. TxInv(k, T, q)
  BY <1>1, <1>5, <1>7, <1>8, <1>11 DEF TxInv
<1>13. k.skew = 0 => \A x \in DOMAIN T : T[x].at <= t
  BY <1>7, <1>10
<1>14. [i \in DOMAIN q |-> T[q[i]]] = s
  BY <1>3, <1>5, <1>7
<1> QED BY <1>1, <1>5, <1>9, <1>12, <1>13, <1>14 DEF AllTx

AllBlocks(k, p, B, q) ==
  BlockInv(k, B, q) /\ Len(q) = Len(p.blocks) /\ [i \in DOMAIN q |-> B[q[i]]] = p.blocks

LEMMA FullBlocks ==
  ASSUME NEW k \in Configs, NEW p, SavedUnder(k, p), NEW B, NEW q,
         Part(BlockRecord(k), p.blocks, BlockKeys(p), B, q, Len(p.blocks))
  PROVE  AllBlocks(k, p, B, q)
<1>1. PICK K, R, s, h, n : K = k.hashes /\ R = BlockRecord(k) /\ s = p.blocks /\ h = BlockKeys(p) /\ n = Len(s)
  OBVIOUS
<1>2. Keyed(K, R, s, h) /\ Part(R, s, h, B, q, n)
  BY <1>1, SavedKeyed
<1>3. n \in Nat /\ DOMAIN s = 1 .. n /\ s \in [1 .. n -> R]
  BY <1>1, <1>2, LenProperties DEF Keyed
<1>4. n \in 0 .. Len(s)
  BY <1>1, <1>3
<1>5. q \in Seq(K) /\ Len(q) = n /\ Distinct(q) /\ Range(q) = DOMAIN B /\ DOMAIN q = 1 .. n
  BY <1>2, <1>4, PartQueue
<1>6. \A i \in 1 .. n : h[i] = s[i].hash
  BY <1>1, <1>3 DEF BlockKeys
<1>7. DOMAIN B = {h[i] : i \in 1 .. n} /\ B \in [DOMAIN B -> R] /\ (\A i \in 1 .. n : B[h[i]] = s[i] /\ q[i] = h[i])
  BY <1>2 DEF Part
<1>8. \A x \in DOMAIN B : B[x].hash = x
  BY <1>6, <1>7
<1>9. BlockInv(k, B, q)
  BY <1>1, <1>5, <1>7, <1>8 DEF BlockInv
<1>10. [i \in DOMAIN q |-> B[q[i]]] = s
  BY <1>3, <1>5, <1>7
<1> QED BY <1>1, <1>5, <1>9, <1>10 DEF AllBlocks

Rebuilt(e, c, r) ==
  /\ DOMAIN r = Fields
  /\ r.tx = e.tx /\ r.txOrder = e.txOrder /\ r.blocks = e.blocks /\ r.blockOrder = e.blockOrder
  /\ r.matches = e.matches /\ r.matchers = e.matchers /\ r.nextId = e.nextId
  /\ r.recent = LastOf(e.txOrder, DedupeWindow) /\ r.cp = c
  /\ r.news = NoNews /\ r.announced = {}

LEMMA RebuildFields ==
  ASSUME NEW e, DOMAIN e = Fields, NEW c, NEW r, r = [RebuildRuntimeState(e) EXCEPT !.cp = c]
  PROVE  Rebuilt(e, c, r)
<1>1. PICK u : u = RebuildRecentTxids(e)
  OBVIOUS
<1>2. /\ DOMAIN u = Fields
      /\ u.tx = e.tx /\ u.txOrder = e.txOrder /\ u.blocks = e.blocks /\ u.blockOrder = e.blockOrder
      /\ u.matches = e.matches /\ u.matchers = e.matchers /\ u.nextId = e.nextId
      /\ u.recent = LastOf(e.txOrder, DedupeWindow)
  BY <1>1 DEF RebuildRecentTxids, Fields
<1>3. \E n, l : RebuildRuntimeState(e) = [u EXCEPT !.count = n, !.last = l, !.news = NoNews, !.announced = {}]
  BY <1>1 DEF RebuildRuntimeState
<1>4. PICK n, l : RebuildRuntimeState(e) = [u EXCEPT !.count = n, !.last = l, !.news = NoNews, !.announced = {}]
  BY <1>3
<1>5. r = [[u EXCEPT !.count = n, !.last = l, !.news = NoNews, !.announced = {}] EXCEPT !.cp = c]
  BY <1>4
<1> QED BY <1>2, <1>5 DEF Fields, Rebuilt

(* The engine holds the records of p in their order. *)
SameRecords(p, e) ==
  /\ Persisted(e).txs = p.txs /\ Persisted(e).blocks = p.blocks
  /\ Persisted(e).matches = p.matches

(* The restored engine is sound and holds the saved records in their order. *)
LEMMA RestoreEndsGood ==
  ASSUME cfg \in Configs, NEW p, NEW t, SavedInv(cfg, p, t), NEW e, Labelled(cfg, p, e),
         Filled(cfg, p, e, Len(p.txs), Len(p.blocks), Len(p.matches)),
         NEW c, c \in cfg.hashes \cup {None}, NEW v,
         cfg.uses \cap {"clear", "restart", "restore", "snapshot", "sync"} # {},
         NEW r, r = [RebuildRuntimeState(e) EXCEPT !.cp = c]
  PROVE  Good(cfg, r, v, t) /\ SameRecords(p, r)
<1>0. /\ DOMAIN e = Fields /\ SavedUnder(cfg, p)
      /\ Part(TxRecord(cfg), p.txs, TxKeys(p), e.tx, e.txOrder, Len(p.txs))
      /\ Part(BlockRecord(cfg), p.blocks, BlockKeys(p), e.blocks, e.blockOrder, Len(p.blocks))
      /\ e.matches = [i \in 1 .. Len(p.matches) |-> p.matches[i]]
  BY DEF Filled, SavedInv
<1>1. /\ DOMAIN r = Fields
      /\ r.tx = e.tx /\ r.txOrder = e.txOrder /\ r.blocks = e.blocks /\ r.blockOrder = e.blockOrder
      /\ r.matches = e.matches /\ r.matchers = e.matchers /\ r.nextId = e.nextId
      /\ r.recent = LastOf(e.txOrder, DedupeWindow) /\ r.cp = c
      /\ r.news = NoNews /\ r.announced = {}
  <2>1. Rebuilt(e, c, r)
    BY <1>0, RebuildFields
  <2> QED BY <2>1 DEF Rebuilt
<1>2. PICK T, q, B, bq : T = e.tx /\ q = e.txOrder /\ B = e.blocks /\ bq = e.blockOrder
  OBVIOUS
<1>3. /\ TxInv(cfg, T, q) /\ Len(q) = Len(p.txs) /\ DOMAIN T = {p.txs[i].txid : i \in 1 .. Len(p.txs)}
      /\ (cfg.skew = 0 => \A x \in DOMAIN T : T[x].at <= t)
      /\ [i \in DOMAIN q |-> T[q[i]]] = p.txs
  <2>1. AllTx(cfg, p, t, T, q)
    BY <1>0, <1>2, FullTx
  <2> QED BY <2>1 DEF AllTx
<1>4. /\ BlockInv(cfg, B, bq) /\ Len(bq) = Len(p.blocks)
      /\ [i \in DOMAIN bq |-> B[bq[i]]] = p.blocks
  <2>1. AllBlocks(cfg, p, B, bq)
    BY <1>0, <1>2, FullBlocks
  <2> QED BY <2>1 DEF AllBlocks
<1>5. p.matches \in Seq(MatchRecord(cfg)) /\ DOMAIN p.matches = 1 .. Len(p.matches)
      /\ DOMAIN p.txs = 1 .. Len(p.txs)
  BY <1>0, LenProperties DEF SavedUnder, MatchRecord
<1>6. r.matches = p.matches
  <2>1. p.matches \in [1 .. Len(p.matches) -> MatchRecord(cfg)]
    BY <1>5, LenProperties
  <2>2. [i \in 1 .. Len(p.matches) |-> p.matches[i]] = p.matches
    BY <2>1
  <2> QED BY <1>0, <1>1, <2>2
<1>7. \A i \in 1 .. Len(p.matches) : p.matches[i].txid \in DOMAIN T
  <2>1. \A i \in 1 .. Len(p.matches) : \E j \in 1 .. Len(p.txs) : p.matches[i].txid = p.txs[j].txid
    BY <1>0, <1>5 DEF SavedUnder
  <2> QED BY <1>3, <2>1
<1>8. MatchInv(cfg, p.matches, e.matchers, e.nextId, DOMAIN T)
  BY <1>5, <1>7 DEF MatchInv, Labelled, SavedInv
<1>9. MatchInv(cfg, r.matches, r.matchers, r.nextId, DOMAIN r.tx)
  BY <1>1, <1>2, <1>6, <1>8
<1>10. /\ Len(r.matches) <= cfg.maxMatches /\ Len(r.blockOrder) <= cfg.maxBlocks
       /\ Len(r.txOrder) <= cfg.maxTransactions
  BY <1>0, <1>1, <1>2, <1>3, <1>4, <1>6 DEF SavedUnder
<1>11. /\ r.recent \in Seq(cfg.txids) /\ Len(r.recent) <= cfg.dedupeWindow /\ Windowed(cfg, r)
  <2>1. PICK S, d, m : S = cfg.txids /\ d = cfg.dedupeWindow /\ m = cfg.maxTransactions
    OBVIOUS
  <2>2. d \in Nat /\ m \in Nat /\ q \in Seq(S)
    BY <1>3, <2>1, ConfigAssumption DEF TxInv
  <2>3. Len(q) \in Nat /\ Len(q) <= m
    BY <1>1, <1>2, <1>10, <2>1, <2>2, LenProperties
  <2>4. r.recent = LastOf(q, d) /\ r.txOrder = q
    BY <1>1, <1>2, <2>1 DEF DedupeWindow
  <2>5. PICK o \in 0 .. Len(q) : LastOf(q, d) = After(q, o) /\ Len(q) - o <= d
    BY <2>2, LastOfIsAfter
  <2>6. After(q, o) \in Seq(S) /\ Len(After(q, o)) = Len(q) - o
    BY <2>2, <2>5, AfterFacts
  <2>8. ASSUME WindowCovers(cfg) PROVE Suffix(q, LastOf(q, d))
    <3>1. LastOf(q, d) = q
      BY <2>1, <2>2, <2>3, <2>8 DEF LastOf, WindowCovers
    <3> QED BY <2>2, <3>1, SuffixItself
  <2> QED BY <2>1, <2>4, <2>5, <2>6, <2>8 DEF Windowed
<1>12. r.news \in [cfg.txids -> News]
  BY <1>1 DEF NoNews, News, Txids
<1>13. TxInv(cfg, r.tx, r.txOrder) /\ BlockInv(cfg, r.blocks, r.blockOrder)
  BY <1>1, <1>2, <1>3, <1>4
<1>14. EngBase(cfg, r)
  BY <1>1, <1>9, <1>10, <1>11, <1>12, <1>13 DEF EngBase, Labelled
<1>15. Told(cfg, v, r) /\ Past(cfg, r, t)
  BY <1>1, <1>2, <1>3 DEF Told, Past
<1>16. Good(cfg, r, v, t)
  BY <1>10, <1>11, <1>14, <1>15 DEF Good, Base
<1>17. Persisted(r).txs = p.txs /\ Persisted(r).blocks = p.blocks /\ Persisted(r).matches = p.matches
  <2>1. r.tx = T /\ r.txOrder = q /\ r.blocks = B /\ r.blockOrder = bq
    BY <1>1, <1>2
  <2>2. /\ Persisted(r).txs = [i \in DOMAIN q |-> T[q[i]]]
        /\ Persisted(r).blocks = [i \in DOMAIN bq |-> B[bq[i]]] /\ Persisted(r).matches = r.matches
    BY <2>1 DEF Persisted
  <2>3. [i \in DOMAIN q |-> T[q[i]]] = p.txs
    BY <1>3
  <2>4. [i \in DOMAIN bq |-> B[bq[i]]] = p.blocks
    BY <1>4
  <2> QED BY <1>6, <2>2, <2>3, <2>4
<1> QED BY <1>16, <1>17 DEF SameRecords

-----------------------------------------------------------------------------
(* Jobs that ingest: the records of one job carry the same time.            *)

StagedTx(k, a) == [kind : {"tx"}, rec : {x \in TxRecord(k) : x.at = a}]
StagedBlock(k, a) == [kind : {"block"}, rec : {b \in BlockRecord(k) : b.at = a}]
StagedItems(k, a) == StagedTx(k, a) \cup StagedBlock(k, a)

LEMMA BatchTyped ==
  ASSUME cfg \in Configs, NEW h, h \in cfg.hashes, NEW t, t \in 0 .. cfg.maxTime
  PROVE  BatchItems(h, t) \in Seq(StagedItems(cfg, t))
<1>1. PICK S, s, n : S = StagedItems(cfg, t) /\ s = cfg.blockTxs[h] /\ n = Len(s)
  OBVIOUS
<1>2. s \in Seq(cfg.txids)
  BY <1>1, ConfigAssumption
<1>3. n \in Nat /\ DOMAIN s = 1 .. n /\ \A i \in 1 .. n : s[i] \in cfg.txids
  BY <1>1, <1>2, LenProperties, ElementOfSeq
<1>4. PICK b, f : /\ b = [kind |-> "block", rec |-> [hash |-> h, at |-> t]]
                  /\ f = [i \in 1 .. n |-> [kind |-> "tx", rec |-> [txid |-> s[i], block |-> h, at |-> t]]]
  OBVIOUS
<1>5. b \in S
  BY <1>1, <1>4 DEF StagedItems, StagedBlock, BlockRecord
<1>6. \A i \in 1 .. n : [kind |-> "tx", rec |-> [txid |-> s[i], block |-> h, at |-> t]] \in S
  BY <1>1, <1>3 DEF StagedItems, StagedTx, TxRecord
<1>7. f \in Seq(S)
  BY <1>3, <1>4, <1>6, IsASeq
<1>8. <<b>> \in Seq(S)
  BY <1>5
<1>9. <<b>> \o f \in Seq(S)
  BY <1>7, <1>8, ConcatProperties
<1>10. BatchItems(h, t) = <<b>> \o f
  BY <1>1, <1>3, <1>4 DEF BatchItems, BlockTxs
<1> QED BY <1>1, <1>9, <1>10

(* The batches of the blocks w, one after the other. *)
Flat(g, w, t) ==
  g = [i \in 0 .. Len(w) |-> IF i = 0 THEN <<>> ELSE g[i - 1] \o BatchItems(w[i], t)]

FlatExists(w, t) == \E g : Flat(g, w, t)

LEMMA BatchesExist ==
  ASSUME NEW S, NEW w, NEW t, Len(w) \in Nat, \A i \in 1 .. Len(w) : BatchItems(w[i], t) \in Seq(S)
  PROVE  FlatExists(w, t)
<1>1. PICK n \in Nat : n = Len(w)
  OBVIOUS
<1>2. PICK V : V = Seq(S)
  OBVIOUS
<1>3. \A i \in 1 .. n, u \in V : u \o BatchItems(w[i], t) \in V
  BY <1>1, <1>2, ConcatProperties
<1>4. PICK step : step = [i \in 1 .. n |-> [u \in V |-> u \o BatchItems(w[i], t)]]
  OBVIOUS
<1>5. step \in [1 .. n -> [V -> V]]
  BY <1>3, <1>4
<1>6. <<>> \in V
  BY <1>2
<1>7. PICK g \in [0 .. n -> V] : Iterates(g, <<>>, n, step)
  BY <1>5, <1>6, IterExists
<1>8. \A i \in 0 .. n : g[i] = IF i = 0 THEN <<>> ELSE g[i - 1] \o BatchItems(w[i], t)
  <2> SUFFICES ASSUME NEW i \in 0 .. n, i # 0
               PROVE  g[i] = g[i - 1] \o BatchItems(w[i], t)
    BY <1>7 DEF Iterates
  <2>1. i \in 1 .. n /\ i - 1 \in 0 .. n
    OBVIOUS
  <2>2. g[i] = step[i][g[i - 1]] /\ g[i - 1] \in V
    BY <1>7, <2>1 DEF Iterates
  <2> QED BY <1>4, <2>1, <2>2
<1>9. Flat(g, w, t)
  BY <1>1, <1>7, <1>8 DEF Flat
<1> QED BY <1>9 DEF FlatExists

LEMMA BatchesTyped ==
  ASSUME NEW S, NEW w, NEW t, Len(w) \in Nat, \A i \in 1 .. Len(w) : BatchItems(w[i], t) \in Seq(S),
         NEW g, Flat(g, w, t)
  PROVE  g[Len(w)] \in Seq(S)
<1>1. PICK n \in Nat : n = Len(w)
  OBVIOUS
<1>2. \A i \in 0 .. n : g[i] = IF i = 0 THEN <<>> ELSE g[i - 1] \o BatchItems(w[i], t)
  <2>1. g = [i \in 0 .. n |-> IF i = 0 THEN <<>> ELSE g[i - 1] \o BatchItems(w[i], t)]
    BY <1>1 DEF Flat
  <2> QED BY <2>1, Zenon
<1> DEFINE P == {i \in 0 .. n : g[i] \in Seq(S)}
<1>3. 0 \in P
  <2>1. 0 \in 0 .. n
    OBVIOUS
  <2>2. g[0] = <<>>
    BY <1>2, <2>1
  <2>3. g[0] \in Seq(S)
    BY <2>2
  <2> QED BY <2>1, <2>3
<1>4. \A i \in 1 .. n : i - 1 \in P => i \in P
  <2> SUFFICES ASSUME NEW i \in 1 .. n, i - 1 \in P
               PROVE  i \in P
    OBVIOUS
  <2>1. g[i - 1] \in Seq(S) /\ BatchItems(w[i], t) \in Seq(S)
    BY <1>1
  <2>2. i \in 0 .. n /\ i # 0
    OBVIOUS
  <2>3. g[i] = g[i - 1] \o BatchItems(w[i], t)
    BY <1>2, <2>2
  <2>4. g[i] \in Seq(S)
    BY <2>1, <2>3, ConcatProperties
  <2> QED BY <2>2, <2>4
<1> HIDE DEF P
<1>5. \A i \in 0 .. n : i \in P
  BY <1>3, <1>4, InductTo
<1>6. n \in P
  BY <1>5
<1> QED BY <1>1, <1>6 DEF P

LEMMA ChainTyped ==
  ASSUME cfg \in Configs, NEW h, h \in cfg.hashes, NEW t, t \in 0 .. cfg.maxTime
  PROVE  ChainItems(h, t) \in Seq(StagedItems(cfg, t))
<1>1. PICK w, S : w = Remove(ChainTo[h], OnChain(eng.cp)) /\ S = StagedItems(cfg, t)
  OBVIOUS
<1>2. ChainTo[h] \in Seq(cfg.hashes)
  BY ConfigAssumption DEF ChainTo
<1>3. w \in Seq(cfg.hashes)
  BY <1>1, <1>2, RemoveKeeps
<1>4. Len(w) \in Nat /\ \A i \in 1 .. Len(w) : w[i] \in cfg.hashes
  BY <1>3, LenProperties, ElementOfSeq
<1>5. \A i \in 1 .. Len(w) : BatchItems(w[i], t) \in Seq(S)
  BY <1>1, <1>4, BatchTyped
<1> DEFINE g == CHOOSE g : Flat(g, w, t)
<1>6. FlatExists(w, t)
  BY <1>4, <1>5, BatchesExist
<1>7. Flat(g, w, t)
  BY <1>6, Zenon DEF FlatExists
<1>8. ChainItems(h, t) = g[Len(w)]
  BY <1>1, Zenon DEF ChainItems, Flat
<1> HIDE DEF g
<1>9. g[Len(w)] \in Seq(S)
  BY <1>4, <1>5, <1>7, BatchesTyped
<1> QED BY <1>1, <1>8, <1>9

-----------------------------------------------------------------------------
(* The inductive invariant.                                                 *)

JobFields == {"kind", "staged", "todo", "cp"}

(* A batch or a synchronisation: its clone is a sound engine, and all its     *)
(* records carry the time a at which they were observed.                      *)
Ingesting(k, j, v, t) ==
  /\ j.kind \in {"batch", "sync"}
  /\ \E a \in 0 .. t : Good(k, j.staged, v, a) /\ j.todo \in Seq(StagedItems(k, a))

(* A restore of p: the new store holds the records of p that are done. *)
Restoring(k, j, p) ==
  /\ j.kind = "restore" /\ p # None
  /\ k.uses \cap {"restore", "snapshot"} # {}
  /\ Labelled(k, p, j.staged)
  /\ \E a \in 0 .. Len(p.txs), b \in 0 .. Len(p.blocks), m \in 0 .. Len(p.matches) :
       RestoredTo(k, p, j.staged, j.todo, a, b, m)

JobInv(k, j, p, v, t) ==
  \/ j = None
  \/ /\ DOMAIN j = JobFields /\ j.cp \in k.hashes \cup {None}
     /\ Ingesting(k, j, v, t) \/ Restoring(k, j, p)

(* Every state in the storage, on its way there or back, was saved soundly. *)
StorageInv(k, d, S, p, t) ==
  /\ d # None => SavedInv(k, d, t)
  /\ \A s \in S : SavedInv(k, s, t)
  /\ p # None => SavedInv(k, p, t)

IndexInv ==
  /\ cfg \in Configs /\ now \in Nat
  /\ Good(cfg, eng, view, now)
  /\ JobInv(cfg, job, loaded, view, now)
  /\ StorageInv(cfg, disk, saves, loaded, now)

LEMMA InitIndex == Init => IndexInv
<1> SUFFICES ASSUME Init PROVE IndexInv
  OBVIOUS
<1>1. cfg \in Configs /\ eng = New /\ job = None /\ now = 0 /\ view = EmptyView /\ saves = {} /\ loaded = None
  BY DEF Init
<1>2. Good(cfg, eng, view, now)
  BY <1>1, NewGood
<1>3. disk # None => SavedInv(cfg, disk, now)
  <2>1. disk # None => disk \in cfg.disks
    BY DEF Init, InitDisks
  <2> QED BY <1>1, <2>1, FoundSaved
<1> QED BY <1>1, <1>2, <1>3 DEF IndexInv, JobInv, StorageInv

-----------------------------------------------------------------------------
(* Operations on the engine behind the lock.                                *)

(* An operation that leaves a sound engine behind. *)
LEMMA SetKeeps ==
  ASSUME IndexInv, NEW e, Set(e), UNCHANGED cfg, Good(cfg, e, view, now)
  PROVE  IndexInv'
<1>1. /\ cfg' = cfg /\ eng' = e /\ job' = job /\ disk' = disk /\ saves' = saves
      /\ loaded' = loaded /\ now' = now /\ view' = view
  BY DEF Set
<1> QED BY <1>1 DEF IndexInv

LEMMA AdminKeeps ==
  ASSUME IndexInv, UNCHANGED cfg, Start \/ Stop \/ \E h \in Hashes \cup {None} : SetCheckpoint(h)
  PROVE  IndexInv'
<1>0. Good(cfg, eng, view, now) /\ DOMAIN eng = Fields /\ eng.cp \in cfg.hashes \cup {None}
  BY DEF IndexInv, Good, Base, EngBase
<1>1. CASE Start
  <2>1. PICK l : l = IF eng.last = None THEN now ELSE eng.last
    OBVIOUS
  <2>2. PICK e : e = [eng EXCEPT !.running = TRUE, !.last = l]
    OBVIOUS
  <2>3. Set(e)
    BY <1>1, <2>1, <2>2 DEF Start
  <2>4. /\ DOMAIN e = Fields /\ e.cp = eng.cp
        /\ \A f \in Fields \ {"count", "running", "last", "cp"} : e[f] = eng[f]
    BY <1>0, <2>2 DEF Fields
  <2>5. Good(cfg, e, view, now)
    BY <1>0, <2>4, AdminGood
  <2> QED BY <2>3, <2>5, SetKeeps
<1>2. CASE Stop
  <2>1. PICK e : e = [eng EXCEPT !.running = FALSE]
    OBVIOUS
  <2>2. Set(e)
    BY <1>2, <2>1 DEF Stop
  <2>3. /\ DOMAIN e = Fields /\ e.cp = eng.cp
        /\ \A f \in Fields \ {"count", "running", "last", "cp"} : e[f] = eng[f]
    BY <1>0, <2>1 DEF Fields
  <2>4. Good(cfg, e, view, now)
    BY <1>0, <2>3, AdminGood
  <2> QED BY <2>2, <2>4, SetKeeps
<1>3. CASE \E h \in Hashes \cup {None} : SetCheckpoint(h)
  <2>0. PICK h \in cfg.hashes \cup {None} : SetCheckpoint(h)
    BY <1>3 DEF Hashes
  <2>1. PICK e : e = [eng EXCEPT !.cp = h]
    OBVIOUS
  <2>2. Set(e)
    BY <2>0, <2>1 DEF SetCheckpoint
  <2>3. /\ DOMAIN e = Fields /\ e.cp = h
        /\ \A f \in Fields \ {"count", "running", "last", "cp"} : e[f] = eng[f]
    BY <1>0, <2>1 DEF Fields
  <2>4. Good(cfg, e, view, now)
    BY <1>0, <2>3, AdminGood
  <2> QED BY <2>2, <2>4, SetKeeps
<1> QED BY <1>1, <1>2, <1>3

LEMMA ClearKeeps ==
  ASSUME IndexInv, UNCHANGED cfg, Clear
  PROVE  IndexInv'
<1>1. "clear" \in cfg.uses /\ Set(Cleared(eng))
  BY DEF Clear, Uses
<1>2. Good(cfg, Cleared(eng), view, now)
  BY <1>1, ClearGood DEF IndexInv
<1> QED BY <1>1, <1>2, SetKeeps

LEMMA MatcherKeeps ==
  ASSUME IndexInv, UNCHANGED cfg,
         (\E r \in Rules : AddMatcher(r)) \/ (\E i \in Ids : RemoveMatcher(i))
  PROVE  IndexInv'
<1>0. cfg \in Configs /\ Good(cfg, eng, view, now)
  BY DEF IndexInv
<1>1. CASE \E r \in Rules : AddMatcher(r)
  <2>1. PICK r \in cfg.rules : AddMatcher(r)
    BY <1>1 DEF Rules
  <2>2. PICK e : e = [eng EXCEPT !.matchers = Insert(@, eng.nextId, r), !.nextId = @ + 1]
    OBVIOUS
  <2>3. "match" \in cfg.uses /\ eng.nextId \in 1 .. cfg.maxIds /\ Set(e)
    BY <2>1, <2>2 DEF AddMatcher, Uses, Ids, MaxIds
  <2>4. Good(cfg, e, view, now)
    BY <1>0, <2>2, <2>3, AddMatcherGood
  <2> QED BY <2>3, <2>4, SetKeeps
<1>2. CASE \E i \in Ids : RemoveMatcher(i)
  <2>1. PICK i \in Ids : RemoveMatcher(i)
    BY <1>2
  <2>2. Set([eng EXCEPT !.matchers = Without(@, {i})])
    BY <2>1 DEF RemoveMatcher
  <2>3. Good(cfg, [eng EXCEPT !.matchers = Without(@, {i})], view, now)
    BY <1>0, RemoveMatcherGood
  <2> QED BY <2>2, <2>3, SetKeeps
<1> QED BY <1>1, <1>2

LEMMA QueryKeeps ==
  ASSUME IndexInv, UNCHANGED cfg, Query
  PROVE  IndexInv'
<1>1. Good(cfg, PurgeExpired(eng, now), view, now)
  BY PurgeKeepsGood DEF IndexInv
<1> QED BY <1>1, SetKeeps DEF Query

LEMMA DrainKeeps ==
  ASSUME IndexInv, UNCHANGED cfg, DrainEvents
  PROVE  IndexInv'
<1>1. PICK e, r, v : /\ e = PurgeExpired(eng, now) /\ r = [e EXCEPT !.news = NoNews, !.announced = {}]
                     /\ v = AfterEvents(view, e)
  OBVIOUS
<1>2. Good(cfg, e, view, now)
  BY <1>1, PurgeKeepsGood DEF IndexInv
<1>3. Good(cfg, r, v, now)
  BY <1>1, <1>2, DrainGood DEF IndexInv
<1>4. /\ cfg' = cfg /\ eng' = r /\ view' = v /\ job = None /\ job' = None
      /\ disk' = disk /\ saves' = saves /\ loaded' = loaded /\ now' = now
  BY <1>1 DEF DrainEvents, Free
<1>5. JobInv(cfg, None, loaded, v, now)
  BY DEF JobInv
<1> QED BY <1>3, <1>4, <1>5 DEF IndexInv

(* A record stamped a now: the engine is as sound at a, because records that *)
(* carry the clock's time are stamped with it.                               *)
LEMMA StampGood ==
  ASSUME IndexInv, NEW a, a \in Stamps
  PROVE  a \in 0 .. cfg.maxTime /\ a \in 0 .. now /\ Good(cfg, eng, view, a)
<1>1. a \in 0 .. cfg.maxTime /\ a <= now /\ now - a <= cfg.skew /\ now \in Nat /\ cfg \in Configs
  BY DEF Stamps, Times, MaxTime, Skew, IndexInv
<1>2. cfg.maxTime \in Nat /\ cfg.skew \in Nat
  BY <1>1, ConfigAssumption
<1>3. a \in Nat /\ a \in 0 .. now /\ (cfg.skew = 0 => now <= a)
  BY <1>1, <1>2
<1>4. Good(cfg, eng, view, now)
  BY DEF IndexInv
<1>5. Good(cfg, eng, view, a)
  BY <1>1, <1>3, <1>4, GoodLater
<1> QED BY <1>1, <1>3, <1>5

(* What was sound at a stamp is sound now. *)
LEMMA StampedGood ==
  ASSUME IndexInv, NEW a, a \in 0 .. now, NEW e, NEW v, Good(cfg, e, v, a)
  PROVE  Good(cfg, e, v, now)
<1>1. now \in Nat /\ a \in Nat /\ a <= now /\ cfg \in Configs
  BY DEF IndexInv
<1> QED BY <1>1, GoodLater

LEMMA IngestOneKeeps ==
  ASSUME IndexInv, UNCHANGED cfg, NEW t \in Txids, NEW h \in Hashes \cup {None}, NEW a \in Stamps,
         IngestOne(t, h, a)
  PROVE  IndexInv'
<1>1. PICK x : x = [txid |-> t, block |-> h, at |-> a]
  OBVIOUS
<1>2. PICK s \in Scans(eng, x) : Set(IngestTransaction(eng, x, s))
  BY <1>1 DEF IngestOne
<1>3. a \in 0 .. cfg.maxTime /\ a \in 0 .. now /\ Good(cfg, eng, view, a) /\ cfg \in Configs
  BY StampGood DEF IndexInv
<1>4. x \in TxRecord(cfg) /\ x.at = a
  BY <1>1, <1>3 DEF TxRecord, Txids, Hashes
<1>5. Good(cfg, IngestTransaction(eng, x, s), view, a)
  BY <1>2, <1>3, <1>4, IngestGood
<1>6. Good(cfg, IngestTransaction(eng, x, s), view, now)
  BY <1>3, <1>5, StampedGood
<1> QED BY <1>2, <1>6, SetKeeps

LEMMA BareBlockKeeps ==
  ASSUME IndexInv, UNCHANGED cfg, NEW h \in Hashes, NEW a \in Stamps, IngestBareBlock(h, a)
  PROVE  IndexInv'
<1>1. PICK b : b = [hash |-> h, at |-> a]
  OBVIOUS
<1>2. Set(IngestBlock(eng, b))
  BY <1>1 DEF IngestBareBlock
<1>3. b \in BlockRecord(cfg) /\ Good(cfg, eng, view, now) /\ cfg \in Configs
  BY <1>1, StampGood DEF BlockRecord, Hashes, IndexInv
<1>4. Good(cfg, IngestBlock(eng, b), view, now)
  BY <1>3, IngestBlockGood
<1> QED BY <1>2, <1>4, SetKeeps

-----------------------------------------------------------------------------
(* Jobs.                                                                    *)

LEMMA HoldKeeps ==
  ASSUME IndexInv, UNCHANGED <<cfg, loaded>>, NEW j, Hold(j), JobInv(cfg, j, loaded, view, now)
  PROVE  IndexInv'
<1>1. /\ cfg' = cfg /\ eng' = eng /\ job' = j /\ disk' = disk /\ saves' = saves
      /\ loaded' = loaded /\ now' = now /\ view' = view
  BY DEF Hold
<1> QED BY <1>1 DEF IndexInv

(* A job that ingests records stamped a into a clone. *)
LEMMA IngestBegins ==
  ASSUME IndexInv, UNCHANGED <<cfg, loaded>>, NEW a, a \in 0 .. now, NEW kind, kind \in {"batch", "sync"},
         NEW e, Good(cfg, e, view, a), NEW w, w \in Seq(StagedItems(cfg, a)),
         NEW c, c \in cfg.hashes \cup {None}, NEW j,
         j = [kind |-> kind, staged |-> e, todo |-> w, cp |-> c], Hold(j)
  PROVE  IndexInv'
<1>1. DOMAIN j = JobFields /\ j.kind = kind /\ j.staged = e /\ j.todo = w /\ j.cp = c
  BY DEF JobFields
<1>2. Ingesting(cfg, j, view, now)
  BY <1>1 DEF Ingesting
<1>3. JobInv(cfg, j, loaded, view, now)
  BY <1>1, <1>2 DEF JobInv
<1> QED BY <1>3, HoldKeeps

LEMMA BatchKeeps ==
  ASSUME IndexInv, UNCHANGED cfg, NEW h \in Hashes, NEW a \in Stamps,
         IngestBlockBatch(h, a) \/ ApplySyncBatches(h, a) \/ ReconcileVirtualChain(h, a)
  PROVE  IndexInv'
<1>0. /\ cfg \in Configs /\ h \in cfg.hashes /\ a \in 0 .. cfg.maxTime /\ a \in 0 .. now
      /\ Good(cfg, eng, view, a)
  BY StampGood DEF IndexInv, Hashes
<1>1. CASE IngestBlockBatch(h, a)
  <2>1. PICK w, j : w = BatchItems(h, a) /\ j = [kind |-> "batch", staged |-> eng, todo |-> w, cp |-> None]
    OBVIOUS
  <2>2. Hold(j) /\ loaded' = loaded
    BY <1>1, <2>1 DEF IngestBlockBatch
  <2>3. w \in Seq(StagedItems(cfg, a))
    BY <1>0, <2>1, BatchTyped
  <2> QED BY <1>0, <2>1, <2>2, <2>3, IngestBegins
<1>2. CASE ApplySyncBatches(h, a)
  <2>1. PICK w, j : w = ChainItems(h, a) /\ j = [kind |-> "sync", staged |-> eng, todo |-> w, cp |-> h]
    OBVIOUS
  <2>2. Hold(j) /\ loaded' = loaded
    BY <1>2, <2>1 DEF ApplySyncBatches
  <2>3. w \in Seq(StagedItems(cfg, a))
    BY <1>0, <2>1, ChainTyped
  <2> QED BY <1>0, <2>1, <2>2, <2>3, IngestBegins
<1>3. CASE ReconcileVirtualChain(h, a)
  <2>1. PICK R, e, w : /\ R = OnChain(eng.cp) \ OnChain(h) /\ w = ChainItems(h, a)
                       /\ e = RebuildRecentTxids(RemoveChainBlocks(eng, R))
    OBVIOUS
  <2>2. PICK j : j = [kind |-> "sync", staged |-> e, todo |-> w, cp |-> h]
    OBVIOUS
  <2>3. Hold(j) /\ loaded' = loaded /\ "sync" \in cfg.uses
    BY <1>3, <2>1, <2>2 DEF ReconcileVirtualChain, Uses
  <2>4. w \in Seq(StagedItems(cfg, a))
    BY <1>0, <2>1, ChainTyped
  <2>5. Good(cfg, e, view, a)
    BY <1>0, <2>1, <2>3, ReorgGood
  <2> QED BY <1>0, <2>2, <2>3, <2>4, <2>5, IngestBegins
<1> QED BY <1>1, <1>2, <1>3

(* A store without records. *)
Emptied(r) ==
  /\ DOMAIN r = Fields /\ r.tx = EmptyMap /\ r.txOrder = <<>> /\ r.blocks = EmptyMap
  /\ r.blockOrder = <<>> /\ r.matches = <<>>

LEMMA EmptiedFields ==
  ASSUME NEW e, DOMAIN e = Fields
  PROVE  Emptied(EmptyStore(e)) /\ SameLabels(e, EmptyStore(e))
  BY DEF EmptyStore, Emptied, SameLabels, Fields

LEMMA RestoreJob ==
  ASSUME IndexInv, UNCHANGED <<cfg, loaded>>, loaded # None, cfg.uses \cap {"restore", "snapshot"} # {},
         NEW e, Emptied(e), Labelled(cfg, loaded, e), NEW c, c \in cfg.hashes \cup {None},
         NEW j, j = [kind |-> "restore", staged |-> e, todo |-> RestoreItems(loaded), cp |-> c], Hold(j)
  PROVE  IndexInv'
<1>1. DOMAIN j = JobFields /\ j.kind = "restore" /\ j.staged = e /\ j.todo = RestoreItems(loaded) /\ j.cp = c
  BY DEF JobFields
<1>2. SavedUnder(cfg, loaded)
  BY DEF IndexInv, StorageInv, SavedInv
<1>3. RestoredTo(cfg, loaded, e, RestoreItems(loaded), 0, 0, 0)
  BY <1>2, RestoreBegins DEF Emptied
<1>4. 0 \in 0 .. Len(loaded.txs) /\ 0 \in 0 .. Len(loaded.blocks) /\ 0 \in 0 .. Len(loaded.matches)
  BY <1>3 DEF RestoredTo
<1>5. Restoring(cfg, j, loaded)
  BY <1>1, <1>3, <1>4 DEF Restoring
<1>6. JobInv(cfg, j, loaded, view, now)
  BY <1>1, <1>5 DEF JobInv
<1> QED BY <1>6, HoldKeeps

LEMMA RestoreStateKeeps ==
  ASSUME IndexInv, UNCHANGED cfg, RestoreState
  PROVE  IndexInv'
<1>1. PICK e : e = [EmptyStore(eng) EXCEPT !.matchers = loaded.matchers,
                                           !.nextId = NextMatcherId(loaded.matchers)]
  OBVIOUS
<1>2. PICK j : j = [kind |-> "restore", staged |-> e, todo |-> RestoreItems(loaded), cp |-> loaded.cp]
  OBVIOUS
<1>3. Hold(j) /\ loaded' = loaded /\ loaded # None /\ "restore" \in cfg.uses
  BY <1>1, <1>2 DEF RestoreState, Uses
<1>4. DOMAIN eng = Fields
  BY DEF IndexInv, Good, Base, EngBase
<1>5. Emptied(e) /\ e.matchers = loaded.matchers
  <2>1. PICK M, n : M = loaded.matchers /\ n = NextMatcherId(loaded.matchers)
    OBVIOUS
  <2>2. e = [EmptyStore(eng) EXCEPT !.matchers = M, !.nextId = n]
    BY <1>1, <2>1
  <2>3. Emptied(e) /\ e.matchers = M
    BY <1>4, <2>2 DEF EmptyStore, Emptied, Fields
  <2> QED BY <2>1, <2>3
<1>6. SavedInv(cfg, loaded, now)
  BY <1>3 DEF IndexInv, StorageInv
<1>7. ~(KeepsIds(cfg) /\ "match" \in cfg.uses)
  BY <1>3 DEF KeepsIds
<1>8. Labelled(cfg, loaded, e)
  BY <1>5, <1>6, <1>7 DEF Labelled, SavedInv, SavedUnder
<1>9. loaded.cp \in cfg.hashes \cup {None}
  BY <1>6 DEF SavedInv, SavedUnder
<1>10. cfg.uses \cap {"restore", "snapshot"} # {}
  BY <1>3
<1> QED BY <1>2, <1>3, <1>5, <1>8, <1>9, <1>10, RestoreJob

LEMMA RestoreSnapshotKeeps ==
  ASSUME IndexInv, UNCHANGED cfg, RestoreSnapshot
  PROVE  IndexInv'
<1>1. PICK e : e = EmptyStore(eng)
  OBVIOUS
<1>2. PICK j : j = [kind |-> "restore", staged |-> e, todo |-> RestoreItems(loaded), cp |-> eng.cp]
  OBVIOUS
<1>3. Hold(j) /\ loaded' = loaded /\ loaded # None /\ "snapshot" \in cfg.uses
  BY <1>1, <1>2 DEF RestoreSnapshot, Uses
<1>4. EngBase(cfg, eng)
  BY DEF IndexInv, Good, Base
<1>5. Emptied(e) /\ e.matchers = eng.matchers /\ e.nextId = eng.nextId
  BY <1>1, <1>4, EmptiedFields DEF EngBase, SameLabels
<1>6. SavedInv(cfg, loaded, now)
  BY <1>3 DEF IndexInv, StorageInv
<1>7. KeepsIds(cfg) => loaded.matches = <<>>
  BY <1>3, <1>6 DEF SavedInv
<1>8. KeepsIds(cfg) => Attributed(cfg, loaded.matches, e.matchers)
  BY <1>7 DEF Attributed
<1>9. KeepsIds(cfg) /\ "match" \in cfg.uses => eng.nextId \in Nat /\ \A i \in DOMAIN eng.matchers : i < eng.nextId
  BY <1>4 DEF EngBase, MatchInv
<1>10. KeepsIds(cfg) => \A i \in 1 .. Len(loaded.matches) : loaded.matches[i].matcher < e.nextId
  BY <1>7
<1>11. Labelled(cfg, loaded, e)
  BY <1>4, <1>5, <1>8, <1>9, <1>10 DEF Labelled, EngBase
<1>12. eng.cp \in cfg.hashes \cup {None} /\ cfg.uses \cap {"restore", "snapshot"} # {}
  BY <1>3, <1>4 DEF EngBase
<1> QED BY <1>2, <1>3, <1>5, <1>11, <1>12, RestoreJob

(* One turn of a job. *)
LEMMA KeepKeeps ==
  ASSUME IndexInv, UNCHANGED cfg, job # None, NEW e, Keep(e),
         NEW j, j = [job EXCEPT !.staged = e, !.todo = Tail(@)],
         Ingesting(cfg, j, view, now) \/ Restoring(cfg, j, loaded)
  PROVE  IndexInv'
<1>1. /\ cfg' = cfg /\ eng' = eng /\ job' = j /\ disk' = disk /\ saves' = saves
      /\ loaded' = loaded /\ now' = now /\ view' = view
  BY DEF Keep
<1>2. DOMAIN job = JobFields /\ job.cp \in cfg.hashes \cup {None}
  BY DEF IndexInv, JobInv
<1>3. DOMAIN j = JobFields /\ j.cp = job.cp
  BY <1>2 DEF JobFields
<1>4. JobInv(cfg, j, loaded, view, now)
  BY <1>2, <1>3 DEF JobInv
<1> QED BY <1>1, <1>4 DEF IndexInv

LEMMA IngestNextKeeps ==
  ASSUME IndexInv, UNCHANGED cfg, IngestNext
  PROVE  IndexInv'
<1>1. job # None /\ job.kind # "restore" /\ job.todo # <<>>
  BY DEF IngestNext
<1>2. DOMAIN job = JobFields /\ Ingesting(cfg, job, view, now) /\ cfg \in Configs
  BY <1>1 DEF IndexInv, JobInv, Restoring
<1>3. PICK a \in 0 .. now : Good(cfg, job.staged, view, a) /\ job.todo \in Seq(StagedItems(cfg, a))
  BY <1>2 DEF Ingesting
<1>4. PICK w, it, d : w = job.todo /\ it = Head(w) /\ d = job.staged
  OBVIOUS
<1>5. it \in StagedItems(cfg, a) /\ Tail(w) \in Seq(StagedItems(cfg, a))
  BY <1>1, <1>3, <1>4, HeadTailProperties
<1>6. ASSUME NEW e, Keep(e), Good(cfg, e, view, a) PROVE IndexInv'
  <2>1. PICK j : j = [job EXCEPT !.staged = e, !.todo = Tail(@)]
    OBVIOUS
  <2>2. j.kind = job.kind /\ j.staged = e /\ j.todo = Tail(w)
    BY <1>2, <1>4, <2>1 DEF JobFields
  <2>3. Ingesting(cfg, j, view, now)
    BY <1>2, <1>3, <1>5, <1>6, <2>2 DEF Ingesting
  <2> QED BY <1>1, <1>6, <2>1, <2>3, KeepKeeps
<1>7. CASE it.kind = "block" /\ Keep(IngestBlock(d, it.rec))
  <2>1. it.rec \in BlockRecord(cfg)
    BY <1>5, <1>7 DEF StagedItems, StagedTx, StagedBlock
  <2>2. Good(cfg, IngestBlock(d, it.rec), view, a)
    BY <1>2, <1>3, <1>4, <2>1, IngestBlockGood
  <2> QED BY <1>6, <1>7, <2>2
<1>8. CASE it.kind = "tx" /\ \E s \in Scans(d, it.rec) : Keep(IngestTransaction(d, it.rec, s))
  <2>1. it.rec \in TxRecord(cfg) /\ it.rec.at = a
    BY <1>5, <1>8 DEF StagedItems, StagedTx, StagedBlock
  <2>2. PICK s \in Scans(d, it.rec) : Keep(IngestTransaction(d, it.rec, s))
    BY <1>8
  <2>3. Good(cfg, IngestTransaction(d, it.rec, s), view, a)
    BY <1>2, <1>3, <1>4, <2>1, <2>2, IngestGood
  <2> QED BY <1>6, <2>2, <2>3
<1> QED BY <1>4, <1>7, <1>8 DEF IngestNext

LEMMA LabelledStays ==
  ASSUME NEW k, NEW p, NEW e, NEW r, Labelled(k, p, e), SameLabels(e, r)
  PROVE  Labelled(k, p, r)
  BY DEF Labelled, SameLabels

LEMMA RestoreNextKeeps ==
  ASSUME IndexInv, UNCHANGED cfg, RestoreNext
  PROVE  IndexInv'
<1>1. job # None /\ job.kind = "restore" /\ job.todo # <<>>
  BY DEF RestoreNext
<1>2. DOMAIN job = JobFields /\ Restoring(cfg, job, loaded) /\ cfg \in Configs
  BY <1>1 DEF IndexInv, JobInv, Ingesting
<1>3. PICK p, d, w : p = loaded /\ d = job.staged /\ w = job.todo
  OBVIOUS
<1>4. SavedUnder(cfg, p) /\ Labelled(cfg, p, d)
  BY <1>2, <1>3 DEF Restoring, IndexInv, StorageInv, SavedInv
<1>5. PICK a, b, m : RestoredTo(cfg, p, d, w, a, b, m)
  BY <1>2, <1>3 DEF Restoring
<1>6. PICK r : r = RestoreTurn(d, Head(w))
  OBVIOUS
<1>7. Keep(r)
  BY <1>3, <1>6 DEF RestoreNext, RestoreTurn
<1>8. (\E x, y, z : RestoredTo(cfg, p, r, Tail(w), x, y, z)) /\ SameLabels(d, r)
  BY <1>1, <1>2, <1>3, <1>4, <1>5, <1>6, RestoreStepGood
<1>9. PICK x, y, z : RestoredTo(cfg, p, r, Tail(w), x, y, z)
  BY <1>8
<1>10. x \in 0 .. Len(p.txs) /\ y \in 0 .. Len(p.blocks) /\ z \in 0 .. Len(p.matches)
  BY <1>9 DEF RestoredTo
<1>11. Labelled(cfg, p, r)
  BY <1>4, <1>8, LabelledStays
<1>12. PICK j : j = [job EXCEPT !.staged = r, !.todo = Tail(@)]
  OBVIOUS
<1>13. j.kind = "restore" /\ j.staged = r /\ j.todo = Tail(w)
  BY <1>1, <1>2, <1>3, <1>12 DEF JobFields
<1>14. Restoring(cfg, j, loaded)
  BY <1>2, <1>3, <1>9, <1>10, <1>11, <1>13 DEF Restoring
<1> QED BY <1>1, <1>7, <1>12, <1>14, KeepKeeps

LEMMA AbortKeeps ==
  ASSUME IndexInv, UNCHANGED cfg, Abort
  PROVE  IndexInv'
<1>1. /\ cfg' = cfg /\ eng' = eng /\ job' = None /\ disk' = disk /\ saves' = saves
      /\ loaded' = loaded /\ now' = now /\ view' = view
  BY DEF Abort
<1>2. JobInv(cfg, None, loaded, view, now)
  BY DEF JobInv
<1> QED BY <1>1, <1>2 DEF IndexInv

LEMMA RestoreCommits ==
  ASSUME IndexInv, Commit, job.kind = "restore"
  PROVE  Good(cfg, eng', view, now) /\ SameRecords(loaded, eng')
<1>1. job # None /\ job.todo = <<>> /\ eng' = [RebuildRuntimeState(job.staged) EXCEPT !.cp = job.cp]
  BY DEF Commit
<1>2. Restoring(cfg, job, loaded) /\ cfg \in Configs /\ job.cp \in cfg.hashes \cup {None}
  BY <1>1 DEF IndexInv, JobInv, Ingesting
<1>3. PICK p, d, c, r : p = loaded /\ d = job.staged /\ c = job.cp /\ r = eng'
  OBVIOUS
<1>4. SavedInv(cfg, p, now) /\ Labelled(cfg, p, d)
  BY <1>2, <1>3 DEF Restoring, IndexInv, StorageInv
<1>5. PICK a, b, m : RestoredTo(cfg, p, d, <<>>, a, b, m)
  BY <1>1, <1>2, <1>3 DEF Restoring
<1>6. Filled(cfg, p, d, Len(p.txs), Len(p.blocks), Len(p.matches))
  BY <1>4, <1>5, RestoreEnd DEF SavedInv
<1>7. cfg.uses \cap {"clear", "restart", "restore", "snapshot", "sync"} # {}
  BY <1>2 DEF Restoring
<1>8. r = [RebuildRuntimeState(d) EXCEPT !.cp = c] /\ c \in cfg.hashes \cup {None}
  BY <1>1, <1>2, <1>3
<1>9. Good(cfg, r, view, now) /\ SameRecords(p, r)
  BY <1>2, <1>4, <1>6, <1>7, <1>8, RestoreEndsGood
<1> QED BY <1>3, <1>9

LEMMA CommitKeeps ==
  ASSUME IndexInv, UNCHANGED cfg, Commit
  PROVE  IndexInv'
<1>1. /\ job # None /\ job' = None /\ loaded' \in {None, loaded}
      /\ disk' = disk /\ saves' = saves /\ now' = now /\ view' = view
  BY DEF Commit
<1>2. JobInv(cfg, None, loaded', view, now)
  BY DEF JobInv
<1>3. StorageInv(cfg, disk, saves, loaded', now)
  BY <1>1 DEF IndexInv, StorageInv
<1>4. Good(cfg, eng', view, now)
  <2>1. CASE job.kind = "restore"
    BY <2>1, RestoreCommits
  <2>2. CASE job.kind # "restore"
    <3>1. Ingesting(cfg, job, view, now) /\ cfg \in Configs /\ job.cp \in cfg.hashes \cup {None}
      BY <1>1, <2>2 DEF IndexInv, JobInv, Restoring
    <3>2. PICK a \in 0 .. now : Good(cfg, job.staged, view, a)
      BY <3>1 DEF Ingesting
    <3>3. PICK d, c : d = job.staged /\ c = job.cp
      OBVIOUS
    <3>4. Good(cfg, d, view, now)
      BY <3>2, <3>3, StampedGood
    <3>5. CASE job.kind = "batch"
      BY <3>3, <3>4, <3>5 DEF Commit
    <3>6. CASE job.kind = "sync"
      <4>1. PICK r : r = [d EXCEPT !.cp = c]
        OBVIOUS
      <4>2. eng' = r
        BY <3>3, <3>6, <4>1 DEF Commit
      <4>3. DOMAIN d = Fields
        BY <3>4 DEF Good, Base, EngBase
      <4>4. /\ DOMAIN r = Fields /\ r.cp = c
            /\ \A f \in Fields \ {"count", "running", "last", "cp"} : r[f] = d[f]
        BY <4>1, <4>3 DEF Fields
      <4>5. Good(cfg, r, view, now)
        BY <3>1, <3>3, <3>4, <4>4, AdminGood
      <4> QED BY <4>2, <4>5
    <3> QED BY <3>1, <3>5, <3>6 DEF Ingesting
  <2> QED BY <2>1, <2>2
<1> QED BY <1>1, <1>2, <1>3, <1>4 DEF IndexInv

-----------------------------------------------------------------------------
(* Storage, restarts and time.                                              *)

LEMMA StorageKeeps ==
  ASSUME IndexInv, UNCHANGED cfg, StorageNext
  PROVE  IndexInv'
<1>0. cfg \in Configs /\ cfg' = cfg
  BY DEF IndexInv
<1>1. CASE BeginSave
  <2>1. PICK e : e = PurgeExpired(eng, now)
    OBVIOUS
  <2>2. /\ eng' = e /\ saves' = saves \cup {Persisted(e)} /\ "save" \in cfg.uses
        /\ job' = job /\ disk' = disk /\ loaded' = loaded /\ now' = now /\ view' = view
    BY <1>1, <2>1 DEF BeginSave, Uses
  <2>3. Good(cfg, e, view, now)
    BY <2>1, PurgeKeepsGood DEF IndexInv
  <2>4. SavedInv(cfg, Persisted(e), now)
    BY <1>0, <2>2, <2>3, PersistGood
  <2>5. StorageInv(cfg, disk, saves', loaded, now)
    BY <2>2, <2>4 DEF IndexInv, StorageInv
  <2> QED BY <1>0, <2>2, <2>3, <2>5 DEF IndexInv
<1>2. CASE ClearPersisted
  <2>1. /\ disk' = None /\ eng' = eng /\ job' = job /\ saves' = saves /\ loaded' = loaded
        /\ now' = now /\ view' = view
    BY <1>2 DEF ClearPersisted
  <2>2. StorageInv(cfg, None, saves, loaded, now)
    BY DEF IndexInv, StorageInv
  <2> QED BY <1>0, <2>1, <2>2 DEF IndexInv
<1>3. CASE LoadState
  <2>1. /\ disk # None /\ loaded = None /\ loaded' = disk /\ eng' = eng /\ job' = job /\ disk' = disk
        /\ saves' = saves /\ now' = now /\ view' = view
    BY <1>3 DEF LoadState
  <2>2. StorageInv(cfg, disk, saves, disk, now)
    BY DEF IndexInv, StorageInv
  <2>3. JobInv(cfg, job, disk, view, now)
    BY <2>1 DEF IndexInv, JobInv, Restoring
  <2> QED BY <1>0, <2>1, <2>2, <2>3 DEF IndexInv
<1>4. CASE Restart
  <2>1. /\ eng' = New /\ job' = None /\ saves' = {} /\ loaded' = None /\ view' = EmptyView
        /\ disk' = disk /\ now' = now
    BY <1>4 DEF Restart
  <2>2. Good(cfg, New, EmptyView, now)
    BY <1>0, NewGood
  <2>3. StorageInv(cfg, disk, {}, None, now) /\ JobInv(cfg, None, None, EmptyView, now)
    BY DEF IndexInv, StorageInv, JobInv
  <2> QED BY <1>0, <2>1, <2>2, <2>3 DEF IndexInv
<1>5. CASE \E p \in saves : EndSave(p)
  <2>1. PICK p \in saves : EndSave(p)
    BY <1>5
  <2>2. /\ saves' = saves \ {p} /\ disk' \in {p, disk}
        /\ eng' = eng /\ job' = job /\ loaded' = loaded /\ now' = now /\ view' = view
    BY <2>1 DEF EndSave
  <2>3. StorageInv(cfg, disk', saves', loaded, now)
    BY <2>2 DEF IndexInv, StorageInv
  <2> QED BY <1>0, <2>2, <2>3 DEF IndexInv
<1> QED BY <1>1, <1>2, <1>3, <1>4, <1>5 DEF StorageNext

LEMMA TickKeeps ==
  ASSUME IndexInv, UNCHANGED cfg, Tick
  PROVE  IndexInv'
<1>1. /\ cfg \in Configs /\ cfg' = cfg /\ now \in Nat /\ now' = now + 1 /\ now' \in Nat /\ now <= now'
      /\ eng' = eng /\ job' = job /\ disk' = disk /\ saves' = saves /\ loaded' = loaded /\ view' = view
  BY DEF IndexInv, Tick
<1>2. Good(cfg, eng, view, now')
  BY <1>1, GoodLater DEF IndexInv
<1>3. StorageInv(cfg, disk, saves, loaded, now')
  BY <1>1, SavedLater DEF IndexInv, StorageInv
<1>4. JobInv(cfg, job, loaded, view, now')
  <2>1. Ingesting(cfg, job, view, now) => Ingesting(cfg, job, view, now')
    BY <1>1 DEF Ingesting
  <2> QED BY <2>1 DEF IndexInv, JobInv
<1> QED BY <1>1, <1>2, <1>3, <1>4 DEF IndexInv

LEMMA RefusedKeeps ==
  ASSUME IndexInv, UNCHANGED cfg, RestoreRefused
  PROVE  IndexInv'
<1>1. /\ cfg' = cfg /\ eng' = eng /\ job' = None /\ disk' = disk /\ saves' = saves
      /\ loaded' = None /\ now' = now /\ view' = view
  BY DEF RestoreRefused, Free
<1>2. JobInv(cfg, None, None, view, now) /\ StorageInv(cfg, disk, saves, None, now)
  BY DEF JobInv, IndexInv, StorageInv
<1> QED BY <1>1, <1>2 DEF IndexInv

LEMMA NextKeeps == IndexInv /\ [Next]_vars => IndexInv'
<1> SUFFICES ASSUME IndexInv, [Next]_vars PROVE IndexInv'
  OBVIOUS
<1>1. CASE Next
  <2>0. UNCHANGED cfg
    BY <1>1 DEF Next
  <2>1. CASE ApiNext
    <3>1. CASE Start \/ Stop \/ \E h \in Hashes \cup {None} : SetCheckpoint(h)
      BY <2>0, <3>1, AdminKeeps
    <3>2. CASE Clear
      BY <2>0, <3>2, ClearKeeps
    <3>3. CASE Query
      BY <2>0, <3>3, QueryKeeps
    <3>4. CASE DrainEvents
      BY <2>0, <3>4, DrainKeeps
    <3>5. CASE (\E r \in Rules : AddMatcher(r)) \/ (\E i \in Ids : RemoveMatcher(i))
      BY <2>0, <3>5, MatcherKeeps
    <3>6. CASE \E t \in Txids, h \in Hashes \cup {None}, at \in Stamps : IngestOne(t, h, at)
      BY <2>0, <3>6, IngestOneKeeps
    <3>7. CASE \E h \in Hashes, at \in Stamps : IngestBareBlock(h, at)
      BY <2>0, <3>7, BareBlockKeeps
    <3>8. CASE \E h \in Hashes, at \in Stamps :
                 IngestBlockBatch(h, at) \/ ApplySyncBatches(h, at) \/ ReconcileVirtualChain(h, at)
      BY <2>0, <3>8, BatchKeeps
    <3>9. CASE RestoreState
      BY <2>0, <3>9, RestoreStateKeeps
    <3>10. CASE RestoreSnapshot
      BY <2>0, <3>10, RestoreSnapshotKeeps
    <3>11. CASE RestoreRefused
      BY <2>0, <3>11, RefusedKeeps
    <3> QED BY <2>1, <3>1, <3>2, <3>3, <3>4, <3>5, <3>6, <3>7, <3>8, <3>9, <3>10, <3>11 DEF ApiNext
  <2>2. CASE JobNext
    BY <2>0, <2>2, IngestNextKeeps, RestoreNextKeeps, AbortKeeps, CommitKeeps DEF JobNext
  <2>3. CASE StorageNext
    BY <2>0, <2>3, StorageKeeps
  <2>4. CASE Tick
    BY <2>0, <2>4, TickKeeps
  <2> QED BY <1>1, <2>1, <2>2, <2>3, <2>4 DEF Next
<1>2. CASE UNCHANGED vars
  BY <1>2 DEF vars, IndexInv
<1> QED BY <1>1, <1>2

-----------------------------------------------------------------------------
(* What the invariant says.                                                 *)

LEMMA SoundNow == IndexInv => StoreIsSound
<1> SUFFICES ASSUME IndexInv PROVE StoreIsSound
  OBVIOUS
<1>1. /\ cfg \in Configs /\ now \in Nat /\ Base(cfg, eng, view, now) /\ EngBase(cfg, eng)
      /\ Len(eng.txOrder) <= cfg.maxTransactions
  BY DEF IndexInv, Good, Base
<1>2. /\ TxInv(cfg, eng.tx, eng.txOrder) /\ BlockInv(cfg, eng.blocks, eng.blockOrder)
      /\ MatchInv(cfg, eng.matches, eng.matchers, eng.nextId, DOMAIN eng.tx)
  BY <1>1 DEF EngBase
<1>3. StoreConsistent
  <2>1. StoreAgrees(eng)
    BY <1>2 DEF StoreAgrees, TxInv, BlockInv
  <2>2. WithinLimits(eng)
    BY <1>1 DEF EngBase, WithinLimits, MaxTransactions, MaxBlocks, MaxMatches, DedupeWindow
  <2> QED BY <2>1, <2>2 DEF StoreConsistent
<1>4. MatchesAreJustified
  <2>1. DOMAIN eng.matches = 1 .. Len(eng.matches)
    BY <1>2, LenProperties DEF MatchInv
  <2>2. MatchesHaveTransactions
    BY <1>2, <2>1 DEF MatchInv, MatchesHaveTransactions
  <2>3. MatchesAreAttributed /\ MatchesAreSingle
    BY <1>2 DEF MatchInv, MatchesAreAttributed, MatchesAreSingle
  <2> QED BY <2>2, <2>3 DEF MatchesAreJustified
<1>5. QueriesAreFresh
  BY <1>1, PurgeFresh DEF QueriesAreFresh, Skew
<1> QED BY <1>3, <1>4, <1>5 DEF StoreIsSound

LEMMA ToldNow == IndexInv => EventsTellTheStory
<1> SUFFICES ASSUME IndexInv, Uses \cap {"clear", "restart", "restore", "snapshot", "sync"} = {}
             PROVE  LET v == AfterEvents(view, eng) IN
                    /\ v.txs = DOMAIN eng.tx
                    /\ \A i \in DOMAIN eng.matches :
                         <<eng.matches[i].matcher, eng.matches[i].txid>> \in v.matches
  BY DEF EventsTellTheStory
<1>1. Told(cfg, view, eng) /\ MatchInv(cfg, eng.matches, eng.matchers, eng.nextId, DOMAIN eng.tx)
  BY DEF IndexInv, Good, Base, EngBase
<1>2. DOMAIN eng.matches = 1 .. Len(eng.matches)
  BY <1>1, LenProperties DEF MatchInv
<1>3. /\ DOMAIN eng.tx = (view.txs \ {t \in cfg.txids : eng.news[t] = "evicted"})
                           \cup {t \in cfg.txids : eng.news[t] = "added"}
      /\ \A i \in 1 .. Len(eng.matches) :
           <<eng.matches[i].matcher, eng.matches[i].txid>> \in view.matches \cup eng.announced
  BY <1>1, Zenon DEF Told, Uses
<1> QED BY <1>2, <1>3, Zenon DEF AfterEvents, Txids

LEMMA FaithfulStep ==
  ASSUME IndexInv, Commit, job.kind = "restore"
  PROVE  /\ Persisted(eng').txs = loaded.txs /\ Persisted(eng').blocks = loaded.blocks
         /\ Persisted(eng').matches = loaded.matches
  BY RestoreCommits DEF SameRecords

(* The invariant holds in every state: the engine behind the lock is sound,   *)
(* so is the clone of a batch or a synchronisation, a restore holds exactly    *)
(* the records it has inserted, and everything in the storage was saved by a   *)
(* sound engine.                                                               *)
THEOREM IndexStaysSound == Spec => []IndexInv
<1>1. Init => IndexInv
  BY InitIndex
<1>2. IndexInv /\ [Next]_vars => IndexInv'
  BY NextKeeps
<1> QED BY <1>1, <1>2, PTL DEF Spec

(* Whatever ingestion, eviction, expiry, reorganisation, failed batches, saves *)
(* that land late, restarts and restores do, the maps and queues of            *)
(* MemoryStore agree and stay within the limits of IndexerConfig, every match  *)
(* is justified by what is retained beside it, and no query returns an expired *)
(* record: for all limits, rules, chains and saved states.                     *)
THEOREM StoreAlwaysSound == Spec => []StoreIsSound
  BY IndexStaysSound, SoundNow, PTL

(* A consumer of drain_events always knows which transactions are retained and *)
(* has heard of every retained match.                                          *)
THEOREM EventsAlwaysTell == Spec => []EventsTellTheStory
  BY IndexStaysSound, ToldNow, PTL

(* restore_state and restore_snapshot bring back the saved records, all of     *)
(* them and in their order, although MemoryStore::restore refills the store    *)
(* through its trimming inserts.                                               *)
THEOREM RestoresAreFaithful == Spec => RestoreIsFaithful
<1>1. IndexInv /\ [Next]_vars =>
        [Commit /\ job.kind = "restore" =>
           /\ Persisted(eng').txs = loaded.txs /\ Persisted(eng').blocks = loaded.blocks
           /\ Persisted(eng').matches = loaded.matches]_vars
  BY FaithfulStep
<1> QED BY <1>1, IndexStaysSound, PTL DEF Spec, RestoreIsFaithful

-----------------------------------------------------------------------------
(* Following the chain.                                                     *)

(* Chains that share a block share everything up to it. *)
LEMMA ChainIsSeq ==
  ASSUME cfg \in Configs, NEW c, c \in cfg.hashes \cup {None}, NEW C, C = ChainOf(cfg, c)
  PROVE  C \in Seq(cfg.hashes) /\ Len(C) \in Nat /\ DOMAIN C = 1 .. Len(C)
<1>1. c # None => cfg.chainTo[c] \in Seq(cfg.hashes)
  BY ConfigAssumption
<1>2. <<>> \in Seq(cfg.hashes)
  OBVIOUS
<1>3. CASE c = None
  BY <1>2, <1>3 DEF ChainOf
<1>4. CASE c # None
  <2>1. C = cfg.chainTo[c]
    BY <1>4, Zenon DEF ChainOf
  <2> QED BY <1>1, <1>4, <2>1, LenProperties
<1> QED BY <1>3, <1>4, LenProperties

LEMMA ChainFront ==
  ASSUME cfg \in Configs, NEW c, c \in cfg.hashes \cup {None}, NEW C, C = ChainOf(cfg, c),
         NEW i, i \in DOMAIN C
  PROVE  cfg.chainTo[C[i]] = SubSeq(C, 1, i)
<1>1. c # None
  <2>1. DOMAIN <<>> = {}
    OBVIOUS
  <2> QED BY <2>1 DEF ChainOf
<1>2. c \in cfg.hashes /\ C = cfg.chainTo[c]
  BY <1>1 DEF ChainOf
<1>3. \A h \in cfg.hashes : \A n \in DOMAIN cfg.chainTo[h] :
        cfg.chainTo[cfg.chainTo[h][n]] = SubSeq(cfg.chainTo[h], 1, n)
  BY ConfigAssumption, Zenon
<1> QED BY <1>2, <1>3, Zenon

LEMMA FrontFacts ==
  ASSUME NEW S, NEW C \in Seq(S), NEW i \in 1 .. Len(C)
  PROVE  Len(SubSeq(C, 1, i)) = i /\ \A l \in 1 .. i : SubSeq(C, 1, i)[l] = C[l]
<1>1. PICK n \in Nat : n = Len(C)
  BY LenProperties
<1>2. i \in 1 .. n /\ 1 <= i /\ i <= n
  BY <1>1
<1>3. SubSeq(C, 1, i) = [l \in 1 .. i |-> C[1 + l - 1]]
  BY <1>1, <1>2, SubSeqProperties
<1> QED BY <1>2, <1>3

Agree(C, D, i, j) == i = j /\ \A l \in 1 .. i : C[l] = D[l]

LEMMA ChainsAgree ==
  ASSUME cfg \in Configs, NEW c, c \in cfg.hashes \cup {None}, NEW d, d \in cfg.hashes \cup {None},
         NEW C, C = ChainOf(cfg, c), NEW D, D = ChainOf(cfg, d),
         NEW i \in 1 .. Len(C), NEW j \in 1 .. Len(D), C[i] = D[j]
  PROVE  Agree(C, D, i, j)
<1>1. /\ C \in Seq(cfg.hashes) /\ D \in Seq(cfg.hashes)
      /\ DOMAIN C = 1 .. Len(C) /\ DOMAIN D = 1 .. Len(D)
  BY ChainIsSeq
<1>2. cfg.chainTo[C[i]] = SubSeq(C, 1, i) /\ cfg.chainTo[D[j]] = SubSeq(D, 1, j)
  BY <1>1, ChainFront
<1>3. SubSeq(C, 1, i) = SubSeq(D, 1, j)
  BY <1>2
<1>4. /\ Len(SubSeq(C, 1, i)) = i /\ (\A l \in 1 .. i : SubSeq(C, 1, i)[l] = C[l])
      /\ Len(SubSeq(D, 1, j)) = j /\ (\A l \in 1 .. j : SubSeq(D, 1, j)[l] = D[l])
  BY <1>1, FrontFacts
<1>5. i = j
  BY <1>3, <1>4
<1> QED BY <1>3, <1>4, <1>5 DEF Agree

LEMMA ChainDistinct ==
  ASSUME cfg \in Configs, NEW c, c \in cfg.hashes \cup {None}, NEW C, C = ChainOf(cfg, c)
  PROVE  Distinct(C)
<1>1. DOMAIN C = 1 .. Len(C)
  BY ChainIsSeq
<1>2. ASSUME NEW i \in 1 .. Len(C), NEW j \in 1 .. Len(C), C[i] = C[j]
      PROVE  i = j
  BY <1>2, ChainsAgree DEF Agree
<1> QED BY <1>1, <1>2 DEF Distinct

-----------------------------------------------------------------------------
(* There is room for the records of a chain. *)

LEMMA RangeFinite ==
  ASSUME NEW S, NEW s \in Seq(S)
  PROVE  IsFiniteSet(Range(s)) /\ Cardinality(Range(s)) <= Len(s)
<1>0. PICK n \in Nat : n = Len(s) /\ DOMAIN s = 1 .. n /\ s \in [1 .. n -> S]
  BY LenProperties
<1>1. PICK T : T = Range(s)
  OBVIOUS
<1>2. s \in [1 .. n -> T] /\ \A y \in T : \E x \in 1 .. n : s[x] = y
  BY <1>0, <1>1 DEF Range
<1>3. s \in Surjection(1 .. n, T)
  BY <1>2 DEF Surjection
<1>4. IsFiniteSet(1 .. n) /\ Cardinality(1 .. n) = n
  <2>1. 1 \in Int /\ n \in Int
    OBVIOUS
  <2>2. IsFiniteSet(1 .. n) /\ Cardinality(1 .. n) = IF 1 > n THEN 0 ELSE n - 1 + 1
    BY <2>1, FS_Interval
  <2> QED BY <2>2
<1>5. IsFiniteSet(T) /\ Cardinality(T) <= Cardinality(1 .. n)
  BY <1>3, <1>4, FS_Surjection
<1> QED BY <1>0, <1>1, <1>4, <1>5

(* The transactions of the blocks of a chain. *)
TxsOf(k, C) == UNION {Range(k.blockTxs[b]) : b \in Range(C)}

LEMMA TxsFinite ==
  ASSUME cfg \in Configs, NEW C \in Seq(cfg.hashes)
  PROVE  IsFiniteSet(TxsOf(cfg, C))
<1>1. PICK B : B = Range(C)
  OBVIOUS
<1>2. B \subseteq cfg.hashes /\ IsFiniteSet(B)
  BY <1>1, RangeFinite, ElementOfSeq, LenProperties DEF Range
<1>3. \A b \in B : IsFiniteSet(Range(cfg.blockTxs[b]))
  BY <1>2, ConfigAssumption, RangeFinite
<1>4. PICK U : U = {Range(cfg.blockTxs[b]) : b \in B}
  OBVIOUS
<1>5. IsFiniteSet(U)
  <2>1. PICK f : f = [b \in B |-> Range(cfg.blockTxs[b])]
    OBVIOUS
  <2>2. f \in Surjection(B, U)
    BY <1>4, <2>1 DEF Surjection
  <2> QED BY <1>2, <2>2, FS_Surjection
<1>6. \A T \in U : IsFiniteSet(T)
  BY <1>3, <1>4
<1>7. IsFiniteSet(UNION U)
  BY <1>5, <1>6, FS_UNION
<1> QED BY <1>1, <1>4, <1>7 DEF TxsOf

LEMMA RoomForTxs ==
  ASSUME cfg \in Configs, OnlyFollowsChain, NEW h \in cfg.hashes, NEW C, C = ChainOf(cfg, h),
         NEW T, T \subseteq TxsOf(cfg, C) \ cfg.invalid
  PROVE  Cardinality(T) \in Nat /\ Cardinality(T) <= cfg.maxTransactions /\ IsFiniteSet(T)
<1>1. h # None /\ C = ChainTo[h]
  BY ConfigAssumption DEF ChainOf, ChainTo
<1>2. C \in Seq(cfg.hashes)
  BY ChainIsSeq
<1>3. PICK U : U = TxsOf(cfg, C) \ cfg.invalid
  OBVIOUS
<1>4. IsFiniteSet(U)
  BY <1>2, <1>3, TxsFinite, FS_Subset
<1>5. Cardinality(U) <= cfg.maxTransactions
  <2>1. \A g \in Hashes : Cardinality((UNION {Range(BlockTxs[b]) : b \in Range(ChainTo[g])}) \ Invalid)
                            <= MaxTransactions
    BY DEF OnlyFollowsChain
  <2>2. PICK D : D = ChainTo[h]
    OBVIOUS
  <2>3. h \in Hashes /\ MaxTransactions = cfg.maxTransactions /\ C = D
    BY <1>1, <2>2 DEF Hashes, MaxTransactions
  <2>4. Cardinality((UNION {Range(BlockTxs[b]) : b \in Range(D)}) \ Invalid) <= cfg.maxTransactions
    BY <2>1, <2>2, <2>3
  <2>5. U = (UNION {Range(BlockTxs[b]) : b \in Range(D)}) \ Invalid
    BY <1>3, <2>3 DEF TxsOf, BlockTxs, Invalid
  <2> QED BY <2>4, <2>5
<1>6. IsFiniteSet(T) /\ Cardinality(T) <= Cardinality(U)
  BY <1>3, <1>4, FS_Subset
<1>7. Cardinality(T) \in Nat /\ Cardinality(U) \in Nat /\ cfg.maxTransactions \in Nat
  BY <1>4, <1>6, FS_CardinalityType, ConfigAssumption
<1> QED BY <1>5, <1>6, <1>7

LEMMA RoomForBlocks ==
  ASSUME cfg \in Configs, OnlyFollowsChain, NEW h \in cfg.hashes, NEW C, C = ChainOf(cfg, h),
         NEW B, B \subseteq Range(C)
  PROVE  Cardinality(B) \in Nat /\ Cardinality(B) <= cfg.maxBlocks
<1>1. h # None /\ C = ChainTo[h]
  BY ConfigAssumption DEF ChainOf, ChainTo
<1>2. C \in Seq(cfg.hashes) /\ Len(C) \in Nat
  BY ChainIsSeq
<1>3. IsFiniteSet(Range(C)) /\ Cardinality(Range(C)) <= Len(C)
  BY <1>2, RangeFinite
<1>4. Len(C) <= cfg.maxBlocks
  BY <1>1 DEF OnlyFollowsChain, Hashes, MaxBlocks
<1>5. IsFiniteSet(B) /\ Cardinality(B) <= Cardinality(Range(C))
  BY <1>3, FS_Subset
<1>6. Cardinality(B) \in Nat /\ Cardinality(Range(C)) \in Nat /\ cfg.maxBlocks \in Nat
  BY <1>3, <1>5, FS_CardinalityType, ConfigAssumption
<1> QED BY <1>2, <1>3, <1>4, <1>5, <1>6

-----------------------------------------------------------------------------
(* The records T and the blocks B of an engine whose window is q, on the way to *)
(* the chain C: the items in todo bring what is missing, in the order of C.     *)

TxItem(it, t, b) == it.kind = "tx" /\ it.rec.txid = t /\ it.rec.block = b
BlockItem(it, b) == it.kind = "block" /\ it.rec.hash = b

ItemIn(k, it, b) == BlockItem(it, b) \/ \E t \in Range(k.blockTxs[b]) : TxItem(it, t, b)

InChainOrder(k, C, todo) ==
  /\ \A n \in 1 .. Len(todo) : \E i \in 1 .. Len(C) : ItemIn(k, todo[n], C[i])
  /\ \A m, n \in 1 .. Len(todo), i, j \in 1 .. Len(C) :
       m <= n /\ ItemIn(k, todo[m], C[i]) /\ ItemIn(k, todo[n], C[j]) => i <= j

Complete(k, T, B, C, todo) ==
  \A i \in 1 .. Len(C) :
    /\ C[i] \in B \/ \E n \in 1 .. Len(todo) : BlockItem(todo[n], C[i])
    /\ \A t \in Range(k.blockTxs[C[i]]) :
         t \in DOMAIN T \/ \E n \in 1 .. Len(todo) : TxItem(todo[n], t, C[i])

Synced(k, T, B, q, C, todo) ==
  /\ B \subseteq Range(C) /\ q \subseteq DOMAIN T
  /\ \A t \in DOMAIN T : t \notin k.invalid /\ FirstWith(k, C, t, T[t].block)
  /\ Complete(k, T, B, C, todo) /\ InChainOrder(k, C, todo)

LEMMA TailFacts ==
  ASSUME NEW S, NEW w \in Seq(S), w # <<>>
  PROVE  /\ Len(w) \in Nat /\ Len(w) >= 1 /\ Len(Tail(w)) = Len(w) - 1
         /\ Head(w) = w[1] /\ \A n \in 1 .. Len(w) - 1 : Tail(w)[n] = w[n + 1]
  BY LenProperties, HeadTailProperties

LEMMA OrderTail ==
  ASSUME NEW k, NEW C, NEW S, NEW w \in Seq(S), w # <<>>, InChainOrder(k, C, w)
  PROVE  InChainOrder(k, C, Tail(w))
<1>0. PICK u : u = Tail(w)
  OBVIOUS
<1>1. PICK m \in Nat : m = Len(w) - 1 /\ u = Tail(w)
  BY <1>0, TailFacts
<1>2. Len(u) = m /\ Len(w) = m + 1 /\ \A n \in 1 .. m : u[n] = w[n + 1] /\ n + 1 \in 1 .. m + 1
  BY <1>1, TailFacts
<1>3. ASSUME NEW n \in 1 .. m PROVE \E i \in 1 .. Len(C) : ItemIn(k, u[n], C[i])
  BY <1>2 DEF InChainOrder
<1>4. ASSUME NEW a \in 1 .. m, NEW b \in 1 .. m, NEW i \in 1 .. Len(C), NEW j \in 1 .. Len(C),
             a <= b, ItemIn(k, u[a], C[i]), ItemIn(k, u[b], C[j])
      PROVE  i <= j
  <2>1. a + 1 \in 1 .. m + 1 /\ b + 1 \in 1 .. m + 1 /\ a + 1 <= b + 1
    BY <1>4
  <2>2. ItemIn(k, w[a + 1], C[i]) /\ ItemIn(k, w[b + 1], C[j])
    BY <1>2, <1>4
  <2> QED BY <1>2, <2>1, <2>2 DEF InChainOrder
<1> QED BY <1>1, <1>2, <1>3, <1>4 DEF InChainOrder

(* An item that is not the first is still to come. *)
LEMMA StillComes ==
  ASSUME NEW S, NEW w \in Seq(S), w # <<>>, NEW n \in 1 .. Len(w), w[n] # Head(w)
  PROVE  \E m \in 1 .. Len(Tail(w)) : Tail(w)[m] = w[n]
<1>1. Len(w) \in Nat /\ n # 1 /\ n - 1 \in 1 .. Len(w) - 1
  BY TailFacts
<1>2. Tail(w)[n - 1] = w[n]
  <2>1. \A m \in 1 .. Len(w) - 1 : Tail(w)[m] = w[m + 1]
    BY TailFacts
  <2>2. n - 1 + 1 = n
    BY <1>1
  <2> QED BY <1>1, <2>1, <2>2
<1> QED BY <1>1, <1>2, TailFacts

(* A block of the chain arrives. *)
LEMMA SyncBlock ==
  ASSUME NEW k, NEW T, NEW B, NEW q, NEW C, NEW S, NEW w \in Seq(S), w # <<>>, Synced(k, T, B, q, C, w),
         Len(C) \in Nat, DOMAIN C = 1 .. Len(C), Head(w).kind = "block"
  PROVE  Synced(k, T, B \cup {Head(w).rec.hash}, q, C, Tail(w))
<1>1. PICK it, b, D : it = Head(w) /\ b = it.rec.hash /\ D = B \cup {b}
  OBVIOUS
<1>2. InChainOrder(k, C, Tail(w))
  BY OrderTail DEF Synced
<1>3. b \in Range(C)
  <2>1. 1 \in 1 .. Len(w) /\ w[1] = it
    BY <1>1, TailFacts
  <2>2. PICK i \in 1 .. Len(C) : ItemIn(k, it, C[i])
    BY <2>1 DEF Synced, InChainOrder
  <2>3. C[i] = b
    BY <1>1, <2>2 DEF ItemIn, BlockItem, TxItem
  <2> QED BY <2>3 DEF Range
<1>4. Complete(k, T, D, C, Tail(w))
  <2> SUFFICES ASSUME NEW i \in 1 .. Len(C)
               PROVE  /\ C[i] \in D \/ \E n \in 1 .. Len(Tail(w)) : BlockItem(Tail(w)[n], C[i])
                      /\ \A t \in Range(k.blockTxs[C[i]]) :
                           t \in DOMAIN T \/ \E n \in 1 .. Len(Tail(w)) : TxItem(Tail(w)[n], t, C[i])
    BY DEF Complete
  <2>1. /\ C[i] \in B \/ \E n \in 1 .. Len(w) : BlockItem(w[n], C[i])
        /\ \A t \in Range(k.blockTxs[C[i]]) :
             t \in DOMAIN T \/ \E n \in 1 .. Len(w) : TxItem(w[n], t, C[i])
    BY DEF Synced, Complete
  <2>2. C[i] \in D \/ \E n \in 1 .. Len(Tail(w)) : BlockItem(Tail(w)[n], C[i])
    <3> SUFFICES ASSUME C[i] \notin D PROVE \E n \in 1 .. Len(Tail(w)) : BlockItem(Tail(w)[n], C[i])
      OBVIOUS
    <3>1. PICK n \in 1 .. Len(w) : BlockItem(w[n], C[i])
      BY <1>1, <2>1
    <3>2. w[n] # Head(w)
      BY <1>1, <3>1 DEF BlockItem
    <3>3. \E m \in 1 .. Len(Tail(w)) : Tail(w)[m] = w[n]
      BY <3>2, StillComes
    <3> QED BY <3>1, <3>3
  <2>3. ASSUME NEW t \in Range(k.blockTxs[C[i]]), t \notin DOMAIN T
        PROVE  \E n \in 1 .. Len(Tail(w)) : TxItem(Tail(w)[n], t, C[i])
    <3>1. PICK n \in 1 .. Len(w) : TxItem(w[n], t, C[i])
      BY <2>1, <2>3
    <3>2. w[n] # Head(w)
      BY <3>1 DEF TxItem
    <3>3. \E m \in 1 .. Len(Tail(w)) : Tail(w)[m] = w[n]
      BY <3>2, StillComes
    <3> QED BY <3>1, <3>3
  <2> QED BY <2>2, <2>3
<1>5. D \subseteq Range(C) /\ q \subseteq DOMAIN T
      /\ \A t \in DOMAIN T : t \notin k.invalid /\ FirstWith(k, C, t, T[t].block)
  BY <1>1, <1>3 DEF Synced
<1> QED BY <1>1, <1>2, <1>4, <1>5 DEF Synced

(* A transaction of the chain arrives, for the first time or again. *)
LEMMA SyncTx ==
  ASSUME NEW k, NEW T, NEW B, NEW q, NEW C, NEW S, NEW w \in Seq(S), w # <<>>, Synced(k, T, B, q, C, w),
         Len(C) \in Nat, DOMAIN C = 1 .. Len(C),
         NEW x, Head(w).kind = "tx", x = Head(w).rec, x.txid \notin k.invalid,
         NEW U, U = IF x.txid \in DOMAIN T THEN T ELSE Insert(T, x.txid, x),
         NEW r, r \subseteq DOMAIN U
  PROVE  Synced(k, U, B, r, C, Tail(w))
<1>1. PICK it, y, b : it = Head(w) /\ y = x.txid /\ b = x.block
  OBVIOUS
<1>2. InChainOrder(k, C, Tail(w))
  BY OrderTail DEF Synced
<1>3. 1 \in 1 .. Len(w) /\ w[1] = it /\ Len(w) \in Nat
  BY <1>1, TailFacts
<1>4. PICK i \in 1 .. Len(C) : C[i] = b /\ y \in Range(k.blockTxs[b]) /\ ItemIn(k, it, C[i])
  <2>1. PICK i \in 1 .. Len(C) : ItemIn(k, it, C[i])
    BY <1>3 DEF Synced, InChainOrder
  <2> QED BY <1>1, <2>1 DEF ItemIn, BlockItem, TxItem
<1>5. DOMAIN U = DOMAIN T \cup {y} /\ \A t \in DOMAIN T : U[t] = T[t]
  BY <1>1 DEF Insert
<1>6. y \notin DOMAIN T => U[y] = x
  BY <1>1 DEF Insert
<1>7. Complete(k, U, B, C, Tail(w))
  <2> SUFFICES ASSUME NEW j \in 1 .. Len(C)
               PROVE  /\ C[j] \in B \/ \E n \in 1 .. Len(Tail(w)) : BlockItem(Tail(w)[n], C[j])
                      /\ \A t \in Range(k.blockTxs[C[j]]) :
                           t \in DOMAIN U \/ \E n \in 1 .. Len(Tail(w)) : TxItem(Tail(w)[n], t, C[j])
    BY DEF Complete
  <2>1. /\ C[j] \in B \/ \E n \in 1 .. Len(w) : BlockItem(w[n], C[j])
        /\ \A t \in Range(k.blockTxs[C[j]]) :
             t \in DOMAIN T \/ \E n \in 1 .. Len(w) : TxItem(w[n], t, C[j])
    BY DEF Synced, Complete
  <2>2. C[j] \in B \/ \E n \in 1 .. Len(Tail(w)) : BlockItem(Tail(w)[n], C[j])
    <3> SUFFICES ASSUME C[j] \notin B PROVE \E n \in 1 .. Len(Tail(w)) : BlockItem(Tail(w)[n], C[j])
      OBVIOUS
    <3>1. PICK n \in 1 .. Len(w) : BlockItem(w[n], C[j])
      BY <2>1
    <3>2. w[n] # Head(w)
      BY <3>1 DEF BlockItem
    <3>3. \E m \in 1 .. Len(Tail(w)) : Tail(w)[m] = w[n]
      BY <3>2, StillComes
    <3> QED BY <3>1, <3>3
  <2>3. ASSUME NEW t \in Range(k.blockTxs[C[j]]), t \notin DOMAIN U
        PROVE  \E n \in 1 .. Len(Tail(w)) : TxItem(Tail(w)[n], t, C[j])
    <3>1. PICK n \in 1 .. Len(w) : TxItem(w[n], t, C[j])
      BY <1>5, <2>1, <2>3
    <3>2. w[n] # Head(w)
      BY <1>1, <1>5, <2>3, <3>1 DEF TxItem
    <3>3. \E m \in 1 .. Len(Tail(w)) : Tail(w)[m] = w[n]
      BY <3>2, StillComes
    <3> QED BY <3>1, <3>3
  <2> QED BY <2>2, <2>3
<1>8. ASSUME y \notin DOMAIN T PROVE FirstWith(k, C, y, b)
  <2>1. ASSUME NEW j \in 1 .. Len(C), y \in Range(k.blockTxs[C[j]])
        PROVE  i <= j
    <3>1. PICK n \in 1 .. Len(w) : TxItem(w[n], y, C[j])
      BY <1>8, <2>1 DEF Synced, Complete
    <3>2. ItemIn(k, w[n], C[j])
      BY <2>1, <3>1 DEF ItemIn
    <3>3. 1 <= n
      OBVIOUS
    <3> QED BY <1>3, <1>4, <3>2, <3>3 DEF Synced, InChainOrder
  <2> QED BY <1>4, <2>1 DEF FirstWith
<1>9. \A t \in DOMAIN U : t \notin k.invalid /\ FirstWith(k, C, t, U[t].block)
  <2> SUFFICES ASSUME NEW t \in DOMAIN U PROVE t \notin k.invalid /\ FirstWith(k, C, t, U[t].block)
    OBVIOUS
  <2>1. CASE t \in DOMAIN T
    BY <1>5, <2>1 DEF Synced
  <2>2. CASE t \notin DOMAIN T
    <3>1. t = y /\ U[t] = x /\ U[t].block = b
      BY <1>1, <1>5, <1>6, <2>2
    <3> QED BY <1>1, <1>8, <2>2, <3>1
  <2> QED BY <2>1, <2>2
<1>10. B \subseteq Range(C)
  BY DEF Synced
<1> QED BY <1>2, <1>7, <1>9, <1>10 DEF Synced

-----------------------------------------------------------------------------
(* The batches of a synchronisation bring every record of their blocks, in the *)
(* order of the blocks.                                                        *)

Brings(k, u, b) ==
  /\ \E n \in 1 .. Len(u) : BlockItem(u[n], b)
  /\ \A t \in Range(k.blockTxs[b]) : \E n \in 1 .. Len(u) : TxItem(u[n], t, b)

BatchOf(k, u, b) == Brings(k, u, b) /\ \A n \in 1 .. Len(u) : ItemIn(k, u[n], b)

LEMMA BatchIs ==
  ASSUME cfg \in Configs, NEW h, h \in cfg.hashes, NEW t
  PROVE  BatchOf(cfg, BatchItems(h, t), h)
<1>1. PICK s, n : s = cfg.blockTxs[h] /\ n = Len(s)
  OBVIOUS
<1>2. s \in Seq(cfg.txids)
  BY <1>1, ConfigAssumption
<1>3. n \in Nat /\ DOMAIN s = 1 .. n
  BY <1>1, <1>2, LenProperties
<1>4. PICK b : b = [kind |-> "block", rec |-> [hash |-> h, at |-> t]]
  OBVIOUS
<1>5. PICK f : f = [i \in 1 .. n |-> [kind |-> "tx", rec |-> [txid |-> s[i], block |-> h, at |-> t]]]
  OBVIOUS
<1>6. PICK u : u = BatchItems(h, t)
  OBVIOUS
<1>7. u = <<b>> \o f
  BY <1>1, <1>3, <1>4, <1>5, <1>6 DEF BatchItems, BlockTxs
<1>8. BlockItem(b, h)
  BY <1>4 DEF BlockItem
<1>9. \A i \in 1 .. n : TxItem(f[i], s[i], h)
  BY <1>5 DEF TxItem
<1>10. Len(u) = n + 1 /\ u[1] = b /\ \A i \in 1 .. n : u[i + 1] = f[i]
  <2>1. f \in Seq(Range(f)) /\ Len(f) = n
    BY <1>3, <1>5 DEF Range
  <2>2. PICK S : S = Range(f) \cup {b}
    OBVIOUS
  <2>3. <<b>> \in Seq(S) /\ f \in Seq(S) /\ Len(<<b>>) = 1 /\ <<b>>[1] = b
    BY <1>3, <1>5, <2>2 DEF Range
  <2>4. Len(u) = 1 + n /\ \A i \in 1 .. 1 + n : u[i] = IF i <= 1 THEN <<b>>[i] ELSE f[i - 1]
    BY <1>7, <2>1, <2>3, ConcatProperties
  <2>5. \A i \in 1 .. n : i + 1 \in 1 .. 1 + n /\ ~(i + 1 <= 1) /\ i + 1 - 1 = i
    BY <1>3
  <2> QED BY <1>3, <2>3, <2>4, <2>5
<1>11. \A t2 \in Range(s) : \E i \in 1 .. Len(u) : TxItem(u[i], t2, h)
  <2> SUFFICES ASSUME NEW i \in 1 .. n PROVE \E j \in 1 .. Len(u) : TxItem(u[j], s[i], h)
    BY <1>3 DEF Range
  <2>1. i + 1 \in 1 .. Len(u) /\ u[i + 1] = f[i]
    BY <1>3, <1>10
  <2> QED BY <1>9, <2>1
<1>12. Brings(cfg, u, h)
  <2>1. 1 \in 1 .. Len(u)
    BY <1>3, <1>10
  <2> QED BY <1>1, <1>8, <1>10, <1>11, <2>1 DEF Brings
<1>13. ASSUME NEW j \in 1 .. Len(u) PROVE ItemIn(cfg, u[j], h)
  <2>1. CASE j = 1
    BY <1>8, <1>10, <2>1 DEF ItemIn
  <2>2. CASE j # 1
    <3>1. PICK i \in 1 .. n : j = i + 1
      BY <1>3, <1>10, <2>2
    <3>2. u[j] = f[i] /\ s[i] \in Range(cfg.blockTxs[h])
      BY <1>1, <1>3, <1>10, <3>1 DEF Range
    <3> QED BY <1>9, <3>2 DEF ItemIn
  <2> QED BY <2>1, <2>2
<1> QED BY <1>6, <1>12, <1>13 DEF BatchOf

(* The first n batches of the blocks w. *)
BatchesUpTo(k, u, w, n) ==
  /\ \A i \in 1 .. n : Brings(k, u, w[i])
  /\ \A a \in 1 .. Len(u) : \E i \in 1 .. n : ItemIn(k, u[a], w[i])
  /\ \A a, b \in 1 .. Len(u), i, j \in 1 .. n :
       a <= b /\ ItemIn(k, u[a], w[i]) /\ ItemIn(k, u[b], w[j]) => i <= j

LEMMA ItemInOne ==
  ASSUME NEW k, NEW it, NEW b, NEW c, ItemIn(k, it, b), ItemIn(k, it, c)
  PROVE  b = c
  BY DEF ItemIn, BlockItem, TxItem

LEMMA BringsMore ==
  ASSUME NEW k, NEW u, NEW r, NEW b, Brings(k, u, b),
         \A n \in 1 .. Len(u) : \E m \in 1 .. Len(r) : r[m] = u[n]
  PROVE  Brings(k, r, b)
<1>1. \E n \in 1 .. Len(r) : BlockItem(r[n], b)
  <2>1. PICK n \in 1 .. Len(u) : BlockItem(u[n], b)
    BY DEF Brings
  <2>2. PICK m \in 1 .. Len(r) : r[m] = u[n]
    OBVIOUS
  <2> QED BY <2>1, <2>2
<1>2. ASSUME NEW t \in Range(k.blockTxs[b])
      PROVE  \E n \in 1 .. Len(r) : TxItem(r[n], t, b)
  <2>1. PICK n \in 1 .. Len(u) : TxItem(u[n], t, b)
    BY DEF Brings
  <2>2. PICK m \in 1 .. Len(r) : r[m] = u[n]
    OBVIOUS
  <2> QED BY <2>1, <2>2
<1> QED BY <1>1, <1>2 DEF Brings

LEMMA NextBatch ==
  ASSUME NEW k, NEW S, NEW u \in Seq(S), NEW v \in Seq(S), NEW w, NEW n \in Nat, n # 0,
         BatchesUpTo(k, u, w, n - 1), BatchOf(k, v, w[n]),
         \A i, j \in 1 .. n : w[i] = w[j] => i = j
  PROVE  BatchesUpTo(k, u \o v, w, n)
<1>1. PICK l \in Nat, m \in Nat : l = Len(u) /\ m = Len(v)
  BY LenProperties
<1>2. PICK r : r = u \o v
  OBVIOUS
<1>3. Len(r) = l + m /\ \A i \in 1 .. l + m : r[i] = IF i <= l THEN u[i] ELSE v[i - l]
  BY <1>1, <1>2, ConcatProperties
<1>4. \A i \in 1 .. l : i \in 1 .. l + m /\ r[i] = u[i]
  BY <1>3
<1>5. \A i \in 1 .. m : i + l \in 1 .. l + m /\ r[i + l] = v[i]
  <2> SUFFICES ASSUME NEW i \in 1 .. m PROVE i + l \in 1 .. l + m /\ r[i + l] = v[i]
    OBVIOUS
  <2>1. i + l \in 1 .. l + m /\ ~(i + l <= l) /\ i + l - l = i
    OBVIOUS
  <2> QED BY <1>3, <2>1
<1>6. \A a \in 1 .. l + m : a \notin 1 .. l => a - l \in 1 .. m /\ r[a] = v[a - l]
  BY <1>3
<1>7. n \in 1 .. n /\ \A i \in 1 .. n : i # n => i \in 1 .. n - 1
  OBVIOUS
<1>8. ASSUME NEW i \in 1 .. n PROVE Brings(k, r, w[i])
  <2>1. CASE i = n
    <3>1. \A a \in 1 .. Len(v) : \E b \in 1 .. Len(r) : r[b] = v[a]
      BY <1>1, <1>3, <1>5
    <3> QED BY <2>1, <3>1, BringsMore DEF BatchOf
  <2>2. CASE i # n
    <3>1. \A a \in 1 .. Len(u) : \E b \in 1 .. Len(r) : r[b] = u[a]
      BY <1>1, <1>3, <1>4
    <3>2. Brings(k, u, w[i])
      BY <1>7, <2>2 DEF BatchesUpTo
    <3> QED BY <3>1, <3>2, BringsMore
  <2> QED BY <2>1, <2>2
<1>9. \A a \in 1 .. l + m : a \notin 1 .. l => ItemIn(k, r[a], w[n])
  BY <1>1, <1>6 DEF BatchOf
<1>10. \A a \in 1 .. l : \E i \in 1 .. n - 1 : ItemIn(k, r[a], w[i])
  BY <1>1, <1>4 DEF BatchesUpTo
<1>11. ASSUME NEW a \in 1 .. l + m PROVE \E i \in 1 .. n : ItemIn(k, r[a], w[i])
  <2>1. CASE a \in 1 .. l
    <3>1. PICK i \in 1 .. n - 1 : ItemIn(k, r[a], w[i])
      BY <1>10, <2>1
    <3>2. i \in 1 .. n
      OBVIOUS
    <3> QED BY <3>1, <3>2
  <2>2. CASE a \notin 1 .. l
    BY <1>7, <1>9, <2>2
  <2> QED BY <2>1, <2>2
<1>12. ASSUME NEW a \in 1 .. l + m, NEW b \in 1 .. l + m, NEW i \in 1 .. n, NEW j \in 1 .. n,
              a <= b, ItemIn(k, r[a], w[i]), ItemIn(k, r[b], w[j])
       PROVE  i <= j
  <2>1. CASE b \notin 1 .. l
    <3>1. w[j] = w[n]
      BY <1>9, <1>12, <2>1, ItemInOne
    <3>2. j = n
      BY <1>7, <3>1
    <3> QED BY <3>2
  <2>2. CASE b \in 1 .. l
    <3>1. a \in 1 .. l
      BY <1>12, <2>2
    <3>2. PICK i2 \in 1 .. n - 1 : ItemIn(k, r[a], w[i2])
      BY <1>10, <3>1
    <3>3. PICK j2 \in 1 .. n - 1 : ItemIn(k, r[b], w[j2])
      BY <1>10, <2>2
    <3>4. i2 \in 1 .. n /\ j2 \in 1 .. n
      OBVIOUS
    <3>5. i = i2 /\ j = j2
      BY <1>12, <3>2, <3>3, <3>4, ItemInOne
    <3>6. r[a] = u[a] /\ r[b] = u[b]
      BY <1>4, <2>2, <3>1
    <3> QED BY <1>1, <1>12, <2>2, <3>1, <3>2, <3>3, <3>5, <3>6 DEF BatchesUpTo
  <2> QED BY <2>1, <2>2
<1> QED BY <1>2, <1>3, <1>8, <1>11, <1>12 DEF BatchesUpTo

LEMMA AllBatches ==
  ASSUME NEW k, NEW S, NEW w, NEW t, Len(w) \in Nat,
         \A i \in 1 .. Len(w) : BatchItems(w[i], t) \in Seq(S) /\ BatchOf(k, BatchItems(w[i], t), w[i]),
         \A i, j \in 1 .. Len(w) : w[i] = w[j] => i = j,
         NEW g, Flat(g, w, t)
  PROVE  BatchesUpTo(k, g[Len(w)], w, Len(w))
<1>1. PICK n \in Nat : n = Len(w)
  OBVIOUS
<1>2. \A i \in 0 .. n : g[i] = IF i = 0 THEN <<>> ELSE g[i - 1] \o BatchItems(w[i], t)
  <2>1. g = [i \in 0 .. n |-> IF i = 0 THEN <<>> ELSE g[i - 1] \o BatchItems(w[i], t)]
    BY <1>1 DEF Flat
  <2> QED BY <2>1, Zenon
<1> DEFINE P == {i \in 0 .. n : g[i] \in Seq(S) /\ BatchesUpTo(k, g[i], w, i)}
<1>3. 0 \in P
  <2>1. 0 \in 0 .. n
    OBVIOUS
  <2>2. g[0] = <<>>
    BY <1>2, <2>1
  <2>3. g[0] \in Seq(S) /\ Len(g[0]) = 0
    BY <2>2
  <2>4. BatchesUpTo(k, g[0], w, 0)
    BY <2>3 DEF BatchesUpTo
  <2> QED BY <2>1, <2>3, <2>4
<1>4. \A i \in 1 .. n : i - 1 \in P => i \in P
  <2> SUFFICES ASSUME NEW i \in 1 .. n, i - 1 \in P
               PROVE  i \in P
    OBVIOUS
  <2>1. PICK v : v = BatchItems(w[i], t)
    OBVIOUS
  <2>2. g[i - 1] \in Seq(S) /\ v \in Seq(S) /\ BatchesUpTo(k, g[i - 1], w, i - 1) /\ BatchOf(k, v, w[i])
    BY <1>1, <2>1
  <2>3. i \in 0 .. n /\ i # 0 /\ i \in Nat /\ \A a \in 1 .. i : a \in 1 .. n
    OBVIOUS
  <2>4. g[i] = g[i - 1] \o v
    BY <1>2, <2>1, <2>3
  <2>5. g[i] \in Seq(S)
    BY <2>2, <2>4, ConcatProperties
  <2>6. \A a, b \in 1 .. i : w[a] = w[b] => a = b
    BY <1>1, <2>3
  <2>7. BatchesUpTo(k, g[i], w, i)
    BY <2>2, <2>3, <2>4, <2>6, NextBatch
  <2> QED BY <2>3, <2>5, <2>7
<1> HIDE DEF P
<1>5. \A i \in 0 .. n : i \in P
  BY <1>3, <1>4, InductTo
<1>6. n \in P
  BY <1>5
<1> QED BY <1>1, <1>6 DEF P

(* What apply_sync_batches and reconcile_virtual_chain ingest on the way from *)
(* the chain D to the chain C.                                                *)
Brought(k, C, D, todo) ==
  /\ \A i \in 1 .. Len(C) : C[i] \notin Range(D) => Brings(k, todo, C[i])
  /\ InChainOrder(k, C, todo)

LEMMA ChainBrings ==
  ASSUME cfg \in Configs, NEW h \in cfg.hashes, NEW t, t \in 0 .. cfg.maxTime,
         eng.cp \in cfg.hashes \cup {None}, NEW C, C = ChainOf(cfg, h), NEW D, D = ChainOf(cfg, eng.cp)
  PROVE  Brought(cfg, C, D, ChainItems(h, t))
<1>0. h # None /\ C = ChainTo[h] /\ Range(D) = OnChain(eng.cp)
  <2>1. Range(<<>>) = {}
    BY DEF Range
  <2>2. h # None /\ C = ChainTo[h]
    BY ConfigAssumption DEF ChainOf, ChainTo
  <2> QED BY <2>1, <2>2 DEF ChainOf, ChainTo, OnChain
<1>1. PICK w, S, G : w = Remove(C, G) /\ S = StagedItems(cfg, t) /\ G = Range(D)
  OBVIOUS
<1>2. C \in Seq(cfg.hashes) /\ Len(C) \in Nat /\ DOMAIN C = 1 .. Len(C) /\ Distinct(C)
  BY ChainIsSeq, ChainDistinct
<1>3. w \in Seq(cfg.hashes)
  BY <1>1, <1>2, RemoveKeeps
<1>4. Len(w) \in Nat /\ \A i \in 1 .. Len(w) : w[i] \in cfg.hashes
  BY <1>3, LenProperties, ElementOfSeq
<1>5. PICK f : KeptUpTo(C, G, w, Len(C), f)
  BY <1>1, <1>2, RemoveKeeps
<1>6. /\ \A i \in 1 .. Len(w) : f[i] \in 1 .. Len(C) /\ w[i] = C[f[i]]
      /\ \A i, j \in 1 .. Len(w) : i < j => f[i] < f[j]
      /\ \A i \in 1 .. Len(C) : C[i] \notin G => \E j \in 1 .. Len(w) : f[j] = i
  BY <1>5 DEF KeptUpTo
<1>7. \A i, j \in 1 .. Len(w) : w[i] = w[j] => i = j
  <2> SUFFICES ASSUME NEW i \in 1 .. Len(w), NEW j \in 1 .. Len(w), w[i] = w[j], i # j PROVE FALSE
    OBVIOUS
  <2>1. f[i] = f[j] /\ f[i] \in 1 .. Len(C) /\ f[j] \in 1 .. Len(C)
    BY <1>2, <1>6 DEF Distinct
  <2>2. i < j \/ j < i
    BY <1>4
  <2>3. f[i] < f[j] \/ f[j] < f[i]
    BY <1>6, <2>2
  <2> QED BY <1>2, <2>1, <2>3
<1>8. \A i \in 1 .. Len(w) : BatchItems(w[i], t) \in Seq(S) /\ BatchOf(cfg, BatchItems(w[i], t), w[i])
  BY <1>1, <1>4, BatchTyped, BatchIs
<1> DEFINE g == CHOOSE g : Flat(g, w, t)
<1>9. FlatExists(w, t)
  BY <1>4, <1>8, BatchesExist
<1>10. Flat(g, w, t)
  BY <1>9, Zenon DEF FlatExists
<1>11. ChainItems(h, t) = g[Len(w)]
  <2>1. w = Remove(ChainTo[h], OnChain(eng.cp))
    BY <1>0, <1>1
  <2> QED BY <2>1, Zenon DEF ChainItems, Flat
<1> HIDE DEF g
<1>12. PICK u : u = g[Len(w)]
  OBVIOUS
<1>13. BatchesUpTo(cfg, u, w, Len(w))
  BY <1>4, <1>7, <1>8, <1>10, <1>12, AllBatches
<1>14. ASSUME NEW i \in 1 .. Len(C), C[i] \notin Range(D) PROVE Brings(cfg, u, C[i])
  <2>1. PICK j \in 1 .. Len(w) : f[j] = i
    BY <1>1, <1>6, <1>14
  <2>2. w[j] = C[i]
    BY <1>6, <2>1
  <2> QED BY <1>13, <2>2 DEF BatchesUpTo
<1>15. ASSUME NEW a \in 1 .. Len(u) PROVE \E i \in 1 .. Len(C) : ItemIn(cfg, u[a], C[i])
  <2>1. PICK i \in 1 .. Len(w) : ItemIn(cfg, u[a], w[i])
    BY <1>13 DEF BatchesUpTo
  <2>2. f[i] \in 1 .. Len(C) /\ ItemIn(cfg, u[a], C[f[i]])
    BY <1>6, <2>1
  <2> QED BY <2>2
<1>16. ASSUME NEW a \in 1 .. Len(u), NEW b \in 1 .. Len(u), NEW i \in 1 .. Len(C), NEW j \in 1 .. Len(C),
              a <= b, ItemIn(cfg, u[a], C[i]), ItemIn(cfg, u[b], C[j])
       PROVE  i <= j
  <2>1. PICK i2 \in 1 .. Len(w) : ItemIn(cfg, u[a], w[i2])
    BY <1>13 DEF BatchesUpTo
  <2>2. PICK j2 \in 1 .. Len(w) : ItemIn(cfg, u[b], w[j2])
    BY <1>13 DEF BatchesUpTo
  <2>3. i2 <= j2
    BY <1>13, <1>16, <2>1, <2>2 DEF BatchesUpTo
  <2>4. C[i] = w[i2] /\ C[j] = w[j2]
    BY <1>16, <2>1, <2>2, ItemInOne
  <2>5. f[i2] \in 1 .. Len(C) /\ f[j2] \in 1 .. Len(C) /\ C[f[i2]] = C[i] /\ C[f[j2]] = C[j]
    BY <1>6, <2>4
  <2>6. f[i2] = i /\ f[j2] = j
    BY <1>2, <2>5 DEF Distinct
  <2>7. i2 = j2 \/ f[i2] < f[j2]
    <3>1. i2 = j2 \/ i2 < j2
      BY <1>4, <2>3
    <3> QED BY <1>6, <3>1
  <2> QED BY <1>2, <2>6, <2>7
<1>17. InChainOrder(cfg, C, u)
  BY <1>15, <1>16 DEF InChainOrder
<1> QED BY <1>11, <1>12, <1>14, <1>17 DEF Brought

(* The engine that holds the chain D, less the records of blocks off the chain *)
(* C, is on the way to C.                                                       *)
LEMMA SyncBegins ==
  ASSUME cfg \in Configs, NEW c, c \in cfg.hashes \cup {None}, NEW d, d \in cfg.hashes \cup {None},
         NEW C, C = ChainOf(cfg, c), NEW D, D = ChainOf(cfg, d),
         NEW T, NEW B, NEW q, Synced(cfg, T, B, q, D, <<>>), NEW todo, Brought(cfg, C, D, todo),
         NEW U, DOMAIN U = {t \in DOMAIN T : T[t].block \in Range(C)}, \A t \in DOMAIN U : U[t] = T[t],
         NEW E, E = B \cap Range(C), NEW r, r \subseteq DOMAIN U
  PROVE  Synced(cfg, U, E, r, C, todo)
<1>1. /\ Len(C) \in Nat /\ DOMAIN C = 1 .. Len(C) /\ Len(D) \in Nat /\ DOMAIN D = 1 .. Len(D)
  BY ChainIsSeq
<1>2. ASSUME NEW i \in 1 .. Len(C), NEW j \in 1 .. Len(D), C[i] = D[j]
      PROVE  i = j /\ \A l \in 1 .. i : C[l] = D[l]
  BY <1>2, ChainsAgree DEF Agree
<1>3. \A j \in 1 .. Len(D) : D[j] \in B /\ \A t \in Range(cfg.blockTxs[D[j]]) : t \in DOMAIN T
  <2>1. Len(<<>>) = 0 /\ 1 .. 0 = {}
    OBVIOUS
  <2> QED BY <2>1 DEF Synced, Complete
<1>4. \A t \in DOMAIN T : t \notin cfg.invalid /\ FirstWith(cfg, D, t, T[t].block)
  BY DEF Synced
<1>5. Complete(cfg, U, E, C, todo)
  <2> SUFFICES ASSUME NEW i \in 1 .. Len(C)
               PROVE  /\ C[i] \in E \/ \E n \in 1 .. Len(todo) : BlockItem(todo[n], C[i])
                      /\ \A t \in Range(cfg.blockTxs[C[i]]) :
                           t \in DOMAIN U \/ \E n \in 1 .. Len(todo) : TxItem(todo[n], t, C[i])
    BY DEF Complete
  <2>1. CASE C[i] \notin Range(D)
    BY <2>1 DEF Brought, Brings
  <2>2. CASE C[i] \in Range(D)
    <3>1. PICK j \in 1 .. Len(D) : C[i] = D[j]
      BY <1>1, <2>2 DEF Range
    <3>2. i = j /\ \A l \in 1 .. i : C[l] = D[l]
      BY <1>2, <3>1
    <3>3. C[i] \in E
      BY <1>1, <1>3, <3>1 DEF Range
    <3>4. ASSUME NEW t \in Range(cfg.blockTxs[C[i]]) PROVE t \in DOMAIN U
      <4>1. t \in DOMAIN T
        BY <1>3, <3>1
      <4>2. PICK m \in 1 .. Len(D) : /\ D[m] = T[t].block
                                     /\ \A l \in 1 .. Len(D) : t \in Range(cfg.blockTxs[D[l]]) => m <= l
        BY <1>1, <1>4, <4>1 DEF FirstWith
      <4>3. m <= i
        BY <3>1, <3>2, <4>2
      <4>4. m \in 1 .. i /\ m \in 1 .. Len(C)
        BY <1>1, <4>3
      <4>5. C[m] = T[t].block
        BY <3>2, <4>2, <4>4
      <4> QED BY <1>1, <4>1, <4>4, <4>5 DEF Range
    <3> QED BY <3>3, <3>4
  <2> QED BY <2>1, <2>2
<1>6. ASSUME NEW t \in DOMAIN U PROVE t \notin cfg.invalid /\ FirstWith(cfg, C, t, U[t].block)
  <2>1. t \in DOMAIN T /\ U[t] = T[t] /\ T[t].block \in Range(C)
    OBVIOUS
  <2>2. PICK m \in 1 .. Len(D) : /\ D[m] = T[t].block /\ t \in Range(cfg.blockTxs[T[t].block])
                                 /\ \A l \in 1 .. Len(D) : t \in Range(cfg.blockTxs[D[l]]) => m <= l
    BY <1>1, <1>4, <2>1 DEF FirstWith
  <2>3. PICK i \in 1 .. Len(C) : C[i] = D[m]
    BY <1>1, <2>1, <2>2 DEF Range
  <2>4. i = m /\ \A l \in 1 .. i : C[l] = D[l]
    BY <1>2, <2>3
  <2>5. ASSUME NEW j \in 1 .. Len(C), t \in Range(cfg.blockTxs[C[j]])
        PROVE  i <= j
    <3> SUFFICES ASSUME j < i PROVE FALSE
      BY <1>1
    <3>1. j \in 1 .. i /\ j \in 1 .. Len(D)
      BY <1>1, <2>4
    <3>2. m <= j
      BY <2>2, <2>4, <2>5, <3>1
    <3> QED BY <1>1, <2>4, <3>2
  <2>6. FirstWith(cfg, C, t, T[t].block)
    BY <1>1, <2>2, <2>3, <2>5 DEF FirstWith
  <2> QED BY <1>4, <2>1, <2>6
<1>7. InChainOrder(cfg, C, todo)
  BY DEF Brought
<1> QED BY <1>5, <1>6, <1>7 DEF Synced

-----------------------------------------------------------------------------
(* What the operations do to an engine that follows the chain. *)

Chained(k, e, C, todo) == Synced(k, e.tx, DOMAIN e.blocks, Range(e.recent), C, todo)

(* A record that there is room for evicts none. *)
LEMMA NoTrim ==
  ASSUME cfg \in Configs, NEW u, DOMAIN u = Fields, u.txOrder \in Seq(cfg.txids),
         NEW R, u.tx \in [DOMAIN u.tx -> R],
         Cardinality(DOMAIN u.tx) \in Nat, Cardinality(DOMAIN u.tx) <= cfg.maxTransactions,
         NEW r, r = TrimTransactions(u)
  PROVE  DOMAIN r = Fields /\ r.tx = u.tx /\ r.blocks = u.blocks /\ r.recent = u.recent
<1>1. Down(Cardinality(DOMAIN u.tx), MaxTransactions) = 0
  BY ConfigAssumption DEF Down, MaxTransactions
<1>2. r = PopTransactions(u, 0)
  BY <1>1 DEF TrimTransactions
<1>3. PICK K, q, T, D, G : K = cfg.txids /\ q = u.txOrder /\ T = u.tx /\ D = DOMAIN T /\ G = Range(SubSeq(q, 1, 0))
  OBVIOUS
<1>4. q \in Seq(K) /\ T \in [D -> R]
  BY <1>3
<1>5. G = {} /\ Without(T, {}) = T
  BY <1>3, <1>4, NoneLeaves
<1>6. Popped(u, 0, G, r)
  BY <1>2, <1>3, PopFields
<1> QED BY <1>3, <1>5, <1>6 DEF Popped

(* retain_transaction, with room for the record. *)
Stored(e, x, w, r) ==
  /\ DOMAIN r = Fields /\ r.blocks = e.blocks /\ r.recent = w
  /\ r.tx = IF x.txid \in DOMAIN e.tx THEN e.tx ELSE Insert(e.tx, x.txid, x)

LEMMA RetainStores ==
  ASSUME cfg \in Configs, cfg.keepTxs, NEW e, EngBase(cfg, e), NEW x, x \in TxRecord(cfg), NEW b,
         NEW D, D = DOMAIN e.tx \cup {x.txid}, Cardinality(D) \in Nat, Cardinality(D) <= cfg.maxTransactions,
         NEW w, w = LastOf(Append(e.recent, x.txid), DedupeWindow)
  PROVE  Stored(e, x, w, Retain(Observe(e, x.txid), x, b))
<1>0. DOMAIN e = Fields /\ TxInv(cfg, e.tx, e.txOrder) /\ x.txid \in cfg.txids
  BY DEF EngBase, TxRecord
<1>1. PICK o : o = Observe(e, x.txid)
  OBVIOUS
<1>2. /\ DOMAIN o = Fields /\ (\A f \in Fields \ {"recent"} : o[f] = e[f]) /\ o.recent = w
  BY <1>0, <1>1, ObserveFields
<1>3. /\ o.tx = e.tx /\ o.txOrder = e.txOrder /\ o.blocks = e.blocks
  BY <1>2 DEF Fields
<1>4. RetainsTransaction(b)
  BY DEF RetainsTransaction, KeepTxs
<1>5. CASE x.txid \in DOMAIN e.tx
  <2>1. Retain(o, x, b) = o
    BY <1>3, <1>5 DEF Retain, HasTransaction
  <2> QED BY <1>1, <1>2, <1>3, <1>5, <2>1 DEF Stored
<1>6. CASE x.txid \notin DOMAIN e.tx
  <2>1. PICK a : a = [o EXCEPT !.news[x.txid] = "added"]
    OBVIOUS
  <2>2. PICK u : u = [a EXCEPT !.tx = Insert(@, x.txid, x), !.txOrder = Append(@, x.txid)]
    OBVIOUS
  <2>3. DOMAIN a = Fields /\ a.tx = o.tx /\ a.txOrder = o.txOrder /\ a.blocks = o.blocks /\ a.recent = o.recent
    BY <1>2, <2>1 DEF Fields
  <2>4. /\ DOMAIN u = Fields /\ u.tx = Insert(e.tx, x.txid, x) /\ u.txOrder = Append(e.txOrder, x.txid)
        /\ u.blocks = e.blocks /\ u.recent = w
    BY <1>2, <1>3, <2>2, <2>3 DEF Fields
  <2>5. u.txOrder \in Seq(cfg.txids)
    <3>1. e.txOrder \in Seq(cfg.txids)
      BY <1>0 DEF TxInv
    <3> QED BY <1>0, <2>4, <3>1, AppendProperties
  <2>6. DOMAIN u.tx = D /\ u.tx \in [DOMAIN u.tx -> TxRecord(cfg)]
    <3>1. PICK T, U, R : T = e.tx /\ U = u.tx /\ R = TxRecord(cfg)
      OBVIOUS
    <3>2. T \in [DOMAIN T -> R] /\ x \in R /\ U = Insert(T, x.txid, x)
      BY <1>0, <2>4, <3>1 DEF TxInv
    <3>3. DOMAIN U = DOMAIN T \cup {x.txid} /\ U \in [DOMAIN U -> R]
      BY <3>2 DEF Insert
    <3> QED BY <3>1, <3>3
  <2>7. PICK z : z = TrimTransactions(u)
    OBVIOUS
  <2>8. DOMAIN z = Fields /\ z.tx = u.tx /\ z.blocks = u.blocks /\ z.recent = u.recent
    BY <2>4, <2>5, <2>6, <2>7, NoTrim
  <2>9. InsertTransaction(a, x) = z
    BY <1>3, <1>6, <2>2, <2>3, <2>7 DEF InsertTransaction, HasTransaction
  <2>10. ~HasTransaction(o, x)
    BY <1>3, <1>6 DEF HasTransaction
  <2>11. \E c : Retain(o, x, b) = [z EXCEPT !.count = c]
    BY <1>4, <2>1, <2>9, <2>10 DEF Retain
  <2>12. PICK c, r : r = [z EXCEPT !.count = c] /\ r = Retain(o, x, b)
    BY <2>11
  <2>13. DOMAIN r = Fields /\ r.tx = z.tx /\ r.blocks = z.blocks /\ r.recent = z.recent
    BY <2>8, <2>12 DEF Fields
  <2> QED BY <1>1, <1>6, <2>4, <2>8, <2>12, <2>13 DEF Stored
<1> QED BY <1>5, <1>6

LEMMA ObserveRange ==
  ASSUME cfg \in Configs, NEW q, q \in Seq(cfg.txids), NEW y, y \in cfg.txids,
         NEW w, w = LastOf(Append(q, y), DedupeWindow)
  PROVE  Range(w) \subseteq Range(q) \cup {y}
<1>1. PICK S, d, p : S = cfg.txids /\ d = cfg.dedupeWindow /\ p = Append(q, y)
  OBVIOUS
<1>2. d \in Nat /\ q \in Seq(S) /\ y \in S
  BY <1>1, ConfigAssumption
<1>3. p \in Seq(S)
  BY <1>1, <1>2, AppendProperties
<1>4. PICK n \in 0 .. Len(p) : LastOf(p, d) = After(p, n) /\ Len(p) - n <= d
  BY <1>2, <1>3, LastOfIsAfter
<1>5. w = After(p, n)
  BY <1>1, <1>4 DEF DedupeWindow
<1>6. DOMAIN w = 1 .. Len(w) /\ \A i \in 1 .. Len(w) : w[i] = p[i + n] /\ i + n \in 1 .. Len(p)
  BY <1>3, <1>5, AfterFacts
<1>7. Range(p) = Range(q) \cup {y}
  BY <1>1, <1>2, AppendRange
<1>8. DOMAIN p = 1 .. Len(p)
  BY <1>3, LenProperties
<1> QED BY <1>6, <1>7, <1>8 DEF Range

(* ingest_transaction *)
LEMMA IngestChained ==
  ASSUME cfg \in Configs, OnlyFollowsChain, NEW h \in cfg.hashes, NEW C, C = ChainOf(cfg, h),
         NEW e, NEW v, NEW t, Good(cfg, e, v, t), NEW S, NEW todo \in Seq(S), todo # <<>>,
         Chained(cfg, e, C, todo), NEW x, x = Head(todo).rec, Head(todo).kind = "tx",
         x \in TxRecord(cfg), x.txid \notin cfg.invalid, NEW s
  PROVE  Chained(cfg, IngestTransaction(e, x, s), C, Tail(todo))
<1>0. /\ cfg.keepTxs /\ Ttl = 0 /\ EngBase(cfg, e) /\ DOMAIN e = Fields
      /\ e.recent \in Seq(cfg.txids) /\ x.txid \in cfg.txids
  BY DEF OnlyFollowsChain, KeepTxs, Good, Base, EngBase, TxRecord
<1>1. Len(C) \in Nat /\ DOMAIN C = 1 .. Len(C)
  BY ChainIsSeq
<1>2. PICK r : r = IngestTransaction(e, x, s)
  OBVIOUS
<1>3. PICK T, B, q : T = e.tx /\ B = DOMAIN e.blocks /\ q = Range(e.recent)
  OBVIOUS
<1>4. Synced(cfg, T, B, q, C, todo) /\ q \subseteq DOMAIN T
  BY <1>3 DEF Chained, Synced
<1>5. PICK U : U = IF x.txid \in DOMAIN T THEN T ELSE Insert(T, x.txid, x)
  OBVIOUS
<1>6. PICK D : D = DOMAIN T \cup {x.txid}
  OBVIOUS
<1>7. DOMAIN U = D
  BY <1>5, <1>6 DEF Insert
<1>8. ASSUME NEW g, g \subseteq DOMAIN U PROVE Synced(cfg, U, B, g, C, Tail(todo))
  BY <1>1, <1>4, <1>5, <1>8, SyncTx
<1>9. Cardinality(D) \in Nat /\ Cardinality(D) <= cfg.maxTransactions
  <2>1. Synced(cfg, U, B, {}, C, Tail(todo))
    BY <1>8
  <2>2. \A y \in DOMAIN U : y \notin cfg.invalid /\ FirstWith(cfg, C, y, U[y].block)
    BY <2>1 DEF Synced
  <2>3. \A y \in DOMAIN U : y \in TxsOf(cfg, C)
    BY <2>2 DEF FirstWith, TxsOf, Range
  <2>4. D \subseteq TxsOf(cfg, C) \ cfg.invalid
    BY <1>7, <2>2, <2>3
  <2> QED BY <2>4, RoomForTxs
<1>10. PurgeExpired(e, x.at) = e
  BY <1>0 DEF PurgeExpired
<1>11. r.tx = U /\ DOMAIN r.blocks = B /\ Range(r.recent) \subseteq DOMAIN U
  <2>1. CASE x.txid \in Range(e.recent)
    <3>1. r = e
      BY <1>2, <1>10, <2>1 DEF IngestTransaction
    <3> QED BY <1>3, <1>4, <1>5, <2>1, <3>1
  <2>2. CASE x.txid \notin Range(e.recent)
    <3>1. PICK w : w = LastOf(Append(e.recent, x.txid), DedupeWindow)
      OBVIOUS
    <3>2. PICK m : m = Retain(Observe(e, x.txid), x, s # <<>>)
      OBVIOUS
    <3>3. Stored(e, x, w, m)
      BY <1>0, <1>3, <1>6, <1>9, <3>1, <3>2, RetainStores
    <3>4. r = Publish(m, x, s)
      BY <1>2, <1>10, <2>2, <3>2 DEF IngestTransaction
    <3>5. DOMAIN m = Fields
      BY <3>3 DEF Stored
    <3>6. \A f \in Fields \ {"announced", "matches", "count"} : r[f] = m[f]
      <4>1. PICK new : new = [i \in DOMAIN s |-> [matcher |-> s[i], txid |-> x.txid, at |-> x.at]]
        OBVIOUS
      <4> QED BY <3>4, <3>5, <4>1, PublishFields
    <3>7. r.tx = m.tx /\ r.blocks = m.blocks /\ r.recent = m.recent
      BY <3>6 DEF Fields
    <3>8. r.tx = U /\ r.blocks = e.blocks /\ r.recent = w
      BY <1>3, <1>5, <3>3, <3>7 DEF Stored
    <3>9. Range(w) \subseteq Range(e.recent) \cup {x.txid}
      BY <1>0, <3>1, ObserveRange
    <3> QED BY <1>3, <1>4, <1>6, <1>7, <3>8, <3>9
  <2> QED BY <2>1, <2>2
<1>12. Synced(cfg, U, B, Range(r.recent), C, Tail(todo))
  BY <1>8, <1>11
<1> QED BY <1>2, <1>11, <1>12 DEF Chained

(* ingest_block *)
LEMMA BlockChained ==
  ASSUME cfg \in Configs, OnlyFollowsChain, NEW h \in cfg.hashes, NEW C, C = ChainOf(cfg, h),
         NEW e, NEW v, NEW t, Good(cfg, e, v, t), NEW S, NEW todo \in Seq(S), todo # <<>>,
         Chained(cfg, e, C, todo), NEW b, b = Head(todo).rec, Head(todo).kind = "block",
         b \in BlockRecord(cfg)
  PROVE  Chained(cfg, IngestBlock(e, b), C, Tail(todo))
<1>0. KeepBlocks /\ Ttl = 0 /\ EngBase(cfg, e) /\ DOMAIN e = Fields /\ BlockInv(cfg, e.blocks, e.blockOrder)
  BY DEF OnlyFollowsChain, Good, Base, EngBase
<1>1. Len(C) \in Nat /\ DOMAIN C = 1 .. Len(C)
  BY ChainIsSeq
<1>2. PICK T, B, q, D : T = e.tx /\ B = DOMAIN e.blocks /\ q = Range(e.recent) /\ D = B \cup {b.hash}
  OBVIOUS
<1>3. Synced(cfg, T, B, q, C, todo)
  BY <1>2 DEF Chained
<1>4. Synced(cfg, T, D, q, C, Tail(todo))
  BY <1>1, <1>2, <1>3, SyncBlock
<1>5. Cardinality(D) \in Nat /\ Cardinality(D) <= cfg.maxBlocks
  <2>1. D \subseteq Range(C)
    BY <1>4 DEF Synced
  <2> QED BY <2>1, RoomForBlocks
<1>6. PICK u : u = [e EXCEPT !.last = b.at]
  OBVIOUS
<1>7. /\ DOMAIN u = Fields /\ u.blocks = e.blocks /\ u.blockOrder = e.blockOrder /\ u.tx = e.tx
      /\ u.recent = e.recent
  BY <1>0, <1>6 DEF Fields
<1>8. PurgeExpired(e, b.at) = e
  BY <1>0 DEF PurgeExpired
<1>9. PICK r : r = IngestBlock(e, b)
  OBVIOUS
<1>10. r.tx = T /\ DOMAIN r.blocks = D /\ r.recent = e.recent
  <2>1. CASE b.hash \in DOMAIN u.blocks
    <3>1. r = u
      BY <1>6, <1>8, <1>9, <2>1 DEF IngestBlock
    <3> QED BY <1>2, <1>7, <2>1, <3>1
  <2>2. CASE b.hash \notin DOMAIN u.blocks
    <3>1. PICK X, p : X = Insert(u.blocks, b.hash, b) /\ p = Append(u.blockOrder, b.hash)
      OBVIOUS
    <3>2. PICK n, z : n = Down(Cardinality(DOMAIN X), MaxBlocks) /\ z = InsertBlock(u, b)
      OBVIOUS
    <3>3. BlockIn(u, X, p, n, z)
      BY <1>7, <2>2, <3>1, <3>2, InsertBlockFields
    <3>4. DOMAIN X = D /\ X \in [D -> BlockRecord(cfg)]
      <4>1. PICK Y, R : Y = e.blocks /\ R = BlockRecord(cfg)
        OBVIOUS
      <4>2. Y \in [DOMAIN Y -> R] /\ b \in R /\ X = Insert(Y, b.hash, b) /\ B = DOMAIN Y
        BY <1>0, <1>2, <1>7, <3>1, <4>1 DEF BlockInv
      <4>3. DOMAIN X = DOMAIN Y \cup {b.hash} /\ X \in [DOMAIN X -> R]
        BY <4>2 DEF Insert
      <4> QED BY <1>2, <4>1, <4>2, <4>3
    <3>5. n = 0
      BY <1>5, <3>2, <3>4, ConfigAssumption DEF Down, MaxBlocks
    <3>6. p \in Seq(cfg.hashes)
      <4>1. e.blockOrder \in Seq(cfg.hashes) /\ b.hash \in cfg.hashes
        BY <1>0 DEF BlockInv, BlockRecord
      <4> QED BY <1>7, <3>1, <4>1, AppendProperties
    <3>7. Range(SubSeq(p, 1, 0)) = {} /\ Without(X, {}) = X
      BY <3>4, <3>6, NoneLeaves
    <3>8. DOMAIN z = Fields /\ z.blocks = X /\ z.tx = u.tx /\ z.recent = u.recent
      BY <3>3, <3>5, <3>7 DEF BlockIn, Fields
    <3>9. \E c : r = [z EXCEPT !.count = c]
      BY <1>0, <1>6, <1>8, <1>9, <2>2, <3>2 DEF IngestBlock
    <3>10. PICK c : r = [z EXCEPT !.count = c]
      BY <3>9
    <3>11. r.tx = z.tx /\ r.blocks = z.blocks /\ r.recent = z.recent
      BY <3>8, <3>10 DEF Fields
    <3> QED BY <1>2, <1>7, <3>4, <3>8, <3>11
  <2> QED BY <2>1, <2>2
<1> QED BY <1>2, <1>4, <1>9, <1>10 DEF Chained

(* A reorganisation keeps what both chains have. *)
LEMMA ReorgChained ==
  ASSUME cfg \in Configs, NEW c, c \in cfg.hashes \cup {None}, NEW d, d \in cfg.hashes \cup {None},
         NEW C, C = ChainOf(cfg, c), NEW D, D = ChainOf(cfg, d),
         NEW e, NEW v, NEW t, Good(cfg, e, v, t), Chained(cfg, e, D, <<>>),
         NEW todo, Brought(cfg, C, D, todo), NEW R, R = Range(D) \ Range(C)
  PROVE  Chained(cfg, RebuildRecentTxids(RemoveChainBlocks(e, R)), C, todo)
<1>0. DOMAIN e = Fields /\ TxInv(cfg, e.tx, e.txOrder)
  BY DEF Good, Base, EngBase
<1>1. PICK G, r : G = {x \in DOMAIN e.tx : e.tx[x].block \in R} /\ r = RebuildRecentTxids(RemoveChainBlocks(e, R))
  OBVIOUS
<1>2. Reorged(e, R, G, r)
  BY <1>0, <1>1, ReorgFields
<1>3. PICK T, B, q, U, E : /\ T = e.tx /\ B = DOMAIN e.blocks /\ q = Range(e.recent)
                           /\ U = r.tx /\ E = DOMAIN r.blocks
  OBVIOUS
<1>4. Synced(cfg, T, B, q, D, <<>>) /\ B \subseteq Range(D)
  BY <1>3 DEF Chained, Synced
<1>5. U = Without(T, G) /\ E = B \ R
  BY <1>2, <1>3 DEF Reorged, Without
<1>6. \A x \in DOMAIN T : T[x].block \in Range(D)
  BY <1>4 DEF Synced, FirstWith, Range
<1>7. DOMAIN U = {x \in DOMAIN T : T[x].block \in Range(C)} /\ \A x \in DOMAIN U : U[x] = T[x]
  <2>1. DOMAIN U = DOMAIN T \ G /\ \A x \in DOMAIN U : U[x] = T[x]
    BY <1>5 DEF Without
  <2> QED BY <1>1, <1>3, <1>6, <2>1
<1>8. E = B \cap Range(C)
  BY <1>4, <1>5
<1>9. Range(r.recent) \subseteq DOMAIN U
  <2>1. PICK S, o, p, n : S = cfg.txids /\ o = e.txOrder /\ p = Remove(o, G) /\ n = cfg.dedupeWindow
    OBVIOUS
  <2>2. n \in Nat /\ o \in Seq(S) /\ Range(o) = DOMAIN T
    BY <1>0, <1>3, <2>1, ConfigAssumption DEF TxInv
  <2>3. p \in Seq(S) /\ Range(p) = DOMAIN T \ G
    BY <2>1, <2>2, RemoveFacts
  <2>4. PICK m \in 0 .. Len(p) : LastOf(p, n) = After(p, m) /\ Len(p) - m <= n
    BY <2>2, <2>3, LastOfIsAfter
  <2>5. r.recent = After(p, m)
    BY <1>2, <2>1, <2>4 DEF Reorged, DedupeWindow
  <2>6. PICK w : w = r.recent
    OBVIOUS
  <2>7. DOMAIN w = 1 .. Len(w) /\ \A i \in 1 .. Len(w) : w[i] = p[i + m] /\ i + m \in 1 .. Len(p)
    BY <2>3, <2>5, <2>6, AfterFacts
  <2>8. DOMAIN p = 1 .. Len(p)
    BY <2>3, LenProperties
  <2>9. Range(w) \subseteq Range(p)
    BY <2>7, <2>8 DEF Range
  <2>10. DOMAIN U = DOMAIN T \ G
    BY <1>5 DEF Without
  <2> QED BY <2>3, <2>6, <2>9, <2>10
<1>10. Synced(cfg, U, E, Range(r.recent), C, todo)
  BY <1>4, <1>7, <1>8, <1>9, SyncBegins
<1> QED BY <1>1, <1>3, <1>10 DEF Chained

(* A chain that extends the checkpoint. *)
LEMMA ApplyChained ==
  ASSUME cfg \in Configs, NEW c, c \in cfg.hashes \cup {None}, NEW d, d \in cfg.hashes \cup {None},
         NEW C, C = ChainOf(cfg, c), NEW D, D = ChainOf(cfg, d),
         NEW e, Chained(cfg, e, D, <<>>), NEW todo, Brought(cfg, C, D, todo), Range(D) \subseteq Range(C)
  PROVE  Chained(cfg, e, C, todo)
<1>1. PICK T, B, q : T = e.tx /\ B = DOMAIN e.blocks /\ q = Range(e.recent)
  OBVIOUS
<1>2. Synced(cfg, T, B, q, D, <<>>) /\ B \subseteq Range(D) /\ q \subseteq DOMAIN T
  BY <1>1 DEF Chained, Synced
<1>3. \A x \in DOMAIN T : T[x].block \in Range(D)
  BY <1>2 DEF Synced, FirstWith, Range
<1>4. DOMAIN T = {x \in DOMAIN T : T[x].block \in Range(C)} /\ B = B \cap Range(C)
  BY <1>2, <1>3
<1>5. Synced(cfg, T, B, q, C, todo)
  BY <1>2, <1>4, SyncBegins
<1> QED BY <1>1, <1>5 DEF Chained

(* Saving and restoring an engine that holds its chain. *)
LEMMA SavedHolds ==
  ASSUME cfg \in Configs, NEW e, NEW v, NEW t, Good(cfg, e, v, t),
         Chained(cfg, e, ChainOf(cfg, e.cp), <<>>)
  PROVE  HoldsChain(cfg, Persisted(e))
<1>0. TxInv(cfg, e.tx, e.txOrder) /\ BlockInv(cfg, e.blocks, e.blockOrder) /\ e.cp \in cfg.hashes \cup {None}
  BY DEF Good, Base, EngBase
<1>1. PICK T, q, B, o, p, C : /\ T = e.tx /\ q = e.txOrder /\ B = e.blocks /\ o = e.blockOrder
                              /\ p = Persisted(e) /\ C = ChainOf(cfg, e.cp)
  OBVIOUS
<1>2. p.txs = [i \in DOMAIN q |-> T[q[i]]] /\ p.blocks = [i \in DOMAIN o |-> B[o[i]]] /\ p.cp = e.cp
  BY <1>1 DEF Persisted
<1>3. Range(q) = DOMAIN T /\ \A x \in DOMAIN T : T[x].txid = x
  BY <1>0, <1>1 DEF TxInv
<1>4. Range(o) = DOMAIN B /\ \A x \in DOMAIN B : B[x].hash = x
  BY <1>0, <1>1 DEF BlockInv
<1>5. PICK s, z : s = p.txs /\ z = p.blocks
  OBVIOUS
<1>6. DOMAIN s = DOMAIN q /\ \A i \in DOMAIN q : q[i] \in DOMAIN T /\ s[i] = T[q[i]] /\ s[i].txid = q[i]
  BY <1>2, <1>3, <1>5 DEF Range
<1>7. DOMAIN z = DOMAIN o /\ \A i \in DOMAIN o : o[i] \in DOMAIN B /\ z[i].hash = o[i]
  BY <1>2, <1>4, <1>5 DEF Range
<1>8. {s[i].txid : i \in DOMAIN s} = DOMAIN T
  <2>1. \A i \in DOMAIN s : s[i].txid \in DOMAIN T
    BY <1>6
  <2>2. \A x \in DOMAIN T : \E i \in DOMAIN s : s[i].txid = x
    BY <1>3, <1>6 DEF Range
  <2> QED BY ONLY <2>1, <2>2, Zenon
<1>9. {z[i].hash : i \in DOMAIN z} = DOMAIN B
  <2>1. \A i \in DOMAIN z : z[i].hash \in DOMAIN B
    BY <1>7
  <2>2. \A x \in DOMAIN B : \E i \in DOMAIN z : z[i].hash = x
    BY <1>4, <1>7 DEF Range
  <2> QED BY ONLY <2>1, <2>2, Zenon
<1>10. DOMAIN C = 1 .. Len(C)
  BY <1>0, <1>1, ChainIsSeq
<1>11. /\ DOMAIN B \subseteq Range(C) /\ (\A x \in DOMAIN T : FirstWith(cfg, C, x, T[x].block))
       /\ \A i \in 1 .. Len(C) : C[i] \in DOMAIN B /\ Range(cfg.blockTxs[C[i]]) \subseteq DOMAIN T
  <2>1. Len(<<>>) = 0 /\ 1 .. 0 = {}
    OBVIOUS
  <2> QED BY <1>1, <2>1 DEF Chained, Synced, Complete
<1>12. Range(C) = DOMAIN B /\ \A b \in Range(C) : Range(cfg.blockTxs[b]) \subseteq DOMAIN T
  BY <1>10, <1>11 DEF Range
<1>13. \A i \in DOMAIN s : FirstWith(cfg, C, s[i].txid, s[i].block)
  BY <1>6, <1>11
<1>14. p.txs = s /\ p.blocks = z /\ ChainOf(cfg, p.cp) = C
  BY <1>1, <1>2, <1>5
<1>15. HoldsChain(cfg, p)
  <2>1. {p.blocks[i].hash : i \in DOMAIN p.blocks} = Range(C)
    BY ONLY <1>9, <1>12, <1>14
  <2>2. {p.txs[i].txid : i \in DOMAIN p.txs} = DOMAIN T
    BY ONLY <1>8, <1>14
  <2>3. \A i \in DOMAIN p.txs : FirstWith(cfg, C, p.txs[i].txid, p.txs[i].block)
    BY ONLY <1>13, <1>14
  <2> QED BY ONLY <1>12, <1>14, <2>1, <2>2, <2>3, Zenon DEF HoldsChain
<1> QED BY <1>1, <1>15

(* An engine that holds the chain to its checkpoint. *)
AtCheckpoint(k, e) == Chained(k, e, ChainOf(k, e.cp), <<>>)

(* validate_snapshot accepts p. *)
ValidIn(k, p) == \A i \in DOMAIN p.txs : p.txs[i].txid \notin k.invalid

HoldsIfValid(k, p) == ValidIn(k, p) => HoldsChain(k, p)

LEMMA LastRange ==
  ASSUME NEW S, NEW o \in Seq(S), NEW n \in Nat
  PROVE  Range(LastOf(o, n)) \subseteq Range(o)
<1>1. PICK m \in 0 .. Len(o) : LastOf(o, n) = After(o, m) /\ Len(o) - m <= n
  BY LastOfIsAfter
<1>2. PICK w : w = After(o, m)
  OBVIOUS
<1>3. DOMAIN w = 1 .. Len(w) /\ \A i \in 1 .. Len(w) : w[i] = o[i + m] /\ i + m \in 1 .. Len(o)
  BY <1>2, AfterFacts
<1>4. DOMAIN o = 1 .. Len(o)
  BY LenProperties
<1> QED BY <1>1, <1>2, <1>3, <1>4 DEF Range

LEMMA RestoredChained ==
  ASSUME cfg \in Configs, NEW p, HoldsChain(cfg, p), ValidIn(cfg, p),
         NEW r, NEW v, NEW t, Good(cfg, r, v, t), SameRecords(p, r), r.cp = p.cp,
         Range(r.recent) \subseteq DOMAIN r.tx
  PROVE  AtCheckpoint(cfg, r)
<1>0. TxInv(cfg, r.tx, r.txOrder) /\ BlockInv(cfg, r.blocks, r.blockOrder) /\ r.cp \in cfg.hashes \cup {None}
  BY DEF Good, Base, EngBase
<1>1. PICK T, q, B, o, C : /\ T = r.tx /\ q = r.txOrder /\ B = r.blocks /\ o = r.blockOrder
                           /\ C = ChainOf(cfg, r.cp)
  OBVIOUS
<1>2. p.txs = [i \in DOMAIN q |-> T[q[i]]] /\ p.blocks = [i \in DOMAIN o |-> B[o[i]]]
  BY <1>1 DEF Persisted, SameRecords
<1>3. Range(q) = DOMAIN T /\ \A x \in DOMAIN T : T[x].txid = x
  BY <1>0, <1>1 DEF TxInv
<1>4. Range(o) = DOMAIN B /\ \A x \in DOMAIN B : B[x].hash = x
  BY <1>0, <1>1 DEF BlockInv
<1>5. PICK s, z : s = p.txs /\ z = p.blocks
  OBVIOUS
<1>6. DOMAIN s = DOMAIN q /\ \A i \in DOMAIN q : q[i] \in DOMAIN T /\ s[i] = T[q[i]] /\ s[i].txid = q[i]
  BY <1>2, <1>3, <1>5 DEF Range
<1>7. DOMAIN z = DOMAIN o /\ \A i \in DOMAIN o : o[i] \in DOMAIN B /\ z[i].hash = o[i]
  BY <1>2, <1>4, <1>5 DEF Range
<1>8. /\ {z[i].hash : i \in DOMAIN z} = Range(C)
      /\ \A b \in Range(C) : Range(cfg.blockTxs[b]) \subseteq {s[i].txid : i \in DOMAIN s}
      /\ \A i \in DOMAIN s : FirstWith(cfg, C, s[i].txid, s[i].block)
  <2>1. ChainOf(cfg, p.cp) = C
    BY <1>1
  <2> QED BY ONLY HoldsChain(cfg, p), <1>5, <2>1, Zenon DEF HoldsChain
<1>9. DOMAIN B = Range(C)
  <2>1. \A i \in DOMAIN z : z[i].hash \in DOMAIN B
    BY <1>7
  <2>2. \A x \in DOMAIN B : \E i \in DOMAIN z : z[i].hash = x
    BY <1>4, <1>7 DEF Range
  <2>3. {z[i].hash : i \in DOMAIN z} = DOMAIN B
    BY ONLY <2>1, <2>2, Zenon
  <2> QED BY <1>8, <2>3
<1>10. \A b \in Range(C) : Range(cfg.blockTxs[b]) \subseteq DOMAIN T
  <2>1. \A i \in DOMAIN s : s[i].txid \in DOMAIN T
    BY <1>6
  <2>2. {s[i].txid : i \in DOMAIN s} \subseteq DOMAIN T
    BY ONLY <2>1, Zenon
  <2> QED BY <1>8, <2>2
<1>11. \A x \in DOMAIN T : x \notin cfg.invalid /\ FirstWith(cfg, C, x, T[x].block)
  <2> SUFFICES ASSUME NEW x \in DOMAIN T
               PROVE  x \notin cfg.invalid /\ FirstWith(cfg, C, x, T[x].block)
    OBVIOUS
  <2>1. PICK i \in DOMAIN q : q[i] = x
    BY <1>3 DEF Range
  <2>2. i \in DOMAIN s /\ s[i] = T[x] /\ s[i].txid = x
    BY <1>6, <2>1
  <2>3. s[i].txid \notin cfg.invalid
    BY <1>5, <2>2 DEF ValidIn
  <2>4. FirstWith(cfg, C, s[i].txid, s[i].block)
    BY <1>8, <2>2
  <2> QED BY <2>2, <2>3, <2>4
<1>12. DOMAIN C = 1 .. Len(C)
  BY <1>0, <1>1, ChainIsSeq
<1>13. Len(<<>>) = 0 /\ 1 .. 0 = {}
  OBVIOUS
<1>14. Complete(cfg, T, DOMAIN B, C, <<>>)
  BY <1>9, <1>10, <1>12 DEF Complete, Range
<1>15. InChainOrder(cfg, C, <<>>)
  BY <1>13 DEF InChainOrder
<1>16. Synced(cfg, T, DOMAIN B, Range(r.recent), C, <<>>)
  BY <1>1, <1>9, <1>11, <1>14, <1>15 DEF Synced
<1> QED BY <1>1, <1>16 DEF AtCheckpoint, Chained

LEMMA EmptyChained ==
  ASSUME NEW k, NEW e, e.tx = EmptyMap, e.blocks = EmptyMap, e.recent = <<>>, e.cp = None
  PROVE  AtCheckpoint(k, e)
<1>1. DOMAIN EmptyMap = {} /\ Len(<<>>) = 0 /\ Range(<<>>) = {} /\ 1 .. 0 = {}
  BY DEF EmptyMap, Range
<1>2. Synced(k, EmptyMap, {}, {}, <<>>, <<>>)
  BY <1>1 DEF Synced, Complete, InChainOrder
<1> QED BY <1>1, <1>2 DEF AtCheckpoint, Chained, ChainOf

LEMMA SameChained ==
  ASSUME NEW k, NEW e, NEW r, r.tx = e.tx, r.blocks = e.blocks, r.recent = e.recent, r.cp = e.cp,
         AtCheckpoint(k, e)
  PROVE  AtCheckpoint(k, r)
  BY DEF AtCheckpoint, Chained

-----------------------------------------------------------------------------
(* The invariant of an application that only follows the chain: the engine      *)
(* holds the chain to its checkpoint, the clone of a synchronisation holds as   *)
(* much of the chain to its target as its items do not bring, and every state   *)
(* in the storage is that of the chain to its checkpoint.                       *)

ChainedJob(k, j, p) ==
  j # None =>
  /\ j.kind \in {"sync", "restore"}
  /\ j.kind = "sync" => j.cp \in k.hashes /\ Chained(k, j.staged, ChainOf(k, j.cp), j.todo)
  /\ j.kind = "restore" => p # None /\ ValidIn(k, p) /\ j.cp = p.cp

ChainedStorage(k, d, S, p) ==
  /\ d # None => HoldsIfValid(k, d)
  /\ \A s \in S : HoldsIfValid(k, s)
  /\ p # None => HoldsIfValid(k, p)

ChainNow ==
  /\ AtCheckpoint(cfg, eng)
  /\ ChainedJob(cfg, job, loaded)
  /\ ChainedStorage(cfg, disk, saves, loaded)

ChainInv == OnlyFollowsChain => ChainNow

LEMMA UsesOnly ==
  ASSUME OnlyFollowsChain
  PROVE  /\ "direct" \notin Uses /\ "batch" \notin Uses /\ "checkpoint" \notin Uses
         /\ "snapshot" \notin Uses /\ Ttl = 0
  BY DEF OnlyFollowsChain

LEMMA ValidMeans == ASSUME NEW p PROVE Restorable(p) <=> ValidIn(cfg, p)
  BY DEF Restorable, ValidIn, Invalid

LEMMA InitChain ==
  ASSUME Init, OnlyFollowsChain
  PROVE  ChainNow
<1>1. /\ eng = New /\ job = None /\ saves = {} /\ loaded = None
      /\ disk # None => disk \in InitDisks
  BY DEF Init
<1>2. AtCheckpoint(cfg, eng)
  <2>1. PICK e : e = New
    OBVIOUS
  <2>2. e.tx = EmptyMap /\ e.blocks = EmptyMap /\ e.recent = <<>> /\ e.cp = None
    BY <2>1 DEF New
  <2> QED BY <1>1, <2>1, <2>2, EmptyChained
<1>3. disk # None => HoldsIfValid(cfg, disk)
  <2>1. \A p \in InitDisks : Restorable(p) => HoldsChain(cfg, p)
    BY DEF OnlyFollowsChain
  <2> QED BY <1>1, <2>1, ValidMeans DEF HoldsIfValid
<1> QED BY <1>1, <1>2, <1>3 DEF ChainNow, ChainedJob, ChainedStorage

(* An operation on the engine behind the lock. *)
LEMMA SetChain ==
  ASSUME ChainNow, UNCHANGED cfg, NEW e, Set(e), AtCheckpoint(cfg, e)
  PROVE  ChainNow'
<1>1. /\ cfg' = cfg /\ eng' = e /\ job' = job /\ disk' = disk /\ saves' = saves /\ loaded' = loaded
  BY DEF Set
<1> QED BY <1>1 DEF ChainNow

(* An operation that changes neither records nor the window nor the checkpoint. *)
SameChain(e, r) == r.tx = e.tx /\ r.blocks = e.blocks /\ r.recent = e.recent /\ r.cp = e.cp

LEMMA AdminChain ==
  ASSUME IndexInv, OnlyFollowsChain, ChainNow, UNCHANGED cfg,
         \/ Start \/ Stop \/ Query
         \/ (\E r \in Rules : AddMatcher(r)) \/ (\E i \in Ids : RemoveMatcher(i))
  PROVE  ChainNow'
<1>0. DOMAIN eng = Fields
  BY DEF IndexInv, Good, Base, EngBase
<1>1. ASSUME NEW e, Set(e), SameChain(eng, e) PROVE ChainNow'
  <2>1. AtCheckpoint(cfg, e)
    BY <1>1, SameChained DEF ChainNow, SameChain
  <2> QED BY <1>1, <2>1, SetChain
<1>2. CASE Start
  <2>1. PICK e : e = [eng EXCEPT !.running = TRUE, !.last = IF @ = None THEN now ELSE @]
    OBVIOUS
  <2>2. SameChain(eng, e)
    BY <1>0, <2>1 DEF SameChain, Fields
  <2> QED BY <1>1, <1>2, <2>1, <2>2 DEF Start
<1>3. CASE Stop
  <2>1. PICK e : e = [eng EXCEPT !.running = FALSE]
    OBVIOUS
  <2>2. SameChain(eng, e)
    BY <1>0, <2>1 DEF SameChain, Fields
  <2> QED BY <1>1, <1>3, <2>1, <2>2 DEF Stop
<1>4. CASE Query
  <2>1. Set(PurgeExpired(eng, now)) /\ PurgeExpired(eng, now) = eng
    BY <1>4, UsesOnly DEF Query, PurgeExpired
  <2> QED BY <1>1, <2>1 DEF SameChain
<1>5. ASSUME NEW g \in Rules, AddMatcher(g) PROVE ChainNow'
  <2>1. PICK e : e = [eng EXCEPT !.matchers = Insert(@, eng.nextId, g), !.nextId = @ + 1]
    OBVIOUS
  <2>2. SameChain(eng, e)
    BY <1>0, <2>1 DEF SameChain, Fields
  <2> QED BY <1>1, <1>5, <2>1, <2>2 DEF AddMatcher
<1>6. ASSUME NEW i \in Ids, RemoveMatcher(i) PROVE ChainNow'
  <2>1. PICK e : e = [eng EXCEPT !.matchers = Without(@, {i})]
    OBVIOUS
  <2>2. SameChain(eng, e)
    BY <1>0, <2>1 DEF SameChain, Fields
  <2> QED BY <1>1, <1>6, <2>1, <2>2 DEF RemoveMatcher
<1> QED BY <1>2, <1>3, <1>4, <1>5, <1>6

LEMMA ClearChain ==
  ASSUME ChainNow, UNCHANGED cfg, Clear
  PROVE  ChainNow'
<1>1. PICK e : e = Cleared(eng)
  OBVIOUS
<1>2. e.tx = EmptyMap /\ e.blocks = EmptyMap /\ e.recent = <<>> /\ e.cp = None
  BY <1>1 DEF Cleared, New
<1>3. AtCheckpoint(cfg, e)
  BY <1>2, EmptyChained
<1> QED BY <1>1, <1>3, SetChain DEF Clear

LEMMA DrainChain ==
  ASSUME IndexInv, OnlyFollowsChain, ChainNow, UNCHANGED cfg, DrainEvents
  PROVE  ChainNow'
<1>0. DOMAIN eng = Fields
  BY DEF IndexInv, Good, Base, EngBase
<1>1. PICK e : e = [eng EXCEPT !.news = NoNews, !.announced = {}]
  OBVIOUS
<1>2. /\ cfg' = cfg /\ eng' = e /\ job' = job /\ disk' = disk /\ saves' = saves /\ loaded' = loaded
  BY <1>1, UsesOnly DEF DrainEvents, PurgeExpired
<1>3. SameChain(eng, e)
  BY <1>0, <1>1 DEF SameChain, Fields
<1>4. AtCheckpoint(cfg, e)
  BY <1>3, SameChained DEF ChainNow, SameChain
<1> QED BY <1>2, <1>4 DEF ChainNow

LEMMA HoldChain ==
  ASSUME ChainNow, UNCHANGED <<cfg, loaded>>, NEW j, Hold(j), ChainedJob(cfg, j, loaded)
  PROVE  ChainNow'
<1>1. /\ cfg' = cfg /\ eng' = eng /\ job' = j /\ disk' = disk /\ saves' = saves /\ loaded' = loaded
  BY DEF Hold
<1> QED BY <1>1 DEF ChainNow

(* A synchronisation to block h works on the engine or on what the reorganised *)
(* chain leaves of it.                                                         *)
LEMMA SyncChain ==
  ASSUME IndexInv, OnlyFollowsChain, ChainNow, UNCHANGED cfg, NEW h \in Hashes, NEW a \in Stamps,
         ApplySyncBatches(h, a) \/ ReconcileVirtualChain(h, a)
  PROVE  ChainNow'
<1>0. /\ cfg \in Configs /\ h \in cfg.hashes /\ a \in 0 .. cfg.maxTime
      /\ Good(cfg, eng, view, now) /\ eng.cp \in cfg.hashes \cup {None}
  BY DEF IndexInv, Hashes, Stamps, Times, MaxTime, Good, Base, EngBase
<1>1. PICK C, D, w : C = ChainOf(cfg, h) /\ D = ChainOf(cfg, eng.cp) /\ w = ChainItems(h, a)
  OBVIOUS
<1>2. Brought(cfg, C, D, w) /\ Chained(cfg, eng, D, <<>>)
  <2>1. Brought(cfg, C, D, w)
    BY <1>0, <1>1, ChainBrings
  <2> QED BY <1>1, <2>1 DEF ChainNow, AtCheckpoint
<1>3. Range(C) = OnChain(h) /\ Range(D) = OnChain(eng.cp)
  <2>1. Range(<<>>) = {}
    BY DEF Range
  <2> QED BY <1>1, <2>1 DEF ChainOf, OnChain, ChainTo
<1>4. ASSUME NEW e, Chained(cfg, e, C, w), loaded' = loaded,
             Hold([kind |-> "sync", staged |-> e, todo |-> w, cp |-> h])
      PROVE  ChainNow'
  <2>1. PICK j : j = [kind |-> "sync", staged |-> e, todo |-> w, cp |-> h]
    OBVIOUS
  <2>2. j.kind = "sync" /\ j.staged = e /\ j.todo = w /\ j.cp = h
    BY ONLY <2>1
  <2>3. ChainedJob(cfg, j, loaded)
    BY <1>0, <1>1, <1>4, <2>2 DEF ChainedJob
  <2> QED BY <1>4, <2>1, <2>3, HoldChain
<1>5. CASE ApplySyncBatches(h, a)
  <2>1. /\ Range(D) \subseteq Range(C) /\ loaded' = loaded
        /\ Hold([kind |-> "sync", staged |-> eng, todo |-> w, cp |-> h])
    BY <1>1, <1>3, <1>5 DEF ApplySyncBatches
  <2>2. Chained(cfg, eng, C, w)
    BY <1>0, <1>1, <1>2, <2>1, ApplyChained
  <2> QED BY <1>4, <2>1, <2>2
<1>6. CASE ReconcileVirtualChain(h, a)
  <2>1. PICK R, e : R = Range(D) \ Range(C) /\ e = RebuildRecentTxids(RemoveChainBlocks(eng, R))
    OBVIOUS
  <2>2. loaded' = loaded /\ Hold([kind |-> "sync", staged |-> e, todo |-> w, cp |-> h])
    <3>1. [kind |-> "sync", staged |-> e, todo |-> w, cp |-> h]
            = [kind |-> "sync", todo |-> w, cp |-> h, staged |-> e]
      OBVIOUS
    <3>2. Hold([kind |-> "sync", todo |-> w, cp |-> h, staged |-> e]) /\ loaded' = loaded
      BY <1>1, <1>3, <1>6, <2>1 DEF ReconcileVirtualChain
    <3> QED BY <3>1, <3>2
  <2>3. Chained(cfg, e, C, w)
    BY <1>0, <1>1, <1>2, <2>1, ReorgChained
  <2> QED BY <1>4, <2>2, <2>3
<1> QED BY <1>5, <1>6

LEMMA RestoreChain ==
  ASSUME ChainNow, UNCHANGED cfg, RestoreState
  PROVE  ChainNow'
<1>1. PICK e, w, c : e = [EmptyStore(eng) EXCEPT !.matchers = loaded.matchers,
                                                !.nextId = NextMatcherId(loaded.matchers)]
                     /\ w = RestoreItems(loaded) /\ c = loaded.cp
  OBVIOUS
<1>2. PICK j : j = [kind |-> "restore", todo |-> w, cp |-> c, staged |-> e]
  OBVIOUS
<1>3. Hold(j) /\ loaded' = loaded /\ loaded # None /\ Restorable(loaded)
  BY <1>1, <1>2 DEF RestoreState
<1>4. j.kind = "restore" /\ j.cp = c
  BY ONLY <1>2
<1>5. ChainedJob(cfg, j, loaded)
  BY <1>1, <1>3, <1>4, ValidMeans DEF ChainedJob
<1> QED BY <1>3, <1>5, HoldChain

LEMMA IngestNextChain ==
  ASSUME IndexInv, OnlyFollowsChain, ChainNow, UNCHANGED cfg, IngestNext
  PROVE  ChainNow'
<1>1. job # None /\ job.kind # "restore" /\ job.todo # <<>>
  BY DEF IngestNext
<1>2. DOMAIN job = JobFields /\ Ingesting(cfg, job, view, now) /\ cfg \in Configs
  BY <1>1 DEF IndexInv, JobInv, Restoring
<1>3. PICK a \in 0 .. now : Good(cfg, job.staged, view, a) /\ job.todo \in Seq(StagedItems(cfg, a))
  BY <1>2 DEF Ingesting
<1>4. PICK w, it, d, h, C, S : /\ w = job.todo /\ it = Head(w) /\ d = job.staged /\ h = job.cp
                               /\ C = ChainOf(cfg, h) /\ S = StagedItems(cfg, a)
  OBVIOUS
<1>5. it \in S /\ w \in Seq(S) /\ w # <<>>
  BY <1>1, <1>3, <1>4, HeadTailProperties
<1>6. h \in cfg.hashes /\ Chained(cfg, d, C, w) /\ job.kind = "sync"
  BY <1>1, <1>4 DEF ChainNow, ChainedJob
<1>7. ASSUME NEW e, Keep(e), Chained(cfg, e, C, Tail(w)) PROVE ChainNow'
  <2>1. PICK j : j = [job EXCEPT !.staged = e, !.todo = Tail(@)]
    OBVIOUS
  <2>2. j.kind = "sync" /\ j.staged = e /\ j.todo = Tail(w) /\ j.cp = h
    BY <1>2, <1>4, <1>6, <2>1 DEF JobFields
  <2>3. ChainedJob(cfg, j, loaded)
    BY <1>4, <1>6, <1>7, <2>2 DEF ChainedJob
  <2>4. /\ cfg' = cfg /\ eng' = eng /\ job' = j /\ disk' = disk /\ saves' = saves /\ loaded' = loaded
    BY <1>7, <2>1 DEF Keep
  <2> QED BY <2>3, <2>4 DEF ChainNow
<1>8. CASE it.kind = "block" /\ Keep(IngestBlock(d, it.rec))
  <2>1. it.rec \in BlockRecord(cfg)
    BY <1>4, <1>5, <1>8 DEF StagedItems, StagedTx, StagedBlock
  <2>2. PICK b : b = Head(w).rec
    OBVIOUS
  <2>3. b \in BlockRecord(cfg) /\ Head(w).kind = "block" /\ b = it.rec
    BY <1>4, <1>8, <2>1, <2>2
  <2>4. Chained(cfg, IngestBlock(d, b), C, Tail(w))
    BY <1>2, <1>3, <1>4, <1>5, <1>6, <2>2, <2>3, BlockChained
  <2> QED BY <1>7, <1>8, <2>3, <2>4
<1>9. CASE /\ it.kind = "tx" /\ it.rec.txid \notin Invalid
           /\ \E s \in Scans(d, it.rec) : Keep(IngestTransaction(d, it.rec, s))
  <2>1. it.rec \in TxRecord(cfg)
    BY <1>4, <1>5, <1>9 DEF StagedItems, StagedTx, StagedBlock
  <2>2. PICK s \in Scans(d, it.rec) : Keep(IngestTransaction(d, it.rec, s))
    BY <1>9
  <2>3. PICK x : x = Head(w).rec
    OBVIOUS
  <2>4. x \in TxRecord(cfg) /\ x.txid \notin cfg.invalid /\ Head(w).kind = "tx" /\ x = it.rec
    BY <1>4, <1>9, <2>1, <2>3 DEF Invalid
  <2>5. Chained(cfg, IngestTransaction(d, x, s), C, Tail(w))
    BY <1>2, <1>3, <1>4, <1>5, <1>6, <2>3, <2>4, IngestChained
  <2> QED BY <1>7, <2>2, <2>4, <2>5
<1> QED BY <1>4, <1>8, <1>9 DEF IngestNext

LEMMA RestoreNextChain ==
  ASSUME IndexInv, ChainNow, UNCHANGED cfg, RestoreNext
  PROVE  ChainNow'
<1>1. job # None /\ job.kind = "restore"
  BY DEF RestoreNext
<1>2. DOMAIN job = JobFields
  BY <1>1 DEF IndexInv, JobInv
<1>3. PICK e : Keep(e)
  BY DEF RestoreNext
<1>4. PICK j : j = [job EXCEPT !.staged = e, !.todo = Tail(@)]
  OBVIOUS
<1>5. j.kind = "restore" /\ j.cp = job.cp
  BY <1>1, <1>2, <1>4 DEF JobFields
<1>6. ChainedJob(cfg, j, loaded)
  BY <1>1, <1>5 DEF ChainedJob, ChainNow
<1>7. /\ cfg' = cfg /\ eng' = eng /\ job' = j /\ disk' = disk /\ saves' = saves /\ loaded' = loaded
  BY <1>3, <1>4 DEF Keep
<1> QED BY <1>6, <1>7 DEF ChainNow

LEMMA CommitChain ==
  ASSUME IndexInv, ChainNow, UNCHANGED cfg, Commit
  PROVE  ChainNow'
<1>1. /\ job # None /\ job.todo = <<>> /\ job' = None /\ loaded' \in {None, loaded}
      /\ cfg' = cfg /\ disk' = disk /\ saves' = saves /\ cfg \in Configs
  BY DEF Commit, IndexInv
<1>2. ChainedJob(cfg, None, loaded') /\ ChainedStorage(cfg, disk, saves, loaded')
  BY <1>1 DEF ChainNow, ChainedJob, ChainedStorage
<1>3. job.kind \in {"sync", "restore"}
  BY <1>1 DEF ChainNow, ChainedJob
<1>4. PICK d, c, r : d = job.staged /\ c = job.cp /\ r = eng'
  OBVIOUS
<1>5. CASE job.kind = "sync"
  <2>1. Chained(cfg, d, ChainOf(cfg, c), <<>>)
    BY <1>1, <1>4, <1>5 DEF ChainNow, ChainedJob
  <2>2. r = [d EXCEPT !.cp = c]
    BY <1>4, <1>5 DEF Commit
  <2>3. DOMAIN d = Fields
    <3>1. Ingesting(cfg, job, view, now)
      BY <1>1, <1>5 DEF IndexInv, JobInv, Restoring
    <3> QED BY <1>4, <3>1 DEF Ingesting, Good, Base, EngBase
  <2>4. r.tx = d.tx /\ r.blocks = d.blocks /\ r.recent = d.recent /\ r.cp = c
    BY ONLY <2>2, <2>3 DEF Fields
  <2>5. AtCheckpoint(cfg, r)
    BY <2>1, <2>4 DEF AtCheckpoint, Chained
  <2> QED BY <1>1, <1>2, <1>4, <2>5 DEF ChainNow
<1>6. CASE job.kind = "restore"
  <2>1. Good(cfg, r, view, now) /\ SameRecords(loaded, r)
    BY <1>4, <1>6, RestoreCommits
  <2>2. PICK p : p = loaded
    OBVIOUS
  <2>3. ValidIn(cfg, p) /\ c = p.cp /\ HoldsChain(cfg, p)
    BY <1>1, <1>4, <1>6, <2>2 DEF ChainNow, ChainedJob, ChainedStorage, HoldsIfValid
  <2>4. r = [RebuildRuntimeState(d) EXCEPT !.cp = c]
    BY <1>4, <1>6 DEF Commit
  <2>5. DOMAIN d = Fields
    <3>1. Restoring(cfg, job, loaded)
      BY <1>1, <1>6 DEF IndexInv, JobInv, Ingesting
    <3> QED BY <1>4, <3>1 DEF Restoring, RestoredTo, Filled
  <2>6. Rebuilt(d, c, r)
    BY <2>4, <2>5, RebuildFields
  <2>7. r.txOrder = d.txOrder /\ r.recent = LastOf(d.txOrder, DedupeWindow) /\ r.cp = c
    BY <2>6 DEF Rebuilt
  <2>8. r.txOrder \in Seq(cfg.txids) /\ Range(r.txOrder) = DOMAIN r.tx
    BY <2>1 DEF Good, Base, EngBase, TxInv
  <2>9. DedupeWindow \in Nat
    BY <1>1, ConfigAssumption DEF DedupeWindow
  <2>10. Range(r.recent) \subseteq DOMAIN r.tx
    BY <2>7, <2>8, <2>9, LastRange
  <2>11. r.cp = p.cp /\ SameRecords(p, r)
    BY <2>1, <2>2, <2>3, <2>7
  <2>12. AtCheckpoint(cfg, r)
    BY <1>1, <2>1, <2>3, <2>10, <2>11, RestoredChained
  <2> QED BY <1>1, <1>2, <1>4, <2>12 DEF ChainNow
<1> QED BY <1>3, <1>5, <1>6

LEMMA StorageChain ==
  ASSUME IndexInv, OnlyFollowsChain, ChainNow, UNCHANGED cfg, StorageNext
  PROVE  ChainNow'
<1>0. cfg \in Configs /\ cfg' = cfg
  BY DEF IndexInv
<1>1. CASE BeginSave
  <2>1. /\ eng' = eng /\ saves' = saves \cup {Persisted(eng)}
        /\ job' = job /\ disk' = disk /\ loaded' = loaded
    BY <1>1, UsesOnly DEF BeginSave, PurgeExpired
  <2>2. Good(cfg, eng, view, now) /\ Chained(cfg, eng, ChainOf(cfg, eng.cp), <<>>)
    BY DEF IndexInv, ChainNow, AtCheckpoint
  <2>3. HoldsChain(cfg, Persisted(eng))
    BY <1>0, <2>2, SavedHolds
  <2>4. ChainedStorage(cfg, disk, saves', loaded)
    BY <2>1, <2>3 DEF ChainNow, ChainedStorage, HoldsIfValid
  <2> QED BY <1>0, <2>1, <2>4 DEF ChainNow
<1>2. CASE ClearPersisted
  <2>1. disk' = None /\ eng' = eng /\ job' = job /\ saves' = saves /\ loaded' = loaded
    BY <1>2 DEF ClearPersisted
  <2>2. ChainedStorage(cfg, None, saves, loaded)
    BY DEF ChainNow, ChainedStorage
  <2> QED BY <1>0, <2>1, <2>2 DEF ChainNow
<1>3. CASE LoadState
  <2>1. /\ disk # None /\ loaded = None /\ loaded' = disk /\ eng' = eng /\ job' = job /\ disk' = disk
        /\ saves' = saves
    BY <1>3 DEF LoadState
  <2>2. ChainedStorage(cfg, disk, saves, disk) /\ ChainedJob(cfg, job, disk)
    BY <2>1 DEF ChainNow, ChainedStorage, ChainedJob
  <2> QED BY <1>0, <2>1, <2>2 DEF ChainNow
<1>4. CASE Restart
  <2>1. eng' = New /\ job' = None /\ saves' = {} /\ loaded' = None /\ disk' = disk
    BY <1>4 DEF Restart
  <2>2. PICK e : e = New
    OBVIOUS
  <2>3. e.tx = EmptyMap /\ e.blocks = EmptyMap /\ e.recent = <<>> /\ e.cp = None
    BY <2>2 DEF New
  <2>4. AtCheckpoint(cfg, e)
    BY <2>3, EmptyChained
  <2>5. ChainedStorage(cfg, disk, {}, None) /\ ChainedJob(cfg, None, None) /\ AtCheckpoint(cfg, New)
    BY <2>2, <2>4 DEF ChainNow, ChainedStorage, ChainedJob
  <2>6. New' = New
    BY <1>0 DEF New, NoNews, NoCounts, EmptyMap, Txids
  <2> QED BY <1>0, <2>1, <2>5, <2>6 DEF ChainNow
<1>5. CASE \E p \in saves : EndSave(p)
  <2>1. PICK p \in saves : EndSave(p)
    BY <1>5
  <2>2. /\ saves' = saves \ {p} /\ disk' \in {p, disk} /\ eng' = eng /\ job' = job /\ loaded' = loaded
    BY <2>1 DEF EndSave
  <2>3. ChainedStorage(cfg, disk', saves', loaded)
    BY <2>2 DEF ChainNow, ChainedStorage
  <2> QED BY <1>0, <2>2, <2>3 DEF ChainNow
<1> QED BY <1>1, <1>2, <1>3, <1>4, <1>5 DEF StorageNext

LEMMA NextChain ==
  ASSUME IndexInv, OnlyFollowsChain, ChainNow, [Next]_vars
  PROVE  ChainNow'
<1>1. CASE Next
  <2>0. UNCHANGED cfg
    BY <1>1 DEF Next
  <2>1. CASE ApiNext
    <3>1. CASE \/ Start \/ Stop \/ Query
               \/ (\E r \in Rules : AddMatcher(r)) \/ (\E i \in Ids : RemoveMatcher(i))
      BY <2>0, <3>1, AdminChain
    <3>2. CASE Clear
      BY <2>0, <3>2, ClearChain
    <3>3. CASE DrainEvents
      BY <2>0, <3>3, DrainChain
    <3>4. CASE \E h \in Hashes, at \in Stamps : ApplySyncBatches(h, at) \/ ReconcileVirtualChain(h, at)
      BY <2>0, <3>4, SyncChain
    <3>5. CASE RestoreState
      BY <2>0, <3>5, RestoreChain
    <3>6. CASE RestoreRefused
      <4>1. /\ eng' = eng /\ job' = None /\ disk' = disk /\ saves' = saves /\ loaded' = None
        BY <3>6 DEF RestoreRefused, Free
      <4>2. ChainedJob(cfg, None, None) /\ ChainedStorage(cfg, disk, saves, None)
        BY DEF ChainedJob, ChainNow, ChainedStorage
      <4> QED BY <2>0, <4>1, <4>2 DEF ChainNow
    <3>7. /\ \A h \in Hashes \cup {None} : ~SetCheckpoint(h)
          /\ \A t \in Txids, h \in Hashes \cup {None}, at \in Stamps : ~IngestOne(t, h, at)
          /\ \A h \in Hashes, at \in Stamps : ~IngestBareBlock(h, at) /\ ~IngestBlockBatch(h, at)
          /\ ~RestoreSnapshot
      BY UsesOnly DEF SetCheckpoint, IngestOne, IngestBareBlock, IngestBlockBatch, RestoreSnapshot
    <3> QED BY <2>1, <3>1, <3>2, <3>3, <3>4, <3>5, <3>6, <3>7 DEF ApiNext
  <2>2. CASE Abort
    <3>1. /\ eng' = eng /\ job' = None /\ disk' = disk /\ saves' = saves /\ loaded' = loaded
      BY <2>2 DEF Abort
    <3>2. ChainedJob(cfg, None, loaded)
      BY DEF ChainedJob
    <3> QED BY <2>0, <3>1, <3>2 DEF ChainNow
  <2>3. CASE IngestNext \/ RestoreNext \/ Commit
    BY <2>0, <2>3, IngestNextChain, RestoreNextChain, CommitChain
  <2>4. CASE StorageNext
    BY <2>0, <2>4, StorageChain
  <2>5. CASE Tick
    BY <2>0, <2>5 DEF Tick, ChainNow
  <2> QED BY <1>1, <2>1, <2>2, <2>3, <2>4, <2>5 DEF Next, JobNext
<1>2. CASE UNCHANGED vars
  BY <1>2 DEF vars, ChainNow
<1> QED BY <1>1, <1>2

(* Whether the application only follows the chain is a matter of its configuration. *)
LEMMA FollowsStays ==
  ASSUME cfg' = cfg
  PROVE  OnlyFollowsChain' => OnlyFollowsChain
<1> DEFINE Follows(k) ==
             /\ k.uses \cap {"direct", "batch", "checkpoint", "snapshot"} = {}
             /\ k.keepTxs /\ k.keepBlocks /\ k.ttl = 0
             /\ \A p \in k.disks :
                  (\A i \in DOMAIN p.txs : p.txs[i].txid \notin k.invalid) => HoldsChain(k, p)
             /\ \A h \in k.hashes :
                  /\ Len(k.chainTo[h]) <= k.maxBlocks
                  /\ Cardinality((UNION {Range(k.blockTxs[b]) : b \in Range(k.chainTo[h])}) \ k.invalid)
                       <= k.maxTransactions
<1>1. OnlyFollowsChain <=> Follows(cfg)
  BY DEF OnlyFollowsChain, Uses, KeepTxs, KeepBlocks, Ttl, InitDisks, Restorable, Invalid, Hashes, ChainTo,
         MaxBlocks, BlockTxs, MaxTransactions
<1>2. OnlyFollowsChain' <=> Follows(cfg')
  BY DEF OnlyFollowsChain, Uses, KeepTxs, KeepBlocks, Ttl, InitDisks, Restorable, Invalid, Hashes, ChainTo,
         MaxBlocks, BlockTxs, MaxTransactions
<1> HIDE DEF Follows
<1> QED BY <1>1, <1>2

LEMMA ChainKeeps == IndexInv /\ ChainInv /\ [Next]_vars => ChainInv'
<1> SUFFICES ASSUME IndexInv, ChainInv, [Next]_vars, OnlyFollowsChain' PROVE ChainNow'
  BY DEF ChainInv
<1>1. cfg' = cfg
  BY DEF Next, vars
<1>2. OnlyFollowsChain
  BY <1>1, FollowsStays
<1> QED BY <1>2, NextChain DEF ChainInv

LEMMA FollowsNow == IndexInv /\ ChainInv => IndexIsTheChain
<1> SUFFICES ASSUME IndexInv, ChainNow, OnlyFollowsChain
             PROVE  /\ DOMAIN eng.blocks = OnChain(eng.cp)
                    /\ DOMAIN eng.tx = UNION {Range(BlockTxs[h]) : h \in OnChain(eng.cp)}
                    /\ \A t \in DOMAIN eng.tx : t \in Range(BlockTxs[eng.tx[t].block])
                                                /\ eng.tx[t].block \in OnChain(eng.cp)
  BY DEF ChainInv, IndexIsTheChain
<1>0. cfg \in Configs /\ eng.cp \in cfg.hashes \cup {None}
  BY DEF IndexInv, Good, Base, EngBase
<1>1. PICK T, B, C : T = eng.tx /\ B = DOMAIN eng.blocks /\ C = ChainOf(cfg, eng.cp)
  OBVIOUS
<1>2. Range(C) = OnChain(eng.cp)
  <2>1. Range(<<>>) = {}
    BY DEF Range
  <2> QED BY <1>1, <2>1 DEF ChainOf, OnChain, ChainTo
<1>3. DOMAIN C = 1 .. Len(C)
  BY <1>0, <1>1, ChainIsSeq
<1>4. /\ B \subseteq Range(C) /\ (\A x \in DOMAIN T : FirstWith(cfg, C, x, T[x].block))
      /\ \A i \in 1 .. Len(C) : C[i] \in B /\ Range(cfg.blockTxs[C[i]]) \subseteq DOMAIN T
  <2>1. Len(<<>>) = 0 /\ 1 .. 0 = {}
    OBVIOUS
  <2> QED BY <1>1, <2>1 DEF ChainNow, AtCheckpoint, Chained, Synced, Complete
<1>5. B = Range(C) /\ \A b \in Range(C) : Range(cfg.blockTxs[b]) \subseteq DOMAIN T
  BY <1>3, <1>4 DEF Range
<1>6. \A x \in DOMAIN T : T[x].block \in Range(C) /\ x \in Range(cfg.blockTxs[T[x].block])
  BY <1>4 DEF FirstWith, Range
<1>7. DOMAIN T = UNION {Range(cfg.blockTxs[b]) : b \in Range(C)}
  <2>1. \A x : x \in DOMAIN T <=> \E b \in Range(C) : x \in Range(cfg.blockTxs[b])
    BY <1>5, <1>6
  <2> QED BY ONLY <2>1, Zenon
<1> QED BY <1>1, <1>2, <1>5, <1>6, <1>7 DEF BlockTxs

(* An application that only follows the node's chain, with room for its        *)
(* records, holds exactly the chain that ends at its checkpoint: after          *)
(* reconcile_virtual_chain moved transactions between blocks, after failed      *)
(* synchronisations, crashes, late saves and restores, for every tree of        *)
(* chains, every set of rules and every window.                                 *)
THEOREM IndexIsAlwaysTheChain == Spec => []IndexIsTheChain
<1>1. Init => ChainInv
  BY InitChain DEF ChainInv
<1>2. IndexInv /\ ChainInv /\ [Next]_vars => ChainInv'
  BY ChainKeeps
<1>3. IndexInv /\ ChainInv => IndexIsTheChain
  BY FollowsNow
<1> QED BY <1>1, <1>2, <1>3, IndexStaysSound, PTL DEF Spec
=============================================================================
