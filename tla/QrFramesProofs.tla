--------------------------- MODULE QrFramesProofs ---------------------------
(***************************************************************************)
(* What a scan delivers and what the decoder holds, for every set of       *)
(* payloads and producers and every number of frames.  Delivery needs one  *)
(* fact beside the property: the frames on the screen carry the session of *)
(* the payload on the screen.                                              *)
(***************************************************************************)
EXTENDS QrFrames, TLAPS, SequenceTheorems, WellFoundedInduction

FramesOfScreen ==
  \A i \in DOMAIN screen.frames :
    screen.frames[i].session \in {screen.payload, NoPayload}

DeliveryInv == FramesOfScreen /\ DeliveredIsOnScreen

(* frame_payloads stamps every frame with the session of its payload; a     *)
(* bare code carries none.                                                  *)
LEMMA FramePayloadsSession ==
  ASSUME NEW p, NEW producer, NEW i \in DOMAIN frame_payloads(p, producer)
  PROVE  frame_payloads(p, producer)[i].session \in {p, NoPayload}
<1>1. CASE IsSingle(p, producer)
  BY <1>1 DEF frame_payloads, Frame
<1>2. CASE ~IsSingle(p, producer)
  BY <1>2 DEF frame_payloads, Frame
<1> QED BY <1>1, <1>2

(* What decode_frame returns is nothing or the payload whose session the    *)
(* scanned frame carries, whatever the decoder held before: a frame of      *)
(* another session is refused, and the digest decides the rest.             *)
LEMMA ReturnedIsSession ==
  ASSUME NEW d, NEW f, Returned(d, f) # NoPayload
  PROVE  Returned(d, f) = f.session
<1> DEFINE s == Stored(d, f)
<1>1. Absorb(d, f).out = "done"
  BY DEF Returned
<1>2. Authorized(d, f)
  <2> SUFFICES ASSUME ~Authorized(d, f) PROVE FALSE
    OBVIOUS
  <2>1. Absorb(d, f).out = "reject"
    BY DEF Absorb
  <2> QED BY <1>1, <2>1
<1>3. d.frags[f.index] = <<>>
  <2> SUFFICES ASSUME d.frags[f.index] # <<>> PROVE FALSE
    OBVIOUS
  <2>1. Absorb(d, f).out \in {"wait", "reject"}
    BY <1>2 DEF Absorb
  <2> QED BY <1>1, <2>1
<1>4. /\ Absorb(d, f).state = s
      /\ Absorb(d, f).out = IF ~AllReceived(s) THEN "wait"
                            ELSE IF VerifySession(Joined(s), s.session) THEN "done"
                            ELSE "reject"
  BY <1>2, <1>3 DEF Absorb
<1>5. VerifySession(Joined(s), s.session)
  BY <1>1, <1>4
<1>6. s.session = f.session
  BY <1>2 DEF Stored, Authorized
<1>7. Returned(d, f) = Joined(s)
  BY <1>1, <1>4 DEF Returned
<1> QED BY <1>5, <1>6, <1>7 DEF VerifySession

LEMMA DeliveryStep ==
  DeliveryInv /\ [QrNext]_qrVars => DeliveryInv'
<1> SUFFICES ASSUME DeliveryInv, [QrNext]_qrVars PROVE DeliveryInv'
  OBVIOUS
<1>1. ASSUME NEW p \in Payloads, NEW producer \in Producers, Show(p, producer)
      PROVE  DeliveryInv'
  <2>1. screen'.payload = p /\ screen'.frames = frame_payloads(p, producer)
    BY <1>1 DEF Show
  <2>2. FramesOfScreen'
    BY <2>1, FramePayloadsSession DEF FramesOfScreen
  <2>3. DeliveredIsOnScreen'
    BY <1>1 DEF Show, DeliveredIsOnScreen
  <2> QED BY <2>2, <2>3 DEF DeliveryInv
<1>2. ASSUME NEW i \in 1 .. MAX_FRAMES, Scan(i)
      PROVE  DeliveryInv'
  <2> DEFINE f == screen.frames[i]
             r == Returned(decoder, f)
  <2>1. /\ screen' = screen
        /\ i \in DOMAIN screen.frames
        /\ f.session # NoPayload
        /\ got' = IF r = NoPayload THEN got ELSE r
    BY <1>2 DEF Scan, IsFrame
  <2>2. f.session = screen.payload
    BY <2>1 DEF DeliveryInv, FramesOfScreen
  <2>3. r # NoPayload => r = screen.payload
    BY <2>2, ReturnedIsSession
  <2> HIDE DEF r
  <2>4. DeliveredIsOnScreen'
    BY <2>1, <2>3 DEF DeliveryInv, DeliveredIsOnScreen
  <2>5. FramesOfScreen'
    BY <2>1 DEF DeliveryInv, FramesOfScreen
  <2> QED BY <2>4, <2>5 DEF DeliveryInv
<1>3. CASE Reset
  BY <1>3 DEF Reset, DeliveryInv, FramesOfScreen, DeliveredIsOnScreen
<1>4. CASE UNCHANGED qrVars
  BY <1>4 DEF qrVars, DeliveryInv, FramesOfScreen, DeliveredIsOnScreen
<1> QED BY <1>1, <1>2, <1>3, <1>4 DEF QrNext

(* decode_frame never returns anything but the payload on the screen, for   *)
(* any payloads, producers and leftovers of earlier scans.                  *)
THEOREM ScanDeliversScreen == QrSpec => []DeliveredIsOnScreen
<1>1. QrInit => DeliveryInv
  BY DEF QrInit, DeliveryInv, FramesOfScreen, DeliveredIsOnScreen
<1>2. DeliveryInv => DeliveredIsOnScreen
  BY DEF DeliveryInv
<1> QED BY <1>1, <1>2, DeliveryStep, PTL DEF QrSpec

-----------------------------------------------------------------------------
(* The split.  A payload of length L is cut into CeilDiv(L, size) chunks,   *)
(* which put together are the payload; the balanced size leaves at least    *)
(* two of them and no more than the number checked against MAX_FRAMES.      *)

LEMMA DivBounds ==
  ASSUME NEW a \in Nat, NEW b \in Nat \ {0}
  PROVE  a \div b \in Nat /\ b * (a \div b) <= a /\ a < b * (a \div b) + b
  BY Z3

LEMMA CeilDivBounds ==
  ASSUME NEW a \in Nat, NEW b \in Nat \ {0}
  PROVE  /\ CeilDiv(a, b) \in Nat
         /\ a <= CeilDiv(a, b) * b /\ CeilDiv(a, b) * b < a + b
<1>1. PICK c \in Nat : c = a + b - 1
  OBVIOUS
<1>2. PICK q \in Nat : q = c \div b /\ b * q <= c /\ c < b * q + b
  BY DivBounds
<1>3. b * q = q * b /\ q * b \in Nat
  OBVIOUS
<1>4. CeilDiv(a, b) = q
  BY <1>1, <1>2 DEF CeilDiv
<1> QED BY <1>1, <1>2, <1>3, <1>4

LEMMA LessFactor ==
  ASSUME NEW a \in Nat, NEW b \in Nat, NEW c \in Nat, a * c < b * c
  PROVE  a < b
  OBVIOUS

LEMMA NextMultiple ==
  ASSUME NEW i \in Nat, NEW c \in Nat
  PROVE  (i + 1) * c = i * c + c /\ i * c \in Nat
  OBVIOUS

LEMMA MonoFactor ==
  ASSUME NEW a \in Nat, NEW b \in Nat, NEW c \in Nat, a <= b
  PROVE  a * c <= b * c
  OBVIOUS

(* Where chunk i ends. *)
Cut(p, size, i) == IF i * size < Len(p) THEN i * size ELSE Len(p)

(* All chunks but the last are full, and the last is not empty. *)
LEMMA CutSteps ==
  ASSUME NEW S, NEW p \in Seq(S), NEW size \in Nat \ {0}, Len(p) > 0,
         NEW n, n = CeilDiv(Len(p), size)
  PROVE  /\ n \in Nat \ {0}
         /\ Cut(p, size, n) = Len(p)
         /\ \A i \in 1 .. n : /\ Cut(p, size, i) \in 1 .. Len(p)
                              /\ (i - 1) * size \in 0 .. Len(p) - 1
                              /\ (i - 1) * size < Cut(p, size, i)
                              /\ Cut(p, size, i - 1) = (i - 1) * size
<1>0. Len(p) \in Nat
  BY LenProperties
<1>1. n \in Nat /\ Len(p) <= n * size /\ n * size < Len(p) + size
  BY <1>0, CeilDivBounds
<1>2. n # 0
  BY <1>0, <1>1
<1>3. Cut(p, size, n) = Len(p)
  BY <1>0, <1>1 DEF Cut
<1>4. ASSUME NEW i \in 1 .. n
      PROVE  /\ Cut(p, size, i) \in 1 .. Len(p) /\ (i - 1) * size \in 0 .. Len(p) - 1
             /\ (i - 1) * size < Cut(p, size, i) /\ Cut(p, size, i - 1) = (i - 1) * size
  <2>1. PICK j \in Nat : i = j + 1
    BY <1>1
  <2>2. i * size = j * size + size /\ j * size \in Nat
    BY <2>1, NextMultiple
  <2>3. i * size <= n * size
    BY <1>1, <2>1, MonoFactor
  <2>4. j * size < Len(p)
    BY <1>0, <1>1, <2>2, <2>3
  <2>5. (i - 1) * size = j * size
    BY <2>1
  <2> QED BY <1>0, <2>2, <2>4, <2>5 DEF Cut
<1> QED BY <1>1, <1>2, <1>3, <1>4

LEMMA ChunksShape ==
  ASSUME NEW S, NEW p \in Seq(S), NEW size \in Nat \ {0}, Len(p) > 0,
         NEW n, n = CeilDiv(Len(p), size)
  PROVE  /\ Chunks(p, size) \in Seq(Seq(S)) /\ Len(Chunks(p, size)) = n
         /\ DOMAIN Chunks(p, size) = 1 .. n
         /\ \A i \in 1 .. n : /\ Chunks(p, size)[i] = SubSeq(p, (i - 1) * size + 1, Cut(p, size, i))
                              /\ Chunks(p, size)[i] \in Seq(S) /\ Chunks(p, size)[i] # <<>>
<1>0. n \in Nat /\ Len(p) \in Nat
  BY CutSteps, LenProperties
<1>1. Chunks(p, size) = [i \in 1 .. n |-> SubSeq(p, (i - 1) * size + 1, Cut(p, size, i))]
  BY DEF Chunks, Cut
<1>2. ASSUME NEW i \in 1 .. n
      PROVE  /\ SubSeq(p, (i - 1) * size + 1, Cut(p, size, i)) \in Seq(S)
             /\ SubSeq(p, (i - 1) * size + 1, Cut(p, size, i)) # <<>>
  <2>1. /\ Cut(p, size, i) \in 1 .. Len(p) /\ (i - 1) * size \in 0 .. Len(p) - 1
        /\ (i - 1) * size < Cut(p, size, i)
    BY CutSteps
  <2>2. PICK m \in 1 .. Len(p), k \in 1 .. Len(p) :
          m = (i - 1) * size + 1 /\ k = Cut(p, size, i) /\ m <= k
    BY <1>0, <2>1
  <2>3. \A j \in m .. k : p[j] \in S
    BY <1>0, ElementOfSeq
  <2>4. SubSeq(p, m, k) \in Seq(S) /\ Len(SubSeq(p, m, k)) = k - m + 1
    BY <1>0, <2>2, <2>3, SubSeqProperties
  <2>5. SubSeq(p, m, k) # <<>>
    <3>1. Len(SubSeq(p, m, k)) > 0
      BY <1>0, <2>2, <2>4
    <3>2. Len(<<>>) = 0
      OBVIOUS
    <3> QED BY <3>1, <3>2
  <2> QED BY <2>2, <2>4, <2>5
<1>3. Chunks(p, size) \in [1 .. n -> Seq(S)]
  BY <1>1, <1>2
<1>4. Chunks(p, size) \in Seq(Seq(S)) /\ Len(Chunks(p, size)) = n
  BY <1>0, <1>3
<1> QED BY <1>1, <1>2, <1>3, <1>4

(* FlattenSeq: whatever satisfies its recursion is what it computes. *)
Joins(g, w, n) == \A i \in 1 .. n : g[i] = IF i = 1 THEN w[i] ELSE g[i - 1] \o w[i]

LEMMA FlattenIs ==
  ASSUME NEW w, NEW n \in Nat, n # 0, Len(w) = n, NEW g, Joins(g, w, n)
  PROVE  FlattenSeq(w) = g[n]
<1> USE DEF Joins
<1> DEFINE f == CHOOSE f : f = [i \in 1 .. Len(w) |-> IF i = 1 THEN w[i] ELSE f[i - 1] \o w[i]]
<1>1. Len(w) # 0
  OBVIOUS
<1>2. FlattenSeq(w) = f[Len(w)]
  BY <1>1, Zenon DEF FlattenSeq
<1>3. f = [i \in 1 .. Len(w) |-> IF i = 1 THEN w[i] ELSE f[i - 1] \o w[i]]
  <2>1. PICK h : h = [i \in 1 .. n |-> g[i]]
    OBVIOUS
  <2>2. \A i \in 1 .. n : h[i] = IF i = 1 THEN w[i] ELSE h[i - 1] \o w[i]
    <3> SUFFICES ASSUME NEW i \in 1 .. n PROVE h[i] = IF i = 1 THEN w[i] ELSE h[i - 1] \o w[i]
      OBVIOUS
    <3>1. i # 1 => i - 1 \in 1 .. n
      OBVIOUS
    <3> QED BY <2>1, <3>1
  <2>3. h = [i \in 1 .. Len(w) |-> IF i = 1 THEN w[i] ELSE h[i - 1] \o w[i]]
    BY <2>1, <2>2
  <2> QED BY <2>3, Zenon
<1> HIDE DEF f
<1>4. \A i \in 1 .. n : f[i] = g[i]
  <2> SUFFICES ASSUME NEW k \in 1 .. n, f[k] # g[k] PROVE FALSE
    OBVIOUS
  <2> DEFINE Wrong == {i \in Nat : i \in 1 .. n /\ f[i] # g[i]}
  <2>1. Wrong # {} /\ Wrong \subseteq Nat
    <3>1. k \in Nat
      OBVIOUS
    <3>2. k \in Wrong
      BY <3>1
    <3> QED BY <3>2
  <2> HIDE DEF Wrong
  <2>2. \E x \in Wrong : \A y \in Wrong : ~(<<y, x>> \in OpToRel(<, Nat))
    BY <2>1, NatLessThanWellFounded, WFMin, Zenon
  <2>3. PICK x \in Wrong : \A y \in Wrong : ~(y < x)
    BY <2>1, <2>2 DEF OpToRel
  <2>4. x \in 1 .. n /\ f[x] # g[x] /\ \A y \in 1 .. n : y < x => f[y] = g[y]
    BY <2>3 DEF Wrong
  <2>5. CASE x = 1
    <3>1. f[x] = w[x] /\ g[x] = w[x]
      BY <1>3, <2>4, <2>5
    <3> QED BY <2>4, <3>1
  <2>6. CASE x # 1
    <3>1. x - 1 \in 1 .. n /\ x - 1 < x
      BY <2>4, <2>6
    <3>2. f[x] = f[x - 1] \o w[x]
      BY <1>3, <2>4, <2>6
    <3>3. g[x] = g[x - 1] \o w[x]
      BY <2>4, <2>6
    <3>4. f[x - 1] = g[x - 1]
      BY <2>4, <3>1
    <3> QED BY <2>4, <3>2, <3>3, <3>4
  <2> QED BY <2>5, <2>6
<1> QED BY <1>2, <1>4

LEMMA ChunksReassemble ==
  ASSUME NEW S, NEW p \in Seq(S), NEW size \in Nat \ {0}, Len(p) > 0
  PROVE  FlattenSeq(Chunks(p, size)) = p
<1>1. PICK n \in Nat \ {0} : n = CeilDiv(Len(p), size)
  BY CutSteps
<1> DEFINE w == Chunks(p, size)
           g == [i \in 1 .. n |-> SubSeq(p, 1, Cut(p, size, i))]
<1>2. /\ Len(w) = n
      /\ \A i \in 1 .. n : w[i] = SubSeq(p, (i - 1) * size + 1, Cut(p, size, i))
  BY <1>1, ChunksShape
<1>3. /\ Cut(p, size, n) = Len(p)
      /\ \A i \in 1 .. n : /\ Cut(p, size, i) \in 1 .. Len(p)
                           /\ (i - 1) * size \in 0 .. Len(p) - 1
                           /\ (i - 1) * size < Cut(p, size, i)
                           /\ Cut(p, size, i - 1) = (i - 1) * size
  BY <1>1, CutSteps
<1> HIDE DEF w
<1>4. ASSUME NEW i \in 1 .. n
      PROVE  g[i] = IF i = 1 THEN w[i] ELSE g[i - 1] \o w[i]
  <2>1. CASE i = 1
    <3>1. (i - 1) * size + 1 = 1
      BY <2>1
    <3> QED BY <1>2, <2>1, <3>1
  <2>2. CASE i # 1
    <3>0. /\ Len(p) \in Nat /\ Cut(p, size, i) \in 1 .. Len(p)
          /\ (i - 1) * size \in 0 .. Len(p) - 1 /\ (i - 1) * size < Cut(p, size, i)
      BY <1>3, LenProperties
    <3>1. PICK k \in 0 .. Len(p), e \in 0 .. Len(p) :
            k = (i - 1) * size /\ e = Cut(p, size, i) /\ k <= e
      <4>1. \A k, e \in Int : k \in 0 .. Len(p) - 1 /\ e \in 1 .. Len(p) /\ k < e
                               => k \in 0 .. Len(p) /\ e \in 0 .. Len(p) /\ k <= e
        BY <3>0
      <4>2. (i - 1) * size \in Int /\ Cut(p, size, i) \in Int
        BY <3>0
      <4> QED BY <3>0, <4>1, <4>2
    <3>2. i - 1 \in 1 .. n
      BY <2>2
    <3>3. g[i - 1] = SubSeq(p, 1, k) /\ w[i] = SubSeq(p, k + 1, e) /\ g[i] = SubSeq(p, 1, e)
      BY <1>2, <1>3, <3>1, <3>2
    <3>4. SubSeq(p, 1, k) \o SubSeq(p, k + 1, e) = SubSeq(p, 1, e)
      <4>1. 1 \in 1 .. Len(p) + 1 /\ k \in 1 - 1 .. Len(p) /\ e \in k .. Len(p)
        BY <3>1, LenProperties
      <4> QED BY <4>1, ConcatAdjacentSubSeq
    <3> QED BY <2>2, <3>3, <3>4
  <2> QED BY <2>1, <2>2
<1>5. g[n] = p
  BY <1>1, <1>3, SubSeqFull
<1> HIDE DEF g
<1>6. \A i \in 1 .. n : g[i] = IF i = 1 THEN w[i] ELSE g[i - 1] \o w[i]
  BY <1>4
<1>7. PICK v, h : v = w /\ h = g
  OBVIOUS
<1>8. /\ n \in Nat /\ n # 0 /\ Len(v) = n /\ h[n] = p
      /\ Joins(h, v, n)
  BY <1>1, <1>2, <1>5, <1>6, <1>7 DEF Joins
<1>9. FlattenSeq(v) = h[n]
  BY <1>8, FlattenIs, Zenon
<1> QED BY <1>7, <1>8, <1>9 DEF w

(* The balanced size makes at least two fragments, and not more than were  *)
(* counted before.                                                         *)
LEMMA BalancedCount ==
  ASSUME NEW L \in Nat, NEW d \in Nat \ {0}, d < L
  PROVE  /\ CeilDiv(L, d) \in Nat \ {0}
         /\ CeilDiv(L, CeilDiv(L, d)) \in Nat \ {0}
         /\ CeilDiv(L, CeilDiv(L, CeilDiv(L, d))) \in 2 .. CeilDiv(L, d)
<1>1. PICK c \in Nat : c = CeilDiv(L, d) /\ L <= c * d
  BY CeilDivBounds
<1>2. c >= 2
  <2>1. CASE c = 0
    BY <1>1, <2>1
  <2>2. CASE c = 1
    BY <1>1, <2>2
  <2> QED BY <2>1, <2>2
<1>3. PICK size \in Nat : size = CeilDiv(L, c) /\ L <= size * c /\ size * c < L + c
  <2>1. c \in Nat \ {0}
    BY <1>2
  <2>2. /\ CeilDiv(L, c) \in Nat
        /\ L <= CeilDiv(L, c) * c /\ CeilDiv(L, c) * c < L + c
    BY <2>1, CeilDivBounds
  <2> QED BY <2>2
<1>4. size # 0
  BY <1>3
<1>5. PICK n \in Nat : n = CeilDiv(L, size) /\ L <= n * size /\ n * size < L + size
  BY <1>4, CeilDivBounds
<1>6. n <= c
  <2>1. n # 0
    BY <1>5
  <2>2. PICK m \in Nat : n = m + 1
    BY <2>1
  <2>3. n * size = m * size + size /\ m * size \in Nat
    BY <2>2, NextMultiple
  <2>4. m * size < L
    BY <1>5, <2>3
  <2>5. size * c = c * size
    OBVIOUS
  <2>6. m * size < c * size
    BY <1>3, <2>3, <2>4, <2>5
  <2>7. m < c
    BY <2>6, LessFactor
  <2> QED BY <2>2, <2>7
<1>7. n >= 2
  <2>1. n # 0
    BY <1>5
  <2>2. CASE n = 1
    <3>1. L <= size
      BY <1>5, <2>2
    <3>2. L * c <= size * c /\ L * c \in Nat
      BY <3>1, MonoFactor
    <3>3. L * c < L + c
      BY <1>3, <3>2
    <3>4. PICK x \in Nat, y \in Nat : L = x + 1 /\ c = y + 1 /\ x >= 1 /\ y >= 1
      <4>1. L - 1 \in Nat /\ c - 1 \in Nat /\ L - 1 >= 1 /\ c - 1 >= 1
        BY <1>2
      <4> QED BY <4>1
    <3>5. L * c = x * y + x + y + 1
      BY <3>4
    <3>6. x * y >= 1 /\ x * y \in Nat
      BY <3>4
    <3> QED BY <3>3, <3>4, <3>5, <3>6
  <2> QED BY <2>1, <2>2
<1> QED BY <1>1, <1>2, <1>3, <1>4, <1>5, <1>6, <1>7

-----------------------------------------------------------------------------
(* The assembly. *)

(* The screen shows the frames of a payload, or nothing yet. *)
ScreenInv ==
  \/ screen = [payload |-> NoPayload, frames |-> <<>>]
  \/ \E p \in Payloads, producer \in Producers :
       CanFrame(p, producer) /\ screen = [payload |-> p, frames |-> frame_payloads(p, producer)]

(* Without a session nothing is held. *)
DecoderInv ==
  /\ DOMAIN decoder.frags = 1 .. MAX_FRAMES
  /\ decoder.session = NoPayload => \A i \in 1 .. MAX_FRAMES : decoder.frags[i] = <<>>
  /\ FragmentsBelong

AssemblyInv == ScreenInv /\ DecoderInv

(* What a screen of several codes shows. *)
LEMMA FramesOfPayload ==
  ASSUME NEW p \in Payloads, NEW producer \in Producers, CanFrame(p, producer), ~IsSingle(p, producer)
  PROVE  LET parts  == Fragments(p, producer)
             frames == frame_payloads(p, producer)
         IN  /\ Len(parts) \in 2 .. MAX_FRAMES /\ DOMAIN parts = 1 .. Len(parts)
             /\ FlattenSeq(parts) = p
             /\ Len(frames) = Len(parts) /\ DOMAIN frames = DOMAIN parts
             /\ \A i \in DOMAIN parts : parts[i] # <<>> /\ frames[i] = Frame(p, i, Len(parts), parts[i])
<1>1. p \in Seq(Units) /\ producer.data \in Nat \ {0} /\ producer.single \in Nat
      /\ producer.data <= producer.single /\ MAX_FRAMES \in Nat
  BY QrAssumption
<1>2. Len(p) \in Nat /\ Len(p) > producer.single
  BY <1>1, LenProperties DEF IsSingle
<1>3. PICK L \in Nat, d \in Nat \ {0} : L = Len(p) /\ d = producer.data /\ d < L
  BY <1>1, <1>2
<1>4. PICK c \in Nat \ {0}, size \in Nat \ {0}, n \in Nat :
        c = CeilDiv(L, d) /\ size = CeilDiv(L, c) /\ n = CeilDiv(L, size) /\ n \in 2 .. c
  <2>1. PICK c, size, n : c = CeilDiv(L, d) /\ size = CeilDiv(L, c) /\ n = CeilDiv(L, size)
    OBVIOUS
  <2>2. c \in Nat \ {0} /\ size \in Nat \ {0} /\ n \in 2 .. c
    BY <1>3, <2>1, BalancedCount
  <2>3. n \in Nat
    BY <2>2
  <2> QED BY <2>1, <2>2, <2>3
<1>5. c <= MAX_FRAMES
  BY <1>3, <1>4 DEF CanFrame
<1>6. Fragments(p, producer) = Chunks(p, size)
  BY <1>3, <1>4 DEF Fragments
<1>7. /\ Len(Chunks(p, size)) = n /\ DOMAIN Chunks(p, size) = 1 .. n
      /\ \A i \in 1 .. n : Chunks(p, size)[i] # <<>>
  <2>1. Len(p) > 0 /\ n = CeilDiv(Len(p), size)
    BY <1>2, <1>3, <1>4
  <2> QED BY <1>1, <2>1, ChunksShape
<1>8. FlattenSeq(Chunks(p, size)) = p
  BY <1>1, <1>2, ChunksReassemble
<1>9. PICK parts : parts = Fragments(p, producer)
  OBVIOUS
<1>10. /\ Len(parts) = n /\ DOMAIN parts = 1 .. n /\ FlattenSeq(parts) = p
       /\ \A i \in 1 .. n : parts[i] # <<>>
  BY <1>6, <1>7, <1>8, <1>9, Zenon
<1>11. frame_payloads(p, producer) = [i \in 1 .. n |-> Frame(p, i, n, parts[i])]
  BY <1>9, <1>10 DEF frame_payloads
<1>12. Len(frame_payloads(p, producer)) = n /\ DOMAIN frame_payloads(p, producer) = 1 .. n
  BY <1>4, <1>11
<1>13. n \in 2 .. MAX_FRAMES
  BY <1>1, <1>4, <1>5
<1>14. \A i \in 1 .. n : frame_payloads(p, producer)[i] = Frame(p, i, n, parts[i])
  BY <1>11
<1> QED BY <1>9, <1>10, <1>12, <1>13, <1>14, Zenon

(* Frames made by frame_payloads reassemble. *)
LEMMA ScreenReassembles == ScreenInv => FramesReassemble
<1> SUFFICES ASSUME ScreenInv, NEW i \in DOMAIN screen.frames, screen.frames[i].session # NoPayload
             PROVE  LET f == screen.frames[i]
                    IN  /\ IsFrame(f) /\ f.index = i /\ f.total = Len(screen.frames)
                        /\ FlattenSeq([j \in DOMAIN screen.frames |-> screen.frames[j].fragment])
                             = screen.payload
  BY DEF FramesReassemble
<1>1. PICK p \in Payloads, producer \in Producers :
        CanFrame(p, producer) /\ screen = [payload |-> p, frames |-> frame_payloads(p, producer)]
  BY DEF ScreenInv
<1>2. ~IsSingle(p, producer)
  BY <1>1 DEF frame_payloads, Frame
<1>3. PICK parts, n : parts = Fragments(p, producer) /\ n = Len(parts)
  OBVIOUS
<1>4. /\ n \in 2 .. MAX_FRAMES /\ DOMAIN parts = 1 .. n /\ FlattenSeq(parts) = p
      /\ Len(screen.frames) = n /\ DOMAIN screen.frames = 1 .. n
      /\ \A j \in 1 .. n : parts[j] # <<>> /\ screen.frames[j] = Frame(p, j, n, parts[j])
  <2>1. screen.frames = frame_payloads(p, producer)
    BY <1>1
  <2> QED BY <1>1, <1>2, <1>3, <2>1, FramesOfPayload
<1>5. [j \in DOMAIN screen.frames |-> screen.frames[j].fragment] = parts
  <2>1. \A j \in 1 .. n : screen.frames[j].fragment = parts[j]
    <3>1. \A j : Frame(p, j, n, parts[j]).fragment = parts[j]
      BY DEF Frame
    <3> QED BY <1>4, <3>1, Zenon
  <2>2. parts = [j \in 1 .. n |-> parts[j]]
    <3>1. parts \in [1 .. n -> {parts[j] : j \in 1 .. n}]
      BY <1>3, <1>4 DEF Fragments, Chunks
    <3> QED BY <3>1
  <2> QED BY <1>4, <2>1, <2>2
<1>6. /\ screen.frames[i] = Frame(p, i, n, parts[i]) /\ p # NoPayload /\ parts[i] # <<>>
      /\ i \in 1 .. n
  BY <1>4, QrAssumption
<1>7. PICK f : f = screen.frames[i]
  OBVIOUS
<1>8. f.session = p /\ f.index = i /\ f.total = n /\ f.fragment = parts[i]
  BY <1>6, <1>7 DEF Frame
<1>9. IsFrame(f) /\ f.index = i /\ f.total = Len(screen.frames)
  BY <1>4, <1>6, <1>8 DEF IsFrame
<1>10. FlattenSeq([j \in DOMAIN screen.frames |-> screen.frames[j].fragment]) = screen.payload
  <2>1. screen.payload = p
    BY <1>1
  <2> QED BY <1>4, <1>5, <2>1, Zenon
<1> QED BY <1>7, <1>9, <1>10, Zenon

(* decode_frame on a code of the screen keeps the assembly faithful: it     *)
(* stays, is emptied, or takes one fragment of the session it is in.        *)
LEMMA ScanKeepsAssembly ==
  ASSUME AssemblyInv, NEW i \in DOMAIN screen.frames, IsFrame(screen.frames[i]),
         decoder' = AfterFrame(decoder, screen.frames[i])
  PROVE  DecoderInv'
<1> DEFINE f == screen.frames[i]
           s == Stored(decoder, f)
<1>1. PICK p \in Payloads, producer \in Producers :
        CanFrame(p, producer) /\ screen = [payload |-> p, frames |-> frame_payloads(p, producer)]
  BY DEF AssemblyInv, ScreenInv
<1>2. ~IsSingle(p, producer)
  BY <1>1 DEF frame_payloads, Frame, IsFrame
<1>3. PICK parts, n : parts = Fragments(p, producer) /\ n = Len(parts)
  OBVIOUS
<1>4. /\ n \in 2 .. MAX_FRAMES /\ DOMAIN screen.frames = 1 .. n
      /\ screen.frames[i] = Frame(p, i, n, parts[i])
  <2>1. screen.frames = frame_payloads(p, producer)
    BY <1>1
  <2> QED BY <1>1, <1>2, <1>3, <2>1, FramesOfPayload
<1>5. f.session = p /\ f.index = i /\ f.total = n /\ f.fragment = parts[i] /\ p # NoPayload
  BY <1>4, QrAssumption DEF Frame
<1>6. i \in 1 .. MAX_FRAMES /\ i <= n
  BY <1>4, QrAssumption
<1>7. \/ decoder' = decoder
      \/ decoder' = Clean
      \/ decoder' = s /\ Authorized(decoder, f)
  BY DEF AfterFrame, Absorb
<1>8. CASE decoder' = decoder
  BY <1>8 DEF AssemblyInv, DecoderInv, FragmentsBelong
<1>9. CASE decoder' = Clean
  <2>1. decoder'.frags = [j \in 1 .. MAX_FRAMES |-> <<>>]
    BY <1>9 DEF Clean
  <2> QED BY <2>1 DEF DecoderInv, FragmentsBelong
<1>10. CASE decoder' = s /\ Authorized(decoder, f)
  <2>1. decoder'.session = p /\ decoder'.total = n
    BY <1>5, <1>10 DEF Stored, Authorized
  <2>2. decoder'.frags = [decoder.frags EXCEPT ![i] = parts[i]]
    BY <1>5, <1>10 DEF Stored
  <2>3. /\ DOMAIN decoder'.frags = 1 .. MAX_FRAMES /\ decoder'.frags[i] = parts[i]
        /\ \A j \in 1 .. MAX_FRAMES : j # i => decoder'.frags[j] = decoder.frags[j]
    BY <1>6, <2>2 DEF AssemblyInv, DecoderInv
  <2>4. ASSUME NEW j \in 1 .. MAX_FRAMES, decoder'.frags[j] # <<>>
        PROVE  \E q \in Producers :
                 LET w == Fragments(decoder'.session, q)
                 IN  Len(w) = decoder'.total /\ j <= Len(w) /\ w[j] = decoder'.frags[j]
    <3>1. CASE j = i
      BY <1>3, <1>6, <2>1, <2>3, <3>1
    <3>2. CASE j # i
      <4>1. decoder.frags[j] # <<>> /\ decoder'.frags[j] = decoder.frags[j]
        BY <2>3, <2>4, <3>2
      <4>2. decoder.session # NoPayload
        BY <4>1 DEF AssemblyInv, DecoderInv
      <4>3. decoder.session = p /\ decoder.total = n
        BY <1>5, <1>10, <4>2 DEF Authorized
      <4> QED BY <2>1, <4>1, <4>3 DEF AssemblyInv, DecoderInv, FragmentsBelong
    <3> QED BY <3>1, <3>2
  <2> QED BY <1>5, <2>1, <2>3, <2>4 DEF DecoderInv, FragmentsBelong
<1> QED BY <1>7, <1>8, <1>9, <1>10

LEMMA AssemblyStep == AssemblyInv /\ [QrNext]_qrVars => AssemblyInv'
<1> SUFFICES ASSUME AssemblyInv, [QrNext]_qrVars PROVE AssemblyInv'
  OBVIOUS
<1>0. ASSUME decoder' = decoder PROVE DecoderInv'
  BY <1>0 DEF AssemblyInv, DecoderInv, FragmentsBelong
<1>1. ASSUME NEW p \in Payloads, NEW producer \in Producers, Show(p, producer)
      PROVE  AssemblyInv'
  BY <1>0, <1>1 DEF Show, AssemblyInv, ScreenInv
<1>2. ASSUME NEW i \in 1 .. MAX_FRAMES, Scan(i) PROVE AssemblyInv'
  BY <1>2, ScanKeepsAssembly DEF Scan, AssemblyInv, ScreenInv
<1>3. CASE Reset
  <2>1. decoder'.frags = [j \in 1 .. MAX_FRAMES |-> <<>>]
    BY <1>3 DEF Reset, Clean
  <2>2. DecoderInv'
    BY <2>1 DEF DecoderInv, FragmentsBelong
  <2> QED BY <1>3, <2>2 DEF Reset, AssemblyInv, ScreenInv
<1>4. CASE UNCHANGED qrVars
  BY <1>0, <1>4 DEF qrVars, AssemblyInv, ScreenInv
<1> QED BY <1>1, <1>2, <1>3, <1>4 DEF QrNext

(* Whatever the payloads and the capacities of the producers: the balanced  *)
(* split makes frames that parse_frame accepts and that reassemble, and the *)
(* decoder never holds fragments of two transfers.                          *)
THEOREM AssemblyStaysFaithful == QrSpec => []AssemblyIsFaithful
<1>1. QrInit => AssemblyInv
  <2> SUFFICES ASSUME QrInit PROVE AssemblyInv
    OBVIOUS
  <2>1. decoder.frags = [j \in 1 .. MAX_FRAMES |-> <<>>]
    BY DEF QrInit, Clean
  <2> QED BY <2>1 DEF QrInit, AssemblyInv, ScreenInv, DecoderInv, FragmentsBelong
<1>2. AssemblyInv => AssemblyIsFaithful
  BY ScreenReassembles DEF AssemblyInv, DecoderInv, AssemblyIsFaithful
<1> QED BY <1>1, <1>2, AssemblyStep, PTL DEF QrSpec
=============================================================================
