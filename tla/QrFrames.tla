------------------------------ MODULE QrFrames ------------------------------
(***************************************************************************)
(* Animated QR transfer, transaction/interchange/qr: a screen loops over   *)
(* the frames of a payload, a camera hands the frames it happens to read   *)
(* to `decode_frame`, in any order, repeatedly or not at all.  The decoder *)
(* is one thread-local assembly that survives a change of the screen.      *)
(*                                                                         *)
(* A payload is a sequence of units and stands for its own session id: the *)
(* id is a digest of the payload and its length, taken to be free of       *)
(* collisions.  A producer is its fragment and single-code capacity: the   *)
(* constants of codec.rs for this library, smaller ones for other hardware *)
(* that speaks the same wire format.                                       *)
(***************************************************************************)
EXTENDS Naturals, SequencesExt

CONSTANTS Payloads,    \* what the application may transfer
          Producers,   \* set of [data, single] capacities, in units
          MAX_FRAMES,  \* most frames of a transfer
          NoPayload,   \* "nothing"
          MaxShows,    \* bound: screens shown in a behaviour
          MaxResets    \* bound: calls of reset_decoder

(* The units payloads are made of *)
Units == UNION {{p[i] : i \in DOMAIN p} : p \in Payloads}

(* Every producer cuts fragments of at least a unit, and whatever fits one  *)
(* fragment fits a single code.                                            *)
ASSUME QrAssumption ==
  /\ NoPayload \notin Payloads /\ Payloads \subseteq Seq(Units)
  /\ Producers \subseteq [data : Nat \ {0}, single : Nat]
  /\ \A producer \in Producers : producer.data <= producer.single
  /\ MAX_FRAMES \in Nat

VARIABLES screen,   \* [payload, frames]: what is displayed
          decoder,  \* DECODER
          got,      \* what decode_frame returned since the screen changed
          shows, resets

qrVars == <<screen, decoder, got, shows, resets>>

-----------------------------------------------------------------------------
(* Producer *)

CeilDiv(a, b) == (a + b - 1) \div b

(* data.chunks(size) *)
Chunks(p, size) ==
  [i \in 1 .. CeilDiv(Len(p), size) |->
     SubSeq(p, (i - 1) * size + 1, IF i * size < Len(p) THEN i * size ELSE Len(p))]

(* Fragments of the balanced split; the number of frames is fixed first. *)
Fragments(p, producer) ==
  Chunks(p, CeilDiv(Len(p), CeilDiv(Len(p), producer.data)))

(* A payload that fits one code is shown bare. *)
IsSingle(p, producer) == Len(p) <= producer.single

(* frame_payloads succeeds *)
CanFrame(p, producer) ==
  /\ Len(p) > 0
  /\ IsSingle(p, producer) \/ CeilDiv(Len(p), producer.data) <= MAX_FRAMES

(* encode_frame; indices count from 1 here.  A bare code is not a frame. *)
Frame(p, i, total, fragment) ==
  [session |-> p, index |-> i, total |-> total, fragment |-> fragment]

frame_payloads(p, producer) ==
  IF IsSingle(p, producer) THEN <<Frame(NoPayload, 1, 1, p)>>
  ELSE LET parts == Fragments(p, producer)
       IN  [i \in DOMAIN parts |-> Frame(p, i, Len(parts), parts[i])]

(* parse_frame accepts it *)
IsFrame(f) ==
  /\ f.session # NoPayload
  /\ f.total \in 2 .. MAX_FRAMES
  /\ f.index \in 1 .. f.total
  /\ f.fragment # <<>>

-----------------------------------------------------------------------------
(* Decoder *)

(* DecoderState::new and reset.  `session` is NoPayload while no session is *)
(* active; an empty fragment has not been received (a parsed fragment is   *)
(* never empty).                                                           *)
Clean == [session |-> NoPayload, total |-> 0, frags |-> [i \in 1 .. MAX_FRAMES |-> <<>>]]

(* Mutant: the frame count of an active session is not compared. *)
Mutant_AnyTotal(d, f) == d.session # NoPayload => d.session = f.session

(* Mutant: only the frame count is compared. *)
Mutant_AnySession(d, f) == d.session # NoPayload => d.total = f.total

(* authorize_frame_session *)
Authorized(d, f) ==
  d.session # NoPayload => d.session = f.session /\ d.total = f.total

(* accept_session keeps an active session, then the fragment is stored *)
Stored(d, f) ==
  LET idle == d.session = NoPayload
  IN  [session |-> IF idle THEN f.session ELSE d.session,
       total   |-> IF idle THEN f.total ELSE d.total,
       frags   |-> [d.frags EXCEPT ![f.index] = f.fragment]]

AllReceived(d) == \A i \in 1 .. d.total : d.frags[i] # <<>>

Joined(d) == FlattenSeq(SubSeq(d.frags, 1, d.total))

(* verify_session: the digest of the payload is the session id *)
VerifySession(payload, session) == payload = session

(* absorb: the outcome of a frame and the state it leaves before a reset *)
Absorb(d, f) ==
  IF ~Authorized(d, f) THEN [out |-> "reject", state |-> d]
  ELSE IF d.frags[f.index] # <<>>
    THEN [out |-> IF d.frags[f.index] = f.fragment THEN "wait" ELSE "reject", state |-> d]
  ELSE LET s == Stored(d, f)
       IN  [out |-> IF ~AllReceived(s) THEN "wait"
                    ELSE IF VerifySession(Joined(s), s.session) THEN "done"
                    ELSE "reject",
            state |-> s]

(* Mutant: a rejected frame leaves the assembly alone. *)
Mutant_KeepOnReject(d, f) ==
  LET a == Absorb(d, f) IN IF a.out = "done" THEN Clean ELSE a.state

(* decode_frame: every outcome but "still waiting" ends the session *)
AfterFrame(d, f) ==
  LET a == Absorb(d, f) IN IF a.out = "wait" THEN a.state ELSE Clean

(* what decode_frame hands to its caller *)
Returned(d, f) ==
  LET a == Absorb(d, f) IN IF a.out = "done" THEN Joined(a.state) ELSE NoPayload

-----------------------------------------------------------------------------
QrInit ==
  /\ screen = [payload |-> NoPayload, frames |-> <<>>]
  /\ decoder = Clean
  /\ got = NoPayload
  /\ shows = 0 /\ resets = 0

(* generate_frames, and the user puts the result on a screen *)
Show(p, producer) ==
  /\ shows < MaxShows
  /\ CanFrame(p, producer)
  /\ screen' = [payload |-> p, frames |-> frame_payloads(p, producer)]
  /\ got' = NoPayload
  /\ shows' = shows + 1
  /\ UNCHANGED <<decoder, resets>>

(* decode_frame on the i-th code of the loop.  A code that is not a frame  *)
(* is refused by parse_frame before the decoder is touched.                *)
Scan(i) ==
  /\ i \in DOMAIN screen.frames
  /\ IsFrame(screen.frames[i])
  /\ decoder' = AfterFrame(decoder, screen.frames[i])
  /\ LET r == Returned(decoder, screen.frames[i])
     IN  got' = IF r = NoPayload THEN got ELSE r
  /\ UNCHANGED <<screen, shows, resets>>

(* reset_decoder *)
Reset ==
  /\ resets < MaxResets
  /\ decoder' = Clean
  /\ resets' = resets + 1
  /\ UNCHANGED <<screen, got, shows>>

QrNext ==
  \/ \E p \in Payloads, producer \in Producers : Show(p, producer)
  \/ \E i \in 1 .. MAX_FRAMES : Scan(i)
  \/ Reset

QrSpec == QrInit /\ [][QrNext]_qrVars

(* The loop shows every code again and again and the camera stays on it.   *)
QrFairness == \A i \in 1 .. MAX_FRAMES : WF_qrVars(Scan(i))

QrFairSpec == QrSpec /\ QrFairness

-----------------------------------------------------------------------------
(* Properties *)

QrTypeOK ==
  /\ screen.payload \in Payloads \cup {NoPayload}
  /\ decoder.session \in Payloads \cup {NoPayload}
  /\ decoder.total \in 0 .. MAX_FRAMES
  /\ got = NoPayload \/ got \in Payloads
  /\ shows \in Nat /\ resets \in Nat

(* decode_frame returns the payload on the screen or nothing, whatever was *)
(* left in the assembly by earlier screens, other producers of the same    *)
(* payload included.                                                       *)
DeliveredIsOnScreen == got # NoPayload => got = screen.payload

(* The frames frame_payloads makes are frames parse_frame accepts, as many *)
(* as each of them says, and their fragments put together are the payload. *)
FramesReassemble ==
  \A i \in DOMAIN screen.frames :
    LET f == screen.frames[i]
    IN  f.session = NoPayload \/
          (/\ IsFrame(f) /\ f.index = i /\ f.total = Len(screen.frames)
           /\ FlattenSeq([j \in DOMAIN screen.frames |-> screen.frames[j].fragment])
                = screen.payload)

(* Every fragment the decoder holds is the one some producer puts at that  *)
(* place of a transfer of the active payload with that many frames: frames *)
(* of two transfers never meet in the assembly.                            *)
FragmentsBelong ==
  \A i \in 1 .. MAX_FRAMES :
    decoder.frags[i] # <<>> =>
      \E producer \in Producers :
        LET parts == Fragments(decoder.session, producer)
        IN  Len(parts) = decoder.total /\ i <= Len(parts) /\ parts[i] = decoder.frags[i]

(* Frames are cut so that they reassemble, and the assembly only ever holds *)
(* what some producer put at that place of the active transfer.            *)
AssemblyIsFaithful == FramesReassemble /\ FragmentsBelong

(* A payload of several frames that stays on the screen is delivered, even *)
(* if the decoder still holds the beginning of something else.             *)
ScreenIsDelivered ==
  \A n \in 1 .. MaxShows :
    (shows = n /\ Len(screen.frames) > 1) ~> (got = screen.payload \/ shows > n)
=============================================================================
