------------------------------- MODULE MCDesk -------------------------------
(* Instances of Browser, Portal and QrFrames for TLC. *)
EXTENDS Desk, TLC

CONSTANTS sub1, sub2, reader

Three == {sub1, sub2, reader}

\* Two tasks subscribe, the third reads and makes calls.
Shared == (sub1 :> {"subscribe"}) @@ (sub2 :> {"subscribe"}) @@ (reader :> {"next", "call"})
Budget == (sub1 :> 1) @@ (sub2 :> 1) @@ (reader :> 2)

-----------------------------------------------------------------------------
(* The payloads share fragments, so that frames of one could complete       *)
(* another; the longest does not fit MAX_FRAMES frames of the smaller       *)
(* producer.                                                                *)
MCPayloads ==
  {<<1>>, <<1, 2, 1, 2>>, <<3, 3, 1, 2>>, <<1, 2, 1, 2, 1>>,
   <<1, 2, 3, 1, 2, 3, 4>>, <<1, 2, 1, 2, 1, 2, 1, 2, 1>>}

MCProducers == {[data |-> 2, single |-> 3], [data |-> 3, single |-> 3]}

(* The real capacities of codec.rs: every length between one code and 64    *)
(* frames of 91 bytes splits into exactly the announced number of frames,   *)
(* and each fits the 134-byte buffer with its 18-byte header.               *)
ASSUME RealCapacities ==
  \A n \in 135 .. 64 * 91 :
    LET total == CeilDiv(n, 91)
        size  == CeilDiv(n, total)
    IN  CeilDiv(n, size) = total /\ total >= 2 /\ size <= 91 /\ 18 + size <= 134
=============================================================================
