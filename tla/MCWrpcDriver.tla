---------------------------- MODULE MCWrpcDriver ----------------------------
(* Instances of WrpcDriver for TLC. *)
EXTENDS WrpcDriver, TLC

CONSTANTS c1, c2, t1, t2

Pair == {c1, c2}

Twice == [c \in Pair |-> 2]
TwiceAndOnce == (c1 :> 2) @@ (c2 :> 1)

\* One caller subscribes to two topics, so that a replay has an order; the
\* other waits for notifications.
NoteOps == (c1 :> {t1, t2}) @@ (c2 :> {NextNote})

\* NoteOps treats the topics alike.
TopicSymmetry == Permutations({t1, t2})

\* One caller submits, the other reads or waits.
CallOps == (c1 :> {Submit}) @@ (c2 :> {Read, NextNote})
=============================================================================
