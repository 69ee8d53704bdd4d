---------------------------- MODULE WrpcService ----------------------------
(***************************************************************************)
(* What network::transport::traits::Transport promises to the callers of   *)
(* a wRPC connection, with no drivers, sockets or queues: a call is open   *)
(* until it returns or is abandoned, and requests reach the wire.          *)
(***************************************************************************)
EXTENDS Naturals, Sequences

CONSTANTS Callers, Ops, AllOps, Submit, NextNote, Replay, MaxCalls

VARIABLES
  calls,    \* calls[c]: the calls of c in order, with their outcomes
  log       \* the requests put on a wire, in the order of their ids

svars == <<calls, log>>

Call(c, n) == [who |-> c, n |-> n]

Current(c) == Len(calls[c])

Open(c) == calls[c] # <<>> /\ calls[c][Current(c)].out = "open"

Sent(c, n) == {i \in DOMAIN log : log[i] = Call(c, n)}

Init ==
  /\ calls = [c \in Callers |-> <<>>]
  /\ log = <<>>

Begin(c, op) ==
  /\ ~Open(c) /\ Len(calls[c]) < MaxCalls[c]
  /\ calls' = [calls EXCEPT ![c] = Append(@, [op |-> op, out |-> "open"])]
  /\ UNCHANGED log

\* A submission leaves at most once, any other request at most twice, and
\* none after its caller has been told how it ended.
MaySend(c, n) ==
  /\ calls[c][n].out \in {"open", "cancelled"}
  /\ calls[c][n].op # NextNote
  /\ IF calls[c][n].op = Submit THEN Sent(c, n) = {}
     ELSE \A i, j \in Sent(c, n) : i = j

Transmit(c, n) ==
  /\ MaySend(c, n)
  /\ log' = Append(log, Call(c, n))
  /\ UNCHANGED calls

\* The transport may also send requests of its own.
Resubscribe ==
  /\ log' = Append(log, Replay)
  /\ UNCHANGED calls

Close(c, out) ==
  /\ Open(c)
  /\ calls' = [calls EXCEPT ![c][Current(c)].out = out]
  /\ UNCHANGED log

Succeed(c) ==
  /\ Open(c)
  /\ calls[c][Current(c)].op # NextNote => Sent(c, Current(c)) # {}
  /\ Close(c, "ok")

Fail(c) == Close(c, "err")
Abandon(c) == Close(c, "cancelled")

Next ==
  \/ \E c \in Callers :
       \/ \E op \in Ops[c] : Begin(c, op)
       \/ \E n \in DOMAIN calls[c] : Transmit(c, n)
       \/ Succeed(c) \/ Fail(c) \/ Abandon(c)
  \/ Resubscribe

Spec == Init /\ [][Next]_svars
=============================================================================
