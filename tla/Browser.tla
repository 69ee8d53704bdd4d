------------------------------ MODULE Browser ------------------------------
(***************************************************************************)
(* The browser transport: notification sockets kept in a thread-local      *)
(* registry behind one key slot (platform/browser/notifications.rs), and   *)
(* the sockets opened for a single request (platform/browser/websocket.rs).*)
(*                                                                         *)
(* JavaScript runs one callback at a time and, before the next event of    *)
(* the browser, every continuation whose promise was resolved; `woken`     *)
(* marks those.  An application task may make its next call whenever it    *)
(* is idle, and may drop a future it waits for.  A registry key stands for *)
(* its socket (keys are never reused), a frame is its number on its        *)
(* socket.                                                                 *)
(***************************************************************************)
EXTENDS Naturals, Sequences

CONSTANTS
  Apps,            \* tasks of the application that share the transport
  Ops,             \* Ops[a]: the operations task a uses
  None,
  MaxOps,          \* bound: calls of each task
  MaxSockets,      \* bound: notification sockets opened
  MaxFrames,       \* bound: frames a node sends on one socket
  MaxDisconnects,  \* bound: disconnect() calls
  MaxDrops         \* bound: futures dropped while they wait

OpNames == {"subscribe", "next", "call"}

ASSUME BrowserAssumption ==
  /\ Ops \in [Apps -> SUBSET OpNames]
  /\ MaxOps \in [Apps -> Nat]
  /\ {MaxSockets, MaxFrames, MaxDisconnects, MaxDrops} \subseteq Nat
  /\ None \notin Apps /\ None \notin 1..MaxSockets

VARIABLES
  sock,      \* the notification sockets
  registry,  \* SOCKETS: the sockets whose handlers are installed
  slot,      \* notification_key
  task,      \* control state of the application tasks
  call,      \* the socket and the result cell of each task's request
  left       \* what the bounds leave: disconnects and drops

vars == <<sock, registry, slot, task, call, left>>
callVars == <<sock, registry, slot, left>>

Sockets == 1..MaxSockets

-----------------------------------------------------------------------------

\* Socket, with its WebSocket (st), whether the node knows a subscription,
\* and, for the properties, the frames its handler heard and next_frame gave
\* out, and who ended it.
Socket ==
  [ st : {"unused", "connecting", "open", "gone"}, opener : Apps \cup {None},
    frames : Seq(1..MaxFrames), waiter : Apps \cup {None}, closed : BOOLEAN,
    subs : BOOLEAN, sent : 0..MaxFrames,
    heard : Seq(1..MaxFrames), given : Seq(1..MaxFrames),
    end : {"none", "reader", "disconnect"} ]

Unused ==
  [ st |-> "unused", opener |-> None, frames |-> <<>>, waiter |-> None,
    closed |-> FALSE, subs |-> FALSE, sent |-> 0,
    heard |-> <<>>, given |-> <<>>, end |-> "none" ]

\* What a call of a task returned.
Outcomes ==
  { "nothing", "ok", "failed", "frame", "closed", "inactive",
    "answer", "refused", "send_failed", "connection_failed",
    "connect_timeout", "response_timeout" }

Task ==
  [ pc : {"idle", "open", "wait", "call"}, key : Sockets \cup {None},
    woken : BOOLEAN, told : Outcomes, calls : Nat ]

\* The request-scoped WebSocket, request_sent and the shared result.  `handled`:
\* the callbacks are installed and alive.
Call ==
  [ ws : {"unused", "connecting", "open", "gone"}, handled : BOOLEAN,
    sent : BOOLEAN, result : Outcomes ]

NoCall == [ws |-> "unused", handled |-> FALSE, sent |-> FALSE, result |-> "nothing"]

Init ==
  /\ sock = [s \in Sockets |-> Unused]
  /\ registry = {}
  /\ slot = None
  /\ task = [a \in Apps |-> [ pc |-> "idle", key |-> None, woken |-> FALSE,
                              told |-> "nothing", calls |-> MaxOps[a] ]]
  /\ call = [a \in Apps |-> NoCall]
  /\ left = [disconnects |-> MaxDisconnects, drops |-> MaxDrops]

-----------------------------------------------------------------------------

\* Task a makes a call of its own.
Calls(a, op) ==
  /\ op \in Ops[a] /\ task[a].pc = "idle" /\ task[a].calls > 0

Starts(t) == [t EXCEPT !.calls = @ - 1, !.told = "nothing"]
Returns(t, outcome) ==
  [t EXCEPT !.pc = "idle", !.key = None, !.woken = FALSE, !.told = outcome]
Waits(t, pc, s) == [t EXCEPT !.pc = pc, !.key = s, !.woken = FALSE]

\* The browser delivers an event only when no continuation is left to run.
Calm == \A a \in Apps : ~task[a].woken

\* wake, for a socket whose waiter was taken: only the promise that its task
\* awaits now has a continuation.
Woken(s) ==
  [a \in Apps |->
     IF a = sock[s].waiter /\ task[a].pc = "wait" /\ task[a].key = s
       THEN [task[a] EXCEPT !.woken = TRUE] ELSE task[a]]

\* close: the handlers are removed, the WebSocket closed, and with the last
\* reference go the frames and the waiter, whose promise stays unresolved.
Close(sk, by) ==
  [sk EXCEPT !.st = "gone", !.frames = <<>>, !.waiter = None, !.end = by]

\* subscribe: a browser discards what is sent on a socket that is closing or
\* closed, without an error.
Transmit(sk) == [sk EXCEPT !.subs = @ \/ sk.st = "open"]

-----------------------------------------------------------------------------
(* subscribe_on.                                                           *)

\* The slot holds a key: the request is sent at once.
SubscribeOnSlot(a) ==
  /\ Calls(a, "subscribe")
  /\ slot # None
  /\ IF slot \in registry
       THEN /\ sock' = [sock EXCEPT ![slot] = Transmit(@)]
            /\ task' = [task EXCEPT ![a] = Returns(Starts(@), "ok")]
       ELSE /\ sock' = sock
            /\ task' = [task EXCEPT ![a] = Returns(Starts(@), "failed")]
  /\ UNCHANGED <<registry, slot, call, left>>

\* The slot is empty: open() creates a WebSocket and waits for it.
SubscribeOpens(a) ==
  /\ Calls(a, "subscribe")
  /\ slot = None
  /\ \E s \in Sockets :
       /\ sock[s].st = "unused" /\ \A r \in 1..(s-1) : sock[r].st # "unused"
       /\ sock' = [sock EXCEPT ![s].st = "connecting", ![s].opener = a]
       /\ task' = [task EXCEPT ![a] = Waits(Starts(@), "open", s)]
  /\ UNCHANGED <<registry, slot, call, left>>

\* wait_open's handlers: the browser reports that the socket is open, or that
\* it failed.  A dropped future has no continuation.
Decide(s, st) ==
  /\ Calm
  /\ sock[s].st = "connecting"
  /\ sock' = [sock EXCEPT ![s].st = st]
  /\ task' = [a \in Apps |-> IF task[a].pc = "open" /\ task[a].key = s
                               THEN [task[a] EXCEPT !.woken = TRUE] ELSE task[a]]
  /\ UNCHANGED <<registry, slot, call, left>>

Opened(s) == Decide(s, "open")
OpenFailed(s) == Decide(s, "gone")

\* open() registers the socket, subscribe_on fills the slot and sends.
ResumeSubscribe(a) ==
  /\ task[a].pc = "open" /\ task[a].woken
  /\ LET s == task[a].key
     IN  IF sock[s].st = "open"
           THEN /\ registry' = registry \cup {s}
                /\ slot' = s
                /\ sock' = [sock EXCEPT ![s] = Transmit(@)]
                /\ task' = [task EXCEPT ![a] = Returns(@, "ok")]
           ELSE /\ task' = [task EXCEPT ![a] = Returns(@, "failed")]
                /\ UNCHANGED <<registry, slot, sock>>
  /\ UNCHANGED <<call, left>>

-----------------------------------------------------------------------------
(* The handlers of a registered socket.                                    *)

\* on_message
Message(s) ==
  /\ Calm
  /\ sock[s].st = "open" /\ sock[s].subs /\ sock[s].sent < MaxFrames
  /\ LET n == sock[s].sent + 1
     IN  IF s \in registry
           THEN /\ sock' = [sock EXCEPT ![s].sent = n, ![s].frames = Append(@, n),
                                        ![s].heard = Append(@, n), ![s].waiter = None]
                /\ task' = Woken(s)
           ELSE sock' = [sock EXCEPT ![s].sent = n] /\ task' = task
  /\ UNCHANGED <<registry, slot, call, left>>

\* Mutant: on_close does not wake the waiter.
PeerClosesQuietly(s) ==
  /\ Calm
  /\ sock[s].st = "open"
  /\ sock' = [sock EXCEPT ![s].st = "gone", ![s].closed = s \in registry]
  /\ UNCHANGED <<registry, slot, task, call, left>>

\* on_close, also installed for errors: the node or the network ended the
\* socket.
PeerCloses(s) ==
  /\ Calm
  /\ sock[s].st = "open"
  /\ IF s \in registry
       THEN /\ sock' = [sock EXCEPT ![s].st = "gone", ![s].closed = TRUE, ![s].waiter = None]
            /\ task' = Woken(s)
       ELSE sock' = [sock EXCEPT ![s].st = "gone"] /\ task' = task
  /\ UNCHANGED <<registry, slot, call, left>>

-----------------------------------------------------------------------------
(* next_on and the loop of next_frame.                                     *)

\* Mutant: next_on leaves the slot as it is.
NextFailsOnly(a, t, s, sk) ==
  /\ sock' = IF s \in registry THEN [sock EXCEPT ![s] = Close(sk, "reader")] ELSE sock
  /\ registry' = registry \ {s}
  /\ task' = [task EXCEPT ![a] = Returns(t, "closed")]
  /\ slot' = slot

\* next_on returns an error: it empties the slot.
NextFails(a, t, s, sk) ==
  /\ sock' = IF s \in registry THEN [sock EXCEPT ![s] = Close(sk, "reader")] ELSE sock
  /\ registry' = registry \ {s}
  /\ slot' = None
  /\ task' = [task EXCEPT ![a] = Returns(t, "closed")]

NextReturns(a, t, s, sk) ==
  /\ sock' = [sock EXCEPT ![s].frames = Tail(sk.frames),
                          ![s].given = Append(@, Head(sk.frames))]
  /\ task' = [task EXCEPT ![a] = Returns(t, "frame")]
  /\ UNCHANGED <<registry, slot>>

NextWaits(a, t, s) ==
  /\ sock' = [sock EXCEPT ![s].waiter = a]
  /\ task' = [task EXCEPT ![a] = Waits(t, "wait", s)]
  /\ UNCHANGED <<registry, slot>>

\* Mutant: the loop looks at the closed flag first.
PollClosedFirst(a, t, s) ==
  LET sk == sock[s]
  IN  \/ (s \notin registry \/ sk.closed) /\ NextFails(a, t, s, sk)
      \/ s \in registry /\ ~sk.closed /\ sk.frames # <<>> /\ NextReturns(a, t, s, sk)
      \/ s \in registry /\ ~sk.closed /\ sk.frames = <<>> /\ NextWaits(a, t, s)

\* One round of the loop, by task a (whose record is t) on key s.
Poll(a, t, s) ==
  LET sk == sock[s]
  IN  \/ s \notin registry /\ NextFails(a, t, s, sk)
      \/ s \in registry /\ sk.frames # <<>> /\ NextReturns(a, t, s, sk)
      \/ s \in registry /\ sk.frames = <<>> /\ sk.closed /\ NextFails(a, t, s, sk)
      \/ s \in registry /\ sk.frames = <<>> /\ ~sk.closed /\ NextWaits(a, t, s)

NextOn(a) ==
  /\ Calls(a, "next")
  /\ IF slot = None
       THEN /\ task' = [task EXCEPT ![a] = Returns(Starts(@), "inactive")]
            /\ UNCHANGED <<sock, registry, slot>>
       ELSE Poll(a, Starts(task[a]), slot)
  /\ UNCHANGED <<call, left>>

ResumeNext(a) ==
  /\ task[a].pc = "wait" /\ task[a].woken
  /\ Poll(a, task[a], task[a].key)
  /\ UNCHANGED <<call, left>>

\* close_on, from Transport::disconnect.
Disconnect ==
  /\ left.disconnects > 0
  /\ left' = [left EXCEPT !.disconnects = @ - 1]
  /\ sock' = [s \in Sockets |-> IF s = slot /\ s \in registry
                                  THEN Close(sock[s], "disconnect") ELSE sock[s]]
  /\ registry' = registry \ {slot}
  /\ slot' = None
  /\ UNCHANGED <<task, call>>

-----------------------------------------------------------------------------
(* call_inner: a socket for one request.                                   *)

StartCall(a) ==
  /\ Calls(a, "call")
  /\ call' = [call EXCEPT ![a] = [NoCall EXCEPT !.ws = "connecting", !.handled = TRUE]]
  /\ task' = [task EXCEPT ![a] = Waits(Starts(@), "call", None)]
  /\ UNCHANGED callVars

\* complete: the first result stays, and resolves the promise.
Complete(a, ws, sent, outcome) ==
  /\ call' = [call EXCEPT ![a].ws = ws, ![a].sent = sent,
                          ![a].result = IF @ = "nothing" THEN outcome ELSE @]
  /\ task' = [task EXCEPT ![a].woken = (call[a].result = "nothing")]
  /\ UNCHANGED callVars

\* on_open sends the request.  Callbacks that were removed or whose closures
\* were dropped do nothing.
CallOpened(a) ==
  /\ Calm
  /\ call[a].ws = "connecting"
  /\ \/ /\ call' = [call EXCEPT ![a].ws = "open", ![a].sent = @ \/ call[a].handled]
        /\ UNCHANGED <<task, callVars>>
     \/ call[a].handled /\ Complete(a, "open", FALSE, "send_failed")

\* A frame as validate_response sees it: each of its optional id and operation
\* is absent, the one of the request, or another.
ReplyFrames ==
  [ id : {"none", "own", "other"}, op : {"none", "own", "other"},
    kind : {"success", "error", "notification"} ]

validate_response(frame) ==
  IF frame.id # "other" /\ frame.op # "other" /\ frame.kind = "success"
    THEN "answer" ELSE "refused"

\* on_message; a frame that is not binary or does not decode is refused too.
CallMessage(a) ==
  /\ Calm
  /\ call[a].ws = "open" /\ call[a].handled /\ call[a].sent
  /\ \E outcome \in {validate_response(f) : f \in ReplyFrames} :
       Complete(a, "open", TRUE, outcome)

\* on_error and on_close
CallBroken(a) ==
  /\ Calm
  /\ call[a].ws \in {"connecting", "open"} /\ call[a].handled
  /\ Complete(a, "gone", call[a].sent, "connection_failed")

\* on_timeout
CallTimeout(a) ==
  /\ Calm
  /\ task[a].pc = "call" /\ call[a].handled
  /\ Complete(a, call[a].ws, call[a].sent,
              IF call[a].sent THEN "response_timeout" ELSE "connect_timeout")

\* Mutant: the callbacks stay and the socket is not closed.
ResumeCallOnly(a) ==
  /\ task[a].pc = "call" /\ task[a].woken
  /\ task' = [task EXCEPT ![a] = Returns(@, call[a].result)]
  /\ UNCHANGED <<call, callVars>>

\* The continuation stops the timer, removes the callbacks, closes the socket
\* and takes the result.
ResumeCall(a) ==
  /\ task[a].pc = "call" /\ task[a].woken
  /\ call' = [call EXCEPT ![a].ws = "gone", ![a].handled = FALSE]
  /\ task' = [task EXCEPT ![a] = Returns(@, call[a].result)]
  /\ UNCHANGED callVars

\* A task drops the future it waits for: its promise has no continuation any
\* more, the closures of call_inner are gone, and nothing closes a socket.
Drop(a) ==
  /\ left.drops > 0
  /\ task[a].pc # "idle"
  /\ left' = [left EXCEPT !.drops = @ - 1]
  /\ task' = [task EXCEPT ![a] = Returns(@, "nothing")]
  /\ call' = [call EXCEPT ![a].handled = FALSE]
  /\ UNCHANGED <<sock, registry, slot>>

-----------------------------------------------------------------------------

Next ==
  \/ \E a \in Apps :
       \/ SubscribeOnSlot(a) \/ SubscribeOpens(a) \/ ResumeSubscribe(a)
       \/ NextOn(a) \/ ResumeNext(a)
       \/ StartCall(a) \/ CallOpened(a) \/ CallMessage(a) \/ CallBroken(a)
       \/ CallTimeout(a) \/ ResumeCall(a)
       \/ Drop(a)
  \/ \E s \in Sockets : Opened(s) \/ OpenFailed(s) \/ Message(s) \/ PeerCloses(s)
  \/ Disconnect

Spec == Init /\ [][Next]_vars

\* The tasks that may make a call of this kind.
Doing(op) == { a \in Apps : op \in Ops[a] }

\* The event loop runs every continuation, and the timer of a call fires.
Fairness ==
  /\ \A a \in Doing("subscribe") : WF_vars(ResumeSubscribe(a))
  /\ \A a \in Doing("next") : WF_vars(ResumeNext(a))
  /\ \A a \in Doing("call") : WF_vars(ResumeCall(a)) /\ WF_vars(CallTimeout(a))

FairSpec == Spec /\ Fairness

-----------------------------------------------------------------------------
(* Properties.                                                             *)

TypeOK ==
  /\ sock \in [Sockets -> Socket]
  /\ registry \in SUBSET Sockets
  /\ slot \in Sockets \cup {None}
  /\ task \in [Apps -> Task]
  /\ call \in [Apps -> Call]
  /\ left \in [disconnects : 0..MaxDisconnects, drops : 0..MaxDrops]

\* The key in the slot always names a registered socket, however opens, reads
\* and disconnects overlap: subscribe_on would otherwise fail with
\* "notification socket is closed" for good, since it opens a socket only when
\* the slot is empty.
SlotIsRegistered == slot # None => slot \in registry

\* next_frame gives out the frames of a socket in the order in which they
\* arrived, each once, also when readers are dropped while they wait or after
\* they were woken; and a reader is told that the socket closed only after
\* every frame that arrived before was given out.
FramesComplete ==
  \A s \in Sockets :
    /\ s \in registry => sock[s].given \o sock[s].frames = sock[s].heard
    /\ sock[s].end = "reader" => sock[s].given = sock[s].heard

\* A call that reported a connect timeout has not sent its request and never
\* will, although its socket may open later: the caller may repeat it.  A call
\* that reported a response timeout, or an answer, did send it.
TimeoutIsTold ==
  \A a \in Apps :
    /\ task[a].told = "connect_timeout" => ~call[a].sent
    /\ task[a].told \in {"response_timeout", "answer"} => call[a].sent

\* A task that waits for a frame returns once one arrives or the node closes
\* the socket, unless the socket is closed by disconnect.  (For one reader at
\* a time: a second one takes the waiter's place.)
ReaderIsServed ==
  \A a \in Doing("next"), s \in Sockets :
    ( /\ task[a].pc = "wait" /\ task[a].key = s
      /\ s \in registry /\ (sock[s].frames # <<>> \/ sock[s].closed) )
      ~> (task[a].pc # "wait" \/ s \notin registry)

\* Every request ends: the timer covers the connection attempt and the answer.
CallReturns == \A a \in Doing("call") : task[a].pc = "call" ~> task[a].pc # "call"

\* Neither a reader nor a request waits for ever: both of the above.
EveryWaitReturns == ReaderIsServed /\ CallReturns

=============================================================================
