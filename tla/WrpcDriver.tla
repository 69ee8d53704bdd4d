----------------------------- MODULE WrpcDriver -----------------------------
(***************************************************************************)
(* The native Kaspa wRPC transport: callers of NativeWebSocketTransport    *)
(* (platform/native/websocket.rs) and the driver tasks that own the socket *)
(* (platform/native/websocket_driver.rs).                                  *)
(*                                                                         *)
(* A caller clones the command sender of the driver held in the            *)
(* transport's slot, sends a command through a bounded channel and awaits  *)
(* a oneshot.  A driver owns one websocket, one active call, a FIFO of     *)
(* queued calls, a bounded FIFO of notification frames, a FIFO of          *)
(* notification waiters and the list of remembered subscriptions.          *)
(* `disconnect` empties the slot and signals the old driver; the next call *)
(* spawns a new driver, so several drivers may run at once.                *)
(*                                                                         *)
(* A ticket stands for the oneshot sender of one attempt of one call.  The *)
(* payload of a Subscribe call is its topic; other payloads are left out.  *)
(* Errors keep the one distinction call_inner makes: "retryable" (see      *)
(* reconnectable_transport_error) or "fatal".                              *)
(***************************************************************************)
EXTENDS Naturals, Sequences, FiniteSets, Functions

CONSTANTS
  Callers,        \* tasks that call the transport
  Topics,         \* subscription payloads
  Ops,            \* Ops[c]: the operations caller c uses
  Submit,         \* Operation::SubmitTransaction
  Read,           \* any other operation with a response
  NextNote,       \* Transport::next_notification
  Replay,         \* marks a request made by establish_stream
  None,
  MaxCalls,       \* bound: MaxCalls[c] calls by caller c
  MaxDrivers,     \* bound: drivers spawned, one more than disconnects
  MaxNotes,       \* bound: notification frames per driver
  MaxRetries,     \* NetworkConfig.max_retries
  ChannelCap,     \* DRIVER_COMMAND_CAPACITY
  NoteCap,        \* MAX_QUEUED_NOTIFICATIONS
  Faults          \* what a peer may do beyond answering and closing

ASSUME BoundsAssumption ==
  /\ MaxCalls \in [Callers -> Nat] /\ MaxDrivers \in Nat /\ MaxNotes \in Nat
  /\ MaxRetries \in Nat /\ ChannelCap \in Nat \ {0} /\ NoteCap \in Nat

AllOps == Topics \cup {Submit, Read, NextNote}

ASSUME OpsAssumption ==
  /\ Submit \notin Topics /\ Read \notin Topics /\ NextNote \notin Topics
  /\ Submit # Read /\ Submit # NextNote /\ Read # NextNote
  /\ Ops \in [Callers -> SUBSET AllOps]

ASSUME FaultsAssumption == Faults \subseteq {"garbage", "badid", "badop"}

VARIABLES
  slot,           \* the driver handle held by the transport, or None
  drv,            \* the driver tasks
  cl,             \* the callers' control state
  hist,           \* hist[c]: the calls of c and how each of them ended
  reqs            \* reqs[i]: the ticket sent with request id i, or Replay

vars == <<slot, drv, cl, hist, reqs>>

-----------------------------------------------------------------------------

Drivers == 1..MaxDrivers

Tickets == [who : Callers, n : Nat, try : 1..2]

ActiveCall == [id : Nat \ {0}, tk : Tickets]

ASSUME MarksAssumption ==
  /\ None \notin ActiveCall /\ None \notin Drivers
  /\ Replay \notin Tickets /\ Replay \notin [who : Callers, n : Nat]

Results == [kind : {"ok", "retryable", "fatal"}, id : Nat]

\* A oneshot value: an answer to request i (or notification frame i), an error.
Ok(i) == [kind |-> "ok", id |-> i]
Retryable == [kind |-> "retryable", id |-> 0]
Fatal == [kind |-> "fatal", id |-> 0]

\* The local state of run_driver, with the state of its socket:
\*   open   ids sent on this socket and not answered yet
\*   srv    topics the peer has acknowledged on this socket
\*   got    notification frames accepted so far; frame i is the i-th of them
\*   took   the last frame handed to a oneshot
DriverState ==
  [ phase   : {"unborn", "top", "connect", "replay", "ack", "start", "select", "dead"},
    shut    : BOOLEAN,
    cmds    : Seq(Tickets),
    stream  : BOOLEAN,
    subs    : Seq(Topics),
    queued  : Seq(Tickets),
    active  : ActiveCall \cup {None},
    notes   : Seq(Nat),
    waiters : Seq(Tickets),
    retry   : Nat,
    pos     : Nat,
    rid     : Nat,
    open    : SUBSET Nat,
    srv     : SUBSET Topics,
    got     : Nat,
    took    : Nat ]

CallerState ==
  [ pc  : {"idle", "acquire", "send", "wait", "got"},
    try : 1..2,
    at  : Drivers \cup {None},
    res : Results ]

CallRecord ==
  [op : AllOps, out : {"open", "ok", "err", "cancelled"}]

FreshDriver ==
  [ phase |-> "unborn", shut |-> FALSE, cmds |-> <<>>, stream |-> FALSE,
    subs |-> <<>>, queued |-> <<>>, active |-> None, notes |-> <<>>,
    waiters |-> <<>>, retry |-> 0, pos |-> 0, rid |-> 0, open |-> {},
    srv |-> {}, got |-> 0, took |-> 0 ]

IdleCaller == [pc |-> "idle", try |-> 1, at |-> None, res |-> Fatal]

Init ==
  /\ slot = None
  /\ drv = [d \in Drivers |-> FreshDriver]
  /\ cl = [c \in Callers |-> IdleCaller]
  /\ hist = [c \in Callers |-> <<>>]
  /\ reqs = <<>>

-----------------------------------------------------------------------------
(* Oneshots *)

OpOf(t) == hist[t.who][t.n].op

\* The ticket of the attempt c is making now.
Ticket(c) == [who |-> c, n |-> Len(hist[c]), try |-> cl[c].try]

\* The receiving half still exists: oneshot::Sender::send returns Ok.
Live(t) == cl[t.who].pc = "wait" /\ Ticket(t.who) = t

\* Send res through every oneshot of the set T; dead ones ignore it.
Deliver(T, res) ==
  cl' = [c \in Callers |->
           IF cl[c].pc = "wait" /\ Ticket(c) \in T
           THEN [cl[c] EXCEPT !.pc = "got", !.res = res]
           ELSE cl[c]]

\* Waiters are popped until one accepts the frame.
HasLive(w) == \E i \in DOMAIN w : Live(w[i])

\* Mutant: the frame goes to the oldest waiter, dropped or not.
FirstWaiter(w) == 1

FirstLive(w) ==
  CHOOSE i \in DOMAIN w : Live(w[i]) /\ \A j \in DOMAIN w : j < i => ~Live(w[j])

Acceptor(w) == IF HasLive(w) THEN {w[FirstLive(w)]} ELSE {}

PastAcceptor(w) ==
  IF HasLive(w) THEN SubSeq(w, FirstLive(w) + 1, Len(w)) ELSE <<>>

-----------------------------------------------------------------------------
(* Callers: call_inner, call_once, next_notification_inner *)

Closed(d) == drv[d].phase = "dead"

Begin(c, op) ==
  /\ cl[c].pc = "idle" /\ Len(hist[c]) < MaxCalls[c]
  /\ hist' = [hist EXCEPT ![c] = Append(@, [op |-> op, out |-> "open"])]
  /\ cl' = [cl EXCEPT ![c] = [IdleCaller EXCEPT !.pc = "acquire"]]
  /\ UNCHANGED <<slot, drv, reqs>>

SlotUsable == slot # None /\ ~Closed(slot)

ReuseDriver(c) ==
  /\ cl[c].pc = "acquire" /\ SlotUsable
  /\ cl' = [cl EXCEPT ![c].pc = "send", ![c].at = slot]
  /\ UNCHANGED <<slot, drv, hist, reqs>>

\* The spawned driver starts with no socket and no subscription.
SpawnDriver(c, d) ==
  /\ cl[c].pc = "acquire" /\ ~SlotUsable
  /\ drv[d].phase = "unborn" /\ \A e \in Drivers : e < d => drv[e].phase # "unborn"
  /\ slot' = d
  /\ drv' = [drv EXCEPT ![d].phase = "top"]
  /\ cl' = [cl EXCEPT ![c].pc = "send", ![c].at = d]
  /\ UNCHANGED <<hist, reqs>>

SendCommand(c) ==
  LET d == cl[c].at IN
  /\ cl[c].pc = "send" /\ ~Closed(d)
  /\ Len(drv[d].cmds) < ChannelCap
  /\ drv' = [drv EXCEPT ![d].cmds = Append(@, Ticket(c))]
  /\ cl' = [cl EXCEPT ![c].pc = "wait"]
  /\ UNCHANGED <<slot, hist, reqs>>

\* mpsc send failed: reset_driver_if_closed, then ConnectionFailed.
SendToClosed(c) ==
  /\ cl[c].pc = "send" /\ Closed(cl[c].at)
  /\ slot' = IF slot # None /\ Closed(slot) THEN None ELSE slot
  /\ cl' = [cl EXCEPT ![c].pc = "got", ![c].res = Retryable]
  /\ UNCHANGED <<drv, hist, reqs>>

\* Mutant: a submission is retried like any other operation.
RetrySubmit(c) ==
  /\ cl[c].res.kind = "retryable"
  /\ cl[c].try = 1

ShouldRetry(c) ==
  /\ cl[c].res.kind = "retryable"
  /\ cl[c].try = 1
  /\ hist[c][Len(hist[c])].op # Submit

Return(c, out) ==
  /\ hist' = [hist EXCEPT ![c][Len(hist[c])].out = out]
  /\ cl' = [cl EXCEPT ![c] = IdleCaller]

Retry(c) ==
  /\ cl[c].pc = "got" /\ ShouldRetry(c)
  /\ cl' = [cl EXCEPT ![c] = [IdleCaller EXCEPT !.pc = "acquire", !.try = cl[c].try + 1]]
  /\ UNCHANGED <<slot, drv, hist, reqs>>

Finish(c) ==
  /\ cl[c].pc = "got" /\ ~ShouldRetry(c)
  /\ Return(c, IF cl[c].res.kind = "ok" THEN "ok" ELSE "err")
  /\ UNCHANGED <<slot, drv, reqs>>

\* The caller drops the future at an await point; its command stays behind.
Cancel(c) ==
  /\ cl[c].pc \in {"send", "wait", "got"}
  /\ Return(c, "cancelled")
  /\ UNCHANGED <<slot, drv, reqs>>

\* shutdown_driver.  The guard keeps a driver free for the calls that follow.
Disconnect ==
  /\ slot # None /\ \E d \in Drivers : drv[d].phase = "unborn"
  /\ drv' = [drv EXCEPT ![slot].shut = TRUE]
  /\ slot' = None
  /\ UNCHANGED <<cl, hist, reqs>>

-----------------------------------------------------------------------------
(* The driver loop *)

Run(d, ph) == drv[d].phase = ph

Set(d, r) == drv' = [drv EXCEPT ![d] = r]

\* The phase reached by start_next_queued_call: it sends, or it does nothing.
StartPhase(r) ==
  IF r.active = None /\ r.stream /\ r.queued # <<>> THEN "start" ELSE "select"

\* Mutant: frames received on the lost socket are thrown away.
DropStreamAndNotes(r) ==
  [r EXCEPT !.stream = FALSE, !.open = {}, !.srv = {}, !.pos = 0, !.rid = 0, !.retry = 0,
            !.notes = <<>>]

DropStream(r) ==
  [r EXCEPT !.stream = FALSE, !.open = {}, !.srv = {}, !.pos = 0, !.rid = 0, !.retry = 0]

ActiveTickets(r) == IF r.active = None THEN {} ELSE {r.active.tk}

\* The loop ends: every oneshot is failed or dropped, the channel's included.
Exit(d) ==
  LET r == drv[d] IN
  /\ Deliver(ActiveTickets(r) \cup Range(r.queued) \cup Range(r.waiters) \cup Range(r.cmds),
             Retryable)
  /\ Set(d, [FreshDriver EXCEPT !.phase = "dead", !.shut = TRUE])
  /\ UNCHANGED <<slot, hist, reqs>>

\* The select! failed on the socket: the active call and the waiters fail.
\* `r` is the driver's state after the frame was taken in.
LoseStream(d, r, error) ==
  /\ Deliver(ActiveTickets(drv[d]) \cup Range(r.waiters), error)
  /\ Set(d, [DropStream(r) EXCEPT !.phase = "top", !.active = None, !.waiters = <<>>])

\* Mutant: the queued calls wait for the next attempt, told or not.
EstablishFailsKeepingQueue(d, r, error) ==
  /\ Deliver(Range(r.queued) \cup Range(r.waiters), error)
  /\ Set(d, [DropStream(r) EXCEPT !.phase = "top", !.waiters = <<>>])

\* Mutant: the queued calls are kept and silently tried again.
EstablishFailsSilently(d, r, error) ==
  /\ Deliver(Range(r.waiters), error)
  /\ Set(d, [DropStream(r) EXCEPT !.phase = "top", !.waiters = <<>>])

\* establish_stream failed: the queued calls and the waiters fail.
EstablishFails(d, r, error) ==
  /\ Deliver(Range(r.queued) \cup Range(r.waiters), error)
  /\ Set(d, [DropStream(r) EXCEPT !.phase = "top", !.queued = <<>>, !.waiters = <<>>])

Stop(d) ==
  /\ drv[d].shut /\ drv[d].phase \in {"top", "select"}
  /\ Exit(d)

\* dispatch_queued_notifications, one frame per step.
DispatchQueued(r) ==
  IF HasLive(r.waiters)
  THEN [r EXCEPT !.took = Head(r.notes), !.notes = Tail(@),
                 !.waiters = PastAcceptor(@)]
  ELSE [r EXCEPT !.waiters = <<>>]

ShouldEstablish(r) == ~r.stream /\ (r.queued # <<>> \/ r.waiters # <<>>)

Top(d) ==
  LET r == drv[d] IN
  /\ Run(d, "top") /\ ~r.shut
  /\ IF r.notes # <<>> /\ r.waiters # <<>>
     THEN /\ Deliver(Acceptor(r.waiters), Ok(Head(r.notes)))
          /\ Set(d, DispatchQueued(r))
     ELSE /\ Set(d, [r EXCEPT !.phase =
                       IF ShouldEstablish(r) THEN "connect" ELSE StartPhase(r)])
          /\ UNCHANGED cl
  /\ UNCHANGED <<slot, hist, reqs>>

\* Mutant: the new socket is used before the subscriptions are replayed.
ConnectWithoutReplay(d) ==
  LET up == [drv[d] EXCEPT !.stream = TRUE, !.retry = 0] IN
  /\ Run(d, "connect")
  /\ Set(d, [up EXCEPT !.phase = StartPhase(up)])
  /\ UNCHANGED <<slot, cl, hist, reqs>>

ConnectOk(d) ==
  LET r == drv[d]
      up == [r EXCEPT !.stream = TRUE, !.retry = 0]
  IN
  /\ Run(d, "connect")
  /\ Set(d, IF r.subs = <<>> THEN [up EXCEPT !.phase = StartPhase(up)]
            ELSE [r EXCEPT !.phase = "replay", !.pos = 1, !.retry = 0])
  /\ UNCHANGED <<slot, cl, hist, reqs>>

ConnectRetry(d) ==
  /\ Run(d, "connect") /\ drv[d].retry < MaxRetries
  /\ Set(d, [drv[d] EXCEPT !.retry = @ + 1])
  /\ UNCHANGED <<slot, cl, hist, reqs>>

ConnectFails(d) ==
  /\ Run(d, "connect") /\ drv[d].retry >= MaxRetries
  /\ EstablishFails(d, drv[d], Retryable)
  /\ UNCHANGED <<slot, hist, reqs>>

\* NEXT_REQUEST_ID.fetch_add
NextId == Len(reqs) + 1

ReplaySend(d) ==
  /\ Run(d, "replay")
  /\ reqs' = Append(reqs, Replay)
  /\ Set(d, [drv[d] EXCEPT !.phase = "ack", !.rid = NextId, !.open = @ \cup {NextId}])
  /\ UNCHANGED <<slot, cl, hist>>

ReplaySendFails(d) ==
  /\ Run(d, "replay")
  /\ reqs' = Append(reqs, Replay)
  /\ EstablishFails(d, drv[d], Retryable)
  /\ UNCHANGED <<slot, hist>>

ReplayTimeout(d) ==
  /\ Run(d, "ack")
  /\ EstablishFails(d, drv[d], Retryable)
  /\ UNCHANGED <<slot, hist, reqs>>

\* Mutant: the first queued call is sent, the last one is recorded as active.
StartCallAtBack(d) ==
  LET r == drv[d]
      t == Head(r.queued)
  IN
  /\ Run(d, "start")
  /\ reqs' = Append(reqs, t)
  /\ Set(d, [r EXCEPT !.phase = "select", !.queued = Tail(@), !.open = @ \cup {NextId},
                      !.active = [id |-> NextId, tk |-> r.queued[Len(r.queued)]]])
  /\ UNCHANGED <<slot, cl, hist>>

StartCall(d) ==
  LET r == drv[d]
      t == Head(r.queued)
  IN
  /\ Run(d, "start")
  /\ reqs' = Append(reqs, t)
  /\ Set(d, [r EXCEPT !.phase = "select", !.queued = Tail(@),
                      !.active = [id |-> NextId, tk |-> t], !.open = @ \cup {NextId}])
  /\ UNCHANGED <<slot, cl, hist>>

\* The frame may have left this host: the id counts as sent.
StartCallFails(d) ==
  LET r == drv[d] IN
  /\ Run(d, "start")
  /\ reqs' = Append(reqs, Head(r.queued))
  /\ Deliver({Head(r.queued)} \cup Range(r.waiters), Retryable)
  /\ Set(d, [DropStream(r) EXCEPT !.phase = "top", !.queued = Tail(@), !.waiters = <<>>])
  /\ UNCHANGED <<slot, hist>>

\* A NextNotification command; `s` is the driver's state without it.  A frame
\* handed to a dropped oneshot is gone.
TakeNote(d, s, t) ==
  \/ /\ s.notes # <<>>
     /\ Deliver({t}, Ok(Head(s.notes)))
     /\ Set(d, [s EXCEPT !.took = Head(s.notes), !.notes = Tail(@)])
  \/ /\ s.notes = <<>>
     /\ Set(d, [s EXCEPT !.waiters = Append(@, t)])
     /\ UNCHANGED cl

\* handle_command
Command(d) ==
  LET r == drv[d]
      t == Head(r.cmds)
      s == [r EXCEPT !.cmds = Tail(@), !.phase = "top"]
  IN
  /\ Run(d, "select") /\ r.cmds # <<>>
  /\ \/ /\ OpOf(t) # NextNote
        /\ Set(d, [s EXCEPT !.queued = Append(@, t)])
        /\ UNCHANGED cl
     \/ /\ OpOf(t) = NextNote
        /\ TakeNote(d, s, t)
  /\ UNCHANGED <<slot, hist, reqs>>

\* Mutant: the timed-out call gives way to the next one on the same socket.
DeadlineKeepsSocket(d) ==
  LET r == drv[d] IN
  /\ Run(d, "select") /\ r.active # None
  /\ Deliver(ActiveTickets(r) \cup Range(r.waiters), Retryable)
  /\ Set(d, [r EXCEPT !.phase = "top", !.active = None, !.waiters = <<>>])
  /\ UNCHANGED <<slot, hist, reqs>>

Deadline(d) ==
  /\ Run(d, "select") /\ drv[d].active # None
  /\ LoseStream(d, drv[d], Retryable)
  /\ UNCHANGED <<slot, hist, reqs>>

-----------------------------------------------------------------------------
(* Frames from the peer *)

\* The driver is reading: in the select!, or for a replay acknowledgement.
Selecting(d) == Run(d, "select") /\ drv[d].stream
Reading(d) == Selecting(d) \/ Run(d, "ack")

ReadFails(d, r, error) ==
  IF Run(d, "ack") THEN EstablishFails(d, r, error) ELSE LoseStream(d, r, error)

PeerCloses(d) ==
  /\ Reading(d)
  /\ ReadFails(d, drv[d], Retryable)
  /\ UNCHANGED <<slot, hist, reqs>>

\* An undecodable frame, a text frame, a frame without id that is no notification.
Garbage(d) ==
  /\ "garbage" \in Faults /\ Reading(d)
  /\ ReadFails(d, drv[d], Fatal)
  /\ UNCHANGED <<slot, hist, reqs>>

Subscribing(d) ==
  \/ drv[d].srv # {}
  \/ \E i \in drv[d].open : IF reqs[i] = Replay THEN TRUE ELSE OpOf(reqs[i]) \in Topics

\* queue_or_deliver_notification
Notification(d) ==
  LET r == drv[d]
      f == r.got + 1
      s == [r EXCEPT !.waiters = PastAcceptor(@),
                     !.phase = IF @ = "ack" THEN "ack" ELSE "top"]
  IN
  /\ Reading(d) /\ Subscribing(d) /\ r.got < MaxNotes
  /\ \/ /\ HasLive(r.waiters)
        /\ Deliver(Acceptor(r.waiters), Ok(f))
        /\ Set(d, [s EXCEPT !.got = f, !.took = f])
     \/ /\ ~HasLive(r.waiters) /\ Len(r.notes) < NoteCap
        /\ Set(d, [s EXCEPT !.got = f, !.notes = Append(@, f)])
        /\ UNCHANGED cl
     \/ /\ ~HasLive(r.waiters) /\ Len(r.notes) >= NoteCap
        /\ ReadFails(d, s, Fatal)
  /\ UNCHANGED <<slot, hist, reqs>>

\* Ids a frame may carry: those of unanswered requests, or any id if faulty.
FrameIds(d) ==
  IF "badid" \in Faults THEN 1..Len(reqs) ELSE drv[d].open

\* "ok", an error payload, or a frame marked with another operation.
Verdicts == {"ok", "remote"} \cup (Faults \cap {"badop"})

Remember(subs, topic) ==
  IF topic \in Range(subs) THEN subs ELSE Append(subs, topic)

Unasked(a, id) == IF a = None THEN TRUE ELSE a.id # id

\* handle_received_frame, for a frame with a request id.
Response(d, id, verdict) ==
  LET r == drv[d]
      a == r.active
      s == [r EXCEPT !.phase = "top", !.active = None, !.open = @ \ {id}]
  IN
  /\ Selecting(d)
  /\ \/ /\ Unasked(a, id)
        /\ LoseStream(d, r, Fatal)
     \/ /\ ~Unasked(a, id) /\ verdict # "ok"
        /\ Deliver({a.tk}, Fatal)
        /\ Set(d, s)
     \/ /\ ~Unasked(a, id) /\ verdict = "ok"
        /\ Deliver({a.tk}, Ok(id))
        /\ Set(d, IF OpOf(a.tk) \in Topics
                  THEN [s EXCEPT !.subs = Remember(@, OpOf(a.tk)),
                                 !.srv = @ \cup {OpOf(a.tk)}]
                  ELSE s)
  /\ UNCHANGED <<slot, hist, reqs>>

\* establish_stream, for a frame with a request id.
ReplayResponse(d, id, verdict) ==
  LET r == drv[d]
      s == [r EXCEPT !.open = @ \ {id}, !.rid = 0,
                     !.srv = @ \cup {r.subs[r.pos]}, !.pos = @ + 1]
      up == [s EXCEPT !.stream = TRUE, !.pos = 0]
  IN
  /\ Run(d, "ack")
  /\ \/ /\ id # r.rid \/ verdict # "ok"
        /\ EstablishFails(d, r, Fatal)
     \/ /\ id = r.rid /\ verdict = "ok"
        /\ Set(d, IF r.pos < Len(r.subs) THEN [s EXCEPT !.phase = "replay"]
                  ELSE [up EXCEPT !.phase = StartPhase(up)])
        /\ UNCHANGED cl
  /\ UNCHANGED <<slot, hist, reqs>>

-----------------------------------------------------------------------------

CallerNext(c) ==
  \/ \E op \in Ops[c] : Begin(c, op)
  \/ ReuseDriver(c)
  \/ \E d \in Drivers : SpawnDriver(c, d)
  \/ SendCommand(c)
  \/ SendToClosed(c)
  \/ Retry(c)
  \/ Finish(c)
  \/ Cancel(c)

DriverNext(d) ==
  \/ Stop(d)
  \/ Top(d)
  \/ ConnectOk(d)
  \/ ConnectRetry(d)
  \/ ConnectFails(d)
  \/ ReplaySend(d)
  \/ ReplaySendFails(d)
  \/ ReplayTimeout(d)
  \/ StartCall(d)
  \/ StartCallFails(d)
  \/ Command(d)
  \/ Deadline(d)

PeerNext(d) ==
  \/ PeerCloses(d)
  \/ Garbage(d)
  \/ Notification(d)
  \/ \E id \in FrameIds(d), v \in Verdicts : Response(d, id, v) \/ ReplayResponse(d, id, v)

Next ==
  \/ \E c \in Callers : CallerNext(c)
  \/ Disconnect
  \/ \E d \in Drivers : DriverNext(d) \/ PeerNext(d)

Spec == Init /\ [][Next]_vars

-----------------------------------------------------------------------------
(* Safety *)

\* Every variable stays in its type; ids index the requests made so far.
TypeOK ==
  /\ slot \in Drivers \cup {None}
  /\ drv \in [Drivers -> DriverState]
  /\ cl \in [Callers -> CallerState]
  /\ hist \in [Callers -> Seq(CallRecord)]
  /\ reqs \in Seq(Tickets \cup {Replay})

\* An Ok that reaches a caller is the answer to the request of that very
\* attempt: handle_received_frame pairs by request id, never by arrival.
AnswerIsOwn ==
  \A c \in Callers :
    cl[c].pc = "got" /\ cl[c].res.kind = "ok" /\ OpOf(Ticket(c)) # NextNote
      => /\ cl[c].res.id \in DOMAIN reqs
         /\ reqs[cl[c].res.id] = Ticket(c)

SameCall(s, t) == s # Replay /\ t # Replay /\ s.who = t.who /\ s.n = t.n

\* A SubmitTransaction call puts its transaction on a socket at most once,
\* whatever the driver, the peer, a disconnect or a cancellation do
\* (call_inner retries every other operation once).
SubmitAtMostOnce ==
  \A i, j \in DOMAIN reqs :
    i # j /\ SameCall(reqs[i], reqs[j]) => OpOf(reqs[i]) # Submit

\* Remembered subscriptions are in force on every established socket: no call
\* and no notification wait runs on a socket that misses one of them
\* (establish_stream replays before it returns).
ReplayedOnStream ==
  \A d \in Drivers : drv[d].stream => Range(drv[d].subs) \subseteq drv[d].srv

\* Frames wait in arrival order, none is skipped and none is kept after it
\* was handed out, across reconnects of the driver's socket; and a frame and a
\* waiter are never both kept waiting, so the loop in
\* dispatch_queued_notifications finds nothing left to do.
NotesInOrder ==
  \A d \in Drivers :
    LET r == drv[d] IN
    /\ Len(r.notes) = r.got - r.took
    /\ \A i \in DOMAIN r.notes : r.notes[i] = r.took + i
    /\ r.notes = <<>> \/ r.waiters = <<>>

\* On a socket in use the only answer the peer can still owe is the one to the
\* active call: a timed-out request takes its socket with it, so its late
\* answer is never read as the answer to a later request.
OnlyActiveUnanswered ==
  \A d \in Drivers :
    drv[d].stream => \A i \in drv[d].open : drv[d].active # None /\ drv[d].active.id = i

-----------------------------------------------------------------------------
(* Action properties *)

FrameReaches(d) ==
  drv'[d].took > drv[d].took =>
    \/ \E c \in Callers : /\ cl[c].pc = "wait" /\ cl'[c].pc = "got"
                          /\ cl'[c].res = Ok(drv'[d].took)
    \/ /\ drv[d].cmds # <<>> /\ drv'[d].cmds = Tail(drv[d].cmds)
       /\ LET t == Head(drv[d].cmds) IN hist[t.who][t.n].out = "cancelled"

\* A frame that a driver hands out reaches a waiting caller, except when
\* handle_command hands it to a request whose caller has already gone.  (The
\* end of a driver starts its count of frames anew.)
FrameLostOnlyToCancelled == [][\A d \in Drivers : FrameReaches(d)]_vars

-----------------------------------------------------------------------------
(* Liveness.  Tokio polls every ready task and picks among the ready arms of *)
(* a select! at random; connect and replay waits carry a timeout; the active *)
(* call has a deadline; a socket send completes or fails.  The bounds keep   *)
(* commands and frames from arriving for ever, so weak fairness is enough.   *)

CallerFair(c) ==
  WF_vars(\/ ReuseDriver(c) \/ (\E d \in Drivers : SpawnDriver(c, d))
          \/ SendToClosed(c) \/ Retry(c) \/ Finish(c))

DriverFair(d) ==
  /\ WF_vars(Stop(d))
  /\ WF_vars(Top(d))
  /\ WF_vars(ConnectOk(d) \/ ConnectRetry(d) \/ ConnectFails(d))
  /\ WF_vars(ReplaySend(d) \/ ReplaySendFails(d))
  /\ WF_vars(ReplayTimeout(d))
  /\ WF_vars(StartCall(d) \/ StartCallFails(d))
  /\ WF_vars(Command(d))
  /\ WF_vars(Deadline(d))

Fairness ==
  /\ \A c \in Callers : CallerFair(c) /\ WF_vars(SendCommand(c))
  /\ \A d \in Drivers : DriverFair(d)

FairSpec == Spec /\ Fairness

\* Every RPC returns to its caller: by an answer, an error or its own
\* cancellation.  (A notification wait may last for ever.)
CallReturns ==
  \A c \in Callers :
    (cl[c].pc # "idle" /\ OpOf(Ticket(c)) # NextNote) ~> cl[c].pc = "idle"

\* A disconnected driver stops and so releases everyone it kept waiting.
DisconnectStops ==
  \A d \in Drivers : drv[d].shut ~> drv[d].phase = "dead"

\* Neither a call nor a disconnect waits for ever: both of the above.
EveryWaitEnds == CallReturns /\ DisconnectStops

-----------------------------------------------------------------------------
(* What the transport promises: WrpcService *)

\* Which call a request was sent for, the attempt left out.
CallOf(t) == IF t = Replay THEN Replay ELSE [who |-> t.who, n |-> t.n]

Service == INSTANCE WrpcService WITH
  calls <- hist, log <- [i \in DOMAIN reqs |-> CallOf(reqs[i])]

\* Callers, drivers, reconnects and disconnects together behave like the
\* service of WrpcService: each call is sent a bounded number of times, only
\* while it is undecided or abandoned, and succeeds only after it was sent.
ImplementsService == Service!Spec

=============================================================================
