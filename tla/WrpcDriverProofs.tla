-------------------------- MODULE WrpcDriverProofs --------------------------
(***************************************************************************)
(* Proofs about WrpcDriver, for any callers, topics, bounds and faults.    *)
(*                                                                         *)
(* Every step of a driver replaces the record of that driver, so the       *)
(* inductive invariant is a predicate DriverInv on one record: the proof   *)
(* shows of each action that it leaves a well-typed record satisfying it.  *)
(***************************************************************************)
EXTENDS WrpcDriver, TLAPS, WellFoundedInduction, SequenceTheorems

\* Where the loop stands and what it then holds.
PhaseInv(r) ==
  /\ r.phase = "start" => r.queued # <<>> /\ r.active = None /\ r.stream
  /\ r.phase \in {"connect", "replay", "ack"} => ~r.stream
  /\ r.phase \in {"replay", "ack"} =>
       r.pos \in 1..Len(r.subs) /\ \A i \in 1..(r.pos - 1) : r.subs[i] \in r.srv
  /\ r.stream => Range(r.subs) \subseteq r.srv

\* The ids a peer may still answer.
OpenInv(r) ==
  /\ ~r.stream /\ r.phase # "ack" => r.open = {}
  /\ r.phase = "ack" => r.open = {r.rid}
  /\ r.stream => \A i \in r.open : r.active # None /\ r.active.id = i

\* The notification frames.
NoteInv(r) ==
  /\ r.notes = <<>> \/ r.waiters = <<>>
  /\ Len(r.notes) = r.got - r.took
  /\ \A i \in DOMAIN r.notes : r.notes[i] = r.took + i

DriverInv(r) == PhaseInv(r) /\ OpenInv(r) /\ NoteInv(r)

IInv == TypeOK /\ \A d \in Drivers : DriverInv(drv[d])

-----------------------------------------------------------------------------
(* Facts about the operators *)

\* Among the waiters popped by queue_or_deliver_notification there is a first
\* live one whenever there is a live one.
LEMMA FirstLiveExists ==
  ASSUME NEW w \in Seq(Tickets), HasLive(w)
  PROVE  FirstLive(w) \in DOMAIN w /\ Live(w[FirstLive(w)])
<1> DEFINE T == {i \in DOMAIN w : Live(w[i])}
<1>1. T # {} /\ T \subseteq Nat
  BY DEF HasLive
<1>2. PICK m \in T : \A y \in T : ~ (<<y, m>> \in OpToRel(<, Nat))
  BY <1>1, NatLessThanWellFounded, WFMin, Zenon
<1>3. \A y \in T : ~ (y < m)
  BY <1>1, <1>2 DEF OpToRel
<1>4. m \in DOMAIN w /\ Live(w[m]) /\ \A j \in DOMAIN w : j < m => ~Live(w[j])
  BY <1>3
<1> QED
  BY <1>4 DEF FirstLive

\* The waiters left behind the one that took the frame are tickets.
LEMMA PastAcceptorType ==
  ASSUME NEW w \in Seq(Tickets)
  PROVE  PastAcceptor(w) \in Seq(Tickets)
<1>1. CASE HasLive(w)
  <2>1. FirstLive(w) \in 1..Len(w)
    BY <1>1, FirstLiveExists
  <2>2. \A i \in (FirstLive(w) + 1)..Len(w) : w[i] \in Tickets
    BY <2>1
  <2> QED
    BY <1>1, <2>1, <2>2 DEF PastAcceptor
<1>2. CASE ~HasLive(w)
  BY <1>2 DEF PastAcceptor
<1> QED
  BY <1>1, <1>2

\* Oneshots only ever move a caller to "got".
LEMMA DeliverType ==
  ASSUME cl \in [Callers -> CallerState], NEW T, NEW res \in Results, Deliver(T, res)
  PROVE  cl' \in [Callers -> CallerState]
BY DEF Deliver, CallerState

\* What a oneshot carries.
LEMMA ResultTypes ==
  /\ Retryable \in Results /\ Fatal \in Results
  /\ \A i \in Nat : Ok(i) \in Results
BY DEF Retryable, Fatal, Ok, Results

\* Replacing one driver's record by a good one keeps them all good.
LEMMA SetDriver ==
  ASSUME IInv, NEW d \in Drivers, NEW r \in DriverState, DriverInv(r), Set(d, r)
  PROVE  drv' \in [Drivers -> DriverState] /\ \A e \in Drivers : DriverInv(drv'[e])
<1>1. drv' = [drv EXCEPT ![d] = r] /\ drv \in [Drivers -> DriverState]
  BY DEF Set, IInv, TypeOK
<1>2. \A e \in Drivers : drv'[e] = IF e = d THEN r ELSE drv[e]
  BY <1>1
<1> QED
  BY <1>1, <1>2 DEF IInv

\* Losing the socket leaves a good record, whatever the phase was.
LEMMA LostGood ==
  ASSUME NEW r \in DriverState, NoteInv(r), NEW q \in Seq(Tickets),
         NEW a \in ActiveCall \cup {None}, NEW s,
         \/ s = [DropStream(r) EXCEPT !.phase = "top", !.queued = q, !.waiters = <<>>]
         \/ s = [DropStream(r) EXCEPT !.phase = "top", !.active = a, !.waiters = <<>>]
  PROVE  s \in DriverState /\ DriverInv(s)
<1>a. DropStream(r) \in DriverState
  BY DEF DropStream, DriverState
<1>b. <<>> \in Seq(Tickets)
  OBVIOUS
<1>1. DropStream(r) \in DriverState /\ <<>> \in Seq(Tickets)
  BY <1>a, <1>b
<1>2. s \in DriverState
  <2>1. CASE s = [DropStream(r) EXCEPT !.phase = "top", !.queued = q, !.waiters = <<>>]
    <3>1. \A w \in Seq(Tickets) :
            [DropStream(r) EXCEPT !.phase = "top", !.queued = q, !.waiters = w] \in DriverState
      BY <1>1 DEF DriverState
    <3> QED
      BY <1>1, <2>1, <3>1
  <2>2. CASE s = [DropStream(r) EXCEPT !.phase = "top", !.active = a, !.waiters = <<>>]
    <3>1. \A w \in Seq(Tickets) :
            [DropStream(r) EXCEPT !.phase = "top", !.active = a, !.waiters = w] \in DriverState
      BY <1>1 DEF DriverState
    <3> QED
      BY <1>1, <2>2, <3>1
  <2> QED
    BY <2>1, <2>2
<1>3. /\ s.phase = "top" /\ s.stream = FALSE /\ s.open = {} /\ s.waiters = <<>>
      /\ s.notes = r.notes /\ s.got = r.got /\ s.took = r.took
  <2> DEFINE u == DropStream(r)
  <2>1. /\ u.stream = FALSE /\ u.open = {}
        /\ u.notes = r.notes /\ u.got = r.got /\ u.took = r.took
    BY DEF DropStream, DriverState
  <2> HIDE DEF u
  <2>2. CASE s = [u EXCEPT !.phase = "top", !.queued = q, !.waiters = <<>>]
    BY <1>a, <2>1, <2>2 DEF DriverState, u
  <2>3. CASE s = [u EXCEPT !.phase = "top", !.active = a, !.waiters = <<>>]
    BY <1>a, <2>1, <2>3 DEF DriverState, u
  <2> QED
    BY <2>2, <2>3 DEF u
<1> QED
  BY <1>2, <1>3 DEF DriverInv, PhaseInv, OpenInv, NoteInv

-----------------------------------------------------------------------------
(* Callers *)

\* Only the current call of a caller is closed, and only its outcome changes.
LEMMA ReturnType ==
  ASSUME TypeOK, NEW c \in Callers, NEW out \in {"ok", "err", "cancelled"}, Return(c, out)
  PROVE  cl' \in [Callers -> CallerState] /\ hist' \in [Callers -> Seq(CallRecord)]
<1>1. hist[c] \in Seq(CallRecord)
  BY DEF TypeOK
<1> DEFINE h == hist[c]
           k == Len(hist[c])
<1>2. [h EXCEPT ![k].out = out] \in Seq(CallRecord)
  <2>1. k \in DOMAIN h => h[k] \in CallRecord
    BY <1>1
  <2>2. k \in DOMAIN h => [h[k] EXCEPT !.out = out] \in CallRecord
    BY <2>1 DEF CallRecord
  <2>3. CASE k \in DOMAIN h
    <3>1. k \in 1..Len(h)
      BY <2>3, <1>1
    <3>2. [h EXCEPT ![k] = [h[k] EXCEPT !.out = out]] \in Seq(CallRecord)
      BY <1>1, <2>2, <2>3, <3>1, ExceptSeq
    <3> QED
      BY <3>2
  <2>4. CASE k \notin DOMAIN h
    <3>1. [h EXCEPT ![k].out = out] = h
      BY <1>1, <2>4
    <3> QED
      BY <1>1, <3>1
  <2> QED
    BY <2>3, <2>4
<1>3. hist' = [hist EXCEPT ![c] = [h EXCEPT ![k].out = out]]
  BY DEF Return
<1>4. hist' \in [Callers -> Seq(CallRecord)]
  BY <1>2, <1>3 DEF TypeOK
<1>5. IdleCaller \in CallerState
  BY DEF IdleCaller, CallerState, Fatal, Results
<1> QED
  BY <1>4, <1>5 DEF Return, TypeOK

\* A caller's step, and disconnect, keep the invariant.
LEMMA CallerStep ==
  ASSUME IInv, (\E c \in Callers : CallerNext(c)) \/ Disconnect
  PROVE  IInv'
<1> USE DEF IInv, TypeOK
<1>0. IdleCaller \in CallerState /\ Retryable \in Results
  BY DEF IdleCaller, CallerState, Fatal, Retryable, Results
<1>1. CASE Disconnect
  <2>1. slot \in Drivers
    BY <1>1 DEF Disconnect
  <2> DEFINE s == [drv[slot] EXCEPT !.shut = TRUE]
  <2>2. drv[slot] \in DriverState /\ DriverInv(drv[slot])
    BY <2>1
  <2>3. s \in DriverState
    BY <2>2 DEF DriverState
  <2>4. DriverInv(s)
    BY <2>2 DEF DriverState, DriverInv, PhaseInv, OpenInv, NoteInv
  <2>5. Set(slot, s)
    BY <1>1 DEF Disconnect, Set
  <2>6. drv' \in [Drivers -> DriverState] /\ \A e \in Drivers : DriverInv(drv'[e])
    BY <2>1, <2>3, <2>4, <2>5, SetDriver
  <2> QED
    BY <1>1, <2>6 DEF Disconnect
<1>2. ASSUME NEW c \in Callers, CallerNext(c)
      PROVE  IInv'
  <2>1. ASSUME NEW op \in Ops[c], Begin(c, op)
        PROVE  IInv'
    <3>1. [op |-> op, out |-> "open"] \in CallRecord
      BY OpsAssumption DEF CallRecord
    <3>2. hist' \in [Callers -> Seq(CallRecord)]
      BY <2>1, <3>1 DEF Begin
    <3>3. [IdleCaller EXCEPT !.pc = "acquire"] \in CallerState
      BY <1>0 DEF CallerState
    <3> QED
      BY <2>1, <3>2, <3>3 DEF Begin
  <2>2. CASE ReuseDriver(c)
    <3>1. slot \in Drivers
      BY <2>2 DEF ReuseDriver, SlotUsable
    <3>2. cl' \in [Callers -> CallerState]
      BY <2>2, <3>1 DEF ReuseDriver, CallerState
    <3> QED
      BY <2>2, <3>2 DEF ReuseDriver
  <2>3. ASSUME NEW d \in Drivers, SpawnDriver(c, d)
        PROVE  IInv'
    <3> DEFINE s == [drv[d] EXCEPT !.phase = "top"]
    <3>1. drv[d] \in DriverState /\ DriverInv(drv[d]) /\ drv[d].phase = "unborn"
      BY <2>3 DEF SpawnDriver
    <3>2. s \in DriverState
      BY <3>1 DEF DriverState
    <3>3. DriverInv(s)
      BY <3>1 DEF DriverState, DriverInv, PhaseInv, OpenInv, NoteInv
    <3>4. Set(d, s)
      BY <2>3 DEF SpawnDriver, Set
    <3>5. drv' \in [Drivers -> DriverState] /\ \A e \in Drivers : DriverInv(drv'[e])
      BY <3>2, <3>3, <3>4, SetDriver
    <3>6. cl' \in [Callers -> CallerState]
      BY <2>3 DEF SpawnDriver, CallerState
    <3> QED
      BY <2>3, <3>5, <3>6 DEF SpawnDriver
  <2>4. CASE SendCommand(c)
    <3> DEFINE d == cl[c].at
               s == [drv[d] EXCEPT !.cmds = Append(@, Ticket(c))]
    <3>1. cl' \in [Callers -> CallerState]
      BY <2>4 DEF SendCommand, CallerState
    <3>2. Ticket(c) \in Tickets
      BY DEF Ticket, Tickets, CallerState
    <3>3. CASE d \in Drivers
      <4>1. drv[d] \in DriverState /\ DriverInv(drv[d])
        BY <3>3
      <4>2. s \in DriverState
        <5>1. Append(drv[d].cmds, Ticket(c)) \in Seq(Tickets)
          BY <4>1, <3>2 DEF DriverState
        <5> HIDE DEF IInv, TypeOK, d
        <5> QED
          BY <4>1, <5>1 DEF DriverState
      <4>3. DriverInv(s)
        BY <4>1 DEF DriverState, DriverInv, PhaseInv, OpenInv, NoteInv
      <4>4. Set(d, s)
        BY <2>4 DEF SendCommand, Set
      <4>5. drv' \in [Drivers -> DriverState] /\ \A e \in Drivers : DriverInv(drv'[e])
        BY <3>3, <4>2, <4>3, <4>4, SetDriver
      <4> QED
        BY <2>4, <3>1, <4>5 DEF SendCommand
    <3>4. CASE d \notin Drivers
      <4>1. drv' = drv
        BY <2>4, <3>4 DEF SendCommand
      <4> QED
        BY <2>4, <3>1, <4>1 DEF SendCommand
    <3> QED
      BY <3>3, <3>4
  <2>5. CASE SendToClosed(c)
    <3>1. cl' \in [Callers -> CallerState]
      BY <2>5, <1>0 DEF SendToClosed, CallerState
    <3> QED
      BY <2>5, <3>1 DEF SendToClosed
  <2>6. CASE Retry(c)
    <3>1. cl[c].try + 1 = 2
      BY <2>6 DEF Retry, ShouldRetry
    <3>2. [IdleCaller EXCEPT !.pc = "acquire", !.try = 2] \in CallerState
      <4>1. \A k \in 1..2 : [IdleCaller EXCEPT !.pc = "acquire", !.try = k] \in CallerState
        BY <1>0 DEF CallerState
      <4> QED
        BY <4>1
    <3>3. cl' \in [Callers -> CallerState]
      BY <2>6, <3>1, <3>2 DEF Retry
    <3> QED
      BY <2>6, <3>3 DEF Retry
  <2>7. CASE Finish(c)
    BY <2>7, ReturnType DEF Finish
  <2>8. CASE Cancel(c)
    BY <2>8, ReturnType DEF Cancel
  <2> QED
    BY <1>2, <2>1, <2>2, <2>3, <2>4, <2>5, <2>6, <2>7, <2>8 DEF CallerNext
<1> QED
  BY <1>1, <1>2

-----------------------------------------------------------------------------
(* Drivers *)

\* The rest of the state of a driver's step.
LEMMA Reassemble ==
  ASSUME IInv, UNCHANGED <<slot, hist>>,
         cl' \in [Callers -> CallerState],
         reqs' \in Seq(Tickets \cup {Replay}),
         drv' \in [Drivers -> DriverState] /\ \A e \in Drivers : DriverInv(drv'[e])
  PROVE  IInv'
BY DEF IInv, TypeOK

\* establish_stream may fail at any point.
LEMMA EstablishFailsStep ==
  ASSUME IInv, NEW d \in Drivers, NEW r \in DriverState, NoteInv(r),
         NEW error \in Results, EstablishFails(d, r, error)
  PROVE  /\ drv' \in [Drivers -> DriverState] /\ \A e \in Drivers : DriverInv(drv'[e])
         /\ cl' \in [Callers -> CallerState]
<1> DEFINE s == [DropStream(r) EXCEPT !.phase = "top", !.queued = <<>>, !.waiters = <<>>]
<1>1. <<>> \in Seq(Tickets) /\ None \in ActiveCall \cup {None}
  OBVIOUS
<1>2. s \in DriverState /\ DriverInv(s)
  BY <1>1, LostGood
<1>3. cl \in [Callers -> CallerState]
  BY DEF IInv, TypeOK
<1>4. cl' \in [Callers -> CallerState]
  BY <1>3, DeliverType DEF EstablishFails
<1>5. Set(d, s)
  BY DEF EstablishFails
<1> QED
  BY <1>2, <1>4, <1>5, SetDriver

\* So may the select! on a working socket.
LEMMA LoseStreamStep ==
  ASSUME IInv, NEW d \in Drivers, NEW r \in DriverState, NoteInv(r),
         NEW error \in Results, LoseStream(d, r, error)
  PROVE  /\ drv' \in [Drivers -> DriverState] /\ \A e \in Drivers : DriverInv(drv'[e])
         /\ cl' \in [Callers -> CallerState]
<1> DEFINE s == [DropStream(r) EXCEPT !.phase = "top", !.active = None, !.waiters = <<>>]
<1>1. <<>> \in Seq(Tickets) /\ None \in ActiveCall \cup {None}
  OBVIOUS
<1>2. s \in DriverState /\ DriverInv(s)
  BY <1>1, LostGood
<1>3. cl \in [Callers -> CallerState]
  BY DEF IInv, TypeOK
<1>4. cl' \in [Callers -> CallerState]
  BY <1>3, DeliverType DEF LoseStream
<1>5. Set(d, s)
  BY DEF LoseStream
<1> QED
  BY <1>2, <1>4, <1>5, SetDriver

\* Entering start_next_queued_call with a good record leaves a good one.
LEMMA StartPhaseGood ==
  ASSUME NEW r \in DriverState, r.phase \notin {"connect", "replay", "ack"} \/ r.stream,
         r.stream => Range(r.subs) \subseteq r.srv,
         ~r.stream => r.open = {},
         r.stream => \A i \in r.open : r.active # None /\ r.active.id = i,
         NoteInv(r),
         NEW s, s = [r EXCEPT !.phase = StartPhase(r)]
  PROVE  s \in DriverState /\ DriverInv(s)
<1>1. StartPhase(r) \in {"start", "select"}
  BY DEF StartPhase
<1>2. s \in DriverState
  BY <1>1 DEF DriverState
<1>3. s.phase = StartPhase(r)
  BY <1>2 DEF DriverState
<1>4. /\ s.stream = r.stream /\ s.subs = r.subs /\ s.srv = r.srv /\ s.open = r.open
      /\ s.active = r.active /\ s.queued = r.queued /\ s.notes = r.notes
      /\ s.waiters = r.waiters /\ s.got = r.got /\ s.took = r.took
  BY DEF DriverState
<1>5. s.phase = "start" => r.queued # <<>> /\ r.active = None /\ r.stream
  BY <1>3 DEF StartPhase
<1> QED
  BY <1>1, <1>2, <1>3, <1>4, <1>5 DEF DriverInv, PhaseInv, OpenInv, NoteInv

\* The loop itself: shutdown, connect, replay, start a call, take a command.
LEMMA DriverStep ==
  ASSUME IInv, NEW d \in Drivers, DriverNext(d)
  PROVE  IInv'
<1> DEFINE r == drv[d]
<1>1. r \in DriverState /\ DriverInv(r) /\ NoteInv(r)
  BY DEF IInv, TypeOK, DriverInv
<1>2. cl \in [Callers -> CallerState] /\ reqs \in Seq(Tickets \cup {Replay})
  BY DEF IInv, TypeOK
<1>3. <<>> \in Seq(Tickets)
  OBVIOUS
<1> HIDE DEF r
<1>4. CASE Stop(d)
  <2> DEFINE s == [FreshDriver EXCEPT !.phase = "dead", !.shut = TRUE]
  <2>1. FreshDriver \in DriverState
    <3>1. <<>> \in Seq(Topics) /\ <<>> \in Seq(Nat)
      OBVIOUS
    <3> QED
      BY <1>3, <3>1 DEF FreshDriver, DriverState
  <2>2. s \in DriverState
    BY <2>1 DEF DriverState
  <2>3. DriverInv(s)
    BY DEF FreshDriver, DriverInv, PhaseInv, OpenInv, NoteInv
  <2>4. Set(d, s) /\ UNCHANGED <<slot, hist, reqs>>
    BY <1>4 DEF Stop, Exit
  <2>5. cl' \in [Callers -> CallerState]
    BY <1>2, <1>4, ResultTypes, DeliverType DEF Stop, Exit
  <2>6. drv' \in [Drivers -> DriverState] /\ \A e \in Drivers : DriverInv(drv'[e])
    BY <2>2, <2>3, <2>4, SetDriver
  <2> QED
    BY <1>2, <2>4, <2>5, <2>6, Reassemble
<1>5. CASE Top(d)
  <2>1. r.phase = "top" /\ UNCHANGED <<slot, hist, reqs>>
    BY <1>5 DEF Top, Run, r
  <2>2. CASE r.notes # <<>> /\ r.waiters # <<>>
    BY <1>1, <2>2 DEF NoteInv
  <2>3. CASE ~(r.notes # <<>> /\ r.waiters # <<>>)
    <3> DEFINE s == [r EXCEPT !.phase = IF ShouldEstablish(r) THEN "connect" ELSE StartPhase(r)]
    <3>1. Set(d, s) /\ UNCHANGED cl
      BY <1>5, <2>3 DEF Top, r
    <3>2. CASE ShouldEstablish(r)
      <4>1. s = [r EXCEPT !.phase = "connect"]
        BY <3>2
      <4>2. s \in DriverState
        BY <1>1, <4>1 DEF DriverState
      <4>3. DriverInv(s)
        BY <1>1, <2>1, <3>2, <4>1
           DEF ShouldEstablish, DriverState, DriverInv, PhaseInv, OpenInv, NoteInv
      <4> QED
        BY <1>2, <2>1, <3>1, <4>2, <4>3, SetDriver, Reassemble
    <3>3. CASE ~ShouldEstablish(r)
      <4>1. s = [r EXCEPT !.phase = StartPhase(r)]
        BY <3>3
      <4>2. s \in DriverState /\ DriverInv(s)
        BY <1>1, <2>1, <4>1, StartPhaseGood DEF DriverInv, PhaseInv, OpenInv
      <4> QED
        BY <1>2, <2>1, <3>1, <4>2, SetDriver, Reassemble
    <3> QED
      BY <3>2, <3>3
  <2> QED
    BY <2>2, <2>3
<1>6. CASE ConnectOk(d)
  <2>1. /\ r.phase = "connect" /\ r.stream = FALSE /\ r.open = {}
        /\ UNCHANGED <<slot, cl, hist, reqs>>
    BY <1>1, <1>6 DEF ConnectOk, Run, r, DriverInv, PhaseInv, OpenInv, DriverState
  <2>2. CASE r.subs = <<>>
    <3> DEFINE up == [r EXCEPT !.stream = TRUE, !.retry = 0]
               s == [up EXCEPT !.phase = StartPhase(up)]
    <3>1. up \in DriverState
      BY <1>1 DEF DriverState
    <3>2. /\ up.stream = TRUE /\ up.open = {} /\ up.subs = <<>> /\ up.notes = r.notes
          /\ up.waiters = r.waiters /\ up.got = r.got /\ up.took = r.took
      BY <1>1, <2>1, <2>2 DEF DriverState
    <3>3. NoteInv(up) /\ Range(up.subs) \subseteq up.srv
      BY <1>1, <3>2 DEF NoteInv, Range
    <3>4. Set(d, s)
      BY <1>6, <2>2 DEF ConnectOk, r
    <3> HIDE DEF up
    <3>5. s \in DriverState /\ DriverInv(s)
      BY <3>1, <3>2, <3>3, StartPhaseGood
    <3> QED
      BY <1>2, <2>1, <3>4, <3>5, SetDriver, Reassemble
  <2>3. CASE r.subs # <<>>
    <3> DEFINE s == [r EXCEPT !.phase = "replay", !.pos = 1, !.retry = 0]
    <3>1. s \in DriverState
      BY <1>1 DEF DriverState
    <3>2. /\ s.phase = "replay" /\ s.pos = 1 /\ s.stream = FALSE /\ s.open = {}
          /\ s.subs = r.subs /\ s.notes = r.notes /\ s.waiters = r.waiters
          /\ s.got = r.got /\ s.took = r.took
      BY <1>1, <2>1 DEF DriverState
    <3>3. 1 \in 1..Len(r.subs)
      BY <1>1, <2>3 DEF DriverState
    <3>4. DriverInv(s)
      BY <1>1, <3>2, <3>3 DEF DriverInv, PhaseInv, OpenInv, NoteInv
    <3>5. Set(d, s)
      BY <1>6, <2>3 DEF ConnectOk, r
    <3> QED
      BY <1>2, <2>1, <3>1, <3>4, <3>5, SetDriver, Reassemble
  <2> QED
    BY <2>2, <2>3
<1>7. CASE ConnectRetry(d)
  <2> DEFINE s == [r EXCEPT !.retry = @ + 1]
  <2>0. r.retry + 1 \in Nat
    BY <1>1 DEF DriverState
  <2>1. s \in DriverState
    BY <1>1, <2>0 DEF DriverState
  <2>2. DriverInv(s)
    BY <1>1 DEF DriverState, DriverInv, PhaseInv, OpenInv, NoteInv
  <2>3. Set(d, s) /\ UNCHANGED <<slot, cl, hist, reqs>>
    BY <1>7 DEF ConnectRetry, r
  <2> QED
    BY <1>2, <2>1, <2>2, <2>3, SetDriver, Reassemble
<1>8. CASE ConnectFails(d)
  <2>1. EstablishFails(d, r, Retryable) /\ UNCHANGED <<slot, hist, reqs>>
    BY <1>8 DEF ConnectFails, r
  <2> QED
    BY <1>1, <1>2, <2>1, ResultTypes, EstablishFailsStep, Reassemble
<1>9. CASE ReplaySend(d)
  <2> DEFINE s == [r EXCEPT !.phase = "ack", !.rid = NextId, !.open = @ \cup {NextId}]
  <2>1. NextId \in Nat
    BY <1>2 DEF NextId
  <2>2. s \in DriverState
    BY <1>1, <2>1 DEF DriverState
  <2>3. r.phase = "replay" /\ r.stream = FALSE /\ r.open = {}
    BY <1>1, <1>9 DEF ReplaySend, Run, r, DriverInv, PhaseInv, OpenInv, DriverState
  <2>4. /\ s.phase = "ack" /\ s.open = {NextId} /\ s.rid = NextId /\ s.stream = FALSE
        /\ s.pos = r.pos /\ s.subs = r.subs /\ s.srv = r.srv /\ s.notes = r.notes
        /\ s.waiters = r.waiters /\ s.got = r.got /\ s.took = r.took
    BY <1>1, <2>3 DEF DriverState
  <2>5. DriverInv(s)
    BY <1>1, <2>3, <2>4 DEF DriverInv, PhaseInv, OpenInv, NoteInv
  <2>6. Set(d, s) /\ reqs' = Append(reqs, Replay) /\ UNCHANGED <<slot, cl, hist>>
    BY <1>9 DEF ReplaySend, r
  <2>7. reqs' \in Seq(Tickets \cup {Replay})
    BY <1>2, <2>6
  <2> QED
    BY <1>2, <2>2, <2>5, <2>6, <2>7, SetDriver, Reassemble
<1>10. CASE ReplaySendFails(d)
  <2>1. /\ EstablishFails(d, r, Retryable) /\ UNCHANGED <<slot, hist>>
        /\ reqs' = Append(reqs, Replay)
    BY <1>10 DEF ReplaySendFails, r
  <2>2. reqs' \in Seq(Tickets \cup {Replay})
    BY <1>2, <2>1
  <2> QED
    BY <1>1, <2>1, <2>2, ResultTypes, EstablishFailsStep, Reassemble
<1>11. CASE ReplayTimeout(d)
  <2>1. EstablishFails(d, r, Retryable) /\ UNCHANGED <<slot, hist, reqs>>
    BY <1>11 DEF ReplayTimeout, r
  <2> QED
    BY <1>1, <1>2, <2>1, ResultTypes, EstablishFailsStep, Reassemble
<1>12. CASE StartCall(d)
  <2> DEFINE t == Head(r.queued)
             s == [r EXCEPT !.phase = "select", !.queued = Tail(@),
                            !.active = [id |-> NextId, tk |-> t], !.open = @ \cup {NextId}]
  <2>1. /\ r.phase = "start" /\ r.queued # <<>> /\ r.active = None /\ r.stream = TRUE
        /\ r.queued \in Seq(Tickets) /\ r.open = {}
    BY <1>1, <1>12 DEF StartCall, Run, r, DriverInv, PhaseInv, OpenInv, DriverState
  <2>2. t \in Tickets /\ Tail(r.queued) \in Seq(Tickets)
    BY <2>1
  <2>3. NextId \in Nat \ {0}
    BY <1>2 DEF NextId
  <2>4. [id |-> NextId, tk |-> t] \in ActiveCall
    BY <2>2, <2>3 DEF ActiveCall
  <2>5. [id |-> NextId, tk |-> t] # None
    BY <2>4, MarksAssumption
  <2>6. Set(d, s) /\ reqs' = Append(reqs, t) /\ UNCHANGED <<slot, cl, hist>>
    BY <1>12 DEF StartCall, r
  <2>7. reqs' \in Seq(Tickets \cup {Replay})
    BY <1>2, <2>2, <2>6
  <2> HIDE DEF t
  <2>8. s \in DriverState
    BY <1>1, <2>2, <2>3, <2>4 DEF DriverState
  <2>9. /\ s.phase = "select" /\ s.stream = TRUE /\ s.open = {NextId}
        /\ s.active = [id |-> NextId, tk |-> t]
        /\ s.subs = r.subs /\ s.srv = r.srv /\ s.notes = r.notes
        /\ s.waiters = r.waiters /\ s.got = r.got /\ s.took = r.took
    BY <1>1, <2>1 DEF DriverState
  <2>10. DriverInv(s)
    BY <1>1, <2>1, <2>5, <2>9 DEF DriverInv, PhaseInv, OpenInv, NoteInv
  <2> QED
    BY <1>2, <2>6, <2>7, <2>8, <2>10, SetDriver, Reassemble
<1>13. CASE StartCallFails(d)
  <2> DEFINE s == [DropStream(r) EXCEPT !.phase = "top", !.queued = Tail(@), !.waiters = <<>>]
  <2>1. r.queued # <<>> /\ r.queued \in Seq(Tickets)
    BY <1>1, <1>13 DEF StartCallFails, Run, r, DriverInv, PhaseInv, DriverState
  <2>2. Head(r.queued) \in Tickets /\ Tail(r.queued) \in Seq(Tickets)
    BY <2>1
  <2>3. DropStream(r).queued = r.queued
    BY <1>1 DEF DropStream, DriverState
  <2>4. s = [DropStream(r) EXCEPT !.phase = "top", !.queued = Tail(r.queued), !.waiters = <<>>]
    BY <2>3
  <2>5. s \in DriverState /\ DriverInv(s)
    <3>1. None \in ActiveCall \cup {None}
      OBVIOUS
    <3> QED
      BY <1>1, <2>2, <2>4, <3>1, LostGood
  <2>6. /\ Set(d, s) /\ reqs' = Append(reqs, Head(r.queued)) /\ UNCHANGED <<slot, hist>>
        /\ Deliver({Head(r.queued)} \cup Range(r.waiters), Retryable)
    BY <1>13 DEF StartCallFails, r
  <2>7. reqs' \in Seq(Tickets \cup {Replay})
    BY <1>2, <2>2, <2>6
  <2>8. cl' \in [Callers -> CallerState]
    BY <1>2, <2>6, ResultTypes, DeliverType
  <2> QED
    BY <2>5, <2>6, <2>7, <2>8, SetDriver, Reassemble
<1>14. CASE Command(d)
  <2> DEFINE t == Head(r.cmds)
             s == [r EXCEPT !.cmds = Tail(@), !.phase = "top"]
  <2>1. /\ r.phase = "select" /\ r.cmds # <<>> /\ r.cmds \in Seq(Tickets)
        /\ UNCHANGED <<slot, hist, reqs>>
    BY <1>1, <1>14 DEF Command, Run, r, DriverState
  <2>2. t \in Tickets /\ Tail(r.cmds) \in Seq(Tickets)
    BY <2>1
  <2>3. s \in DriverState
    BY <1>1, <2>2 DEF DriverState
  <2>4. DriverInv(s)
    BY <1>1, <2>1 DEF DriverState, DriverInv, PhaseInv, OpenInv, NoteInv
  <2>5. s.phase = "top"
    BY <1>1 DEF DriverState
  <2>6. \/ Set(d, [s EXCEPT !.queued = Append(@, t)]) /\ UNCHANGED cl
        \/ TakeNote(d, s, t)
    BY <1>14 DEF Command, r
  <2> HIDE DEF s, t
  <2>7. CASE Set(d, [s EXCEPT !.queued = Append(@, t)]) /\ UNCHANGED cl
    <3>1. Append(s.queued, t) \in Seq(Tickets)
      BY <2>2, <2>3 DEF DriverState
    <3>2. [s EXCEPT !.queued = Append(@, t)] \in DriverState
      BY <2>3, <3>1 DEF DriverState
    <3>3. DriverInv([s EXCEPT !.queued = Append(@, t)])
      BY <2>3, <2>4, <2>5 DEF DriverState, DriverInv, PhaseInv, OpenInv, NoteInv
    <3> QED
      BY <1>2, <2>1, <2>7, <3>2, <3>3, SetDriver, Reassemble
  <2>8. CASE TakeNote(d, s, t)
    <3>1. CASE s.notes # <<>>
      <4> DEFINE u == [s EXCEPT !.took = Head(s.notes), !.notes = Tail(@)]
      <4>1. Set(d, u) /\ Deliver({t}, Ok(Head(s.notes)))
        BY <2>8, <3>1 DEF TakeNote
      <4>2. /\ s.notes \in Seq(Nat) /\ Head(s.notes) \in Nat /\ Tail(s.notes) \in Seq(Nat)
            /\ s.got \in Nat /\ s.took \in Nat
        BY <2>3, <3>1 DEF DriverState
      <4>3. u \in DriverState
        BY <2>3, <4>2 DEF DriverState
      <4>4. /\ u.notes = Tail(s.notes) /\ u.took = Head(s.notes) /\ u.got = s.got
            /\ u.waiters = s.waiters
        BY <2>3 DEF DriverState
      <4>5. PhaseInv(u) /\ OpenInv(u)
        BY <2>3, <2>4 DEF DriverState, DriverInv, PhaseInv, OpenInv
      <4>6. Head(s.notes) = s.took + 1 /\ s.waiters = <<>>
        BY <2>4, <3>1, <4>2 DEF DriverInv, NoteInv
      <4>7. /\ Len(Tail(s.notes)) = Len(s.notes) - 1
            /\ \A i \in 1..Len(Tail(s.notes)) : Tail(s.notes)[i] = s.notes[i + 1] /\ i + 1 \in 1..Len(s.notes)
        BY <3>1, <4>2
      <4>a. Len(s.notes) = s.got - s.took /\ \A i \in 1..Len(s.notes) : s.notes[i] = s.took + i
        BY <2>4, <4>2 DEF DriverInv, NoteInv
      <4> HIDE DEF u
      <4>b. ASSUME NEW i \in 1..Len(Tail(s.notes))
            PROVE  Tail(s.notes)[i] = (s.took + 1) + i
        <5>1. Tail(s.notes)[i] = s.notes[i + 1] /\ i + 1 \in 1..Len(s.notes)
          BY <4>7
        <5>2. s.notes[i + 1] = s.took + (i + 1)
          BY <5>1, <4>a
        <5>3. i \in Nat
          BY <4>2
        <5> QED
          BY <5>1, <5>2, <5>3, <4>2
      <4>c. Len(u.notes) = u.got - u.took
        BY <4>2, <4>4, <4>6, <4>7, <4>a
      <4>d. DOMAIN u.notes = 1..Len(u.notes)
        BY <4>2, <4>4
      <4>8. NoteInv(u)
        BY <4>4, <4>6, <4>b, <4>c, <4>d, Zenon DEF NoteInv
      <4> USE DEF u
      <4>9. cl' \in [Callers -> CallerState]
        BY <1>2, <4>1, <4>2, ResultTypes, DeliverType
      <4> QED
        BY <1>2, <2>1, <4>1, <4>3, <4>5, <4>8, <4>9, SetDriver, Reassemble DEF DriverInv
    <3>2. CASE s.notes = <<>>
      <4> DEFINE u == [s EXCEPT !.waiters = Append(@, t)]
      <4>1. Set(d, u) /\ UNCHANGED cl
        BY <2>8, <3>2 DEF TakeNote
      <4>2. Append(s.waiters, t) \in Seq(Tickets)
        BY <2>2, <2>3 DEF DriverState
      <4>3. u \in DriverState
        BY <2>3, <4>2 DEF DriverState
      <4>4. DriverInv(u)
        BY <2>3, <2>4, <3>2 DEF DriverState, DriverInv, PhaseInv, OpenInv, NoteInv
      <4> QED
        BY <1>2, <2>1, <4>1, <4>3, <4>4, SetDriver, Reassemble
    <3> QED
      BY <3>1, <3>2
  <2> QED
    BY <2>6, <2>7, <2>8
<1>15. CASE Deadline(d)
  <2>1. LoseStream(d, r, Retryable) /\ UNCHANGED <<slot, hist, reqs>>
    BY <1>15 DEF Deadline, r
  <2> QED
    BY <1>1, <1>2, <2>1, ResultTypes, LoseStreamStep, Reassemble
<1> QED
  BY <1>4, <1>5, <1>6, <1>7, <1>8, <1>9, <1>10, <1>11, <1>12, <1>13, <1>14, <1>15
     DEF DriverNext

-----------------------------------------------------------------------------
(* Frames *)

\* A failed read ends the socket, in the select! or in establish_stream.
LEMMA ReadFailsStep ==
  ASSUME IInv, NEW d \in Drivers, NEW r \in DriverState, NoteInv(r),
         NEW error \in Results, ReadFails(d, r, error)
  PROVE  /\ drv' \in [Drivers -> DriverState] /\ \A e \in Drivers : DriverInv(drv'[e])
         /\ cl' \in [Callers -> CallerState]
<1>1. CASE Run(d, "ack")
  BY <1>1, EstablishFailsStep DEF ReadFails
<1>2. CASE ~Run(d, "ack")
  BY <1>2, LoseStreamStep DEF ReadFails
<1> QED
  BY <1>1, <1>2

\* queue_or_deliver_notification: delivered, queued or refused.
LEMMA NotificationStep ==
  ASSUME IInv, NEW d \in Drivers, Notification(d)
  PROVE  IInv'
<1> DEFINE r == drv[d]
           f == r.got + 1
           s == [r EXCEPT !.waiters = PastAcceptor(@),
                          !.phase = IF @ = "ack" THEN "ack" ELSE "top"]
<1>1. r \in DriverState /\ DriverInv(r)
  BY DEF IInv, TypeOK
<1>2. cl \in [Callers -> CallerState] /\ reqs \in Seq(Tickets \cup {Replay})
  BY DEF IInv, TypeOK
<1>3. /\ UNCHANGED <<slot, hist, reqs>>
      /\ r.phase = "ack" \/ (r.phase = "select" /\ r.stream)
  BY DEF Notification, Reading, Selecting, Run
<1>4. \/ /\ HasLive(r.waiters)
         /\ Deliver(Acceptor(r.waiters), Ok(f))
         /\ Set(d, [s EXCEPT !.got = f, !.took = f])
      \/ /\ ~HasLive(r.waiters)
         /\ Set(d, [s EXCEPT !.got = f, !.notes = Append(@, f)])
         /\ UNCHANGED cl
      \/ /\ ~HasLive(r.waiters)
         /\ ReadFails(d, s, Fatal)
  BY DEF Notification
<1> HIDE DEF r
<1>5. f \in Nat /\ r.notes \in Seq(Nat) /\ r.got \in Nat /\ r.took \in Nat /\ f = r.got + 1
  BY <1>1 DEF DriverState
<1>6. PastAcceptor(r.waiters) \in Seq(Tickets)
  BY <1>1, PastAcceptorType DEF DriverState
<1>7. s \in DriverState
  BY <1>1, <1>6 DEF DriverState
<1>8. /\ s.notes = r.notes /\ s.got = r.got /\ s.took = r.took
      /\ s.waiters = PastAcceptor(r.waiters)
      /\ s.phase = IF r.phase = "ack" THEN "ack" ELSE "top"
  BY <1>1 DEF DriverState
<1>9. PhaseInv(s) /\ OpenInv(s)
  BY <1>1, <1>3 DEF DriverState, DriverInv, PhaseInv, OpenInv
<1>10. ~HasLive(r.waiters) => s.waiters = <<>>
  BY <1>8 DEF PastAcceptor
<1>11. HasLive(r.waiters) => r.notes = <<>>
  BY <1>1 DEF HasLive, DriverInv, NoteInv
<1> HIDE DEF s, f
<1>12. CASE /\ HasLive(r.waiters)
            /\ Deliver(Acceptor(r.waiters), Ok(f))
            /\ Set(d, [s EXCEPT !.got = f, !.took = f])
  <2> DEFINE u == [s EXCEPT !.got = f, !.took = f]
  <2>1. u \in DriverState
    BY <1>5, <1>7 DEF DriverState
  <2>2. u.notes = <<>> /\ u.got = f /\ u.took = f
    BY <1>7, <1>8, <1>11, <1>12 DEF DriverState
  <2>3. PhaseInv(u) /\ OpenInv(u)
    BY <1>7, <1>9 DEF DriverState, PhaseInv, OpenInv
  <2>4. NoteInv(u)
    BY <1>5, <2>2 DEF NoteInv
  <2>5. cl' \in [Callers -> CallerState]
    BY <1>2, <1>5, <1>12, ResultTypes, DeliverType
  <2> QED
    BY <1>2, <1>3, <1>12, <2>1, <2>3, <2>4, <2>5, SetDriver, Reassemble DEF DriverInv
<1>13. CASE /\ ~HasLive(r.waiters)
            /\ Set(d, [s EXCEPT !.got = f, !.notes = Append(@, f)])
            /\ UNCHANGED cl
  <2> DEFINE u == [s EXCEPT !.got = f, !.notes = Append(@, f)]
  <2>1. Append(s.notes, f) \in Seq(Nat)
    BY <1>5, <1>8
  <2>2. u \in DriverState
    BY <1>5, <1>7, <2>1 DEF DriverState
  <2>3. u.notes = Append(r.notes, f) /\ u.got = f /\ u.took = r.took /\ u.waiters = <<>>
    BY <1>7, <1>8, <1>10, <1>13 DEF DriverState
  <2>4. PhaseInv(u) /\ OpenInv(u)
    BY <1>7, <1>9 DEF DriverState, PhaseInv, OpenInv
  <2>5. Len(r.notes) = r.got - r.took /\ \A i \in 1..Len(r.notes) : r.notes[i] = r.took + i
    BY <1>1, <1>5 DEF DriverInv, NoteInv
  <2> HIDE DEF u
  <2>a. Len(u.notes) = u.got - u.took /\ DOMAIN u.notes = 1..Len(u.notes)
    BY <1>5, <2>3, <2>5
  <2>b. ASSUME NEW i \in 1..Len(u.notes)
        PROVE  u.notes[i] = u.took + i
    <3>1. i \in 1..(Len(r.notes) + 1)
      BY <1>5, <2>3
    <3>2. CASE i = Len(r.notes) + 1
      <4>1. Append(r.notes, f)[i] = f
        BY <1>5, <3>2
      <4> QED
        BY <1>5, <2>3, <2>5, <3>2, <4>1
    <3>3. CASE i \in 1..Len(r.notes)
      <4>1. Append(r.notes, f)[i] = r.notes[i]
        BY <1>5, <3>3
      <4> QED
        BY <2>3, <2>5, <3>3, <4>1
    <3> QED
      BY <1>5, <3>1, <3>2, <3>3
  <2>6. NoteInv(u)
    BY <2>3, <2>a, <2>b DEF NoteInv
  <2> USE DEF u
  <2> QED
    BY <1>2, <1>3, <1>13, <2>2, <2>4, <2>6, SetDriver, Reassemble DEF DriverInv
<1>14. CASE ~HasLive(r.waiters) /\ ReadFails(d, s, Fatal)
  <2>1. NoteInv(s)
    BY <1>1, <1>8, <1>10, <1>14 DEF DriverInv, NoteInv
  <2> QED
    BY <1>2, <1>3, <1>7, <1>14, <2>1, ResultTypes, ReadFailsStep, Reassemble
<1> QED
  BY <1>4, <1>12, <1>13, <1>14

\* handle_received_frame for a frame with an id: refused, error or answer.
LEMMA ResponseStep ==
  ASSUME IInv, NEW d \in Drivers, NEW id \in Nat, NEW verdict, Response(d, id, verdict)
  PROVE  IInv'
<1> DEFINE r == drv[d]
           a == r.active
           s == [r EXCEPT !.phase = "top", !.active = None, !.open = @ \ {id}]
           u == [s EXCEPT !.subs = Remember(@, OpOf(a.tk)), !.srv = @ \cup {OpOf(a.tk)}]
<1>1. r \in DriverState /\ DriverInv(r) /\ NoteInv(r)
  BY DEF IInv, TypeOK, DriverInv
<1>2. cl \in [Callers -> CallerState] /\ reqs \in Seq(Tickets \cup {Replay})
  BY DEF IInv, TypeOK
<1>3. r.phase = "select" /\ r.stream = TRUE /\ UNCHANGED <<slot, hist, reqs>>
  BY <1>1 DEF Response, Selecting, Run, DriverState
<1>4. \/ Unasked(a, id) /\ LoseStream(d, r, Fatal)
      \/ ~Unasked(a, id) /\ Deliver({a.tk}, Fatal) /\ Set(d, s)
      \/ /\ ~Unasked(a, id) /\ Deliver({a.tk}, Ok(id))
         /\ Set(d, IF OpOf(a.tk) \in Topics THEN u ELSE s)
  BY DEF Response
<1>5. CASE Unasked(a, id) /\ LoseStream(d, r, Fatal)
  BY <1>1, <1>2, <1>3, <1>5, ResultTypes, LoseStreamStep, Reassemble
<1>6. CASE ~Unasked(a, id)
  <2>1. a # None /\ a.id = id
    BY <1>6 DEF Unasked
  <2> HIDE DEF r
  <2>2. r.open \ {id} = {}
    BY <1>1, <1>3, <2>1 DEF DriverInv, OpenInv
  <2>3. s \in DriverState
    BY <1>1 DEF DriverState
  <2>4. /\ s.phase = "top" /\ s.stream = TRUE /\ s.open = {} /\ s.subs = r.subs
        /\ s.srv = r.srv /\ s.notes = r.notes /\ s.waiters = r.waiters
        /\ s.got = r.got /\ s.took = r.took
    BY <1>1, <1>3, <2>2 DEF DriverState
  <2>5. Range(r.subs) \subseteq r.srv
    BY <1>1, <1>3 DEF DriverInv, PhaseInv
  <2>6. DriverInv(s)
    BY <1>1, <2>4, <2>5 DEF DriverInv, PhaseInv, OpenInv, NoteInv
  <2>7. ASSUME OpOf(a.tk) \in Topics
        PROVE  u \in DriverState /\ DriverInv(u)
    <3> DEFINE p == OpOf(a.tk)
    <3>1. s.subs \in Seq(Topics) /\ s.srv \subseteq Topics
      BY <2>3 DEF DriverState
    <3>2. p \in Topics
      BY <2>7
    <3> HIDE DEF p, s
    <3>3. Remember(s.subs, p) \in Seq(Topics)
      BY <3>1, <3>2 DEF Remember
    <3>4. Range(Remember(s.subs, p)) \subseteq Range(s.subs) \cup {p}
      BY <3>1, <3>2 DEF Remember, Range
    <3>5. u = [s EXCEPT !.subs = Remember(@, p), !.srv = @ \cup {p}]
      BY DEF p
    <3> HIDE DEF u
    <3>6. u \in DriverState
      BY <2>3, <3>1, <3>2, <3>3, <3>5 DEF DriverState
    <3>7. /\ u.phase = s.phase /\ u.stream = s.stream /\ u.open = s.open /\ u.notes = s.notes
          /\ u.waiters = s.waiters /\ u.got = s.got /\ u.took = s.took
          /\ u.subs = Remember(s.subs, p) /\ u.srv = s.srv \cup {p}
      BY <2>3, <3>5 DEF DriverState
    <3>8. Range(u.subs) \subseteq u.srv
      BY <2>4, <2>5, <3>4, <3>7
    <3>9. DriverInv(u)
      BY <1>1, <2>4, <3>7, <3>8 DEF DriverInv, PhaseInv, OpenInv, NoteInv
    <3> QED
      BY <3>6, <3>9
  <2>8. CASE Deliver({a.tk}, Fatal) /\ Set(d, s)
    <3>1. cl' \in [Callers -> CallerState]
      BY <1>2, <2>8, ResultTypes, DeliverType
    <3> HIDE DEF s
    <3> QED
      BY <1>2, <1>3, <2>3, <2>6, <2>8, <3>1, SetDriver, Reassemble
  <2>9. CASE /\ Deliver({a.tk}, Ok(id))
             /\ Set(d, IF OpOf(a.tk) \in Topics THEN u ELSE s)
    <3>1. cl' \in [Callers -> CallerState]
      BY <1>2, <2>9, ResultTypes, DeliverType
    <3> HIDE DEF s, u
    <3>2. CASE OpOf(a.tk) \in Topics
      <4>1. Set(d, u)
        BY <2>9, <3>2
      <4>2. u \in DriverState /\ DriverInv(u)
        BY <2>7, <3>2
      <4> QED
        BY <1>2, <1>3, <3>1, <4>1, <4>2, SetDriver, Reassemble
    <3>3. CASE OpOf(a.tk) \notin Topics
      <4>1. Set(d, s)
        BY <2>9, <3>3
      <4> QED
        BY <1>2, <1>3, <2>3, <2>6, <3>1, <4>1, SetDriver, Reassemble
    <3> QED
      BY <3>2, <3>3
  <2> HIDE DEF s, u, a
  <2> QED
    BY <1>4, <1>6, <2>8, <2>9
<1> QED
  BY <1>4, <1>5, <1>6

\* The acknowledgement of a replayed subscription.
LEMMA ReplayResponseStep ==
  ASSUME IInv, NEW d \in Drivers, NEW id \in Nat, NEW verdict, ReplayResponse(d, id, verdict)
  PROVE  IInv'
<1> DEFINE r == drv[d]
           s == [r EXCEPT !.open = @ \ {id}, !.rid = 0,
                          !.srv = @ \cup {r.subs[r.pos]}, !.pos = @ + 1]
           up == [s EXCEPT !.stream = TRUE, !.pos = 0]
<1>1. r \in DriverState /\ DriverInv(r) /\ NoteInv(r)
  BY DEF IInv, TypeOK, DriverInv
<1>2. cl \in [Callers -> CallerState] /\ reqs \in Seq(Tickets \cup {Replay})
  BY DEF IInv, TypeOK
<1>3. r.phase = "ack" /\ UNCHANGED <<slot, hist, reqs>>
  BY DEF ReplayResponse, Run
<1>4. \/ EstablishFails(d, r, Fatal)
      \/ /\ id = r.rid /\ UNCHANGED cl
         /\ Set(d, IF r.pos < Len(r.subs) THEN [s EXCEPT !.phase = "replay"]
                   ELSE [up EXCEPT !.phase = StartPhase(up)])
  BY DEF ReplayResponse
<1>5. CASE EstablishFails(d, r, Fatal)
  BY <1>1, <1>2, <1>3, <1>5, ResultTypes, EstablishFailsStep, Reassemble
<1> HIDE DEF r
<1>6. /\ r.pos \in 1..Len(r.subs) /\ r.subs \in Seq(Topics) /\ r.open = {r.rid}
      /\ r.stream = FALSE /\ \A i \in 1..(r.pos - 1) : r.subs[i] \in r.srv
  BY <1>1, <1>3 DEF DriverInv, PhaseInv, OpenInv, DriverState
<1>7. CASE /\ id = r.rid /\ UNCHANGED cl
           /\ Set(d, IF r.pos < Len(r.subs) THEN [s EXCEPT !.phase = "replay"]
                     ELSE [up EXCEPT !.phase = StartPhase(up)])
  <2>1. r.subs[r.pos] \in Topics /\ r.pos + 1 \in Nat
    BY <1>6
  <2>2. s \in DriverState
    BY <1>1, <2>1 DEF DriverState
  <2>3. /\ s.phase = "ack" /\ s.stream = FALSE /\ s.open = {} /\ s.subs = r.subs
        /\ s.srv = r.srv \cup {r.subs[r.pos]} /\ s.pos = r.pos + 1 /\ s.notes = r.notes
        /\ s.waiters = r.waiters /\ s.got = r.got /\ s.took = r.took
    BY <1>1, <1>3, <1>6, <1>7 DEF DriverState
  <2>4. \A i \in 1..r.pos : r.subs[i] \in s.srv
    BY <1>6, <2>3
  <2>5. NoteInv(s)
    BY <1>1, <2>3 DEF NoteInv
  <2> HIDE DEF s
  <2>6. CASE r.pos < Len(r.subs)
    <3> DEFINE v == [s EXCEPT !.phase = "replay"]
    <3>1. v \in DriverState
      BY <2>2 DEF DriverState
    <3>2. /\ v.phase = "replay" /\ v.stream = FALSE /\ v.open = {} /\ v.subs = r.subs
          /\ v.srv = s.srv /\ v.pos = r.pos + 1 /\ v.notes = s.notes
          /\ v.waiters = s.waiters /\ v.got = s.got /\ v.took = s.took
      BY <2>2, <2>3 DEF DriverState
    <3> HIDE DEF v
    <3>3. v.pos \in 1..Len(v.subs) /\ v.pos - 1 = r.pos
      BY <1>6, <2>6, <3>2
    <3>4. PhaseInv(v)
      BY <2>4, <3>2, <3>3 DEF PhaseInv
    <3>5. OpenInv(v) /\ NoteInv(v)
      BY <2>5, <3>2 DEF OpenInv, NoteInv
    <3>6. Set(d, v)
      BY <1>7, <2>6 DEF v
    <3> QED
      BY <1>2, <1>3, <1>7, <3>1, <3>4, <3>5, <3>6, SetDriver, Reassemble DEF DriverInv
  <2>7. CASE ~(r.pos < Len(r.subs))
    <3>1. up \in DriverState
      BY <2>2 DEF DriverState
    <3>2. /\ up.stream = TRUE /\ up.open = {} /\ up.subs = r.subs /\ up.srv = s.srv
          /\ up.notes = s.notes /\ up.waiters = s.waiters /\ up.got = s.got /\ up.took = s.took
      BY <2>2, <2>3 DEF DriverState
    <3> DEFINE v == [up EXCEPT !.phase = StartPhase(up)]
    <3>3. Set(d, v)
      BY <1>7, <2>7
    <3> HIDE DEF up
    <3>4. r.pos = Len(r.subs)
      BY <1>6, <2>7
    <3>5. Range(up.subs) \subseteq up.srv
      BY <1>6, <2>4, <3>2, <3>4 DEF Range
    <3>6. NoteInv(up)
      BY <2>5, <3>2 DEF NoteInv
    <3>7. v \in DriverState /\ DriverInv(v)
      BY <3>1, <3>2, <3>5, <3>6, StartPhaseGood
    <3> QED
      BY <1>2, <1>3, <1>7, <3>3, <3>7, SetDriver, Reassemble
  <2> QED
    BY <2>6, <2>7
<1> QED
  BY <1>4, <1>5, <1>7

\* Any frame, or the end of the stream.
LEMMA PeerStep ==
  ASSUME IInv, NEW d \in Drivers, PeerNext(d)
  PROVE  IInv'
<1>1. drv[d] \in DriverState /\ NoteInv(drv[d])
  BY DEF IInv, TypeOK, DriverInv
<1>2. reqs \in Seq(Tickets \cup {Replay})
  BY DEF IInv, TypeOK
<1>3. CASE PeerCloses(d)
  BY <1>1, <1>2, <1>3, ResultTypes, ReadFailsStep, Reassemble DEF PeerCloses
<1>4. CASE Garbage(d)
  BY <1>1, <1>2, <1>4, ResultTypes, ReadFailsStep, Reassemble DEF Garbage
<1>5. CASE Notification(d)
  BY <1>5, NotificationStep
<1>6. ASSUME NEW id \in FrameIds(d), NEW v \in Verdicts,
             Response(d, id, v) \/ ReplayResponse(d, id, v)
      PROVE  IInv'
  <2>1. id \in Nat
    BY <1>1, <1>2 DEF FrameIds, DriverState
  <2> QED
    BY <1>6, <2>1, ResponseStep, ReplayResponseStep
<1> QED
  BY <1>3, <1>4, <1>5, <1>6 DEF PeerNext

-----------------------------------------------------------------------------
(* The theorems *)

\* The initial state: no driver, idle callers, no request.
LEMMA InitIInv == Init => IInv
<1> SUFFICES ASSUME Init PROVE IInv
  OBVIOUS
<1>1. <<>> \in Seq(Tickets) /\ <<>> \in Seq(Topics) /\ <<>> \in Seq(Nat)
      /\ <<>> \in Seq(CallRecord) /\ <<>> \in Seq(Tickets \cup {Replay})
  OBVIOUS
<1>2. FreshDriver \in DriverState
  BY <1>1 DEF FreshDriver, DriverState
<1>3. IdleCaller \in CallerState
  BY DEF IdleCaller, CallerState, Fatal, Results
<1>4. DriverInv(FreshDriver)
  BY DEF FreshDriver, DriverInv, PhaseInv, OpenInv, NoteInv
<1> QED
  BY <1>1, <1>2, <1>3, <1>4 DEF Init, IInv, TypeOK

\* Every step of every caller, driver and peer keeps the invariant.
LEMMA NextIInv == IInv /\ [Next]_vars => IInv'
<1> SUFFICES ASSUME IInv, [Next]_vars PROVE IInv'
  OBVIOUS
<1>1. CASE UNCHANGED vars
  BY <1>1 DEF vars, IInv, TypeOK
<1>2. CASE Next
  BY <1>2, CallerStep, DriverStep, PeerStep DEF Next
<1> QED
  BY <1>1, <1>2

\* The inductive invariant of the drivers holds in every reachable state.
THEOREM Invariance == Spec => []IInv
BY InitIInv, NextIInv, PTL DEF Spec

\* All variables of the transport keep their types.
THEOREM TypeCorrect == Spec => []TypeOK
<1>1. IInv => TypeOK
  BY DEF IInv
<1> QED
  BY <1>1, Invariance, PTL

\* No socket is used before the remembered subscriptions are in force on it,
\* for any number of drivers, topics, reconnects and failed replays.
THEOREM ReplayCorrect == Spec => []ReplayedOnStream
<1>1. IInv => ReplayedOnStream
  BY DEF IInv, DriverInv, PhaseInv, ReplayedOnStream
<1> QED
  BY <1>1, Invariance, PTL

\* A late answer to a timed-out request never finds a later active call.
THEOREM NoStaleAnswer == Spec => []OnlyActiveUnanswered
<1>1. IInv => OnlyActiveUnanswered
  BY DEF IInv, DriverInv, OpenInv, OnlyActiveUnanswered
<1> QED
  BY <1>1, Invariance, PTL

\* Notification frames are kept in arrival order without gap or repetition,
\* and never while somebody waits for one.
THEOREM NotesOrdered == Spec => []NotesInOrder
<1>1. IInv => NotesInOrder
  BY DEF IInv, DriverInv, NoteInv, NotesInOrder
<1> QED
  BY <1>1, Invariance, PTL

-----------------------------------------------------------------------------
(***************************************************************************)
(* The tickets: where the oneshot of a call may be while callers give up,  *)
(* drivers stop and sockets are replaced, and that the transport therefore *)
(* implements WrpcService.                                                 *)
(* TicketInv says that a ticket is held in one place only, that a held     *)
(* ticket is awaited or its call was abandoned, and that what was sent is  *)
(* not queued any more.  A step of a driver is summarised by Serves(d),    *)
(* what it does to tickets and callers; each action is shown to do that,   *)
(* and the invariant is shown to survive whatever does that.               *)
(***************************************************************************)

\* The tickets a driver holds.
Pool(r) ==
  Range(r.cmds) \cup Range(r.queued) \cup Range(r.waiters) \cup ActiveTickets(r)

Unsent(r) == Range(r.cmds) \cup Range(r.queued)

\* None of them twice.
Apart(r) ==
  /\ IsInjective(r.cmds) /\ IsInjective(r.queued) /\ IsInjective(r.waiters)
  /\ Range(r.cmds) \cap (Range(r.queued) \cup Range(r.waiters) \cup ActiveTickets(r)) = {}
  /\ Range(r.queued) \cap (Range(r.waiters) \cup ActiveTickets(r)) = {}

\* handle_command separates the calls from the waits for notifications.
Kinds(r) ==
  /\ \A t \in Range(r.queued) \cup ActiveTickets(r) : OpOf(t) # NextNote
  /\ \A t \in Range(r.waiters) : OpOf(t) = NextNote

\* The attempt t has been made: it is not one its caller may yet make.
Known(t) ==
  /\ t.n \in 1..Len(hist[t.who])
  /\ t.n = Len(hist[t.who]) /\ cl[t.who].pc # "idle" =>
       \/ t.try < cl[t.who].try
       \/ t.try = cl[t.who].try /\ cl[t.who].pc \in {"wait", "got"}
  /\ t.try = 2 => OpOf(t) # Submit

\* Somebody waits for it, or nobody cares any more.
Wanted(t) == Live(t) \/ hist[t.who][t.n].out = "cancelled"

\* A caller's control state and its last call.
CallInv(c) ==
  LET h == hist[c] IN
  /\ cl[c].pc = "idle" => h = <<>> \/ h[Len(h)].out # "open"
  /\ cl[c].pc # "idle" => /\ h # <<>> /\ h[Len(h)].out = "open"
                          /\ cl[c].try = 2 => h[Len(h)].op # Submit
  /\ cl[c].pc = "send" => cl[c].at \in Drivers

\* An active call was sent under its id.
ActiveSent(r) ==
  r.active # None => r.active.id \in DOMAIN reqs /\ reqs[r.active.id] = r.active.tk

PoolsInv ==
  /\ \A d \in Drivers : Apart(drv[d]) /\ Kinds(drv[d])
  /\ \A d, e \in Drivers : d # e => Pool(drv[d]) \cap Pool(drv[e]) = {}
  /\ \A d \in Drivers : \A t \in Pool(drv[d]) : Known(t) /\ Wanted(t)

SentInv ==
  /\ \A d \in Drivers : Unsent(drv[d]) \cap Range(reqs) = {}
  /\ \A d \in Drivers : ActiveSent(drv[d])
  /\ \A i \in DOMAIN reqs : reqs[i] # Replay => Known(reqs[i])
  /\ \A i, j \in DOMAIN reqs : reqs[i] # Replay /\ reqs[i] = reqs[j] => i = j

TicketInv == (\A c \in Callers : CallInv(c)) /\ PoolsInv /\ SentInv /\ AnswerIsOwn

-----------------------------------------------------------------------------
(* Sequences without repetition *)

\* Nothing is in an empty queue.
LEMMA EmptyQueue == Range(<<>>) = {} /\ IsInjective(<<>>)
BY DEF Range, IsInjective

\* Taking the head of a queue leaves the others in it.
LEMMA TailQueue ==
  ASSUME NEW S, NEW q \in Seq(S), q # <<>>
  PROVE  /\ Tail(q) \in Seq(S) /\ Head(q) \in Range(q)
         /\ Range(Tail(q)) \subseteq Range(q)
         /\ Range(q) = Range(Tail(q)) \cup {Head(q)}
         /\ IsInjective(q) => IsInjective(Tail(q)) /\ Head(q) \notin Range(Tail(q))
<1>1. /\ Tail(q) \in Seq(S) /\ Len(q) \in Nat \ {0} /\ Len(Tail(q)) = Len(q) - 1
      /\ \A i \in 1..Len(Tail(q)) : Tail(q)[i] = q[i + 1]
      /\ Head(q) = q[1] /\ DOMAIN q = 1..Len(q) /\ DOMAIN Tail(q) = 1..Len(Tail(q))
  BY HeadTailProperties, EmptySeq, LenProperties
<1>2. Range(Tail(q)) \subseteq Range(q)
  <2>1. ASSUME NEW i \in DOMAIN Tail(q)
        PROVE  Tail(q)[i] \in Range(q)
    <3>1. i + 1 \in DOMAIN q /\ Tail(q)[i] = q[i + 1]
      BY <1>1
    <3> QED
      BY <3>1 DEF Range
  <2> QED
    BY <2>1 DEF Range
<1>3. Head(q) \in Range(q)
  BY <1>1 DEF Range
<1>4. Range(q) \subseteq Range(Tail(q)) \cup {Head(q)}
  <2>1. ASSUME NEW i \in DOMAIN q, i # 1
        PROVE  q[i] \in Range(Tail(q))
    <3>1. i - 1 \in DOMAIN Tail(q) /\ Tail(q)[i - 1] = q[i]
      BY <1>1, <2>1
    <3> QED
      BY <3>1 DEF Range
  <2> QED
    BY <1>1, <2>1 DEF Range
<1>5. ASSUME IsInjective(q)
      PROVE  IsInjective(Tail(q)) /\ Head(q) \notin Range(Tail(q))
  <2>1. ASSUME NEW i \in DOMAIN Tail(q), NEW j \in DOMAIN Tail(q), Tail(q)[i] = Tail(q)[j]
        PROVE  i = j
    <3>1. i + 1 \in DOMAIN q /\ j + 1 \in DOMAIN q /\ q[i + 1] = q[j + 1]
      BY <1>1, <2>1
    <3>2. i + 1 = j + 1
      BY <1>5, <3>1 DEF IsInjective
    <3> QED
      BY <1>1, <3>2
  <2>2. ASSUME NEW i \in DOMAIN Tail(q)
        PROVE  Tail(q)[i] # Head(q)
    <3>1. i + 1 \in DOMAIN q /\ Tail(q)[i] = q[i + 1] /\ i + 1 # 1 /\ 1 \in DOMAIN q
      BY <1>1
    <3> QED
      BY <1>1, <1>5, <3>1 DEF IsInjective
  <2> QED
    BY <2>1, <2>2 DEF IsInjective, Range
<1> QED
  BY <1>1, <1>2, <1>3, <1>4, <1>5

\* A newcomer joins a queue at its end.
LEMMA AppendQueue ==
  ASSUME NEW S, NEW q \in Seq(S), NEW t \in S
  PROVE  /\ Append(q, t) \in Seq(S) /\ Range(Append(q, t)) = Range(q) \cup {t}
         /\ IsInjective(q) /\ t \notin Range(q) => IsInjective(Append(q, t))
<1> DEFINE a == Append(q, t)
<1>1. /\ a \in Seq(S) /\ Len(q) \in Nat /\ Len(a) = Len(q) + 1
      /\ \A i \in 1..Len(q) : a[i] = q[i]
      /\ a[Len(q) + 1] = t /\ DOMAIN q = 1..Len(q) /\ DOMAIN a = 1..(Len(q) + 1)
  BY AppendProperties, LenProperties
<1> HIDE DEF a
<1>2. \A i \in DOMAIN a : i \in DOMAIN q \/ i = Len(q) + 1
  BY <1>1
<1>3. DOMAIN q \subseteq DOMAIN a /\ Len(q) + 1 \in DOMAIN a
  BY <1>1
<1>4. Range(a) = Range(q) \cup {t}
  BY <1>1, <1>2, <1>3 DEF Range
<1>5. ASSUME IsInjective(q), t \notin Range(q)
      PROVE  IsInjective(a)
  BY <1>1, <1>2, <1>5 DEF IsInjective, Range
<1> QED
  BY <1>1, <1>4, <1>5 DEF a

\* What is left of a queue behind its k-th member.
LEMMA DropQueue ==
  ASSUME NEW S, NEW q \in Seq(S), NEW k \in 1..Len(q), NEW p, p = SubSeq(q, k + 1, Len(q))
  PROVE  /\ p \in Seq(S) /\ Len(p) = Len(q) - k
         /\ \A i \in 1..Len(p) : p[i] = q[k + i]
<1>1. Len(q) \in Nat /\ k \in Nat /\ k <= Len(q)
  BY LenProperties
<1>2. k + 1 \in Int /\ Len(q) \in Int /\ \A i \in (k + 1)..Len(q) : q[i] \in S
  BY <1>1, ElementOfSeq
<1>3. /\ p \in Seq(S)
      /\ Len(p) = IF k + 1 <= Len(q) THEN Len(q) - (k + 1) + 1 ELSE 0
      /\ \A i \in 1..(Len(q) - (k + 1) + 1) : p[i] = q[(k + 1) + i - 1]
  BY <1>2, SubSeqProperties
<1>4. Len(p) = Len(q) - k
  BY <1>1, <1>3
<1>5. ASSUME NEW i \in 1..Len(p) PROVE p[i] = q[k + i]
  <2>1. i \in 1..(Len(q) - (k + 1) + 1) /\ (k + 1) + i - 1 = k + i
    BY <1>1, <1>4
  <2> QED
    BY <1>3, <2>1
<1> QED
  BY <1>3, <1>4, <1>5

\* The waiters behind the one that takes a frame.
LEMMA PastQueue ==
  ASSUME NEW w \in Seq(Tickets)
  PROVE  /\ Range(PastAcceptor(w)) \subseteq Range(w)
         /\ Acceptor(w) \subseteq Range(w)
         /\ IsInjective(w) => /\ IsInjective(PastAcceptor(w))
                              /\ Acceptor(w) \cap Range(PastAcceptor(w)) = {}
<1>1. CASE ~HasLive(w)
  BY <1>1, EmptyQueue DEF PastAcceptor, Acceptor
<1>2. CASE HasLive(w)
  <2> DEFINE k == FirstLive(w)
             p == PastAcceptor(w)
  <2>1. k \in 1..Len(w) /\ DOMAIN w = 1..Len(w) /\ Len(w) \in Nat
    BY <1>2, FirstLiveExists
  <2>2. p = SubSeq(w, k + 1, Len(w)) /\ Acceptor(w) = {w[k]}
    BY <1>2 DEF PastAcceptor, Acceptor
  <2> HIDE DEF k, p
  <2>3. Len(p) = Len(w) - k /\ \A i \in 1..Len(p) : p[i] = w[k + i]
    <3>1. \A i \in 1..Len(w) : \A q :
            q = SubSeq(w, i + 1, Len(w)) =>
              Len(q) = Len(w) - i /\ \A j \in 1..Len(q) : q[j] = w[i + j]
      BY DropQueue
    <3> QED
      BY <2>1, <2>2, <3>1, Zenon
  <2>4. DOMAIN p = 1..Len(p)
    BY PastAcceptorType DEF p
  <2>5. \A i \in DOMAIN p : k + i \in DOMAIN w /\ p[i] = w[k + i] /\ k + i # k
    BY <2>1, <2>3, <2>4
  <2>6. Range(p) \subseteq Range(w) /\ Acceptor(w) \subseteq Range(w)
    BY <2>1, <2>2, <2>5 DEF Range
  <2>7. ASSUME IsInjective(w)
        PROVE  IsInjective(p) /\ Acceptor(w) \cap Range(p) = {}
    <3>1. ASSUME NEW i \in DOMAIN p, NEW j \in DOMAIN p, p[i] = p[j]
          PROVE  i = j
      <4>1. k + i = k + j
        BY <2>5, <2>7, <3>1 DEF IsInjective
      <4> QED
        BY <2>1, <2>4, <4>1
    <3>2. \A i \in DOMAIN p : p[i] # w[k]
      BY <2>1, <2>5, <2>7 DEF IsInjective
    <3> QED
      BY <2>2, <3>1, <3>2 DEF IsInjective, Range
  <2> QED
    BY <2>6, <2>7 DEF p
<1> QED
  BY <1>1, <1>2

-----------------------------------------------------------------------------
(* What a step of a driver does to tickets and callers *)

\* A caller is told the result of a ticket the driver then gives up.
Told(d, c) ==
  /\ cl[c].pc = "wait" /\ Ticket(c) \in Pool(drv[d]) \ Pool(drv'[d])
  /\ cl'[c].pc = "got" /\ cl'[c].try = cl[c].try
  /\ cl'[c].res.kind = "ok" =>
       \/ OpOf(Ticket(c)) = NextNote
       \/ cl'[c].res.id \in DOMAIN reqs /\ reqs[cl'[c].res.id] = Ticket(c)

\* A request leaves: a replay, or a ticket that is queued no longer.
Sends(d) ==
  \/ reqs' = reqs /\ drv'[d].active \in {drv[d].active, None}
  \/ reqs' = Append(reqs, Replay) /\ drv'[d].active \in {drv[d].active, None}
  \/ \E t \in Range(drv[d].queued) :
       /\ reqs' = Append(reqs, t) /\ t \notin Unsent(drv'[d])
       /\ drv'[d].active \in {[id |-> NextId, tk |-> t], None}

\* A frame handed out reaches a caller, or the command that asked for it is
\* one that nobody awaits.
HandsOut(d) ==
  drv'[d].took > drv[d].took =>
    \/ \E c \in Callers : cl[c].pc = "wait" /\ cl'[c].pc = "got" /\ cl'[c].res = Ok(drv'[d].took)
    \/ /\ drv[d].cmds # <<>> /\ drv'[d].cmds = Tail(drv[d].cmds)
       /\ ~Live(Head(drv[d].cmds))

Serves(d) ==
  /\ hist' = hist /\ slot' = slot
  /\ \A e \in Drivers : e # d => drv'[e] = drv[e]
  /\ Apart(drv'[d]) /\ Kinds(drv'[d])
  /\ Pool(drv'[d]) \subseteq Pool(drv[d]) /\ Unsent(drv'[d]) \subseteq Unsent(drv[d])
  /\ \A c \in Callers : cl'[c] = cl[c] \/ Told(d, c)
  /\ Sends(d)
  /\ HandsOut(d)

\* The record a driver's step leaves, and the others'.
LEMMA NewRecord ==
  ASSUME IInv, NEW d \in Drivers, NEW s, Set(d, s)
  PROVE  drv'[d] = s /\ \A e \in Drivers : e # d => drv'[e] = drv[e]
BY DEF IInv, TypeOK, Set

\* A record whose queues are kept, or emptied.
Keeps(r, s) ==
  /\ s.cmds = r.cmds \/ s.cmds = <<>>
  /\ s.queued = r.queued \/ s.queued = <<>>
  /\ s.waiters = r.waiters \/ s.waiters = PastAcceptor(r.waiters) \/ s.waiters = <<>>
  /\ s.active = r.active \/ s.active = None

\* Keeping or emptying queues repeats no ticket.
LEMMA KeepsApart ==
  ASSUME NEW r \in DriverState, NEW s, Keeps(r, s), Apart(r), Kinds(r)
  PROVE  /\ Apart(s) /\ Kinds(s) /\ Pool(s) \subseteq Pool(r) /\ Unsent(s) \subseteq Unsent(r)
         /\ Range(s.waiters) \subseteq Range(r.waiters)
<1>1. r.waiters \in Seq(Tickets)
  BY DEF DriverState
<1>2. /\ Range(s.waiters) \subseteq Range(r.waiters)
      /\ IsInjective(s.waiters)
  BY <1>1, PastQueue, EmptyQueue DEF Keeps, Apart
<1>3. Range(s.cmds) \subseteq Range(r.cmds) /\ IsInjective(s.cmds)
  BY EmptyQueue DEF Keeps, Apart
<1>4. Range(s.queued) \subseteq Range(r.queued) /\ IsInjective(s.queued)
  BY EmptyQueue DEF Keeps, Apart
<1>5. ActiveTickets(s) \subseteq ActiveTickets(r)
  BY DEF Keeps, ActiveTickets
<1> QED
  BY <1>2, <1>3, <1>4, <1>5 DEF Apart, Kinds, Pool, Unsent

\* What the callers see of a delivery.
LEMMA DeliverTells ==
  ASSUME NEW d \in Drivers, IInv, NEW T, NEW res \in Results, Deliver(T, res),
         T \subseteq Pool(drv[d]), T \cap Pool(drv'[d]) = {},
         res.kind = "ok" => \A t \in T : \/ OpOf(t) = NextNote
                                         \/ res.id \in DOMAIN reqs /\ reqs[res.id] = t
  PROVE  \A c \in Callers : cl'[c] = cl[c] \/ Told(d, c)
<1> SUFFICES ASSUME NEW c \in Callers, cl'[c] # cl[c]
             PROVE  Told(d, c)
  OBVIOUS
<1>1. cl[c] \in CallerState
  BY DEF IInv, TypeOK
<1>2. /\ cl[c].pc = "wait" /\ Ticket(c) \in T
      /\ cl'[c] = [cl[c] EXCEPT !.pc = "got", !.res = res]
  BY DEF Deliver
<1>3. cl'[c].pc = "got" /\ cl'[c].try = cl[c].try /\ cl'[c].res = res
  BY <1>1, <1>2 DEF CallerState
<1> QED
  BY <1>2, <1>3 DEF Told

\* Steps that only pass on failures.
LEMMA KeepsServes ==
  ASSUME IInv, TicketInv, NEW d \in Drivers, NEW s, Set(d, s), Keeps(drv[d], s),
         hist' = hist, slot' = slot, reqs' = reqs \/ reqs' = Append(reqs, Replay),
         s.took = drv[d].took \/ s.took = 0,
         NEW T, NEW res \in Results, res.kind # "ok",
         Deliver(T, res), T \subseteq Pool(drv[d]), T \cap Pool(s) = {}
  PROVE  Serves(d)
<1>1. drv[d] \in DriverState /\ Apart(drv[d]) /\ Kinds(drv[d])
  BY DEF IInv, TypeOK, TicketInv, PoolsInv
<1>2. drv'[d] = s /\ \A e \in Drivers : e # d => drv'[e] = drv[e]
  BY NewRecord
<1>3. /\ Apart(s) /\ Kinds(s)
      /\ Pool(s) \subseteq Pool(drv[d]) /\ Unsent(s) \subseteq Unsent(drv[d])
  BY <1>1, KeepsApart
<1>4. \A c \in Callers : cl'[c] = cl[c] \/ Told(d, c)
  BY <1>2, DeliverTells
<1>5. Sends(d)
  BY <1>2 DEF Sends, Keeps
<1>6. HandsOut(d)
  BY <1>1, <1>2 DEF HandsOut, DriverState
<1> QED
  BY <1>2, <1>3, <1>4, <1>5, <1>6 DEF Serves

\* Steps that tell nobody anything.
LEMMA SilentServes ==
  ASSUME IInv, TicketInv, NEW d \in Drivers, NEW s, Set(d, s), Keeps(drv[d], s),
         hist' = hist, slot' = slot, cl' = cl, reqs' = reqs \/ reqs' = Append(reqs, Replay),
         s.took = drv[d].took
  PROVE  Serves(d)
<1>1. Deliver({}, Fatal)
  BY DEF Deliver, IInv, TypeOK
<1>2. Fatal \in Results /\ Fatal.kind # "ok"
  BY DEF Fatal, Results
<1> QED
  BY <1>1, <1>2, KeepsServes

\* A record that differs from the driver's in what tickets do not touch, and
\* perhaps in the waiters a frame has passed.
Like(r, s) ==
  /\ s.cmds = r.cmds /\ s.queued = r.queued /\ s.active = r.active /\ s.took = r.took
  /\ s.waiters = r.waiters \/ s.waiters = PastAcceptor(r.waiters)

\* DropStream is about the socket.
LEMMA DropStreamFields ==
  ASSUME NEW r \in DriverState
  PROVE  LET u == DropStream(r) IN
         /\ u \in DriverState
         /\ u.cmds = r.cmds /\ u.queued = r.queued /\ u.active = r.active
         /\ u.waiters = r.waiters /\ u.took = r.took
BY DEF DropStream, DriverState

\* establish_stream fails: queued calls and waiters are told and given up.
LEMMA EstablishFailsServes ==
  ASSUME IInv, TicketInv, NEW d \in Drivers, NEW r \in DriverState, Like(drv[d], r),
         hist' = hist, slot' = slot, reqs' = reqs \/ reqs' = Append(reqs, Replay),
         NEW error \in Results, error.kind # "ok", EstablishFails(d, r, error)
  PROVE  Serves(d)
<1> DEFINE u == DropStream(r)
           s == [u EXCEPT !.phase = "top", !.queued = <<>>, !.waiters = <<>>]
           T == Range(r.queued) \cup Range(r.waiters)
<1>1. drv[d] \in DriverState /\ Apart(drv[d]) /\ Kinds(drv[d])
  BY DEF IInv, TypeOK, TicketInv, PoolsInv
<1>2. Set(d, s) /\ Deliver(T, error)
  BY DEF EstablishFails
<1>3. /\ u \in DriverState /\ u.cmds = r.cmds /\ u.active = r.active /\ u.took = r.took
  BY DropStreamFields
<1> HIDE DEF u
<1>4. /\ s.cmds = r.cmds /\ s.active = r.active /\ s.took = r.took
      /\ s.queued = <<>> /\ s.waiters = <<>>
  BY <1>3 DEF DriverState
<1> HIDE DEF s
<1>5. Keeps(drv[d], s)
  BY <1>4 DEF Keeps, Like
<1>6. Range(r.waiters) \subseteq Range(drv[d].waiters)
  BY <1>1, PastQueue DEF Like, DriverState
<1>7. Pool(s) = Range(drv[d].cmds) \cup ActiveTickets(drv[d])
  BY <1>4, EmptyQueue DEF Pool, ActiveTickets, Like
<1>7a. Range(drv[d].waiters) \cap ActiveTickets(drv[d]) = {}
  BY <1>1 DEF Kinds
<1>8. T \cap Pool(s) = {} /\ T \subseteq Pool(drv[d])
  BY <1>1, <1>6, <1>7, <1>7a DEF Apart, Like, Pool
<1>9. s.took = drv[d].took
  BY <1>4 DEF Like
<1> QED
  BY <1>2, <1>5, <1>8, <1>9, KeepsServes

\* The select! fails: the active call and the waiters are told and given up.
LEMMA LoseStreamServes ==
  ASSUME IInv, TicketInv, NEW d \in Drivers, NEW r \in DriverState, Like(drv[d], r),
         hist' = hist, slot' = slot, reqs' = reqs,
         NEW error \in Results, error.kind # "ok", LoseStream(d, r, error)
  PROVE  Serves(d)
<1> DEFINE u == DropStream(r)
           s == [u EXCEPT !.phase = "top", !.active = None, !.waiters = <<>>]
           T == ActiveTickets(drv[d]) \cup Range(r.waiters)
<1>1. drv[d] \in DriverState /\ Apart(drv[d]) /\ Kinds(drv[d])
  BY DEF IInv, TypeOK, TicketInv, PoolsInv
<1>2. Set(d, s) /\ Deliver(T, error)
  BY DEF LoseStream
<1>3. /\ u \in DriverState /\ u.cmds = r.cmds /\ u.queued = r.queued /\ u.took = r.took
  BY DropStreamFields
<1> HIDE DEF u
<1>4. /\ s.cmds = r.cmds /\ s.queued = r.queued /\ s.took = r.took
      /\ s.active = None /\ s.waiters = <<>>
  BY <1>3 DEF DriverState
<1> HIDE DEF s
<1>5. Keeps(drv[d], s)
  BY <1>4 DEF Keeps, Like
<1>6. Range(r.waiters) \subseteq Range(drv[d].waiters)
  BY <1>1, PastQueue DEF Like, DriverState
<1>7. Pool(s) = Range(drv[d].cmds) \cup Range(drv[d].queued)
  BY <1>4, EmptyQueue DEF Pool, ActiveTickets, Like
<1>8. T \cap Pool(s) = {} /\ T \subseteq Pool(drv[d])
  BY <1>1, <1>6, <1>7 DEF Apart, Pool
<1>9. s.took = drv[d].took
  BY <1>4 DEF Like
<1> QED
  BY <1>2, <1>5, <1>8, <1>9, KeepsServes

\* A failed read, in either loop.
LEMMA ReadFailsServes ==
  ASSUME IInv, TicketInv, NEW d \in Drivers, NEW r \in DriverState, Like(drv[d], r),
         hist' = hist, slot' = slot, reqs' = reqs,
         NEW error \in Results, error.kind # "ok", ReadFails(d, r, error)
  PROVE  Serves(d)
<1>1. CASE Run(d, "ack")
  BY <1>1, EstablishFailsServes DEF ReadFails
<1>2. CASE ~Run(d, "ack")
  BY <1>2, LoseStreamServes DEF ReadFails
<1> QED
  BY <1>1, <1>2

-----------------------------------------------------------------------------
(* The driver's actions *)

\* The errors of the driver are none of the callers' answers.
LEMMA ErrorKinds ==
  Retryable \in Results /\ Fatal \in Results /\ Retryable.kind # "ok" /\ Fatal.kind # "ok"
BY DEF Retryable, Fatal, Results

\* start_next_queued_call takes the head of the queue, whether the frame
\* leaves or not.
LEMMA StartServes ==
  ASSUME IInv, TicketInv, NEW d \in Drivers, StartCall(d) \/ StartCallFails(d)
  PROVE  Serves(d)
<1> DEFINE r == drv[d]
           t == Head(r.queued)
<1>1. /\ r \in DriverState /\ Apart(r) /\ Kinds(r)
      /\ r.queued # <<>> /\ r.active = None
  BY DEF IInv, TypeOK, DriverInv, PhaseInv, TicketInv, PoolsInv, StartCall, StartCallFails, Run
<1>2. hist' = hist /\ slot' = slot /\ reqs' = Append(reqs, t)
  BY DEF StartCall, StartCallFails
<1>3. r.queued \in Seq(Tickets) /\ r.waiters \in Seq(Tickets) /\ r.took \in Nat
  BY <1>1 DEF DriverState
<1>4. /\ t \in Range(r.queued) /\ t \notin Range(Tail(r.queued))
      /\ Range(Tail(r.queued)) \subseteq Range(r.queued) /\ IsInjective(Tail(r.queued))
  BY <1>1, <1>3, TailQueue DEF Apart
<1>5. t \notin Range(r.cmds) /\ t \notin Range(r.waiters)
  BY <1>1, <1>4 DEF Apart
<1> HIDE DEF r, t
<1>6. CASE StartCall(d)
  <2> DEFINE a == [id |-> NextId, tk |-> t]
             s == [r EXCEPT !.phase = "select", !.queued = Tail(@),
                            !.active = a, !.open = @ \cup {NextId}]
  <2>1. Set(d, s) /\ cl' = cl
    BY <1>6 DEF StartCall, r, t
  <2>2. /\ s.cmds = r.cmds /\ s.queued = Tail(r.queued) /\ s.waiters = r.waiters
        /\ s.active = a /\ s.took = r.took
    BY <1>1 DEF DriverState
  <2>3. drv'[d] = s /\ \A e \in Drivers : e # d => drv'[e] = drv[e]
    BY <2>1, NewRecord
  <2>4. a # None
    <3>1. NextId \in Nat \ {0} /\ t \in Tickets
      BY <1>3, <1>4 DEF NextId, IInv, TypeOK, Range
    <3> QED
      BY <3>1, MarksAssumption DEF ActiveCall
  <2>5. ActiveTickets(s) = {t}
    BY <2>2, <2>4 DEF ActiveTickets
  <2> HIDE DEF s
  <2>6. Apart(s)
    BY <1>1, <1>4, <1>5, <2>2, <2>5 DEF Apart
  <2>7. Kinds(s)
    BY <1>1, <1>4, <2>2, <2>5 DEF Kinds
  <2>8. Pool(s) \subseteq Pool(r) /\ Unsent(s) \subseteq Unsent(r) /\ t \notin Unsent(s)
    BY <1>4, <1>5, <2>2, <2>5 DEF Pool, Unsent
  <2>9. Sends(d)
    BY <1>2, <1>4, <2>2, <2>3, <2>8 DEF Sends, r
  <2>10. HandsOut(d)
    BY <1>3, <2>2, <2>3 DEF HandsOut, r
  <2> QED
    BY <1>2, <2>1, <2>3, <2>6, <2>7, <2>8, <2>9, <2>10 DEF Serves, r
<1>7. CASE StartCallFails(d)
  <2> DEFINE u == DropStream(r)
             s == [u EXCEPT !.phase = "top", !.queued = Tail(@), !.waiters = <<>>]
             T == {t} \cup Range(r.waiters)
  <2>1. Set(d, s) /\ Deliver(T, Retryable)
    BY <1>7 DEF StartCallFails, r, t
  <2>2a. u \in DriverState /\ u.cmds = r.cmds /\ u.queued = r.queued
        /\ u.active = r.active /\ u.took = r.took
    BY <1>1, DropStreamFields
  <2> HIDE DEF u
  <2>2. /\ s.cmds = r.cmds /\ s.queued = Tail(r.queued) /\ s.waiters = <<>>
        /\ s.active = None /\ s.took = r.took
    BY <1>1, <2>2a DEF DriverState
  <2>3. drv'[d] = s /\ \A e \in Drivers : e # d => drv'[e] = drv[e]
    BY <2>1, NewRecord
  <2>5. ActiveTickets(s) = {}
    BY <2>2 DEF ActiveTickets
  <2> HIDE DEF s
  <2>6. Apart(s)
    BY <1>1, <1>4, <1>5, <2>2, <2>5, EmptyQueue DEF Apart
  <2>7. Kinds(s)
    BY <1>1, <1>4, <2>2, <2>5, EmptyQueue DEF Kinds
  <2>8. Pool(s) \subseteq Pool(r) /\ Unsent(s) \subseteq Unsent(r) /\ t \notin Unsent(s)
    BY <1>4, <1>5, <2>2, <2>5, EmptyQueue DEF Pool, Unsent
  <2>8a. T \cap Pool(s) = {} /\ T \subseteq Pool(r)
    BY <1>1, <1>4, <1>5, <2>2, <2>5, EmptyQueue DEF Pool, Apart
  <2>9. Sends(d)
    BY <1>2, <1>4, <2>2, <2>3, <2>8 DEF Sends, r
  <2>10. HandsOut(d)
    BY <1>3, <2>2, <2>3 DEF HandsOut, r
  <2>11. \A c \in Callers : cl'[c] = cl[c] \/ Told(d, c)
    BY <2>1, <2>3, <2>8a, ErrorKinds, DeliverTells DEF r
  <2> QED
    BY <1>2, <2>3, <2>6, <2>7, <2>8, <2>9, <2>10, <2>11 DEF Serves, r
<1> QED
  BY <1>6, <1>7

\* A frame handed to the oneshot t reaches its caller, if there is one.
LEMMA DeliverOne ==
  ASSUME IInv, NEW t \in Tickets, NEW T, NEW res \in Results, t \in T, Live(t), Deliver(T, res)
  PROVE  \E c \in Callers : cl[c].pc = "wait" /\ cl'[c].pc = "got" /\ cl'[c].res = res
<1> DEFINE c == t.who
<1>1. c \in Callers /\ cl[c].pc = "wait" /\ Ticket(c) \in T
  BY DEF Live, Tickets
<1>2. cl[c] \in CallerState
  BY <1>1 DEF IInv, TypeOK
<1>3. cl'[c] = [cl[c] EXCEPT !.pc = "got", !.res = res]
  BY <1>1 DEF Deliver
<1> QED
  BY <1>1, <1>2, <1>3 DEF CallerState

\* handle_command: the head of the channel becomes a queued call or a waiter,
\* or takes a frame.
LEMMA CommandServes ==
  ASSUME IInv, TicketInv, NEW d \in Drivers, Command(d)
  PROVE  Serves(d)
<1> DEFINE r == drv[d]
           t == Head(r.cmds)
           s == [r EXCEPT !.cmds = Tail(@), !.phase = "top"]
<1>1. r \in DriverState /\ Apart(r) /\ Kinds(r) /\ r.cmds # <<>>
  BY DEF IInv, TypeOK, TicketInv, PoolsInv, Command
<1>2. hist' = hist /\ slot' = slot /\ reqs' = reqs
  BY DEF Command
<1>3. /\ r.cmds \in Seq(Tickets) /\ r.queued \in Seq(Tickets) /\ r.waiters \in Seq(Tickets)
      /\ r.took \in Nat /\ r.notes \in Seq(Nat)
  BY <1>1 DEF DriverState
<1>4. /\ t \in Range(r.cmds) /\ t \notin Range(Tail(r.cmds)) /\ Tail(r.cmds) \in Seq(Tickets)
      /\ Range(Tail(r.cmds)) \subseteq Range(r.cmds) /\ IsInjective(Tail(r.cmds))
      /\ t \in Tickets
  BY <1>1, <1>3, TailQueue DEF Apart, Range
<1>5. t \notin Range(r.queued) /\ t \notin Range(r.waiters) /\ t \notin ActiveTickets(r)
  BY <1>1, <1>4 DEF Apart
<1>6. \/ /\ OpOf(t) # NextNote
         /\ Set(d, [s EXCEPT !.queued = Append(@, t)])
         /\ UNCHANGED cl
      \/ /\ OpOf(t) = NextNote
         /\ TakeNote(d, s, t)
  BY DEF Command
<1> HIDE DEF r, t
<1>7. /\ s \in DriverState /\ s.cmds = Tail(r.cmds) /\ s.queued = r.queued
      /\ s.waiters = r.waiters /\ s.active = r.active /\ s.took = r.took /\ s.notes = r.notes
  BY <1>1, <1>4 DEF DriverState
<1> HIDE DEF s
<1>8. CASE OpOf(t) # NextNote /\ Set(d, [s EXCEPT !.queued = Append(@, t)]) /\ UNCHANGED cl
  <2> DEFINE u == [s EXCEPT !.queued = Append(@, t)]
  <2>1. /\ u.cmds = Tail(r.cmds) /\ u.queued = Append(r.queued, t)
        /\ u.waiters = r.waiters /\ u.active = r.active /\ u.took = r.took
    BY <1>7 DEF DriverState
  <2>2. drv'[d] = u /\ \A e \in Drivers : e # d => drv'[e] = drv[e]
    BY <1>8, NewRecord
  <2>3. ActiveTickets(u) = ActiveTickets(r)
    BY <2>1 DEF ActiveTickets
  <2> HIDE DEF u
  <2>4. Range(u.queued) = Range(r.queued) \cup {t} /\ IsInjective(u.queued)
    BY <1>1, <1>3, <1>4, <1>5, <2>1, AppendQueue DEF Apart
  <2>5. Apart(u)
    BY <1>1, <1>4, <1>5, <2>1, <2>3, <2>4 DEF Apart
  <2>6. Kinds(u)
    BY <1>1, <1>8, <2>1, <2>3, <2>4 DEF Kinds
  <2>7. Pool(u) \subseteq Pool(r) /\ Unsent(u) \subseteq Unsent(r)
    BY <1>4, <2>1, <2>3, <2>4 DEF Pool, Unsent
  <2>8. Sends(d) /\ HandsOut(d)
    BY <1>2, <1>3, <2>1, <2>2 DEF Sends, HandsOut, r
  <2> QED
    BY <1>2, <1>8, <2>2, <2>5, <2>6, <2>7, <2>8 DEF Serves, r
<1>9. CASE /\ OpOf(t) = NextNote /\ s.notes = <<>>
           /\ Set(d, [s EXCEPT !.waiters = Append(@, t)]) /\ UNCHANGED cl
  <2> DEFINE u == [s EXCEPT !.waiters = Append(@, t)]
  <2>1. /\ u.cmds = Tail(r.cmds) /\ u.queued = r.queued
        /\ u.waiters = Append(r.waiters, t) /\ u.active = r.active /\ u.took = r.took
    BY <1>7 DEF DriverState
  <2>2. drv'[d] = u /\ \A e \in Drivers : e # d => drv'[e] = drv[e]
    BY <1>9, NewRecord
  <2>3. ActiveTickets(u) = ActiveTickets(r)
    BY <2>1 DEF ActiveTickets
  <2> HIDE DEF u
  <2>4. Range(u.waiters) = Range(r.waiters) \cup {t} /\ IsInjective(u.waiters)
    BY <1>1, <1>3, <1>4, <1>5, <2>1, AppendQueue DEF Apart
  <2>5. Apart(u)
    BY <1>1, <1>4, <1>5, <2>1, <2>3, <2>4 DEF Apart
  <2>6. Kinds(u)
    BY <1>1, <1>9, <2>1, <2>3, <2>4 DEF Kinds
  <2>7. Pool(u) \subseteq Pool(r) /\ Unsent(u) \subseteq Unsent(r)
    BY <1>4, <2>1, <2>3, <2>4 DEF Pool, Unsent
  <2>8. Sends(d) /\ HandsOut(d)
    BY <1>2, <1>3, <2>1, <2>2 DEF Sends, HandsOut, r
  <2> QED
    BY <1>2, <1>9, <2>2, <2>5, <2>6, <2>7, <2>8 DEF Serves, r
<1>10. CASE /\ OpOf(t) = NextNote /\ s.notes # <<>>
            /\ Deliver({t}, Ok(Head(s.notes)))
            /\ Set(d, [s EXCEPT !.took = Head(s.notes), !.notes = Tail(@)])
  <2> DEFINE f == Head(s.notes)
             u == [s EXCEPT !.took = f, !.notes = Tail(@)]
  <2>1. /\ u.cmds = Tail(r.cmds) /\ u.queued = r.queued
        /\ u.waiters = r.waiters /\ u.active = r.active /\ u.took = f
    BY <1>7 DEF DriverState
  <2>2. drv'[d] = u /\ \A e \in Drivers : e # d => drv'[e] = drv[e]
    BY <1>10, NewRecord
  <2>3. ActiveTickets(u) = ActiveTickets(r)
    BY <2>1 DEF ActiveTickets
  <2>4. f \in Nat
    BY <1>3, <1>7, <1>10
  <2> HIDE DEF u, f
  <2>5. Apart(u)
    BY <1>1, <1>4, <2>1, <2>3 DEF Apart
  <2>6. Kinds(u)
    BY <1>1, <2>1, <2>3 DEF Kinds
  <2>7. Pool(u) \subseteq Pool(r) /\ Unsent(u) \subseteq Unsent(r) /\ {t} \cap Pool(u) = {}
        /\ {t} \subseteq Pool(r)
    BY <1>4, <1>5, <2>1, <2>3 DEF Pool, Unsent
  <2>8. Sends(d)
    BY <1>2, <2>1, <2>2 DEF Sends, r
  <2>9. Ok(f) \in Results
    BY <2>4, ResultTypes
  <2>10. Deliver({t}, Ok(f))
    BY <1>10 DEF f
  <2>11. \A c \in Callers : cl'[c] = cl[c] \/ Told(d, c)
    BY <1>10, <2>2, <2>7, <2>9, <2>10, DeliverTells DEF r
  <2>12. HandsOut(d)
    <3>1. CASE Live(t)
      <4>1. \E c \in Callers : cl[c].pc = "wait" /\ cl'[c].pc = "got" /\ cl'[c].res = Ok(f)
        BY <1>4, <2>9, <2>10, <3>1, DeliverOne
      <4> QED
        BY <2>1, <2>2, <4>1 DEF HandsOut
    <3>2. CASE ~Live(t)
      BY <1>1, <2>1, <2>2, <3>2 DEF HandsOut, r, t
    <3> QED
      BY <3>1, <3>2
  <2> QED
    BY <1>2, <2>2, <2>5, <2>6, <2>7, <2>8, <2>11, <2>12 DEF Serves, r
<1> QED
  BY <1>6, <1>8, <1>9, <1>10 DEF TakeNote

\* The driver ends: everybody is told, nothing is held any more.
LEMMA StopServes ==
  ASSUME IInv, TicketInv, NEW d \in Drivers, Stop(d)
  PROVE  Serves(d)
<1> DEFINE s == [FreshDriver EXCEPT !.phase = "dead", !.shut = TRUE]
           T == ActiveTickets(drv[d]) \cup Range(drv[d].queued) \cup Range(drv[d].waiters)
                  \cup Range(drv[d].cmds)
<1>1. /\ Set(d, s) /\ Deliver(T, Retryable) /\ hist' = hist /\ slot' = slot /\ reqs' = reqs
  BY DEF Stop, Exit
<1>2. /\ s.cmds = <<>> /\ s.queued = <<>> /\ s.waiters = <<>> /\ s.active = None
      /\ s.took = 0
  BY DEF FreshDriver
<1>2a. T \subseteq Pool(drv[d])
  BY DEF Pool
<1> HIDE DEF s, T
<1>3. Keeps(drv[d], s) /\ T \cap Pool(s) = {}
  BY <1>2, EmptyQueue DEF Keeps, Pool, ActiveTickets
<1> QED
  BY <1>1, <1>2, <1>2a, <1>3, ErrorKinds, KeepsServes

\* Every step of the loop handles its tickets as Serves says.
LEMMA DriverServes ==
  ASSUME IInv, TicketInv, NEW d \in Drivers, DriverNext(d)
  PROVE  Serves(d)
<1> DEFINE r == drv[d]
<1>1. r \in DriverState /\ DriverInv(r)
  BY DEF IInv, TypeOK
<1>2. Like(r, r)
  BY DEF Like
<1>3. CASE Stop(d)
  BY <1>3, StopServes
<1>4. CASE Top(d)
  <2>1. ~(r.notes # <<>> /\ r.waiters # <<>>)
    BY <1>1 DEF DriverInv, NoteInv
  <2> DEFINE s == [r EXCEPT !.phase = IF ShouldEstablish(r) THEN "connect" ELSE StartPhase(r)]
  <2>2. Set(d, s) /\ cl' = cl /\ slot' = slot /\ hist' = hist /\ reqs' = reqs
    BY <1>4, <2>1 DEF Top
  <2>3. Keeps(r, s) /\ s.took = r.took
    BY <1>1 DEF DriverState, Keeps
  <2> QED
    BY <2>2, <2>3, SilentServes
<1>5. CASE ConnectOk(d)
  <2> DEFINE up == [r EXCEPT !.stream = TRUE, !.retry = 0]
             s == IF r.subs = <<>> THEN [up EXCEPT !.phase = StartPhase(up)]
                  ELSE [r EXCEPT !.phase = "replay", !.pos = 1, !.retry = 0]
  <2>1. Set(d, s) /\ cl' = cl /\ slot' = slot /\ hist' = hist /\ reqs' = reqs
    BY <1>5 DEF ConnectOk
  <2>2. /\ up \in DriverState /\ up.cmds = r.cmds /\ up.queued = r.queued
        /\ up.waiters = r.waiters /\ up.active = r.active /\ up.took = r.took
    BY <1>1 DEF DriverState
  <2> HIDE DEF up
  <2>3. Keeps(r, s) /\ s.took = r.took
    BY <1>1, <2>2 DEF DriverState, Keeps
  <2> QED
    BY <2>1, <2>3, SilentServes
<1>6. CASE ConnectRetry(d)
  <2> DEFINE s == [r EXCEPT !.retry = @ + 1]
  <2>1. Set(d, s) /\ cl' = cl /\ slot' = slot /\ hist' = hist /\ reqs' = reqs
    BY <1>6 DEF ConnectRetry
  <2>2. Keeps(r, s) /\ s.took = r.took
    BY <1>1 DEF DriverState, Keeps
  <2> QED
    BY <2>1, <2>2, SilentServes
<1>7. CASE ConnectFails(d)
  BY <1>1, <1>2, <1>7, ErrorKinds, EstablishFailsServes DEF ConnectFails
<1>8. CASE ReplaySend(d)
  <2> DEFINE s == [r EXCEPT !.phase = "ack", !.rid = NextId, !.open = @ \cup {NextId}]
  <2>1. /\ Set(d, s) /\ cl' = cl /\ slot' = slot /\ hist' = hist
        /\ reqs' = Append(reqs, Replay)
    BY <1>8 DEF ReplaySend
  <2>2. Keeps(r, s) /\ s.took = r.took
    BY <1>1 DEF DriverState, Keeps
  <2> QED
    BY <2>1, <2>2, SilentServes
<1>9. CASE ReplaySendFails(d)
  BY <1>1, <1>2, <1>9, ErrorKinds, EstablishFailsServes DEF ReplaySendFails
<1>10. CASE ReplayTimeout(d)
  BY <1>1, <1>2, <1>10, ErrorKinds, EstablishFailsServes DEF ReplayTimeout
<1>11. CASE StartCall(d) \/ StartCallFails(d)
  BY <1>11, StartServes
<1>12. CASE Command(d)
  BY <1>12, CommandServes
<1>13. CASE Deadline(d)
  BY <1>1, <1>2, <1>13, ErrorKinds, LoseStreamServes DEF Deadline
<1> QED
  BY <1>3, <1>4, <1>5, <1>6, <1>7, <1>8, <1>9, <1>10, <1>11, <1>12, <1>13 DEF DriverNext

-----------------------------------------------------------------------------
(* The peer's frames *)

\* queue_or_deliver_notification: the frame goes to the first waiter that is
\* awaited, the waiters before it are dropped.
LEMMA NotificationServes ==
  ASSUME IInv, TicketInv, NEW d \in Drivers, Notification(d)
  PROVE  Serves(d)
<1> DEFINE r == drv[d]
           f == r.got + 1
           s == [r EXCEPT !.waiters = PastAcceptor(@),
                          !.phase = IF @ = "ack" THEN "ack" ELSE "top"]
<1>1. r \in DriverState /\ Apart(r) /\ Kinds(r)
  BY DEF IInv, TypeOK, TicketInv, PoolsInv
<1>2. hist' = hist /\ slot' = slot /\ reqs' = reqs
  BY DEF Notification
<1>3. \/ /\ HasLive(r.waiters)
         /\ Deliver(Acceptor(r.waiters), Ok(f))
         /\ Set(d, [s EXCEPT !.got = f, !.took = f])
      \/ /\ ~HasLive(r.waiters)
         /\ Set(d, [s EXCEPT !.got = f, !.notes = Append(@, f)])
         /\ UNCHANGED cl
      \/ /\ ~HasLive(r.waiters)
         /\ ReadFails(d, s, Fatal)
  BY DEF Notification
<1>4. r.waiters \in Seq(Tickets) /\ f \in Nat
  BY <1>1 DEF DriverState
<1>5. PastAcceptor(r.waiters) \in Seq(Tickets)
  BY <1>4, PastAcceptorType
<1> HIDE DEF r, f
<1>6. /\ s \in DriverState /\ s.cmds = r.cmds /\ s.queued = r.queued
      /\ s.waiters = PastAcceptor(r.waiters) /\ s.active = r.active /\ s.took = r.took
  BY <1>1, <1>5 DEF DriverState
<1> HIDE DEF s
<1>7. CASE /\ HasLive(r.waiters)
           /\ Deliver(Acceptor(r.waiters), Ok(f))
           /\ Set(d, [s EXCEPT !.got = f, !.took = f])
  <2> DEFINE u == [s EXCEPT !.got = f, !.took = f]
             T == Acceptor(r.waiters)
             k == FirstLive(r.waiters)
  <2>1. /\ u.cmds = r.cmds /\ u.queued = r.queued
        /\ u.waiters = PastAcceptor(r.waiters) /\ u.active = r.active /\ u.took = f
    BY <1>6 DEF DriverState
  <2>2. drv'[d] = u /\ \A e \in Drivers : e # d => drv'[e] = drv[e]
    BY <1>7, NewRecord
  <2> HIDE DEF u
  <2>3. /\ Apart(u) /\ Kinds(u) /\ Pool(u) \subseteq Pool(r) /\ Unsent(u) \subseteq Unsent(r)
    BY <1>1, <2>1, KeepsApart DEF Keeps
  <2>4. /\ T \subseteq Range(r.waiters) /\ T \cap Range(u.waiters) = {}
    BY <1>1, <1>4, <2>1, PastQueue DEF Apart
  <2>5. ActiveTickets(u) = ActiveTickets(r)
    BY <2>1 DEF ActiveTickets
  <2>6. \A t \in T : OpOf(t) = NextNote /\ t \notin ActiveTickets(r)
    BY <1>1, <2>4 DEF Kinds
  <2>7. T \cap Pool(u) = {} /\ T \subseteq Pool(r)
    BY <1>1, <2>1, <2>4, <2>5, <2>6 DEF Pool, Apart
  <2>8. Ok(f) \in Results
    BY <1>4, ResultTypes
  <2>9. \A c \in Callers : cl'[c] = cl[c] \/ Told(d, c)
    BY <1>7, <2>2, <2>6, <2>7, <2>8, DeliverTells DEF r
  <2>10. Sends(d)
    BY <1>2, <2>1, <2>2 DEF Sends, r
  <2>11. T = {r.waiters[k]} /\ Live(r.waiters[k]) /\ r.waiters[k] \in Tickets
    BY <1>4, <1>7, FirstLiveExists DEF Acceptor
  <2> HIDE DEF T, k
  <2>12. \E c \in Callers : cl[c].pc = "wait" /\ cl'[c].pc = "got" /\ cl'[c].res = Ok(f)
    BY <1>7, <2>8, <2>11, DeliverOne DEF T
  <2>13. HandsOut(d)
    BY <2>1, <2>2, <2>12 DEF HandsOut
  <2> QED
    BY <1>2, <2>2, <2>3, <2>9, <2>10, <2>13 DEF Serves, r
<1>8. CASE Set(d, [s EXCEPT !.got = f, !.notes = Append(@, f)]) /\ UNCHANGED cl
  <2> DEFINE u == [s EXCEPT !.got = f, !.notes = Append(@, f)]
  <2>1. Keeps(r, u) /\ u.took = r.took
    BY <1>6 DEF DriverState, Keeps
  <2> QED
    BY <1>2, <1>8, <2>1, SilentServes DEF r
<1>9. CASE ReadFails(d, s, Fatal)
  <2>1. Like(r, s)
    BY <1>6 DEF Like
  <2> QED
    BY <1>2, <1>6, <1>9, <2>1, ErrorKinds, ReadFailsServes DEF r
<1> QED
  BY <1>3, <1>7, <1>8, <1>9

\* handle_received_frame: the answer goes to the active call of that id.
LEMMA ResponseServes ==
  ASSUME IInv, TicketInv, NEW d \in Drivers, NEW id \in Nat, NEW verdict,
         Response(d, id, verdict)
  PROVE  Serves(d)
<1> DEFINE r == drv[d]
           a == r.active
           s == [r EXCEPT !.phase = "top", !.active = None, !.open = @ \ {id}]
           u == [s EXCEPT !.subs = Remember(@, OpOf(a.tk)), !.srv = @ \cup {OpOf(a.tk)}]
<1>1. r \in DriverState /\ Apart(r) /\ Kinds(r) /\ ActiveSent(r)
  BY DEF IInv, TypeOK, TicketInv, PoolsInv, SentInv
<1>2. hist' = hist /\ slot' = slot /\ reqs' = reqs
  BY DEF Response
<1>3. \/ LoseStream(d, r, Fatal)
      \/ /\ ~Unasked(a, id)
         /\ \E res \in {Fatal, Ok(id)} : Deliver({a.tk}, res)
         /\ Set(d, s) \/ Set(d, u)
  BY DEF Response
<1>4. CASE LoseStream(d, r, Fatal)
  BY <1>1, <1>2, <1>4, ErrorKinds, LoseStreamServes DEF Like
<1>5. CASE /\ ~Unasked(a, id)
           /\ \E res \in {Fatal, Ok(id)} : Deliver({a.tk}, res)
           /\ Set(d, s) \/ Set(d, u)
  <2>1. a # None /\ a.id = id
    BY <1>5 DEF Unasked
  <2>2. id \in DOMAIN reqs /\ reqs[id] = a.tk /\ ActiveTickets(r) = {a.tk}
    BY <1>1, <2>1 DEF ActiveSent, ActiveTickets
  <2>3. PICK res \in {Fatal, Ok(id)} : Deliver({a.tk}, res)
    BY <1>5
  <2>4. res \in Results /\ (res.kind = "ok" => res.id = id)
    BY <2>3, ResultTypes, ErrorKinds DEF Ok
  <2>5. PICK v \in {s, u} : Set(d, v)
    BY <1>5
  <2>6. /\ v.cmds = r.cmds /\ v.queued = r.queued /\ v.waiters = r.waiters
        /\ v.active = None /\ v.took = r.took
    <3>1. /\ s \in DriverState /\ s.cmds = r.cmds /\ s.queued = r.queued
          /\ s.waiters = r.waiters /\ s.active = None /\ s.took = r.took
      BY <1>1 DEF DriverState
    <3> HIDE DEF s
    <3>2. CASE v = s
      BY <3>1, <3>2
    <3>3. CASE v = u
      BY <3>1, <3>3 DEF DriverState
    <3> QED
      BY <2>5, <3>2, <3>3
  <2>7. drv'[d] = v /\ \A e \in Drivers : e # d => drv'[e] = drv[e]
    BY <2>5, NewRecord
  <2>8. /\ Apart(v) /\ Kinds(v) /\ Pool(v) \subseteq Pool(r) /\ Unsent(v) \subseteq Unsent(r)
    BY <1>1, <2>6, KeepsApart DEF Keeps
  <2>9. {a.tk} \cap Pool(v) = {} /\ {a.tk} \subseteq Pool(r)
    BY <1>1, <2>2, <2>6 DEF Pool, Apart, Kinds, ActiveTickets
  <2> HIDE DEF s, u
  <2>10. \A c \in Callers : cl'[c] = cl[c] \/ Told(d, c)
    BY <2>2, <2>3, <2>4, <2>7, <2>9, DeliverTells
  <2>11. Sends(d)
    BY <1>2, <2>6, <2>7 DEF Sends
  <2>12. HandsOut(d)
    BY <1>1, <2>6, <2>7 DEF HandsOut, DriverState
  <2> QED
    BY <1>2, <2>7, <2>8, <2>10, <2>11, <2>12 DEF Serves
<1> QED
  BY <1>3, <1>4, <1>5

\* establish_stream's frames tell nobody but the failures.
LEMMA ReplayResponseServes ==
  ASSUME IInv, TicketInv, NEW d \in Drivers, NEW id \in Nat, NEW verdict,
         ReplayResponse(d, id, verdict)
  PROVE  Serves(d)
<1> DEFINE r == drv[d]
           s == [r EXCEPT !.open = @ \ {id}, !.rid = 0,
                          !.srv = @ \cup {r.subs[r.pos]}, !.pos = @ + 1]
           up == [s EXCEPT !.stream = TRUE, !.pos = 0]
           v == IF r.pos < Len(r.subs) THEN [s EXCEPT !.phase = "replay"]
                ELSE [up EXCEPT !.phase = StartPhase(up)]
<1>1. r \in DriverState /\ r.pos \in 1..Len(r.subs)
  BY DEF IInv, TypeOK, DriverInv, PhaseInv, ReplayResponse, Run
<1>2. hist' = hist /\ slot' = slot /\ reqs' = reqs
  BY DEF ReplayResponse
<1>3. EstablishFails(d, r, Fatal) \/ (Set(d, v) /\ UNCHANGED cl)
  BY DEF ReplayResponse
<1>4. CASE EstablishFails(d, r, Fatal)
  BY <1>1, <1>2, <1>4, ErrorKinds, EstablishFailsServes DEF Like
<1>5. CASE Set(d, v) /\ UNCHANGED cl
  <2>0. r.subs[r.pos] \in Topics /\ r.pos + 1 \in Nat
    BY <1>1 DEF DriverState
  <2>1. /\ s \in DriverState /\ s.cmds = r.cmds /\ s.queued = r.queued
        /\ s.waiters = r.waiters /\ s.active = r.active /\ s.took = r.took
    BY <1>1, <2>0 DEF DriverState
  <2> HIDE DEF s
  <2>2. /\ up \in DriverState /\ up.cmds = r.cmds /\ up.queued = r.queued
        /\ up.waiters = r.waiters /\ up.active = r.active /\ up.took = r.took
    BY <2>1 DEF DriverState
  <2> HIDE DEF up
  <2>3. Keeps(r, v) /\ v.took = r.took
    BY <2>1, <2>2 DEF DriverState, Keeps
  <2> QED
    BY <1>2, <1>5, <2>3, SilentServes
<1> QED
  BY <1>3, <1>4, <1>5

\* Every frame, and the end of the stream.
LEMMA PeerServes ==
  ASSUME IInv, TicketInv, NEW d \in Drivers, PeerNext(d)
  PROVE  Serves(d)
<1>1. drv[d] \in DriverState /\ Like(drv[d], drv[d])
  BY DEF IInv, TypeOK, Like
<1>2. CASE PeerCloses(d)
  BY <1>1, <1>2, ErrorKinds, ReadFailsServes DEF PeerCloses
<1>3. CASE Garbage(d)
  BY <1>1, <1>3, ErrorKinds, ReadFailsServes DEF Garbage
<1>4. CASE Notification(d)
  BY <1>4, NotificationServes
<1>5. ASSUME NEW id \in FrameIds(d), NEW v \in Verdicts,
             Response(d, id, v) \/ ReplayResponse(d, id, v)
      PROVE  Serves(d)
  <2>1. id \in Nat
    BY <1>1 DEF FrameIds, DriverState, IInv, TypeOK
  <2> QED
    BY <1>5, <2>1, ResponseServes, ReplayResponseServes
<1> QED
  BY <1>2, <1>3, <1>4, <1>5 DEF PeerNext

-----------------------------------------------------------------------------
(* The invariant survives the drivers *)

\* Tickets the driver holds are tickets.
LEMMA PoolType ==
  ASSUME NEW r \in DriverState
  PROVE  Pool(r) \subseteq Tickets
BY DEF Pool, ActiveTickets, DriverState, ActiveCall, Range

\* A caller keeps its attempt whatever a driver tells it.
LEMMA ServedCallers ==
  ASSUME IInv, NEW d \in Drivers, Serves(d), NEW c \in Callers
  PROVE  /\ cl'[c].try = cl[c].try /\ Ticket(c)' = Ticket(c)
         /\ cl'[c] = cl[c] \/ (cl[c].pc = "wait" /\ cl'[c].pc = "got")
BY DEF Serves, Told, Ticket

\* What is known stays known.
LEMMA ServedKnown ==
  ASSUME IInv, NEW d \in Drivers, Serves(d), NEW t \in Tickets, Known(t)
  PROVE  Known(t)'
<1>1. t.who \in Callers
  BY DEF Tickets
<1>2. hist' = hist
  BY DEF Serves
<1> QED
  BY <1>1, <1>2, ServedCallers DEF Known, OpOf

\* A ticket still held is awaited by the caller that awaited it.
LEMMA ServedWanted ==
  ASSUME IInv, TicketInv, NEW d \in Drivers, Serves(d), NEW e \in Drivers,
         NEW t \in Pool(drv'[e])
  PROVE  t \in Pool(drv[e]) /\ Known(t)' /\ Wanted(t)'
<1>1. t \in Pool(drv[e])
  BY DEF Serves
<1>2. t \in Tickets /\ Known(t) /\ Wanted(t)
  BY <1>1, PoolType DEF IInv, TypeOK, TicketInv, PoolsInv
<1>3. Known(t)'
  BY <1>2, ServedKnown
<1>4. hist' = hist /\ t.who \in Callers
  BY <1>2 DEF Serves, Tickets
<1>5. ASSUME Live(t) PROVE Live(t)'
  <2>1. Ticket(t.who) = t /\ Ticket(t.who)' = t /\ cl[t.who].pc = "wait"
    BY <1>4, <1>5, ServedCallers DEF Live
  <2>2. ~Told(d, t.who)
    <3>1. CASE e = d
      BY <2>1, <3>1 DEF Told
    <3>2. CASE e # d
      BY <1>1, <2>1, <3>2 DEF Told, TicketInv, PoolsInv
    <3> QED
      BY <3>1, <3>2
  <2>3. cl'[t.who] = cl[t.who]
    BY <1>4, <2>2 DEF Serves
  <2> QED
    BY <2>1, <2>3 DEF Live
<1> QED
  BY <1>1, <1>2, <1>3, <1>4, <1>5 DEF Wanted

\* Requests are only ever added.
LEMMA LogGrows ==
  ASSUME IInv, NEW d \in Drivers, Sends(d)
  PROVE  /\ \A i \in DOMAIN reqs : i \in DOMAIN reqs' /\ reqs'[i] = reqs[i]
         /\ reqs' # reqs =>
              /\ NextId \notin DOMAIN reqs /\ NextId \in DOMAIN reqs'
              /\ reqs' = Append(reqs, reqs'[NextId])
              /\ DOMAIN reqs' = DOMAIN reqs \cup {NextId}
              /\ reqs'[NextId] = Replay \/ reqs'[NextId] \in Range(drv[d].queued) \ Unsent(drv'[d])
<1>1. reqs \in Seq(Tickets \cup {Replay}) /\ drv[d].queued \in Seq(Tickets)
  BY DEF IInv, TypeOK, DriverState
<1>2. CASE reqs' = reqs
  BY <1>2
<1>3. ASSUME NEW x \in Tickets \cup {Replay}, reqs' = Append(reqs, x)
      PROVE  /\ \A i \in DOMAIN reqs : i \in DOMAIN reqs' /\ reqs'[i] = reqs[i]
             /\ NextId \notin DOMAIN reqs /\ NextId \in DOMAIN reqs'
             /\ DOMAIN reqs' = DOMAIN reqs \cup {NextId} /\ reqs'[NextId] = x
  BY <1>1, <1>3, AppendProperties, LenProperties DEF NextId
<1>4. CASE reqs' = Append(reqs, Replay)
  BY <1>3, <1>4
<1>5. ASSUME NEW t \in Range(drv[d].queued), reqs' = Append(reqs, t), t \notin Unsent(drv'[d])
      PROVE  /\ \A i \in DOMAIN reqs : i \in DOMAIN reqs' /\ reqs'[i] = reqs[i]
             /\ NextId \notin DOMAIN reqs /\ NextId \in DOMAIN reqs'
             /\ reqs' = Append(reqs, reqs'[NextId])
             /\ DOMAIN reqs' = DOMAIN reqs \cup {NextId}
             /\ reqs'[NextId] \in Range(drv[d].queued) \ Unsent(drv'[d])
  <2>1. t \in Tickets
    BY <1>1 DEF Range
  <2> QED
    BY <1>3, <1>5, <2>1
<1> QED
  BY <1>2, <1>4, <1>5 DEF Sends

\* Whatever serves its tickets this way keeps the invariant.
LEMMA ServesKeeps ==
  ASSUME IInv, TicketInv, NEW d \in Drivers, Serves(d)
  PROVE  TicketInv'
<1>1. \A c \in Callers : CallInv(c)'
  BY ServedCallers DEF TicketInv, CallInv, Serves
<1>2. hist' = hist
  BY DEF Serves
<1>3. PoolsInv'
  <2>1. ASSUME NEW e \in Drivers
        PROVE  Apart(drv'[e]) /\ Kinds(drv'[e])
    BY DEF Serves, TicketInv, PoolsInv
  <2>2. \A e \in Drivers : Kinds(drv'[e]) => Kinds(drv[e])'
    BY <1>2 DEF Kinds, OpOf
  <2>3. \A e, f \in Drivers : e # f => Pool(drv'[e]) \cap Pool(drv'[f]) = {}
    <3>1. \A e \in Drivers : Pool(drv'[e]) \subseteq Pool(drv[e])
      BY DEF Serves
    <3> QED
      BY <3>1 DEF TicketInv, PoolsInv
  <2>4. \A e \in Drivers : \A t \in Pool(drv'[e]) : Known(t)' /\ Wanted(t)'
    BY ServedWanted
  <2> QED
    BY <2>1, <2>2, <2>3, <2>4 DEF PoolsInv
<1>4. SentInv'
  <2> DEFINE x == reqs'[NextId]
  <2>1. /\ \A i \in DOMAIN reqs : i \in DOMAIN reqs' /\ reqs'[i] = reqs[i]
        /\ reqs' # reqs =>
             /\ NextId \notin DOMAIN reqs /\ NextId \in DOMAIN reqs'
             /\ DOMAIN reqs' = DOMAIN reqs \cup {NextId}
             /\ x = Replay \/ x \in Range(drv[d].queued) \ Unsent(drv'[d])
    BY LogGrows DEF Serves
  <2>2. \A e \in Drivers : Pool(drv[e]) \subseteq Tickets
    BY PoolType DEF IInv, TypeOK
  <2>3. Range(drv[d].queued) \subseteq Pool(drv[d]) /\ Range(drv[d].queued) \subseteq Unsent(drv[d])
    BY DEF Pool, Unsent
  <2> HIDE DEF x
  <2>4. ASSUME NEW e \in Drivers
        PROVE  Unsent(drv'[e]) \cap Range(reqs') = {}
    <3>1. Unsent(drv'[e]) \subseteq Unsent(drv[e]) /\ Unsent(drv[e]) \subseteq Pool(drv[e])
      BY DEF Serves, Unsent, Pool
    <3>2. Unsent(drv[e]) \cap Range(reqs) = {}
      BY DEF TicketInv, SentInv
    <3>3. CASE reqs' = reqs
      BY <3>1, <3>2, <3>3
    <3>4. CASE reqs' # reqs
      <4>1. Range(reqs') \subseteq Range(reqs) \cup {x}
        BY <2>1, <3>4 DEF Range, x
      <4>2. x \notin Unsent(drv'[e])
        <5>1. CASE x = Replay
          BY <2>2, <3>1, <5>1, MarksAssumption
        <5>2. CASE e = d
          BY <2>1, <3>1, <3>4, <5>1, <5>2
        <5>3. CASE e # d /\ x # Replay
          <6>1. Pool(drv[d]) \cap Pool(drv[e]) = {}
            BY <5>3 DEF TicketInv, PoolsInv
          <6> QED
            BY <2>1, <2>3, <3>1, <3>4, <5>3, <6>1
        <5> QED
          BY <5>1, <5>2, <5>3
      <4> QED
        BY <3>1, <3>2, <4>1, <4>2
    <3> QED
      BY <3>3, <3>4
  <2>5. ASSUME NEW e \in Drivers, drv'[e].active # None
        PROVE  drv'[e].active.id \in DOMAIN reqs' /\ reqs'[drv'[e].active.id] = drv'[e].active.tk
    <3>1. CASE drv'[e].active = drv[e].active
      BY <2>1, <2>5, <3>1 DEF TicketInv, SentInv, ActiveSent
    <3>2. CASE drv'[e].active # drv[e].active
      <4>1. e = d
        BY <3>2 DEF Serves
      <4>2. PICK t \in Range(drv[d].queued) : /\ reqs' = Append(reqs, t)
                                             /\ drv'[d].active = [id |-> NextId, tk |-> t]
        BY <2>5, <3>2, <4>1 DEF Serves, Sends
      <4>3. reqs \in Seq(Tickets \cup {Replay}) /\ t \in Tickets
        BY <2>2, <2>3 DEF IInv, TypeOK
      <4>4. NextId \in DOMAIN reqs' /\ reqs'[NextId] = t
        BY <4>2, <4>3, AppendProperties, LenProperties DEF NextId
      <4> QED
        BY <4>1, <4>2, <4>4
    <3> QED
      BY <3>1, <3>2
  <2>6. ASSUME NEW i \in DOMAIN reqs', reqs'[i] # Replay
        PROVE  Known(reqs[i])'
    <3>1. reqs'[i] \in Tickets /\ Known(reqs'[i])
      <4>1. CASE i \in DOMAIN reqs
        BY <2>1, <2>6, <4>1 DEF TicketInv, SentInv, IInv, TypeOK
      <4>2. CASE i \notin DOMAIN reqs
        <5>1. reqs'[i] \in Pool(drv[d])
          BY <2>1, <2>3, <2>6, <4>2 DEF x
        <5> QED
          BY <2>2, <5>1 DEF TicketInv, PoolsInv
      <4> QED
        BY <4>1, <4>2
    <3>2. PICK t \in Tickets : t = reqs'[i] /\ Known(t)
      BY <3>1
    <3>3. Known(t)'
      BY <3>2, ServedKnown
    <3> QED
      BY <3>2, <3>3 DEF Known, OpOf
  <2>7. ASSUME NEW i \in DOMAIN reqs', NEW j \in DOMAIN reqs',
               reqs'[i] # Replay, reqs'[i] = reqs'[j]
        PROVE  i = j
    <3>1. x # Replay /\ reqs' # reqs => \A k \in DOMAIN reqs : reqs[k] # x
      BY <2>1, <2>3 DEF TicketInv, SentInv, Range
    <3>2. \A k, l \in DOMAIN reqs : reqs[k] # Replay /\ reqs[k] = reqs[l] => k = l
      BY DEF TicketInv, SentInv
    <3>3. CASE reqs' = reqs
      BY <2>7, <3>2, <3>3
    <3>4. CASE reqs' # reqs
      BY <2>1, <2>7, <3>1, <3>2, <3>4 DEF x
    <3> QED
      BY <3>3, <3>4
  <2> QED
    BY <2>4, <2>5, <2>6, <2>7 DEF SentInv, ActiveSent
<1>5. AnswerIsOwn'
  <2> SUFFICES ASSUME NEW c \in Callers, cl'[c].pc = "got", cl'[c].res.kind = "ok",
                      OpOf(Ticket(c))' # NextNote
               PROVE  cl'[c].res.id \in DOMAIN reqs' /\ reqs'[cl'[c].res.id] = Ticket(c)'
    BY DEF AnswerIsOwn
  <2>1. Ticket(c)' = Ticket(c) /\ OpOf(Ticket(c)) # NextNote
    BY <1>2, ServedCallers DEF OpOf
  <2>2. cl'[c].res.id \in DOMAIN reqs /\ reqs[cl'[c].res.id] = Ticket(c)
    <3>1. CASE cl'[c] = cl[c]
      BY <2>1, <3>1 DEF TicketInv, AnswerIsOwn
    <3>2. CASE Told(d, c)
      BY <2>1, <3>2 DEF Told
    <3> QED
      BY <3>1, <3>2 DEF Serves
  <2>3. \A i \in DOMAIN reqs : i \in DOMAIN reqs' /\ reqs'[i] = reqs[i]
    BY LogGrows DEF Serves
  <2> QED
    BY <2>1, <2>2, <2>3
<1> QED
  BY <1>1, <1>3, <1>4, <1>5 DEF TicketInv

-----------------------------------------------------------------------------
(* The invariant survives the callers *)

\* What the step of caller c does to its calls and its attempt: nothing known
\* is forgotten, and a wait ends in this way only when its call is abandoned.
Moves(c) ==
  /\ \A b \in Callers : b # c => cl'[b] = cl[b] /\ hist'[b] = hist[b]
  /\ \A n \in 1..Len(hist[c]) :
       /\ n \in 1..Len(hist'[c]) /\ hist'[c][n].op = hist[c][n].op
       /\ hist[c][n].out = "cancelled" => hist'[c][n].out = "cancelled"
  /\ \/ Len(hist'[c]) > Len(hist[c])
     \/ Len(hist'[c]) = Len(hist[c]) /\ cl'[c].pc = "idle"
     \/ /\ Len(hist'[c]) = Len(hist[c]) /\ cl[c].pc # "idle"
        /\ \/ cl'[c].try > cl[c].try
           \/ cl'[c].try = cl[c].try /\ cl[c].pc \notin {"wait", "got"}
  /\ cl[c].pc = "wait" => hist'[c][Len(hist[c])].out = "cancelled"
  /\ cl'[c].pc = "got" => cl'[c].res.kind # "ok"
  /\ CallInv(c)'
  /\ reqs' = reqs

\* Known tickets stay known and keep their operation.
LEMMA MovedKnown ==
  ASSUME IInv, IInv', NEW c \in Callers, Moves(c), NEW t \in Tickets, Known(t)
  PROVE  Known(t)' /\ OpOf(t)' = OpOf(t)
<1>1. t.who \in Callers /\ t.try \in 1..2
  BY DEF Tickets
<1>2. CASE t.who # c
  BY <1>1, <1>2 DEF Moves, Known, OpOf
<1>3. CASE t.who = c
  <2>1. /\ t.n \in 1..Len(hist[c]) /\ t.n \in 1..Len(hist'[c])
        /\ hist'[c][t.n].op = hist[c][t.n].op
    BY <1>3 DEF Moves, Known
  <2>2. OpOf(t)' = OpOf(t)
    BY <1>3, <2>1 DEF OpOf
  <2>3. Len(hist[c]) \in Nat /\ cl[c].try \in 1..2 /\ cl'[c].try \in 1..2
    BY DEF IInv, TypeOK, CallerState
  <2>4. Len(hist'[c]) > Len(hist[c]) => t.n # Len(hist'[c])
    BY <2>1, <2>3
  <2>5. /\ Len(hist'[c]) = Len(hist[c]) /\ cl'[c].pc # "idle" /\ cl[c].pc # "idle"
        /\ t.n = Len(hist[c])
        => \/ t.try < cl'[c].try
           \/ t.try = cl'[c].try /\ cl'[c].pc \in {"wait", "got"}
    <3> SUFFICES ASSUME Len(hist'[c]) = Len(hist[c]), cl'[c].pc # "idle", cl[c].pc # "idle",
                        t.n = Len(hist[c])
                 PROVE  t.try < cl'[c].try
      OBVIOUS
    <3>1. t.try < cl[c].try \/ (t.try = cl[c].try /\ cl[c].pc \in {"wait", "got"})
      BY <1>3 DEF Known
    <3>2. \/ cl'[c].try > cl[c].try
          \/ cl'[c].try = cl[c].try /\ cl[c].pc \notin {"wait", "got"}
      BY <2>3 DEF Moves
    <3>3. CASE cl'[c].try = cl[c].try /\ cl[c].pc \notin {"wait", "got"}
      BY <3>1, <3>3
    <3>4. CASE cl'[c].try > cl[c].try
      <4>1. t.try <= cl[c].try
        BY <1>1, <2>3, <3>1
      <4> QED
        BY <1>1, <2>3, <3>4, <4>1
    <3> QED
      BY <3>2, <3>3, <3>4
  <2> QED
    BY <1>3, <2>1, <2>2, <2>4, <2>5 DEF Known, Moves
<1> QED
  BY <1>2, <1>3

\* A ticket that is wanted stays wanted.
LEMMA MovedWanted ==
  ASSUME IInv, NEW c \in Callers, Moves(c), NEW t \in Tickets, Known(t), Wanted(t)
  PROVE  Wanted(t)'
<1>1. t.who \in Callers /\ t.n \in 1..Len(hist[t.who])
  BY DEF Tickets, Known
<1>2. CASE t.who # c
  BY <1>1, <1>2 DEF Moves, Wanted, Live, Ticket
<1>3. CASE t.who = c
  <2>1. CASE Live(t)
    <3>1. t.n = Len(hist[c]) /\ cl[c].pc = "wait"
      BY <1>3, <2>1 DEF Live, Ticket
    <3> QED
      BY <1>3, <3>1 DEF Moves, Wanted
  <2>2. CASE hist[c][t.n].out = "cancelled"
    BY <1>1, <1>3, <2>2 DEF Moves, Wanted
  <2> QED
    BY <1>3, <2>1, <2>2 DEF Wanted
<1> QED
  BY <1>2, <1>3

\* Records that hold the same tickets in the same places.
SameTickets(r, s) ==
  /\ s.cmds = r.cmds /\ s.queued = r.queued /\ s.waiters = r.waiters
  /\ s.active = r.active

\* The parts of the invariant that a caller's step keeps whatever it holds.
LEMMA MovedCalls ==
  ASSUME IInv, IInv', TicketInv, NEW c \in Callers, Moves(c)
  PROVE  /\ \A b \in Callers : CallInv(b)'
         /\ AnswerIsOwn'
         /\ \A d \in Drivers : \A t \in Pool(drv[d]) :
              t \in Tickets /\ Known(t)' /\ Wanted(t)' /\ OpOf(t)' = OpOf(t)
         /\ \A i \in DOMAIN reqs : reqs[i] # Replay => Known(reqs[i])'
<1>1. ASSUME NEW b \in Callers PROVE CallInv(b)'
  <2>1. CASE b = c
    BY <2>1 DEF Moves
  <2>2. CASE b # c
    BY <2>2 DEF Moves, TicketInv, CallInv
  <2> QED
    BY <2>1, <2>2
<1>2. AnswerIsOwn'
  <2> SUFFICES ASSUME NEW b \in Callers, cl'[b].pc = "got", cl'[b].res.kind = "ok",
                      OpOf(Ticket(b))' # NextNote
               PROVE  cl'[b].res.id \in DOMAIN reqs' /\ reqs'[cl'[b].res.id] = Ticket(b)'
    BY DEF AnswerIsOwn
  <2>1. b # c
    BY DEF Moves
  <2>2. cl'[b] = cl[b] /\ hist'[b] = hist[b] /\ reqs' = reqs
    BY <2>1 DEF Moves
  <2>3. Ticket(b)' = Ticket(b)
    BY <2>2 DEF Ticket
  <2>4. OpOf(Ticket(b)) # NextNote
    BY <2>2, <2>3 DEF OpOf, Ticket
  <2> QED
    BY <2>2, <2>3, <2>4 DEF TicketInv, AnswerIsOwn
<1>3. ASSUME NEW d \in Drivers, NEW t \in Pool(drv[d])
      PROVE  t \in Tickets /\ Known(t)' /\ Wanted(t)' /\ OpOf(t)' = OpOf(t)
  <2>1. t \in Tickets /\ Known(t) /\ Wanted(t)
    BY PoolType DEF IInv, TypeOK, TicketInv, PoolsInv
  <2> QED
    BY <2>1, MovedKnown, MovedWanted
<1>4. ASSUME NEW i \in DOMAIN reqs, reqs[i] # Replay PROVE Known(reqs[i])'
  <2>1. PICK t \in Tickets : t = reqs[i] /\ Known(t)
    BY <1>4 DEF IInv, TypeOK, TicketInv, SentInv
  <2>2. Known(t)'
    BY <2>1, MovedKnown
  <2>3. reqs'[i] = t
    BY <2>1 DEF Moves
  <2> QED
    BY <2>2, <2>3 DEF Known, OpOf
<1> QED
  BY <1>1, <1>2, <1>3, <1>4

\* A caller's step that sends no command keeps the invariant.
LEMMA MovesKeeps ==
  ASSUME IInv, IInv', TicketInv, NEW c \in Callers, Moves(c),
         \A d \in Drivers : SameTickets(drv[d], drv'[d])
  PROVE  TicketInv'
<1>1. ASSUME NEW d \in Drivers
      PROVE  /\ Pool(drv'[d]) = Pool(drv[d]) /\ Unsent(drv'[d]) = Unsent(drv[d])
             /\ Apart(drv'[d]) /\ ActiveTickets(drv'[d]) = ActiveTickets(drv[d])
  BY DEF SameTickets, Pool, Unsent, Apart, ActiveTickets, TicketInv, PoolsInv
<1>2. reqs' = reqs
  BY DEF Moves
<1>3. ASSUME NEW d \in Drivers PROVE Kinds(drv[d])'
  <2>1. Kinds(drv[d])
    BY DEF TicketInv, PoolsInv
  <2>2. \A t \in Pool(drv[d]) : OpOf(t)' = OpOf(t)
    BY MovedCalls
  <2> QED
    BY <1>1, <2>1, <2>2 DEF SameTickets, Kinds, Pool
<1>4. PoolsInv'
  BY <1>1, <1>3, MovedCalls DEF TicketInv, PoolsInv
<1>5. ASSUME NEW d \in Drivers PROVE ActiveSent(drv[d])'
  BY <1>2 DEF SameTickets, ActiveSent, TicketInv, SentInv
<1>6. SentInv'
  BY <1>1, <1>2, <1>5, MovedCalls DEF TicketInv, SentInv
<1> QED
  BY <1>4, <1>6, MovedCalls DEF TicketInv

\* The steps that leave the calls alone.
LEMMA AcquireMoves ==
  ASSUME IInv, TicketInv, NEW c \in Callers, cl'[c].pc \in {"send", "wait", "got"},
         cl[c].pc \in {"acquire", "send"}, cl'[c].try = cl[c].try,
         cl'[c].pc = "send" => cl'[c].at \in Drivers,
         cl'[c].pc = "got" => cl'[c].res.kind # "ok",
         \A b \in Callers : b # c => cl'[b] = cl[b], hist' = hist, reqs' = reqs
  PROVE  Moves(c)
<1>1. CallInv(c)'
  BY DEF TicketInv, CallInv
<1> QED
  BY <1>1 DEF Moves

\* Finish and Cancel close the current call.
LEMMA ReturnMoves ==
  ASSUME IInv, TicketInv, NEW c \in Callers, NEW out \in {"ok", "err", "cancelled"},
         Return(c, out), cl[c].pc # "idle", cl[c].pc = "wait" => out = "cancelled",
         reqs' = reqs
  PROVE  Moves(c)
<1> DEFINE h == hist[c]
           k == Len(h)
           g == [h EXCEPT ![k].out = out]
<1>1. h \in Seq(CallRecord) /\ h # <<>> /\ h[k].out = "open" /\ hist \in [Callers -> Seq(CallRecord)]
      /\ cl \in [Callers -> CallerState]
  BY DEF IInv, TypeOK, TicketInv, CallInv
<1>2. k \in 1..Len(h) /\ k \in Nat /\ DOMAIN h = 1..k /\ h[k] \in CallRecord
  BY <1>1, LenProperties, EmptySeq
<1>3. hist' = [hist EXCEPT ![c] = g] /\ cl' = [cl EXCEPT ![c] = IdleCaller]
  BY DEF Return
<1>4. hist'[c] = g /\ cl'[c] = IdleCaller
      /\ \A b \in Callers : b # c => cl'[b] = cl[b] /\ hist'[b] = hist[b]
  BY <1>1, <1>3
<1> HIDE DEF h, k
<1>5. DOMAIN g = 1..k /\ g[k] = [h[k] EXCEPT !.out = out] /\ \A n \in 1..k : n # k => g[n] = h[n]
  BY <1>2
<1>6. g[k].op = h[k].op /\ g[k].out = out
  BY <1>2, <1>5 DEF CallRecord
<1>7. g \in Seq(CallRecord) /\ Len(g) = k
  <2>1. [h[k] EXCEPT !.out = out] \in CallRecord
    BY <1>2 DEF CallRecord
  <2>2. [h EXCEPT ![k] = [h[k] EXCEPT !.out = out]] = g
    OBVIOUS
  <2> QED
    BY <1>1, <1>2, <2>1, <2>2, ExceptSeq DEF k
<1> HIDE DEF g
<1>8. cl'[c].pc = "idle"
  BY <1>4 DEF IdleCaller
<1>9. CallInv(c)'
  BY <1>4, <1>6, <1>7, <1>8 DEF CallInv
<1>10. \A n \in 1..k : g[n].op = h[n].op /\ (h[n].out = "cancelled" => g[n].out = "cancelled")
  BY <1>1, <1>2, <1>5, <1>6
<1> QED
  BY <1>2, <1>4, <1>6, <1>7, <1>8, <1>9, <1>10 DEF Moves, h, k

\* A new call.
LEMMA BeginMoves ==
  ASSUME IInv, TicketInv, NEW c \in Callers, NEW op \in Ops[c], Begin(c, op)
  PROVE  Moves(c)
<1> DEFINE h == hist[c]
           e == [op |-> op, out |-> "open"]
           g == Append(h, e)
<1>1. h \in Seq(CallRecord) /\ hist \in [Callers -> Seq(CallRecord)] /\ cl \in [Callers -> CallerState]
  BY DEF IInv, TypeOK
<1>2. e \in CallRecord
  BY OpsAssumption DEF CallRecord
<1>3. /\ Len(g) = Len(h) + 1 /\ Len(h) \in Nat /\ g[Len(h) + 1] = e
      /\ \A n \in 1..Len(h) : g[n] = h[n]
      /\ g # <<>>
  BY <1>1, <1>2, AppendProperties, LenProperties
<1>4. /\ hist'[c] = g /\ cl'[c] = [IdleCaller EXCEPT !.pc = "acquire"] /\ reqs' = reqs
      /\ \A b \in Callers : b # c => cl'[b] = cl[b] /\ hist'[b] = hist[b]
      /\ cl[c].pc = "idle"
  BY <1>1 DEF Begin
<1>5. cl'[c].pc = "acquire" /\ cl'[c].try = 1
  BY <1>4 DEF IdleCaller
<1> HIDE DEF g, h
<1>6. CallInv(c)'
  BY <1>3, <1>4, <1>5 DEF CallInv
<1>7. \A n \in 1..Len(h) : n \in 1..Len(g) /\ g[n] = h[n]
  BY <1>3
<1>8. Len(g) > Len(h)
  BY <1>3
<1> QED
  BY <1>4, <1>5, <1>6, <1>7, <1>8 DEF Moves, h

\* The second attempt, never of a submission.
LEMMA RetryMoves ==
  ASSUME IInv, TicketInv, NEW c \in Callers, Retry(c)
  PROVE  Moves(c)
<1>1. cl \in [Callers -> CallerState]
  BY DEF IInv, TypeOK
<1>2. /\ cl'[c] = [IdleCaller EXCEPT !.pc = "acquire", !.try = cl[c].try + 1]
      /\ \A b \in Callers : b # c => cl'[b] = cl[b]
      /\ cl[c].pc = "got" /\ cl[c].try = 1 /\ hist' = hist /\ reqs' = reqs
      /\ hist[c][Len(hist[c])].op # Submit
  BY <1>1 DEF Retry, ShouldRetry
<1>3. cl'[c].pc = "acquire" /\ cl'[c].try = 2
  BY <1>2 DEF IdleCaller
<1>4. CallInv(c)'
  BY <1>2, <1>3 DEF TicketInv, CallInv
<1> QED
  BY <1>2, <1>3, <1>4 DEF Moves

\* A driver taken from the slot, spawned, or found closed.
LEMMA CallerMoves ==
  ASSUME IInv, TicketInv, NEW c \in Callers, CallerNext(c)
  PROVE  Moves(c) /\ (SendCommand(c) \/ \A d \in Drivers : SameTickets(drv[d], drv'[d]))
<1>1. cl[c] \in CallerState /\ cl \in [Callers -> CallerState] /\ drv \in [Drivers -> DriverState]
  BY DEF IInv, TypeOK
<1>2. drv' = drv => \A d \in Drivers : SameTickets(drv[d], drv'[d])
  BY DEF SameTickets
<1>3. ASSUME NEW op \in Ops[c], Begin(c, op)
      PROVE  Moves(c) /\ drv' = drv
  BY <1>3, BeginMoves DEF Begin
<1>4. CASE ReuseDriver(c)
  <2>1. slot \in Drivers /\ drv' = drv /\ hist' = hist /\ reqs' = reqs /\ cl[c].pc = "acquire"
    BY <1>4 DEF ReuseDriver, SlotUsable, IInv, TypeOK
  <2>2. cl'[c].pc = "send" /\ cl'[c].at = slot /\ cl'[c].try = cl[c].try
    BY <1>1, <1>4 DEF CallerState, ReuseDriver
  <2>3. \A b \in Callers : b # c => cl'[b] = cl[b]
    BY <1>1, <1>4 DEF ReuseDriver
  <2> QED
    BY <1>2, <2>1, <2>2, <2>3, AcquireMoves
<1>5. ASSUME NEW d \in Drivers, SpawnDriver(c, d)
      PROVE  Moves(c) /\ \A e \in Drivers : SameTickets(drv[e], drv'[e])
  <2>1. hist' = hist /\ reqs' = reqs /\ cl[c].pc = "acquire"
    BY <1>5 DEF SpawnDriver
  <2>2. cl'[c].pc = "send" /\ cl'[c].at = d /\ cl'[c].try = cl[c].try
    BY <1>1, <1>5 DEF CallerState, SpawnDriver
  <2>3. \A b \in Callers : b # c => cl'[b] = cl[b]
    BY <1>1, <1>5 DEF SpawnDriver
  <2>4. \A e \in Drivers : SameTickets(drv[e], drv'[e])
    BY <1>1, <1>5 DEF SpawnDriver, SameTickets, DriverState
  <2> QED
    BY <2>1, <2>2, <2>3, <2>4, AcquireMoves
<1>6. CASE SendCommand(c)
  <2>1. hist' = hist /\ reqs' = reqs /\ cl[c].pc = "send"
    BY <1>6 DEF SendCommand
  <2>2. cl'[c].pc = "wait" /\ cl'[c].try = cl[c].try
    BY <1>1, <1>6 DEF CallerState, SendCommand
  <2>3. \A b \in Callers : b # c => cl'[b] = cl[b]
    BY <1>1, <1>6 DEF SendCommand
  <2> QED
    BY <1>6, <2>1, <2>2, <2>3, AcquireMoves
<1>7. CASE SendToClosed(c)
  <2>1. hist' = hist /\ reqs' = reqs /\ drv' = drv /\ cl[c].pc = "send"
    BY <1>7 DEF SendToClosed
  <2>2. cl'[c].pc = "got" /\ cl'[c].try = cl[c].try /\ cl'[c].res = Retryable
    BY <1>1, <1>7 DEF CallerState, SendToClosed
  <2>3. \A b \in Callers : b # c => cl'[b] = cl[b]
    BY <1>1, <1>7 DEF SendToClosed
  <2> QED
    BY <1>2, <2>1, <2>2, <2>3, ErrorKinds, AcquireMoves
<1>8. CASE Retry(c)
  BY <1>2, <1>8, RetryMoves DEF Retry
<1>9. CASE Finish(c)
  BY <1>2, <1>9, ReturnMoves DEF Finish
<1>10. CASE Cancel(c)
  BY <1>2, <1>10, ReturnMoves DEF Cancel
<1> QED
  BY <1>2, <1>3, <1>4, <1>5, <1>6, <1>7, <1>8, <1>9, <1>10 DEF CallerNext

\* The ticket of an attempt about to be sent is nowhere yet.
LEMMA SendKeeps ==
  ASSUME IInv, IInv', TicketInv, NEW c \in Callers, SendCommand(c), Moves(c)
  PROVE  TicketInv'
<1>0. PICK t : t = Ticket(c)
  OBVIOUS
<1> DEFINE d == cl[c].at
           r == drv[d]
           s == drv'[d]
<1>1. /\ d \in Drivers /\ cl[c].pc = "send" /\ hist' = hist /\ reqs' = reqs
      /\ drv' = [drv EXCEPT ![d].cmds = Append(@, t)]
      /\ cl' = [cl EXCEPT ![c].pc = "wait"]
  BY <1>0 DEF SendCommand, TicketInv, CallInv
<1>2. /\ drv \in [Drivers -> DriverState] /\ cl \in [Callers -> CallerState]
      /\ cl[c] \in CallerState /\ hist[c] \in Seq(CallRecord)
  BY DEF IInv, TypeOK
<1>3. r \in DriverState
  BY <1>1, <1>2
<1>4. t \in Tickets /\ t.who = c /\ t.n = Len(hist[c]) /\ t.try = cl[c].try
  BY <1>0, <1>2 DEF Ticket, Tickets, CallerState
<1> HIDE DEF d
<1>5. \A e \in Drivers : e # d => drv'[e] = drv[e]
  BY <1>1, <1>2
<1>6. /\ s.cmds = Append(r.cmds, t) /\ s.queued = r.queued /\ s.waiters = r.waiters
      /\ s.active = r.active
  BY <1>1, <1>2, <1>3 DEF DriverState
<1> HIDE DEF r, s
<1>7. ~Known(t)
  BY <1>1, <1>2, <1>4 DEF Known, CallerState
<1>8. (\A e \in Drivers : t \notin Pool(drv[e])) /\ t \notin Range(reqs)
  <2>1. t # Replay
    BY <1>4, MarksAssumption
  <2> QED
    BY <1>7, <2>1 DEF TicketInv, PoolsInv, SentInv, Range
<1>9. cl'[c].pc = "wait" /\ cl'[c].try = cl[c].try /\ Ticket(c)' = t
  BY <1>0, <1>1, <1>2 DEF CallerState, Ticket
<1>10. Known(t)' /\ Wanted(t)'
  <2>1. hist[c] # <<>> /\ (cl[c].try = 2 => hist[c][Len(hist[c])].op # Submit)
    BY <1>1 DEF TicketInv, CallInv
  <2>2. t.n \in 1..Len(hist[c])
    BY <1>2, <1>4, <2>1, EmptySeq
  <2>3. Live(t)'
    BY <1>4, <1>9 DEF Live
  <2> QED
    BY <1>1, <1>4, <1>9, <2>1, <2>2, <2>3 DEF Known, Wanted, OpOf
<1>11. /\ Range(s.cmds) = Range(r.cmds) \cup {t}
       /\ IsInjective(r.cmds) /\ t \notin Range(r.cmds) => IsInjective(s.cmds)
  BY <1>3, <1>4, <1>6, AppendQueue DEF DriverState
<1>12. ActiveTickets(s) = ActiveTickets(r)
  BY <1>6 DEF ActiveTickets
<1>13. Pool(s) = Pool(r) \cup {t} /\ Unsent(s) = Unsent(r) \cup {t}
  BY <1>6, <1>11, <1>12 DEF Pool, Unsent
<1>14. Apart(r) /\ Kinds(r)
  BY <1>1 DEF TicketInv, PoolsInv, r
<1>15. t \notin Pool(r)
  BY <1>1, <1>8 DEF r
<1>16. Apart(s)
  BY <1>6, <1>11, <1>12, <1>14, <1>15 DEF Apart, Pool
<1>17. ASSUME NEW e \in Drivers
       PROVE  Apart(drv'[e]) /\ Kinds(drv[e])'
  <2>1. \A q : OpOf(q)' = OpOf(q)
    BY <1>1 DEF OpOf
  <2>2. CASE e = d
    <3>1. Kinds(s)
      BY <1>6, <1>12, <1>14 DEF Kinds
    <3> QED
      BY <1>16, <2>1, <2>2, <3>1 DEF Kinds, s
  <2>3. CASE e # d
    BY <1>5, <2>1, <2>3 DEF TicketInv, PoolsInv, Kinds
  <2> QED
    BY <2>2, <2>3
<1>18. \A e \in Drivers : Pool(drv'[e]) = Pool(drv[e]) \/ (e = d /\ Pool(drv'[e]) = Pool(drv[e]) \cup {t})
  BY <1>5, <1>13 DEF r, s
<1>19. PoolsInv'
  <2>1. \A e, f \in Drivers : e # f => Pool(drv'[e]) \cap Pool(drv'[f]) = {}
    BY <1>8, <1>18 DEF TicketInv, PoolsInv
  <2>2. \A e \in Drivers : \A q \in Pool(drv'[e]) : Known(q)' /\ Wanted(q)'
    BY <1>10, <1>18, MovedCalls
  <2> QED
    BY <1>17, <2>1, <2>2 DEF PoolsInv
<1>20. SentInv'
  <2>1. \A e \in Drivers : Unsent(drv'[e]) = Unsent(drv[e]) \/ Unsent(drv'[e]) = Unsent(drv[e]) \cup {t}
    BY <1>5, <1>13 DEF r, s
  <2>2. \A e \in Drivers : drv'[e].active = drv[e].active
    BY <1>5, <1>6 DEF r, s
  <2>3. \A e \in Drivers : ActiveSent(drv[e])'
    BY <1>1, <2>2 DEF ActiveSent, TicketInv, SentInv
  <2> QED
    BY <1>1, <1>8, <2>1, <2>3, MovedCalls DEF TicketInv, SentInv
<1> QED
  BY <1>19, <1>20, MovedCalls DEF TicketInv

\* Steps that touch neither tickets nor callers.
LEMMA StillKeeps ==
  ASSUME TicketInv, cl' = cl, hist' = hist, reqs' = reqs,
         \A e \in Drivers : SameTickets(drv[e], drv'[e])
  PROVE  TicketInv'
<1>3. ASSUME NEW d \in Drivers
      PROVE  /\ Pool(drv'[d]) = Pool(drv[d]) /\ Unsent(drv'[d]) = Unsent(drv[d])
             /\ Apart(drv'[d]) /\ ActiveTickets(drv'[d]) = ActiveTickets(drv[d])
  BY DEF SameTickets, Pool, Unsent, Apart, ActiveTickets, TicketInv, PoolsInv
<1>4. \A t : (Known(t)' <=> Known(t)) /\ (Wanted(t)' <=> Wanted(t)) /\ OpOf(t)' = OpOf(t)
  BY DEF Known, Wanted, Live, Ticket, OpOf
<1>5. \A d \in Drivers : Kinds(drv[d])'
  BY <1>3, <1>4 DEF Kinds, SameTickets, TicketInv, PoolsInv
<1>6. PoolsInv'
  BY <1>3, <1>4, <1>5 DEF TicketInv, PoolsInv
<1>7. SentInv'
  <2>1. \A d \in Drivers : ActiveSent(drv[d])'
    BY DEF SameTickets, ActiveSent, TicketInv, SentInv
  <2>2. \A i \in DOMAIN reqs : reqs[i] # Replay => Known(reqs[i])'
    BY DEF TicketInv, SentInv, Known, OpOf
  <2> QED
    BY <1>3, <2>1, <2>2 DEF TicketInv, SentInv
<1>8. (\A c \in Callers : CallInv(c)') /\ AnswerIsOwn'
  BY DEF TicketInv, CallInv, AnswerIsOwn, OpOf, Ticket
<1> QED
  BY <1>6, <1>7, <1>8 DEF TicketInv

\* shutdown_driver only raises a flag.
LEMMA DisconnectKeeps ==
  ASSUME IInv, TicketInv, Disconnect
  PROVE  TicketInv'
<1>1. /\ slot \in Drivers /\ drv \in [Drivers -> DriverState]
      /\ drv' = [drv EXCEPT ![slot].shut = TRUE] /\ cl' = cl /\ hist' = hist /\ reqs' = reqs
  BY DEF IInv, TypeOK, Disconnect
<1>2. \A e \in Drivers : SameTickets(drv[e], drv'[e])
  BY <1>1 DEF SameTickets, DriverState
<1> QED
  BY <1>1, <1>2, StillKeeps

-----------------------------------------------------------------------------
(* The theorems *)

\* Nothing has been called and nothing is held.
LEMMA InitTickets == Init => TicketInv
<1> SUFFICES ASSUME Init PROVE TicketInv
  OBVIOUS
<1>1. \A d \in Drivers : drv[d] = FreshDriver
  BY DEF Init
<1>2. /\ FreshDriver.cmds = <<>> /\ FreshDriver.queued = <<>> /\ FreshDriver.waiters = <<>>
      /\ FreshDriver.active = None
  BY DEF FreshDriver
<1>3. Pool(FreshDriver) = {} /\ Unsent(FreshDriver) = {} /\ Apart(FreshDriver) /\ Kinds(FreshDriver)
  BY <1>2, EmptyQueue DEF Pool, Unsent, Apart, Kinds, ActiveTickets
<1>4. PoolsInv
  BY <1>1, <1>3 DEF PoolsInv
<1>5. reqs = <<>> /\ DOMAIN reqs = {}
  BY DEF Init
<1>6. SentInv
  BY <1>1, <1>2, <1>3, <1>5 DEF SentInv, ActiveSent
<1>7. \A c \in Callers : cl[c].pc = "idle" /\ hist[c] = <<>>
  BY DEF Init, IdleCaller
<1>8. (\A c \in Callers : CallInv(c)) /\ AnswerIsOwn
  BY <1>7 DEF CallInv, AnswerIsOwn
<1> QED
  BY <1>4, <1>6, <1>8 DEF TicketInv

\* Every step keeps the tickets in order.
LEMMA NextTickets == IInv /\ TicketInv /\ [Next]_vars => TicketInv'
<1> SUFFICES ASSUME IInv, TicketInv, [Next]_vars PROVE TicketInv'
  OBVIOUS
<1>0. IInv'
  BY NextIInv
<1>1. CASE UNCHANGED vars
  BY <1>1, StillKeeps DEF vars, SameTickets
<1>2. ASSUME NEW c \in Callers, CallerNext(c) PROVE TicketInv'
  BY <1>0, <1>2, CallerMoves, SendKeeps, MovesKeeps
<1>3. CASE Disconnect
  BY <1>3, DisconnectKeeps
<1>4. ASSUME NEW d \in Drivers, DriverNext(d) \/ PeerNext(d) PROVE TicketInv'
  BY <1>4, DriverServes, PeerServes, ServesKeeps
<1> QED
  BY <1>1, <1>2, <1>3, <1>4 DEF Next

\* Every reachable state: each oneshot is held in at most one place, by a
\* driver that will still answer it or for a call that was abandoned.
THEOREM TicketsInOrder == Spec => [](IInv /\ TicketInv)
<1>1. Init => IInv /\ TicketInv
  BY InitIInv, InitTickets
<1>2. (IInv /\ TicketInv) /\ [Next]_vars => (IInv /\ TicketInv)'
  BY NextIInv, NextTickets
<1> QED
  BY <1>1, <1>2, PTL DEF Spec

\* An answer given to a caller is the answer to its own request, for any
\* number of callers, drivers and requests and whatever the peer sends.
THEOREM AnswersAreOwn == Spec => []AnswerIsOwn
<1>1. IInv /\ TicketInv => AnswerIsOwn
  BY DEF TicketInv
<1> QED
  BY <1>1, TicketsInOrder, PTL

\* No submission is put on a wire twice.
THEOREM SubmissionsLeaveOnce == Spec => []SubmitAtMostOnce
<1>1. IInv /\ TicketInv => SubmitAtMostOnce
  <2> SUFFICES ASSUME IInv, TicketInv, NEW i \in DOMAIN reqs, NEW j \in DOMAIN reqs,
                      i # j, SameCall(reqs[i], reqs[j]), OpOf(reqs[i]) = Submit
               PROVE  FALSE
    BY DEF SubmitAtMostOnce
  <2>1. /\ reqs[i] \in Tickets /\ reqs[j] \in Tickets
        /\ reqs[i].who = reqs[j].who /\ reqs[i].n = reqs[j].n
    BY DEF SameCall, IInv, TypeOK
  <2>2. OpOf(reqs[j]) = Submit
    BY <2>1 DEF OpOf
  <2>3. Known(reqs[i]) /\ Known(reqs[j])
    BY DEF SameCall, TicketInv, SentInv
  <2>4. reqs[i].try = 1 /\ reqs[j].try = 1
    BY <2>1, <2>2, <2>3 DEF Known, Tickets
  <2>5. reqs[i] = reqs[j]
    BY <2>1, <2>4 DEF Tickets
  <2> QED
    BY <2>5 DEF SameCall, TicketInv, SentInv
<1> QED
  BY <1>1, TicketsInOrder, PTL

\* Callers and disconnects hand out no frame.
LEMMA CallerTook ==
  ASSUME IInv, (\E c \in Callers : CallerNext(c)) \/ Disconnect, NEW d \in Drivers
  PROVE  drv'[d].took = drv[d].took
<1>1. drv \in [Drivers -> DriverState]
  BY DEF IInv, TypeOK
<1>2. ASSUME NEW c \in Callers, NEW e \in Drivers, SpawnDriver(c, e)
      PROVE  drv'[d].took = drv[d].took
  BY <1>1, <1>2 DEF SpawnDriver, DriverState
<1>3. ASSUME NEW c \in Callers, SendCommand(c)
      PROVE  drv'[d].took = drv[d].took
  BY <1>1, <1>3 DEF SendCommand, DriverState
<1>4. CASE Disconnect
  BY <1>1, <1>4 DEF Disconnect, DriverState
<1>5. ASSUME NEW c \in Callers, CallerNext(c)
      PROVE  drv'[d].took = drv[d].took
  <2>1. \/ drv' = drv \/ SendCommand(c) \/ \E e \in Drivers : SpawnDriver(c, e)
    BY <1>5 DEF CallerNext, Begin, ReuseDriver, SendToClosed, Retry, Finish, Cancel
  <2> QED
    BY <1>2, <1>3, <2>1
<1> QED
  BY <1>4, <1>5

\* A frame is lost only to a request whose caller gave it up.
THEOREM FramesReachCallers == Spec => FrameLostOnlyToCancelled
<1>1. IInv /\ TicketInv /\ [Next]_vars => [\A d \in Drivers : FrameReaches(d)]_vars
  <2> SUFFICES ASSUME IInv, TicketInv, Next, NEW d \in Drivers, drv'[d].took > drv[d].took
               PROVE  FrameReaches(d)
    BY DEF FrameReaches
  <2>1. drv[d].took \in Nat
    BY DEF IInv, TypeOK, DriverState
  <2>2. PICK e \in Drivers : Serves(e)
    BY <2>1, CallerTook, DriverServes, PeerServes DEF Next
  <2>3. e = d
    BY <2>1, <2>2 DEF Serves
  <2>4. CASE \E c \in Callers : cl[c].pc = "wait" /\ cl'[c].pc = "got" /\ cl'[c].res = Ok(drv'[d].took)
    BY <2>4 DEF FrameReaches
  <2>5. CASE /\ drv[d].cmds # <<>> /\ drv'[d].cmds = Tail(drv[d].cmds)
             /\ ~Live(Head(drv[d].cmds))
    <3>1. drv[d].cmds \in Seq(Tickets)
      BY DEF IInv, TypeOK, DriverState
    <3>2. Head(drv[d].cmds) \in Pool(drv[d])
      BY <2>5, <3>1, TailQueue DEF Pool
    <3>3. Wanted(Head(drv[d].cmds))
      BY <3>2 DEF TicketInv, PoolsInv
    <3> QED
      BY <2>5, <3>3 DEF Wanted, FrameReaches
  <2> QED
    BY <2>2, <2>3, <2>4, <2>5 DEF Serves, HandsOut
<1> QED
  BY <1>1, TicketsInOrder, PTL DEF Spec, FrameLostOnlyToCancelled

-----------------------------------------------------------------------------
(* The refinement: the requests of the drivers are the service's log *)

Wire == [i \in DOMAIN reqs |-> CallOf(reqs[i])]

WireItems == [who : Callers, n : Nat] \cup {Replay}

\* A ticket appended to the requests is its call appended to the log.
LEMMA WireGrows ==
  ASSUME IInv, NEW x \in Tickets \cup {Replay}, reqs' = Append(reqs, x)
  PROVE  Wire' = Append(Wire, CallOf(x))
<1>1. reqs \in Seq(Tickets \cup {Replay})
  BY DEF IInv, TypeOK
<1>2. \A y \in Tickets \cup {Replay} : CallOf(y) \in WireItems
  BY DEF CallOf, WireItems, Tickets
<1>3. /\ Len(reqs) \in Nat /\ DOMAIN reqs = 1..Len(reqs) /\ DOMAIN reqs' = 1..(Len(reqs) + 1)
      /\ \A i \in 1..Len(reqs) : reqs'[i] = reqs[i] /\ reqs[i] \in Tickets \cup {Replay}
      /\ reqs'[Len(reqs) + 1] = x
  BY <1>1, AppendProperties, LenProperties
<1>4. Wire \in Seq(WireItems) /\ Len(Wire) = Len(reqs) /\ \A i \in 1..Len(reqs) : Wire[i] = CallOf(reqs[i])
  <2>1. \A i \in 1..Len(reqs) : CallOf(reqs[i]) \in WireItems
    BY <1>2, <1>3
  <2>2. Wire \in [1..Len(reqs) -> WireItems]
    BY <1>3, <2>1 DEF Wire
  <2> QED
    BY <1>3, <2>2 DEF Wire
<1>5. /\ Append(Wire, CallOf(x)) \in Seq(WireItems)
      /\ Len(Append(Wire, CallOf(x))) = Len(reqs) + 1
      /\ \A i \in 1..Len(reqs) : Append(Wire, CallOf(x))[i] = CallOf(reqs[i])
      /\ Append(Wire, CallOf(x))[Len(reqs) + 1] = CallOf(x)
  BY <1>2, <1>4, AppendProperties
<1>6. Wire' = [i \in 1..(Len(reqs) + 1) |-> CallOf(reqs'[i])]
  BY <1>3 DEF Wire, CallOf
<1>7. Wire' \in Seq(WireItems) /\ Len(Wire') = Len(reqs) + 1
  <2>1. \A i \in 1..(Len(reqs) + 1) : CallOf(reqs'[i]) \in WireItems
    BY <1>2, <1>3
  <2>2. Wire' \in [1..(Len(reqs) + 1) -> WireItems] /\ Len(reqs) + 1 \in Nat
    BY <1>3, <1>6, <2>1
  <2> QED
    BY <2>2
<1>8. \A i \in 1..(Len(reqs) + 1) : Wire'[i] = Append(Wire, CallOf(x))[i]
  BY <1>3, <1>5, <1>6
<1> QED
  BY <1>5, <1>7, <1>8, SeqEqual

\* A request sent for a call was sent with a ticket of that call.
LEMMA SentTickets ==
  ASSUME IInv, NEW c \in Callers, NEW n \in Nat, NEW i \in Service!Sent(c, n)
  PROVE  i \in DOMAIN reqs /\ reqs[i] \in Tickets /\ reqs[i].who = c /\ reqs[i].n = n
<1>1. i \in DOMAIN reqs /\ CallOf(reqs[i]) = [who |-> c, n |-> n]
  BY DEF Service!Sent, Service!Call
<1>2. reqs[i] \in Tickets \cup {Replay}
  BY <1>1 DEF IInv, TypeOK
<1>3. reqs[i] # Replay
  BY <1>1, MarksAssumption DEF CallOf
<1> QED
  BY <1>1, <1>2, <1>3 DEF CallOf

\* A queued ticket may be sent: its call is undecided or abandoned, and what
\* was sent of it before was another attempt.
LEMMA QueuedMaySend ==
  ASSUME IInv, TicketInv, NEW d \in Drivers, NEW t \in Range(drv[d].queued)
  PROVE  /\ t \in Tickets /\ t.n \in DOMAIN hist[t.who]
         /\ Service!MaySend(t.who, t.n)
<1>1. /\ drv[d].queued \in Seq(Tickets) /\ t \in Pool(drv[d]) /\ t \in Unsent(drv[d])
      /\ hist \in [Callers -> Seq(CallRecord)]
  BY DEF IInv, TypeOK, DriverState, Pool, Unsent
<1>2a. t \in Tickets
  BY <1>1 DEF Range
<1>2. t \in Tickets /\ t.who \in Callers /\ t.n \in Nat /\ t.try \in 1..2
  BY <1>2a DEF Tickets
<1>3. Known(t) /\ Wanted(t) /\ OpOf(t) # NextNote /\ t \notin Range(reqs)
  BY <1>1 DEF TicketInv, PoolsInv, Kinds, SentInv
<1>4. t.n \in DOMAIN hist[t.who]
  BY <1>1, <1>2, <1>3 DEF Known
<1>5. hist[t.who][t.n].out \in {"open", "cancelled"}
  BY <1>2, <1>3 DEF Wanted, Live, Ticket, TicketInv, CallInv
<1>6. hist[t.who][t.n].op # NextNote
  BY <1>3 DEF OpOf
<1>7. ASSUME NEW i \in Service!Sent(t.who, t.n)
      PROVE  /\ i \in DOMAIN reqs /\ reqs[i] \in Tickets
             /\ reqs[i].who = t.who /\ reqs[i].n = t.n /\ reqs[i].try # t.try
             /\ hist[t.who][t.n].op # Submit
  <2>1. i \in DOMAIN reqs /\ reqs[i] \in Tickets /\ reqs[i].who = t.who /\ reqs[i].n = t.n
    BY <1>2, SentTickets
  <2>2. reqs[i].try # t.try
    <3>1. reqs[i] # t
      BY <1>3, <2>1 DEF Range
    <3> QED
      BY <1>2, <2>1, <3>1 DEF Tickets
  <2>3. Known(reqs[i])
    BY <2>1, MarksAssumption DEF TicketInv, SentInv
  <2>4. reqs[i].try = 2 \/ t.try = 2
    BY <1>2, <2>1, <2>2 DEF Tickets
  <2>5. hist[t.who][t.n].op # Submit
    BY <1>3, <2>1, <2>3, <2>4 DEF Known, OpOf
  <2> QED
    BY <2>1, <2>2, <2>5
<1>8. hist[t.who][t.n].op = Submit => Service!Sent(t.who, t.n) = {}
  BY <1>7
<1>9. ASSUME NEW i \in Service!Sent(t.who, t.n), NEW j \in Service!Sent(t.who, t.n)
      PROVE  i = j
  <2>1. reqs[i].try = reqs[j].try /\ reqs[i] \in Tickets /\ reqs[j] \in Tickets
    BY <1>2, <1>7 DEF Tickets
  <2>2. reqs[i] = reqs[j] /\ reqs[i] # Replay
    BY <1>7, <2>1, MarksAssumption DEF Tickets
  <2> QED
    BY <1>7, <2>2 DEF TicketInv, SentInv
<1> QED
  BY <1>2, <1>4, <1>5, <1>6, <1>8, <1>9 DEF Service!MaySend

\* A driver's step sends a request of the service, or none.
LEMMA ServesRefines ==
  ASSUME IInv, TicketInv, NEW d \in Drivers, Serves(d)
  PROVE  [Service!Next]_(Service!svars)
<1>1. hist' = hist
  BY DEF Serves
<1>2. CASE reqs' = reqs
  BY <1>1, <1>2 DEF Service!svars, CallOf
<1>3. CASE reqs' = Append(reqs, Replay)
  <2>1. Wire' = Append(Wire, Replay)
    BY <1>3, WireGrows DEF CallOf
  <2>2. Service!Resubscribe
    BY <1>1, <2>1 DEF Service!Resubscribe, Wire
  <2> QED
    BY <2>2 DEF Service!Next
<1>4. ASSUME NEW t \in Range(drv[d].queued), reqs' = Append(reqs, t)
      PROVE  Service!Next
  <2>1. t \in Tickets /\ t.n \in DOMAIN hist[t.who] /\ Service!MaySend(t.who, t.n)
    BY QueuedMaySend
  <2>2. t.who \in Callers /\ CallOf(t) = Service!Call(t.who, t.n)
    BY <2>1, MarksAssumption DEF Tickets, CallOf, Service!Call
  <2>3. Wire' = Append(Wire, Service!Call(t.who, t.n))
    BY <1>4, <2>1, <2>2, WireGrows
  <2>4. Service!Transmit(t.who, t.n)
    BY <1>1, <2>1, <2>3 DEF Service!Transmit, Wire
  <2> QED
    BY <2>1, <2>2, <2>4 DEF Service!Next
<1> QED
  BY <1>2, <1>3, <1>4 DEF Serves, Sends

\* A caller's step begins a call of the service, ends one, or does nothing
\* the service knows of.
LEMMA CallerRefines ==
  ASSUME IInv, TicketInv, NEW c \in Callers, CallerNext(c)
  PROVE  [Service!Next]_(Service!svars)
<1>1. CASE hist' = hist /\ reqs' = reqs
  BY <1>1 DEF Service!svars, CallOf
<1>2. reqs' = reqs => Wire' = Wire
  BY DEF Wire, CallOf
<1>3. hist[c] \in Seq(CallRecord)
  BY DEF IInv, TypeOK
<1>4. ASSUME NEW op \in Ops[c], Begin(c, op)
      PROVE  Service!Next
  <2>1. cl[c].pc = "idle" /\ reqs' = reqs
    BY <1>4 DEF Begin
  <2>2. ~Service!Open(c)
    BY <2>1 DEF Service!Open, Service!Current, TicketInv, CallInv
  <2>3. Service!Begin(c, op)
    BY <1>2, <1>4, <2>1, <2>2 DEF Begin, Service!Begin, Wire
  <2> QED
    BY <2>3 DEF Service!Next
<1>5. cl[c].pc # "idle" => Service!Open(c)
  BY DEF Service!Open, Service!Current, TicketInv, CallInv
<1>6. ASSUME NEW out, Return(c, out), reqs' = reqs, cl[c].pc # "idle"
      PROVE  Service!Close(c, out)
  BY <1>2, <1>5, <1>6 DEF Return, Service!Close, Service!Current, Wire
<1>7. CASE Cancel(c)
  <2>1. Service!Abandon(c)
    BY <1>6, <1>7 DEF Cancel, Service!Abandon
  <2> QED
    BY <2>1 DEF Service!Next
<1>8. CASE Finish(c) /\ cl[c].res.kind # "ok"
  <2>1. Service!Fail(c)
    BY <1>6, <1>8 DEF Finish, Service!Fail
  <2> QED
    BY <2>1 DEF Service!Next
<1>9. CASE Finish(c) /\ cl[c].res.kind = "ok"
  <2>1. Service!Close(c, "ok") /\ Service!Open(c)
    BY <1>5, <1>6, <1>9 DEF Finish
  <2>2. ASSUME hist[c][Len(hist[c])].op # NextNote
        PROVE  Service!Sent(c, Len(hist[c])) # {}
    <3>1. /\ cl[c].res.id \in DOMAIN reqs /\ reqs[cl[c].res.id] = Ticket(c)
      BY <1>9, <2>2 DEF Finish, TicketInv, AnswerIsOwn, OpOf, Ticket
    <3>2. Ticket(c) \in Tickets
      BY <1>3 DEF Ticket, Tickets, IInv, TypeOK, CallerState
    <3>3. CallOf(Ticket(c)) = [who |-> c, n |-> Len(hist[c])]
      BY <3>2, MarksAssumption DEF CallOf, Ticket
    <3>4. cl[c].res.id \in Service!Sent(c, Len(hist[c]))
      BY <3>1, <3>3 DEF Service!Sent, Service!Call
    <3> QED
      BY <3>4
  <2>3. Service!Succeed(c)
    BY <2>1, <2>2 DEF Service!Succeed, Service!Current
  <2> QED
    BY <2>3 DEF Service!Next
<1>10. \/ hist' = hist /\ reqs' = reqs
       \/ (\E op \in Ops[c] : Begin(c, op)) \/ Finish(c) \/ Cancel(c)
  BY DEF CallerNext, ReuseDriver, SpawnDriver, SendCommand, SendToClosed, Retry
<1> QED
  BY <1>1, <1>4, <1>7, <1>8, <1>9, <1>10

\* The transport implements the service: each call is sent a bounded number
\* of times and only while it is undecided or abandoned, and it succeeds only
\* after it was sent, whatever becomes of drivers and sockets.
THEOREM TransportRefinesService == Spec => ImplementsService
<1>1. Init => Service!Init
  <2> SUFFICES ASSUME Init PROVE Service!Init
    OBVIOUS
  <2>1. reqs = <<>> /\ hist = [c \in Callers |-> <<>>]
    BY DEF Init
  <2>2. [i \in DOMAIN reqs |-> CallOf(reqs[i])] = <<>>
    BY <2>1
  <2> QED
    BY <2>1, <2>2 DEF Service!Init
<1>2. IInv /\ TicketInv /\ [Next]_vars => [Service!Next]_(Service!svars)
  <2> SUFFICES ASSUME IInv, TicketInv, [Next]_vars
               PROVE  [Service!Next]_(Service!svars)
    OBVIOUS
  <2>1. CASE UNCHANGED vars
    BY <2>1 DEF vars, Service!svars, CallOf
  <2>2. CASE Disconnect
    BY <2>2 DEF Disconnect, Service!svars, CallOf
  <2>3. ASSUME NEW c \in Callers, CallerNext(c)
        PROVE  [Service!Next]_(Service!svars)
    BY <2>3, CallerRefines
  <2>4. ASSUME NEW d \in Drivers, DriverNext(d) \/ PeerNext(d)
        PROVE  [Service!Next]_(Service!svars)
    BY <2>4, DriverServes, PeerServes, ServesRefines
  <2> QED
    BY <2>1, <2>2, <2>3, <2>4 DEF Next
<1> QED
  BY <1>1, <1>2, TicketsInOrder, PTL DEF Spec, ImplementsService, Service!Spec
=============================================================================
