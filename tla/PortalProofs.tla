---------------------------- MODULE PortalProofs ----------------------------
(***************************************************************************)
(* Proofs about Portal, for any resolvers, endpoints, application tasks    *)
(* and bounds.                                                             *)
(***************************************************************************)
EXTENDS Portal, TLAPS, SequenceTheorems, FiniteSetTheorems

\* The part of the state the bridge depends on.
BridgeType ==
  /\ tasks \in [Tasks -> BridgeTask] /\ bridge \in Tasks \cup {Absent}
  /\ app \in [Clients -> App]

Bridge == BridgeType /\ BridgeReachable

IInv == net \in Net /\ Bridge

\* An empty slot is no task.
LEMMA NoneIsNoTask == Absent \notin Tasks
BY PortalAssumption DEF Tasks

\* abort on the handle in the slot.
LEMMA KilledType ==
  ASSUME tasks \in [Tasks -> BridgeTask], NEW T
  PROVE  /\ Killed(T) \in [Tasks -> BridgeTask]
         /\ \A t \in Tasks : /\ t \in T => Killed(T)[t].kill
                             /\ t \notin T => Killed(T)[t] = tasks[t]
                             /\ Killed(T)[t].st = tasks[t].st
BY DEF Killed, BridgeTask

\* The race leaves the bridge alone.
LEMMA RaceStep ==
  ASSUME IInv, RaceNext
  PROVE  Bridge'
<1>1. UNCHANGED <<tasks, bridge, app>>
  BY DEF RaceNext, PopEndpoint, AnswersEnd, AttemptFails, AttemptOk, GiveUp, Answer, facadeVars
<1> QED
  BY <1>1 DEF IInv, Bridge, BridgeType, BridgeReachable, Running

\* Steps of application tasks.
LEMMA AppStep ==
  ASSUME IInv, NEW a \in Clients, AppNext(a)
  PROVE  Bridge'
<1> USE DEF IInv, Bridge
<1>0. app[a] \in App
  BY DEF BridgeType
<1>1. CASE StartLive(a)
  <2>1. CASE bridge # Absent /\ ~Finished(bridge) /\ Go(a, "idle") /\ UNCHANGED bridge
    <3>1. app' \in [Clients -> App]
      BY <1>0, <1>1, <2>1, PortalAssumption DEF StartLive, Ready, Go, App, BridgeType
    <3>2. \A b \in Clients : app'[b].task = app[b].task /\ (app[b].pc = "replace" => app'[b].pc = "replace")
      BY <1>1, <2>1 DEF StartLive, Ready, Go, BridgeType, App
    <3> QED
      BY <1>1, <2>1, <3>1, <3>2 DEF StartLive, BridgeType, BridgeReachable, Running
  <2>2. CASE (bridge # Absent => Finished(bridge)) /\ bridge' = Absent /\ Go(a, "subscribe")
    <3>1. app' \in [Clients -> App]
      BY <1>0, <1>1, <2>2, PortalAssumption DEF StartLive, Ready, Go, App, BridgeType
    <3>2. \A b \in Clients : app'[b].task = app[b].task /\ (app[b].pc = "replace" => app'[b].pc = "replace")
      BY <1>1, <2>2 DEF StartLive, Ready, Go, BridgeType, App
    <3>3. \A t \in Tasks : Running(t) => bridge # t
      BY <2>2, NoneIsNoTask DEF Finished, Running
    <3> QED
      BY <1>1, <2>2, <3>1, <3>2, <3>3 DEF StartLive, BridgeType, BridgeReachable, Running
  <2> QED
    BY <1>1, <2>1, <2>2 DEF StartLive
<1>2. CASE SubscribeOk(a) \/ SubscribeFails(a) \/ NetDisconnect(a) \/ ConnectEnds(a)
  <2>1. app[a].pc \in {"subscribe", "drop", "connect"} /\ UNCHANGED <<tasks, bridge>>
    BY <1>2 DEF SubscribeOk, SubscribeFails, NetDisconnect, ConnectEnds
  <2>2. Step(a, "spawn") \/ Step(a, "idle")
    BY <1>2 DEF SubscribeOk, SubscribeFails, NetDisconnect, ConnectEnds
  <2>3. app' \in [Clients -> App]
    BY <1>0, <2>2 DEF Step, App, BridgeType
  <2>4. \A b \in Clients : app'[b].task = app[b].task /\ (app[b].pc = "replace" => app'[b].pc = "replace")
    BY <2>1, <2>2 DEF Step, BridgeType, App
  <2> QED
    BY <2>1, <2>3, <2>4 DEF BridgeType, BridgeReachable, Running
<1>3. CASE Connect(a) \/ Reconnect(a) \/ NetworkDisconnect(a)
  <2>1. Ready(a) /\ (Go(a, "connect") \/ Go(a, "drop")) /\ UNCHANGED <<tasks, bridge>>
    BY <1>3 DEF Connect, Reconnect, NetworkDisconnect
  <2>2. app' \in [Clients -> App]
    BY <1>0, <2>1, PortalAssumption DEF Ready, Go, App, BridgeType
  <2>3. \A b \in Clients : app'[b].task = app[b].task /\ (app[b].pc = "replace" => app'[b].pc = "replace")
    BY <2>1 DEF Ready, Go, BridgeType, App
  <2> QED
    BY <2>1, <2>2, <2>3 DEF BridgeType, BridgeReachable, Running
<1>4. CASE Replace(a)
  <2>1. app' \in [Clients -> App]
    BY <1>0, <1>4 DEF Replace, App, BridgeType
  <2>2. tasks' \in [Tasks -> BridgeTask]
    BY <1>4, KilledType DEF Replace, BridgeType
  <2>3. bridge' \in Tasks \cup {Absent}
    BY <1>0, <1>4 DEF Replace, App
  <2>4. ASSUME NEW t \in Tasks, Running(t)'
        PROVE  bridge' = t \/ \E b \in Clients : app'[b].pc = "replace" /\ app'[b].task = t
    <3>1. tasks' = Killed({bridge} \ {Absent})
      BY <1>4 DEF Replace
    <3>2. t # bridge
      BY <2>4, <3>1, KilledType, NoneIsNoTask DEF Running, BridgeType
    <3>3. Running(t)
      BY <2>4, <3>1, <3>2, KilledType DEF Running, BridgeType
    <3>4. PICK b \in Clients : app[b].pc = "replace" /\ app[b].task = t
      BY <3>2, <3>3 DEF BridgeReachable
    <3>5. CASE b = a
      BY <1>4, <3>4, <3>5 DEF Replace
    <3>6. CASE b # a
      BY <1>4, <3>4, <3>6 DEF Replace, BridgeType
    <3> QED
      BY <3>5, <3>6
  <2> QED
    BY <2>1, <2>2, <2>3, <2>4 DEF BridgeType, BridgeReachable
<1>5. ASSUME NEW t \in Tasks, Spawn(a, t)
      PROVE  Bridge'
  <2>1. app' \in [Clients -> App]
    BY <1>0, <1>5 DEF Spawn, App, BridgeType
  <2>2. tasks' \in [Tasks -> BridgeTask] /\ \A u \in Tasks \ {t} : tasks'[u] = tasks[u]
    BY <1>5 DEF Spawn, BridgeType, BridgeTask
  <2>3. app'[a].pc = "replace" /\ app'[a].task = t
    BY <1>0, <1>5 DEF Spawn, App, BridgeType
  <2>4. \A b \in Clients : app[b].pc = "replace" => app'[b] = app[b]
    BY <1>5 DEF Spawn, BridgeType
  <2> QED
    BY <1>5, <2>1, <2>2, <2>3, <2>4 DEF Spawn, BridgeType, BridgeReachable, Running
<1>6. CASE Abort(a)
  <2>1. app' \in [Clients -> App]
    BY <1>0, <1>6, PortalAssumption DEF Abort, Ready, Go, App, BridgeType
  <2>2. \A b \in Clients : app'[b].task = app[b].task /\ (app[b].pc = "replace" => app'[b].pc = "replace")
    BY <1>6 DEF Abort, Ready, Go, BridgeType, App
  <2>3. tasks' \in [Tasks -> BridgeTask] /\ tasks' = Killed({bridge} \ {Absent}) /\ bridge' = Absent
    BY <1>6, KilledType DEF Abort, BridgeType
  <2>4. \A t \in Tasks : Running(t)' => Running(t) /\ t # bridge
    BY <2>3, KilledType, NoneIsNoTask DEF Running, BridgeType
  <2> QED
    BY <2>1, <2>2, <2>3, <2>4 DEF BridgeType, BridgeReachable
<1> QED
  BY <1>1, <1>2, <1>3, <1>4, <1>5, <1>6 DEF AppNext

\* Steps of the bridge tasks start no task.
LEMMA TaskStep ==
  ASSUME IInv, NEW t \in Tasks, TaskNext(t)
  PROVE  Bridge'
<1> USE DEF IInv, Bridge
<1>1. UNCHANGED <<bridge, app>>
  BY DEF TaskNext, Take, WaitFails, Wake, Ingest, IngestFails, Die
<1>2. /\ tasks[t].st \notin {"unborn", "done", "failed"}
      /\ \A u \in Tasks \ {t} : tasks'[u] = tasks[u]
      /\ tasks'[t].kill = tasks[t].kill
  BY DEF TaskNext, Take, WaitFails, Wake, Ingest, IngestFails, Die, BridgeType, BridgeTask
<1>3. tasks' \in [Tasks -> BridgeTask]
  <2>1. CASE Take(t)
    <3>1. net.frames \in Seq(Blocks) /\ net.frames # <<>>
      BY <2>1 DEF Take, Net
    <3>2. Head(net.frames) \in Blocks
      BY <3>1
    <3>3. Head(net.frames) \in 0..MaxBlocks
      BY <3>2, PortalAssumption DEF Blocks
    <3> QED
      BY <2>1, <3>3 DEF Take, BridgeType, BridgeTask
  <2>2. CASE Ingest(t) \/ IngestFails(t)
    <3>1. 0 \in 0..MaxBlocks
      BY PortalAssumption
    <3> QED
      BY <2>2, <3>1 DEF Ingest, IngestFails, BridgeType, BridgeTask
  <2>3. CASE WaitFails(t) \/ Wake(t) \/ Die(t)
    BY <2>3 DEF WaitFails, Wake, Die, BridgeType, BridgeTask
  <2> QED
    BY <2>1, <2>2, <2>3 DEF TaskNext
<1> QED
  BY <1>1, <1>2, <1>3 DEF BridgeType, BridgeReachable, Running

\* What the bridge sees of the transport stays in its type.
LEMMA NetStep ==
  ASSUME IInv, PortalNext
  PROVE  net' \in Net
<1> USE DEF IInv
<1>1. CASE RaceNext
  BY <1>1 DEF RaceNext, PopEndpoint, AnswersEnd, AttemptFails, AttemptOk, GiveUp, Answer, facadeVars
<1>2. CASE BlockAdded
  <2>1. net.sent + 1 \in Blocks /\ net.sent + 1 \in 0..MaxBlocks /\ net.frames \in Seq(Blocks)
    BY <1>2, PortalAssumption DEF BlockAdded, Net, Blocks
  <2>2. Append(net.frames, net.sent + 1) \in Seq(Blocks)
    BY <2>1
  <2>3. \A w \in Seq(Blocks), n \in 0..MaxBlocks : [net EXCEPT !.sent = n, !.frames = w] \in Net
    BY DEF Net
  <2> QED
    BY <1>2, <2>1, <2>2, <2>3 DEF BlockAdded
<1>3. CASE DropPortal
  BY <1>3 DEF DropPortal
<1>4. ASSUME NEW a \in Clients, AppNext(a)
      PROVE  net' \in Net
  <2>1. <<>> \in Seq(Blocks)
    OBVIOUS
  <2>2. \A w \in Seq(Blocks) : [net EXCEPT !.subs = FALSE, !.frames = w] \in Net
    BY DEF Net
  <2>3. CASE NetDisconnect(a) \/ Reconnect(a)
    BY <2>1, <2>2, <2>3 DEF NetDisconnect, Reconnect, ResetTransport
  <2>4. CASE SubscribeOk(a)
    BY <2>4 DEF SubscribeOk, Net
  <2> QED
    BY <1>4, <2>3, <2>4 DEF AppNext, StartLive, SubscribeFails, Replace, Spawn, Abort, Connect, ConnectEnds, NetworkDisconnect
<1>5. ASSUME NEW t \in Tasks, TaskNext(t)
      PROVE  net' \in Net
  <2>1. CASE Take(t)
    <3>1. net.frames \in Seq(Blocks) /\ net.frames # <<>>
      BY <2>1 DEF Take, Net
    <3>2. Tail(net.frames) \in Seq(Blocks)
      BY <3>1
    <3> QED
      BY <2>1, <3>2 DEF Take, Net
  <2> QED
    BY <1>5, <2>1 DEF TaskNext, WaitFails, Wake, Ingest, IngestFails, Die
<1> QED
  BY <1>1, <1>2, <1>3, <1>4, <1>5 DEF PortalNext

\* Dropping the portal aborts the task in the slot.
LEMMA DropStep ==
  ASSUME IInv, DropPortal
  PROVE  Bridge'
<1> USE DEF IInv, Bridge
<1>1. tasks' \in [Tasks -> BridgeTask] /\ tasks' = Killed({bridge} \ {Absent}) /\ bridge' = Absent
  BY KilledType DEF DropPortal, BridgeType
<1>2. \A t \in Tasks : Running(t)' => Running(t) /\ t # bridge
  BY <1>1, KilledType, NoneIsNoTask DEF Running, BridgeType
<1> QED
  BY <1>1, <1>2 DEF DropPortal, BridgeType, BridgeReachable

\* The invariant holds before the first answer.
LEMMA InitIInv == PortalInit => IInv
<1> SUFFICES ASSUME PortalInit PROVE IInv
  OBVIOUS
<1>1. net \in Net
  <2>1. <<>> \in Seq(Blocks)
    OBVIOUS
  <2>2. \A w \in Seq(Blocks) : [subs |-> FALSE, frames |-> w, sent |-> 0] \in Net
    BY PortalAssumption DEF Net
  <2> QED
    BY <2>1, <2>2 DEF PortalInit
<1>2. BridgeType
  BY PortalAssumption DEF PortalInit, BridgeType, BridgeTask, App
<1>3. BridgeReachable
  BY DEF PortalInit, BridgeReachable, Running
<1> QED
  BY <1>1, <1>2, <1>3 DEF IInv, Bridge

\* Every step preserves it.
LEMMA NextIInv == IInv /\ [PortalNext]_portalVars => IInv'
<1> SUFFICES ASSUME IInv, [PortalNext]_portalVars PROVE IInv'
  OBVIOUS
<1>1. CASE PortalNext
  <2>1. Bridge'
    <3>1. CASE BlockAdded
      BY <3>1 DEF BlockAdded, IInv, Bridge, BridgeType, BridgeReachable, Running
    <3> QED
      BY <1>1, <3>1, RaceStep, AppStep, TaskStep, DropStep DEF PortalNext
  <2> QED
    BY <1>1, <2>1, NetStep DEF IInv
<1>2. CASE UNCHANGED portalVars
  BY <1>2 DEF portalVars, IInv, Bridge, BridgeType, BridgeReachable, Running
<1> QED
  BY <1>1, <1>2

\* However start_live_indexer, disconnect and drop overlap, and for any number
\* of callers, a bridge task that may take blocks can be stopped.
THEOREM BridgeAlwaysReachable == PortalSpec => []BridgeReachable
<1>1. IInv => BridgeReachable
  BY DEF IInv, Bridge
<1> QED
  BY <1>1, InitIInv, NextIInv, PTL DEF PortalSpec

-----------------------------------------------------------------------------
(* The race.  The failures of a lost race are complete because, until it   *)
(* ends, every answer is accounted for: refused, failed, being tried or    *)
(* queued, and never in two of these places.                               *)

\* The nodes still to be tried.
Pending == Range(race.queued) \cup ({race.attempt} \ {Absent})

RaceInv ==
  /\ race \in Race
  /\ IsInjective(race.queued) /\ IsInjective(race.failures)
  /\ race.attempt \notin Range(race.queued) /\ Pending \cap Range(race.failures) = {}
  /\ race.seen = Offered
  /\ Range(race.failures) \cup Pending = Refused \cup Offered
  /\ race.over => \A r \in Resolvers : race.said[r] # "silent"
  /\ race.result = "failed" => race.over /\ Pending = {}

LEMMA RangeAppend ==
  ASSUME NEW S, NEW w \in Seq(S), NEW x \in S, IsInjective(w), x \notin Range(w)
  PROVE  /\ Append(w, x) \in Seq(S) /\ Range(Append(w, x)) = Range(w) \cup {x}
         /\ IsInjective(Append(w, x))
<1>1. /\ Append(w, x) \in Seq(S) /\ DOMAIN w = 1..Len(w) /\ Len(w) \in Nat
      /\ DOMAIN Append(w, x) = 1..Len(w)+1 /\ Append(w, x)[Len(w)+1] = x
      /\ \A i \in 1..Len(w) : Append(w, x)[i] = w[i]
  BY AppendProperties, LenProperties
<1> DEFINE v == Append(w, x)
<1> HIDE DEF v
<1>2. /\ DOMAIN v = 1..Len(w)+1 /\ v[Len(w)+1] = x
      /\ \A i \in 1..Len(w) : v[i] = w[i]
  BY <1>1 DEF v
<1>3. \A i \in DOMAIN v : i \in DOMAIN w \/ i = Len(w)+1
  BY <1>1, <1>2
<1>4. \A i \in DOMAIN w : i \in DOMAIN v /\ v[i] = w[i]
  BY <1>1, <1>2
<1>5. Len(w)+1 \in DOMAIN v
  BY <1>1, <1>2
<1>6. Range(v) = Range(w) \cup {x}
  BY <1>2, <1>3, <1>4, <1>5 DEF Range
<1>7. IsInjective(v)
  BY <1>2, <1>3, <1>4 DEF IsInjective, Range
<1> QED
  BY <1>1, <1>6, <1>7 DEF v

LEMMA RangeTail ==
  ASSUME NEW S, NEW w \in Seq(S), w # <<>>, IsInjective(w)
  PROVE  /\ Head(w) \in S /\ Tail(w) \in Seq(S)
         /\ Range(w) = Range(Tail(w)) \cup {Head(w)} /\ Head(w) \notin Range(Tail(w))
         /\ IsInjective(Tail(w))
<1>1. Head(w) \in S /\ Tail(w) \in Seq(S) /\ Len(Tail(w)) = Len(w)-1
  BY HeadTailProperties
<1>2. Len(w) \in Nat \ {0} /\ DOMAIN w = 1..Len(w) /\ Head(w) = w[1]
  BY EmptySeq, LenProperties
<1>3. DOMAIN Tail(w) = 1..Len(w)-1
  BY <1>1, LenProperties
<1> DEFINE v == Tail(w)
<1>4. \A i \in 1..Len(w)-1 : v[i] = w[i+1]
  BY <1>1, <1>2, <1>3
<1> HIDE DEF v
<1>5. /\ \A i \in DOMAIN v : i+1 \in DOMAIN w /\ i+1 # 1 /\ v[i] = w[i+1]
      /\ \A i \in DOMAIN w : i = 1 \/ (i-1 \in DOMAIN v /\ v[i-1] = w[i])
      /\ 1 \in DOMAIN w
  BY <1>2, <1>3, <1>4 DEF v
<1>6. Range(w) = Range(v) \cup {Head(w)}
  BY <1>2, <1>5 DEF Range
<1>7. Head(w) \notin Range(v)
  BY <1>2, <1>5 DEF Range, IsInjective
<1>8. IsInjective(v)
  <2> SUFFICES ASSUME NEW i \in DOMAIN v, NEW j \in DOMAIN v, v[i] = v[j] PROVE i = j
    BY DEF IsInjective
  <2>1. i+1 = j+1 /\ i \in Int /\ j \in Int
    BY <1>2, <1>3, <1>5 DEF IsInjective, v
  <2> QED
    BY <2>1
<1> QED
  BY <1>1, <1>6, <1>7, <1>8 DEF v

LEMMA RaceInit == PortalInit => RaceInv
<1> SUFFICES ASSUME PortalInit PROVE RaceInv
  OBVIOUS
<1>1. race = NewRace /\ NewRace \in Race
  <2>1. <<>> \in Seq(Endpoints) /\ <<>> \in Seq(Endpoints \cup Resolvers)
    OBVIOUS
  <2>2. \A w \in Seq(Endpoints), v \in Seq(Endpoints \cup Resolvers) :
          [ said |-> [r \in Resolvers |-> "silent"], over |-> FALSE, queued |-> w,
            seen |-> {}, failures |-> v, attempt |-> Absent, result |-> "racing" ] \in Race
    BY DEF Race
  <2> QED
    BY <2>1, <2>2 DEF PortalInit, NewRace
<1>2. Refused = {} /\ Offered = {}
  BY <1>1, PortalAssumption DEF Refused, Offered, NewRace
<1>3. Range(<<>>) = {} /\ IsInjective(<<>>)
  BY DEF Range, IsInjective
<1> QED
  BY <1>1, <1>2, <1>3 DEF RaceInv, Pending, NewRace

\* What was said stays: only the queue, the attempt and the failures move.
LEMMA SameAnswers ==
  ASSUME race'.said = race.said
  PROVE  Refused' = Refused /\ Offered' = Offered
  BY DEF Refused, Offered

LEMMA AnswerStep ==
  ASSUME RaceInv, NEW r \in Resolvers, NEW x \in Endpoints \cup {Absent}, Answer(r, x)
  PROVE  RaceInv'
<1>0. race \in Race /\ race.said[r] = "silent" /\ race.result = "racing"
  BY DEF RaceInv, Answer, Polling, Racing
<1>1. \A e \in Endpoints : e # Absent /\ e # "silent"
  BY PortalAssumption
<1>2. r \notin Endpoints /\ Absent # "silent"
  BY PortalAssumption
<1>3. r \notin Refused /\ Offered \subseteq Endpoints /\ Refused \subseteq Resolvers
  BY <1>0, <1>2 DEF Refused, Offered, Race
<1>4. ~race.over
  BY <1>0 DEF RaceInv
<1>5. /\ race'.said = [race.said EXCEPT ![r] = x] /\ race'.over = race.over
      /\ race'.attempt = race.attempt /\ race'.result = race.result
      /\ race'.failures = IF x = Absent THEN Append(race.failures, r) ELSE race.failures
      /\ race'.seen = IF x \in race.seen \/ x = Absent THEN race.seen ELSE race.seen \cup {x}
      /\ race'.queued = IF x \in race.seen \/ x = Absent THEN race.queued ELSE Append(race.queued, x)
  BY <1>0 DEF Answer, AbsorbEndpoint, Race
<1>6. /\ Offered' = Offered \cup ({x} \ {Absent})
      /\ Refused' = Refused \cup (IF x = Absent THEN {r} ELSE {})
  <2>1. /\ race'.said[r] = x /\ \A q \in Resolvers : q # r => race'.said[q] = race.said[q]
    BY <1>0, <1>5 DEF Race
  <2>2. x # "silent"
    BY <1>1, <1>2
  <2>3. Refused' = Refused \cup (IF x = Absent THEN {r} ELSE {})
    BY <1>0, <1>2, <2>1 DEF Refused
  <2>4. Offered' \subseteq Offered \cup ({x} \ {Absent})
    BY <2>1 DEF Offered
  <2>5. Offered \subseteq Offered' /\ {x} \ {Absent} \subseteq Offered'
    BY <1>0, <2>1, <2>2 DEF Offered
  <2> QED
    BY <2>3, <2>4, <2>5
<1>7. race' = [race EXCEPT !.said = race'.said, !.failures = race'.failures,
                           !.seen = race'.seen, !.queued = race'.queued]
  BY <1>0 DEF Answer, AbsorbEndpoint, Race
<1>8. race'.said \in [Resolvers -> Endpoints \cup {Absent, "silent"}]
  BY <1>0, <1>5 DEF Race
<1>9. CASE x = Absent
  <2>1. r \notin Range(race.failures)
    BY <1>2, <1>3 DEF RaceInv
  <2>2. race.failures \in Seq(Endpoints \cup Resolvers) /\ r \in Endpoints \cup Resolvers
    BY <1>0 DEF Race
  <2>3. /\ Append(race.failures, r) \in Seq(Endpoints \cup Resolvers)
        /\ Range(Append(race.failures, r)) = Range(race.failures) \cup {r}
        /\ IsInjective(Append(race.failures, r))
    BY <2>1, <2>2, RangeAppend DEF RaceInv
  <2>4. /\ race'.failures = Append(race.failures, r) /\ race'.seen = race.seen
        /\ race'.queued = race.queued
    BY <1>5, <1>9
  <2>5. race' \in Race
    BY <1>0, <1>7, <1>8, <2>3, <2>4 DEF Race
  <2>6. Pending' = Pending /\ r \notin Pending
    <3>1. Pending \subseteq Endpoints \cup {Absent} /\ Absent \notin Pending
      <4>1. Range(race.queued) \subseteq Endpoints
        BY <1>0 DEF Race, Range
      <4> QED
        BY <1>0, <1>1, <4>1 DEF Pending, Race
    <3> QED
      BY <1>2, <1>5, <2>4, <3>1 DEF Pending
  <2> QED
    BY <1>0, <1>4, <1>5, <1>6, <1>9, <2>3, <2>4, <2>5, <2>6 DEF RaceInv
<1>10. CASE x # Absent /\ x \in race.seen
  <2>1. /\ race'.failures = race.failures /\ race'.seen = race.seen /\ race'.queued = race.queued
    BY <1>5, <1>10
  <2>2. race' \in Race
    BY <1>0, <1>7, <1>8, <2>1 DEF Race
  <2>3. Offered' = Offered /\ Refused' = Refused /\ Pending' = Pending
    BY <1>5, <1>6, <1>10, <2>1 DEF RaceInv, Pending
  <2> QED
    BY <1>0, <1>4, <1>5, <2>1, <2>2, <2>3 DEF RaceInv
<1>11. CASE x # Absent /\ x \notin race.seen
  <2>1. x \in Endpoints /\ x \notin Offered /\ x \notin Refused
    BY <1>3, <1>11, PortalAssumption DEF RaceInv
  <2>2. x \notin Range(race.failures) /\ x \notin Pending
    BY <2>1 DEF RaceInv
  <2>3. race.queued \in Seq(Endpoints) /\ x \notin Range(race.queued) /\ x # race.attempt
    BY <1>0, <1>11, <2>2 DEF Race, Pending
  <2>4. /\ Append(race.queued, x) \in Seq(Endpoints)
        /\ Range(Append(race.queued, x)) = Range(race.queued) \cup {x}
        /\ IsInjective(Append(race.queued, x))
    BY <2>1, <2>3, RangeAppend DEF RaceInv
  <2>5. /\ race'.failures = race.failures /\ race'.seen = race.seen \cup {x}
        /\ race'.queued = Append(race.queued, x)
    BY <1>5, <1>11
  <2>6. race' \in Race
    BY <1>0, <1>7, <1>8, <2>1, <2>4, <2>5 DEF Race
  <2>7. Pending' = Pending \cup {x}
    BY <1>5, <2>4, <2>5 DEF Pending
  <2>8. Offered' = Offered \cup {x} /\ Refused' = Refused
    BY <1>6, <1>11
  <2> QED
    BY <1>0, <1>4, <1>5, <2>2, <2>3, <2>4, <2>5, <2>6, <2>7, <2>8 DEF RaceInv
<1> QED
  BY <1>9, <1>10, <1>11

LEMMA RaceInvStep == RaceInv /\ [PortalNext]_portalVars => RaceInv'
<1> SUFFICES ASSUME RaceInv, [PortalNext]_portalVars PROVE RaceInv'
  OBVIOUS
<1>0. race \in Race
  BY DEF RaceInv
<1>1. CASE race' = race
  BY <1>1 DEF RaceInv, Pending, Refused, Offered
<1>2. CASE PopEndpoint
  <2>1. race.queued \in Seq(Endpoints) /\ race.queued # <<>> /\ race.attempt = Absent
    BY <1>0, <1>2 DEF PopEndpoint, Race
  <2>2. /\ Head(race.queued) \in Endpoints /\ Tail(race.queued) \in Seq(Endpoints)
        /\ Range(race.queued) = Range(Tail(race.queued)) \cup {Head(race.queued)}
        /\ Head(race.queued) \notin Range(Tail(race.queued)) /\ IsInjective(Tail(race.queued))
    BY <2>1, RangeTail DEF RaceInv
  <2>3. /\ race' = [race EXCEPT !.attempt = Head(race.queued), !.queued = Tail(race.queued)]
        /\ race.result = "racing"
    BY <1>2 DEF PopEndpoint, Racing
  <2>4. /\ race' \in Race /\ race'.said = race.said /\ race'.over = race.over
        /\ race'.seen = race.seen /\ race'.failures = race.failures /\ race'.result = race.result
        /\ race'.attempt = Head(race.queued) /\ race'.queued = Tail(race.queued)
    BY <1>0, <2>2, <2>3 DEF Race
  <2>5. Pending' = Pending
    BY <2>1, <2>2, <2>4, PortalAssumption DEF Pending
  <2> QED
    BY <2>2, <2>3, <2>4, <2>5, SameAnswers DEF RaceInv
<1>3. CASE AnswersEnd
  <2>1. /\ race' = [race EXCEPT !.over = TRUE] /\ race.result = "racing"
        /\ \A r \in Resolvers : race.said[r] # "silent"
    BY <1>3 DEF AnswersEnd, Polling, Racing
  <2>2. /\ race' \in Race /\ race'.said = race.said /\ race'.seen = race.seen
        /\ race'.failures = race.failures /\ race'.result = race.result
        /\ race'.attempt = race.attempt /\ race'.queued = race.queued
    BY <1>0, <2>1 DEF Race
  <2>3. Pending' = Pending
    BY <2>2 DEF Pending
  <2> QED
    BY <2>1, <2>2, <2>3, SameAnswers DEF RaceInv
<1>4. CASE AttemptFails
  <2>1. race.attempt \in Endpoints /\ race.attempt # Absent
    BY <1>0, <1>4 DEF AttemptFails, Race
  <2>2. race.attempt \in Pending /\ race.attempt \notin Range(race.failures)
    BY <2>1 DEF Pending, RaceInv
  <2>3. race.failures \in Seq(Endpoints \cup Resolvers) /\ race.attempt \in Endpoints \cup Resolvers
    BY <1>0, <2>1 DEF Race
  <2>4. /\ Append(race.failures, race.attempt) \in Seq(Endpoints \cup Resolvers)
        /\ Range(Append(race.failures, race.attempt)) = Range(race.failures) \cup {race.attempt}
        /\ IsInjective(Append(race.failures, race.attempt))
    BY <2>2, <2>3, RangeAppend DEF RaceInv
  <2>5. /\ race' = [race EXCEPT !.failures = Append(race.failures, race.attempt), !.attempt = Absent]
        /\ race.result = "racing"
    BY <1>4 DEF AttemptFails, Racing
  <2>6. /\ race' \in Race /\ race'.said = race.said /\ race'.over = race.over
        /\ race'.seen = race.seen /\ race'.result = race.result /\ race'.queued = race.queued
        /\ race'.attempt = Absent /\ race'.failures = Append(race.failures, race.attempt)
    BY <1>0, <2>4, <2>5 DEF Race
  <2>7. Pending' = Pending \ {race.attempt} /\ Absent \notin Range(race.queued)
    <3>1. Range(race.queued) \subseteq Endpoints
      BY <1>0 DEF Race, Range
    <3> QED
      BY <2>6, <3>1, PortalAssumption DEF Pending, RaceInv
  <2> QED
    BY <2>2, <2>4, <2>5, <2>6, <2>7, SameAnswers DEF RaceInv
<1>5. CASE AttemptOk
  <2>1. race' = [NewRace EXCEPT !.result = "connected"]
    BY <1>5 DEF AttemptOk
  <2>2. /\ race'.said = [r \in Resolvers |-> "silent"] /\ race'.over = FALSE /\ race'.queued = <<>>
        /\ race'.seen = {} /\ race'.failures = <<>> /\ race'.attempt = Absent
        /\ race'.result = "connected"
    BY <2>1 DEF NewRace
  <2>3. race' \in Race
    <3>1. <<>> \in Seq(Endpoints) /\ <<>> \in Seq(Endpoints \cup Resolvers)
      OBVIOUS
    <3>2. \A w \in Seq(Endpoints), v \in Seq(Endpoints \cup Resolvers) :
            [ said |-> [r \in Resolvers |-> "silent"], over |-> FALSE, queued |-> w,
              seen |-> {}, failures |-> v, attempt |-> Absent, result |-> "connected" ] \in Race
      BY DEF Race
    <3>3. race' = [ said |-> [r \in Resolvers |-> "silent"], over |-> FALSE, queued |-> <<>>,
                    seen |-> {}, failures |-> <<>>, attempt |-> Absent, result |-> "connected" ]
      BY <2>1 DEF NewRace
    <3> QED
      BY <3>1, <3>2, <3>3
  <2>4. Refused' = {} /\ Offered' = {}
    BY <2>2, PortalAssumption DEF Refused, Offered
  <2>5. Range(<<>>) = {} /\ IsInjective(<<>>)
    BY DEF Range, IsInjective
  <2> QED
    BY <2>2, <2>3, <2>4, <2>5 DEF RaceInv, Pending
<1>6. CASE GiveUp
  <2>1. /\ race' = [race EXCEPT !.result = "failed"]
        /\ race.attempt = Absent /\ race.queued = <<>> /\ race.over
    BY <1>6 DEF GiveUp
  <2>2. /\ race' \in Race /\ race'.said = race.said /\ race'.seen = race.seen
        /\ race'.failures = race.failures /\ race'.over = race.over
        /\ race'.attempt = race.attempt /\ race'.queued = race.queued
    BY <1>0, <2>1 DEF Race
  <2>3. Pending' = Pending /\ Pending = {}
    BY <2>1, <2>2 DEF Pending, Range
  <2> QED
    BY <2>1, <2>2, <2>3, SameAnswers DEF RaceInv
<1>7. ASSUME NEW r \in Resolvers, NEW x \in Endpoints \cup {Absent}, Answer(r, x) PROVE RaceInv'
  BY <1>7, AnswerStep
<1>8. CASE BlockAdded \/ DropPortal
  BY <1>1, <1>8 DEF BlockAdded, DropPortal
<1>9. ASSUME NEW a \in Clients, AppNext(a) PROVE race' = race
  BY <1>9 DEF AppNext, StartLive, SubscribeOk, SubscribeFails, Spawn, Replace, Abort,
              NetworkDisconnect, NetDisconnect, Connect, Reconnect, ConnectEnds
<1>10. ASSUME NEW t \in Tasks, TaskNext(t) PROVE race' = race
  BY <1>10 DEF TaskNext, Take, WaitFails, Wake, Ingest, IngestFails, Die
<1>11. CASE RaceNext
  BY <1>2, <1>3, <1>4, <1>5, <1>6, <1>7, <1>11 DEF RaceNext
<1> QED
  BY <1>1, <1>8, <1>9, <1>10, <1>11 DEF PortalNext, portalVars

\* The length of a list without repetitions is the number of its members.
LEMMA InjectiveLength ==
  ASSUME NEW S, NEW w \in Seq(S), IsInjective(w)
  PROVE  IsFiniteSet(Range(w)) /\ Cardinality(Range(w)) = Len(w)
<1>1. Len(w) \in Nat /\ DOMAIN w = 1..Len(w) /\ w \in [1..Len(w) -> Range(w)]
  BY LenProperties DEF Range
<1>2. w \in Bijection(1..Len(w), Range(w))
  BY <1>1 DEF Bijection, Injection, Surjection, IsInjective, Range
<1>3. ExistsBijection(1..Len(w), Range(w))
  BY <1>2 DEF ExistsBijection
<1> QED
  BY <1>1, <1>3, FS_CountingElements, FS_NatBijection

\* first_connected gives up only after every resolver answered and every node
\* offered was tried, and its error tells each failure once, for any number of
\* resolvers and nodes and however their answers race with the attempts.
THEOREM LostRaceIsComplete == PortalSpec => []FailuresAreComplete
<1>1. RaceInv => FailuresAreComplete
  <2> SUFFICES ASSUME RaceInv, race.result = "failed"
               PROVE  /\ \A r \in Resolvers : race.said[r] # "silent"
                      /\ Range(race.failures) = Refused \cup Offered
                      /\ Len(race.failures) = Cardinality(Refused) + Cardinality(Offered)
    BY DEF FailuresAreComplete
  <2>1. /\ \A r \in Resolvers : race.said[r] # "silent"
        /\ Range(race.failures) = Refused \cup Offered
    BY DEF RaceInv
  <2>2. race.failures \in Seq(Endpoints \cup Resolvers) /\ IsInjective(race.failures)
    BY DEF RaceInv, Race
  <2>3. /\ IsFiniteSet(Range(race.failures))
        /\ Cardinality(Range(race.failures)) = Len(race.failures)
    BY <2>2, InjectiveLength
  <2>4. IsFiniteSet(Refused) /\ IsFiniteSet(Offered)
    BY <2>1, <2>3, FS_Subset
  <2>5. Refused \cap Offered = {}
    <3>1. Offered \subseteq Endpoints /\ Refused \subseteq Resolvers
      BY DEF Offered, Refused, RaceInv, Race
    <3> QED
      BY <3>1, PortalAssumption
  <2>6. Cardinality(Refused \cup Offered)
          = Cardinality(Refused) + Cardinality(Offered) - Cardinality(Refused \cap Offered)
    BY <2>4, FS_Union
  <2>7. /\ Cardinality(Refused \cap Offered) = 0
        /\ Cardinality(Refused) \in Nat /\ Cardinality(Offered) \in Nat
    BY <2>4, <2>5, FS_EmptySet, FS_CardinalityType
  <2> QED
    BY <2>1, <2>3, <2>6, <2>7
<1> QED
  BY <1>1, RaceInit, RaceInvStep, PTL DEF PortalSpec
=============================================================================
