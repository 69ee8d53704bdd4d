------------------------------- MODULE Portal -------------------------------
(***************************************************************************)
(* The native KaspaPortal: how KaspaPortalBuilder::connect_resolved finds  *)
(* a node (portal/builder.rs, portal/resolved.rs), then the status of      *)
(* NetworkApi (network/facade.rs) and the live indexer bridge              *)
(* (portal/facade.rs) that application tasks start, disconnect and drop.   *)
(*                                                                         *)
(* The transport is the one of WrpcDriver, reduced to what the bridge sees *)
(* of it: whether the current driver remembers the subscription, and the   *)
(* block frames it has queued.  A block is its number.                     *)
(***************************************************************************)
EXTENDS Naturals, Sequences, FiniteSets, Functions

CONSTANTS
  Resolvers,      \* PUBLIC_RESOLVERS
  Endpoints,      \* nodes that resolvers may offer
  Clients,           \* application tasks that share the portal
  Absent,
  MaxCalls,         \* bound: calls of each application task
  MaxTasks,       \* bound: bridge tasks spawned
  MaxBlocks       \* bound: blocks the node announces

ASSUME PortalAssumption ==
  /\ MaxCalls \in Nat /\ MaxTasks \in Nat /\ MaxBlocks \in Nat
  /\ Absent \notin Endpoints /\ Absent \notin 1..MaxTasks /\ "silent" \notin Endpoints \cup {Absent}
  /\ Resolvers \cap Endpoints = {}

VARIABLES
  race,           \* first_connected
  net,            \* the transport, as the bridge sees it
  status,         \* NetworkApi::status
  tasks,          \* the bridge tasks
  bridge,         \* LiveIndexerRuntime::task
  app,            \* control state of the application tasks
  index,          \* the blocks given to the indexer
  dropped         \* the last clone of the portal is gone

portalVars == <<race, net, status, tasks, bridge, app, index, dropped>>
facadeVars == <<net, status, tasks, bridge, app, index, dropped>>

-----------------------------------------------------------------------------

Tasks == 1..MaxTasks
Blocks == 1..MaxBlocks

\* Race, with said[r]: what resolver r answered (Absent for an error), and
\* `over`: the stream of answers has returned its end.
Race ==
  [ said     : [Resolvers -> Endpoints \cup {Absent, "silent"}],
    over     : BOOLEAN,
    queued   : Seq(Endpoints),
    seen     : SUBSET Endpoints,
    failures : Seq(Endpoints \cup Resolvers),
    attempt  : Endpoints \cup {Absent},
    result   : {"racing", "connected", "failed"} ]

Net == [subs : BOOLEAN, frames : Seq(Blocks), sent : 0..MaxBlocks]

\* A spawned loop; it ends ("done") when it is aborted, or ("failed") when the
\* indexer refuses a block.
BridgeTask ==
  [ st : {"unborn", "wait", "ingest", "sleep", "done", "failed"},
    kill : BOOLEAN, block : 0..MaxBlocks ]

App ==
  [ pc : {"idle", "subscribe", "spawn", "replace", "drop", "connect"},
    task : Tasks \cup {Absent}, left : 0..MaxCalls ]

NewRace ==
  [ said |-> [r \in Resolvers |-> "silent"], over |-> FALSE, queued |-> <<>>,
    seen |-> {}, failures |-> <<>>, attempt |-> Absent, result |-> "racing" ]

PortalInit ==
  /\ race = NewRace
  /\ net = [subs |-> FALSE, frames |-> <<>>, sent |-> 0]
  /\ status = "disconnected"
  /\ tasks = [t \in Tasks |-> [st |-> "unborn", kill |-> FALSE, block |-> 0]]
  /\ bridge = Absent
  /\ app = [a \in Clients |-> [pc |-> "idle", task |-> Absent, left |-> MaxCalls]]
  /\ index = <<>> /\ dropped = FALSE

-----------------------------------------------------------------------------
(* first_connected *)

Racing == race.result = "racing"

\* The loop polls the answers: beside an attempt, or because nothing is left
\* to try.
Polling == Racing /\ (race.attempt # Absent \/ race.queued = <<>>)

PopEndpoint ==
  /\ Racing /\ race.attempt = Absent /\ race.queued # <<>>
  /\ race' = [race EXCEPT !.attempt = Head(race.queued), !.queued = Tail(@)]
  /\ UNCHANGED facadeVars

\* Mutant: an answer that arrives beside an attempt is lost.
AbsorbWhenIdle(q, x) ==
  IF x \in q.seen \/ x = Absent \/ q.attempt # Absent THEN q
  ELSE [q EXCEPT !.seen = @ \cup {x}, !.queued = Append(@, x)]

\* Race::absorb, for an endpoint.
AbsorbEndpoint(q, x) ==
  IF x \in q.seen \/ x = Absent THEN q
  ELSE [q EXCEPT !.seen = @ \cup {x}, !.queued = Append(@, x)]

Answer(r, x) ==
  /\ Polling /\ race.said[r] = "silent"
  /\ race' = [AbsorbEndpoint(race, x) EXCEPT
                !.said[r] = x, !.failures = IF x = Absent THEN Append(@, r) ELSE @]
  /\ UNCHANGED facadeVars

AnswersEnd ==
  /\ Polling /\ ~race.over /\ \A r \in Resolvers : race.said[r] # "silent"
  /\ race' = [race EXCEPT !.over = TRUE]
  /\ UNCHANGED facadeVars

AttemptFails ==
  /\ Racing /\ race.attempt # Absent
  /\ race' = [race EXCEPT !.failures = Append(@, race.attempt), !.attempt = Absent]
  /\ UNCHANGED facadeVars

\* connect_configured returned the portal, connected; the race is dropped.
AttemptOk ==
  /\ Racing /\ race.attempt # Absent
  /\ race' = [NewRace EXCEPT !.result = "connected"]
  /\ status' = "connected"
  /\ UNCHANGED <<net, tasks, bridge, app, index, dropped>>

GiveUp ==
  /\ Racing /\ race.attempt = Absent /\ race.queued = <<>> /\ race.over
  /\ race' = [race EXCEPT !.result = "failed"]
  /\ UNCHANGED facadeVars

-----------------------------------------------------------------------------
(* The portal *)

Ready(a) ==
  /\ race.result = "connected" /\ ~dropped
  /\ app[a].pc = "idle" /\ app[a].left > 0

Go(a, pc) == app' = [app EXCEPT ![a].pc = pc, ![a].left = @ - 1]
Step(a, pc) == app' = [app EXCEPT ![a].pc = pc]

Finished(t) == tasks[t].st \in {"done", "failed"}

Killed(T) == [t \in Tasks |-> IF t \in T THEN [tasks[t] EXCEPT !.kill = TRUE] ELSE tasks[t]]

\* start_live_indexer up to its await: a running bridge is left alone.
StartLive(a) ==
  /\ Ready(a)
  /\ \/ /\ bridge # Absent /\ ~Finished(bridge)
        /\ Go(a, "idle")
        /\ UNCHANGED bridge
     \/ /\ bridge # Absent => Finished(bridge)
        /\ bridge' = Absent
        /\ Go(a, "subscribe")
  /\ UNCHANGED <<race, net, status, tasks, index, dropped>>

SubscribeOk(a) ==
  /\ app[a].pc = "subscribe"
  /\ net' = [net EXCEPT !.subs = TRUE]
  /\ Step(a, "spawn")
  /\ UNCHANGED <<race, status, tasks, bridge, index, dropped>>

\* subscribe_block_added failed, or the caller dropped the future.
SubscribeFails(a) ==
  /\ app[a].pc = "subscribe"
  /\ Step(a, "idle")
  /\ UNCHANGED <<race, net, status, tasks, bridge, index, dropped>>

Spawn(a, t) ==
  /\ app[a].pc = "spawn"
  /\ tasks[t].st = "unborn" /\ \A u \in Tasks : u < t => tasks[u].st # "unborn"
  /\ tasks' = [tasks EXCEPT ![t].st = "wait"]
  /\ app' = [app EXCEPT ![a].pc = "replace", ![a].task = t]
  /\ UNCHANGED <<race, net, status, bridge, index, dropped>>

\* Mutant: the task that was in `bridge` is not aborted.
ReplaceOnly(a) ==
  /\ app[a].pc = "replace"
  /\ bridge' = app[a].task
  /\ app' = [app EXCEPT ![a].pc = "idle", ![a].task = Absent]
  /\ UNCHANGED <<race, net, status, tasks, index, dropped>>

Replace(a) ==
  /\ app[a].pc = "replace"
  /\ bridge' = app[a].task
  /\ tasks' = Killed({bridge} \ {Absent})
  /\ app' = [app EXCEPT ![a].pc = "idle", ![a].task = Absent]
  /\ UNCHANGED <<race, net, status, index, dropped>>

\* KaspaPortal::disconnect: abort, then NetworkApi::disconnect.
Abort(a) ==
  /\ Ready(a)
  /\ tasks' = Killed({bridge} \ {Absent}) /\ bridge' = Absent
  /\ Go(a, "drop")
  /\ UNCHANGED <<race, net, status, index, dropped>>

\* The driver goes, with its subscriptions and its queued frames.
ResetTransport == net' = [net EXCEPT !.subs = FALSE, !.frames = <<>>]

NetDisconnect(a) ==
  /\ app[a].pc = "drop"
  /\ ResetTransport /\ status' = "disconnected"
  /\ Step(a, "idle")
  /\ UNCHANGED <<race, tasks, bridge, index, dropped>>

\* NetworkApi::disconnect and reconnect can also be called past the portal.
NetworkDisconnect(a) ==
  /\ Ready(a)
  /\ Go(a, "drop")
  /\ UNCHANGED <<race, net, status, tasks, bridge, index, dropped>>

Connect(a) ==
  /\ Ready(a)
  /\ status' = "connecting"
  /\ Go(a, "connect")
  /\ UNCHANGED <<race, net, tasks, bridge, index, dropped>>

Reconnect(a) ==
  /\ Ready(a)
  /\ ResetTransport /\ status' = "connecting"
  /\ Go(a, "connect")
  /\ UNCHANGED <<race, tasks, bridge, index, dropped>>

\* Answered, refused, or the future is dropped.
ConnectEnds(a) ==
  /\ app[a].pc = "connect"
  /\ status' \in {"connected", "disconnected", status}
  /\ Step(a, "idle")
  /\ UNCHANGED <<race, net, tasks, bridge, index, dropped>>

\* DropPortal for LiveIndexerRuntime, once no call borrows the portal.
DropPortal ==
  /\ race.result = "connected" /\ ~dropped /\ \A a \in Clients : app[a].pc = "idle"
  /\ dropped' = TRUE
  /\ tasks' = Killed({bridge} \ {Absent}) /\ bridge' = Absent
  /\ UNCHANGED <<race, net, status, app, index>>

-----------------------------------------------------------------------------
(* The bridge tasks.  An aborted task stops at its next await point. *)

\* Only subscribed sockets carry blocks.
BlockAdded ==
  /\ net.subs /\ net.sent < MaxBlocks
  /\ net' = [net EXCEPT !.sent = @ + 1, !.frames = Append(@, net.sent + 1)]
  /\ UNCHANGED <<race, status, tasks, bridge, app, index, dropped>>

Take(t) ==
  /\ tasks[t].st = "wait" /\ ~tasks[t].kill /\ net.frames # <<>>
  /\ tasks' = [tasks EXCEPT ![t].st = "ingest", ![t].block = Head(net.frames)]
  /\ net' = [net EXCEPT !.frames = Tail(@)]
  /\ UNCHANGED <<race, status, bridge, app, index, dropped>>

\* Mutant: an error of the transport ends the loop.
WaitFailsForGood(t) ==
  /\ tasks[t].st = "wait" /\ ~tasks[t].kill /\ net.frames = <<>>
  /\ tasks' = [tasks EXCEPT ![t].st = "done"]
  /\ UNCHANGED <<race, net, status, bridge, app, index, dropped>>

\* The transport failed the wait.  It hands out queued frames first.
WaitFails(t) ==
  /\ tasks[t].st = "wait" /\ ~tasks[t].kill /\ net.frames = <<>>
  /\ tasks' = [tasks EXCEPT ![t].st = "sleep"]
  /\ UNCHANGED <<race, net, status, bridge, app, index, dropped>>

Wake(t) ==
  /\ tasks[t].st = "sleep" /\ ~tasks[t].kill
  /\ tasks' = [tasks EXCEPT ![t].st = "wait"]
  /\ UNCHANGED <<race, net, status, bridge, app, index, dropped>>

\* ingest_live_block_added
Ingest(t) ==
  /\ tasks[t].st = "ingest"
  /\ tasks' = [tasks EXCEPT ![t].st = "wait", ![t].block = 0]
  /\ index' = Append(index, tasks[t].block)
  /\ UNCHANGED <<race, net, status, bridge, app, dropped>>

IngestFails(t) ==
  /\ tasks[t].st = "ingest"
  /\ tasks' = [tasks EXCEPT ![t].st = "failed", ![t].block = 0]
  /\ UNCHANGED <<race, net, status, bridge, app, index, dropped>>

Die(t) ==
  /\ tasks[t].kill /\ tasks[t].st \in {"wait", "sleep"}
  /\ tasks' = [tasks EXCEPT ![t].st = "done"]
  /\ UNCHANGED <<race, net, status, bridge, app, index, dropped>>

-----------------------------------------------------------------------------

RaceNext ==
  \/ PopEndpoint \/ AnswersEnd \/ AttemptFails \/ AttemptOk \/ GiveUp
  \/ \E r \in Resolvers, x \in Endpoints \cup {Absent} : Answer(r, x)

AppNext(a) ==
  \/ StartLive(a) \/ SubscribeOk(a) \/ SubscribeFails(a) \/ Replace(a)
  \/ \E t \in Tasks : Spawn(a, t)
  \/ Abort(a) \/ NetworkDisconnect(a) \/ NetDisconnect(a)
  \/ Connect(a) \/ Reconnect(a) \/ ConnectEnds(a)

TaskNext(t) == Take(t) \/ WaitFails(t) \/ Wake(t) \/ Ingest(t) \/ IngestFails(t) \/ Die(t)

PortalNext ==
  \/ RaceNext \/ BlockAdded \/ DropPortal
  \/ \E a \in Clients : AppNext(a)
  \/ \E t \in Tasks : TaskNext(t)

\* Tasks are polled when they can go on, and an attempt ends by its timeouts.
\* Nothing makes a resolver answer.
PortalFairness ==
  /\ WF_portalVars(PopEndpoint) /\ WF_portalVars(AttemptFails \/ AttemptOk)
  /\ \A t \in Tasks : WF_portalVars(TaskNext(t))

PortalSpec == PortalInit /\ [][PortalNext]_portalVars /\ PortalFairness

-----------------------------------------------------------------------------
(* Properties *)

\* Every variable stays in its type.
PortalTypeOK ==
  /\ race \in Race /\ net \in Net
  /\ status \in {"disconnected", "connecting", "connected"}
  /\ tasks \in [Tasks -> BridgeTask] /\ bridge \in Tasks \cup {Absent}
  /\ app \in [Clients -> App] /\ index \in Seq(Blocks) /\ dropped \in BOOLEAN

Refused == {r \in Resolvers : race.said[r] = Absent}
Offered == {race.said[r] : r \in Resolvers} \ {Absent, "silent"}

\* connect_resolved gives up only after every resolver has answered and every
\* node offered, however its answer raced with an attempt, was tried exactly
\* once; the error it returns lists each failure once.
FailuresAreComplete ==
  race.result = "failed" =>
    /\ \A r \in Resolvers : race.said[r] # "silent"
    /\ Range(race.failures) = Refused \cup Offered
    /\ Len(race.failures) = Cardinality(Refused) + Cardinality(Offered)

Running(t) == tasks[t].st \notin {"unborn", "done", "failed"} /\ ~tasks[t].kill

\* Every bridge task that may take blocks is the one in `bridge`, or is about
\* to be put there: disconnect, drop and a second start can always stop it,
\* however start_live_indexer calls overlap.
BridgeReachable ==
  \A t \in Tasks :
    Running(t) => bridge = t \/ \E a \in Clients : app[a].pc = "replace" /\ app[a].task = t

\* A node that was offered is tried although other resolvers stay silent,
\* unless another node is connected first.
OfferedIsTried ==
  \A e \in Endpoints :
    (e \in Offered) ~> (race.result = "connected" \/ e \in Range(race.failures))

\* Once the portal is dropped, all its bridge tasks end.
DropEndsBridge ==
  dropped ~> \A t \in Tasks : tasks[t].st \in {"unborn", "done", "failed"}

\* A block queued by the transport while a bridge is installed is consumed,
\* whatever errors the transport reported before, unless the bridge is taken
\* away or the indexer refused a block.
BlocksAreConsumed ==
  \A n \in Blocks :
    (n \in Range(net.frames) /\ bridge # Absent)
      ~> (n \notin Range(net.frames) \/ bridge = Absent \/ tasks[bridge].st = "failed")

\* Connecting and the bridge run their course: all of the above.
PortalRunsItsCourse == OfferedIsTried /\ DropEndsBridge /\ BlocksAreConsumed
=============================================================================
