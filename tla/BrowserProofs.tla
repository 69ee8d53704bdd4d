--------------------------- MODULE BrowserProofs ---------------------------
(***************************************************************************)
(* Proofs about Browser, for any number of tasks, sockets, frames and      *)
(* calls: the slot names a registered socket, what a call that timed out   *)
(* was told about its request is true, and a reader gets every frame in    *)
(* order.                                                                  *)
(***************************************************************************)
EXTENDS Browser, TLAPS, SequenceTheorems

-----------------------------------------------------------------------------
(* The slot.                                                               *)

\* The key in the slot names a registered socket: subscribe_on registers a
\* socket before it fills the slot, and next_on and close_on empty the slot
\* when they take a socket out.
THEOREM SlotStaysRegistered == Spec => []SlotIsRegistered
<1>1. Init => SlotIsRegistered
  BY DEF Init, SlotIsRegistered
<1>2. SlotIsRegistered /\ [Next]_vars => SlotIsRegistered'
  <2> SUFFICES ASSUME SlotIsRegistered, [Next]_vars PROVE SlotIsRegistered'
    OBVIOUS
  <2>1. CASE UNCHANGED vars
    BY <2>1 DEF vars, SlotIsRegistered
  <2>2. ASSUME NEW a \in Apps, SubscribeOnSlot(a) \/ SubscribeOpens(a) PROVE SlotIsRegistered'
    BY <2>2 DEF SubscribeOnSlot, SubscribeOpens, SlotIsRegistered
  <2>3. ASSUME NEW a \in Apps, ResumeSubscribe(a) PROVE SlotIsRegistered'
    BY <2>3 DEF ResumeSubscribe, SlotIsRegistered
  <2>4. ASSUME NEW a, NEW t, NEW s, Poll(a, t, s) PROVE SlotIsRegistered'
    BY <2>4 DEF Poll, NextFails, NextReturns, NextWaits, SlotIsRegistered
  <2>5. ASSUME NEW a \in Apps, NextOn(a) \/ ResumeNext(a) PROVE SlotIsRegistered'
    BY <2>4, <2>5 DEF NextOn, ResumeNext, SlotIsRegistered
  <2>6. ASSUME NEW a \in Apps,
               \/ StartCall(a) \/ CallOpened(a) \/ CallMessage(a)
               \/ CallBroken(a) \/ CallTimeout(a) \/ ResumeCall(a) \/ Drop(a)
        PROVE  SlotIsRegistered'
    BY <2>6 DEF StartCall, CallOpened, CallMessage, CallBroken, CallTimeout, ResumeCall, Drop,
                Complete, callVars, SlotIsRegistered
  <2>7. ASSUME NEW s \in Sockets, Opened(s) \/ OpenFailed(s) \/ Message(s) \/ PeerCloses(s)
        PROVE  SlotIsRegistered'
    BY <2>7 DEF Opened, OpenFailed, Decide, Message, PeerCloses, SlotIsRegistered
  <2>8. CASE Disconnect
    BY <2>8 DEF Disconnect, SlotIsRegistered
  <2> QED
    BY <2>1, <2>2, <2>3, <2>5, <2>6, <2>7, <2>8 DEF Next
<1> QED
  BY <1>1, <1>2, PTL DEF Spec

-----------------------------------------------------------------------------
(* Requests.  TimeoutIsTold speaks of what a task was told after its call  *)
(* returned; to be inductive it must also speak of the result that waits   *)
(* in the cell, of the callbacks, which live exactly as long as the call,  *)
(* and of the continuation, due exactly when there is a result: no event   *)
(* comes between the two, so the result that was set is the one taken.     *)

\* An outcome and whether the request was sent do not contradict each other.
Honest(outcome, sent) ==
  /\ outcome = "connect_timeout" => ~sent
  /\ outcome \in {"response_timeout", "answer"} => sent

RequestOf(t, c) ==
  /\ t.pc = "call" <=> c.handled
  /\ t.pc = "call" => (t.woken <=> c.result # "nothing")
  /\ t.pc = "call" => Honest(c.result, c.sent)
  /\ t.pc # "idle" => t.told = "nothing"
  /\ Honest(t.told, c.sent)

Typed == task \in [Apps -> Task] /\ call \in [Apps -> Call]

SlotTyped == slot \in Sockets \cup {None}

RequestInv == Typed /\ \A a \in Apps : RequestOf(task[a], call[a])

LEMMA RequestInit == BrowserAssumption /\ Init => RequestInv
<1> SUFFICES ASSUME BrowserAssumption, Init PROVE RequestInv
  OBVIOUS
<1>1. Typed
  BY DEF BrowserAssumption, Init, Typed, Task, Call, Outcomes, NoCall
<1>2. ASSUME NEW a \in Apps PROVE RequestOf(task[a], call[a])
  BY DEF Init, RequestOf, Honest, NoCall
<1> QED
  BY <1>1, <1>2 DEF RequestInv

\* A step changes the task and the request of one application task.
LEMMA OneTask ==
  ASSUME RequestInv, NEW a \in Apps, NEW t \in Task, NEW c \in Call, RequestOf(t, c),
         task' = [task EXCEPT ![a] = t], call' = [call EXCEPT ![a] = c]
  PROVE  RequestInv'
  BY DEF RequestInv, Typed

\* The task changes and its request does not: neither before nor after is it
\* inside a call.
LEMMA OutsideCall ==
  ASSUME RequestInv, NEW a \in Apps, NEW t \in Task, task[a].pc # "call", t.pc # "call",
         t.pc # "idle" => t.told = "nothing",
         t.told \notin {"connect_timeout", "response_timeout", "answer"},
         task' = [task EXCEPT ![a] = t], call' = call
  PROVE  RequestInv'
<1>1. call[a] \in Call /\ call = [call EXCEPT ![a] = call[a]]
  BY DEF RequestInv, Typed
<1>2. RequestOf(t, call[a])
  BY DEF RequestInv, RequestOf, Honest
<1> QED
  BY <1>1, <1>2, OneTask

\* Starts, Returns and Waits give task records.
LEMMA StartsTask ==
  ASSUME NEW t \in Task, t.calls > 0
  PROVE  Starts(t) \in Task /\ Starts(t).pc = t.pc /\ Starts(t).told = "nothing"
<1>1. PICK n \in Nat : n = t.calls - 1
  BY DEF Task
<1>2. Starts(t) = [t EXCEPT !.calls = n, !.told = "nothing"]
  BY <1>1 DEF Starts
<1>3. "nothing" \in Outcomes
  BY DEF Outcomes
<1> QED
  BY <1>2, <1>3 DEF Task

LEMMA ReturnsTask ==
  ASSUME NEW t \in Task, NEW o \in Outcomes
  PROVE  Returns(t, o) \in Task /\ Returns(t, o).pc = "idle" /\ Returns(t, o).told = o
  BY DEF Task, Returns

LEMMA WaitsTask ==
  ASSUME NEW t \in Task, NEW pc \in {"open", "wait", "call"}, NEW s \in Sockets \cup {None}
  PROVE  /\ Waits(t, pc, s) \in Task /\ Waits(t, pc, s).pc = pc
         /\ Waits(t, pc, s).told = t.told /\ Waits(t, pc, s).woken = FALSE
  BY DEF Task, Waits

\* A task outside a call returns from what it waits for, or starts to wait.
LEMMA ReturnsOutside ==
  ASSUME RequestInv, NEW a \in Apps, NEW t \in Task, task[a].pc # "call", call' = call,
         NEW o \in {"nothing", "ok", "failed", "frame", "closed", "inactive"},
         task' = [task EXCEPT ![a] = Returns(t, o)]
  PROVE  RequestInv'
<1>1. o \in Outcomes
  BY DEF Outcomes
<1>2. Returns(t, o) \in Task /\ Returns(t, o).pc = "idle" /\ Returns(t, o).told = o
  BY <1>1, ReturnsTask
<1> QED
  BY <1>2, OutsideCall

LEMMA WaitsOutside ==
  ASSUME RequestInv, NEW a \in Apps, NEW t \in Task, task[a].pc # "call", call' = call,
         t.told = "nothing", NEW pc \in {"open", "wait"}, NEW s \in Sockets \cup {None},
         task' = [task EXCEPT ![a] = Waits(t, pc, s)]
  PROVE  RequestInv'
<1>1. Waits(t, pc, s) \in Task /\ Waits(t, pc, s).pc = pc /\ Waits(t, pc, s).told = "nothing"
  <2>1. pc \in {"open", "wait", "call"}
    OBVIOUS
  <2> QED
    BY <2>1, WaitsTask, Zenon
<1>2. /\ Waits(t, pc, s).pc # "call"
      /\ Waits(t, pc, s).told \notin {"connect_timeout", "response_timeout", "answer"}
  BY <1>1
<1> DEFINE w == Waits(t, pc, s)
<1> HIDE DEF w
<1>3. /\ w \in Task /\ w.pc # "call" /\ w.told = "nothing"
      /\ w.told \notin {"connect_timeout", "response_timeout", "answer"}
      /\ task' = [task EXCEPT ![a] = w]
  BY <1>1, <1>2 DEF w
<1> QED
  BY <1>3, OutsideCall

\* Notification callbacks wake tasks that are not inside a call.
LEMMA WakesOutside ==
  ASSUME RequestInv, call' = call, NEW W, \A a \in W : task[a].pc # "call",
         task' = [a \in Apps |-> IF a \in W THEN [task[a] EXCEPT !.woken = TRUE] ELSE task[a]]
  PROVE  RequestInv'
<1>1. task' \in [Apps -> Task]
  BY DEF RequestInv, Typed, Task
<1>2. ASSUME NEW a \in Apps PROVE RequestOf(task'[a], call[a])
  <2>1. task[a] \in Task /\ RequestOf(task[a], call[a])
    BY DEF RequestInv, Typed
  <2>2. CASE a \in W
    <3>1. task'[a].pc = task[a].pc /\ task'[a].told = task[a].told /\ task[a].pc # "call"
      BY <2>1, <2>2 DEF Task
    <3> QED
      BY <2>1, <3>1 DEF RequestOf
  <2> QED
    BY <2>1, <2>2
<1> QED
  BY <1>1, <1>2 DEF RequestInv, Typed

\* An event of the request of task a whose callbacks are alive.
LEMMA CallCompletes ==
  ASSUME RequestInv, Calm, NEW a \in Apps, call[a].handled,
         NEW ws \in {"unused", "connecting", "open", "gone"}, NEW sent \in BOOLEAN, NEW outcome \in Outcomes,
         outcome # "nothing", Honest(outcome, sent), Complete(a, ws, sent, outcome)
  PROVE  RequestInv'
<1>1. /\ task[a] \in Task /\ call[a] \in Call /\ RequestOf(task[a], call[a])
  BY DEF RequestInv, Typed
<1>2. task[a].pc = "call" /\ ~task[a].woken /\ call[a].result = "nothing"
  BY <1>1 DEF RequestOf, Calm
<1> DEFINE t == [task[a] EXCEPT !.woken = TRUE]
           c == [call[a] EXCEPT !.ws = ws, !.sent = sent, !.result = outcome]
<1>3. task' = [task EXCEPT ![a] = t] /\ call' = [call EXCEPT ![a] = c]
  <2>1. task' = [task EXCEPT ![a].woken = TRUE]
    BY <1>2 DEF Complete
  <2>2. call' = [call EXCEPT ![a].ws = ws, ![a].sent = sent, ![a].result = outcome]
    BY <1>1, <1>2 DEF Complete, RequestInv, Typed
  <2> QED
    BY <1>1, <2>1, <2>2 DEF RequestInv, Typed
<1>4. t \in Task /\ c \in Call
  BY <1>1 DEF Task, Call
<1>5. /\ t.pc = "call" /\ t.woken /\ t.told = task[a].told
      /\ c.handled = call[a].handled /\ c.sent = sent /\ c.result = outcome
  BY <1>1, <1>2 DEF Task, Call
<1>6. RequestOf(t, c)
  BY <1>1, <1>2, <1>5 DEF RequestOf, Honest
<1> QED
  BY <1>3, <1>4, <1>6, OneTask

LEMMA PollStep ==
  ASSUME RequestInv, call' = call, NEW a \in Apps, NEW t \in Task, NEW s \in Sockets \cup {None},
         task[a].pc # "call", t.told = "nothing",
         Poll(a, t, s)
  PROVE  RequestInv'
<1>1. CASE \E o \in {"closed", "frame"} : task' = [task EXCEPT ![a] = Returns(t, o)]
  BY <1>1, ReturnsOutside
<1>2. CASE task' = [task EXCEPT ![a] = Waits(t, "wait", s)]
  BY <1>2, WaitsOutside
<1> QED
  BY <1>1, <1>2 DEF Poll, NextFails, NextReturns, NextWaits

LEMMA RequestStep == BrowserAssumption /\ RequestInv /\ SlotTyped /\ [Next]_vars => RequestInv'
<1> SUFFICES ASSUME RequestInv, SlotTyped, [Next]_vars PROVE RequestInv'
  OBVIOUS
<1>0. ASSUME NEW a \in Apps
      PROVE  task[a] \in Task /\ call[a] \in Call /\ RequestOf(task[a], call[a])
  BY DEF RequestInv, Typed
<1>1. CASE UNCHANGED vars
  BY <1>1 DEF vars, RequestInv, Typed
<1>2. ASSUME NEW a \in Apps, SubscribeOnSlot(a) PROVE RequestInv'
  <2>1. task[a].pc # "call" /\ call' = call /\ Starts(task[a]) \in Task
    BY <1>0, <1>2, StartsTask DEF SubscribeOnSlot, Calls
  <2>2. \E o \in {"ok", "failed"} : task' = [task EXCEPT ![a] = Returns(Starts(task[a]), o)]
    BY <1>2 DEF SubscribeOnSlot
  <2> QED
    BY <2>1, <2>2, ReturnsOutside
<1>3. ASSUME NEW a \in Apps, SubscribeOpens(a) PROVE RequestInv'
  <2>1. /\ task[a].pc # "call" /\ call' = call
        /\ Starts(task[a]) \in Task /\ Starts(task[a]).told = "nothing"
    BY <1>0, <1>3, StartsTask DEF SubscribeOpens, Calls
  <2>2. \E s \in Sockets : task' = [task EXCEPT ![a] = Waits(Starts(task[a]), "open", s)]
    BY <1>3 DEF SubscribeOpens
  <2> QED
    BY <2>1, <2>2, WaitsOutside
<1>4. ASSUME NEW a \in Apps, ResumeSubscribe(a) PROVE RequestInv'
  <2>1. task[a].pc # "call" /\ call' = call
    BY <1>4 DEF ResumeSubscribe
  <2>2. \E o \in {"ok", "failed"} : task' = [task EXCEPT ![a] = Returns(task[a], o)]
    BY <1>4 DEF ResumeSubscribe
  <2> QED
    BY <1>0, <2>1, <2>2, ReturnsOutside
<1>5. ASSUME NEW a \in Apps, NextOn(a) PROVE RequestInv'
  <2>1. /\ task[a].pc # "call" /\ call' = call
        /\ Starts(task[a]) \in Task /\ Starts(task[a]).told = "nothing"
    BY <1>0, <1>5, StartsTask DEF NextOn, Calls
  <2>2. CASE slot = None
    <3>1. task' = [task EXCEPT ![a] = Returns(Starts(task[a]), "inactive")]
      BY <1>5, <2>2 DEF NextOn
    <3> QED
      BY <2>1, <3>1, ReturnsOutside
  <2>3. CASE slot # None
    <3>1. Poll(a, Starts(task[a]), slot)
      BY <1>5, <2>3 DEF NextOn
    <3> QED
      BY <2>1, <3>1, PollStep DEF SlotTyped
  <2> QED
    BY <2>2, <2>3
<1>6. ASSUME NEW a \in Apps, ResumeNext(a) PROVE RequestInv'
  <2>1. task[a].pc = "wait" /\ call' = call /\ Poll(a, task[a], task[a].key)
    BY <1>6 DEF ResumeNext
  <2>2. task[a].key \in Sockets \cup {None}
    BY <1>0 DEF Task
  <2>3. task[a].told = "nothing"
    BY <1>0, <2>1 DEF RequestOf
  <2> QED
    BY <1>0, <2>1, <2>2, <2>3, PollStep
<1>7. ASSUME NEW a \in Apps, StartCall(a) PROVE RequestInv'
  <2> DEFINE t == Waits(Starts(task[a]), "call", None)
             c == [NoCall EXCEPT !.ws = "connecting", !.handled = TRUE]
  <2>1. task' = [task EXCEPT ![a] = t] /\ call' = [call EXCEPT ![a] = c]
    BY <1>7 DEF StartCall
  <2>2. Starts(task[a]) \in Task /\ Starts(task[a]).told = "nothing"
    BY <1>0, <1>7, StartsTask DEF StartCall, Calls
  <2>3. t \in Task /\ t.pc = "call" /\ t.told = "nothing" /\ t.woken = FALSE
    BY <2>2, WaitsTask
  <2>4. c \in Call /\ c.handled /\ ~c.sent /\ c.result = "nothing"
    BY DEF NoCall, Call, Outcomes
  <2>5. RequestOf(t, c)
    BY <2>3, <2>4 DEF RequestOf, Honest
  <2> QED
    BY <2>1, <2>3, <2>4, <2>5, OneTask
<1>8. ASSUME NEW a \in Apps, CallOpened(a) PROVE RequestInv'
  <2>1. CASE call[a].handled /\ Complete(a, "open", FALSE, "send_failed")
    BY <1>8, <2>1, CallCompletes DEF CallOpened, Honest, Outcomes
  <2>2. CASE /\ call' = [call EXCEPT ![a].ws = "open", ![a].sent = @ \/ call[a].handled]
             /\ task' = task
    <3> DEFINE c == [call[a] EXCEPT !.ws = "open", !.sent = @ \/ call[a].handled]
    <3>1. call' = [call EXCEPT ![a] = c] /\ task' = [task EXCEPT ![a] = task[a]]
      BY <1>0, <2>2 DEF RequestInv, Typed
    <3>2. /\ c \in Call /\ c.handled = call[a].handled /\ c.result = call[a].result
          /\ c.sent = (call[a].sent \/ call[a].handled)
      BY <1>0 DEF Call
    <3>3. CASE task[a].pc = "call"
      <4>1. call[a].handled /\ ~task[a].woken /\ call[a].result = "nothing" /\ task[a].told = "nothing"
        BY <1>0, <1>8, <3>3 DEF CallOpened, Calm, RequestOf
      <4>2. RequestOf(task[a], c)
        BY <1>0, <3>2, <4>1 DEF RequestOf, Honest
      <4> QED
        BY <1>0, <3>1, <3>2, <4>2, OneTask
    <3>4. CASE task[a].pc # "call"
      <4>1. ~call[a].handled /\ c.sent = call[a].sent
        BY <1>0, <3>2, <3>4 DEF RequestOf, Call
      <4>2. RequestOf(task[a], c)
        BY <1>0, <3>2, <3>4, <4>1 DEF RequestOf, Honest
      <4> QED
        BY <1>0, <3>1, <3>2, <4>2, OneTask
    <3> QED
      BY <3>3, <3>4
  <2> QED
    BY <1>8, <2>1, <2>2 DEF CallOpened
<1>9. ASSUME NEW a \in Apps, CallMessage(a) PROVE RequestInv'
  <2>1. PICK o \in {"answer", "refused"} : Complete(a, "open", TRUE, o)
    BY <1>9 DEF CallMessage, validate_response
  <2> QED
    BY <1>9, <2>1, CallCompletes DEF CallMessage, Honest, Outcomes
<1>10. ASSUME NEW a \in Apps, CallBroken(a) PROVE RequestInv'
  <2>1. call[a].sent \in BOOLEAN
    BY <1>0 DEF Call
  <2> QED
    BY <1>10, <2>1, CallCompletes DEF CallBroken, Honest, Outcomes
<1>11. ASSUME NEW a \in Apps, CallTimeout(a) PROVE RequestInv'
  <2> DEFINE o == IF call[a].sent THEN "response_timeout" ELSE "connect_timeout"
  <2>1. call[a].sent \in BOOLEAN /\ o \in Outcomes /\ o # "nothing" /\ Honest(o, call[a].sent)
    BY <1>0 DEF Call, Outcomes, Honest
  <2>2. Calm /\ call[a].handled /\ Complete(a, call[a].ws, call[a].sent, o)
    BY <1>11 DEF CallTimeout
  <2>3. call[a].ws \in {"unused", "connecting", "open", "gone"}
    BY <1>0 DEF Call
  <2> QED
    BY <2>1, <2>2, <2>3, CallCompletes
<1>12. ASSUME NEW a \in Apps, ResumeCall(a) PROVE RequestInv'
  <2> DEFINE t == Returns(task[a], call[a].result)
             c == [call[a] EXCEPT !.ws = "gone", !.handled = FALSE]
  <2>1. task' = [task EXCEPT ![a] = t] /\ call' = [call EXCEPT ![a] = c]
    BY <1>0, <1>12 DEF ResumeCall, RequestInv, Typed
  <2>2. call[a].result \in Outcomes
    BY <1>0 DEF Call
  <2>3. t \in Task /\ t.pc = "idle" /\ t.told = call[a].result
    BY <1>0, <2>2, ReturnsTask
  <2>4. c \in Call /\ ~c.handled /\ c.sent = call[a].sent
    BY <1>0 DEF Call
  <2>5. Honest(call[a].result, call[a].sent)
    BY <1>0, <1>12 DEF ResumeCall, RequestOf
  <2>6. RequestOf(t, c)
    BY <2>3, <2>4, <2>5 DEF RequestOf
  <2> QED
    BY <2>1, <2>3, <2>4, <2>6, OneTask
<1>13. ASSUME NEW a \in Apps, Drop(a) PROVE RequestInv'
  <2> DEFINE t == Returns(task[a], "nothing")
             c == [call[a] EXCEPT !.handled = FALSE]
  <2>1. task' = [task EXCEPT ![a] = t] /\ call' = [call EXCEPT ![a] = c]
    BY <1>0, <1>13 DEF Drop, RequestInv, Typed
  <2>2. "nothing" \in Outcomes
    BY DEF Outcomes
  <2>3. t \in Task /\ t.pc = "idle" /\ t.told = "nothing"
    BY <1>0, <2>2, ReturnsTask
  <2>4. c \in Call /\ ~c.handled
    BY <1>0 DEF Call
  <2>5. RequestOf(t, c)
    BY <2>3, <2>4 DEF RequestOf, Honest
  <2> QED
    BY <2>1, <2>3, <2>4, <2>5, OneTask
<1>14. ASSUME NEW s \in Sockets, Opened(s) \/ OpenFailed(s) PROVE RequestInv'
  <2> DEFINE W == {a \in Apps : task[a].pc = "open" /\ task[a].key = s}
  <2>1. /\ call' = call
        /\ task' = [a \in Apps |-> IF a \in W THEN [task[a] EXCEPT !.woken = TRUE] ELSE task[a]]
    BY <1>14 DEF Opened, OpenFailed, Decide
  <2>2. \A a \in W : task[a].pc # "call"
    OBVIOUS
  <2> HIDE DEF W
  <2> QED
    BY <2>1, <2>2, WakesOutside
<1>15. ASSUME NEW s \in Sockets, Message(s) \/ PeerCloses(s) PROVE RequestInv'
  <2> DEFINE W == {a \in Apps : a = sock[s].waiter /\ task[a].pc = "wait" /\ task[a].key = s}
  <2>1. call' = call /\ (task' = task \/ task' = Woken(s))
    BY <1>15 DEF Message, PeerCloses
  <2>2. Woken(s) = [a \in Apps |-> IF a \in W THEN [task[a] EXCEPT !.woken = TRUE] ELSE task[a]]
    BY DEF Woken
  <2>3. \A a \in W : task[a].pc # "call"
    OBVIOUS
  <2> HIDE DEF W
  <2>4. CASE task' = task
    BY <2>1, <2>4 DEF RequestInv, Typed
  <2>5. CASE task' = Woken(s)
    BY <2>1, <2>2, <2>3, <2>5, WakesOutside
  <2> QED
    BY <2>1, <2>4, <2>5
<1>16. CASE Disconnect
  BY <1>16 DEF Disconnect, RequestInv, Typed
<1> QED
  BY <1>1, <1>2, <1>3, <1>4, <1>5, <1>6, <1>7, <1>8, <1>9, <1>10, <1>11, <1>12, <1>13, <1>14,
     <1>15, <1>16 DEF Next

\* The slot holds the key of a socket: ResumeSubscribe stores the key its task
\* waited for, and such a task has one.
LEMMA SlotStep == SlotTyped /\ RequestInv /\ [Next]_vars => SlotTyped'
<1> SUFFICES ASSUME SlotTyped, RequestInv, [Next]_vars PROVE SlotTyped'
  OBVIOUS
<1>1. ASSUME NEW a \in Apps, ResumeSubscribe(a) PROVE SlotTyped'
  <2>1. task[a].key \in Sockets \cup {None}
    BY DEF RequestInv, Typed, Task
  <2> QED
    BY <1>1, <2>1 DEF ResumeSubscribe, SlotTyped
<1>2. ASSUME NEW a, NEW t, NEW s, Poll(a, t, s) PROVE SlotTyped'
  BY <1>2 DEF Poll, NextFails, NextReturns, NextWaits, SlotTyped
<1>3. ASSUME NEW a \in Apps, NextOn(a) \/ ResumeNext(a) PROVE SlotTyped'
  BY <1>2, <1>3 DEF NextOn, ResumeNext, SlotTyped
<1>4. ASSUME slot' = slot PROVE SlotTyped'
  BY <1>4 DEF SlotTyped
<1>5. CASE Disconnect
  BY <1>5 DEF Disconnect, SlotTyped
<1>6. CASE UNCHANGED vars
  BY <1>4, <1>6 DEF vars
<1>7. ASSUME NEW a \in Apps,
             \/ SubscribeOnSlot(a) \/ SubscribeOpens(a) \/ StartCall(a) \/ CallOpened(a)
             \/ CallMessage(a) \/ CallBroken(a) \/ CallTimeout(a) \/ ResumeCall(a) \/ Drop(a)
      PROVE  SlotTyped'
  BY <1>4, <1>7 DEF SubscribeOnSlot, SubscribeOpens, StartCall, CallOpened, CallMessage, CallBroken,
                    CallTimeout, ResumeCall, Drop, Complete, callVars
<1>8. ASSUME NEW s \in Sockets, Opened(s) \/ OpenFailed(s) \/ Message(s) \/ PeerCloses(s)
      PROVE  SlotTyped'
  BY <1>4, <1>8 DEF Opened, OpenFailed, Decide, Message, PeerCloses
<1> QED
  BY <1>1, <1>3, <1>5, <1>6, <1>7, <1>8 DEF Next

\* A call that reports a connect timeout has not sent its request and never
\* will; one that reports a response timeout or an answer has sent it.
THEOREM TimeoutsAreTold == Spec => []TimeoutIsTold
<1>1. Init => RequestInv /\ SlotTyped
  BY RequestInit, BrowserAssumption DEF Init, SlotTyped
<1>2. RequestInv /\ SlotTyped /\ [Next]_vars => (RequestInv /\ SlotTyped)'
  BY RequestStep, SlotStep, BrowserAssumption
<1>3. RequestInv => TimeoutIsTold
  BY DEF RequestInv, RequestOf, Honest, TimeoutIsTold
<1> QED
  BY <1>1, <1>2, <1>3, PTL DEF Spec

-----------------------------------------------------------------------------
(* Frames.  What a registered socket gave out and still holds is what it   *)
(* heard.  The claim starts when open() registers the socket, so the       *)
(* socket a subscriber waits for must still be untouched then: it belongs  *)
(* to that subscriber alone, and is neither registered nor ended before    *)
(* the subscriber goes on.                                                 *)

\* A socket, and whether it is registered.
FramesOf(sk, in) ==
  /\ in => sk.st # "unused" /\ sk.end = "none" /\ sk.given \o sk.frames = sk.heard
  /\ ~in /\ sk.end = "none" => sk.frames = <<>> /\ sk.given = <<>> /\ sk.heard = <<>>
  /\ sk.end = "reader" => sk.given = sk.heard
  /\ sk.st = "unused" => sk.end = "none"

Opening(a) == task[a].pc = "open"

\* The socket that task a waits for.
OpensAlone(a) ==
  /\ task[a].key \in Sockets \ registry
  /\ sock[task[a].key].st # "unused" /\ sock[task[a].key].end = "none"
  /\ \A b \in Apps : Opening(b) /\ task[b].key = task[a].key => a = b

SocketsInv ==
  /\ sock \in [Sockets -> Socket]
  /\ registry \in SUBSET Sockets
  /\ \A s \in Sockets : FramesOf(sock[s], s \in registry)

OpeningInv == \A a \in Apps : Opening(a) => OpensAlone(a)

FrameInv == SocketsInv /\ OpeningInv

LEMMA FrameInit == BrowserAssumption /\ Init => FrameInv
<1> SUFFICES ASSUME BrowserAssumption, Init PROVE FrameInv
  OBVIOUS
<1>1. Unused \in Socket /\ FramesOf(Unused, FALSE)
  BY DEF BrowserAssumption, Unused, Socket, FramesOf
<1>2. SocketsInv
  BY <1>1 DEF Init, SocketsInv, FramesOf
<1>3. OpeningInv
  BY DEF Init, OpeningInv, Opening
<1> QED
  BY <1>2, <1>3 DEF FrameInv

\* One socket changes, and only that one may enter or leave the registry.
LEMMA OneSocket ==
  ASSUME SocketsInv, NEW s \in Sockets, NEW k \in Socket, NEW in \in BOOLEAN, FramesOf(k, in),
         sock' = [sock EXCEPT ![s] = k],
         registry' = IF in THEN registry \cup {s} ELSE registry \ {s}
  PROVE  SocketsInv'
<1>1. sock' \in [Sockets -> Socket] /\ registry' \in SUBSET Sockets
  BY DEF SocketsInv
<1>2. ASSUME NEW r \in Sockets PROVE FramesOf(sock'[r], r \in registry')
  <2>1. CASE r = s
    <3>1. sock'[r] = k /\ (r \in registry' <=> in)
      BY <2>1 DEF SocketsInv
    <3> QED
      BY <3>1 DEF FramesOf
  <2>2. CASE r # s
    <3>1. sock'[r] = sock[r] /\ (r \in registry' <=> r \in registry)
      BY <2>2 DEF SocketsInv
    <3> QED
      BY <3>1 DEF SocketsInv, FramesOf
  <2> QED
    BY <2>1, <2>2
<1> QED
  BY <1>1, <1>2 DEF SocketsInv

\* No task begins to wait for a socket, and the sockets waited for stay as
\* they are, as far as OpensAlone goes.
LEMMA NoNewOpening ==
  ASSUME OpeningInv,
         \A b \in Apps : Opening(b)' => Opening(b) /\ task'[b].key = task[b].key,
         \A b \in Apps : Opening(b)' =>
            LET k == task[b].key
            IN  k \notin registry' /\ sock'[k].st # "unused" /\ sock'[k].end = "none"
  PROVE  OpeningInv'
<1> SUFFICES ASSUME NEW a \in Apps, Opening(a)' PROVE OpensAlone(a)'
  BY DEF OpeningInv
<1>1. Opening(a) /\ task'[a].key = task[a].key /\ OpensAlone(a)
  BY DEF OpeningInv
<1>2. ASSUME NEW b \in Apps, Opening(b)', task'[b].key = task'[a].key PROVE a = b
  BY <1>1, <1>2 DEF OpensAlone
<1>3. task'[a].key \in Sockets \ registry'
  BY <1>1 DEF OpensAlone
<1> QED
  BY <1>1, <1>2, <1>3 DEF OpensAlone

\* Task a leaves or stays out of an open: the other tasks are as they were.
LEMMA NotOpening ==
  ASSUME Typed, NEW a \in Apps, NEW t, t.pc # "open", task' = [task EXCEPT ![a] = t]
  PROVE  \A b \in Apps : Opening(b)' => b # a /\ Opening(b) /\ task'[b].key = task[b].key
  BY DEF Typed, Opening

\* A step on a socket that is registered before or ended after it touches no
\* socket that a task waits for to open.
LEMMA ElsewhereThanOpening ==
  ASSUME OpeningInv, sock \in [Sockets -> Socket],
         NEW s \in Sockets, NEW k, sock' = [sock EXCEPT ![s] = k], registry' \subseteq registry,
         \/ s \in registry
         \/ k.st # "unused" /\ (sock[s].end = "none" => k.end = "none"),
         \A b \in Apps : Opening(b)' => Opening(b) /\ task'[b].key = task[b].key
  PROVE  OpeningInv'
<1>1. ASSUME NEW b \in Apps, Opening(b)'
      PROVE  LET q == task[b].key
             IN  q \notin registry' /\ sock'[q].st # "unused" /\ sock'[q].end = "none"
  <2>1. OpensAlone(b)
    BY <1>1 DEF OpeningInv
  <2>2. CASE task[b].key = s
    BY <2>1, <2>2 DEF OpensAlone
  <2>3. CASE task[b].key # s
    BY <2>1, <2>3 DEF OpensAlone
  <2> QED
    BY <2>2, <2>3
<1> QED
  BY <1>1, NoNewOpening

\* Sockets and registry stay.
LEMMA SocketsStay ==
  ASSUME FrameInv, sock' = sock, registry' = registry,
         \A b \in Apps : Opening(b)' => Opening(b) /\ task'[b].key = task[b].key
  PROVE  FrameInv'
<1>1. OpeningInv'
  BY NoNewOpening DEF FrameInv, OpeningInv, OpensAlone
<1> QED
  BY <1>1 DEF FrameInv, SocketsInv

\* Callbacks mark tasks as woken and leave them where they are.
LEMMA WakingMovesNoTask ==
  ASSUME Typed, NEW W,
         task' = [a \in Apps |-> IF a \in W THEN [task[a] EXCEPT !.woken = TRUE] ELSE task[a]]
  PROVE  \A b \in Apps : Opening(b)' => Opening(b) /\ task'[b].key = task[b].key
<1> SUFFICES ASSUME NEW b \in Apps, Opening(b)'
             PROVE  Opening(b) /\ task'[b].key = task[b].key
  OBVIOUS
<1>1. task[b] \in Task
  BY DEF Typed
<1> QED
  BY <1>1 DEF Opening, Task

LEMMA TransmitSocket ==
  ASSUME NEW sk \in Socket
  PROVE  /\ Transmit(sk) \in Socket /\ Transmit(sk).st = sk.st /\ Transmit(sk).end = sk.end
         /\ \A in \in BOOLEAN : FramesOf(sk, in) => FramesOf(Transmit(sk), in)
<1>1. /\ Transmit(sk) \in Socket /\ Transmit(sk).st = sk.st /\ Transmit(sk).end = sk.end
      /\ Transmit(sk).frames = sk.frames /\ Transmit(sk).given = sk.given
      /\ Transmit(sk).heard = sk.heard
  BY DEF Transmit, Socket
<1> QED
  BY <1>1 DEF FramesOf

\* close: frames that were not given out go with the socket.
LEMMA CloseSocket ==
  ASSUME NEW sk \in Socket, NEW by \in {"reader", "disconnect"},
         by = "reader" => sk.given = sk.heard
  PROVE  /\ Close(sk, by) \in Socket /\ Close(sk, by).st = "gone" /\ Close(sk, by).end = by
         /\ FramesOf(Close(sk, by), FALSE)
<1>1. /\ Close(sk, by) \in Socket /\ Close(sk, by).st = "gone" /\ Close(sk, by).end = by
      /\ Close(sk, by).given = sk.given /\ Close(sk, by).heard = sk.heard
  <2>1. <<>> \in Seq(1..MaxFrames) /\ by \in {"none", "reader", "disconnect"}
    OBVIOUS
  <2> QED
    BY <2>1 DEF Close, Socket
<1> QED
  BY <1>1 DEF FramesOf

\* Frames stay in order: one is queued as it is heard, the oldest is given.
LEMMA QueueFrame ==
  ASSUME NEW S, NEW given \in Seq(S), NEW frames \in Seq(S), NEW n \in S
  PROVE  given \o Append(frames, n) = Append(given \o frames, n)
  OBVIOUS

LEMMA QueueFrames ==
  \A given, frames \in Seq(1..MaxFrames) : \A n \in 1..MaxFrames :
    given \o Append(frames, n) = Append(given \o frames, n)
<1> DEFINE S == 1..MaxFrames
<1> HIDE DEF S
<1>1. \A given, frames \in Seq(S) : \A n \in S :
        given \o Append(frames, n) = Append(given \o frames, n)
  BY QueueFrame
<1> QED
  BY <1>1 DEF S

LEMMA GiveFrame ==
  ASSUME NEW S, NEW given \in Seq(S), NEW frames \in Seq(S), frames # <<>>
  PROVE  /\ Head(frames) \in S /\ Tail(frames) \in Seq(S)
         /\ Append(given, Head(frames)) \o Tail(frames) = given \o frames
<1>1. Head(frames) \in S /\ Tail(frames) \in Seq(S)
  BY HeadTailProperties
<1>2. <<Head(frames)>> \in Seq(S) /\ frames = <<Head(frames)>> \o Tail(frames)
  BY <1>1
<1>3. Append(given, Head(frames)) = given \o <<Head(frames)>>
  BY <1>1
<1> QED
  BY <1>1, <1>2, <1>3, ConcatAssociative

\* next_frame reads a socket that is registered, or fails.
LEMMA PollFrames ==
  ASSUME Typed, FrameInv, NEW a \in Apps, NEW t \in Task, NEW s \in Sockets \cup {None}, Poll(a, t, s)
  PROVE  FrameInv'
<1>1. ASSUME NEW o, task' = [task EXCEPT ![a] = Returns(t, o)]
      PROVE  \A b \in Apps : Opening(b)' => Opening(b) /\ task'[b].key = task[b].key
  <2>1. Returns(t, o).pc # "open"
    BY DEF Task, Returns
  <2> QED
    BY <1>1, <2>1, NotOpening, Zenon
<1>2. ASSUME task' = [task EXCEPT ![a] = Waits(t, "wait", s)]
      PROVE  \A b \in Apps : Opening(b)' => Opening(b) /\ task'[b].key = task[b].key
  <2>1. Waits(t, "wait", s).pc # "open"
    BY DEF Task, Waits
  <2> QED
    BY <1>2, <2>1, NotOpening, Zenon
<1>3. CASE s \notin registry
  <2>1. sock' = sock /\ registry' = registry /\ task' = [task EXCEPT ![a] = Returns(t, "closed")]
    BY <1>3 DEF Poll, NextFails
  <2> QED
    BY <1>1, <2>1, SocketsStay
<1>4. CASE s \in registry
  <2>0. s \in Sockets /\ sock[s] \in Socket /\ FramesOf(sock[s], TRUE)
    BY <1>4 DEF FrameInv, SocketsInv, FramesOf
  <2>1. CASE sock[s].frames # <<>> /\ NextReturns(a, t, s, sock[s])
    <3> DEFINE k == [sock[s] EXCEPT !.frames = Tail(sock[s].frames),
                                    !.given = Append(sock[s].given, Head(sock[s].frames))]
    <3>1. sock' = [sock EXCEPT ![s] = k] /\ registry' = registry \cup {s} /\ registry' = registry
      BY <1>4, <2>0, <2>1 DEF NextReturns, FrameInv, SocketsInv
    <3>2. /\ Tail(sock[s].frames) \in Seq(1..MaxFrames)
          /\ Append(sock[s].given, Head(sock[s].frames)) \in Seq(1..MaxFrames)
          /\ Append(sock[s].given, Head(sock[s].frames)) \o Tail(sock[s].frames)
               = sock[s].given \o sock[s].frames
      <4>1. sock[s].frames \in Seq(1..MaxFrames) /\ sock[s].given \in Seq(1..MaxFrames)
        BY <2>0 DEF Socket
      <4>2. /\ Head(sock[s].frames) \in 1..MaxFrames /\ Tail(sock[s].frames) \in Seq(1..MaxFrames)
            /\ Append(sock[s].given, Head(sock[s].frames)) \o Tail(sock[s].frames)
                 = sock[s].given \o sock[s].frames
        BY <2>1, <4>1, GiveFrame, Zenon
      <4> QED
        BY <4>1, <4>2, AppendProperties, Zenon
    <3>3. k \in Socket
      BY <2>0, <3>2 DEF Socket
    <3>4. /\ k.st = sock[s].st /\ k.end = sock[s].end /\ k.heard = sock[s].heard
          /\ k.frames = Tail(sock[s].frames)
          /\ k.given = Append(sock[s].given, Head(sock[s].frames))
      BY <2>0 DEF Socket
    <3>5. FramesOf(k, TRUE) /\ k.st # "unused"
      BY <2>0, <3>2, <3>4 DEF FramesOf
    <3>6. task' = [task EXCEPT ![a] = Returns(t, "frame")]
      BY <2>1 DEF NextReturns
    <3> HIDE DEF k
    <3>7. SocketsInv'
      BY <2>0, <3>1, <3>3, <3>5, OneSocket DEF FrameInv
    <3>8. OpeningInv'
      BY <1>1, <1>4, <2>0, <3>1, <3>6, ElsewhereThanOpening DEF FrameInv, SocketsInv
    <3> QED
      BY <3>7, <3>8 DEF FrameInv
  <2>2. CASE sock[s].frames = <<>> /\ NextFails(a, t, s, sock[s])
    <3>1. /\ sock' = [sock EXCEPT ![s] = Close(sock[s], "reader")] /\ registry' = registry \ {s}
          /\ task' = [task EXCEPT ![a] = Returns(t, "closed")]
      BY <1>4, <2>2 DEF NextFails
    <3>2. sock[s].given = sock[s].heard
      <4>1. sock[s].given \in Seq(1..MaxFrames) /\ sock[s].given \o sock[s].frames = sock[s].heard
        BY <2>0 DEF Socket, FramesOf
      <4> QED
        BY <2>2, <4>1, ConcatEmptySeq, Zenon
    <3>3. /\ Close(sock[s], "reader") \in Socket
          /\ FramesOf(Close(sock[s], "reader"), FALSE)
      BY <2>0, <3>2, CloseSocket
    <3>4. SocketsInv'
      BY <2>0, <3>1, <3>3, OneSocket DEF FrameInv
    <3>5. OpeningInv'
      BY <1>1, <1>4, <2>0, <3>1, ElsewhereThanOpening DEF FrameInv, SocketsInv
    <3> QED
      BY <3>4, <3>5 DEF FrameInv
  <2>3. CASE NextWaits(a, t, s)
    <3> DEFINE k == [sock[s] EXCEPT !.waiter = a]
    <3>1. sock' = [sock EXCEPT ![s] = k] /\ registry' = registry \cup {s} /\ registry' = registry
      BY <1>4, <2>0, <2>3 DEF NextWaits, FrameInv, SocketsInv
    <3>2. /\ k \in Socket /\ k.st = sock[s].st /\ k.end = sock[s].end /\ k.heard = sock[s].heard
          /\ k.frames = sock[s].frames /\ k.given = sock[s].given
      BY <2>0 DEF Socket
    <3>3. FramesOf(k, TRUE) /\ k.st # "unused"
      BY <2>0, <3>2 DEF FramesOf
    <3>4. task' = [task EXCEPT ![a] = Waits(t, "wait", s)]
      BY <2>3 DEF NextWaits
    <3> HIDE DEF k
    <3>5. SocketsInv'
      BY <2>0, <3>1, <3>2, <3>3, OneSocket DEF FrameInv
    <3>6. OpeningInv'
      BY <1>2, <1>4, <2>0, <3>1, <3>4, ElsewhereThanOpening DEF FrameInv, SocketsInv
    <3> QED
      BY <3>5, <3>6 DEF FrameInv
  <2> QED
    BY <1>4, <2>1, <2>2, <2>3 DEF Poll
<1> QED
  BY <1>3, <1>4

\* An event at socket s gives the record k, with the frames as in FramesOf, and
\* moves no task.
LEMMA SocketEvent ==
  ASSUME FrameInv, NEW s \in Sockets, NEW k \in Socket, FramesOf(k, s \in registry),
         sock' = [sock EXCEPT ![s] = k], registry' = registry,
         k.st # "unused", sock[s].end = "none" => k.end = "none",
         \A b \in Apps : Opening(b)' => Opening(b) /\ task'[b].key = task[b].key
  PROVE  FrameInv'
<1>1. OpeningInv'
  BY ElsewhereThanOpening DEF FrameInv, SocketsInv
<1>2. SocketsInv'
  <2>1. CASE s \in registry
    <3>1. FramesOf(k, TRUE) /\ registry' = registry \cup {s}
      BY <2>1 DEF FramesOf
    <3> QED
      BY <3>1, OneSocket DEF FrameInv
  <2>2. CASE s \notin registry
    <3>1. FramesOf(k, FALSE) /\ registry' = registry \ {s}
      BY <2>2 DEF FramesOf
    <3> QED
      BY <3>1, OneSocket DEF FrameInv
  <2> QED
    BY <2>1, <2>2
<1> QED
  BY <1>1, <1>2 DEF FrameInv

LEMMA FrameStep == RequestInv /\ SlotTyped /\ FrameInv /\ [Next]_vars => FrameInv'
<1> SUFFICES ASSUME RequestInv, SlotTyped, FrameInv, [Next]_vars PROVE FrameInv'
  OBVIOUS
<1>0. ASSUME NEW a \in Apps PROVE task[a] \in Task
  BY DEF RequestInv, Typed
<1>00. ASSUME NEW s \in Sockets PROVE sock[s] \in Socket /\ FramesOf(sock[s], s \in registry)
  BY DEF FrameInv, SocketsInv
<1>t. Typed
  BY DEF RequestInv
<1>r. ASSUME NEW a \in Apps, NEW t \in Task, NEW o, task' = [task EXCEPT ![a] = Returns(t, o)]
      PROVE  \A b \in Apps : Opening(b)' => b # a /\ Opening(b) /\ task'[b].key = task[b].key
  <2>1. Returns(t, o).pc # "open"
    BY DEF Task, Returns
  <2> QED
    BY <1>r, <1>t, <2>1, NotOpening, Zenon
<1>1. CASE UNCHANGED vars
  BY <1>1, SocketsStay DEF vars, Opening
<1>2. ASSUME NEW a \in Apps, SubscribeOnSlot(a) PROVE FrameInv'
  <2>1. Starts(task[a]) \in Task
    BY <1>0, <1>2, StartsTask DEF SubscribeOnSlot, Calls
  <2>2. \E o : task' = [task EXCEPT ![a] = Returns(Starts(task[a]), o)]
    BY <1>2 DEF SubscribeOnSlot
  <2>3. \A b \in Apps : Opening(b)' => Opening(b) /\ task'[b].key = task[b].key
    BY <1>r, <2>1, <2>2
  <2>4. CASE slot \in registry
    <3>1. slot \in Sockets /\ sock[slot] \in Socket /\ FramesOf(sock[slot], slot \in registry)
      BY <1>00, <2>4 DEF FrameInv, SocketsInv
    <3>2. sock' = [sock EXCEPT ![slot] = Transmit(sock[slot])] /\ registry' = registry
      BY <1>2, <2>4 DEF SubscribeOnSlot
    <3>3. /\ Transmit(sock[slot]) \in Socket /\ FramesOf(Transmit(sock[slot]), slot \in registry)
          /\ Transmit(sock[slot]).st = sock[slot].st /\ Transmit(sock[slot]).end = sock[slot].end
      <4>1. FramesOf(sock[slot], TRUE)
        BY <2>4, <3>1 DEF FramesOf
      <4>2. /\ Transmit(sock[slot]) \in Socket /\ FramesOf(Transmit(sock[slot]), TRUE)
            /\ Transmit(sock[slot]).st = sock[slot].st /\ Transmit(sock[slot]).end = sock[slot].end
        BY <3>1, <4>1, TransmitSocket
      <4> QED
        BY <2>4, <4>2 DEF FramesOf
    <3>4. sock[slot].st # "unused"
      BY <2>4, <3>1 DEF FramesOf
    <3> QED
      BY <2>3, <3>1, <3>2, <3>3, <3>4, SocketEvent
  <2>5. CASE slot \notin registry
    BY <1>2, <2>3, <2>5, SocketsStay DEF SubscribeOnSlot
  <2> QED
    BY <2>4, <2>5
<1>3. ASSUME NEW a \in Apps, SubscribeOpens(a) PROVE FrameInv'
  <2>1. PICK s \in Sockets :
          /\ sock[s].st = "unused"
          /\ sock' = [sock EXCEPT ![s].st = "connecting", ![s].opener = a]
          /\ task' = [task EXCEPT ![a] = Waits(Starts(task[a]), "open", s)]
    BY <1>3 DEF SubscribeOpens
  <2>2. registry' = registry
    BY <1>3 DEF SubscribeOpens
  <2> DEFINE k == [sock[s] EXCEPT !.st = "connecting", !.opener = a]
  <2>3. sock' = [sock EXCEPT ![s] = k]
    BY <2>1, <1>00 DEF FrameInv, SocketsInv
  <2>4. /\ k \in Socket /\ k.st = "connecting" /\ k.end = sock[s].end /\ k.frames = sock[s].frames
        /\ k.given = sock[s].given /\ k.heard = sock[s].heard
    BY <1>00 DEF Socket
  <2>5. s \notin registry /\ sock[s].end = "none" /\ FramesOf(k, FALSE)
    BY <1>00, <2>1, <2>4 DEF FramesOf
  <2> HIDE DEF k
  <2>6. SocketsInv'
    <3>1. registry' = registry \ {s}
      BY <2>2, <2>5
    <3> QED
      BY <2>3, <2>4, <2>5, <3>1, OneSocket DEF FrameInv
  <2>7. /\ task'[a].pc = "open" /\ task'[a].key = s
        /\ \A b \in Apps : b # a => task'[b] = task[b]
    <3>1. Starts(task[a]) \in Task
      BY <1>0, <1>3, StartsTask DEF SubscribeOpens, Calls
    <3>2. /\ Waits(Starts(task[a]), "open", s).pc = "open"
          /\ Waits(Starts(task[a]), "open", s).key = s
      BY <3>1 DEF Waits, Task
    <3> QED
      BY <1>t, <2>1, <3>2 DEF Typed
  <2>8. ASSUME NEW b \in Apps, b # a, Opening(b)'
        PROVE  OpensAlone(b) /\ Opening(b) /\ task'[b] = task[b] /\ task[b].key # s
    <3>1. Opening(b) /\ task'[b] = task[b]
      BY <2>7, <2>8 DEF Opening
    <3>2. OpensAlone(b)
      BY <3>1 DEF FrameInv, OpeningInv
    <3> QED
      BY <2>1, <3>1, <3>2 DEF OpensAlone
  <2>9. ASSUME NEW b \in Apps, Opening(b)' PROVE OpensAlone(b)'
    <3>1. CASE b = a
      <4>1. s \in Sockets \ registry' /\ sock'[s] = k
        BY <2>2, <2>3, <2>5 DEF FrameInv, SocketsInv
      <4>2. \A c \in Apps : Opening(c)' /\ task'[c].key = s => a = c
        BY <2>8
      <4> QED
        BY <2>4, <2>5, <2>7, <3>1, <4>1, <4>2 DEF OpensAlone
    <3>2. CASE b # a
      <4>1. OpensAlone(b) /\ Opening(b) /\ task'[b] = task[b] /\ task[b].key # s
        BY <2>8, <2>9, <3>2
      <4>2. sock'[task[b].key] = sock[task[b].key]
        BY <2>3, <4>1 DEF FrameInv, SocketsInv, OpensAlone
      <4>3. \A c \in Apps : Opening(c)' /\ task'[c].key = task[b].key => b = c
        BY <2>7, <2>8, <4>1 DEF OpensAlone
      <4> QED
        BY <2>2, <4>1, <4>2, <4>3 DEF OpensAlone
    <3> QED
      BY <3>1, <3>2
  <2> QED
    BY <2>6, <2>9 DEF FrameInv, OpeningInv
<1>4. ASSUME NEW a \in Apps, ResumeSubscribe(a) PROVE FrameInv'
  <2>1. \E o : task' = [task EXCEPT ![a] = Returns(task[a], o)]
    BY <1>4 DEF ResumeSubscribe
  <2>2. \A b \in Apps : Opening(b)' => b # a /\ Opening(b) /\ task'[b].key = task[b].key
    BY <1>0, <1>r, <2>1
  <2>3. Opening(a) /\ OpensAlone(a)
    BY <1>4 DEF ResumeSubscribe, Opening, FrameInv, OpeningInv
  <2>4. PICK s \in Sockets : s = task[a].key
    BY <2>3 DEF OpensAlone
  <2>5. CASE sock[s].st = "open"
    <3>1. /\ sock' = [sock EXCEPT ![s] = Transmit(sock[s])] /\ registry' = registry \cup {s}
      BY <1>4, <2>4, <2>5 DEF ResumeSubscribe
    <3>2. FramesOf(sock[s], TRUE)
      <4>1. /\ sock[s].end = "none" /\ sock[s].frames = <<>> /\ sock[s].given = <<>>
            /\ sock[s].heard = <<>>
        BY <1>00, <2>3, <2>4 DEF OpensAlone, FramesOf
      <4>2. sock[s].given \o sock[s].frames = sock[s].heard
        BY <4>1
      <4> QED
        BY <2>5, <4>1, <4>2 DEF FramesOf
    <3>3. /\ Transmit(sock[s]) \in Socket /\ FramesOf(Transmit(sock[s]), TRUE)
      BY <1>00, <3>2, TransmitSocket
    <3>4. SocketsInv'
      BY <3>1, <3>3, OneSocket DEF FrameInv
    <3>5. OpeningInv'
      <4>1. ASSUME NEW b \in Apps, Opening(b)'
            PROVE  LET q == task[b].key
                   IN  q \notin registry' /\ sock'[q].st # "unused" /\ sock'[q].end = "none"
        <5>1. b # a /\ OpensAlone(b) /\ Opening(b)
          BY <2>2, <4>1 DEF FrameInv, OpeningInv
        <5>2. task[b].key # s
          BY <2>3, <2>4, <5>1 DEF OpensAlone
        <5> QED
          BY <3>1, <5>1, <5>2 DEF OpensAlone, FrameInv, SocketsInv
      <4> QED
        BY <2>2, <4>1, NoNewOpening DEF FrameInv
    <3> QED
      BY <3>4, <3>5 DEF FrameInv
  <2>6. CASE sock[s].st # "open"
    BY <1>4, <2>2, <2>4, <2>6, SocketsStay DEF ResumeSubscribe
  <2> QED
    BY <2>5, <2>6
<1>5. ASSUME NEW a \in Apps, NextOn(a) PROVE FrameInv'
  <2>1. Starts(task[a]) \in Task
    BY <1>0, <1>5, StartsTask DEF NextOn, Calls
  <2>2. CASE slot = None
    <3>1. /\ task' = [task EXCEPT ![a] = Returns(Starts(task[a]), "inactive")]
          /\ sock' = sock /\ registry' = registry
      BY <1>5, <2>2 DEF NextOn
    <3> QED
      BY <1>r, <2>1, <3>1, SocketsStay
  <2>3. CASE slot # None
    BY <1>5, <1>t, <2>1, <2>3, PollFrames DEF NextOn, SlotTyped
  <2> QED
    BY <2>2, <2>3
<1>6. ASSUME NEW a \in Apps, ResumeNext(a) PROVE FrameInv'
  <2>1. task[a] \in Task /\ task[a].key \in Sockets \cup {None}
    BY <1>0 DEF Task
  <2> QED
    BY <1>6, <1>t, <2>1, PollFrames DEF ResumeNext
<1>7. ASSUME NEW a \in Apps, StartCall(a) PROVE FrameInv'
  <2>1. Starts(task[a]) \in Task
    BY <1>0, <1>7, StartsTask DEF StartCall, Calls
  <2>2. Waits(Starts(task[a]), "call", None).pc # "open"
    BY <2>1, WaitsTask
  <2>3. \A b \in Apps : Opening(b)' => Opening(b) /\ task'[b].key = task[b].key
    BY <1>7, <1>t, <2>2, NotOpening DEF StartCall
  <2> QED
    BY <1>7, <2>3, SocketsStay DEF StartCall, callVars
<1>8. ASSUME NEW a \in Apps, CallOpened(a) \/ CallMessage(a) \/ CallBroken(a) \/ CallTimeout(a)
      PROVE  FrameInv'
  <2>1. /\ sock' = sock /\ registry' = registry
        /\ task' = task \/ \E w : task' = [task EXCEPT ![a].woken = w]
    BY <1>8 DEF CallOpened, CallMessage, CallBroken, CallTimeout, Complete, callVars
  <2>2. \A b \in Apps : Opening(b)' => Opening(b) /\ task'[b].key = task[b].key
    BY <1>0, <1>t, <2>1 DEF Opening, Typed, Task
  <2> QED
    BY <2>1, <2>2, SocketsStay
<1>9. ASSUME NEW a \in Apps, ResumeCall(a) \/ Drop(a) PROVE FrameInv'
  <2>1. /\ sock' = sock /\ registry' = registry
        /\ \E o : task' = [task EXCEPT ![a] = Returns(task[a], o)]
    BY <1>9 DEF ResumeCall, Drop, callVars
  <2>2. \A b \in Apps : Opening(b)' => Opening(b) /\ task'[b].key = task[b].key
    BY <1>0, <1>r, <2>1
  <2> QED
    BY <2>1, <2>2, SocketsStay
<1>10. ASSUME NEW s \in Sockets, Opened(s) \/ OpenFailed(s) PROVE FrameInv'
  <2> DEFINE W == {a \in Apps : task[a].pc = "open" /\ task[a].key = s}
  <2>1. /\ registry' = registry
        /\ task' = [a \in Apps |-> IF a \in W THEN [task[a] EXCEPT !.woken = TRUE] ELSE task[a]]
    BY <1>10 DEF Opened, OpenFailed, Decide
  <2> HIDE DEF W
  <2>2. \A b \in Apps : Opening(b)' => Opening(b) /\ task'[b].key = task[b].key
    BY <1>t, <2>1, WakingMovesNoTask
  <2>3. PICK st \in {"open", "gone"} : sock' = [sock EXCEPT ![s].st = st]
    BY <1>10 DEF Opened, OpenFailed, Decide
  <2> DEFINE k == [sock[s] EXCEPT !.st = st]
  <2>4. sock' = [sock EXCEPT ![s] = k]
    BY <2>3 DEF FrameInv, SocketsInv
  <2>5. /\ k \in Socket /\ k.st = st /\ k.end = sock[s].end /\ k.frames = sock[s].frames
        /\ k.given = sock[s].given /\ k.heard = sock[s].heard
    BY <1>00 DEF Socket
  <2>6. FramesOf(k, s \in registry)
    BY <1>00, <2>5 DEF FramesOf
  <2> HIDE DEF k
  <2> QED
    BY <2>1, <2>2, <2>4, <2>5, <2>6, SocketEvent
<1>11. ASSUME NEW s \in Sockets, Message(s) \/ PeerCloses(s)
       PROVE  \A b \in Apps : Opening(b)' => Opening(b) /\ task'[b].key = task[b].key
  <2> DEFINE W == {a \in Apps : a = sock[s].waiter /\ task[a].pc = "wait" /\ task[a].key = s}
  <2>1. task' = task \/ task' = Woken(s)
    BY <1>11 DEF Message, PeerCloses
  <2>2. Woken(s) = [a \in Apps |-> IF a \in W THEN [task[a] EXCEPT !.woken = TRUE] ELSE task[a]]
    BY DEF Woken
  <2> HIDE DEF W
  <2> QED
    BY <1>t, <2>1, <2>2, WakingMovesNoTask DEF Opening
<1>12. ASSUME NEW s \in Sockets, Message(s) PROVE FrameInv'
  <2>1. PICK n \in 1..MaxFrames : n = sock[s].sent + 1
    <3>1. sock[s].sent \in 0..MaxFrames /\ sock[s].sent < MaxFrames /\ MaxFrames \in Nat
      BY <1>00, <1>12, BrowserAssumption DEF Message, Socket
    <3> QED
      BY <3>1
  <2>2. n \in 0..MaxFrames
    BY <2>1
  <2>3. registry' = registry /\ sock[s].st = "open"
    BY <1>12 DEF Message
  <2>4. CASE s \in registry
    <3> DEFINE k == [sock[s] EXCEPT !.sent = n, !.frames = Append(sock[s].frames, n),
                                    !.heard = Append(sock[s].heard, n), !.waiter = None]
    <3>1. sock' = [sock EXCEPT ![s] = k]
      BY <1>00, <1>12, <2>1, <2>4 DEF Message, FrameInv, SocketsInv
    <3>2. /\ sock[s].frames \in Seq(1..MaxFrames) /\ sock[s].heard \in Seq(1..MaxFrames)
          /\ sock[s].given \in Seq(1..MaxFrames)
      BY <1>00 DEF Socket
    <3>3. /\ Append(sock[s].frames, n) \in Seq(1..MaxFrames)
          /\ Append(sock[s].heard, n) \in Seq(1..MaxFrames)
      BY <3>2, AppendProperties
    <3>4. /\ k \in Socket /\ k.st = "open" /\ k.end = sock[s].end /\ k.given = sock[s].given
          /\ k.frames = Append(sock[s].frames, n) /\ k.heard = Append(sock[s].heard, n)
      BY <1>00, <2>2, <2>3, <3>3 DEF Socket
    <3>5. FramesOf(k, s \in registry)
      <4>1. sock[s].end = "none" /\ sock[s].given \o sock[s].frames = sock[s].heard
        BY <1>00, <2>4 DEF FramesOf
      <4>2. k.given \o k.frames = k.heard
        <5>1. sock[s].given \o Append(sock[s].frames, n) = Append(sock[s].given \o sock[s].frames, n)
          BY <3>2, QueueFrames, Zenon
        <5> QED
          BY <3>4, <4>1, <5>1, Zenon
      <4> QED
        BY <2>4, <3>4, <4>1, <4>2 DEF FramesOf
    <3> HIDE DEF k
    <3> QED
      BY <1>11, <1>12, <2>3, <3>1, <3>4, <3>5, SocketEvent
  <2>5. CASE s \notin registry
    <3> DEFINE k == [sock[s] EXCEPT !.sent = n]
    <3>1. sock' = [sock EXCEPT ![s] = k]
      BY <1>00, <1>12, <2>1, <2>5 DEF Message, FrameInv, SocketsInv
    <3>2. /\ k \in Socket /\ k.st = "open" /\ k.end = sock[s].end /\ k.given = sock[s].given
          /\ k.frames = sock[s].frames /\ k.heard = sock[s].heard
      BY <1>00, <2>2, <2>3 DEF Socket
    <3>3. FramesOf(k, s \in registry)
      BY <1>00, <2>5, <3>2 DEF FramesOf
    <3> HIDE DEF k
    <3> QED
      BY <1>11, <1>12, <2>3, <3>1, <3>2, <3>3, SocketEvent
  <2> QED
    BY <2>4, <2>5
<1>13. ASSUME NEW s \in Sockets, PeerCloses(s) PROVE FrameInv'
  <2>1. PICK k \in Socket :
          /\ sock' = [sock EXCEPT ![s] = k]
          /\ k.st = "gone" /\ k.end = sock[s].end /\ k.given = sock[s].given
          /\ k.frames = sock[s].frames /\ k.heard = sock[s].heard
    <3>1. CASE s \in registry
      <4> DEFINE k == [sock[s] EXCEPT !.st = "gone", !.closed = TRUE, !.waiter = None]
      <4>1. sock' = [sock EXCEPT ![s] = k]
        BY <1>00, <1>13, <3>1 DEF PeerCloses, FrameInv, SocketsInv
      <4>2. /\ k \in Socket /\ k.st = "gone" /\ k.end = sock[s].end /\ k.given = sock[s].given
            /\ k.frames = sock[s].frames /\ k.heard = sock[s].heard
        BY <1>00 DEF Socket
      <4> HIDE DEF k
      <4> QED
        BY <4>1, <4>2
    <3>2. CASE s \notin registry
      <4> DEFINE k == [sock[s] EXCEPT !.st = "gone"]
      <4>1. sock' = [sock EXCEPT ![s] = k]
        BY <1>00, <1>13, <3>2 DEF PeerCloses, FrameInv, SocketsInv
      <4>2. /\ k \in Socket /\ k.st = "gone" /\ k.end = sock[s].end /\ k.given = sock[s].given
            /\ k.frames = sock[s].frames /\ k.heard = sock[s].heard
        BY <1>00 DEF Socket
      <4> HIDE DEF k
      <4> QED
        BY <4>1, <4>2
    <3> QED
      BY <3>1, <3>2
  <2>2. FramesOf(k, s \in registry) /\ registry' = registry
    BY <1>00, <1>13, <2>1 DEF FramesOf, PeerCloses
  <2> QED
    BY <1>11, <1>13, <2>1, <2>2, SocketEvent
<1>14. CASE Disconnect
  <2>1. task' = task /\ registry' = registry \ {slot}
    BY <1>14 DEF Disconnect
  <2>2. \A b \in Apps : Opening(b)' => Opening(b) /\ task'[b].key = task[b].key
    BY <2>1 DEF Opening
  <2>3. CASE slot \in registry
    <3>1. slot \in Sockets
      BY <2>3 DEF FrameInv, SocketsInv
    <3>2. sock' = [sock EXCEPT ![slot] = Close(sock[slot], "disconnect")]
      BY <1>14, <2>3, <3>1 DEF Disconnect, FrameInv, SocketsInv
    <3>3. /\ Close(sock[slot], "disconnect") \in Socket
          /\ FramesOf(Close(sock[slot], "disconnect"), FALSE)
      BY <1>00, <3>1, CloseSocket
    <3>4. SocketsInv'
      BY <2>1, <3>1, <3>2, <3>3, OneSocket DEF FrameInv
    <3>5. OpeningInv'
      BY <2>1, <2>2, <2>3, <3>1, <3>2, ElsewhereThanOpening DEF FrameInv, SocketsInv
    <3> QED
      BY <3>4, <3>5 DEF FrameInv
  <2>4. CASE slot \notin registry
    <3>1. sock' = sock /\ registry' = registry
      BY <1>14, <2>1, <2>4 DEF Disconnect, FrameInv, SocketsInv
    <3> QED
      BY <2>2, <3>1, SocketsStay
  <2> QED
    BY <2>3, <2>4
<1> QED
  BY <1>1, <1>2, <1>3, <1>4, <1>5, <1>6, <1>7, <1>8, <1>9, <1>10, <1>12, <1>13, <1>14 DEF Next

\* next_frame gives out what a socket heard, each frame once and in order, and
\* tells a reader that the socket closed only when nothing is left.
THEOREM ReadersGetEveryFrame == Spec => []FramesComplete
<1>1. Init => RequestInv /\ SlotTyped /\ FrameInv
  BY RequestInit, FrameInit, BrowserAssumption DEF Init, SlotTyped
<1>2. RequestInv /\ SlotTyped /\ FrameInv /\ [Next]_vars => (RequestInv /\ SlotTyped /\ FrameInv)'
  BY RequestStep, SlotStep, FrameStep, BrowserAssumption
<1>3. FrameInv => FramesComplete
  BY DEF FrameInv, SocketsInv, FramesOf, FramesComplete
<1> QED
  BY <1>1, <1>2, <1>3, PTL DEF Spec
=============================================================================
