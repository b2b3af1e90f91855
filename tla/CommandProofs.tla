----------------------------- MODULE CommandProofs -----------------------------
(***************************************************************************)
(* Proofs about Command, for every ring size, number of commands, tasks,   *)
(* producers and callbacks.                                                *)
(***************************************************************************)
EXTENDS Command, TLAPS

(* The index arithmetic of the ring without the modulus: Advance of        *)
(* command.c's (i + 1) % CMDQ_LEN.                                         *)
LEMMA AdvanceWraps ==
  ASSUME NEW i \in 0..CMDQ_LEN-1
  PROVE  /\ Advance(i) = IF i = CMDQ_LEN - 1 THEN 0 ELSE i + 1
         /\ Advance(i) \in 0..CMDQ_LEN-1
<1>1. CMDQ_LEN \in Nat /\ CMDQ_LEN > 1
  BY QueueAssumption
<1>2. CASE i = CMDQ_LEN - 1
  <2>1. (i + 1) % CMDQ_LEN = 0
    BY <1>1, <1>2
  <2> QED BY <1>1, <1>2, <2>1 DEF Advance
<1>3. CASE i # CMDQ_LEN - 1
  <2>1. i + 1 \in 0..CMDQ_LEN-1
    BY <1>1, <1>3
  <2>2. (i + 1) % CMDQ_LEN = i + 1
    BY <1>1, <2>1
  <2> QED BY <1>1, <1>3, <2>1, <2>2 DEF Advance
<1> QED BY <1>2, <1>3

(* Type correctness of the whole command service. *)
THEOREM TypeCorrect == Spec => []TypeOK
<1>1. Init => TypeOK
  BY QueueAssumption DEF Init, TypeOK, PC, Live, CmdStatus, Ctl, Fate
<1>2. TypeOK /\ [Next]_vars => TypeOK'
  <2> SUFFICES ASSUME TypeOK, [Next]_vars PROVE TypeOK'
    OBVIOUS
  <2> USE DEF TypeOK, PC, Live, CmdStatus, Ctl, Fate
  <2>0. Advance(head) \in 0..CMDQ_LEN-1 /\ Advance(tail) \in 0..CMDQ_LEN-1
    BY AdvanceWraps
  <2>1. ASSUME NEW t \in Tasks, HandlerStep(t) PROVE TypeOK'
    <3>1. CASE cmd_dequeue(t)
      BY <3>1, <2>0 DEF cmd_dequeue, Goto, prodVars
    <3>2. CASE FlushDone(t)
      BY <3>2 DEF FlushDone, Goto, queueVars, prodVars
    <3>3. CASE cmd_handle(t)
      BY <3>3 DEF cmd_handle, Goto, queueVars, prodVars
    <3>4. CASE ReplyAcked(t)
      BY <3>4 DEF ReplyAcked, Goto, queueVars, prodVars
    <3>5. CASE ReplyTimedOut(t)
      BY <3>5 DEF ReplyTimedOut, Goto, queueVars, prodVars
    <3>6. CASE CmdCallback(t)
      BY <3>6 DEF CmdCallback, Goto, queueVars, prodVars
    <3>7. CASE TestGlobalCb(t)
      BY <3>7 DEF TestGlobalCb, Handled, Goto, queueVars, prodVars
    <3>8. CASE CallGlobalCb(t)
      <4>1. PICK f \in {gcb[t], cmd_handled.cb} :
               called' = [cb |-> f, arg |-> cmd_handled.arg]
        BY <3>8 DEF CallGlobalCb
      <4>2. called' \in [cb : Clients \cup {NONE}, arg : Clients \cup {NONE}]
        BY <4>1
      <4> QED
        BY <3>8, <4>2 DEF CallGlobalCb, Handled, Goto, queueVars, prodVars
    <3>9. CASE ReceiveEvents(t)
      BY <3>9 DEF ReceiveEvents, Goto, queueVars, prodVars
    <3>10. CASE ClearRunning(t)
      BY <3>10 DEF ClearRunning, Goto, queueVars, prodVars
    <3>11. CASE TaskExit(t)
      BY <3>11 DEF TaskExit, Goto, queueVars, prodVars
    <3> QED
      BY <2>1, <3>1, <3>2, <3>3, <3>4, <3>5, <3>6, <3>7, <3>8, <3>9, <3>10, <3>11
         DEF HandlerStep
  <2>2. ASSUME NEW p \in Producers, ProducerStep(p) PROVE TypeOK'
    <3>1. ASSUME NEW c \in Cmds, cmd_enqueue_cb(p, c) PROVE TypeOK'
      BY <3>1, <2>0 DEF cmd_enqueue_cb, Insert, taskVars
    <3>2. ASSUME NEW c \in Cmds, EnqueueRefused(p, c) PROVE TypeOK'
      BY <3>2 DEF EnqueueRefused, Refuse, queueVars, taskVars, prodVars
    <3>3. CASE ReadTid(p)
      BY <3>3 DEF ReadTid, Return, Result, queueVars, taskVars
    <3>4. CASE SendNew(p)
      <4>1. PICK t \in {ptid[p], cmd_handler.tid} :
               EventSend(t, "NEW") /\ Return(p, EventSent(t))
        BY <3>4 DEF SendNew
      <4>2. t \in Tasks \cup {NONE}
        BY <4>1
      <4>3. events' \in [Tasks -> SUBSET Event]
        BY <4>1, <4>2 DEF EventSend, Event
      <4> QED
        BY <3>4, <4>1, <4>3 DEF SendNew, Return, Result, queueVars, taskVars
    <3> QED
      BY <2>2, <3>1, <3>2, <3>3, <3>4 DEF ProducerStep
  <2>3. CASE IsrStep
    <3>1. ASSUME NEW c \in Cmds, IsrEnqueue(c) PROVE TypeOK'
      BY <3>1, <2>0 DEF IsrEnqueue, Insert, EventSend, Event, Result, taskVars, prodVars
    <3>2. ASSUME NEW c \in Cmds, IsrRefuse(c) PROVE TypeOK'
      BY <3>2 DEF IsrRefuse, Refuse, queueVars, taskVars, prodVars
    <3> QED
      BY <2>3, <3>1, <3>2 DEF IsrStep
  <2>4. CASE CtlStep
    <3>1. ASSUME NEW t \in Tasks, cmd_handle_task_start(t) PROVE TypeOK'
      BY <3>1 DEF cmd_handle_task_start, cmd_handler_set, queueVars, taskVars, prodVars
    <3>2. CASE TaskStarted
      BY <3>2 DEF TaskStarted, Goto, queueVars, taskVars, prodVars
    <3>3. CASE TaskStartFailed
      BY <3>3 DEF TaskStartFailed, cmd_handler_set, queueVars, taskVars, prodVars
    <3>4. CASE cmd_handle_task_destroy
      BY <3>4 DEF cmd_handle_task_destroy, EventSend, Event, queueVars, taskVars, prodVars
    <3>5. CASE DestroyDone
      BY <3>5 DEF DestroyDone, cmd_handler_set, queueVars, taskVars, prodVars
    <3>6. CASE cmd_drop_all
      BY <3>6 DEF cmd_drop_all, taskVars, prodVars
    <3>7. ASSUME NEW k \in Clients, cmd_handled_register_cb(k) PROVE TypeOK'
      BY <3>7 DEF cmd_handled_register_cb, queueVars, taskVars, prodVars
    <3>8. CASE RegisterArg
      BY <3>8 DEF RegisterArg, queueVars, taskVars, prodVars
    <3>9. CASE cmd_handled_unregister_cb
      BY <3>9 DEF cmd_handled_unregister_cb, queueVars, taskVars, prodVars
    <3>10. CASE UnregisterArg
      BY <3>10 DEF UnregisterArg, queueVars, taskVars, prodVars
    <3> QED
      BY <2>4, <3>1, <3>2, <3>3, <3>4, <3>5, <3>6, <3>7, <3>8, <3>9, <3>10 DEF CtlStep
  <2>5. CASE UNCHANGED vars
    BY <2>5 DEF vars, queueVars, taskVars, prodVars
  <2> QED
    BY <2>1, <2>2, <2>3, <2>4, <2>5 DEF Next, Step, Halted
<1> QED BY <1>1, <1>2, PTL DEF Spec
-------------------------------------------------------------------------------
(* Between cmd_handle_task_start's stores and rtems_task_start no task     *)
(* runs.                                                                   *)
StartPending == ctl = "start" => /\ cmd_handler.tid \in Tasks
                                 /\ cmd_handler.running
                                 /\ cmd_handler.cb # "NULL"
                                 /\ \A t \in Tasks : pc[t] \notin Live

(* Otherwise running is set only while the task it stands for runs. *)
RunningIsLive == cmd_handler.running /\ ctl # "start" =>
                   cmd_handler.tid \in Tasks /\ pc[cmd_handler.tid] \in Live

(* The strengthening of SingleHandlerTask that the steps preserve. *)
HandlerInv == HandlerOwnsContext /\ StartPending /\ RunningIsLive

(* The handler context follows the handler task through every start, exit  *)
(* and destroy.                                                            *)
LEMMA HandlerInvStep ==
  ASSUME TypeOK, HandlerInv, [Next]_vars PROVE HandlerInv'
<1> USE DEF TypeOK, HandlerInv, HandlerOwnsContext, StartPending, RunningIsLive
<1>1. ASSUME NEW t \in Tasks, HandlerStep(t) PROVE HandlerInv'
  <2>1. CASE /\ pc[t] \in Live
             /\ \E l \in Live : Goto(t, l)
             /\ UNCHANGED <<cmd_handler, ctl>>
    <3>1. PICK l \in Live : Goto(t, l)
      BY <2>1
    <3>2. /\ pc' = [pc EXCEPT ![t] = l] /\ pc[t] \in Live /\ l \in Live
          /\ cmd_handler' = cmd_handler /\ ctl' = ctl
      BY <2>1, <3>1 DEF Goto
    <3>3. \A u \in Tasks : (pc'[u] \in Live) <=> (pc[u] \in Live)
      BY <3>2
    <3> QED BY <3>2, <3>3
  <2>2. CASE ClearRunning(t)
    <3>1. /\ pc[t] \in Live
          /\ pc' = [pc EXCEPT ![t] = "exiting"] /\ "exiting" \notin Live
          /\ cmd_handler' = [cmd_handler EXCEPT !.running = FALSE] /\ ctl' = ctl
      BY <2>2 DEF ClearRunning, Goto, Live
    <3>2. \A u \in Tasks : pc'[u] \notin Live
      BY <3>1
    <3>3. ~cmd_handler'.running
      BY <3>1
    <3>4. ctl # "start"
      BY <3>1
    <3> QED BY <3>1, <3>2, <3>3, <3>4
  <2>3. CASE TaskExit(t)
    <3>1. /\ pc[t] \notin Live /\ "gone" \notin Live
          /\ pc' = [pc EXCEPT ![t] = "gone"]
          /\ cmd_handler' = cmd_handler /\ ctl' = ctl
      BY <2>3 DEF TaskExit, Goto, Live
    <3>2. \A u \in Tasks : (pc'[u] \in Live) <=> (pc[u] \in Live)
      BY <3>1
    <3> QED BY <3>1, <3>2
  <2>4. CASE cmd_dequeue(t) \/ FlushDone(t) \/ cmd_handle(t) \/ ReplyAcked(t)
               \/ ReplyTimedOut(t) \/ CmdCallback(t)
    BY <2>1, <2>4 DEF cmd_dequeue, FlushDone, cmd_handle, ReplyAcked, ReplyTimedOut,
       CmdCallback, Live
  <2>5. CASE TestGlobalCb(t) \/ CallGlobalCb(t) \/ ReceiveEvents(t)
    BY <2>1, <2>5 DEF TestGlobalCb, CallGlobalCb, Handled, ReceiveEvents, Live
  <2> QED BY <1>1, <2>2, <2>3, <2>4, <2>5 DEF HandlerStep
<1>2. CASE UNCHANGED <<pc, cmd_handler, ctl>>
  BY <1>2
<1>3. ASSUME NEW p \in Producers, ProducerStep(p) PROVE HandlerInv'
  BY <1>2, <1>3 DEF ProducerStep, cmd_enqueue_cb, EnqueueRefused, ReadTid, SendNew,
     taskVars
<1>4. CASE IsrStep
  BY <1>2, <1>4 DEF IsrStep, IsrEnqueue, IsrRefuse, taskVars
<1>5. CASE CtlStep
  <2>1. ASSUME NEW t \in Tasks, cmd_handle_task_start(t) PROVE HandlerInv'
    <3>1. /\ cmd_handler' = [tid |-> t, cb |-> "server_process", running |-> TRUE]
          /\ ~cmd_handler.running /\ pc' = pc /\ ctl' = "start"
      BY <2>1 DEF cmd_handle_task_start, cmd_handler_set, taskVars
    <3>2. \A u \in Tasks : pc'[u] \notin Live
      BY <3>1
    <3> QED BY <3>1, <3>2
  <2>2. CASE TaskStarted
    <3>1. /\ ctl = "start" /\ ctl' = "idle" /\ cmd_handler' = cmd_handler
          /\ pc' = [pc EXCEPT ![cmd_handler.tid] = "flush"] /\ "flush" \in Live
      BY <2>2 DEF TaskStarted, Goto, Live
    <3>2. \A u \in Tasks : (pc'[u] \in Live) <=> (u = cmd_handler.tid)
      BY <3>1
    <3> QED BY <3>1, <3>2
  <2>3. CASE TaskStartFailed \/ DestroyDone
    <3>1. /\ cmd_handler' = [tid |-> NONE, cb |-> "NULL", running |-> FALSE]
          /\ pc' = pc /\ ctl' = "idle" /\ (ctl = "start" \/ ~cmd_handler.running)
      BY <2>3 DEF TaskStartFailed, DestroyDone, cmd_handler_set, taskVars
    <3>2. \A u \in Tasks : pc'[u] \notin Live
      BY <3>1
    <3> QED BY <3>1, <3>2
  <2>4. CASE \/ cmd_handle_task_destroy \/ cmd_drop_all
             \/ \E k \in Clients : cmd_handled_register_cb(k)
             \/ RegisterArg \/ cmd_handled_unregister_cb \/ UnregisterArg
    <3>1. /\ pc' = pc /\ cmd_handler' = cmd_handler
          /\ ctl # "start" /\ ctl' # "start"
      BY <2>4 DEF cmd_handle_task_destroy, cmd_drop_all, cmd_handled_register_cb,
         MayRegister, RegisterArg, cmd_handled_unregister_cb, UnregisterArg, taskVars
    <3> QED BY <3>1
  <2> QED BY <1>5, <2>1, <2>2, <2>3, <2>4 DEF CtlStep
<1>6. CASE UNCHANGED vars
  BY <1>2, <1>6 DEF vars, taskVars
<1> QED BY <1>1, <1>3, <1>4, <1>5, <1>6 DEF Next, Step, Halted

(* Before anything is started no task runs, so the context is nobody's. *)
LEMMA HandlerInvInit == Init => HandlerInv
BY TaskAssumption DEF Init, HandlerInv, HandlerOwnsContext, StartPending, RunningIsLive, Live

(* A running handler task owns the handler context: assert(cmd_handler.cb) *)
(* never fails and events meant for the handler reach the task that runs,  *)
(* through any interleaving of starts, destroys, producers and interrupts. *)
THEOREM HandlerOwns == Spec => []HandlerOwnsContext
<1>1. HandlerInv => HandlerOwnsContext
  BY DEF HandlerInv
<1> QED BY TypeCorrect, HandlerInvInit, HandlerInvStep, <1>1, PTL DEF Spec

(* No two tasks ever run the handler loop at the same time. *)
THEOREM SingleHandler == Spec => []SingleHandlerTask
<1>1. HandlerOwnsContext => SingleHandlerTask
  BY DEF HandlerOwnsContext, SingleHandlerTask
<1> QED BY HandlerOwns, <1>1, PTL

(* When cmd_handle_task_destroy returns, no task is in the handler loop:   *)
(* the links its commands refer to may be freed.                           *)
THEOREM DestroyStops == Spec => DestroyStopsHandler
<1> DEFINE Stops == ctl = "destroy" /\ ctl' = "idle" => \A t \in Tasks : pc[t] \notin Live
<1>1. ASSUME TypeOK, HandlerOwnsContext, [Next]_vars PROVE [Stops]_vars
  <2> SUFFICES ASSUME ctl = "destroy", ctl' = "idle"
               PROVE  \A t \in Tasks : pc[t] \notin Live
    OBVIOUS
  <2>1. ~(UNCHANGED vars)
    BY DEF vars
  <2>2. ASSUME NEW t \in Tasks, HandlerStep(t) PROVE FALSE
    BY <2>2 DEF HandlerStep, cmd_dequeue, FlushDone, cmd_handle, ReplyAcked,
       ReplyTimedOut, CmdCallback, TestGlobalCb, CallGlobalCb, ReceiveEvents,
       ClearRunning, TaskExit
  <2>3. ASSUME NEW p \in Producers, ProducerStep(p) PROVE FALSE
    BY <2>3 DEF ProducerStep, cmd_enqueue_cb, EnqueueRefused, ReadTid, SendNew
  <2>4. ~IsrStep
    BY DEF IsrStep, IsrEnqueue, IsrRefuse
  <2>5. CtlStep
    BY <1>1, <2>1, <2>2, <2>3, <2>4 DEF Next, Step, Halted
  <2>6. DestroyDone
    BY <2>5 DEF CtlStep, cmd_handle_task_start, TaskStarted, TaskStartFailed,
       cmd_handle_task_destroy, cmd_drop_all, cmd_handled_register_cb, MayRegister,
       RegisterArg, cmd_handled_unregister_cb, UnregisterArg
  <2> QED BY <1>1, <2>6 DEF DestroyDone, HandlerOwnsContext
<1>2. DestroyStopsHandler <=> [][Stops]_vars
  BY PTL DEF DestroyStopsHandler
<1> QED BY <1>1, <1>2, TypeCorrect, HandlerOwns, PTL DEF Spec
-------------------------------------------------------------------------------
(* Every step keeps a wake-up on its way to a task that waits while        *)
(* commands are queued.                                                    *)
LEMMA WakeupStep ==
  ASSUME TypeOK, HandlerInv, NoLostWakeup, [Next]_vars PROVE NoLostWakeup'
<1> SUFFICES ASSUME NEW u \in Tasks, pc'[u] = "wait", head' # tail'
             PROVE  \/ "NEW" \in events'[u]
                    \/ \E p \in Producers : \/ ppc'[p] = "notify"
                                            \/ ppc'[p] = "send" /\ ptid'[p] = u
  BY DEF NoLostWakeup, QueueEmpty
<1> DEFINE Coming == \/ "NEW" \in events[u]
                     \/ \E p \in Producers : \/ ppc[p] = "notify"
                                             \/ ppc[p] = "send" /\ ptid[p] = u
<1>0. pc[u] = "wait" /\ head # tail => Coming
  BY DEF NoLostWakeup, QueueEmpty
<1>a. pc[u] = "wait" => cmd_handler.tid = u
  BY DEF HandlerInv, HandlerOwnsContext, Live
<1>1. ASSUME NEW t \in Tasks, HandlerStep(t) PROVE Coming'
  <2> USE DEF Goto, prodVars, queueVars
  <2>1. CASE FlushDone(t)
    <3>1. u # t
      BY <2>1 DEF FlushDone, QueueEmpty
    <3> QED BY <1>0, <2>1, <3>1 DEF FlushDone, TypeOK
  <2>2. CASE cmd_dequeue(t)
    <3>1. u # t
      BY <2>2 DEF cmd_dequeue, TypeOK
    <3>2. pc[u] = "wait" /\ pc[t] = "flush"
      BY <2>2, <3>1 DEF cmd_dequeue, TypeOK
    <3> QED BY <3>1, <3>2 DEF HandlerInv, HandlerOwnsContext, Live
  <2>3. CASE ReceiveEvents(t)
    <3>1. u # t
      BY <2>3 DEF ReceiveEvents, TypeOK
    <3> QED BY <1>0, <2>3, <3>1 DEF ReceiveEvents, TypeOK
  <2>4. CASE TestGlobalCb(t) \/ CallGlobalCb(t)
    <3>1. /\ pc'[t] # "wait" /\ \A v \in Tasks : v # t => pc'[v] = pc[v]
          /\ UNCHANGED <<head, tail, events, ppc, ptid>>
      BY <2>4 DEF TestGlobalCb, CallGlobalCb, Handled, TypeOK
    <3> QED BY <1>0, <3>1
  <2>5. CASE \/ cmd_handle(t) \/ ReplyAcked(t) \/ ReplyTimedOut(t) \/ CmdCallback(t)
             \/ ClearRunning(t) \/ TaskExit(t)
    <3>1. /\ pc'[t] # "wait" /\ \A v \in Tasks : v # t => pc'[v] = pc[v]
          /\ UNCHANGED <<head, tail, events, ppc, ptid>>
      BY <2>5 DEF cmd_handle, ReplyAcked, ReplyTimedOut, CmdCallback, ClearRunning,
         TaskExit, TypeOK
    <3> QED BY <1>0, <3>1
  <2> QED BY <1>1, <2>1, <2>2, <2>3, <2>4, <2>5 DEF HandlerStep
<1>2. ASSUME NEW p \in Producers, ProducerStep(p) PROVE Coming'
  <2> USE DEF taskVars, queueVars, prodVars
  <2>1. ASSUME NEW c \in Cmds, cmd_enqueue_cb(p, c) PROVE Coming'
    <3>1. ppc'[p] = "notify"
      BY <2>1 DEF cmd_enqueue_cb, TypeOK
    <3> QED BY <3>1
  <2>2. ASSUME NEW c \in Cmds, EnqueueRefused(p, c) PROVE Coming'
    BY <1>0, <2>2 DEF EnqueueRefused
  <2>3. CASE ReadTid(p)
    <3>1. pc[u] = "wait" /\ head # tail /\ events' = events
      BY <2>3 DEF ReadTid
    <3>2. cmd_handler.tid = u /\ u # NONE
      BY <1>a, <3>1, TaskAssumption
    <3>3. ppc'[p] = "send" /\ ptid'[p] = u
      BY <2>3, <3>2 DEF ReadTid, TypeOK
    <3> QED BY <3>3
  <2>4. CASE SendNew(p)
    <3>1. pc[u] = "wait" /\ head # tail
      BY <2>4 DEF SendNew
    <3>2. cmd_handler.tid = u /\ u # NONE
      BY <1>a, <3>1, TaskAssumption
    <3>3. PICK t \in {ptid[p], cmd_handler.tid} : EventSend(t, "NEW") /\ Return(p, EventSent(t))
      BY <2>4 DEF SendNew
    <3>4. /\ ppc' = [ppc EXCEPT ![p] = "idle"] /\ ptid' = [ptid EXCEPT ![p] = NONE]
          /\ ppc[p] = "send"
      BY <2>4, <3>3 DEF Return, SendNew
    <3>5. t \in Tasks \cup {NONE}
      BY <3>3 DEF TypeOK
    <3>6. events[u] \subseteq events'[u] /\ (t = u => "NEW" \in events'[u])
      BY <3>1, <3>2, <3>3, <3>5 DEF EventSend, TypeOK
    <3>7. CASE t = u
      BY <3>6, <3>7
    <3>8. CASE t # u
      <4>1. ptid[p] # u
        BY <3>2, <3>3, <3>8
      <4>2. \A r \in Producers : r # p => ppc'[r] = ppc[r] /\ ptid'[r] = ptid[r]
        BY <3>4 DEF TypeOK
      <4> QED BY <1>0, <3>1, <3>4, <3>6, <4>1, <4>2
    <3> QED BY <3>7, <3>8
  <2> QED BY <1>2, <2>1, <2>2, <2>3, <2>4 DEF ProducerStep
<1>3. CASE IsrStep
  <2> USE DEF taskVars, queueVars, prodVars
  <2>1. ASSUME NEW c \in Cmds, IsrEnqueue(c) PROVE Coming'
    <3>1. pc[u] = "wait" /\ EventSend(cmd_handler.tid, "NEW")
      BY <2>1 DEF IsrEnqueue
    <3>2. cmd_handler.tid = u /\ u # NONE
      BY <1>a, <3>1, TaskAssumption
    <3>3. "NEW" \in events'[u]
      BY <3>1, <3>2 DEF EventSend, TypeOK
    <3> QED BY <3>3
  <2>2. ASSUME NEW c \in Cmds, IsrRefuse(c) PROVE Coming'
    BY <1>0, <2>2 DEF IsrRefuse
  <2> QED BY <1>3, <2>1, <2>2 DEF IsrStep
<1>4. CASE CtlStep
  <2> USE DEF taskVars, queueVars, prodVars
  <2>1. CASE TaskStarted
    <3>1. pc[u] = "wait"
      BY <2>1 DEF TaskStarted, Goto, HandlerInv, StartPending, TypeOK
    <3> QED BY <1>0, <2>1, <3>1 DEF TaskStarted
  <2>2. CASE cmd_handle_task_destroy
    <3>1. events[u] \subseteq events'[u]
      BY <2>2 DEF cmd_handle_task_destroy, EventSend, TypeOK
    <3> QED BY <1>0, <2>2, <3>1 DEF cmd_handle_task_destroy
  <2>3. CASE cmd_drop_all
    BY <2>3 DEF cmd_drop_all
  <2>4. CASE UNCHANGED <<pc, head, tail, events, ppc, ptid>>
    BY <1>0, <2>4
  <2> QED
    BY <1>4, <2>1, <2>2, <2>3, <2>4 DEF CtlStep, cmd_handle_task_start, TaskStartFailed,
       DestroyDone, cmd_handled_register_cb, RegisterArg, cmd_handled_unregister_cb,
       UnregisterArg
<1>5. CASE UNCHANGED vars
  BY <1>0, <1>5 DEF vars, taskVars, queueVars, prodVars
<1> QED BY <1>1, <1>2, <1>3, <1>4, <1>5 DEF Next, Step, Halted

(* The handler never sleeps on a command that nobody will announce: the    *)
(* notification outside the lock and the wait outside the lock do not lose *)
(* a wake-up, whatever the number of producers.                            *)
THEOREM WakeupNotLost == Spec => []NoLostWakeup
<1>1. Init => NoLostWakeup
  BY DEF Init, NoLostWakeup
<1> QED BY <1>1, TypeCorrect, HandlerInvInit, HandlerInvStep, WakeupStep, PTL DEF Spec
-------------------------------------------------------------------------------
(* The slots of the ring after an insertion that leaves a slot free.       *)
LEMMA InsertSlots ==
  ASSUME TypeOK, cmdq_size < CMDQ_LEN - 1, head' = Advance(head), tail' = tail,
         NEW i \in 0..CMDQ_LEN-1
  PROVE  /\ ~InRing(Advance(head))
         /\ InRing(i)' <=> InRing(i) \/ i = Advance(head)
<1>1. CMDQ_LEN \in Nat /\ CMDQ_LEN > 1
  BY QueueAssumption
<1>2. Advance(head) = IF head = CMDQ_LEN - 1 THEN 0 ELSE head + 1
  BY AdvanceWraps DEF TypeOK
<1>3. head \in 0..CMDQ_LEN-1 /\ tail \in 0..CMDQ_LEN-1
  BY DEF TypeOK
<1>4. InRing(i)' <=> IF tail <= Advance(head) THEN tail < i /\ i <= Advance(head)
                     ELSE tail < i \/ i <= Advance(head)
  BY DEF InRing
<1> QED BY <1>1, <1>2, <1>3, <1>4 DEF InRing, cmdq_size

(* The slots of the ring after a removal. *)
LEMMA RemoveSlots ==
  ASSUME TypeOK, head # tail, tail' = Advance(tail), head' = head,
         NEW i \in 0..CMDQ_LEN-1
  PROVE  /\ InRing(Advance(tail))
         /\ InRing(i)' <=> InRing(i) /\ i # Advance(tail)
<1>1. CMDQ_LEN \in Nat /\ CMDQ_LEN > 1
  BY QueueAssumption
<1>2. Advance(tail) = IF tail = CMDQ_LEN - 1 THEN 0 ELSE tail + 1
  BY AdvanceWraps DEF TypeOK
<1>3. head \in 0..CMDQ_LEN-1 /\ tail \in 0..CMDQ_LEN-1
  BY DEF TypeOK
<1>4. InRing(i)' <=> IF Advance(tail) <= head THEN Advance(tail) < i /\ i <= head
                     ELSE Advance(tail) < i \/ i <= head
  BY DEF InRing
<1> QED BY <1>1, <1>2, <1>3, <1>4 DEF InRing

(* QueueHoldsAccepted in the form the steps preserve, with the command     *)
(* being handled kept apart from the queued ones.                          *)
Slots == 0..CMDQ_LEN-1
RingInv ==
  /\ \A i \in Slots : InRing(i) => q[i] \in Cmds /\ fate[q[i]] = "queued"
  /\ \A i, j \in Slots : InRing(i) /\ InRing(j) /\ q[i] = q[j] => i = j
  /\ \A c \in Cmds : fate[c] = "queued" => \E i \in Slots : InRing(i) /\ q[i] = c
  /\ \A t \in Tasks : cur[t] \in Cmds => fate[cur[t]] \notin {"new", "queued"}

(* An accepted command joins the ring without disturbing the others. *)
LEMMA RingInsert ==
  ASSUME TypeOK, RingInv, NEW c \in Cmds, fate[c] = "new", Insert(c),
         cmdq_size < CMDQ_LEN - 1, cur' = cur
  PROVE  RingInv'
<1> USE DEF Slots
<1>1. /\ head' = Advance(head) /\ tail' = tail
      /\ q' = [q EXCEPT ![Advance(head)] = c]
      /\ fate' = [fate EXCEPT ![c] = "queued"]
  BY DEF Insert
<1>2. Advance(head) \in Slots
  BY AdvanceWraps DEF TypeOK
<1>3. ~InRing(Advance(head))
  BY <1>1, <1>2, InsertSlots
<1>4. \A i \in Slots : InRing(i)' <=> InRing(i) \/ i = Advance(head)
  BY <1>1, InsertSlots
<1>5. \A i \in Slots : q'[i] = IF i = Advance(head) THEN c ELSE q[i]
  BY <1>1, <1>2 DEF TypeOK
<1>6. \A d \in Cmds : fate'[d] = IF d = c THEN "queued" ELSE fate[d]
  BY <1>1 DEF TypeOK
<1>7. \A i \in Slots : InRing(i) => q[i] # c
  BY DEF RingInv
<1>8. (\A i \in Slots : InRing(i) => q[i] \in Cmds /\ fate[q[i]] = "queued")'
  BY <1>3, <1>4, <1>5, <1>6 DEF RingInv
<1>9. (\A i, j \in Slots : InRing(i) /\ InRing(j) /\ q[i] = q[j] => i = j)'
  BY <1>3, <1>4, <1>5, <1>7 DEF RingInv
<1>10. (\A d \in Cmds : fate[d] = "queued" => \E i \in Slots : InRing(i) /\ q[i] = d)'
  BY <1>2, <1>3, <1>4, <1>5, <1>6 DEF RingInv
<1>11. (\A t \in Tasks : cur[t] \in Cmds => fate[cur[t]] \notin {"new", "queued"})'
  BY <1>6 DEF RingInv
<1> QED BY <1>8, <1>9, <1>10, <1>11 DEF RingInv

(* cmd_dequeue takes the oldest command out of the ring and only that one. *)
LEMMA RingRemove ==
  ASSUME TypeOK, RingInv, NEW t \in Tasks, cmd_dequeue(t) PROVE RingInv'
<1> USE DEF Slots
<1> DEFINE n == Advance(tail)
<1>1. /\ head # tail /\ tail' = n /\ head' = head /\ q' = q
      /\ cur' = [cur EXCEPT ![t] = q[n]]
      /\ fate' = [fate EXCEPT ![q[n]] = "taken"]
  BY DEF cmd_dequeue, QueueEmpty
<1>2. n \in Slots
  BY AdvanceWraps DEF TypeOK
<1>3. InRing(n)
  BY <1>1, <1>2, RemoveSlots
<1>4. \A i \in Slots : InRing(i)' <=> InRing(i) /\ i # n
  BY <1>1, RemoveSlots
<1> HIDE DEF n
<1>5. q[n] \in Cmds
  BY <1>2, <1>3 DEF RingInv
<1>6. \A d \in Cmds : fate'[d] = IF d = q[n] THEN "taken" ELSE fate[d]
  BY <1>1, <1>5 DEF TypeOK
<1>7. \A u \in Tasks : cur'[u] = IF u = t THEN q[n] ELSE cur[u]
  BY <1>1 DEF TypeOK
<1>8. (\A i \in Slots : InRing(i) => q[i] \in Cmds /\ fate[q[i]] = "queued")'
  BY <1>1, <1>2, <1>3, <1>4, <1>6 DEF RingInv
<1>9. (\A i, j \in Slots : InRing(i) /\ InRing(j) /\ q[i] = q[j] => i = j)'
  BY <1>1, <1>4 DEF RingInv
<1>10. (\A d \in Cmds : fate[d] = "queued" => \E i \in Slots : InRing(i) /\ q[i] = d)'
  BY <1>1, <1>4, <1>6 DEF RingInv
<1>11. (\A u \in Tasks : cur[u] \in Cmds => fate[cur[u]] \notin {"new", "queued"})'
  BY <1>5, <1>6, <1>7 DEF RingInv
<1> QED BY <1>8, <1>9, <1>10, <1>11 DEF RingInv

(* A step that leaves the ring alone and only moves commands between       *)
(* states outside it.                                                      *)
Outside == \A c \in Cmds :
             \/ fate'[c] = fate[c]
             \/ fate[c] # "queued" /\ fate'[c] \notin {"new", "queued"}

(* Such a step keeps the ring invariant. *)
LEMMA RingKept ==
  ASSUME TypeOK, TypeOK', RingInv, UNCHANGED queueVars, Outside,
         \A t \in Tasks : cur'[t] = cur[t] \/ cur'[t] = NONE
  PROVE  RingInv'
<1> USE DEF Outside
<1>1. \A i \in Slots : InRing(i)' <=> InRing(i)
  BY DEF InRing, queueVars
<1>2. q' = q
  BY DEF queueVars
<1>3. (\A t \in Tasks : cur[t] \in Cmds => fate[cur[t]] \notin {"new", "queued"})'
  BY CmdAssumption DEF RingInv
<1> QED BY <1>1, <1>2, <1>3 DEF RingInv

(* Every step of the service keeps the ring invariant while callers stay   *)
(* off the full ring that the full test does not see.                      *)
LEMMA RingStep ==
  ASSUME TypeOK, TypeOK', RingInv, HoldBack, [Next]_vars PROVE RingInv'
<1>0. ASSUME UNCHANGED <<queueVars, cur, fate>> PROVE RingInv'
  <2>1. Outside
    BY <1>0 DEF Outside
  <2>2. \A t \in Tasks : cur'[t] = cur[t] \/ cur'[t] = NONE
    BY <1>0
  <2>3. UNCHANGED queueVars
    BY <1>0
  <2> QED BY <2>1, <2>2, <2>3, RingKept
<1>1. ASSUME NEW t \in Tasks, HandlerStep(t) PROVE RingInv'
  <2>1. CASE cmd_dequeue(t)
    BY <2>1, RingRemove
  <2>2. CASE UNCHANGED <<queueVars, cur, fate>>
    BY <1>0, <2>2
  <2>3. CASE Handled(t) /\ UNCHANGED queueVars
    <3>1. \A u \in Tasks : cur'[u] = cur[u] \/ cur'[u] = NONE
      BY <2>3 DEF Handled, TypeOK
    <3>2. \A c \in Cmds : fate'[c] = IF c = cur[t] THEN "handled" ELSE fate[c]
      BY <2>3 DEF Handled, TypeOK
    <3>3. \A c \in Cmds : c = cur[t] => fate[c] # "queued"
      BY DEF RingInv
    <3>4. Outside
      BY <3>2, <3>3 DEF Outside
    <3> QED BY <2>3, <3>1, <3>4, RingKept
  <2> QED
    BY <1>1, <2>1, <2>2, <2>3 DEF HandlerStep, FlushDone, cmd_handle, ReplyAcked,
       ReplyTimedOut, CmdCallback, TestGlobalCb, CallGlobalCb, ReceiveEvents,
       ClearRunning, TaskExit
<1>2. ASSUME NEW c \in Cmds, fate[c] = "new", Refuse(c), UNCHANGED <<queueVars, cur>>
      PROVE  RingInv'
  <2>1. \A d \in Cmds : fate'[d] = IF d = c THEN "refused" ELSE fate[d]
    BY <1>2 DEF Refuse, TypeOK
  <2>2. Outside
    BY <1>2, <2>1 DEF Outside
  <2>3. \A t \in Tasks : cur'[t] = cur[t] \/ cur'[t] = NONE
    BY <1>2
  <2> QED BY <1>2, <2>2, <2>3, RingKept
<1>3. ASSUME NEW p \in Producers, ProducerStep(p) PROVE RingInv'
  <2>1. ASSUME NEW c \in Cmds, cmd_enqueue_cb(p, c) PROVE RingInv'
    BY <2>1, RingInsert DEF cmd_enqueue_cb, MayEnqueue, taskVars
  <2>2. ASSUME NEW c \in Cmds, EnqueueRefused(p, c) PROVE RingInv'
    BY <2>2, <1>2 DEF EnqueueRefused, MayEnqueue, taskVars
  <2>3. CASE ReadTid(p) \/ SendNew(p)
    BY <1>0, <2>3 DEF ReadTid, SendNew, taskVars
  <2> QED BY <1>3, <2>1, <2>2, <2>3 DEF ProducerStep
<1>4. CASE IsrStep
  <2>1. ASSUME NEW c \in Cmds, IsrEnqueue(c) PROVE RingInv'
    BY <2>1, RingInsert DEF IsrEnqueue, MayEnqueue, taskVars
  <2>2. ASSUME NEW c \in Cmds, IsrRefuse(c) PROVE RingInv'
    BY <2>2, <1>2 DEF IsrRefuse, MayEnqueue, taskVars
  <2> QED BY <1>4, <2>1, <2>2 DEF IsrStep
<1>5. CASE CtlStep
  <2>1. CASE cmd_drop_all
    <3>1. /\ tail' = head /\ head' = head /\ q' = q /\ cur' = cur
          /\ fate' = [c \in Cmds |-> IF c \in Queued THEN "dropped" ELSE fate[c]]
      BY <2>1 DEF cmd_drop_all, taskVars
    <3>2. \A i \in Slots : ~InRing(i)'
      BY <3>1, QueueAssumption DEF InRing, Slots, TypeOK
    <3>3. \A c \in Cmds : fate[c] = "queued" => c \in Queued
      BY DEF RingInv, Queued, Slots
    <3>4. \A c \in Cmds : fate'[c] # "queued" /\ (fate'[c] = "new" => fate[c] = "new")
      BY <3>1, <3>3
    <3> QED BY <3>1, <3>2, <3>4 DEF RingInv
  <2>2. CASE UNCHANGED <<queueVars, cur, fate>>
    BY <1>0, <2>2
  <2> QED
    BY <1>5, <2>1, <2>2 DEF CtlStep, cmd_handle_task_start, TaskStarted, TaskStartFailed,
       cmd_handle_task_destroy, DestroyDone, cmd_handled_register_cb, RegisterArg,
       cmd_handled_unregister_cb, UnregisterArg, taskVars
<1>6. CASE UNCHANGED vars
  BY <1>0, <1>6 DEF vars, taskVars
<1> QED BY <1>1, <1>3, <1>4, <1>5, <1>6 DEF Next, Step, Halted

(* The ring loses, duplicates and invents no command, for every ring size, *)
(* as long as nobody submits to it in the one case that the full test of   *)
(* cmd_enqueue_cb_unsafe misses; the run without that restriction shows    *)
(* that it is needed.                                                      *)
THEOREM QueueIntegrity == HoldBack /\ Spec => []QueueHoldsAccepted
<1>1. Init => RingInv
  <2> SUFFICES ASSUME Init PROVE RingInv
    OBVIOUS
  <2>1. \A i \in Slots : ~InRing(i)
    BY QueueAssumption DEF Init, InRing, Slots
  <2> QED BY <2>1, CmdAssumption DEF Init, RingInv
<1>2. RingInv => QueueHoldsAccepted
  <2> SUFFICES ASSUME RingInv PROVE QueueHoldsAccepted
    OBVIOUS
  <2>1. Queued = {c \in Cmds : fate[c] = "queued"}
    BY DEF RingInv, Queued, Slots
  <2> QED BY <2>1 DEF RingInv, QueueHoldsAccepted, Slots
<1>3. CASE HoldBack
  <2>1. TypeOK /\ TypeOK' /\ RingInv /\ [Next]_vars => RingInv'
    BY <1>3, RingStep
  <2> QED BY <1>1, <1>2, <2>1, TypeCorrect, PTL DEF Spec
<1> QED BY <1>3

-------------------------------------------------------------------------------
(* The ring implements the bounded FIFO of CommandQueue. *)

(* The slot of the i-th oldest command, without the modulus. *)
Slot(i) == IF tail + i < CMDQ_LEN THEN tail + i ELSE tail + i - CMDQ_LEN

(* The remainder of a sum of two indices. *)
LEMMA SumWraps ==
  ASSUME NEW n \in 0..2*CMDQ_LEN-1
  PROVE  n % CMDQ_LEN = IF n < CMDQ_LEN THEN n ELSE n - CMDQ_LEN
<1>1. CMDQ_LEN \in Nat /\ CMDQ_LEN > 1
  BY QueueAssumption
<1>2. CASE n < CMDQ_LEN
  BY <1>1, <1>2
<1>3. CASE n >= CMDQ_LEN
  <2>1. n - CMDQ_LEN \in 0..CMDQ_LEN-1 /\ n = 1 * CMDQ_LEN + (n - CMDQ_LEN)
    BY <1>1, <1>3
  <2>2. n % CMDQ_LEN = n - CMDQ_LEN
    BY <1>1, <2>1
  <2>3. ~(n < CMDQ_LEN)
    BY <1>1, <1>3
  <2> QED BY <2>2, <2>3
<1> QED BY <1>1, <1>2, <1>3

(* The sequence of the queued commands, slot by slot. *)
LEMMA QueueSlots ==
  ASSUME TypeOK
  PROVE  /\ cmdq_size \in 0..CMDQ_LEN-1
         /\ QueueSeq = [i \in 1..cmdq_size |-> q[Slot(i)]]
         /\ \A i \in 1..cmdq_size : Slot(i) \in Slots /\ InRing(Slot(i))
         /\ \A j \in Slots : InRing(j) => \E i \in 1..cmdq_size : Slot(i) = j
         /\ \A i, j \in 1..cmdq_size : Slot(i) = Slot(j) => i = j
<1>1. CMDQ_LEN \in Nat /\ CMDQ_LEN > 1 /\ head \in 0..CMDQ_LEN-1 /\ tail \in 0..CMDQ_LEN-1
  BY QueueAssumption DEF TypeOK
<1>2. cmdq_size \in 0..CMDQ_LEN-1
  BY <1>1 DEF cmdq_size
<1>3. \A i \in 1..cmdq_size : (tail + i) % CMDQ_LEN = Slot(i)
  <2> SUFFICES ASSUME NEW i \in 1..cmdq_size PROVE (tail + i) % CMDQ_LEN = Slot(i)
    OBVIOUS
  <2>1. tail + i \in 0..2*CMDQ_LEN-1
    BY <1>1, <1>2
  <2>2. \A n \in 0..2*CMDQ_LEN-1 : n % CMDQ_LEN = IF n < CMDQ_LEN THEN n ELSE n - CMDQ_LEN
    BY SumWraps, Zenon
  <2>3. PICK n \in 0..2*CMDQ_LEN-1 : n = tail + i
    BY <2>1
  <2>4. n % CMDQ_LEN = IF n < CMDQ_LEN THEN n ELSE n - CMDQ_LEN
    BY <2>2, Zenon
  <2>5. (tail + i) % CMDQ_LEN = n % CMDQ_LEN
    BY <2>3
  <2>6. Slot(i) = IF n < CMDQ_LEN THEN n ELSE n - CMDQ_LEN
    BY <1>1, <1>2, <2>3 DEF Slot
  <2> QED BY <2>4, <2>5, <2>6
<1>4. \A i \in 1..cmdq_size : Slot(i) \in Slots /\ InRing(Slot(i))
  BY <1>1 DEF Slot, Slots, InRing, cmdq_size
<1>5. ASSUME NEW j \in Slots, InRing(j) PROVE \E i \in 1..cmdq_size : Slot(i) = j
  <2>1. CASE tail < j
    <3>1. j - tail \in 1..cmdq_size /\ Slot(j - tail) = j
      BY <1>1, <1>5, <2>1 DEF Slot, Slots, InRing, cmdq_size
    <3> QED BY <3>1
  <2>2. CASE ~(tail < j)
    <3>1. j - tail + CMDQ_LEN \in 1..cmdq_size /\ Slot(j - tail + CMDQ_LEN) = j
      BY <1>1, <1>5, <2>2 DEF Slot, Slots, InRing, cmdq_size
    <3> QED BY <3>1
  <2> QED BY <2>1, <2>2
<1>6. \A i, j \in 1..cmdq_size : Slot(i) = Slot(j) => i = j
  BY <1>1, <1>2 DEF Slot
<1>7. QueueSeq = [i \in 1..cmdq_size |-> q[Slot(i)]]
  BY <1>3 DEF QueueSeq
<1> QED BY <1>2, <1>4, <1>5, <1>6, <1>7

(* An insertion appends to the sequence. *)
LEMMA InsertAppends ==
  ASSUME TypeOK, TypeOK', cmdq_size < CMDQ_LEN - 1, NEW c \in Cmds, Insert(c)
  PROVE  QueueSeq' = Append(QueueSeq, c)
<1>1. CMDQ_LEN \in Nat /\ CMDQ_LEN > 1 /\ head \in 0..CMDQ_LEN-1 /\ tail \in 0..CMDQ_LEN-1
  BY QueueAssumption DEF TypeOK
<1>2. /\ head' = Advance(head) /\ tail' = tail /\ q' = [q EXCEPT ![Advance(head)] = c]
      /\ Advance(head) = (IF head = CMDQ_LEN - 1 THEN 0 ELSE head + 1)
  BY AdvanceWraps DEF Insert, TypeOK
<1>3. cmdq_size' = cmdq_size + 1
  BY <1>1, <1>2 DEF cmdq_size
<1>4. /\ QueueSeq = [i \in 1..cmdq_size |-> q[Slot(i)]]
      /\ cmdq_size \in Nat
      /\ \A i \in 1..cmdq_size : Slot(i) \in Slots /\ InRing(Slot(i))
  BY QueueSlots, QueueAssumption
<1>5. QueueSeq' = [i \in 1..cmdq_size' |-> q'[Slot(i)']]
  <2>1. (QueueSeq = [i \in 1..cmdq_size |-> q[Slot(i)]])'
    BY QueueSlots, PTL
  <2> QED BY <2>1
<1>6. \A i \in 1..cmdq_size+1 : Slot(i)' = Slot(i)
  BY <1>2 DEF Slot
<1>7. Slot(cmdq_size + 1) = Advance(head)
  BY <1>1, <1>2 DEF Slot, cmdq_size
<1>8. ~InRing(Advance(head)) /\ Advance(head) \in Slots
  <2>1. Advance(head) \in 0..CMDQ_LEN-1
    BY <1>1, <1>2
  <2> QED BY <1>2, <2>1, InsertSlots DEF Slots
<1>9. \A i \in 1..cmdq_size : q'[Slot(i)] = q[Slot(i)]
  BY <1>2, <1>4, <1>8 DEF TypeOK, Slots
<1>10. q'[Slot(cmdq_size + 1)] = c
  BY <1>2, <1>7, <1>8 DEF TypeOK, Slots
<1>11. QueueSeq' = [i \in 1..cmdq_size+1 |-> IF i = cmdq_size + 1 THEN c ELSE q[Slot(i)]]
  BY <1>3, <1>4, <1>5, <1>6, <1>9, <1>10
<1>12. Append(QueueSeq, c) = [i \in 1..cmdq_size+1 |-> IF i <= cmdq_size THEN QueueSeq[i] ELSE c]
  <2>1. Len(QueueSeq) = cmdq_size
    BY <1>4
  <2> QED BY <2>1, <1>4 DEF Append
<1> QED BY <1>4, <1>11, <1>12

(* A removal takes the first command of the sequence. *)
LEMMA RemoveIsTail ==
  ASSUME TypeOK, TypeOK', head # tail, tail' = Advance(tail), UNCHANGED <<head, q>>
  PROVE  /\ QueueSeq # << >>
         /\ Head(QueueSeq) = q[Advance(tail)]
         /\ QueueSeq' = Tail(QueueSeq)
<1>1. CMDQ_LEN \in Nat /\ CMDQ_LEN > 1 /\ head \in 0..CMDQ_LEN-1 /\ tail \in 0..CMDQ_LEN-1
  BY QueueAssumption DEF TypeOK
<1>2. Advance(tail) = IF tail = CMDQ_LEN - 1 THEN 0 ELSE tail + 1
  BY <1>1, AdvanceWraps
<1>3. cmdq_size \in Nat /\ cmdq_size > 0 /\ cmdq_size' = cmdq_size - 1
  BY <1>1, <1>2 DEF cmdq_size
<1>4. QueueSeq = [i \in 1..cmdq_size |-> q[Slot(i)]]
  BY QueueSlots
<1>5. (QueueSeq = [i \in 1..cmdq_size |-> q[Slot(i)]])'
  BY QueueSlots, PTL
<1>6. \A i \in 1..cmdq_size-1 : Slot(i)' = Slot(i + 1)
  <2>1. cmdq_size \in 0..CMDQ_LEN-1
    BY QueueSlots
  <2>2. CASE tail = CMDQ_LEN - 1
    BY <1>1, <1>2, <2>1, <2>2 DEF Slot
  <2>3. CASE tail # CMDQ_LEN - 1
    BY <1>1, <1>2, <2>1, <2>3 DEF Slot
  <2> QED BY <2>2, <2>3
<1>7. Slot(1) = Advance(tail)
  BY <1>1, <1>2 DEF Slot
<1>8. QueueSeq' = [i \in 1..cmdq_size-1 |-> q[Slot(i + 1)]]
  BY <1>3, <1>5, <1>6
<1>9. Len(QueueSeq) = cmdq_size
  BY <1>3, <1>4
<1>10. Tail(QueueSeq) = [i \in 1..cmdq_size-1 |-> q[Slot(i + 1)]]
  BY <1>3, <1>4, <1>9 DEF Tail
<1>11. Head(QueueSeq) = QueueSeq[1]
  BY DEF Head
<1>12. QueueSeq[1] = q[Slot(1)]
  BY <1>3, <1>4
<1>13. QueueSeq # << >>
  BY <1>3, <1>9
<1> QED BY <1>7, <1>8, <1>10, <1>11, <1>12, <1>13

(* A command being handled was taken from the ring and is nothing else:    *)
(* only so is the end of its handling invisible to the queue.              *)
TakenInv == \A t \in Tasks : cur[t] \in Cmds => fate[cur[t]] \in {"taken", "handled"}

(* Every step keeps the commands being handled apart. *)
LEMMA TakenStep ==
  ASSUME TypeOK, RingInv, TakenInv, [Next]_vars PROVE TakenInv'
<1>0. ASSUME \A c \in Cmds : \/ fate'[c] = fate[c] \/ fate[c] \in {"new", "queued"}
                             \/ fate'[c] = "handled",
             \A t \in Tasks : cur'[t] = cur[t] \/ cur'[t] = NONE
      PROVE  TakenInv'
  BY <1>0, CmdAssumption DEF TakenInv
<1>s. ASSUME UNCHANGED <<cur, fate>> PROVE TakenInv'
  BY <1>s DEF TakenInv
<1>1. ASSUME NEW t \in Tasks, HandlerStep(t) PROVE TakenInv'
  <2>1. CASE cmd_dequeue(t)
    <3>1. Advance(tail) \in Slots
      BY AdvanceWraps DEF TypeOK, Slots
    <3>2. InRing(Advance(tail))
      BY <2>1, <3>1, RemoveSlots DEF cmd_dequeue, QueueEmpty, Slots
    <3>3. PICK c \in Cmds : c = q[Advance(tail)]
      BY <3>1, <3>2 DEF RingInv
    <3>4. cur' = [cur EXCEPT ![t] = c] /\ fate' = [fate EXCEPT ![c] = "taken"]
      BY <2>1, <3>3 DEF cmd_dequeue
    <3> QED BY <3>4 DEF TakenInv, TypeOK
  <2>2. CASE UNCHANGED <<cur, fate>>
    BY <1>s, <2>2
  <2>3. CASE Handled(t)
    <3>1. \A u \in Tasks : cur'[u] = cur[u] \/ cur'[u] = NONE
      BY <2>3 DEF Handled, TypeOK
    <3>2. \A c \in Cmds : fate'[c] = fate[c] \/ fate'[c] = "handled"
      BY <2>3 DEF Handled, TypeOK
    <3> QED BY <1>0, <3>1, <3>2
  <2> QED
    BY <1>1, <2>1, <2>2, <2>3 DEF HandlerStep, FlushDone, cmd_handle, ReplyAcked,
       ReplyTimedOut, CmdCallback, TestGlobalCb, CallGlobalCb, ReceiveEvents,
       ClearRunning, TaskExit
<1>2. ASSUME NEW c \in Cmds, fate[c] = "new", NEW v, fate' = [fate EXCEPT ![c] = v],
             cur' = cur
      PROVE  TakenInv'
  <2>1. \A d \in Cmds : fate'[d] = fate[d] \/ fate[d] = "new"
    BY <1>2 DEF TypeOK
  <2> QED BY <1>0, <1>2, <2>1
<1>3. ASSUME NEW p \in Producers, ProducerStep(p) PROVE TakenInv'
  <2>1. ASSUME NEW c \in Cmds, cmd_enqueue_cb(p, c) \/ EnqueueRefused(p, c) PROVE TakenInv'
    BY <2>1, <1>2 DEF cmd_enqueue_cb, EnqueueRefused, Insert, Refuse, MayEnqueue, taskVars
  <2>2. CASE ReadTid(p) \/ SendNew(p)
    BY <1>s, <2>2 DEF ReadTid, SendNew, taskVars
  <2> QED BY <1>3, <2>1, <2>2 DEF ProducerStep
<1>4. CASE IsrStep
  <2>1. ASSUME NEW c \in Cmds, IsrEnqueue(c) \/ IsrRefuse(c) PROVE TakenInv'
    BY <2>1, <1>2 DEF IsrEnqueue, IsrRefuse, Insert, Refuse, MayEnqueue, taskVars
  <2> QED BY <1>4, <2>1 DEF IsrStep
<1>5. CASE CtlStep
  <2>1. CASE cmd_drop_all
    <3>1. cur' = cur /\ fate' = [c \in Cmds |-> IF c \in Queued THEN "dropped" ELSE fate[c]]
      BY <2>1 DEF cmd_drop_all, taskVars
    <3>2. \A c \in Queued : fate[c] = "queued"
      BY DEF Queued, RingInv, Slots
    <3>3. \A c \in Cmds : fate'[c] = fate[c] \/ fate[c] = "queued"
      BY <3>1, <3>2
    <3> QED BY <1>0, <3>1, <3>3
  <2>2. CASE UNCHANGED <<cur, fate>>
    BY <1>s, <2>2
  <2> QED
    BY <1>5, <2>1, <2>2 DEF CtlStep, cmd_handle_task_start, TaskStarted, TaskStartFailed,
       cmd_handle_task_destroy, DestroyDone, cmd_handled_register_cb, RegisterArg,
       cmd_handled_unregister_cb, UnregisterArg, taskVars
<1>6. CASE UNCHANGED vars
  BY <1>s, <1>6 DEF vars, taskVars
<1> QED BY <1>1, <1>3, <1>4, <1>5, <1>6 DEF Next, Step, Halted

(* A command's fate, as the queue sees it. *)
LEMMA AbstractFateIs ==
  ASSUME TypeOK, NEW c \in Cmds, NEW v, v # "handled", fate' = [fate EXCEPT ![c] = v]
  PROVE  AbstractFate' = [AbstractFate EXCEPT ![c] = v]
<1>1. \A d \in Cmds : fate'[d] = IF d = c THEN v ELSE fate[d]
  BY DEF TypeOK
<1>2. AbstractFate' = [d \in Cmds |-> IF fate'[d] = "handled" THEN "taken" ELSE fate'[d]]
  BY DEF AbstractFate
<1>3. AbstractFate = [d \in Cmds |-> IF fate[d] = "handled" THEN "taken" ELSE fate[d]]
  BY DEF AbstractFate
<1> QED BY <1>1, <1>2, <1>3

(* The sequence of queued commands holds the commands of the ring. *)
LEMMA QueueElements ==
  ASSUME TypeOK
  PROVE  /\ Len(QueueSeq) = cmdq_size
         /\ {QueueSeq[i] : i \in DOMAIN QueueSeq} = Queued
<1>1. /\ QueueSeq = [i \in 1..cmdq_size |-> q[Slot(i)]]
      /\ cmdq_size \in Nat
      /\ \A i \in 1..cmdq_size : Slot(i) \in Slots /\ InRing(Slot(i))
      /\ \A j \in Slots : InRing(j) => \E i \in 1..cmdq_size : Slot(i) = j
  BY QueueSlots, QueueAssumption
<1>2. Len(QueueSeq) = cmdq_size
  BY <1>1
<1>3. {QueueSeq[i] : i \in DOMAIN QueueSeq} = {q[Slot(i)] : i \in 1..cmdq_size}
  BY <1>1
<1>4. {q[Slot(i)] : i \in 1..cmdq_size} = Queued
  BY <1>1 DEF Queued, Slots
<1> QED BY <1>2, <1>3, <1>4

(* The operations of the ring are those of the queue: an enqueue accepts   *)
(* only below the capacity and refuses only at it, cmd_dequeue takes the   *)
(* oldest command, cmd_drop_all gives up everything, and nothing else      *)
(* touches what is queued.                                                 *)
LEMMA QueueStep ==
  ASSUME HoldBack, TypeOK, TypeOK', RingInv, TakenInv, [Next]_vars
  PROVE  [AbstractQueue!Next]_(AbstractQueue!vars)
<1>s. ASSUME UNCHANGED <<queueVars, AbstractFate>>
      PROVE  [AbstractQueue!Next]_(AbstractQueue!vars)
  <2>1. QueueSeq' = QueueSeq
    BY <1>s DEF QueueSeq, cmdq_size, queueVars
  <2> QED BY <1>s, <2>1, Zenon DEF AbstractQueue!vars
<1>f. ASSUME UNCHANGED <<queueVars, fate>> PROVE [AbstractQueue!Next]_(AbstractQueue!vars)
  BY <1>s, <1>f DEF AbstractFate
<1>n. /\ CMDQ_LEN \in Nat /\ CMDQ_LEN > 1 /\ head \in 0..CMDQ_LEN-1 /\ tail \in 0..CMDQ_LEN-1
  BY QueueAssumption DEF TypeOK
<1>i. \A c \in Cmds : fate[c] = "new" => AbstractFate[c] = "new"
  BY DEF AbstractFate
<1>a. ASSUME NEW c \in Cmds, MayEnqueue(c), ~QueueFull, Insert(c)
      PROVE  [AbstractQueue!Next]_(AbstractQueue!vars)
  <2>1. cmdq_size < CMDQ_LEN - 1
    BY <1>a DEF MayEnqueue
  <2>2. QueueSeq' = Append(QueueSeq, c)
    BY <1>a, <2>1, InsertAppends
  <2>3. AbstractFate' = [AbstractFate EXCEPT ![c] = "queued"]
    BY <1>a, AbstractFateIs DEF Insert
  <2>4. AbstractFate[c] = "new"
    BY <1>a, <1>i DEF MayEnqueue
  <2>5. Len(QueueSeq) < CMDQ_LEN - 1
    BY <2>1, QueueElements
  <2>6. AbstractQueue!Accept(c)
    BY <2>2, <2>3, <2>4, <2>5, Zenon DEF AbstractQueue!Accept
  <2> QED BY <2>6, Zenon DEF AbstractQueue!Next
<1>r. ASSUME NEW c \in Cmds, MayEnqueue(c), Refuse(c), UNCHANGED queueVars
      PROVE  [AbstractQueue!Next]_(AbstractQueue!vars)
  <2>1. QueueFull /\ fate' = [fate EXCEPT ![c] = "refused"]
    BY <1>r DEF Refuse
  <2>2. cmdq_size = CMDQ_LEN - 1
    <3>1. 1 % CMDQ_LEN = 1
      BY <1>n
    <3> QED BY <1>n, <2>1, <3>1 DEF QueueFull, cmdq_size
  <2>3. QueueSeq' = QueueSeq
    BY <1>r DEF QueueSeq, cmdq_size, queueVars
  <2>4. AbstractFate' = [AbstractFate EXCEPT ![c] = "refused"]
    BY <2>1, AbstractFateIs
  <2>5. AbstractFate[c] = "new"
    BY <1>i, <1>r DEF MayEnqueue
  <2>6. Len(QueueSeq) = CMDQ_LEN - 1
    BY <2>2, QueueElements
  <2>7. AbstractQueue!Refuse(c)
    BY <2>3, <2>4, <2>5, <2>6, Zenon DEF AbstractQueue!Refuse
  <2> QED BY <2>7, Zenon DEF AbstractQueue!Next
<1>1. ASSUME NEW t \in Tasks, HandlerStep(t) PROVE [AbstractQueue!Next]_(AbstractQueue!vars)
  <2>1. CASE cmd_dequeue(t)
    <3>1. /\ head # tail /\ tail' = Advance(tail) /\ UNCHANGED <<head, q>>
          /\ fate' = [fate EXCEPT ![q[Advance(tail)]] = "taken"]
      BY <2>1 DEF cmd_dequeue, QueueEmpty
    <3>2. /\ QueueSeq # << >> /\ Head(QueueSeq) = q[Advance(tail)]
          /\ QueueSeq' = Tail(QueueSeq)
      BY <3>1, RemoveIsTail
    <3>3. q[Advance(tail)] \in Cmds
      <4>1. Advance(tail) \in Slots
        BY AdvanceWraps DEF TypeOK, Slots
      <4>2. InRing(Advance(tail))
        BY <3>1, <4>1, RemoveSlots DEF Slots
      <4> QED BY <4>1, <4>2 DEF RingInv
    <3>4. AbstractFate' = [AbstractFate EXCEPT ![Head(QueueSeq)] = "taken"]
      BY <3>1, <3>2, <3>3, AbstractFateIs
    <3>5. AbstractQueue!Take
      BY <3>2, <3>4, Zenon DEF AbstractQueue!Take
    <3> QED BY <3>5, Zenon DEF AbstractQueue!Next
  <2>2. CASE UNCHANGED <<queueVars, fate>>
    BY <1>f, <2>2
  <2>3. CASE Handled(t) /\ UNCHANGED queueVars
    <3>1. \A c \in Cmds : fate'[c] = IF c = cur[t] THEN "handled" ELSE fate[c]
      BY <2>3 DEF Handled, TypeOK
    <3>2. \A c \in Cmds : c = cur[t] => fate[c] \in {"taken", "handled"}
      BY DEF TakenInv
    <3>3. AbstractFate' = AbstractFate
      BY <3>1, <3>2 DEF AbstractFate
    <3> QED BY <1>s, <2>3, <3>3
  <2> QED
    BY <1>1, <2>1, <2>2, <2>3 DEF HandlerStep, FlushDone, cmd_handle, ReplyAcked,
       ReplyTimedOut, CmdCallback, TestGlobalCb, CallGlobalCb, ReceiveEvents,
       ClearRunning, TaskExit
<1>2. ASSUME NEW p \in Producers, ProducerStep(p)
      PROVE  [AbstractQueue!Next]_(AbstractQueue!vars)
  <2>1. ASSUME NEW c \in Cmds, cmd_enqueue_cb(p, c)
        PROVE  [AbstractQueue!Next]_(AbstractQueue!vars)
    BY <1>a, <2>1 DEF cmd_enqueue_cb
  <2>2. ASSUME NEW c \in Cmds, EnqueueRefused(p, c)
        PROVE  [AbstractQueue!Next]_(AbstractQueue!vars)
    BY <1>r, <2>2 DEF EnqueueRefused
  <2>3. CASE ReadTid(p) \/ SendNew(p)
    BY <1>f, <2>3 DEF ReadTid, SendNew
  <2> QED BY <1>2, <2>1, <2>2, <2>3 DEF ProducerStep
<1>3. CASE IsrStep
  <2>1. ASSUME NEW c \in Cmds, IsrEnqueue(c) PROVE [AbstractQueue!Next]_(AbstractQueue!vars)
    BY <1>a, <2>1 DEF IsrEnqueue
  <2>2. ASSUME NEW c \in Cmds, IsrRefuse(c) PROVE [AbstractQueue!Next]_(AbstractQueue!vars)
    BY <1>r, <2>2 DEF IsrRefuse
  <2> QED BY <1>3, <2>1, <2>2 DEF IsrStep
<1>4. CASE CtlStep
  <2>1. CASE cmd_drop_all
    <3>1. /\ head # tail /\ tail' = head /\ UNCHANGED <<q, head>>
          /\ fate' = [c \in Cmds |-> IF c \in Queued THEN "dropped" ELSE fate[c]]
      BY <2>1 DEF cmd_drop_all, QueueEmpty
    <3>2. cmdq_size # 0 /\ cmdq_size' = 0
      BY <1>n, <3>1 DEF cmdq_size
    <3>3. QueueSeq # << >>
      BY <3>2, QueueElements
    <3>4. QueueSeq' = << >>
      <4>1. (QueueSeq = [i \in 1..cmdq_size |-> q[Slot(i)]])'
        BY QueueSlots, PTL
      <4> QED BY <3>2, <4>1
    <3>5. AbstractFate' = [c \in Cmds |-> IF c \in Queued THEN "dropped" ELSE AbstractFate[c]]
      BY <3>1 DEF AbstractFate
    <3>6. AbstractQueue!ToSet(QueueSeq) = Queued
      BY QueueElements DEF AbstractQueue!ToSet
    <3>7. AbstractQueue!DropAll
      BY <3>3, <3>4, <3>5, <3>6, Zenon DEF AbstractQueue!DropAll
    <3> QED BY <3>7, Zenon DEF AbstractQueue!Next
  <2>2. CASE UNCHANGED <<queueVars, fate>>
    BY <1>f, <2>2
  <2> QED
    BY <1>4, <2>1, <2>2 DEF CtlStep, cmd_handle_task_start, TaskStarted, TaskStartFailed,
       cmd_handle_task_destroy, DestroyDone, cmd_handled_register_cb, RegisterArg,
       cmd_handled_unregister_cb, UnregisterArg
<1>5. CASE UNCHANGED vars
  BY <1>f, <1>5 DEF vars
<1> QED BY <1>1, <1>2, <1>3, <1>4, <1>5 DEF Next, Step, Halted

(* The ring of command.c implements the bounded FIFO of CommandQueue, for  *)
(* every ring size: commands are taken in the order they were accepted and *)
(* refused only when CMDQ_LEN - 1 are queued.                              *)
THEOREM QueueRefines == HoldBack /\ Spec => QueueSpec
<1>1. Init => RingInv /\ TakenInv
  <2> SUFFICES ASSUME Init PROVE RingInv /\ TakenInv
    OBVIOUS
  <2>1. \A i \in Slots : ~InRing(i)
    BY QueueAssumption DEF Init, InRing, Slots
  <2> QED BY <2>1, CmdAssumption DEF Init, RingInv, TakenInv
<1>2. Init => AbstractQueue!Init
  <2> SUFFICES ASSUME Init PROVE AbstractQueue!Init
    OBVIOUS
  <2>1. cmdq_size = 0
    BY DEF Init, cmdq_size
  <2>2. QueueSeq = << >>
    BY <2>1 DEF QueueSeq
  <2>3. AbstractFate = [c \in Cmds |-> "new"]
    BY DEF Init, AbstractFate
  <2> QED BY <2>2, <2>3, Zenon DEF AbstractQueue!Init
<1>3. CASE HoldBack
  <2>1. TypeOK /\ TypeOK' /\ RingInv /\ TakenInv /\ [Next]_vars => RingInv' /\ TakenInv'
    BY <1>3, RingStep, TakenStep
  <2>2. TypeOK /\ TypeOK' /\ RingInv /\ TakenInv /\ [Next]_vars
          => [AbstractQueue!Next]_(AbstractQueue!vars)
    BY <1>3, QueueStep
  <2> QED BY <1>1, <1>2, <2>1, <2>2, TypeCorrect, PTL DEF Spec, QueueSpec, AbstractQueue!Spec
<1> QED BY <1>3
===============================================================================
