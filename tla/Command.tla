-------------------------------- MODULE Command --------------------------------
(***************************************************************************)
(* The command service of lib/hpsc/command.c: a ring of CMDQ_LEN commands  *)
(* filled by links (from an interrupt handler or a task) and by tasks, and *)
(* emptied by one handler task, which is started and destroyed at run      *)
(* time.                                                                   *)
(*                                                                         *)
(* The build is uniprocessor: an interrupt lock disables interrupts, so a  *)
(* locked section and a whole interrupt handler are single steps, and      *)
(* tasks interleave everywhere else.  The command a caller submits is      *)
(* identified with its message, its link and its callback; MsgType is the  *)
(* first byte of the message, all that the handler looks at.               *)
(***************************************************************************)
EXTENDS Naturals, FiniteSets, Sequences

CONSTANTS CMDQ_LEN,      \* slots of the ring
          HoldBack,      \* callers submit to a full ring only where the full
                         \* test of the code reports it
          Cmds,          \* the commands submitted, each at most once
          WithCb,        \* those with a callback of their own (cmd_enqueue_cb);
                         \* the others come from link_recv_cmd
          MsgType,       \* message type of each command
          Tasks,         \* tasks created for the handler
          Producers,     \* tasks that enqueue commands
          Clients,       \* callbacks, each with its argument, to register
          NONE,          \* RTEMS_ID_NONE and NULL
          ReplyTimeout   \* timeout_ticks # RTEMS_NO_TIMEOUT

ASSUME QueueAssumption == CMDQ_LEN \in Nat /\ CMDQ_LEN > 1
ASSUME CmdAssumption == /\ NONE \notin Cmds
                        /\ WithCb \subseteq Cmds
                        /\ MsgType \in [Cmds -> {"NOP", "PING", "PONG", "OTHER"}]
ASSUME TaskAssumption == NONE \notin Tasks \cup Clients
ASSUME FlagAssumption == /\ HoldBack \in BOOLEAN
                         /\ ReplyTimeout \in BOOLEAN

VARIABLES
  q, head, tail,    \* struct cmdq; slot head is the newest, tail + 1 the oldest
  cmd_handler,      \* struct cmd_handler_ctx
  cmd_handled,      \* the registered callback and its argument
  pc,               \* where each handler task is
  events,           \* the pending events of each handler task
  cur,              \* the command a handler task is handling
  status,           \* the status cmd_handle has found for it
  gcb,              \* the callback it found registered
  ppc, pcmd, ptid,  \* where a producer is, its command, the tid it has read
  ctl,              \* the call the controlling task is in the middle of
  fate,             \* history: what became of each command
  rc,               \* history: what the enqueue of each command returned
  called            \* history: callback and argument of the last global call

queueVars == <<q, head, tail>>
taskVars  == <<pc, cur, status, gcb>>
prodVars  == <<ppc, pcmd, ptid>>
vars == <<queueVars, cmd_handler, cmd_handled, taskVars, events, prodVars, ctl,
          fate, rc, called>>

Event == {"NEW", "EXIT"}
Live == {"flush", "handle", "reply", "cb", "gcb", "gcall", "wait", "exit"}
PC == Live \cup {"dormant", "exiting", "gone"}
CmdStatus == {"SUCCESS", "HANDLER_FAILED", "REPLY_FAILED"}
Ctl == {"idle", "start", "destroy", "register", "unregister"}
Fate == {"new", "refused", "queued", "taken", "handled", "dropped"}

TypeOK ==
  /\ q \in [0..CMDQ_LEN-1 -> Cmds \cup {NONE}]
  /\ head \in 0..CMDQ_LEN-1
  /\ tail \in 0..CMDQ_LEN-1
  /\ cmd_handler \in [tid : Tasks \cup {NONE}, cb : {"NULL", "server_process"},
                      running : BOOLEAN]
  /\ cmd_handled \in [cb : Clients \cup {NONE}, arg : Clients \cup {NONE}]
  /\ pc \in [Tasks -> PC]
  /\ events \in [Tasks -> SUBSET Event]
  /\ cur \in [Tasks -> Cmds \cup {NONE}]
  /\ status \in [Tasks -> CmdStatus]
  /\ gcb \in [Tasks -> Clients \cup {NONE}]
  /\ ppc \in [Producers -> {"idle", "notify", "send"}]
  /\ pcmd \in [Producers -> Cmds \cup {NONE}]
  /\ ptid \in [Producers -> Tasks \cup {NONE}]
  /\ ctl \in Ctl
  /\ fate \in [Cmds -> Fate]
  /\ rc \in [Cmds -> {"none", "ok", "err"}]
  /\ called \in [cb : Clients \cup {NONE}, arg : Clients \cup {NONE}]

Init ==
  /\ q = [i \in 0..CMDQ_LEN-1 |-> NONE] /\ head = 0 /\ tail = 0
  /\ cmd_handler = [tid |-> NONE, cb |-> "NULL", running |-> FALSE]
  /\ cmd_handled = [cb |-> NONE, arg |-> NONE]
  /\ pc = [t \in Tasks |-> "dormant"]
  /\ events = [t \in Tasks |-> {}]
  /\ cur = [t \in Tasks |-> NONE]
  /\ status = [t \in Tasks |-> "SUCCESS"]
  /\ gcb = [t \in Tasks |-> NONE]
  /\ ppc = [p \in Producers |-> "idle"]
  /\ pcmd = [p \in Producers |-> NONE]
  /\ ptid = [p \in Producers |-> NONE]
  /\ ctl = "idle"
  /\ fate = [c \in Cmds |-> "new"]
  /\ rc = [c \in Cmds |-> "none"]
  /\ called = [cb |-> NONE, arg |-> NONE]

-------------------------------------------------------------------------------
(* The ring. *)

(* Fault: the index is not reduced. *)
AdvanceNoWrap(i) == i + 1

Advance(i) == (i + 1) % CMDQ_LEN

cmdq_size == IF head >= tail THEN head - tail ELSE CMDQ_LEN - tail + head

(* The test as C parses it: % binds tighter than +, so the sum is not      *)
(* reduced.                                                                *)
QueueFull == head + (1 % CMDQ_LEN) = tail

QueueEmpty == head = tail

(* The slots from tail (exclusive) up to head (inclusive). *)
InRing(i) == IF tail <= head THEN tail < i /\ i <= head
                             ELSE tail < i \/ i <= head

Queued == {q[i] : i \in {j \in 0..CMDQ_LEN-1 : InRing(j)}}

(* cmd_enqueue_cb_unsafe when it does not return 1. *)
Insert(c) == /\ head' = Advance(head)
             /\ q' = [q EXCEPT ![Advance(head)] = c]
             /\ UNCHANGED tail
             /\ fate' = [fate EXCEPT ![c] = "queued"]

(* cmd_enqueue_cb_unsafe returning 1, and cmd_enqueue_cb with it. *)
Refuse(c) == /\ QueueFull
             /\ fate' = [fate EXCEPT ![c] = "refused"]
             /\ rc' = [rc EXCEPT ![c] = "err"]

-------------------------------------------------------------------------------
(* Enqueueing. *)

(* link_recv_cmd panics when cmd_enqueue returns non-zero. *)
Panicked == \E c \in Cmds \ WithCb : rc[c] = "err"

(* Nobody enqueues while a callback is being registered (command.h). *)
MayEnqueue(c) == /\ fate[c] = "new"
                 /\ HoldBack => cmdq_size < CMDQ_LEN - 1 \/ QueueFull
                 /\ ctl \notin {"register", "unregister"}

(* rtems_event_send(t, e): fails for a task that has exited; an id of 0 is *)
(* RTEMS_SELF, so the event goes to the calling task, where nobody waits   *)
(* for it.                                                                 *)
EventSent(t) == t = NONE \/ pc[t] # "gone"
EventSend(t, e) == events' = IF t = NONE \/ pc[t] = "gone" THEN events
                             ELSE [events EXCEPT ![t] = @ \cup {e}]

Result(c, ok) == rc' = [rc EXCEPT ![c] = IF ok THEN "ok" ELSE "err"]

(* link_recv_cmd from the mailbox interrupt: enqueue and event in one      *)
(* step.                                                                   *)
IsrEnqueue(c) ==
  /\ c \notin WithCb
  /\ MayEnqueue(c)
  /\ ~QueueFull
  /\ Insert(c)
  /\ EventSend(cmd_handler.tid, "NEW")
  /\ Result(c, EventSent(cmd_handler.tid))
  /\ UNCHANGED <<cmd_handler, cmd_handled, taskVars, prodVars, ctl, called>>

IsrRefuse(c) ==
  /\ c \notin WithCb
  /\ MayEnqueue(c)
  /\ Refuse(c)
  /\ UNCHANGED <<queueVars, cmd_handler, cmd_handled, taskVars, events, prodVars,
                 ctl, called>>

(* cmd_enqueue_cb from a task: the locked part, ... *)
cmd_enqueue_cb(p, c) ==
  /\ ppc[p] = "idle"
  /\ MayEnqueue(c)
  /\ ~QueueFull
  /\ Insert(c)
  /\ ppc' = [ppc EXCEPT ![p] = "notify"]
  /\ pcmd' = [pcmd EXCEPT ![p] = c]
  /\ UNCHANGED <<cmd_handler, cmd_handled, taskVars, events, ptid, ctl, rc, called>>

EnqueueRefused(p, c) ==
  /\ ppc[p] = "idle"
  /\ MayEnqueue(c)
  /\ Refuse(c)
  /\ UNCHANGED <<queueVars, cmd_handler, cmd_handled, taskVars, events, prodVars,
                 ctl, called>>

Return(p, ok) == /\ Result(pcmd[p], ok)
                 /\ ppc' = [ppc EXCEPT ![p] = "idle"]
                 /\ pcmd' = [pcmd EXCEPT ![p] = NONE]
                 /\ ptid' = [ptid EXCEPT ![p] = NONE]

(* ... the test of cmd_handler.tid, outside the lock, ... *)
ReadTid(p) ==
  /\ ppc[p] = "notify"
  /\ IF cmd_handler.tid = NONE
     THEN Return(p, TRUE)
     ELSE /\ ptid' = [ptid EXCEPT ![p] = cmd_handler.tid]
          /\ ppc' = [ppc EXCEPT ![p] = "send"]
          /\ UNCHANGED <<pcmd, rc>>
  /\ UNCHANGED <<queueVars, cmd_handler, cmd_handled, taskVars, events, ctl, fate,
                 called>>

(* ... and the event.  The tid is not volatile: the compiler may use the   *)
(* value it has tested or read it again.                                   *)
SendNew(p) ==
  /\ ppc[p] = "send"
  /\ \E t \in {ptid[p], cmd_handler.tid} :
        /\ EventSend(t, "NEW")
        /\ Return(p, EventSent(t))
  /\ UNCHANGED <<queueVars, cmd_handler, cmd_handled, taskVars, ctl, fate, called>>

(* cmd_drop_all, by the controlling task. *)
cmd_drop_all ==
  /\ ctl = "idle"
  /\ ~QueueEmpty
  /\ tail' = head
  /\ fate' = [c \in Cmds |-> IF c \in Queued THEN "dropped" ELSE fate[c]]
  /\ UNCHANGED <<q, head, cmd_handler, cmd_handled, taskVars, events, prodVars, ctl,
                 rc, called>>

-------------------------------------------------------------------------------
(* The handler task: cmd_flush until the queue is empty, then wait. *)

Goto(t, l) == pc' = [pc EXCEPT ![t] = l]

(* Fault: the slot is read before tail is advanced. *)
DequeuePostIncrement(t) ==
  /\ pc[t] = "flush"
  /\ ~QueueEmpty
  /\ tail' = Advance(tail)
  /\ cur' = [cur EXCEPT ![t] = q[tail]]
  /\ fate' = [fate EXCEPT ![q[tail]] = "taken"]
  /\ Goto(t, "handle")
  /\ UNCHANGED <<q, head, cmd_handler, cmd_handled, status, gcb, events, prodVars,
                 ctl, rc, called>>

(* Fault: the newest command is taken. *)
DequeueNewest(t) ==
  /\ pc[t] = "flush"
  /\ ~QueueEmpty
  /\ head' = (head + CMDQ_LEN - 1) % CMDQ_LEN
  /\ cur' = [cur EXCEPT ![t] = q[head]]
  /\ fate' = [fate EXCEPT ![q[head]] = "taken"]
  /\ Goto(t, "handle")
  /\ UNCHANGED <<q, tail, cmd_handler, cmd_handled, status, gcb, events, prodVars,
                 ctl, rc, called>>

cmd_dequeue(t) ==
  /\ pc[t] = "flush"
  /\ ~QueueEmpty
  /\ tail' = Advance(tail)
  /\ cur' = [cur EXCEPT ![t] = q[Advance(tail)]]
  /\ fate' = [fate EXCEPT ![q[Advance(tail)]] = "taken"]
  /\ Goto(t, "handle")
  /\ UNCHANGED <<q, head, cmd_handler, cmd_handled, status, gcb, events, prodVars,
                 ctl, rc, called>>

FlushDone(t) ==
  /\ pc[t] = "flush"
  /\ QueueEmpty
  /\ Goto(t, "wait")
  /\ UNCHANGED <<queueVars, cmd_handler, cmd_handled, cur, status, gcb, events,
                 prodVars, ctl, fate, rc, called>>

(* server_process: what the size it returns says. *)
server_process(c) == CASE MsgType[c] = "PING" -> "reply"
                       [] MsgType[c] = "OTHER" -> "failed"
                       [] OTHER -> "no reply"

cmd_handle(t) ==
  /\ pc[t] = "handle"
  /\ LET outcome == server_process(cur[t]) IN
       /\ Goto(t, IF outcome = "reply" THEN "reply" ELSE "cb")
       /\ status' = [status EXCEPT ![t] = IF outcome = "failed"
                                          THEN "HANDLER_FAILED" ELSE "SUCCESS"]
  /\ UNCHANGED <<queueVars, cmd_handler, cmd_handled, cur, gcb, events, prodVars,
                 ctl, fate, rc, called>>

(* link_request_send returns: the remote has acknowledged the reply, ... *)
ReplyAcked(t) ==
  /\ pc[t] = "reply"
  /\ Goto(t, "cb")
  /\ UNCHANGED <<queueVars, cmd_handler, cmd_handled, cur, status, gcb, events,
                 prodVars, ctl, fate, rc, called>>

(* ... or the wait for the acknowledgement has timed out. *)
ReplyTimedOut(t) ==
  /\ pc[t] = "reply"
  /\ ReplyTimeout
  /\ status' = [status EXCEPT ![t] = "REPLY_FAILED"]
  /\ Goto(t, "cb")
  /\ UNCHANGED <<queueVars, cmd_handler, cmd_handled, cur, gcb, events, prodVars,
                 ctl, fate, rc, called>>

(* The command's own callback, if any, then the test of the global one. *)
CmdCallback(t) ==
  /\ pc[t] = "cb"
  /\ Goto(t, "gcb")
  /\ UNCHANGED <<queueVars, cmd_handler, cmd_handled, cur, status, gcb, events,
                 prodVars, ctl, fate, rc, called>>

(* Fault: one command is handled for each event received. *)
HandledOnePerEvent(t) == /\ Goto(t, "wait")
                         /\ cur' = [cur EXCEPT ![t] = NONE]
                         /\ status' = [status EXCEPT ![t] = "SUCCESS"]
                         /\ gcb' = [gcb EXCEPT ![t] = NONE]
                         /\ fate' = [fate EXCEPT ![cur[t]] = "handled"]

(* cmd_handle returns: its locals are gone. *)
Handled(t) == /\ Goto(t, "flush")
              /\ cur' = [cur EXCEPT ![t] = NONE]
              /\ status' = [status EXCEPT ![t] = "SUCCESS"]
              /\ gcb' = [gcb EXCEPT ![t] = NONE]
              /\ fate' = [fate EXCEPT ![cur[t]] = "handled"]

TestGlobalCb(t) ==
  /\ pc[t] = "gcb"
  /\ IF cmd_handled.cb = NONE
     THEN Handled(t)
     ELSE /\ Goto(t, "gcall")
          /\ gcb' = [gcb EXCEPT ![t] = cmd_handled.cb]
          /\ UNCHANGED <<cur, status, fate>>
  /\ UNCHANGED <<queueVars, cmd_handler, cmd_handled, events, prodVars, ctl, rc,
                 called>>

(* The call, of the callback tested or of the one there now, with the      *)
(* argument there now.                                                     *)
CallGlobalCb(t) ==
  /\ pc[t] = "gcall"
  /\ \E f \in {gcb[t], cmd_handled.cb} : called' = [cb |-> f, arg |-> cmd_handled.arg]
  /\ Handled(t)
  /\ UNCHANGED <<queueVars, cmd_handler, cmd_handled, events, prodVars, ctl, rc>>

(* rtems_event_receive(NEW | EXIT, ANY): takes whatever is pending. *)
ReceiveEvents(t) ==
  /\ pc[t] = "wait"
  /\ events[t] # {}
  /\ events' = [events EXCEPT ![t] = {}]
  /\ Goto(t, IF "EXIT" \in events[t] THEN "exit" ELSE "flush")
  /\ UNCHANGED <<queueVars, cmd_handler, cmd_handled, cur, status, gcb, prodVars, ctl,
                 fate, rc, called>>

(* Fault: the task exits with running still set. *)
ClearRunningForgotten(t) ==
  /\ pc[t] = "exit"
  /\ Goto(t, "exiting")
  /\ UNCHANGED <<queueVars, cmd_handler, cmd_handled, cur, status, gcb, events,
                 prodVars, ctl, fate, rc, called>>

ClearRunning(t) ==
  /\ pc[t] = "exit"
  /\ cmd_handler' = [cmd_handler EXCEPT !.running = FALSE]
  /\ Goto(t, "exiting")
  /\ UNCHANGED <<queueVars, cmd_handled, cur, status, gcb, events, prodVars, ctl,
                 fate, rc, called>>

TaskExit(t) ==
  /\ pc[t] = "exiting"
  /\ Goto(t, "gone")
  /\ UNCHANGED <<queueVars, cmd_handler, cmd_handled, cur, status, gcb, events,
                 prodVars, ctl, fate, rc, called>>

-------------------------------------------------------------------------------
(* The controlling task: it starts and destroys the handler and registers  *)
(* the global callback, one call at a time.                                *)

cmd_handler_set(tid, cb, running) ==
  cmd_handler' = [tid |-> tid, cb |-> cb, running |-> running]

(* Fault: a handler task that runs already is not noticed. *)
StartUnchecked(t) ==
  /\ ctl = "idle"
  /\ cmd_handler_set(t, "server_process", TRUE)
  /\ ctl' = "start"
  /\ UNCHANGED <<queueVars, cmd_handled, taskVars, events, prodVars, fate, rc, called>>

cmd_handle_task_start(t) ==
  /\ ctl = "idle"
  /\ ~cmd_handler.running
  /\ cmd_handler_set(t, "server_process", TRUE)
  /\ ctl' = "start"
  /\ UNCHANGED <<queueVars, cmd_handled, taskVars, events, prodVars, fate, rc, called>>

(* rtems_task_start succeeds for a task that was created and never        *)
(* started.                                                                *)
TaskStarted ==
  /\ ctl = "start"
  /\ ctl' = "idle"
  /\ pc[cmd_handler.tid] = "dormant"
  /\ Goto(cmd_handler.tid, "flush")
  /\ UNCHANGED <<queueVars, cmd_handler, cmd_handled, cur, status, gcb, events,
                 prodVars, fate, rc, called>>

TaskStartFailed ==
  /\ ctl = "start"
  /\ ctl' = "idle"
  /\ pc[cmd_handler.tid] # "dormant"
  /\ cmd_handler_set(NONE, "NULL", FALSE)
  /\ UNCHANGED <<queueVars, cmd_handled, taskVars, events, prodVars, fate, rc, called>>

cmd_handle_task_destroy ==
  /\ ctl = "idle"
  /\ cmd_handler.running
  /\ EventSend(cmd_handler.tid, "EXIT")
  /\ ctl' = IF EventSent(cmd_handler.tid) THEN "destroy" ELSE "idle"
  /\ UNCHANGED <<queueVars, cmd_handler, cmd_handled, taskVars, prodVars, fate, rc,
                 called>>

(* Fault: the handler is cleared without waiting for the task. *)
DestroyNoWait ==
  /\ ctl = "destroy"
  /\ cmd_handler_set(NONE, "NULL", FALSE)
  /\ ctl' = "idle"
  /\ UNCHANGED <<queueVars, cmd_handled, taskVars, events, prodVars, fate, rc, called>>

(* The loop on cmd_handler.running ends and the handler is cleared. *)
DestroyDone ==
  /\ ctl = "destroy"
  /\ ~cmd_handler.running
  /\ cmd_handler_set(NONE, "NULL", FALSE)
  /\ ctl' = "idle"
  /\ UNCHANGED <<queueVars, cmd_handled, taskVars, events, prodVars, fate, rc, called>>

(* What command.h asks of the callers: not after the handler task is       *)
(* started, unless the queue is empty (MayEnqueue has the rest of it).     *)
MayRegister ==
  /\ ctl = "idle"
  /\ QueueEmpty \/ \A t \in Tasks : pc[t] \notin Live

cmd_handled_register_cb(client) ==
  /\ MayRegister
  /\ cmd_handled' = [cmd_handled EXCEPT !.cb = client]
  /\ ctl' = "register"
  /\ UNCHANGED <<queueVars, cmd_handler, taskVars, events, prodVars, fate, rc, called>>

RegisterArg ==
  /\ ctl = "register"
  /\ cmd_handled' = [cmd_handled EXCEPT !.arg = cmd_handled.cb]
  /\ ctl' = "idle"
  /\ UNCHANGED <<queueVars, cmd_handler, taskVars, events, prodVars, fate, rc, called>>

cmd_handled_unregister_cb ==
  /\ MayRegister
  /\ cmd_handled.cb # NONE
  /\ cmd_handled' = [cmd_handled EXCEPT !.cb = NONE]
  /\ ctl' = "unregister"
  /\ UNCHANGED <<queueVars, cmd_handler, taskVars, events, prodVars, fate, rc, called>>

UnregisterArg ==
  /\ ctl = "unregister"
  /\ cmd_handled' = [cmd_handled EXCEPT !.arg = NONE]
  /\ ctl' = "idle"
  /\ UNCHANGED <<queueVars, cmd_handler, taskVars, events, prodVars, fate, rc, called>>

-------------------------------------------------------------------------------
HandlerStep(t) ==
  \/ cmd_dequeue(t) \/ FlushDone(t) \/ cmd_handle(t)
  \/ ReplyAcked(t) \/ ReplyTimedOut(t)
  \/ CmdCallback(t) \/ TestGlobalCb(t) \/ CallGlobalCb(t)
  \/ ReceiveEvents(t) \/ ClearRunning(t) \/ TaskExit(t)

ProducerStep(p) ==
  \/ \E c \in Cmds : cmd_enqueue_cb(p, c) \/ EnqueueRefused(p, c)
  \/ ReadTid(p) \/ SendNew(p)

IsrStep == \E c \in Cmds : IsrEnqueue(c) \/ IsrRefuse(c)

CtlStep ==
  \/ \E t \in Tasks : cmd_handle_task_start(t)
  \/ TaskStarted \/ TaskStartFailed
  \/ cmd_handle_task_destroy \/ DestroyDone
  \/ cmd_drop_all
  \/ \E k \in Clients : cmd_handled_register_cb(k)
  \/ RegisterArg \/ cmd_handled_unregister_cb \/ UnregisterArg

Step == \/ \E t \in Tasks : HandlerStep(t)
        \/ \E p \in Producers : ProducerStep(p)
        \/ IsrStep
        \/ CtlStep

(* rtems_panic stops everything. *)
Halted == Panicked /\ UNCHANGED vars

Next == \/ ~Panicked /\ Step
        \/ Halted

Spec == Init /\ [][Next]_vars

(* A preemptive scheduler runs every ready task: the tasks of higher       *)
(* priority block, since the commands and interrupts are finite.  Without  *)
(* a timeout nothing makes the remote acknowledge a reply.                 *)
Fairness ==
  /\ \A t \in Tasks : /\ WF_vars(~Panicked /\ HandlerStep(t) /\ pc[t] # "reply")
                      /\ WF_vars(~Panicked /\ ReplyTimedOut(t))
  /\ \A p \in Producers : WF_vars(~Panicked /\ (ReadTid(p) \/ SendNew(p)))
  /\ WF_vars(~Panicked /\ (TaskStarted \/ TaskStartFailed))
  /\ WF_vars(~Panicked /\ DestroyDone)
  /\ WF_vars(~Panicked /\ (RegisterArg \/ UnregisterArg))

FairSpec == Spec /\ Fairness
-------------------------------------------------------------------------------
(* Properties. *)

(* At most one task runs cmd_handle_task's loop, through any sequence of   *)
(* starts and destroys (cmd_handle_task_start's test of running).          *)
SingleHandlerTask ==
  \A t, u \in Tasks : pc[t] \in Live /\ pc[u] \in Live => t = u

(* The context a running handler task uses is its own: the assertion       *)
(* assert(cmd_handler.cb) of cmd_handle holds, and an event for the        *)
(* handler reaches the task that runs.                                     *)
HandlerOwnsContext ==
  \A t \in Tasks : pc[t] \in Live => /\ cmd_handler.tid = t
                                     /\ cmd_handler.cb # "NULL"
                                     /\ cmd_handler.running

(* No lost wake-up: a handler task that waits while commands are queued    *)
(* has CMD_EVENT_NEW pending, or the producer of one of them is still      *)
(* about to send it (cmd_enqueue_cb notifies after it has released the     *)
(* lock and cmd_handle_task waits after it has found the queue empty).     *)
NoLostWakeup ==
  \A t \in Tasks :
    pc[t] = "wait" /\ ~QueueEmpty =>
      \/ "NEW" \in events[t]
      \/ \E p \in Producers : \/ ppc[p] = "notify"
                              \/ ppc[p] = "send" /\ ptid[p] = t

(* Every command that was accepted and neither taken nor dropped is still  *)
(* in the ring, in one slot only, and nothing else is (cmdq.head and       *)
(* cmdq.tail).                                                             *)
QueueHoldsAccepted ==
  /\ Queued = {c \in Cmds : fate[c] = "queued"}
  /\ \A i, j \in 0..CMDQ_LEN-1 : InRing(i) /\ InRing(j) /\ q[i] = q[j] => i = j

(* The ring implements the bounded FIFO of CommandQueue. *)
QueueSeq == [i \in 1..cmdq_size |-> q[(tail + i) % CMDQ_LEN]]
AbstractFate == [c \in Cmds |-> IF fate[c] = "handled" THEN "taken" ELSE fate[c]]
AbstractQueue == INSTANCE CommandQueue
                   WITH Capacity <- CMDQ_LEN - 1, queue <- QueueSeq, fate <- AbstractFate
QueueSpec == AbstractQueue!Spec

(* When cmd_handle_task_destroy returns no task is handling a command:     *)
(* shutdown frees the links, which commands refer to, right after it.      *)
DestroyStopsHandler ==
  [][ctl = "destroy" /\ ctl' = "idle" => \A t \in Tasks : pc[t] \notin Live]_vars

(* The global callback is always called with the argument it was           *)
(* registered with, by callers that keep to what command.h asks of those   *)
(* of cmd_handled_register_cb and cmd_handled_unregister_cb.  The code     *)
(* does not achieve it: the queue is empty, too, while the last command is *)
(* being handled, and cmd_handle reads the callback and then the argument. *)
GlobalCbArgMatches == called.cb = called.arg

(* A non-zero result of cmd_enqueue_cb means that the command was not      *)
(* enqueued: link_recv_cmd panics with "failed to enqueue command".        *)
FailedEnqueueNotQueued ==
  \A c \in Cmds : rc[c] = "err" => fate[c] = "refused"

(* A queued command is handled, or dropped, or the handler task that was   *)
(* running exits first.                                                    *)
CommandsServed ==
  \A c \in Cmds, t \in Tasks :
    (fate[c] = "queued" /\ pc[t] \in Live)
      ~> (fate[c] \in {"handled", "dropped"} \/ pc[t] = "gone" \/ Panicked)

(* cmd_handle_task_destroy returns: its loop on running ends. *)
DestroyReturns == ctl = "destroy" ~> (ctl = "idle" \/ Panicked)
================================================================================
