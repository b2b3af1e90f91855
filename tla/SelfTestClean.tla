------------------------------ MODULE SelfTestClean ------------------------------
(***************************************************************************)
(* A test fails, or leaves something to the next, only for a cause of its  *)
(* own: FailsForCause of SelfTest, on top of TestInv.                      *)
(***************************************************************************)
EXTENDS SelfTestProofs

-------------------------------------------------------------------------------
(* Nothing has gone wrong in the running test, nor in one whose events are *)
(* still there.                                                            *)
Sound == cause = "none"

(* The requests of a test go over one of the links, and a link is at rest  *)
(* unless a test waits on it, or has failed.                               *)
Pings(l) == test.name = IF l = "trch" THEN "ping" ELSE "linkshmem"
Asked(k) == /\ k.tid
            /\ \/ k.msg /\ ~k.ack /\ ~k.acked
               \/ ~k.msg /\ k.ack /\ ~k.acked
               \/ ~k.msg /\ ~k.ack /\ k.acked
Acked(k) == k.tid /\ ~k.msg /\ ~k.ack /\ k.acked
LinkClean(l) ==
  /\ Pings(l) /\ test.pc = "wait" => Asked(lnk[l])
  /\ Pings(l) /\ test.pc = "reply" => Acked(lnk[l])
  /\ /\ test.pc # "panic"
     /\ Pings(l) => /\ test.pc \notin {"wait", "reply"}
                    /\ test.pc \in {"status", "close"} => test.ok
     => Resting(lnk[l])

(* The channel's events are set by the test alone, each once. *)
Looping == test.name = "loopback" /\ test.pc \in {"wait", "check", "stop"}
ChanClean ==
  /\ Looping => \/ ctx.rx = "none" /\ ctx.ack = "none" /\ chan.set = {"rcv"}
                \/ ctx.rx = "ok" /\ ctx.ack = "none" /\ chan.set = {"ack"}
                \/ ctx.rx = "ok" /\ ctx.ack = "ok" /\ chan.set = {}
  /\ ~Looping /\ test.pc # "panic" => chan.set = {}
  /\ test.name = "loopback" /\ test.pc \in {"begin", "send"} => ctx.rx = "none" /\ ctx.ack = "none"
  /\ Looping /\ test.pc = "stop" /\ test.ok => ctx.ack = "ok"

(* The timer counts only while the test of it waits, or is about to stop   *)
(* it.                                                                     *)
TimerClean == timer.interval = "test" =>
                test.name = "rti" /\ test.pc \in {"wait", "check", "stop"}

(* The commands that are the test's, their callbacks and what the          *)
(* callbacks have reported.                                                *)
MineInv ==
  /\ test.name = "command" =>
       test.pc \in {"idle", "begin", "send", "wait", "check", "stopping", "panic"}
  /\ test.name \in {"loopback", "rti", "ping"} => NoneMine
  /\ test.name = "server" => /\ \A i \in 1..Len(q) : Mine(q[i]) => q[i].cb
                             /\ Busy /\ Mine(h.cmd) => h.cmd.cb
  /\ test.name = "server" /\ Mine(h.cmd) /\ h.pc = "gcb" => ctx.status = h.status

(* The events that are pending are the ones the test waits for. *)
PendInv ==
  /\ test.pc \notin {"wait", "reply"} => pend = {}
  /\ test.pc = "reply" => pend \subseteq {0}
  /\ test.pc = "wait" =>
       /\ test.name = "command" => /\ 0 \in pend <=> ctx.handled
                                   /\ 1 \in pend <=> ctx.status # "unknown"
       /\ test.name = "loopback" => /\ 0 \in pend <=> ctx.rx = "ok"
                                    /\ 1 \in pend <=> ctx.ack = "ok"
       /\ test.name = "rti" => /\ 0 \in pend <=> ctx.events >= NumEvents
                               /\ 1 \notin pend
       /\ test.name = "server" => pend = {}
       /\ test.name \in {"ping", "linkshmem"} => pend = IF lnk[L].acked THEN {0} ELSE {}

(* What a test has seen once it has been woken. *)
SeenInv ==
  /\ test.ok /\ test.pc # "panic"
  /\ test.pc # "idle" => ctx.status # "failed"
  /\ Busy /\ h.status = "failed" => ~Mine(h.cmd)
  /\ test.name = "command" /\ test.pc \in {"begin", "send"} => ~ctx.handled
  /\ test.name = "command" /\ test.pc \in {"check", "stopping"} =>
       ctx.handled /\ ctx.status # "unknown"
  /\ test.name = "loopback" /\ test.pc \in {"check", "stop"} => ctx.rx = "ok" /\ ctx.ack = "ok"
  /\ test.name = "rti" /\ test.pc \in {"check", "stop"} => ctx.events >= NumEvents
  /\ test.name = "rti" /\ test.pc \in {"wait", "check", "stop"} => ctx.events <= NumEvents + Skew

CleanInv ==
  /\ TimerClean /\ MineInv
  /\ Sound => /\ ChanClean /\ PendInv /\ SeenInv
              /\ \A l \in {"trch", "clink"} : LinkClean(l)

-------------------------------------------------------------------------------
(* A step after which nothing has gone wrong blames nothing. *)
LEMMA NotBlamed ==
  ASSUME Sound'
  PROVE  \A c \in Causes : ~Blame(c)
BY DEF Sound, Blame, Causes

(* What has gone wrong is forgotten by the beginning of a test only. *)
LEMMA History ==
  ASSUME [Next]_vars, Sound', ~Sound
  PROVE  \E name : Begin(name) /\ NothingLeft
<1> USE DEF cmdVars, hist
<1>1. cause' # cause /\ \A c : ~Blame(c)
  BY DEF Sound, Blame
<1>2. ~UNCHANGED vars
  BY <1>1 DEF vars
<1>3. CASE BootTest \/ early_tasks \/ late_tasks \/ ShellTest
  BY <1>1, <1>3 DEF BootTest, early_tasks, late_tasks, ShellTest, Begin, Sound
<1>4. ~Test
  BY <1>1 DEF Test, hpsc_test_command, CommandSend, CommandWait, CommandCheck, CommandEnd,
     hpsc_mbox_chan_test, test_loopback, LoopbackWait, LoopbackCheck, LoopbackEnd,
     hpsc_rti_timer_test_device, do_test_advance, do_test_events, RtiWait, RtiCheck, RtiEnd,
     hpsc_test_command_server, ServerAck, ServerEnd, hpsc_test_link_shmem, PingBegin,
     hpsc_test_link_ping, PingAck, PingReply, ShmemStatus, ShmemEnd, Receive
<1>5. ~(Isr \/ Handler \/ Remote)
  BY <1>1 DEF Isr, cb_recv, cb_ack, handle_event, Count, Handler, cmd_dequeue, HandlerReceive,
     cmd_handle, ReplySent, ReplyTimedOut, handled_cmd_cb, handled_cb, Remote, TrchReplies,
     HppsSends, HppsAcks
<1>6. ~\E l \in {"trch", "clink"} : Poll(l)
  BY <1>1 DEF Poll, TakeRequest, link_ack, link_recv_reply
<1> QED BY <1>2, <1>3, <1>4, <1>5, <1>6 DEF Next

(* The steps of everything but the tests. *)
Others == Isr \/ Handler \/ Remote \/ \E l \in {"trch", "clink"} : Poll(l)
(* They leave the test, its order and the timer alone. *)
LEMMA OthersFrame ==
  ASSUME Others PROVE UNCHANGED <<boot, test, timer>>
BY DEF Others, Isr, cb_recv, cb_ack, handle_event, Count, Handler, cmd_dequeue, HandlerReceive,
   cmd_handle, ReplySent, ReplyTimedOut, handled_cmd_cb, handled_cb, Remote, TrchReplies,
   HppsSends, HppsAcks, Poll, TakeRequest, link_ack, link_recv_reply, cmdVars, hist

(* A test begins with a fresh context. *)
LEMMA Fresh ==
  ASSUME Types, NEW name, Begin(name)
  PROVE  /\ test'.name = name /\ test'.pc = "begin" /\ test'.ok /\ test'.n = test.n + 1
         /\ ctx' = FreshCtx
BY DEF Begin, Types, TestState

(* The timer is set to count by its own test, and set back at its end. *)
LEMMA TimerStep ==
  ASSUME Types, TimerClean, [Next]_vars PROVE TimerClean'
<1> USE DEF Types, cmdVars, hist, TimerClean, At
<1>1. CASE UNCHANGED vars \/ Others
  BY <1>1, OthersFrame DEF vars
<1>2. CASE BootTest \/ early_tasks \/ late_tasks \/ ShellTest
  BY <1>2, Fresh DEF BootTest, early_tasks, late_tasks, ShellTest
<1>3. CASE Test /\ test.name # "rti"
  <2>1. timer' = timer
    BY <1>3 DEF Test, hpsc_test_command, CommandSend, CommandWait, CommandCheck, CommandEnd,
       hpsc_mbox_chan_test, test_loopback, LoopbackWait, LoopbackCheck, LoopbackEnd,
       hpsc_rti_timer_test_device, do_test_advance, do_test_events, RtiWait, RtiCheck, RtiEnd,
       hpsc_test_command_server, ServerAck, ServerEnd, hpsc_test_link_shmem, PingBegin,
       hpsc_test_link_ping, PingAck, PingReply, ShmemStatus, ShmemEnd
  <2> QED BY <1>3, <2>1
<1>4. CASE hpsc_rti_timer_test_device
  BY <1>4 DEF hpsc_rti_timer_test_device, hpsc_rti_timer_start, Timer
<1>5. CASE do_test_advance \/ do_test_events \/ RtiWait \/ RtiCheck
  <2>1. CASE do_test_advance
    BY <2>1 DEF do_test_advance
  <2>2. CASE do_test_events
    BY <2>2, TestFields DEF do_test_events
  <2>3. CASE RtiWait
    BY <2>3, TestFields DEF RtiWait, Receive
  <2>4. CASE RtiCheck
    BY <2>4, TestFields DEF RtiCheck
  <2> QED BY <1>5, <2>1, <2>2, <2>3, <2>4
<1>6. CASE RtiEnd
  BY <1>6 DEF RtiEnd, hpsc_rti_timer_stop, hpsc_rti_timer_configure, Timer
<1>7. Test /\ test.name = "rti" => \/ hpsc_rti_timer_test_device \/ do_test_advance
                                    \/ do_test_events \/ RtiWait \/ RtiCheck \/ RtiEnd
  BY DEF Test, hpsc_test_command, CommandSend, CommandWait, CommandCheck, CommandEnd,
       hpsc_mbox_chan_test, test_loopback, LoopbackWait, LoopbackCheck, LoopbackEnd,
       hpsc_test_command_server, ServerAck, ServerEnd, hpsc_test_link_shmem, PingBegin,
       hpsc_test_link_ping, PingAck, PingReply, ShmemStatus, ShmemEnd
<1> QED BY <1>1, <1>2, <1>3, <1>4, <1>5, <1>6, <1>7 DEF Next, Others

-------------------------------------------------------------------------------
(* The result of a command stays as it is until the next is taken, but for *)
(* a reply that times out.                                                 *)
LEMMA StatusFields ==
  ASSUME h \in Handling
  PROVE  /\ \A l : [h EXCEPT !.pc = l].status = h.status
         /\ \A e : [h EXCEPT !.ev = e].status = h.status
         /\ \A e, l : [h EXCEPT !.ev = e, !.pc = l].status = h.status
         /\ \A l, c : [h EXCEPT !.pc = l, !.cmd = c].status = h.status
         /\ \A l, s : [h EXCEPT !.pc = l, !.status = s].status = s
         /\ \A l, c, s : [h EXCEPT !.pc = l, !.cmd = c, !.status = s].status = s
BY DEF Handling

(* Within a test its name and number stay. *)
LEMMA TestNames ==
  ASSUME Types, Test PROVE test'.name = test.name /\ test'.n = test.n
<1> USE DEF Types
<1>0. ASSUME PingDone(TRUE) \/ PingDone(FALSE) PROVE test'.name = test.name /\ test'.n = test.n
  BY <1>0, TestFields DEF PingDone
<1>1. CASE hpsc_test_command \/ CommandSend \/ CommandWait \/ CommandCheck \/ CommandEnd
  BY <1>1, TestFields DEF hpsc_test_command, CommandSend, CommandWait, CommandCheck, CommandEnd,
     Receive
<1>2. CASE hpsc_mbox_chan_test \/ test_loopback \/ LoopbackWait \/ LoopbackCheck \/ LoopbackEnd
  BY <1>2, TestFields DEF hpsc_mbox_chan_test, test_loopback, LoopbackWait, LoopbackCheck,
     LoopbackEnd, Receive
<1>3. CASE \/ hpsc_rti_timer_test_device \/ do_test_advance \/ do_test_events \/ RtiWait \/ RtiCheck
           \/ RtiEnd
  BY <1>3, TestFields DEF hpsc_rti_timer_test_device, do_test_advance, do_test_events, RtiWait,
     RtiCheck, RtiEnd, Receive
<1>4. CASE hpsc_test_command_server \/ ServerAck \/ ServerEnd
  BY <1>4, TestFields DEF hpsc_test_command_server, ServerAck, ServerEnd
<1>5. CASE hpsc_test_link_shmem \/ PingBegin \/ hpsc_test_link_ping \/ ShmemStatus \/ ShmemEnd
  BY <1>5, TestFields DEF hpsc_test_link_shmem, PingBegin, hpsc_test_link_ping, ShmemStatus,
     ShmemEnd
<1>6. CASE PingAck
  BY <1>0, <1>6, TestFields DEF PingAck
<1>7. CASE PingReply
  BY <1>0, <1>7 DEF PingReply
<1> QED BY <1>1, <1>2, <1>3, <1>4, <1>5, <1>6, <1>7 DEF Test

(* Most steps leave the handler task with the command it has, not yet      *)
(* reported or as good as done.                                            *)
HandlerKeeps ==
  /\ q' = q /\ h'.cmd = h.cmd /\ h'.status = h.status
  /\ \/ h'.pc = h.pc
     \/ ~Busy /\ ~Busy'
     \/ {h.pc, h'.pc} \subseteq {"handle", "reply", "acked", "cb"}
(* These are the steps that do more. *)
LEMMA HandlerWork ==
  ASSUME Types, [Next]_vars
  PROVE  \/ HandlerKeeps
         \/ early_tasks \/ hpsc_test_command
         \/ CommandSend \/ hpsc_test_command_server \/ TakeRequest("clink") \/ HppsSends
         \/ cmd_dequeue \/ ReplyTimedOut \/ handled_cmd_cb \/ handled_cb
<1> USE DEF cmdVars, hist
<1>0. h \in Handling
  BY DEF Types
<1>a. ASSUME q' = q, h' = h \/ (h.pc = "reply" /\ h' = [h EXCEPT !.pc = "acked"])
      PROVE  HandlerKeeps
  <2>1. CASE h' = h
    BY <1>a, <2>1 DEF HandlerKeeps
  <2>2. CASE h.pc = "reply" /\ h' = [h EXCEPT !.pc = "acked"]
    <3>1. h'.pc = "acked" /\ h'.cmd = h.cmd /\ h'.status = h.status
      BY <1>0, <2>2, HandlerFields, StatusFields
    <3> QED BY <1>a, <2>2, <3>1 DEF HandlerKeeps
  <2> QED BY <1>a, <2>1, <2>2
<1>1. CASE UNCHANGED vars
  BY <1>1, <1>a DEF vars
<1>2. CASE BootTest \/ late_tasks \/ ShellTest
  BY <1>2, <1>a DEF BootTest, late_tasks, ShellTest
<1>3. CASE \/ CommandWait \/ CommandEnd
           \/ hpsc_mbox_chan_test \/ test_loopback \/ LoopbackWait \/ LoopbackCheck \/ LoopbackEnd
           \/ hpsc_rti_timer_test_device \/ do_test_advance \/ do_test_events \/ RtiWait
           \/ RtiCheck \/ RtiEnd \/ ServerEnd \/ hpsc_test_link_shmem \/ PingBegin
           \/ hpsc_test_link_ping \/ PingAck \/ PingReply \/ ShmemStatus \/ ShmemEnd
  <2>1. q' = q /\ h' = h
    BY <1>3 DEF CommandWait, CommandEnd, hpsc_mbox_chan_test, test_loopback, LoopbackWait,
       LoopbackCheck, LoopbackEnd, hpsc_rti_timer_test_device, do_test_advance, do_test_events,
       RtiWait, RtiCheck, RtiEnd, ServerEnd, hpsc_test_link_shmem, PingBegin,
       hpsc_test_link_ping, PingAck, PingReply, ShmemStatus, ShmemEnd
  <2> QED BY <1>a, <2>1
<1>4. CASE CommandCheck
  BY <1>0, <1>4, HandlerFields, StatusFields DEF CommandCheck, HandlerKeeps
<1>5. CASE ServerAck
  <2>1. q' = q
    BY <1>5 DEF ServerAck
  <2>2. h' = h \/ (h.pc = "reply" /\ h' = [h EXCEPT !.pc = "acked"])
    BY <1>5 DEF ServerAck
  <2> QED BY <1>a, <2>1, <2>2
<1>6. CASE Isr \/ TrchReplies
  BY <1>6, <1>a DEF Isr, cb_recv, cb_ack, handle_event, Count, TrchReplies
<1>7. CASE HandlerReceive \/ cmd_handle \/ ReplySent \/ HppsAcks
  <2>1. CASE HandlerReceive
    BY <1>0, <2>1, HandlerFields, StatusFields DEF HandlerReceive, HandlerKeeps, Busy
  <2>2. CASE cmd_handle \/ ReplySent \/ HppsAcks
    <3>1. /\ q' = q /\ h.pc \in {"handle", "acked", "reply"}
          /\ \E l \in {"reply", "acked", "cb"} : h' = [h EXCEPT !.pc = l]
      BY <2>2 DEF cmd_handle, ReplySent, HppsAcks
    <3>2. h'.pc \in {"reply", "acked", "cb"} /\ h'.cmd = h.cmd /\ h'.status = h.status
      BY <1>0, <3>1, HandlerFields, StatusFields
    <3> QED BY <3>1, <3>2 DEF HandlerKeeps
  <2> QED BY <1>7, <2>1, <2>2
<1>8. ASSUME NEW l \in {"trch", "clink"}, Poll(l), ~TakeRequest("clink") PROVE HandlerKeeps
  <2>1. CASE link_recv_reply(l)
    <3>1. q' = q
      BY <2>1 DEF link_recv_reply
    <3>2. h' = h \/ (h.pc = "reply" /\ h' = [h EXCEPT !.pc = "acked"])
      BY <2>1 DEF link_recv_reply
    <3> QED BY <1>a, <3>1, <3>2
  <2>2. CASE ~link_recv_reply(l)
    BY <1>8, <1>a, <2>2 DEF Poll, TakeRequest, link_ack
  <2> QED BY <2>1, <2>2
<1> QED BY <1>1, <1>2, <1>3, <1>4, <1>5, <1>6, <1>7, <1>8 DEF Next, Test, Handler, Remote

(* A command that is submitted is the last of the queue; the handler task  *)
(* is only told of it.                                                     *)
LEMMA Submitted ==
  ASSUME Types, NEW c \in Command, Enqueue(c)
  PROVE  /\ h'.pc = h.pc /\ h'.cmd = h.cmd /\ h'.status = h.status
         /\ \A i \in 1..Len(q') : q'[i] = c \/ (i \in 1..Len(q) /\ q'[i] = q[i])
<1>1. h'.pc = h.pc /\ h'.cmd = h.cmd /\ h'.status = h.status
  BY HandlerFields, StatusFields DEF Types, Enqueue
<1>2. /\ Len(q) \in Nat /\ Len(q') = Len(q) + 1
      /\ \A i \in 1..Len(q) : q'[i] = q[i]
      /\ q'[Len(q) + 1] = c
  BY QueueFields DEF Enqueue
<1> QED BY <1>1, <1>2

(* The command that is taken was the first. *)
LEMMA Dequeued ==
  ASSUME Types, cmd_dequeue
  PROVE  \/ ~Busy /\ ~Busy' /\ q' = q
         \/ /\ h'.pc = "handle" /\ h'.status = "ok" /\ 1 \in 1..Len(q) /\ h'.cmd = q[1]
            /\ \A i \in 1..Len(q') : i + 1 \in 1..Len(q) /\ q'[i] = q[i + 1]
<1>0. h \in Handling /\ h.pc = "flush"
  BY DEF Types, cmd_dequeue
<1>1. CASE q = << >>
  <2>1. h' = [h EXCEPT !.pc = "wait"] /\ q' = q
    BY <1>1 DEF cmd_dequeue
  <2> QED BY <1>0, <2>1, HandlerFields DEF Busy
<1>2. CASE q # << >>
  <2>1. h' = [h EXCEPT !.pc = "handle", !.cmd = Head(q), !.status = "ok"] /\ q' = Tail(q)
    BY <1>2 DEF cmd_dequeue
  <2>2. h'.pc = "handle" /\ h'.status = "ok" /\ h'.cmd = q[1]
    <3>1. h'.pc = "handle" /\ h'.cmd = Head(q)
      BY <1>0, <2>1, HandlerFields
    <3>2. h'.status = "ok"
      BY <1>0, <2>1, StatusFields
    <3>3. Head(q) = q[1]
      BY <1>2, QueueFields
    <3> QED BY <3>1, <3>2, <3>3
  <2>3. /\ Len(q) \in Nat /\ Len(q) > 0 /\ Len(q') = Len(q) - 1
        /\ \A i \in 1..Len(q) - 1 : q'[i] = q[i + 1]
    BY <1>2, <2>1, QueueFields
  <2>4. 1 \in 1..Len(q) /\ \A i \in 1..Len(q') : i + 1 \in 1..Len(q) /\ q'[i] = q[i + 1]
    BY <2>3
  <2> QED BY <2>2, <2>4
<1> QED BY <1>1, <1>2

(* The status in the context changes when a test begins and when a         *)
(* callback reports one.                                                   *)
LEMMA StatusKept ==
  ASSUME Types, [Next]_vars
  PROVE  \/ ctx'.status = ctx.status
         \/ BootTest \/ ShellTest \/ handled_cmd_cb \/ handled_cb
<1> USE DEF Types, cmdVars, hist
<1>1. CASE UNCHANGED vars
  BY <1>1 DEF vars
<1>2. CASE early_tasks \/ late_tasks
  BY <1>2 DEF early_tasks, late_tasks
<1>3. CASE Test
  <2>1. CASE do_test_events
    BY <2>1, CtxFields DEF do_test_events
  <2>2. CASE ~do_test_events
    BY <1>3, <2>2 DEF Test, hpsc_test_command, CommandSend, CommandWait, CommandCheck, CommandEnd,
       hpsc_mbox_chan_test, test_loopback, LoopbackWait, LoopbackCheck, LoopbackEnd,
       hpsc_rti_timer_test_device, do_test_advance, RtiWait, RtiCheck, RtiEnd,
       hpsc_test_command_server, ServerAck, ServerEnd, hpsc_test_link_shmem, PingBegin,
       hpsc_test_link_ping, PingAck, PingReply, ShmemStatus, ShmemEnd
  <2> QED BY <2>1, <2>2
<1>4. CASE cb_recv \/ cb_ack \/ handle_event
  <2>1. \/ \E v : ctx' = [ctx EXCEPT !.rx = v]
        \/ \E v : ctx' = [ctx EXCEPT !.ack = v]
        \/ \E v : ctx' = [ctx EXCEPT !.events = v]
    BY <1>4 DEF cb_recv, cb_ack, handle_event, Count
  <2> QED BY <2>1, CtxFields
<1>5. CASE cmd_handle
  BY <1>5, CtxFields DEF cmd_handle
<1>6. CASE cmd_dequeue \/ HandlerReceive \/ ReplySent \/ ReplyTimedOut \/ Remote
  BY <1>6 DEF cmd_dequeue, HandlerReceive, ReplySent, ReplyTimedOut, Remote, TrchReplies,
     HppsSends, HppsAcks
<1>7. CASE \E l \in {"trch", "clink"} : Poll(l)
  BY <1>7 DEF Poll, TakeRequest, link_ack, link_recv_reply
<1> QED BY <1>1, <1>2, <1>3, <1>4, <1>5, <1>6, <1>7 DEF Next, Isr, Handler

-------------------------------------------------------------------------------
(* The steps of the first test, which ends in none but these. *)
LEMMA CommandPlaces ==
  ASSUME Types, MineInv, [Next]_vars, test'.name = "command"
  PROVE  test'.pc \in {"idle", "begin", "send", "wait", "check", "stopping", "panic"}
<1> USE DEF Types, At
<1>1. CASE UNCHANGED vars \/ Others
  BY <1>1, OthersFrame DEF vars, MineInv
<1>2. CASE BootTest \/ early_tasks \/ late_tasks \/ ShellTest
  BY <1>2, Fresh DEF BootTest, early_tasks, late_tasks, ShellTest, MineInv
<1>3. CASE Test /\ test.name # "command"
  BY <1>3, TestNames
<1>4. CASE Test /\ test.name = "command"
  <2>1. hpsc_test_command \/ CommandSend \/ CommandWait \/ CommandCheck \/ CommandEnd
    BY <1>4 DEF Test,
       hpsc_mbox_chan_test, test_loopback, LoopbackWait, LoopbackCheck, LoopbackEnd,
       hpsc_rti_timer_test_device, do_test_advance, do_test_events, RtiWait, RtiCheck, RtiEnd,
       hpsc_test_command_server, ServerAck, ServerEnd, hpsc_test_link_shmem, PingBegin,
       hpsc_test_link_ping, PingAck, PingReply, ShmemStatus, ShmemEnd
  <2> QED BY <2>1, TestFields DEF hpsc_test_command, CommandSend, CommandWait, CommandCheck,
          CommandEnd, Receive
<1> QED BY <1>1, <1>2, <1>3, <1>4 DEF Next, Others

(* A test begins; or the one there is stays, with its name and number. *)
Starts == /\ test.pc = "idle" /\ test'.pc = "begin" /\ test'.ok
          /\ test'.name # "none" /\ ctx' = FreshCtx
          /\ UNCHANGED <<pend, timer, chan, lnk, cmdVars>>
          /\ Sound' /\ ~Sound => NothingLeft
Stays == test'.name = test.name /\ test'.n = test.n /\ ~ShellTest
         /\ (BootTest => UNCHANGED <<test, ctx>>)
(* A step begins a test or stays with the one there is. *)
LEMMA Names ==
  ASSUME Types, [Next]_vars PROVE Starts \/ Stays
<1> USE DEF Types
<1>1. CASE UNCHANGED vars \/ Others \/ early_tasks \/ late_tasks
  <2>1. test' = test
    BY <1>1, OthersFrame DEF vars, early_tasks, late_tasks
  <2>2. ~ShellTest
    BY <2>1, Fresh DEF ShellTest
  <2>3. BootTest => UNCHANGED <<test, ctx>>
    BY <2>1, Fresh DEF BootTest
  <2> QED BY <2>1, <2>2, <2>3 DEF Stays
<1>2. CASE BootTest
  <2>1. ASSUME Begin(BootOrder[boot]) PROVE Starts
    <3>1. BootOrder[boot] # "none"
      BY <1>2 DEF BootTest, Booting, BootOrder
    <3>2. Sound' /\ ~Sound => NothingLeft
      BY <2>1 DEF Begin, Sound
    <3> QED BY <1>2, <2>1, <3>1, <3>2, Fresh DEF BootTest, Starts
  <2>2. ~ShellTest
    BY <1>2 DEF BootTest, ShellTest
  <2> QED BY <1>2, <2>1, <2>2 DEF BootTest, Stays
<1>3. CASE ShellTest
  <2>1. PICK name \in ShellTests : Begin(name)
    BY <1>3 DEF ShellTest
  <2>2. Sound' /\ ~Sound => NothingLeft
    BY <2>1 DEF Begin, Sound
  <2> QED BY <1>3, <2>1, <2>2, Fresh DEF ShellTest, ShellTests, Starts
<1>4. CASE Test
  <2>1. test'.name = test.name /\ test'.n = test.n
    BY <1>4, TestNames
  <2>2. ~Begin(BootOrder[boot]) /\ \A name \in ShellTests : ~Begin(name)
    BY <2>1, Fresh DEF TestState
  <2> QED BY <2>1, <2>2 DEF Stays, BootTest, ShellTest
<1> QED BY <1>1, <1>2, <1>3, <1>4 DEF Next, Others

(* The commands of the test are as MineInv says after every step. *)
LEMMA MineStep ==
  ASSUME Types, Types', TestInv, TestInv', MineInv, [Next]_vars PROVE MineInv'
<1> USE DEF cmdVars, hist
<1>1. CASE Starts
  <2>1. NoneMine'
    BY <1>1 DEF TestInv, OneInv, Starts
  <2>2. test'.name = "command" => test'.pc \in {"begin"}
    BY <1>1 DEF Starts
  <2> QED BY <2>1, <2>2 DEF MineInv, NoneMine, Busy
<1>2. CASE Stays
  <2> USE DEF Types
  <2>0. test'.name = test.name /\ \A c : Mine(c)' <=> Mine(c)
    BY <1>2 DEF Stays, Mine
  <2> DEFINE Kept == /\ NoneMine => NoneMine'
                     /\ test.name = "server" =>
                          /\ \A i \in 1..Len(q') : Mine(q'[i]) => q'[i].cb
                          /\ Busy' /\ Mine(h'.cmd) => h'.cmd.cb
                          /\ Mine(h'.cmd) /\ h'.pc = "gcb" => ctx'.status = h'.status
  <2>1. Kept => MineInv'
    BY <2>0, CommandPlaces DEF MineInv
  <2>2. CASE HandlerKeeps
    <3>1. Busy' => Busy /\ (h'.pc = "gcb" => h.pc = "gcb")
      BY <2>2 DEF HandlerKeeps, Busy
    <3>2. h'.pc = "gcb" => ctx'.status = ctx.status
      <4> SUFFICES ASSUME h'.pc = "gcb" PROVE ctx'.status = ctx.status
        OBVIOUS
      <4>1. h.pc = "gcb"
        BY <3>1 DEF Busy
      <4>2. ~handled_cmd_cb
        BY <4>1 DEF handled_cmd_cb
      <4>3. ASSUME handled_cb PROVE FALSE
        <5>1. h'.pc = "flush"
          BY <4>3, HandlerFields DEF handled_cb
        <5> QED BY <5>1
      <4> QED BY <1>2, <4>2, <4>3, StatusKept DEF Stays
    <3> QED BY <2>0, <2>1, <2>2, <3>1, <3>2 DEF HandlerKeeps, MineInv, NoneMine, Busy
  <2>3. CASE early_tasks \/ hpsc_test_command
    <3>1. CASE q' = q /\ h' = h
      BY <2>0, <2>1, <2>3, <3>1 DEF early_tasks, hpsc_test_command, MineInv, NoneMine, Busy
    <3>2. CASE q' = q /\ ~Busy'
      BY <2>0, <2>1, <3>2 DEF MineInv, NoneMine, Busy
    <3> QED BY <2>3, <3>1, <3>2, HandlerFields DEF early_tasks, hpsc_test_command, Busy
  <2>4. ASSUME NEW c \in Command, Enqueue(c), ctx' = ctx,
               Mine(c) => test.name \notin {"loopback", "rti", "ping"},
               Mine(c) /\ test.name = "server" => c.cb
        PROVE  MineInv'
    <3>1. /\ h'.pc = h.pc /\ h'.cmd = h.cmd /\ h'.status = h.status
          /\ \A i \in 1..Len(q') : q'[i] = c \/ (i \in 1..Len(q) /\ q'[i] = q[i])
      BY <2>4, Submitted
    <3>2. test.name \in {"loopback", "rti", "ping"} => NoneMine'
      BY <2>0, <2>4, <3>1 DEF MineInv, NoneMine, Busy
    <3>3. test.name = "server" => /\ \A i \in 1..Len(q') : Mine(q'[i]) => q'[i].cb
                                  /\ Busy' /\ Mine(h'.cmd) => h'.cmd.cb
                                  /\ Mine(h'.cmd) /\ h'.pc = "gcb" => ctx'.status = h'.status
      BY <2>4, <3>1 DEF MineInv, Busy
    <3> QED BY <2>0, <3>2, <3>3, CommandPlaces DEF MineInv
  <2>5. CASE CommandSend
    <3>1. [n |-> test.n, cb |-> TRUE, link |-> "none"] \in Command
      BY DEF Command, TestState
    <3>2. test.name = "command"
      BY <2>5 DEF CommandSend, At
    <3>3. CASE Enqueue([n |-> test.n, cb |-> TRUE, link |-> "none"])
      BY <2>4, <2>5, <3>1, <3>2, <3>3 DEF CommandSend
    <3>4. CASE q' = q /\ h' = [h EXCEPT !.ev = @ \cup {"EXIT"}]
      <4>1. HandlerKeeps
        BY <3>4, HandlerFields, StatusFields DEF HandlerKeeps
      <4> QED BY <2>2, <4>1
    <3> QED BY <2>5, <3>3, <3>4 DEF CommandSend
  <2>6. CASE hpsc_test_command_server
    <3>1. [n |-> test.n, cb |-> TRUE, link |-> "tlink"] \in Command
      BY DEF Command, TestState
    <3>2. CASE Enqueue([n |-> test.n, cb |-> TRUE, link |-> "tlink"])
      BY <2>4, <2>6, <3>1, <3>2 DEF hpsc_test_command_server, At
    <3>3. CASE q' = q /\ h' = h
      BY <2>2, <3>3 DEF HandlerKeeps
    <3> QED BY <2>6, <3>2, <3>3 DEF hpsc_test_command_server
  <2>7. CASE TakeRequest("clink")
    <3>1. [n |-> test.n, cb |-> FALSE, link |-> "slink"] \in Command
      BY DEF Command, TestState
    <3>2. test.name = "linkshmem"
      BY <2>7 DEF TakeRequest, TestInv, OneInv
    <3> QED BY <2>4, <2>7, <3>1, <3>2 DEF TakeRequest
  <2>8. CASE HppsSends
    <3>1. [n |-> 0, cb |-> FALSE, link |-> "hpps"] \in Command
      BY BoundAssumption DEF Command
    <3>2. ~Mine([n |-> 0, cb |-> FALSE, link |-> "hpps"])
      BY DEF Mine
    <3> QED BY <2>4, <2>8, <3>1, <3>2 DEF HppsSends
  <2>9. CASE cmd_dequeue
    <3>1. CASE ~Busy /\ ~Busy' /\ q' = q
      BY <2>0, <2>1, <3>1 DEF MineInv, NoneMine, Busy
    <3>2. CASE /\ h'.pc = "handle" /\ 1 \in 1..Len(q) /\ h'.cmd = q[1]
               /\ \A i \in 1..Len(q') : i + 1 \in 1..Len(q) /\ q'[i] = q[i + 1]
      BY <2>0, <2>1, <3>2 DEF MineInv, NoneMine, Busy
    <3> QED BY <2>9, <3>1, <3>2, Dequeued
  <2>10. CASE ReplyTimedOut
    <3>1. h.pc = "reply" /\ h'.pc = "cb" /\ h'.cmd = h.cmd /\ q' = q
      BY <2>10, HandlerFields DEF ReplyTimedOut
    <3> QED BY <2>0, <2>1, <3>1 DEF MineInv, NoneMine, Busy
  <2>11. CASE handled_cmd_cb
    <3>1. h.pc = "cb" /\ h'.pc = "gcb" /\ h'.cmd = h.cmd /\ h'.status = h.status /\ q' = q
      BY <2>11, HandlerFields, StatusFields DEF handled_cmd_cb
    <3>2. test.name = "server" /\ h.cmd.cb => ctx'.status = h.status
      BY <2>11, CtxFields DEF handled_cmd_cb
    <3> QED BY <2>0, <2>1, <3>1, <3>2 DEF MineInv, NoneMine, Busy
  <2>12. CASE handled_cb
    <3>1. h'.pc = "flush" /\ q' = q
      BY <2>12, HandlerFields DEF handled_cb
    <3> QED BY <2>0, <2>1, <3>1 DEF MineInv, NoneMine, Busy
  <2> QED BY <2>2, <2>3, <2>5, <2>6, <2>7, <2>8, <2>9, <2>10, <2>11, <2>12, HandlerWork
<1> QED BY <1>1, <1>2, Names

-------------------------------------------------------------------------------
(* The result of a test. *)
LEMMA ResultFields ==
  ASSUME test \in TestState, NEW ok, Return(ok)
  PROVE  /\ test'.name = test.name /\ test'.n = test.n /\ test'.ok = ok
         /\ test'.pc = IF Booting /\ ~ok THEN "panic" ELSE "idle"
BY DEF TestState, Return

(* A step within a test. *)
LEMMA GoesOn ==
  ASSUME test \in TestState, NEW l, Goto(l) \/ \E ok : test' = [test EXCEPT !.pc = l, !.ok = ok]
  PROVE  test'.pc = l
BY DEF TestState, Goto

-------------------------------------------------------------------------------
(* What the updates of the context leave of its other fields. *)
LEMMA ReportFields ==
  ASSUME ctx \in Context
  PROVE  /\ \A v : LET c == [ctx EXCEPT !.rx = v]
                   IN  c.rx = v /\ c.ack = ctx.ack /\ c.handled = ctx.handled /\ c.events = ctx.events
         /\ \A v : LET c == [ctx EXCEPT !.ack = v]
                   IN  c.ack = v /\ c.rx = ctx.rx /\ c.handled = ctx.handled /\ c.events = ctx.events
         /\ \A v : LET c == [ctx EXCEPT !.events = v]
                   IN  c.events = v /\ c.rx = ctx.rx /\ c.ack = ctx.ack /\ c.handled = ctx.handled
         /\ \A v : LET c == [ctx EXCEPT !.status = v]
                   IN  /\ c.rx = ctx.rx /\ c.ack = ctx.ack /\ c.handled = ctx.handled
                       /\ c.events = ctx.events
         /\ LET c == [ctx EXCEPT !.handled = TRUE]
            IN  c.handled /\ c.rx = ctx.rx /\ c.ack = ctx.ack /\ c.events = ctx.events
         /\ LET c == [ctx EXCEPT !.written = TRUE]
            IN  /\ c.rx = ctx.rx /\ c.ack = ctx.ack /\ c.handled = ctx.handled
                /\ c.events = ctx.events
         /\ FreshCtx.rx = "none" /\ FreshCtx.ack = "none" /\ ~FreshCtx.handled
BY DEF Context, FreshCtx

(* The channel and its reports change in its own test and in the interrupt *)
(* handlers.                                                               *)
LEMMA ChanFrame ==
  ASSUME Types, [Next]_vars
  PROVE  \/ Starts
         \/ hpsc_mbox_chan_test \/ test_loopback \/ LoopbackEnd
         \/ cb_recv \/ cb_ack
         \/ chan' = chan /\ ctx'.rx = ctx.rx /\ ctx'.ack = ctx.ack
<1> USE DEF Types, cmdVars, hist
<1>1. CASE UNCHANGED vars \/ early_tasks \/ late_tasks
  BY <1>1 DEF vars, early_tasks, late_tasks
<1>2. CASE BootTest \/ ShellTest
  BY <1>2, Names DEF Stays, BootTest
<1>3. CASE do_test_events
  BY <1>3, ReportFields DEF do_test_events
<1>4. CASE Test /\ ~(do_test_events \/ hpsc_mbox_chan_test \/ test_loopback \/ LoopbackEnd)
  BY <1>4 DEF Test, hpsc_test_command, CommandSend, CommandWait, CommandCheck, CommandEnd,
     LoopbackWait, LoopbackCheck, hpsc_rti_timer_test_device, do_test_advance, RtiWait, RtiCheck,
     RtiEnd, hpsc_test_command_server, ServerAck, ServerEnd, hpsc_test_link_shmem, PingBegin,
     hpsc_test_link_ping, PingAck, PingReply, ShmemStatus, ShmemEnd
<1>5. CASE handle_event \/ cmd_handle \/ handled_cmd_cb \/ handled_cb
  <2>1. chan' = chan
    BY <1>5 DEF handle_event, Count, cmd_handle, handled_cmd_cb, handled_cb
  <2>2. \/ ctx' = ctx
        \/ \E v : ctx' = [ctx EXCEPT !.events = v]
        \/ \E v : ctx' = [ctx EXCEPT !.status = v]
        \/ ctx' = [ctx EXCEPT !.handled = TRUE]
        \/ ctx' = [ctx EXCEPT !.written = TRUE]
    BY <1>5 DEF handle_event, Count, cmd_handle, handled_cmd_cb, handled_cb
  <2>3. ctx'.rx = ctx.rx /\ ctx'.ack = ctx.ack
    <3>1. ctx \in Context
      OBVIOUS
    <3> HIDE DEF Types
    <3>2. \A v : /\ [ctx EXCEPT !.events = v].rx = ctx.rx /\ [ctx EXCEPT !.events = v].ack = ctx.ack
                 /\ [ctx EXCEPT !.status = v].rx = ctx.rx /\ [ctx EXCEPT !.status = v].ack = ctx.ack
      BY <3>1, ReportFields
    <3>3. ASSUME ctx' = [ctx EXCEPT !.handled = TRUE] \/ ctx' = [ctx EXCEPT !.written = TRUE]
          PROVE  ctx'.rx = ctx.rx /\ ctx'.ack = ctx.ack
      BY <3>1, <3>3, ReportFields
    <3> QED BY <2>2, <3>2, <3>3
  <2> QED BY <2>1, <2>3
<1>6. CASE cmd_dequeue \/ HandlerReceive \/ ReplySent \/ ReplyTimedOut \/ Remote
  BY <1>6 DEF cmd_dequeue, HandlerReceive, ReplySent, ReplyTimedOut, Remote, TrchReplies,
     HppsSends, HppsAcks
<1>7. CASE \E l \in {"trch", "clink"} : Poll(l)
  BY <1>7 DEF Poll, TakeRequest, link_ack, link_recv_reply
<1> QED BY <1>1, <1>2, <1>3, <1>4, <1>5, <1>6, <1>7 DEF Next, Isr, Handler

(* The steps of the loopback test. *)
LEMMA LoopbackSteps ==
  ASSUME Types, [Next]_vars, test.name = "loopback" \/ test'.name = "loopback"
  PROVE  \/ Starts
         \/ hpsc_mbox_chan_test \/ test_loopback \/ LoopbackWait \/ LoopbackCheck \/ LoopbackEnd
         \/ UNCHANGED test
<1>1. CASE UNCHANGED vars \/ Others \/ early_tasks \/ late_tasks
  BY <1>1, OthersFrame DEF vars, early_tasks, late_tasks
<1>2. CASE BootTest \/ ShellTest
  BY <1>2, Names DEF Stays
<1>3. CASE Test
  <2>1. test.name = "loopback"
    BY <1>3, TestNames
  <2> QED BY <1>3, <2>1 DEF Test, hpsc_test_command, CommandSend, CommandWait, CommandCheck,
          CommandEnd, hpsc_rti_timer_test_device, do_test_advance, do_test_events, RtiWait,
          RtiCheck, RtiEnd, hpsc_test_command_server, ServerAck, ServerEnd, hpsc_test_link_shmem,
          PingBegin, hpsc_test_link_ping, PingAck, PingReply, ShmemStatus, ShmemEnd, At
<1> QED BY <1>1, <1>2, <1>3 DEF Next, Others

(* Each message to ourselves is one RCV event and then one ACK event. *)
LEMMA ChanStep ==
  ASSUME Types, TestInv, ChanClean, SeenInv, [Next]_vars, ~Starts PROVE ChanClean'
<1> USE DEF cmdVars, hist
<1>0. test \in TestState /\ ctx \in Context /\ chan \in Channel
  BY DEF Types
<1>2. CASE hpsc_mbox_chan_test
  <2>1. /\ test.name = "loopback" /\ test.pc = "begin" /\ test'.name = "loopback"
        /\ test'.pc \in {"send", "idle", "panic"}
    <3>1. Goto("send") \/ Return(FALSE)
      BY <1>2 DEF hpsc_mbox_chan_test
    <3> QED BY <1>0, <1>2, <3>1, TestFields, ResultFields DEF hpsc_mbox_chan_test, At
  <2>2. chan'.set = chan.set /\ ctx' = ctx
    BY <1>0, <1>2 DEF hpsc_mbox_chan_test, Channel
  <2> QED BY <1>0, <2>1, <2>2 DEF ChanClean, Looping
<1>3. CASE test_loopback
  <2>1. /\ test.name = "loopback" /\ test.pc = "send" /\ test'.name = "loopback"
        /\ test'.pc = "wait"
    BY <1>0, <1>3, TestFields DEF test_loopback, At
  <2>2. chan'.set = chan.set \cup {"rcv"} /\ ctx' = ctx
    BY <1>0, <1>3 DEF test_loopback, Channel
  <2> QED BY <1>0, <2>1, <2>2 DEF ChanClean, Looping
<1>4. CASE LoopbackWait
  <2>1. /\ test.name = "loopback" /\ test.pc = "wait" /\ test'.name = "loopback"
        /\ test'.pc = "check"
    BY <1>0, <1>4, TestFields DEF LoopbackWait, Receive, At
  <2>2. UNCHANGED <<chan, ctx>>
    BY <1>4 DEF LoopbackWait
  <2> QED BY <1>0, <2>1, <2>2 DEF ChanClean, Looping
<1>5. CASE LoopbackCheck
  <2>1. /\ test.name = "loopback" /\ test.pc = "check" /\ test'.name = "loopback"
        /\ test'.pc = "stop" /\ test'.ok = (ctx.rx = "ok" /\ ctx.ack = "ok")
    BY <1>0, <1>5, TestFields DEF LoopbackCheck, At
  <2>2. UNCHANGED <<chan, ctx>>
    BY <1>5 DEF LoopbackCheck
  <2> QED BY <1>0, <2>1, <2>2 DEF ChanClean, Looping
<1>6. CASE LoopbackEnd
  <2>1. /\ test.name = "loopback" /\ test.pc = "stop" /\ test'.name = "loopback"
        /\ test'.pc = IF Booting /\ ~test.ok THEN "panic" ELSE "idle"
    <3>1. Return(test.ok) /\ test.name = "loopback" /\ test.pc = "stop"
      BY <1>6 DEF LoopbackEnd, At
    <3> QED BY <1>0, <3>1, ResultFields
  <2>2. chan'.set = chan.set
    BY <1>0, <1>6 DEF LoopbackEnd, Channel
  <2>3. test.ok
    BY DEF SeenInv
  <2> QED BY <1>0, <2>1, <2>2, <2>3 DEF ChanClean, Looping
<1>7. CASE cb_recv
  <2>1. test' = test /\ "rcv" \in chan.set
    BY <1>7 DEF cb_recv
  <2>2. /\ test.name = "loopback" /\ test.pc \in {"send", "wait", "check", "stop"}
    BY <1>7 DEF cb_recv, TestInv, InstalledInv
  <2>3. Looping /\ ctx.rx = "none" /\ ctx.ack = "none" /\ chan.set = {"rcv"}
    BY <1>0, <2>1, <2>2 DEF ChanClean, Looping
  <2>4. ctx'.rx = "ok" /\ ctx'.ack = "none" /\ chan'.set = {"ack"}
    <3>1. ctx' = [ctx EXCEPT !.rx = "ok"] /\ chan' = [chan EXCEPT !.set = (@ \ {"rcv"}) \cup {"ack"}]
      BY <1>7, <2>3 DEF cb_recv
    <3>2. chan'.set = {"ack"}
      BY <1>0, <2>3, <3>1 DEF Channel
    <3> QED BY <1>0, <2>3, <3>1, <3>2, ReportFields
  <2>5. ~(Looping /\ test.pc = "stop" /\ test.ok)
    BY <1>0, <2>3 DEF ChanClean
  <2> QED BY <2>1, <2>3, <2>4, <2>5 DEF ChanClean, Looping
<1>8. CASE cb_ack
  <2>1. test' = test /\ "ack" \in chan.set
    BY <1>8 DEF cb_ack
  <2>2. /\ test.name = "loopback" /\ test.pc \in {"send", "wait", "check", "stop"}
    BY <1>8 DEF cb_ack, TestInv, InstalledInv
  <2>3. Looping /\ ctx.rx = "ok" /\ ctx.ack = "none" /\ chan.set = {"ack"}
    BY <1>0, <2>1, <2>2 DEF ChanClean, Looping
  <2>4. ctx'.rx = "ok" /\ ctx'.ack = "ok" /\ chan'.set = {}
    <3>1. ctx' = [ctx EXCEPT !.ack = "ok"] /\ chan' = [chan EXCEPT !.set = @ \ {"ack"}]
      BY <1>0, <1>8, <2>3 DEF cb_ack, Context
    <3>2. chan'.set = {}
      BY <1>0, <2>3, <3>1 DEF Channel
    <3> QED BY <1>0, <2>3, <3>1, <3>2, ReportFields
  <2> QED BY <2>1, <2>3, <2>4 DEF ChanClean, Looping
<1>9. CASE chan' = chan /\ ctx'.rx = ctx.rx /\ ctx'.ack = ctx.ack
  <2>1. CASE UNCHANGED test
    BY <1>0, <1>9, <2>1 DEF ChanClean, Looping
  <2>2. CASE test.name # "loopback" /\ test'.name # "loopback"
    <3>1. test' # test => test.pc # "panic"
      BY DEF Next, Panicked, vars
    <3> QED BY <1>0, <1>9, <2>1, <2>2, <3>1 DEF ChanClean, Looping
  <2> QED BY <1>2, <1>3, <1>4, <1>5, <1>6, <2>1, <2>2, LoopbackSteps
<1> QED BY <1>2, <1>3, <1>6, <1>7, <1>8, <1>9, ChanFrame

-------------------------------------------------------------------------------
SameLink(l) == /\ lnk'[l].tid = lnk[l].tid /\ lnk'[l].msg = lnk[l].msg
               /\ lnk'[l].ack = lnk[l].ack /\ lnk'[l].acked = lnk[l].acked
(* The steps of the tests that do not use a link, and of everything that   *)
(* does not concern the request on it, leave it alone.                     *)
LEMMA LinkFrame ==
  ASSUME Types, [Next]_vars, NEW l \in {"trch", "clink"}
  PROVE  \/ Starts
         \/ Test /\ Pings(l)
         \/ TakeRequest(l) \/ link_ack(l)
         \/ SameLink(l) /\ (UNCHANGED test \/ (Test /\ ~Pings(l)))
<1> USE DEF cmdVars, hist
<1>0. lnk \in Links
  BY DEF Types
<1>1. CASE UNCHANGED vars \/ early_tasks \/ late_tasks
  BY <1>1 DEF vars, early_tasks, late_tasks, SameLink
<1>2. CASE BootTest \/ ShellTest
  BY <1>2, Names DEF Stays, BootTest, SameLink
<1>3. CASE Test /\ ~Pings(l)
  <2>1. ASSUME hpsc_test_link_ping \/ PingReply PROVE SameLink(l)
    <3>1. L # l /\ L \in {"trch", "clink"}
      BY <1>3, <2>1 DEF hpsc_test_link_ping, PingReply, L, Pings
    <3>2. lnk'[l] = lnk[l]
      BY <1>0, <2>1, <3>1 DEF hpsc_test_link_ping, PingReply, Links
    <3> QED BY <3>2 DEF SameLink
  <2>2. ASSUME hpsc_test_link_shmem \/ ShmemEnd PROVE SameLink(l)
    <3>1. l # "clink"
      BY <1>3, <2>2 DEF hpsc_test_link_shmem, ShmemEnd, At, Pings
    <3>2. lnk'[l] = lnk[l]
      BY <1>0, <2>2, <3>1 DEF hpsc_test_link_shmem, ShmemEnd, Links
    <3> QED BY <3>2 DEF SameLink
  <2>3. ASSUME ~(hpsc_test_link_ping \/ PingReply \/ hpsc_test_link_shmem \/ ShmemEnd)
        PROVE  SameLink(l)
    <3>1. lnk' = lnk
      BY <1>3, <2>3 DEF Test, hpsc_test_command, CommandSend, CommandWait, CommandCheck, CommandEnd,
         hpsc_mbox_chan_test, test_loopback, LoopbackWait, LoopbackCheck, LoopbackEnd,
         hpsc_rti_timer_test_device, do_test_advance, do_test_events, RtiWait, RtiCheck, RtiEnd,
         hpsc_test_command_server, ServerAck, ServerEnd, PingBegin, PingAck, ShmemStatus
    <3> QED BY <3>1 DEF SameLink
  <2> QED BY <1>3, <2>1, <2>2, <2>3
<1>4. CASE Isr
  BY <1>4, OthersFrame DEF Isr, Others, cb_recv, cb_ack, handle_event, Count, SameLink
<1>5. CASE cmd_handle \/ TrchReplies
  <2>1. \/ lnk' = lnk
        \/ lnk' = [lnk EXCEPT !["clink"].reply = TRUE]
        \/ lnk' = [lnk EXCEPT !["trch"].owed = FALSE, !["trch"].reply = TRUE]
    BY <1>5 DEF cmd_handle, TrchReplies
  <2>2. SameLink(l)
    BY <1>0, <2>1 DEF SameLink, Links, LinkEnd
  <2> QED BY <1>5, <2>2, OthersFrame DEF Others, Handler, Remote
<1>6. CASE (Handler \/ Remote) /\ ~cmd_handle /\ ~TrchReplies
  <2>1. lnk' = lnk
    BY <1>6 DEF Handler, Remote, cmd_dequeue, HandlerReceive, ReplySent, ReplyTimedOut,
       handled_cmd_cb, handled_cb, HppsSends, HppsAcks
  <2> QED BY <1>6, <2>1, OthersFrame DEF Others, SameLink
<1>7. ASSUME NEW m \in {"trch", "clink"}, Poll(m), ~TakeRequest(l), ~link_ack(l) PROVE SameLink(l)
  <2>1. CASE link_recv_reply(m)
    BY <1>0, <2>1 DEF link_recv_reply, SameLink, Links, LinkEnd
  <2>2. CASE m # l /\ (TakeRequest(m) \/ link_ack(m))
    <3>1. lnk'[l] = lnk[l]
      BY <1>0, <2>2 DEF TakeRequest, link_ack, Links
    <3> QED BY <3>1 DEF SameLink
  <2> QED BY <1>7, <2>1, <2>2 DEF Poll
<1>8. CASE \E m \in {"trch", "clink"} : Poll(m)
  BY <1>7, <1>8, OthersFrame DEF Others
<1> QED BY <1>1, <1>2, <1>3, <1>4, <1>5, <1>6, <1>8 DEF Next

(* The steps of the two tests that send a ping. *)
LEMMA PingSteps ==
  ASSUME Test, test.name \in {"ping", "linkshmem"}
  PROVE  \/ hpsc_test_link_shmem \/ PingBegin \/ hpsc_test_link_ping \/ PingAck \/ PingReply
         \/ ShmemStatus \/ ShmemEnd
BY DEF Test, hpsc_test_command, CommandSend, CommandWait, CommandCheck, CommandEnd,
   hpsc_mbox_chan_test, test_loopback, LoopbackWait, LoopbackCheck, LoopbackEnd,
   hpsc_rti_timer_test_device, do_test_advance, do_test_events, RtiWait, RtiCheck, RtiEnd,
   hpsc_test_command_server, ServerAck, ServerEnd, At

(* What they do with the request. *)
LEMMA PingFields ==
  ASSUME lnk \in Links, NEW l \in {"trch", "clink"}
  PROVE  /\ lnk' = [lnk EXCEPT ![l].tid = TRUE, ![l].acked = FALSE, ![l].msg = TRUE] =>
              /\ lnk'[l].tid /\ lnk'[l].msg /\ ~lnk'[l].acked /\ lnk'[l].ack = lnk[l].ack
         /\ lnk' = [lnk EXCEPT ![l].tid = FALSE] =>
              /\ ~lnk'[l].tid /\ lnk'[l].msg = lnk[l].msg /\ lnk'[l].ack = lnk[l].ack
         /\ l = "clink" /\ lnk' = [lnk EXCEPT !["clink"] = NoLink] => lnk'[l] = NoLink
         /\ TakeRequest(l) => /\ ~lnk'[l].msg /\ lnk'[l].ack
                              /\ lnk'[l].tid = lnk[l].tid /\ lnk'[l].acked = lnk[l].acked
         /\ link_ack(l) => /\ ~lnk'[l].ack /\ lnk'[l].acked
                           /\ lnk'[l].tid = lnk[l].tid /\ lnk'[l].msg = lnk[l].msg
<1> USE DEF Links, LinkEnd
<1>1. lnk' = [lnk EXCEPT ![l].tid = TRUE, ![l].acked = FALSE, ![l].msg = TRUE] =>
        /\ lnk'[l].tid /\ lnk'[l].msg /\ ~lnk'[l].acked /\ lnk'[l].ack = lnk[l].ack
  OBVIOUS
<1>2. lnk' = [lnk EXCEPT ![l].tid = FALSE] =>
        /\ ~lnk'[l].tid /\ lnk'[l].msg = lnk[l].msg /\ lnk'[l].ack = lnk[l].ack
  OBVIOUS
<1>3. l = "clink" /\ lnk' = [lnk EXCEPT !["clink"] = NoLink] => lnk'[l] = NoLink
  OBVIOUS
<1>4. TakeRequest(l) => /\ ~lnk'[l].msg /\ lnk'[l].ack
                        /\ lnk'[l].tid = lnk[l].tid /\ lnk'[l].acked = lnk[l].acked
  BY DEF TakeRequest
<1>5. link_ack(l) => /\ ~lnk'[l].ack /\ lnk'[l].acked
                     /\ lnk'[l].tid = lnk[l].tid /\ lnk'[l].msg = lnk[l].msg
  BY DEF link_ack
<1> QED BY <1>1, <1>2, <1>3, <1>4, <1>5, Zenon

(* A request is sent, taken, acknowledged, and answered. *)
LEMMA LinkStep ==
  ASSUME Types, TestInv, [Next]_vars, Sound', ~Starts, NEW l \in {"trch", "clink"}, LinkClean(l)
  PROVE  LinkClean(l)'
<1> USE DEF cmdVars, hist
<1>0. test \in TestState /\ lnk \in Links
  BY DEF Types
<1>2. CASE TakeRequest(l)
  <2>1. test' = test /\ lnk[l].msg
    BY <1>2 DEF TakeRequest
  <2> QED BY <1>0, <1>2, <2>1, PingFields DEF LinkClean, Pings, Asked, Acked, Resting
<1>3. CASE link_ack(l)
  <2>1. test' = test /\ lnk[l].ack
    BY <1>3 DEF link_ack
  <2> QED BY <1>0, <1>3, <2>1, PingFields DEF LinkClean, Pings, Asked, Acked, Resting
<1>4. CASE SameLink(l) /\ UNCHANGED test
  BY <1>0, <1>4 DEF SameLink, LinkClean, Pings, Asked, Acked, Resting
<1>p. Test => test.pc # "panic" /\ test'.name = test.name
  BY TestNames DEF Test, hpsc_test_command, CommandSend, CommandWait, CommandCheck, CommandEnd,
     hpsc_mbox_chan_test, test_loopback, LoopbackWait, LoopbackCheck, LoopbackEnd,
     hpsc_rti_timer_test_device, do_test_advance, do_test_events, RtiWait, RtiCheck, RtiEnd,
     hpsc_test_command_server, ServerAck, ServerEnd, hpsc_test_link_shmem, PingBegin,
     hpsc_test_link_ping, PingAck, PingReply, ShmemStatus, ShmemEnd, At
<1>5. CASE SameLink(l) /\ Test /\ ~Pings(l)
  BY <1>0, <1>5, <1>p DEF SameLink, LinkClean, Pings, Resting
<1>6. CASE Test /\ Pings(l)
  <2>1. /\ test.name \in {"ping", "linkshmem"} /\ L = l /\ Pings(l)'
        /\ test.name = "linkshmem" => l = "clink"
    BY <1>6, <1>p DEF Pings, L
  <2>2. test.pc \notin {"wait", "reply"} /\ (test.pc \in {"status", "close"} => test.ok) =>
          Resting(lnk[l])
    BY <1>0, <1>6, <1>p DEF LinkClean
  <2>3. /\ test'.pc \notin {"wait", "reply"} /\ (test'.pc # "panic" => Resting(lnk'[l])) => LinkClean(l)'
        /\ test'.pc = "panic" => LinkClean(l)'
        /\ test'.pc = "status" /\ ~test'.ok => LinkClean(l)'
    BY <2>1 DEF LinkClean
  <2>4. CASE hpsc_test_link_shmem
    <3>1. CASE Goto("send") /\ lnk' = [lnk EXCEPT !["clink"] = NoLink]
      BY <1>0, <2>1, <2>3, <2>4, <3>1, PingFields, GoesOn DEF hpsc_test_link_shmem, At, NoLink, Resting
    <3>2. CASE Return(FALSE) /\ lnk' = lnk
      <4>1. test'.pc \in {"idle", "panic"}
        BY <1>0, <3>2, ResultFields
      <4> QED BY <2>2, <2>3, <2>4, <3>2, <4>1 DEF hpsc_test_link_shmem, At
    <3> QED BY <2>4, <3>1, <3>2 DEF hpsc_test_link_shmem
  <2>5. CASE PingBegin
    <3>1. test'.pc = "send"
      BY <1>0, <2>5, GoesOn DEF PingBegin
    <3> QED BY <2>2, <2>3, <2>5, <3>1 DEF PingBegin, At
  <2>6. CASE hpsc_test_link_ping
    <3>1. test'.pc = "wait" /\ Resting(lnk[l])
      BY <1>0, <2>2, <2>6, GoesOn DEF hpsc_test_link_ping
    <3>2. Asked(lnk'[l])
      BY <1>0, <2>1, <2>6, <3>1, PingFields DEF hpsc_test_link_ping, Asked, Resting
    <3> QED BY <3>1, <3>2, <2>1 DEF LinkClean
  <2>7. CASE PingAck
    <3>1. Asked(lnk[l]) /\ lnk' = lnk /\ boot' = boot
      BY <1>0, <1>6, <2>7 DEF PingAck, LinkClean
    <3>2. CASE Goto("reply") /\ lnk[l].acked
      <4>1. test'.pc = "reply"
        BY <1>0, <3>2, GoesOn
      <4> QED BY <2>1, <3>1, <3>2, <4>1 DEF LinkClean, Asked, Acked
    <3>3. CASE test' = [test EXCEPT !.pc = "panic", !.ok = FALSE]
      BY <1>0, <2>3, <3>3, TestFields
    <3>4. ~Blame("timeout")
      BY NotBlamed DEF Causes
    <3> QED BY <2>1, <2>7, <3>2, <3>3, <3>4 DEF PingAck
  <2>8. CASE PingReply
    <3>1. Acked(lnk[l]) /\ lnk' = [lnk EXCEPT ![l].tid = FALSE]
      BY <1>0, <1>6, <2>1, <2>8 DEF PingReply, LinkClean
    <3>2. Resting(lnk'[l])
      BY <1>0, <3>1, PingFields DEF Acked, Resting
    <3>3. test'.pc \in {"idle", "panic", "status"}
      <4>1. ASSUME NEW ok, PingDone(ok) PROVE test'.pc \in {"idle", "panic", "status"}
        <5>1. CASE Return(ok)
          BY <1>0, <5>1, ResultFields
        <5>2. CASE test' = [test EXCEPT !.pc = "status", !.ok = ok]
          BY <1>0, <5>2, GoesOn
        <5> QED BY <4>1, <5>1, <5>2 DEF PingDone
      <4> QED BY <2>8, <4>1 DEF PingReply
    <3> QED BY <2>3, <3>2, <3>3
  <2>9. CASE ShmemStatus
    <3>1. test'.pc = "close" /\ (test'.ok => test.ok) /\ lnk' = lnk /\ test.pc = "status"
      BY <1>0, <2>9, TestFields DEF ShmemStatus, At, TestState
    <3> QED BY <2>1, <2>2, <3>1 DEF LinkClean
  <2>10. CASE ShmemEnd
    <3>1. Resting(lnk'[l])
      BY <1>0, <2>1, <2>10, PingFields DEF ShmemEnd, At, NoLink, Resting
    <3>2. test'.pc \in {"idle", "panic"}
      BY <1>0, <2>10, ResultFields DEF ShmemEnd
    <3> QED BY <2>3, <3>1, <3>2
  <2> QED BY <1>6, <2>1, <2>4, <2>5, <2>6, <2>7, <2>8, <2>9, <2>10, PingSteps
<1> QED BY <1>2, <1>3, <1>4, <1>5, <1>6, LinkFrame

-------------------------------------------------------------------------------
HandlerSound == Busy /\ h.status = "failed" => ~Mine(h.cmd)
(* A command of the test fails only by a reply that timed out. *)
LEMMA HandlerSoundStep ==
  ASSUME Types, TestInv', HandlerSound, Sound', [Next]_vars PROVE HandlerSound'
<1> USE DEF cmdVars, hist
<1>0. h \in Handling /\ test \in TestState
  BY DEF Types
<1>1. CASE Starts
  BY <1>1 DEF TestInv, OneInv, NoneMine, Starts, HandlerSound, Busy, Mine
<1>2. CASE Stays
  <2>1. \A c : Mine(c)' <=> Mine(c)
    BY <1>2 DEF Stays, Mine
  <2>2. CASE HandlerKeeps
    BY <2>1, <2>2 DEF HandlerKeeps, HandlerSound, Busy
  <2>3. CASE early_tasks \/ hpsc_test_command
    <3>1. h' = h \/ h'.pc = "flush"
      BY <1>0, <2>3, HandlerFields DEF early_tasks, hpsc_test_command
    <3> QED BY <2>1, <3>1 DEF HandlerSound, Busy
  <2>4. CASE CommandSend \/ hpsc_test_command_server \/ TakeRequest("clink") \/ HppsSends
    <3>1. h' = h \/ \E e : h' = [h EXCEPT !.ev = e]
      BY <2>4 DEF CommandSend, hpsc_test_command_server, TakeRequest, HppsSends, Enqueue
    <3>2. h'.pc = h.pc /\ h'.cmd = h.cmd /\ h'.status = h.status
      <4>1. CASE h' = h
        BY <4>1
      <4>2. CASE \E e : h' = [h EXCEPT !.ev = e]
        BY <1>0, <4>2, HandlerFields, StatusFields
      <4> QED BY <3>1, <4>1, <4>2
    <3> QED BY <2>1, <3>2 DEF HandlerSound, Busy
  <2>5. CASE cmd_dequeue
    BY <2>5, Dequeued DEF HandlerSound
  <2>6. CASE ReplyTimedOut
    <3>1. h.cmd.n # test.n
      BY <2>6, NotBlamed DEF ReplyTimedOut, Causes
    <3>2. h'.cmd = h.cmd
      BY <1>0, <2>6, HandlerFields DEF ReplyTimedOut
    <3> QED BY <2>1, <3>1, <3>2 DEF HandlerSound, Mine
  <2>7. CASE handled_cmd_cb
    <3>1. h.pc = "cb" /\ h'.cmd = h.cmd /\ h'.status = h.status
      BY <1>0, <2>7, HandlerFields, StatusFields DEF handled_cmd_cb
    <3> QED BY <2>1, <3>1 DEF HandlerSound, Busy
  <2>8. CASE handled_cb
    <3>1. h'.pc = "flush"
      BY <1>0, <2>8, HandlerFields DEF handled_cb
    <3> QED BY <3>1 DEF HandlerSound, Busy
  <2> QED BY <2>2, <2>3, <2>4, <2>5, <2>6, <2>7, <2>8, HandlerWork
<1> QED BY <1>1, <1>2, Names

(* The end of a test that has succeeded. *)
LEMMA SoundEnd ==
  ASSUME test \in TestState, Return(TRUE), pend' = {}, HandlerSound' PROVE PendInv' /\ SeenInv'
<1>1. test'.pc = "idle" /\ test'.ok
  BY ResultFields
<1> QED BY <1>1 DEF PendInv, SeenInv, HandlerSound

(* hpsc_test_command waits for both callbacks, and each comes once. *)
LEMMA SoundCommand ==
  ASSUME Types, TestInv, PendInv, SeenInv, HandlerSound', ~Blame("timeout"),
         ~Blame("refused"),
         hpsc_test_command \/ CommandSend \/ CommandWait \/ CommandCheck \/ CommandEnd
  PROVE  PendInv' /\ SeenInv'
<1> USE DEF cmdVars, hist
<1>0. test \in TestState /\ pend \in SUBSET {0, 1} /\ ctx \in Context
  BY DEF Types
<1>n. test.name = "command"
  BY DEF hpsc_test_command, CommandSend, CommandWait, CommandCheck, CommandEnd, At
<1>1. CASE hpsc_test_command
  <2>1. /\ test'.name = "command" /\ test'.pc = "send" /\ test'.ok = test.ok /\ test.pc = "begin"
    BY <1>0, <1>1, TestFields DEF hpsc_test_command, At
  <2>2. UNCHANGED <<ctx, pend>>
    BY <1>1 DEF hpsc_test_command
  <2> QED BY <1>n, <2>1, <2>2 DEF PendInv, SeenInv, HandlerSound
<1>2. CASE CommandSend
  <2>1. /\ test'.name = "command" /\ test'.pc = "wait" /\ test'.ok = test.ok /\ test.pc = "send"
    BY <1>0, <1>2, TestFields DEF CommandSend, At
  <2>2. UNCHANGED <<ctx, pend>>
    BY <1>2 DEF CommandSend
  <2>3. ctx.status = "unknown"
    BY <1>n, <2>1 DEF TestInv, FirstInv
  <2> QED BY <1>n, <2>1, <2>2, <2>3 DEF PendInv, SeenInv, HandlerSound
<1>3. CASE CommandWait
  <2>1. /\ test'.name = "command" /\ test'.pc = "check" /\ test'.ok = test.ok /\ test.pc = "wait"
    BY <1>0, <1>3, TestFields DEF CommandWait, Receive, At
  <2>2. ctx' = ctx /\ 0 \in pend /\ 1 \in pend /\ pend' = {}
    BY <1>0, <1>3 DEF CommandWait, Receive
  <2> QED BY <1>n, <2>1, <2>2 DEF PendInv, SeenInv, HandlerSound
<1>4. CASE CommandCheck
  <2>1. /\ test'.name = "command" /\ test'.pc = "stopping" /\ test.pc = "check"
        /\ test'.ok = (ctx.status = "ok" /\ ctx.handled)
    BY <1>0, <1>4, TestFields DEF CommandCheck, At
  <2>2. UNCHANGED <<ctx, pend>>
    BY <1>4 DEF CommandCheck
  <2>3. ctx.status = "ok" /\ ctx.handled
    BY <1>0, <1>n, <2>1 DEF SeenInv, Context
  <2> QED BY <1>n, <2>1, <2>2, <2>3 DEF PendInv, SeenInv, HandlerSound
<1>5. CASE CommandEnd
  <2>1. Return(TRUE) /\ pend' = {}
    BY <1>0, <1>5 DEF CommandEnd, At, PendInv, SeenInv, TestState
  <2> QED BY <1>0, <2>1, SoundEnd
<1> QED BY <1>1, <1>2, <1>3, <1>4, <1>5

(* hpsc_mbox_chan_test waits for both interrupts. *)
LEMMA SoundLoopback ==
  ASSUME Types, ChanClean, PendInv, SeenInv, HandlerSound', ~Blame("timeout"),
         ~Blame("refused"),
         hpsc_mbox_chan_test \/ test_loopback \/ LoopbackWait \/ LoopbackCheck \/ LoopbackEnd
  PROVE  PendInv' /\ SeenInv'
<1> USE DEF cmdVars, hist
<1>0. test \in TestState /\ pend \in SUBSET {0, 1}
  BY DEF Types
<1>n. test.name = "loopback"
  BY DEF hpsc_mbox_chan_test, test_loopback, LoopbackWait, LoopbackCheck, LoopbackEnd, At
<1>1. CASE hpsc_mbox_chan_test
  <2>1. /\ test'.name = "loopback" /\ test'.pc = "send" /\ test'.ok = test.ok /\ test.pc = "begin"
    BY <1>0, <1>1, TestFields DEF hpsc_mbox_chan_test, At
  <2>2. UNCHANGED <<ctx, pend>>
    BY <1>1 DEF hpsc_mbox_chan_test
  <2> QED BY <1>n, <2>1, <2>2 DEF PendInv, SeenInv, HandlerSound
<1>2. CASE test_loopback
  <2>1. /\ test'.name = "loopback" /\ test'.pc = "wait" /\ test'.ok = test.ok /\ test.pc = "send"
    BY <1>0, <1>2, TestFields DEF test_loopback, At
  <2>2. UNCHANGED <<ctx, pend>> /\ ctx.rx = "none" /\ ctx.ack = "none"
    BY <1>2, <1>n, <2>1 DEF test_loopback, ChanClean
  <2> QED BY <1>n, <2>1, <2>2 DEF PendInv, SeenInv, HandlerSound
<1>3. CASE LoopbackWait
  <2>1. /\ test'.name = "loopback" /\ test'.pc = "check" /\ test'.ok = test.ok /\ test.pc = "wait"
    BY <1>0, <1>3, TestFields DEF LoopbackWait, Receive, At
  <2>2. ctx' = ctx /\ 0 \in pend /\ 1 \in pend /\ pend' = {}
    BY <1>0, <1>3 DEF LoopbackWait, Receive
  <2> QED BY <1>n, <2>1, <2>2 DEF PendInv, SeenInv, HandlerSound
<1>4. CASE LoopbackCheck
  <2>1. /\ test'.name = "loopback" /\ test'.pc = "stop" /\ test.pc = "check"
        /\ test'.ok = (ctx.rx = "ok" /\ ctx.ack = "ok")
    BY <1>0, <1>4, TestFields DEF LoopbackCheck, At
  <2>2. UNCHANGED <<ctx, pend>>
    BY <1>4 DEF LoopbackCheck
  <2> QED BY <1>n, <2>1, <2>2 DEF PendInv, SeenInv, HandlerSound
<1>5. CASE LoopbackEnd
  <2>1. Return(TRUE) /\ pend' = {}
    BY <1>0, <1>5 DEF LoopbackEnd, At, PendInv, SeenInv, TestState
  <2> QED BY <1>0, <2>1, SoundEnd
<1> QED BY <1>1, <1>2, <1>3, <1>4, <1>5

(* The timer's test waits for the last event, which is announced once. *)
LEMMA SoundRti ==
  ASSUME Types, PendInv, SeenInv, HandlerSound', ~Blame("timeout"),
         ~Blame("refused"),
         \/ hpsc_rti_timer_test_device \/ do_test_advance \/ do_test_events \/ RtiWait
         \/ RtiCheck \/ RtiEnd
  PROVE  PendInv' /\ SeenInv'
<1> USE DEF cmdVars, hist
<1>0. test \in TestState /\ pend \in SUBSET {0, 1} /\ ctx \in Context
  BY DEF Types
<1>n. test.name = "rti"
  BY DEF hpsc_rti_timer_test_device, do_test_advance, do_test_events, RtiWait, RtiCheck, RtiEnd, At
<1>1. CASE hpsc_rti_timer_test_device
  <2>1. /\ test'.name = "rti" /\ test'.pc = "send" /\ test'.ok = test.ok /\ test.pc = "begin"
    BY <1>0, <1>1, TestFields DEF hpsc_rti_timer_test_device, At
  <2>2. UNCHANGED <<ctx, pend>>
    BY <1>1 DEF hpsc_rti_timer_test_device
  <2> QED BY <1>n, <2>1, <2>2 DEF PendInv, SeenInv, HandlerSound
<1>2. CASE do_test_advance
  <2>1. /\ test'.name = "rti" /\ test'.pc = "count" /\ test'.ok = test.ok /\ test.pc = "send"
    BY <1>0, <1>2, TestFields DEF do_test_advance, At
  <2>2. UNCHANGED <<ctx, pend>>
    BY <1>2 DEF do_test_advance
  <2> QED BY <1>n, <2>1, <2>2 DEF PendInv, SeenInv, HandlerSound
<1>3. CASE do_test_events
  <2>1. /\ test'.name = "rti" /\ test'.pc = "wait" /\ test'.ok = test.ok /\ test.pc = "count"
    BY <1>0, <1>3, TestFields DEF do_test_events, At
  <2>2. pend' = pend /\ ctx'.events = 0 /\ ctx'.status = ctx.status
    BY <1>0, <1>3, ReportFields, CtxFields DEF do_test_events
  <2>3. ~(0 >= NumEvents) /\ 0 <= NumEvents + Skew
    BY BoundAssumption
  <2> QED BY <1>n, <2>1, <2>2, <2>3 DEF PendInv, SeenInv, HandlerSound
<1>4. CASE RtiWait
  <2>1. /\ test'.name = "rti" /\ test'.pc = "check" /\ test'.ok = test.ok /\ test.pc = "wait"
    BY <1>0, <1>4, TestFields DEF RtiWait, Receive, At
  <2>2. ctx' = ctx /\ 0 \in pend /\ pend' = pend \ {0}
    BY <1>0, <1>4 DEF RtiWait, Receive
  <2>3. pend' = {}
    BY <1>0, <1>n, <2>1, <2>2 DEF PendInv
  <2> QED BY <1>n, <2>1, <2>2, <2>3 DEF PendInv, SeenInv, HandlerSound
<1>5. CASE RtiCheck
  <2>1. /\ test'.name = "rti" /\ test'.pc = "stop" /\ test.pc = "check"
        /\ test'.ok = (ctx.events \in NumEvents - Skew..NumEvents + Skew)
    BY <1>0, <1>5, TestFields DEF RtiCheck, At
  <2>2. UNCHANGED <<ctx, pend>>
    BY <1>5 DEF RtiCheck
  <2>3. ctx.events \in Nat /\ ctx.events <= NumEvents + Skew /\ ctx.events >= NumEvents
    BY <1>0, <1>n, <2>1 DEF SeenInv, Context
  <2>4. test'.ok
    <3>1. ctx.events \in NumEvents - Skew..NumEvents + Skew
      BY <2>3, BoundAssumption
    <3> QED BY <2>1, <3>1
  <2> QED BY <1>n, <2>1, <2>2, <2>3, <2>4 DEF PendInv, SeenInv, HandlerSound
<1>6. CASE RtiEnd
  <2>1. Return(TRUE) /\ pend' = {}
    BY <1>0, <1>6 DEF RtiEnd, At, PendInv, SeenInv, TestState
  <2> QED BY <1>0, <2>1, SoundEnd
<1> QED BY <1>1, <1>2, <1>3, <1>4, <1>5, <1>6

(* The server's test waits for no event. *)
LEMMA SoundServer ==
  ASSUME Types, PendInv, SeenInv, HandlerSound', ~Blame("timeout"),
         ~Blame("refused"),
         hpsc_test_command_server \/ ServerAck \/ ServerEnd
  PROVE  PendInv' /\ SeenInv'
<1> USE DEF cmdVars, hist
<1>0. test \in TestState /\ ctx \in Context
  BY DEF Types
<1>n. test.name = "server"
  BY DEF hpsc_test_command_server, ServerAck, ServerEnd, At
<1>1. CASE hpsc_test_command_server
  <2>1. /\ test'.name = "server" /\ test'.pc = "wait" /\ test'.ok = test.ok /\ test.pc = "begin"
    BY <1>0, <1>1, TestFields DEF hpsc_test_command_server, At
  <2>2. UNCHANGED <<ctx, pend>>
    BY <1>1 DEF hpsc_test_command_server
  <2> QED BY <1>n, <2>1, <2>2 DEF PendInv, SeenInv, HandlerSound
<1>2. CASE ServerAck
  <2>1. /\ test'.name = "server" /\ test'.pc = "status" /\ test'.ok = test.ok /\ test.pc = "wait"
    BY <1>0, <1>2, TestFields DEF ServerAck, At
  <2>2. UNCHANGED <<ctx, pend>>
    BY <1>2 DEF ServerAck
  <2> QED BY <1>n, <2>1, <2>2 DEF PendInv, SeenInv, HandlerSound
<1>3. CASE ServerEnd
  <2>1. ctx.status = "ok"
    BY <1>0, <1>3 DEF ServerEnd, At, SeenInv, Context
  <2>2. Return(TRUE) /\ pend' = {}
    BY <1>3, <2>1 DEF ServerEnd, At, PendInv
  <2> QED BY <1>0, <2>2, SoundEnd
<1> QED BY <1>1, <1>2, <1>3

(* A ping is woken once by its ACK and once by its reply. *)
LEMMA SoundPing ==
  ASSUME Types, PendInv, SeenInv, HandlerSound', ~Blame("timeout"),
         ~Blame("refused"),
         \/ hpsc_test_link_shmem \/ PingBegin \/ hpsc_test_link_ping \/ PingAck \/ PingReply
         \/ ShmemStatus \/ ShmemEnd
  PROVE  PendInv' /\ SeenInv'
<1> USE DEF cmdVars, hist
<1>0. /\ test \in TestState /\ pend \in SUBSET {0, 1} /\ ctx \in Context /\ lnk \in Links
      /\ L \in {"trch", "clink"}
  BY DEF Types, L
<1>n. test.name \in {"ping", "linkshmem"}
  BY DEF hpsc_test_link_shmem, PingBegin, hpsc_test_link_ping, PingAck, PingReply, ShmemStatus,
     ShmemEnd, At
<1>o. test.ok /\ (test.pc # "idle" => ctx.status # "failed")
  BY DEF SeenInv
<1>a. ASSUME test'.name = test.name, test'.pc \in {"send", "reply", "status", "close"}, test'.ok,
             pend' = {}, ctx' = ctx, ctx.status # "failed"
      PROVE  PendInv' /\ SeenInv'
  BY <1>n, <1>a DEF PendInv, SeenInv, HandlerSound
<1>b. ASSUME PingDone(TRUE), pend' = {}, ctx' = ctx, ctx.status # "failed"
      PROVE  PendInv' /\ SeenInv'
  <2>1. CASE Return(TRUE)
    BY <1>0, <1>b, <2>1, SoundEnd
  <2>2. CASE test' = [test EXCEPT !.pc = "status", !.ok = TRUE]
    BY <1>0, <1>a, <1>b, <2>2, TestFields
  <2> QED BY <1>b, <2>1, <2>2 DEF PingDone
<1>1. CASE hpsc_test_link_shmem \/ PingBegin
  <2>1. Goto("send") /\ test.pc = "begin" /\ UNCHANGED <<ctx, pend>>
    BY <1>1 DEF hpsc_test_link_shmem, PingBegin, At
  <2>2. test'.name = test.name /\ test'.pc = "send" /\ test'.ok /\ pend' = {}
    BY <1>0, <1>o, <2>1, TestFields DEF PendInv
  <2> QED BY <1>a, <1>o, <2>1, <2>2
<1>2. CASE hpsc_test_link_ping
  <2>1. Goto("wait") /\ test.pc = "send" /\ UNCHANGED <<ctx, pend>>
    BY <1>2 DEF hpsc_test_link_ping
  <2>2. test'.name = test.name /\ test'.pc = "wait" /\ test'.ok /\ pend' = {}
    BY <1>0, <1>o, <2>1, TestFields DEF PendInv
  <2>3. L' = L /\ ~lnk'[L].acked
    BY <1>0, <1>2, <2>2, PingFields DEF hpsc_test_link_ping, L
  <2> QED BY <1>n, <1>o, <2>1, <2>2, <2>3 DEF PendInv, SeenInv, HandlerSound
<1>3. CASE PingAck
  <2>1. test.pc = "wait" /\ ctx' = ctx /\ 0 \in pend /\ pend' = pend \ {0}
    BY <1>3 DEF PingAck
  <2>2. lnk[L].acked /\ pend' = {}
    BY <1>n, <2>1 DEF PendInv
  <2>3. Goto("reply")
    BY <1>3, <2>1, <2>2 DEF PingAck
  <2>4. test'.name = test.name /\ test'.pc = "reply" /\ test'.ok
    BY <1>0, <1>o, <2>3, TestFields
  <2> QED BY <1>a, <1>o, <2>1, <2>2, <2>4
<1>4. CASE PingReply
  <2>1. test.pc = "reply" /\ ctx' = ctx /\ pend' = pend \ {0} /\ PingDone(TRUE)
    BY <1>4 DEF PingReply
  <2>2. pend' = {}
    BY <2>1 DEF PendInv
  <2> QED BY <1>b, <1>o, <2>1, <2>2
<1>5. CASE ShmemStatus
  <2>1. /\ test.pc = "status" /\ UNCHANGED <<ctx, pend>> /\ ctx.status = "ok"
        /\ test' = [test EXCEPT !.pc = "close", !.ok = test.ok /\ ctx.status = "ok"]
    BY <1>0, <1>5, <1>o DEF ShmemStatus, At, Context, TestState
  <2>2. test'.name = test.name /\ test'.pc = "close" /\ test'.ok /\ pend' = {}
    BY <1>0, <1>o, <2>1, TestFields DEF PendInv
  <2> QED BY <1>a, <1>o, <2>1, <2>2
<1>6. CASE ShmemEnd
  <2>1. Return(TRUE) /\ pend' = {}
    BY <1>0, <1>6, <1>o DEF ShmemEnd, At, PendInv, TestState
  <2> QED BY <1>0, <2>1, SoundEnd
<1> QED BY <1>1, <1>2, <1>3, <1>4, <1>5, <1>6

-------------------------------------------------------------------------------
(* Steps that report nothing. *)
LEMMA SoundFrame ==
  ASSUME PendInv, SeenInv, HandlerSound', UNCHANGED <<test, pend>>,
         ctx'.rx = ctx.rx, ctx'.ack = ctx.ack, ctx'.handled = ctx.handled,
         ctx'.events = ctx.events, ctx'.status = ctx.status,
         lnk'[L].acked = lnk[L].acked
  PROVE  PendInv' /\ SeenInv'
<1>1. L' = L
  BY DEF L
<1>2. PendInv'
  BY <1>1 DEF PendInv
<1> QED BY <1>2 DEF SeenInv, HandlerSound

(* The interrupt handlers announce what is waited for, each once. *)
LEMMA SoundIsr ==
  ASSUME Types, TestInv, TimerClean, ChanClean, PendInv, SeenInv, HandlerSound',
         ~Blame("late"), Isr
  PROVE  PendInv' /\ SeenInv'
<1> USE DEF cmdVars, hist
<1>0. /\ ctx \in Context /\ chan \in Channel /\ NumEvents \in Nat /\ ctx.events \in Nat
      /\ test' = test /\ lnk' = lnk /\ test.pc # "panic" /\ test.ok
      /\ test.pc # "idle" => ctx.status # "failed"
  BY BoundAssumption, OthersFrame
     DEF Types, Context, MaxEvents, Others, Isr, cb_recv, cb_ack, handle_event, Count, SeenInv
<1>1. CASE cb_recv
  <2>1. /\ test.name = "loopback" /\ test.pc \in {"send", "wait", "check", "stop"}
        /\ "rcv" \in chan.set
    BY <1>1 DEF cb_recv, TestInv, InstalledInv
  <2>2. Looping /\ ctx.rx = "none"
    BY <2>1 DEF ChanClean, Looping
  <2>3. test.pc = "wait"
    BY <2>1, <2>2 DEF Looping, SeenInv
  <2>4. ctx' = [ctx EXCEPT !.rx = "ok"] /\ pend' = pend \cup {0}
    BY <1>1, <2>2 DEF cb_recv
  <2>5. ctx'.rx = "ok" /\ ctx'.ack = ctx.ack /\ ctx'.status = ctx.status
    BY <1>0, <2>4, ReportFields, CtxFields
  <2> QED BY <1>0, <2>1, <2>3, <2>4, <2>5 DEF PendInv, SeenInv, HandlerSound
<1>2. CASE cb_ack
  <2>1. /\ test.name = "loopback" /\ test.pc \in {"send", "wait", "check", "stop"}
        /\ "ack" \in chan.set
    BY <1>2 DEF cb_ack, TestInv, InstalledInv
  <2>2. Looping /\ ctx.ack = "none"
    BY <2>1 DEF ChanClean, Looping
  <2>3. test.pc = "wait"
    BY <2>1, <2>2 DEF Looping, SeenInv
  <2>4. ctx' = [ctx EXCEPT !.ack = "ok"] /\ pend' = pend \cup {1}
    BY <1>0, <1>2, <2>2 DEF cb_ack, Context
  <2>5. ctx'.ack = "ok" /\ ctx'.rx = ctx.rx /\ ctx'.status = ctx.status
    BY <1>0, <2>4, ReportFields, CtxFields
  <2> QED BY <1>0, <2>1, <2>3, <2>4, <2>5 DEF PendInv, SeenInv, HandlerSound
<1>3. CASE handle_event
  <2>1. test.name = "rti" /\ test.pc \in {"wait", "check", "stop"}
    BY <1>3 DEF handle_event, Count, TimerClean
  <2>a. ctx.events + 1 <= NumEvents + Skew
    BY <1>0, <1>3, BoundAssumption DEF handle_event, Count
  <2>2. ctx'.events = ctx.events + 1 /\ ctx'.status = ctx.status
    BY <1>0, <1>3, ReportFields, CtxFields DEF handle_event, Count
  <2>3. pend' = IF ctx.events + 1 = NumEvents THEN pend \cup {0} ELSE pend
    BY <1>3 DEF handle_event
  <2>4. CASE test.pc = "wait"
    <3>1. (0 \in pend' <=> ctx'.events >= NumEvents) /\ 1 \notin pend'
      BY <1>0, <2>1, <2>2, <2>3, <2>4 DEF PendInv
    <3> QED BY <1>0, <2>1, <2>2, <2>4, <2>a, <3>1 DEF PendInv, SeenInv, HandlerSound
  <2>5. CASE test.pc \in {"check", "stop"}
    <3>1. ctx.events >= NumEvents
      BY <2>1, <2>5 DEF SeenInv
    <3>2. pend' = pend /\ ctx'.events >= NumEvents
      BY <1>0, <2>2, <2>3, <3>1
    <3> QED BY <1>0, <2>1, <2>2, <2>5, <2>a, <3>2 DEF PendInv, SeenInv, HandlerSound
  <2> QED BY <2>1, <2>4, <2>5
<1> QED BY <1>1, <1>2, <1>3 DEF Isr

(* The callbacks report the test's own command, each once. *)
LEMMA SoundCallbacks ==
  ASSUME Types, TestInv, MineInv, PendInv, SeenInv, HandlerSound', ~Blame("foreign"),
         handled_cmd_cb \/ handled_cb
  PROVE  PendInv' /\ SeenInv'
<1> USE DEF cmdVars, hist
<1>0. /\ ctx \in Context /\ h \in Handling
      /\ test' = test /\ lnk' = lnk /\ test.pc # "panic" /\ test.ok
      /\ test.pc # "idle" => ctx.status # "failed"
  BY OthersFrame DEF Types, Others, Handler, handled_cmd_cb, handled_cb, SeenInv
<1>1. CASE UNCHANGED <<ctx, pend>>
  BY <1>0, <1>1, SoundFrame
<1>c. test.name = "command" /\ test.pc # "idle" /\ Busy /\ Mine(h.cmd) =>
        test.pc = "wait"
  <2> SUFFICES ASSUME test.name = "command", test.pc # "idle", Busy, Mine(h.cmd)
               PROVE  test.pc = "wait"
    OBVIOUS
  <2>1. test.pc \in {"begin", "send", "wait", "check", "stopping"}
    BY <1>0 DEF MineInv
  <2>2. test.pc \notin {"begin", "send"}
    BY DEF TestInv, FirstInv, NoneMine
  <2>3. test.pc \in {"check", "stopping"} => ctx.status # "unknown"
    BY DEF SeenInv
  <2>4. test.pc \notin {"check", "stopping"}
    BY <2>3 DEF TestInv, FirstInv, NoneMine
  <2> QED BY <2>1, <2>2, <2>4
<1>2. CASE handled_cmd_cb /\ ~UNCHANGED <<ctx, pend>>
  <2>1. h.pc = "cb" /\ h.cmd.cb
    BY <1>2 DEF handled_cmd_cb
  <2>2. Calls(h.cmd)
    BY <2>1 DEF TestInv, CallbackInv
  <2>3. Mine(h.cmd) /\ Busy
    BY <2>1, <2>2 DEF Calls, Busy
  <2>4. CASE test.name = "command"
    <3>1. test.pc = "wait"
      BY <1>c, <2>2, <2>3, <2>4 DEF Calls
    <3>2. ctx' = [ctx EXCEPT !.handled = TRUE] /\ pend' = pend \cup {0}
      BY <1>2, <2>1, <2>4 DEF handled_cmd_cb
    <3>3. ctx'.handled /\ ctx'.status = ctx.status
      BY <1>0, <3>2, ReportFields, CtxFields
    <3> QED BY <1>0, <2>4, <3>1, <3>2, <3>3 DEF PendInv, SeenInv, HandlerSound
  <2>5. CASE test.name = "server"
    <3>1. ctx' = [ctx EXCEPT !.status = h.status] /\ pend' = pend
      BY <1>2, <2>1, <2>5 DEF handled_cmd_cb
    <3>2. h.status # "failed"
      BY <2>3 DEF SeenInv
    <3>3. ctx'.status # "failed"
      BY <1>0, <3>1, <3>2, CtxFields
    <3> QED BY <1>0, <2>5, <3>1, <3>3 DEF PendInv, SeenInv, HandlerSound
  <2> QED BY <2>2, <2>4, <2>5 DEF Calls
<1>3. CASE handled_cb /\ ~UNCHANGED <<ctx, pend>>
  <2>1. /\ h.pc = "gcb" /\ gcb # 0 /\ h.cmd.n = gcb
        /\ ctx' = [ctx EXCEPT !.status = h.status]
        /\ pend' = IF test.name = "command" THEN pend \cup {1} ELSE pend
    BY <1>3 DEF handled_cb
  <2>2. gcb = test.n /\ test.name \in {"command", "linkshmem"} /\ test.pc # "idle"
    BY <2>1 DEF TestInv, InstalledInv
  <2>3. Mine(h.cmd) /\ Busy
    BY <2>1, <2>2 DEF Mine, Busy
  <2>4. h.status = "ok"
    BY <1>0, <2>3 DEF SeenInv, Handling
  <2>5. ctx'.status = "ok" /\ ctx'.handled = ctx.handled
    BY <1>0, <2>1, <2>4, ReportFields, CtxFields
  <2>6. CASE test.name = "command"
    <3>1. test.pc = "wait"
      BY <1>c, <2>2, <2>3, <2>6
    <3> QED BY <1>0, <2>1, <2>5, <2>6, <3>1 DEF PendInv, SeenInv, HandlerSound
  <2>7. CASE test.name = "linkshmem"
    <3>1. L' = L
      BY <1>0 DEF L
    <3> QED BY <1>0, <2>1, <2>5, <2>7, <3>1 DEF PendInv, SeenInv, HandlerSound
  <2> QED BY <2>2, <2>6, <2>7
<1> QED BY <1>1, <1>2, <1>3

(* The polling tasks send the event to a requester, once for the ACK and   *)
(* once for the reply.                                                     *)
LEMMA SoundPoll ==
  ASSUME Types, PendInv, SeenInv, HandlerSound', NEW l \in {"trch", "clink"}, LinkClean(l),
         ~Blame("early"), Poll(l)
  PROVE  PendInv' /\ SeenInv'
<1> USE DEF cmdVars, hist
<1>0. /\ lnk \in Links /\ L \in {"trch", "clink"} /\ L' = L
      /\ test' = test /\ ctx' = ctx /\ test.pc # "panic" /\ test.ok
  BY OthersFrame DEF Types, Others, Poll, TakeRequest, link_ack, link_recv_reply, SeenInv, L
<1>s. SeenInv'
  BY <1>0 DEF SeenInv, HandlerSound
<1>p. Pings(l) => L = l /\ test.name \in {"ping", "linkshmem"}
  BY DEF Pings, L
<1>1. CASE pend' = pend /\ lnk'[L].acked = lnk[L].acked
  BY <1>0, <1>1, SoundFrame
<1>2. CASE link_ack(l)
  <2>1. Pings(l) /\ test.pc = "wait" /\ Asked(lnk[l])
    BY <1>0, <1>2 DEF link_ack, LinkClean, Resting, Acked
  <2>2. ~lnk[l].acked /\ lnk[l].tid
    BY <1>2, <2>1 DEF link_ack, Asked
  <2>3. pend' = pend \cup {0} /\ lnk'[l].acked
    BY <1>0, <1>2, <2>2, PingFields DEF link_ack
  <2>4. pend' = {0}
    BY <1>p, <2>1, <2>2, <2>3 DEF PendInv
  <2> QED BY <1>0, <1>s, <1>p, <2>1, <2>3, <2>4 DEF PendInv
<1>3. CASE link_recv_reply(l) /\ pend' # pend
  <2>1. lnk[l].tid /\ lnk[l].acked /\ pend' = pend \cup {0} /\ lnk'[l].acked
    BY <1>0, <1>3 DEF link_recv_reply, Links, LinkEnd
  <2>2. Pings(l) /\ test.pc \in {"wait", "reply"}
    BY <1>0, <2>1 DEF LinkClean, Resting
  <2> QED BY <1>0, <1>s, <1>p, <2>1, <2>2 DEF PendInv
<1>4. CASE link_recv_reply(l)
  <2>1. lnk'[L].acked = lnk[L].acked
    BY <1>0, <1>4 DEF link_recv_reply, Links, LinkEnd
  <2> QED BY <1>1, <1>3, <1>4, <2>1
<1>5. CASE TakeRequest(l)
  <2>1. lnk'[L].acked = lnk[L].acked /\ pend' = pend
    BY <1>0, <1>5 DEF TakeRequest, Links, LinkEnd
  <2> QED BY <1>1, <2>1
<1> QED BY <1>2, <1>4, <1>5 DEF Poll

(* Together: while nothing has gone wrong the pending events are those the *)
(* test waits for.                                                         *)
LEMMA SoundStep ==
  ASSUME Types, TestInv, TestInv', CleanInv, [Next]_vars, Sound, Sound', ~Starts
  PROVE  PendInv' /\ SeenInv'
<1> USE DEF cmdVars, hist
<1>0. /\ ctx \in Context /\ lnk \in Links /\ L \in {"trch", "clink"}
      /\ PendInv /\ SeenInv /\ TimerClean /\ MineInv /\ ChanClean
      /\ \A l \in {"trch", "clink"} : LinkClean(l)
  BY DEF Types, L, CleanInv
<1>b. /\ ~Blame("timeout") /\ ~Blame("refused") /\ ~Blame("early") /\ ~Blame("late")
      /\ ~Blame("foreign")
  BY NotBlamed DEF Causes
<1>h. HandlerSound'
  BY <1>0, HandlerSoundStep DEF SeenInv, HandlerSound
<1>2. CASE Test
  <2>1. CASE hpsc_test_command \/ CommandSend \/ CommandWait \/ CommandCheck \/ CommandEnd
    BY <1>0, <1>b, <1>h, <2>1, SoundCommand
  <2>2. CASE hpsc_mbox_chan_test \/ test_loopback \/ LoopbackWait \/ LoopbackCheck \/ LoopbackEnd
    BY <1>0, <1>b, <1>h, <2>2, SoundLoopback
  <2>3. CASE \/ hpsc_rti_timer_test_device \/ do_test_advance \/ do_test_events \/ RtiWait
             \/ RtiCheck \/ RtiEnd
    BY <1>0, <1>b, <1>h, <2>3, SoundRti
  <2>4. CASE hpsc_test_command_server \/ ServerAck \/ ServerEnd
    BY <1>0, <1>b, <1>h, <2>4, SoundServer
  <2>5. CASE \/ hpsc_test_link_shmem \/ PingBegin \/ hpsc_test_link_ping \/ PingAck \/ PingReply
             \/ ShmemStatus \/ ShmemEnd
    BY <1>0, <1>b, <1>h, <2>5, SoundPing
  <2> QED BY <1>2, <2>1, <2>2, <2>3, <2>4, <2>5 DEF Test
<1>3. CASE Isr
  BY <1>0, <1>b, <1>h, <1>3, SoundIsr
<1>4. CASE handled_cmd_cb \/ handled_cb
  BY <1>0, <1>b, <1>h, <1>4, SoundCallbacks
<1>5. CASE \E l \in {"trch", "clink"} : Poll(l)
  BY <1>0, <1>b, <1>h, <1>5, SoundPoll
<1>6. CASE UNCHANGED <<test, ctx, pend, lnk>>
  BY <1>0, <1>b, <1>h, <1>6, SoundFrame
<1>7. CASE cmd_handle \/ TrchReplies
  <2>1. test' = test /\ pend' = pend /\ lnk'[L].acked = lnk[L].acked
    BY <1>0, <1>7 DEF cmd_handle, TrchReplies, Links, LinkEnd
  <2>2. ctx' = ctx \/ ctx' = [ctx EXCEPT !.written = TRUE]
    BY <1>7 DEF cmd_handle, TrchReplies
  <2> QED BY <1>0, <1>b, <1>h, <2>1, <2>2, SoundFrame, ReportFields, CtxFields
<1>8. CASE \/ cmd_dequeue \/ HandlerReceive \/ ReplySent \/ ReplyTimedOut \/ HppsSends
           \/ HppsAcks \/ early_tasks \/ UNCHANGED vars
  BY <1>6, <1>8 DEF cmd_dequeue, HandlerReceive, ReplySent, ReplyTimedOut, HppsSends, HppsAcks,
     early_tasks, vars
<1>9. CASE (BootTest \/ ShellTest) /\ ~Starts
  BY <1>6, <1>9, Names DEF Stays, BootTest
<1>10. CASE late_tasks
  BY <1>0, <1>6, <1>10 DEF late_tasks, PendInv
<1> QED BY <1>2, <1>3, <1>4, <1>5, <1>7, <1>8, <1>9, <1>10 DEF Next, Handler, Remote

(* A test that begins with a clean slate finds nothing pending. *)
LEMMA StartStep ==
  ASSUME Types, TestInv', CleanInv, Starts, Sound'
  PROVE  /\ ChanClean' /\ PendInv' /\ SeenInv'
         /\ \A l \in {"trch", "clink"} : LinkClean(l)'
<1> USE DEF cmdVars
<1>1. pend = {} /\ chan.set = {} /\ \A l \in {"trch", "clink"} : Resting(lnk[l])
  <2>1. CASE NothingLeft
    BY <2>1 DEF NothingLeft, Types, Links
  <2>2. CASE Sound
    <3>1. test.pc = "idle" /\ PendInv /\ ChanClean /\ \A l \in {"trch", "clink"} : LinkClean(l)
      BY <2>2 DEF CleanInv, Starts
    <3> QED BY <3>1 DEF PendInv, ChanClean, Looping, LinkClean
  <2> QED BY <2>1, <2>2 DEF Starts
<1>2. /\ test'.pc = "begin" /\ test'.ok /\ pend' = {} /\ chan'.set = {}
      /\ \A l \in {"trch", "clink"} : Resting(lnk'[l])
      /\ ctx'.rx = "none" /\ ctx'.ack = "none" /\ ~ctx'.handled /\ ctx'.status = "unknown"
  BY <1>1 DEF Starts, FreshCtx
<1>3. ChanClean' /\ PendInv'
  BY <1>2 DEF ChanClean, Looping, PendInv
<1>4. \A l \in {"trch", "clink"} : LinkClean(l)'
  BY <1>2 DEF LinkClean
<1>5. (Busy /\ h.status = "failed" => ~Mine(h.cmd))'
  BY DEF TestInv, OneInv, NoneMine, Starts
<1> QED BY <1>2, <1>3, <1>4, <1>5 DEF SeenInv

-------------------------------------------------------------------------------
(* Before the first test nothing is left of any. *)
LEMMA CleanInit == Init => CleanInv
<1> SUFFICES ASSUME Init PROVE CleanInv
  OBVIOUS
<1> USE DEF Init
<1>1. q = << >> /\ ~Busy /\ Len(q) = 0 /\ test.ok
  BY DEF Busy
<1>2. TimerClean /\ MineInv
  BY <1>1 DEF TimerClean, MineInv, Busy
<1>3. PendInv /\ SeenInv
  BY <1>1 DEF PendInv, SeenInv
<1>4. ChanClean
  BY DEF ChanClean, Looping
<1>5. \A l \in {"trch", "clink"} : LinkClean(l)
  BY DEF LinkClean, Resting, NoLink
<1> QED BY <1>2, <1>3, <1>4, <1>5 DEF CleanInv

(* What holds of the events, the channel, the timer and the links while    *)
(* nothing has gone wrong is inductive.                                    *)
THEOREM CleanCorrect == Spec => []CleanInv
<1>1. Types /\ TestInv /\ TestInv' /\ Types' /\ CleanInv /\ [Next]_vars => CleanInv'
  <2> SUFFICES ASSUME Types, Types', TestInv, TestInv', CleanInv, [Next]_vars PROVE CleanInv'
    OBVIOUS
  <2>1. TimerClean' /\ MineInv'
    BY TimerStep, MineStep DEF CleanInv
  <2>2. ASSUME Sound'
        PROVE  /\ ChanClean' /\ PendInv' /\ SeenInv'
               /\ \A l \in {"trch", "clink"} : LinkClean(l)'
    <3>1. CASE Starts
      BY <2>2, <3>1, StartStep
    <3>2. CASE ~Starts
      <4>1. Sound
        <5> SUFFICES ASSUME ~Sound PROVE FALSE
          OBVIOUS
        <5>1. PICK name : Begin(name)
          BY <2>2, History
        <5>2. test'.n = test.n + 1 /\ test.n \in Nat
          BY <5>1, Fresh DEF Types, TestState
        <5> QED BY <3>2, <5>2, Names DEF Stays
      <4>2. ChanClean /\ SeenInv /\ \A l \in {"trch", "clink"} : LinkClean(l)
        BY <4>1 DEF CleanInv
      <4>3. ChanClean'
        BY <3>2, <4>2, ChanStep
      <4>4. \A l \in {"trch", "clink"} : LinkClean(l)'
        BY <2>2, <3>2, <4>2, LinkStep
      <4>5. PendInv' /\ SeenInv'
        BY <2>2, <3>2, <4>1, SoundStep
      <4> QED BY <4>3, <4>4, <4>5
    <3> QED BY <3>1, <3>2
  <2> QED BY <2>1, <2>2 DEF CleanInv
<1>2. Types <=> TypeOK
  BY TypesIs
<1> QED BY <1>1, <1>2, CleanInit, TypeCorrect, TestsCorrect, PTL DEF Spec

(* A test fails, or leaves an event, a channel's event, a message or a     *)
(* requester to the next one, only for a cause of its own: a wait that     *)
(* timed out, a resource refused, a reply polled before its ACK            *)
(* (link.c:27), a task too late to stop the timer, or the status of        *)
(* another's command.  The tests of hpsc-test and drivers-selftest share   *)
(* the events of one task, and link-external.c:12 assumes that nobody else *)
(* uses them.                                                              *)
THEOREM Clean == Spec => []FailsForCause
<1>1. Types /\ CleanInv => FailsForCause
  <2> SUFFICES ASSUME Types, CleanInv, cause = "none"
               PROVE  test.ok /\ (test.pc = "idle" => NothingLeft)
    BY DEF FailsForCause
  <2>1. /\ PendInv /\ SeenInv /\ ChanClean /\ \A l \in {"trch", "clink"} : LinkClean(l)
        /\ DOMAIN lnk = {"trch", "clink"}
    BY DEF CleanInv, Sound, Types, Links
  <2> QED BY <2>1 DEF PendInv, SeenInv, ChanClean, Looping, LinkClean, NothingLeft
<1>2. Types <=> TypeOK
  BY TypesIs
<1> QED BY <1>1, <1>2, CleanCorrect, TypeCorrect, PTL
=================================================================================
