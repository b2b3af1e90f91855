----------------------------- MODULE SelfTestProofs -----------------------------
(***************************************************************************)
(* Proofs about SelfTest, for any number of tests, timer events and        *)
(* commands of the HPPS link.                                              *)
(***************************************************************************)
EXTENDS SelfTest, TLAPS

(* The values of the records, one name each. *)
Steps == {"idle", "begin", "send", "count", "wait", "check", "stop", "stopping", "reply",
          "status", "close", "panic"}
TestState == [name : ShellTests \cup {"command", "none"}, n : 0..MaxTests, ok : BOOLEAN,
              pc : Steps]
Context == [rx : {"none", "ok", "multiple"}, ack : {"none", "ok", "multiple"},
            handled : BOOLEAN, status : {"unknown", "ok", "failed"}, written : BOOLEAN,
            events : 0..MaxEvents]
Timer == [arg : 0..MaxTests, interval : {"test", "max"}]
Channel == [arg : 0..MaxTests, set : SUBSET {"rcv", "ack"}]
LinkEnd == [tid : BOOLEAN, acked : BOOLEAN, msg : BOOLEAN, ack : BOOLEAN, owed : BOOLEAN,
            reply : BOOLEAN]
Links == [{"trch", "clink"} -> LinkEnd]
Handling == [pc : {"off", "flush", "wait", "handle", "reply", "acked", "cb", "gcb"},
             cmd : Command, status : {"ok", "failed"}, ev : SUBSET {"NEW", "EXIT"}]
Queue == Seq(Command)
Reasons == Causes \cup {"none"}

(* TypeOK, with those names. *)
Types == /\ boot \in 1..9
         /\ test \in TestState
         /\ ctx \in Context
         /\ pend \in SUBSET {0, 1}
         /\ timer \in Timer
         /\ chan \in Channel
         /\ lnk \in Links
         /\ q \in Queue
         /\ h \in Handling
         /\ gcb \in 0..MaxTests /\ others \in 0..OtherCmds
         /\ cause \in Reasons
         /\ foreign \in SUBSET (1..MaxTests) /\ kept \in SUBSET (0..MaxTests)

(* The same sets in the form the steps are proved in.                      *)
LEMMA TypesIs == Types <=> TypeOK
<1>1. Len(BootOrder) + 1 = 9
  BY DEF BootOrder
<1>2. pend \in SUBSET {0, 1} <=> pend \subseteq {0, 1}
  OBVIOUS
<1>3. /\ foreign \in SUBSET (1..MaxTests) <=> foreign \subseteq 1..MaxTests
      /\ kept \in SUBSET (0..MaxTests) <=> kept \subseteq 0..MaxTests
  OBVIOUS
<1> QED BY <1>1, <1>2, <1>3, Zenon DEF Types, TypeOK, Steps, TestState, Context, Timer,
           Channel, LinkEnd, Links, Handling, Queue, Reasons

(* The updates of the test's state. *)
LEMMA TestUpdates ==
  ASSUME test \in TestState
  PROVE  /\ \A l \in Steps : Goto(l) => test' \in TestState
         /\ \A ok \in BOOLEAN : Return(ok) => test' \in TestState
         /\ \A ok \in BOOLEAN : \A l \in Steps :
              test' = [test EXCEPT !.pc = l, !.ok = ok] => test' \in TestState
         /\ \A name \in ShellTests \cup {"command"} :
              Begin(name) => test' \in TestState /\ ctx' = FreshCtx
<1> USE DEF TestState, Steps
<1>1. \A l \in Steps : Goto(l) => test' \in TestState
  BY DEF Goto
<1>2. \A ok \in BOOLEAN : Return(ok) => test' \in TestState
  BY DEF Return
<1>3. \A ok \in BOOLEAN : \A l \in Steps :
              test' = [test EXCEPT !.pc = l, !.ok = ok] => test' \in TestState
  OBVIOUS
<1>4. \A name \in ShellTests \cup {"command"} :
              Begin(name) => test' \in TestState /\ ctx' = FreshCtx
  BY BoundAssumption DEF Begin
<1> QED BY <1>1, <1>2, <1>3, <1>4, Zenon

(* The updates of the first cause. *)
LEMMA CauseUpdates ==
  ASSUME cause \in Reasons
  PROVE  /\ Blame("timeout") => cause' \in Reasons
         /\ Blame("refused") => cause' \in Reasons
         /\ Blame("early") => cause' \in Reasons
         /\ Blame("late") => cause' \in Reasons
         /\ Blame("foreign") => cause' \in Reasons
         /\ \A name : Begin(name) => cause' \in Reasons
BY DEF Reasons, Causes, Blame, Begin

(* The updates of the context. *)
LEMMA CtxUpdates ==
  ASSUME ctx \in Context
  PROVE  /\ FreshCtx \in Context
         /\ \A v \in {"none", "ok", "multiple"} : [ctx EXCEPT !.rx = v] \in Context
         /\ \A v \in {"none", "ok", "multiple"} : [ctx EXCEPT !.ack = v] \in Context
         /\ \A v \in {"unknown", "ok", "failed"} : [ctx EXCEPT !.status = v] \in Context
         /\ \A v \in 0..MaxEvents : [ctx EXCEPT !.events = v] \in Context
         /\ [ctx EXCEPT !.handled = TRUE] \in Context
         /\ [ctx EXCEPT !.written = TRUE] \in Context
         /\ ctx.events \in 0..MaxEvents /\ 0 \in 0..MaxEvents
<1> USE DEF Context
<1>1. MaxEvents \in Nat
  BY BoundAssumption DEF MaxEvents
<1>2. FreshCtx \in Context
  BY <1>1 DEF FreshCtx
<1>3. \A v \in {"none", "ok", "multiple"} : [ctx EXCEPT !.rx = v] \in Context
  OBVIOUS
<1>4. \A v \in {"none", "ok", "multiple"} : [ctx EXCEPT !.ack = v] \in Context
  OBVIOUS
<1>5. \A v \in {"unknown", "ok", "failed"} : [ctx EXCEPT !.status = v] \in Context
  OBVIOUS
<1>6. \A v \in 0..MaxEvents : [ctx EXCEPT !.events = v] \in Context
  OBVIOUS
<1>7. [ctx EXCEPT !.handled = TRUE] \in Context
  OBVIOUS
<1>8. [ctx EXCEPT !.written = TRUE] \in Context
  OBVIOUS
<1>9. ctx.events \in 0..MaxEvents /\ 0 \in 0..MaxEvents
  BY <1>1
<1> QED BY <1>2, <1>3, <1>4, <1>5, <1>6, <1>7, <1>8, <1>9, Zenon

(* The updates of the timer and of the channel. *)
LEMMA DeviceUpdates ==
  ASSUME timer \in Timer, chan \in Channel
  PROVE  /\ \A n \in 0..MaxTests : hpsc_rti_timer_start(timer, n) \in Timer
         /\ hpsc_rti_timer_configure(timer, "test") \in Timer
         /\ hpsc_rti_timer_configure(timer, "max") \in Timer
         /\ hpsc_rti_timer_stop(hpsc_rti_timer_configure(timer, "max")) \in Timer
         /\ \A n \in 0..MaxTests : [chan EXCEPT !.arg = n] \in Channel
         /\ \A s \in SUBSET {"rcv", "ack"} : [chan EXCEPT !.set = s] \in Channel
         /\ chan.set \in SUBSET {"rcv", "ack"}
<1>1. \A n \in 0..MaxTests : hpsc_rti_timer_start(timer, n) \in Timer
  BY DEF Timer, hpsc_rti_timer_start
<1>2. hpsc_rti_timer_configure(timer, "test") \in Timer
  BY DEF Timer, hpsc_rti_timer_configure
<1>3. hpsc_rti_timer_stop(hpsc_rti_timer_configure(timer, "max")) \in Timer
  <2>1. hpsc_rti_timer_configure(timer, "max") \in Timer
    BY DEF Timer, hpsc_rti_timer_configure
  <2>2. \A t \in Timer : hpsc_rti_timer_stop(t) \in Timer
    BY BoundAssumption DEF Timer, hpsc_rti_timer_stop
  <2> QED BY <2>1, <2>2
<1>7. hpsc_rti_timer_configure(timer, "max") \in Timer
  BY DEF Timer, hpsc_rti_timer_configure
<1>4. \A n \in 0..MaxTests : [chan EXCEPT !.arg = n] \in Channel
  BY DEF Channel
<1>5. \A s \in SUBSET {"rcv", "ack"} : [chan EXCEPT !.set = s] \in Channel
  BY DEF Channel
<1>6. chan.set \in SUBSET {"rcv", "ack"}
  BY DEF Channel
<1> QED BY <1>1, <1>2, <1>3, <1>4, <1>5, <1>6, <1>7, Zenon

(* The updates of a link. *)
LEMMA LinkUpdates ==
  ASSUME lnk \in Links, NEW l \in {"trch", "clink"}
  PROVE  /\ [lnk EXCEPT ![l] = NoLink] \in Links
         /\ [lnk EXCEPT ![l].tid = TRUE, ![l].acked = FALSE, ![l].msg = TRUE] \in Links
         /\ [lnk EXCEPT ![l].tid = FALSE] \in Links
         /\ [lnk EXCEPT ![l].reply = TRUE] \in Links
         /\ [lnk EXCEPT ![l].reply = FALSE] \in Links
         /\ \A b \in BOOLEAN :
              [lnk EXCEPT ![l].msg = FALSE, ![l].ack = TRUE, ![l].owed = b] \in Links
         /\ [lnk EXCEPT ![l].owed = FALSE, ![l].reply = TRUE] \in Links
         /\ [lnk EXCEPT ![l].ack = FALSE, ![l].acked = TRUE] \in Links
<1> USE DEF LinkEnd
<1>1. lnk[l] \in LinkEnd /\ lnk \in [{"trch", "clink"} -> LinkEnd]
  BY DEF Links
<1>2. \A e \in LinkEnd : [lnk EXCEPT ![l] = e] \in Links
  BY <1>1 DEF Links
<1>3. [lnk EXCEPT ![l] = NoLink] \in Links
  BY <1>2 DEF NoLink
<1>4. [lnk EXCEPT ![l].tid = TRUE, ![l].acked = FALSE, ![l].msg = TRUE] \in Links
  BY <1>1 DEF Links
<1>5. [lnk EXCEPT ![l].tid = FALSE] \in Links
  BY <1>1, <1>2
<1>6. [lnk EXCEPT ![l].reply = TRUE] \in Links
  BY <1>1, <1>2
<1>7. [lnk EXCEPT ![l].reply = FALSE] \in Links
  BY <1>1, <1>2
<1>8. \A b \in BOOLEAN :
        [lnk EXCEPT ![l].msg = FALSE, ![l].ack = TRUE, ![l].owed = b] \in Links
  BY <1>1 DEF Links
<1>9. [lnk EXCEPT ![l].owed = FALSE, ![l].reply = TRUE] \in Links
  BY <1>1 DEF Links
<1>10. [lnk EXCEPT ![l].ack = FALSE, ![l].acked = TRUE] \in Links
  BY <1>1 DEF Links
<1> QED BY <1>3, <1>4, <1>5, <1>6, <1>7, <1>8, <1>9, <1>10, Zenon

(* The updates of the handler task and of its queue. *)
LEMMA HandlerUpdates ==
  ASSUME h \in Handling, q \in Queue
  PROVE  /\ \A l \in {"off", "flush", "wait", "handle", "reply", "acked", "cb", "gcb"} :
              /\ [h EXCEPT !.pc = l] \in Handling
              /\ [h EXCEPT !.ev = {}, !.pc = l] \in Handling
              /\ \A c \in Command : [h EXCEPT !.pc = l, !.cmd = c] \in Handling
              /\ \A c \in Command : [h EXCEPT !.pc = l, !.cmd = c, !.status = "ok"] \in Handling
              /\ \A s \in {"ok", "failed"} : [h EXCEPT !.pc = l, !.status = s] \in Handling
         /\ \A e \in {"NEW", "EXIT"} : [h EXCEPT !.ev = @ \cup {e}] \in Handling
         /\ StartTask => h' \in Handling
         /\ \A c \in Command : Enqueue(c) => q' \in Queue /\ h' \in Handling
         /\ q # << >> => Head(q) \in Command /\ Tail(q) \in Queue
         /\ h.status \in {"ok", "failed"} /\ NoCmd \in Command
<1> USE DEF Handling, NoCmd
<1>1. NoCmd \in Command
  BY BoundAssumption DEF Command
<1>2. \A l \in {"off", "flush", "wait", "handle", "reply", "acked", "cb", "gcb"} :
         /\ [h EXCEPT !.pc = l] \in Handling
         /\ [h EXCEPT !.ev = {}, !.pc = l] \in Handling
         /\ \A c \in Command : [h EXCEPT !.pc = l, !.cmd = c] \in Handling
         /\ \A c \in Command : [h EXCEPT !.pc = l, !.cmd = c, !.status = "ok"] \in Handling
         /\ \A s \in {"ok", "failed"} : [h EXCEPT !.pc = l, !.status = s] \in Handling
  OBVIOUS
<1>3. \A e \in {"NEW", "EXIT"} : [h EXCEPT !.ev = @ \cup {e}] \in Handling
  OBVIOUS
<1>4. StartTask => h' \in Handling
  BY <1>1 DEF StartTask
<1>5. \A c \in Command : Enqueue(c) => q' \in Queue /\ h' \in Handling
  BY <1>3 DEF Enqueue, Queue
<1>6. q # << >> => Head(q) \in Command /\ Tail(q) \in Queue
  BY DEF Queue
<1>7. h.status \in {"ok", "failed"}
  OBVIOUS
<1> QED BY <1>1, <1>2, <1>3, <1>4, <1>5, <1>6, <1>7, Zenon

(* The links' names and the commands that are sent. *)
LEMMA Parts ==
  ASSUME Types
  PROVE  /\ test.n \in 0..MaxTests /\ test.ok \in BOOLEAN /\ L \in {"trch", "clink"}
         /\ 0 \in 0..MaxTests
         /\ \A b \in BOOLEAN : \A k \in {"none", "tlink", "slink", "hpps"} :
              /\ [n |-> test.n, cb |-> b, link |-> k] \in Command
              /\ [n |-> 0, cb |-> b, link |-> k] \in Command
BY BoundAssumption DEF Types, TestState, L, Command

(* Every step of the tests and of what they run beside keeps the types.    *)
LEMMA TypeStep ==
  ASSUME Types, [Next]_vars PROVE Types'
<1> USE Parts, BoundAssumption DEF Types, cmdVars, hist
<1>a. Booting => boot + 1 \in 1..9 /\ BootOrder[boot] \in ShellTests \cup {"command", "early_tasks", "shell"}
  BY DEF Booting, BootOrder, ShellTests
<1>1. ASSUME BootTest PROVE Types'
  <2>1. boot' \in 1..9
    BY <1>a, <1>1 DEF BootTest
  <2>2. test' \in TestState /\ ctx' \in Context
    BY <1>a, <1>1, TestUpdates, CtxUpdates DEF BootTest
  <2>3. cause' \in Reasons
    BY <1>1, CauseUpdates DEF BootTest
  <2> QED BY <1>1, <2>1, <2>2, <2>3 DEF BootTest
<1>2. ASSUME early_tasks PROVE Types'
  BY <1>a, <1>2, HandlerUpdates DEF early_tasks
<1>3. ASSUME late_tasks PROVE Types'
  BY <1>a, <1>3 DEF late_tasks
<1>4. ASSUME ShellTest PROVE Types'
  BY <1>4, TestUpdates, CtxUpdates, CauseUpdates DEF ShellTest, Steps
<1>5. ASSUME hpsc_test_command PROVE Types'
  BY <1>5, TestUpdates, HandlerUpdates, CauseUpdates DEF hpsc_test_command, Steps
<1>6. ASSUME CommandSend PROVE Types'
  BY <1>6, TestUpdates, HandlerUpdates, CauseUpdates DEF CommandSend, Steps
<1>7. ASSUME CommandWait PROVE Types'
  BY <1>7, TestUpdates, CauseUpdates DEF CommandWait, Receive, Steps
<1>8. ASSUME CommandCheck PROVE Types'
  BY <1>8, TestUpdates, HandlerUpdates DEF CommandCheck, Steps
<1>9. ASSUME CommandEnd PROVE Types'
  BY <1>9, TestUpdates DEF CommandEnd, Steps
<1>10. ASSUME hpsc_mbox_chan_test PROVE Types'
  BY <1>10, TestUpdates, DeviceUpdates, CauseUpdates DEF hpsc_mbox_chan_test, Steps
<1>11. ASSUME test_loopback PROVE Types'
  BY <1>11, TestUpdates, DeviceUpdates DEF test_loopback, Steps
<1>12. ASSUME LoopbackWait PROVE Types'
  BY <1>12, TestUpdates, CauseUpdates DEF LoopbackWait, Receive, Steps
<1>13. ASSUME LoopbackCheck PROVE Types'
  BY <1>13, TestUpdates DEF LoopbackCheck, Steps
<1>14. ASSUME LoopbackEnd PROVE Types'
  BY <1>14, TestUpdates, DeviceUpdates DEF LoopbackEnd, Steps
<1>15. ASSUME hpsc_rti_timer_test_device PROVE Types'
  BY <1>15, TestUpdates, DeviceUpdates, CauseUpdates DEF hpsc_rti_timer_test_device, Steps
<1>16. ASSUME do_test_advance PROVE Types'
  BY <1>16, TestUpdates, CauseUpdates DEF do_test_advance, Steps
<1>17. ASSUME do_test_events PROVE Types'
  BY <1>17, TestUpdates, DeviceUpdates, CtxUpdates DEF do_test_events, Steps
<1>18. ASSUME RtiWait PROVE Types'
  BY <1>18, TestUpdates, CauseUpdates DEF RtiWait, Receive, Steps
<1>19. ASSUME RtiCheck PROVE Types'
  <2> DEFINE b == ctx.events \in NumEvents - Skew..NumEvents + Skew
  <2>1. test' = [test EXCEPT !.pc = "stop", !.ok = b]
    BY <1>19 DEF RtiCheck
  <2>2. b \in BOOLEAN
    OBVIOUS
  <2> HIDE DEF b
  <2>3. test' \in TestState
    BY <2>1, <2>2, TestUpdates DEF Steps
  <2> QED BY <1>19, <2>3 DEF RtiCheck
<1>20. ASSUME RtiEnd PROVE Types'
  <2>1. timer' \in Timer
    BY <1>20, DeviceUpdates DEF RtiEnd
  <2>2. test' \in TestState /\ cause' \in Reasons
    BY <1>20, TestUpdates, CauseUpdates DEF RtiEnd, Steps, At
  <2>3. kept' \in SUBSET (0..MaxTests)
    BY <1>20 DEF RtiEnd, TestState
  <2> QED BY <1>20, <2>1, <2>2, <2>3 DEF RtiEnd
<1>21. ASSUME hpsc_test_command_server PROVE Types'
  BY <1>21, TestUpdates, HandlerUpdates, CauseUpdates DEF hpsc_test_command_server, Steps
<1>22. ASSUME ServerAck PROVE Types'
  BY <1>22, TestUpdates, HandlerUpdates DEF ServerAck, Steps
<1>23. ASSUME ServerEnd PROVE Types'
  BY <1>23, TestUpdates DEF ServerEnd, Steps
<1>24. ASSUME hpsc_test_link_shmem PROVE Types'
  BY <1>24, TestUpdates, LinkUpdates, CauseUpdates DEF hpsc_test_link_shmem, Steps
<1>25. ASSUME PingBegin PROVE Types'
  BY <1>25, TestUpdates DEF PingBegin, Steps
<1>26. ASSUME hpsc_test_link_ping PROVE Types'
  BY <1>26, TestUpdates, LinkUpdates DEF hpsc_test_link_ping, Steps
<1>27. ASSUME PingAck PROVE Types'
  BY <1>27, TestUpdates, CauseUpdates DEF PingAck, PingDone, Steps
<1>28. ASSUME PingReply PROVE Types'
  BY <1>28, TestUpdates, LinkUpdates, CauseUpdates DEF PingReply, PingDone, Steps
<1>29. ASSUME ShmemStatus PROVE Types'
  <2>1. PICK b \in BOOLEAN : test' = [test EXCEPT !.pc = "close", !.ok = b]
    BY <1>29 DEF ShmemStatus
  <2>2. test' \in TestState
    BY <2>1, TestUpdates DEF Steps
  <2> QED BY <1>29, <2>2 DEF ShmemStatus
<1>30. ASSUME ShmemEnd PROVE Types'
  BY <1>30, TestUpdates, LinkUpdates DEF ShmemEnd, Steps
<1>31. ASSUME cb_recv PROVE Types'
  BY <1>31, CtxUpdates, DeviceUpdates DEF cb_recv
<1>32. ASSUME cb_ack PROVE Types'
  BY <1>32, CtxUpdates, DeviceUpdates DEF cb_ack
<1>33. ASSUME handle_event PROVE Types'
  <2>0. MaxEvents \in Nat
    BY DEF MaxEvents
  <2>a. ctx.events \in 0..MaxEvents
    BY CtxUpdates
  <2>b. ctx.events < MaxEvents
    BY <1>33 DEF handle_event, Count
  <2>1. ctx.events + 1 \in 0..MaxEvents
    BY <2>0, <2>a, <2>b
  <2>2. ctx' \in Context
    BY <1>33, <2>1, CtxUpdates DEF handle_event, Count
  <2>3. cause' \in Reasons
    BY <1>33, CauseUpdates DEF handle_event, Count
  <2> QED BY <1>33, <2>2, <2>3 DEF handle_event, Count
<1>34. ASSUME cmd_dequeue PROVE Types'
  <2>1. h' \in Handling /\ q' \in Queue
    <3>1. CASE q = << >>
      BY <1>34, <3>1, HandlerUpdates DEF cmd_dequeue
    <3>2. CASE q # << >>
      <4>1. Head(q) \in Command /\ Tail(q) \in Queue
        BY <3>2, HandlerUpdates
      <4>2. h' = [h EXCEPT !.pc = "handle", !.cmd = Head(q), !.status = "ok"] /\ q' = Tail(q)
        BY <1>34, <3>2 DEF cmd_dequeue
      <4> QED BY <4>1, <4>2, HandlerUpdates
    <3> QED BY <3>1, <3>2
  <2> QED BY <1>34, <2>1 DEF cmd_dequeue
<1>35. ASSUME HandlerReceive PROVE Types'
  BY <1>35, HandlerUpdates DEF HandlerReceive
<1>36. ASSUME cmd_handle PROVE Types'
  BY <1>36, HandlerUpdates, CtxUpdates, LinkUpdates DEF cmd_handle
<1>37. ASSUME ReplySent PROVE Types'
  BY <1>37, HandlerUpdates DEF ReplySent
<1>38. ASSUME ReplyTimedOut PROVE Types'
  BY <1>38, HandlerUpdates, CauseUpdates DEF ReplyTimedOut
<1>39. ASSUME handled_cmd_cb PROVE Types'
  BY <1>39, HandlerUpdates, CtxUpdates DEF handled_cmd_cb
<1>40. ASSUME handled_cb PROVE Types'
  <2>1. foreign' \in SUBSET (1..MaxTests)
    BY <1>40 DEF handled_cb
  <2>2. h' \in Handling
    BY <1>40, HandlerUpdates DEF handled_cb
  <2>3. ctx' \in Context
    BY <1>40, HandlerUpdates, CtxUpdates DEF handled_cb
  <2>4. cause' \in Reasons
    BY <1>40, CauseUpdates DEF handled_cb
  <2> QED BY <1>40, <2>1, <2>2, <2>3, <2>4 DEF handled_cb
<1>41. ASSUME TrchReplies PROVE Types'
  BY <1>41, LinkUpdates DEF TrchReplies
<1>42. ASSUME HppsSends PROVE Types'
  <2>1. others' \in 0..OtherCmds
    BY <1>42 DEF HppsSends
  <2>2. q' \in Queue /\ h' \in Handling
    BY <1>42, HandlerUpdates DEF HppsSends
  <2> QED BY <1>42, <2>1, <2>2 DEF HppsSends
<1>43. ASSUME HppsAcks PROVE Types'
  BY <1>43, HandlerUpdates DEF HppsAcks
<1>44. ASSUME NEW l \in {"trch", "clink"}, TakeRequest(l) PROVE Types'
  BY <1>44, LinkUpdates, HandlerUpdates DEF TakeRequest
<1>45. ASSUME NEW l \in {"trch", "clink"}, link_ack(l) PROVE Types'
  BY <1>45, LinkUpdates DEF link_ack
<1>46. ASSUME NEW l \in {"trch", "clink"}, link_recv_reply(l) PROVE Types'
  BY <1>46, LinkUpdates, HandlerUpdates, CauseUpdates DEF link_recv_reply
<1>47. CASE UNCHANGED vars
  BY <1>47 DEF vars
<1>48. CASE Test
  BY <1>48, <1>5, <1>6, <1>7, <1>8, <1>9, <1>10, <1>11, <1>12, <1>13, <1>14,
     <1>15, <1>16, <1>17, <1>18, <1>19, <1>20, <1>21, <1>22, <1>23, <1>24,
     <1>25, <1>26, <1>27, <1>28, <1>29, <1>30 DEF Test
<1>49. CASE Isr \/ Handler \/ Remote
  BY <1>49, <1>31, <1>32, <1>33, <1>34, <1>35, <1>36, <1>37, <1>38, <1>39,
     <1>40, <1>41, <1>42, <1>43 DEF Isr, Handler, Remote
<1> QED BY <1>1, <1>2, <1>3, <1>4, <1>44, <1>45, <1>46, <1>47, <1>48, <1>49 DEF Next, Poll

(* The values of Init. *)
LEMMA TypesInit == Init => Types
<1> SUFFICES ASSUME Init PROVE Types
  OBVIOUS
<1>1. 0 \in 0..MaxTests /\ 0 \in 0..OtherCmds /\ 0 \in 0..MaxEvents
  <2>1. MaxEvents \in Nat
    BY BoundAssumption DEF MaxEvents
  <2> QED BY <2>1, BoundAssumption
<1>2. test \in TestState
  BY <1>1 DEF Init, TestState, Steps
<1>3. ctx \in Context
  BY <1>1 DEF Init, Context, FreshCtx
<1>4. timer \in Timer /\ chan \in Channel
  BY <1>1 DEF Init, Timer, Channel
<1>5. lnk \in Links
  BY DEF Init, Links, LinkEnd, NoLink
<1>6. NoCmd \in Command
  BY <1>1 DEF NoCmd, Command
<1>7. h \in Handling /\ q \in Queue
  BY <1>6 DEF Init, Handling, Queue
<1>8. boot \in 1..9 /\ gcb \in 0..MaxTests /\ others \in 0..OtherCmds
  BY <1>1 DEF Init
<1>9. /\ pend \in SUBSET {0, 1}
      /\ foreign \in SUBSET (1..MaxTests) /\ kept \in SUBSET (0..MaxTests)
  BY DEF Init
<1>10. cause \in Reasons
  BY DEF Init, Reasons
<1> QED BY <1>9, <1>10, <1>2, <1>3, <1>4, <1>5, <1>7, <1>8 DEF Types

(* Type correctness of the tests and of what they use. *)
THEOREM TypeCorrect == Spec => []TypeOK
<1>1. Init => Types
  BY TypesInit
<1> QED BY TypesIs, TypeStep, <1>1, PTL DEF Spec

-------------------------------------------------------------------------------
(* A command of the test that runs or has run last. *)
Mine(c) == c.n = test.n /\ c.n # 0
Busy == h.pc \in {"handle", "reply", "acked", "cb", "gcb"}
NoneMine == /\ \A i \in 1..Len(q) : ~Mine(q[i])
            /\ Busy => ~Mine(h.cmd)

(* The interrupt handlers and the global callback are installed only while *)
(* their test is between its first step and its last, unless the system    *)
(* will not remove the handler.                                            *)
InstalledInv ==
  /\ timer.arg # 0 => \/ timer.arg \in kept
                      \/ /\ timer.arg = test.n /\ test.name = "rti"
                         /\ test.pc \in {"send", "count", "wait", "check", "stop"}
  /\ chan.arg # 0 => /\ chan.arg = test.n /\ test.name = "loopback"
                     /\ test.pc \in {"send", "wait", "check", "stop"}
  /\ gcb # 0 => /\ gcb = test.n
                /\ \/ /\ test.name = "command"
                      /\ test.pc \in {"send", "wait", "check", "stopping"}
                   \/ /\ test.name = "linkshmem"
                      /\ test.pc \in {"send", "wait", "reply", "status", "panic"}

(* A test submits at most one command, itself or by its request; nothing   *)
(* is submitted for a test that has yet to begin.                          *)
OneInv ==
  /\ \A i \in 1..Len(q) : q[i].n <= test.n
  /\ Busy => h.cmd.n <= test.n
  /\ \A i, j \in 1..Len(q) : Mine(q[i]) /\ Mine(q[j]) => i = j
  /\ Busy /\ Mine(h.cmd) => \A i \in 1..Len(q) : ~Mine(q[i])
  /\ lnk["clink"].msg => /\ test.name = "linkshmem"
                         /\ test.pc \in {"wait", "reply", "status", "close", "panic"}
                         /\ NoneMine
  /\ test.pc = "begin" => NoneMine /\ ctx.status = "unknown"
  /\ test.pc # "idle" => test.n # 0

(* The first test runs alone: every command is its own. *)
FirstInv ==
  /\ boot = 1 => q = << >> /\ ~Busy /\ test.n = 0 /\ test.pc = "idle"
  /\ test.name = "command" /\ test.pc # "idle" =>
       /\ boot = 2
       /\ \A i \in 1..Len(q) : Mine(q[i])
       /\ Busy => Mine(h.cmd)
       /\ test.pc \in {"begin", "send"} => NoneMine
       /\ test.pc \in {"send", "wait", "check", "stopping"} /\ ctx.status # "unknown" =>
            NoneMine /\ test.pc # "send"
       /\ test.pc = "stopping" /\ test.ok => ctx.status # "unknown"

(* A callback of a command's own is still to come only while its test      *)
(* waits for it.                                                           *)
Calls(c) == Mine(c) /\ test.name \in {"command", "server"} /\ test.pc \notin {"idle", "begin"}
CallbackInv ==
  /\ \A i \in 1..Len(q) : q[i].cb => Calls(q[i])
  /\ h.pc \in {"handle", "reply", "acked", "cb"} /\ h.cmd.cb => Calls(h.cmd)
  /\ test.name = "server" /\ test.pc \in {"wait", "status"} /\ ctx.status # "unknown" =>
       /\ \A i \in 1..Len(q) : ~Mine(q[i])
       /\ Busy /\ Mine(h.cmd) => h.pc = "gcb"

(* The same of the link of the test's request, unless the test was given   *)
(* the status of another command.                                          *)
Answers(c) == \/ Mine(c) /\ test.name = "linkshmem" /\ test.pc # "idle"
              \/ c.n \in foreign
RequestInv ==
  /\ \A i \in 1..Len(q) : q[i].link = "slink" => Answers(q[i])
  /\ h.pc \in {"handle", "reply", "acked"} /\ h.cmd.link = "slink" => Answers(h.cmd)
  /\ test.name = "linkshmem" /\ test.pc = "send" =>
       /\ NoneMine
       /\ ctx.status # "unknown" => test.n \in foreign
  /\ test.name = "linkshmem" /\ test.pc \in {"wait", "reply", "status", "close"}
       /\ ctx.status # "unknown" =>
       test.n \in foreign \/ (NoneMine /\ ~lnk["clink"].msg)
  /\ test.name = "linkshmem" /\ test.pc = "close" => ctx.status # "unknown"

TestInv == InstalledInv /\ OneInv /\ FirstInv /\ CallbackInv /\ RequestInv

-------------------------------------------------------------------------------
(* A step within a test, or of the handler task with the same command,     *)
(* that changes nothing else the invariant is about.                       *)
TestMoves ==
  /\ test'.name = test.name /\ test'.n = test.n
  /\ \/ test'.pc = test.pc /\ test'.ok = test.ok
     \/ /\ test.name = "rti"
        /\ {test.pc, test'.pc} \subseteq {"send", "count", "wait", "check", "stop"}
     \/ /\ test.name = "loopback"
        /\ {test.pc, test'.pc} \subseteq {"send", "wait", "check", "stop"}
     \/ test.name = "command" /\ test.pc = "wait" /\ test'.pc = "check"
     \/ /\ test.name = "command" /\ test.pc = "check" /\ test'.pc = "stopping"
        /\ test'.ok => ctx.status # "unknown"
     \/ test.name = "command" /\ test.pc = "send" /\ test'.pc = "stopping" /\ ~test'.ok
     \/ test.name = "server" /\ test.pc = "wait" /\ test'.pc = "status"
     \/ test.name = "ping" /\ test'.pc # "begin" /\ test.pc # "idle"
     \/ /\ test.name = "linkshmem" /\ test.pc \in {"wait", "reply"}
        /\ test'.pc \in {"reply", "status", "panic"}
HandlerMoves ==
  /\ h'.cmd = h.cmd
  /\ \/ h'.pc = h.pc
     \/ ~Busy /\ ~Busy'
     \/ h.pc = "handle" /\ h'.pc \in {"reply", "cb"}
     \/ h.pc = "reply" /\ h'.pc \in {"acked", "cb"}
     \/ h.pc = "acked" /\ h'.pc = "cb"
Quiet ==
  /\ TestMoves /\ HandlerMoves
  /\ UNCHANGED <<boot, q, gcb, foreign>>
  /\ ctx'.status = ctx.status
  /\ timer'.arg = timer.arg /\ kept' = kept /\ chan'.arg = chan.arg
  /\ lnk'["clink"].msg = lnk["clink"].msg

(* Such a step keeps the invariant. *)
LEMMA QuietKeeps ==
  ASSUME TestInv, Quiet PROVE TestInv'
<1> USE DEF Quiet
<1>0. /\ test'.name = test.name /\ test'.n = test.n /\ q' = q /\ h'.cmd = h.cmd
      /\ Busy' <=> Busy
  BY DEF TestMoves, HandlerMoves, Busy
<1>1. InstalledInv'
  BY <1>0 DEF TestInv, InstalledInv, TestMoves
<1>2. NoneMine' <=> NoneMine
  BY <1>0 DEF NoneMine, Mine
<1>3. OneInv'
  BY <1>0, <1>2 DEF TestInv, OneInv, TestMoves, Mine
<1>4. FirstInv'
  BY <1>0, <1>2 DEF TestInv, FirstInv, TestMoves, Mine
<1>5. CallbackInv'
  BY <1>0, <1>2 DEF TestInv, CallbackInv, Calls, Mine, TestMoves, HandlerMoves, Busy
<1>6. RequestInv'
  BY <1>0, <1>2 DEF TestInv, RequestInv, Answers, Mine, TestMoves, HandlerMoves, Busy
<1> QED BY <1>1, <1>3, <1>4, <1>5, <1>6 DEF TestInv

(* What the updates leave of the fields that the invariant is about. *)
LEMMA TestFields ==
  ASSUME test \in TestState
  PROVE  /\ \A l : Goto(l) => /\ test'.name = test.name /\ test'.n = test.n
                              /\ test'.pc = l /\ test'.ok = test.ok
         /\ \A l, ok : test' = [test EXCEPT !.pc = l, !.ok = ok] =>
              /\ test'.name = test.name /\ test'.n = test.n /\ test'.pc = l /\ test'.ok = ok
         /\ \A ok : Return(ok) =>
              /\ test'.name = test.name /\ test'.n = test.n
              /\ test'.pc = IF Booting /\ ~ok THEN "panic" ELSE "idle"
<1> USE DEF TestState
<1>1. \A l : Goto(l) => /\ test'.name = test.name /\ test'.n = test.n
                        /\ test'.pc = l /\ test'.ok = test.ok
  BY DEF Goto
<1>2. \A l, ok : test' = [test EXCEPT !.pc = l, !.ok = ok] =>
        /\ test'.name = test.name /\ test'.n = test.n /\ test'.pc = l /\ test'.ok = ok
  OBVIOUS
<1>3. \A ok : Return(ok) =>
        /\ test'.name = test.name /\ test'.n = test.n
        /\ test'.pc = IF Booting /\ ~ok THEN "panic" ELSE "idle"
  BY DEF Return
<1> QED BY <1>1, <1>2, <1>3, Zenon

(* The status of the context. *)
LEMMA CtxFields ==
  ASSUME ctx \in Context
  PROVE  /\ \A v : [ctx EXCEPT !.rx = v].status = ctx.status
         /\ \A v : [ctx EXCEPT !.ack = v].status = ctx.status
         /\ \A v : [ctx EXCEPT !.events = v].status = ctx.status
         /\ [ctx EXCEPT !.handled = TRUE].status = ctx.status
         /\ [ctx EXCEPT !.written = TRUE].status = ctx.status
         /\ \A v : [ctx EXCEPT !.status = v].status = v
         /\ FreshCtx.status = "unknown"
BY DEF Context, FreshCtx

(* The contexts that the interrupt handlers are given. *)
LEMMA DeviceFields ==
  ASSUME timer \in Timer, chan \in Channel
  PROVE  /\ \A n : hpsc_rti_timer_start(timer, n).arg = n
         /\ \A i : hpsc_rti_timer_configure(timer, i).arg = timer.arg
         /\ hpsc_rti_timer_stop(hpsc_rti_timer_configure(timer, "max")).arg = 0
         /\ \A n : [chan EXCEPT !.arg = n].arg = n
         /\ \A s : [chan EXCEPT !.set = s].arg = chan.arg
BY DEF Timer, Channel, hpsc_rti_timer_start, hpsc_rti_timer_configure, hpsc_rti_timer_stop

(* The request on the way to the server of the test's own link. *)
LEMMA LinkFields ==
  ASSUME lnk \in Links
  PROVE  /\ \A m \in {"trch", "clink"} : [lnk EXCEPT ![m].tid = FALSE]["clink"].msg = lnk["clink"].msg
         /\ \A m \in {"trch", "clink"} : [lnk EXCEPT ![m].reply = TRUE]["clink"].msg = lnk["clink"].msg
         /\ \A m \in {"trch", "clink"} : [lnk EXCEPT ![m].reply = FALSE]["clink"].msg = lnk["clink"].msg
         /\ \A m \in {"trch", "clink"} :
              [lnk EXCEPT ![m].ack = FALSE, ![m].acked = TRUE]["clink"].msg = lnk["clink"].msg
         /\ [lnk EXCEPT !["trch"].owed = FALSE, !["trch"].reply = TRUE]["clink"].msg
              = lnk["clink"].msg
         /\ \A b : [lnk EXCEPT !["trch"].msg = FALSE, !["trch"].ack = TRUE,
                               !["trch"].owed = b]["clink"].msg = lnk["clink"].msg
         /\ [lnk EXCEPT !["trch"].tid = TRUE, !["trch"].acked = FALSE,
                        !["trch"].msg = TRUE]["clink"].msg = lnk["clink"].msg
         /\ ~[lnk EXCEPT !["clink"] = NoLink]["clink"].msg
<1> USE DEF Links, LinkEnd
<1>1. \A m \in {"trch", "clink"} : [lnk EXCEPT ![m].tid = FALSE]["clink"].msg = lnk["clink"].msg
  OBVIOUS
<1>2. \A m \in {"trch", "clink"} : [lnk EXCEPT ![m].reply = TRUE]["clink"].msg = lnk["clink"].msg
  OBVIOUS
<1>3. \A m \in {"trch", "clink"} : [lnk EXCEPT ![m].reply = FALSE]["clink"].msg = lnk["clink"].msg
  OBVIOUS
<1>4. \A m \in {"trch", "clink"} :
        [lnk EXCEPT ![m].ack = FALSE, ![m].acked = TRUE]["clink"].msg = lnk["clink"].msg
  OBVIOUS
<1>5. [lnk EXCEPT !["trch"].owed = FALSE, !["trch"].reply = TRUE]["clink"].msg = lnk["clink"].msg
  OBVIOUS
<1>6. \A b : [lnk EXCEPT !["trch"].msg = FALSE, !["trch"].ack = TRUE,
                         !["trch"].owed = b]["clink"].msg = lnk["clink"].msg
  OBVIOUS
<1>7. [lnk EXCEPT !["trch"].tid = TRUE, !["trch"].acked = FALSE,
                  !["trch"].msg = TRUE]["clink"].msg = lnk["clink"].msg
  OBVIOUS
<1>8. ~[lnk EXCEPT !["clink"] = NoLink]["clink"].msg
  BY DEF NoLink
<1> QED BY <1>1, <1>2, <1>3, <1>4, <1>5, <1>6, <1>7, <1>8, Zenon

(* The step and the command of the handler task. *)
LEMMA HandlerFields ==
  ASSUME h \in Handling
  PROVE  /\ \A l : [h EXCEPT !.pc = l].pc = l /\ [h EXCEPT !.pc = l].cmd = h.cmd
         /\ \A e, l : [h EXCEPT !.ev = e, !.pc = l].pc = l /\ [h EXCEPT !.ev = e, !.pc = l].cmd = h.cmd
         /\ \A e : [h EXCEPT !.ev = e].pc = h.pc /\ [h EXCEPT !.ev = e].cmd = h.cmd
         /\ \A l, s : [h EXCEPT !.pc = l, !.status = s].pc = l /\ [h EXCEPT !.pc = l, !.status = s].cmd = h.cmd
         /\ \A l, c : [h EXCEPT !.pc = l, !.cmd = c].pc = l /\ [h EXCEPT !.pc = l, !.cmd = c].cmd = c
         /\ \A l, c, s : /\ [h EXCEPT !.pc = l, !.cmd = c, !.status = s].pc = l
                         /\ [h EXCEPT !.pc = l, !.cmd = c, !.status = s].cmd = c
         /\ StartTask => h'.pc = "flush"
<1> USE DEF Handling
<1>1. \A l : [h EXCEPT !.pc = l].pc = l /\ [h EXCEPT !.pc = l].cmd = h.cmd
  OBVIOUS
<1>2. \A e, l : [h EXCEPT !.ev = e, !.pc = l].pc = l /\ [h EXCEPT !.ev = e, !.pc = l].cmd = h.cmd
  OBVIOUS
<1>3. \A e : [h EXCEPT !.ev = e].pc = h.pc /\ [h EXCEPT !.ev = e].cmd = h.cmd
  OBVIOUS
<1>4. \A l, s : [h EXCEPT !.pc = l, !.status = s].pc = l /\ [h EXCEPT !.pc = l, !.status = s].cmd = h.cmd
  OBVIOUS
<1>5. \A l, c : [h EXCEPT !.pc = l, !.cmd = c].pc = l /\ [h EXCEPT !.pc = l, !.cmd = c].cmd = c
  OBVIOUS
<1>6. \A l, c, s : /\ [h EXCEPT !.pc = l, !.cmd = c, !.status = s].pc = l
                   /\ [h EXCEPT !.pc = l, !.cmd = c, !.status = s].cmd = c
  OBVIOUS
<1>7. StartTask => h'.pc = "flush"
  BY DEF StartTask
<1> QED BY <1>1, <1>2, <1>3, <1>4, <1>5, <1>6, <1>7, Zenon

(* The steps of that kind: the waits and checks of the tests, the          *)
(* interrupts, the handler task's work on a command, the peers.            *)
LEMMA QuietStep ==
  ASSUME Types, TestInv,
         \/ CommandWait \/ CommandCheck \/ test_loopback \/ LoopbackWait \/ LoopbackCheck
         \/ do_test_advance \/ do_test_events \/ RtiWait \/ RtiCheck \/ ServerAck
         \/ PingBegin \/ PingAck \/ PingReply
         \/ cb_recv \/ cb_ack \/ handle_event
         \/ HandlerReceive \/ cmd_handle \/ ReplySent \/ ReplyTimedOut
         \/ TrchReplies \/ HppsAcks
         \/ (\E l \in {"trch", "clink"} : link_ack(l) \/ link_recv_reply(l))
         \/ (test.name = "ping" /\ hpsc_test_link_ping) \/ TakeRequest("trch")
  PROVE  Quiet
<1> USE DEF Types, Quiet, TestMoves, HandlerMoves, Busy, cmdVars, hist
<1>1. CASE CommandWait
  BY <1>1, TestFields DEF CommandWait, Receive, At
<1>2. CASE CommandCheck
  BY <1>2, TestFields, HandlerFields DEF CommandCheck, At
<1>3. CASE test_loopback
  BY <1>3, TestFields, DeviceFields DEF test_loopback, At
<1>4. CASE LoopbackWait
  BY <1>4, TestFields DEF LoopbackWait, Receive, At
<1>5. CASE LoopbackCheck
  BY <1>5, TestFields DEF LoopbackCheck, At
<1>6. CASE do_test_advance
  BY <1>6, TestFields DEF do_test_advance, At
<1>7. CASE do_test_events
  BY <1>7, TestFields, DeviceFields, CtxFields DEF do_test_events, At
<1>8. CASE RtiWait
  BY <1>8, TestFields DEF RtiWait, Receive, At
<1>9. CASE RtiCheck
  BY <1>9, TestFields DEF RtiCheck, At
<1>10. CASE ServerAck
  BY <1>10, TestFields, HandlerFields DEF ServerAck, At
<1>11. CASE PingBegin
  BY <1>11, TestFields DEF PingBegin, At
<1>12. CASE PingAck
  BY <1>12, TestFields DEF PingAck, PingDone, Return, L
<1>13. CASE PingReply
  <2>1. lnk'["clink"].msg = lnk["clink"].msg
    BY <1>13, LinkFields DEF PingReply, L
  <2>2. PingDone(TRUE) \/ PingDone(FALSE)
    BY <1>13 DEF PingReply
  <2>3. /\ test'.name = test.name /\ test'.n = test.n
        /\ test.name = "linkshmem" => test'.pc = "status"
        /\ test.name = "ping" => test'.pc \in {"idle", "panic"}
    BY <2>2, TestFields DEF PingDone
  <2> QED BY <1>13, <2>1, <2>3 DEF PingReply
<1>14. CASE cb_recv
  <2>1. ctx'.status = ctx.status
    BY <1>14, CtxFields DEF cb_recv
  <2>2. chan'.arg = chan.arg
    BY <1>14, DeviceFields DEF cb_recv
  <2> QED BY <1>14, <2>1, <2>2 DEF cb_recv
<1>15. CASE cb_ack
  BY <1>15, CtxFields, DeviceFields DEF cb_ack
<1>16. CASE handle_event
  BY <1>16, CtxFields DEF handle_event, Count
<1>17. CASE HandlerReceive
  BY <1>17, HandlerFields DEF HandlerReceive
<1>18. CASE cmd_handle
  BY <1>18, HandlerFields, CtxFields, LinkFields DEF cmd_handle
<1>19. CASE ReplySent
  BY <1>19, HandlerFields DEF ReplySent
<1>20. CASE ReplyTimedOut
  BY <1>20, HandlerFields DEF ReplyTimedOut
<1>21. CASE TrchReplies
  BY <1>21, LinkFields DEF TrchReplies
<1>22. CASE HppsAcks
  BY <1>22, HandlerFields DEF HppsAcks
<1>23. ASSUME NEW l \in {"trch", "clink"}, link_ack(l) \/ link_recv_reply(l) PROVE Quiet
  <2>1. lnk'["clink"].msg = lnk["clink"].msg
    BY <1>23, LinkFields DEF link_ack, link_recv_reply
  <2>2. h' = h \/ (h.pc = "reply" /\ h' = [h EXCEPT !.pc = "acked"])
    BY <1>23 DEF link_ack, link_recv_reply
  <2>3. HandlerMoves
    <3>1. CASE h' = h
      BY <3>1
    <3>2. CASE h.pc = "reply" /\ h' = [h EXCEPT !.pc = "acked"]
      <4>1. h'.pc = "acked" /\ h'.cmd = h.cmd
        BY <3>2, HandlerFields
      <4> QED BY <3>2, <4>1
    <3> QED BY <2>2, <3>1, <3>2
  <2> QED BY <1>23, <2>1, <2>3 DEF link_ack, link_recv_reply
<1>24. CASE test.name = "ping" /\ hpsc_test_link_ping
  BY <1>24, LinkFields, TestFields DEF hpsc_test_link_ping, L
<1>25. CASE TakeRequest("trch")
  BY <1>25, LinkFields DEF TakeRequest
<1> QED
  BY <1>1, <1>2, <1>3, <1>4, <1>5, <1>6, <1>7, <1>8, <1>9, <1>10, <1>11, <1>12,
     <1>13, <1>14, <1>15, <1>16, <1>17, <1>18, <1>19, <1>20, <1>21, <1>22,
     <1>23, <1>24, <1>25

-------------------------------------------------------------------------------
(* The end of a test, or its failure to begin: nothing is installed any    *)
(* more, and what is left of its command does not concern it.              *)
NothingInstalled == (timer.arg # 0 => timer.arg \in kept) /\ chan.arg = 0 /\ gcb = 0 /\ ~lnk["clink"].msg
Over == /\ \A i \in 1..Len(q) : ~q[i].cb /\ (q[i].link = "slink" => q[i].n \in foreign)
        /\ h.pc \in {"handle", "reply", "acked", "cb"} => ~h.cmd.cb
        /\ h.pc \in {"handle", "reply", "acked"} /\ h.cmd.link = "slink" => h.cmd.n \in foreign
Ends == /\ test'.name = test.name /\ test'.n = test.n
        /\ test.pc \notin {"idle", "panic"}
        /\ test'.pc \in {"idle", "panic"} /\ (test'.pc = "idle" => Over)
        /\ UNCHANGED <<boot, q, h, foreign>> /\ ctx'.status = ctx.status
        /\ NothingInstalled'

(* Such a step keeps the invariant. *)
LEMMA EndKeeps ==
  ASSUME TestInv, Ends PROVE TestInv'
<1> USE DEF Ends
<1>1. InstalledInv'
  BY DEF InstalledInv, NothingInstalled
<1>2. NoneMine' <=> NoneMine
  BY DEF NoneMine, Mine, Busy
<1>3. OneInv'
  BY DEF TestInv, OneInv, NothingInstalled, Mine, Busy
<1>4. FirstInv'
  BY DEF TestInv, FirstInv, Mine, Busy
<1>5. CallbackInv'
  <2>1. CASE test'.pc = "idle"
    BY <2>1 DEF Over, CallbackInv
  <2>2. CASE test'.pc = "panic" /\ test.pc = "begin"
    BY <2>2 DEF TestInv, OneInv, NoneMine, CallbackInv, Calls, Mine, Busy
  <2>3. CASE test'.pc = "panic" /\ test.pc # "begin"
    BY <2>3 DEF TestInv, CallbackInv, Calls, Mine
  <2> QED BY <2>1, <2>2, <2>3
<1>6. RequestInv'
  <2>1. CASE test'.pc = "idle"
    BY <2>1 DEF Over, RequestInv, Answers
  <2>2. CASE test'.pc = "panic"
    BY <2>2 DEF TestInv, RequestInv, Answers, Mine
  <2> QED BY <2>1, <2>2
<1> QED BY <1>1, <1>3, <1>4, <1>5, <1>6 DEF TestInv

(* The steps of that kind. *)
LEMMA EndStep ==
  ASSUME Types, TestInv,
         \/ CommandEnd \/ LoopbackEnd \/ RtiEnd \/ ServerEnd \/ ShmemEnd
         \/ /\ test.pc = "begin" /\ Return(FALSE) /\ (test.name = "command" => Booting)
            /\ UNCHANGED <<boot, q, h, foreign, ctx, timer, kept, chan, lnk, gcb>>
  PROVE  Ends
<1> USE DEF Types, cmdVars, hist, At
<1>1. /\ timer.arg # 0 => timer.arg \in kept \/ (test.name = "rti" /\ test.pc # "begin")
      /\ chan.arg # 0 => test.name = "loopback" /\ test.pc # "begin"
      /\ gcb # 0 => test.name \in {"command", "linkshmem"} /\ test.pc \notin {"begin", "close"}
      /\ lnk["clink"].msg => test.name = "linkshmem" /\ test.pc # "begin"
  BY DEF TestInv, InstalledInv, OneInv
<1>2. ASSUME NoneMine, test.pc # "idle" PROVE Over
  BY <1>2 DEF TestInv, CallbackInv, Calls, RequestInv, Answers, Over, NoneMine, Busy
<1>3. CASE CommandEnd
  <2>1. Booting
    BY <1>3 DEF CommandEnd, TestInv, FirstInv, Booting, BootOrder
  <2>2. test'.pc = "idle" => test.ok
    <3>1. Return(test.ok)
      BY <1>3 DEF CommandEnd
    <3>2. test'.pc = IF Booting /\ ~test.ok THEN "panic" ELSE "idle"
      BY <3>1 DEF Return, TestState
    <3> QED BY <2>1, <3>2
  <2>3. test.ok => NoneMine
    BY <1>3 DEF CommandEnd, TestInv, FirstInv
  <2>4. NothingInstalled'
    BY <1>1, <1>3 DEF CommandEnd, NothingInstalled
  <2> QED BY <1>2, <1>3, <2>2, <2>3, <2>4, TestFields DEF CommandEnd, Ends
<1>4. CASE LoopbackEnd \/ RtiEnd
  <2>1. Over
    BY <1>4 DEF LoopbackEnd, RtiEnd, TestInv, CallbackInv, Calls, RequestInv, Answers, Over
  <2>2. NothingInstalled'
    <3>1. CASE LoopbackEnd
      BY <1>1, <3>1, DeviceFields DEF LoopbackEnd, NothingInstalled
    <3>2. CASE RtiEnd
      <4>1. chan.arg = 0 /\ gcb = 0 /\ ~lnk["clink"].msg
        BY <1>1, <3>2 DEF RtiEnd
      <4>2. /\ timer.arg # 0 => timer.arg \in kept \/ timer.arg = test.n
            /\ kept \subseteq kept'
        BY <3>2 DEF RtiEnd, TestInv, InstalledInv
      <4>3. timer'.arg = 0 \/ (timer'.arg = timer.arg /\ kept' = kept \cup {test.n})
        BY <3>2, DeviceFields DEF RtiEnd
      <4> QED BY <3>2, <4>1, <4>2, <4>3 DEF RtiEnd, NothingInstalled
    <3> QED BY <1>4, <3>1, <3>2
  <2> QED BY <1>4, <2>1, <2>2, TestFields DEF LoopbackEnd, RtiEnd, Ends
<1>5. CASE ServerEnd
  <2>1. Over
    BY <1>5 DEF ServerEnd, TestInv, CallbackInv, Calls, RequestInv, Answers, Over, Busy
  <2>2. NothingInstalled'
    BY <1>1, <1>5 DEF ServerEnd, NothingInstalled
  <2>3. \E ok \in BOOLEAN : Return(ok)
    BY <1>5 DEF ServerEnd
  <2> QED BY <1>5, <2>1, <2>2, <2>3, TestFields DEF ServerEnd, Ends
<1>6. CASE ShmemEnd
  <2>1. Over
    BY <1>6 DEF ShmemEnd, TestInv, CallbackInv, Calls, RequestInv, Answers, Over, NoneMine,
       Mine, Busy
  <2>2. NothingInstalled'
    BY <1>1, <1>6, LinkFields DEF ShmemEnd, NothingInstalled
  <2> QED BY <1>6, <2>1, <2>2, TestFields DEF ShmemEnd, Ends
<1>7. CASE /\ test.pc = "begin" /\ Return(FALSE) /\ (test.name = "command" => Booting)
           /\ UNCHANGED <<boot, q, h, foreign, ctx, timer, kept, chan, lnk, gcb>>
  <2>1. Over
    BY <1>2, <1>7 DEF TestInv, OneInv
  <2>2. NothingInstalled'
    BY <1>1, <1>7 DEF NothingInstalled
  <2> QED BY <1>7, <2>1, <2>2, TestFields DEF Ends
<1> QED BY <1>3, <1>4, <1>5, <1>6, <1>7

-------------------------------------------------------------------------------
(* A test begins when the one before is over: no command is its own yet.   *)
LEMMA BeginKeeps ==
  ASSUME Types, TestInv, test.pc = "idle", NEW name, Begin(name),
         name = "command" => boot = 1 /\ boot' = 2, boot' # 1,
         UNCHANGED <<q, h, foreign, timer, kept, chan, gcb, lnk>>
  PROVE  TestInv'
<1>1. /\ test.n \in Nat /\ test'.n = test.n + 1 /\ test'.pc = "begin" /\ test'.name = name
      /\ ctx'.status = "unknown"
  BY BoundAssumption DEF Begin, FreshCtx, Types, TestState
<1>2. /\ timer.arg # 0 => timer.arg \in kept
      /\ chan.arg = 0 /\ gcb = 0 /\ ~lnk["clink"].msg
  BY DEF TestInv, InstalledInv, OneInv
<1>3. /\ \A i \in 1..Len(q) : q[i].n \in Nat
      /\ h.cmd.n \in Nat
  <2>1. \A c \in Command : c.n \in Nat
    BY BoundAssumption DEF Command
  <2>2. h.cmd \in Command
    BY DEF Types, Handling
  <2>3. \A i \in 1..Len(q) : q[i] \in Command
    BY DEF Types, Queue
  <2> QED BY <2>1, <2>2, <2>3
<1>4. /\ \A i \in 1..Len(q) : q[i].n < test'.n
      /\ Busy => h.cmd.n < test'.n
  BY <1>1, <1>3 DEF TestInv, OneInv
<1>5. NoneMine'
  BY <1>1, <1>3, <1>4 DEF NoneMine, Mine, Busy
<1>6. InstalledInv'
  BY <1>2 DEF InstalledInv
<1>7. OneInv'
  <2>1. /\ \A i \in 1..Len(q) : q[i].n <= test'.n
        /\ Busy => h.cmd.n <= test'.n
    BY <1>1, <1>3, <1>4
  <2>2. test'.n # 0
    BY <1>1
  <2> QED BY <1>1, <1>2, <1>5, <2>1, <2>2 DEF OneInv, NoneMine, Busy
<1>8. FirstInv'
  <2>1. CASE name = "command"
    <3>1. q = << >> /\ ~Busy
      BY <2>1 DEF TestInv, FirstInv
    <3> QED BY <1>1, <1>5, <2>1, <3>1 DEF FirstInv, Busy
  <2>2. CASE name # "command"
    BY <1>1, <2>2 DEF FirstInv
  <2> QED BY <2>1, <2>2
<1>9. CallbackInv'
  BY <1>1 DEF TestInv, CallbackInv, Calls
<1>10. RequestInv'
  BY <1>1 DEF TestInv, RequestInv, Answers
<1> QED BY <1>6, <1>7, <1>8, <1>9, <1>10 DEF TestInv

(* The steps between tests. *)
LEMMA IdleStep ==
  ASSUME Types, TestInv, BootTest \/ early_tasks \/ late_tasks \/ ShellTest
  PROVE  TestInv'
<1> USE DEF cmdVars, hist
<1>1. ASSUME test.pc = "idle", boot' = boot + 1, UNCHANGED <<test, q, foreign, timer, kept, chan, gcb, lnk>>,
             h' = h \/ h'.pc = "flush"
      PROVE  TestInv'
  <2>0. boot \in 1..9
    BY DEF Types
  <2>1. InstalledInv'
    BY <1>1 DEF TestInv, InstalledInv
  <2>2. NoneMine => NoneMine'
    BY <1>1 DEF NoneMine, Mine, Busy
  <2>3. OneInv'
    BY <1>1, <2>2 DEF TestInv, OneInv, Mine, Busy
  <2>4. FirstInv'
    BY <1>1, <2>0 DEF FirstInv
  <2>5. CallbackInv'
    BY <1>1 DEF TestInv, CallbackInv, Calls, Mine
  <2>6. RequestInv'
    BY <1>1 DEF TestInv, RequestInv, Answers, Mine
  <2> QED BY <2>1, <2>3, <2>4, <2>5, <2>6 DEF TestInv
<1>2. CASE BootTest
  <2>1. CASE Begin(BootOrder[boot])
    <3>1. /\ test.pc = "idle" /\ boot' = boot + 1 /\ Booting
          /\ UNCHANGED <<q, h, foreign, timer, kept, chan, gcb, lnk>>
      BY <1>2 DEF BootTest
    <3>2. boot \in 1..9
      BY DEF Types
    <3>3. BootOrder[boot] = "command" => boot = 1
      BY <3>1, <3>2 DEF BootOrder, Booting
    <3>4. boot' # 1 /\ (BootOrder[boot] = "command" => boot' = 2)
      BY <3>1, <3>2, <3>3
    <3> QED BY <2>1, <3>1, <3>3, <3>4, BeginKeeps
  <2>2. CASE UNCHANGED <<test, ctx>>
    BY <1>1, <1>2, <2>2 DEF BootTest
  <2> QED BY <1>2, <2>1, <2>2 DEF BootTest
<1>3. CASE early_tasks
  BY <1>1, <1>3, HandlerFields DEF early_tasks, Types
<1>4. CASE late_tasks
  BY <1>1, <1>4 DEF late_tasks
<1>5. CASE ShellTest
  <2>1. PICK name \in ShellTests : Begin(name)
    BY <1>5 DEF ShellTest
  <2>2. name # "command"
    BY DEF ShellTests
  <2>3. boot' # 1
    BY <1>5 DEF ShellTest, Booting, BootOrder
  <2> QED BY <1>5, <2>1, <2>2, <2>3, BeginKeeps DEF ShellTest
<1> QED BY <1>2, <1>3, <1>4, <1>5

(* A test installs its handler or its global callback. *)
LEMMA InstallStep ==
  ASSUME Types, TestInv,
         \/ hpsc_test_command \/ hpsc_mbox_chan_test \/ hpsc_rti_timer_test_device
         \/ hpsc_test_link_shmem
  PROVE  TestInv'
<1> USE DEF cmdVars, hist, At
<1>0. /\ test.pc = "begin" /\ NoneMine /\ ctx.status = "unknown" /\ test.n # 0
      /\ ~lnk["clink"].msg /\ (timer.arg # 0 => timer.arg \in kept) /\ chan.arg = 0 /\ gcb = 0
  BY DEF hpsc_test_command, hpsc_mbox_chan_test, hpsc_rti_timer_test_device,
     hpsc_test_link_shmem, TestInv, OneInv, InstalledInv
<1>1. CASE /\ Return(FALSE) /\ (test.name = "command" => Booting)
           /\ UNCHANGED <<boot, q, h, foreign, ctx, timer, kept, chan, lnk, gcb>>
  BY <1>0, <1>1, EndStep, EndKeeps
<1>2. ASSUME /\ test'.name = test.name /\ test'.n = test.n /\ test'.pc = "send"
             /\ UNCHANGED <<boot, q, foreign, ctx>> /\ ~lnk'["clink"].msg
             /\ h' = h \/ ~Busy',
             InstalledInv'
      PROVE  TestInv'
  <2>1. NoneMine' /\ (Busy' => h' = h)
    BY <1>0, <1>2 DEF NoneMine, Mine, Busy
  <2>2. OneInv'
    BY <1>0, <1>2, <2>1 DEF TestInv, OneInv, NoneMine, Mine, Busy
  <2>3. FirstInv'
    BY <1>0, <1>2, <2>1 DEF TestInv, FirstInv, Mine, Busy
  <2>4. CallbackInv'
    BY <1>0, <1>2, <2>1 DEF TestInv, CallbackInv, Calls, NoneMine, Mine, Busy
  <2>5. RequestInv'
    BY <1>0, <1>2, <2>1 DEF TestInv, RequestInv, Answers, NoneMine, Mine, Busy
  <2> QED BY <1>2, <2>2, <2>3, <2>4, <2>5 DEF TestInv
<1>3. CASE hpsc_test_command
  <2>1. CASE Return(FALSE) /\ UNCHANGED <<gcb, h>>
    <3>1. Booting
      BY <1>0, <1>3 DEF hpsc_test_command, TestInv, FirstInv, Booting, BootOrder
    <3> QED BY <1>1, <1>3, <2>1, <3>1 DEF hpsc_test_command
  <2>2. CASE gcb' = test.n /\ StartTask /\ Goto("send")
    <3>1. test'.name = test.name /\ test'.n = test.n /\ test'.pc = "send" /\ ~Busy'
      BY <2>2, TestFields, HandlerFields DEF Types, Busy
    <3>2. InstalledInv'
      BY <1>0, <1>3, <2>2, <3>1 DEF hpsc_test_command, InstalledInv
    <3> QED BY <1>0, <1>2, <1>3, <3>1, <3>2 DEF hpsc_test_command
  <2> QED BY <1>3, <2>1, <2>2 DEF hpsc_test_command
<1>4. CASE hpsc_mbox_chan_test
  <2>1. CASE Return(FALSE) /\ UNCHANGED chan
    BY <1>1, <1>4, <2>1 DEF hpsc_mbox_chan_test
  <2>2. CASE chan' = [chan EXCEPT !.arg = test.n] /\ Goto("send")
    <3>1. /\ test'.name = test.name /\ test'.n = test.n /\ test'.pc = "send"
          /\ chan'.arg = test.n
      BY <2>2, TestFields, DeviceFields DEF Types
    <3>2. InstalledInv'
      BY <1>0, <1>4, <3>1 DEF hpsc_mbox_chan_test, InstalledInv
    <3> QED BY <1>0, <1>2, <1>4, <3>1, <3>2 DEF hpsc_mbox_chan_test
  <2> QED BY <1>4, <2>1, <2>2 DEF hpsc_mbox_chan_test
<1>5. CASE hpsc_rti_timer_test_device
  <2>1. CASE Return(FALSE) /\ UNCHANGED timer
    BY <1>1, <1>5, <2>1 DEF hpsc_rti_timer_test_device
  <2>2. CASE timer' = hpsc_rti_timer_start(timer, test.n) /\ Goto("send")
    <3>1. /\ test'.name = test.name /\ test'.n = test.n /\ test'.pc = "send"
          /\ timer'.arg = test.n
      BY <2>2, TestFields, DeviceFields DEF Types
    <3>2. InstalledInv'
      BY <1>0, <1>5, <3>1 DEF hpsc_rti_timer_test_device, InstalledInv
    <3> QED BY <1>0, <1>2, <1>5, <3>1, <3>2 DEF hpsc_rti_timer_test_device
  <2> QED BY <1>5, <2>1, <2>2 DEF hpsc_rti_timer_test_device
<1>6. CASE hpsc_test_link_shmem
  <2>1. CASE Return(FALSE) /\ UNCHANGED <<lnk, gcb>>
    BY <1>1, <1>6, <2>1 DEF hpsc_test_link_shmem
  <2>2. CASE lnk' = [lnk EXCEPT !["clink"] = NoLink] /\ gcb' = test.n /\ Goto("send")
    <3>1. /\ test'.name = test.name /\ test'.n = test.n /\ test'.pc = "send"
          /\ ~lnk'["clink"].msg
      BY <2>2, TestFields, LinkFields DEF Types
    <3>2. InstalledInv'
      BY <1>0, <1>6, <2>2, <3>1 DEF hpsc_test_link_shmem, InstalledInv
    <3> QED BY <1>2, <1>6, <3>1, <3>2 DEF hpsc_test_link_shmem
  <2> QED BY <1>6, <2>1, <2>2 DEF hpsc_test_link_shmem
<1> QED BY <1>3, <1>4, <1>5, <1>6

(* The other steps of the link test: the request is written, and the       *)
(* status of a command ends the wait.                                      *)
LEMMA RequestStep ==
  ASSUME Types, TestInv,
         ShmemStatus \/ (test.name = "linkshmem" /\ hpsc_test_link_ping)
  PROVE  TestInv'
<1> USE DEF cmdVars, hist, At
<1>1. CASE ShmemStatus
  <2>1. test' = [test EXCEPT !.pc = "close", !.ok = @ /\ ctx.status = "ok"]
    BY <1>1 DEF ShmemStatus
  <2>2. test'.name = test.name /\ test'.n = test.n /\ test'.pc = "close"
    BY <2>1 DEF Types, TestState
  <2>3. /\ test.name = "linkshmem" /\ test.pc = "status" /\ ctx.status # "unknown" /\ gcb' = 0
        /\ UNCHANGED <<boot, ctx, timer, kept, chan, lnk, q, h, foreign>>
    BY <1>1 DEF ShmemStatus
  <2>4. InstalledInv'
    BY <2>2, <2>3 DEF TestInv, InstalledInv
  <2>5. NoneMine' <=> NoneMine
    BY <2>2, <2>3 DEF NoneMine, Mine, Busy
  <2>6. OneInv'
    BY <2>2, <2>3, <2>5 DEF TestInv, OneInv, Mine, Busy
  <2>7. FirstInv'
    BY <2>2, <2>3 DEF TestInv, FirstInv, Busy
  <2>8. CallbackInv'
    BY <2>2, <2>3 DEF TestInv, CallbackInv, Calls, Mine
  <2>9. RequestInv'
    BY <2>2, <2>3, <2>5 DEF TestInv, RequestInv, Answers, Mine
  <2> QED BY <2>4, <2>6, <2>7, <2>8, <2>9 DEF TestInv
<1>2. CASE test.name = "linkshmem" /\ hpsc_test_link_ping
  <2>1. /\ test'.name = test.name /\ test'.n = test.n /\ test'.pc = "wait"
        /\ test.name = "linkshmem" /\ test.pc = "send"
        /\ UNCHANGED <<boot, ctx, timer, kept, chan, q, h, gcb, foreign>>
    BY <1>2, TestFields DEF hpsc_test_link_ping, Types
  <2>2. InstalledInv'
    BY <2>1 DEF TestInv, InstalledInv
  <2>3. NoneMine /\ NoneMine'
    BY <2>1 DEF TestInv, RequestInv, NoneMine, Mine, Busy
  <2>4. OneInv'
    BY <2>1, <2>3 DEF TestInv, OneInv, Mine, Busy
  <2>5. FirstInv'
    BY <2>1 DEF TestInv, FirstInv, Busy
  <2>6. CallbackInv'
    BY <2>1 DEF TestInv, CallbackInv, Calls, Mine
  <2>7. RequestInv'
    BY <2>1 DEF TestInv, RequestInv, Answers, Mine
  <2> QED BY <2>2, <2>4, <2>5, <2>6, <2>7 DEF TestInv
<1> QED BY <1>1, <1>2

-------------------------------------------------------------------------------
(* The queue after a command is submitted or taken. *)
LEMMA QueueFields ==
  ASSUME Types
  PROVE  /\ \A c \in Command : q' = Append(q, c) =>
              /\ Len(q') = Len(q) + 1
              /\ \A i \in 1..Len(q) : q'[i] = q[i]
              /\ q'[Len(q) + 1] = c
         /\ q # << >> => Len(q) > 0 /\ Head(q) = q[1]
         /\ q # << >> /\ q' = Tail(q) =>
              /\ Len(q') = Len(q) - 1
              /\ \A i \in 1..Len(q) - 1 : q'[i] = q[i + 1]
         /\ Len(q) \in Nat
         /\ \A i \in 1..Len(q) : q[i].n \in Nat
         /\ h.cmd.n \in Nat /\ test.n \in Nat
<1>1. q \in Seq(Command) /\ Len(q) \in Nat
  BY DEF Types, Queue
<1>2. \A c \in Command : q' = Append(q, c) =>
        /\ Len(q') = Len(q) + 1
        /\ \A i \in 1..Len(q) : q'[i] = q[i]
        /\ q'[Len(q) + 1] = c
  BY <1>1
<1>3. q # << >> => Len(q) > 0 /\ Head(q) = q[1]
  BY <1>1
<1>4. q # << >> /\ q' = Tail(q) =>
        /\ Len(q') = Len(q) - 1
        /\ \A i \in 1..Len(q) - 1 : q'[i] = q[i + 1]
  BY <1>1
<1>5. \A c \in Command : c.n \in Nat
  BY BoundAssumption DEF Command
<1>6. h.cmd \in Command
  BY DEF Types, Handling
<1>7. \A i \in 1..Len(q) : q[i].n \in Nat
  BY <1>1, <1>5
<1>8. test.n \in Nat
  BY BoundAssumption DEF Types, TestState
<1> QED BY <1>1, <1>2, <1>3, <1>4, <1>5, <1>6, <1>7, <1>8

(* A command joins the queue: the test's own, the one of its request, or   *)
(* one of the HPPS link.                                                   *)
LEMMA SubmitStep ==
  ASSUME Types, TestInv,
         CommandSend \/ hpsc_test_command_server \/ TakeRequest("clink") \/ HppsSends
  PROVE  TestInv'
<1> USE DEF cmdVars, hist, At
<1>1. ASSUME NEW c \in Command, Enqueue(c), c.n <= test.n,
             test'.name = test.name, test'.n = test.n,
             UNCHANGED <<boot, foreign, gcb>>, ctx'.status = ctx.status,
             timer'.arg = timer.arg, kept' = kept, chan'.arg = chan.arg,
             lnk'["clink"].msg => lnk["clink"].msg,
             \/ /\ test'.pc = test.pc /\ test'.ok = test.ok /\ ~Mine(c) /\ boot # 1
                /\ test.name # "command" \/ test.pc = "idle"
                /\ ~c.cb /\ c.link # "slink"
             \/ /\ test'.pc = test.pc /\ test'.ok = test.ok /\ NoneMine /\ Mine(c) /\ ~lnk'["clink"].msg
                /\ test.name = "linkshmem"
                /\ test.pc \in {"wait", "reply", "status", "close", "panic"}
                /\ test.pc # "panic" /\ ctx.status # "unknown" => test.n \in foreign
                /\ ~c.cb
             \/ /\ test.pc = "begin" /\ test.name = "server" /\ test'.pc = "wait"
                /\ Mine(c) /\ c.link # "slink"
             \/ /\ test.pc = "send" /\ test.name = "command" /\ test'.pc = "wait"
                /\ Mine(c) /\ c.link # "slink"
      PROVE  TestInv'
  <2>1. /\ Len(q) \in Nat /\ Len(q') = Len(q) + 1
        /\ \A i \in 1..Len(q) : q'[i] = q[i]
        /\ q'[Len(q) + 1] = c
    BY <1>1, QueueFields DEF Enqueue
  <2>2. \A i \in 1..Len(q') : i \in 1..Len(q) \/ i = Len(q) + 1
    BY <2>1
  <2>3. h'.pc = h.pc /\ h'.cmd = h.cmd
    BY <1>1, HandlerFields DEF Enqueue, Types
  <2>4. (Busy' <=> Busy) /\ (Mine(c)' <=> Mine(c))
    BY <1>1, <2>3 DEF Busy, Mine
  <2>5. Mine(c) => NoneMine
    BY <1>1 DEF TestInv, OneInv, FirstInv
  <2>6. ~Mine(c) => (NoneMine' <=> NoneMine)
    BY <1>1, <2>1, <2>2, <2>3, <2>4 DEF NoneMine, Mine
  <2>7. InstalledInv'
    BY <1>1 DEF TestInv, InstalledInv
  <2>8. OneInv'
    <3>1. (\A i \in 1..Len(q) : q[i].n <= test.n)' /\ (Busy => h.cmd.n <= test.n)'
      BY <1>1, <2>1, <2>2, <2>3, <2>4 DEF TestInv, OneInv
    <3>2. (\A i, j \in 1..Len(q) : Mine(q[i]) /\ Mine(q[j]) => i = j)'
      BY <1>1, <2>1, <2>2, <2>5 DEF TestInv, OneInv, NoneMine, Mine
    <3>3. (Busy /\ Mine(h.cmd) => \A i \in 1..Len(q) : ~Mine(q[i]))'
      BY <1>1, <2>1, <2>2, <2>3, <2>4, <2>5 DEF TestInv, OneInv, NoneMine, Mine
    <3>4. (lnk["clink"].msg => /\ test.name = "linkshmem"
                               /\ test.pc \in {"wait", "reply", "status", "close", "panic"}
                               /\ NoneMine)'
      BY <1>1, <2>6 DEF TestInv, OneInv
    <3>5. (/\ test.pc = "begin" => NoneMine /\ ctx.status = "unknown"
           /\ test.pc # "idle" => test.n # 0)'
      BY <1>1, <2>6 DEF TestInv, OneInv
    <3> QED BY <3>1, <3>2, <3>3, <3>4, <3>5 DEF OneInv
  <2>9. FirstInv'
    <3>1. CASE test.name = "command" /\ test.pc # "idle"
      BY <1>1, <2>1, <2>2, <2>3, <2>4, <3>1 DEF TestInv, FirstInv, Mine
    <3>2. CASE ~(test.name = "command" /\ test.pc # "idle")
      BY <1>1, <3>2 DEF TestInv, FirstInv
    <3> QED BY <3>1, <3>2
  <2>10. CallbackInv'
    BY <1>1, <2>1, <2>2, <2>3, <2>4, <2>5 DEF TestInv, OneInv, CallbackInv, Calls, NoneMine, Mine
  <2>11. RequestInv'
    BY <1>1, <2>1, <2>2, <2>3, <2>4, <2>5, <2>6 DEF TestInv, RequestInv, Answers, Mine
  <2> QED BY <2>7, <2>8, <2>9, <2>10, <2>11 DEF TestInv
<1>2. CASE CommandSend
  <2>1. test.n # 0
    BY <1>2 DEF CommandSend, TestInv, OneInv
  <2>2. CASE Enqueue([n |-> test.n, cb |-> TRUE, link |-> "none"]) /\ Goto("wait")
    <3>1. PICK c \in Command : /\ c = [n |-> test.n, cb |-> TRUE, link |-> "none"] /\ Enqueue(c)
      BY <2>2, Parts
    <3>2. test'.name = test.name /\ test'.n = test.n /\ test'.pc = "wait"
      BY <2>2, TestFields DEF Types
    <3> QED BY <1>1, <1>2, <2>1, <3>1, <3>2, QueueFields DEF CommandSend, Mine
  <2>3. CASE /\ test' = [test EXCEPT !.pc = "stopping", !.ok = FALSE]
             /\ h' = [h EXCEPT !.ev = @ \cup {"EXIT"}] /\ q' = q
    <3>1. Quiet
      <4>1. test'.name = test.name /\ test'.n = test.n /\ test'.pc = "stopping" /\ ~test'.ok
        BY <2>3, TestFields DEF Types
      <4>2. h'.pc = h.pc /\ h'.cmd = h.cmd
        BY <2>3, HandlerFields DEF Types
      <4>3. /\ test.name = "command" /\ test.pc = "send" /\ q' = q
            /\ UNCHANGED <<boot, ctx, timer, kept, chan, lnk, gcb, foreign>>
        BY <1>2, <2>3 DEF CommandSend
      <4> QED BY <4>1, <4>2, <4>3 DEF Quiet, TestMoves, HandlerMoves
    <3> QED BY <3>1, QuietKeeps
  <2> QED BY <1>2, <2>2, <2>3 DEF CommandSend
<1>3. CASE hpsc_test_command_server
  <2>1. test.n # 0
    BY <1>3 DEF hpsc_test_command_server, TestInv, OneInv
  <2>2. CASE Enqueue([n |-> test.n, cb |-> TRUE, link |-> "tlink"]) /\ Goto("wait")
    <3>1. PICK c \in Command : /\ c = [n |-> test.n, cb |-> TRUE, link |-> "tlink"] /\ Enqueue(c)
      BY <2>2, Parts
    <3>2. test'.name = test.name /\ test'.n = test.n /\ test'.pc = "wait"
      BY <2>2, TestFields DEF Types
    <3> QED BY <1>1, <1>3, <2>1, <3>1, <3>2, QueueFields DEF hpsc_test_command_server, Mine
  <2>3. CASE Return(FALSE) /\ UNCHANGED <<q, h>>
    BY <1>3, <2>3, EndStep, EndKeeps DEF hpsc_test_command_server
  <2> QED BY <1>3, <2>2, <2>3 DEF hpsc_test_command_server
<1>4. CASE TakeRequest("clink")
  <2>1. PICK c \in Command : /\ c = [n |-> test.n, cb |-> FALSE, link |-> "slink"] /\ Enqueue(c)
    BY <1>4, Parts DEF TakeRequest
  <2>2. /\ test.name = "linkshmem" /\ test.n # 0 /\ NoneMine /\ lnk["clink"].msg
        /\ test.pc \in {"wait", "reply", "status", "close", "panic"}
    BY <1>4 DEF TakeRequest, TestInv, OneInv
  <2>3. ~lnk'["clink"].msg
    BY <1>4 DEF TakeRequest, Types, Links, LinkEnd
  <2>4. test.pc # "panic" /\ ctx.status # "unknown" => test.n \in foreign
    BY <2>2 DEF TestInv, RequestInv
  <2>5. Mine(c) /\ ~c.cb /\ c.n <= test.n
    BY <2>1, <2>2, QueueFields DEF Mine
  <2>6. UNCHANGED <<boot, foreign, gcb, test, ctx, timer, kept, chan>>
    BY <1>4 DEF TakeRequest
  <2> QED BY <1>1, <2>1, <2>2, <2>3, <2>4, <2>5, <2>6
<1>5. CASE HppsSends
  <2>1. PICK c \in Command : /\ c = [n |-> 0, cb |-> FALSE, link |-> "hpps"] /\ Enqueue(c)
    BY <1>5, Parts DEF HppsSends
  <2>2. boot > 6
    BY <1>5 DEF HppsSends, ServerLinksUp
  <2>3. test.name # "command" \/ test.pc = "idle"
    BY <2>2 DEF TestInv, FirstInv
  <2>4. boot # 1
    BY <2>2 DEF Types
  <2> QED BY <1>1, <1>5, <2>1, <2>3, <2>4, QueueFields DEF HppsSends, Mine
<1> QED BY <1>2, <1>3, <1>4, <1>5

(* The handler task takes the oldest command. *)
LEMMA DequeueStep ==
  ASSUME Types, TestInv, cmd_dequeue PROVE TestInv'
<1> USE DEF cmdVars, hist
<1>1. /\ h.pc = "flush" /\ ~Busy
      /\ UNCHANGED <<boot, test, ctx, timer, kept, chan, lnk, gcb, foreign>>
  BY DEF cmd_dequeue, Busy
<1>2. CASE q = << >>
  <2>1. h' = [h EXCEPT !.pc = "wait"] /\ q' = q
    BY <1>2 DEF cmd_dequeue
  <2>2. h'.pc = "wait" /\ h'.cmd = h.cmd
    BY <2>1, HandlerFields DEF Types
  <2>3. Quiet
    BY <1>1, <2>1, <2>2 DEF Quiet, TestMoves, HandlerMoves, Busy
  <2> QED BY <2>3, QuietKeeps
<1>3. CASE q # << >>
  <2>1. /\ h' = [h EXCEPT !.pc = "handle", !.cmd = Head(q), !.status = "ok"] /\ q' = Tail(q)
    BY <1>3 DEF cmd_dequeue
  <2>2. h'.pc = "handle" /\ h'.cmd = q[1] /\ Busy'
    BY <1>3, <2>1, HandlerFields, QueueFields DEF Types, Busy
  <2>3. /\ Len(q) \in Nat /\ Len(q) > 0 /\ Len(q') = Len(q) - 1
        /\ \A i \in 1..Len(q) - 1 : q'[i] = q[i + 1]
    BY <1>3, <2>1, QueueFields
  <2>4. 1 \in 1..Len(q) /\ \A i \in 1..Len(q') : i + 1 \in 1..Len(q) /\ i + 1 # 1 /\ q'[i] = q[i + 1]
    BY <2>3
  <2>5. NoneMine => NoneMine'
    BY <1>1, <2>2, <2>4 DEF NoneMine, Mine
  <2>6. InstalledInv'
    BY <1>1 DEF TestInv, InstalledInv
  <2>7. OneInv'
    <3>1. (\A i \in 1..Len(q) : q[i].n <= test.n)' /\ (Busy => h.cmd.n <= test.n)'
      BY <1>1, <2>2, <2>4 DEF TestInv, OneInv
    <3>2. (\A i, j \in 1..Len(q) : Mine(q[i]) /\ Mine(q[j]) => i = j)'
      <4> SUFFICES ASSUME NEW i \in 1..Len(q'), NEW j \in 1..Len(q'), Mine(q[i])', Mine(q[j])'
                   PROVE  i = j
        OBVIOUS
      <4>1. Mine(q[i + 1]) /\ Mine(q[j + 1])
        BY <1>1, <2>4 DEF Mine
      <4>2. i + 1 = j + 1
        BY <2>4, <4>1 DEF TestInv, OneInv
      <4> QED BY <2>3, <4>2
    <3>3. (Busy /\ Mine(h.cmd) => \A i \in 1..Len(q) : ~Mine(q[i]))'
      BY <1>1, <2>2, <2>4 DEF TestInv, OneInv, Mine
    <3>4. (lnk["clink"].msg => /\ test.name = "linkshmem"
                               /\ test.pc \in {"wait", "reply", "status", "close", "panic"}
                               /\ NoneMine)'
      BY <1>1, <2>5 DEF TestInv, OneInv
    <3>5. (/\ test.pc = "begin" => NoneMine /\ ctx.status = "unknown"
           /\ test.pc # "idle" => test.n # 0)'
      BY <1>1, <2>5 DEF TestInv, OneInv
    <3> QED BY <3>1, <3>2, <3>3, <3>4, <3>5 DEF OneInv
  <2>8. FirstInv'
    <3>1. boot # 1
      BY <1>3 DEF TestInv, FirstInv
    <3>2. CASE test.name = "command" /\ test.pc # "idle"
      BY <1>1, <2>2, <2>4, <2>5, <3>1, <3>2 DEF TestInv, FirstInv, Mine
    <3>3. CASE ~(test.name = "command" /\ test.pc # "idle")
      BY <1>1, <3>1, <3>3 DEF FirstInv
    <3> QED BY <3>2, <3>3
  <2>9. CallbackInv'
    BY <1>1, <2>2, <2>4 DEF TestInv, CallbackInv, Calls, Mine
  <2>10. RequestInv'
    BY <1>1, <2>2, <2>4, <2>5 DEF TestInv, RequestInv, Answers, Mine
  <2> QED BY <2>6, <2>7, <2>8, <2>9, <2>10 DEF TestInv
<1> QED BY <1>2, <1>3

(* The handler task calls the callback of the command, ... *)
LEMMA CmdCallbackStep ==
  ASSUME Types, TestInv, handled_cmd_cb PROVE TestInv'
<1> USE DEF cmdVars, hist
<1>1. /\ h.pc = "cb" /\ Busy
      /\ UNCHANGED <<boot, test, timer, kept, chan, lnk, gcb, foreign, q>>
  BY DEF handled_cmd_cb, Busy
<1>2. h'.pc = "gcb" /\ h'.cmd = h.cmd /\ Busy'
  BY HandlerFields DEF handled_cmd_cb, Types, Busy
<1>3. ctx'.status # ctx.status => h.cmd.cb /\ test.name # "command"
  <2>1. CASE ~h.cmd.cb
    BY <2>1 DEF handled_cmd_cb
  <2>2. CASE h.cmd.cb /\ test.name = "command"
    BY <2>2, CtxFields DEF handled_cmd_cb, Types
  <2> QED BY <2>1, <2>2
<1>4. h.cmd.cb => /\ Calls(h.cmd) /\ Mine(h.cmd)
                  /\ \A i \in 1..Len(q) : ~Mine(q[i])
  BY <1>1 DEF TestInv, CallbackInv, OneInv, Calls
<1>5. ctx'.status # ctx.status => test.name = "server"
  BY <1>3, <1>4 DEF Calls
<1>6. NoneMine' <=> NoneMine
  BY <1>1, <1>2 DEF NoneMine, Mine
<1>7. ctx'.status # ctx.status => test.pc # "begin"
  BY <1>3, <1>4 DEF Calls
<1>8. InstalledInv'
  BY <1>1 DEF TestInv, InstalledInv
<1>9. OneInv'
  BY <1>1, <1>2, <1>6, <1>7 DEF TestInv, OneInv, Mine
<1>10. FirstInv'
  BY <1>1, <1>2, <1>5, <1>6 DEF TestInv, FirstInv, Mine
<1>11. CallbackInv'
  BY <1>1, <1>2, <1>3, <1>4 DEF TestInv, CallbackInv, Calls, Mine
<1>12. RequestInv'
  BY <1>1, <1>2, <1>5, <1>6 DEF TestInv, RequestInv, Answers, Mine
<1> QED BY <1>8, <1>9, <1>10, <1>11, <1>12 DEF TestInv

(* ... then the global one, which may be another test's, and is done with  *)
(* the command.                                                            *)
LEMMA GlobalCallbackStep ==
  ASSUME Types, TestInv, handled_cb PROVE TestInv'
<1> USE DEF cmdVars, hist
<1>1. /\ h.pc = "gcb" /\ Busy
      /\ UNCHANGED <<boot, test, timer, kept, chan, lnk, gcb, q>>
  BY DEF handled_cb, Busy
<1>2. h'.pc = "flush" /\ ~Busy'
  BY HandlerFields DEF handled_cb, Types, Busy
<1>3. /\ gcb = 0 => ctx' = ctx /\ foreign' = foreign
      /\ foreign \subseteq foreign'
      /\ gcb # 0 /\ h.cmd.n # gcb => gcb \in foreign'
  BY DEF handled_cb
<1>4. ctx'.status # ctx.status => /\ gcb # 0 /\ gcb = test.n
                                  /\ \/ test.name = "command"
                                     \/ test.name = "linkshmem"
                                  /\ test.pc \in {"send", "wait", "check", "stopping", "reply",
                                                  "status", "panic"}
  BY <1>3 DEF TestInv, InstalledInv
<1>5. /\ NoneMine => NoneMine'
      /\ Mine(h.cmd) => NoneMine'
  BY <1>1, <1>2 DEF TestInv, OneInv, NoneMine, Mine
<1>6. Mine(h.cmd) => ~lnk["clink"].msg /\ ~NoneMine
  BY <1>1 DEF TestInv, OneInv, NoneMine
<1>7. ctx.status # "unknown" => ctx'.status # "unknown"
  <2>1. CASE gcb = 0
    BY <1>3, <2>1
  <2>2. CASE gcb # 0
    <3>1. ctx' = [ctx EXCEPT !.status = h.status]
      BY <2>2 DEF handled_cb
    <3>2. h.status # "unknown"
      BY DEF Types, Handling
    <3> QED BY <3>1, <3>2, CtxFields DEF Types
  <2> QED BY <2>1, <2>2
<1>8. InstalledInv'
  BY <1>1 DEF TestInv, InstalledInv
<1>9. OneInv'
  BY <1>1, <1>2, <1>4, <1>5 DEF TestInv, OneInv, Mine
<1>10. FirstInv'
  <2>1. CASE test.name = "command" /\ test.pc # "idle"
    <3>1. Mine(h.cmd) /\ NoneMine' /\ test.pc \notin {"begin", "send"}
      BY <1>1, <1>5, <1>6, <2>1 DEF TestInv, FirstInv
    <3> QED BY <1>1, <1>2, <1>7, <2>1, <3>1 DEF TestInv, FirstInv, Mine
  <2>2. CASE ~(test.name = "command" /\ test.pc # "idle")
    BY <1>1, <1>2, <2>2 DEF TestInv, FirstInv
  <2> QED BY <2>1, <2>2
<1>11. CallbackInv'
  BY <1>1, <1>2, <1>4 DEF TestInv, CallbackInv, Calls, Mine
<1>12. RequestInv'
  <2>1. (\A i \in 1..Len(q) : q[i].link = "slink" => Answers(q[i]))'
    BY <1>1, <1>3 DEF TestInv, RequestInv, Answers, Mine
  <2>2. ASSUME test.name = "linkshmem", ctx'.status # ctx.status, test.n \notin foreign'
        PROVE  Mine(h.cmd) /\ test.pc # "send"
    <3>1. Mine(h.cmd)
      BY <1>3, <1>4, <2>2 DEF Mine
    <3> QED BY <1>6, <2>2, <3>1 DEF TestInv, RequestInv
  <2>3. (test.name = "linkshmem" /\ test.pc = "send" =>
           /\ NoneMine
           /\ ctx.status # "unknown" => test.n \in foreign)'
    BY <1>1, <1>3, <1>5, <2>2 DEF TestInv, RequestInv
  <2>4. (test.name = "linkshmem" /\ test.pc \in {"wait", "reply", "status", "close"}
           /\ ctx.status # "unknown" =>
           test.n \in foreign \/ (NoneMine /\ ~lnk["clink"].msg))'
    BY <1>1, <1>3, <1>5, <1>6, <2>2 DEF TestInv, RequestInv
  <2>5. (test.name = "linkshmem" /\ test.pc = "close" => ctx.status # "unknown")'
    BY <1>1, <1>7 DEF TestInv, RequestInv
  <2> QED BY <1>2, <2>1, <2>3, <2>4, <2>5 DEF RequestInv
<1> QED BY <1>8, <1>9, <1>10, <1>11, <1>12 DEF TestInv

(* Every step keeps the invariant. *)
LEMMA TestStep ==
  ASSUME Types, TestInv, [Next]_vars PROVE TestInv'
<1>1. CASE UNCHANGED vars
  <2>1. Quiet
    BY <1>1 DEF vars, cmdVars, hist, Quiet, TestMoves, HandlerMoves
  <2> QED BY <2>1, QuietKeeps
<1>2. ASSUME Test PROVE TestInv'
  <2>1. CASE hpsc_test_link_ping
    <3>1. test.name \in {"ping", "linkshmem"}
      BY <2>1 DEF hpsc_test_link_ping
    <3> QED BY <2>1, <3>1, QuietStep, QuietKeeps, RequestStep
  <2>2. CASE CommandEnd \/ LoopbackEnd \/ RtiEnd \/ ServerEnd \/ ShmemEnd
    BY <2>2, EndStep, EndKeeps
  <2>3. CASE \/ hpsc_test_command \/ hpsc_mbox_chan_test \/ hpsc_rti_timer_test_device
             \/ hpsc_test_link_shmem
    BY <2>3, InstallStep
  <2>4. CASE CommandSend \/ hpsc_test_command_server
    BY <2>4, SubmitStep
  <2>5. CASE ShmemStatus
    BY <2>5, RequestStep
  <2>6. CASE \/ CommandWait \/ CommandCheck \/ test_loopback \/ LoopbackWait \/ LoopbackCheck
             \/ do_test_advance \/ do_test_events \/ RtiWait \/ RtiCheck \/ ServerAck
             \/ PingBegin \/ PingAck \/ PingReply
    BY <2>6, QuietStep, QuietKeeps
  <2> QED BY <1>2, <2>1, <2>2, <2>3, <2>4, <2>5, <2>6 DEF Test
<1>3. ASSUME Handler PROVE TestInv'
  <2>1. CASE HandlerReceive \/ cmd_handle \/ ReplySent \/ ReplyTimedOut
    BY <2>1, QuietStep, QuietKeeps
  <2> QED BY <1>3, <2>1, DequeueStep, CmdCallbackStep, GlobalCallbackStep DEF Handler
<1>4. ASSUME Isr \/ Remote PROVE TestInv'
  <2>1. CASE cb_recv \/ cb_ack \/ handle_event \/ TrchReplies \/ HppsAcks
    BY <2>1, QuietStep, QuietKeeps
  <2>2. CASE HppsSends
    BY <2>2, SubmitStep
  <2> QED BY <1>4, <2>1, <2>2 DEF Isr, Remote
<1>5. ASSUME NEW l \in {"trch", "clink"}, Poll(l) PROVE TestInv'
  <2>1. CASE TakeRequest(l)
    <3>1. CASE l = "trch"
      BY <2>1, <3>1, QuietStep, QuietKeeps
    <3>2. CASE l = "clink"
      BY <2>1, <3>2, SubmitStep
    <3> QED BY <3>1, <3>2
  <2>2. CASE link_ack(l) \/ link_recv_reply(l)
    BY <2>2, QuietStep, QuietKeeps
  <2> QED BY <1>5, <2>1, <2>2 DEF Poll
<1> QED BY <1>1, <1>2, <1>3, <1>4, <1>5, IdleStep DEF Next

(* The tests keep to one command each, what they install is removed before *)
(* they return, and nothing that is left refers to them.                   *)
THEOREM TestsCorrect == Spec => []TestInv
<1>1. Init => TestInv
  <2> SUFFICES ASSUME Init PROVE TestInv
    OBVIOUS
  <2>1. ~lnk["clink"].msg
    BY DEF Init, NoLink
  <2>2. /\ timer.arg = 0 /\ chan.arg = 0 /\ gcb = 0 /\ q = << >> /\ h.pc = "off"
        /\ test.pc = "idle" /\ test.n = 0 /\ test.name = "none" /\ boot = 1
    BY DEF Init
  <2>3. Len(q) = 0 /\ ~Busy
    BY <2>2 DEF Busy
  <2> QED BY <2>1, <2>2, <2>3 DEF TestInv, InstalledInv, OneInv, FirstInv, CallbackInv,
             RequestInv
<1>2. Spec => []Types
  BY TypesInit, TypeStep, PTL DEF Spec
<1> QED BY <1>1, <1>2, TestStep, PTL DEF Spec

(* No interrupt handler, callback or queued command refers to the context  *)
(* or the link of a test that has returned, for any number of tests, but   *)
(* for the link of a test that was given the status of another command and *)
(* for an interrupt handler that the system would not remove.              *)
THEOREM ContextsLive == Spec => []ContextsAlive
<1>1. TestInv => ContextsAlive
  <2> SUFFICES ASSUME TestInv PROVE ContextsAlive
    OBVIOUS
  <2>1. timer.arg # 0 => Live(timer.arg) \/ timer.arg \in kept
    BY DEF TestInv, InstalledInv, Live
  <2>2. chan.arg # 0 => Live(chan.arg)
    BY DEF TestInv, InstalledInv, Live
  <2>3. gcb # 0 => Live(gcb)
    BY DEF TestInv, InstalledInv, Live
  <2>4. ASSUME NEW c \in Commands, UsesCallback(c) PROVE Live(c.n)
    BY <2>4 DEF Commands, UsesCallback, TestInv, CallbackInv, Calls, Mine, Live
  <2>5. ASSUME NEW c \in Commands, UsesLink(c) PROVE Live(c.n) \/ c.n \in foreign
    BY <2>5 DEF Commands, UsesLink, TestInv, RequestInv, Answers, Mine, Live
  <2> QED BY <2>1, <2>2, <2>3, <2>4, <2>5 DEF ContextsAlive
<1> QED BY <1>1, TestsCorrect, PTL
=================================================================================
