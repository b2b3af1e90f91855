-------------------------------- MODULE SelfTest --------------------------------
(***************************************************************************)
(* The tests that run on the target, at boot and from the shell:           *)
(* lib/hpsc-test, lib/drivers-selftest and their order in rtps-r52/init.c. *)
(*                                                                         *)
(* A test hands the address of a context on its stack to an interrupt      *)
(* handler, to the command handler task or to a link, waits on events of   *)
(* the calling task, checks the context and returns.  All tests use events *)
(* 0 and 1 of the same task, one mailbox channel, one timer, one command   *)
(* queue: what one leaves behind meets the next.  Contexts are numbered by *)
(* the test they belong to.  The command handler, the links and the        *)
(* mailbox channel are reduced to what the tests see of them (Command,     *)
(* LinkShmem and LinkMbox model them).                                     *)
(***************************************************************************)
EXTENDS Naturals, Sequences

CONSTANTS MaxTests,   \* bound: tests run
          NumEvents,  \* TEST_EVENTS_NUM
          Skew,       \* TEST_EVENTS_NUM_SKEW
          OtherCmds   \* bound: commands that come over the HPPS link

ASSUME BoundAssumption == /\ MaxTests \in Nat /\ OtherCmds \in Nat
                          /\ NumEvents \in Nat /\ Skew \in Nat /\ Skew < NumEvents

VARIABLES
  boot,     \* next step of POSIX_Init; past the last one the shell runs tests
  test,     \* the test that runs: its name, its number n, its step and result
  ctx,      \* its context
  pend,     \* events pending for the calling task
  timer,    \* RTI timer: context of the handler installed (0: none), interval
  chan,     \* loopback channel: context of its callbacks (0: none), events set
  lnk,      \* the client's end of the link to TRCH and of the test's own link
  q, h,     \* command queue; the handler task: its step, command, status, events
  gcb,      \* argument of the global "handled" callback (0: not registered)
  others,   \* commands that came over the HPPS link
  cause,    \* history: the first thing that may make the test fail
  foreign,  \* history: tests given the status of a command not theirs
  kept      \* history: tests whose interrupt handler could not be removed

cmdVars == <<q, h, gcb, others>>
hist == <<cause, foreign, kept>>
vars == <<boot, test, ctx, pend, timer, chan, lnk, cmdVars, hist>>

BootOrder == <<"command", "loopback", "rti", "early_tasks", "server", "linkshmem",
               "ping", "shell">>
ShellTests == {"loopback", "rti", "server", "linkshmem", "ping"}
Booting == boot <= Len(BootOrder)
ServerLinksUp == boot > 6                  \* init_server_links has run

FreshCtx == [rx |-> "none", ack |-> "none", handled |-> FALSE, status |-> "unknown",
             written |-> FALSE, events |-> 0]
NoLink == [tid |-> FALSE, acked |-> FALSE, msg |-> FALSE, ack |-> FALSE,
           owed |-> FALSE, reply |-> FALSE]
NoCmd == [n |-> 0, cb |-> FALSE, link |-> "none"]

(* A command: the test it is of (0: none), whether it has a callback of    *)
(* its own, and its link.                                                  *)
Command == [n : 0..MaxTests, cb : BOOLEAN, link : {"none", "tlink", "slink", "hpps"}]

(* The context and the links of test n still exist. *)
Live(n) == n = test.n /\ test.pc # "idle"

(* The link the running test sends its ping over. *)
L == IF test.name = "ping" THEN "trch" ELSE "clink"

MaxEvents == NumEvents + Skew + 1  \* bound: one event more than the test allows

(* A wait of the task that has timed out, a resource that was refused, a   *)
(* reply polled before the ACK of its request, a task that runs more than  *)
(* Skew intervals after its event, the status of another test's command.   *)
Causes == {"timeout", "refused", "early", "late", "foreign"}

(* Nothing is left of the tests before. *)
Resting(k) == ~k.tid /\ ~k.msg /\ ~k.ack
NothingLeft == pend = {} /\ chan.set = {} /\ \A l \in DOMAIN lnk : Resting(lnk[l])

TypeOK ==
  /\ boot \in 1..Len(BootOrder)+1
  /\ test \in [name : ShellTests \cup {"command", "none"}, n : 0..MaxTests, ok : BOOLEAN,
               pc : {"idle", "begin", "send", "count", "wait", "check", "stop", "stopping", "reply",
                     "status", "close", "panic"}]
  /\ ctx \in [rx : {"none", "ok", "multiple"}, ack : {"none", "ok", "multiple"},
              handled : BOOLEAN, status : {"unknown", "ok", "failed"}, written : BOOLEAN,
              events : 0..MaxEvents]
  /\ pend \subseteq {0, 1}
  /\ timer \in [arg : 0..MaxTests, interval : {"test", "max"}]
  /\ chan \in [arg : 0..MaxTests, set : SUBSET {"rcv", "ack"}]
  /\ lnk \in [{"trch", "clink"} -> [tid : BOOLEAN, acked : BOOLEAN, msg : BOOLEAN,
                                    ack : BOOLEAN, owed : BOOLEAN, reply : BOOLEAN]]
  /\ q \in Seq(Command)
  /\ h \in [pc : {"off", "flush", "wait", "handle", "reply", "acked", "cb", "gcb"},
            cmd : Command, status : {"ok", "failed"}, ev : SUBSET {"NEW", "EXIT"}]
  /\ gcb \in 0..MaxTests /\ others \in 0..OtherCmds
  /\ cause \in Causes \cup {"none"} /\ foreign \subseteq 1..MaxTests /\ kept \subseteq 0..MaxTests

Init ==
  /\ boot = 1
  /\ test = [name |-> "none", n |-> 0, pc |-> "idle", ok |-> TRUE]
  /\ ctx = FreshCtx
  /\ pend = {}
  /\ timer = [arg |-> 0, interval |-> "max"]
  /\ chan = [arg |-> 0, set |-> {}]
  /\ lnk = [l \in {"trch", "clink"} |-> NoLink]
  /\ q = << >> /\ gcb = 0 /\ others = 0
  /\ h = [pc |-> "off", cmd |-> NoCmd, status |-> "ok", ev |-> {}]
  /\ cause = "none" /\ foreign = {} /\ kept = {}

-------------------------------------------------------------------------------
(* The order of the tests. *)

Goto(l) == test' = [test EXCEPT !.pc = l]

Blame(c) == cause' = IF cause = "none" THEN c ELSE cause

(* A test that fails at boot is a panic. *)
Return(ok) == test' = [test EXCEPT !.ok = ok, !.pc = IF Booting /\ ~ok THEN "panic" ELSE "idle"]

(* A test that begins with nothing left behind has a clean slate. *)
Begin(name) ==
  /\ test.n < MaxTests
  /\ test' = [name |-> name, n |-> test.n + 1, pc |-> "begin", ok |-> TRUE]
  /\ ctx' = FreshCtx
  /\ cause' = IF NothingLeft THEN "none" ELSE cause

(* POSIX_Init: each test that is configured, and the handler task between. *)
BootTest ==
  /\ test.pc = "idle" /\ Booting
  /\ BootOrder[boot] \notin {"early_tasks", "shell"}
  /\ boot' = boot + 1
  /\ \/ Begin(BootOrder[boot])
     \/ UNCHANGED <<test, ctx, cause>>
  /\ UNCHANGED <<pend, timer, chan, lnk, cmdVars, foreign, kept>>

StartTask == h' = [pc |-> "flush", cmd |-> NoCmd, status |-> "ok", ev |-> {}]

early_tasks ==
  /\ test.pc = "idle" /\ Booting /\ BootOrder[boot] = "early_tasks"
  /\ StartTask
  /\ boot' = boot + 1
  /\ UNCHANGED <<test, ctx, pend, timer, chan, lnk, q, gcb, others, hist>>

(* The shell is a task of its own, with no event pending. *)
late_tasks ==
  /\ test.pc = "idle" /\ Booting /\ BootOrder[boot] = "shell"
  /\ boot' = boot + 1
  /\ pend' = {}
  /\ UNCHANGED <<test, ctx, timer, chan, lnk, cmdVars, hist>>

ShellTest ==
  /\ test.pc = "idle" /\ ~Booting
  /\ \E name \in ShellTests : Begin(name)
  /\ UNCHANGED <<boot, pend, timer, chan, lnk, cmdVars, foreign, kept>>

-------------------------------------------------------------------------------
(* Steps of the tests. *)

At(name, l) == test.name = name /\ test.pc = l

Enqueue(c) == q' = Append(q, c) /\ h' = [h EXCEPT !.ev = @ \cup {"NEW"}]

(* rtems_event_receive (external): the events are taken if all have come,  *)
(* and stay as they are on a timeout.                                      *)
Receive(evs, l) ==
  /\ \/ evs \subseteq pend /\ pend' = pend \ evs /\ UNCHANGED cause
     \/ ~(evs \subseteq pend) /\ Blame("timeout") /\ UNCHANGED pend
  /\ Goto(l)

(* hpsc_test_command: register, start the handler task, ... *)
hpsc_test_command ==
  /\ At("command", "begin")
  /\ \/ gcb' = test.n /\ StartTask /\ Goto("send") /\ UNCHANGED cause
     \/ Blame("refused") /\ Return(FALSE) /\ UNCHANGED <<gcb, h>>
  /\ UNCHANGED <<boot, ctx, pend, timer, chan, lnk, q, others, foreign, kept>>

(* ... submit a command without a link, or stop the task if the queue is   *)
(* full, ...                                                               *)
CommandSend ==
  /\ At("command", "send")
  /\ \/ /\ Enqueue([n |-> test.n, cb |-> TRUE, link |-> "none"])
        /\ Goto("wait")
        /\ UNCHANGED cause
     \/ /\ Blame("refused")
        /\ test' = [test EXCEPT !.pc = "stopping", !.ok = FALSE]
        /\ h' = [h EXCEPT !.ev = @ \cup {"EXIT"}]
        /\ UNCHANGED q
  /\ UNCHANGED <<boot, ctx, pend, timer, chan, lnk, gcb, others, foreign, kept>>

(* ... wait for both callbacks, ... *)
CommandWait ==
  /\ At("command", "wait")
  /\ Receive({0, 1}, "check")
  /\ UNCHANGED <<boot, ctx, timer, chan, lnk, cmdVars, foreign, kept>>

(* ... check, and stop the task, ... *)
CommandCheck ==
  /\ At("command", "check")
  /\ test' = [test EXCEPT !.pc = "stopping", !.ok = ctx.status = "ok" /\ ctx.handled]
  /\ h' = [h EXCEPT !.ev = @ \cup {"EXIT"}]
  /\ UNCHANGED <<boot, ctx, pend, timer, chan, lnk, q, gcb, others, hist>>

(* ... which is awaited before the callback is unregistered. *)
CommandEnd ==
  /\ At("command", "stopping")
  /\ h.pc = "off"
  /\ gcb' = 0
  /\ Return(test.ok)
  /\ UNCHANGED <<boot, ctx, pend, timer, chan, lnk, q, h, others, hist>>

(* hpsc_mbox_chan_test: claim the channel, not as its owner, ... *)
hpsc_mbox_chan_test ==
  /\ At("loopback", "begin")
  /\ \/ chan' = [chan EXCEPT !.arg = test.n] /\ Goto("send") /\ UNCHANGED cause
     \/ Blame("refused") /\ Return(FALSE) /\ UNCHANGED chan
  /\ UNCHANGED <<boot, ctx, pend, timer, lnk, cmdVars, foreign, kept>>

(* ... send a message to ourselves, ... *)
test_loopback ==
  /\ At("loopback", "send")
  /\ chan' = [chan EXCEPT !.set = @ \cup {"rcv"}]
  /\ Goto("wait")
  /\ UNCHANGED <<boot, ctx, pend, timer, lnk, cmdVars, hist>>

LoopbackWait ==
  /\ At("loopback", "wait")
  /\ Receive({0, 1}, "check")
  /\ UNCHANGED <<boot, ctx, timer, chan, lnk, cmdVars, foreign, kept>>

LoopbackCheck ==
  /\ At("loopback", "check")
  /\ test' = [test EXCEPT !.pc = "stop", !.ok = ctx.rx = "ok" /\ ctx.ack = "ok"]
  /\ UNCHANGED <<boot, ctx, pend, timer, chan, lnk, cmdVars, hist>>

(* ... and release the channel, whose events stay as they are. *)
LoopbackEnd ==
  /\ At("loopback", "stop")
  /\ chan' = [chan EXCEPT !.arg = 0]
  /\ Return(test.ok)
  /\ UNCHANGED <<boot, ctx, pend, timer, lnk, cmdVars, hist>>

(* The driver: is_started holds exactly when a handler is installed. *)
hpsc_rti_timer_start(tmr, n) == [tmr EXCEPT !.arg = n]
hpsc_rti_timer_stop(tmr) == [tmr EXCEPT !.arg = 0]
hpsc_rti_timer_configure(tmr, interval) == [tmr EXCEPT !.interval = interval]

(* hpsc_rti_timer_test_device on one processor: install the handler, which *)
(* is unique, ...                                                          *)
hpsc_rti_timer_test_device ==
  /\ At("rti", "begin")
  /\ \/ /\ timer.arg = 0
        /\ timer' = hpsc_rti_timer_start(timer, test.n)
        /\ Goto("send")
        /\ UNCHANGED cause
     \/ Blame("refused") /\ Return(FALSE) /\ UNCHANGED timer
  /\ UNCHANGED <<boot, ctx, pend, chan, lnk, cmdVars, foreign, kept>>

(* ... see that the counter advances, ... *)
do_test_advance ==
  /\ At("rti", "send")
  /\ \/ Goto("count") /\ UNCHANGED cause
     \/ Blame("timeout") /\ test' = [test EXCEPT !.pc = "stop", !.ok = FALSE]
  /\ UNCHANGED <<boot, ctx, pend, timer, chan, lnk, cmdVars, foreign, kept>>

(* ... count events for the time of NumEvents intervals and a half, ... *)
do_test_events ==
  /\ At("rti", "count")
  /\ ctx' = [ctx EXCEPT !.events = 0]
  /\ timer' = hpsc_rti_timer_configure(timer, "test")
  /\ Goto("wait")
  /\ UNCHANGED <<boot, pend, chan, lnk, cmdVars, hist>>

RtiWait ==
  /\ At("rti", "wait")
  /\ Receive({0}, "check")
  /\ UNCHANGED <<boot, ctx, timer, chan, lnk, cmdVars, foreign, kept>>

RtiCheck ==
  /\ At("rti", "check")
  /\ test' = [test EXCEPT !.pc = "stop",
                          !.ok = ctx.events \in NumEvents - Skew..NumEvents + Skew]
  /\ UNCHANGED <<boot, ctx, pend, timer, chan, lnk, cmdVars, hist>>

(* Fault: the timer is stopped only after a success. *)
StopOnSuccess ==
  /\ At("rti", "stop")
  /\ timer' = [arg |-> IF test.ok THEN 0 ELSE timer.arg, interval |-> "max"]
  /\ Return(test.ok)
  /\ UNCHANGED <<boot, ctx, pend, chan, lnk, cmdVars, hist>>

(* ... set the interval back and remove the handler, which may fail. *)
RtiEnd ==
  /\ At("rti", "stop")
  /\ \/ /\ timer' = hpsc_rti_timer_stop(hpsc_rti_timer_configure(timer, "max"))
        /\ Return(test.ok)
        /\ UNCHANGED <<cause, kept>>
     \/ /\ timer' = hpsc_rti_timer_configure(timer, "max")
        /\ Return(FALSE)
        /\ Blame("refused")
        /\ kept' = kept \cup {test.n}
  /\ UNCHANGED <<boot, ctx, pend, chan, lnk, cmdVars, foreign>>

(* hpsc_test_command_server: a PING with a dummy link, ... *)
hpsc_test_command_server ==
  /\ At("server", "begin")
  /\ \/ /\ Enqueue([n |-> test.n, cb |-> TRUE, link |-> "tlink"])
        /\ Goto("wait")
        /\ UNCHANGED cause
     \/ Blame("refused") /\ Return(FALSE) /\ UNCHANGED <<q, h>>
  /\ UNCHANGED <<boot, ctx, pend, timer, chan, lnk, gcb, others, foreign, kept>>

(* ... the reply, which is acknowledged, ... *)
ServerAck ==
  /\ At("server", "wait")
  /\ ctx.written
  /\ h' = IF h.pc = "reply" /\ h.cmd.link = "tlink" THEN [h EXCEPT !.pc = "acked"] ELSE h
  /\ Goto("status")
  /\ UNCHANGED <<boot, ctx, pend, timer, chan, lnk, q, gcb, others, hist>>

(* ... and the end of the handler's work on it. *)
ServerEnd ==
  /\ At("server", "status")
  /\ ctx.status # "unknown"
  /\ Return(ctx.status = "ok")
  /\ UNCHANGED <<boot, ctx, pend, timer, chan, lnk, cmdVars, hist>>

(* hpsc_test_link_shmem: two links back to back, or their failure, and the *)
(* global callback; then a ping.                                           *)
hpsc_test_link_shmem ==
  /\ At("linkshmem", "begin")
  /\ \/ /\ lnk' = [lnk EXCEPT !["clink"] = NoLink]
        /\ gcb' = test.n
        /\ Goto("send")
        /\ UNCHANGED cause
     \/ Blame("refused") /\ Return(FALSE) /\ UNCHANGED <<lnk, gcb>>
  /\ UNCHANGED <<boot, ctx, pend, timer, chan, q, h, others, foreign, kept>>

PingBegin ==
  /\ At("ping", "begin")
  /\ Goto("send")
  /\ UNCHANGED <<boot, ctx, pend, timer, chan, lnk, cmdVars, hist>>

(* hpsc_test_link_ping: a request on event 0, ... *)
hpsc_test_link_ping ==
  /\ test.name \in {"ping", "linkshmem"} /\ test.pc = "send"
  /\ lnk' = [lnk EXCEPT ![L].tid = TRUE, ![L].acked = FALSE, ![L].msg = TRUE]
  /\ Goto("wait")
  /\ UNCHANGED <<boot, ctx, pend, timer, chan, cmdVars, hist>>

PingDone(ok) ==
  IF test.name = "ping" THEN Return(ok) ELSE test' = [test EXCEPT !.pc = "status", !.ok = ok]

(* ... its ACK, with assert(tx_acked), ... *)
PingAck ==
  /\ test.name \in {"ping", "linkshmem"} /\ test.pc = "wait"
  /\ \/ /\ 0 \in pend
        /\ pend' = pend \ {0}
        /\ IF lnk[L].acked THEN Goto("reply") ELSE test' = [test EXCEPT !.pc = "panic", !.ok = FALSE]
        /\ UNCHANGED cause
     \/ /\ 0 \notin pend
        /\ Blame("timeout")
        /\ PingDone(FALSE)
        /\ UNCHANGED pend
  /\ UNCHANGED <<boot, ctx, timer, chan, lnk, cmdVars, foreign, kept>>

(* ... and its reply. *)
PingReply ==
  /\ test.name \in {"ping", "linkshmem"} /\ test.pc = "reply"
  /\ lnk' = [lnk EXCEPT ![L].tid = FALSE]
  /\ \/ 0 \in pend /\ pend' = pend \ {0} /\ PingDone(TRUE) /\ UNCHANGED cause
     \/ 0 \notin pend /\ Blame("timeout") /\ PingDone(FALSE) /\ UNCHANGED pend
  /\ UNCHANGED <<boot, ctx, timer, chan, cmdVars, foreign, kept>>

(* "wait for command handler to finish, o/w we prematurely destroy the     *)
(* link": the status of a command has been reported.                       *)
ShmemStatus ==
  /\ At("linkshmem", "status")
  /\ ctx.status # "unknown"
  /\ gcb' = 0
  /\ test' = [test EXCEPT !.pc = "close", !.ok = @ /\ ctx.status = "ok"]
  /\ UNCHANGED <<boot, ctx, pend, timer, chan, lnk, q, h, others, hist>>

(* Both links are disconnected. *)
ShmemEnd ==
  /\ At("linkshmem", "close")
  /\ lnk' = [lnk EXCEPT !["clink"] = NoLink]
  /\ Return(test.ok)
  /\ UNCHANGED <<boot, ctx, pend, timer, chan, cmdVars, hist>>

Test ==
  \/ hpsc_test_command \/ CommandSend \/ CommandWait \/ CommandCheck \/ CommandEnd
  \/ hpsc_mbox_chan_test \/ test_loopback \/ LoopbackWait \/ LoopbackCheck \/ LoopbackEnd
  \/ hpsc_rti_timer_test_device \/ do_test_advance \/ do_test_events \/ RtiWait \/ RtiCheck
  \/ RtiEnd
  \/ hpsc_test_command_server \/ ServerAck \/ ServerEnd
  \/ hpsc_test_link_shmem \/ PingBegin \/ hpsc_test_link_ping \/ PingAck \/ PingReply
  \/ ShmemStatus \/ ShmemEnd

-------------------------------------------------------------------------------
(* Interrupt handlers, with the context they were given. *)

(* cb_recv: a second message is not taken, and its event not cleared. *)
cb_recv ==
  /\ chan.arg # 0 /\ "rcv" \in chan.set
  /\ IF ctx.rx = "none"
     THEN /\ chan' = [chan EXCEPT !.set = (@ \ {"rcv"}) \cup {"ack"}]
          /\ ctx' = [ctx EXCEPT !.rx = "ok"]
     ELSE ctx' = [ctx EXCEPT !.rx = "multiple"] /\ UNCHANGED chan
  /\ pend' = pend \cup {0}
  /\ UNCHANGED <<boot, test, timer, lnk, cmdVars, hist>>

cb_ack ==
  /\ chan.arg # 0 /\ "ack" \in chan.set
  /\ chan' = [chan EXCEPT !.set = @ \ {"ack"}]
  /\ ctx' = [ctx EXCEPT !.ack = IF @ = "none" THEN "ok" ELSE "multiple"]
  /\ pend' = pend \cup {1}
  /\ UNCHANGED <<boot, test, timer, lnk, cmdVars, hist>>

(* An event is counted as k; only a task that is late sees more of them   *)
(* than the test allows.                                                   *)
Count(k) ==
  /\ timer.arg # 0 /\ timer.interval = "test" /\ ctx.events < MaxEvents
  /\ ctx' = [ctx EXCEPT !.events = @ + k]
  /\ IF ctx.events >= NumEvents + Skew THEN Blame("late") ELSE UNCHANGED cause
  /\ UNCHANGED <<boot, test, timer, chan, lnk, cmdVars, foreign, kept>>

(* Fault: every event from the last one on is announced. *)
HandleEventGe ==
  /\ Count(1)
  /\ pend' = IF ctx.events + 1 >= NumEvents THEN pend \cup {0} ELSE pend

(* Fault: an event is counted twice. *)
HandleEventTwice ==
  /\ Count(2)
  /\ pend' = IF ctx.events + 2 = NumEvents THEN pend \cup {0} ELSE pend

(* handle_event: the task is told of the last event expected only. *)
handle_event ==
  /\ Count(1)
  /\ pend' = IF ctx.events + 1 = NumEvents THEN pend \cup {0} ELSE pend

-------------------------------------------------------------------------------
(* The command handler task (Command) with server_process: a PING over a   *)
(* link is replied to, the command of the first test has no link.          *)

cmd_dequeue ==
  /\ h.pc = "flush"
  /\ IF q = << >> THEN h' = [h EXCEPT !.pc = "wait"] /\ UNCHANGED q
     ELSE h' = [h EXCEPT !.pc = "handle", !.cmd = Head(q), !.status = "ok"] /\ q' = Tail(q)
  /\ UNCHANGED <<boot, test, ctx, pend, timer, chan, lnk, gcb, others, hist>>

(* Commands that are queued when the task exits stay in the queue. *)
HandlerReceive ==
  /\ h.pc = "wait" /\ h.ev # {}
  /\ h' = [h EXCEPT !.ev = {}, !.pc = IF "EXIT" \in h.ev THEN "off" ELSE "flush"]
  /\ UNCHANGED <<boot, test, ctx, pend, timer, chan, lnk, q, gcb, others, hist>>

cmd_handle ==
  /\ h.pc = "handle"
  /\ h' = [h EXCEPT !.pc = IF h.cmd.link = "none" THEN "cb" ELSE "reply"]
  /\ ctx' = IF h.cmd.link = "tlink" THEN [ctx EXCEPT !.written = TRUE] ELSE ctx
  /\ lnk' = IF h.cmd.link = "slink" /\ Live(h.cmd.n) THEN [lnk EXCEPT !["clink"].reply = TRUE] ELSE lnk
  /\ UNCHANGED <<boot, test, pend, timer, chan, q, gcb, others, hist>>

(* link_request_send has got its ACK, or has timed out. *)
ReplySent ==
  /\ h.pc = "acked"
  /\ h' = [h EXCEPT !.pc = "cb"]
  /\ UNCHANGED <<boot, test, ctx, pend, timer, chan, lnk, q, gcb, others, hist>>

ReplyTimedOut ==
  /\ h.pc = "reply"
  /\ h' = [h EXCEPT !.pc = "cb", !.status = "failed"]
  /\ IF h.cmd.n = test.n THEN Blame("timeout") ELSE UNCHANGED cause
  /\ UNCHANGED <<boot, test, ctx, pend, timer, chan, lnk, q, gcb, others, foreign, kept>>

(* Fault: the callback is for successes only. *)
CallbackOnSuccess ==
  /\ h.pc = "cb"
  /\ h' = [h EXCEPT !.pc = "gcb"]
  /\ IF ~h.cmd.cb \/ h.status # "ok" THEN UNCHANGED <<ctx, pend>>
     ELSE IF test.name = "command"
          THEN ctx' = [ctx EXCEPT !.handled = TRUE] /\ pend' = pend \cup {0}
          ELSE ctx' = [ctx EXCEPT !.status = h.status] /\ UNCHANGED pend
  /\ UNCHANGED <<boot, test, timer, chan, lnk, q, gcb, others, hist>>

(* The command's own callback: handled_cmd_cb in command.c, handled_cb in  *)
(* command-server.c.                                                       *)
handled_cmd_cb ==
  /\ h.pc = "cb"
  /\ h' = [h EXCEPT !.pc = "gcb"]
  /\ IF ~h.cmd.cb THEN UNCHANGED <<ctx, pend>>
     ELSE IF test.name = "command"
          THEN ctx' = [ctx EXCEPT !.handled = TRUE] /\ pend' = pend \cup {0}
          ELSE ctx' = [ctx EXCEPT !.status = h.status] /\ UNCHANGED pend
  /\ UNCHANGED <<boot, test, timer, chan, lnk, q, gcb, others, hist>>

(* The global one: handled_cb in command.c and in link-shmem.c. *)
handled_cb ==
  /\ h.pc = "gcb"
  /\ h' = [h EXCEPT !.pc = "flush", !.cmd = NoCmd]
  /\ IF gcb = 0 THEN UNCHANGED <<ctx, pend, foreign, cause>>
     ELSE /\ ctx' = [ctx EXCEPT !.status = h.status]
          /\ pend' = IF test.name = "command" THEN pend \cup {1} ELSE pend
          /\ foreign' = IF h.cmd.n = gcb THEN foreign ELSE foreign \cup {gcb}
          /\ IF h.cmd.n = gcb THEN UNCHANGED cause ELSE Blame("foreign")
  /\ UNCHANGED <<boot, test, timer, chan, lnk, q, gcb, others, kept>>

Handler == cmd_dequeue \/ HandlerReceive \/ cmd_handle \/ ReplySent \/ ReplyTimedOut
           \/ handled_cmd_cb \/ handled_cb

-------------------------------------------------------------------------------
(* The other ends of the links: TRCH and HPPS (external), and the polling  *)
(* tasks of the test's own pair of links.                                  *)

TakeRequest(l) ==
  /\ lnk[l].msg
  /\ lnk' = [lnk EXCEPT ![l].msg = FALSE, ![l].ack = TRUE, ![l].owed = l = "trch"]
  /\ IF l = "clink" THEN Enqueue([n |-> test.n, cb |-> FALSE, link |-> "slink"])
                    ELSE UNCHANGED <<q, h>>
  /\ UNCHANGED <<boot, test, ctx, pend, timer, chan, gcb, others, hist>>

TrchReplies ==
  /\ lnk["trch"].owed
  /\ lnk' = [lnk EXCEPT !["trch"].owed = FALSE, !["trch"].reply = TRUE]
  /\ UNCHANGED <<boot, test, ctx, pend, timer, chan, cmdVars, hist>>

(* link_ack and link_recv_reply: whoever is the requester is sent the      *)
(* event.                                                                  *)
link_ack(l) ==
  /\ lnk[l].ack
  /\ lnk' = [lnk EXCEPT ![l].ack = FALSE, ![l].acked = TRUE]
  /\ pend' = IF lnk[l].tid THEN pend \cup {0} ELSE pend
  /\ UNCHANGED <<boot, test, ctx, timer, chan, cmdVars, hist>>

link_recv_reply(l) ==
  /\ lnk[l].reply
  /\ lnk' = [lnk EXCEPT ![l].reply = FALSE]
  /\ IF lnk[l].tid /\ ~lnk[l].acked THEN Blame("early") ELSE UNCHANGED cause
  /\ pend' = IF lnk[l].tid THEN pend \cup {0} ELSE pend
  /\ h' = IF h.pc = "reply" /\ h.cmd.link = "slink" THEN [h EXCEPT !.pc = "acked"] ELSE h
  /\ UNCHANGED <<boot, test, ctx, timer, chan, q, gcb, others, foreign, kept>>

HppsSends ==
  /\ ServerLinksUp /\ others < OtherCmds
  /\ others' = others + 1
  /\ Enqueue([n |-> 0, cb |-> FALSE, link |-> "hpps"])
  /\ UNCHANGED <<boot, test, ctx, pend, timer, chan, lnk, gcb, hist>>

HppsAcks ==
  /\ h.pc = "reply" /\ h.cmd.link = "hpps"
  /\ h' = [h EXCEPT !.pc = "acked"]
  /\ UNCHANGED <<boot, test, ctx, pend, timer, chan, lnk, q, gcb, others, hist>>

Isr == cb_recv \/ cb_ack \/ handle_event
Poll(l) == TakeRequest(l) \/ link_ack(l) \/ link_recv_reply(l)
Remote == TrchReplies \/ HppsSends \/ HppsAcks

Panicked == test.pc = "panic"
Stopped == test.pc = "idle" /\ ~Booting /\ test.n = MaxTests

Next ==
  \/ ~Panicked /\ \/ BootTest \/ early_tasks \/ late_tasks \/ ShellTest
                  \/ Test \/ Isr \/ Handler \/ Remote
                  \/ \E l \in {"trch", "clink"} : Poll(l)
  \/ (Panicked \/ Stopped) /\ UNCHANGED vars

Spec == Init /\ [][Next]_vars

(* The test task, the handler task and the polling tasks run; every wait   *)
(* of theirs has a timeout.  Remotes and interrupts may fail to come.      *)
Fairness == WF_vars(~Panicked /\ Test) /\ WF_vars(~Panicked /\ Handler)
            /\ WF_vars(~Panicked /\ Poll("clink"))

FairSpec == Spec /\ Fairness

-------------------------------------------------------------------------------
(* Properties. *)

(* Commands the handler task has or will take. *)
Commands == {q[i] : i \in 1..Len(q)} \cup
            (IF h.pc \in {"handle", "reply", "acked", "cb", "gcb"} THEN {h.cmd} ELSE {})

UsesCallback(c) == c.cb /\ ~(c = h.cmd /\ h.pc = "gcb")
UsesLink(c) == c.link = "slink" /\ ~(c = h.cmd /\ h.pc \in {"cb", "gcb"})

(* No interrupt handler, callback or queued command refers to the stack    *)
(* context, or to the link, of a test that has returned: hpsc_rti_timer_-  *)
(* stop, hpsc_mbox_chan_release, cmd_handle_task_destroy and the two loops *)
(* that wait for a status come before every return, on every path.  There  *)
(* are two exceptions.  One is an interrupt handler that the system will   *)
(* not remove (hpsc-rti-timer-test.c:112), whose argument stays.  The      *)
(* other is the link of link-shmem.c:33: the global callback is given the  *)
(* status of every command, so that one of another link, or the last one   *)
(* of the test before, ends the wait for the test's own, and the link is   *)
(* freed under the handler task.                                           *)
ContextsAlive ==
  /\ timer.arg # 0 => Live(timer.arg) \/ timer.arg \in kept
  /\ chan.arg # 0 => Live(chan.arg)
  /\ gcb # 0 => Live(gcb)
  /\ \A c \in Commands : UsesCallback(c) => Live(c.n)
  /\ \A c \in Commands : UsesLink(c) => Live(c.n) \/ c.n \in foreign

(* A test fails, or leaves an event, a message or a requester behind, only *)
(* for a cause of its own: a wait of it has timed out, a resource was      *)
(* refused, the reply was polled before the ACK (the assertion of          *)
(* link.c:27), it ran too late to stop the timer in time, or the status it *)
(* took was another command's.  What went wrong in an earlier test does    *)
(* not matter unless something of it is still pending when the next one    *)
(* begins: no count, context, callback or interval of a failed test        *)
(* survives it.  So "assumes calling task isn't using this event"          *)
(* (link-external.c:12) holds although all tests share the event, and      *)
(* handle_event and cb_recv announce exactly what is waited for, whatever  *)
(* the order of callbacks, interrupts and tests.                           *)
FailsForCause ==
  cause = "none" =>
    /\ test.ok
    /\ test.pc = "idle" => NothingLeft

(* Every test comes to its end, or to a panic, even if remotes and         *)
(* interrupts fail: the loops without a timeout in command-server.c and    *)
(* link-shmem.c end because the handler task reports every command.        *)
TestsEnd == test.pc # "idle" ~> test.pc \in {"idle", "panic"}
=================================================================================
