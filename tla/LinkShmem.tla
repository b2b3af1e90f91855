------------------------------- MODULE LinkShmem -------------------------------
(***************************************************************************)
(* A client and a server connected by a shared-memory link: lib/hpsc       *)
(* link.c, link-shmem.c, shmem.c and shmem-poll.c, both ends running this  *)
(* code as in lib/hpsc-test/link-shmem.c.                                  *)
(*                                                                         *)
(* Each direction is a region with a message and a status word.  The       *)
(* writer sets NEW; the reader's polling task reads the message, clears    *)
(* NEW and sets ACK; the writer's other polling task sees ACK, wakes the   *)
(* requester and clears ACK.  Setting or clearing a bit is a load and a    *)
(* store, two steps.  A request is identified by its number and the reply  *)
(* to request n carries n; the commands a server has received are a        *)
(* sequence here (module Command has the ring).  late is a history         *)
(* variable: how many waits of each end have timed out.                    *)
(***************************************************************************)
EXTENDS Naturals, Sequences, FiniteSets

CONSTANTS MaxRequests,  \* requests the client makes
          MaxTrials,    \* bound: requests and waits that time out, together
          CMDQ_LEN,     \* commands the server's queue takes
          PollFirst     \* polling tasks have priority over requesters of
                        \* their end (rtps-r52: 10 before 20 and 100)

ASSUME RequestAssumption == MaxRequests \in Nat /\ MaxTrials \in Nat /\ CMDQ_LEN \in Nat
ASSUME PriorityAssumption == PollFirst \in BOOLEAN

VARIABLES
  data, status,   \* the two regions: message and status bits
  rctx,           \* struct link_request_ctx of each end
  event,          \* event_wait is pending for the requester of each end
  wait,           \* its rtems_event_receive: not called yet, blocked, ended
                  \* by the event or by the timeout
  rpc, rreg,      \* where each requester is; the status word it has loaded
  late,           \* waits of each end that have timed out
  ppc, preg,      \* where each polling task is; the status word it has loaded
  pmsg,           \* the message a polling task has read
  exit,           \* polling tasks with SHM_EVENT_EXIT pending
  req, res, buf,  \* requests made, their results and reply buffers
  sq, scur,       \* commands received by the server; the one it answers
  link,           \* how far connect and close have got at each end
  down            \* how far the server's shutdown has got

reqVars  == <<rctx, event, wait, rpc, rreg, late>>
pollVars == <<ppc, preg, pmsg, exit>>
cliVars  == <<req, res, buf>>
srvVars  == <<sq, scur>>
vars == <<data, status, reqVars, pollVars, cliVars, srvVars, link, down>>

Ends == {"client", "server"}
Polls == Ends \X {"recv", "ack"}
Regions == {"c2s", "s2c"}
Out(e) == IF e = "client" THEN "c2s" ELSE "s2c"
In(e) == IF e = "client" THEN "s2c" ELSE "c2s"
Watched(k) == IF k[2] = "recv" THEN In(k[1]) ELSE Out(k[1])
Msgs == 0..MaxRequests                  \* 0: no message
Ctx == [tid : BOOLEAN, tx_acked : BOOLEAN, reply : Msgs, read : BOOLEAN]

TypeOK ==
  /\ data \in [Regions -> Msgs]
  /\ status \in [Regions -> SUBSET {"NEW", "ACK"}]
  /\ rctx \in [Ends -> Ctx]
  /\ event \in [Ends -> BOOLEAN]
  /\ wait \in [Ends -> {"none", "blocked", "event", "timeout"}]
  /\ rpc \in [Ends -> {"idle", "write", "load", "store", "ack", "reply", "assert"}]
  /\ rreg \in [Ends -> SUBSET {"NEW", "ACK"}]
  /\ late \in [Ends -> 0..MaxTrials]
  /\ ppc \in [Polls -> {"none", "poll", "read", "loadNew", "storeNew", "loadAck", "storeAck",
                        "deliver", "send", "panic", "exited"}]
  /\ preg \in [Polls -> SUBSET {"NEW", "ACK"}]
  /\ pmsg \in [Polls -> Msgs]
  /\ exit \subseteq Polls
  /\ req \in Msgs
  /\ res \in [1..MaxRequests -> {"none", "-1", "-2", "0", "size"}]
  /\ buf \in [1..MaxRequests -> Msgs]
  /\ sq \in Seq(1..MaxRequests)
  /\ scur \in Msgs
  /\ link \in [Ends -> {"none", "starting", "open", "ack", "recv", "closed"}]
  /\ down \in {"up", "stopped", "dropped"}

Init ==
  /\ data = [r \in Regions |-> 0]
  /\ status = [r \in Regions |-> {}]
  /\ rctx = [e \in Ends |-> [tid |-> FALSE, tx_acked |-> FALSE, reply |-> 0, read |-> FALSE]]
  /\ event = [e \in Ends |-> FALSE]
  /\ wait = [e \in Ends |-> "none"]
  /\ rpc = [e \in Ends |-> "idle"]
  /\ rreg = [e \in Ends |-> {}]
  /\ late = [e \in Ends |-> 0]
  /\ ppc = [k \in Polls |-> "none"]
  /\ preg = [k \in Polls |-> {}]
  /\ pmsg = [k \in Polls |-> 0]
  /\ exit = {}
  /\ req = 0
  /\ res = [n \in 1..MaxRequests |-> "none"]
  /\ buf = [n \in 1..MaxRequests |-> 0]
  /\ sq = << >> /\ scur = 0
  /\ link = [e \in Ends |-> "none"]
  /\ down = "up"

-------------------------------------------------------------------------------
(* Requesters. *)

(* Fault: requesters and polling tasks preempt each other. *)
ScheduledAlways(e) == e \in Ends

(* A task of lower priority runs while the polling tasks of its end wait. *)
Scheduled(e) == PollFirst => \A k \in Polls : k[1] = e => ppc[k] \in {"none", "poll", "exited"}

At(e, l) == rpc[e] = l /\ Scheduled(e)
Goto(e, l) == rpc' = [rpc EXCEPT ![e] = l]
LinkStep(e, from, to) == link[e] = from /\ link' = [link EXCEPT ![e] = to]

(* link_shmem_connect, the server before the client: the link, its shared  *)
(* memory and the receiver are set up, or what there is of them is freed,  *)
(* ...                                                                     *)
link_shmem_connect(e) ==
  /\ At(e, "idle")
  /\ e = "client" => link["server"] = "open"
  /\ \/ LinkStep(e, "none", "starting") /\ ppc' = [ppc EXCEPT ![<<e, "recv">>] = "poll"]
     \/ LinkStep(e, "none", "closed") /\ UNCHANGED ppc
  /\ UNCHANGED <<data, status, reqVars, preg, pmsg, exit, cliVars, srvVars, down>>

(* ... then the ACK poller is started, or the receiver stopped again. *)
StartAckPoll(e) ==
  /\ At(e, "idle")
  /\ \/ /\ LinkStep(e, "starting", "open")
        /\ ppc' = [ppc EXCEPT ![<<e, "ack">>] = "poll"]
        /\ UNCHANGED exit
     \/ /\ LinkStep(e, "starting", "recv")
        /\ exit' = exit \cup {<<e, "recv">>}
        /\ UNCHANGED ppc
  /\ UNCHANGED <<data, status, reqVars, preg, pmsg, cliVars, srvVars, down>>

Trials == req + late["client"] + late["server"]

(* Fault: the reply buffer is not passed on. *)
RequestWithoutBuffer ==
  /\ At("client", "idle")
  /\ link["client"] = "open"
  /\ req < MaxRequests /\ Trials < MaxTrials
  /\ req' = req + 1
  /\ rctx' = [rctx EXCEPT !["client"].read = FALSE, !["client"].tid = TRUE]
  /\ Goto("client", "write")
  /\ UNCHANGED <<data, status, event, wait, rreg, late, pollVars, res, buf, srvVars, link, down>>

(* link_request, up to the call of _link_request_send. *)
link_request ==
  /\ At("client", "idle")
  /\ link["client"] = "open"
  /\ req < MaxRequests /\ Trials < MaxTrials
  /\ req' = req + 1
  /\ rctx' = [rctx EXCEPT !["client"].read = FALSE, !["client"].reply = req + 1,
                          !["client"].tid = TRUE]
  /\ Goto("client", "write")
  /\ UNCHANGED <<data, status, event, wait, rreg, late, pollVars, res, buf, srvVars, link, down>>

(* cmd_handle: the handler task takes a command and calls                  *)
(* link_request_send with the reply.                                       *)
link_request_send ==
  /\ At("server", "idle")
  /\ down = "up"
  /\ sq # << >>
  /\ scur' = Head(sq)
  /\ sq' = Tail(sq)
  /\ rctx' = [rctx EXCEPT !["server"].tid = TRUE]
  /\ Goto("server", "write")
  /\ UNCHANGED <<data, status, event, wait, rreg, late, pollVars, cliVars, link, down>>

(* _link_request_send and link_shmem_write: the message, ... *)
shmem_write(e) ==
  /\ At(e, "write")
  /\ rctx' = [rctx EXCEPT ![e].tx_acked = FALSE]
  /\ data' = [data EXCEPT ![Out(e)] = IF e = "client" THEN req ELSE scur]
  /\ Goto(e, "load")
  /\ UNCHANGED <<status, event, wait, rreg, late, pollVars, cliVars, srvVars, link, down>>

(* ... then NEW. *)
LoadStatus(e) ==
  /\ At(e, "load")
  /\ rreg' = [rreg EXCEPT ![e] = status[Out(e)]]
  /\ Goto(e, "store")
  /\ UNCHANGED <<data, status, rctx, event, wait, late, pollVars, cliVars, srvVars, link, down>>

(* Fault: the wrong bit. *)
SetAckNotNew(e) ==
  /\ At(e, "store")
  /\ status' = [status EXCEPT ![Out(e)] = rreg[e] \cup {"ACK"}]
  /\ rreg' = [rreg EXCEPT ![e] = {}]
  /\ Goto(e, "ack")
  /\ UNCHANGED <<data, rctx, event, wait, late, pollVars, cliVars, srvVars, link, down>>

SetNew(e) ==
  /\ At(e, "store")
  /\ status' = [status EXCEPT ![Out(e)] = rreg[e] \cup {"NEW"}]
  /\ rreg' = [rreg EXCEPT ![e] = {}]
  /\ Goto(e, "ack")
  /\ UNCHANGED <<data, rctx, event, wait, late, pollVars, cliVars, srvVars, link, down>>

(* rtems_event_receive, for the ACK and for the reply: a pending event is  *)
(* taken at once, otherwise the requester blocks.                          *)
EventReceive(e) ==
  /\ rpc[e] \in {"ack", "reply"}
  /\ Scheduled(e)
  /\ wait[e] = "none"
  /\ wait' = [wait EXCEPT ![e] = IF event[e] THEN "event" ELSE "blocked"]
  /\ event' = [event EXCEPT ![e] = FALSE]
  /\ UNCHANGED <<data, status, rctx, rpc, rreg, late, pollVars, cliVars, srvVars, link, down>>

(* The clock ends the wait, whatever the polling tasks are doing; the      *)
(* requester runs again when they let it.                                  *)
EventTimeout(e) ==
  /\ wait[e] = "blocked"
  /\ Trials < MaxTrials
  /\ wait' = [wait EXCEPT ![e] = "timeout"]
  /\ late' = [late EXCEPT ![e] = @ + 1]
  /\ UNCHANGED <<data, status, rctx, event, rpc, rreg, pollVars, cliVars, srvVars, link, down>>

(* The requester runs on after a wait. *)
Woken(e, l, by) ==
  /\ At(e, l)
  /\ wait[e] = by
  /\ wait' = [wait EXCEPT ![e] = "none"]

(* The event: assert(tx_acked).  The server is done, the client goes on to *)
(* wait for the reply, for the same event.                                 *)
WakeAck(e) ==
  /\ Woken(e, "ack", "event")
  /\ Goto(e, IF ~rctx[e].tx_acked THEN "assert"
             ELSE IF e = "client" THEN "reply" ELSE "idle")
  /\ rctx' = [rctx EXCEPT ![e].tid = (e = "client")]
  /\ scur' = IF e = "server" THEN 0 ELSE scur
  /\ UNCHANGED <<data, status, event, rreg, late, pollVars, cliVars, sq, link, down>>

(* No ACK in time: link_request returns; tid_requester stays set. *)
ClientGivesUp ==
  /\ Woken("client", "ack", "timeout")
  /\ res' = [res EXCEPT ![req] = "-1"]
  /\ Goto("client", "idle")
  /\ UNCHANGED <<data, status, rctx, event, rreg, late, pollVars, req, buf, srvVars, link, down>>

(* No ACK of the reply in time: link_request_send clears tid_requester. *)
ServerGivesUp ==
  /\ Woken("server", "ack", "timeout")
  /\ rctx' = [rctx EXCEPT !["server"].tid = FALSE]
  /\ scur' = 0
  /\ Goto("server", "idle")
  /\ UNCHANGED <<data, status, event, rreg, late, pollVars, cliVars, sq, link, down>>

(* Fault: the request returns without waiting for the reply. *)
AnsweredEarly ==
  /\ Woken("client", "reply", "none")
  /\ res' = [res EXCEPT ![req] = IF rctx["client"].read THEN "size" ELSE "0"]
  /\ rctx' = [rctx EXCEPT !["client"].tid = FALSE]
  /\ Goto("client", "idle")
  /\ UNCHANGED <<data, status, event, rreg, late, pollVars, req, buf, srvVars, link, down>>

(* _link_request_recv returns the size read, ... *)
Answered ==
  /\ Woken("client", "reply", "event")
  /\ res' = [res EXCEPT ![req] = IF rctx["client"].read THEN "size" ELSE "0"]
  /\ rctx' = [rctx EXCEPT !["client"].tid = FALSE]
  /\ Goto("client", "idle")
  /\ UNCHANGED <<data, status, event, rreg, late, pollVars, req, buf, srvVars, link, down>>

(* ... or -2. *)
NotAnswered ==
  /\ Woken("client", "reply", "timeout")
  /\ res' = [res EXCEPT ![req] = "-2"]
  /\ rctx' = [rctx EXCEPT !["client"].tid = FALSE]
  /\ Goto("client", "idle")
  /\ UNCHANGED <<data, status, event, rreg, late, pollVars, req, buf, srvVars, link, down>>

-------------------------------------------------------------------------------
(* Polling tasks. *)

PollGoto(k, l) == ppc' = [ppc EXCEPT ![k] = l]

(* shm_poll_task: the bit it polls for is set; call the callback. *)
PollHit(k) ==
  /\ ppc[k] = "poll"
  /\ k \notin exit
  /\ (IF k[2] = "recv" THEN "NEW" ELSE "ACK") \in status[Watched(k)]
  /\ PollGoto(k, IF k[2] = "recv" THEN "read" ELSE "deliver")
  /\ UNCHANGED <<data, status, reqVars, preg, pmsg, exit, cliVars, srvVars, link, down>>

(* Fault: the end reads the region it writes. *)
ReadWrongRegion(k) ==
  /\ ppc[k] = "read"
  /\ pmsg' = [pmsg EXCEPT ![k] = data[Out(k[1])]]
  /\ buf' = IF k[1] = "client" THEN [buf EXCEPT ![rctx["client"].reply] = data["c2s"]]
                               ELSE buf
  /\ PollGoto(k, "loadNew")
  /\ UNCHANGED <<data, status, reqVars, preg, exit, req, res, srvVars, link, down>>

(* link_shmem_read: the message, straight into the reply buffer at the     *)
(* client, ...                                                             *)
shmem_read(k) ==
  /\ ppc[k] = "read"
  /\ pmsg' = [pmsg EXCEPT ![k] = data[Watched(k)]]
  /\ buf' = IF k[1] = "client" THEN [buf EXCEPT ![rctx["client"].reply] = data["s2c"]]
                               ELSE buf
  /\ PollGoto(k, "loadNew")
  /\ UNCHANGED <<data, status, reqVars, preg, exit, req, res, srvVars, link, down>>

(* ... then clear NEW and set ACK. *)
PollLoad(k) ==
  /\ ppc[k] \in {"loadNew", "loadAck"}
  /\ preg' = [preg EXCEPT ![k] = status[Watched(k)]]
  /\ PollGoto(k, IF ppc[k] = "loadNew" THEN "storeNew" ELSE "storeAck")
  /\ UNCHANGED <<data, status, reqVars, pmsg, exit, cliVars, srvVars, link, down>>

ClearNew(k) ==
  /\ ppc[k] = "storeNew"
  /\ status' = [status EXCEPT ![Watched(k)] = preg[k] \ {"NEW"}]
  /\ PollGoto(k, "loadAck")
  /\ UNCHANGED <<data, reqVars, preg, pmsg, exit, cliVars, srvVars, link, down>>

(* shmem_set_ack(in, true) by the receiver, shmem_set_ack(out, false) by   *)
(* the sender.                                                             *)
StoreAck(k) ==
  /\ ppc[k] = "storeAck"
  /\ status' = [status EXCEPT ![Watched(k)] = IF k[2] = "recv" THEN preg[k] \cup {"ACK"}
                                              ELSE preg[k] \ {"ACK"}]
  /\ preg' = [preg EXCEPT ![k] = {}]
  /\ PollGoto(k, IF k[2] = "recv" THEN "deliver" ELSE "poll")
  /\ UNCHANGED <<data, reqVars, pmsg, exit, cliVars, srvVars, link, down>>

(* link_recv_cmd: enqueue the command, or panic when the queue is full. *)
link_recv_cmd ==
  /\ ppc[<<"server", "recv">>] = "deliver"
  /\ \/ /\ Len(sq) < CMDQ_LEN
        /\ sq' = Append(sq, pmsg[<<"server", "recv">>])
        /\ PollGoto(<<"server", "recv">>, "poll")
     \/ /\ Len(sq) >= CMDQ_LEN
        /\ PollGoto(<<"server", "recv">>, "panic")
        /\ UNCHANGED sq
  /\ pmsg' = [pmsg EXCEPT ![<<"server", "recv">>] = 0]
  /\ UNCHANGED <<data, status, reqVars, preg, exit, cliVars, scur, link, down>>

(* Where a polling task goes when it has no event to send, or has sent it. *)
AfterEvent(k) == IF k[2] = "recv" THEN "poll" ELSE "loadAck"

(* Fault: tx_acked is not set. *)
DeliverWithoutAck(k) ==
  /\ k # <<"server", "recv">>
  /\ ppc[k] = "deliver"
  /\ rctx' = IF k[2] = "recv" THEN [rctx EXCEPT ![k[1]].read = TRUE] ELSE rctx
  /\ pmsg' = [pmsg EXCEPT ![k] = 0]
  /\ PollGoto(k, IF rctx[k[1]].tid THEN "send" ELSE AfterEvent(k))
  /\ UNCHANGED <<data, status, event, wait, rpc, rreg, late, preg, exit, cliVars, srvVars, link, down>>

(* link_recv_reply sets reply_sz_read, link_ack sets tx_acked; both test   *)
(* tid_requester, ...                                                      *)
Deliver(k) ==
  /\ k # <<"server", "recv">>
  /\ ppc[k] = "deliver"
  /\ rctx' = IF k[2] = "recv" THEN [rctx EXCEPT ![k[1]].read = TRUE]
                              ELSE [rctx EXCEPT ![k[1]].tx_acked = TRUE]
  /\ pmsg' = [pmsg EXCEPT ![k] = 0]
  /\ PollGoto(k, IF rctx[k[1]].tid THEN "send" ELSE AfterEvent(k))
  /\ UNCHANGED <<data, status, event, wait, rpc, rreg, late, preg, exit, cliVars, srvVars, link, down>>

(* ... and send the event to the tid they read again.  It ends a wait that *)
(* goes on and is pending otherwise.  RTEMS_ID_NONE is RTEMS_SELF, so the  *)
(* event may be lost on the polling task itself.                           *)
SendEvent(k) ==
  LET e == k[1] IN
  /\ ppc[k] = "send"
  /\ \/ ~rctx[e].tid /\ UNCHANGED <<event, wait>>
     \/ /\ rctx[e].tid /\ wait[e] = "blocked"
        /\ wait' = [wait EXCEPT ![e] = "event"]
        /\ UNCHANGED event
     \/ /\ rctx[e].tid /\ wait[e] # "blocked"
        /\ event' = [event EXCEPT ![e] = TRUE]
        /\ UNCHANGED wait
  /\ PollGoto(k, AfterEvent(k))
  /\ UNCHANGED <<data, status, rctx, rpc, rreg, late, preg, pmsg, exit, cliVars, srvVars,
                 link, down>>

(* Fault: the event is taken, the loop goes on. *)
PollExitIgnored(k) ==
  /\ ppc[k] = "poll"
  /\ k \in exit
  /\ exit' = exit \ {k}
  /\ UNCHANGED <<data, status, reqVars, ppc, preg, pmsg, cliVars, srvVars, link, down>>

(* SHM_EVENT_EXIT is looked at between two polls. *)
PollExit(k) ==
  /\ ppc[k] = "poll"
  /\ k \in exit
  /\ exit' = exit \ {k}
  /\ PollGoto(k, "exited")
  /\ UNCHANGED <<data, status, reqVars, preg, pmsg, cliVars, srvVars, link, down>>

-------------------------------------------------------------------------------
(* link_shmem_close: the ACK poller is stopped, then the receiver, then    *)
(* the link is freed.  The client closes when it has no request under way, *)
(* the server after cmd_handle_task_destroy (shutdown).                    *)

link_shmem_close(e) ==
  /\ At(e, "idle")
  /\ e = "server" => down = "stopped"
  /\ LinkStep(e, "open", "ack")
  /\ exit' = exit \cup {<<e, "ack">>}
  /\ UNCHANGED <<data, status, reqVars, ppc, preg, pmsg, cliVars, srvVars, down>>

(* Fault: the polling task is not waited for. *)
AckPollNotAwaited(e) ==
  /\ Scheduled(e)
  /\ LinkStep(e, "ack", "recv")
  /\ exit' = exit \cup {<<e, "recv">>}
  /\ UNCHANGED <<data, status, reqVars, ppc, preg, pmsg, cliVars, srvVars, down>>

AckPollStopped(e) ==
  /\ Scheduled(e)
  /\ LinkStep(e, "ack", "recv")
  /\ ppc[<<e, "ack">>] = "exited"
  /\ exit' = exit \cup {<<e, "recv">>}
  /\ UNCHANGED <<data, status, reqVars, ppc, preg, pmsg, cliVars, srvVars, down>>

RecvPollStopped(e) ==
  /\ Scheduled(e)
  /\ LinkStep(e, "recv", "closed")
  /\ ppc[<<e, "recv">>] = "exited"
  /\ UNCHANGED <<data, status, reqVars, pollVars, cliVars, srvVars, down>>

(* shutdown: stop the handler task, close the links, drop the commands. *)
StopHandler ==
  /\ down = "up"
  /\ rpc["server"] = "idle"
  /\ down' = "stopped"
  /\ UNCHANGED <<data, status, reqVars, pollVars, cliVars, srvVars, link>>

(* Fault: the commands are dropped before the links are closed. *)
DropBeforeClose ==
  /\ down = "stopped"
  /\ sq' = << >>
  /\ down' = "dropped"
  /\ UNCHANGED <<data, status, reqVars, pollVars, cliVars, scur, link>>

DropCommands ==
  /\ down = "stopped"
  /\ link["server"] = "closed"
  /\ sq' = << >>
  /\ down' = "dropped"
  /\ UNCHANGED <<data, status, reqVars, pollVars, cliVars, scur, link>>

-------------------------------------------------------------------------------
Failed == (\E e \in Ends : rpc[e] = "assert") \/ ppc[<<"server", "recv">>] = "panic"

Requester(e) == shmem_write(e) \/ LoadStatus(e) \/ SetNew(e) \/ EventReceive(e) \/ WakeAck(e)

(* The ends of a request, and of a reply that is not acknowledged. *)
Returns == ClientGivesUp \/ Answered \/ NotAnswered \/ ServerGivesUp

Poller(k) ==
  \/ PollHit(k) \/ shmem_read(k) \/ PollLoad(k) \/ ClearNew(k) \/ StoreAck(k)
  \/ (k = <<"server", "recv">> /\ link_recv_cmd)
  \/ Deliver(k) \/ SendEvent(k) \/ PollExit(k)

Connecter(e) == link_shmem_connect(e) \/ StartAckPoll(e)

Closer(e) == link_shmem_close(e) \/ AckPollStopped(e) \/ RecvPollStopped(e)

Step == \/ link_request \/ link_request_send
        \/ Returns
        \/ \E e \in Ends : Connecter(e) \/ Requester(e) \/ EventTimeout(e) \/ Closer(e)
        \/ \E k \in Polls : Poller(k)
        \/ StopHandler \/ DropCommands

(* The program has stopped, the server has shut down and the client has    *)
(* closed its link, or a wait goes on whose timeout is beyond the bound.   *)
Finished == /\ \/ Failed
               \/ down = "dropped" /\ link["client"] \in {"none", "closed"}
               \/ Trials = MaxTrials /\ \E e \in Ends : wait[e] = "blocked"
            /\ UNCHANGED vars

Next == \/ ~Failed /\ Step
        \/ Finished

Spec == Init /\ [][Next]_vars

(* Polling tasks run every poll_ticks; a task of lower priority runs while *)
(* they sleep, again and again, whatever there is to poll.  Nothing relies *)
(* on a timeout.                                                           *)
Fairness ==
  /\ \A k \in Polls : WF_vars(~Failed /\ Poller(k))
  /\ \A e \in Ends : WF_vars(~Failed /\ Requester(e))
  /\ WF_vars(~Failed /\ Returns)
  /\ WF_vars(~Failed /\ link_request_send)
  /\ \A e \in Ends : SF_vars(~Failed /\ AckPollStopped(e)) /\ WF_vars(~Failed /\ RecvPollStopped(e))

FairSpec == Spec /\ Fairness

-------------------------------------------------------------------------------
(* Properties. *)

(* assert(link->rctx.tx_acked) of _link_request_send: a requester that is  *)
(* woken while it waits for the ACK has been acknowledged, unless a wait   *)
(* of its end has timed out before.                                        *)
WokenByAck == \A e \in Ends : rpc[e] = "assert" => late[e] > 0

(* The same, but for the one case in which it fails (WokenByAck): the      *)
(* reply has been read before the client has seen the ACK.                 *)
WokenByAckOrReply ==
  \A e \in Ends : rpc[e] = "assert" => late[e] > 0 \/ (e = "client" /\ rctx[e].read)

(* Request n or one before it, or a reply, has been given up: what was     *)
(* sent for it may still arrive.                                           *)
Disturbed(n) == late["server"] > 0 \/ \E m \in 1..n : res[m] \in {"-1", "-2"}

(* link_request that returns after an event returns the reply to its own   *)
(* request, however close ACK and reply follow each other, until a wait    *)
(* has been given up.                                                      *)
ReplyAnswersRequest ==
  \A n \in 1..MaxRequests : res[n] \in {"0", "size"} =>
    (res[n] = "size" /\ buf[n] = n) \/ Disturbed(n)

(* The reply buffer belongs to the caller of link_request again once it    *)
(* has returned with a reply: no polling task writes to it any more, until *)
(* a wait has been given up.                                               *)
BufferReturned ==
  [][\A n \in 1..MaxRequests : res[n] \in {"0", "size"} => buf'[n] = buf[n] \/ Disturbed(n)]_vars

(* No status bit is lost between the two ends, whatever timeouts and late  *)
(* ACKs there have been: while a requester waits for an ACK, its message   *)
(* is on its way there or an ACK is on its way back.                       *)
MessageOrAckInFlight ==
  \A e \in Ends : rpc[e] = "ack" /\ wait[e] # "timeout"
                  /\ link["server"] = "open" /\ link["client"] = "open" =>
    \/ event[e] \/ wait[e] = "event"
    \/ status[Out(e)] \cap {"NEW", "ACK"} # {}
    \/ \E k \in Polls : Watched(k) = Out(e) /\ ppc[k] \notin {"none", "poll", "exited"}

(* A link is freed only when nothing uses it any more, be it closed or not *)
(* connected to the end: its polling tasks have exited or never run and no *)
(* requester waits on it.                                                  *)
ClosedUnused ==
  \A e \in Ends : link[e] = "closed" =>
    /\ rpc[e] = "idle"
    /\ \A k \in Polls : k[1] = e => ppc[k] \in {"none", "exited"}

(* shutdown: once the pending commands are dropped, no command with a      *)
(* reference to a freed link is queued again.                              *)
NoStaleCommands == down = "dropped" => sq = << >>

(* The reply to the last request arrives, unless a wait has been given up  *)
(* or the server is shut down meanwhile (or an assertion has failed).      *)
RepliesArrive ==
  []<>(\/ req = 0 \/ buf[req] = req
       \/ down # "up" \/ Failed \/ \E e \in Ends : late[e] > 0)

(* A close comes to its end, and so does a connect that fails half-way     *)
(* (unless the program has stopped).  No link is closed twice.             *)
CloseReturns == []<>(Failed \/ \A e \in Ends : link[e] \notin {"ack", "recv"})
================================================================================
