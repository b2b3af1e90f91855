---------------------------- MODULE LinkShmemProofs ----------------------------
(***************************************************************************)
(* Proofs about LinkShmem, for any number of requests.                     *)
(***************************************************************************)
EXTENDS LinkShmem, SequenceTheorems, TLAPS

SRecv == <<"server", "recv">>
CRecv == <<"client", "recv">>
CAck == <<"client", "ack">>
SAck == <<"server", "ack">>

(* A polling task that has read its message. *)
HasRead(k) == ppc[k] \in {"loadNew", "storeNew", "loadAck", "storeAck", "deliver"}

(* The server is told of a message only when the client has written one.   *)
MsgInv ==
  /\ rpc["client"] # "idle" => req # 0
  /\ data["c2s"] = 0 => /\ rpc["client"] \in {"idle", "write"}
                        /\ "NEW" \notin status["c2s"]
                        /\ "NEW" \notin preg[CAck]
                        /\ ppc[SRecv] \in {"none", "poll", "exited"}
  /\ HasRead(SRecv) => pmsg[SRecv] # 0

TypeInv == TypeOK /\ MsgInv

Gone(k) == ppc[k] \in {"none", "exited"}

(* How far connect and close have got says which tasks of an end run; the  *)
(* server hears nothing before the client has connected.                   *)
CloseInv ==
  /\ \A e \in Ends :
       /\ rpc[e] # "idle" => link[e] = "open"
       /\ link[e] = "none" => Gone(<<e, "recv">>)
       /\ link[e] \in {"none", "starting", "recv", "closed"} => Gone(<<e, "ack">>)
       /\ link[e] = "closed" => Gone(<<e, "recv">>)
  /\ link["client"] = "none" => req = 0 /\ data["c2s"] = 0 /\ sq = << >>
  /\ link["server"] \in {"none", "starting"} => link["client"] = "none"
  /\ down = "up" /\ link["server"] # "open" => link["client"] = "none"
  /\ rpc["server"] # "idle" => down = "up"
  /\ down = "dropped" => link["server"] = "closed" /\ sq = << >>

Resting(l) == l \in {"none", "poll", "exited"}

Peer(e) == IF e = "client" THEN "server" ELSE "client"

(* While the requester of e waits for an ACK without an event, its ACK     *)
(* poller does not write the status word: it would announce the ACK first. *)
(* So what the other end has written, or is about to write, stays.         *)
Coming(e) ==
  rpc[e] = "ack" /\ wait[e] \in {"none", "blocked"} /\ ~event[e] =>
    /\ Resting(ppc[<<e, "ack">>]) \/ ppc[<<e, "ack">>] \in {"deliver", "send"}
    /\ \/ status[Out(e)] \cap {"NEW", "ACK"} # {}
       \/ ppc[<<Peer(e), "recv">>] \in {"loadAck", "storeAck"}

WaitInv ==
  \A e \in Ends :
    /\ rpc[e] \notin {"idle", "assert"} => rctx[e].tid
    /\ wait[e] # "none" => rpc[e] \in {"ack", "reply"}
    /\ Coming(e)

-------------------------------------------------------------------------------
(* The names of the polling tasks and the regions they watch. *)
LEMMA Names ==
  /\ Polls = {SRecv, CRecv, CAck, SAck}
  /\ SRecv \in Polls /\ CRecv \in Polls /\ CAck \in Polls /\ SAck \in Polls
  /\ Watched(SRecv) = "c2s" /\ Watched(CRecv) = "s2c"
  /\ Watched(CAck) = "c2s" /\ Watched(SAck) = "s2c"
  /\ SRecv # CRecv /\ SRecv # CAck /\ SRecv # SAck /\ CRecv # CAck /\ CRecv # SAck /\ CAck # SAck
  /\ Out("client") = "c2s" /\ In("client") = "s2c" /\ Out("server") = "s2c" /\ In("server") = "c2s"
BY DEF Polls, Ends, SRecv, CRecv, CAck, SAck, Watched, Out, In

(* The regions of an end and of a polling task. *)
LEMMA RegionOf ==
  /\ \A e \in Ends : Out(e) \in Regions /\ In(e) \in Regions
  /\ \A k \in Polls : k[1] \in Ends /\ Watched(k) \in Regions
BY DEF Polls, Ends, Regions, Watched, Out, In

(* tid_requester is written. *)
LEMMA TidWrite ==
  ASSUME TypeOK, NEW e \in Ends, NEW v \in BOOLEAN, rctx' = [rctx EXCEPT ![e].tid = v]
  PROVE  /\ rctx' \in [Ends -> Ctx]
         /\ rctx'[e].tid = v
         /\ \A d \in Ends :
              /\ d # e => rctx'[d] = rctx[d]
              /\ rctx'[d].tx_acked = rctx[d].tx_acked /\ rctx'[d].reply = rctx[d].reply
              /\ rctx'[d].read = rctx[d].read
<1>1. rctx \in [Ends -> Ctx] /\ rctx[e] \in Ctx
  BY DEF TypeOK
<1>2. \A d \in Ends : rctx'[d] = IF d = e THEN [rctx[e] EXCEPT !.tid = v] ELSE rctx[d]
  BY <1>1
<1>3. [rctx[e] EXCEPT !.tid = v] \in Ctx
  BY <1>1 DEF Ctx
<1>4. rctx' \in [Ends -> Ctx]
  BY <1>1, <1>3
<1>5. \A d \in Ends : rctx[d] \in Ctx
  BY <1>1
<1> QED BY <1>1, <1>2, <1>4, <1>5 DEF Ctx

(* tx_acked is written. *)
LEMMA AckedWrite ==
  ASSUME TypeOK, NEW e \in Ends, NEW v \in BOOLEAN, rctx' = [rctx EXCEPT ![e].tx_acked = v]
  PROVE  /\ rctx' \in [Ends -> Ctx]
         /\ rctx'[e].tx_acked = v
         /\ \A d \in Ends :
              /\ d # e => rctx'[d] = rctx[d]
              /\ rctx'[d].tid = rctx[d].tid /\ rctx'[d].reply = rctx[d].reply
              /\ rctx'[d].read = rctx[d].read
<1>1. rctx \in [Ends -> Ctx] /\ rctx[e] \in Ctx
  BY DEF TypeOK
<1>2. \A d \in Ends : rctx'[d] = IF d = e THEN [rctx[e] EXCEPT !.tx_acked = v] ELSE rctx[d]
  BY <1>1
<1>3. [rctx[e] EXCEPT !.tx_acked = v] \in Ctx
  BY <1>1 DEF Ctx
<1>4. rctx' \in [Ends -> Ctx]
  BY <1>1, <1>3
<1>5. \A d \in Ends : rctx[d] \in Ctx
  BY <1>1
<1> QED BY <1>1, <1>2, <1>4, <1>5 DEF Ctx

(* reply_sz_read is written. *)
LEMMA ReadWrite ==
  ASSUME TypeOK, NEW e \in Ends, NEW v \in BOOLEAN, rctx' = [rctx EXCEPT ![e].read = v]
  PROVE  /\ rctx' \in [Ends -> Ctx]
         /\ rctx'[e].read = v
         /\ \A d \in Ends :
              /\ d # e => rctx'[d] = rctx[d]
              /\ rctx'[d].tid = rctx[d].tid /\ rctx'[d].tx_acked = rctx[d].tx_acked
              /\ rctx'[d].reply = rctx[d].reply
<1>1. rctx \in [Ends -> Ctx] /\ rctx[e] \in Ctx
  BY DEF TypeOK
<1>2. \A d \in Ends : rctx'[d] = IF d = e THEN [rctx[e] EXCEPT !.read = v] ELSE rctx[d]
  BY <1>1
<1>3. [rctx[e] EXCEPT !.read = v] \in Ctx
  BY <1>1 DEF Ctx
<1>4. rctx' \in [Ends -> Ctx]
  BY <1>1, <1>3
<1>5. \A d \in Ends : rctx[d] \in Ctx
  BY <1>1
<1> QED BY <1>1, <1>2, <1>4, <1>5 DEF Ctx

(* link_request prepares the context for its reply. *)
LEMMA RequestWrite ==
  ASSUME TypeOK, NEW n \in Msgs,
         rctx' = [rctx EXCEPT !["client"].read = FALSE, !["client"].reply = n,
                              !["client"].tid = TRUE]
  PROVE  /\ rctx' \in [Ends -> Ctx]
         /\ rctx'["client"].tid /\ ~rctx'["client"].read /\ rctx'["client"].reply = n
         /\ rctx'["client"].tx_acked = rctx["client"].tx_acked
         /\ rctx'["server"] = rctx["server"]
<1>1. rctx \in [Ends -> Ctx] /\ rctx["client"] \in Ctx
  BY DEF TypeOK, Ends
<1>2. \A d \in Ends : rctx'[d] = IF d = "client"
                      THEN [rctx["client"] EXCEPT !.read = FALSE, !.reply = n, !.tid = TRUE]
                      ELSE rctx[d]
  BY <1>1
<1>3. [rctx["client"] EXCEPT !.read = FALSE, !.reply = n, !.tid = TRUE] \in Ctx
  BY <1>1 DEF Ctx
<1>4. rctx' \in [Ends -> Ctx]
  BY <1>1, <1>3
<1> QED BY <1>1, <1>2, <1>4 DEF Ctx, Ends

-------------------------------------------------------------------------------
(* Types. *)

(* Init establishes the types, and that there is no message yet. *)
LEMMA TypeInit == Init => TypeInv
<1> SUFFICES ASSUME Init PROVE TypeInv
  OBVIOUS
<1> USE RequestAssumption
<1>1. TypeOK
  BY DEF Init, TypeOK, Msgs, Ctx
<1>2. MsgInv
  BY Names DEF Init, MsgInv, HasRead, Regions, Ends
<1> QED BY <1>1, <1>2 DEF TypeInv

(* The types, action by action; that the commands of the server are        *)
(* requests is MsgInv.                                                     *)
LEMMA TypeStep == TypeInv /\ [Next]_vars => TypeOK'
<1> SUFFICES ASSUME TypeInv, [Next]_vars PROVE TypeOK'
  OBVIOUS
<1> USE RequestAssumption DEF TypeInv
<1> DEFINE RPcs == {"idle", "write", "load", "store", "ack", "reply", "assert"}
           PPcs == {"none", "poll", "read", "loadNew", "storeNew", "loadAck", "storeAck",
                    "deliver", "send", "panic", "exited"}
           Links == {"none", "starting", "open", "ack", "recv", "closed"}
           Bits == SUBSET {"NEW", "ACK"}
           Waits == {"none", "blocked", "event", "timeout"}
<1>0. /\ 0 \in Msgs /\ \A n \in 1..MaxRequests : n \in Msgs
      /\ \A n \in Msgs : n # 0 => n \in 1..MaxRequests
      /\ \A n \in Msgs : n < MaxRequests => n + 1 \in Msgs
  BY DEF Msgs
<1>g. ASSUME NEW e \in Ends, NEW l \in RPcs, Goto(e, l) PROVE rpc' \in [Ends -> RPcs]
  BY <1>g DEF TypeOK, Goto
<1>p. ASSUME NEW k \in Polls, NEW l \in PPcs, PollGoto(k, l) PROVE ppc' \in [Polls -> PPcs]
  BY <1>p DEF TypeOK, PollGoto
<1>l. ASSUME NEW e \in Ends, NEW f \in Links, NEW l \in Links, LinkStep(e, f, l)
      PROVE  link' \in [Ends -> Links]
  BY <1>l DEF TypeOK, LinkStep
<1>w. ASSUME NEW e \in Ends, NEW l, NEW v, Woken(e, l, v) PROVE wait' \in [Ends -> Waits]
  BY <1>w DEF TypeOK, Woken
<1>1. CASE link_request
  <2>1. req' \in Msgs /\ req' = req + 1
    BY <1>1, <1>0 DEF TypeOK, link_request
  <2>2. rctx' \in [Ends -> Ctx]
    BY <1>1, <2>1, RequestWrite DEF link_request
  <2>3. rpc' \in [Ends -> RPcs]
    BY <1>1, <1>g DEF link_request, Ends
  <2> QED BY <1>1, <2>1, <2>2, <2>3 DEF TypeOK, link_request, pollVars, srvVars
<1>2. CASE link_request_send
  <2>0. sq \in Seq(1..MaxRequests) /\ sq # << >> /\ scur' = Head(sq) /\ sq' = Tail(sq)
    BY <1>2 DEF TypeOK, link_request_send
  <2>1. scur' \in Msgs /\ sq' \in Seq(1..MaxRequests)
    BY <2>0, <1>0, HeadTailProperties
  <2>2. rctx' \in [Ends -> Ctx]
    BY <1>2, TidWrite DEF link_request_send, Ends
  <2>3. rpc' \in [Ends -> RPcs]
    BY <1>2, <1>g DEF link_request_send, Ends
  <2> QED BY <1>2, <2>1, <2>2, <2>3 DEF TypeOK, link_request_send, pollVars, cliVars
<1>3. CASE ClientGivesUp
  <2>1. rpc' \in [Ends -> RPcs] /\ wait' \in [Ends -> Waits]
    BY <1>3, <1>g, <1>w DEF ClientGivesUp, Ends
  <2> QED BY <1>3, <2>1 DEF TypeOK, ClientGivesUp, pollVars, srvVars
<1>4. CASE Answered
  <2>1. rpc' \in [Ends -> RPcs] /\ wait' \in [Ends -> Waits]
    BY <1>4, <1>g, <1>w DEF Answered, Ends
  <2>2. rctx' \in [Ends -> Ctx]
    BY <1>4, TidWrite DEF Answered, Ends
  <2> QED BY <1>4, <2>1, <2>2 DEF TypeOK, Answered, pollVars, srvVars
<1>5. CASE NotAnswered
  <2>1. rpc' \in [Ends -> RPcs] /\ wait' \in [Ends -> Waits]
    BY <1>5, <1>g, <1>w DEF NotAnswered, Ends
  <2>2. rctx' \in [Ends -> Ctx]
    BY <1>5, TidWrite DEF NotAnswered, Ends
  <2> QED BY <1>5, <2>1, <2>2 DEF TypeOK, NotAnswered, pollVars, srvVars
<1>6. CASE ServerGivesUp
  <2>1. rpc' \in [Ends -> RPcs] /\ wait' \in [Ends -> Waits]
    BY <1>6, <1>g, <1>w DEF ServerGivesUp, Ends
  <2>2. rctx' \in [Ends -> Ctx]
    BY <1>6, TidWrite DEF ServerGivesUp, Ends
  <2> QED BY <1>6, <1>0, <2>1, <2>2 DEF TypeOK, ServerGivesUp, pollVars, cliVars
<1>14. ASSUME NEW e \in Ends, EventTimeout(e) PROVE TypeOK'
  <2>1. late[e] \in 0..MaxTrials /\ late["client"] \in Nat /\ late["server"] \in Nat /\ req \in Nat
    BY DEF TypeOK, Msgs, Ends
  <2>2. late[e] + 1 \in 0..MaxTrials
    BY <1>14, <2>1 DEF EventTimeout, Trials, Ends
  <2>3. late' \in [Ends -> 0..MaxTrials] /\ wait' \in [Ends -> Waits]
    BY <1>14, <2>2 DEF EventTimeout, TypeOK
  <2> QED BY <1>14, <2>3 DEF TypeOK, EventTimeout, pollVars, cliVars, srvVars
<1>7. ASSUME NEW e \in Ends, Connecter(e) PROVE TypeOK'
  <2>1. CASE link_shmem_connect(e)
    <3>1. link' \in [Ends -> Links]
      BY <2>1, <1>l DEF link_shmem_connect
    <3>2. ppc' \in [Polls -> PPcs]
      BY <2>1 DEF link_shmem_connect, TypeOK
    <3> QED BY <2>1, <3>1, <3>2 DEF TypeOK, link_shmem_connect, reqVars, cliVars, srvVars
  <2>2. CASE StartAckPoll(e)
    <3>1. link' \in [Ends -> Links]
      BY <2>2, <1>l DEF StartAckPoll
    <3>2. ppc' \in [Polls -> PPcs] /\ exit' \subseteq Polls
      BY <2>2 DEF StartAckPoll, TypeOK, Polls
    <3> QED BY <2>2, <3>1, <3>2 DEF TypeOK, StartAckPoll, reqVars, cliVars, srvVars
  <2> QED BY <1>7, <2>1, <2>2 DEF Connecter
<1>8. ASSUME NEW e \in Ends, Requester(e) PROVE TypeOK'
  <2>1. CASE shmem_write(e)
    <3>1. rpc' \in [Ends -> RPcs]
      BY <2>1, <1>g DEF shmem_write
    <3>2. rctx' \in [Ends -> Ctx]
      BY <2>1, AckedWrite DEF shmem_write
    <3> QED BY <2>1, <3>1, <3>2 DEF TypeOK, shmem_write, pollVars, cliVars, srvVars
  <2>2. CASE LoadStatus(e)
    <3>1. rpc' \in [Ends -> RPcs]
      BY <2>2, <1>g DEF LoadStatus
    <3>2. rreg' \in [Ends -> Bits]
      BY <2>2, RegionOf DEF LoadStatus, TypeOK
    <3> QED BY <2>2, <3>1, <3>2 DEF TypeOK, LoadStatus, pollVars, cliVars, srvVars
  <2>3. CASE SetNew(e)
    <3>1. rpc' \in [Ends -> RPcs]
      BY <2>3, <1>g DEF SetNew
    <3>2. rreg' \in [Ends -> Bits] /\ status' \in [Regions -> Bits]
      BY <2>3, RegionOf DEF SetNew, TypeOK
    <3> QED BY <2>3, <3>1, <3>2 DEF TypeOK, SetNew, pollVars, cliVars, srvVars
  <2>5. CASE EventReceive(e)
    <3>1. wait' \in [Ends -> Waits] /\ event' \in [Ends -> BOOLEAN]
      BY <2>5 DEF EventReceive, TypeOK
    <3> QED BY <2>5, <3>1 DEF TypeOK, EventReceive, pollVars, cliVars, srvVars
  <2>4. CASE WakeAck(e)
    <3>1. rpc' \in [Ends -> RPcs] /\ wait' \in [Ends -> Waits]
      BY <2>4, <1>g, <1>w DEF WakeAck
    <3>2. rctx' \in [Ends -> Ctx]
      BY <2>4, TidWrite DEF WakeAck
    <3> QED BY <2>4, <1>0, <3>1, <3>2 DEF TypeOK, WakeAck, pollVars, cliVars
  <2> QED BY <1>8, <2>1, <2>2, <2>3, <2>4, <2>5 DEF Requester
<1>9. ASSUME NEW e \in Ends, Closer(e) PROVE TypeOK'
  <2>1. link' \in [Ends -> Links]
    BY <1>9, <1>l DEF Closer, link_shmem_close, AckPollStopped, RecvPollStopped
  <2>2. exit' \subseteq Polls
    BY <1>9 DEF Closer, link_shmem_close, AckPollStopped, RecvPollStopped, TypeOK, Polls, pollVars
  <2>3. UNCHANGED <<data, status, reqVars, ppc, preg, pmsg, cliVars, srvVars, down>>
    BY <1>9 DEF Closer, link_shmem_close, AckPollStopped, RecvPollStopped, pollVars
  <2> QED BY <2>1, <2>2, <2>3 DEF TypeOK, reqVars, cliVars, srvVars
<1>10. ASSUME NEW k \in Polls, Poller(k) PROVE TypeOK'
  <2>1. CASE PollHit(k)
    <3>1. ppc' \in [Polls -> PPcs]
      BY <2>1, <1>p DEF PollHit
    <3> QED BY <2>1, <3>1 DEF TypeOK, PollHit, reqVars, cliVars, srvVars
  <2>2. CASE shmem_read(k)
    <3>1. ppc' \in [Polls -> PPcs]
      BY <2>2, <1>p DEF shmem_read
    <3>2. pmsg' \in [Polls -> Msgs]
      BY <2>2, RegionOf DEF shmem_read, TypeOK
    <3>3. buf' \in [1..MaxRequests -> Msgs]
      BY <2>2 DEF shmem_read, TypeOK, Regions
    <3> QED BY <2>2, <3>1, <3>2, <3>3 DEF TypeOK, shmem_read, reqVars, srvVars
  <2>3. CASE PollLoad(k)
    <3>1. ppc' \in [Polls -> PPcs]
      BY <2>3, <1>p DEF PollLoad
    <3>2. preg' \in [Polls -> Bits]
      BY <2>3, RegionOf DEF PollLoad, TypeOK
    <3> QED BY <2>3, <3>1, <3>2 DEF TypeOK, PollLoad, reqVars, cliVars, srvVars
  <2>4. CASE ClearNew(k)
    <3>1. ppc' \in [Polls -> PPcs]
      BY <2>4, <1>p DEF ClearNew
    <3>2. status' \in [Regions -> Bits]
      BY <2>4, RegionOf DEF ClearNew, TypeOK
    <3> QED BY <2>4, <3>1, <3>2 DEF TypeOK, ClearNew, reqVars, cliVars, srvVars
  <2>5. CASE StoreAck(k)
    <3>1. ppc' \in [Polls -> PPcs]
      BY <2>5, <1>p DEF StoreAck
    <3>2. status' \in [Regions -> Bits] /\ preg' \in [Polls -> Bits]
      BY <2>5, RegionOf DEF StoreAck, TypeOK
    <3> QED BY <2>5, <3>1, <3>2 DEF TypeOK, StoreAck, reqVars, cliVars, srvVars
  <2>6. CASE k = SRecv /\ link_recv_cmd
    <3>1. pmsg[SRecv] \in 1..MaxRequests
      BY <2>6, <1>0, Names DEF link_recv_cmd, TypeOK, MsgInv, HasRead, SRecv
    <3>2. /\ sq' = sq \/ sq' = Append(sq, pmsg[SRecv])
          /\ pmsg' = [pmsg EXCEPT ![SRecv] = 0]
      BY <2>6 DEF link_recv_cmd, SRecv
    <3>3. sq' \in Seq(1..MaxRequests)
      <4>1. sq \in Seq(1..MaxRequests)
        BY DEF TypeOK
      <4>2. Append(sq, pmsg[SRecv]) \in Seq(1..MaxRequests)
        BY <3>1, <4>1, AppendProperties
      <4> QED BY <3>2, <4>1, <4>2
    <3>5. pmsg' \in [Polls -> Msgs]
      BY <3>2, <1>0 DEF TypeOK
    <3>4. ppc' \in [Polls -> PPcs]
      BY <2>6, <1>p DEF link_recv_cmd, SRecv
    <3> QED BY <2>6, <3>3, <3>4, <3>5 DEF TypeOK, link_recv_cmd, reqVars, cliVars
  <2>7. CASE Deliver(k)
    <3>1. ppc' \in [Polls -> PPcs]
      BY <2>7, <1>p DEF Deliver, AfterEvent
    <3>2. pmsg' \in [Polls -> Msgs]
      BY <2>7, <1>0 DEF Deliver, TypeOK
    <3>3. rctx' \in [Ends -> Ctx]
      BY <2>7, RegionOf, AckedWrite, ReadWrite DEF Deliver
    <3> QED BY <2>7, <3>1, <3>2, <3>3 DEF TypeOK, Deliver, cliVars, srvVars
  <2>8. CASE SendEvent(k)
    <3>1. ppc' \in [Polls -> PPcs]
      BY <2>8, <1>p DEF SendEvent, AfterEvent
    <3>2. event' \in [Ends -> BOOLEAN] /\ wait' \in [Ends -> Waits]
      BY <2>8 DEF SendEvent, TypeOK
    <3> QED BY <2>8, <3>1, <3>2 DEF TypeOK, SendEvent, cliVars, srvVars
  <2>9. CASE PollExit(k)
    <3>1. ppc' \in [Polls -> PPcs]
      BY <2>9, <1>p DEF PollExit
    <3> QED BY <2>9, <3>1 DEF TypeOK, PollExit, reqVars, cliVars, srvVars
  <2> QED BY <1>10, <2>1, <2>2, <2>3, <2>4, <2>5, <2>6, <2>7, <2>8, <2>9 DEF Poller, SRecv
<1>11. CASE StopHandler
  BY <1>11 DEF TypeOK, StopHandler, reqVars, pollVars, cliVars, srvVars
<1>12. CASE DropCommands
  BY <1>12 DEF TypeOK, DropCommands, reqVars, pollVars, cliVars
<1>13. CASE UNCHANGED vars
  BY <1>13 DEF TypeOK, vars, reqVars, pollVars, cliVars, srvVars
<1> QED BY <1>1, <1>2, <1>3, <1>4, <1>5, <1>6, <1>7, <1>8, <1>9, <1>10, <1>11, <1>12, <1>13, <1>14
        DEF Next, Step, Returns, Finished

(* What the server is told of, action by action. *)
LEMMA MsgStep == TypeInv /\ [Next]_vars => MsgInv'
<1> SUFFICES ASSUME TypeInv, [Next]_vars PROVE MsgInv'
  OBVIOUS
<1> USE DEF TypeInv
<1>f. ASSUME UNCHANGED <<req, data, status, preg, pmsg>>,
             rpc' = rpc \/ rpc'["client"] \in {rpc["client"], "idle"},
             ppc' = ppc \/ ppc'[SRecv] \in {ppc[SRecv], "poll", "none", "exited"}
      PROVE  MsgInv'
  BY <1>f DEF MsgInv, HasRead
<1>g. "client" \in Ends /\ "server" \in Ends
  BY DEF Ends
<1>1. CASE link_request
  <2>1. rpc'["client"] = "write" /\ req' # 0
    BY <1>1, RequestAssumption DEF link_request, Goto, TypeOK, Ends, Msgs
  <2>2. UNCHANGED <<data, status, ppc, preg, pmsg>> /\ rpc["client"] = "idle"
    BY <1>1 DEF link_request, pollVars, At
  <2> QED BY <2>1, <2>2 DEF MsgInv, HasRead
<1>2. CASE link_request_send
  <2>1. rpc'["client"] = rpc["client"]
    BY <1>2, <1>g DEF link_request_send, Goto, TypeOK
  <2> QED BY <1>2, <2>1, <1>f DEF link_request_send, pollVars, cliVars
<1>3. CASE Returns
  <2>1. rpc'["client"] \in {rpc["client"], "idle"}
    BY <1>3, <1>g DEF Returns, ClientGivesUp, Answered, NotAnswered, ServerGivesUp, Goto, TypeOK
  <2> QED BY <1>3, <2>1, <1>f DEF Returns, ClientGivesUp, Answered, NotAnswered, ServerGivesUp,
                                  pollVars, cliVars
<1>4. ASSUME NEW e \in Ends, EventTimeout(e) PROVE MsgInv'
  BY <1>4, <1>f DEF EventTimeout, pollVars, cliVars
<1>5. ASSUME NEW e \in Ends, Connecter(e) PROVE MsgInv'
  <2>1. UNCHANGED <<req, data, status, preg, pmsg, rpc>>
    BY <1>5 DEF Connecter, link_shmem_connect, StartAckPoll, reqVars, cliVars
  <2>2. ppc'[SRecv] \in {ppc[SRecv], "poll"}
    BY <1>5, Names DEF Connecter, link_shmem_connect, StartAckPoll, TypeOK
  <2> QED BY <2>1, <2>2, <1>f
<1>6. ASSUME NEW e \in Ends, Requester(e) PROVE MsgInv'
  <2>0. UNCHANGED <<req, pollVars>>
    BY <1>6 DEF Requester, shmem_write, LoadStatus, SetNew, EventReceive, WakeAck, Woken, cliVars
  <2>1. CASE e = "client"
    <3>1. CASE shmem_write(e)
      <4>1. data'["c2s"] = req /\ rpc["client"] = "write"
        BY <2>1, <3>1, Names DEF shmem_write, At, TypeOK, Regions
      <4>2. req # 0
        BY <4>1 DEF MsgInv
      <4> QED BY <2>0, <4>1, <4>2 DEF MsgInv, HasRead, pollVars
    <3>2. CASE LoadStatus(e) \/ SetNew(e)
      <4>1. rpc["client"] \in {"load", "store"} /\ data' = data
        BY <2>1, <3>2 DEF LoadStatus, SetNew, At
      <4> QED BY <2>0, <4>1 DEF MsgInv, HasRead, pollVars
    <3>3. CASE EventReceive(e) \/ WakeAck(e)
      <4>1. rpc["client"] \in {"ack", "reply"} /\ UNCHANGED <<data, status>>
        BY <2>1, <3>3 DEF EventReceive, WakeAck, Woken, At
      <4> QED BY <2>0, <4>1 DEF MsgInv, HasRead, pollVars
    <3> QED BY <1>6, <3>1, <3>2, <3>3 DEF Requester
  <2>2. CASE e = "server"
    <3>1. rpc'["client"] = rpc["client"]
      BY <1>6, <2>2, <1>g DEF Requester, shmem_write, LoadStatus, SetNew, EventReceive, WakeAck, Woken, Goto, TypeOK
    <3>2. data'["c2s"] = data["c2s"] /\ status'["c2s"] = status["c2s"]
      BY <1>6, <2>2, Names DEF Requester, shmem_write, LoadStatus, SetNew, EventReceive, WakeAck, Woken, TypeOK, Regions
    <3> QED BY <2>0, <3>1, <3>2 DEF MsgInv, HasRead, pollVars
  <2> QED BY <2>1, <2>2 DEF Ends
<1>7. ASSUME NEW e \in Ends, Closer(e) PROVE MsgInv'
  BY <1>7, <1>f DEF Closer, link_shmem_close, AckPollStopped, RecvPollStopped, reqVars, pollVars, cliVars
<1>8. ASSUME NEW k \in Polls, Poller(k) PROVE MsgInv'
  <2>0. UNCHANGED <<req, data, rpc>>
    BY <1>8 DEF Poller, PollHit, shmem_read, PollLoad, ClearNew, StoreAck, link_recv_cmd, Deliver,
                SendEvent, PollExit, reqVars, cliVars
  <2>1. CASE PollHit(k)
    <3>1. UNCHANGED <<status, preg, pmsg>>
      BY <2>1 DEF PollHit
    <3>2. CASE k = SRecv
      <4>1. "NEW" \in status["c2s"] /\ ppc'[SRecv] = "read"
        BY <2>1, <3>2, Names DEF PollHit, PollGoto, TypeOK, SRecv
      <4> QED BY <2>0, <3>1, <4>1 DEF MsgInv, HasRead
    <3>3. CASE k # SRecv
      <4>1. ppc'[SRecv] = ppc[SRecv]
        BY <2>1, <3>3, Names DEF PollHit, PollGoto, TypeOK
      <4> QED BY <2>0, <3>1, <4>1 DEF MsgInv, HasRead
    <3> QED BY <3>2, <3>3
  <2>2. CASE shmem_read(k)
    <3>1. UNCHANGED <<status, preg>>
      BY <2>2 DEF shmem_read
    <3>2. CASE k = SRecv
      <4>1. ppc[SRecv] = "read" /\ pmsg'[SRecv] = data["c2s"]
        BY <2>2, <3>2, Names DEF shmem_read, TypeOK
      <4> QED BY <2>0, <3>1, <4>1 DEF MsgInv, HasRead
    <3>3. CASE k # SRecv
      <4>1. ppc'[SRecv] = ppc[SRecv] /\ pmsg'[SRecv] = pmsg[SRecv]
        BY <2>2, <3>3, Names DEF shmem_read, PollGoto, TypeOK
      <4> QED BY <2>0, <3>1, <4>1 DEF MsgInv, HasRead
    <3> QED BY <3>2, <3>3
  <2>3. CASE PollLoad(k) \/ ClearNew(k) \/ StoreAck(k)
    <3>0. pmsg' = pmsg
      BY <2>3 DEF PollLoad, ClearNew, StoreAck
    <3>1. CASE k = SRecv
      <4>1. HasRead(SRecv)
        BY <2>3, <3>1 DEF PollLoad, ClearNew, StoreAck, HasRead
      <4> QED BY <2>0, <3>0, <4>1 DEF MsgInv, HasRead
    <3>2. CASE k # SRecv
      <4>1. ppc'[SRecv] = ppc[SRecv]
        BY <2>3, <3>2, Names DEF PollLoad, ClearNew, StoreAck, PollGoto, TypeOK
      <4>2. CASE k = CAck
        <5>1. preg'[CAck] \subseteq preg[CAck] \cup status["c2s"]
          BY <2>3, <4>2, Names DEF PollLoad, ClearNew, StoreAck, TypeOK
        <5>2. status'["c2s"] \subseteq preg[CAck] \cup status["c2s"]
          BY <2>3, <4>2, Names DEF PollLoad, ClearNew, StoreAck, TypeOK, Regions, CAck
        <5> QED BY <2>0, <3>0, <4>1, <5>1, <5>2 DEF MsgInv, HasRead
      <4>3. CASE k # CAck
        <5>1. Watched(k) = "s2c"
          BY <3>2, <4>3, Names
        <5>2. status'["c2s"] = status["c2s"]
          BY <2>3, <5>1 DEF PollLoad, ClearNew, StoreAck, TypeOK, Regions
        <5>3. preg'[CAck] = preg[CAck]
          BY <2>3, <4>3, Names DEF PollLoad, ClearNew, StoreAck, TypeOK
        <5> QED BY <2>0, <3>0, <4>1, <5>2, <5>3 DEF MsgInv, HasRead
      <4> QED BY <4>2, <4>3
    <3> QED BY <3>1, <3>2
  <2>4. CASE k = SRecv /\ link_recv_cmd
    <3>1. ppc'[SRecv] \in {"poll", "panic"} /\ UNCHANGED <<status, preg>>
      BY <2>4, Names DEF link_recv_cmd, PollGoto, TypeOK, SRecv
    <3>2. HasRead(SRecv)
      BY <2>4 DEF link_recv_cmd, HasRead, SRecv
    <3> QED BY <2>0, <3>1, <3>2 DEF MsgInv, HasRead
  <2>5. CASE Deliver(k)
    <3>1. k # SRecv
      BY <2>5 DEF Deliver, SRecv
    <3>2. ppc'[SRecv] = ppc[SRecv] /\ pmsg'[SRecv] = pmsg[SRecv]
      BY <2>5, <3>1, Names DEF Deliver, PollGoto, TypeOK
    <3>3. UNCHANGED <<status, preg>>
      BY <2>5 DEF Deliver
    <3> QED BY <2>0, <3>2, <3>3 DEF MsgInv, HasRead
  <2>6. CASE SendEvent(k) \/ PollExit(k)
    <3>1. UNCHANGED <<status, preg, pmsg>>
      BY <2>6 DEF SendEvent, PollExit
    <3>2. ppc'[SRecv] \in {ppc[SRecv], "poll", "exited"}
      BY <2>6, Names DEF SendEvent, PollExit, PollGoto, AfterEvent, TypeOK, SRecv
    <3> QED BY <2>0, <3>1, <3>2, <1>f
  <2> QED BY <1>8, <2>1, <2>2, <2>3, <2>4, <2>5, <2>6 DEF Poller, SRecv
<1>9. CASE StopHandler \/ DropCommands
  BY <1>9, <1>f DEF StopHandler, DropCommands, reqVars, pollVars, cliVars
<1>10. CASE UNCHANGED vars
  BY <1>10, <1>f DEF vars, reqVars, pollVars, cliVars
<1> QED BY <1>1, <1>2, <1>3, <1>4, <1>5, <1>6, <1>7, <1>8, <1>9, <1>10 DEF Next, Step, Finished

(* Every variable has its type: no message is made up, and a command the   *)
(* server has received is a request of the client (the receive callback    *)
(* runs only when NEW announces one).                                      *)
THEOREM TypeCorrect == Spec => []TypeOK
<1>1. TypeInv /\ [Next]_vars => TypeInv'
  BY TypeStep, MsgStep DEF TypeInv
<1>2. TypeInv => TypeOK
  BY DEF TypeInv
<1> QED BY TypeInit, <1>1, <1>2, PTL DEF Spec

-------------------------------------------------------------------------------
(* Connect, close and shutdown. *)

(* A step of a polling task that runs neither starts nor ends it, and      *)
(* queues a command only if the client has sent one.                       *)
LEMMA PollerRuns ==
  ASSUME TypeInv, CloseInv, NEW k \in Polls, Poller(k)
  PROVE  CloseInv'
<1>1. UNCHANGED <<rpc, req, data, link, down>>
  BY DEF Poller, PollHit, shmem_read, PollLoad, ClearNew, StoreAck, link_recv_cmd, Deliver,
         SendEvent, PollExit, reqVars, cliVars
<1>2. \A q \in Polls : Gone(q) => Gone(q)'
  <2>1. PICK l : ppc' = [ppc EXCEPT ![k] = l]
    BY DEF Poller, PollHit, shmem_read, PollLoad, ClearNew, StoreAck, link_recv_cmd, Deliver,
           SendEvent, PollExit, PollGoto
  <2>2. ~Gone(k)
    BY DEF Poller, PollHit, shmem_read, PollLoad, ClearNew, StoreAck, link_recv_cmd, Deliver,
           SendEvent, PollExit, Gone
  <2> QED BY <2>1, <2>2 DEF Gone, TypeInv, TypeOK
<1>3. sq' = sq \/ link_recv_cmd
  BY DEF Poller, PollHit, shmem_read, PollLoad, ClearNew, StoreAck, Deliver,
         SendEvent, PollExit, srvVars
<1>4. CASE sq' = sq
  BY <1>1, <1>2, <1>4 DEF CloseInv, Polls
<1>5. CASE link_recv_cmd
  <2>1. ppc[SRecv] = "deliver"
    BY <1>5 DEF link_recv_cmd, SRecv
  <2>2. data["c2s"] # 0
    BY <2>1 DEF TypeInv, MsgInv
  <2>3. link["server"] # "closed" /\ link["client"] # "none"
    BY <2>1, <2>2 DEF CloseInv, Gone, SRecv, Ends
  <2> QED BY <1>1, <1>2, <2>3 DEF CloseInv, Polls
<1> QED BY <1>3, <1>4, <1>5

(* Connect, close and shutdown, action by action. *)
LEMMA CloseStep == TypeInv /\ CloseInv /\ [Next]_vars => CloseInv'
<1> SUFFICES ASSUME TypeInv, CloseInv, [Next]_vars PROVE CloseInv'
  OBVIOUS
<1>g. "client" \in Ends /\ "server" \in Ends /\ \A e \in Ends : e = "client" \/ e = "server"
  BY DEF Ends
<1>t. /\ rpc = [e \in Ends |-> rpc[e]] /\ link = [e \in Ends |-> link[e]]
      /\ ppc = [k \in Polls |-> ppc[k]]
  BY DEF TypeInv, TypeOK
<1>1. CASE link_request
  <2>1. rpc'["client"] = "write" /\ rpc'["server"] = rpc["server"]
    BY <1>1, <1>t, <1>g DEF link_request, Goto
  <2>2. UNCHANGED <<data, ppc, sq, link, down>> /\ link["client"] = "open"
    BY <1>1 DEF link_request, pollVars, srvVars
  <2> QED BY <2>1, <2>2, <1>g DEF CloseInv, Gone
<1>2. CASE link_request_send
  <2>1. rpc'["server"] = "write" /\ rpc'["client"] = rpc["client"]
    BY <1>2, <1>t, <1>g DEF link_request_send, Goto
  <2>2. UNCHANGED <<req, data, ppc, link, down>> /\ sq # << >> /\ down = "up"
    BY <1>2 DEF link_request_send, pollVars, cliVars
  <2>3. link["client"] # "none" /\ link["server"] = "open"
    BY <2>2 DEF CloseInv
  <2> QED BY <2>1, <2>2, <2>3, <1>g DEF CloseInv, Gone
<1>3. CASE Returns
  <2>1. \A e \in Ends : rpc'[e] \in {rpc[e], "idle"}
    BY <1>3, <1>t, <1>g DEF Returns, ClientGivesUp, Answered, NotAnswered, ServerGivesUp, Goto
  <2>2. UNCHANGED <<req, data, ppc, sq, link, down>>
    BY <1>3 DEF Returns, ClientGivesUp, Answered, NotAnswered, ServerGivesUp, pollVars,
                cliVars, srvVars
  <2> QED BY <2>1, <2>2, <1>g DEF CloseInv, Gone
<1>11. ASSUME NEW e \in Ends, EventTimeout(e) PROVE CloseInv'
  BY <1>11, <1>g DEF EventTimeout, CloseInv, Gone, pollVars, cliVars, srvVars
<1>4. ASSUME NEW e \in Ends, Connecter(e) PROVE CloseInv'
  <2>0. UNCHANGED <<req, data, rpc, sq, down>> /\ rpc[e] = "idle"
    BY <1>4 DEF Connecter, link_shmem_connect, StartAckPoll, reqVars, cliVars, srvVars, At
  <2>1. CASE link_shmem_connect(e)
    <3>1. /\ link[e] = "none"
          /\ link'[e] \in {"starting", "closed"}
          /\ link'[e] = "closed" => ppc' = ppc
          /\ \A d \in Ends : d # e => link'[d] = link[d]
      BY <2>1, <1>t DEF link_shmem_connect, LinkStep
    <3>2. \A k \in Polls : k # <<e, "recv">> => ppc'[k] = ppc[k]
      BY <2>1, <1>t DEF link_shmem_connect
    <3>3. e = "client" => link["server"] = "open"
      BY <2>1 DEF link_shmem_connect
    <3>4. \A d \in Ends : Gone(<<d, "ack">>)' = Gone(<<d, "ack">>)
      BY <3>2 DEF Gone, Polls
    <3>5. \A d \in Ends : d # e => Gone(<<d, "recv">>)' = Gone(<<d, "recv">>)
      BY <3>2 DEF Gone, Polls
    <3>6. link'[e] = "closed" => Gone(<<e, "recv">>)' = Gone(<<e, "recv">>)
      BY <3>1 DEF Gone
    <3> QED BY <2>0, <3>1, <3>3, <3>4, <3>5, <3>6, <1>g DEF CloseInv
  <2>2. CASE StartAckPoll(e)
    <3>1. /\ link[e] = "starting"
          /\ link'[e] \in {"open", "recv"}
          /\ link'[e] = "recv" => ppc' = ppc
          /\ \A d \in Ends : d # e => link'[d] = link[d]
      BY <2>2, <1>t DEF StartAckPoll, LinkStep
    <3>2. \A k \in Polls : k # <<e, "ack">> => ppc'[k] = ppc[k]
      BY <2>2, <1>t DEF StartAckPoll
    <3>4. \A d \in Ends : Gone(<<d, "recv">>)' = Gone(<<d, "recv">>)
      BY <3>2 DEF Gone, Polls
    <3>5. \A d \in Ends : d # e => Gone(<<d, "ack">>)' = Gone(<<d, "ack">>)
      BY <3>2 DEF Gone, Polls
    <3>6. link'[e] = "recv" => Gone(<<e, "ack">>)' = Gone(<<e, "ack">>)
      BY <3>1 DEF Gone
    <3> QED BY <2>0, <3>1, <3>4, <3>5, <3>6, <1>g DEF CloseInv
  <2> QED BY <1>4, <2>1, <2>2 DEF Connecter
<1>5. ASSUME NEW e \in Ends, Requester(e) PROVE CloseInv'
  <2>1. \A d \in Ends : d # e => rpc'[d] = rpc[d]
    BY <1>5, <1>t DEF Requester, shmem_write, LoadStatus, SetNew, EventReceive, WakeAck, Woken, Goto
  <2>2. rpc[e] # "idle" /\ UNCHANGED <<req, ppc, sq, link, down>>
    BY <1>5 DEF Requester, shmem_write, LoadStatus, SetNew, EventReceive, WakeAck, Woken, At, pollVars, cliVars, srvVars
  <2>3. link[e] = "open"
    BY <2>2, <1>g DEF CloseInv
  <2>5. e = "server" => data'["c2s"] = data["c2s"]
    BY <1>5, Names DEF Requester, shmem_write, LoadStatus, SetNew, EventReceive, WakeAck, Woken, TypeInv, TypeOK, Regions
  <2>4. e = "server" => down = "up"
    BY <2>2 DEF CloseInv
  <2> QED BY <2>1, <2>2, <2>3, <2>4, <2>5, <1>g DEF CloseInv, Gone
<1>6. ASSUME NEW e \in Ends, Closer(e) PROVE CloseInv'
  <2>1. UNCHANGED <<data, ppc, req, sq, down, rpc>>
    BY <1>6 DEF Closer, link_shmem_close, AckPollStopped, RecvPollStopped, pollVars, reqVars, cliVars, srvVars
  <2>2. \A d \in Ends : d # e => link'[d] = link[d]
    BY <1>6, <1>t DEF Closer, link_shmem_close, AckPollStopped, RecvPollStopped, LinkStep
  <2>3. CASE link_shmem_close(e)
    <3>1. /\ link[e] = "open" /\ link'[e] = "ack" /\ rpc[e] = "idle"
          /\ e = "server" => down = "stopped"
      BY <2>3, <1>t DEF link_shmem_close, LinkStep, At
    <3> QED BY <2>1, <2>2, <3>1, <1>g DEF CloseInv, Gone
  <2>4. CASE AckPollStopped(e)
    <3>1. link[e] = "ack" /\ link'[e] = "recv" /\ Gone(<<e, "ack">>)
      BY <2>4, <1>t DEF AckPollStopped, LinkStep, Gone
    <3> QED BY <2>1, <2>2, <3>1, <1>g DEF CloseInv, Gone
  <2>5. CASE RecvPollStopped(e)
    <3>1. link[e] = "recv" /\ link'[e] = "closed" /\ Gone(<<e, "recv">>)
      BY <2>5, <1>t DEF RecvPollStopped, LinkStep, Gone
    <3> QED BY <2>1, <2>2, <3>1, <1>g DEF CloseInv, Gone
  <2> QED BY <1>6, <2>3, <2>4, <2>5 DEF Closer
<1>7. ASSUME NEW k \in Polls, Poller(k) PROVE CloseInv'
  BY <1>7, PollerRuns
<1>8. CASE StopHandler
  BY <1>8, <1>g DEF StopHandler, CloseInv, Gone, reqVars, pollVars, cliVars, srvVars
<1>9. CASE DropCommands
  BY <1>9, <1>g DEF DropCommands, CloseInv, Gone, reqVars, pollVars, cliVars
<1>10. CASE UNCHANGED vars
  BY <1>10 DEF CloseInv, Gone, vars, reqVars, pollVars, cliVars, srvVars
<1> QED BY <1>1, <1>2, <1>3, <1>4, <1>5, <1>6, <1>7, <1>8, <1>9, <1>10, <1>11 DEF Next, Step, Finished

(* Which tasks of an end run, and who may be waiting on its link, follows  *)
(* how far connect, close and shutdown have got, whatever timeouts the     *)
(* callers ask for and however the tasks are scheduled.                    *)
THEOREM CloseCorrect == Spec => [](TypeInv /\ CloseInv)
<1>1. Init => CloseInv
  BY Names DEF Init, CloseInv, Gone, Ends, Regions, SRecv, CRecv, CAck, SAck
<1>2. TypeInv /\ CloseInv /\ [Next]_vars => (TypeInv /\ CloseInv)'
  BY TypeStep, MsgStep, CloseStep DEF TypeInv
<1> QED BY TypeInit, <1>1, <1>2, PTL DEF Spec

(* link_shmem_close and a failed link_shmem_connect free a link that       *)
(* nothing uses: its polling tasks have exited and no requester waits.     *)
THEOREM FreedUnused == Spec => []ClosedUnused
<1>1. ASSUME CloseInv PROVE ClosedUnused
  <2> SUFFICES ASSUME NEW e \in Ends, link[e] = "closed"
               PROVE  /\ rpc[e] = "idle"
                      /\ \A k \in Polls : k[1] = e => ppc[k] \in {"none", "exited"}
    BY DEF ClosedUnused
  <2>1. rpc[e] = "idle" /\ Gone(<<e, "recv">>) /\ Gone(<<e, "ack">>)
    BY <1>1 DEF CloseInv
  <2>2. \A k \in Polls : k[1] = e => k = <<e, "recv">> \/ k = <<e, "ack">>
    BY DEF Polls
  <2> QED BY <2>1, <2>2 DEF Gone
<1> QED BY <1>1, CloseCorrect, PTL

(* shutdown drops the commands after the links are closed, so none with a  *)
(* freed link is ever queued again.                                        *)
THEOREM NoneStale == Spec => []NoStaleCommands
<1>1. CloseInv => NoStaleCommands
  BY DEF CloseInv, NoStaleCommands
<1> QED BY <1>1, CloseCorrect, PTL

-------------------------------------------------------------------------------
(* The exchange of a message. *)

(* The polling tasks at the two sides of an exchange. *)
LEMMA Sides ==
  ASSUME NEW e \in Ends
  PROVE  /\ Peer(e) \in Ends /\ Peer(e) # e /\ Peer(Peer(e)) = e
         /\ \A d \in Ends : d = e \/ d = Peer(e)
         /\ <<e, "ack">> \in Polls /\ <<e, "recv">> \in Polls
         /\ <<e, "ack">> # <<Peer(e), "recv">> /\ <<e, "ack">> # <<"server", "recv">>
         /\ <<e, "ack">> # <<e, "recv">> /\ <<e, "recv">> # <<Peer(e), "ack">>
         /\ <<e, "ack">> # <<Peer(e), "ack">> /\ <<e, "recv">> # <<Peer(e), "recv">>
         /\ Watched(<<e, "ack">>) = Out(e) /\ Watched(<<e, "recv">>) = In(e)
         /\ Out(e) \in Regions /\ In(e) \in Regions /\ Out(e) # In(e)
         /\ In(e) = Out(Peer(e)) /\ In(Peer(e)) = Out(e)
BY DEF Ends, Peer, Polls, Regions, Watched, Out, In

(* While the polling tasks have priority, a requester runs only when those *)
(* of its end rest.                                                        *)
LEMMA Quiet ==
  ASSUME PollFirst, NEW e \in Ends, Scheduled(e)
  PROVE  Resting(ppc[<<e, "ack">>]) /\ Resting(ppc[<<e, "recv">>])
<1>1. <<e, "ack">> \in Polls /\ <<e, "recv">> \in Polls
  BY Sides
<1> QED BY <1>1 DEF Scheduled, Resting

(* A step that leaves the requester of e and its exchange alone. *)
LEMMA WaitFrame ==
  ASSUME NEW e \in Ends, WaitInv,
         rpc'[e] = rpc[e] /\ wait'[e] = wait[e] /\ event'[e] = event[e],
         rctx'[e].tid = rctx[e].tid, status'[Out(e)] = status[Out(e)],
         ppc'[<<e, "ack">>] = ppc[<<e, "ack">>] \/ Resting(ppc'[<<e, "ack">>]),
         \/ ppc'[<<Peer(e), "recv">>] = ppc[<<Peer(e), "recv">>]
         \/ Resting(ppc[<<Peer(e), "recv">>])
  PROVE  /\ rpc'[e] \notin {"idle", "assert"} => rctx'[e].tid
         /\ wait'[e] # "none" => rpc'[e] \in {"ack", "reply"}
         /\ Coming(e)'
<1>1. /\ rpc[e] \notin {"idle", "assert"} => rctx[e].tid
      /\ wait[e] # "none" => rpc[e] \in {"ack", "reply"}
      /\ Coming(e)
  BY DEF WaitInv
<1> QED BY <1>1 DEF Coming, Resting

(* The steps of the polling tasks. *)
LEMMA WaitPoller ==
  ASSUME TypeInv, WaitInv, NEW k \in Polls, Poller(k), NEW e \in Ends
  PROVE  /\ rpc'[e] \notin {"idle", "assert"} => rctx'[e].tid
         /\ wait'[e] # "none" => rpc'[e] \in {"ack", "reply"}
         /\ Coming(e)'
<1> USE DEF TypeInv
<1>0. /\ rpc[e] \notin {"idle", "assert"} => rctx[e].tid
      /\ wait[e] # "none" => rpc[e] \in {"ack", "reply"}
      /\ Coming(e)
  BY DEF WaitInv
<1>1. rpc' = rpc
  BY DEF Poller, PollHit, shmem_read, PollLoad, ClearNew, StoreAck, link_recv_cmd, Deliver,
         SendEvent, PollExit, reqVars
<1>2. rctx'[e].tid = rctx[e].tid
  <2>1. CASE Deliver(k)
    BY <2>1, RegionOf, AckedWrite, ReadWrite DEF Deliver
  <2>2. CASE ~Deliver(k)
    BY <2>2 DEF Poller, PollHit, shmem_read, PollLoad, ClearNew, StoreAck, link_recv_cmd,
                SendEvent, PollExit, reqVars
  <2> QED BY <2>1, <2>2
<1>3. /\ wait'[e] = wait[e] \/ (wait[e] = "blocked" /\ wait'[e] = "event")
      /\ event[e] => event'[e]
  <2>1. CASE SendEvent(k)
    BY <2>1, RegionOf DEF SendEvent, TypeOK
  <2>2. CASE ~SendEvent(k)
    BY <2>2 DEF Poller, PollHit, shmem_read, PollLoad, ClearNew, StoreAck, link_recv_cmd, Deliver,
                PollExit, reqVars
  <2> QED BY <2>1, <2>2
<1>6. \A q \in Polls : q # k => ppc'[q] = ppc[q]
  <2>1. PICK l : ppc' = [ppc EXCEPT ![k] = l]
    BY DEF Poller, PollHit, shmem_read, PollLoad, ClearNew, StoreAck, link_recv_cmd, Deliver,
           SendEvent, PollExit, PollGoto
  <2> QED BY <2>1 DEF TypeOK
<1>7. <<Peer(e), "recv">> \in Polls /\ <<e, "ack">> \in Polls /\ <<e, "ack">> # <<Peer(e), "recv">>
  BY Sides
<1>4. ASSUME rpc[e] = "ack", wait'[e] \in {"none", "blocked"}, ~event'[e]
      PROVE  /\ Resting(ppc'[<<e, "ack">>]) \/ ppc'[<<e, "ack">>] \in {"deliver", "send"}
             /\ \/ status'[Out(e)] \cap {"NEW", "ACK"} # {}
                \/ ppc'[<<Peer(e), "recv">>] \in {"loadAck", "storeAck"}
  <2>1. /\ Resting(ppc[<<e, "ack">>]) \/ ppc[<<e, "ack">>] \in {"deliver", "send"}
        /\ \/ status[Out(e)] \cap {"NEW", "ACK"} # {}
           \/ ppc[<<Peer(e), "recv">>] \in {"loadAck", "storeAck"}
        /\ rctx[e].tid
    BY <1>0, <1>3, <1>4 DEF Coming
  <2>2. CASE k = <<e, "ack">>
    <3>1. status' = status
      BY <2>1, <2>2 DEF Poller, PollHit, shmem_read, PollLoad, ClearNew, StoreAck, link_recv_cmd,
                        Deliver, SendEvent, PollExit, Resting
    <3>2. ppc'[<<Peer(e), "recv">>] = ppc[<<Peer(e), "recv">>]
      BY <2>2, <1>6, <1>7
    <3>3. ~SendEvent(k)
      <4>1. SUFFICES ASSUME SendEvent(k) PROVE FALSE
        OBVIOUS
      <4>2. wait'[e] = "event" \/ event'[e]
        BY <2>1, <2>2, <4>1 DEF SendEvent, TypeOK
      <4> QED BY <1>4, <4>2
    <3>4. Resting(ppc'[<<e, "ack">>]) \/ ppc'[<<e, "ack">>] \in {"deliver", "send"}
      BY <2>1, <2>2, <3>3 DEF Poller, PollHit, shmem_read, PollLoad, ClearNew, StoreAck, link_recv_cmd,
                              Deliver, PollExit, PollGoto, Resting, TypeOK
    <3> QED BY <2>1, <3>1, <3>2, <3>4
  <2>3. CASE k # <<e, "ack">>
    <3>1. ppc'[<<e, "ack">>] = ppc[<<e, "ack">>]
      BY <2>3, <1>6, <1>7
    <3>2. CASE k = <<Peer(e), "recv">>
      <4>0. Watched(k) = Out(e) /\ Out(e) \in Regions /\ k[2] = "recv"
        BY <3>2, Sides
      <4>1. CASE ClearNew(k)
        <5>1. ppc'[k] = "loadAck"
          BY <4>1 DEF ClearNew, PollGoto, TypeOK
        <5> QED BY <2>1, <3>1, <3>2, <5>1
      <4>2. CASE StoreAck(k)
        <5>1. "ACK" \in status'[Out(e)]
          BY <4>0, <4>2 DEF StoreAck, TypeOK
        <5> QED BY <2>1, <3>1, <5>1
      <4>3. CASE ~ClearNew(k) /\ ~StoreAck(k)
        <5>1. status' = status
          BY <4>3 DEF Poller, PollHit, shmem_read, PollLoad, link_recv_cmd, Deliver, SendEvent, PollExit
        <5>2. ppc[k] \in {"loadAck", "storeAck"} => ppc'[k] = "storeAck"
          BY <4>3, <3>2 DEF Poller, PollHit, shmem_read, PollLoad, link_recv_cmd, Deliver, SendEvent,
                      PollExit, PollGoto, TypeOK
        <5> QED BY <2>1, <3>1, <3>2, <5>1, <5>2
      <4> QED BY <4>1, <4>2, <4>3
    <3>3. CASE k # <<Peer(e), "recv">>
      <4>1. Watched(k) # Out(e) /\ Out(e) \in Regions
        <5>0. PICK d \in Ends : k = <<d, "ack">> \/ k = <<d, "recv">>
          BY DEF Polls
        <5>1. d = e \/ d = Peer(e)
          BY Sides
        <5>2. k = <<e, "recv">> \/ k = <<Peer(e), "ack">>
          BY <2>3, <3>3, <5>0, <5>1
        <5>3. Watched(<<e, "recv">>) # Out(e) /\ Watched(<<Peer(e), "ack">>) # Out(e)
          BY Sides
        <5> QED BY <5>2, <5>3, Sides
      <4>2. status'[Out(e)] = status[Out(e)]
        BY <4>1 DEF Poller, PollHit, shmem_read, PollLoad, ClearNew, StoreAck, link_recv_cmd,
                    Deliver, SendEvent, PollExit, TypeOK
      <4>3. ppc'[<<Peer(e), "recv">>] = ppc[<<Peer(e), "recv">>]
        BY <3>3, <1>6, <1>7
      <4> QED BY <2>1, <3>1, <4>2, <4>3
    <3> QED BY <3>2, <3>3
  <2> QED BY <2>2, <2>3
<1>5. Coming(e)'
  BY <1>1, <1>4 DEF Coming
<1> QED BY <1>0, <1>1, <1>2, <1>3, <1>5

(* The steps of the requester of d, for the exchange of e. *)
LEMMA WaitRequester ==
  ASSUME PollFirst, TypeInv, WaitInv, NEW d \in Ends, Requester(d), NEW e \in Ends
  PROVE  /\ rpc'[e] \notin {"idle", "assert"} => rctx'[e].tid
         /\ wait'[e] # "none" => rpc'[e] \in {"ack", "reply"}
         /\ Coming(e)'
<1> USE DEF TypeInv
<1>0. /\ rpc[d] \notin {"idle", "assert"} => rctx[d].tid
      /\ wait[d] # "none" => rpc[d] \in {"ack", "reply"}
      /\ Coming(d)
  BY DEF WaitInv
<1>1. Resting(ppc[<<d, "ack">>]) /\ rpc[d] \notin {"idle", "assert"} /\ ppc' = ppc
  BY Quiet DEF Requester, shmem_write, LoadStatus, SetNew, EventReceive, WakeAck, Woken, At, pollVars
<1>2. CASE e # d
  <2>1. Out(e) # Out(d)
    BY <1>2 DEF Ends, Out
  <2>2. rpc'[e] = rpc[e] /\ wait'[e] = wait[e] /\ event'[e] = event[e] /\ status'[Out(e)] = status[Out(e)]
    BY <1>2, <2>1, RegionOf DEF Requester, shmem_write, LoadStatus, SetNew, EventReceive, WakeAck, Woken,
                                Goto, TypeOK
  <2>3. rctx'[e] = rctx[e]
    BY <1>2 DEF Requester, shmem_write, LoadStatus, SetNew, EventReceive, WakeAck, TypeOK
  <2> QED BY <1>1, <2>2, <2>3, WaitFrame
<1>3. CASE e = d
  <2>1. CASE shmem_write(d)
    <3>1. rpc'[d] = "load" /\ wait' = wait /\ rpc[d] = "write"
      BY <2>1 DEF shmem_write, At, Goto, TypeOK
    <3>2. rctx'[d].tid = rctx[d].tid
      BY <2>1, AckedWrite DEF shmem_write
    <3> QED BY <1>0, <1>1, <1>3, <3>1, <3>2 DEF Coming
  <2>2. CASE LoadStatus(d)
    <3>1. rpc'[d] = "store" /\ UNCHANGED <<wait, rctx>> /\ rpc[d] = "load"
      BY <2>2 DEF LoadStatus, At, Goto, TypeOK
    <3> QED BY <1>0, <1>1, <1>3, <3>1 DEF Coming
  <2>3. CASE SetNew(d)
    <3>1. /\ rpc'[d] = "ack" /\ UNCHANGED <<wait, rctx>> /\ rpc[d] = "store"
          /\ "NEW" \in status'[Out(d)]
      BY <2>3, RegionOf DEF SetNew, At, Goto, TypeOK
    <3> QED BY <1>0, <1>1, <1>3, <3>1 DEF Coming
  <2>4. CASE EventReceive(d)
    <3>1. /\ UNCHANGED <<rpc, rctx, status>> /\ wait[d] = "none" /\ rpc[d] \in {"ack", "reply"}
          /\ wait'[d] = IF event[d] THEN "event" ELSE "blocked"
      BY <2>4 DEF EventReceive, TypeOK
    <3> QED BY <1>0, <1>1, <1>3, <3>1 DEF Coming
  <2>5. CASE WakeAck(d)
    <3>1. wait'[d] = "none" /\ rctx'[d].tid = (d = "client")
      BY <2>5, TidWrite DEF WakeAck, Woken, TypeOK
    <3>2. rpc'[d] \in {"assert", IF d = "client" THEN "reply" ELSE "idle"}
      BY <2>5 DEF WakeAck, Goto, TypeOK
    <3> QED BY <1>3, <3>1, <3>2 DEF Coming, Ends
  <2> QED BY <2>1, <2>2, <2>3, <2>4, <2>5 DEF Requester
<1> QED BY <1>2, <1>3

(* The exchange of an end that waits for an ACK, action by action. *)
LEMMA WaitStep == PollFirst /\ TypeInv /\ WaitInv /\ [Next]_vars => WaitInv'
<1> SUFFICES ASSUME PollFirst, TypeInv, WaitInv, [Next]_vars, NEW e \in Ends
             PROVE  /\ rpc'[e] \notin {"idle", "assert"} => rctx'[e].tid
                    /\ wait'[e] # "none" => rpc'[e] \in {"ack", "reply"}
                    /\ Coming(e)'
  BY DEF WaitInv
<1> USE DEF TypeInv
<1>0. /\ rpc[e] \notin {"idle", "assert"} => rctx[e].tid
      /\ wait[e] # "none" => rpc[e] \in {"ack", "reply"}
      /\ Coming(e)
  BY DEF WaitInv
<1>e. "client" \in Ends /\ "server" \in Ends /\ (e = "client" \/ e = "server")
  BY DEF Ends
<1>1. CASE link_request
  <2>1. req + 1 \in Msgs
    BY <1>1, RequestAssumption DEF link_request, TypeOK, Msgs
  <2>2. rctx'["client"].tid /\ rctx'["server"] = rctx["server"]
    BY <1>1, <2>1, RequestWrite DEF link_request
  <2>3. /\ rpc'["client"] = "write" /\ rpc["client"] = "idle" /\ rpc'["server"] = rpc["server"]
        /\ UNCHANGED <<wait, event, status, ppc>>
    BY <1>1 DEF link_request, At, Goto, TypeOK, Ends, pollVars
  <2>4. CASE e = "client"
    BY <1>0, <2>2, <2>3, <2>4 DEF Coming
  <2>5. CASE e = "server"
    BY <2>2, <2>3, <2>5, WaitFrame
  <2> QED BY <1>e, <2>4, <2>5
<1>2. CASE link_request_send
  <2>2. rctx'["server"].tid /\ rctx'["client"] = rctx["client"]
    BY <1>2, <1>e, TidWrite DEF link_request_send
  <2>3. /\ rpc'["server"] = "write" /\ rpc["server"] = "idle" /\ rpc'["client"] = rpc["client"]
        /\ UNCHANGED <<wait, event, status, ppc>>
    BY <1>2 DEF link_request_send, At, Goto, TypeOK, Ends, pollVars
  <2>4. CASE e = "server"
    BY <1>0, <2>2, <2>3, <2>4 DEF Coming
  <2>5. CASE e = "client"
    BY <2>2, <2>3, <2>5, WaitFrame
  <2> QED BY <1>e, <2>4, <2>5
<1>3. CASE Returns
  <2>1. PICK d \in Ends :
          /\ rpc'[d] = "idle" /\ wait'[d] = "none"
          /\ \A f \in Ends : f # d => rpc'[f] = rpc[f] /\ wait'[f] = wait[f]
          /\ rctx' = rctx \/ rctx' = [rctx EXCEPT ![d].tid = FALSE]
    BY <1>3, <1>e DEF Returns, ClientGivesUp, Answered, NotAnswered, ServerGivesUp, Woken, Goto, TypeOK
  <2>2. UNCHANGED <<event, status, ppc>>
    BY <1>3 DEF Returns, ClientGivesUp, Answered, NotAnswered, ServerGivesUp, pollVars
  <2>3. CASE e = d
    BY <2>1, <2>3 DEF Coming
  <2>4. CASE e # d
    <3>1. rctx'[e].tid = rctx[e].tid
      BY <2>1, <2>4, TidWrite
    <3> QED BY <2>1, <2>2, <2>4, <3>1, WaitFrame
  <2> QED BY <2>3, <2>4
<1>4. ASSUME NEW d \in Ends, EventTimeout(d) PROVE /\ rpc'[e] \notin {"idle", "assert"} => rctx'[e].tid
                                                   /\ wait'[e] # "none" => rpc'[e] \in {"ack", "reply"}
                                                   /\ Coming(e)'
  <2>1. UNCHANGED <<rpc, rctx, event, status, ppc>>
    BY <1>4 DEF EventTimeout, pollVars
  <2>2. wait[d] = "blocked" /\ wait'[d] = "timeout" /\ (e # d => wait'[e] = wait[e])
    BY <1>4 DEF EventTimeout, TypeOK
  <2>3. CASE e = d
    BY <1>0, <2>1, <2>2, <2>3 DEF Coming
  <2>4. CASE e # d
    BY <2>1, <2>2, <2>4, WaitFrame
  <2> QED BY <2>3, <2>4
<1>5. ASSUME NEW d \in Ends, Connecter(d) PROVE /\ rpc'[e] \notin {"idle", "assert"} => rctx'[e].tid
                                                /\ wait'[e] # "none" => rpc'[e] \in {"ack", "reply"}
                                                /\ Coming(e)'
  <2>1. UNCHANGED <<rpc, rctx, wait, event, status>>
    BY <1>5 DEF Connecter, link_shmem_connect, StartAckPoll, reqVars
  <2>2. Resting(ppc[<<d, "ack">>]) /\ Resting(ppc[<<d, "recv">>])
    BY <1>5, Quiet DEF Connecter, link_shmem_connect, StartAckPoll, At
  <2>3. \A q \in Polls : ppc'[q] = ppc[q] \/ (q \in {<<d, "ack">>, <<d, "recv">>} /\ ppc'[q] = "poll")
    BY <1>5 DEF Connecter, link_shmem_connect, StartAckPoll, TypeOK
  <2>4. <<Peer(e), "recv">> \in Polls /\ <<e, "ack">> \in Polls
    BY Sides
  <2>5. /\ ppc'[<<e, "ack">>] = ppc[<<e, "ack">>] \/ Resting(ppc'[<<e, "ack">>])
        /\ \/ ppc'[<<Peer(e), "recv">>] = ppc[<<Peer(e), "recv">>]
           \/ Resting(ppc[<<Peer(e), "recv">>])
    BY <2>2, <2>3, <2>4 DEF Resting
  <2> QED BY <2>1, <2>5, WaitFrame
<1>6. ASSUME NEW d \in Ends, Requester(d) PROVE /\ rpc'[e] \notin {"idle", "assert"} => rctx'[e].tid
                                                /\ wait'[e] # "none" => rpc'[e] \in {"ack", "reply"}
                                                /\ Coming(e)'
  BY <1>6, WaitRequester
<1>7. ASSUME NEW k \in Polls, Poller(k) PROVE /\ rpc'[e] \notin {"idle", "assert"} => rctx'[e].tid
                                              /\ wait'[e] # "none" => rpc'[e] \in {"ack", "reply"}
                                              /\ Coming(e)'
  BY <1>7, WaitPoller
<1>8. CASE (\E d \in Ends : Closer(d)) \/ StopHandler \/ DropCommands \/ UNCHANGED vars
  <2>1. UNCHANGED <<rpc, rctx, wait, event, status, ppc>>
    BY <1>8 DEF Closer, link_shmem_close, AckPollStopped, RecvPollStopped, StopHandler, DropCommands,
                vars, reqVars, pollVars
  <2> QED BY <2>1, WaitFrame
<1> QED BY <1>1, <1>2, <1>3, <1>4, <1>5, <1>6, <1>7, <1>8 DEF Next, Step, Finished

(* The loads and stores of the two ends lose no status bit while the       *)
(* polling tasks have priority, whatever has timed out before: a requester *)
(* that waits for an ACK has its message, or an ACK, on the way.           *)
THEOREM NothingLost == PollFirst /\ Spec => []MessageOrAckInFlight
<1>1. Init => WaitInv
  BY DEF Init, WaitInv, Coming, Ends
<1>2. PollFirst /\ TypeInv /\ WaitInv /\ [Next]_vars => (TypeInv /\ WaitInv)'
  BY TypeStep, MsgStep, WaitStep DEF TypeInv
<1>3. ASSUME TypeInv, WaitInv PROVE MessageOrAckInFlight
  <2> SUFFICES ASSUME NEW e \in Ends, rpc[e] = "ack", wait[e] # "timeout"
               PROVE  \/ event[e] \/ wait[e] = "event"
                      \/ status[Out(e)] \cap {"NEW", "ACK"} # {}
                      \/ \E k \in Polls : Watched(k) = Out(e) /\ ppc[k] \notin {"none", "poll", "exited"}
    BY DEF MessageOrAckInFlight
  <2>1. Coming(e) /\ wait[e] \in {"none", "blocked", "event"}
    BY <1>3 DEF WaitInv, TypeInv, TypeOK
  <2>2. <<Peer(e), "recv">> \in Polls /\ Watched(<<Peer(e), "recv">>) = Out(e)
    BY Sides
  <2> QED BY <2>1, <2>2 DEF Coming
<1>4. SUFFICES ASSUME PollFirst PROVE Spec => []MessageOrAckInFlight
  OBVIOUS
<1>5. TypeInv /\ WaitInv /\ [Next]_vars => (TypeInv /\ WaitInv)'
  BY <1>2, <1>4
<1> QED BY TypeInit, <1>1, <1>3, <1>5, PTL DEF Spec

====
