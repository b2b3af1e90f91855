-------------------------------- MODULE LinkMbox --------------------------------
(***************************************************************************)
(* Mailbox links: lib/drivers/hpsc-mbox.c and lib/hpsc/link-mbox.c on one   *)
(* mailbox block, with the remote processor at the other side of it.       *)
(*                                                                         *)
(* A channel carries one message and two events: RCV (A), set by the       *)
(* sender and cleared by the receiver, and ACK (B), set by the receiver    *)
(* and cleared by the sender.  The local interrupt handlers preempt local  *)
(* tasks and are not preempted by them, but every register access of       *)
(* either side may come between two accesses of the other.  Messages on a  *)
(* channel are numbered.  The wait for an ACK may time out at either side, *)
(* and the next message is written all the same.  The remote keeps the     *)
(* protocol the note in hpsc-mbox.h prescribes (external: it is not part   *)
(* of this repository).                                                    *)
(***************************************************************************)
EXTENDS Naturals, Sequences, FiniteSets, SequencesExt

CONSTANTS Chans,        \* the channels of the block
          Links,        \* the links connected, each once
          Servers,      \* those this processor serves; it is the client of the others
          From, To,     \* channel each link receives on, sends on
          RemoteChans,  \* channels the remote may claim for itself
          MaxMsgs,      \* messages sent on all channels at most
          NONE          \* NULL

ASSUME ChanAssumption == /\ Servers \subseteq Links
                         /\ From \in [Links -> Chans] /\ To \in [Links -> Chans]
                         /\ RemoteChans \subseteq Chans
                         /\ MaxMsgs \in Nat
                         /\ NONE \notin Links

VARIABLES
  hw,        \* registers of each channel
  chan,      \* struct hpsc_mbox_chan of each channel
  link,      \* where connect and close of each link have got
  tx,        \* where the requester of each link is
  isr,       \* the interrupt handler: its step and channel
  sq,        \* the links of the commands queued
  handler,   \* the command handler task runs
  mbox,      \* the driver instance exists
  wild,      \* a register was accessed through an uninitialised base
  rtx, rrx,  \* the remote as a sender and as a receiver on each channel
  sent,      \* messages sent on each channel
  log,       \* history: messages taken from each channel, in order
  acked,     \* history: messages whose ACK the sender has seen
  over       \* history: channels where a message was written before the ACK
             \* of the one before it was seen

swVars  == <<link, tx, sq, handler, mbox, wild>>
remVars == <<rtx, rrx>>
msgVars == <<sent, log, acked, over>>
vars == <<hw, chan, swVars, isr, remVars, msgVars>>

Id == {"0", "local", "remote"}            \* master ids; "0" is none
Ev == {"A", "B"}
ClosedHw == [owner |-> "0", src |-> "0", dest |-> "0", enable |-> {}, cause |-> {}, data |-> 0]
Idle == [pc |-> "idle", chan |-> NONE]

Regs == [owner : Id, src : Id, dest : Id, enable : SUBSET Ev, cause : SUBSET Ev, data : Nat]
ChanState == [active : BOOLEAN, base : BOOLEAN, owner : Id,
              cb_a : Links \cup {NONE}, cb_b : Links \cup {NONE}]

TypeOK ==
  /\ hw \in [Chans -> Regs]
  /\ chan \in [Chans -> ChanState]
  /\ link \in [Links -> {"new", "claimTo", "open", "undo", "releaseTo", "freed", "failed"}]
  /\ tx \in [Links -> {"idle", "event", "wait"}]
  /\ isr \in [pc : {"idle", "clear", "ack", "deliver"}, chan : Chans \cup {NONE}]
  /\ sq \in Seq(Links)
  /\ handler \in BOOLEAN /\ mbox \in BOOLEAN /\ wild \in BOOLEAN
  /\ rtx \in [Chans -> {"idle", "event", "wait"}]
  /\ rrx \in [Chans -> {"idle", "clear", "ack"}]
  /\ sent \in [Chans -> Nat]
  /\ log \in [Chans -> Seq(Nat)]
  /\ acked \in [Chans -> SUBSET Nat]
  /\ over \subseteq Chans

(* hpsc_mbox_probe and hpsc_mbox_init have run: the channels are inactive, *)
(* their other fields are not initialised.                                 *)
Init ==
  /\ hw = [i \in Chans |-> ClosedHw]
  /\ chan = [i \in Chans |-> [active |-> FALSE, base |-> FALSE, owner |-> "0",
                              cb_a |-> NONE, cb_b |-> NONE]]
  /\ link = [l \in Links |-> "new"]
  /\ tx = [l \in Links |-> "idle"]
  /\ isr = Idle
  /\ sq = << >>
  /\ handler = TRUE /\ mbox = TRUE /\ wild = FALSE
  /\ rtx = [i \in Chans |-> "idle"]
  /\ rrx = [i \in Chans |-> "idle"]
  /\ sent = [i \in Chans |-> 0]
  /\ log = [i \in Chans |-> << >>]
  /\ acked = [i \in Chans |-> {}]
  /\ over = {}

-------------------------------------------------------------------------------
(* Claiming and releasing a channel; interrupts are off, so each is one    *)
(* step.                                                                   *)

(* Fault: the callbacks are swapped. *)
InitSwapped(owner, cb_a, cb_b) ==
  [active |-> TRUE, base |-> TRUE, owner |-> owner, cb_a |-> cb_b, cb_b |-> cb_a]

hpsc_mbox_chan_init(owner, cb_a, cb_b) ==
  [active |-> TRUE, base |-> TRUE, owner |-> owner, cb_a |-> cb_a, cb_b |-> cb_b]

(* Fault: callback A survives. *)
DestroyKeepsCallback(i) == [chan[i] EXCEPT !.active = FALSE, !.owner = "0", !.cb_b = NONE]

hpsc_mbox_chan_destroy(i) ==
  [chan[i] EXCEPT !.active = FALSE, !.owner = "0", !.cb_a = NONE, !.cb_b = NONE]

(* The block ignores a write of CONFIG by anyone but the owner (external), *)
(* which hpsc_mbox_chan_config_write finds out by reading it back.         *)
ConfigAccepted(i, owner, src, dest) ==
  \/ hw[i].owner = "0"
  \/ hw[i].owner = owner /\ hw[i].src = src /\ hw[i].dest = dest

(* The non-owner's check of the registers: the second comparison is with   *)
(* src, not with dest.                                                     *)
ConfigMatches(i, src, dest, cb_a, cb_b) ==
  /\ cb_b # NONE /\ src # "0" => hw[i].src = src
  /\ cb_a # NONE /\ dest # "0" => hw[i].dest = src

MayClaim(i, owner, src, dest, cb_a, cb_b) ==
  /\ ~chan[i].active
  /\ IF owner # "0" THEN ConfigAccepted(i, owner, src, dest)
                    ELSE ConfigMatches(i, src, dest, cb_a, cb_b)

hpsc_mbox_chan_claim(i, owner, src, dest, cb_a, cb_b) ==
  /\ MayClaim(i, owner, src, dest, cb_a, cb_b)
  /\ chan' = [chan EXCEPT ![i] = hpsc_mbox_chan_init(owner, cb_a, cb_b)]
  /\ LET on == (IF cb_a # NONE THEN {"A"} ELSE {}) \cup (IF cb_b # NONE THEN {"B"} ELSE {})
     IN  hw' = [hw EXCEPT ![i].enable = @ \cup on,
                          ![i].owner = IF owner # "0" THEN owner ELSE @,
                          ![i].src = IF owner # "0" THEN src ELSE @,
                          ![i].dest = IF owner # "0" THEN dest ELSE @]

(* Every failure goes to cleanup, which destroys the channel's state. *)
ClaimFails(i, owner, src, dest, cb_a, cb_b) ==
  /\ ~MayClaim(i, owner, src, dest, cb_a, cb_b)
  /\ chan' = [chan EXCEPT ![i] = [hpsc_mbox_chan_destroy(i) EXCEPT !.base = TRUE]]

(* Fault: only the owner turns the interrupts of the channel off. *)
ReleasedEnabled(i) == IF chan[i].owner # "0" THEN ClosedHw ELSE hw[i]

(* The owner's reset of CONFIG resets the channel (external). *)
Released(i) == IF chan[i].owner # "0" THEN ClosedHw ELSE [hw[i] EXCEPT !.enable = {}]

hpsc_mbox_chan_release(i) ==
  /\ hw' = [hw EXCEPT ![i] = Released(i)]
  /\ chan' = [chan EXCEPT ![i] = hpsc_mbox_chan_destroy(i)]

-------------------------------------------------------------------------------
(* Local tasks; they run while no interrupt is being handled. *)

TaskRuns == isr.pc = "idle" /\ mbox

(* Fault: a client link has no server id, which is not 0. *)
ServerOrNull(l) == IF l \in Servers THEN "local" ELSE NONE

server(l) == IF l \in Servers THEN "local" ELSE "0"
client(l) == IF l \in Servers THEN "remote" ELSE "local"

(* link_mbox_connect: the channel to receive on, ... *)
ClaimFrom(l) ==
  /\ TaskRuns
  /\ link[l] = "new"
  /\ \/ /\ hpsc_mbox_chan_claim(From[l], server(l), client(l), server(l), l, NONE)
        /\ link' = [link EXCEPT ![l] = "claimTo"]
     \/ /\ ClaimFails(From[l], server(l), client(l), server(l), l, NONE)
        /\ link' = [link EXCEPT ![l] = "failed"]
        /\ UNCHANGED hw
  /\ UNCHANGED <<tx, isr, sq, handler, mbox, wild, remVars, msgVars>>

(* ... then the one to send on. *)
ClaimTo(l) ==
  /\ TaskRuns
  /\ link[l] = "claimTo"
  /\ hpsc_mbox_chan_claim(To[l], server(l), server(l), client(l), NONE, l)
  /\ link' = [link EXCEPT ![l] = "open"]
  /\ UNCHANGED <<tx, isr, sq, handler, mbox, wild, remVars, msgVars>>

(* If that fails the first one is released and the link freed. *)
ConnectFails(l) ==
  /\ TaskRuns
  /\ link[l] = "claimTo"
  /\ ClaimFails(To[l], server(l), server(l), client(l), NONE, l)
  /\ link' = [link EXCEPT ![l] = "undo"]
  /\ UNCHANGED <<hw, tx, isr, sq, handler, mbox, wild, remVars, msgVars>>

(* link_mbox_close: both channels are released, then the link is freed. *)
link_mbox_close(l) ==
  /\ TaskRuns
  /\ link[l] = "open"
  /\ hpsc_mbox_chan_release(From[l])
  /\ link' = [link EXCEPT ![l] = "releaseTo"]
  /\ UNCHANGED <<tx, isr, sq, handler, mbox, wild, remVars, msgVars>>

(* Its callers: shutdown, after the handler task is stopped, and the test  *)
(* that has made a request on the link.                                    *)
link_disconnect(l) ==
  /\ IF l \in Servers THEN ~handler ELSE tx[l] = "idle"
  /\ link_mbox_close(l)

ReleaseLast(l) ==
  /\ TaskRuns
  /\ \/ /\ link[l] = "releaseTo" /\ hpsc_mbox_chan_release(To[l])
        /\ link' = [link EXCEPT ![l] = "freed"]
     \/ /\ link[l] = "undo" /\ hpsc_mbox_chan_release(From[l])
        /\ link' = [link EXCEPT ![l] = "failed"]
  /\ UNCHANGED <<tx, isr, sq, handler, mbox, wild, remVars, msgVars>>

(* The data registers of channel i get the next message. *)
WriteData(i) ==
  /\ FoldFunction(+, 0, sent) < MaxMsgs
  /\ sent' = [sent EXCEPT ![i] = @ + 1]
  /\ hw' = [hw EXCEPT ![i].data = sent[i] + 1]
  /\ over' = IF sent[i] \in acked[i] \cup {0} THEN over ELSE over \cup {i}

(* link_mbox_write: the message, ... *)
hpsc_mbox_chan_write(l) ==
  /\ TaskRuns
  /\ link[l] = "open"
  /\ l \in Servers => handler
  /\ tx[l] = "idle"
  /\ WriteData(To[l])
  /\ tx' = [tx EXCEPT ![l] = "event"]
  /\ UNCHANGED <<chan, link, sq, handler, mbox, wild, isr, remVars, log, acked>>

(* ... then the RCV event. *)
hpsc_mbox_chan_event_set_rcv(l) ==
  /\ TaskRuns
  /\ tx[l] = "event"
  /\ hw' = [hw EXCEPT ![To[l]].cause = @ \cup {"A"}]
  /\ tx' = [tx EXCEPT ![l] = "wait"]
  /\ UNCHANGED <<chan, link, sq, handler, mbox, wild, isr, remVars, msgVars>>

(* _link_request_send: the wait for the ACK times out; message and events  *)
(* stay as they are.                                                       *)
AckTimeout(l) ==
  /\ TaskRuns
  /\ tx[l] = "wait"
  /\ tx' = [tx EXCEPT ![l] = "idle"]
  /\ UNCHANGED <<hw, chan, link, sq, handler, mbox, wild, isr, remVars, msgVars>>

(* The handler task takes a command and uses its link. *)
HandleCommand ==
  /\ TaskRuns
  /\ handler
  /\ sq # << >>
  /\ sq' = Tail(sq)
  /\ UNCHANGED <<hw, chan, link, tx, handler, mbox, wild, isr, remVars, msgVars>>

(* shutdown: the handler stops when it has no reply under way, the links   *)
(* are closed, the commands dropped and the driver removed.                *)
StopHandler ==
  /\ TaskRuns
  /\ handler
  /\ \A l \in Links : link[l] \in {"open", "freed", "failed"}
  /\ \A l \in Servers : tx[l] = "idle"
  /\ handler' = FALSE
  /\ UNCHANGED <<hw, chan, link, tx, sq, mbox, wild, isr, remVars, msgVars>>

(* hpsc_mbox_remove releases every channel, claimed or not. *)
hpsc_mbox_remove ==
  /\ TaskRuns
  /\ ~handler
  /\ \A l \in Links : link[l] \in {"freed", "failed"}
  /\ sq' = << >>
  /\ hw' = [i \in Chans |-> IF chan[i].base THEN Released(i) ELSE hw[i]]
  /\ wild' = \E i \in Chans : ~chan[i].base
  /\ chan' = [i \in Chans |-> hpsc_mbox_chan_destroy(i)]
  /\ mbox' = FALSE
  /\ UNCHANGED <<link, tx, handler, isr, remVars, msgVars>>

-------------------------------------------------------------------------------
(* Interrupts. *)

hpsc_mbox_chan_is_subscribed(i, e) ==
  /\ chan[i].active
  /\ e \in hw[i].cause
  /\ e \in hw[i].enable

Callback(i, e) == IF e = "A" THEN chan[i].cb_a ELSE chan[i].cb_b

(* hpsc_mbox_isr finds a channel with the event; without a callback the    *)
(* event is just cleared.                                                  *)
hpsc_mbox_isr(i, e) == TaskRuns /\ hpsc_mbox_chan_is_subscribed(i, e)
Cleared(i, e) == [hw EXCEPT ![i].cause = @ \ {e}]

(* link_recv_cmd, link_recv_reply and link_mbox_read: read the message, *)
hpsc_mbox_chan_read(i) ==
  /\ hpsc_mbox_isr(i, "A")
  /\ IF Callback(i, "A") = NONE
     THEN hw' = Cleared(i, "A") /\ UNCHANGED <<isr, log>>
     ELSE /\ isr' = [pc |-> "clear", chan |-> i]
          /\ log' = [log EXCEPT ![i] = Append(@, hw[i].data)]
          /\ UNCHANGED hw
  /\ UNCHANGED <<chan, swVars, remVars, sent, acked, over>>

hpsc_mbox_chan_event_clear_rcv(i) == hw' = [hw EXCEPT ![i].cause = @ \ {"A"}]
hpsc_mbox_chan_event_set_ack(i) == hw' = [hw EXCEPT ![i].cause = @ \cup {"B"}]

(* The interrupt handler moves on from one of its steps to the next. *)
IsrStep(from, to) == isr.pc = from /\ isr' = [isr EXCEPT !.pc = to]

(* Fault: RCV stays set. *)
RcvNotCleared ==
  /\ \/ IsrStep("clear", "ack") /\ UNCHANGED hw
     \/ IsrStep("ack", "deliver") /\ hpsc_mbox_chan_event_set_ack(isr.chan)
  /\ UNCHANGED <<chan, swVars, remVars, msgVars>>

(* Fault: ACK is set before RCV is cleared. *)
AckBeforeClear ==
  /\ \/ IsrStep("clear", "ack") /\ hpsc_mbox_chan_event_set_ack(isr.chan)
     \/ IsrStep("ack", "deliver") /\ hpsc_mbox_chan_event_clear_rcv(isr.chan)
  /\ UNCHANGED <<chan, swVars, remVars, msgVars>>

(* link_mbox_read then clears RCV and sets ACK, ... *)
link_mbox_read ==
  /\ \/ IsrStep("clear", "ack") /\ hpsc_mbox_chan_event_clear_rcv(isr.chan)
     \/ IsrStep("ack", "deliver") /\ hpsc_mbox_chan_event_set_ack(isr.chan)
  /\ UNCHANGED <<chan, swVars, remVars, msgVars>>

(* and the message is passed on: to the command queue at a server. *)
link_recv ==
  /\ isr.pc = "deliver"
  /\ sq' = IF chan[isr.chan].cb_a \in Servers THEN Append(sq, chan[isr.chan].cb_a) ELSE sq
  /\ isr' = Idle
  /\ UNCHANGED <<hw, chan, link, tx, handler, mbox, wild, remVars, msgVars>>

(* Fault: ACK stays set. *)
AckNotCleared(i) ==
  /\ hpsc_mbox_isr(i, "B")
  /\ LET l == Callback(i, "B")
     IN  IF l = NONE THEN UNCHANGED <<tx, acked>>
         ELSE /\ tx' = [tx EXCEPT ![l] = IF @ = "wait" THEN "idle" ELSE @]
              /\ acked' = [acked EXCEPT ![i] = @ \cup {sent[i]}]
  /\ UNCHANGED <<hw, chan, link, sq, handler, mbox, wild, isr, remVars, sent, log, over>>

(* link_mbox_ack: wake the requester, if it still waits, and clear ACK. *)
link_mbox_ack(i) ==
  /\ hpsc_mbox_isr(i, "B")
  /\ hw' = Cleared(i, "B")
  /\ LET l == Callback(i, "B")
     IN  IF l = NONE THEN UNCHANGED <<tx, acked>>
         ELSE /\ tx' = [tx EXCEPT ![l] = IF @ = "wait" THEN "idle" ELSE @]
              /\ acked' = [acked EXCEPT ![i] = @ \cup {sent[i]}]
  /\ UNCHANGED <<chan, link, sq, handler, mbox, wild, isr, remVars, sent, log, over>>

-------------------------------------------------------------------------------
(* The remote processor (external). *)

RemoteClaim(i) ==
  /\ i \in RemoteChans
  /\ hw[i].owner = "0"
  /\ LET in == \E l \in Links : i = From[l]
     IN  hw' = [hw EXCEPT ![i].owner = "remote",
                          ![i].src = IF in THEN "remote" ELSE "local",
                          ![i].dest = IF in THEN "local" ELSE "remote"]
  /\ UNCHANGED <<chan, swVars, isr, remVars, msgVars>>

RemoteWrite(i) ==
  /\ rtx[i] = "idle"
  /\ hw[i].src = "remote"
  /\ WriteData(i)
  /\ rtx' = [rtx EXCEPT ![i] = "event"]
  /\ UNCHANGED <<chan, swVars, isr, rrx, log, acked>>

RemoteSetRcv(i) ==
  /\ rtx[i] = "event"
  /\ hw[i].src = "remote"
  /\ hw' = [hw EXCEPT ![i].cause = @ \cup {"A"}]
  /\ rtx' = [rtx EXCEPT ![i] = "wait"]
  /\ UNCHANGED <<chan, swVars, isr, rrx, msgVars>>

RemoteAckTimeout(i) ==
  /\ rtx[i] = "wait"
  /\ rtx' = [rtx EXCEPT ![i] = "idle"]
  /\ UNCHANGED <<hw, chan, swVars, isr, rrx, msgVars>>

RemoteAck(i) ==
  /\ hw[i].src = "remote"
  /\ "B" \in hw[i].cause
  /\ hw' = [hw EXCEPT ![i].cause = @ \ {"B"}]
  /\ rtx' = [rtx EXCEPT ![i] = IF @ = "wait" THEN "idle" ELSE @]
  /\ acked' = [acked EXCEPT ![i] = @ \cup {sent[i]}]
  /\ UNCHANGED <<chan, swVars, isr, rrx, sent, log, over>>

(* The remote's channel was reset under it. *)
RemoteAbort(i) ==
  /\ rtx[i] # "idle"
  /\ hw[i].src # "remote"
  /\ rtx' = [rtx EXCEPT ![i] = "idle"]
  /\ UNCHANGED <<hw, chan, swVars, isr, rrx, msgVars>>

RemoteRead(i) ==
  /\ rrx[i] = "idle"
  /\ hw[i].dest = "remote" /\ "A" \in hw[i].cause
  /\ log' = [log EXCEPT ![i] = Append(@, hw[i].data)]
  /\ rrx' = [rrx EXCEPT ![i] = "clear"]
  /\ UNCHANGED <<hw, chan, swVars, isr, rtx, sent, acked, over>>

RemoteClearRcv(i) ==
  /\ rrx[i] = "clear"
  /\ hw' = [hw EXCEPT ![i].cause = @ \ {"A"}]
  /\ rrx' = [rrx EXCEPT ![i] = "ack"]
  /\ UNCHANGED <<chan, swVars, isr, rtx, msgVars>>

RemoteSetAck(i) ==
  /\ rrx[i] = "ack"
  /\ hw' = [hw EXCEPT ![i].cause = @ \cup {"B"}]
  /\ rrx' = [rrx EXCEPT ![i] = "idle"]
  /\ UNCHANGED <<chan, swVars, isr, rtx, msgVars>>

-------------------------------------------------------------------------------
(* After hpsc_mbox_remove the driver is not used again. *)
Removed == ~mbox /\ UNCHANGED vars

LinkTask(l) ==
  \/ ClaimFrom(l) \/ ClaimTo(l) \/ ConnectFails(l)
  \/ link_disconnect(l) \/ ReleaseLast(l)
  \/ hpsc_mbox_chan_write(l) \/ hpsc_mbox_chan_event_set_rcv(l) \/ AckTimeout(l)

Interrupt ==
  \/ \E i \in Chans : hpsc_mbox_chan_read(i) \/ link_mbox_ack(i)
  \/ link_mbox_read \/ link_recv

Remote(i) ==
  \/ RemoteClaim(i)
  \/ RemoteWrite(i) \/ RemoteSetRcv(i) \/ RemoteAckTimeout(i) \/ RemoteAck(i) \/ RemoteAbort(i)
  \/ RemoteRead(i) \/ RemoteClearRcv(i) \/ RemoteSetAck(i)

Next == \/ \E l \in Links : LinkTask(l)
        \/ Interrupt
        \/ \E i \in Chans : Remote(i)
        \/ HandleCommand \/ StopHandler \/ hpsc_mbox_remove
        \/ Removed

Spec == Init /\ [][Next]_vars

-------------------------------------------------------------------------------
(* Properties. *)

(* The interrupt handler as the receiver on a channel. *)
Reader(i) == IF isr.pc \in {"clear", "ack"} /\ isr.chan = i THEN isr.pc ELSE "idle"

(* What has been read from a channel is what was sent on it, each message  *)
(* once and in order, all but perhaps the last one: link_mbox_read clears  *)
(* RCV before it ends.  The exception are channels where a sender timed    *)
(* out and wrote again before the ACK came (_link_request_send).           *)
ReadInOrder ==
  \A i \in Chans \ over :
    /\ Len(log[i]) \in {sent[i] - 1, sent[i]}
    /\ \A k \in DOMAIN log[i] : log[i][k] = k

(* A message the sender takes as acknowledged has been read, also when its *)
(* wait had timed out: link_mbox_ack clears the ACK it has seen, so the    *)
(* next message is not taken as acknowledged by it.  The exception is the  *)
(* same.                                                                   *)
AckedWasRead == \A i \in Chans \ over : acked[i] \subseteq ToSet(log[i])

(* No message is missed (the note in hpsc-mbox.h: RCV is cleared before    *)
(* ACK is set): while a sender waits for the ACK on a channel of an open   *)
(* link, its message is still announced, or in the hands of the receiver,  *)
(* or an ACK is on its way back, whatever waits have timed out before.     *)
InFlight(i, sender, receiver) ==
  sender = "wait" => hw[i].cause # {} \/ receiver # "idle"

MessageInFlight ==
  \A l \in Links : link[l] = "open" =>
    /\ InFlight(To[l], tx[l], rrx[To[l]])
    /\ InFlight(From[l], rtx[From[l]], Reader(From[l]))

(* A connected link keeps both its channels and its callbacks on them      *)
(* until it is closed (hpsc_mbox_init: "other fields set when channel is   *)
(* claimed, cleared on release").                                          *)
OpenLinkHoldsChannels ==
  \A l \in Links : link[l] = "open" =>
    /\ chan[From[l]].active /\ chan[From[l]].cb_a = l
    /\ chan[To[l]].active /\ chan[To[l]].cb_b = l

(* An interrupt handler never calls a callback with a link that is freed,  *)
(* whatever step of connect, of a failed connect or of close it interrupts. *)
NoCallbackOnFreedLink ==
  \A i \in Chans : \A l \in {chan[i].cb_a, chan[i].cb_b} \ {NONE}  :
    link[l] \notin {"freed", "failed"}

(* While the driver exists, an enabled event belongs to an active channel  *)
(* with a callback for it: otherwise hpsc_mbox_isr passes it by and the    *)
(* interrupt never goes away, or it is cleared unseen.                     *)
InterruptsHandled ==
  \A i \in Chans : mbox => \A e \in hw[i].enable : chan[i].active /\ Callback(i, e) # NONE

(* hpsc_mbox_remove accesses the registers of channels through the base    *)
(* that hpsc_mbox_chan_claim has set.                                      *)
BaseInitialised == ~wild
================================================================================
