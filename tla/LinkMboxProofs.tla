----------------------------- MODULE LinkMboxProofs -----------------------------
(***************************************************************************)
(* Proofs about LinkMbox: for any number of links, each on two channels of *)
(* its own as plat/mailbox-map.h lays them out, and any number of messages. *)
(***************************************************************************)
EXTENDS LinkMbox, SequenceTheorems, TLAPS

(* No channel is used by two links or in two directions. *)
OwnChannels ==
  \A l, m \in Links : From[l] # To[m] /\ (l # m => From[l] # From[m] /\ To[l] # To[m])

(* A link holds a channel from the claim to the release. *)
HoldsFrom(l) == link[l] \in {"claimTo", "open", "undo"}
HoldsTo(l) == link[l] \in {"open", "releaseTo"}

Free(i) ==
  /\ ~chan[i].active /\ chan[i].owner = "0"
  /\ chan[i].cb_a = NONE /\ chan[i].cb_b = NONE
  /\ hw[i].enable = {}

Unused(i) == \A l \in Links : i # From[l] /\ i # To[l]

(* The channels of a link have its callback and the interrupt for it while *)
(* it holds them, and nothing otherwise.                                   *)
FromClaim(l) ==
  IF HoldsFrom(l)
  THEN /\ chan[From[l]].active /\ chan[From[l]].owner = server(l)
       /\ chan[From[l]].cb_a = l /\ chan[From[l]].cb_b = NONE
       /\ hw[From[l]].enable = {"A"}
  ELSE Free(From[l])

ToClaim(l) ==
  IF HoldsTo(l)
  THEN /\ chan[To[l]].active /\ chan[To[l]].owner = server(l)
       /\ chan[To[l]].cb_a = NONE /\ chan[To[l]].cb_b = l
       /\ hw[To[l]].enable = {"B"}
  ELSE Free(To[l])

ClaimInv ==
  /\ \A l \in Links : FromClaim(l) /\ ToClaim(l)
  /\ \A i \in Chans : Unused(i) => Free(i)
  /\ isr.pc # "idle" => \E l \in Links : HoldsFrom(l) /\ isr.chan = From[l]

(* A link with a request or a reply under way is open: the handler task    *)
(* does not stop within a reply.                                           *)
CloseInv ==
  /\ \A l \in Links : tx[l] # "idle" => link[l] = "open"
  /\ ~handler => \A l \in Servers : tx[l] = "idle"

(* The message last written on a channel is still to be read, or was; its  *)
(* ACK has not been seen.                                                  *)
Fresh(i) == hw[i].data = sent[i] /\ Len(log[i]) = sent[i] - 1
WasRead(i) == Len(log[i]) = sent[i]
Unacked(i) == sent[i] \notin acked[i] \cup {0}

(* The steps of a channel, with its sender at step s and its receiver at   *)
(* step r: one message, and one event, at a time.  A sender whose wait     *)
(* timed out is idle like one that has not written.                        *)
OneAtATime(i, s, r) ==
  \/ s = "idle" /\ r = "idle" /\ hw[i].cause = {}
  \/ s = "event" /\ r = "idle" /\ hw[i].cause = {} /\ Fresh(i) /\ Unacked(i)
  \/ /\ s \in {"wait", "idle"} /\ Unacked(i)
     /\ \/ r = "idle" /\ hw[i].cause = {"A"} /\ Fresh(i)
        \/ r = "clear" /\ hw[i].cause = {"A"} /\ WasRead(i)
        \/ r = "ack" /\ hw[i].cause = {} /\ WasRead(i)
        \/ r = "idle" /\ hw[i].cause = {"B"} /\ WasRead(i)

(* A channel keeps to them until a sender writes over a message whose ACK  *)
(* it has not seen; no ACK is missed even then.                            *)
Protocol(i, s, r) == InFlight(i, s, r) /\ (i \notin over => OneAtATime(i, s, r))

(* A server that gives a channel up resets it under the remote, and uses   *)
(* it no more.                                                             *)
Dead(l) == l \in Servers /\ link[l] \in {"releaseTo", "freed", "failed"}
Gone(l) == l \in Servers /\ link[l] = "freed"

InInv(l) ==
  /\ hw[From[l]].dest # "remote" /\ rrx[From[l]] = "idle"
  /\ link[l] = "new" \/ Dead(l) => "B" \notin hw[From[l]].cause
  /\ IF Dead(l) THEN Reader(From[l]) = "idle"
     ELSE /\ Protocol(From[l], rtx[From[l]], Reader(From[l]))
          /\ rtx[From[l]] # "idle" => hw[From[l]].src = "remote"

OutInv(l) ==
  /\ hw[To[l]].src # "remote" /\ rtx[To[l]] = "idle"
  /\ IF Gone(l) THEN "A" \notin hw[To[l]].cause
     ELSE Protocol(To[l], tx[l], rrx[To[l]])

UnusedInv(i) ==
  /\ hw[i].src # "remote" /\ hw[i].cause = {}
  /\ rtx[i] = "idle" /\ rrx[i] = "idle"

(* What was read, in order, and what was acknowledged. *)
LogInv(i) ==
  i \notin over =>
    /\ Len(log[i]) \in {sent[i] - 1, sent[i]}
    /\ \A k \in DOMAIN log[i] : log[i][k] = k
    /\ acked[i] \subseteq ToSet(log[i])

ProtocolInv ==
  /\ \A l \in Links : InInv(l) /\ OutInv(l)
  /\ \A i \in Chans : Unused(i) => UnusedInv(i)
  /\ \A i \in Chans : LogInv(i)

-------------------------------------------------------------------------------
(* Writes of registers and of the state of a channel. *)

(* A write to the cause register of a channel leaves the rest alone.       *)
LEMMA CauseWrite ==
  ASSUME TypeOK, NEW i \in Chans, NEW C \in SUBSET Ev, hw' = [hw EXCEPT ![i].cause = C]
  PROVE  /\ hw' \in [Chans -> Regs]
         /\ hw'[i].cause = C
         /\ \A j \in Chans :
              /\ j # i => hw'[j] = hw[j]
              /\ hw'[j].data = hw[j].data /\ hw'[j].enable = hw[j].enable
              /\ hw'[j].owner = hw[j].owner /\ hw'[j].src = hw[j].src /\ hw'[j].dest = hw[j].dest
<1>1. hw \in [Chans -> Regs] /\ hw[i] \in Regs
  BY DEF TypeOK
<1>2. \A j \in Chans : hw'[j] = IF j = i THEN [hw[i] EXCEPT !.cause = C] ELSE hw[j]
  BY <1>1
<1>3. [hw[i] EXCEPT !.cause = C] \in Regs
  BY <1>1 DEF Regs
<1>4. hw' \in [Chans -> Regs]
  BY <1>1, <1>3
<1>5. \A j \in Chans : hw[j] \in Regs
  BY <1>1
<1> QED BY <1>1, <1>2, <1>4, <1>5 DEF Regs

(* So does a write to its data registers.                                  *)
LEMMA DataWrite ==
  ASSUME TypeOK, NEW i \in Chans, NEW d \in Nat, hw' = [hw EXCEPT ![i].data = d]
  PROVE  /\ hw' \in [Chans -> Regs]
         /\ hw'[i].data = d
         /\ \A j \in Chans :
              /\ j # i => hw'[j] = hw[j]
              /\ hw'[j].cause = hw[j].cause /\ hw'[j].enable = hw[j].enable
              /\ hw'[j].owner = hw[j].owner /\ hw'[j].src = hw[j].src /\ hw'[j].dest = hw[j].dest
<1>1. hw \in [Chans -> Regs] /\ hw[i] \in Regs
  BY DEF TypeOK
<1>2. \A j \in Chans : hw'[j] = IF j = i THEN [hw[i] EXCEPT !.data = d] ELSE hw[j]
  BY <1>1
<1>3. [hw[i] EXCEPT !.data = d] \in Regs
  BY <1>1 DEF Regs
<1>4. hw' \in [Chans -> Regs]
  BY <1>1, <1>3
<1>5. \A j \in Chans : hw[j] \in Regs
  BY <1>1
<1> QED BY <1>1, <1>2, <1>4, <1>5 DEF Regs

(* The next message of a channel: nothing but its data, its count and      *)
(* whether it overtook an ACK changes.                                     *)
LEMMA Writes ==
  ASSUME TypeOK, NEW i \in Chans, WriteData(i)
  PROVE  /\ hw' \in [Chans -> Regs] /\ sent' \in [Chans -> Nat] /\ over' \subseteq Chans
         /\ sent[i] \in Nat /\ sent'[i] = sent[i] + 1 /\ hw'[i].data = sent[i] + 1
         /\ over' = IF Unacked(i) THEN over \cup {i} ELSE over
         /\ \A j \in Chans :
              /\ j # i => hw'[j] = hw[j] /\ sent'[j] = sent[j]
              /\ hw'[j].cause = hw[j].cause /\ hw'[j].enable = hw[j].enable
              /\ hw'[j].owner = hw[j].owner /\ hw'[j].src = hw[j].src /\ hw'[j].dest = hw[j].dest
<1>1. /\ sent \in [Chans -> Nat] /\ over \subseteq Chans /\ sent' = [sent EXCEPT ![i] = sent[i] + 1]
      /\ hw' = [hw EXCEPT ![i].data = sent[i] + 1]
      /\ over' = IF Unacked(i) THEN over \cup {i} ELSE over
  BY DEF TypeOK, WriteData, Unacked
<1>2. sent[i] \in Nat /\ sent[i] + 1 \in Nat
  BY <1>1
<1>3. sent' \in [Chans -> Nat] /\ sent'[i] = sent[i] + 1 /\ \A j \in Chans \ {i} : sent'[j] = sent[j]
  BY <1>1, <1>2
<1>4. over' \subseteq Chans
  BY <1>1
<1>5. /\ hw' \in [Chans -> Regs]
      /\ hw'[i].data = sent[i] + 1
      /\ \A j \in Chans :
           /\ j # i => hw'[j] = hw[j]
           /\ hw'[j].cause = hw[j].cause /\ hw'[j].enable = hw[j].enable
           /\ hw'[j].owner = hw[j].owner /\ hw'[j].src = hw[j].src /\ hw'[j].dest = hw[j].dest
  BY <1>1, <1>2, DataWrite
<1> QED BY <1>1, <1>2, <1>3, <1>4, <1>5

(* A claim that succeeds. *)
LEMMA Claims ==
  ASSUME TypeOK, NEW i \in Chans, NEW o \in Id, NEW src \in Id, NEW dest \in Id,
         NEW a \in Links \cup {NONE}, NEW b \in Links \cup {NONE},
         hpsc_mbox_chan_claim(i, o, src, dest, a, b)
  PROVE  /\ hw' \in [Chans -> Regs] /\ chan' \in [Chans -> ChanState]
         /\ \A j \in Chans \ {i} : hw'[j] = hw[j] /\ chan'[j] = chan[j]
         /\ chan'[i].active /\ chan'[i].owner = o /\ chan'[i].cb_a = a /\ chan'[i].cb_b = b
         /\ hw'[i].cause = hw[i].cause /\ hw'[i].data = hw[i].data
         /\ hw'[i].enable = hw[i].enable \cup (IF a # NONE THEN {"A"} ELSE {})
                                         \cup (IF b # NONE THEN {"B"} ELSE {})
         /\ hw'[i].src = IF o # "0" THEN src ELSE hw[i].src
         /\ hw'[i].dest = IF o # "0" THEN dest ELSE hw[i].dest
<1>1. hw \in [Chans -> Regs] /\ hw[i] \in Regs /\ chan \in [Chans -> ChanState]
  BY DEF TypeOK
<1> DEFINE on == (IF a # NONE THEN {"A"} ELSE {}) \cup (IF b # NONE THEN {"B"} ELSE {})
           r == [hw[i] EXCEPT !.enable = @ \cup on,
                              !.owner = IF o # "0" THEN o ELSE @,
                              !.src = IF o # "0" THEN src ELSE @,
                              !.dest = IF o # "0" THEN dest ELSE @]
           c == hpsc_mbox_chan_init(o, a, b)
<1>2. chan' = [chan EXCEPT ![i] = c] /\ hw' = [hw EXCEPT ![i] = r]
  BY <1>1 DEF hpsc_mbox_chan_claim
<1>3. c \in ChanState /\ c.active /\ c.owner = o /\ c.cb_a = a /\ c.cb_b = b
  BY DEF ChanState, hpsc_mbox_chan_init
<1>4. on \in SUBSET Ev
  BY DEF Ev
<1> HIDE DEF on
<1>5. /\ r \in Regs
      /\ r.cause = hw[i].cause /\ r.data = hw[i].data /\ r.enable = hw[i].enable \cup on
      /\ r.src = (IF o # "0" THEN src ELSE hw[i].src) /\ r.dest = (IF o # "0" THEN dest ELSE hw[i].dest)
  BY <1>1, <1>4 DEF Regs
<1> HIDE DEF r, c
<1>6. hw'[i] = r /\ chan'[i] = c /\ \A j \in Chans \ {i} : hw'[j] = hw[j] /\ chan'[j] = chan[j]
  BY <1>1, <1>2
<1>7. hw' \in [Chans -> Regs] /\ chan' \in [Chans -> ChanState]
  BY <1>1, <1>2, <1>3, <1>5
<1> QED BY <1>3, <1>5, <1>6, <1>7 DEF on

(* The state of a channel that is destroyed. *)
LEMMA Destroyed ==
  ASSUME TypeOK, NEW i \in Chans
  PROVE  /\ hpsc_mbox_chan_destroy(i) \in ChanState
         /\ ~hpsc_mbox_chan_destroy(i).active /\ hpsc_mbox_chan_destroy(i).owner = "0"
         /\ hpsc_mbox_chan_destroy(i).cb_a = NONE /\ hpsc_mbox_chan_destroy(i).cb_b = NONE
<1>1. chan[i] \in ChanState
  BY DEF TypeOK
<1> QED BY <1>1 DEF hpsc_mbox_chan_destroy, ChanState, Id

(* A claim that fails. *)
LEMMA Refused ==
  ASSUME TypeOK, NEW i \in Chans, NEW o, NEW src, NEW dest, NEW a, NEW b,
         ClaimFails(i, o, src, dest, a, b)
  PROVE  /\ chan' \in [Chans -> ChanState]
         /\ \A j \in Chans \ {i} : chan'[j] = chan[j]
         /\ ~chan'[i].active /\ chan'[i].owner = "0"
         /\ chan'[i].cb_a = NONE /\ chan'[i].cb_b = NONE
<1> DEFINE d == hpsc_mbox_chan_destroy(i)
           c == [d EXCEPT !.base = TRUE]
<1>1. chan \in [Chans -> ChanState] /\ chan' = [chan EXCEPT ![i] = c]
  BY DEF TypeOK, ClaimFails
<1>2. d \in ChanState /\ ~d.active /\ d.owner = "0" /\ d.cb_a = NONE /\ d.cb_b = NONE
  BY Destroyed
<1> HIDE DEF d
<1>3. c \in ChanState /\ ~c.active /\ c.owner = "0" /\ c.cb_a = NONE /\ c.cb_b = NONE
  BY <1>2 DEF ChanState
<1> HIDE DEF c
<1> QED BY <1>1, <1>3

(* The registers of a channel that is released. *)
LEMMA ReleasedRegs ==
  ASSUME TypeOK, NEW i \in Chans
  PROVE  /\ Released(i) \in Regs /\ Released(i).enable = {}
         /\ chan[i].owner # "0" => Released(i).cause = {} /\ Released(i).src = "0" /\ Released(i).dest = "0"
         /\ chan[i].owner = "0" => /\ Released(i).cause = hw[i].cause /\ Released(i).data = hw[i].data
                                   /\ Released(i).src = hw[i].src /\ Released(i).dest = hw[i].dest
<1>1. hw[i] \in Regs
  BY ChanAssumption DEF TypeOK
<1>2. CASE chan[i].owner # "0"
  BY <1>1, <1>2 DEF Released, ClosedHw, Regs, Id
<1>3. CASE chan[i].owner = "0"
  BY <1>1, <1>3 DEF Released, Regs
<1> QED BY <1>2, <1>3

(* hpsc_mbox_chan_release leaves a channel inactive, with no owner and no  *)
(* callbacks, and touches no other.                                        *)
LEMMA Releases ==
  ASSUME TypeOK, NEW i \in Chans, hpsc_mbox_chan_release(i)
  PROVE  /\ hw' \in [Chans -> Regs] /\ chan' \in [Chans -> ChanState]
         /\ \A j \in Chans \ {i} : hw'[j] = hw[j] /\ chan'[j] = chan[j]
         /\ hw'[i] = Released(i)
         /\ ~chan'[i].active /\ chan'[i].owner = "0" /\ chan'[i].cb_a = NONE /\ chan'[i].cb_b = NONE
<1> DEFINE d == hpsc_mbox_chan_destroy(i)
           r == Released(i)
<1>1. /\ hw \in [Chans -> Regs] /\ chan \in [Chans -> ChanState]
      /\ hw' = [hw EXCEPT ![i] = r] /\ chan' = [chan EXCEPT ![i] = d]
  BY DEF TypeOK, hpsc_mbox_chan_release
<1>2. /\ d \in ChanState /\ ~d.active /\ d.owner = "0" /\ d.cb_a = NONE /\ d.cb_b = NONE
      /\ r \in Regs
  BY Destroyed, ReleasedRegs
<1> HIDE DEF d, r
<1> QED BY <1>1, <1>2 DEF r

(* A claim of the remote. *)
LEMMA RemoteRegs ==
  ASSUME TypeOK, NEW i \in Chans, RemoteClaim(i)
  PROVE  /\ hw' \in [Chans -> Regs]
         /\ \A j \in Chans \ {i} : hw'[j] = hw[j]
         /\ hw'[i].enable = hw[i].enable /\ hw'[i].cause = hw[i].cause /\ hw'[i].data = hw[i].data
         /\ hw'[i].src = IF \E l \in Links : i = From[l] THEN "remote" ELSE "local"
         /\ hw'[i].dest = IF \E l \in Links : i = From[l] THEN "local" ELSE "remote"
<1> DEFINE src == IF \E l \in Links : i = From[l] THEN "remote" ELSE "local"
           dest == IF \E l \in Links : i = From[l] THEN "local" ELSE "remote"
           r == [hw[i] EXCEPT !.owner = "remote", !.src = src, !.dest = dest]
<1>1. hw \in [Chans -> Regs] /\ hw[i] \in Regs /\ hw' = [hw EXCEPT ![i] = r]
  BY DEF TypeOK, RemoteClaim
<1>2. src \in Id /\ dest \in Id
  BY DEF Id
<1> HIDE DEF src, dest
<1>3. /\ r \in Regs /\ r.enable = hw[i].enable /\ r.cause = hw[i].cause /\ r.data = hw[i].data
      /\ r.src = src /\ r.dest = dest
  BY <1>1, <1>2 DEF Regs, Id
<1> HIDE DEF r
<1> QED BY <1>1, <1>3 DEF src, dest

-------------------------------------------------------------------------------
(* Types. *)

(* The identifiers a link claims its channels with.                        *)
LEMMA Ids == \A l \in Links : server(l) \in Id /\ client(l) \in Id
BY DEF server, client, Id

(* Every step of driver, links, handler task and remote keeps the types.   *)
LEMMA TypeStep ==
  ASSUME TypeOK, [Next]_vars
  PROVE  TypeOK'
<1> USE ChanAssumption DEF swVars, remVars, msgVars
<1>0. /\ \A l \in Links : From[l] \in Chans /\ To[l] \in Chans
      /\ \A i \in Chans : hw[i].cause \in SUBSET Ev /\ hw[i].data \in Nat /\ sent[i] \in Nat
      /\ {"A"} \subseteq Ev /\ {"B"} \subseteq Ev
  BY DEF TypeOK, Regs, Ev
<1>1. ASSUME NEW l \in Links, ClaimFrom(l) PROVE TypeOK'
  <2>1. link' \in [Links -> {"new", "claimTo", "open", "undo", "releaseTo", "freed", "failed"}]
    <3>1. PICK v \in {"claimTo", "failed"} : link' = [link EXCEPT ![l] = v]
      BY <1>1 DEF ClaimFrom
    <3> QED BY <3>1 DEF TypeOK
  <2>2. hw' \in [Chans -> Regs] /\ chan' \in [Chans -> ChanState]
    <3>1. CASE hpsc_mbox_chan_claim(From[l], server(l), client(l), server(l), l, NONE)
      BY <1>0, <3>1, Ids, Claims
    <3>2. CASE ClaimFails(From[l], server(l), client(l), server(l), l, NONE) /\ UNCHANGED hw
      BY <1>0, <3>2, Refused DEF TypeOK
    <3> QED BY <1>1, <3>1, <3>2 DEF ClaimFrom
  <2> QED BY <1>1, <2>1, <2>2 DEF TypeOK, ClaimFrom
<1>2. ASSUME NEW l \in Links, ClaimTo(l) PROVE TypeOK'
  <2>1. link' \in [Links -> {"new", "claimTo", "open", "undo", "releaseTo", "freed", "failed"}]
    BY <1>2 DEF TypeOK, ClaimTo
  <2>2. hw' \in [Chans -> Regs] /\ chan' \in [Chans -> ChanState]
    BY <1>0, <1>2, Ids, Claims DEF ClaimTo
  <2> QED BY <1>2, <2>1, <2>2 DEF TypeOK, ClaimTo
<1>3. ASSUME NEW l \in Links, ConnectFails(l) PROVE TypeOK'
  <2>1. link' \in [Links -> {"new", "claimTo", "open", "undo", "releaseTo", "freed", "failed"}]
    BY <1>3 DEF TypeOK, ConnectFails
  <2>2. chan' \in [Chans -> ChanState]
    BY <1>0, <1>3, Refused DEF ConnectFails
  <2> QED BY <1>3, <2>1, <2>2 DEF TypeOK, ConnectFails
<1>4. ASSUME NEW l \in Links, link_disconnect(l) \/ ReleaseLast(l) PROVE TypeOK'
  <2>1. link' \in [Links -> {"new", "claimTo", "open", "undo", "releaseTo", "freed", "failed"}]
    <3>1. PICK v \in {"releaseTo", "freed", "failed"} : link' = [link EXCEPT ![l] = v]
      BY <1>4 DEF link_disconnect, link_mbox_close, ReleaseLast
    <3> QED BY <3>1 DEF TypeOK
  <2>2. hw' \in [Chans -> Regs] /\ chan' \in [Chans -> ChanState]
    <3>1. PICK i \in Chans : hpsc_mbox_chan_release(i)
      BY <1>0, <1>4 DEF link_disconnect, link_mbox_close, ReleaseLast
    <3> QED BY <3>1, Releases
  <2>3. UNCHANGED <<tx, isr, sq, handler, mbox, wild, remVars, msgVars>>
    BY <1>4 DEF link_disconnect, link_mbox_close, ReleaseLast
  <2> QED BY <2>1, <2>2, <2>3 DEF TypeOK
<1>5. ASSUME NEW l \in Links, hpsc_mbox_chan_write(l) PROVE TypeOK'
  <2>1. hw' \in [Chans -> Regs] /\ sent' \in [Chans -> Nat] /\ over' \subseteq Chans
    BY <1>0, <1>5, Writes DEF hpsc_mbox_chan_write
  <2>2. tx' \in [Links -> {"idle", "event", "wait"}]
    BY <1>5 DEF TypeOK, hpsc_mbox_chan_write
  <2> QED BY <1>5, <2>1, <2>2 DEF TypeOK, hpsc_mbox_chan_write
<1>6. ASSUME NEW l \in Links, hpsc_mbox_chan_event_set_rcv(l) PROVE TypeOK'
  <2>1. hw[To[l]].cause \cup {"A"} \in SUBSET Ev
    BY <1>0
  <2>2. hw' \in [Chans -> Regs]
    BY <1>0, <1>6, <2>1, CauseWrite DEF hpsc_mbox_chan_event_set_rcv
  <2>3. tx' \in [Links -> {"idle", "event", "wait"}]
    BY <1>6 DEF TypeOK, hpsc_mbox_chan_event_set_rcv
  <2> QED BY <1>6, <2>2, <2>3 DEF TypeOK, hpsc_mbox_chan_event_set_rcv
<1>7. ASSUME NEW i \in Chans, hpsc_mbox_chan_read(i) PROVE TypeOK'
  <2>1. hw' \in [Chans -> Regs]
    <3>1. CASE hw' = Cleared(i, "A")
      BY <1>0, <3>1, CauseWrite, hw[i].cause \ {"A"} \in SUBSET Ev DEF Cleared
    <3> QED BY <1>7, <3>1 DEF hpsc_mbox_chan_read, TypeOK
  <2>2. isr' \in [pc : {"idle", "clear", "ack", "deliver"}, chan : Chans \cup {NONE}]
    BY <1>7 DEF hpsc_mbox_chan_read, TypeOK
  <2>3. log' \in [Chans -> Seq(Nat)]
    <3>1. Append(log[i], hw[i].data) \in Seq(Nat)
      BY <1>0, AppendProperties DEF TypeOK
    <3> QED BY <1>7, <3>1 DEF hpsc_mbox_chan_read, TypeOK
  <2> QED BY <1>7, <2>1, <2>2, <2>3 DEF TypeOK, hpsc_mbox_chan_read
<1>8. ASSUME NEW i \in Chans, link_mbox_ack(i) PROVE TypeOK'
  <2>1. hw' \in [Chans -> Regs]
    BY <1>0, <1>8, CauseWrite, hw[i].cause \ {"B"} \in SUBSET Ev DEF Cleared, link_mbox_ack
  <2>2. tx' \in [Links -> {"idle", "event", "wait"}] /\ acked' \in [Chans -> SUBSET Nat]
    <3> DEFINE l == Callback(i, "B")
    <3>1. CASE l = NONE
      BY <1>8, <3>1 DEF link_mbox_ack, TypeOK
    <3>2. CASE l # NONE
      <4>1. l \in Links
        BY <3>2 DEF Callback, TypeOK, ChanState
      <4>2. /\ tx' = [tx EXCEPT ![l] = IF tx[l] = "wait" THEN "idle" ELSE tx[l]]
            /\ acked' = [acked EXCEPT ![i] = acked[i] \cup {sent[i]}]
        BY <1>8, <3>2 DEF link_mbox_ack
      <4>3. acked[i] \cup {sent[i]} \in SUBSET Nat
        BY <1>0 DEF TypeOK
      <4> HIDE DEF l
      <4>4. tx \in [Links -> {"idle", "event", "wait"}] /\ acked \in [Chans -> SUBSET Nat]
        BY DEF TypeOK
      <4>5. tx' \in [Links -> {"idle", "event", "wait"}]
        BY <4>1, <4>2, <4>4
      <4>6. acked' \in [Chans -> SUBSET Nat]
        BY <4>2, <4>3, <4>4
      <4> QED BY <4>5, <4>6
    <3> QED BY <3>1, <3>2
  <2> QED BY <1>8, <2>1, <2>2 DEF TypeOK, link_mbox_ack
<1>9. CASE link_mbox_read
  <2> USE DEF hpsc_mbox_chan_event_clear_rcv, hpsc_mbox_chan_event_set_ack, IsrStep
  <2>1. hw' \in [Chans -> Regs]
    <3>1. CASE isr.chan \in Chans
      <4> DEFINE i == isr.chan
      <4>1. hw[i].cause \ {"A"} \in SUBSET Ev /\ hw[i].cause \cup {"B"} \in SUBSET Ev
        BY <1>0, <3>1
      <4>2. PICK C \in SUBSET Ev : hw' = [hw EXCEPT ![i].cause = C]
        BY <1>9, <4>1 DEF link_mbox_read
      <4> QED BY <3>1, <4>2, CauseWrite
    <3>2. CASE isr.chan \notin Chans
      BY <1>9, <3>2 DEF link_mbox_read, TypeOK
    <3> QED BY <3>1, <3>2
  <2>2. isr' \in [pc : {"idle", "clear", "ack", "deliver"}, chan : Chans \cup {NONE}]
    BY <1>9 DEF link_mbox_read, TypeOK
  <2>3. UNCHANGED <<chan, swVars, remVars, msgVars>>
    BY <1>9 DEF link_mbox_read
  <2> QED BY <2>1, <2>2, <2>3 DEF TypeOK
<1>10. CASE link_recv
  <2>1. sq' \in Seq(Links)
    BY <1>10, AppendProperties DEF link_recv, TypeOK
  <2>2. isr' \in [pc : {"idle", "clear", "ack", "deliver"}, chan : Chans \cup {NONE}]
    BY <1>10 DEF link_recv, Idle
  <2> QED BY <1>10, <2>1, <2>2 DEF link_recv, TypeOK
<1>11. CASE HandleCommand
  <2>1. sq' \in Seq(Links)
    BY <1>11, HeadTailProperties DEF HandleCommand, TypeOK
  <2> QED BY <1>11, <2>1 DEF HandleCommand, TypeOK
<1>12. CASE StopHandler
  BY <1>12 DEF StopHandler, TypeOK
<1>13. CASE hpsc_mbox_remove
  <2>1. hw' \in [Chans -> Regs] /\ chan' \in [Chans -> ChanState]
    <3>1. \A i \in Chans : Released(i) \in Regs /\ hw[i] \in Regs /\ hpsc_mbox_chan_destroy(i) \in ChanState
      BY ReleasedRegs, Destroyed DEF TypeOK
    <3> QED BY <1>13, <3>1 DEF hpsc_mbox_remove
  <2>2. sq' \in Seq(Links) /\ mbox' \in BOOLEAN
    <3>1. sq' = << >> /\ mbox' = FALSE
      BY <1>13 DEF hpsc_mbox_remove
    <3>2. sq' \in Seq(Links)
      BY <3>1, EmptySeq
    <3> QED BY <3>1, <3>2, Zenon
  <2>3. wild' \in BOOLEAN
    BY <1>13, Zenon DEF hpsc_mbox_remove
  <2> QED BY <1>13, <2>1, <2>2, <2>3 DEF hpsc_mbox_remove, TypeOK
<1>14. ASSUME NEW i \in Chans, RemoteClaim(i) PROVE TypeOK'
  <2>1. hw' \in [Chans -> Regs]
    BY <1>14, RemoteRegs
  <2> QED BY <1>14, <2>1 DEF RemoteClaim, TypeOK
<1>15. ASSUME NEW i \in Chans, RemoteWrite(i) PROVE TypeOK'
  <2>1. hw' \in [Chans -> Regs] /\ sent' \in [Chans -> Nat] /\ over' \subseteq Chans
    BY <1>15, Writes DEF RemoteWrite
  <2>2. rtx' \in [Chans -> {"idle", "event", "wait"}]
    BY <1>15 DEF TypeOK, RemoteWrite
  <2> QED BY <1>15, <2>1, <2>2 DEF TypeOK, RemoteWrite
<1>16. ASSUME NEW i \in Chans, RemoteSetRcv(i) PROVE TypeOK'
  <2>1. hw' \in [Chans -> Regs]
    BY <1>0, <1>16, CauseWrite, hw[i].cause \cup {"A"} \in SUBSET Ev DEF RemoteSetRcv
  <2>2. rtx' \in [Chans -> {"idle", "event", "wait"}]
    BY <1>16 DEF TypeOK, RemoteSetRcv
  <2> QED BY <1>16, <2>1, <2>2 DEF TypeOK, RemoteSetRcv
<1>17. ASSUME NEW i \in Chans, RemoteAck(i) PROVE TypeOK'
  <2>1. hw' \in [Chans -> Regs]
    BY <1>0, <1>17, CauseWrite, hw[i].cause \ {"B"} \in SUBSET Ev DEF RemoteAck
  <2>2. rtx' \in [Chans -> {"idle", "event", "wait"}]
    BY <1>17 DEF TypeOK, RemoteAck
  <2>3. acked' \in [Chans -> SUBSET Nat]
    <3>1. acked[i] \cup {sent[i]} \in SUBSET Nat
      BY <1>0 DEF TypeOK
    <3> QED BY <1>17, <3>1 DEF RemoteAck, TypeOK
  <2> QED BY <1>17, <2>1, <2>2, <2>3 DEF TypeOK, RemoteAck
<1>18. ASSUME NEW i \in Chans, RemoteAbort(i) \/ RemoteAckTimeout(i) PROVE TypeOK'
  BY <1>18 DEF RemoteAbort, RemoteAckTimeout, TypeOK
<1>19. ASSUME NEW i \in Chans, RemoteRead(i) PROVE TypeOK'
  <2>1. log' \in [Chans -> Seq(Nat)]
    <3>1. Append(log[i], hw[i].data) \in Seq(Nat)
      BY <1>0, AppendProperties DEF TypeOK
    <3> QED BY <1>19, <3>1 DEF RemoteRead, TypeOK
  <2>2. rrx' \in [Chans -> {"idle", "clear", "ack"}]
    BY <1>19 DEF RemoteRead, TypeOK
  <2> QED BY <1>19, <2>1, <2>2 DEF RemoteRead, TypeOK
<1>20. ASSUME NEW i \in Chans, RemoteClearRcv(i) PROVE TypeOK'
  <2>1. hw' \in [Chans -> Regs]
    BY <1>0, <1>20, CauseWrite, hw[i].cause \ {"A"} \in SUBSET Ev DEF RemoteClearRcv
  <2>2. rrx' \in [Chans -> {"idle", "clear", "ack"}]
    BY <1>20 DEF RemoteClearRcv, TypeOK
  <2> QED BY <1>20, <2>1, <2>2 DEF RemoteClearRcv, TypeOK
<1>21. ASSUME NEW i \in Chans, RemoteSetAck(i) PROVE TypeOK'
  <2>1. hw' \in [Chans -> Regs]
    BY <1>0, <1>21, CauseWrite, hw[i].cause \cup {"B"} \in SUBSET Ev DEF RemoteSetAck
  <2>2. rrx' \in [Chans -> {"idle", "clear", "ack"}]
    BY <1>21 DEF RemoteSetAck, TypeOK
  <2> QED BY <1>21, <2>1, <2>2 DEF RemoteSetAck, TypeOK
<1>22. ASSUME NEW l \in Links, AckTimeout(l) PROVE TypeOK'
  BY <1>22 DEF AckTimeout, TypeOK
<1>23. CASE UNCHANGED vars
  BY <1>23 DEF vars, TypeOK
<1> QED
  BY <1>1, <1>2, <1>3, <1>4, <1>5, <1>6, <1>7, <1>8, <1>9, <1>10, <1>11, <1>12, <1>13, <1>14,
     <1>15, <1>16, <1>17, <1>18, <1>19, <1>20, <1>21, <1>22, <1>23
  DEF Next, LinkTask, Interrupt, Remote, Removed

(* Type correctness of mailbox links and their driver, whichever channels  *)
(* the links share.                                                        *)
THEOREM TypeCorrect == Spec => []TypeOK
<1>1. Init => TypeOK
  <2> SUFFICES ASSUME Init PROVE TypeOK
    OBVIOUS
  <2>1. ClosedHw \in Regs /\ Idle \in [pc : {"idle", "clear", "ack", "deliver"}, chan : Chans \cup {NONE}]
    BY ChanAssumption DEF ClosedHw, Idle, Regs, Id
  <2>2. [active |-> FALSE, base |-> FALSE, owner |-> "0", cb_a |-> NONE, cb_b |-> NONE] \in ChanState
    BY DEF ChanState, Id
  <2>3. hw \in [Chans -> Regs] /\ chan \in [Chans -> ChanState]
    BY <2>1, <2>2 DEF Init
  <2>4. log \in [Chans -> Seq(Nat)] /\ acked \in [Chans -> SUBSET Nat]
    BY DEF Init
  <2>5. /\ sent \in [Chans -> Nat] /\ rtx \in [Chans -> {"idle", "event", "wait"}]
        /\ rrx \in [Chans -> {"idle", "clear", "ack"}]
    BY ChanAssumption DEF Init
  <2>6. sq \in Seq(Links) /\ isr \in [pc : {"idle", "clear", "ack", "deliver"}, chan : Chans \cup {NONE}]
    <3>1. sq = << >> /\ isr = Idle
      BY DEF Init
    <3> QED BY <2>1, <3>1
  <2>7. handler \in BOOLEAN /\ mbox \in BOOLEAN /\ wild \in BOOLEAN
    BY DEF Init
  <2>8. /\ link \in [Links -> {"new", "claimTo", "open", "undo", "releaseTo", "freed", "failed"}]
        /\ tx \in [Links -> {"idle", "event", "wait"}]
    BY DEF Init
  <2>9. over \subseteq Chans
    BY DEF Init
  <2> QED BY <2>3, <2>4, <2>5, <2>6, <2>7, <2>8, <2>9 DEF TypeOK
<1> QED BY <1>1, TypeStep, PTL DEF Spec

-------------------------------------------------------------------------------
(* Claims. *)

(* A channel is of one link and one direction. *)
LEMMA Apart ==
  ASSUME OwnChannels
  PROVE  /\ \A l \in Links : From[l] \in Chans /\ To[l] \in Chans
         /\ \A l, m \in Links : From[l] # To[m] /\ (l # m => From[l] # From[m] /\ To[l] # To[m])
         /\ NONE \notin Links
BY ChanAssumption DEF OwnChannels

(* The steps that claim or release nothing. *)
Works ==
  /\ chan' = chan /\ link' = link
  /\ \A j \in Chans : hw'[j].enable = hw[j].enable

(* Whatever a step does, it is one of the claims and releases or leaves the *)
(* claims as they are.                                                     *)
LEMMA WorkSteps ==
  ASSUME TypeOK, [Next]_vars
  PROVE  \/ \E l \in Links : \/ ClaimFrom(l) \/ ClaimTo(l) \/ ConnectFails(l)
                             \/ link_disconnect(l) \/ ReleaseLast(l)
         \/ hpsc_mbox_remove
         \/ Works
<1> USE ChanAssumption DEF swVars, remVars, msgVars, Works
<1>0. /\ \A l \in Links : From[l] \in Chans /\ To[l] \in Chans
      /\ \A i \in Chans : hw[i].cause \in SUBSET Ev /\ hw[i].data \in Nat /\ sent[i] \in Nat
      /\ {"A"} \subseteq Ev /\ {"B"} \subseteq Ev
  BY DEF TypeOK, Regs, Ev
<1>1. ASSUME NEW l \in Links, hpsc_mbox_chan_write(l) PROVE Works
  BY <1>0, <1>1, Writes DEF hpsc_mbox_chan_write
<1>2. ASSUME NEW l \in Links, hpsc_mbox_chan_event_set_rcv(l) PROVE Works
  BY <1>0, <1>2, CauseWrite, hw[To[l]].cause \cup {"A"} \in SUBSET Ev DEF hpsc_mbox_chan_event_set_rcv
<1>3. ASSUME NEW i \in Chans, hpsc_mbox_chan_read(i) PROVE Works
  <2>1. CASE hw' = Cleared(i, "A")
    BY <1>0, <1>3, <2>1, CauseWrite, hw[i].cause \ {"A"} \in SUBSET Ev DEF Cleared, hpsc_mbox_chan_read
  <2> QED BY <1>3, <2>1 DEF hpsc_mbox_chan_read
<1>4. ASSUME NEW i \in Chans, link_mbox_ack(i) PROVE Works
  BY <1>0, <1>4, CauseWrite, hw[i].cause \ {"B"} \in SUBSET Ev DEF Cleared, link_mbox_ack
<1>5. CASE link_mbox_read
  <2> USE DEF hpsc_mbox_chan_event_clear_rcv, hpsc_mbox_chan_event_set_ack
  <2>1. chan' = chan /\ link' = link
    BY <1>5 DEF link_mbox_read
  <2>2. CASE isr.chan \in Chans
    <3> DEFINE i == isr.chan
    <3>1. hw[i].cause \ {"A"} \in SUBSET Ev /\ hw[i].cause \cup {"B"} \in SUBSET Ev
      BY <1>0, <2>2
    <3>2. PICK C \in SUBSET Ev : hw' = [hw EXCEPT ![i].cause = C]
      BY <1>5, <3>1 DEF link_mbox_read
    <3> QED BY <2>1, <2>2, <3>2, CauseWrite
  <2>3. CASE isr.chan \notin Chans
    BY <1>5, <2>1, <2>3 DEF link_mbox_read, TypeOK
  <2> QED BY <2>2, <2>3
<1>6. CASE link_recv \/ HandleCommand \/ StopHandler \/ \E l \in Links : AckTimeout(l)
  <2>1. UNCHANGED <<hw, chan, link>>
    BY <1>6 DEF link_recv, HandleCommand, StopHandler, AckTimeout
  <2> QED BY <2>1
<1>7. ASSUME NEW i \in Chans, RemoteClaim(i) PROVE Works
  <2>1. UNCHANGED <<chan, link>>
    BY <1>7 DEF RemoteClaim
  <2> QED BY <1>7, <2>1, RemoteRegs
<1>8. ASSUME NEW i \in Chans, RemoteWrite(i) PROVE Works
  BY <1>8, Writes DEF RemoteWrite
<1>9. ASSUME NEW i \in Chans, RemoteSetRcv(i) PROVE Works
  BY <1>0, <1>9, CauseWrite, hw[i].cause \cup {"A"} \in SUBSET Ev DEF RemoteSetRcv
<1>10. ASSUME NEW i \in Chans, RemoteAck(i) PROVE Works
  BY <1>0, <1>10, CauseWrite, hw[i].cause \ {"B"} \in SUBSET Ev DEF RemoteAck
<1>11. ASSUME NEW i \in Chans, RemoteAbort(i) \/ RemoteAckTimeout(i) \/ RemoteRead(i) PROVE Works
  <2>1. UNCHANGED <<hw, chan, link>>
    BY <1>11 DEF RemoteAbort, RemoteAckTimeout, RemoteRead
  <2> QED BY <2>1
<1>12. ASSUME NEW i \in Chans, RemoteClearRcv(i) PROVE Works
  BY <1>0, <1>12, CauseWrite, hw[i].cause \ {"A"} \in SUBSET Ev DEF RemoteClearRcv
<1>13. ASSUME NEW i \in Chans, RemoteSetAck(i) PROVE Works
  BY <1>0, <1>13, CauseWrite, hw[i].cause \cup {"B"} \in SUBSET Ev DEF RemoteSetAck
<1>14. CASE UNCHANGED vars
  BY <1>14 DEF vars
<1> HIDE DEF Works
<1> QED
  BY <1>1, <1>2, <1>3, <1>4, <1>5, <1>6, <1>7, <1>8, <1>9, <1>10, <1>11, <1>12, <1>13, <1>14
  DEF Next, LinkTask, Interrupt, Remote, Removed

(* An event that is subscribed to is of a link that holds the channel. *)
LEMMA Subscribed ==
  ASSUME OwnChannels, ClaimInv, NEW i \in Chans
  PROVE  /\ "A" \in hw[i].enable => \E l \in Links : i = From[l] /\ HoldsFrom(l) /\ chan[i].cb_a = l
         /\ "B" \in hw[i].enable => \E l \in Links : i = To[l] /\ HoldsTo(l) /\ chan[i].cb_b = l
<1>1. CASE Unused(i)
  BY <1>1 DEF ClaimInv, Free
<1>2. ASSUME NEW l \in Links, i = From[l]
      PROVE  /\ "B" \notin hw[i].enable
             /\ ("A" \in hw[i].enable => HoldsFrom(l) /\ chan[i].cb_a = l)
  BY <1>2 DEF ClaimInv, FromClaim, Free
<1>3. ASSUME NEW l \in Links, i = To[l]
      PROVE  /\ "A" \notin hw[i].enable
             /\ ("B" \in hw[i].enable => HoldsTo(l) /\ chan[i].cb_b = l)
  BY <1>3 DEF ClaimInv, ToClaim, Free
<1> QED BY <1>1, <1>2, <1>3 DEF Unused

(* The interrupt handler is entered on a channel that is held. *)
LEMMA IsrEnters ==
  ASSUME TypeOK, [Next]_vars, isr'.pc # "idle"
  PROVE  \/ \E i \in Chans : hpsc_mbox_chan_read(i) /\ isr'.chan = i /\ "A" \in hw[i].enable
         \/ isr.pc # "idle" /\ isr'.chan = isr.chan
<1> USE DEF swVars, remVars, msgVars
<1>1. ASSUME NEW l \in Links, LinkTask(l) PROVE isr' = isr
  BY <1>1 DEF LinkTask, ClaimFrom, ClaimTo, ConnectFails, link_disconnect, link_mbox_close, ReleaseLast,
     hpsc_mbox_chan_write, hpsc_mbox_chan_event_set_rcv, AckTimeout
<1>2. ASSUME NEW i \in Chans, hpsc_mbox_chan_read(i)
      PROVE  isr' = isr \/ (isr'.chan = i /\ "A" \in hw[i].enable)
  BY <1>2 DEF hpsc_mbox_chan_read, hpsc_mbox_isr, hpsc_mbox_chan_is_subscribed
<1>3. ASSUME NEW i \in Chans, link_mbox_ack(i) PROVE isr' = isr
  BY <1>3 DEF link_mbox_ack
<1>4. CASE link_mbox_read
  BY <1>4 DEF link_mbox_read, IsrStep, TypeOK
<1>5. CASE link_recv
  BY <1>5 DEF link_recv, Idle
<1>6. ASSUME NEW i \in Chans, Remote(i) PROVE isr' = isr
  BY <1>6 DEF Remote, RemoteClaim, RemoteWrite, RemoteSetRcv, RemoteAckTimeout, RemoteAck, RemoteAbort,
     RemoteRead, RemoteClearRcv, RemoteSetAck
<1>7. CASE HandleCommand \/ StopHandler \/ hpsc_mbox_remove
  BY <1>7 DEF HandleCommand, StopHandler, hpsc_mbox_remove
<1>8. CASE UNCHANGED vars
  BY <1>8 DEF vars
<1> QED
  BY <1>1, <1>2, <1>3, <1>4, <1>5, <1>6, <1>7, <1>8 DEF Next, Interrupt, Removed

(* What is of another link, or of none, stays as it is. *)
LEMMA ClaimFrame ==
  ASSUME OwnChannels, TypeOK, NEW l \in Links, NEW i \in {From[l], To[l]}, ClaimInv,
         \A m \in Links \ {l} : link'[m] = link[m],
         \A j \in Chans \ {i} : hw'[j] = hw[j] /\ chan'[j] = chan[j],
         isr' = isr, isr.pc = "idle",
         FromClaim(l)', ToClaim(l)'
  PROVE  ClaimInv'
<1>1. ASSUME NEW m \in Links, m # l PROVE FromClaim(m)' /\ ToClaim(m)'
  <2>1. From[m] \in Chans \ {i} /\ To[m] \in Chans \ {i} /\ link'[m] = link[m]
    BY <1>1, Apart
  <2>2. /\ hw'[From[m]] = hw[From[m]] /\ chan'[From[m]] = chan[From[m]]
        /\ hw'[To[m]] = hw[To[m]] /\ chan'[To[m]] = chan[To[m]]
    BY <2>1
  <2>3. FromClaim(m)'
    BY <2>1, <2>2 DEF ClaimInv, FromClaim, Free, HoldsFrom, server
  <2>4. ToClaim(m)'
    BY <2>1, <2>2 DEF ClaimInv, ToClaim, Free, HoldsTo, server
  <2> QED BY <2>3, <2>4
<1>2. ASSUME NEW j \in Chans, Unused(j) PROVE Free(j)'
  <2>1. j # i
    BY <1>2 DEF Unused
  <2> QED BY <1>2, <2>1 DEF ClaimInv, Free
<1> QED BY <1>1, <1>2 DEF ClaimInv, Unused

(* The callbacks and interrupts of a channel are those of the link that    *)
(* holds it, whatever step of connect, of a failed connect or of close is  *)
(* taken.                                                                  *)
LEMMA ClaimStep ==
  ASSUME OwnChannels, TypeOK, ClaimInv, [Next]_vars
  PROVE  ClaimInv'
<1> USE Apart
<1>0. \A l \in Links : FromClaim(l) /\ ToClaim(l) /\ server(l) \in Id /\ client(l) \in Id
  BY Ids DEF ClaimInv
<1>1. ASSUME NEW l \in Links, ClaimFrom(l) PROVE ClaimInv'
  <2>1. isr' = isr /\ isr.pc = "idle" /\ link[l] = "new"
    BY <1>1 DEF ClaimFrom, TaskRuns
  <2>2. Free(From[l]) /\ Free(To[l])
    BY <1>0, <2>1 DEF FromClaim, ToClaim, HoldsFrom, HoldsTo
  <2>3. CASE /\ hpsc_mbox_chan_claim(From[l], server(l), client(l), server(l), l, NONE)
             /\ link' = [link EXCEPT ![l] = "claimTo"]
    <3>1. /\ \A j \in Chans \ {From[l]} : hw'[j] = hw[j] /\ chan'[j] = chan[j]
          /\ chan'[From[l]].active /\ chan'[From[l]].owner = server(l)
          /\ chan'[From[l]].cb_a = l /\ chan'[From[l]].cb_b = NONE
          /\ hw'[From[l]].enable = {"A"}
      <4>1. l \in Links \cup {NONE} /\ NONE \in Links \cup {NONE} /\ l # NONE /\ From[l] \in Chans
        OBVIOUS
      <4>2. hw'[From[l]].enable = hw[From[l]].enable \cup {"A"} \cup {}
        BY <1>0, <2>3, <4>1, Claims
      <4> QED BY <1>0, <2>2, <2>3, <4>1, <4>2, Claims DEF Free
    <3>2. \A m \in Links : link'[m] = IF m = l THEN "claimTo" ELSE link[m]
      BY <2>3 DEF TypeOK
    <3>3. FromClaim(l)'
      BY <3>1, <3>2 DEF FromClaim, HoldsFrom, server
    <3>4. ToClaim(l)'
      BY <2>2, <3>1, <3>2 DEF ToClaim, HoldsTo, Free
    <3> QED BY <2>1, <3>1, <3>2, <3>3, <3>4, ClaimFrame
  <2>4. CASE /\ ClaimFails(From[l], server(l), client(l), server(l), l, NONE)
             /\ link' = [link EXCEPT ![l] = "failed"] /\ hw' = hw
    <3>1. /\ \A j \in Chans \ {From[l]} : hw'[j] = hw[j] /\ chan'[j] = chan[j]
          /\ ~chan'[From[l]].active /\ chan'[From[l]].owner = "0"
          /\ chan'[From[l]].cb_a = NONE /\ chan'[From[l]].cb_b = NONE
          /\ hw'[From[l]].enable = {}
      BY <2>2, <2>4, Refused DEF Free
    <3>2. \A m \in Links : link'[m] = IF m = l THEN "failed" ELSE link[m]
      BY <2>4 DEF TypeOK
    <3>3. FromClaim(l)' /\ ToClaim(l)'
      BY <2>2, <3>1, <3>2 DEF FromClaim, ToClaim, HoldsFrom, HoldsTo, Free
    <3> QED BY <2>1, <3>1, <3>2, <3>3, ClaimFrame
  <2> QED BY <1>1, <2>3, <2>4 DEF ClaimFrom
<1>2. ASSUME NEW l \in Links, ClaimTo(l) PROVE ClaimInv'
  <2>1. isr' = isr /\ isr.pc = "idle" /\ link[l] = "claimTo" /\ link' = [link EXCEPT ![l] = "open"]
    BY <1>2 DEF ClaimTo, TaskRuns
  <2>2. Free(To[l])
    BY <1>0, <2>1 DEF ToClaim, HoldsTo
  <2>3. /\ \A j \in Chans \ {To[l]} : hw'[j] = hw[j] /\ chan'[j] = chan[j]
        /\ chan'[To[l]].active /\ chan'[To[l]].owner = server(l)
        /\ chan'[To[l]].cb_a = NONE /\ chan'[To[l]].cb_b = l
        /\ hw'[To[l]].enable = {"B"}
    <3>1. /\ hpsc_mbox_chan_claim(To[l], server(l), server(l), client(l), NONE, l)
          /\ l \in Links \cup {NONE} /\ NONE \in Links \cup {NONE} /\ l # NONE /\ To[l] \in Chans
      BY <1>2 DEF ClaimTo
    <3>2. /\ \A j \in Chans \ {To[l]} : hw'[j] = hw[j] /\ chan'[j] = chan[j]
          /\ chan'[To[l]].active /\ chan'[To[l]].owner = server(l)
          /\ chan'[To[l]].cb_a = NONE /\ chan'[To[l]].cb_b = l
      BY <1>0, <3>1, Claims
    <3>3. hw'[To[l]].enable = hw[To[l]].enable \cup {} \cup {"B"}
      BY <1>0, <3>1, Claims
    <3> QED BY <2>2, <3>2, <3>3 DEF Free
  <2>4. \A m \in Links : link'[m] = IF m = l THEN "open" ELSE link[m]
    BY <2>1 DEF TypeOK
  <2>5. ToClaim(l)'
    BY <2>3, <2>4 DEF ToClaim, HoldsTo, server
  <2>6. FromClaim(l)'
    BY <1>0, <2>1, <2>3, <2>4 DEF FromClaim, HoldsFrom, server
  <2> QED BY <2>1, <2>3, <2>4, <2>5, <2>6, ClaimFrame
<1>3. ASSUME NEW l \in Links, ConnectFails(l) PROVE ClaimInv'
  <2>1. /\ isr' = isr /\ isr.pc = "idle" /\ link[l] = "claimTo" /\ link' = [link EXCEPT ![l] = "undo"]
        /\ hw' = hw
    BY <1>3 DEF ConnectFails, TaskRuns
  <2>2. Free(To[l])
    BY <1>0, <2>1 DEF ToClaim, HoldsTo
  <2>3. /\ \A j \in Chans \ {To[l]} : hw'[j] = hw[j] /\ chan'[j] = chan[j]
        /\ ~chan'[To[l]].active /\ chan'[To[l]].owner = "0"
        /\ chan'[To[l]].cb_a = NONE /\ chan'[To[l]].cb_b = NONE
        /\ hw'[To[l]].enable = {}
    BY <1>3, <2>1, <2>2, Refused DEF ConnectFails, Free
  <2>4. \A m \in Links : link'[m] = IF m = l THEN "undo" ELSE link[m]
    BY <2>1 DEF TypeOK
  <2>5. ToClaim(l)'
    BY <2>3, <2>4 DEF ToClaim, HoldsTo, Free
  <2>6. FromClaim(l)'
    BY <1>0, <2>1, <2>3, <2>4 DEF FromClaim, HoldsFrom, server
  <2> QED BY <2>1, <2>3, <2>4, <2>5, <2>6, ClaimFrame
<1>4. ASSUME NEW l \in Links, link_disconnect(l) \/ ReleaseLast(l) PROVE ClaimInv'
  <2>1. isr' = isr /\ isr.pc = "idle"
    BY <1>4 DEF link_disconnect, link_mbox_close, ReleaseLast, TaskRuns
  <2>2. PICK i \in {From[l], To[l]}, v \in {"releaseTo", "freed", "failed"} :
          /\ hpsc_mbox_chan_release(i) /\ link' = [link EXCEPT ![l] = v]
          /\ \/ link[l] = "open" /\ v = "releaseTo" /\ i = From[l]
             \/ link[l] = "releaseTo" /\ v = "freed" /\ i = To[l]
             \/ link[l] = "undo" /\ v = "failed" /\ i = From[l]
    BY <1>4 DEF link_disconnect, link_mbox_close, ReleaseLast
  <2>3. /\ \A j \in Chans \ {i} : hw'[j] = hw[j] /\ chan'[j] = chan[j]
        /\ ~chan'[i].active /\ chan'[i].owner = "0"
        /\ chan'[i].cb_a = NONE /\ chan'[i].cb_b = NONE
        /\ hw'[i].enable = {}
    BY <2>2, Releases, ReleasedRegs
  <2>4. \A m \in Links : link'[m] = IF m = l THEN v ELSE link[m]
    BY <2>2 DEF TypeOK
  <2>5. FromClaim(l)'
    BY <1>0, <2>2, <2>3, <2>4 DEF FromClaim, HoldsFrom, Free, server
  <2>6. ToClaim(l)'
    BY <1>0, <2>2, <2>3, <2>4 DEF ToClaim, HoldsTo, Free, server
  <2> QED BY <2>1, <2>3, <2>4, <2>5, <2>6, ClaimFrame
<1>5. CASE hpsc_mbox_remove
  <2>1. /\ link' = link /\ isr' = isr /\ isr.pc = "idle"
        /\ \A l \in Links : link[l] \in {"freed", "failed"}
        /\ hw' = [i \in Chans |-> IF chan[i].base THEN Released(i) ELSE hw[i]]
        /\ chan' = [i \in Chans |-> hpsc_mbox_chan_destroy(i)]
    BY <1>5 DEF hpsc_mbox_remove, TaskRuns
  <2>2. \A i \in Chans : hw[i].enable = {}
    <3>1. ASSUME NEW i \in Chans PROVE "A" \notin hw[i].enable /\ "B" \notin hw[i].enable
      BY <2>1, Subscribed DEF HoldsFrom, HoldsTo
    <3>2. \A i \in Chans : hw[i].enable \subseteq {"A", "B"}
      BY DEF TypeOK, Regs, Ev
    <3> QED BY <3>1, <3>2
  <2>3. \A i \in Chans : Released(i).enable = {}
    BY ReleasedRegs
  <2>4. \A i \in Chans : hw'[i].enable = {}
    BY <2>1, <2>2, <2>3
  <2>5. \A i \in Chans : /\ ~chan'[i].active /\ chan'[i].owner = "0"
                         /\ chan'[i].cb_a = NONE /\ chan'[i].cb_b = NONE
    BY <2>1, Destroyed
  <2>6. \A i \in Chans : Free(i)'
    BY <2>4, <2>5 DEF Free
  <2> QED BY <2>1, <2>6 DEF ClaimInv, FromClaim, ToClaim, HoldsFrom, HoldsTo
<1>6. CASE Works
  <2>1. \A l \in Links : FromClaim(l)' /\ ToClaim(l)'
    BY <1>0, <1>6 DEF Works, FromClaim, ToClaim, HoldsFrom, HoldsTo, Free, server
  <2>2. \A i \in Chans : Unused(i)' => Free(i)'
    BY <1>6 DEF Works, ClaimInv, Unused, Free
  <2>3. isr'.pc # "idle" => \E l \in Links : HoldsFrom(l)' /\ isr'.chan = From[l]
    <3> SUFFICES ASSUME isr'.pc # "idle" PROVE \E l \in Links : HoldsFrom(l) /\ isr'.chan = From[l]
      BY <1>6 DEF Works, HoldsFrom
    <3> QED BY IsrEnters, Subscribed DEF ClaimInv
  <2> QED BY <2>1, <2>2, <2>3 DEF ClaimInv
<1> QED BY <1>1, <1>2, <1>3, <1>4, <1>5, <1>6, WorkSteps

(* No step leaves a request or a reply under way on a link that is not     *)
(* open.                                                                   *)
LEMMA CloseStep ==
  ASSUME TypeOK, CloseInv, [Next]_vars
  PROVE  CloseInv'
<1> USE DEF swVars, remVars, msgVars, CloseInv
<1>1. ASSUME NEW l \in Links, ClaimFrom(l) \/ ClaimTo(l) \/ ConnectFails(l) \/ link_disconnect(l) \/ ReleaseLast(l)
      PROVE  CloseInv'
  <2>1. UNCHANGED <<tx, handler>>
    BY <1>1 DEF ClaimFrom, ClaimTo, ConnectFails, link_disconnect, link_mbox_close, ReleaseLast
  <2>2. PICK v : link' = [link EXCEPT ![l] = v] /\ tx[l] = "idle"
    BY <1>1 DEF ClaimFrom, ClaimTo, ConnectFails, link_disconnect, link_mbox_close, ReleaseLast
  <2>3. \A m \in Links : link'[m] = IF m = l THEN v ELSE link[m]
    BY <2>2 DEF TypeOK
  <2> QED BY <2>1, <2>2, <2>3
<1>2. ASSUME NEW l \in Links, hpsc_mbox_chan_write(l) \/ hpsc_mbox_chan_event_set_rcv(l) \/ AckTimeout(l)
      PROVE  CloseInv'
  <2>1. UNCHANGED <<link, handler>> /\ link[l] = "open" /\ (l \in Servers => handler)
    BY <1>2 DEF hpsc_mbox_chan_write, hpsc_mbox_chan_event_set_rcv, AckTimeout
  <2>2. \A m \in Links : m # l => tx'[m] = tx[m]
    BY <1>2 DEF hpsc_mbox_chan_write, hpsc_mbox_chan_event_set_rcv, AckTimeout, TypeOK
  <2> QED BY <2>1, <2>2, ChanAssumption
<1>3. ASSUME NEW i \in Chans, link_mbox_ack(i)
      PROVE  CloseInv'
  <2>1. UNCHANGED <<link, handler>>
    BY <1>3 DEF link_mbox_ack
  <2>2. \A m \in Links : tx'[m] \in {"idle", tx[m]}
    <3> DEFINE c == Callback(i, "B")
    <3>1. CASE c = NONE
      BY <1>3, <3>1 DEF link_mbox_ack
    <3>2. CASE c # NONE
      <4>1. tx' = [tx EXCEPT ![c] = IF tx[c] = "wait" THEN "idle" ELSE tx[c]]
        BY <1>3, <3>2 DEF link_mbox_ack
      <4> HIDE DEF c
      <4> QED BY <4>1 DEF TypeOK
    <3> QED BY <3>1, <3>2
  <2> QED BY <2>1, <2>2, ChanAssumption
<1>4. ASSUME NEW i \in Chans, hpsc_mbox_chan_read(i) \/ Remote(i) PROVE CloseInv'
  <2>1. UNCHANGED <<link, tx, handler>>
    BY <1>4 DEF hpsc_mbox_chan_read, Remote, RemoteClaim, RemoteWrite, RemoteSetRcv, RemoteAckTimeout,
       RemoteAck, RemoteAbort, RemoteRead, RemoteClearRcv, RemoteSetAck
  <2> QED BY <2>1
<1>5. CASE link_mbox_read \/ link_recv \/ HandleCommand \/ hpsc_mbox_remove \/ UNCHANGED vars
  <2>1. UNCHANGED <<link, tx, handler>>
    BY <1>5 DEF link_mbox_read, link_recv, HandleCommand, hpsc_mbox_remove, vars
  <2> QED BY <2>1
<1>6. CASE StopHandler
  BY <1>6 DEF StopHandler
<1> QED
  BY <1>1, <1>2, <1>3, <1>4, <1>5, <1>6 DEF Next, LinkTask, Interrupt, Removed

-------------------------------------------------------------------------------
(* The protocol. *)

Kept(j) ==
  /\ hw'[j].cause = hw[j].cause /\ hw'[j].data = hw[j].data
  /\ hw'[j].src = hw[j].src /\ hw'[j].dest = hw[j].dest
  /\ log'[j] = log[j] /\ sent'[j] = sent[j] /\ acked'[j] = acked[j] /\ (j \in over' <=> j \in over)
  /\ rtx'[j] = rtx[j] /\ rrx'[j] = rrx[j] /\ Reader(j)' = Reader(j)

(* A channel that a step leaves alone keeps its part of the invariant. *)
LEMMA ProtocolFrame ==
  ASSUME OwnChannels, TypeOK, ProtocolInv, NEW I \in SUBSET Chans,
         \A j \in Chans \ I : Kept(j),
         \A m \in Links : From[m] \notin I => /\ Dead(m)' <=> Dead(m)
                                              /\ link'[m] = "new" => link[m] = "new",
         \A m \in Links : To[m] \notin I => tx'[m] = tx[m] /\ (Gone(m)' <=> Gone(m)),
         \A m \in Links : From[m] \in I => InInv(m)',
         \A m \in Links : To[m] \in I => OutInv(m)',
         \A i \in I : LogInv(i)' /\ (Unused(i) => UnusedInv(i)')
  PROVE  ProtocolInv'
<1> USE Apart
<1>1. ASSUME NEW m \in Links, From[m] \notin I PROVE InInv(m)'
  <2>1. Kept(From[m])
    BY <1>1
  <2>2. InInv(m) /\ (Dead(m)' <=> Dead(m)) /\ (link'[m] = "new" => link[m] = "new")
    BY <1>1 DEF ProtocolInv
  <2>3. Protocol(From[m], rtx[From[m]], Reader(From[m])) =>
          Protocol(From[m], rtx[From[m]], Reader(From[m]))'
    BY <2>1 DEF Kept, Protocol, InFlight, OneAtATime, Fresh, WasRead, Unacked
  <2> QED BY <2>1, <2>2, <2>3 DEF Kept, InInv
<1>2. ASSUME NEW m \in Links, To[m] \notin I PROVE OutInv(m)'
  <2>1. Kept(To[m])
    BY <1>2
  <2>2. OutInv(m) /\ tx'[m] = tx[m] /\ (Gone(m)' <=> Gone(m))
    BY <1>2 DEF ProtocolInv
  <2>3. Protocol(To[m], tx[m], rrx[To[m]]) => Protocol(To[m], tx[m], rrx[To[m]])'
    BY <2>1, <2>2 DEF Kept, Protocol, InFlight, OneAtATime, Fresh, WasRead, Unacked
  <2> QED BY <2>1, <2>2, <2>3 DEF Kept, OutInv
<1>3. ASSUME NEW i \in Chans, i \notin I PROVE LogInv(i)' /\ (Unused(i) => UnusedInv(i)')
  <2>1. Kept(i) /\ LogInv(i) /\ (Unused(i) => UnusedInv(i))
    BY <1>3 DEF ProtocolInv
  <2> QED BY <2>1 DEF Kept, LogInv, UnusedInv
<1>4. \A i \in Chans : Unused(i)' <=> Unused(i)
  BY DEF Unused
<1>5. \A m \in Links : InInv(m)' /\ OutInv(m)'
  BY <1>1, <1>2
<1>6. \A i \in Chans : LogInv(i)' /\ (Unused(i) => UnusedInv(i)')
  BY <1>3
<1> QED BY <1>4, <1>5, <1>6 DEF ProtocolInv

(* A step that changes neither the messages nor the history of a channel   *)
(* keeps what was read and acknowledged.                                   *)
LEMMA LogKept ==
  ASSUME NEW i, LogInv(i), UNCHANGED <<sent, log, acked, over>>
  PROVE  LogInv(i)'
BY DEF LogInv

(* The receiver appends the message after those it has read. *)
LEMMA LogAppends ==
  ASSUME TypeOK, NEW i \in Chans, Fresh(i), LogInv(i), UNCHANGED <<sent, acked, over>>,
         log' = [log EXCEPT ![i] = Append(log[i], hw[i].data)]
  PROVE  LogInv(i)' /\ WasRead(i)'
<1>1. log'[i] = Append(log[i], sent[i])
  BY DEF TypeOK, Fresh
<1>2. log[i] \in Seq(Nat) /\ sent[i] \in Nat
  BY DEF TypeOK
<1> DEFINE s == log[i]
           n == Len(s)
           t == log'[i]
<1>3. /\ n \in Nat /\ sent[i] = n + 1
      /\ Len(t) = n + 1 /\ DOMAIN s = 1..n /\ DOMAIN t = 1..(n + 1) /\ t[n + 1] = sent[i]
      /\ \A k \in 1..n : t[k] = s[k]
  BY <1>1, <1>2, AppendProperties DEF Fresh
<1>4. i \notin over => (\A k \in 1..n : s[k] = k) /\ acked[i] \subseteq ToSet(s)
  BY <1>3 DEF LogInv
<1> HIDE DEF s, n, t
<1>5. \A k \in 1..(n + 1) : k \in 1..n \/ k = n + 1
  BY <1>3
<1>6. ToSet(s) \subseteq ToSet(t)
  BY <1>3, <1>5 DEF ToSet
<1>7. i \notin over => \A k \in DOMAIN t : t[k] = k
  BY <1>3, <1>4, <1>5
<1> QED BY <1>3, <1>4, <1>6, <1>7 DEF LogInv, WasRead, t

(* A sender that has seen the ACK writes a message no one has read or      *)
(* acknowledged.                                                           *)
LEMMA LogWrite ==
  ASSUME TypeOK, NEW i \in Chans, LogInv(i), WriteData(i), UNCHANGED <<log, acked>>
  PROVE  LogInv(i)' /\ (i \notin over' => Fresh(i)' /\ Unacked(i)')
<1>1. CASE i \in over'
  BY <1>1 DEF LogInv
<1>2. CASE i \notin over'
  <2>1. /\ i \notin over /\ ~Unacked(i) /\ sent[i] \in Nat
        /\ sent'[i] = sent[i] + 1 /\ hw'[i].data = sent[i] + 1
    BY <1>2, Writes
  <2> DEFINE s == log[i]
  <2>2. s \in Seq(Nat) /\ Len(s) \in Nat /\ DOMAIN s = 1..Len(s)
    BY DEF TypeOK
  <2>3. Len(s) \in {sent[i] - 1, sent[i]} /\ (\A k \in 1..Len(s) : s[k] = k) /\ acked[i] \subseteq ToSet(s)
    BY <2>1, <2>2 DEF LogInv
  <2> HIDE DEF s
  <2>4. ToSet(s) = {s[k] : k \in 1..Len(s)}
    BY <2>2 DEF ToSet
  <2>5. \A m \in ToSet(s) : m \in 1..Len(s)
    BY <2>3, <2>4
  <2>6. Len(s) = sent[i]
    BY <2>1, <2>2, <2>3, <2>5 DEF Unacked
  <2>7. sent[i] + 1 \notin acked[i] \cup {0}
    BY <2>1, <2>2, <2>3, <2>5, <2>6
  <2> QED BY <1>2, <2>1, <2>2, <2>3, <2>6, <2>7 DEF LogInv, Fresh, Unacked, s
<1> QED BY <1>1, <1>2

(* A step on the channel a link receives on, or sends on. *)
LEMMA InStep ==
  ASSUME OwnChannels, TypeOK, ProtocolInv, NEW l \in Links, UNCHANGED <<link, tx>>,
         \A j \in Chans \ {From[l]} : Kept(j), InInv(l)', LogInv(From[l])'
  PROVE  ProtocolInv'
<1> DEFINE f == From[l]
<1>1. ~Unused(f) /\ \A m \in Links : To[m] # f /\ (From[m] = f => m = l)
  BY Apart DEF Unused
<1>2. \A m \in Links : (Dead(m)' <=> Dead(m)) /\ (Gone(m)' <=> Gone(m)) /\ (link'[m] = "new" => link[m] = "new")
  BY DEF Dead, Gone
<1>3. {f} \in SUBSET Chans
  BY Apart
<1> HIDE DEF f
<1>4. InInv(l)' /\ LogInv(f)' /\ \A j \in Chans \ {f} : Kept(j)
  BY DEF f
<1> QED BY <1>1, <1>2, <1>3, <1>4, ProtocolFrame

(* A step of the sender of link l that concerns only its channel To[l].    *)
LEMMA OutStep ==
  ASSUME OwnChannels, TypeOK, ProtocolInv, NEW l \in Links, UNCHANGED link,
         \A m \in Links \ {l} : tx'[m] = tx[m],
         \A j \in Chans \ {To[l]} : Kept(j), OutInv(l)', LogInv(To[l])'
  PROVE  ProtocolInv'
<1> DEFINE t == To[l]
<1>1. ~Unused(t) /\ \A m \in Links : From[m] # t /\ (To[m] = t => m = l)
  BY Apart DEF Unused
<1>2. \A m \in Links : (Dead(m)' <=> Dead(m)) /\ (Gone(m)' <=> Gone(m)) /\ (link'[m] = "new" => link[m] = "new")
  BY DEF Dead, Gone
<1>3. {t} \in SUBSET Chans
  BY Apart
<1> HIDE DEF t
<1>4. /\ OutInv(l)' /\ LogInv(t)' /\ \A j \in Chans \ {t} : Kept(j)
      /\ \A m \in Links : To[m] # t => tx'[m] = tx[m]
  BY DEF t
<1> QED BY <1>1, <1>2, <1>3, <1>4, ProtocolFrame

(* The last message is among those read. *)
LEMMA LastRead ==
  ASSUME TypeOK, NEW i \in Chans, i \notin over, LogInv(i), WasRead(i), Unacked(i)
  PROVE  sent[i] \in ToSet(log[i])
<1>1. log[i] \in Seq(Nat) /\ sent[i] \in Nat
  BY DEF TypeOK
<1>2. DOMAIN log[i] = 1..sent[i] /\ sent[i] \in 1..sent[i]
  BY <1>1 DEF WasRead, Unacked
<1>3. log[i][sent[i]] = sent[i]
  BY <1>2 DEF LogInv
<1> QED BY <1>2, <1>3 DEF ToSet

(* Every step of a sender, of a receiver, of a connect and of a close      *)
(* keeps the protocol of the channel it is on.                             *)
LEMMA ProtocolStep ==
  ASSUME OwnChannels, TypeOK, ClaimInv, CloseInv, ProtocolInv, [Next]_vars
  PROVE  ProtocolInv'
<1> USE Apart DEF swVars, remVars, msgVars
<1>0. /\ \A l \in Links : InInv(l) /\ OutInv(l) /\ FromClaim(l) /\ ToClaim(l)
      /\ \A i \in Chans : LogInv(i) /\ (Unused(i) => UnusedInv(i))
      /\ \A l \in Links : server(l) \in Id /\ client(l) \in Id
  BY Ids DEF ProtocolInv, ClaimInv
<1>t. /\ \A i \in Chans : hw[i].cause \in SUBSET Ev /\ hw[i].data \in Nat /\ sent[i] \in Nat
      /\ {"A"} \subseteq Ev /\ {"B"} \subseteq Ev
      /\ isr \in [pc : {"idle", "clear", "ack", "deliver"}, chan : Chans \cup {NONE}]
  BY ChanAssumption DEF TypeOK, Regs, Ev
<1>s. \A l \in Links : /\ l \in Servers => server(l) = "local" /\ client(l) = "remote"
                       /\ l \notin Servers => server(l) = "0" /\ client(l) = "local"
  BY DEF server, client
<1>1. ASSUME NEW l \in Links, ClaimFrom(l) PROVE ProtocolInv'
  <2> DEFINE f == From[l]
  <2>1. /\ isr' = isr /\ isr.pc = "idle" /\ link[l] = "new"
        /\ UNCHANGED <<tx, rtx, rrx, sent, log, acked, over>>
    BY <1>1 DEF ClaimFrom, TaskRuns
  <2>2. \A j \in Chans : Reader(j) = "idle" /\ Reader(j)' = "idle"
    BY <2>1 DEF Reader
  <2>3. PICK v \in {"claimTo", "failed"} :
          /\ link' = [link EXCEPT ![l] = v]
          /\ v = "claimTo" => hpsc_mbox_chan_claim(f, server(l), client(l), server(l), l, NONE)
          /\ v = "failed" => hw' = hw
    BY <1>1 DEF ClaimFrom
  <2>4. /\ \A j \in Chans \ {f} : hw'[j] = hw[j]
        /\ hw'[f].cause = hw[f].cause /\ hw'[f].data = hw[f].data
        /\ hw'[f].src = hw[f].src \/ (l \in Servers /\ hw'[f].src = "remote")
        /\ hw'[f].dest = hw[f].dest \/ (l \in Servers /\ hw'[f].dest = "local")
    <3>1. CASE v = "claimTo"
      <4>1. hpsc_mbox_chan_claim(f, server(l), client(l), server(l), l, NONE)
        BY <2>3, <3>1
      <4>2. l \in Links \cup {NONE} /\ NONE \in Links \cup {NONE} /\ f \in Chans
        OBVIOUS
      <4>3. server(l) \in Id /\ client(l) \in Id
        BY <1>0
      <4>4. /\ \A j \in Chans \ {f} : hw'[j] = hw[j]
            /\ hw'[f].cause = hw[f].cause /\ hw'[f].data = hw[f].data
            /\ hw'[f].src = IF server(l) # "0" THEN client(l) ELSE hw[f].src
            /\ hw'[f].dest = IF server(l) # "0" THEN server(l) ELSE hw[f].dest
        BY <4>1, <4>2, <4>3, Claims
      <4> QED BY <1>s, <4>4
    <3>2. CASE v = "failed"
      <4>1. hw' = hw
        BY <2>3, <3>2
      <4> QED BY <4>1
    <3> QED BY <3>1, <3>2
  <2>5. \A m \in Links : link'[m] = IF m = l THEN v ELSE link[m]
    BY <2>3 DEF TypeOK
  <2>6. InInv(l)'
    <3>1. InInv(l) /\ ~Dead(l) /\ "B" \notin hw[f].cause
      BY <1>0, <2>1 DEF Dead, InInv
    <3>2. Protocol(f, rtx[f], Reader(f))'
      BY <2>1, <2>2, <2>4, <3>1 DEF InInv, Protocol, InFlight, OneAtATime, Fresh, WasRead, Unacked
    <3> QED BY <2>1, <2>2, <2>4, <2>5, <3>1, <3>2 DEF InInv
  <2>7. LogInv(f)'
    BY <1>0, <2>1, LogKept
  <2>8. \A j \in Chans \ {f} : Kept(j)
    BY <2>1, <2>2, <2>4 DEF Kept
  <2>9. \A m \in Links : From[m] # f => (Dead(m)' <=> Dead(m)) /\ (link'[m] = "new" => link[m] = "new")
    BY <2>5 DEF Dead
  <2>g. \A m \in Links : Gone(m)' <=> Gone(m)
    BY <2>1, <2>5 DEF Gone
  <2>10. ~Unused(f) /\ \A m \in Links : To[m] # f /\ (From[m] = f => m = l)
    BY DEF Unused
  <2> HIDE DEF f
  <2>11. {f} \in SUBSET Chans
    BY DEF f
  <2> QED BY <2>1, <2>g, <2>6, <2>7, <2>8, <2>9, <2>10, <2>11, ProtocolFrame
<1>2. ASSUME NEW l \in Links, ClaimTo(l) PROVE ProtocolInv'
  <2> DEFINE t == To[l]
  <2>1. /\ isr' = isr /\ link[l] = "claimTo" /\ link' = [link EXCEPT ![l] = "open"]
        /\ UNCHANGED <<tx, rtx, rrx, sent, log, acked, over>>
        /\ hpsc_mbox_chan_claim(t, server(l), server(l), client(l), NONE, l)
    BY <1>2 DEF ClaimTo
  <2>2. /\ \A j \in Chans \ {t} : hw'[j] = hw[j]
        /\ hw'[t].cause = hw[t].cause /\ hw'[t].data = hw[t].data
        /\ hw'[t].src = hw[t].src \/ hw'[t].src = "local"
    BY <1>0, <1>s, <2>1, Claims
  <2>3. \A m \in Links : link'[m] = IF m = l THEN "open" ELSE link[m]
    BY <2>1 DEF TypeOK
  <2>4. OutInv(l)'
    <3>1. OutInv(l) /\ ~Gone(l) /\ ~Gone(l)'
      BY <1>0, <2>1, <2>3 DEF Gone
    <3>2. Protocol(t, tx[l], rrx[t])'
      BY <2>1, <2>2, <3>1 DEF OutInv, Protocol, InFlight, OneAtATime, Fresh, WasRead, Unacked
    <3> QED BY <2>1, <2>2, <3>1, <3>2 DEF OutInv
  <2>5. LogInv(t)'
    BY <1>0, <2>1, LogKept
  <2>6. \A j \in Chans \ {t} : Kept(j)
    BY <2>1, <2>2 DEF Kept, Reader
  <2>7. \A m \in Links : (Dead(m)' <=> Dead(m)) /\ (Gone(m)' <=> Gone(m)) /\ (link'[m] = "new" => link[m] = "new")
    BY <2>1, <2>3 DEF Dead, Gone
  <2>8. ~Unused(t) /\ \A m \in Links : From[m] # t /\ (To[m] = t => m = l)
    BY DEF Unused
  <2> HIDE DEF t
  <2>9. {t} \in SUBSET Chans
    BY DEF t
  <2> QED BY <2>1, <2>4, <2>5, <2>6, <2>7, <2>8, <2>9, ProtocolFrame
<1>3. ASSUME NEW l \in Links, ConnectFails(l) PROVE ProtocolInv'
  <2>1. /\ link[l] = "claimTo" /\ link' = [link EXCEPT ![l] = "undo"]
        /\ UNCHANGED <<hw, isr, tx, rtx, rrx, sent, log, acked, over>>
    BY <1>3 DEF ConnectFails
  <2>2. \A m \in Links : link'[m] = IF m = l THEN "undo" ELSE link[m]
    BY <2>1 DEF TypeOK
  <2>3. \A j \in Chans : Kept(j)
    BY <2>1 DEF Kept, Reader
  <2>4. \A m \in Links : (Dead(m)' <=> Dead(m)) /\ (Gone(m)' <=> Gone(m)) /\ (link'[m] = "new" => link[m] = "new")
    BY <2>1, <2>2 DEF Dead, Gone
  <2> QED BY <2>1, <2>3, <2>4, ProtocolFrame, {} \in SUBSET Chans
<1>4. ASSUME NEW l \in Links,
             \/ link_disconnect(l)
             \/ ReleaseLast(l) /\ link[l] = "undo"
      PROVE  ProtocolInv'
  <2> DEFINE f == From[l]
  <2>1. /\ isr' = isr /\ isr.pc = "idle" /\ HoldsFrom(l)
        /\ UNCHANGED <<tx, rtx, rrx, sent, log, acked, over>>
        /\ hpsc_mbox_chan_release(f)
    BY <1>4 DEF link_disconnect, link_mbox_close, ReleaseLast, TaskRuns, HoldsFrom
  <2>2. PICK v \in {"releaseTo", "failed"} : link' = [link EXCEPT ![l] = v]
    BY <1>4 DEF link_disconnect, link_mbox_close, ReleaseLast
  <2>3. \A j \in Chans : Reader(j) = "idle" /\ Reader(j)' = "idle"
    BY <2>1 DEF Reader
  <2>4. \A m \in Links : link'[m] = IF m = l THEN v ELSE link[m]
    BY <2>2 DEF TypeOK
  <2>5. (\A j \in Chans \ {f} : hw'[j] = hw[j]) /\ hw'[f] = Released(f)
    BY <2>1, Releases
  <2>6. chan[f].owner = server(l) /\ InInv(l) /\ ~Dead(l)
    BY <1>0, <2>1 DEF FromClaim, Dead, HoldsFrom
  <2>7. InInv(l)'
    <3>1. CASE l \in Servers
      <4>1. hw'[f].cause = {} /\ hw'[f].dest = "0" /\ Dead(l)'
        BY <1>s, <2>4, <2>5, <2>6, <3>1, ReleasedRegs DEF Dead, Gone
      <4> QED BY <2>1, <2>3, <2>6, <4>1 DEF InInv
    <3>2. CASE l \notin Servers
      <4>1. /\ hw'[f].cause = hw[f].cause /\ hw'[f].data = hw[f].data
            /\ hw'[f].src = hw[f].src /\ hw'[f].dest = hw[f].dest
            /\ ~Dead(l)' /\ link'[l] # "new"
        BY <1>s, <2>4, <2>5, <2>6, <3>2, ReleasedRegs DEF Dead, Gone
      <4>2. Protocol(f, rtx[f], Reader(f))'
        BY <2>1, <2>3, <2>6, <4>1 DEF InInv, Protocol, InFlight, OneAtATime, Fresh, WasRead, Unacked
      <4> QED BY <2>1, <2>6, <4>1, <4>2 DEF InInv
    <3> QED BY <3>1, <3>2
  <2>8. LogInv(f)'
    BY <1>0, <2>1, LogKept
  <2>9. \A j \in Chans \ {f} : Kept(j)
    BY <2>1, <2>3, <2>5 DEF Kept
  <2>10. \A m \in Links : From[m] # f => (Dead(m)' <=> Dead(m)) /\ (link'[m] = "new" => link[m] = "new")
    BY <2>4 DEF Dead
  <2>g. \A m \in Links : Gone(m)' <=> Gone(m)
    BY <2>1, <2>4 DEF Gone, HoldsFrom
  <2>11. ~Unused(f) /\ \A m \in Links : To[m] # f /\ (From[m] = f => m = l)
    BY DEF Unused
  <2> HIDE DEF f
  <2>12. {f} \in SUBSET Chans
    BY DEF f
  <2> QED BY <2>1, <2>g, <2>7, <2>8, <2>9, <2>10, <2>11, <2>12, ProtocolFrame
<1>5. ASSUME NEW l \in Links, ReleaseLast(l), link[l] # "undo" PROVE ProtocolInv'
  <2> DEFINE t == To[l]
  <2>1. /\ isr' = isr /\ link[l] = "releaseTo" /\ link' = [link EXCEPT ![l] = "freed"]
        /\ UNCHANGED <<tx, rtx, rrx, sent, log, acked, over>>
        /\ hpsc_mbox_chan_release(t)
    BY <1>5 DEF ReleaseLast
  <2>3. chan[t].owner = server(l) /\ OutInv(l) /\ ~Gone(l)
    BY <1>0, <2>1 DEF ToClaim, HoldsTo, Gone
  <2>4. (\A j \in Chans \ {t} : hw'[j] = hw[j]) /\ hw'[t] = Released(t)
    BY <2>1, Releases
  <2>5. \A m \in Links : link'[m] = IF m = l THEN "freed" ELSE link[m]
    BY <2>1 DEF TypeOK
  <2>6. OutInv(l)'
    <3>1. CASE l \in Servers
      <4>1. hw'[t].cause = {} /\ hw'[t].src = "0" /\ Gone(l)'
        BY <1>s, <2>3, <2>4, <2>5, <3>1, ReleasedRegs DEF Gone
      <4> QED BY <2>1, <2>3, <4>1 DEF OutInv
    <3>2. CASE l \notin Servers
      <4>1. /\ hw'[t].cause = hw[t].cause /\ hw'[t].data = hw[t].data
            /\ hw'[t].src = hw[t].src /\ ~Gone(l)'
        BY <1>s, <2>3, <2>4, <3>2, ReleasedRegs DEF Gone
      <4>2. Protocol(t, tx[l], rrx[t])'
        BY <2>1, <2>3, <4>1 DEF OutInv, Protocol, InFlight, OneAtATime, Fresh, WasRead, Unacked
      <4> QED BY <2>1, <2>3, <4>1, <4>2 DEF OutInv
    <3> QED BY <3>1, <3>2
  <2>7. LogInv(t)'
    BY <1>0, <2>1, LogKept
  <2>8. \A j \in Chans \ {t} : Kept(j)
    BY <2>1, <2>4 DEF Kept, Reader
  <2>10. \A m \in Links : /\ Dead(m)' <=> Dead(m)
                          /\ To[m] # t => (Gone(m)' <=> Gone(m))
                          /\ link'[m] = "new" => link[m] = "new"
    BY <2>1, <2>5 DEF Dead, Gone
  <2>11. ~Unused(t) /\ \A m \in Links : From[m] # t /\ (To[m] = t => m = l)
    BY DEF Unused
  <2> HIDE DEF t
  <2>12. {t} \in SUBSET Chans
    BY DEF t
  <2> QED BY <2>1, <2>6, <2>7, <2>8, <2>10, <2>11, <2>12, ProtocolFrame
<1>6. ASSUME NEW l \in Links, hpsc_mbox_chan_write(l) PROVE ProtocolInv'
  <2> DEFINE t == To[l]
  <2>1. /\ tx[l] = "idle" /\ tx' = [tx EXCEPT ![l] = "event"] /\ link[l] = "open"
        /\ WriteData(t) /\ UNCHANGED <<link, isr, rtx, rrx, log, acked>>
    BY <1>6 DEF hpsc_mbox_chan_write
  <2>2. /\ \A j \in Chans \ {t} : hw'[j] = hw[j] /\ sent'[j] = sent[j] /\ (j \in over' <=> j \in over)
        /\ hw'[t].cause = hw[t].cause /\ hw'[t].src = hw[t].src
        /\ over' = IF Unacked(t) THEN over \cup {t} ELSE over
    BY <2>1, Writes
  <2>3. \A m \in Links : tx'[m] = IF m = l THEN "event" ELSE tx[m]
    BY <2>1 DEF TypeOK
  <2>4. OutInv(l) /\ ~Gone(l) /\ ~Gone(l)'
    BY <1>0, <2>1 DEF Gone
  <2>5. LogInv(t)' /\ (t \notin over' => Fresh(t)' /\ Unacked(t)')
    BY <1>0, <2>1, LogWrite
  <2>6. t \notin over' => hw[t].cause = {} /\ rrx[t] = "idle"
    BY <2>1, <2>2, <2>4 DEF OutInv, Protocol, InFlight, OneAtATime
  <2>7. Protocol(t, tx[l], rrx[t])'
    BY <2>1, <2>2, <2>3, <2>5, <2>6 DEF Protocol, InFlight, OneAtATime
  <2>8. OutInv(l)'
    BY <2>1, <2>2, <2>4, <2>7 DEF OutInv
  <2>9. \A j \in Chans \ {t} : Kept(j)
    BY <2>1, <2>2 DEF Kept, Reader
  <2> QED BY <2>1, <2>3, <2>5, <2>8, <2>9, OutStep
<1>7. ASSUME NEW l \in Links, hpsc_mbox_chan_event_set_rcv(l) PROVE ProtocolInv'
  <2> DEFINE t == To[l]
  <2>1. /\ tx[l] = "event" /\ tx' = [tx EXCEPT ![l] = "wait"]
        /\ hw' = [hw EXCEPT ![t].cause = hw[t].cause \cup {"A"}] /\ hw[t].cause \cup {"A"} \in SUBSET Ev
        /\ UNCHANGED <<link, isr, rtx, rrx, sent, log, acked, over>>
    BY <1>7, <1>t DEF hpsc_mbox_chan_event_set_rcv
  <2>2. /\ \A j \in Chans \ {t} : hw'[j] = hw[j]
        /\ hw'[t].cause = hw[t].cause \cup {"A"} /\ hw'[t].data = hw[t].data /\ hw'[t].src = hw[t].src
        /\ \A m \in Links : tx'[m] = IF m = l THEN "wait" ELSE tx[m]
    BY <2>1, CauseWrite DEF TypeOK
  <2>3. OutInv(l) /\ ~Gone(l) /\ ~Gone(l)'
    BY <1>0, <2>1 DEF CloseInv, Gone
  <2>4. t \notin over => hw[t].cause = {} /\ rrx[t] = "idle" /\ Fresh(t) /\ Unacked(t)
    BY <2>1, <2>3 DEF OutInv, Protocol, InFlight, OneAtATime
  <2>5. Protocol(t, tx[l], rrx[t])'
    BY <2>1, <2>2, <2>4 DEF Protocol, InFlight, OneAtATime, Fresh, Unacked
  <2>6. OutInv(l)'
    BY <2>1, <2>2, <2>3, <2>5 DEF OutInv
  <2>7. LogInv(t)'
    BY <1>0, <2>1, LogKept
  <2>8. \A j \in Chans \ {t} : Kept(j)
    BY <2>1, <2>2 DEF Kept, Reader
  <2> QED BY <2>1, <2>2, <2>6, <2>7, <2>8, OutStep
<1>8. ASSUME NEW i \in Chans, hpsc_mbox_chan_read(i) PROVE ProtocolInv'
  <2>1. isr.pc = "idle" /\ "A" \in hw[i].cause /\ "A" \in hw[i].enable
    BY <1>8 DEF hpsc_mbox_chan_read, hpsc_mbox_isr, hpsc_mbox_chan_is_subscribed, TaskRuns
  <2>2. PICK l \in Links : i = From[l] /\ HoldsFrom(l) /\ chan[i].cb_a = l
    BY <2>1, Subscribed
  <2>3. /\ isr' = [pc |-> "clear", chan |-> i] /\ log' = [log EXCEPT ![i] = Append(log[i], hw[i].data)]
        /\ UNCHANGED <<hw, link, tx, rtx, rrx, sent, acked, over>>
    BY <1>8, <2>2 DEF hpsc_mbox_chan_read, Callback
  <2>4. /\ Reader(i)' = "clear"
        /\ \A j \in Chans : Reader(j) = "idle" /\ (j # i => Reader(j)' = "idle")
    BY <2>1, <2>3 DEF Reader
  <2>5. InInv(l) /\ ~Dead(l)
    BY <1>0, <2>2 DEF HoldsFrom, Dead
  <2>6. i \notin over => rtx[i] \in {"wait", "idle"} /\ Unacked(i) /\ hw[i].cause = {"A"} /\ Fresh(i)
    BY <2>1, <2>2, <2>4, <2>5 DEF InInv, Protocol, InFlight, OneAtATime
  <2>7. LogInv(i)' /\ (i \notin over => WasRead(i)')
    <3>1. CASE i \in over
      BY <2>3, <3>1 DEF LogInv
    <3>2. CASE i \notin over
      BY <1>0, <2>3, <2>6, <3>2, LogAppends
    <3> QED BY <3>1, <3>2
  <2>8. \A j \in Chans \ {i} : log'[j] = log[j]
    BY <2>3 DEF TypeOK
  <2>9. Protocol(i, rtx[i], Reader(i))'
    BY <2>3, <2>4, <2>6, <2>7 DEF Protocol, InFlight, OneAtATime, Unacked
  <2>10. InInv(l)'
    BY <2>2, <2>3, <2>4, <2>5, <2>9 DEF InInv, Dead
  <2>11. \A j \in Chans \ {i} : Kept(j)
    BY <2>3, <2>4, <2>8 DEF Kept
  <2> QED BY <2>2, <2>3, <2>7, <2>10, <2>11, InStep
<1>9. ASSUME NEW i \in Chans, link_mbox_ack(i) PROVE ProtocolInv'
  <2>1. "B" \in hw[i].cause /\ "B" \in hw[i].enable
    BY <1>9 DEF link_mbox_ack, hpsc_mbox_isr, hpsc_mbox_chan_is_subscribed
  <2>2. PICK l \in Links : i = To[l] /\ HoldsTo(l) /\ chan[i].cb_b = l
    BY <2>1, Subscribed
  <2>3. /\ tx' = [tx EXCEPT ![l] = IF tx[l] = "wait" THEN "idle" ELSE tx[l]]
        /\ acked' = [acked EXCEPT ![i] = acked[i] \cup {sent[i]}]
        /\ hw' = [hw EXCEPT ![i].cause = hw[i].cause \ {"B"}] /\ hw[i].cause \ {"B"} \in SUBSET Ev
        /\ UNCHANGED <<link, isr, rtx, rrx, sent, log, over>>
    BY <1>9, <1>t, <2>2 DEF link_mbox_ack, Callback, Cleared
  <2>4. OutInv(l) /\ ~Gone(l) /\ ~Gone(l)'
    BY <1>0, <2>2, <2>3 DEF HoldsTo, Gone
  <2>5. i \notin over => /\ tx[l] \in {"wait", "idle"} /\ rrx[i] = "idle"
                         /\ hw[i].cause = {"B"} /\ WasRead(i) /\ Unacked(i)
    BY <2>1, <2>2, <2>4 DEF OutInv, Protocol, InFlight, OneAtATime
  <2>6. /\ \A j \in Chans \ {i} : hw'[j] = hw[j] /\ acked'[j] = acked[j]
        /\ hw'[i].cause = hw[i].cause \ {"B"} /\ hw'[i].src = hw[i].src /\ acked'[i] = acked[i] \cup {sent[i]}
        /\ \A m \in Links : tx'[m] = IF m = l /\ tx[l] = "wait" THEN "idle" ELSE tx[m]
    BY <2>3, CauseWrite DEF TypeOK
  <2>7. tx'[l] # "wait" /\ (i \notin over => tx'[l] = "idle" /\ hw'[i].cause = {})
    BY <2>5, <2>6
  <2>8. Protocol(i, tx[l], rrx[i])'
    BY <2>3, <2>5, <2>7 DEF Protocol, InFlight, OneAtATime
  <2>9. OutInv(l)'
    BY <2>2, <2>3, <2>4, <2>6, <2>8 DEF OutInv
  <2>10. LogInv(i)'
    <3>1. CASE i \in over
      BY <2>3, <3>1 DEF LogInv
    <3>2. CASE i \notin over
      BY <1>0, <2>3, <2>5, <2>6, <3>2, LastRead DEF LogInv
    <3> QED BY <3>1, <3>2
  <2>11. \A j \in Chans \ {i} : Kept(j)
    BY <2>3, <2>6 DEF Kept, Reader
  <2> QED BY <2>2, <2>3, <2>6, <2>9, <2>10, <2>11, OutStep
<1>10. CASE link_mbox_read
  <2> USE DEF hpsc_mbox_chan_event_clear_rcv, hpsc_mbox_chan_event_set_ack, IsrStep
  <2>1. isr.pc \in {"clear", "ack"} /\ UNCHANGED <<link, tx, rtx, rrx, sent, log, acked, over>>
    BY <1>10 DEF link_mbox_read
  <2>2. PICK l \in Links : isr.chan = From[l] /\ HoldsFrom(l)
    BY <2>1 DEF ClaimInv
  <2> DEFINE i == From[l]
  <2>3. i \in Chans /\ InInv(l) /\ ~Dead(l) /\ Reader(i) = isr.pc /\ LogInv(i)
    BY <1>0, <2>1, <2>2 DEF HoldsFrom, Dead, Reader
  <2>4. /\ i \notin over => /\ rtx[i] \in {"wait", "idle"} /\ Unacked(i) /\ WasRead(i)
                            /\ hw[i].cause = IF isr.pc = "clear" THEN {"A"} ELSE {}
    BY <2>1, <2>2, <2>3 DEF InInv, Protocol, InFlight, OneAtATime
  <2> DEFINE C == IF isr.pc = "clear" THEN hw[i].cause \ {"A"} ELSE hw[i].cause \cup {"B"}
  <2>5. C \in SUBSET Ev /\ hw' = [hw EXCEPT ![i].cause = C]
    <3>1. hw[i].cause \ {"A"} \in SUBSET Ev /\ hw[i].cause \cup {"B"} \in SUBSET Ev
      BY <1>t, <2>3
    <3>2. CASE isr.pc = "clear"
      BY <1>10, <2>2, <3>1, <3>2 DEF link_mbox_read
    <3>3. CASE isr.pc = "ack"
      BY <1>10, <2>2, <3>1, <3>3 DEF link_mbox_read
    <3> QED BY <2>1, <3>2, <3>3
  <2> HIDE DEF C
  <2>6. /\ \A j \in Chans \ {i} : hw'[j] = hw[j]
        /\ hw'[i].cause = C /\ hw'[i].src = hw[i].src /\ hw'[i].dest = hw[i].dest
    <3>1. PICK D \in SUBSET Ev : D = C /\ hw' = [hw EXCEPT ![i].cause = D]
      BY <2>5
    <3> QED BY <2>3, <3>1, CauseWrite DEF TypeOK
  <2>7. /\ i \notin over => hw'[i].cause = IF isr.pc = "clear" THEN {} ELSE {"B"}
        /\ isr.pc # "clear" => hw'[i].cause # {}
    BY <2>1, <2>4, <2>6 DEF C
  <2>8. isr'.chan = i /\ isr'.pc = IF isr.pc = "clear" THEN "ack" ELSE "deliver"
    BY <1>10, <1>t, <2>2 DEF link_mbox_read
  <2>9. /\ Reader(i)' = (IF isr.pc = "clear" THEN "ack" ELSE "idle")
        /\ \A j \in Chans \ {i} : Reader(j)' = Reader(j)
    BY <2>1, <2>2, <2>8 DEF Reader
  <2>10. Protocol(i, rtx[i], Reader(i))'
    BY <2>1, <2>4, <2>7, <2>9 DEF Protocol, InFlight, OneAtATime, WasRead, Unacked
  <2>11. link[l] # "new" /\ ~Dead(l)'
    BY <2>1, <2>2, <2>3 DEF HoldsFrom, Dead
  <2>12. InInv(l)'
    BY <2>1, <2>2, <2>3, <2>6, <2>10, <2>11 DEF InInv
  <2>13. LogInv(i)'
    BY <2>1, <2>3, LogKept
  <2>14. \A j \in Chans \ {i} : Kept(j)
    BY <2>1, <2>6, <2>9 DEF Kept
  <2> QED BY <2>1, <2>2, <2>12, <2>13, <2>14, InStep
<1>11. CASE link_recv \/ HandleCommand \/ StopHandler \/ UNCHANGED vars
  <2>1. UNCHANGED <<hw, link, tx, rtx, rrx, sent, log, acked, over>>
    BY <1>11 DEF link_recv, HandleCommand, StopHandler, vars
  <2>2. isr' = isr \/ (isr.pc = "deliver" /\ isr' = Idle)
    BY <1>11 DEF link_recv, HandleCommand, StopHandler, vars
  <2>3. \A j \in Chans : Reader(j)' = Reader(j)
    BY <2>2 DEF Reader, Idle
  <2>4. \A j \in Chans : Kept(j)
    BY <2>1, <2>3 DEF Kept
  <2>5. \A m \in Links : (Dead(m)' <=> Dead(m)) /\ (Gone(m)' <=> Gone(m)) /\ (link'[m] = "new" => link[m] = "new")
    BY <2>1 DEF Dead, Gone
  <2> QED BY <2>1, <2>4, <2>5, ProtocolFrame, {} \in SUBSET Chans
<1>12. CASE hpsc_mbox_remove
  <2>1. /\ \A l \in Links : link[l] \in {"freed", "failed"}
        /\ hw' = [i \in Chans |-> IF chan[i].base THEN Released(i) ELSE hw[i]]
        /\ UNCHANGED <<link, tx, isr, rtx, rrx, sent, log, acked, over>>
    BY <1>12 DEF hpsc_mbox_remove
  <2>2. ASSUME NEW i \in Chans PROVE chan[i].owner = "0"
    <3>1. \A l \in Links : Free(From[l]) /\ Free(To[l])
      BY <1>0, <2>1 DEF FromClaim, ToClaim, HoldsFrom, HoldsTo
    <3> QED BY <3>1 DEF ClaimInv, Unused, Free
  <2>3. \A i \in Chans : /\ Released(i).cause = hw[i].cause /\ Released(i).data = hw[i].data
                         /\ Released(i).src = hw[i].src /\ Released(i).dest = hw[i].dest
    BY <2>2, ReleasedRegs
  <2>4. \A i \in Chans : hw'[i] = Released(i) \/ hw'[i] = hw[i]
    BY <2>1
  <2>5. \A j \in Chans : Kept(j)
    BY <2>1, <2>3, <2>4 DEF Kept, Reader
  <2>6. \A m \in Links : (Dead(m)' <=> Dead(m)) /\ (Gone(m)' <=> Gone(m)) /\ (link'[m] = "new" => link[m] = "new")
    BY <2>1 DEF Dead, Gone
  <2> QED BY <2>1, <2>5, <2>6, ProtocolFrame, {} \in SUBSET Chans
<1>13. ASSUME NEW i \in Chans, RemoteClaim(i) PROVE ProtocolInv'
  <2>1. UNCHANGED <<link, tx, isr, rtx, rrx, sent, log, acked, over>>
    BY <1>13 DEF RemoteClaim
  <2>2. /\ \A j \in Chans \ {i} : hw'[j] = hw[j]
        /\ hw'[i].cause = hw[i].cause /\ hw'[i].data = hw[i].data
        /\ hw'[i].src = IF \E l \in Links : i = From[l] THEN "remote" ELSE "local"
        /\ hw'[i].dest = IF \E l \in Links : i = From[l] THEN "local" ELSE "remote"
    BY <1>13, RemoteRegs
  <2>3. \A j \in Chans : Reader(j)' = Reader(j)
    BY <2>1 DEF Reader
  <2>4. \A m \in Links : (Dead(m)' <=> Dead(m)) /\ (Gone(m)' <=> Gone(m)) /\ (link'[m] = "new" => link[m] = "new")
    BY <2>1 DEF Dead, Gone
  <2>5. ASSUME NEW m \in Links, From[m] = i PROVE InInv(m)'
    <3>1. InInv(m) /\ hw'[i].src = "remote" /\ hw'[i].dest = "local"
      BY <1>0, <2>2, <2>5
    <3>2. Protocol(i, rtx[i], Reader(i)) => Protocol(i, rtx[i], Reader(i))'
      BY <2>1, <2>2, <2>3 DEF Protocol, InFlight, OneAtATime, Fresh, WasRead, Unacked
    <3> QED BY <2>1, <2>2, <2>3, <2>4, <2>5, <3>1, <3>2 DEF InInv
  <2>6. ASSUME NEW m \in Links, To[m] = i PROVE OutInv(m)'
    <3>1. OutInv(m) /\ hw'[i].src = "local"
      BY <1>0, <2>2, <2>6
    <3>2. Protocol(i, tx[m], rrx[i]) => Protocol(i, tx[m], rrx[i])'
      BY <2>1, <2>2 DEF Protocol, InFlight, OneAtATime, Fresh, WasRead, Unacked
    <3> QED BY <2>1, <2>2, <2>4, <2>6, <3>1, <3>2 DEF OutInv
  <2>7. Unused(i) => UnusedInv(i)'
    BY <1>0, <2>1, <2>2 DEF Unused, UnusedInv
  <2>8. LogInv(i)'
    BY <1>0, <2>1, LogKept
  <2>9. \A j \in Chans \ {i} : Kept(j)
    BY <2>1, <2>2, <2>3 DEF Kept
  <2> QED BY <2>1, <2>4, <2>5, <2>6, <2>7, <2>8, <2>9, ProtocolFrame, {i} \in SUBSET Chans
<1>14. ASSUME NEW i \in Chans, RemoteWrite(i) PROVE ProtocolInv'
  <2>1. /\ rtx[i] = "idle" /\ hw[i].src = "remote" /\ rtx' = [rtx EXCEPT ![i] = "event"]
        /\ WriteData(i) /\ UNCHANGED <<link, tx, isr, rrx, log, acked>>
    BY <1>14 DEF RemoteWrite
  <2>2. PICK l \in Links : i = From[l]
    BY <1>0, <2>1 DEF Unused, UnusedInv, OutInv
  <2>3. /\ \A j \in Chans \ {i} : hw'[j] = hw[j] /\ sent'[j] = sent[j] /\ (j \in over' <=> j \in over)
        /\ hw'[i].cause = hw[i].cause /\ hw'[i].src = hw[i].src /\ hw'[i].dest = hw[i].dest
        /\ over' = IF Unacked(i) THEN over \cup {i} ELSE over
    BY <2>1, Writes
  <2>4. rtx'[i] = "event" /\ \A j \in Chans \ {i} : rtx'[j] = rtx[j]
    BY <2>1 DEF TypeOK
  <2>5. InInv(l) /\ LogInv(i)' /\ (i \notin over' => Fresh(i)' /\ Unacked(i)')
    BY <1>0, <2>1, LogWrite
  <2>6. \A j \in Chans : Reader(j)' = Reader(j)
    BY <2>1 DEF Reader
  <2>7. (Dead(l)' <=> Dead(l)) /\ link'[l] = link[l]
    BY <2>1 DEF Dead
  <2>8. ~Dead(l) /\ i \notin over' => hw[i].cause = {} /\ Reader(i) = "idle"
    BY <2>1, <2>2, <2>3, <2>5 DEF InInv, Protocol, InFlight, OneAtATime
  <2>9. ~Dead(l) => Protocol(i, rtx[i], Reader(i))'
    BY <2>3, <2>4, <2>5, <2>6, <2>8 DEF Protocol, InFlight, OneAtATime
  <2>10. InInv(l)'
    BY <2>1, <2>2, <2>3, <2>5, <2>6, <2>7, <2>9 DEF InInv
  <2>11. \A j \in Chans \ {i} : Kept(j)
    BY <2>1, <2>3, <2>4, <2>6 DEF Kept
  <2> QED BY <2>1, <2>2, <2>5, <2>10, <2>11, InStep
<1>15. ASSUME NEW i \in Chans, RemoteSetRcv(i) PROVE ProtocolInv'
  <2>1. /\ rtx[i] = "event" /\ hw[i].src = "remote" /\ rtx' = [rtx EXCEPT ![i] = "wait"]
        /\ hw' = [hw EXCEPT ![i].cause = hw[i].cause \cup {"A"}] /\ hw[i].cause \cup {"A"} \in SUBSET Ev
        /\ UNCHANGED <<link, tx, isr, rrx, sent, log, acked, over>>
    BY <1>15, <1>t DEF RemoteSetRcv
  <2>2. PICK l \in Links : i = From[l]
    BY <1>0, <2>1 DEF Unused, UnusedInv, OutInv
  <2>3. /\ \A j \in Chans \ {i} : hw'[j] = hw[j] /\ rtx'[j] = rtx[j]
        /\ hw'[i].cause = hw[i].cause \cup {"A"} /\ rtx'[i] = "wait"
        /\ hw'[i].data = hw[i].data /\ hw'[i].src = hw[i].src /\ hw'[i].dest = hw[i].dest
    BY <2>1, CauseWrite DEF TypeOK
  <2>4. InInv(l)
    BY <1>0
  <2>5. \A j \in Chans : Reader(j)' = Reader(j)
    BY <2>1 DEF Reader
  <2>6. (Dead(l)' <=> Dead(l)) /\ link'[l] = link[l]
    BY <2>1 DEF Dead, Gone
  <2>7. ~Dead(l) => Protocol(i, rtx[i], Reader(i))'
    <3> SUFFICES ASSUME ~Dead(l) PROVE Protocol(i, rtx[i], Reader(i))'
      OBVIOUS
    <3>1. i \notin over => Reader(i) = "idle" /\ hw[i].cause = {} /\ Fresh(i) /\ Unacked(i)
      BY <2>1, <2>2, <2>4 DEF InInv, Protocol, InFlight, OneAtATime
    <3> QED BY <2>1, <2>3, <2>5, <3>1 DEF Protocol, InFlight, OneAtATime, Fresh, Unacked
  <2>8. InInv(l)'
    BY <2>1, <2>2, <2>3, <2>4, <2>5, <2>6, <2>7 DEF InInv
  <2>9. LogInv(i)'
    BY <1>0, <2>1, LogKept
  <2>10. \A j \in Chans \ {i} : Kept(j)
    BY <2>1, <2>3, <2>5 DEF Kept
  <2> QED BY <2>1, <2>2, <2>8, <2>9, <2>10, InStep
<1>16. ASSUME NEW i \in Chans, RemoteAck(i) PROVE ProtocolInv'
  <2>1. /\ hw[i].src = "remote" /\ "B" \in hw[i].cause
        /\ rtx' = [rtx EXCEPT ![i] = IF rtx[i] = "wait" THEN "idle" ELSE rtx[i]]
        /\ hw' = [hw EXCEPT ![i].cause = hw[i].cause \ {"B"}] /\ hw[i].cause \ {"B"} \in SUBSET Ev
        /\ acked' = [acked EXCEPT ![i] = acked[i] \cup {sent[i]}]
        /\ UNCHANGED <<link, tx, isr, rrx, sent, log, over>>
    BY <1>16, <1>t DEF RemoteAck
  <2>2. PICK l \in Links : i = From[l]
    BY <1>0, <2>1 DEF Unused, UnusedInv, OutInv
  <2>3. InInv(l) /\ ~Dead(l)
    BY <1>0, <2>1, <2>2 DEF InInv
  <2>4. i \notin over => /\ rtx[i] \in {"wait", "idle"} /\ Reader(i) = "idle"
                         /\ hw[i].cause = {"B"} /\ WasRead(i) /\ Unacked(i)
    BY <2>1, <2>2, <2>3 DEF InInv, Protocol, InFlight, OneAtATime
  <2>5. /\ \A j \in Chans \ {i} : hw'[j] = hw[j] /\ rtx'[j] = rtx[j] /\ acked'[j] = acked[j]
        /\ hw'[i].cause = hw[i].cause \ {"B"} /\ acked'[i] = acked[i] \cup {sent[i]}
        /\ rtx'[i] = IF rtx[i] = "wait" THEN "idle" ELSE rtx[i]
        /\ hw'[i].dest = hw[i].dest /\ hw'[i].src = hw[i].src
    BY <2>1, CauseWrite DEF TypeOK
  <2>6. \A j \in Chans : Reader(j)' = Reader(j)
    BY <2>1 DEF Reader
  <2>7. ~Dead(l)'
    BY <2>1, <2>3 DEF Dead
  <2>8. Protocol(i, rtx[i], Reader(i))'
    BY <2>1, <2>4, <2>5, <2>6 DEF Protocol, InFlight, OneAtATime
  <2>9. InInv(l)'
    BY <2>1, <2>2, <2>3, <2>5, <2>6, <2>7, <2>8 DEF InInv
  <2>10. LogInv(i)'
    <3>1. CASE i \in over
      BY <2>1, <3>1 DEF LogInv
    <3>2. CASE i \notin over
      BY <1>0, <2>1, <2>4, <2>5, <3>2, LastRead DEF LogInv
    <3> QED BY <3>1, <3>2
  <2>11. \A j \in Chans \ {i} : Kept(j)
    BY <2>1, <2>5, <2>6 DEF Kept
  <2> QED BY <2>1, <2>2, <2>9, <2>10, <2>11, InStep
<1>17. ASSUME NEW i \in Chans, RemoteAbort(i) PROVE ProtocolInv'
  <2>1. /\ rtx[i] # "idle" /\ hw[i].src # "remote" /\ rtx' = [rtx EXCEPT ![i] = "idle"]
        /\ UNCHANGED <<hw, link, tx, isr, rrx, sent, log, acked, over>>
    BY <1>17 DEF RemoteAbort
  <2>2. PICK l \in Links : i = From[l]
    BY <1>0, <2>1 DEF Unused, UnusedInv, OutInv
  <2>3. InInv(l) /\ Dead(l)
    BY <1>0, <2>1, <2>2 DEF InInv
  <2>4. Dead(l)' /\ \A j \in Chans : Reader(j)' = Reader(j)
    BY <2>1, <2>3 DEF Dead, Reader
  <2>5. InInv(l)' /\ LogInv(i)'
    BY <1>0, <2>1, <2>2, <2>3, <2>4, LogKept DEF InInv
  <2>6. \A j \in Chans \ {i} : rtx'[j] = rtx[j]
    BY <2>1 DEF TypeOK
  <2>7. \A j \in Chans \ {i} : Kept(j)
    BY <2>1, <2>4, <2>6 DEF Kept
  <2> QED BY <2>1, <2>2, <2>5, <2>7, InStep
<1>18. ASSUME NEW i \in Chans, RemoteRead(i) PROVE ProtocolInv'
  <2>1. /\ rrx[i] = "idle" /\ hw[i].dest = "remote" /\ "A" \in hw[i].cause
        /\ rrx' = [rrx EXCEPT ![i] = "clear"] /\ log' = [log EXCEPT ![i] = Append(log[i], hw[i].data)]
        /\ UNCHANGED <<hw, link, tx, isr, rtx, sent, acked, over>>
    BY <1>18 DEF RemoteRead
  <2>2. PICK l \in Links : i = To[l]
    BY <1>0, <2>1 DEF Unused, UnusedInv, InInv
  <2>3. OutInv(l) /\ ~Gone(l) /\ ~Gone(l)'
    BY <1>0, <2>1, <2>2 DEF OutInv, Gone
  <2>4. i \notin over => tx[l] \in {"wait", "idle"} /\ Unacked(i) /\ hw[i].cause = {"A"} /\ Fresh(i)
    BY <2>1, <2>2, <2>3 DEF OutInv, Protocol, InFlight, OneAtATime
  <2>5. LogInv(i)' /\ (i \notin over => WasRead(i)')
    <3>1. CASE i \in over
      BY <2>1, <3>1 DEF LogInv
    <3>2. CASE i \notin over
      BY <1>0, <2>1, <2>4, <3>2, LogAppends
    <3> QED BY <3>1, <3>2
  <2>6. /\ rrx'[i] = "clear"
        /\ \A j \in Chans \ {i} : rrx'[j] = rrx[j] /\ log'[j] = log[j]
    BY <2>1 DEF TypeOK
  <2>7. Protocol(i, tx[l], rrx[i])'
    BY <2>1, <2>4, <2>5, <2>6 DEF Protocol, InFlight, OneAtATime, Unacked
  <2>8. OutInv(l)'
    BY <2>1, <2>2, <2>3, <2>7 DEF OutInv
  <2>9. \A j \in Chans \ {i} : Kept(j)
    BY <2>1, <2>6 DEF Kept, Reader
  <2> QED BY <2>1, <2>2, <2>5, <2>8, <2>9, OutStep
<1>19. ASSUME NEW i \in Chans, RemoteClearRcv(i) \/ RemoteSetAck(i) PROVE ProtocolInv'
  <2>1. /\ rrx[i] \in {"clear", "ack"} /\ UNCHANGED <<link, tx, isr, rtx, sent, log, acked, over>>
        /\ rrx' = [rrx EXCEPT ![i] = IF rrx[i] = "clear" THEN "ack" ELSE "idle"]
    BY <1>19 DEF RemoteClearRcv, RemoteSetAck
  <2>2. PICK l \in Links : i = To[l]
    BY <1>0, <2>1 DEF Unused, UnusedInv, InInv
  <2>3. OutInv(l) /\ (Gone(l)' <=> Gone(l))
    BY <1>0, <2>1 DEF Gone
  <2>4. ~Gone(l) /\ i \notin over =>
          /\ tx[l] \in {"wait", "idle"} /\ Unacked(i) /\ WasRead(i)
          /\ hw[i].cause = IF rrx[i] = "clear" THEN {"A"} ELSE {}
    BY <2>1, <2>2, <2>3 DEF OutInv, Protocol, InFlight, OneAtATime
  <2> DEFINE C == IF rrx[i] = "clear" THEN hw[i].cause \ {"A"} ELSE hw[i].cause \cup {"B"}
  <2>5. C \in SUBSET Ev /\ hw' = [hw EXCEPT ![i].cause = C]
    <3>1. hw[i].cause \ {"A"} \in SUBSET Ev /\ hw[i].cause \cup {"B"} \in SUBSET Ev
      BY <1>t
    <3>2. CASE RemoteClearRcv(i)
      BY <3>1, <3>2 DEF RemoteClearRcv
    <3>3. CASE RemoteSetAck(i)
      BY <3>1, <3>3 DEF RemoteSetAck
    <3> QED BY <1>19, <3>2, <3>3
  <2> HIDE DEF C
  <2>6. /\ \A j \in Chans \ {i} : hw'[j] = hw[j]
        /\ hw'[i].cause = C /\ hw'[i].src = hw[i].src
    <3>1. PICK D \in SUBSET Ev : D = C /\ hw' = [hw EXCEPT ![i].cause = D]
      BY <2>5
    <3> QED BY <3>1, CauseWrite DEF TypeOK
  <2>7. /\ rrx'[i] = (IF rrx[i] = "clear" THEN "ack" ELSE "idle")
        /\ \A j \in Chans \ {i} : rrx'[j] = rrx[j]
    BY <2>1 DEF TypeOK
  <2>8. ~Gone(l) => Protocol(i, tx[l], rrx[i])'
    BY <2>1, <2>4, <2>6, <2>7 DEF Protocol, InFlight, OneAtATime, WasRead, Unacked, C
  <2>9. Gone(l) => "A" \notin hw'[i].cause
    BY <2>2, <2>3, <2>6 DEF OutInv, C
  <2>10. OutInv(l)'
    BY <2>1, <2>2, <2>3, <2>6, <2>8, <2>9 DEF OutInv
  <2>11. LogInv(i)'
    BY <1>0, <2>1, LogKept
  <2>12. \A j \in Chans \ {i} : Kept(j)
    BY <2>1, <2>6, <2>7 DEF Kept, Reader
  <2> QED BY <2>1, <2>2, <2>10, <2>11, <2>12, OutStep
<1>20. ASSUME NEW i \in Chans, RemoteAckTimeout(i) PROVE ProtocolInv'
  <2>1. /\ rtx[i] = "wait" /\ rtx' = [rtx EXCEPT ![i] = "idle"]
        /\ UNCHANGED <<hw, link, tx, isr, rrx, sent, log, acked, over>>
    BY <1>20 DEF RemoteAckTimeout
  <2>2. PICK l \in Links : i = From[l]
    BY <1>0, <2>1 DEF Unused, UnusedInv, OutInv
  <2>3. InInv(l) /\ (Dead(l)' <=> Dead(l)) /\ \A j \in Chans : Reader(j)' = Reader(j)
    BY <1>0, <2>1 DEF Dead, Reader
  <2>4. rtx'[i] = "idle" /\ \A j \in Chans \ {i} : rtx'[j] = rtx[j]
    BY <2>1 DEF TypeOK
  <2>5. ~Dead(l) => Protocol(i, rtx[i], Reader(i))'
    BY <2>1, <2>2, <2>3, <2>4 DEF InInv, Protocol, InFlight, OneAtATime, Fresh, WasRead, Unacked
  <2>6. InInv(l)'
    BY <2>1, <2>2, <2>3, <2>4, <2>5 DEF InInv
  <2>7. LogInv(i)'
    BY <1>0, <2>1, LogKept
  <2>8. \A j \in Chans \ {i} : Kept(j)
    BY <2>1, <2>3, <2>4 DEF Kept
  <2> QED BY <2>1, <2>2, <2>6, <2>7, <2>8, InStep
<1>21. ASSUME NEW l \in Links, AckTimeout(l) PROVE ProtocolInv'
  <2> DEFINE t == To[l]
  <2>1. /\ tx[l] = "wait" /\ tx' = [tx EXCEPT ![l] = "idle"]
        /\ UNCHANGED <<hw, link, isr, rtx, rrx, sent, log, acked, over>>
    BY <1>21 DEF AckTimeout
  <2>2. \A m \in Links : tx'[m] = IF m = l THEN "idle" ELSE tx[m]
    BY <2>1 DEF TypeOK
  <2>3. OutInv(l) /\ (Gone(l)' <=> Gone(l))
    BY <1>0, <2>1 DEF Gone
  <2>4. ~Gone(l) => Protocol(t, tx[l], rrx[t])'
    BY <2>1, <2>2, <2>3 DEF OutInv, Protocol, InFlight, OneAtATime, Fresh, WasRead, Unacked
  <2>5. OutInv(l)'
    BY <2>1, <2>3, <2>4 DEF OutInv
  <2>6. LogInv(t)'
    BY <1>0, <2>1, LogKept
  <2>7. \A j \in Chans \ {t} : Kept(j)
    BY <2>1 DEF Kept, Reader
  <2> QED BY <2>1, <2>2, <2>5, <2>6, <2>7, OutStep
<1> QED
  BY <1>1, <1>2, <1>3, <1>4, <1>5, <1>6, <1>7, <1>8, <1>9, <1>10, <1>11, <1>12, <1>13, <1>14,
     <1>15, <1>16, <1>17, <1>18, <1>19, <1>20, <1>21
  DEF Next, LinkTask, Interrupt, Remote, Removed

-------------------------------------------------------------------------------
(* Theorems. *)

(* A link is closed only when neither a request nor a reply is under way   *)
(* on it.                                                                  *)
LEMMA CloseCorrect == Spec => []CloseInv
<1>1. Init => CloseInv
  BY DEF Init, CloseInv
<1> QED BY <1>1, CloseStep, TypeCorrect, PTL DEF Spec

(* The state of every channel is that of the link that holds it. *)
THEOREM ClaimCorrect == ASSUME OwnChannels PROVE Spec => []ClaimInv
<1>1. Init => ClaimInv
  <2> SUFFICES ASSUME Init PROVE ClaimInv
    OBVIOUS
  <2>1. \A i \in Chans : Free(i)
    BY DEF Init, Free, ClosedHw
  <2>2. isr.pc = "idle" /\ \A l \in Links : link[l] = "new"
    BY DEF Init, Idle
  <2> QED BY <2>1, <2>2, Apart DEF ClaimInv, FromClaim, ToClaim, HoldsFrom, HoldsTo
<1> QED BY <1>1, ClaimStep, TypeCorrect, PTL DEF Spec

(* A connected link keeps its channels and its callbacks until it is       *)
(* closed: hpsc_mbox_chan_claim of another link does not take them.        *)
THEOREM OpenHolds == ASSUME OwnChannels PROVE Spec => []OpenLinkHoldsChannels
<1>1. ClaimInv => OpenLinkHoldsChannels
  BY DEF ClaimInv, FromClaim, ToClaim, HoldsFrom, HoldsTo, OpenLinkHoldsChannels
<1> QED BY <1>1, ClaimCorrect, PTL

(* hpsc_mbox_isr never calls a callback with a link that was freed,        *)
(* whatever step of connect, of a failed connect or of close it interrupts. *)
THEOREM CallbackAlive == ASSUME OwnChannels PROVE Spec => []NoCallbackOnFreedLink
<1>1. ClaimInv => NoCallbackOnFreedLink
  <2> SUFFICES ASSUME ClaimInv, NEW i \in Chans, NEW l \in {chan[i].cb_a, chan[i].cb_b} \ {NONE}
               PROVE  link[l] \notin {"freed", "failed"}
    BY DEF NoCallbackOnFreedLink
  <2>1. CASE Unused(i)
    BY <2>1 DEF ClaimInv, Free
  <2>2. ASSUME NEW m \in Links, i = From[m] PROVE link[l] \notin {"freed", "failed"}
    BY <2>2 DEF ClaimInv, FromClaim, HoldsFrom, Free
  <2>3. ASSUME NEW m \in Links, i = To[m] PROVE link[l] \notin {"freed", "failed"}
    BY <2>3 DEF ClaimInv, ToClaim, HoldsTo, Free
  <2> QED BY <2>1, <2>2, <2>3 DEF Unused
<1> QED BY <1>1, ClaimCorrect, PTL

(* An interrupt that is enabled has an active channel and a callback, so   *)
(* that hpsc_mbox_isr neither passes it by nor clears it unseen.           *)
THEOREM InterruptsAre == ASSUME OwnChannels PROVE Spec => []InterruptsHandled
<1>1. TypeOK /\ ClaimInv => InterruptsHandled
  <2> SUFFICES ASSUME TypeOK, ClaimInv, NEW i \in Chans, NEW e \in hw[i].enable
               PROVE  chan[i].active /\ Callback(i, e) # NONE
    BY DEF InterruptsHandled
  <2> USE ChanAssumption
  <2>1. CASE Unused(i)
    BY <2>1 DEF ClaimInv, Free
  <2>2. ASSUME NEW m \in Links, i = From[m] PROVE chan[i].active /\ Callback(i, e) # NONE
    BY <2>2 DEF ClaimInv, FromClaim, Free, Callback
  <2>3. ASSUME NEW m \in Links, i = To[m] PROVE chan[i].active /\ Callback(i, e) # NONE
    BY <2>3 DEF ClaimInv, ToClaim, Free, Callback
  <2> QED BY <2>1, <2>2, <2>3 DEF Unused
<1> QED BY <1>1, TypeCorrect, ClaimCorrect, PTL

(* Until a sender writes over a message whose ACK it has not seen, every   *)
(* channel is at one step of the protocol, whichever side the receiver is  *)
(* on, whether the wait for the ACK timed out, and whenever links are      *)
(* connected and closed.                                                   *)
THEOREM ProtocolCorrect == ASSUME OwnChannels PROVE Spec => []ProtocolInv
<1>1. Init => ProtocolInv
  <2> SUFFICES ASSUME Init PROVE ProtocolInv
    OBVIOUS
  <2>1. \A i \in Chans : /\ hw[i].cause = {} /\ hw[i].src = "0" /\ hw[i].dest = "0"
                         /\ rtx[i] = "idle" /\ rrx[i] = "idle"
    BY DEF Init, ClosedHw
  <2>2. \A i \in Chans : Reader(i) = "idle"
    BY DEF Init, Idle, Reader
  <2>3. \A l \in Links : link[l] = "new" /\ tx[l] = "idle"
    BY DEF Init
  <2>4. \A l \in Links : InInv(l) /\ OutInv(l)
    BY <2>1, <2>2, <2>3, Apart DEF InInv, OutInv, Protocol, InFlight, OneAtATime, Dead, Gone
  <2>5. \A i \in Chans : LogInv(i)
    BY DEF Init, LogInv
  <2> QED BY <2>1, <2>4, <2>5 DEF ProtocolInv, UnusedInv
<1> QED BY <1>1, ProtocolStep, TypeCorrect, ClaimCorrect, CloseCorrect, PTL DEF Spec

(* Messages are read once and in order, on any channel and for any number  *)
(* of messages and of timed-out waits: the receiver clears RCV before it   *)
(* sets ACK.  Only channels where a message was written before the ACK of  *)
(* the one before it came are excepted.                                    *)
THEOREM InOrder == ASSUME OwnChannels PROVE Spec => []ReadInOrder
<1>1. ProtocolInv => ReadInOrder
  BY DEF ProtocolInv, LogInv, ReadInOrder
<1> QED BY <1>1, ProtocolCorrect, PTL

(* An ACK that a sender sees, in time or after its wait timed out, is for  *)
(* the message it last wrote, which the receiver has read.                 *)
THEOREM AckMeansRead == ASSUME OwnChannels PROVE Spec => []AckedWasRead
<1>1. ProtocolInv => AckedWasRead
  BY DEF ProtocolInv, LogInv, AckedWasRead
<1> QED BY <1>1, ProtocolCorrect, PTL

(* No message is missed: while a sender waits for an ACK on an open link,  *)
(* the message is announced, being read, or acknowledged.                  *)
THEOREM InFlightAlways == ASSUME OwnChannels PROVE Spec => []MessageInFlight
<1>1. ProtocolInv => MessageInFlight
  <2> SUFFICES ASSUME ProtocolInv, NEW l \in Links, link[l] = "open"
               PROVE  /\ InFlight(To[l], tx[l], rrx[To[l]])
                      /\ InFlight(From[l], rtx[From[l]], Reader(From[l]))
    BY DEF MessageInFlight
  <2>1. InInv(l) /\ OutInv(l) /\ ~Dead(l) /\ ~Gone(l)
    BY DEF ProtocolInv, Dead, Gone
  <2> QED BY <2>1 DEF InInv, OutInv, Protocol
<1> QED BY <1>1, ProtocolCorrect, PTL
=================================================================================
