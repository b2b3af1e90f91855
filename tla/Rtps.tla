---------------------------------- MODULE Rtps ----------------------------------
(***************************************************************************)
(* The application as a whole, from the drivers' initialisation to exit:   *)
(* rtps-r52/init.c and rtps-r52/shutdown.c over the device table           *)
(* (lib/hpsc/devices.c), processor affinity (lib/hpsc/affinity.c) and the  *)
(* RTI timer driver, in every configuration that compiles.                 *)
(*                                                                         *)
(* One task runs at a time: POSIX_Init, then the shell, which may shut the *)
(* system down.  The scheduler moves it between the processors its         *)
(* affinity allows.  Commands come over the HPPS link at any time.  The    *)
(* components are reduced to what boot and shutdown do with them: Command, *)
(* LinkMbox, LinkShmem, LinkStore and Watchdog model them.                 *)
(***************************************************************************)
EXTENDS Naturals, Sequences, SequencesExt

CONSTANTS NumCPUs,  \* rtems_get_processor_count()
          RtitIrq,  \* PPI_IRQ__RTI_TIMER
          MaxCmds,  \* bound: commands that come over the HPPS link
          NONE

ASSUME RtpsAssumption ==
  NumCPUs \in 1..2 /\ MaxCmds \in Nat /\ RtitIrq \in 0..15 /\ NONE \notin 0..NumCPUs-1

VARIABLES
  config,     \* the CONFIG_* options that are set
  pc,         \* step of the task
  i, pinned,  \* loop over the processors: its index, whether the task is pinned
  aff, cpu,   \* affinity of the task, the processor it runs on
  devs,       \* mailboxes in the device table
  mboxes,     \* mailbox drivers that exist, with their interrupt handlers
  rtits,      \* device table: the timer registered at each processor
  timers,     \* timers that exist
  wdts,       \* device table: the watchdog registered at each processor
  gic,        \* bits set in the trigger registers: register and bit
  kicked,     \* the watchdog that the task of each processor kicks
  open,       \* links connected
  store,      \* the link store
  queue,      \* links of the commands queued
  handler,    \* command handler task: off, or waits as it found the queue empty, or
              \* looks at the queue (idle), or the link it replies to
  suspended,  \* the other tasks are suspended
  sent,       \* commands that came
  leaked      \* history: links whose link_store_append or link_disconnect has failed

loop == <<i, pinned, aff, cpu>>
table == <<devs, mboxes, rtits, timers, wdts, gic>>
links == <<open, store, leaked>>
cmds == <<queue, handler, sent>>
vars == <<config, pc, loop, table, kicked, links, cmds, suspended>>

CPUs == 0..NumCPUs-1

(* The #error rules: a link needs its mailbox. *)
Mailbox == [tmc |-> "lsio", hms |-> "hpps"]
Configs == {c \in SUBSET {"lsio", "hpps", "rtit", "wdt", "tmc", "tsc", "hms", "shell"} :
              \A l \in DOMAIN Mailbox : l \in c => Mailbox[l] \in c}

BootSteps == <<"lsio", "hpps", "trigger", "rtit", "wdt", "restore", "early_tasks", "tmc", "tsc", "hms",
               "init_tasks", "external_tests", "late_tasks", "up">>
ShutdownSteps == <<"stop_handler", "disconnect", "drop", "stop_watchdogs", "suspend",
                   "remove_mboxes", "remove_timers", "remove_watchdogs", "exit">>
After(l) == LET s == BootSteps \o ShutdownSteps
            IN  s[1 + CHOOSE k \in 1..Len(s) : s[k] = l]

Init ==
  /\ config \in Configs
  /\ pc = "lsio"
  /\ i = 0 /\ pinned = FALSE /\ aff = CPUs /\ cpu = 0
  /\ devs = {} /\ mboxes = {} /\ timers = {}
  /\ rtits = [c \in CPUs |-> NONE] /\ wdts = [c \in CPUs |-> NONE]
  /\ gic = {}
  /\ kicked = [c \in CPUs |-> NONE]
  /\ open = {} /\ store = << >> /\ leaked = {}
  /\ queue = << >> /\ handler = "off" /\ sent = 0
  /\ suspended = FALSE

-------------------------------------------------------------------------------
(* The scheduler, and the loops over the processors. *)

Migrate ==
  /\ cpu' \in aff \ {cpu}
  /\ UNCHANGED <<config, pc, i, pinned, aff, table, kicked, links, cmds, suspended>>

(* A step whose option is not configured is not compiled. *)
Option == [lsio |-> "lsio", hpps |-> "hpps", trigger |-> "rtit", rtit |-> "rtit",
           wdt |-> "wdt", tmc |-> "tmc", tsc |-> "tsc", hms |-> "hms",
           init_tasks |-> "wdt", late_tasks |-> "shell"]
Skip ==
  /\ pc \in DOMAIN Option /\ Option[pc] \notin config
  /\ pc' = After(pc)
  /\ UNCHANGED <<config, loop, table, kicked, links, cmds, suspended>>

Step(l) == pc = l /\ (l \in DOMAIN Option => Option[l] \in config)

Loops == {"rtit", "wdt", "init_tasks", "stop_watchdogs", "remove_timers", "remove_watchdogs"}

(* Fault: the affinity is set when the loop is over. *)
PinLate ==
  /\ pc \in Loops /\ Step(pc) /\ ~pinned
  /\ pinned' = TRUE
  /\ aff' = IF i = NumCPUs - 1 THEN {i} ELSE aff
  /\ cpu' = IF i = NumCPUs - 1 THEN i ELSE cpu
  /\ UNCHANGED <<config, pc, i, table, kicked, links, cmds, suspended>>

affinity_pin_self_to_cpu ==
  /\ pc \in Loops /\ Step(pc) /\ ~pinned
  /\ pinned' = TRUE
  /\ aff' = {i} /\ cpu' = i
  /\ UNCHANGED <<config, pc, i, table, kicked, links, cmds, suspended>>

(* The end of one round; the two watchdog loops restore the affinity when  *)
(* they are done, those of the drivers share one restore, those of         *)
(* shutdown have none.                                                     *)
NextCpu ==
  /\ pinned' = FALSE
  /\ IF i < NumCPUs - 1 THEN i' = i + 1 /\ UNCHANGED <<pc, aff, cpu>>
     ELSE /\ i' = 0 /\ pc' = After(pc) /\ UNCHANGED cpu
          /\ aff' = IF pc \in {"init_tasks", "stop_watchdogs"} THEN CPUs ELSE aff

Round(l) == Step(l) /\ pinned /\ NextCpu

(* An assertion of the code holds and the round ends, or it fails. *)
RoundIf(ok) == IF ok THEN NextCpu ELSE pc' = "assert" /\ UNCHANGED loop

-------------------------------------------------------------------------------
(* Interrupt numbers and trigger modes (gic.h, gic.c): a register holds    *)
(* the modes of 16 vectors, at every other bit.                            *)

gic_irq_to_rvn(irq, type) ==
  irq + CASE type = "SPI" -> 32 [] type = "PPI" -> 16 [] type = "SGI" -> 0

to_reg_ptr(vector) ==
  <<IF vector < 32 THEN "sgi_ppi" ELSE "dist", vector \div 16>>

GIC_TRIGGER_BIT(vector) == 2 * (vector % 16) + 1

gic_trigger_get(vector) == <<to_reg_ptr(vector), GIC_TRIGGER_BIT(vector)>> \in gic

RtitVector == gic_irq_to_rvn(RtitIrq, "PPI")

(* Once, before the loop over the timers.  GIC_EDGE_TRIGGERED is 1: the    *)
(* bit is set, the others are written back.                                *)
gic_trigger_set ==
  /\ Step("trigger")
  /\ gic' = gic \cup {<<to_reg_ptr(RtitVector), GIC_TRIGGER_BIT(RtitVector)>>}
  /\ pc' = After(pc)
  /\ UNCHANGED <<config, loop, devs, mboxes, rtits, timers, wdts, kicked, links, cmds, suspended>>

-------------------------------------------------------------------------------
(* init_extra_drivers. *)

(* The device table (devices.c): a slot that is set to a device must be    *)
(* free; the per-processor slots are those of the current processor.       *)
dev_set_mbox(m) == devs' = devs \cup {m}
dev_cpu_set_rtit(dev) == rtits' = [rtits EXCEPT ![cpu] = dev]
dev_cpu_set_wdt(dev) == wdts' = [wdts EXCEPT ![cpu] = dev]
dev_get_mbox == devs
dev_cpu_get_rtit == rtits[cpu]
dev_cpu_get_wdt == wdts[cpu]

hpsc_mbox_probe(m) == mboxes' = mboxes \cup {m}
hpsc_rti_timer_probe(tmr) == timers' = timers \cup {tmr}

InitMailboxes ==
  /\ \E m \in {"lsio", "hpps"} :
       /\ Step(m)
       /\ hpsc_mbox_probe(m)
       /\ dev_set_mbox(m)
       /\ pc' = IF m \in dev_get_mbox THEN "assert" ELSE After(m)
  /\ UNCHANGED <<config, loop, rtits, timers, wdts, gic, kicked, links, cmds, suspended>>

InitTimers ==
  /\ Step("rtit") /\ pinned
  /\ hpsc_rti_timer_probe(i)
  /\ dev_cpu_set_rtit(i)
  /\ RoundIf(dev_cpu_get_rtit = NONE)
  /\ UNCHANGED <<config, devs, mboxes, wdts, gic, kicked, links, cmds, suspended>>

InitWatchdogs ==
  /\ Step("wdt") /\ pinned
  /\ dev_cpu_set_wdt(i)
  /\ RoundIf(dev_cpu_get_wdt = NONE)
  /\ UNCHANGED <<config, devs, mboxes, rtits, timers, gic, kicked, links, cmds, suspended>>

(* rtems_panic at one of the steps. *)
PanicAt(steps) ==
  /\ pc \in steps
  /\ Step(pc) /\ (pc \in Loops => pinned)
  /\ pc' = "panic"
  /\ UNCHANGED <<config, loop, table, kicked, links, cmds, suspended>>

(* A driver, a link, a task or a test fails (init.c), or a watchdog task   *)
(* cannot be started or stopped (watchdog.c); the removal of a driver, in  *)
(* shutdown.c, is below.                                                   *)
InitPanics == PanicAt({"lsio", "hpps", "rtit", "early_tasks", "tmc", "tsc", "hms",
                       "external_tests", "late_tasks"})
WatchdogPanics == PanicAt({"init_tasks", "stop_watchdogs"})
Panic == InitPanics \/ WatchdogPanics

RestoreAffinity ==
  /\ Step("restore")
  /\ aff' = CPUs /\ UNCHANGED <<i, pinned, cpu>>
  /\ pc' = After(pc)
  /\ UNCHANGED <<config, table, kicked, links, cmds, suspended>>

-------------------------------------------------------------------------------
(* POSIX_Init; its tests are modelled in SelfTest. *)

early_tasks ==
  /\ Step("early_tasks")
  /\ handler' = "idle"
  /\ pc' = After(pc)
  /\ UNCHANGED <<config, loop, table, kicked, links, queue, sent, suspended>>

(* A link is connected and appended to the store; the result of            *)
(* link_store_append is not looked at.                                     *)
Connect(l) ==
  /\ Step(l)
  /\ pc' = IF l \in DOMAIN Mailbox => Mailbox[l] \in dev_get_mbox THEN After(l) ELSE "assert"
  /\ open' = open \cup {l}
  /\ \/ store' = Append(store, l) /\ UNCHANGED leaked
     \/ leaked' = leaked \cup {l} /\ UNCHANGED store
  /\ UNCHANGED <<config, loop, table, kicked, cmds, suspended>>

init_client_links == Connect("tmc") \/ Connect("tsc")
init_server_links == Connect("hms")

watchdog_tasks_create ==
  /\ Step("init_tasks") /\ pinned
  /\ RoundIf(dev_cpu_get_wdt # NONE)
  /\ kicked' = [kicked EXCEPT ![cpu] = dev_cpu_get_wdt]
  /\ UNCHANGED <<config, table, links, cmds, suspended>>

(* A ping over each client link that is configured and whose test is: the  *)
(* test asserts that the store has the link.                               *)
external_tests ==
  /\ Step("external_tests")
  /\ \E tests \in SUBSET (config \cap {"tmc", "tsc"}) :
       pc' = IF tests \subseteq Range(store) THEN After(pc) ELSE "assert"
  /\ UNCHANGED <<config, loop, table, kicked, links, cmds, suspended>>

late_tasks ==
  /\ Step("late_tasks")
  /\ pc' = After(pc)
  /\ UNCHANGED <<config, loop, table, kicked, links, cmds, suspended>>

-------------------------------------------------------------------------------
(* Commands over the HPPS link, and the handler task. *)

Receive ==
  /\ "hms" \in open /\ "hpps" \in mboxes
  /\ sent < MaxCmds
  /\ sent' = sent + 1
  /\ queue' = Append(queue, "hms")
  /\ UNCHANGED <<config, pc, loop, table, kicked, links, handler, suspended>>

NoLink == {"off", "wait", "idle"}  \* the handler task has no command in hand

(* cmd_flush takes a command, ... *)
Take == handler = "idle" /\ queue # << >> /\ handler' = Head(queue) /\ queue' = Tail(queue)

(* ... or finds the queue empty, and the task waits for an event, ... *)
Sleep == handler = "idle" /\ queue = << >> /\ handler' = "wait" /\ UNCHANGED queue
Wake == handler = "wait" /\ queue # << >> /\ handler' = "idle" /\ UNCHANGED queue

(* ... and the reply gets its ACK or times out. *)
Replied == handler \notin NoLink /\ handler' = "idle" /\ UNCHANGED queue

(* Fault: the reply waits for its ACK without a timeout. *)
HandleForever ==
  /\ ~suspended
  /\ Take \/ Sleep \/ Wake
  /\ UNCHANGED <<config, pc, loop, table, kicked, links, sent, suspended>>

Handle ==
  /\ ~suspended
  /\ Take \/ Sleep \/ Wake \/ Replied
  /\ UNCHANGED <<config, pc, loop, table, kicked, links, sent, suspended>>

-------------------------------------------------------------------------------
(* shutdown, called from the shell. *)

shutdown ==
  /\ pc = "up" /\ "shell" \in config
  /\ pc' = After(pc)
  /\ UNCHANGED <<config, loop, table, kicked, links, cmds, suspended>>

(* cmd_handle_task_destroy: the task looks at the exit event only when it  *)
(* has found the queue empty; commands that come after that stay.          *)
StopHandler ==
  /\ pc = "stop_handler"
  /\ handler \in {"wait", "off"}
  /\ handler' = "off"
  /\ pc' = After(pc)
  /\ UNCHANGED <<config, loop, table, kicked, links, queue, sent, suspended>>

(* Fault: the links are disconnected in the order of the store but the     *)
(* last one is left.                                                       *)
DisconnectAllButOne ==
  /\ pc = "disconnect"
  /\ IF Len(store) <= 1 THEN pc' = After(pc) /\ UNCHANGED <<store, open>>
     ELSE store' = Tail(store) /\ open' = open \ {Head(store)} /\ UNCHANGED pc
  /\ UNCHANGED <<config, loop, table, kicked, leaked, cmds, suspended>>

(* link_disconnect of a shared memory link may fail, and leaves a polling  *)
(* task behind; the loop goes on.                                          *)
DisconnectLinks ==
  /\ pc = "disconnect"
  /\ IF store = << >> THEN pc' = After(pc) /\ UNCHANGED links
     ELSE /\ store' = Tail(store) /\ UNCHANGED pc
          /\ \/ open' = open \ {Head(store)} /\ UNCHANGED leaked
             \/ /\ Head(store) \notin DOMAIN Mailbox
                /\ leaked' = leaked \cup {Head(store)} /\ UNCHANGED open
  /\ UNCHANGED <<config, loop, table, kicked, cmds, suspended>>

DropCommands ==
  /\ pc = "drop"
  /\ queue' = << >>
  /\ pc' = After(pc)
  /\ UNCHANGED <<config, loop, table, kicked, links, handler, sent, suspended>>

(* RTEMS_NOT_DEFINED where no task runs.  That the wait for the task ends  *)
(* is DestroyReturns of Watchdog.                                          *)
watchdog_tasks_destroy ==
  /\ Round("stop_watchdogs")
  /\ kicked' = [kicked EXCEPT ![cpu] = NONE]
  /\ UNCHANGED <<config, table, links, cmds, suspended>>

SuspendTasks ==
  /\ pc = "suspend"
  /\ suspended' = TRUE
  /\ pc' = After(pc)
  /\ UNCHANGED <<config, loop, table, kicked, links, cmds>>

(* hpsc_mbox_remove also releases the channels of links that were leaked.  *)
(* The device is out of the table before its driver is removed; a driver   *)
(* that is not, or a timer still in use, is a panic.                       *)
hpsc_mbox_remove ==
  /\ pc = "remove_mboxes"
  /\ IF devs = {} THEN pc' = After(pc) /\ UNCHANGED <<devs, mboxes>>
     ELSE \E m \in devs :
            /\ devs' = devs \ {m}
            /\ \/ mboxes' = mboxes \ {m} /\ UNCHANGED pc
               \/ pc' = "panic" /\ UNCHANGED mboxes
  /\ UNCHANGED <<config, loop, rtits, timers, wdts, gic, kicked, links, cmds, suspended>>

hpsc_rti_timer_remove ==
  /\ Step("remove_timers") /\ pinned
  /\ dev_cpu_set_rtit(NONE)
  /\ \/ timers' = timers \ {dev_cpu_get_rtit} /\ NextCpu
     \/ dev_cpu_get_rtit # NONE /\ pc' = "panic" /\ UNCHANGED <<timers, loop>>
  /\ UNCHANGED <<config, devs, mboxes, wdts, gic, kicked, links, cmds, suspended>>

wdt_uninit ==
  /\ Round("remove_watchdogs")
  /\ dev_cpu_set_wdt(NONE)
  /\ UNCHANGED <<config, devs, mboxes, rtits, timers, gic, kicked, links, cmds, suspended>>

Boot == \/ Skip \/ affinity_pin_self_to_cpu \/ InitMailboxes \/ gic_trigger_set \/ InitTimers
        \/ InitWatchdogs \/ RestoreAffinity \/ early_tasks \/ init_client_links
        \/ init_server_links \/ watchdog_tasks_create \/ external_tests \/ late_tasks

Down == \/ affinity_pin_self_to_cpu
        \/ StopHandler \/ DisconnectLinks \/ DropCommands \/ watchdog_tasks_destroy
        \/ SuspendTasks \/ hpsc_mbox_remove \/ hpsc_rti_timer_remove \/ wdt_uninit

Ended == pc \in {"panic", "assert", "exit"}

Next == \/ ~Ended /\ (Boot \/ shutdown \/ Down \/ Panic \/ Receive \/ Handle \/ Migrate)
        \/ (Ended \/ pc = "up") /\ UNCHANGED vars

Spec == Init /\ [][Next]_vars

(* The shell task, once it shuts down, and the handler task run. *)
FairSpec == Spec /\ WF_vars(Down) /\ WF_vars(~Ended /\ Handle)

-------------------------------------------------------------------------------
(* Properties. *)

EdgeBit == <<<<"sgi_ppi", 1>>, 2 * RtitIrq + 1>>

(* In every configuration that compiles the assertions of boot hold, on    *)
(* handles from the device table, on slots that must be free and on links  *)
(* from the store, unless a link_store_append has failed, whose result is  *)
(* ignored.  Each processor's slots hold its own devices, and its watchdog *)
(* task kicks its own watchdog, wherever the scheduler moves the task:     *)
(* "must first bind to the correct CPU".  Only the timer's vector is       *)
(* changed to edge-triggered, before a timer exists: in the architecture   *)
(* the mode of PPI n is at bits 2n and 2n + 1 of the second register, the  *)
(* upper one is 1 for edge-triggered, and PPI n is vector 16 + n.          *)
BootSafe ==
  /\ pc = "assert" => leaked # {}
  /\ \A c \in CPUs : rtits[c] \in {c, NONE} /\ wdts[c] \in {c, NONE} /\ kicked[c] \in {c, NONE}
  /\ gic \subseteq {EdgeBit} /\ (timers # {} => EdgeBit \in gic)
  /\ \A v \in 0..47 : gic_trigger_get(v) => v = 16 + RtitIrq

(* The handler task never has a link that was disconnected, and when the   *)
(* application exits nothing of it is left: no driver, no handler, no      *)
(* timer, no watchdog being kicked, no entry of the device table, no link  *)
(* but one that was leaked, and no command but of such a link.  "NOTE:     *)
(* stop any other tasks with handles on links before continuing".          *)
ShutdownClean ==
  /\ handler \notin NoLink => handler \in open
  /\ handler # "off" => \A k \in 1..Len(queue) : queue[k] \in open
  /\ pc = "exit" => /\ devs = {} /\ mboxes = {} /\ timers = {}
                    /\ \A c \in CPUs : rtits[c] = NONE /\ wdts[c] = NONE /\ kicked[c] = NONE
                    /\ open \subseteq leaked
                    /\ handler = "off"
                    /\ \A k \in 1..Len(queue) : queue[k] \in leaked

(* A shutdown comes to its end, or to a panic of a driver that is not      *)
(* removed, in every configuration, although commands come meanwhile, when *)
(* their number is finite: the handler task sees the exit event only after *)
(* the last of them.                                                       *)
ShutdownEnds == pc = "stop_handler" ~> pc \in {"exit", "panic"}
=================================================================================
