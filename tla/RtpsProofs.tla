------------------------------ MODULE RtpsProofs ------------------------------
(***************************************************************************)
(* Proofs about Rtps: boot and shutdown, in every configuration, for any   *)
(* number of commands, wherever the scheduler moves the task.              *)
(***************************************************************************)
EXTENDS Rtps, SequenceTheorems, TLAPS

(* The order of the steps. *)
LEMMA AfterIs ==
  /\ After("lsio") = "hpps" /\ After("hpps") = "trigger"
  /\ After("trigger") = "rtit" /\ After("rtit") = "wdt"
  /\ After("wdt") = "restore" /\ After("restore") = "early_tasks"
  /\ After("early_tasks") = "tmc" /\ After("tmc") = "tsc"
  /\ After("tsc") = "hms" /\ After("hms") = "init_tasks"
  /\ After("init_tasks") = "external_tests" /\ After("external_tests") = "late_tasks"
  /\ After("late_tasks") = "up" /\ After("up") = "stop_handler"
  /\ After("stop_handler") = "disconnect" /\ After("disconnect") = "drop"
  /\ After("drop") = "stop_watchdogs" /\ After("stop_watchdogs") = "suspend"
  /\ After("suspend") = "remove_mboxes" /\ After("remove_mboxes") = "remove_timers"
  /\ After("remove_timers") = "remove_watchdogs" /\ After("remove_watchdogs") = "exit"
<1> DEFINE order == <<"lsio", "hpps", "trigger", "rtit", "wdt", "restore", "early_tasks", "tmc",
                  "tsc", "hms", "init_tasks", "external_tests", "late_tasks", "up",
                  "stop_handler", "disconnect", "drop", "stop_watchdogs", "suspend",
                  "remove_mboxes", "remove_timers", "remove_watchdogs", "exit">>
<1>1. BootSteps \o ShutdownSteps = order
  <2> DEFINE s == BootSteps \o ShutdownSteps
  <2>1. Len(BootSteps) = 14 /\ Len(ShutdownSteps) = 9 /\ Len(order) = 23
    BY DEF BootSteps, ShutdownSteps
  <2>2. s = [k \in 1..23 |-> IF k <= 14 THEN BootSteps[k] ELSE ShutdownSteps[k - 14]]
    <3> DEFINE S == Range(BootSteps) \cup Range(ShutdownSteps)
    <3>1. BootSteps \in Seq(S)
      BY DEF BootSteps, Range
    <3>2. ShutdownSteps \in Seq(S)
      BY DEF ShutdownSteps, Range
    <3> HIDE DEF S
    <3>3. /\ s \in Seq(S) /\ Len(s) = Len(BootSteps) + Len(ShutdownSteps)
          /\ \A k \in 1..Len(BootSteps) + Len(ShutdownSteps) :
               s[k] = IF k <= Len(BootSteps) THEN BootSteps[k]
                      ELSE ShutdownSteps[k - Len(BootSteps)]
      BY <3>1, <3>2, ConcatProperties
    <3>4. s = [k \in 1..23 |-> s[k]]
      <4> HIDE DEF s
      <4> QED BY <2>1, <3>3
    <3>5. \A k \in 1..23 : s[k] = IF k <= 14 THEN BootSteps[k] ELSE ShutdownSteps[k - 14]
      <4> HIDE DEF s
      <4> QED BY <2>1, <3>3
    <3> HIDE DEF s
    <3> QED BY <3>4, <3>5
  <2>3. order = [k \in 1..23 |-> order[k]]
    OBVIOUS
  <2>4. \A k \in 1..14 : BootSteps[k] = order[k]
    BY DEF BootSteps
  <2>5. \A k \in 1..9 : ShutdownSteps[k] = order[k + 14]
    BY DEF ShutdownSteps
  <2>6. \A k \in 15..23 : k - 14 \in 1..9 /\ (k - 14) + 14 = k
    OBVIOUS
  <2> HIDE DEF order, s
  <2>7. \A k \in 1..23 : s[k] = order[k]
    BY <2>2, <2>4, <2>5, <2>6
  <2> QED BY <2>2, <2>3, <2>7 DEF s
<1>2. \A l : After(l) = order[1 + CHOOSE k \in 1..23 : order[k] = l]
  BY <1>1, Len(order) = 23 DEF After
<1>3. After("lsio") = "hpps"
  BY <1>2
<1>4. After("hpps") = "trigger"
  BY <1>2
<1>5. After("trigger") = "rtit"
  BY <1>2
<1>6. After("rtit") = "wdt"
  BY <1>2
<1>7. After("wdt") = "restore"
  BY <1>2
<1>8. After("restore") = "early_tasks"
  BY <1>2
<1>9. After("early_tasks") = "tmc"
  BY <1>2
<1>10. After("tmc") = "tsc"
  BY <1>2
<1>11. After("tsc") = "hms"
  BY <1>2
<1>12. After("hms") = "init_tasks"
  BY <1>2
<1>13. After("init_tasks") = "external_tests"
  BY <1>2
<1>14. After("external_tests") = "late_tasks"
  BY <1>2
<1>15. After("late_tasks") = "up"
  BY <1>2
<1>16. After("up") = "stop_handler"
  BY <1>2
<1>17. After("stop_handler") = "disconnect"
  BY <1>2
<1>18. After("disconnect") = "drop"
  BY <1>2
<1>19. After("drop") = "stop_watchdogs"
  BY <1>2
<1>20. After("stop_watchdogs") = "suspend"
  BY <1>2
<1>21. After("suspend") = "remove_mboxes"
  BY <1>2
<1>22. After("remove_mboxes") = "remove_timers"
  BY <1>2
<1>23. After("remove_timers") = "remove_watchdogs"
  BY <1>2
<1>24. After("remove_watchdogs") = "exit"
  BY <1>2
<1> QED
  BY <1>3, <1>4, <1>5, <1>6, <1>7, <1>8, <1>9, <1>10, <1>11, <1>12, <1>13, <1>14,
     <1>15, <1>16, <1>17, <1>18, <1>19, <1>20, <1>21, <1>22, <1>23, <1>24

Steps == {"lsio", "hpps", "trigger", "rtit", "wdt", "restore", "early_tasks", "tmc", "tsc",
          "hms", "init_tasks", "external_tests", "late_tasks", "up", "stop_handler",
          "disconnect", "drop", "stop_watchdogs", "suspend", "remove_mboxes",
          "remove_timers", "remove_watchdogs", "exit"}

(* The loops over the processors: while the task is pinned it runs on the  *)
(* processor of the loop, and outside of a loop it starts from the first.  *)
LoopInv ==
  /\ config \in Configs
  /\ pc \in Steps \cup {"panic", "assert"}
  /\ i \in CPUs /\ cpu \in CPUs /\ aff \subseteq CPUs /\ pinned \in BOOLEAN
  /\ pinned => aff = {i} /\ cpu = i
  /\ ~Ended /\ ~(pc \in Loops /\ Step(pc)) => i = 0 /\ ~pinned

(* There are one or two processors; the loops of init.c and shutdown.c     *)
(* start at 0 and count up.                                                *)
LEMMA CpuRange ==
  /\ CPUs \subseteq 0..1 /\ 0 \in CPUs /\ NONE \notin CPUs
  /\ \A c \in CPUs : c < NumCPUs - 1 => c + 1 \in CPUs
BY RtpsAssumption DEF CPUs

(* The option that each optional step of init.c depends on.                *)
LEMMA OptionIs ==
  /\ DOMAIN Option = {"lsio", "hpps", "trigger", "rtit", "wdt", "tmc", "tsc", "hms",
                      "init_tasks", "late_tasks"}
  /\ Option["lsio"] = "lsio" /\ Option["hpps"] = "hpps" /\ Option["trigger"] = "rtit"
  /\ Option["rtit"] = "rtit" /\ Option["wdt"] = "wdt" /\ Option["tmc"] = "tmc"
  /\ Option["tsc"] = "tsc" /\ Option["hms"] = "hms" /\ Option["init_tasks"] = "wdt"
  /\ Option["late_tasks"] = "shell"
BY DEF Option

(* A round of a loop ends, with the next processor or with the next step. *)
LEMMA Rounds ==
  ASSUME LoopInv, pc \in Loops, Step(pc), pinned, NextCpu, UNCHANGED config
  PROVE  /\ LoopInv' /\ pinned' = FALSE
         /\ \/ i < NumCPUs - 1 /\ i' = i + 1 /\ pc' = pc
            \/ i = NumCPUs - 1 /\ i' = 0 /\ pc' = After(pc)
<1> USE CpuRange DEF LoopInv
<1>1. i <= NumCPUs - 1 /\ i \in Nat /\ NumCPUs \in Nat
  BY RtpsAssumption DEF CPUs
<1>2. pinned' = FALSE /\ aff \subseteq CPUs
  BY DEF NextCpu
<1>3. CASE i < NumCPUs - 1
  <2>1. i' = i + 1 /\ pc' = pc /\ aff' = aff /\ cpu' = cpu
    BY <1>3 DEF NextCpu
  <2>2. Step(pc)' /\ ~Ended /\ ~Ended'
    BY <2>1 DEF Step, Loops, Ended
  <2> QED BY <1>2, <1>3, <2>1, <2>2 DEF Ended, Loops, Steps
<1>4. CASE ~(i < NumCPUs - 1)
  <2>1. i' = 0 /\ pc' = After(pc) /\ cpu' = cpu /\ aff' \in {CPUs, aff}
    BY <1>4 DEF NextCpu
  <2>2. After(pc) \in Steps
    BY AfterIs DEF Loops, Steps
  <2>3. i' \in CPUs /\ cpu' \in CPUs /\ aff' \subseteq CPUs
    BY <2>1, <1>2
  <2>4. i = NumCPUs - 1
    BY <1>1, <1>4
  <2> QED BY <1>2, <2>1, <2>2, <2>3, <2>4
<1> QED BY <1>3, <1>4

(* An assertion fails: the loop stays where it is. *)
LEMMA Fails ==
  ASSUME LoopInv, pc' \in {"assert", "panic"}, UNCHANGED <<config, loop>>
  PROVE  LoopInv'
BY DEF LoopInv, Ended, loop

(* Init and every step keep the loops in order. *)
THEOREM LoopCorrect == Spec => []LoopInv
<1> USE DEF LoopInv, Steps, Loops, Ended
<1>1. Init => LoopInv
  BY CpuRange DEF Init
<1>2. ASSUME LoopInv, [Next]_vars PROVE LoopInv'
  <2> USE <1>2, CpuRange, OptionIs, AfterIs DEF loop, Step
  <2>1. CASE ~Ended /\ Skip
    BY <2>1 DEF Skip
  <2>2. CASE affinity_pin_self_to_cpu
    BY <2>2 DEF affinity_pin_self_to_cpu
  <2>3. CASE InitMailboxes
    BY <2>3 DEF InitMailboxes
  <2>4. CASE gic_trigger_set
    BY <2>4 DEF gic_trigger_set
  <2>5. CASE InitTimers
    BY <2>5, Fails, Rounds DEF InitTimers, RoundIf
  <2>6. CASE InitWatchdogs
    BY <2>6, Fails, Rounds DEF InitWatchdogs, RoundIf
  <2>7. CASE Panic
    <3>1. pc' = "panic" /\ UNCHANGED <<config, loop>>
      BY <2>7 DEF Panic, InitPanics, WatchdogPanics, PanicAt
    <3> QED BY <3>1, Fails
  <2>8. CASE RestoreAffinity
    BY <2>8 DEF RestoreAffinity
  <2>9. CASE early_tasks
    BY <2>9 DEF early_tasks
  <2>10. CASE init_client_links \/ init_server_links
    <3>1. PICK l \in {"tmc", "tsc", "hms"} : Connect(l)
      BY <2>10 DEF init_client_links, init_server_links
    <3>2. pc = l /\ pc' \in {After(l), "assert"} /\ UNCHANGED <<config, loop>>
      BY <3>1 DEF Connect
    <3> QED BY <3>2
  <2>12. CASE watchdog_tasks_create
    BY <2>12, Fails, Rounds DEF watchdog_tasks_create, RoundIf
  <2>13. CASE external_tests
    BY <2>13 DEF external_tests
  <2>14. CASE late_tasks
    BY <2>14 DEF late_tasks
  <2>15. CASE shutdown
    BY <2>15 DEF shutdown
  <2>16. CASE StopHandler
    BY <2>16 DEF StopHandler
  <2>17. CASE DisconnectLinks
    BY <2>17 DEF DisconnectLinks
  <2>18. CASE DropCommands
    BY <2>18 DEF DropCommands
  <2>19. CASE watchdog_tasks_destroy
    BY <2>19, Rounds DEF watchdog_tasks_destroy, Round
  <2>20. CASE SuspendTasks
    BY <2>20 DEF SuspendTasks
  <2>21. CASE hpsc_mbox_remove
    BY <2>21 DEF hpsc_mbox_remove
  <2>22. CASE hpsc_rti_timer_remove
    BY <2>22, Fails, Rounds DEF hpsc_rti_timer_remove
  <2>23. CASE wdt_uninit
    BY <2>23, Rounds DEF wdt_uninit, Round
  <2>24. CASE Receive \/ Handle
    <3>1. UNCHANGED <<config, pc, loop>>
      BY <2>24 DEF Receive, Handle
    <3> QED BY <3>1
  <2>25. CASE ~Ended /\ Migrate
    BY <2>25 DEF Migrate
  <2>26. CASE UNCHANGED vars
    BY <2>26 DEF vars
  <2> QED
    BY <2>1, <2>2, <2>3, <2>4, <2>5, <2>6, <2>7, <2>8, <2>9, <2>10, <2>12, <2>13,
       <2>14, <2>15, <2>16, <2>17, <2>18, <2>19, <2>20, <2>21, <2>22, <2>23, <2>24, <2>25,
       <2>26 DEF Next, Boot, Down
<1> QED BY <1>1, <1>2, PTL DEF Spec

(* The bit that gic_trigger_set sets is the one that the architecture has  *)
(* for the timer's interrupt.                                              *)
LEMMA RtitBit ==
  /\ RtitVector = 16 + RtitIrq
  /\ EdgeBit = <<to_reg_ptr(RtitVector), GIC_TRIGGER_BIT(RtitVector)>>
<1>1. RtitIrq \in 0..15
  BY RtpsAssumption
<1>2. RtitVector = RtitIrq + 16
  BY DEF RtitVector, gic_irq_to_rvn
<1>3. /\ RtitIrq + 16 < 32 /\ (RtitIrq + 16) \div 16 = 1 /\ (RtitIrq + 16) % 16 = RtitIrq
      /\ RtitIrq + 16 = 16 + RtitIrq
  BY <1>1
<1>4. to_reg_ptr(RtitVector) = <<"sgi_ppi", 1>>
  BY <1>2, <1>3 DEF to_reg_ptr
<1>5. GIC_TRIGGER_BIT(RtitVector) = 2 * RtitIrq + 1
  BY <1>2, <1>3 DEF GIC_TRIGGER_BIT
<1> QED BY <1>2, <1>3, <1>4, <1>5 DEF EdgeBit

(* The timers are those of the device table, each at its own processor,    *)
(* until the removal of one fails; the loops fill the slots, and empty     *)
(* them, in the order of the processors.                                   *)
TimerInv ==
  /\ rtits \in [CPUs -> CPUs \cup {NONE}]
  /\ \A c \in CPUs : rtits[c] \in {c, NONE}
  /\ pc # "panic" => timers = {c \in CPUs : rtits[c] = c}
  /\ pc \in {"lsio", "hpps", "trigger"} => \A c \in CPUs : rtits[c] = NONE
  /\ pc = "rtit" => \A c \in CPUs : c >= i => rtits[c] = NONE
  /\ pc = "remove_timers" => \A c \in CPUs : c < i => rtits[c] = NONE
  /\ pc \in {"remove_watchdogs", "exit"} => \A c \in CPUs : rtits[c] = NONE
  /\ gic \subseteq {EdgeBit}
  /\ pc = "rtit" /\ "rtit" \in config => EdgeBit \in gic
  /\ timers # {} => EdgeBit \in gic

(* The watchdogs, in the same way, from the loop that sets the slots to    *)
(* the one that starts the tasks, where every slot is set.                 *)
WdtInv ==
  /\ wdts \in [CPUs -> CPUs \cup {NONE}]
  /\ \A c \in CPUs : wdts[c] \in {c, NONE}
  /\ pc \in {"lsio", "hpps", "trigger", "rtit"} => \A c \in CPUs : wdts[c] = NONE
  /\ pc = "wdt" => \A c \in CPUs : IF c >= i THEN wdts[c] = NONE ELSE wdts[c] = c
  /\ "wdt" \in config /\ pc \in {"restore", "early_tasks", "tmc", "tsc", "hms", "init_tasks"} =>
       \A c \in CPUs : wdts[c] = c
  /\ pc = "remove_watchdogs" => \A c \in CPUs : c < i => wdts[c] = NONE
  /\ pc = "exit" => \A c \in CPUs : wdts[c] = NONE

(* The watchdog tasks: each kicks the watchdog of its own processor. *)
KickInv ==
  /\ kicked \in [CPUs -> CPUs \cup {NONE}]
  /\ \A c \in CPUs : kicked[c] \in {c, NONE}
  /\ pc = "stop_watchdogs" => \A c \in CPUs : c < i => kicked[c] = NONE
  /\ pc \in {"suspend", "remove_mboxes", "remove_timers", "remove_watchdogs", "exit"} =>
       \A c \in CPUs : kicked[c] = NONE

(* A mailbox that is configured is in the device table from its step until *)
(* the drivers are removed.                                                *)
MboxInv ==
  /\ pc # "panic" => devs = mboxes
  /\ pc = "lsio" => devs = {}
  /\ pc = "hpps" => devs = {"lsio"} \cap config
  /\ pc \in {"tmc", "tsc", "hms"} \cup {"trigger", "rtit", "wdt", "restore", "early_tasks"} =>
       devs = {"lsio", "hpps"} \cap config
  /\ pc \in {"remove_timers", "remove_watchdogs", "exit"} => devs = {}

AfterDisconnect == {"drop", "stop_watchdogs", "suspend", "remove_mboxes", "remove_timers",
                    "remove_watchdogs", "exit"}

(* The links that are connected are in the store, or were leaked; until    *)
(* they are disconnected a command that waits or is handled has a link     *)
(* that is connected, and once the commands are dropped only a leaked link *)
(* can bring another one.                                                  *)
LinkInv ==
  /\ store \in Seq({"tmc", "tsc", "hms"}) /\ queue \in Seq({"tmc", "tsc", "hms"})
  /\ open \subseteq Range(store) \cup leaked
  /\ pc \in {"tsc", "hms", "init_tasks", "external_tests"} /\ "tmc" \in config =>
       "tmc" \in Range(store) \cup leaked
  /\ pc \in {"hms", "init_tasks", "external_tests"} /\ "tsc" \in config =>
       "tsc" \in Range(store) \cup leaked
  /\ handler # "off" \/ pc \notin AfterDisconnect \cup {"disconnect", "panic"} =>
       \A k \in 1..Len(queue) : queue[k] \in open
  /\ handler # "off" => pc \notin AfterDisconnect \cup {"disconnect"}
  /\ handler \notin NoLink => handler \in open
  /\ pc \in AfterDisconnect => store = << >>
  /\ pc \in AfterDisconnect \ {"drop"} => \A k \in 1..Len(queue) : queue[k] \in leaked

SystemInv == TimerInv /\ WdtInv /\ KickInv /\ MboxInv /\ LinkInv /\ (pc = "assert" => leaked # {})

(* The tasks kick the watchdogs of their processors. *)
LEMMA KickStep ==
  ASSUME LoopInv, WdtInv, KickInv, [Next]_vars
  PROVE  KickInv'
<1> USE CpuRange, OptionIs, AfterIs DEF loop, table, links, cmds, Step, Loops, Ended, KickInv
<1>1. CASE watchdog_tasks_create
  <2>1. /\ pc = "init_tasks" /\ Step(pc) /\ pinned /\ cpu = i /\ i \in CPUs /\ UNCHANGED config
        /\ kicked' = [kicked EXCEPT ![i] = wdts[i]]
    BY <1>1 DEF LoopInv, watchdog_tasks_create, RoundIf, dev_cpu_get_wdt
  <2>2. \/ pc' = "assert"
        \/ i < NumCPUs - 1 /\ i' = i + 1 /\ pc' = pc
        \/ i = NumCPUs - 1 /\ i' = 0 /\ pc' = After(pc)
    BY <1>1, <2>1, Rounds DEF watchdog_tasks_create, RoundIf
  <2>3. \A c \in CPUs : kicked'[c] = IF c = i THEN wdts[i] ELSE kicked[c]
    BY <2>1
  <2>4. kicked' \in [CPUs -> CPUs \cup {NONE}]
    BY <2>1 DEF WdtInv
  <2>5. \A c \in CPUs : c \in Nat /\ c <= NumCPUs - 1
    BY RtpsAssumption DEF CPUs
  <2> QED BY <2>1, <2>2, <2>3, <2>4, <2>5 DEF WdtInv
<1>2. CASE watchdog_tasks_destroy
  <2>1. /\ pc = "stop_watchdogs" /\ Step(pc) /\ pinned /\ cpu = i /\ i \in CPUs /\ UNCHANGED config
        /\ kicked' = [kicked EXCEPT ![i] = NONE]
    BY <1>2 DEF LoopInv, watchdog_tasks_destroy, Round, dev_cpu_get_wdt
  <2>2. \/ i < NumCPUs - 1 /\ i' = i + 1 /\ pc' = pc
        \/ i = NumCPUs - 1 /\ i' = 0 /\ pc' = After(pc)
    BY <1>2, <2>1, Rounds DEF watchdog_tasks_destroy, Round
  <2>3. \A c \in CPUs : kicked'[c] = IF c = i THEN NONE ELSE kicked[c]
    BY <2>1
  <2>4. kicked' \in [CPUs -> CPUs \cup {NONE}]
    BY <2>1
  <2>5. \A c \in CPUs : c \in Nat /\ c <= NumCPUs - 1
    BY RtpsAssumption DEF CPUs
  <2> QED BY <2>1, <2>2, <2>3, <2>4, <2>5
<1>3. CASE ~Ended /\ (Skip \/ affinity_pin_self_to_cpu \/ Panic \/ Receive \/ Handle \/ Migrate)
  BY <1>3 DEF LoopInv, Skip, affinity_pin_self_to_cpu, Panic, InitPanics, WatchdogPanics, PanicAt,
              Receive, Handle, Migrate
<1>4. CASE RestoreAffinity \/ early_tasks \/ init_client_links \/ init_server_links \/ external_tests \/ late_tasks
  BY <1>4 DEF LoopInv, RestoreAffinity, early_tasks, init_client_links, init_server_links,
     external_tests, late_tasks, Connect
<1>5. CASE shutdown \/ StopHandler \/ DisconnectLinks \/ DropCommands \/ SuspendTasks
  BY <1>5 DEF LoopInv, shutdown, StopHandler, DisconnectLinks, DropCommands, SuspendTasks
<1>6. CASE InitMailboxes \/ hpsc_mbox_remove
  BY <1>6 DEF LoopInv, InitMailboxes, hpsc_mbox_remove
<1>7. CASE gic_trigger_set \/ InitTimers \/ hpsc_rti_timer_remove
  BY <1>7 DEF LoopInv, gic_trigger_set, InitTimers, hpsc_rti_timer_remove, RoundIf, NextCpu, Round
<1>8. CASE InitWatchdogs \/ wdt_uninit
  BY <1>8 DEF LoopInv, InitWatchdogs, wdt_uninit, RoundIf, NextCpu, Round
<1>9. CASE UNCHANGED vars
  BY <1>9 DEF vars
<1> QED
  BY <1>1, <1>2, <1>3, <1>4, <1>5, <1>6, <1>7, <1>8, <1>9 DEF Next, Boot, Down

(* The slots of the watchdogs. *)
LEMMA WdtStep ==
  ASSUME LoopInv, WdtInv, [Next]_vars
  PROVE  WdtInv'
<1> USE CpuRange, OptionIs, AfterIs DEF loop, table, links, cmds, Step, Loops, Ended, WdtInv
<1>1. CASE InitWatchdogs
  <2>1. /\ pc = "wdt" /\ Step(pc) /\ pinned /\ cpu = i /\ i \in CPUs /\ UNCHANGED config
        /\ wdts' = [wdts EXCEPT ![i] = i]
    BY <1>1 DEF LoopInv, InitWatchdogs, RoundIf, dev_cpu_set_wdt, dev_cpu_get_wdt
  <2>2. \/ pc' = "assert"
        \/ i < NumCPUs - 1 /\ i' = i + 1 /\ pc' = pc
        \/ i = NumCPUs - 1 /\ i' = 0 /\ pc' = After(pc)
    BY <1>1, <2>1, Rounds DEF InitWatchdogs, RoundIf
  <2>3. \A c \in CPUs : wdts'[c] = IF c = i THEN i ELSE wdts[c]
    BY <2>1
  <2>4. wdts' \in [CPUs -> CPUs \cup {NONE}]
    BY <2>1
  <2>5. \A c \in CPUs : c \in Nat /\ c <= NumCPUs - 1
    BY RtpsAssumption DEF CPUs
  <2> QED BY <2>1, <2>2, <2>3, <2>4, <2>5
<1>2. CASE wdt_uninit
  <2>1. /\ pc = "remove_watchdogs" /\ Step(pc) /\ pinned /\ cpu = i /\ i \in CPUs /\ UNCHANGED config
        /\ wdts' = [wdts EXCEPT ![i] = NONE]
    BY <1>2 DEF LoopInv, wdt_uninit, Round, dev_cpu_set_wdt, dev_cpu_get_wdt
  <2>2. \/ i < NumCPUs - 1 /\ i' = i + 1 /\ pc' = pc
        \/ i = NumCPUs - 1 /\ i' = 0 /\ pc' = After(pc)
    BY <1>2, <2>1, Rounds DEF wdt_uninit, Round
  <2>3. \A c \in CPUs : wdts'[c] = IF c = i THEN NONE ELSE wdts[c]
    BY <2>1
  <2>4. wdts' \in [CPUs -> CPUs \cup {NONE}]
    BY <2>1
  <2>5. \A c \in CPUs : c \in Nat /\ c <= NumCPUs - 1
    BY RtpsAssumption DEF CPUs
  <2> QED BY <2>1, <2>2, <2>3, <2>4, <2>5
<1>3. CASE ~Ended /\ (Skip \/ affinity_pin_self_to_cpu \/ Panic \/ Receive \/ Handle \/ Migrate)
  BY <1>3 DEF LoopInv, Skip, affinity_pin_self_to_cpu, Panic, InitPanics, WatchdogPanics, PanicAt,
              Receive, Handle, Migrate
<1>4. CASE RestoreAffinity \/ early_tasks \/ init_client_links \/ init_server_links \/ external_tests \/ late_tasks
  BY <1>4 DEF LoopInv, RestoreAffinity, early_tasks, init_client_links, init_server_links,
     external_tests, late_tasks, Connect
<1>5. CASE shutdown \/ StopHandler \/ DisconnectLinks \/ DropCommands \/ SuspendTasks
  BY <1>5 DEF LoopInv, shutdown, StopHandler, DisconnectLinks, DropCommands, SuspendTasks
<1>6. CASE InitMailboxes \/ hpsc_mbox_remove
  BY <1>6 DEF LoopInv, InitMailboxes, hpsc_mbox_remove
<1>7. CASE gic_trigger_set \/ InitTimers \/ hpsc_rti_timer_remove
  BY <1>7 DEF LoopInv, gic_trigger_set, InitTimers, hpsc_rti_timer_remove, RoundIf, NextCpu, Round
<1>8. CASE watchdog_tasks_create \/ watchdog_tasks_destroy
  BY <1>8 DEF LoopInv, watchdog_tasks_create, watchdog_tasks_destroy, RoundIf, NextCpu, Round
<1>9. CASE UNCHANGED vars
  BY <1>9 DEF vars
<1> QED
  BY <1>1, <1>2, <1>3, <1>4, <1>5, <1>6, <1>7, <1>8, <1>9 DEF Next, Boot, Down

(* The timers, their slots, and the trigger mode of their interrupt. *)
LEMMA TimerStep ==
  ASSUME LoopInv, TimerInv, [Next]_vars
  PROVE  TimerInv'
<1> USE CpuRange, OptionIs, AfterIs DEF loop, table, links, cmds, Step, Loops, Ended, TimerInv
<1>1. CASE gic_trigger_set
  <2>1. /\ pc = "trigger" /\ pc' = "rtit" /\ i = 0 /\ i' = 0
        /\ UNCHANGED <<config, rtits, timers>> /\ gic' = gic \cup {EdgeBit}
    BY <1>1, RtitBit DEF LoopInv, gic_trigger_set
  <2> QED BY <2>1
<1>2. CASE InitTimers
  <2>1. /\ pc = "rtit" /\ Step(pc) /\ pinned /\ cpu = i /\ i \in CPUs /\ UNCHANGED config
        /\ rtits' = [rtits EXCEPT ![i] = i]
    BY <1>2 DEF LoopInv, InitTimers, RoundIf, dev_cpu_set_rtit, dev_cpu_get_rtit
  <2>2. \/ pc' = "assert"
        \/ i < NumCPUs - 1 /\ i' = i + 1 /\ pc' = pc
        \/ i = NumCPUs - 1 /\ i' = 0 /\ pc' = After(pc)
    BY <1>2, <2>1, Rounds DEF InitTimers, RoundIf
  <2>3. \A c \in CPUs : rtits'[c] = IF c = i THEN i ELSE rtits[c]
    BY <2>1
  <2>4. rtits' \in [CPUs -> CPUs \cup {NONE}]
    BY <2>1
  <2>5. \A c \in CPUs : c \in Nat /\ c <= NumCPUs - 1
    BY RtpsAssumption DEF CPUs
  <2>6. timers' = timers \cup {i} /\ gic' = gic
    BY <1>2 DEF InitTimers, hpsc_rti_timer_probe
  <2>7. EdgeBit \in gic /\ rtits[i] = NONE
    BY <2>1, <2>5, OptionIs
  <2>8. timers' = {c \in CPUs : rtits'[c] = c}
    BY <2>1, <2>3, <2>6 DEF Step
  <2> QED BY <2>1, <2>2, <2>3, <2>4, <2>5, <2>6, <2>7, <2>8
<1>3. CASE hpsc_rti_timer_remove
  <2>1. /\ pc = "remove_timers" /\ Step(pc) /\ pinned /\ cpu = i /\ i \in CPUs /\ UNCHANGED config
        /\ rtits' = [rtits EXCEPT ![i] = NONE]
    BY <1>3 DEF LoopInv, hpsc_rti_timer_remove, dev_cpu_set_rtit, dev_cpu_get_rtit
  <2>2. \/ i < NumCPUs - 1 /\ i' = i + 1 /\ pc' = pc
        \/ i = NumCPUs - 1 /\ i' = 0 /\ pc' = After(pc)
        \/ pc' = "panic"
    BY <1>3, <2>1, Rounds DEF hpsc_rti_timer_remove
  <2>3. \A c \in CPUs : rtits'[c] = IF c = i THEN NONE ELSE rtits[c]
    BY <2>1
  <2>4. rtits' \in [CPUs -> CPUs \cup {NONE}]
    BY <2>1
  <2>5. \A c \in CPUs : c \in Nat /\ c <= NumCPUs - 1
    BY RtpsAssumption DEF CPUs
  <2>6. /\ timers' = timers \ {rtits[i]} \/ (pc' = "panic" /\ timers' = timers)
        /\ gic' = gic
    BY <1>3, <2>1 DEF hpsc_rti_timer_remove, dev_cpu_get_rtit
  <2>7. pc' # "panic" => timers' = {c \in CPUs : rtits'[c] = c}
    BY <2>1, <2>3, <2>6
  <2> QED BY <2>1, <2>2, <2>3, <2>4, <2>5, <2>6, <2>7
<1>4. CASE ~Ended /\ (Skip \/ affinity_pin_self_to_cpu \/ Panic \/ Receive \/ Handle \/ Migrate)
  BY <1>4 DEF LoopInv, Skip, affinity_pin_self_to_cpu, Panic, InitPanics, WatchdogPanics, PanicAt,
              Receive, Handle, Migrate
<1>5. CASE RestoreAffinity \/ early_tasks \/ init_client_links \/ init_server_links \/ external_tests \/ late_tasks
  BY <1>5 DEF LoopInv, RestoreAffinity, early_tasks, init_client_links, init_server_links,
     external_tests, late_tasks, Connect
<1>6. CASE shutdown \/ StopHandler \/ DisconnectLinks \/ DropCommands \/ SuspendTasks
  BY <1>6 DEF LoopInv, shutdown, StopHandler, DisconnectLinks, DropCommands, SuspendTasks
<1>7. CASE InitMailboxes \/ hpsc_mbox_remove
  BY <1>7 DEF LoopInv, InitMailboxes, hpsc_mbox_remove
<1>8. CASE InitWatchdogs \/ wdt_uninit
  BY <1>8 DEF LoopInv, InitWatchdogs, wdt_uninit, RoundIf, NextCpu, Round
<1>9. CASE watchdog_tasks_create \/ watchdog_tasks_destroy
  BY <1>9 DEF LoopInv, watchdog_tasks_create, watchdog_tasks_destroy, RoundIf, NextCpu, Round
<1>10. CASE UNCHANGED vars
  BY <1>10 DEF vars
<1> QED
  BY <1>1, <1>2, <1>3, <1>4, <1>5, <1>6, <1>7, <1>8, <1>9, <1>10 DEF Next, Boot, Down

(* The mailboxes. *)
LEMMA MboxStep ==
  ASSUME LoopInv, MboxInv, [Next]_vars
  PROVE  MboxInv'
<1> USE CpuRange, OptionIs, AfterIs DEF loop, table, links, cmds, Step, Loops, Ended, MboxInv
<1>1. CASE InitMailboxes
  <2>1. PICK m \in {"lsio", "hpps"} : /\ pc = m /\ m \in config /\ UNCHANGED config
                                     /\ devs' = devs \cup {m} /\ mboxes' = mboxes \cup {m}
                                     /\ pc' \in {"assert", After(m)}
    BY <1>1 DEF InitMailboxes, dev_set_mbox, hpsc_mbox_probe
  <2>2. CASE m = "lsio"
    BY <2>1, <2>2
  <2>3. CASE m = "hpps"
    BY <2>1, <2>3
  <2> QED BY <2>1, <2>2, <2>3
<1>2. CASE ~Ended /\ (Skip \/ affinity_pin_self_to_cpu \/ Panic \/ Receive \/ Handle \/ Migrate)
  BY <1>2 DEF LoopInv, Skip, affinity_pin_self_to_cpu, Panic, InitPanics, WatchdogPanics, PanicAt,
              Receive, Handle, Migrate
<1>3. CASE RestoreAffinity \/ early_tasks \/ init_client_links \/ init_server_links \/ external_tests \/ late_tasks
  BY <1>3 DEF LoopInv, RestoreAffinity, early_tasks, init_client_links, init_server_links,
     external_tests, late_tasks, Connect
<1>4. CASE shutdown \/ StopHandler \/ DisconnectLinks \/ DropCommands \/ SuspendTasks
  BY <1>4 DEF LoopInv, shutdown, StopHandler, DisconnectLinks, DropCommands, SuspendTasks
<1>5. CASE hpsc_mbox_remove
  BY <1>5 DEF LoopInv, hpsc_mbox_remove
<1>6. CASE gic_trigger_set \/ InitTimers \/ hpsc_rti_timer_remove
  BY <1>6 DEF LoopInv, gic_trigger_set, InitTimers, hpsc_rti_timer_remove, RoundIf, NextCpu, Round
<1>7. CASE InitWatchdogs \/ wdt_uninit
  BY <1>7 DEF LoopInv, InitWatchdogs, wdt_uninit, RoundIf, NextCpu, Round
<1>8. CASE watchdog_tasks_create \/ watchdog_tasks_destroy
  BY <1>8 DEF LoopInv, watchdog_tasks_create, watchdog_tasks_destroy, RoundIf, NextCpu, Round
<1>9. CASE UNCHANGED vars
  BY <1>9 DEF vars
<1> QED
  BY <1>1, <1>2, <1>3, <1>4, <1>5, <1>6, <1>7, <1>8, <1>9 DEF Next, Boot, Down

(* The elements of a sequence. *)
LEMMA RangeIs ==
  ASSUME NEW S, NEW s \in Seq(S)
  PROVE  /\ \A x : x \in Range(s) <=> \E k \in 1..Len(s) : s[k] = x
         /\ s = << >> => Range(s) = {}
BY DEF Range

(* The links, the store and the commands. *)
LEMMA LinkStep ==
  ASSUME LoopInv, LinkInv, [Next]_vars
  PROVE  LinkInv'
<1> USE CpuRange, OptionIs, AfterIs DEF loop, table, links, cmds, Step, Loops, Ended, LinkInv
<1>1. CASE early_tasks
  <2>1. /\ pc = "early_tasks" /\ pc' = "tmc" /\ handler' = "idle"
        /\ UNCHANGED <<config, store, open, leaked, queue>>
    BY <1>1 DEF early_tasks
  <2> QED BY <2>1 DEF AfterDisconnect, NoLink
<1>2. CASE init_client_links \/ init_server_links
  <2>1. PICK l \in {"tmc", "tsc", "hms"} : Connect(l)
    BY <1>2 DEF init_client_links, init_server_links
  <2>2. /\ pc = l /\ pc' \in {"assert", After(l)} /\ open' = open \cup {l}
        /\ UNCHANGED <<config, queue, handler>>
    BY <2>1 DEF Connect
  <2>3. /\ store' \in Seq({"tmc", "tsc", "hms"})
        /\ Range(store') \cup leaked' = (Range(store) \cup leaked) \cup {l}
    <3>1. CASE store' = Append(store, l) /\ leaked' = leaked
      <4>1. /\ store' \in Seq({"tmc", "tsc", "hms"}) /\ Len(store') = Len(store) + 1
            /\ store'[Len(store) + 1] = l /\ \A k \in 1..Len(store) : store'[k] = store[k]
        BY <3>1, AppendProperties
      <4>2. Range(store') = Range(store) \cup {l}
        BY <4>1, RangeIs
      <4> QED BY <3>1, <4>1, <4>2
    <3>2. CASE leaked' = leaked \cup {l} /\ store' = store
      BY <3>2
    <3> QED BY <2>1, <3>1, <3>2 DEF Connect
  <2>4. /\ pc' \notin AfterDisconnect \cup {"disconnect", "panic"}
        /\ pc \notin AfterDisconnect \cup {"disconnect", "panic"}
    BY <2>2 DEF AfterDisconnect
  <2> QED BY <2>2, <2>3, <2>4 DEF AfterDisconnect
<1>3. CASE Receive
  <2>1. /\ "hms" \in open /\ queue' = Append(queue, "hms")
        /\ UNCHANGED <<config, pc, store, open, leaked, handler>>
    BY <1>3 DEF Receive
  <2>2. /\ queue' \in Seq({"tmc", "tsc", "hms"}) /\ Len(queue') = Len(queue) + 1
        /\ queue'[Len(queue) + 1] = "hms" /\ \A k \in 1..Len(queue) : queue'[k] = queue[k]
    BY <2>1, AppendProperties
  <2>3. \A k \in 1..Len(queue') : k \in 1..Len(queue) \/ queue'[k] = "hms"
    BY <2>2
  <2>4. store = << >> => "hms" \in leaked
    BY <2>1, RangeIs
  <2> QED BY <2>1, <2>2, <2>3, <2>4
<1>4. CASE Handle
  <2>1. UNCHANGED <<config, pc, store, open, leaked>>
    BY <1>4 DEF Handle
  <2>2. CASE Take
    <3> USE DEF Take
    <3>1. /\ queue' \in Seq({"tmc", "tsc", "hms"}) /\ Len(queue') = Len(queue) - 1
          /\ \A k \in 1..Len(queue') : queue'[k] = queue[k + 1]
      BY <2>2, HeadTailProperties
    <3>2. Len(queue) \in Nat /\ Len(queue) > 0 /\ handler' = queue[1]
      BY <2>2
    <3>3. \A k \in 1..Len(queue') : k + 1 \in 1..Len(queue)
      BY <3>1, <3>2
    <3>4. handler' \in open
      BY <2>2, <3>2
    <3> QED BY <2>1, <2>2, <3>1, <3>3, <3>4
  <2>3. CASE Sleep \/ Wake \/ Replied
    <3>1. handler # "off" /\ handler' \in {"wait", "idle"} /\ UNCHANGED queue
      BY <2>3 DEF Sleep, Wake, Replied, NoLink
    <3> QED BY <2>1, <3>1 DEF NoLink
  <2> QED BY <1>4, <2>2, <2>3 DEF Handle
<1>5. CASE StopHandler
  <2>1. /\ pc = "stop_handler" /\ pc' = "disconnect" /\ handler' = "off"
        /\ UNCHANGED <<config, store, open, leaked, queue>>
    BY <1>5 DEF StopHandler
  <2> QED BY <2>1 DEF AfterDisconnect, NoLink
<1>6. CASE DisconnectLinks
  <2>1. pc = "disconnect" /\ UNCHANGED <<config, queue, handler>> /\ handler = "off"
    BY <1>6 DEF DisconnectLinks, AfterDisconnect
  <2>2. CASE store = << >>
    <3>1. pc' = "drop" /\ UNCHANGED <<store, open, leaked>>
      BY <1>6, <2>1, <2>2 DEF DisconnectLinks
    <3> QED BY <2>1, <2>2, <3>1 DEF AfterDisconnect
  <2>3. CASE store # << >>
    <3>1. /\ store' = Tail(store) /\ pc' = pc
          /\ \/ open' = open \ {Head(store)} /\ leaked' = leaked
             \/ leaked' = leaked \cup {Head(store)} /\ open' = open
      BY <1>6, <2>3 DEF DisconnectLinks
    <3>2. /\ store' \in Seq({"tmc", "tsc", "hms"}) /\ Len(store') = Len(store) - 1
          /\ \A k \in 1..Len(store') : store'[k] = store[k + 1]
      BY <2>3, <3>1, HeadTailProperties
    <3>3. Len(store) \in Nat /\ Len(store) > 0 /\ Head(store) = store[1]
      BY <2>3
    <3>4. \A k \in 2..Len(store) : k - 1 \in 1..Len(store') /\ store'[k - 1] = store[k]
      BY <3>2, <3>3
    <3>5. \A k \in 1..Len(store) : k = 1 \/ k \in 2..Len(store)
      BY <3>3
    <3>6. \A l \in Range(store) : l = Head(store) \/ l \in Range(store')
      BY <3>2, <3>3, <3>4, <3>5, RangeIs
    <3> QED BY <2>1, <3>1, <3>2, <3>6 DEF AfterDisconnect
  <2> QED BY <2>2, <2>3
<1>7. CASE DropCommands
  <2>1. /\ pc = "drop" /\ pc' = "stop_watchdogs" /\ queue' = << >>
        /\ UNCHANGED <<config, store, open, leaked, handler>>
    BY <1>7 DEF DropCommands
  <2> QED BY <2>1 DEF AfterDisconnect
<1>8. CASE ~Ended /\ Skip
  <2>1. pc' = After(pc) /\ UNCHANGED <<config, open, store, leaked, queue, handler>>
    BY <1>8 DEF Skip
  <2> QED BY <1>8, <2>1 DEF Skip, AfterDisconnect
<1>9. CASE Panic
  BY <1>9 DEF Panic, InitPanics, WatchdogPanics, PanicAt, AfterDisconnect
<1>10. CASE affinity_pin_self_to_cpu \/ Migrate
  BY <1>10 DEF affinity_pin_self_to_cpu, Migrate
<1>11. CASE \/ InitMailboxes \/ gic_trigger_set \/ RestoreAffinity \/ external_tests \/ late_tasks
            \/ shutdown \/ SuspendTasks \/ hpsc_mbox_remove
  <2>1. /\ UNCHANGED <<config, open, store, leaked, queue, handler>>
        /\ \/ pc' = "assert" /\ pc \notin AfterDisconnect \cup {"disconnect", "panic"}
           \/ pc' = "panic"
           \/ pc' = pc
           \/ /\ pc' = After(pc)
              /\ pc \in {"lsio", "hpps", "trigger", "restore", "external_tests", "late_tasks",
                         "up", "suspend", "remove_mboxes"}
    BY <1>11 DEF InitMailboxes, gic_trigger_set, RestoreAffinity, external_tests, late_tasks,
                 shutdown, SuspendTasks, hpsc_mbox_remove, AfterDisconnect
  <2> QED BY <2>1 DEF AfterDisconnect
<1>12. CASE \/ InitTimers \/ InitWatchdogs \/ watchdog_tasks_create \/ watchdog_tasks_destroy
            \/ hpsc_rti_timer_remove \/ wdt_uninit
  <2>1. UNCHANGED <<config, open, store, leaked, queue, handler>>
    BY <1>12 DEF InitTimers, InitWatchdogs, watchdog_tasks_create, watchdog_tasks_destroy,
                 hpsc_rti_timer_remove, wdt_uninit
  <2>2. \/ pc' = "assert" /\ pc \notin AfterDisconnect \cup {"disconnect", "panic"}
        \/ pc' = "panic"
        \/ pc' = pc
        \/ pc' = After(pc) /\ pc \in Loops
    BY <1>12 DEF InitTimers, InitWatchdogs, watchdog_tasks_create, watchdog_tasks_destroy,
                 hpsc_rti_timer_remove, wdt_uninit, Round, RoundIf, NextCpu, AfterDisconnect
  <2> QED BY <2>1, <2>2 DEF AfterDisconnect
<1>13. CASE UNCHANGED vars
  BY <1>13 DEF vars
<1> QED
  BY <1>1, <1>2, <1>3, <1>4, <1>5, <1>6, <1>7, <1>8, <1>9, <1>10, <1>11, <1>12, <1>13
  DEF Next, Boot, Down

(* No assertion of boot fails but for a link that was leaked: the slots of *)
(* the table are free when they are set and set when they are read.        *)
LEMMA AssertStep ==
  ASSUME LoopInv, SystemInv, [Next]_vars
  PROVE  (pc = "assert" => leaked # {})'
<1> USE CpuRange, OptionIs, AfterIs DEF SystemInv, loop, table, links, cmds, Step, Loops, Ended
<1>1. CASE InitMailboxes
  <2>1. PICK m \in {"lsio", "hpps"} : /\ pc = m /\ leaked' = leaked
                                     /\ pc' = IF m \in devs THEN "assert" ELSE After(m)
    BY <1>1 DEF InitMailboxes, dev_get_mbox
  <2>2. m \notin devs
    BY <2>1 DEF MboxInv
  <2> QED BY <2>1, <2>2
<1>2. CASE InitTimers
  <2>1. pc = "rtit" /\ i \in CPUs /\ cpu = i /\ pinned
    BY <1>2 DEF LoopInv, InitTimers
  <2>2. rtits[cpu] = NONE /\ pc # "assert" /\ After(pc) # "assert"
    BY <2>1 DEF TimerInv, CPUs
  <2> QED BY <1>2, <2>2 DEF InitTimers, RoundIf, NextCpu, dev_cpu_get_rtit
<1>3. CASE InitWatchdogs
  <2>1. pc = "wdt" /\ i \in CPUs /\ cpu = i /\ pinned
    BY <1>3 DEF LoopInv, InitWatchdogs
  <2>2. wdts[cpu] = NONE /\ pc # "assert" /\ After(pc) # "assert"
    BY <2>1 DEF WdtInv, CPUs
  <2> QED BY <1>3, <2>2 DEF InitWatchdogs, RoundIf, NextCpu, dev_cpu_get_wdt
<1>4. CASE init_client_links \/ init_server_links
  <2>1. PICK l \in {"tmc", "tsc", "hms"} : Connect(l)
    BY <1>4 DEF init_client_links, init_server_links
  <2>2. pc = l /\ l \in config /\ devs = {"lsio", "hpps"} \cap config
    BY <2>1 DEF Connect, MboxInv
  <2>3. l \in DOMAIN Mailbox => Mailbox[l] \in devs
    <3>1. \A k \in DOMAIN Mailbox : k \in config => Mailbox[k] \in config
      BY DEF LoopInv, Configs
    <3>2. \A k \in DOMAIN Mailbox : Mailbox[k] \in {"lsio", "hpps"}
      BY DEF Mailbox
    <3> QED BY <2>2, <3>1, <3>2
  <2>4. pc' = After(l)
    BY <2>1, <2>3 DEF Connect, dev_get_mbox
  <2> QED BY <2>4
<1>5. CASE watchdog_tasks_create
  <2>1. pc = "init_tasks" /\ i \in CPUs /\ cpu = i /\ "wdt" \in config
    BY <1>5 DEF LoopInv, watchdog_tasks_create
  <2>2. wdts[cpu] # NONE /\ pc # "assert" /\ After(pc) # "assert"
    BY <2>1 DEF WdtInv
  <2> QED BY <1>5, <2>2 DEF watchdog_tasks_create, RoundIf, NextCpu, dev_cpu_get_wdt
<1>6. CASE external_tests
  <2>1. PICK tests \in SUBSET (config \cap {"tmc", "tsc"}) :
          pc' = IF tests \subseteq Range(store) THEN After(pc) ELSE "assert"
    BY <1>6 DEF external_tests
  <2>2. pc = "external_tests" /\ leaked' = leaked
    BY <1>6 DEF external_tests
  <2>3. tests \subseteq Range(store) \cup leaked
    BY <2>2 DEF LinkInv
  <2> QED BY <2>1, <2>2, <2>3
<1>7. CASE \/ (~Ended /\ Skip) \/ Panic \/ gic_trigger_set \/ RestoreAffinity \/ early_tasks
           \/ late_tasks \/ shutdown \/ StopHandler \/ DisconnectLinks \/ DropCommands
           \/ SuspendTasks \/ hpsc_mbox_remove
  BY <1>7 DEF Skip, Panic, InitPanics, WatchdogPanics, PanicAt, gic_trigger_set, RestoreAffinity,
              early_tasks, late_tasks, shutdown,
              StopHandler, DisconnectLinks, DropCommands, SuspendTasks, hpsc_mbox_remove
<1>8. CASE watchdog_tasks_destroy \/ hpsc_rti_timer_remove \/ wdt_uninit
  BY <1>8 DEF watchdog_tasks_destroy, hpsc_rti_timer_remove, wdt_uninit, Round, NextCpu
<1>9. CASE affinity_pin_self_to_cpu \/ Migrate \/ Receive \/ Handle
  <2>1. pc' = pc /\ leaked' = leaked
    BY <1>9 DEF affinity_pin_self_to_cpu, Migrate, Receive, Handle
  <2> QED BY <2>1
<1>10. CASE UNCHANGED vars
  BY <1>10 DEF vars
<1> QED
  BY <1>1, <1>2, <1>3, <1>4, <1>5, <1>6, <1>7, <1>8, <1>9, <1>10 DEF Next, Boot, Down

(* The state of every component between boot and exit, in every            *)
(* configuration: the inductive invariant the two below follow from.       *)
THEOREM SystemCorrect == Spec => []SystemInv
<1>1. Init => SystemInv
  <2> SUFFICES ASSUME Init PROVE SystemInv
    OBVIOUS
  <2>1. TimerInv
    BY CpuRange DEF Init, TimerInv
  <2>2. WdtInv /\ KickInv
    BY CpuRange DEF Init, WdtInv, KickInv
  <2>3. MboxInv
    BY DEF Init, MboxInv
  <2>4. LinkInv
    BY DEF Init, LinkInv, AfterDisconnect, NoLink
  <2> QED BY <2>1, <2>2, <2>3, <2>4 DEF Init, SystemInv
<1>2. ASSUME LoopInv, SystemInv, [Next]_vars PROVE SystemInv'
  <2>1. TimerInv' /\ WdtInv' /\ KickInv'
    BY <1>2, TimerStep, WdtStep, KickStep DEF SystemInv
  <2>2. MboxInv' /\ LinkInv'
    BY <1>2, MboxStep, LinkStep DEF SystemInv
  <2>3. (pc = "assert" => leaked # {})'
    BY <1>2, AssertStep
  <2> QED BY <2>1, <2>2, <2>3 DEF SystemInv
<1> QED BY <1>1, <1>2, LoopCorrect, PTL DEF Spec

(* A register and a bit are of one vector. *)
LEMMA TriggerBits ==
  ASSUME NEW v \in Nat, NEW w \in Nat, to_reg_ptr(v) = to_reg_ptr(w),
         GIC_TRIGGER_BIT(v) = GIC_TRIGGER_BIT(w)
  PROVE  v = w
<1>1. v \div 16 = w \div 16
  BY DEF to_reg_ptr
<1>2. v % 16 = w % 16
  BY DEF GIC_TRIGGER_BIT
<1>3. v = 16 * (v \div 16) + (v % 16) /\ w = 16 * (w \div 16) + (w % 16)
  OBVIOUS
<1> QED BY <1>1, <1>2, <1>3

(* Boot is safe in every configuration, for any number of commands and     *)
(* wherever the scheduler moves the task: no assertion on a handle, a slot *)
(* or a link fails unless a link was leaked, the slots and the watchdog    *)
(* tasks are those of their processors, and of all vectors only the        *)
(* timer's is edge-triggered, before a timer exists.                       *)
THEOREM BootIsSafe == Spec => []BootSafe
<1>1. SystemInv => BootSafe
  <2> SUFFICES ASSUME SystemInv PROVE BootSafe
    OBVIOUS
  <2> USE DEF SystemInv
  <2>1. \A c \in CPUs : rtits[c] \in {c, NONE} /\ wdts[c] \in {c, NONE} /\ kicked[c] \in {c, NONE}
    BY DEF TimerInv, WdtInv, KickInv
  <2>2. ASSUME NEW v \in 0..47, gic_trigger_get(v) PROVE v = 16 + RtitIrq
    <3>1. <<to_reg_ptr(v), GIC_TRIGGER_BIT(v)>> = EdgeBit
      BY <2>2 DEF gic_trigger_get, TimerInv
    <3>2. to_reg_ptr(v) = to_reg_ptr(RtitVector) /\ GIC_TRIGGER_BIT(v) = GIC_TRIGGER_BIT(RtitVector)
      BY <3>1, RtitBit
    <3>3. RtitVector \in Nat
      BY RtpsAssumption DEF RtitVector, gic_irq_to_rvn
    <3> QED BY <3>2, <3>3, TriggerBits, RtitBit
  <2>3. gic \subseteq {EdgeBit} /\ (timers # {} => EdgeBit \in gic)
    BY DEF TimerInv
  <2> QED BY <2>1, <2>2, <2>3 DEF BootSafe
<1> QED BY <1>1, SystemCorrect, PTL

(* The handler task never has a link that was disconnected, and at exit    *)
(* nothing is left but leaked links and their commands: shutdown calls its *)
(* steps in an order that is right for every configuration and however     *)
(* commands arrive.                                                        *)
THEOREM ShutdownIsClean == Spec => []ShutdownClean
<1>1. SystemInv => ShutdownClean
  <2> SUFFICES ASSUME SystemInv PROVE ShutdownClean
    OBVIOUS
  <2> USE DEF SystemInv
  <2>1. handler \notin NoLink => handler \in open
    BY DEF LinkInv
  <2>2. handler # "off" => \A k \in 1..Len(queue) : queue[k] \in open
    BY DEF LinkInv
  <2>3. ASSUME pc = "exit"
        PROVE  /\ devs = {} /\ mboxes = {} /\ timers = {}
               /\ \A c \in CPUs : rtits[c] = NONE /\ wdts[c] = NONE /\ kicked[c] = NONE
    <3>1. devs = {} /\ mboxes = {}
      BY <2>3 DEF MboxInv
    <3>2. \A c \in CPUs : rtits[c] = NONE /\ wdts[c] = NONE /\ kicked[c] = NONE
      BY <2>3 DEF TimerInv, WdtInv, KickInv
    <3>3. timers = {c \in CPUs : rtits[c] = c}
      BY <2>3 DEF TimerInv
    <3> QED BY <3>1, <3>2, <3>3, CpuRange
  <2>4. ASSUME pc = "exit"
        PROVE  /\ open \subseteq leaked /\ handler = "off"
               /\ \A k \in 1..Len(queue) : queue[k] \in leaked
    BY <2>4, RangeIs DEF LinkInv, AfterDisconnect
  <2> QED BY <2>1, <2>2, <2>3, <2>4 DEF ShutdownClean
<1> QED BY <1>1, SystemCorrect, PTL
================================================================================
