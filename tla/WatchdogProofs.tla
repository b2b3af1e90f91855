----------------------------- MODULE WatchdogProofs -----------------------------
(***************************************************************************)
(* Proofs about Watchdog, for every number of processors, every kick       *)
(* interval, every timeout that is longer and every delay of a start that  *)
(* stays below it.                                                         *)
(***************************************************************************)
EXTENDS Watchdog, TLAPS

(* What keeps the counters in their ranges: a waiting task has ticks left, *)
(* and a watchdog that has counted to its limit has expired.               *)
CountersInv == \A c \in CPUs : /\ task[c] = "waiting" => sleep[c] > 0
                               /\ c \notin expired => wdt[c].count < Timeout

TypeInv == TypeOK /\ CountersInv

(* The loops over the processors start at 0 and count up to the last.      *)
LEMMA CpuRange ==
  /\ 0 \in CPUs
  /\ \A c \in CPUs : c \in Nat /\ c <= NumCPUs - 1
  /\ \A c \in CPUs : c # NumCPUs - 1 => c + 1 \in CPUs
  /\ NumCPUs - 1 \in CPUs
BY CpuAssumption DEF CPUs

(* The sets of TypeOK that are written field by field. *)
Controls == [pc : {"create", "pin", "install", "enable", "start", "created", "destroy",
                   "stop", "wait", "destroyed", "panic"}, cpu : CPUs]
Contexts == [CPUs -> [wdt : CPUs \cup {NONE}, running : BOOLEAN]]
Wdt == [enabled : BOOLEAN, count : 0..Timeout, handler : BOOLEAN]
Watchdogs == [CPUs -> Wdt]

Typed ==
  /\ ctl \in Controls /\ aff \subseteq CPUs /\ cpu \in CPUs
  /\ ctx \in Contexts
  /\ task \in [CPUs -> {"none", "ready", "check", "waiting", "leaving", "gone"}]
  /\ sleep \in [CPUs -> 0..Interval]
  /\ exit \subseteq CPUs
  /\ events \in [CPUs -> BOOLEAN]
  /\ wdt \in Watchdogs
  /\ late \in 0..Delay
  /\ expired \subseteq CPUs

(* TypeOK over the sets of states of the parts.                            *)
LEMMA TypeOKSets == TypeOK <=> Typed
BY Zenon DEF TypeOK, Typed, Controls, Contexts, Watchdogs, Wdt

(* A watchdog is written through the context of a processor, one field at  *)
(* a time.                                                                 *)
LEMMA CountWrite ==
  ASSUME NEW r \in Wdt, NEW n \in 0..Timeout
  PROVE  LET q == [r EXCEPT !.count = n]
         IN  q \in Wdt /\ q.count = n /\ q.enabled = r.enabled
BY DEF Wdt

(* A kick resets the counter of one watchdog.                              *)
LEMMA CountReset ==
  ASSUME wdt \in Watchdogs, NEW w, wdt' = [wdt EXCEPT ![w].count = 0]
  PROVE  /\ wdt' \in Watchdogs
         /\ \A c \in CPUs : IF c = w THEN wdt'[c].count = 0 /\ wdt'[c].enabled = wdt[c].enabled
                                     ELSE wdt'[c] = wdt[c]
<1>1. CASE w \in CPUs
  <2> DEFINE q == [wdt[w] EXCEPT !.count = 0]
  <2>1. 0 \in 0..Timeout /\ wdt[w] \in Wdt
    BY <1>1, TimeAssumption DEF Watchdogs
  <2>2. q \in Wdt /\ q.count = 0 /\ q.enabled = wdt[w].enabled
    BY <2>1, CountWrite
  <2>3. wdt' = [wdt EXCEPT ![w] = q]
    OBVIOUS
  <2> HIDE DEF q
  <2> QED BY <1>1, <2>2, <2>3 DEF Watchdogs
<1>2. CASE w \notin CPUs
  BY <1>2 DEF Watchdogs
<1> QED BY <1>1, <1>2

(* So does enabling it.                                                    *)
LEMMA Enabling ==
  ASSUME wdt \in Watchdogs, NEW w,
         wdt' = [wdt EXCEPT ![w].enabled = TRUE, ![w].count = 0]
  PROVE  /\ wdt' \in Watchdogs
         /\ \A c \in CPUs : IF c = w THEN wdt'[c].count = 0 ELSE wdt'[c] = wdt[c]
<1>1. CASE w \in CPUs
  <2> DEFINE p == [wdt[w] EXCEPT !.enabled = TRUE]
             q == [p EXCEPT !.count = 0]
  <2>1. 0 \in 0..Timeout /\ wdt[w] \in Wdt
    BY <1>1, TimeAssumption DEF Watchdogs
  <2>2. p \in Wdt
    BY <2>1 DEF Wdt
  <2> HIDE DEF p
  <2>3. q \in Wdt /\ q.count = 0
    BY <2>1, <2>2, CountWrite
  <2>4. wdt' = [wdt EXCEPT ![w] = q]
    BY <1>1 DEF p, Watchdogs
  <2> HIDE DEF q
  <2> QED BY <1>1, <2>3, <2>4 DEF Watchdogs
<1>2. CASE w \notin CPUs
  BY <1>2 DEF Watchdogs
<1> QED BY <1>1, <1>2

(* A step of the control task stays in its loop or leaves it at the last   *)
(* processor.                                                              *)
LEMMA ControlMoves ==
  ASSUME ctl \in Controls
  PROVE  /\ ctl.cpu \in CPUs
         /\ \A l \in {"pin", "install", "enable", "start", "stop", "wait", "panic"} :
              Goto(l) => /\ ctl' \in Controls
                         /\ ctl'.pc = l /\ ctl'.cpu = ctl.cpu
         /\ \A l \in {"create", "destroy"}, done \in {"created", "destroyed"} :
              Continue(l, done) =>
                /\ ctl' \in Controls /\ cpu' = cpu
                /\ \/ ctl.cpu = NumCPUs - 1 /\ ctl'.pc = done /\ ctl'.cpu = 0 /\ aff' = CPUs
                   \/ /\ ctl.cpu # NumCPUs - 1 /\ ctl'.pc = l /\ ctl'.cpu = ctl.cpu + 1
                      /\ aff' = aff
<1>1. ctl.cpu \in CPUs
  BY DEF Controls
<1>2. \A l \in {"pin", "install", "enable", "start", "stop", "wait", "panic"} :
        Goto(l) => /\ ctl' \in Controls
                   /\ ctl'.pc = l /\ ctl'.cpu = ctl.cpu
  BY DEF Controls, Goto
<1>3. 0 \in CPUs /\ (ctl.cpu # NumCPUs - 1 => ctl.cpu + 1 \in CPUs)
  BY <1>1, CpuRange
<1>4. ASSUME NEW l \in {"create", "destroy"}, NEW done \in {"created", "destroyed"},
             Continue(l, done)
      PROVE  /\ ctl' \in Controls /\ cpu' = cpu
             /\ \/ ctl.cpu = NumCPUs - 1 /\ ctl'.pc = done /\ ctl'.cpu = 0 /\ aff' = CPUs
                \/ /\ ctl.cpu # NumCPUs - 1 /\ ctl'.pc = l /\ ctl'.cpu = ctl.cpu + 1
                   /\ aff' = aff
  <2>1. CASE ctl.cpu = NumCPUs - 1
    BY <1>3, <1>4, <2>1 DEF Continue, Controls
  <2>2. CASE ctl.cpu # NumCPUs - 1
    BY <1>3, <1>4, <2>2 DEF Continue, Controls
  <2> QED BY <2>1, <2>2
<1> QED BY <1>1, <1>2, <1>4

(* Type correctness of the watchdog tasks and their control, whatever the  *)
(* uninitialised events hold.                                              *)
THEOREM TypeCorrect == Spec => []TypeInv
<1>1. Init => TypeInv
  BY CpuRange, TimeAssumption, GarbageAssumption DEF Init, TypeInv, TypeOK, CountersInv
<1>2. TypeInv /\ [Next]_vars => TypeInv'
  <2> SUFFICES ASSUME TypeInv, [Next]_vars PROVE TypeInv'
    OBVIOUS
  <2> USE DEF Typed
  <2>0. Typed
    BY TypeOKSets DEF TypeInv
  <2>c. CountersInv
    BY DEF TypeInv
  <2>s. SUFFICES Typed' /\ CountersInv'
    BY DEF TypeInv, TypeOK, Controls, Contexts, Watchdogs, Wdt
  <2>w. wdt \in Watchdogs
    BY <2>0
  <2>k. \A b \in BOOLEAN, c \in CPUs : [ctx EXCEPT ![c].running = b] \in Contexts
    BY <2>0 DEF Contexts
  <2>t. ctl.cpu \in CPUs
    BY <2>0, ControlMoves
  <2>1. CASE watchdog_tasks_create
    BY <2>0, <2>c, <2>t, <2>1, ControlMoves DEF watchdog_tasks_create, PinTo, CountersInv
  <2>2. CASE watchdog_task_create
    <3>1. ctx' \in Contexts
      BY <2>0, <2>2 DEF watchdog_task_create, Contexts
    <3> QED BY <2>0, <2>c, <2>2, <3>1, ControlMoves DEF watchdog_task_create, CountersInv
  <2>3. CASE wdt_handler_install
    <3>1. wdt' \in Watchdogs /\ \A c \in CPUs : wdt'[c].count = wdt[c].count
      <4>1. CASE wdt' = [wdt EXCEPT ![ctx[cpu].wdt].handler = TRUE]
        BY <2>w, <4>1 DEF Watchdogs, Wdt
      <4>2. CASE wdt' = wdt
        BY <2>0, <4>2
      <4> QED BY <2>3, <4>1, <4>2 DEF wdt_handler_install
    <3>2. ctx' \in Contexts /\ ctl' \in Controls
      BY <2>0, <2>k, <2>3, ControlMoves DEF wdt_handler_install
    <3> QED BY <2>0, <2>c, <2>3, <3>1, <3>2 DEF wdt_handler_install, CountersInv
  <2>4. CASE wdt_enable
    <3>1. wdt' \in Watchdogs /\ \A c \in CPUs : wdt'[c].count \in {0, wdt[c].count}
      <4>1. wdt' = [wdt EXCEPT ![ctx[cpu].wdt].enabled = TRUE, ![ctx[cpu].wdt].count = 0]
        BY <2>4 DEF wdt_enable
      <4>2. /\ wdt' \in Watchdogs
            /\ \A c \in CPUs : IF c = ctx[cpu].wdt THEN wdt'[c].count = 0 ELSE wdt'[c] = wdt[c]
        BY <2>w, <4>1, Enabling
      <4> QED BY <4>2
    <3>2. ctl' \in Controls
      BY <2>0, <2>4, ControlMoves DEF wdt_enable
    <3>3. CountersInv' /\ late' \in 0..Delay
      <4>1. UNCHANGED <<task, sleep, expired>> /\ late' = 0
        BY <2>4 DEF wdt_enable
      <4> QED BY <2>c, <3>1, <4>1, TimeAssumption DEF CountersInv
    <3> QED BY <2>0, <2>4, <3>1, <3>2, <3>3 DEF wdt_enable
  <2>5. CASE rtems_task_start
    <3>1. ctl' \in Controls /\ aff' \subseteq CPUs /\ cpu' = cpu
      BY <2>0, <2>5, ControlMoves DEF rtems_task_start
    <3> QED BY <2>0, <2>c, <2>t, <2>5, <3>1 DEF rtems_task_start, CountersInv
  <2>6. CASE TaskStartFails
    <3>1. wdt' \in Watchdogs /\ \A c \in CPUs : wdt'[c].count = wdt[c].count
      <4>1. wdt' = [wdt EXCEPT ![ctx[cpu].wdt].handler = FALSE]
        BY <2>6 DEF TaskStartFails
      <4> QED BY <2>w, <4>1 DEF Watchdogs, Wdt
    <3>2. ctx' \in Contexts /\ ctl' \in Controls
      BY <2>0, <2>k, <2>6, ControlMoves DEF TaskStartFails
    <3> QED BY <2>0, <2>c, <2>6, <3>1, <3>2 DEF TaskStartFails, CountersInv
  <2>7. CASE PinToStop
    BY <2>0, <2>c, <2>t, <2>7, ControlMoves DEF PinToStop, PinTo, CountersInv
  <2>8. CASE watchdog_cpu_task_stop
    <3>1. CASE ctx[cpu].running
      <4>1. wdt' \in Watchdogs /\ \A c \in CPUs : wdt'[c].count = wdt[c].count
        <5>1. wdt' = [wdt EXCEPT ![ctx[cpu].wdt].handler = FALSE]
          BY <2>8, <3>1 DEF watchdog_cpu_task_stop
        <5> QED BY <2>w, <5>1 DEF Watchdogs, Wdt
      <4>2. events' \in [CPUs -> BOOLEAN] /\ exit' \subseteq CPUs /\ ctl' \in Controls
        BY <2>0, <2>8, <3>1, ControlMoves DEF watchdog_cpu_task_stop
      <4> QED BY <2>0, <2>c, <2>8, <3>1, <4>1, <4>2 DEF watchdog_cpu_task_stop, CountersInv
    <3>2. CASE ~ctx[cpu].running
      <4>1. ctl' \in Controls /\ aff' \subseteq CPUs /\ cpu' = cpu
        BY <2>0, <2>8, <3>2, ControlMoves DEF watchdog_cpu_task_stop
      <4> QED BY <2>0, <2>c, <2>8, <3>2, <4>1 DEF watchdog_cpu_task_stop, CountersInv
    <3> QED BY <3>1, <3>2
  <2>9. CASE TaskStopped
    <3>1. ctl' \in Controls /\ aff' \subseteq CPUs /\ cpu' = cpu
      BY <2>0, <2>9, ControlMoves DEF TaskStopped
    <3> QED BY <2>0, <2>c, <2>9, <3>1 DEF TaskStopped, CountersInv
  <2>10. CASE watchdog_tasks_destroy
    BY <2>0, <2>c, <2>10, CpuRange DEF watchdog_tasks_destroy, CountersInv, Controls
  <2>11. CASE Migrate
    BY <2>0, <2>c, <2>11 DEF Migrate, CountersInv
  <2>12. CASE Tick
    <3>1. /\ wdt' \in Watchdogs
          /\ \A c \in CPUs : c \notin expired' => wdt'[c].count < Timeout
      <4>1. ASSUME NEW c \in CPUs, Counts(c)
            PROVE  LET q == [wdt[c] EXCEPT !.count = @ + 1]
                   IN  q \in Wdt /\ q.count = wdt[c].count + 1 /\ q.count \in 1..Timeout
        <5>1. wdt[c] \in Wdt
          BY <2>w DEF Watchdogs
        <5>2. wdt[c].count \in Nat /\ wdt[c].count < Timeout
          BY <2>c, <4>1, <5>1 DEF Counts, CountersInv, Wdt
        <5>3. wdt[c].count + 1 \in 1..Timeout
          BY <5>2, TimeAssumption
        <5> QED BY <5>1, <5>3 DEF Wdt
      <4>2. /\ wdt' = [c \in CPUs |-> IF Counts(c) THEN [wdt[c] EXCEPT !.count = @ + 1]
                                                  ELSE wdt[c]]
            /\ expired' = expired \cup {c \in CPUs : Counts(c) /\ wdt[c].count + 1 = Timeout}
        BY <2>12 DEF Tick
      <4>3. wdt' \in Watchdogs
        BY <2>w, <4>1, <4>2 DEF Watchdogs
      <4>4. \A c \in CPUs : c \notin expired' => wdt'[c].count < Timeout
        <5> SUFFICES ASSUME NEW c \in CPUs, c \notin expired' PROVE wdt'[c].count < Timeout
          OBVIOUS
        <5>1. CASE Counts(c)
          <6>1. wdt'[c].count = wdt[c].count + 1 /\ wdt'[c].count \in 1..Timeout
            BY <4>1, <4>2, <5>1
          <6>2. wdt[c].count + 1 # Timeout
            BY <4>2, <5>1
          <6> QED BY <6>1, <6>2, TimeAssumption
        <5>2. CASE ~Counts(c)
          BY <2>c, <4>2, <5>2 DEF CountersInv
        <5> QED BY <5>1, <5>2
      <4> QED BY <4>3, <4>4
    <3>2. /\ sleep' \in [CPUs -> 0..Interval]
          /\ task' \in [CPUs -> {"none", "ready", "check", "waiting", "leaving", "gone"}]
          /\ \A c \in CPUs : task'[c] = "waiting" => sleep'[c] > 0
      BY <2>0, <2>c, <2>12, TimeAssumption DEF Tick, CountersInv
    <3>3. late' \in 0..Delay /\ expired' \subseteq CPUs
      BY <2>0, <2>12, TimeAssumption DEF Tick
    <3> QED BY <2>0, <2>12, <3>1, <3>2, <3>3 DEF Tick, ctlVars, CountersInv
  <2>13. ASSUME NEW c \in CPUs, Task(c) PROVE Typed' /\ CountersInv'
    <3>1. CASE wdt_kick(c)
      <4>1. events' \in [CPUs -> BOOLEAN]
        <5>1. (events[c] \/ c \in exit) \in BOOLEAN
          OBVIOUS
        <5> QED BY <2>0, <3>1, <5>1 DEF wdt_kick
      <4>2. /\ wdt' \in Watchdogs
            /\ \A d \in CPUs : wdt'[d].count \in {0, wdt[d].count}
        <5>1. wdt' = [wdt EXCEPT ![ctx[c].wdt].count = 0]
          BY <3>1 DEF wdt_kick
        <5>2. /\ wdt' \in Watchdogs
              /\ \A d \in CPUs : IF d = ctx[c].wdt THEN wdt'[d].count = 0 ELSE wdt'[d] = wdt[d]
          BY <2>w, <5>1, CountReset
        <5> QED BY <5>2
      <4>3. /\ sleep' \in [CPUs -> 0..Interval]
            /\ task' \in [CPUs -> {"none", "ready", "check", "waiting", "leaving", "gone"}]
            /\ \A d \in CPUs : task'[d] = "waiting" => sleep'[d] > 0
        BY <2>0, <2>c, <3>1, TimeAssumption DEF wdt_kick, CountersInv
      <4>4. CountersInv'
        BY <2>0, <2>c, <3>1, <4>2, <4>3, TimeAssumption DEF wdt_kick, CountersInv
      <4> QED BY <2>0, <3>1, <4>1, <4>2, <4>3, <4>4 DEF wdt_kick, ctlVars
    <3>2. CASE CheckEvents(c)
      BY <2>0, <2>c, <3>2 DEF CheckEvents, ctlVars, CountersInv
    <3>3. CASE TaskExit(c)
      BY <2>0, <2>c, <2>k, <3>3 DEF TaskExit, ctlVars, CountersInv
    <3> QED BY <2>13, <3>1, <3>2, <3>3 DEF Task
  <2>14. CASE UNCHANGED vars
    BY <2>0, <2>c, <2>14 DEF vars, ctlVars, CountersInv
  <2> QED
    BY <2>1, <2>2, <2>3, <2>4, <2>5, <2>6, <2>7, <2>8, <2>9, <2>10, <2>11, <2>12, <2>13,
       <2>14 DEF Next, Control
<1> QED BY <1>1, <1>2, PTL DEF Spec

-------------------------------------------------------------------------------
(* Where the control task is in the loop over the processors decides what  *)
(* is true of each of them.                                                *)
Creating == ctl.pc \in {"create", "pin", "install", "enable", "start"}
Stopping == ctl.pc \in {"destroy", "stop", "wait"}

(* The control task has not come to c yet, ... *)
Untouched(c) == \/ Creating /\ c > ctl.cpu
                \/ c = ctl.cpu /\ ctl.pc \in {"create", "pin"}
(* ... has filled its context, ... *)
Prepared(c) == c = ctl.cpu /\ ctl.pc \in {"install", "enable"}
(* ... has enabled its watchdog, ... *)
Starting(c) == c = ctl.cpu /\ ctl.pc = "start"
(* ... has started its task, ... *)
Started(c) == \/ Creating /\ c < ctl.cpu
              \/ ctl.pc = "created"
              \/ Stopping /\ c > ctl.cpu
              \/ c = ctl.cpu /\ ctl.pc \in {"destroy", "stop"}
(* ... waits for its task to exit, ... *)
Exiting(c) == c = ctl.cpu /\ ctl.pc = "wait"
(* ... or has seen it exit. *)
Left(c) == \/ ctl.pc = "destroyed"
           \/ Stopping /\ c < ctl.cpu

Asleep(c) == task[c] = "none" /\ ~events[c] /\ c \notin exit

(* Outside create, created, destroy and destroyed the control task runs on *)
(* the processor of the loop: it is the pin that makes ctx[cpu] the right  *)
(* context.                                                                *)
Pinned == ctl.pc \in {"pin", "install", "enable", "start", "stop", "wait"} =>
            aff = {ctl.cpu} /\ cpu = ctl.cpu

CpuInv(c) ==
  /\ Untouched(c) => Asleep(c) /\ ~ctx[c].running /\ ~wdt[c].enabled
  /\ Prepared(c) => /\ Asleep(c) /\ ctx[c] = [wdt |-> c, running |-> TRUE]
                    /\ ~wdt[c].enabled
  /\ Starting(c) => /\ Asleep(c) /\ ctx[c] = [wdt |-> c, running |-> TRUE]
                    /\ wdt[c].count <= late
  /\ Started(c) => /\ task[c] \in {"ready", "check", "waiting"}
                   /\ ctx[c] = [wdt |-> c, running |-> TRUE]
                   /\ ~events[c] /\ c \notin exit
                   /\ task[c] = "waiting" => wdt[c].count + sleep[c] <= Interval
  /\ Exiting(c) => \/ task[c] = "check" /\ events[c] /\ ctx[c] = [wdt |-> c, running |-> TRUE]
                   \/ task[c] = "leaving" /\ ctx[c] = [wdt |-> c, running |-> TRUE]
                   \/ task[c] = "gone"
  /\ Left(c) => task[c] = "gone"

LoopInv == /\ KickedInTime
           /\ ~Panicked => Pinned /\ \A c \in CPUs : CpuInv(c)

(* The invariant of the loops over the processors. *)
THEOREM LoopCorrect ==
  ASSUME Garbage = {FALSE}
  PROVE  Spec => []LoopInv
<1> USE DEF Creating, Stopping, Untouched, Prepared, Starting, Started, Exiting, Left, Asleep
<1>1. Init => LoopInv
  <2> SUFFICES ASSUME Init PROVE LoopInv
    OBVIOUS
  <2>1. ctl.pc = "create" /\ ctl.cpu = 0 /\ expired = {} /\ exit = {}
    BY DEF Init
  <2>2. \A c \in CPUs : /\ task[c] = "none" /\ ~ctx[c].running /\ ~wdt[c].enabled
                        /\ ~events[c] /\ c \in Nat
    BY CpuRange DEF Init
  <2> QED BY <2>1, <2>2 DEF LoopInv, KickedInTime, Pinned, CpuInv
<1>2. ASSUME TypeInv, TypeInv', LoopInv, [Next]_vars
      PROVE  LoopInv'
  <2>0. Typed /\ Typed'
    BY <1>2, TypeOKSets, PTL DEF TypeInv
  <2>t. /\ ctl.cpu \in CPUs /\ ctl'.cpu \in CPUs /\ cpu \in CPUs
        /\ ctl.cpu \in Nat /\ ctl'.cpu \in Nat
        /\ \A c \in CPUs : c \in Nat
    BY <2>0, CpuRange DEF Typed, Controls
  <2>l. KickedInTime /\ (~Panicked => Pinned /\ \A c \in CPUs : CpuInv(c))
    BY <1>2 DEF LoopInv
  <2>u. ASSUME UNCHANGED vars PROVE LoopInv'
    BY <1>2, <2>u DEF LoopInv, vars, ctlVars, KickedInTime, Stopped, Panicked, Pinned, CpuInv
  <2> SUFFICES ASSUME ~Panicked, Next PROVE LoopInv'
    BY <1>2, <2>u DEF Next
  <2>p. Pinned /\ \A c \in CPUs : CpuInv(c)
    BY <2>l
  <2>1. CASE watchdog_tasks_create
    <3>1. /\ ctl.pc = "create" /\ ctl'.pc = "pin" /\ ctl'.cpu = ctl.cpu
          /\ aff' = {ctl.cpu} /\ cpu' = ctl.cpu
          /\ UNCHANGED <<ctx, task, sleep, exit, events, wdt, late, expired>>
      BY <2>0, <2>1, ControlMoves DEF Typed, watchdog_tasks_create, At, PinTo
    <3>2. Pinned'
      BY <3>1 DEF Pinned
    <3>3. KickedInTime'
      BY <2>l, <3>1 DEF KickedInTime, Stopped
    <3>4. ASSUME NEW c \in CPUs PROVE CpuInv(c)'
      BY <2>p, <2>t, <3>1 DEF CpuInv
    <3> QED BY <3>2, <3>3, <3>4 DEF LoopInv
  <2>2. CASE watchdog_task_create
    <3>1. /\ ctl.pc = "pin" /\ ctl'.pc = "install" /\ ctl'.cpu = ctl.cpu
          /\ ctx' = [ctx EXCEPT ![cpu] = [wdt |-> cpu, running |-> TRUE]]
          /\ UNCHANGED <<aff, cpu, task, sleep, exit, events, wdt, late, expired>>
      BY <2>0, <2>2, ControlMoves DEF Typed, watchdog_task_create, At
    <3>2. Pinned' /\ cpu = ctl.cpu
      BY <2>p, <3>1 DEF Pinned
    <3>3. KickedInTime'
      BY <2>l, <3>1 DEF KickedInTime, Stopped
    <3>4. ASSUME NEW c \in CPUs PROVE CpuInv(c)'
      <4>1. IF c = cpu THEN ctx'[c] = [wdt |-> c, running |-> TRUE] ELSE ctx'[c] = ctx[c]
        BY <2>0, <3>1 DEF Typed, Contexts
      <4> QED BY <2>p, <2>t, <3>1, <3>2, <4>1 DEF CpuInv
    <3> QED BY <3>2, <3>3, <3>4 DEF LoopInv
  <2>3. CASE wdt_handler_install
    <3>1. /\ ctl.pc = "install" /\ ctl'.cpu = ctl.cpu
          /\ UNCHANGED <<aff, cpu, task, sleep, exit, events, late, expired>>
          /\ \/ /\ ctl'.pc = "enable" /\ ctx' = ctx
                /\ wdt' = [wdt EXCEPT ![ctx[cpu].wdt].handler = TRUE]
             \/ ctl'.pc = "panic" /\ wdt' = wdt
      BY <2>0, <2>3, ControlMoves DEF Typed, wdt_handler_install, At
    <3>2. Pinned'
      BY <2>p, <3>1 DEF Pinned
    <3>3. KickedInTime'
      BY <2>l, <3>1 DEF KickedInTime, Stopped
    <3>4. ASSUME NEW c \in CPUs, ctl'.pc = "enable" PROVE CpuInv(c)'
      <4>1. /\ ctx' = ctx
            /\ wdt' = [wdt EXCEPT ![ctx[cpu].wdt].handler = TRUE]
        BY <3>1, <3>4
      <4>2. wdt'[c].enabled = wdt[c].enabled /\ wdt'[c].count = wdt[c].count
        BY <2>0, <4>1 DEF Typed, Watchdogs, Wdt
      <4>3. /\ ctl.pc = "install" /\ ctl'.cpu = ctl.cpu
            /\ UNCHANGED <<task, sleep, exit, events, late>>
        BY <3>1
      <4> QED BY <2>p, <2>t, <3>4, <4>1, <4>2, <4>3 DEF CpuInv
    <3> QED BY <3>1, <3>2, <3>3, <3>4 DEF LoopInv, Panicked
  <2>4. CASE wdt_enable
    <3>1. /\ ctl.pc = "enable" /\ ctl'.pc = "start" /\ ctl'.cpu = ctl.cpu /\ late' = 0
          /\ UNCHANGED <<aff, cpu, ctx, task, sleep, exit, events, expired>>
      BY <2>0, <2>4, ControlMoves DEF Typed, wdt_enable, At
    <3>2. Pinned' /\ cpu = ctl.cpu
      BY <2>p, <3>1 DEF Pinned
    <3>3. KickedInTime'
      BY <2>l, <3>1 DEF KickedInTime, Stopped
    <3>4. ASSUME NEW c \in CPUs PROVE CpuInv(c)'
      <4>0. ctx[cpu] = [wdt |-> cpu, running |-> TRUE]
        BY <2>p, <2>t, <3>1, <3>2 DEF CpuInv
      <4>1. ctx[cpu].wdt = cpu
        BY <4>0
      <4>2. IF c = cpu THEN wdt'[c].count = 0 ELSE wdt'[c] = wdt[c]
        BY <2>0, <2>4, <4>1, Enabling DEF Typed, wdt_enable
      <4> QED BY <2>p, <2>t, <3>1, <3>2, <4>2 DEF CpuInv
    <3> QED BY <3>2, <3>3, <3>4 DEF LoopInv
  <2>5. CASE rtems_task_start
    <3>1. /\ ctl.pc = "start" /\ cpu' = cpu /\ task' = [task EXCEPT ![ctl.cpu] = "ready"]
          /\ UNCHANGED <<ctx, sleep, exit, events, wdt, late, expired>>
          /\ \/ ctl.cpu = NumCPUs - 1 /\ ctl'.pc = "created" /\ ctl'.cpu = 0
             \/ ctl.cpu # NumCPUs - 1 /\ ctl'.pc = "create" /\ ctl'.cpu = ctl.cpu + 1
      BY <2>0, <2>5, ControlMoves DEF Typed, rtems_task_start, At
    <3>2. Pinned'
      BY <3>1 DEF Pinned
    <3>3. KickedInTime'
      BY <2>l, <3>1 DEF KickedInTime, Stopped
    <3>4. ASSUME NEW c \in CPUs PROVE CpuInv(c)'
      <4>1. IF c = ctl.cpu THEN task'[c] = "ready" ELSE task'[c] = task[c]
        BY <2>0, <3>1 DEF Typed
      <4>2. c <= NumCPUs - 1 /\ NumCPUs \in Nat
        BY CpuRange, CpuAssumption
      <4> QED BY <2>p, <2>t, <3>1, <4>1, <4>2 DEF CpuInv
    <3> QED BY <3>2, <3>3, <3>4 DEF LoopInv
  <2>6. CASE TaskStartFails
    <3>1. ctl.pc = "start" /\ ctl'.pc = "panic" /\ expired' = expired
      BY <2>0, <2>6, ControlMoves DEF Typed, TaskStartFails, At
    <3> QED BY <2>l, <3>1 DEF LoopInv, KickedInTime, Stopped, Panicked
  <2>7. CASE PinToStop
    <3>1. /\ ctl.pc = "destroy" /\ ctl'.pc = "stop" /\ ctl'.cpu = ctl.cpu
          /\ aff' = {ctl.cpu} /\ cpu' = ctl.cpu
          /\ UNCHANGED <<ctx, task, sleep, exit, events, wdt, late, expired>>
      BY <2>0, <2>7, ControlMoves DEF Typed, PinToStop, At, PinTo
    <3>2. Pinned'
      BY <3>1 DEF Pinned
    <3>3. KickedInTime'
      BY <2>l, <3>1 DEF KickedInTime, Stopped
    <3>4. ASSUME NEW c \in CPUs PROVE CpuInv(c)'
      BY <2>p, <2>t, <3>1 DEF CpuInv
    <3> QED BY <3>2, <3>3, <3>4 DEF LoopInv
  <2>8. CASE watchdog_cpu_task_stop
    <3>1. ctl.pc = "stop" /\ cpu = ctl.cpu /\ ~Runnable(cpu)
      BY <2>p, <2>8 DEF watchdog_cpu_task_stop, At, Pinned
    <3>2. /\ ctx[cpu] = [wdt |-> cpu, running |-> TRUE]
          /\ task[cpu] = "waiting"
      BY <2>p, <2>t, <3>1 DEF CpuInv, Runnable
    <3>3. /\ ctl'.pc = "wait" /\ ctl'.cpu = ctl.cpu
          /\ wdt' = [wdt EXCEPT ![cpu].handler = FALSE]
          /\ exit' = exit \cup {cpu}
          /\ task' = [task EXCEPT ![cpu] = "check"]
          /\ events' = [events EXCEPT ![cpu] = TRUE]
          /\ UNCHANGED <<aff, cpu, ctx, sleep, late, expired>>
      BY <2>0, <2>8, <3>2, ControlMoves DEF Typed, watchdog_cpu_task_stop
    <3>4. Pinned'
      BY <2>p, <3>1, <3>3 DEF Pinned
    <3>5. KickedInTime'
      BY <2>l, <2>t, <3>1, <3>3 DEF KickedInTime, Stopped
    <3>6. ASSUME NEW c \in CPUs PROVE CpuInv(c)'
      <4>1. wdt'[c].enabled = wdt[c].enabled /\ wdt'[c].count = wdt[c].count
        <5>1. wdt \in Watchdogs /\ wdt' = [wdt EXCEPT ![cpu].handler = FALSE]
          BY <2>0, <3>3 DEF Typed
        <5> QED BY <5>1 DEF Watchdogs, Wdt
      <4>2. IF c = cpu THEN task'[c] = "check" /\ events'[c]
                       ELSE /\ task'[c] = task[c] /\ events'[c] = events[c]
                            /\ (c \in exit') = (c \in exit)
        BY <2>0, <3>3 DEF Typed
      <4>3. ctl'.pc = "wait" /\ ctl'.cpu = ctl.cpu /\ ctx' = ctx /\ sleep' = sleep
        BY <3>3
      <4> QED BY <2>p, <2>t, <3>1, <3>2, <4>1, <4>2, <4>3 DEF CpuInv
    <3> QED BY <3>4, <3>5, <3>6 DEF LoopInv
  <2>9. CASE TaskStopped
    <3>1. /\ ctl.pc = "wait" /\ ~Runnable(cpu) /\ cpu' = cpu
          /\ UNCHANGED <<ctx, task, sleep, exit, events, wdt, late, expired>>
          /\ \/ ctl.cpu = NumCPUs - 1 /\ ctl'.pc = "destroyed" /\ ctl'.cpu = 0
             \/ ctl.cpu # NumCPUs - 1 /\ ctl'.pc = "destroy" /\ ctl'.cpu = ctl.cpu + 1
      BY <2>0, <2>9, ControlMoves DEF Typed, TaskStopped, At
    <3>2. cpu = ctl.cpu /\ task[cpu] = "gone"
      BY <2>p, <2>t, <3>1 DEF Pinned, CpuInv, Runnable
    <3>3. Pinned'
      BY <3>1 DEF Pinned
    <3>4. KickedInTime'
      <4> SUFFICES ASSUME NEW c \in expired PROVE c \in Stopped'
        BY <3>1 DEF KickedInTime
      <4>1. c \in CPUs /\ (c < ctl.cpu \/ c = ctl.cpu)
        BY <2>l, <3>1 DEF KickedInTime, Stopped
      <4> QED BY <2>t, <3>1, <4>1 DEF Stopped
    <3>5. ASSUME NEW c \in CPUs PROVE CpuInv(c)'
      <4>1. c <= NumCPUs - 1 /\ NumCPUs \in Nat
        BY CpuRange, CpuAssumption
      <4>2. CASE c > ctl.cpu
        <5>1. ctl.cpu # NumCPUs - 1 /\ ctl'.pc = "destroy" /\ ctl'.cpu = ctl.cpu + 1
          BY <2>t, <3>1, <4>1, <4>2
        <5> QED BY <2>p, <2>t, <3>1, <4>2, <5>1 DEF CpuInv
      <4>3. CASE c <= ctl.cpu
        <5>1. task'[c] = "gone" /\ ctl'.pc \in {"destroy", "destroyed"}
          <6>1. CASE c = ctl.cpu
            BY <3>1, <3>2, <6>1
          <6>2. CASE c < ctl.cpu
            BY <2>p, <2>t, <3>1, <6>2 DEF CpuInv
          <6> QED BY <2>t, <4>3, <6>1, <6>2
        <5>2. ctl'.pc = "destroy" => c < ctl'.cpu
          BY <2>t, <3>1, <4>3
        <5> QED BY <2>t, <5>1, <5>2 DEF CpuInv
      <4> QED BY <2>t, <4>2, <4>3
    <3> QED BY <3>3, <3>4, <3>5 DEF LoopInv
  <2>10. CASE watchdog_tasks_destroy
    <3>1. /\ ctl.pc = "created" /\ ctl'.pc = "destroy" /\ ctl'.cpu = 0
          /\ UNCHANGED <<ctx, task, sleep, exit, events, wdt, late, expired>>
      BY <2>10 DEF watchdog_tasks_destroy, At
    <3>2. Pinned'
      BY <3>1 DEF Pinned
    <3>3. KickedInTime'
      BY <2>l, <3>1 DEF KickedInTime, Stopped
    <3>4. ASSUME NEW c \in CPUs PROVE CpuInv(c)'
      BY <2>p, <2>t, <3>1 DEF CpuInv
    <3> QED BY <3>2, <3>3, <3>4 DEF LoopInv
  <2>11. CASE Migrate
    <3>1. /\ cpu' \in aff \ {cpu}
          /\ UNCHANGED <<ctl, aff, ctx, task, sleep, exit, events, wdt, late, expired>>
      BY <2>11 DEF Migrate
    <3>2. Pinned'
      BY <2>p, <3>1 DEF Pinned
    <3>3. KickedInTime' /\ \A c \in CPUs : CpuInv(c)'
      BY <2>l, <2>p, <3>1 DEF KickedInTime, Stopped, CpuInv
    <3> QED BY <3>2, <3>3 DEF LoopInv
  <2>12. CASE Tick
    <3>1. /\ ctl' = ctl /\ aff' = aff /\ cpu' = cpu
          /\ UNCHANGED <<ctx, exit, events>>
          /\ expired' = expired \cup {c \in CPUs : Counts(c) /\ wdt[c].count + 1 = Timeout}
      BY <2>12 DEF Tick, ctlVars
    <3>2. ctl.pc = "start" => late' = late + 1 /\ late < Delay /\ late \in Nat
      BY <2>0, <2>12, TimeAssumption DEF Tick, Typed
    <3>3. ASSUME NEW c \in CPUs
          PROVE  /\ ~Runnable(c)
                 /\ wdt[c].count \in Nat /\ sleep[c] \in Nat
                 /\ task[c] = "waiting" => sleep[c] > 0
                 /\ IF task[c] = "waiting" THEN /\ sleep'[c] = sleep[c] - 1
                                                /\ task'[c] \in {"check", "waiting"}
                                           ELSE task'[c] = task[c]
                 /\ wdt'[c].enabled = wdt[c].enabled
                 /\ wdt'[c].count \in {wdt[c].count, wdt[c].count + 1}
      <4>1. wdt[c] \in Wdt /\ sleep[c] \in Nat /\ ~Runnable(c)
        BY <2>0, <2>12, TimeAssumption DEF Typed, Watchdogs, Tick
      <4>2. task[c] = "waiting" => sleep[c] > 0
        BY <1>2 DEF TypeInv, CountersInv
      <4>3. wdt'[c] = IF Counts(c) THEN [wdt[c] EXCEPT !.count = @ + 1] ELSE wdt[c]
        BY <2>12 DEF Tick
      <4>4. /\ wdt'[c].enabled = wdt[c].enabled
            /\ wdt'[c].count \in {wdt[c].count, wdt[c].count + 1}
        BY <4>1, <4>3 DEF Wdt
      <4>5. IF task[c] = "waiting" THEN /\ sleep'[c] = sleep[c] - 1
                                        /\ task'[c] \in {"check", "waiting"}
                                   ELSE task'[c] = task[c]
        BY <2>12 DEF Tick
      <4> QED BY <4>1, <4>2, <4>4, <4>5 DEF Wdt
    <3>4. KickedInTime'
      <4>1. ASSUME NEW c \in CPUs, Counts(c), wdt[c].count + 1 = Timeout, c \notin Stopped
            PROVE  FALSE
        <5>0. wdt[c].count \in Nat
          BY <3>3
        <5>1. Untouched(c) \/ Prepared(c) \/ Exiting(c) \/ Left(c) \/ Starting(c) \/ Started(c)
          BY <2>0, <2>t DEF Typed, Controls, Panicked
        <5>2. Starting(c) \/ Started(c)
          <6>1. ~Exiting(c) /\ ~Left(c)
            BY <4>1 DEF Stopped
          <6>2. ~Untouched(c) /\ ~Prepared(c)
            BY <2>p, <4>1 DEF CpuInv, Counts
          <6> HIDE DEF Untouched, Prepared, Starting, Started, Exiting, Left
          <6> QED BY <5>1, <6>1, <6>2
        <5>3. CASE Starting(c)
          <6>1. wdt[c].count <= late /\ late < Delay /\ late \in Nat
            BY <2>p, <3>2, <5>3 DEF CpuInv
          <6> QED BY <4>1, <5>0, <6>1, TimeAssumption
        <5>4. CASE Started(c)
          <6>1. task[c] = "waiting" /\ wdt[c].count + sleep[c] <= Interval /\ sleep[c] > 0
            BY <2>p, <3>3, <5>4 DEF CpuInv, Runnable
          <6> QED BY <3>3, <4>1, <6>1, TimeAssumption
        <5> QED BY <5>2, <5>3, <5>4
      <4> QED BY <2>l, <3>1, <4>1 DEF KickedInTime, Stopped
    <3>5. ASSUME NEW c \in CPUs PROVE CpuInv(c)'
      <4>1. Started(c) => task[c] = "waiting" /\ wdt[c].count + sleep[c] <= Interval
        BY <2>p, <3>3 DEF CpuInv, Runnable
      <4>2. Exiting(c) => task[c] = "gone"
        BY <2>p, <3>3 DEF CpuInv, Runnable
      <4>3. Started(c) => /\ task'[c] \in {"check", "waiting"}
                          /\ wdt'[c].count + sleep'[c] <= Interval
        BY <3>3, <4>1, TimeAssumption
      <4>4. Starting(c) => wdt'[c].count <= late' /\ task'[c] = "none"
        <5> SUFFICES ASSUME Starting(c) PROVE wdt'[c].count <= late' /\ task'[c] = "none"
          OBVIOUS
        <5>1. wdt[c].count <= late /\ task[c] = "none" /\ late' = late + 1 /\ late \in Nat
          BY <2>p, <3>2 DEF CpuInv
        <5> QED BY <3>3, <5>1
      <4>5. ~Started(c) /\ ~Starting(c) => task[c] # "waiting"
        <5>1. Untouched(c) \/ Prepared(c) \/ Exiting(c) \/ Left(c) \/ Starting(c) \/ Started(c)
          BY <2>0, <2>t DEF Typed, Controls, Panicked
        <5> QED BY <2>p, <5>1 DEF CpuInv
      <4> QED BY <2>p, <3>1, <3>3, <4>1, <4>2, <4>3, <4>4, <4>5 DEF CpuInv
    <3> QED BY <2>p, <3>1, <3>4, <3>5 DEF LoopInv, Pinned
  <2>13. ASSUME NEW c \in CPUs, Task(c) PROVE LoopInv'
    <3>0. /\ ctl' = ctl /\ aff' = aff /\ cpu' = cpu /\ expired' = expired /\ sleep[c] \in Nat
          /\ Untouched(c) \/ Prepared(c) \/ Exiting(c) \/ Left(c) \/ Starting(c) \/ Started(c)
      BY <2>0, <2>t, <2>13, TimeAssumption
      DEF Typed, Controls, Panicked, Task, wdt_kick, CheckEvents, TaskExit, ctlVars
    <3> SUFFICES \A d \in CPUs : CpuInv(d)'
      BY <2>l, <2>p, <3>0 DEF LoopInv, Pinned, KickedInTime, Stopped
    <3>1. CASE wdt_kick(c)
      <4>1. task[c] = "ready" /\ Started(c)
        BY <2>p, <3>0, <3>1 DEF wdt_kick, CpuInv
      <4>2. ctx[c] = [wdt |-> c, running |-> TRUE] /\ ~events[c] /\ c \notin exit
        BY <2>p, <4>1 DEF CpuInv
      <4>3. /\ task' = [task EXCEPT ![c] = "waiting"]
            /\ sleep' = [sleep EXCEPT ![c] = Interval]
            /\ events' = [events EXCEPT ![c] = @ \/ c \in exit]
            /\ wdt' = [wdt EXCEPT ![c].count = 0]
            /\ UNCHANGED <<ctx, exit, late>>
        BY <3>1, <4>2 DEF wdt_kick
      <4>4. \A d \in CPUs : IF d = c THEN wdt'[d].count = 0 /\ wdt'[d].enabled = wdt[d].enabled
                                     ELSE wdt'[d] = wdt[d]
        BY <2>0, <4>3, CountReset DEF Typed
      <4>5. \A d \in CPUs : IF d = c THEN task'[d] = "waiting" /\ sleep'[d] = Interval /\ ~events'[d]
                                     ELSE /\ task'[d] = task[d] /\ sleep'[d] = sleep[d]
                                          /\ events'[d] = events[d]
        BY <2>0, <4>2, <4>3 DEF Typed
      <4>6. CpuInv(c)'
        <5>1. /\ task'[c] = "waiting" /\ ~events'[c] /\ c \notin exit' /\ ctx'[c] = ctx[c]
              /\ wdt'[c].count + sleep'[c] <= Interval
          BY <4>2, <4>3, <4>4, <4>5, TimeAssumption
        <5>2. Started(c)' /\ ~Untouched(c)' /\ ~Prepared(c)' /\ ~Starting(c)' /\ ~Exiting(c)'
              /\ ~Left(c)'
          BY <2>t, <3>0, <4>1
        <5> QED BY <4>2, <5>1, <5>2 DEF CpuInv
      <4>7. ASSUME NEW d \in CPUs, d # c PROVE CpuInv(d)'
        BY <2>p, <3>0, <4>3, <4>4, <4>5, <4>7 DEF CpuInv
      <4> QED BY <4>6, <4>7
    <3>2. CASE CheckEvents(c)
      <4>1. /\ task[c] = "check"
            /\ exit' = exit \ {c}
            /\ task' = [task EXCEPT ![c] = IF events[c] THEN "leaving" ELSE "ready"]
            /\ UNCHANGED <<ctx, sleep, events, wdt, late>>
        BY <3>2 DEF CheckEvents
      <4>2. \A d \in CPUs : IF d = c THEN task'[d] = IF events[c] THEN "leaving" ELSE "ready"
                                     ELSE task'[d] = task[d]
        BY <2>0, <4>1 DEF Typed
      <4>3. Started(c) \/ Exiting(c)
        BY <2>p, <3>0, <4>1 DEF CpuInv
      <4>4. CpuInv(c)'
        <5>1. CASE Started(c)
          <6>1. task'[c] = "ready"
            BY <2>p, <4>2, <5>1 DEF CpuInv
          <6> QED BY <2>p, <2>t, <3>0, <4>1, <5>1, <6>1 DEF CpuInv
        <5>2. CASE Exiting(c)
          <6>1. task'[c] = "leaving"
            BY <2>p, <4>1, <4>2, <5>2 DEF CpuInv
          <6> QED BY <2>p, <2>t, <3>0, <4>1, <5>2, <6>1 DEF CpuInv
        <5> QED BY <4>3, <5>1, <5>2
      <4>5. ASSUME NEW d \in CPUs, d # c PROVE CpuInv(d)'
        BY <2>p, <3>0, <4>1, <4>2, <4>5 DEF CpuInv
      <4> QED BY <4>4, <4>5
    <3>3. CASE TaskExit(c)
      <4>1. /\ task[c] = "leaving"
            /\ ctx' = [ctx EXCEPT ![c].running = FALSE]
            /\ task' = [task EXCEPT ![c] = "gone"]
            /\ UNCHANGED <<sleep, exit, events, wdt, late>>
        BY <3>3 DEF TaskExit
      <4>2. \A d \in CPUs : IF d = c THEN task'[d] = "gone"
                                     ELSE task'[d] = task[d] /\ ctx'[d] = ctx[d]
        BY <2>0, <4>1 DEF Typed, Contexts
      <4>3. Exiting(c)
        BY <2>p, <3>0, <4>1 DEF CpuInv
      <4> QED BY <2>p, <2>t, <3>0, <4>1, <4>2, <4>3 DEF CpuInv
    <3> QED BY <2>13, <3>1, <3>2, <3>3 DEF Task
  <2> QED
    BY <2>1, <2>2, <2>3, <2>4, <2>5, <2>6, <2>7, <2>8, <2>9, <2>10, <2>11, <2>12, <2>13
    DEF Next, Control
<1> QED BY <1>1, <1>2, TypeCorrect, PTL DEF Spec

(* A watchdog expires only after its task was asked to stop kicking it:    *)
(* for every number of processors the interval, a held-up start and the    *)
(* rounds of the loops never add up to the timeout.                        *)
THEOREM InTime ==
  ASSUME Garbage = {FALSE}
  PROVE  Spec => []KickedInTime
<1>1. LoopInv => KickedInTime
  BY DEF LoopInv
<1> QED BY <1>1, LoopCorrect, PTL

(* Every enabled watchdog has the task that kicks it, is being started,    *)
(* was stopped, or the system has panicked.                                *)
THEOREM Kicked ==
  ASSUME Garbage = {FALSE}
  PROVE  Spec => []EnabledIsKicked
<1>1. TypeInv /\ LoopInv => EnabledIsKicked
  <2> SUFFICES ASSUME TypeInv, LoopInv, ~Panicked, NEW c \in CPUs, wdt[c].enabled
               PROVE  \/ /\ ctx[c] = [wdt |-> c, running |-> TRUE]
                         /\ task[c] \in {"ready", "check", "waiting"}
                      \/ ctl.pc = "start" /\ ctl.cpu = c
                      \/ c \in Stopped
    BY DEF EnabledIsKicked
  <2> USE DEF Creating, Stopping, Untouched, Prepared, Starting, Started, Exiting, Left
  <2>1. ctl \in Controls /\ ctl.cpu \in Nat /\ c \in Nat
    BY TypeOKSets, CpuRange DEF TypeInv, Typed, Controls
  <2>2. Untouched(c) \/ Prepared(c) \/ Exiting(c) \/ Left(c) \/ Starting(c) \/ Started(c)
    BY <2>1 DEF Controls, Panicked
  <2>3. CpuInv(c)
    BY DEF LoopInv
  <2>4. ~Untouched(c) /\ ~Prepared(c)
    BY <2>3 DEF CpuInv
  <2>5. Started(c) => /\ ctx[c] = [wdt |-> c, running |-> TRUE]
                      /\ task[c] \in {"ready", "check", "waiting"}
    BY <2>3 DEF CpuInv
  <2>6. Exiting(c) \/ Left(c) => c \in Stopped
    BY DEF Stopped
  <2>7. Starting(c) => ctl.pc = "start" /\ ctl.cpu = c
    OBVIOUS
  <2> HIDE DEF Untouched, Prepared, Starting, Started, Exiting, Left
  <2> QED BY <2>2, <2>4, <2>5, <2>6, <2>7
<1> QED BY <1>1, LoopCorrect, TypeCorrect, PTL

(* Once watchdog_cpu_task_stop has returned for a processor its task is    *)
(* gone.                                                                   *)
THEOREM Gone ==
  ASSUME Garbage = {FALSE}
  PROVE  Spec => []StoppedIsGone
<1>1. LoopInv => StoppedIsGone
  <2> SUFFICES ASSUME LoopInv, NEW c \in Stopped, ~(ctl.pc = "wait" /\ c = ctl.cpu)
               PROVE  task[c] = "gone"
    BY DEF StoppedIsGone
  <2>1. c \in CPUs /\ Left(c) /\ ~Panicked
    BY DEF Stopped, Left, Stopping, Panicked
  <2> QED BY <2>1 DEF LoopInv, CpuInv
<1> QED BY <1>1, LoopCorrect, PTL

=================================================================================
