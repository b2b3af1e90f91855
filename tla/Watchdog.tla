-------------------------------- MODULE Watchdog --------------------------------
(***************************************************************************)
(* Kicking the watchdogs: lib/hpsc/watchdog-cpu.c and rtps-r52/watchdog.c. *)
(* Each processor has a watchdog and a task pinned to it that kicks it; a  *)
(* control task (POSIX_Init, later the shell) starts and stops them all.   *)
(*                                                                         *)
(* Time advances in clock ticks.  The watchdog tasks have priority 1, the  *)
(* highest: one that is ready runs on its processor before the control     *)
(* task does and before the next tick.  The watchdog hardware and the      *)
(* RTEMS calls are external.                                               *)
(***************************************************************************)
EXTENDS Naturals

CONSTANTS NumCPUs,   \* rtems_get_processor_count()
          Interval,  \* WDT_KICK_INTERVAL_TICKS
          Timeout,   \* first stage of the watchdog, in ticks
          Delay,     \* ticks that the start of a task may be held up
          Garbage,   \* what bit WDT_TASK_EXIT of the uninitialised events may be
          NONE

ASSUME TimeAssumption ==
  /\ Interval \in Nat \ {0} /\ Timeout \in Nat /\ Delay \in Nat
  /\ Interval < Timeout /\ Delay < Timeout
ASSUME CpuAssumption == NumCPUs \in Nat \ {0}
ASSUME GarbageAssumption == Garbage \subseteq BOOLEAN /\ Garbage # {}

VARIABLES
  ctl,        \* the control task: its step, and cpu of the loop
  aff, cpu,   \* its affinity, the processor it runs on
  ctx,        \* struct watchdog_task_ctx of each processor
  task,       \* state of each watchdog task
  sleep,      \* ticks until its wait ends
  exit,       \* tasks with WDT_TASK_EXIT pending
  events,     \* bit WDT_TASK_EXIT of the variable events of each task
  wdt,        \* each watchdog: enabled, ticks since the last kick, handler
  late,       \* ticks a start has been held up
  expired     \* history: watchdogs that have expired

ctlVars == <<ctl, aff, cpu>>
vars == <<ctlVars, ctx, task, sleep, exit, events, wdt, late, expired>>

CPUs == 0..NumCPUs-1

TypeOK ==
  /\ ctl \in [pc : {"create", "pin", "install", "enable", "start", "created", "destroy",
                    "stop", "wait", "destroyed", "panic"}, cpu : CPUs]
  /\ aff \subseteq CPUs /\ cpu \in CPUs
  /\ ctx \in [CPUs -> [wdt : CPUs \cup {NONE}, running : BOOLEAN]]
  /\ task \in [CPUs -> {"none", "ready", "check", "waiting", "leaving", "gone"}]
  /\ sleep \in [CPUs -> 0..Interval]
  /\ exit \subseteq CPUs
  /\ events \in [CPUs -> BOOLEAN]
  /\ wdt \in [CPUs -> [enabled : BOOLEAN, count : 0..Timeout, handler : BOOLEAN]]
  /\ late \in 0..Delay
  /\ expired \subseteq CPUs

Init ==
  /\ ctl = [pc |-> "create", cpu |-> 0]
  /\ aff = CPUs /\ cpu = 0
  /\ ctx = [c \in CPUs |-> [wdt |-> NONE, running |-> FALSE]]
  /\ task = [c \in CPUs |-> "none"]
  /\ sleep = [c \in CPUs |-> 0]
  /\ exit = {}
  /\ events \in [CPUs -> Garbage]
  /\ wdt = [c \in CPUs |-> [enabled |-> FALSE, count |-> 0, handler |-> FALSE]]
  /\ late = 0
  /\ expired = {}

-------------------------------------------------------------------------------
(* The control task. *)

Runnable(c) == task[c] \in {"ready", "check", "leaving"}

(* It runs on its processor when the watchdog task there waits. *)
At(l) == ctl.pc = l /\ ~Runnable(cpu)
Goto(l) == ctl' = [ctl EXCEPT !.pc = l]

(* affinity_pin_self_to_cpu: from here on it runs on that processor. *)
PinTo(c) == aff' = {c} /\ cpu' = c

(* dev_cpu_for_each: the next processor, or the affinity is restored. *)
Continue(l, done) ==
  IF ctl.cpu = NumCPUs - 1 THEN /\ ctl' = [pc |-> done, cpu |-> 0]
                         /\ aff' = CPUs /\ UNCHANGED cpu
                    ELSE /\ ctl' = [pc |-> l, cpu |-> ctl.cpu + 1]
                         /\ UNCHANGED <<aff, cpu>>

(* Without a pin the scheduler moves it between processors. *)
Migrate ==
  /\ cpu' \in aff \ {cpu}
  /\ UNCHANGED <<ctl, aff, ctx, task, sleep, exit, events, wdt, late, expired>>

(* Fault: the control task does not pin itself. *)
NoPin ==
  /\ At("create")
  /\ Goto("pin")
  /\ UNCHANGED <<aff, cpu, ctx, task, sleep, exit, events, wdt, late, expired>>

(* watchdog_tasks_create: pin, ... *)
watchdog_tasks_create ==
  /\ At("create")
  /\ PinTo(ctl.cpu)
  /\ Goto("pin")
  /\ UNCHANGED <<ctx, task, sleep, exit, events, wdt, late, expired>>

(* ... take the device of this processor, create and pin its task, and     *)
(* fill the context of the processor.                                      *)
watchdog_task_create ==
  /\ At("pin")
  /\ ~ctx[cpu].running
  /\ ctx' = [ctx EXCEPT ![cpu] = [wdt |-> cpu, running |-> TRUE]]
  /\ Goto("install")
  /\ UNCHANGED <<aff, cpu, task, sleep, exit, events, wdt, late, expired>>

(* watchdog_cpu_task_start: install the handler; a failure is a panic. *)
wdt_handler_install ==
  /\ At("install")
  /\ \/ /\ wdt' = [wdt EXCEPT ![ctx[cpu].wdt].handler = TRUE]
        /\ Goto("enable")
        /\ UNCHANGED ctx
     \/ /\ ctx' = [ctx EXCEPT ![cpu].running = FALSE]
        /\ Goto("panic")
        /\ UNCHANGED wdt
  /\ UNCHANGED <<aff, cpu, task, sleep, exit, events, late, expired>>

(* Enable the watchdog, which cannot be undone, ... *)
wdt_enable ==
  /\ At("enable")
  /\ wdt' = [wdt EXCEPT ![ctx[cpu].wdt].enabled = TRUE, ![ctx[cpu].wdt].count = 0]
  /\ Goto("start")
  /\ late' = 0
  /\ UNCHANGED <<aff, cpu, ctx, task, sleep, exit, events, expired>>

(* ... then start the task, which preempts the control task. *)
rtems_task_start ==
  /\ At("start")
  /\ task' = [task EXCEPT ![ctl.cpu] = "ready"]
  /\ Continue("create", "created")
  /\ UNCHANGED <<ctx, sleep, exit, events, wdt, late, expired>>

(* If it cannot be started the handler is removed; watchdog_task_create    *)
(* panics.                                                                 *)
TaskStartFails ==
  /\ At("start")
  /\ wdt' = [wdt EXCEPT ![ctx[cpu].wdt].handler = FALSE]
  /\ ctx' = [ctx EXCEPT ![cpu].running = FALSE]
  /\ Goto("panic")
  /\ UNCHANGED <<aff, cpu, task, sleep, exit, events, late, expired>>

(* shutdown calls watchdog_tasks_destroy. *)
watchdog_tasks_destroy ==
  /\ At("created")
  /\ ctl' = [pc |-> "destroy", cpu |-> 0]
  /\ UNCHANGED <<aff, cpu, ctx, task, sleep, exit, events, wdt, late, expired>>

(* Fault: the control task does not pin itself. *)
NoPinToStop ==
  /\ At("destroy")
  /\ Goto("stop")
  /\ UNCHANGED <<aff, cpu, ctx, task, sleep, exit, events, wdt, late, expired>>

PinToStop ==
  /\ At("destroy")
  /\ PinTo(ctl.cpu)
  /\ Goto("stop")
  /\ UNCHANGED <<ctx, task, sleep, exit, events, wdt, late, expired>>

(* watchdog_cpu_task_stop: remove the handler and ask the task to exit, or *)
(* return RTEMS_NOT_DEFINED when no task is running, ...                   *)
watchdog_cpu_task_stop ==
  /\ At("stop")
  /\ IF ctx[cpu].running
     THEN /\ wdt' = [wdt EXCEPT ![ctx[cpu].wdt].handler = FALSE]
          /\ exit' = exit \cup {cpu}
          /\ task' = [task EXCEPT ![cpu] = IF @ = "waiting" THEN "check" ELSE @]
          /\ events' = [events EXCEPT ![cpu] = IF task[cpu] = "waiting" THEN TRUE ELSE @]
          /\ Goto("wait")
          /\ UNCHANGED <<aff, cpu>>
     ELSE Continue("destroy", "destroyed") /\ UNCHANGED <<wdt, exit, task, events>>
  /\ UNCHANGED <<ctx, sleep, late, expired>>

(* ... then wait until it has: while (ctx->running). *)
TaskStopped ==
  /\ At("wait")
  /\ ~ctx[cpu].running
  /\ Continue("destroy", "destroyed")
  /\ UNCHANGED <<ctx, task, sleep, exit, events, wdt, late, expired>>

-------------------------------------------------------------------------------
(* watchdog_task. *)

(* Fault: the interval is too long. *)
KickLate(c) ==
  /\ task[c] = "ready"
  /\ wdt' = [wdt EXCEPT ![ctx[c].wdt].count = 0]
  /\ task' = [task EXCEPT ![c] = IF c \in exit THEN "check" ELSE "waiting"]
  /\ events' = [events EXCEPT ![c] = @ \/ c \in exit]
  /\ sleep' = [sleep EXCEPT ![c] = 2 * Interval]
  /\ UNCHANGED <<ctlVars, ctx, exit, late, expired>>

(* Kick, and wait for WDT_TASK_EXIT or for the interval to pass. *)
wdt_kick(c) ==
  /\ task[c] = "ready"
  /\ wdt' = [wdt EXCEPT ![ctx[c].wdt].count = 0]
  /\ task' = [task EXCEPT ![c] = IF c \in exit THEN "check" ELSE "waiting"]
  /\ events' = [events EXCEPT ![c] = @ \/ c \in exit]
  /\ sleep' = [sleep EXCEPT ![c] = Interval]
  /\ UNCHANGED <<ctlVars, ctx, exit, late, expired>>

(* Fault: the loop is never left. *)
CheckIgnored(c) ==
  /\ task[c] = "check"
  /\ exit' = exit \ {c}
  /\ task' = [task EXCEPT ![c] = "ready"]
  /\ UNCHANGED <<ctlVars, ctx, sleep, events, wdt, late, expired>>

(* rtems_event_receive has returned; on a timeout it has not set events    *)
(* (external), so that what is tested may never have been set.             *)
CheckEvents(c) ==
  /\ task[c] = "check"
  /\ exit' = exit \ {c}
  /\ task' = [task EXCEPT ![c] = IF events[c] THEN "leaving" ELSE "ready"]
  /\ UNCHANGED <<ctlVars, ctx, sleep, events, wdt, late, expired>>

TaskExit(c) ==
  /\ task[c] = "leaving"
  /\ ctx' = [ctx EXCEPT ![c].running = FALSE]
  /\ task' = [task EXCEPT ![c] = "gone"]
  /\ UNCHANGED <<ctlVars, sleep, exit, events, wdt, late, expired>>

-------------------------------------------------------------------------------
(* A clock tick: waits come to their end and watchdogs count.  A watchdog  *)
(* that reaches its limit interrupts; watchdog_timeout_isr clears the      *)
(* first stage.  Counting ends with the history of the expiry.             *)
Counts(c) == wdt[c].enabled /\ c \notin expired

Tick ==
  /\ \A c \in CPUs : ~Runnable(c)
  /\ ctl.pc = "start" => late < Delay
  /\ late' = IF ctl.pc = "start" THEN late + 1 ELSE late
  /\ sleep' = [c \in CPUs |-> IF task[c] = "waiting" THEN sleep[c] - 1 ELSE sleep[c]]
  /\ task' = [c \in CPUs |-> IF task[c] = "waiting" /\ sleep[c] = 1 THEN "check" ELSE task[c]]
  /\ wdt' = [c \in CPUs |-> IF Counts(c) THEN [wdt[c] EXCEPT !.count = @ + 1] ELSE wdt[c]]
  /\ expired' = expired \cup {c \in CPUs : Counts(c) /\ wdt[c].count + 1 = Timeout}
  /\ UNCHANGED <<ctlVars, ctx, exit, events>>

Control ==
  \/ watchdog_tasks_create \/ watchdog_task_create \/ wdt_handler_install \/ wdt_enable
  \/ rtems_task_start \/ TaskStartFails
  \/ PinToStop \/ watchdog_cpu_task_stop \/ TaskStopped

Task(c) == wdt_kick(c) \/ CheckEvents(c) \/ TaskExit(c)

Panicked == ctl.pc = "panic"

Next == \/ ~Panicked /\ \/ Control \/ watchdog_tasks_destroy \/ Migrate
                        \/ Tick \/ \E c \in CPUs : Task(c)
        \/ Panicked /\ UNCHANGED vars

Spec == Init /\ [][Next]_vars

(* The clock ticks and a watchdog task that is ready runs.  The control    *)
(* task has the processor between two rounds of the watchdog task, again   *)
(* and again but not for good: strong fairness.  Nothing makes shutdown    *)
(* happen.                                                                 *)
Fairness ==
  /\ SF_vars(~Panicked /\ Control)
  /\ WF_vars(~Panicked /\ Tick)
  /\ \A c \in CPUs : WF_vars(~Panicked /\ Task(c))

FairSpec == Spec /\ Fairness

-------------------------------------------------------------------------------
(* Properties. *)

(* Processors whose task was asked to stop: a kick is no longer due. *)
Stopped ==
  {c \in CPUs : \/ ctl.pc = "destroyed"
                \/ ctl.pc \in {"destroy", "stop", "wait"} /\ c < ctl.cpu
                \/ ctl.pc = "wait" /\ c = ctl.cpu}

(* A watchdog expires only when its task was told to stop kicking it, or   *)
(* the system has panicked: the interval, the held-up start and the rounds *)
(* of the other tasks never add up to its timeout ("the WDT task failed to *)
(* kick", watchdog_timeout_isr).                                           *)
KickedInTime == expired \subseteq Stopped

(* "once enabled, the WDT can't be stopped" (watchdog_cpu_task_start): for *)
(* every enabled watchdog there is a task that kicks this very watchdog,   *)
(* or it is being started, or was stopped, or the system has panicked.     *)
EnabledIsKicked ==
  \A c \in CPUs : wdt[c].enabled =>
    \/ ctx[c] = [wdt |-> c, running |-> TRUE] /\ task[c] \in {"ready", "check", "waiting"}
    \/ ctl.pc = "start" /\ ctl.cpu = c
    \/ c \in Stopped
    \/ Panicked

(* Once watchdog_cpu_task_stop has returned for a processor its task is    *)
(* gone: the watchdog that shutdown gives up next (wdt_uninit) is kicked   *)
(* no more.                                                                *)
StoppedIsGone ==
  \A c \in Stopped : (ctl.pc = "wait" /\ c = ctl.cpu) \/ task[c] = "gone"

(* watchdog_tasks_destroy returns: a task told to exit does. *)
DestroyReturns == ctl.pc = "destroy" ~> ctl.pc = "destroyed"
=================================================================================
