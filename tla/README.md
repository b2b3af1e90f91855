# Verification of hpsc-rtems

TLA+ models of hpsc-rtems as it runs on the RTPS R52 under RTEMS: the command
service, the links over shared memory and over mailboxes, the mailbox and timer
drivers, the link store, the watchdog tasks, the tests that run on the target,
and boot and shutdown as a whole. TLC checks the models on small instances;
TLAPS proves most of their safety properties, and the two refinements, for
every value of the constants.

Paths below are relative to `src/`.

## The system

The RTPS processor exchanges fixed-size messages with the TRCH and the HPPS. A
message arrives on a *link*, becomes a *command* in a queue, is processed by
one handler task and is answered over the link it came from.

| Component | State | Operations | Hard parts |
|---|---|---|---|
| Command service, `lib/hpsc/command.c`, `rtps-r52/server.c` | ring of `CMDQ_LEN` commands with `head` and `tail`; handler context (`tid`, `cb`, `running`); global callback and argument | enqueue (from an interrupt or a task), handle, drop all; start and destroy the handler task; register and unregister the callback | notification outside the lock; a context read without a lock while the task exits; the ring at its limit; destroy waiting for the task |
| Link requests, `lib/hpsc/link.c` | `rctx`: requester, `tx_acked`, reply buffer and size | `link_request`, `link_request_send`, `link_recv_cmd`, `link_recv_reply`, `link_ack` | one event for ACK and reply; timeouts racing late ACKs and replies |
| Shared-memory link, `lib/hpsc/link-shmem.c`, `shmem.c`, `shmem-poll.c` | two regions of data and status word; two polling tasks per end | connect, write, read, ACK, close | a status word changed by a load and a store from two processors; order of polls; stopping the polling tasks |
| Mailbox link, `lib/hpsc/link-mbox.c` | two channels of a mailbox block | connect, write, read, ACK, close | connect that fails half-way; interrupts during connect and close |
| Mailbox driver, `lib/drivers/hpsc-mbox.c` | per channel: owner, callbacks, active; registers | probe, claim, release, write, read, events, interrupt handlers, remove | the remote at the registers at the same time; clean-up of failed claims |
| Link store, `lib/hpsc/link-store.c` | list of links under a mutex | append, contains, get, extract, extract first | nodes read and freed after the mutex is released; equal names |
| Watchdog task, `lib/hpsc/watchdog-cpu.c`, `rtps-r52/watchdog.c` | per processor: task, handler, running | start, kick, stop | a watchdog that cannot be stopped; an uninitialised event set; the handshake of stop |
| RTI timer, `lib/drivers/hpsc-rti-timer.c` | handler and argument, `is_started` | probe, start, stop, capture, configure, remove | an argument on a test's stack; remove of a started timer |
| Device table and affinity, `lib/hpsc/devices.c`, `affinity.c` | mailboxes; per processor a timer and a watchdog | set, get, pin | the slot is the current processor's: the caller must not be moved |
| Interrupt numbers, `rtps-r52/gic.c`, `gic.h` | trigger registers | vector of an interrupt, set and get a trigger mode | indices of registers and bits |
| Tests, `lib/hpsc-test`, `lib/drivers-selftest`, `rtps-r52/tests`, `shell-tests.c` | a context on the stack, the events of the calling task | one function each | callbacks after the test has returned; events left for the next test; waits without a timeout |
| Boot, `rtps-r52/init.c` | the configuration | starts all of the above in order | results that are ignored; which parts a configuration has |
| Shutdown, `rtps-r52/shutdown.c` | none of its own | stops all of the above in order | what may still arrive between two steps |
| Messages, `lib/hpsc/hpsc-msg.c`; TRCH image, `trch/init.c` | none | fill a buffer; print a line | none |

Interaction: an interrupt handler (mailbox) or a polling task (shared memory)
calls `link_recv_cmd`, which calls `cmd_enqueue`, which sends an event to the
handler task. The handler task calls `link_request_send` on the command's link
and waits for the ACK, which comes back through `link_ack` in another interrupt
or polling task. Shutdown destroys the handler task, closes the links, drops
the pending commands and removes the drivers.

What makes each part correct: the command service handles every accepted
command once and in order, and never after destroy has returned; a request
returns the reply to itself; no message or acknowledgement is lost between the
ends of a link; a link that is freed is referred to by nothing that will be
used; a channel belongs to one link from claim to release; a watchdog is kicked
from when it is enabled until it is stopped; a processor's devices are used on
that processor; a test leaves nothing behind; a shutdown ends, with nothing
left.

## Modules

| Module | Models |
|---|---|
| `CommandQueue` | abstract: a bounded FIFO |
| `Command` | `command.c` and `server.c`; implements `CommandQueue` |
| `LinkShmem` | `link.c`, `link-shmem.c`, `shmem.c`, `shmem-poll.c`: both ends of one link, and the part of `shutdown.c` that concerns them |
| `LinkMbox` | `hpsc-mbox.c`, `link-mbox.c`: the links on one mailbox block, with the remote processor, and the part of `shutdown.c` that concerns them |
| `LinkList` | abstract: an ordered list of links |
| `LinkStore` | `link-store.c`; implements `LinkList` |
| `Watchdog` | `watchdog-cpu.c`, `watchdog.c`: the watchdogs of all processors, in clock ticks |
| `SelfTest` | the tests, in the order of `init.c` and from the shell, with the timer driver and the parts of the handler task, the links and a mailbox channel that they see |
| `Rtps` | `init.c`, `shutdown.c`, `devices.c`, `affinity.c`, `gic.c`: the application from boot to exit, over the other components reduced to what boot and shutdown do with them |
| `CommandProofs`, `LinkShmemProofs`, `LinkMboxProofs`, `LinkStoreProofs`, `WatchdogProofs`, `SelfTestProofs`, `RtpsProofs` | theorems about the module of the same name |
| `SelfTestClean` | the theorem about what the tests leave to each other, on top of `SelfTestProofs` |
| `MCCommand`, `MCLinkShmem`, `MCLinkMbox`, `MCLinkStore`, `MCWatchdog`, `MCSelfTest`, `MCRtps` | constants for TLC |

### Atomicity

The command service and the drivers are built for one processor:
`rtps-r52/init.c` leaves `CONFIGURE_MAXIMUM_PROCESSORS` at its default of one
(the loops over processors in `Watchdog` and `Rtps` are written for several and
are modelled so). An interrupt lock turns interrupts off, so a locked
section is one step, and so is a whole interrupt handler with respect to tasks.
(The locks named in the code would not survive a multiprocessor build:
`command.c:161` refers to a `q` that does not exist and `hpsc-mbox.c:197` to
`chan` before it is set. The uniprocessor macros ignore their argument.)
Between locked sections tasks interleave at every access to shared state.
Variables that are not `volatile` and are read twice (`cmd_handler.tid`,
`cmd_handled.cb`) may be re-read or not: the model allows both. What the other
processor does may come between any two accesses to shared memory or registers.

### Command

`q`, `head`, `tail` are `struct cmdq`, with the array contents kept after a
dequeue as in the code; `cmd_handler` and `cmd_handled` are the two contexts.
`pc[t]` is the position of handler task `t` in `cmd_handle_task`: "flush"
before `cmd_dequeue`, "handle" before the call of the server, "reply" in
`link_request_send`, "cb", "gcb" and "gcall" at the callbacks, "wait" in
`rtems_event_receive`, "exit" and "exiting" around the reset of `running`.
Producers are tasks that call `cmd_enqueue_cb`: insertion under the lock, the
test of `tid`, the event. `IsrEnqueue` is the same in one step, from the
mailbox interrupt. `ctl` is the position of the one task that starts and
destroys the handler and registers callbacks (`POSIX_Init`, a test, or the
shell task in `shutdown`). `fate`, `rc` and `called` are history variables that
only properties read.

A command is identified with its message, link and callback; of the message
only the type matters (`server_process`). `QueueFull` is the test as C parses
it, `head + (1 % CMDQ_LEN) == tail`. `HoldBack` restricts the callers: they do
not submit in the one case of a full ring that this test misses. Callbacks are
registered and unregistered when `command.h:28-42` allows it (`MayRegister`,
`MayEnqueue`): before a handler task is started, or while the queue is empty,
with nothing enqueued until it is done. Callback and argument are two stores,
and two loads in `cmd_handle`.

A panic in `link_recv_cmd` stops the model (`Halted`).

### LinkShmem

Two ends, each with a requester (`rpc`), a receiving and an ACK polling task
(`ppc`). A status word is a set of bits; setting or clearing one is a load and
a store. Request `n` carries `n`, and so does its reply. The server's command
queue is a sequence here (`Command` has the ring; a queue that overflows
panics). Both ends start unconnected: `link_shmem_connect` fails, or starts the
receiving task, after which `StartAckPoll` starts the other or stops the first
again, as `link_shmem_init` does. `exit` holds the polling tasks with
`SHM_EVENT_EXIT` pending, `link` the progress of `link_shmem_close` at each end,
`down` that of `shutdown` at the server.

Every wait may time out. The clock ends a wait at any moment (`EventTimeout`),
also while a polling task is between its test of `tid_requester` and its event;
the requester runs on later (`ClientGivesUp`, `ServerGivesUp`, `NotAnswered`),
and whatever polling tasks do in between falls into the gap that the comments
at `link.c:121` and `link.c:136` speak of. An event that comes when nobody waits
for it stays pending, as in RTEMS. The server may reply before the client has
polled for the ACK. `late` counts the waits of each end that have timed out and
is read by the properties and by the bound only. `PollFirst` says that polling
tasks have priority over the requester of their end (`init.c:46-50`: 10 before
20 and 100).

### LinkMbox

`hw` holds the registers of each channel, `chan` the driver's state of it.
`hw[i].cause` contains "A" (RCV) and "B" (ACK). `isr` is the position inside
`link_mbox_read`, the only part of an interrupt handler that the remote can
observe half-done: the message is read, RCV cleared, ACK set, the message passed
on. `link[l]` is the position in `link_mbox_connect` and `link_mbox_close`;
`link_disconnect` calls the latter as the code's callers do, `shutdown` after
the handler task has stopped, a test for its own link. The wait for an ACK may
time out at both sides (`AckTimeout`, `RemoteAckTimeout`), and the next message
is written all the same; `over` is a history variable with the channels where
this happened before the ACK came. `base` records whether a claim has set the
register base of a channel, `wild` that `hpsc_mbox_remove` used one that was
never set. The remote is external and keeps the protocol that the note in
`hpsc-mbox.h` prescribes; the hardware rules (only the owner writes CONFIG,
clearing it resets the channel) are taken from how the driver uses them.

### LinkStore

`lchain` is the chain of cells, `heap` their contents, `used` the cells that
are allocated; `free` keeps a cell's content until `malloc` gives it out again.
What runs with `lmtx` held is one step; `GetLink` and `FreeFirst` are the
accesses after the release. `raced` records the threads whose look-up or use
overlapped with an extraction by another thread, in which case the link is
freed under them whatever the store does: callers have to exclude it (shutdown
says so, `shutdown.c:77`), and the properties speak of the others.

### Watchdog

`ctl` is the one task that creates and destroys the watchdog tasks (`POSIX_Init`
and the shell), `aff` and `cpu` its affinity and processor. Priority 1 of the
watchdog tasks appears as `Runnable`: the control task does not run on a
processor whose watchdog task is ready, and a tick does not come before it has
run. Between the enable and the start up to `Delay` ticks may pass. `Garbage` is
what the uninitialised `events` may hold; `Interval` 2 and `Timeout` 4 keep the
ratio of `WDT_KICK_INTERVAL_TICKS` (0.5 s) to the 1 s timeout. A failed start
panics, which ends the model.

### SelfTest

`test` is the test that runs, with a number; the number names its stack context
in the timer, the channel, the global callback and the queued commands.
`pend` are the two events all tests share. Interrupts, the handler task, the
polling tasks and the remotes may take any order, any wait with a timeout may
time out, and everything that returns a status may fail. `cause` is a history
variable: the first thing in this test that may make it fail. It is cleared
when a test begins with nothing left of the one before, and stays otherwise.
`foreign` records the tests that were given the status of a command not theirs,
`kept` those whose timer handler could not be removed, see below. The timer
interrupts as often as it likes, up to one more than the test allows
(`MaxEvents`); the last one counts as a task that ran too late.

### Rtps

`config` is any set of options the `#error` lines allow. `pc` goes through
`POSIX_Init` and then `shutdown`; a loop over the processors is its index `i`
and whether the task has pinned itself in this round. `Migrate` is the
scheduler. Every step whose failure the code answers with a panic may panic, at
boot (`InitPanics`, `WatchdogPanics`) and in `shutdown` (a watchdog task that
cannot be stopped, a mailbox or timer driver that is not removed). A failed
assertion and a panic are ends of the model. The handler task looks at the exit
event only when it has found the queue empty (`handler` "wait"). `leaked` has
the links whose append to the store or whose disconnect has failed: a
shared-memory link whose polling task cannot be stopped stays, and the loop of
`shutdown` goes on. `shutdown.c:116` notes that pinning may fail if the affinity
of the task forbids it; the model's task may run anywhere, as the one `init.c`
configures.

The trigger registers are written with the indices of `gic.c` and compared with
`EdgeBit`, which is not computed from them: it is where the GIC architecture has
the mode of that interrupt.

### Faults

Definitions whose comment begins with "Fault:" are wrong versions of the
definition that follows them. No specification uses them: they are what the
properties are tried on, one for each property, to see that it can fail.

## Runs

| Run | Shows |
|---|---|
| `command_service` | safety of the command service; refinement of `CommandQueue` |
| `command_live` | commands are served, destroy returns |
| `shmem` | connect, request and reply over shared memory, close and shutdown, with every timeout; safety and liveness |
| `mbox_protocol` | messages, ACKs and their timeouts, channels and interrupts of mailbox links |
| `link_store` | the store implements the list; nodes have one owner; look-ups are right |
| `watchdog` | watchdogs are kicked in time, each by its own task, and stopping ends |
| `selftest` | tests end, fail only for a cause, and leave nothing to the next |
| `rtps` | boot and shutdown in every configuration |
| `command_overrun`, `command_register`, `shmem_fastserver`, `watchdog_garbage` | counterexamples, see Findings |

Bounds, and why they are enough to be interesting:

* `command_service`: a ring of 3 slots and 4 commands. The fourth is needed to
  refuse a command (at tail 1 or 2; at tail 0 the test fails) and to wrap
  around. Two handler tasks allow a restart, a failed start of a task that has
  gone, and the attempt to start a second one. One producer and interrupts can
  race with the handler and with destroy. Commands that only differ in name
  are symmetric.
* `command_live`: 2 commands, 2 tasks, one callback that is registered and
  unregistered any number of times. `command_register`: one task.
* `shmem`: two requests, so that buffers, events and late messages of one meet
  the next, and three trials in all, that is requests and waits that time out
  (`MaxTrials`): two requests and one timeout anywhere, or one request and two
  timeouts. Every order of closing and shutdown, and every failure of connect,
  comes with each. A queue of two commands can overflow, when a race between a
  late message and a new one brings a command twice.
* `mbox_protocol`: one server and one client link, 4 channels, 3 messages in
  all: two may follow each other on one channel with an ACK that comes late, and
  one may cross them. The remote may own the server's channels first, so
  connect fails at its first or second claim. The comparisons of a client's
  claim are with 0 and never fail.
* `link_store`: three threads, three links of which two share a name and one
  has none, and two cells, so that cells are used again and an append fails.
* `watchdog`: two processors, so that one is started and stopped while the
  other counts; the delay is the longest that the timeout allows.
* `selftest`: three tests in a row, any that boot or the shell may run, so that
  what one leaves can meet the next two; three timer events with one of
  tolerance, so that too few, enough and too many can be told apart; one command
  from the HPPS. `rtps`: two processors, two commands, all configurations.

### Fairness

`Command!Fairness` and `LinkShmem!Fairness` assume weak fairness of each
handler task, producer and polling task that is ready: RTEMS schedules by
priority, every task of higher priority here blocks again, and the commands
and interrupts in a run are finite. Nothing makes a remote acknowledge, so a
reply is not assumed to be acknowledged; with `timeout_ticks` set (10000 in
`init.c:43`) the wait ends by its timeout. Starting, destroying, registering,
making requests and closing are calls that need never be made; once made,
their steps are fair.

In `LinkShmem` no timeout is fair, so nothing there ends only because a wait
timed out: `RepliesArrive` follows from polling, writing and waking alone. A
polling task may be busy again and again while `link_shmem_close` waits for the
other one, so the steps that wait for a polling task are strongly fair: polling
tasks sleep `poll_ticks` between two polls, and a task of lower priority runs
then.

In `Watchdog` the clock ticks and ready watchdog tasks run. The control task is
preempted again and again by the watchdog task of its processor, so it gets
strong fairness: priority 100 runs whenever the task of priority 1 sleeps, which
it does for almost all of each interval. In `SelfTest` the test task, the
handler task and the local polling tasks are fair; interrupts and remotes are
not, so that `TestsEnd` holds by timeouts. In `Rtps` the steps of a shutdown and
the handler task are fair.

## Findings

With a run each, the counterexample is what TLC prints:

* `command_overrun`, `command.c:72`: `%` binds tighter than `+`, so with `head`
  in the last slot and `tail` 0 a full ring accepts a command, becomes empty
  and loses everything queued. With `CMDQ_LEN` 4 this takes four commands
  before the handler task runs.
* `shmem_fastserver`, `link.c:27`: ACK and reply are announced by the same
  event; if the reply is polled first the assertion on `tx_acked` fails. This
  fits the note that the shared-memory link test fails occasionally
  (`rtps-r52/Makefile.defconfig:28-33`).
* `command_register`, `command.c:141-142`: `command.h:28-33` allows callbacks to
  be registered while the queue is empty and nothing is enqueued. But the queue
  is also empty while the last command is being handled, and the handler task
  then finds the new callback with the argument of before.
* `watchdog_garbage`, `watchdog-cpu.c:26-32`: `events` is tested after a wait
  that timed out and set nothing. If the stack slot holds bit 0 the task exits
  after its first kick, and the watchdog it can no longer disable expires.

More counterexamples have no run of their own; each comes from the constants
given here, or from a property without its exception:

* `FailedEnqueueNotQueued` of `Command` (`command.c:165`) with a producer and a
  destroy: cmd_enqueue_cb returns failure when the handler task has just exited,
  though the command is queued; `link_recv_cmd` then panics.
* `WokenByAckOrReply` without the exception for `late` (`link.c:79`, `133`): an
  ACK at the moment of a timeout, or after it, leaves an event behind that wakes
  the next wait, and the assertion fails.
* `ReplyAnswersRequest` and `BufferReturned` without `Disturbed`
  (`link.c:116`): after a wait was given up, a late reply is returned to the next
  request, or written to the buffer of a request that has returned.
* `rctx["client"].read /\ ppc[<<"client", "recv">>] = "poll" => wait["client"] #
  "blocked"` in `LinkShmem` with one request (`link.c:43`): when ACK and reply are
  announced before the requester has taken the first event, the two merge. The
  reply is in the buffer, but the request waits for a second event and returns
  -2 by its timeout.
* `ppc[<<"server", "recv">>] # "panic"` in `LinkShmem` (`shmem.c:111-127`): a
  requester that gave up and writes again may load the status word before the
  server has cleared NEW of the first message and store it after; NEW is back,
  and so again when the ACK polling task clears the late ACK. The server reads
  the same message each time, in the end into a full queue, which is a panic.
* `ReadInOrder` and `AckedWasRead` without the exception for `over`
  (`link.c:20-34`): after a timeout the next message overwrites one that was not
  read, or is read twice, once for the RCV event of the old one and once for its
  own; and the ACK of the old message is taken for it.
* `OpenLinkHoldsChannels` with `From` the same for two links
  (`hpsc-mbox.c:199-202`): a refused claim destroys the holder's channel. All
  links of `src/` have channels of their own, so no run has this.
* `BaseInitialised` of `LinkMbox` with a channel that no link uses
  (`hpsc-mbox.c:525`): it is released through an uninitialised base.
* `GetIsStored` without the exception for `raced` (`link-store.c:75`): an
  extraction between the release of the mutex and the read of the node frees
  the node, which may by then be another link's.
* `ContextsAlive` without the exception for `foreign`
  (`hpsc-test/link-shmem.c:33`): the global callback is given the status of
  every command, so a command of the HPPS link, or the rest of the test before,
  ends the wait, and the link is freed while the handler task replies over it.
* `FailsForCause` without the cause "early" (`link.c:111-125`): a ping fails its
  assertion without any timeout when the reply is polled first. This is the
  failure `Makefile.defconfig:28-33` speaks of. Each of the other causes is
  needed as well: without "timeout", a test whose wait timed out leaves its event,
  or `tid_requester`, for the next one.
* `BootSafe` without the exception for `leaked` (`init.c:259`): the result of
  `link_store_append` is ignored and the test of the link fails its assertion.
* A connect that fails at its second claim (`link-mbox.c:104`) frees a link that
  a queued command may refer to. `init_server_links` panics then; no property
  is stated of it.

## Proofs

A proof has three facts for each inductive invariant: it holds at first, a step
keeps it, it implies the property. TLC checked every invariant named here on
the instance of its component's run before it was proved. What is assumed is
what the module that declares the constants assumes of them (sizes are natural
numbers, sets of nodes or tasks are finite where it matters), and what the
table says.

| Theorem | Property | Beyond the constants |
|---|---|---|
| `Command`: `TypeCorrect`, `HandlerOwns`, `SingleHandler`, `DestroyStops`, `WakeupNotLost` | `TypeOK`, `HandlerOwnsContext`, `SingleHandlerTask`, `DestroyStopsHandler`, `NoLostWakeup` | nothing |
| `QueueIntegrity`, `QueueRefines` | `QueueHoldsAccepted`, `QueueSpec` | `HoldBack` |
| `LinkShmem`: `TypeCorrect`, `FreedUnused`, `NoneStale` | `TypeOK`, `ClosedUnused`, `NoStaleCommands` | nothing: any timeouts, any order of polls |
| `NothingLost` | `MessageOrAckInFlight` | `PollFirst` |
| `LinkMbox`: `TypeCorrect` | `TypeOK` | nothing |
| `OpenHolds`, `CallbackAlive`, `InterruptsAre`, `InOrder`, `AckMeansRead`, `InFlightAlways` | `OpenLinkHoldsChannels`, `NoCallbackOnFreedLink`, `InterruptsHandled`, `ReadInOrder`, `AckedWasRead`, `MessageInFlight` | `OwnChannels` |
| `LinkStore`: `NodesOwned`, `LookupStable`, `StoreRefinesList` | `NodesAccountedFor`, `GetIsStored`, `ListSpec` | nothing |
| `Watchdog`: `TypeCorrect` | `TypeOK`, in `TypeInv` | nothing |
| `InTime`, `Kicked`, `Gone` | `KickedInTime`, `EnabledIsKicked`, `StoppedIsGone` | `Garbage = {FALSE}` |
| `SelfTest`: `TypeCorrect`, `ContextsLive`, `Clean` | `TypeOK`, `ContextsAlive`, `FailsForCause` | nothing |
| `Rtps`: `BootIsSafe`, `ShutdownIsClean` | `BootSafe`, `ShutdownClean` | one or two processors |

### Command

For every ring size, number of commands, tasks, producers and callbacks.

`HandlerInv` adds to `HandlerOwnsContext` that a start in progress has set the
context (`StartPending`), and that a context with `running` set belongs to a
task that is live or being started (`RunningIsLive`). Without these a start
could meet a context that says nothing about the tasks. `SingleHandlerTask`
follows: two live tasks would both be the one in the context. `DestroyStops`
uses `HandlerInv` in the state where `running` is found cleared. `NoLostWakeup`
is inductive relative to it: an event reaches a waiting task because the
context a producer reads is that task's.

`HoldBack` implies `[]QueueHoldsAccepted`: nobody submits in the one case that
the test of a full ring misses (run `command_overrun` shows what happens
otherwise). The inductive `RingInv` speaks of slots rather than of the set of
queued commands: every slot between `tail` and `head` holds a queued command,
no two the same, every queued command has a slot, and the command being handled
is not queued. `InsertSlots` and `RemoveSlots` say how the slots in use change
at the wrap, with the modulus removed by `AdvanceWraps`.

`QueueRefines` maps the ring to the sequence of its slots from `tail`
(`QueueSlots` says which slot holds which element). `InsertAppends` and
`RemoveIsTail` are the two lemmas about that mapping; `QueueStep` maps every
step to a step of `CommandQueue` or to a stutter. `TakenInv` is needed for the
history of the abstract queue: a command that a task holds was taken from it.

### LinkShmem

For any number of requests and timeouts. `TypeInv` contains `MsgInv`: a polling
task has a message in hand only if one was written. `CloseInv` says, for every
step of connect and `link_shmem_close`, which polling tasks and requesters of
that end exist, that the server hears nothing before the client has connected,
and that shutdown drops the commands of a link that is closed.

`NothingLost` needs one assumption, that polling tasks run before the requester
of their end: a requester that could come between the load and the store of its
ACK polling task would lose NEW (the fault `ScheduledAlways`). Its invariant
follows a bit from where it is set to where it is seen, through loads that are
not yet stored, and holds with timeouts, late ACKs and early replies.

### LinkMbox

For any number of links, channels and messages, and a remote that does anything
the protocol allows between any two steps of an interrupt handler, with
timeouts at both sides. `OwnChannels` says that no two links name the same
channel, as in `plat/mailbox-map.h`; two that do break `OpenLinkHoldsChannels`
(Findings). `ClaimInv` ties the driver's owner, callbacks and `active`, and the
enabled interrupts, to the position of the one link in connect and close that
has the channel. `CloseInv` says who may be sending when. `ProtocolInv`
relates, for each channel, the sender, the register with its events and the
receiver: the states a channel goes through from one message to the next
(`OneAtATime`), also half-way through `link_mbox_read`, with a sender that waits
or has given up. This holds until a message is written before the ACK of the
last one was seen (`over`). What holds on is `InFlight`: every set RCV is
followed by an ACK, so no sender waits in vain. Messages are numbered as they
are sent, and every number in a log is below the one on the way (`Fresh`), or up
to it (`LogInv`).

### LinkStore

For any finite set of nodes and any threads and links. `StoreInv` says that
chain, held nodes and free nodes are apart and no node occurs twice, that each
node on the chain holds a stored link, that an allocated node is on the chain or
owned by one thread, and that no two threads hold the same link.
`LookupStable` follows each reader from the node it has found to its read of
it, unless an extraction has overlapped (`raced`).
The chain is a sequence; extraction is `RemoveAt` at the least index of a name,
which `RemoveAtProperties`, `LeastNatural` and `NodeGetFirst` reduce to
arithmetic. `StoreRefinesList` maps it to the sequence of the links in its
nodes; `ShrinkRefines` is the step that extracts.

### Watchdog

For any number of processors and any `Interval`, `Timeout` and `Delay` that
`TimeAssumption` allows (the kick interval and the delay of a start are each
shorter than the timeout). `Garbage = {FALSE}` says that the uninitialised `events` does not
hold the exit event; run `watchdog_garbage` shows that it must. Start and stop
are loops over the processors, so `LoopInv` gives `CpuInv` for each: what its
task, context, counter and pending event are while the control task is before,
at or past it. The three properties follow, `KickedInTime` with the bound
`count + sleep <= Interval` of a task that waits.

### SelfTest

`Types` is `TypeOK` with its records as sets of functions, in which the provers
can update a field. `TestInv` says whose numbers may occur in the timer
(`InstalledInv`), the channel, the global callback and the queue (`OneInv`,
`FirstInv`), what has been set by the time a callback may run (`CallbackInv`)
and which request the handler task can be in (`RequestInv`): at each position
of a test those are its own, and at its end none. `RequestInv` has the exception
for `foreign`.

`CleanInv` (`SelfTestClean`) says, for a test that nothing has gone wrong in
(no `cause`), that the pending events are exactly those whose callbacks have
reported to the test that waits (`PendInv`), and what a test that was woken has
seen (`SeenInv`). It rests on the channel and the link of the running test
going through one exchange (`ChanClean`, `LinkClean`), and on a test's command
being handled once (`TestInv`). A test after a failed one starts with a cause
unless nothing is left of it; that its callbacks, interval and count do not
outlive it is part of the invariant at `Begin`.

### Rtps

For every configuration, any commands, and one or two processors as the code
has. `LoopInv` says where the task in a loop over the processors runs while it
is pinned. `SystemInv` says for each step of `POSIX_Init` and `shutdown` which
timers, watchdogs, mailboxes, links and commands there are (`TimerInv`,
`WdtInv`, `KickInv`, `MboxInv`, `LinkInv`); the assertions in the code are among
its consequences.
`RtitBit` computes register and bit of the timer's interrupt for each of the 16
numbers it may have.

### Only model-checked

Liveness, which is out of the prover's reach under fairness: `CommandsServed`,
`DestroyReturns` of `Command` and of `Watchdog`, `RepliesArrive`,
`CloseReturns`, `TestsEnd`, `ShutdownEnds`. Of the safety properties
`WokenByAckOrReply`, `ReplyAnswersRequest` and `BufferReturned` of `LinkShmem`:
with timeouts and early replies an invariant of the whole exchange has many more
stages than the one of a status bit, and is left for later. The counterexample
runs are what TLC prints.

## Not modelled

* Message contents and lengths (`hpsc-msg.c`), `printk`, the text of replies.
* The reply to a request over a mailbox, which does not touch the mailbox:
  `LinkShmem` has the wait for it.
* The event that `link.c:119` sends when the requester has gone between the test
  and the call: `RTEMS_ID_NONE` is `RTEMS_SELF`.
* Tests that are sequential code on data: `hpsc-test/shmem.c`, the LSIO SRAM,
  DMA and MMU tests. The shell's test of the mailbox to the HPPS, which
  nothing else runs (`shell-tests.c:211` lets `argc` 2 pass and uses
  `argv[2]`).
* `capture` and the compare registers of the timer, the memory map, the build.
* `trch/init.c`, a placeholder, and the vendored headers.

## Plan

All modules above are modelled, and the theorems listed are proved. Left are:

* the three safety properties of `LinkShmem` that are only model-checked: an
  invariant that says of each end at which stage of the exchange it is while no
  wait has timed out, with the early reply as a stage of its own;
* refinements that would make the proofs speak of the system as a whole: an
  abstract request and reply that `LinkShmem` implements until a wait is given
  up; an abstract channel with its ACK for `LinkMbox`; and the steps of `Rtps` for
  a watchdog and for the command service as steps of `Watchdog` and `Command`.
