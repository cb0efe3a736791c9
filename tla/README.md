# A verification model of linuxKerDev

This directory holds TLA+ models of the programs in `src/linuxKerDev`: a set of
drivers for the Kyouko2 graphics card (`graphicDriver/`) and a modified
linux-3.2.54 signal subsystem with a few new system calls (`syscallSignals/`).
The models are checked with TLC on small instances; nearly every safety property
is also proved with TLAPS for every value of the constants.

Line numbers below are those of `graphicDriver/dmaBuffer/dmaBuffer.c`,
`syscallSignals/signal.c` and `syscallSignals/RW/smunch.c` unless another file
is named.

## 1. Inventory

### 1.1 DMA ring (`dmaBuffer.c`, START_DMA and `dma_interrupt`)

*State.* A ring of `BUFFERS` (8) slots (`isFull`, `count`, a user address), the
static indices `fill` and `drain`, the static `size` shared by all callers, the
wait queue `dma_snooze`, the spinlock `lock`, and the register pair of the card.
*Operations.* The ioctl copies a size in, `initiateTransfer` queues it (starting
the card when the ring is empty, sleeping when it is full), and the ioctl copies
the address of the next slot out. The handler acknowledges the card, retires
slot `drain`, starts the next slot and wakes sleepers.
*Hard.* Two writers of one register pair; `fill = drain` means both full and
empty; the wait ends before the lock is taken back; a signal ends it early; the
line is shared; copies fail.
*Correct when* the card has one transfer at a time and it is the oldest request;
requests are carried once each, in order, with their sizes; nobody writes a
buffer in flight; what is accepted is drained and a sleeper returns.

### 1.2 Driver life cycle (open, release, BIND_DMA, mmap, VMODE, SYNC, init, exit)

*State.* Two register mappings, the interrupt, the DMA buffers and their user
mappings, the character device, all in one static structure without a count of
users. *Operations.* `dmaBuffer.c`, and its later version `driver.c`, set these
up and tear them down; `drawLineTriangle.c`, `contactWithGraphicCard.c` and
`launchModule.c` are earlier and smaller drivers with the same shape. Each has a
test program. *Hard.* Legal sequences of calls that use what is not yet or no
longer there (START before BIND, release without BIND, an open before the card is
probed), a handler and a card that go on while release takes things away, steps
that fail half way. *Correct when* nothing is used before it is acquired or after
it is given back, and each acquisition is given back once.

### 1.3 Signals in a thread group (`signal.c`)

*State.* A private and a shared set of pending signals, masks, actions,
`TIF_SIGPENDING`, the job-control bits of each thread, the flags, the stop count
and `curr_target` of the group. *Operations.* Sending (`do_send_sig_info` down to
`complete_signal`), delivery (`get_signal_to_deliver`), group stop
(`do_signal_stop`) and continue (`prepare_signal`), exit (`exit_signals`,
`zap_other_threads`), masks, actions, faults and `sigtimedwait`. Components meet
under `siglock`.
*Hard.* siglock is dropped between dequeueing a stop and stopping; SIGCONT,
SIGKILL and exit overtake a stop that several threads take part in; a thread
chosen for a shared signal blocks it or exits. *Correct when* no signal is
missed, the stop count is exact, nobody is left stopped or alive who should not
be, and the report of a continue is not lost.

*The entries behind the signals.* Each pending signal may have `sigqueue` entries
with its siginfo, counted against RLIMIT_SIGPENDING of the user, and a POSIX
timer allocates its own in advance (`sigqueue_alloc`, `send_sigqueue`,
`sigqueue_free`). *Hard.* The count is shared by processes that share no lock;
at the limit signals lose their siginfo or are refused; a timer's entry is freed
while it may be queued. *Correct when* every entry is counted, owned and freed
once, what was sent and not refused stays pending, and siginfos keep their order.

*The way to a target.* `kill`, `tkill`, `tgkill` and their relatives turn a number
into a task, check the caller's right, and send. *Hard.* The task is found under
RCU only, and may be released or replaced before its siglock is taken; kill then
looks again. *Correct when* the signal reaches the process that was meant, once,
or nobody, and only if the caller may (or might when it was looked up: a task
changes its credentials when it likes).

### 1.4 smunch and deepsleep (`RW/`)

`smunch(pid, bits)` ORs a set of signals into the private queue of a
single-threaded process, wakes it, and releases it if it is a zombie and SIGKILL
is among them. `deepsleep` sleeps uninterruptibly on a queue nobody wakes.
Both go around the code of 1.3 while sharing its state. *Hard.* The task is used
without a reference; `release_task` is called outside the lock; TIF_SIGPENDING
and `prepare_signal` are bypassed. `userCode/` holds the programs that exercise
them.

### 1.5 Signal counters

`sighand->counters` counts the signals sent (signal.c:1180); `init_sigcounter`
clears and `get_sigcounter` reads it. *Hard.* The array has `_NSIG` elements, is
indexed by numbers up to 64 and is cleared up to index 65; the task is looked up
without a lock.

### 1.6 The rest

`printTime` reads a clock (no state). `sched.h`, `unistd_64.h`, `Makefile` and
`kernel.sh` are kernel declarations and build steps; the helpers of `sched.h`
that signal.c uses are part of the model of 1.3. The `.cmd` and `.o` files are
generated.

`PROJECT.json` lists all of these, the hazards at their lines, and the lines each
definition models.

## 2. Modules

| module | models | builds on |
|---|---|---|
| `DmaRing` | 1.1, any number of callers, disturbances as a constant | |
| `MCDmaRing` | symmetry of the callers for TLC | `DmaRing` |
| `DmaQueue` | what START_DMA promises one caller: a bounded queue | |
| `DmaRefinement` | the mapping from the ring to the queue | `DmaRing`, `DmaQueue` |
| `DmaRingProofs` | theorems about the ring and the refinement | the above |
| `Kyouko2` | 1.2: five drivers, their test programs, any other program, the card | |
| `MCKyouko2` | the pairs of driver and program | `Kyouko2` |
| `Kyouko2Proofs` | theorems | `Kyouko2` |
| `Signal` | 1.3: the signals of one thread group | |
| `SignalProofs` | theorem: the types; where threads are, what a send can do | `Signal` |
| `SignalStopProofs` | theorems: group stop, continue, death | `SignalProofs` |
| `SignalMissedProofs` | theorem: no signal is missed | `SignalStopProofs` |
| `SignalQueue` | 1.3: the entries, the limit, timers | |
| `MCSignalQueue` | symmetry of processes and senders | `SignalQueue` |
| `SignalQueueProofs` | theorems | `SignalQueue` |
| `KillPath` | 1.3: lookup, permissions, results; 1.5 | |
| `MCKillPath` | the tasks and users of the instance | `KillPath` |
| `KillPathProofs` | theorems | `KillPath` |
| `Smunch` | 1.4 composed with 1.3 | `Signal` |
| `SmunchProofs` | theorems | `Smunch`, `SignalMissedProofs` |

A definition called *Mutant* in its comment is not part of the specification: it
is the definition below it with a plausible bug, and each of them is known to
break the property `PROJECT.json` names beside it.

### 2.1 `DmaRing`

A locked section is one action, since both sides take `lock` with interrupts off.
Outside it each of these is a step: `CopyFromUser` (into the shared `size`),
`Call` (`size` is read into `numBytes`, and an empty request returns),
`WaitEvent` and `Interrupted`, `CopyToUser` (with the `fill` of that moment), and
for the handler `ReadStatus`, `Acknowledge`, `WakeUp`. The first locked section
is three actions, `Suspend`, `StartCard` and `QueueBehind`; the second is
`QueueAfterWait`; the handler's is `Handle`. `CardDone` is the card, modelled
from how the driver uses it: writing the register pair starts a transfer, and its
end sets bit 1 of INFOSTATUS and raises the line. `busy` counts transfers, so
that a second write while one is in flight is a state of the model and not
excluded by it. `Env` admits the disturbances: a signal, another device on the
line, a failed copy. Behaviours begin where BIND_DMA ends.

`sync()` in the handler is a wait for the card's FIFO and changes nothing that
the model keeps; udelay and printk are left out. An address is the number of its
slot. The handler does not overlap itself (the kernel masks a running line).

### 2.2 `Signal`

One group of `NThreads` threads. A section under siglock is one action; the loop
of `get_signal_to_deliver`, which keeps the lock from one turn to the next, is
one action per turn, and a thread at `"loop"` or `"stop"` holds siglock
(`SiglockFree`). The window at line 2283 is the place `"orphan"`. `exit_signals`
reads the group without the lock and so is two actions. Pending sets are sets:
the signals are below SIGRTMIN, of which at most one of a kind is queued.

`send_signal` is the whole of `__send_signal`: `prepare_signal` gives the state
after the effects of stop and continue, `Target` the thread `complete_signal`
picks. `task_curr` of a thread that could run is any value (the `\E curr` in
`send_signal`). A stop is counted by `CountAfter`, `FlagsAfter` and `Warns`, the
three results of `task_participate_group_stop`, which two callers share. The
actions of kernel/exit.c (`do_group_exit`, `exit_notify`) and the way back to
user mode (`EnterSignal`) are external, modelled from what signal.c relies on.

`do_sigtimedwait` is two actions: it takes a signal or goes to sleep with its set
unblocked, and `WaitReturns`, after the timeout (`Wake`) or a signal, sets the
mask back and looks again. `real_blocked` is in the tests of `sig_ignored` and
`complete_signal` that use it. `force_sig_info` is a fault of the running thread;
the signals it is used for all dump core, so that `complete_signal` leaves the
rest to `get_signal_to_deliver`. sigsuspend is `set_current_blocked` and `Sleep`;
its mask is set back by architecture code.

Left out: ptrace, real-time signals (they are in `SignalQueue`), siginfo and exit
codes, SIGNAL_UNKILLABLE (the group is not init), exec and core dumps (a fatal
signal that dumps core ends in `do_group_exit` like the others), and the creation
of threads. `dequeue_signal` drops siglock once more, to rearm a periodic POSIX
timer whose signal it has taken (657-667): this too is left out. For a tty stop
the window at 2283 is of the same kind.

`counters` wraps at `CounterMod`. Nothing reads it yet, and the runs set the
modulus to 1 to keep it out of the state.

### 2.3 `Smunch`

`Smunch` extends `Signal`, so that smunch meets every state the target can be in.
A call is `SmunchFind` (the lookup), then one locked action (`SmunchRefused`,
`SmunchZombie`, `SmunchKill` or `SmunchSignals`) and `SmunchRelease`, which comes
after the unlock. `Wait` is the parent. `deepsleep` is a step of the target into
the state `"deep"`, which `Woken` does not end. The version in `RW` is modelled;
the copy in `driverCode` has a negation in line 41 that it lacks.

### 2.4 `Kyouko2`

A driver is data: for each file operation the sequence of steps it takes
(`dmaBuffer_release`, `driver_release`, ...), in the order of the source, and the
sequences of load and unload. `todo` is what is left of the call under way, so
that the handler, the card and the loader run between any two steps of it. A step
that touches registers leaves the card alone, but for those that matter: the
reboot, the interrupt enable, the acknowledge, the start of a transfer (`Write`).
The ring is a count of queued slots; its details are in `DmaRing`.

`maps`, `bufs`, `hooks`, `msi` are what exists in the kernel; `base`, `handle`,
`dma_mapped` are what the driver's variables say. Each open, and each allocation,
has a number, so that a pointer to something given back differs from one to its
successor. A program is the test program of the driver, call by call, or any
other. The test program follows its script and exits at the end of it; any other
calls what it likes, one call at a time, and exits between any two calls.
Mappings outlive the descriptor as they do in the kernel. `Faults` are the kernel
calls that may fail.

The device can be opened as soon as `cdev_add` is done. Until the probe the
physical address is 0 and `p_pci_dev` is null: a window mapped then shows
something that is not the card (its number is in `dud`, as is 0, the pointer that
a failed mapping leaves), and no access through it arrives (`Arrives`, `Write`).
A step that needs the device, or a register without a window, kills the program
(`Fault`). What is left then depends on where it was: in an ioctl the kernel
closes the file, and release runs over whatever BIND_DMA had got to; in open or
release the reference is never dropped, the module is pinned, and what the call
had not yet done is never done (`damage`, `Wrecked`); in START_DMA the ring's lock
stays held (`LockFree`). An access through a window that is gone may hit, miss
or fault, and dmaBuffer.c makes such accesses; the model admits all three.

### 2.5 `SignalQueue`

A send is two actions, since the user's count, which is not under siglock, is
raised (`Send`) and compared (`Enqueue`) separately; the siglock of the target is
held in between. `Allocated` may fail at any time. A signal is flushed
(`flush_signals`, `flush_itimer_signals`, `Discard`, `Exit`) or taken
(`dequeue_signal`, with the queue `From` says). `sigqueue_free` marks the entry
under the lock and frees it without (`FreeUnlocked`). What a take or a flush
removes from a list is said by the places that stay (`Kept`, `Nth`). `owed` and
`due` are history: the siginfos accepted and not handed over, and the signals
sent since one of their number was taken.

### 2.6 `KillPath`

A `struct pid` is a number with the task it was allocated for, so that a number
that is used again is a different one. A call looks the number up (`Enter`), finds
the task (`Find`), checks (`Check`) and locks and sends (`Send`); between these
the task may be released, replaced by the thread that execs (`TakeOver`), change
its credentials (`SetCreds`: setuid, or the end of an exec), and its number be
given away (`Fork`). `Unhashed` is what each call does when the lock cannot be
had. Sends to a group and to all go process by process (`SendAll`, `SendOne`,
`EndAll`) under `tasklist_lock`, which keeps the tasks from going, from being
replaced and from being forked, but not from changing their credentials.
`call.may` is a history: which of the tasks the call is about the caller has had
the right to signal since it looked them up, said by `MaySignal` apart from the
code. `counters` has the two words behind the array
that `init_sigcounter` clears too, and begins as whatever the slab held, since
nothing clears it for a new process.

## 3. What TLC checks

All runs allow the system to stop (`CHECK_DEADLOCK FALSE`): threads and programs
exit, the calls and sends of a behaviour are bounded, a module that failed to
load stays as it is, and a stalled ring suspends every caller.

| run | instance | shows |
|---|---|---|
| `dma_shared` | 3 slots, 2 callers, sizes 0 and 1, all disturbances; 641,000 states before symmetry is spent | `TypeOK`; the branch "Should not come here!!" is dead (`NeverComesHere`); `OneTransferAtATime`; `CarriesOldest`; no step disturbs a transfer (`CardUndisturbed`) |
| `dma_solo` | 4 slots, 1 caller, undisturbed, sizes 0 to 2 | `RingExact`, `NoOverwrite`, `OwnSlot`; the ring implements `DmaQueue` (`ImplementsQueue`); `AcceptedDrains` and `SuspendedReturns` |
| `dma_stall` | 3 slots, 1 caller | violated: `RequestIsStarted` |
| `dma_signal` | 3 slots, 1 caller, signals | violated: `NoOverwrite` |
| `driver_life` | 5 drivers, each with its test program and with any other; 4 slots, 3 opens, loads and mappings that fail; 3,683,000 states | `NoStaleAccess`, `OnlyBlindDie`, `NothingLeaks`, `GivesBackOnce`, `HandlerHooked`, `CardReadsLive`, `BindFindsIdle` |
| `signal_stop` | 2 threads, SIGKILL, SIGCONT, SIGTSTP; 55,000 states | `StopCountExact`, `NoWarning`, `NobodyLeftStopped`, `StoppedMeansStopped`, `DeathIsFinal`, `KillKills`, `ContinueReported`, `ReportNotLost` |
| `signal_delivery` | 2 threads, SIGSTOP, and SIGCONT, which they block and wait for; 66,000 states | `TypeOK`, `NoMissedSignal`, `StopOrContinue` |
| `signal_queue` | 2 processes, 2 senders and a timer, a limit of 2 in a cache of 3 entries; 137,000 states | `EntryOwned`, `QueuedIsPending`, `FirstInFirstOut`, `AtLeastOne`, `WithinLimit` |
| `kill_path` | init, a process of two threads, one of one, the caller, and a task to be forked, three of them with two sets of credentials; one call; 792,000 states | `KillExact`, `OnlyPermitted`, `KillReturns` |
| `smunch_kill` | 2 threads, one caller of smunch; 70,000 states | `ZombieGoes`, `DeepSleepEnds` |
| `smunch_signals` | 1 thread that faults, blocks, catches, ignores and waits, 2 callers, a parent that waits; 42,000 states | `NoMissedSignal` under smunch |
| `smunch_runs_on` | 1 thread | violated: `SmunchKills` |

*Bounds.* Three slots let the ring be empty, partly full and full, and make "the
next slot", "the slot before" and "this one" different; four slots in the
undisturbed run leave a full ring time to drain past a caller that was woken. Two
callers are enough for each of the two locked sections to be overtaken by the
other; the proofs remove this bound. Two threads are enough for one to stop, exit
or block while the other acts, and one kind each of stop, continue and kill
covers the classes `prepare_signal` tells apart; SIGSTOP and the tty stops take
different paths and are in different runs. SIGCONT is ignored by default and
never queued unless it is blocked, hence the mask of `signal_delivery`; it can be
pending for the waiting thread and for the group at once, so that one of the two
is left when the waiter blocks it again. In `signal_queue` two senders can both
have raised the count, legacy signals go over the limit, and the cache runs out.
In `kill_path` one call is enough, since a send to one task is one step under
siglock; the other tasks come, go and change their credentials during it. A
task's two sets of credentials differ in whether the caller may signal it. In
`driver_life` the faults are those of the load and of the mapping; failed
allocations and interrupts are admitted by the model and left out, as the drivers
overlook them (5.5). Three opens let a program that binds be followed by one that
does not and by one that does. Graphics rounds of the test programs are cut to
six. The order in which `retarget_shared_pending` and `complete_signal` walk over
three and more threads is in the model but not in these runs.

*Fairness.* In `DmaRing`: the card completes a transfer, the handler runs when
the line is raised, and a caller inside the kernel is scheduled (weak fairness of
each); nobody has to call START_DMA. In `Signal`: strong fairness of each
thread's own steps, since the spinlock is a ticket lock, which serves waiters in
order, and a runnable thread with TIF_SIGPENDING gets back to user mode; sending,
sleeping, waking and calling exit are never required. `Smunch` adds the same for
a call that has begun, and `KillPath` assumes that a call that has begun is
scheduled (weak fairness; its steps wait for nothing but spinlocks).

## 4. Where the code does not do what it says

* `dma_stall`: the second locked section (216-221) only queues. If the ring has
  drained completely between the wakeup and the lock, nothing is in flight and
  nobody starts the request; every later one queues behind it (against the
  comment at 223).
* `dma_signal`: the result of `wait_event_interruptible` (212) is dropped, so a
  signal lets a request overwrite a slot of a full ring (comments at 210, 214).
* `smunch_runs_on`: SIGKILL is queued without TIF_SIGPENDING (46-47). A stopped
  target dies, since it passes the head of `get_signal_to_deliver` when woken;
  one that is awake does not notice (log text at 45).

The models also hold the following, which no run singles out:

* The address handed back after the request that fills the ring is that of the
  buffer in flight (306-307); `testdmaBuffer.c:73` writes it at once.
* `dmaBuffer.c` writes a register after the window is unmapped and frees the
  interrupt later still (67-85), and frees the buffers of an earlier program when
  one opens and leaves without BIND_DMA; `driver.c` has both right, which
  `driver_life` checks. A program that is killed in graphics mode still leaves
  the card reading freed buffers until the reboot.
* `pci_register_driver` reports failure by a negative number that
  `dmaBuffer_init` takes for success (408), and a load that fails after `cdev_add`
  leaves the device registered, in every driver.
* A program that opens a device after the probe and before `pci_enable_device`
  reaches registers of a card that is not enabled; closing it reboots the card
  (against the comment at `contactWithGraphicCard.c:124`).
* A program that opens a device before the probe maps physical address 0 and
  writes there. If it binds, it dies of a null `p_pci_dev` with the buffers
  allocated; release then frees them, or dies of the same pointer (driver.c:80), or,
  if the probe has come meanwhile, frees an interrupt nobody requested.
* `counters` is indexed by 1 to 64 and has 64 elements (sched.h:451 says that
  signal 1 is at 0); `init_sigcounter` clears 66 and dereferences a task it did
  not find. Signals refused at the limit are counted, those sent by
  `kill_pid_info_as_cred` are not.
* Credentials are checked before siglock is taken (signal.c:1284, 2772, 1375), so
  that a task that execs a set-user-ID program in between is signalled by a caller
  that has just lost the right. No text of the repository promises otherwise, and
  `OnlyPermitted` says what is left.
* The branch of `smunch` for other signals to a zombie repeats the condition of the
  first (smunch.c:41) and is never taken: the signal is queued like that of a live
  process (against the log text at 42; the copy in `driverCode` has it right).
* Two callers of `smunch`, or one and a parent that waits, may release the same
  zombie twice, as siglock is dropped before `release_task` (smunch.c:37).
* SIGKILL by `smunch` while the target is in the window of a tty stop (signal.c,
  2283) starts no group exit: `do_signal_stop` finds nobody who may stop, not even
  the target, the first WARN_ON_ONCE of `task_participate_group_stop` (326) fires,
  and the target sleeps in TASK_STOPPED with SIGKILL pending. (`NoWarning` fails
  in an instance of `Smunch` with SIGTSTP and a pattern of SIGKILL alone; section
  5.6 shows that it holds without SIGKILL.)

`smunch` also queues stop signals and SIGCONT side by side (smunch.c:52), which
`prepare_signal` exists to prevent; as no text of the repository promises that
`smunch` keeps its rules, there is no run for it.

## 5. What is proved

Each theorem holds for every value of the constants that the named assumptions of
its module allow: any number of slots, callers, threads, processes, tasks,
senders, timers and rounds. The bounds of section 3 do not enter: where a model
caps a counter (`MaxSends`, `MaxCalls`, the opens), the theorem is for every cap.

### 5.1 The DMA ring

For any number of slots above one and any set of sizes (`BuffersAssumption`,
`SizesAssumption`, `EnvAssumption`).

In `DmaRingProofs`, for any set of callers and any disturbances: `TypeCorrect`,
`CardHasOneTransfer`, `CardCarriesOldest`, `HandlerFindsRequest` and
`CardIsUndisturbed` (properties `TypeOK`, `OneTransferAtATime`, `CarriesOldest`,
`NeverComesHere`, `CardUndisturbed`). None of the last four is inductive alone.
The invariant is

    RingInv == TypeOK /\ AckSeesDone /\ OneTransferAtATime /\ CarriesOldest

`OneTransferAtATime` needs `CarriesOldest` (a caller starts the card only on an
empty ring, and while a transfer is in flight the ring is not empty), and
`CarriesOldest` needs `OneTransferAtATime` (the handler that retires a slot
starts the next transfer, so there must be none). `AckSeesDone` says that the
status bit a handler carries towards its locked section still stands in the
register until it acknowledges: without it the acknowledge could produce a
transfer out of nothing. One lemma for each action preserves `RingInv`; the
arithmetic of the window (`NextSlot`, `InWindow`) is in lemmas of its own.

In the same module, for one undisturbed caller (`Solo`): `SoloRingIsExact`,
`SoloNeverOverwrites`, `SoloQueuesOwnSlot`, and `SoloImplementsQueue`, the step
simulation of `DmaQueue`. `SoloInv` adds to `RingInv` that the full slots are the
window, that what the caller was promised still holds at each place of its call,
and that the registers and the queue agree on the size. The mapping takes the
counts of the slots from `drain` to `fill` for the queue, a caller that has
copied its size and not yet queued for the pending request, and takes a transfer
for carried from the card's completion until the handler retires the slot:
`ReadStatus` and `Acknowledge` map to stutters.

### 5.2 Signals in a thread group

`SignalProofs`, `SignalStopProofs` and `SignalMissedProofs`, for any number of
threads, any set of signals in use, and any masks, handlers and sets to wait for.
`SignalTypes` states `TypeOK`, which is inductive with the fact that the leader
stays in the list (`next_thread` needs somebody there). All else rests on

    JobInv == TypeOK /\ Whereabouts /\ KillNotHeldUp /\ JobControl

`JobControl` is the four invariants of the runs (`StopCountExact`, `NoWarning`,
`NobodyLeftStopped`, `StoppedMeansStopped`), none of which is inductive, with

* `StopBits`: a thread that has to stop has TIF_SIGPENDING and is counted; in a
  dying group only a thread on its way out can still have the bits;
* `EveryoneTakesPart`: while a stop is under way or done every thread is leaving,
  stopped, or has still to stop, and one has stopped: the initiator stops in the
  step that sets the bits, so the count cannot reach 0 with nobody left to wake;
* `SomeoneReports`: the bits for the parent stand only while a thread that
  SIGCONT woke has not yet taken the lock back;
* `DyingDoesNotStop`: a dying group has no stop and nobody in TASK_STOPPED.

`Whereabouts` ties the state of a thread to its place in the code, and
`KillNotHeldUp` says that SIGKILL is neither caught nor blocked, and only pending
for a thread that is leaving unless the group dies: without it a thread that
initiates a stop could be refused the stop itself (`fatal_signal_pending`).

A step of `Next` touches much that is not job control. `NextIsJobStep` shows that
each action is one of eight things to it (`JobStep`: a thread takes part in a
stop, reports, leaves, the group is continued or dies, ...), and the invariant is
proved for these eight. `SignalStopCount`, `SignalNoWarning`,
`SignalNobodyLeftStopped` and `SignalStoppedMeansStopped` follow, and from
the same classification the action properties `SignalDeathIsFinal` and
`SignalReportNotLost`. `SignalStopOrContinue` needs `JobInv` for the dying group,
for which alone `prepare_signal` leaves stop and continue signals side by side.

`SignalNoMissedSignal` is inductive given `JobInv`, and hard for one reason: a
thread that was to look for a shared signal may block it, exit, or stop waiting
for it. `RetargetFinds` shows that `retarget_shared_pending`, which walks from
the thread onward and drops from its set what each thread it wakes can take,
misses no signal that another thread can take: the nearest of those threads is
woken or knows already. `OneThread` reduces every step of a running thread to
that, and the sends to `Target`: the thread `complete_signal` picks is able to
take the signal, or there was none, or it knows already.

### 5.3 The sigqueue entries

`SignalQueueProofs`, for any number of processes, senders, timers, signals and
entries, and any limit. The assumptions are those of `SignalQueue`; the cache,
the senders and the timers are finite, and a sender is not a timer.

    QInv == /\ Types /\ OnePlace /\ OneHolder /\ InUse /\ Marked /\ Charged
            /\ QueuedIsPending /\ FirstInFirstOut /\ AtLeastOne

`EntryOwned` counts places and holders, which is awkward to preserve, and so
`QInv` says the same by equality: two places with one entry are one place, two
timers with one entry are one timer. `Marked` is what makes `sigqueue_free` safe:
the entry of an armed timer carries SIGQUEUE_PREALLOC, so that who takes or
flushes its signal does not free it, and the entry a timer is about to free
without the lock is in no queue. `Charged` counts those between the increment and
the comparison too, which is what the action property `SignalQueueWithinLimit`
needs. That property is about the senders; an entry of a timer (`sigqueue_alloc`,
1515) is counted and not compared in it. A list after a take or a flush is the
subsequence at the places that stay; the lemmas on `Nth` and `Kept` (it is in
order, at every place that stays, and nowhere else) come from the cardinality of
initial segments rather than from recursion over the list.

### 5.4 The way to a target

`KillPathProofs`, for any tasks, users, sessions and number of calls, on the
initial tables `TablesAssumption` describes (a group has its leader's number, a
task not yet in use has none).

    PathInv == TaskInv /\ CallInv /\ CredTypes /\ KillExact /\ OnlyPermitted

`TaskInv` has the reason why a lookup under RCU is enough: a struct pid belongs
to one task at a time and to one process for life, since a task that was used is
not used again and the exec of another thread hands it on within the process.
`CallInv` carries this to the call: the task found belongs to the process behind
the number, or has been released (`Found`); whoever the caller may signal now is
in its history (`Remembered`); a task that passed the check and still has its
process is in it too (`Checked`), although its credentials may have changed
since; and a group send that has answered success has reached somebody
(`Answered`). `OnlyPermitted` is therefore about the right since the last lookup
of that very task: at the moment of the send it may be gone (section 4).
`KillPathExact` and `KillPathOnlyPermitted` state the two invariants of the run.

### 5.5 The driver life cycle

`Kyouko2Proofs`, for the five drivers, the test program of each or any other,
any number of opens and rounds, and any of the failures.

    IInv == drv \in Drivers /\ OnlyBlindDie /\ (~ Wrecked => KInv)
    KInv == /\ drv \in Drivers /\ opens \in Nat /\ dud \subseteq 0 .. opens
            /\ module \in {"none", "going"} => ~ Referenced /\ todo = <<>>
            /\ Phases /\ Transfers /\ Position

Once a program has died in open or release (`Wrecked`), what the driver's
variables say need not be so, and the invariant says no more than that this took
a program that did not find the card (`OnlyBlindDie`), except in `dmaBuffer.c` and
`drawLineTriangle.c`, which have other ways to die.

The code has no variable that says how far a call has come; `Phases` reads it off
the steps that are left. For each n it says what the driver holds with n steps of
BIND_DMA or release to go (`Holds`), so that each step of a call leads
from one line to the next and a closed device holds nothing. A program that dies
in the middle of BIND_DMA puts release to work on what it had got by then: this is
why `Holds` says for certain of the interrupt and of MSI only what every program
that found the card has. `Window` tells a window that shows the card from one that
was mapped before the probe and from none. `Transfers`: in driver.c a transfer, a
completion and a handler that has acknowledged it are one
token, and while it is there a slot is queued, buffers are bound and release has
not passed the reboot. `Position` places the test program: the token is gone at
the end of graphics mode, which is before the program leaves.

| theorem | holds |
|---|---|
| `Kyouko2OnlyBlindDie`, `Kyouko2BindFindsIdle` | always; the latter says nothing of a wreck |
| `Kyouko2NothingLeaks` | always, also of programs that die in BIND_DMA; it says nothing of a wreck |
| `Kyouko2NoStaleAccess` | always; it is about behaviours in which every program has found the card so far (`dud = {}`) |
| `Kyouko2GivesBackOnce` | of such behaviours, if no allocation and no `request_irq` fails |
| `Kyouko2HandlerHooked` | unless wrecked, if no `request_irq` fails |
| `Kyouko2CardReadsLive` | unless wrecked, if no allocation fails |

The drivers print the last two failures and go on (dmaBuffer.c:274), after
which the interrupt is enabled without a handler and release gives back what was
never there. The run makes the same choice.

### 5.6 smunch

`SmunchProofs`. `SmunchNoMissedSignal` and `SmunchStopCount` are for any number
of callers that do not send SIGKILL. There what smunch and deepsleep do is
nothing to job control (`SmunchUndisturbed`), and `JobInv` and `NoMissedSignal`
go on to hold although `prepare_signal` and `complete_signal` are passed by.
SIGKILL is left out for a reason: without TIF_SIGPENDING it is missed
(`smunch_runs_on`), and it breaks `KillNotHeldUp`, on which the proof of
`NoWarning` rests (section 4).

### 5.7 What is only model-checked

* Liveness (`AcceptedDrains`, `SuspendedReturns`, `KillKills`, `ContinueReported`,
  `ZombieGoes`, `DeepSleepEnds`, `KillReturns`): these need fairness and ENABLED,
  which are out of reach of the prover.
* The three runs that expect a violation are counterexamples and have nothing to
  prove.

## 6. Not modelled

* ptrace, in all of signal.c; `do_notify_parent` and what the parent makes of it
  (a wait for the child is an external action where it matters); sigaltstack;
  the notifier of the DRM lock in `__dequeue_signal`; core dumps.
* Copying to and from user space and the compatibility variants of the system
  calls (`sigpending`, `sgetmask`, `signal`, `siginfo` layouts): they convert and
  call what is modelled.
* Two processes with the Kyouko2 device open at once, and a second BIND_DMA: the
  drivers keep one static structure and refuse neither, so that nothing can be
  said of them that holds.
* What the drivers draw; `sync()` ends, which depends on the card.
* printTime, headers and build files (1.6): no state.
* Memory: what lies behind the counters, or in a freed task.

## 7. Plan

1. `JobControl`: an abstract group that is running, stopping, stopped or dying,
   and `Signal` shown to implement it; the eight kinds of step in 5.2 are its
   actions already.
2. What of `KillNotHeldUp` and `SmunchStopCount` holds with SIGKILL among the
   patterns for a target that is not in the window of a tty stop.
