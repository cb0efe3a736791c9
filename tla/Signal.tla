-------------------------------- MODULE Signal --------------------------------
(***************************************************************************)
(* Signals in one thread group, from syscallSignals/signal.c: generation   *)
(* (do_send_sig_info down to complete_signal), dequeueing and delivery     *)
(* (get_signal_to_deliver), job control (do_signal_stop and the effects of *)
(* SIGCONT), blocking (set_current_blocked), sigtimedwait, sigaction,      *)
(* faults (force_sig_info) and thread exit.                                *)
(*                                                                         *)
(* Everything under sighand->siglock is one action, except the loop of     *)
(* get_signal_to_deliver, which keeps the lock from one turn to the next:  *)
(* a thread at "loop" or "stop" holds siglock.                             *)
(*                                                                         *)
(* Left out: ptrace, the real-time signals (all signals are below          *)
(* SIGRTMIN, so that at most one of each is queued), siginfo and exit      *)
(* codes, SIGNAL_UNKILLABLE (the group is not init), and the moment in     *)
(* which dequeue_signal drops siglock to rearm a periodic POSIX timer.     *)
(***************************************************************************)
EXTENDS Integers, FiniteSets, FiniteSetsExt

CONSTANTS
    NThreads,   \* the threads are 1 .. NThreads, and 1 is the group leader
    Signals,    \* the signals that are sent
    Masks,      \* the sets of signals that the threads block
    Catchable,  \* the signals whose action the threads change ...
    Handlers,   \* ... and what to
    Waits,      \* the sets that sigtimedwait is called with
    Forced,     \* the signals that faults of the threads raise
    CounterMod  \* where an unsigned counter wraps (2^32 in the code)

SIGKILL == 9
SIGCONT == 18
SIGSTOP == 19

Threads == 1 .. NThreads
Leader  == 1

(* The classes of linux/signal.h, by number on x86. *)
SYNCHRONOUS_MASK     == {4, 5, 7, 8, 11}
SIG_KERNEL_STOP_MASK == {SIGSTOP, 20, 21, 22}
SIG_KERNEL_IGNORE    == {17, SIGCONT, 23, 28}
SIG_KERNEL_COREDUMP  == {3, 4, 5, 6, 7, 8, 11, 24, 25, 31}
SIG_KERNEL_ONLY      == {SIGKILL, SIGSTOP}

AllSignals == Signals \cup {SIGKILL}

ASSUME ThreadsAssumption == NThreads \in Nat \ {0}
ASSUME SignalsAssumption == Signals \subseteq 1 .. 31
ASSUME MasksAssumption ==
    \A m \in Masks : m \subseteq Signals \ SIG_KERNEL_ONLY
ASSUME CatchableAssumption == Catchable \subseteq Signals \ SIG_KERNEL_ONLY
ASSUME WaitsAssumption == \A w \in Waits : w \subseteq Signals
ASSUME ForcedAssumption == Forced \subseteq SYNCHRONOUS_MASK \cap Signals
ASSUME CounterAssumption == CounterMod \in Nat \ {0}
ASSUME HandlersAssumption ==
    Handlers \subseteq {"SIG_DFL", "SIG_IGN", "fn", "oneshot"}

VARIABLES
    list,               \* the threads of the group that are not released
    pending,            \* t->pending.signal
    shared,             \* signal->shared_pending.signal
    blocked,            \* t->blocked
    wait,               \* what t waits for in sigtimedwait, and t->real_blocked
    handler,            \* sighand->action[sig-1].sa.sa_handler
    tif,                \* TIF_SIGPENDING
    state,              \* t->state; "deep", which no signal ends, is in Smunch
    jobctl,             \* the JOBCTL_STOP_ bits of t->jobctl
    exiting,            \* PF_EXITING
    sigflags,           \* signal->flags
    group_stop_count,
    curr_target,
    counters,           \* sighand->counters, the signals sent
    pc,                 \* where a thread is
    warned              \* whether a WARN_ON_ONCE has fired

queues == <<pending, shared>>
masks  == <<blocked, wait>>
group  == <<sigflags, group_stop_count>>
vars   == <<list, queues, masks, handler, tif, state, jobctl, exiting,
            group, curr_target, counters, pc, warned>>

JobctlBits == {"STOP_PENDING", "STOP_CONSUME", "STOP_DEQUEUED"}
FlagBits   == {"GROUP_EXIT", "STOP_STOPPED", "STOP_CONTINUED",
               "CLD_STOPPED", "CLD_CONTINUED"}

TypeOK ==
    /\ list \subseteq Threads
    /\ pending \in [Threads -> SUBSET AllSignals]
    /\ shared \in SUBSET AllSignals
    /\ blocked \in [Threads -> SUBSET Signals]
    /\ wait \in [Threads -> [these : SUBSET Signals, real : SUBSET Signals]]
    /\ handler \in [AllSignals -> {"SIG_DFL", "SIG_IGN", "fn", "oneshot"}]
    /\ tif \in [Threads -> BOOLEAN]
    /\ state \in [Threads -> {"running", "sleep", "deep", "stopped", "dead"}]
    /\ jobctl \in [Threads -> SUBSET JobctlBits]
    /\ exiting \in [Threads -> BOOLEAN]
    /\ sigflags \in SUBSET FlagBits
    /\ group_stop_count \in 0 .. NThreads
    /\ curr_target \in Threads
    /\ counters \in [AllSignals -> 0 .. CounterMod - 1]
    /\ pc \in [Threads -> {"user", "wait", "relock", "loop", "stop", "orphan",
                           "exit", "exiting", "exitlock", "exited", "gone"}]
    /\ warned \in BOOLEAN

NotWaiting == [these |-> {}, real |-> {}]

(* A group that has just been created. *)
Init ==
    /\ list = Threads
    /\ pending = [t \in Threads |-> {}]
    /\ shared = {}
    /\ blocked = [t \in Threads |-> {}]
    /\ wait = [t \in Threads |-> NotWaiting]
    /\ handler = [s \in AllSignals |-> "SIG_DFL"]
    /\ tif = [t \in Threads |-> FALSE]
    /\ state = [t \in Threads |-> "running"]
    /\ jobctl = [t \in Threads |-> {}]
    /\ exiting = [t \in Threads |-> FALSE]
    /\ sigflags = {} /\ group_stop_count = 0
    /\ curr_target = Leader
    /\ counters = [s \in AllSignals |-> 0]
    /\ pc = [t \in Threads |-> "user"]
    /\ warned = FALSE

-----------------------------------------------------------------------------
(* siglock is free but for a thread inside the loop of                     *)
(* get_signal_to_deliver, which holds it.                                  *)
SiglockFree == \A t \in Threads : pc[t] \notin {"loop", "stop"}

thread_group_empty(t) == list = {t}

signal_group_exit == "GROUP_EXIT" \in sigflags

(* How far along the ring of threads u comes after t. *)
Distance(t, u) == (u - t) % NThreads

(* Mutant: the ring does not wrap. *)
NextThreadUnwrapped(t) == t + 1

(* The first thread of the list after t. *)
next_thread(t) ==
    CHOOSE u \in list :
        \A v \in list : Distance(t + 1, u) <= Distance(t + 1, v)

sig_handler_ignored(h, sig) ==
    h = "SIG_IGN" \/ (h = "SIG_DFL" /\ sig \in SIG_KERNEL_IGNORE)

real_blocked(t) == wait[t].real

sig_ignored(t, sig) ==
    /\ sig \notin blocked[t] \cup real_blocked(t)
    /\ sig_handler_ignored(handler[sig], sig)

sig_fatal(sig) ==
    /\ sig \notin SIG_KERNEL_IGNORE \cup SIG_KERNEL_STOP_MASK
    /\ handler[sig] = "SIG_DFL"

fatal_signal_pending(t) == tif[t] /\ SIGKILL \in pending[t]

next_signal(set) == Min(IF set \cap SYNCHRONOUS_MASK # {}
                          THEN set \cap SYNCHRONOUS_MASK ELSE set)

(* Mutant: a stopped thread is not woken to die. *)
WokenWithoutKill(st, t, kill) ==
    IF st[t] = "sleep" THEN "running" ELSE st[t]

(* What signal_wake_up(t, kill) leaves in t->state, st being the states    *)
(* before it; `kill' is TASK_WAKEKILL, which also ends a stop.             *)
Woken(st, t, kill) ==
    IF st[t] = "sleep" \/ (kill /\ st[t] = "stopped") THEN "running" ELSE st[t]

(* Mutant: no bit is cleared. *)
ClearNothing(ts) == jobctl

(* task_clear_jobctl_pending for the threads ts: the other STOP bits go    *)
(* with JOBCTL_STOP_PENDING.                                               *)
ClearJobctl(ts) == [t \in Threads |-> IF t \in ts THEN {} ELSE jobctl[t]]

(* recalc_sigpending for a thread with these pending sets. *)
Recalc(pend, shr, blk, jc) ==
    "STOP_PENDING" \in jc \/ (pend \cup shr) \ blk # {}

-----------------------------------------------------------------------------
(* Generating a signal: __send_signal under siglock. *)

(* Mutant: SIGCONT leaves the stop signals in the queues. *)
RemovedOneWay(sig) ==
    IF sig \in SIG_KERNEL_STOP_MASK /\ ~ signal_group_exit THEN {SIGCONT} ELSE {}

(* The signals that prepare_signal takes out of all queues. *)
Removed(sig) ==
    IF signal_group_exit THEN {}
    ELSE IF sig \in SIG_KERNEL_STOP_MASK THEN {SIGCONT}
    ELSE IF sig = SIGCONT THEN SIG_KERNEL_STOP_MASK ELSE {}

Continues(sig) == sig = SIGCONT /\ ~ signal_group_exit

(* Mutant: a stop in progress is not told from none. *)
WhyOnlyStopped == IF "STOP_STOPPED" \in sigflags THEN {"CLD_CONTINUED"} ELSE {}

(* What the parent is to be told. *)
Why == IF "STOP_STOPPED" \in sigflags THEN {"CLD_CONTINUED"}
       ELSE IF group_stop_count # 0 THEN {"CLD_STOPPED"} ELSE {}

(* What prepare_signal makes of the state. *)
prepare_signal(sig) ==
    [pending |-> [t \in Threads |-> IF t \in list THEN pending[t] \ Removed(sig)
                                                  ELSE pending[t]],
     shared  |-> shared \ Removed(sig),
     jobctl  |-> IF Continues(sig) THEN ClearJobctl(list) ELSE jobctl,
     state   |-> [t \in Threads |->
                    IF Continues(sig) /\ t \in list /\ state[t] = "stopped"
                      THEN "running" ELSE state[t]],
     flags   |-> IF Continues(sig) /\ Why # {}
                   THEN Why \cup {"STOP_CONTINUED"} ELSE sigflags,
     count   |-> IF Continues(sig) /\ Why # {} THEN 0 ELSE group_stop_count]

(* wants_signal; `curr' are the threads on a processor (task_curr). *)
wants_signal(sig, t, st, curr) ==
    /\ sig \notin blocked[t]
    /\ ~ exiting[t]
    /\ sig = SIGKILL \/ (st[t] # "stopped" /\ (t \in curr \/ ~ tif[t]))

(* The thread complete_signal picks, 0 when none needs to be woken. *)
Target(sig, p, grp, st, curr) ==
    LET wanting == {t \in list : wants_signal(sig, t, st, curr)}
    IN  IF p \in wanting THEN p
        ELSE IF ~ grp \/ thread_group_empty(p) \/ wanting = {} THEN 0
        ELSE CHOOSE t \in wanting : \A u \in wanting :
                 Distance(curr_target, t) <= Distance(curr_target, u)

(* The signal is dropped: ignored, or of a kind already queued. *)
Drop(prep) ==
    /\ pending' = prep.pending /\ shared' = prep.shared
    /\ jobctl' = prep.jobctl /\ state' = prep.state
    /\ sigflags' = prep.flags /\ group_stop_count' = prep.count
    /\ UNCHANGED <<tif, curr_target>>

(* It takes the whole group down at once. *)
StartGroupExit(pend, shr, st) ==
    /\ shared' = shr
    /\ sigflags' = {"GROUP_EXIT"} /\ group_stop_count' = 0
    /\ pending' = [t \in Threads |-> IF t \in list THEN pend[t] \cup {SIGKILL}
                                                   ELSE pend[t]]
    /\ jobctl' = ClearJobctl(list)
    /\ tif' = [t \in Threads |-> t \in list \/ tif[t]]
    /\ state' = [t \in Threads |-> IF t \in list THEN Woken(st, t, TRUE)
                                                 ELSE st[t]]

(* __send_signal(sig, p) to the group (grp) or to thread p alone. *)
send_signal(sig, p, grp) ==
    LET prep == prepare_signal(sig)
        pend == IF grp THEN prep.pending
                ELSE [prep.pending EXCEPT ![p] = @ \cup {sig}]
        shr  == IF grp THEN prep.shared \cup {sig} ELSE prep.shared
    IN  IF \/ sig_ignored(p, sig)
           \/ sig \in (IF grp THEN prep.shared ELSE prep.pending[p])
          THEN Drop(prep)
          ELSE \E curr \in SUBSET {t \in list : state[t] = "running"} :
               LET t == Target(sig, p, grp, prep.state, curr)
               IN  IF /\ t # 0 /\ sig_fatal(sig)
                      /\ "GROUP_EXIT" \notin prep.flags
                      /\ sig \notin real_blocked(t)
                      /\ sig \notin SIG_KERNEL_COREDUMP
                     THEN /\ StartGroupExit(pend, shr, prep.state)
                          /\ curr_target' = IF t = p THEN curr_target ELSE t
                     ELSE /\ pending' = pend /\ shared' = shr
                          /\ jobctl' = prep.jobctl
                          /\ sigflags' = prep.flags
                          /\ group_stop_count' = prep.count
                          /\ IF t = 0
                               THEN /\ state' = prep.state
                                    /\ UNCHANGED <<tif, curr_target>>
                               ELSE /\ state' = [prep.state EXCEPT ![t] =
                                         Woken(prep.state, t, sig = SIGKILL)]
                                    /\ tif' = [tif EXCEPT ![t] = TRUE]
                                    /\ curr_target' = IF t = p THEN curr_target
                                                               ELSE t

(* do_send_sig_info counts the signal, whatever has become of it. *)
Count(sig) == counters' = [counters EXCEPT ![sig] = (@ + 1) % CounterMod]

(* do_send_sig_info for kill(2), to the process, ... *)
Kill(sig) ==
    /\ SiglockFree /\ Leader \in list
    /\ send_signal(sig, Leader, TRUE) /\ Count(sig)
    /\ UNCHANGED <<list, masks, handler, exiting, pc, warned>>

(* ... and for tkill(2), to one thread. *)
Tkill(t, sig) ==
    /\ SiglockFree /\ t \in list
    /\ send_signal(sig, t, FALSE) /\ Count(sig)
    /\ UNCHANGED <<list, masks, handler, exiting, pc, warned>>
-----------------------------------------------------------------------------
(* Group stop. *)

(* task_participate_group_stop(t), with these jobctl bits and this count:  *)
(* the new count and flags.                                                *)
CountAfter(jc, n) == IF "STOP_CONSUME" \in jc /\ n # 0 THEN n - 1 ELSE n

(* Mutant: the first thread that stops reports the whole group stopped. *)
FlagsAfterFirst(jc, n) ==
    IF "STOP_CONSUME" \in jc THEN {"STOP_STOPPED"} ELSE sigflags

FlagsAfter(jc, n) ==
    IF /\ "STOP_CONSUME" \in jc /\ CountAfter(jc, n) = 0
       /\ "STOP_STOPPED" \notin sigflags
      THEN {"STOP_STOPPED"} ELSE sigflags

(* The two WARN_ON_ONCE of task_participate_group_stop. *)
Warns(jc, n) == \/ "STOP_PENDING" \notin jc
                \/ "STOP_CONSUME" \in jc /\ n = 0

(* Mutant: nothing is checked again once siglock was released. *)
MayInitiateAlways(jc) == TRUE

(* do_signal_stop initiates a stop only when a dequeued stop signal was    *)
(* not cancelled since, and the group is not dying.                        *)
MayInitiate(jc) == "STOP_DEQUEUED" \in jc /\ ~ signal_group_exit

(* The threads task_set_jobctl_pending accepts the stop for. *)
StopTargets(t) ==
    {u \in list : /\ u = t \/ state[u] # "stopped"
                  /\ ~ fatal_signal_pending(u) /\ ~ exiting[u]}

(* do_signal_stop by thread t, whose own bits are jc, when it does stop:   *)
(* start the stop unless one is pending already, take part in it, go to    *)
(* sleep in TASK_STOPPED and release siglock.                              *)
StopNow(t, jc) ==
    LET fresh   == "STOP_PENDING" \notin jc
        targets == IF fresh THEN StopTargets(t) ELSE {}
        bits    == [u \in Threads |->
                       LET old == IF u = t THEN jc ELSE jobctl[u]
                       IN  IF u \in targets
                             THEN old \cup {"STOP_PENDING", "STOP_CONSUME"}
                             ELSE old]
        count   == IF fresh THEN Cardinality(targets) ELSE group_stop_count
    IN  /\ group_stop_count' = CountAfter(bits[t], count)
        /\ sigflags' = FlagsAfter(bits[t], count)
        /\ warned' = (warned \/ Warns(bits[t], count))
        /\ jobctl' = [bits EXCEPT ![t] = {}]
        /\ tif' = [u \in Threads |->
                      tif[u] \/ (u \in targets /\ u # t)]
        /\ state' = [u \in Threads |->
                      IF u = t THEN "stopped"
                      ELSE IF u \in targets THEN Woken(state, u, FALSE)
                      ELSE state[u]]
        /\ pc' = [pc EXCEPT ![t] = "relock"]

-----------------------------------------------------------------------------
(* Delivery: get_signal_to_deliver, by a thread t. *)

Goto(t, l) == pc' = [pc EXCEPT ![t] = l]

(* On the way back to user mode TIF_SIGPENDING is noticed. *)
EnterSignal(t) ==
    /\ pc[t] = "user" /\ state[t] = "running" /\ tif[t]
    /\ Goto(t, "relock")
    /\ UNCHANGED <<list, queues, masks, handler, tif, state, jobctl,
                   exiting, group, curr_target, warned>>

(* SIGNAL_CLD_MASK: the report to the parent that is due. *)
CldBits == sigflags \cap {"CLD_STOPPED", "CLD_CONTINUED"}

(* Mutant: the bits are reported but not taken. *)
NotifyParentAgain(t) ==
    /\ pc[t] = "relock" /\ state[t] = "running" /\ SiglockFree
    /\ CldBits # {} /\ UNCHANGED vars

(* The first thread after SIGCONT takes the CLD_ bits and tells the parent *)
(* outside the lock.                                                       *)
NotifyParent(t) ==
    /\ pc[t] = "relock" /\ state[t] = "running" /\ SiglockFree
    /\ CldBits # {} /\ sigflags' = sigflags \ CldBits
    /\ UNCHANGED <<list, queues, masks, handler, tif, state, jobctl,
                   exiting, group_stop_count, curr_target, pc, warned>>

(* Mutant: a thread that was stopped does not look for a report due. *)
AtLoopUnchecked(t) ==
    \/ pc[t] = "loop"
    \/ pc[t] = "relock" /\ state[t] = "running" /\ SiglockFree

(* t is at the head of the for loop, with siglock. *)
AtLoop(t) ==
    \/ pc[t] = "loop"
    \/ /\ pc[t] = "relock" /\ state[t] = "running" /\ SiglockFree
       /\ CldBits = {}

(* A stop that another thread initiated. *)
JoinStop(t) ==
    /\ AtLoop(t) /\ "STOP_PENDING" \in jobctl[t]
    /\ StopNow(t, jobctl[t])
    /\ UNCHANGED <<list, queues, masks, handler, exiting, curr_target>>

(* dequeue_signal finds nothing: back to user mode. *)
NoSignal(t) ==
    /\ AtLoop(t) /\ "STOP_PENDING" \notin jobctl[t]
    /\ (pending[t] \cup shared) \subseteq blocked[t]
    /\ tif' = [tif EXCEPT ![t] = FALSE]
    /\ Goto(t, "user")
    /\ UNCHANGED <<list, queues, masks, handler, state, jobctl, exiting,
                   group, curr_target, warned>>

(* dequeue_signal, of what is not in mask: the private queue first, then   *)
(* the shared one.                                                         *)
FromPrivate(t, mask) == pending[t] \ mask # {}
Dequeued(t, mask) ==
    next_signal((IF FromPrivate(t, mask) THEN pending[t] ELSE shared) \ mask)
Dequeue(t, sig, mask) ==
    IF FromPrivate(t, mask)
      THEN pending' = [pending EXCEPT ![t] = @ \ {sig}] /\ UNCHANGED shared
      ELSE shared' = shared \ {sig} /\ UNCHANGED pending

(* The recalc_sigpending and the marker at the end of dequeue_signal. *)
AfterDequeue(t) == Recalc(pending'[t], shared', blocked'[t], jobctl[t])
MarkDequeued(t, sig) ==
    IF sig \in SIG_KERNEL_STOP_MASK THEN jobctl[t] \cup {"STOP_DEQUEUED"}
                                    ELSE jobctl[t]

(* One turn of the loop that takes a signal, up to what becomes of it. *)
Take(t, sig) ==
    /\ AtLoop(t) /\ "STOP_PENDING" \notin jobctl[t]
    /\ ~ ((pending[t] \cup shared) \subseteq blocked[t])
    /\ sig = Dequeued(t, blocked[t])
    /\ Dequeue(t, sig, blocked[t])
    /\ UNCHANGED masks

(* A handler runs, or the signal is ignored and the loop goes round. *)
Deliver(t) ==
    \E sig \in AllSignals :
        /\ Take(t, sig)
        /\ handler[sig] # "SIG_DFL" \/ sig \in SIG_KERNEL_IGNORE
        /\ tif' = [tif EXCEPT ![t] = AfterDequeue(t)]
        /\ jobctl' = [jobctl EXCEPT ![t] = MarkDequeued(t, sig)]
        /\ Goto(t, IF sig_handler_ignored(handler[sig], sig) THEN "loop"
                                                             ELSE "user")
        /\ handler' = IF handler[sig] = "oneshot"
                        THEN [handler EXCEPT ![sig] = "SIG_DFL"] ELSE handler
        /\ UNCHANGED <<list, state, exiting, group, curr_target, warned>>

(* SIGSTOP stops at once; the tty stops drop the lock to look at the       *)
(* process group first.                                                    *)
TakeStop(t) ==
    \E sig \in SIG_KERNEL_STOP_MASK :
        /\ Take(t, sig) /\ handler[sig] = "SIG_DFL"
        /\ tif' = [tif EXCEPT ![t] = AfterDequeue(t)]
        /\ jobctl' = [jobctl EXCEPT ![t] = MarkDequeued(t, sig)]
        /\ Goto(t, IF sig = SIGSTOP THEN "stop" ELSE "orphan")
        /\ UNCHANGED <<list, handler, state, exiting, group, curr_target,
                       warned>>

(* is_current_pgrp_orphaned: tty stops do nothing in an orphaned group. *)
IsOrphaned(t) ==
    /\ pc[t] = "orphan"
    /\ Goto(t, "relock")
    /\ UNCHANGED <<list, queues, masks, handler, tif, state, jobctl,
                   exiting, group, curr_target, warned>>

(* do_signal_stop(signr), with siglock kept or taken back.  A stop that    *)
(* was cancelled in between is dropped, and the loop goes round.           *)
TryStop(t) ==
    /\ pc[t] = "stop" \/ (pc[t] = "orphan" /\ SiglockFree)
    /\ IF "STOP_PENDING" \in jobctl[t] \/ MayInitiate(jobctl[t])
         THEN StopNow(t, jobctl[t])
         ELSE Goto(t, "loop") /\ UNCHANGED <<tif, state, jobctl, group, warned>>
    /\ UNCHANGED <<list, queues, masks, handler, exiting, curr_target>>

(* Anything else is fatal. *)
TakeFatal(t) ==
    \E sig \in AllSignals :
        /\ Take(t, sig) /\ sig_fatal(sig)
        /\ tif' = [tif EXCEPT ![t] = AfterDequeue(t)]
        /\ Goto(t, "exit")
        /\ UNCHANGED <<list, handler, state, jobctl, exiting, group,
                       curr_target, warned>>

-----------------------------------------------------------------------------
(* Exit. *)

(* exit(2) and exit_group(2), called by the thread itself. *)
CallExit(t) ==
    /\ pc[t] = "user" /\ state[t] = "running"
    /\ pc' \in {[pc EXCEPT ![t] = l] : l \in {"exit", "exiting"}}
    /\ UNCHANGED <<list, queues, masks, handler, tif, state, jobctl,
                   exiting, group, curr_target, warned>>

(* zap_other_threads(t). *)
zap_other_threads(t) ==
    LET others == list \ {t}
        zapped == {u \in others : state[u] # "dead"}
    IN  /\ group_stop_count' = 0
        /\ jobctl' = ClearJobctl(others)
        /\ pending' = [u \in Threads |->
              IF u \in zapped THEN pending[u] \cup {SIGKILL} ELSE pending[u]]
        /\ tif' = [u \in Threads |-> u \in zapped \/ tif[u]]
        /\ state' = [u \in Threads |-> IF u \in zapped THEN Woken(state, u, TRUE)
                                                      ELSE state[u]]

(* do_group_exit, which is in kernel/exit.c. *)
do_group_exit(t) ==
    /\ pc[t] = "exit"
    /\ IF signal_group_exit \/ thread_group_empty(t)
         THEN UNCHANGED <<pending, tif, state, jobctl, group>>
         ELSE /\ SiglockFree
              /\ sigflags' = {"GROUP_EXIT"}
              /\ zap_other_threads(t)
    /\ Goto(t, "exiting")
    /\ UNCHANGED <<list, shared, masks, handler, exiting, curr_target, warned>>

(* The threads retarget_shared_pending wakes for t: the first after t that *)
(* can take a signal of `which', for each of these signals.                *)
Retargeted(t, which) ==
    LET others == {u \in list \ {t} : ~ exiting[u]}
        left(u) == {s \in shared \cap which :
                      \A v \in others :
                          Distance(t, v) < Distance(t, u) => s \in blocked[v]}
    IN  {u \in others : left(u) \ blocked[u] # {} /\ ~ tif[u]}

WakeAll(ts) ==
    /\ tif' = [u \in Threads |-> u \in ts \/ tif[u]]
    /\ state' = [u \in Threads |-> IF u \in ts THEN Woken(state, u, FALSE)
                                               ELSE state[u]]

(* exit_signals looks at the group before it takes siglock: there is       *)
(* nothing to hand over in a group of one or a dying one.                  *)
exit_signals(t) ==
    /\ pc[t] = "exiting"
    /\ IF thread_group_empty(t) \/ signal_group_exit
         THEN exiting' = [exiting EXCEPT ![t] = TRUE] /\ Goto(t, "exited")
         ELSE UNCHANGED exiting /\ Goto(t, "exitlock")
    /\ UNCHANGED <<list, queues, masks, handler, tif, state, jobctl, group,
                   curr_target, warned>>

(* The rest of it, under siglock: hand over the shared signals and take    *)
(* part in a pending stop, but only if TIF_SIGPENDING is set.              *)
ExitLocked(t) ==
    /\ pc[t] = "exitlock" /\ SiglockFree
    /\ exiting' = [exiting EXCEPT ![t] = TRUE]
    /\ WakeAll(IF tif[t] THEN Retargeted(t, AllSignals \ blocked[t]) ELSE {})
    /\ IF tif[t] /\ "STOP_PENDING" \in jobctl[t]
         THEN /\ group_stop_count' = CountAfter(jobctl[t], group_stop_count)
              /\ sigflags' = FlagsAfter(jobctl[t], group_stop_count)
              /\ warned' = (warned \/ Warns(jobctl[t], group_stop_count))
              /\ jobctl' = [jobctl EXCEPT ![t] = {}]
         ELSE UNCHANGED <<jobctl, group, warned>>
    /\ Goto(t, "exited")
    /\ UNCHANGED <<list, queues, masks, handler, curr_target>>

(* exit_notify and release_task, in kernel/exit.c: the thread is dead; all *)
(* but the leader leave the list at once.                                  *)
exit_notify(t) ==
    /\ pc[t] = "exited" /\ SiglockFree
    /\ state' = [state EXCEPT ![t] = "dead"]
    /\ Goto(t, "gone")
    /\ IF t = Leader
         THEN UNCHANGED <<list, pending, curr_target>>
         ELSE /\ list' = list \ {t}
              /\ pending' = [pending EXCEPT ![t] = {}]
              /\ curr_target' = IF curr_target = t THEN next_thread(t)
                                                   ELSE curr_target
    /\ UNCHANGED <<shared, masks, handler, tif, jobctl, exiting, group, warned>>

-----------------------------------------------------------------------------
(* What a thread does to its own signals. *)

(* __set_task_blocked: the threads it wakes for signals t now blocks. *)
Reblocked(t, newset) ==
    IF tif[t] /\ ~ thread_group_empty(t)
      THEN Retargeted(t, newset \ blocked[t]) ELSE {}

(* sigprocmask. *)
set_current_blocked(t, newset) ==
    /\ pc[t] = "user" /\ state[t] = "running" /\ SiglockFree
    /\ LET woken == Reblocked(t, newset)
       IN  /\ tif' = [u \in Threads |->
                 IF u = t THEN Recalc(pending[t], shared, newset, jobctl[t])
                          ELSE u \in woken \/ tif[u]]
           /\ state' = [u \in Threads |-> IF u \in woken
                           THEN Woken(state, u, FALSE) ELSE state[u]]
    /\ blocked' = [blocked EXCEPT ![t] = newset]
    /\ UNCHANGED <<list, queues, wait, handler, jobctl, exiting, group,
                   curr_target, pc, warned>>

(* dequeue_signal by sigtimedwait: whatever is there of `these', blocked   *)
(* or not.  SIGKILL and SIGSTOP cannot be waited for.                      *)
Unwanted(these) == AllSignals \ (these \ SIG_KERNEL_ONLY)
TakeWaited(t, these) ==
    IF (pending[t] \cup shared) \subseteq Unwanted(these)
      THEN UNCHANGED <<queues, jobctl>>
      ELSE LET sig == Dequeued(t, Unwanted(these))
           IN  /\ Dequeue(t, sig, Unwanted(these))
               /\ jobctl' = [jobctl EXCEPT ![t] = MarkDequeued(t, sig)]

(* do_sigtimedwait: a signal is there, or the thread goes to sleep with    *)
(* what it waits for unblocked; or the timeout is zero.                    *)
do_sigtimedwait(t, these, timeout) ==
    /\ pc[t] = "user" /\ state[t] = "running" /\ SiglockFree
    /\ TakeWaited(t, these)
    /\ IF queues' = queues /\ timeout
         THEN /\ blocked' = [blocked EXCEPT ![t] = @ \cap Unwanted(these)]
              /\ wait' = [wait EXCEPT ![t] = [these |-> these, real |-> blocked[t]]]
              /\ state' = IF AfterDequeue(t) THEN state
                          ELSE [state EXCEPT ![t] = "sleep"]
              /\ Goto(t, "wait")
         ELSE UNCHANGED <<masks, state, pc>>
    /\ tif' = [tif EXCEPT ![t] = AfterDequeue(t)]
    /\ UNCHANGED <<list, handler, exiting, group, curr_target, warned>>

(* Mutant: the mask is set back without a look at who else may take what   *)
(* is blocked again.                                                       *)
ReblockedAlone(t) == {}

(* The threads woken when the mask is set back. *)
WaitReblocked(t) == Reblocked(t, real_blocked(t))

(* The timeout or a signal has ended the sleep: the mask is set back, and  *)
(* only then the signal is looked for, which may have come in between.     *)
WaitReturns(t) ==
    /\ pc[t] = "wait" /\ state[t] = "running" /\ SiglockFree
    /\ blocked' = [blocked EXCEPT ![t] = real_blocked(t)]
    /\ wait' = [wait EXCEPT ![t] = NotWaiting]
    /\ TakeWaited(t, wait[t].these)
    /\ tif' = [u \in Threads |-> IF u = t THEN AfterDequeue(t)
                                  ELSE u \in WaitReblocked(t) \/ tif[u]]
    /\ state' = [u \in Threads |-> IF u \in WaitReblocked(t)
                    THEN Woken(state, u, FALSE) ELSE state[u]]
    /\ Goto(t, "user")
    /\ UNCHANGED <<list, handler, exiting, group, curr_target, warned>>

(* force_sig_info, by a fault of t: the signal can neither be blocked nor  *)
(* ignored, and is queued for t alone.  Its default is to dump core, so    *)
(* that complete_signal leaves the group to get_signal_to_deliver.         *)
force_sig_info(t, sig) ==
    /\ pc[t] = "user" /\ state[t] = "running" /\ SiglockFree
    /\ IF sig \in blocked[t] \/ handler[sig] = "SIG_IGN"
         THEN handler' = [handler EXCEPT ![sig] = "SIG_DFL"] ELSE UNCHANGED handler
    /\ blocked' = [blocked EXCEPT ![t] = @ \ {sig}]
    /\ pending' = [pending EXCEPT ![t] = @ \cup {sig}]
    /\ tif' = [tif EXCEPT ![t] = @ \/ sig \in blocked[t] \/ sig \notin pending[t]]
    /\ UNCHANGED <<list, shared, wait, state, jobctl, exiting, group,
                   curr_target, pc, warned>>

(* A signal whose new action is to ignore it is discarded everywhere. *)
do_sigaction(t, sig, h) ==
    /\ pc[t] = "user" /\ state[t] = "running" /\ SiglockFree
    /\ handler' = [handler EXCEPT ![sig] = h]
    /\ LET gone == IF sig_handler_ignored(h, sig) THEN {sig} ELSE {}
       IN  /\ shared' = shared \ gone
           /\ pending' = [u \in Threads |-> IF u \in list THEN pending[u] \ gone
                                                        ELSE pending[u]]
    /\ UNCHANGED <<list, masks, tif, state, jobctl, exiting, group,
                   curr_target, pc, warned>>

(* An interruptible sleep, as in sys_pause: schedule() does not sleep with *)
(* a signal pending.  The event slept for may also come.                   *)
Sleep(t) ==
    /\ pc[t] = "user" /\ state[t] = "running" /\ ~ tif[t]
    /\ state' = [state EXCEPT ![t] = "sleep"]
    /\ UNCHANGED <<list, queues, masks, handler, tif, jobctl, exiting, group,
                   curr_target, pc, warned>>

Wake(t) ==
    /\ state[t] = "sleep"
    /\ state' = [state EXCEPT ![t] = "running"]
    /\ UNCHANGED <<list, queues, masks, handler, tif, jobctl, exiting, group,
                   curr_target, pc, warned>>

-----------------------------------------------------------------------------
(* The steps a thread takes by itself once a signal is pending or it       *)
(* exits.  Only senders change the counters.                               *)
Step(t) ==
    /\ \/ EnterSignal(t) \/ NotifyParent(t) \/ JoinStop(t) \/ NoSignal(t)
       \/ Deliver(t) \/ TakeStop(t) \/ IsOrphaned(t) \/ TryStop(t)
       \/ TakeFatal(t) \/ WaitReturns(t)
       \/ do_group_exit(t) \/ exit_signals(t) \/ ExitLocked(t) \/ exit_notify(t)
    /\ UNCHANGED counters

Send == \E sig \in Signals : Kill(sig) \/ \E t \in Threads : Tkill(t, sig)

Local(t) ==
    /\ \/ CallExit(t) \/ Sleep(t) \/ Wake(t)
       \/ \E m \in Masks : set_current_blocked(t, m)
       \/ \E w \in Waits, timeout \in BOOLEAN : do_sigtimedwait(t, w, timeout)
       \/ \E sig \in Forced : force_sig_info(t, sig)
       \/ \E sig \in Catchable, h \in Handlers : do_sigaction(t, sig, h)
    /\ UNCHANGED counters

Next == Send \/ \E t \in Threads : Step(t) \/ Local(t)

(* A thread with a signal pending returns to user mode and handles it, and *)
(* one that exits goes on exiting; nobody has to send or to sleep.  Strong *)
(* fairness, because siglock is a ticket lock: a thread that waits for it  *)
(* gets it, however often the others come back.                            *)
Fairness == \A t \in Threads : SF_vars(Step(t))

Spec == Init /\ [][Next]_vars /\ Fairness

-----------------------------------------------------------------------------
(* Generating a stop signal discards a pending SIGCONT and the other way   *)
(* round, in every queue: unless the group is dying the two are never      *)
(* pending together.                                                       *)
AllPending == shared \cup UNION {pending[t] : t \in list}

StopOrContinue ==
    signal_group_exit \/ SIGCONT \notin AllPending
                      \/ AllPending \cap SIG_KERNEL_STOP_MASK = {}

(* group_stop_count is the number of threads that still have to take part  *)
(* in the group stop, through every race with SIGCONT and exit; a dying    *)
(* group counts nobody.                                                    *)
StopCountExact ==
    group_stop_count =
        IF signal_group_exit THEN 0 ELSE
        Cardinality({t \in list :
                       {"STOP_PENDING", "STOP_CONSUME"} \subseteq jobctl[t]})

(* Neither WARN_ON_ONCE of task_participate_group_stop ever fires. *)
NoWarning == ~ warned

(* A thread sleeps in TASK_STOPPED only while its group is stopped or      *)
(* stopping: nobody is left behind by a SIGCONT or a SIGKILL.              *)
NobodyLeftStopped ==
    \A t \in Threads : state[t] = "stopped" =>
        "STOP_STOPPED" \in sigflags \/ group_stop_count > 0

(* A group reported as stopped has no thread that still runs. *)
StoppedMeansStopped ==
    "STOP_STOPPED" \in sigflags =>
        \A t \in list : exiting[t] \/ state[t] = "stopped"

(* A thread that will look at the queues before it runs user code: TIF is  *)
(* set and it does not sleep, or it is inside get_signal_to_deliver.       *)
Alert(t) == \/ tif[t] /\ state[t] # "sleep"
            \/ pc[t] \in {"relock", "loop", "stop", "orphan"}

(* No signal is missed (set_current_blocked: "to ensure the process can't  *)
(* miss a shared signal we are going to block").  Whenever some thread     *)
(* does not block a signal that is pending for the group, one of these     *)
(* will look for it, or will hand it on when it exits or blocks it; and a  *)
(* thread with an unblocked signal of its own will look for that.  A dying *)
(* group takes no more signals.                                            *)
NoMissedSignal ==
  signal_group_exit \/
    /\ \A s \in shared :
          LET takers == {t \in list : ~ exiting[t] /\ s \notin blocked[t]}
          IN  takers # {} => \E t \in takers : Alert(t)
    /\ \A t \in list :
          ~ exiting[t] /\ pending[t] \ blocked[t] # {} => Alert(t)

(* A group that has begun to die does not come back: no stop, continue or  *)
(* exit that was under way takes SIGNAL_GROUP_EXIT off again.              *)
DeathIsFinal == [][signal_group_exit => signal_group_exit']_vars

(* ... and it does die: every thread exits, the stopped and the sleeping   *)
(* ones and those in the middle of a group stop included.                  *)
KillKills == signal_group_exit ~> \A t \in Threads : state[t] = "dead"

(* The CLD_ bits prepare_signal leaves for the threads that SIGCONT wakes  *)
(* are picked up: "the first thread which returns from do_signal_stop()    *)
(* will take ->siglock, notice SIGNAL_CLD_MASK, and notify its parent".    *)
ContinueReported == CldBits # {} ~> CldBits = {}

(* Until then they stay, through every new stop that begins or completes   *)
(* in between, unless the group dies.                                      *)
ReportNotLost ==
    [][CldBits # {} => CldBits' # {} \/ signal_group_exit'
                                     \/ \E t \in Threads : NotifyParent(t)]_vars
=============================================================================
