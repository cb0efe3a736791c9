-------------------------------- MODULE Smunch --------------------------------
(***************************************************************************)
(* The system calls smunch (RW/smunch.c) and deepsleep (RW/deepsleeper.c), *)
(* composed with the signal code they go around: smunch writes the pending *)
(* set of its target itself, and may release it.                           *)
(*                                                                         *)
(* The target is the leader of the group that Signal models.  Its parent   *)
(* may wait for it, as release_task is then called from two sides.         *)
(***************************************************************************)
EXTENDS Signal

CONSTANTS
    Callers,    \* the processes that call smunch
    Patterns,   \* the sets of signals they send
    Reaps       \* whether the parent waits for its child

ASSUME PatternsAssumption == Patterns \subseteq SUBSET Signals
ASSUME CallersAssumption == IsFiniteSet(Callers)
ASSUME ReapsAssumption == Reaps \in BOOLEAN

VARIABLES
    cpc,        \* where a caller is in smunch
    pattern,    \* its bit_pattern
    released    \* how often release_task was called for the leader

smunchvars == <<cpc, pattern, released>>
allvars    == <<vars, smunchvars>>

SmunchInit ==
    /\ Init
    /\ cpc = [c \in Callers |-> "idle"]
    /\ pattern = [c \in Callers |-> {}]
    /\ released = 0

-----------------------------------------------------------------------------
(* find_task_by_vpid: a task is found until it is released.  The reference *)
(* is used after rcu_read_unlock, and so may be stale in what follows.     *)
SmunchFind(c, pat) ==
    /\ cpc[c] = "idle" /\ released = 0
    /\ cpc' = [cpc EXCEPT ![c] = "found"]
    /\ pattern' = [pattern EXCEPT ![c] = pat]
    /\ UNCHANGED <<vars, released>>

(* exit_state & (EXIT_ZOMBIE | EXIT_DEAD). *)
Zombie == state[Leader] = "dead"

Done(c) == cpc' = [cpc EXCEPT ![c] = "idle"]

(* The early returns: no sighand any more, or more than one thread. *)
SmunchRefused(c) ==
    /\ cpc[c] = "found" /\ SiglockFree
    /\ released > 0 \/ ~ thread_group_empty(Leader)
    /\ Done(c)
    /\ UNCHANGED <<vars, pattern, released>>

(* t is the single thread of its group and siglock is taken. *)
SmunchLocked(c) ==
    /\ cpc[c] = "found" /\ SiglockFree
    /\ released = 0 /\ thread_group_empty(Leader)

(* A zombie that gets SIGKILL: siglock is released before release_task,    *)
(* and another caller or the parent may have come first by then.           *)
SmunchZombie(c) ==
    /\ SmunchLocked(c) /\ Zombie /\ SIGKILL \in pattern[c]
    /\ cpc' = [cpc EXCEPT ![c] = "release"]
    /\ UNCHANGED <<vars, pattern, released>>

(* Mutant: it is left to the parent. *)
SmunchReleaseForgotten(c) ==
    /\ cpc[c] = "release" /\ Done(c)
    /\ UNCHANGED <<vars, pattern, released>>

SmunchRelease(c) ==
    /\ cpc[c] = "release"
    /\ released' = released + 1
    /\ Done(c)
    /\ UNCHANGED <<vars, pattern>>

(* Mutant: signal_wake_up(t, 1), which does not end an uninterruptible     *)
(* sleep.                                                                  *)
SmunchKillsLightly(c) ==
    /\ SmunchLocked(c) /\ ~ Zombie /\ SIGKILL \in pattern[c]
    /\ pending' = [pending EXCEPT ![Leader] = @ \cup {SIGKILL}]
    /\ tif' = [tif EXCEPT ![Leader] = TRUE]
    /\ state' = [state EXCEPT ![Leader] = Woken(state, Leader, TRUE)]
    /\ Done(c)
    /\ UNCHANGED <<list, shared, masks, handler, jobctl, exiting, group,
                   curr_target, counters, pc, warned, pattern, released>>

(* A live target of SIGKILL: wake_up_process ends every kind of sleep, but *)
(* TIF_SIGPENDING is not set.                                              *)
SmunchKill(c) ==
    /\ SmunchLocked(c) /\ ~ Zombie /\ SIGKILL \in pattern[c]
    /\ pending' = [pending EXCEPT ![Leader] = @ \cup {SIGKILL}]
    /\ state' = [state EXCEPT ![Leader] = "running"]
    /\ Done(c)
    /\ UNCHANGED <<list, shared, masks, handler, tif, jobctl, exiting, group,
                   curr_target, counters, pc, warned, pattern, released>>

(* Mutant: the target is not told. *)
SmunchSignalsQuietly(c) ==
    /\ SmunchLocked(c) /\ SIGKILL \notin pattern[c]
    /\ pending' = [pending EXCEPT ![Leader] = @ \cup pattern[c]]
    /\ Done(c)
    /\ UNCHANGED <<list, shared, masks, handler, tif, state, jobctl, exiting,
                   group, curr_target, counters, pc, warned, pattern, released>>

(* Anything else, a zombie included: the second condition of the chain is  *)
(* the first one again.  The signals go into the private queue without     *)
(* prepare_signal, even if they are ignored.                               *)
SmunchSignals(c) ==
    /\ SmunchLocked(c) /\ SIGKILL \notin pattern[c]
    /\ pending' = [pending EXCEPT ![Leader] = @ \cup pattern[c]]
    /\ tif' = [tif EXCEPT ![Leader] = TRUE]
    /\ state' = [state EXCEPT ![Leader] = Woken(state, Leader, FALSE)]
    /\ Done(c)
    /\ UNCHANGED <<list, shared, masks, handler, jobctl, exiting, group,
                   curr_target, counters, pc, warned, pattern, released>>

smunch(c) == \/ SmunchRefused(c) \/ SmunchZombie(c) \/ SmunchRelease(c)
             \/ SmunchKill(c) \/ SmunchSignals(c)

-----------------------------------------------------------------------------
(* deepsleep: sleep_on sleeps in TASK_UNINTERRUPTIBLE, signals pending or  *)
(* not, and nothing wakes the queue `gone'.                                *)
deepsleep ==
    /\ pc[Leader] = "user" /\ state[Leader] = "running"
    /\ state' = [state EXCEPT ![Leader] = "deep"]
    /\ UNCHANGED <<list, queues, masks, handler, tif, jobctl, exiting, group,
                   curr_target, counters, pc, warned, smunchvars>>

(* The parent's wait: it releases a zombie once and never again. *)
Wait ==
    /\ Reaps /\ Zombie /\ list = {Leader} /\ released = 0
    /\ released' = 1
    /\ UNCHANGED <<vars, cpc, pattern>>

SmunchNext ==
    \/ Next /\ released = 0 /\ UNCHANGED smunchvars
    \/ \E c \in Callers : smunch(c) \/ \E pat \in Patterns : SmunchFind(c, pat)
    \/ deepsleep \/ Wait

(* A caller finishes its call; the target runs as in Signal. *)
SmunchFairness ==
    /\ \A t \in Threads : SF_allvars(Step(t) /\ UNCHANGED smunchvars)
    /\ \A c \in Callers : SF_allvars(smunch(c))

SmunchSpec == SmunchInit /\ [][SmunchNext]_allvars /\ SmunchFairness

-----------------------------------------------------------------------------
(* A zombie whose parent does not wait for it goes away when it is sent    *)
(* SIGKILL by smunch.                                                      *)
ZombieGoes == \A c \in Callers :
    cpc[c] = "found" /\ SIGKILL \in pattern[c] /\ Zombie
        /\ thread_group_empty(Leader) ~> released = 1

(* A sleep that no signal ends is ended by SIGKILL through smunch. *)
DeepSleepEnds == \A c \in Callers :
    cpc[c] = "found" /\ SIGKILL \in pattern[c] /\ state[Leader] = "deep"
        /\ thread_group_empty(Leader) ~> state[Leader] # "deep"

(* "the regular process is unconditionally killed when one of the signals  *)
(* sent is SIGKILL!" (smunch.c:45), unless it goes back to deepsleep.      *)
SmunchKills == \A c \in Callers :
    cpc[c] = "found" /\ SIGKILL \in pattern[c] /\ thread_group_empty(Leader)
        ~> Zombie \/ released > 0 \/ state[Leader] = "deep"
=============================================================================
