-------------------------------- MODULE KillPath --------------------------------
(***************************************************************************)
(* From the system calls that send a signal (kill, tkill, tgkill,          *)
(* rt_sigqueueinfo, rt_tgsigqueueinfo) and the kernel's own senders to     *)
(* do_send_sig_info: whom a number names, who may be signalled, what is    *)
(* returned, and the counters of this repository with init_sigcounter      *)
(* (get_sigcounter only reads them).                                       *)
(*                                                                         *)
(* A task is looked up under RCU only: until its siglock is taken it may   *)
(* be released, its number be taken over by the thread that execs, or be   *)
(* given to a new process.  What is then done with the signal is in Signal *)
(* and SignalQueue: here it is sent.  Group and broadcast sends hold       *)
(* tasklist_lock, which release_task, exec and fork take too, but nothing  *)
(* keeps a task from changing its credentials at any time.                 *)
(*                                                                         *)
(* Left out: audit and security modules, and pid namespaces.               *)
(***************************************************************************)
EXTENDS Integers, FiniteSets

CONSTANTS
    Tasks,      \* task structures, a subset of Nat
    Caller,     \* the task that calls
    InitNr,     \* [Tasks -> Nat]: their numbers at first, 0 for a task to come
    InitGroup,  \* [Tasks -> Tasks]: the leader of its process
    Session,    \* [Tasks -> sessions], by process leader
    Pgrp,       \* [Tasks -> process groups], by process leader
    CredsOf,    \* [Tasks -> sets of records uid, euid, suid, ns]: the
                \* credentials a task may have
    NSIG,       \* _NSIG: the signals are 1 .. NSIG, 0 is the probe
    Sigs,       \* the signal numbers passed in
    Groups,     \* the process numbers passed to tgkill, 0 for tkill
    SIGCONT, SIGRTMIN,
    Garbage,    \* what new counters hold: nobody clears them
    MaxCalls    \* bound: calls in a behaviour

ASSUME CallerAssumption == Caller \in Tasks /\ Tasks \subseteq Nat \ {0}
ASSUME TablesAssumption ==
    /\ InitNr \in [Tasks -> Nat] /\ InitGroup \in [Tasks -> Tasks]
    /\ InitNr[Caller] > 0
    /\ \A t \in Tasks : /\ Session[t] # 0
                        /\ IF InitNr[t] = 0 THEN InitGroup[t] = t
                           ELSE InitNr[InitGroup[t]] # 0
                        /\ InitGroup[InitGroup[t]] = InitGroup[t]
    /\ \A t, u \in Tasks : InitNr[t] = InitNr[u] /\ InitNr[t] # 0 => t = u
ASSUME SigsAssumption == Sigs \subseteq 0 .. NSIG + 1 /\ SIGCONT \in Sigs

VARIABLES
    pid,        \* the struct pid a task is attached to
    process,    \* the leader of its process, which stands for its signal_struct
                \* and sighand_struct, or 0 once released
    tgid,       \* the number of its process
    cred, cap,  \* credentials of each task; whether the caller has CAP_KILL
    counters,   \* sighand->counters, and the two words behind it
    call,       \* the call under way, or the last one
    calls,      \* calls so far
    oops        \* a null pointer was dereferenced

tasks == <<pid, process, tgid>>
vars  == <<tasks, cred, cap, counters, call, calls, oops>>

(* A struct pid: its number, and the task it was allocated for, 0 for those *)
(* there at first.  A number that is used again gets a new one.             *)
NULL  == <<0, 0>>
Nrs   == {InitNr[t] : t \in Tasks} \ {0}
Words == 0 .. NSIG + 1
NoCall == [op |-> "none", at |-> "done", pid |-> NULL, sig |-> 0,
           info |-> "none", group |-> 0, p |-> 0, owner |-> 0,
           todo |-> {}, answers |-> {}, hit |-> {}, may |-> {},
           ret |-> "none", was |-> <<>>]

Init ==
    /\ pid = [t \in Tasks |-> <<InitNr[t], 0>>]
    /\ process = [t \in Tasks |-> IF InitNr[t] = 0 THEN 0 ELSE InitGroup[t]]
    /\ tgid = [t \in Tasks |-> InitNr[InitGroup[t]]]
    /\ cred \in {f \in [Tasks -> UNION {CredsOf[t] : t \in Tasks}] :
                   \A t \in Tasks : f[t] \in CredsOf[t]}
    /\ cap \in BOOLEAN
    /\ counters \in {[t \in Tasks |-> [w \in Words |-> g]] : g \in Garbage}
    /\ call = NoCall /\ calls = 0 /\ oops = FALSE

(* The struct pid of a number, and the task attached to one, or 0. *)
find_vpid(n) == IF \E t \in Tasks : pid[t][1] = n
                  THEN CHOOSE p \in {pid[t] : t \in Tasks} : p[1] = n ELSE NULL
pid_task(p) == IF \E t \in Tasks : pid[t] = p /\ p # NULL
                 THEN CHOOSE t \in Tasks : pid[t] = p ELSE 0

-----------------------------------------------------------------------------
(* Who may be signalled.                                                   *)

same_thread_group(t) == tgid[t] = tgid[Caller]
is_si_special(info)  == info \in {"NOINFO", "PRIV"}
si_fromuser(info)    == info = "NOINFO" \/ ~ is_si_special(info)
valid_signal(sig)    == sig <= NSIG

(* The leader has it until release_task, after every other thread. *)
task_session(t) == IF \E u \in Tasks : process[u] = InitGroup[t]
                     THEN Session[InitGroup[t]] ELSE 0

(* Mutant: the effective instead of the saved user ID of the target. *)
KillOkByEffective(t) ==
    LET c == cred[Caller] tc == cred[t] IN
    \/ c.ns = tc.ns /\ \/ c.euid = tc.euid \/ c.euid = tc.uid
                       \/ c.uid = tc.euid \/ c.uid = tc.uid
    \/ cap

kill_ok_by_cred(t) ==
    LET c == cred[Caller] tc == cred[t] IN
    \/ c.ns = tc.ns /\ \/ c.euid = tc.suid \/ c.euid = tc.uid
                       \/ c.uid = tc.suid \/ c.uid = tc.uid
    \/ cap

(* The same test for a caller whose credentials were kept. *)
kill_as_cred_perm(c, t) ==
    LET tc == cred[t] IN
    ~ \/ c.ns # tc.ns
      \/ /\ c.euid # tc.suid /\ c.euid # tc.uid
         /\ c.uid # tc.suid /\ c.uid # tc.uid

check_kill_permission(sig, info, t) ==
    IF ~ valid_signal(sig) THEN "EINVAL"
    ELSE IF /\ si_fromuser(info)
            /\ ~ same_thread_group(t) /\ ~ kill_ok_by_cred(t)
            /\ ~ (sig = SIGCONT /\ task_session(t) \in {0, task_session(Caller)})
         THEN "EPERM" ELSE "ok"

-----------------------------------------------------------------------------
(* Who may signal whom, said apart from the code: with CAP_KILL everybody, *)
(* otherwise one's own process, a task that has one of the caller's two    *)
(* user IDs as its real or saved one, and with SIGCONT one of the same     *)
(* session.  tc stands for the credentials of the task.                    *)
MaySignal(sig, t, tc) ==
    \/ cap
    \/ InitGroup[t] = InitGroup[Caller]
    \/ /\ cred[Caller].ns = tc.ns
       /\ {cred[Caller].uid, cred[Caller].euid} \cap {tc.uid, tc.suid} # {}
    \/ sig = SIGCONT /\ Session[InitGroup[t]] = Session[InitGroup[Caller]]

(* call.may is a history: of the tasks the call is about, those that the   *)
(* caller had the right to signal at some moment since they were looked up.*)
Permitted(sig, ts) == {t \in ts : MaySignal(sig, t, cred[t])}
Addressed == CASE call.at \in {"check", "lock"} -> {call.p}
               [] call.at = "each"            -> call.todo
               [] OTHER                       -> {}

-----------------------------------------------------------------------------
(* The calls.  A call on a number is looked up, checked and sent in three  *)
(* steps; the number stands for a struct pid from the start.               *)

Enter(op, n, sig, info, group) ==
    /\ call.at = "done" /\ calls < MaxCalls /\ ~ oops
    /\ calls' = calls + 1
    /\ LET p == find_vpid(n) IN
       call' = [NoCall EXCEPT !.op = op, !.at = "find", !.pid = p, !.sig = sig,
                    !.info = info, !.group = group, !.was = counters,
                    !.owner = IF p = NULL THEN 0 ELSE process[pid_task(p)]]
    /\ UNCHANGED <<tasks, cred, cap, counters, oops>>

(* kill(pid > 0), and kill_pid, by which the kernel sends on its own       *)
(* account (PRIV) or on behalf of the caller (NOINFO).                     *)
Kill(n, sig, info) == Enter("kill", n, sig, info, 0)

Return(r) == call' = [call EXCEPT !.at = "done", !.ret = r]

(* rt_sigqueueinfo: "Not even root can pretend to send signals from the    *)
(* kernel", nor a kill or tgkill; the others are refused at once.          *)
rt_sigqueueinfo(n, sig, info) == info = "SI_QUEUE" /\ Kill(n, sig, info)

(* tkill, tgkill and rt_tgsigqueueinfo: for a task of process tg, or of    *)
(* any if tg is 0.                                                         *)
do_send_specific(tg, n, sig, info) == Enter("specific", n, sig, info, tg)

(* With the credentials the caller had when it asked for the signal. *)
kill_pid_info_as_cred(n, sig) == Enter("as_cred", n, sig, "SI_ASYNCIO", 0)

(* init_sigcounter tests neither the result of the lookup nor that of the  *)
(* lock.                                                                   *)
init_sigcounter(n) == Enter("init", n, 0, "none", 0)

(* Mutant: a call that starts over looks the number up again. *)
AnyTaskOfNumber(p) == pid_task(find_vpid(p[1]))

TaskOf(p) == pid_task(p)

(* Mutant: a task that is found in a second lookup is not checked again. *)
CheckedOnce == IF call.p = 0 THEN "check" ELSE "lock"

AfterLookup == "check"

OfProcess(t) == call.op = "specific" => call.group \in {0, tgid[t]}

(* No such task, or not of the process that was named. *)
Find ==
    /\ call.at = "find"
    /\ LET t == TaskOf(call.pid) IN
       IF call.op = "as_cred" /\ ~ valid_signal(call.sig)
         THEN Return("EINVAL") /\ UNCHANGED oops
       ELSE IF t = 0 /\ call.op = "init" THEN oops' = TRUE /\ Return("oops")
       ELSE IF t = 0 THEN Return("ESRCH") /\ UNCHANGED oops
       ELSE IF ~ OfProcess(t) THEN Return("ESRCH") /\ UNCHANGED oops
       ELSE /\ call' = [call EXCEPT !.at = AfterLookup, !.p = t,
                                    !.may = Permitted(call.sig, {t})]
            /\ UNCHANGED oops
    /\ UNCHANGED <<tasks, cred, cap, counters, calls>>

Permission ==
    CASE call.op = "init" -> "ok"
      [] call.op = "as_cred" ->
           IF si_fromuser(call.info) /\ ~ kill_as_cred_perm(cred[Caller], call.p)
             THEN "EPERM" ELSE "ok"
      [] OTHER -> check_kill_permission(call.sig, call.info, call.p)

(* The null signal ends here. *)
Check ==
    /\ call.at = "check"
    /\ IF Permission # "ok" THEN Return(Permission)
       ELSE IF call.sig = 0 /\ call.op # "init" THEN Return("ok")
       ELSE call' = [call EXCEPT !.at = "lock"]
    /\ UNCHANGED <<tasks, cred, cap, counters, calls, oops>>

(* Mutant: the same task is tried again, without a lookup. *)
UnhashedSameTask == call' = [call EXCEPT !.at = "check"]

(* lock_task_sighand has failed: "The task was unhashed in between, try    *)
(* again"; a signal to one thread is taken for sent.                       *)
Unhashed ==
    CASE call.op = "kill"     -> call' = [call EXCEPT !.at = "find"]
      [] call.op = "specific" -> Return("ok")
      [] call.op = "as_cred"  -> Return("ESRCH")
      [] call.op = "init"     -> Return("oops")

(* __send_signal may find the queue full (SignalQueue). *)
MayOverflow == call.sig >= SIGRTMIN /\ call.info \notin {"SI_USER", "NOINFO", "PRIV"}

(* do_send_sig_info counts also what is refused; kill_pid_info_as_cred     *)
(* calls __send_signal itself, past the counter; init_sigcounter clears 66 *)
(* words, the array and what is behind it.                                 *)
Counted(op, s, sig) ==
    CASE op \in {"kill", "specific"} -> [counters EXCEPT ![s][sig] = @ + 1]
      [] op = "as_cred"             -> counters
      [] op = "init"                -> [counters EXCEPT ![s] = [w \in Words |-> 0]]

Send ==
    /\ call.at = "lock"
    /\ LET s == process[call.p] IN
       IF s = 0 THEN Unhashed /\ oops' = (call.op = "init") /\ UNCHANGED counters
       ELSE /\ \/ call' = [call EXCEPT !.at = "done", !.ret = "ok",
                                       !.hit = IF call.op = "init" THEN {} ELSE {call.p}]
               \/ MayOverflow /\ Return("EAGAIN")
            /\ counters' = Counted(call.op, s, call.sig)
            /\ UNCHANGED oops
    /\ UNCHANGED <<tasks, cred, cap, calls>>

(* Group sends: to the leader of each process, one after the other, with   *)
(* tasklist_lock held.                                                     *)
Leaders == {t \in Tasks : process[t] # 0 /\ pid[t][1] = tgid[t]}
tasklist_lock == call.at = "each"

SendAll(op, targets, sig, info) ==
    /\ call.at = "done" /\ calls < MaxCalls /\ ~ oops
    /\ calls' = calls + 1
    /\ call' = [NoCall EXCEPT !.op = op, !.at = "each", !.sig = sig, !.info = info,
                    !.todo = targets, !.may = Permitted(sig, targets), !.was = counters]
    /\ UNCHANGED <<tasks, cred, cap, counters, oops>>

(* group_send_sig_info for the next process, which cannot go meanwhile. *)
SendOne ==
    /\ call.at = "each"
    /\ \E t \in call.todo :
           LET answer == check_kill_permission(call.sig, call.info, t)
               sent   == answer = "ok" /\ call.sig # 0
           IN  /\ call' = [call EXCEPT !.todo = @ \ {t}, !.answers = @ \cup {answer},
                               !.hit = IF sent THEN @ \cup {t} ELSE @]
               /\ counters' = IF sent THEN [counters EXCEPT ![process[t]][call.sig] = @ + 1]
                              ELSE counters
    /\ UNCHANGED <<tasks, cred, cap, calls, oops>>

(* __kill_pgrp_info: success if one of them was, else the last error. *)
PgrpReturns(answers) ==
    IF "ok" \in answers THEN {"ok"}
    ELSE IF answers = {} THEN {"ESRCH"} ELSE answers

kill_pgrp(g, sig, info) ==
    SendAll("pgrp", {t \in Leaders : Pgrp[InitGroup[t]] = g}, sig, info)

(* kill(-1): everybody but init and the caller, whose process is not       *)
(* counted; EPERM is overlooked.                                           *)
AllReturns(answers) ==
    IF answers = {} THEN {"ESRCH"}
    ELSE IF answers = {"EPERM"} THEN {"ok"} ELSE answers \ {"EPERM"}

kill_all(sig, info) ==
    SendAll("all", {t \in Leaders : tgid[t] > 1 /\ ~ same_thread_group(t)}, sig, info)

EndAll ==
    /\ call.at = "each" /\ call.todo = {}
    /\ \E r \in IF call.op = "pgrp" THEN PgrpReturns(call.answers)
                                      ELSE AllReturns(call.answers) : Return(r)
    /\ UNCHANGED <<tasks, cred, cap, counters, calls, oops>>

-----------------------------------------------------------------------------
(* What happens to the tasks meanwhile.                                    *)

Others(t) == {u \in Tasks \ {t} : process[u] = process[t]}

(* release_task of a thread, or of the last task of a process. *)
Release(t) ==
    /\ ~ tasklist_lock
    /\ process[t] # 0 /\ process[t] # process[Caller] /\ tgid[t] > 1
    /\ pid[t][1] = tgid[t] => Others(t) = {}
    /\ pid' = [pid EXCEPT ![t] = NULL] /\ process' = [process EXCEPT ![t] = 0]
    /\ UNCHANGED <<tgid, cred, cap, counters, call, calls, oops>>

(* de_thread: thread t execs, alone but for the leader u, and takes over   *)
(* its struct pid; u is released after that.  The credentials of the new   *)
(* program are installed later (SetCreds).                                 *)
TakeOver(t, u) ==
    /\ ~ tasklist_lock
    /\ process[t] # 0 /\ Others(t) = {u} /\ process[t] # process[Caller]
    /\ pid[u][1] = tgid[u]
    /\ pid' = [pid EXCEPT ![t] = pid[u], ![u] = NULL]
    /\ UNCHANGED <<process, tgid, cred, cap, counters, call, calls, oops>>

(* fork: a task that was not used yet becomes a process, under a number    *)
(* that is free.                                                           *)
Fork(t, n) ==
    /\ ~ tasklist_lock
    /\ process[t] = 0 /\ tgid[t] = 0
    /\ \A u \in Tasks : pid[u][1] # n /\ (process[u] # 0 => tgid[u] # n)
    /\ pid' = [pid EXCEPT ![t] = <<n, t>>]
    /\ process' = [process EXCEPT ![t] = t]
    /\ tgid' = [tgid EXCEPT ![t] = n]
    /\ UNCHANGED <<cred, cap, counters, call, calls, oops>>

(* commit_creds, at the end of an exec and in setuid and the like: a task  *)
(* sets its own credentials only, and the caller is in its call.           *)
SetCreds(t, c) ==
    /\ process[t] # 0 /\ t # Caller
    /\ cred' = [cred EXCEPT ![t] = c]
    /\ call' = [call EXCEPT !.may =
                    @ \cup {u \in Addressed : u = t /\ MaySignal(call.sig, t, c)}]
    /\ UNCHANGED <<tasks, cap, counters, calls, oops>>

-----------------------------------------------------------------------------
Calls ==
    \/ \E n \in Nrs, sig \in Sigs :
           \/ \E info \in {"SI_USER", "NOINFO", "PRIV"} : Kill(n, sig, info)
           \/ \E info \in {"SI_USER", "SI_QUEUE"} : rt_sigqueueinfo(n, sig, info)
           \/ kill_pid_info_as_cred(n, sig)
           \/ \E tg \in Groups :
                  do_send_specific(tg, n, sig, "SI_TKILL")
    \/ \E sig \in Sigs, g \in {Pgrp[t] : t \in Tasks} : kill_pgrp(g, sig, "SI_USER")
    \/ \E sig \in Sigs : kill_all(sig, "SI_USER")
    \/ \E n \in Nrs : init_sigcounter(n)

Meanwhile ==
    \/ \E t \in Tasks : Release(t)
    \/ \E t, u \in Tasks : TakeOver(t, u)
    \/ \E t \in Tasks, n \in Nrs : Fork(t, n)
    \/ \E t \in Tasks : \E c \in CredsOf[t] : SetCreds(t, c)

GoOn == Find \/ Check \/ Send \/ SendOne \/ EndAll
Next == Calls \/ GoOn \/ Meanwhile

(* A call that has begun goes on. *)
Spec == Init /\ [][Next]_vars /\ WF_vars(GoOn)

-----------------------------------------------------------------------------
Returned(op) == call.op = op /\ call.at = "done"
CountedFor(s) == counters = [call.was EXCEPT ![s][call.sig] = @ + 1]

(* kill reaches the process that had the number when it was called, and no *)
(* other, whatever happens to the task behind the number: it fails with    *)
(* ESRCH only if nobody is left behind that struct pid, an exec meanwhile  *)
(* does not make it miss, a number that is used again does not mislead it, *)
(* and however often it looks again, the signal is counted once.           *)
(* A thread that tgkill reaches is one of the process that was named.      *)
KillExact ==
    /\ Returned("kill") =>
           /\ call.ret = "ESRCH" => pid_task(call.pid) = 0
           /\ call.ret = "ok" /\ call.sig # 0 =>
                  /\ {InitGroup[t] : t \in call.hit} = {call.owner}
                  /\ CountedFor(call.owner)
           /\ call.ret \in {"ESRCH", "EPERM", "EINVAL"} =>
                  call.hit = {} /\ counters = call.was
    /\ Returned("specific") /\ call.group # 0 =>
           \A t \in call.hit : tgid[t] = call.group

(* The right is looked at before the siglock is taken, and the task may    *)
(* exec or change its credentials in between, so that at the moment a      *)
(* signal is sent the caller may have lost the right.  What the code does  *)
(* keep: a signal from user space goes only to a task that the caller had  *)
(* the right to signal at some moment since that very task was last looked *)
(* up, by whichever of the calls and however often it looked; and a group  *)
(* send reports success exactly when it reached somebody.                  *)
OnlyPermitted ==
    /\ si_fromuser(call.info) => call.hit \subseteq call.may
    /\ Returned("pgrp") /\ call.sig # 0 => (call.ret = "ok" <=> call.hit # {})

(* However often the task behind the number changes, kill comes back. *)
KillReturns == call.at # "done" ~> call.at = "done"
=============================================================================
