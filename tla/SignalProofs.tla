------------------------------ MODULE SignalProofs ------------------------------
(***************************************************************************)
(* Proofs about Signal, for every number of threads and every set of       *)
(* signals, masks, handlers and waits: the types, where the threads are,   *)
(* and what a step of a sender can be.                                     *)
(***************************************************************************)
EXTENDS Signal, FiniteSetTheorems, WellFoundedInduction, TLAPS

(* Where a thread is, and what its state can be there. *)
Whereabouts ==
    /\ Leader \in list
    /\ \A t \in Threads :
          /\ t \notin list => pc[t] = "gone"
          /\ state[t] = "stopped" => pc[t] = "relock"
          /\ state[t] = "sleep" => pc[t] \in {"user", "wait"} /\ ~ tif[t]
          /\ state[t] = "dead" <=> pc[t] = "gone"
          /\ exiting[t] <=> pc[t] \in {"exited", "gone"}

-----------------------------------------------------------------------------
(* The operators. *)

(* A non-empty set of natural numbers has a least element. *)
LEMMA LeastNatural ==
  ASSUME NEW S \in SUBSET Nat, S # {}
  PROVE  \E m \in S : \A n \in S : m <= n
  <1> DEFINE Less == {ss \in Nat \X Nat : ss[1] < ss[2]}
  <1>1. IsWellFoundedOn(Less, Nat)
    <2>1. Less = OpToRel(<, Nat)
      BY DEF OpToRel
    <2> QED
      BY <2>1, NatLessThanWellFounded
  <1>2. PICK m \in S : \A n \in S : ~ (<<n, m>> \in Less)
    <2> HIDE DEF Less
    <2> QED
      BY <1>1, WFMin
  <1>3. \A n \in S : ~ (n < m)
    BY <1>2
  <1> QED
    BY <1>3

(* Some thread of a set comes first after t. *)
LEMMA FirstAfter ==
  ASSUME NEW t \in Int, NEW S \in SUBSET Threads, S # {}
  PROVE  \E u \in S : \A v \in S : Distance(t, u) <= Distance(t, v)
  <1> DEFINE D == {Distance(t, u) : u \in S}
  <1>1. \A u \in S : Distance(t, u) \in Nat
    BY ThreadsAssumption DEF Distance, Threads
  <1>2. D \in SUBSET Nat /\ D # {}
    BY <1>1
  <1>3. PICK m \in D : \A n \in D : m <= n
    <2> HIDE DEF D
    <2> QED
      BY <1>2, LeastNatural
  <1> QED
    BY <1>3

(* next_thread finds somebody: the list is never empty. *)
LEMMA NextThreadInList ==
  ASSUME TypeOK, NEW t \in Threads, list # {}
  PROVE  next_thread(t) \in list
  <1>1. t + 1 \in Int /\ list \in SUBSET Threads
    BY DEF Threads, TypeOK
  <1>2. \E u \in list : \A v \in list : Distance(t + 1, u) <= Distance(t + 1, v)
    BY <1>1, FirstAfter
  <1> QED
    BY <1>2 DEF next_thread

Wanting(sig, st, curr) == {t \in list : wants_signal(sig, t, st, curr)}

(* complete_signal picks a thread that wants the signal, and for a signal  *)
(* to one thread no other; it picks none only when the one the signal is   *)
(* for does not want it, and, if it is for the group, nobody does.         *)
LEMMA TargetWants ==
  ASSUME TypeOK, NEW sig, NEW p \in list, NEW grp \in BOOLEAN, NEW st, NEW curr
  PROVE  LET t == Target(sig, p, grp, st, curr) IN
         /\ t \in {0} \cup Wanting(sig, st, curr)
         /\ t = 0 => p \notin Wanting(sig, st, curr)
         /\ t = 0 /\ grp => Wanting(sig, st, curr) = {}
         /\ ~ grp => t \in {0, p}
  <1> DEFINE W == Wanting(sig, st, curr)
  <1>1. W \in SUBSET Threads /\ curr_target \in Int
    <2>1. list \in SUBSET Threads /\ curr_target \in Threads
      BY DEF TypeOK
    <2>2. W \in SUBSET list
      BY DEF Wanting
    <2>3. curr_target \in Int
      BY <2>1 DEF Threads
    <2> QED
      BY <2>1, <2>2, <2>3
  <1>2. 0 \notin W
    BY <1>1 DEF Threads
  <1>3. W # {} => (CHOOSE t \in W : \A u \in W :
                      Distance(curr_target, t) <= Distance(curr_target, u)) \in W
    <2> HIDE DEF W
    <2> QED
      BY <1>1, FirstAfter
  <1>4. Target(sig, p, grp, st, curr) =
           IF p \in W THEN p
           ELSE IF ~ grp \/ thread_group_empty(p) \/ W = {} THEN 0
           ELSE CHOOSE t \in W : \A u \in W :
                    Distance(curr_target, t) <= Distance(curr_target, u)
    BY DEF Target, Wanting
  <1>5. thread_group_empty(p) /\ p \notin W => W = {}
    BY DEF thread_group_empty, Wanting
  <1> QED
    BY <1>2, <1>3, <1>4, <1>5

-----------------------------------------------------------------------------
(* TypeOK is inductive on its own. *)
LEMMA StopNowTypes ==
  ASSUME TypeOK, NEW t \in Threads, StopNow(t, jobctl[t])
  PROVE  /\ group_stop_count' \in 0 .. NThreads /\ sigflags' \in SUBSET FlagBits
         /\ warned' \in BOOLEAN /\ jobctl' \in [Threads -> SUBSET JobctlBits]
         /\ tif' \in [Threads -> BOOLEAN]
         /\ state' \in [Threads -> {"running", "sleep", "deep", "stopped", "dead"}]
         /\ pc' \in [Threads -> {"user", "wait", "relock", "loop", "stop", "orphan",
                           "exit", "exiting", "exitlock", "exited", "gone"}]
  <1>1. /\ IsFiniteSet(StopTargets(t)) /\ Cardinality(StopTargets(t)) \in 0 .. NThreads
        /\ IsFiniteSet({}) /\ Cardinality({}) = 0
    <2>1. IsFiniteSet(Threads) /\ Cardinality(Threads) = NThreads
      BY FS_Interval, ThreadsAssumption DEF Threads
    <2>2. StopTargets(t) \in SUBSET Threads
      BY DEF TypeOK, StopTargets
    <2> QED
      BY <2>1, <2>2, FS_Subset, FS_CardinalityType, FS_EmptySet
  <1>2. \A jc : \A n \in 0 .. NThreads : CountAfter(jc, n) \in 0 .. NThreads
    BY ThreadsAssumption DEF CountAfter
  <1>3. \A n, jc : FlagsAfter(jc, n) \in SUBSET FlagBits /\ Warns(jc, n) \in BOOLEAN
    BY DEF FlagsAfter, TypeOK, FlagBits, Warns
  <1>4. group_stop_count' \in 0 .. NThreads
    BY <1>1, <1>2 DEF StopNow, TypeOK
  <1>5. sigflags' \in SUBSET FlagBits /\ warned' \in BOOLEAN
    BY <1>3 DEF StopNow, TypeOK
  <1>6. jobctl' \in [Threads -> SUBSET JobctlBits]
    BY DEF StopNow, TypeOK, JobctlBits
  <1>7. /\ tif' \in [Threads -> BOOLEAN]
        /\ state' \in [Threads -> {"running", "sleep", "deep", "stopped", "dead"}]
    BY DEF StopNow, TypeOK, Woken
  <1>8. pc' \in [Threads -> {"user", "wait", "relock", "loop", "stop", "orphan",
                            "exit", "exiting", "exitlock", "exited", "gone"}]
    BY DEF StopNow, TypeOK
  <1> QED
    BY <1>4, <1>5, <1>6, <1>7, <1>8

LEMMA StepTypes ==
  ASSUME TypeOK, Leader \in list, NEW t \in Threads, Step(t)
  PROVE  TypeOK'
  <1> USE DEF queues, masks, group, Goto
  <1>1. CASE EnterSignal(t)
    BY <1>1 DEF Step, TypeOK, EnterSignal
  <1>2. CASE NotifyParent(t)
    BY <1>2 DEF Step, TypeOK, NotifyParent
  <1>3. CASE JoinStop(t)
    BY <1>3, StopNowTypes DEF Step, TypeOK, JoinStop
  <1>4. CASE NoSignal(t)
    BY <1>4 DEF Step, TypeOK, NoSignal
  <1>5. CASE Deliver(t)
    <2>1. PICK sig \in AllSignals :
             /\ Take(t, sig)
             /\ tif' = [tif EXCEPT ![t] = AfterDequeue(t)]
             /\ jobctl' = [jobctl EXCEPT ![t] = MarkDequeued(t, sig)]
             /\ Goto(t, IF sig_handler_ignored(handler[sig], sig) THEN "loop" ELSE "user")
             /\ handler' = IF handler[sig] = "oneshot"
                             THEN [handler EXCEPT ![sig] = "SIG_DFL"] ELSE handler
             /\ UNCHANGED <<list, state, exiting, group, curr_target, warned>>
      BY <1>5 DEF Deliver
    <2>2. pc' \in [Threads -> {"user", "wait", "relock", "loop", "stop", "orphan",
                              "exit", "exiting", "exitlock", "exited", "gone"}]
      BY <2>1 DEF TypeOK
    <2>3. handler' \in [AllSignals -> {"SIG_DFL", "SIG_IGN", "fn", "oneshot"}]
      BY <2>1 DEF TypeOK
    <2>4. pending' \in [Threads -> SUBSET AllSignals] /\ shared' \in SUBSET AllSignals
      BY <2>1 DEF TypeOK, Take, Dequeue
    <2>5. jobctl' \in [Threads -> SUBSET JobctlBits]
      BY <2>1 DEF TypeOK, MarkDequeued, JobctlBits
    <2> HIDE DEF Goto
    <2> QED
      BY <1>5, <2>1, <2>2, <2>3, <2>4, <2>5
         DEF Step, TypeOK, Take, AfterDequeue, Recalc
  <1>6. CASE TakeStop(t)
    <2>1. PICK sig \in SIG_KERNEL_STOP_MASK :
             /\ Take(t, sig)
             /\ tif' = [tif EXCEPT ![t] = AfterDequeue(t)]
             /\ jobctl' = [jobctl EXCEPT ![t] = MarkDequeued(t, sig)]
             /\ Goto(t, IF sig = SIGSTOP THEN "stop" ELSE "orphan")
             /\ UNCHANGED <<list, handler, state, exiting, group, curr_target, warned>>
      BY <1>6 DEF TakeStop
    <2>2. pc' \in [Threads -> {"user", "wait", "relock", "loop", "stop", "orphan",
                              "exit", "exiting", "exitlock", "exited", "gone"}]
      BY <2>1 DEF TypeOK
    <2>3. pending' \in [Threads -> SUBSET AllSignals] /\ shared' \in SUBSET AllSignals
      BY <2>1 DEF TypeOK, Take, Dequeue
    <2>4. jobctl' \in [Threads -> SUBSET JobctlBits]
      BY <2>1 DEF TypeOK, MarkDequeued, JobctlBits
    <2>5. tif' \in [Threads -> BOOLEAN]
      BY <2>1 DEF TypeOK, AfterDequeue, Recalc
    <2> HIDE DEF Goto
    <2> QED
      BY <1>6, <2>1, <2>2, <2>3, <2>4, <2>5 DEF Step, TypeOK, Take
  <1>7. CASE IsOrphaned(t)
    BY <1>7 DEF Step, TypeOK, IsOrphaned
  <1>8. CASE TryStop(t)
    <2>1. CASE StopNow(t, jobctl[t])
      BY <1>8, <2>1, StopNowTypes DEF Step, TypeOK, TryStop
    <2>2. CASE Goto(t, "loop") /\ UNCHANGED <<tif, state, jobctl, group, warned>>
      BY <1>8, <2>2 DEF Step, TypeOK, TryStop
    <2> QED
      BY <1>8, <2>1, <2>2 DEF TryStop
  <1>9. CASE TakeFatal(t)
    <2>1. pending' \in [Threads -> SUBSET AllSignals] /\ shared' \in SUBSET AllSignals
      BY <1>9 DEF TakeFatal, Take, Dequeue, TypeOK
    <2>2. /\ tif' \in [Threads -> BOOLEAN]
          /\ pc' \in [Threads -> {"user", "wait", "relock", "loop", "stop", "orphan",
                                 "exit", "exiting", "exitlock", "exited", "gone"}]
      BY <1>9 DEF TakeFatal, AfterDequeue, Recalc, TypeOK
    <2>3. UNCHANGED <<list, masks, handler, state, jobctl, exiting, group, curr_target,
                      counters, warned>>
      BY <1>9 DEF Step, TakeFatal, Take
    <2> QED
      BY <2>1, <2>2, <2>3 DEF TypeOK, masks, group
  <1>10. CASE WaitReturns(t)
    <2>1. pending' \in [Threads -> SUBSET AllSignals] /\ shared' \in SUBSET AllSignals
      BY <1>10 DEF WaitReturns, TakeWaited, Dequeue, TypeOK
    <2>2. blocked' \in [Threads -> SUBSET Signals]
      BY <1>10 DEF WaitReturns, real_blocked, TypeOK
    <2>3. wait' \in [Threads -> [these : SUBSET Signals, real : SUBSET Signals]]
      BY <1>10 DEF WaitReturns, NotWaiting, TypeOK
    <2>4. jobctl' \in [Threads -> SUBSET JobctlBits]
      BY <1>10 DEF WaitReturns, TakeWaited, MarkDequeued, JobctlBits, TypeOK
    <2>5. state' \in [Threads -> {"running", "sleep", "deep", "stopped", "dead"}]
      BY <1>10 DEF WaitReturns, Woken, TypeOK
    <2>6. tif' \in [Threads -> BOOLEAN]
      BY <1>10 DEF WaitReturns, AfterDequeue, Recalc, TypeOK
    <2>7. pc' \in [Threads -> {"user", "wait", "relock", "loop", "stop", "orphan",
                              "exit", "exiting", "exitlock", "exited", "gone"}]
      BY <1>10 DEF WaitReturns, TypeOK
    <2>8. UNCHANGED <<list, handler, exiting, group, curr_target, counters, warned>>
      BY <1>10 DEF Step, WaitReturns
    <2> QED
      BY <2>1, <2>2, <2>3, <2>4, <2>5, <2>6, <2>7, <2>8 DEF TypeOK
  <1>11. CASE do_group_exit(t)
    <2>1. pending' \in [Threads -> SUBSET AllSignals]
      <3>1. SIGKILL \in AllSignals
        BY DEF AllSignals
      <3>2. pending \in [Threads -> SUBSET AllSignals]
        BY DEF TypeOK
      <3>3. \/ pending' = pending
            \/ \E zapped : pending' = [u \in Threads |->
                  IF u \in zapped THEN pending[u] \cup {SIGKILL} ELSE pending[u]]
        BY <1>11 DEF do_group_exit, zap_other_threads
      <3> QED
        BY <3>1, <3>2, <3>3
    <2>2. jobctl' \in [Threads -> SUBSET JobctlBits]
      <3>1. jobctl \in [Threads -> SUBSET JobctlBits]
        BY DEF TypeOK
      <3>2. jobctl' = jobctl \/ \E ts : jobctl' = ClearJobctl(ts)
        BY <1>11 DEF do_group_exit, zap_other_threads
      <3> QED
        BY <3>1, <3>2 DEF ClearJobctl
    <2>3. /\ state' \in [Threads -> {"running", "sleep", "deep", "stopped", "dead"}]
          /\ tif' \in [Threads -> BOOLEAN]
      BY <1>11 DEF do_group_exit, zap_other_threads, Woken, TypeOK
    <2>4. sigflags' \in SUBSET FlagBits /\ group_stop_count' \in 0 .. NThreads
      <3>1. sigflags \in SUBSET FlagBits /\ group_stop_count \in 0 .. NThreads
        BY DEF TypeOK
      <3>2. 0 \in 0 .. NThreads /\ {"GROUP_EXIT"} \in SUBSET FlagBits
        BY ThreadsAssumption DEF FlagBits
      <3>3. \/ UNCHANGED group
            \/ sigflags' = {"GROUP_EXIT"} /\ group_stop_count' = 0
        BY <1>11 DEF do_group_exit, zap_other_threads
      <3> QED
        BY <3>1, <3>2, <3>3
    <2>5. pc' \in [Threads -> {"user", "wait", "relock", "loop", "stop", "orphan",
                              "exit", "exiting", "exitlock", "exited", "gone"}]
      BY <1>11 DEF do_group_exit, TypeOK
    <2>6. UNCHANGED <<list, shared, masks, handler, exiting, curr_target, counters, warned>>
      BY <1>11 DEF Step, do_group_exit
    <2> QED
      BY <2>1, <2>2, <2>3, <2>4, <2>5, <2>6 DEF TypeOK
  <1>12. CASE exit_signals(t)
    BY <1>12 DEF Step, TypeOK, exit_signals
  <1>13. CASE ExitLocked(t)
    <2>1. jobctl' \in [Threads -> SUBSET JobctlBits] /\ warned' \in BOOLEAN
      BY <1>13 DEF ExitLocked, Warns, TypeOK
    <2>2. sigflags' \in SUBSET FlagBits /\ group_stop_count' \in 0 .. NThreads
      <3>1. sigflags \in SUBSET FlagBits /\ group_stop_count \in 0 .. NThreads
        BY DEF TypeOK
      <3>2. /\ CountAfter(jobctl[t], group_stop_count) \in 0 .. NThreads
            /\ FlagsAfter(jobctl[t], group_stop_count) \in SUBSET FlagBits
        BY <3>1, ThreadsAssumption DEF CountAfter, FlagsAfter, FlagBits
      <3> QED
        BY <1>13, <3>1, <3>2 DEF ExitLocked
    <2>3. /\ state' \in [Threads -> {"running", "sleep", "deep", "stopped", "dead"}]
          /\ tif' \in [Threads -> BOOLEAN]
      BY <1>13 DEF ExitLocked, WakeAll, Woken, TypeOK
    <2>4. /\ pc' \in [Threads -> {"user", "wait", "relock", "loop", "stop", "orphan",
                              "exit", "exiting", "exitlock", "exited", "gone"}]
          /\ exiting' \in [Threads -> BOOLEAN]
      BY <1>13 DEF ExitLocked, TypeOK
    <2>5. UNCHANGED <<list, queues, masks, handler, curr_target, counters>>
      BY <1>13 DEF Step, ExitLocked
    <2> QED
      BY <2>1, <2>2, <2>3, <2>4, <2>5 DEF TypeOK
  <1>14. CASE exit_notify(t)
    <2>1. next_thread(t) \in Threads
      BY NextThreadInList DEF TypeOK
    <2> QED
      BY <1>14, <2>1 DEF Step, TypeOK, exit_notify
  <1> QED
    BY <1>1, <1>2, <1>3, <1>4, <1>5, <1>6, <1>7, <1>8, <1>9, <1>10, <1>11, <1>12,
       <1>13, <1>14 DEF Step

LEMMA LocalTypes ==
  ASSUME TypeOK, NEW t \in Threads, Local(t)
  PROVE  TypeOK'
  <1> USE DEF queues, masks, group, Goto
  <1>1. CASE CallExit(t)
    BY <1>1 DEF Local, CallExit, TypeOK
  <1>2. CASE Sleep(t)
    BY <1>2 DEF Local, Sleep, TypeOK
  <1>3. CASE Wake(t)
    BY <1>3 DEF Local, Wake, TypeOK
  <1>4. ASSUME NEW m \in Masks, set_current_blocked(t, m) PROVE TypeOK'
    <2>1. m \in SUBSET Signals
      BY MasksAssumption
    <2>2. /\ blocked' \in [Threads -> SUBSET Signals] /\ tif' \in [Threads -> BOOLEAN]
          /\ state' \in [Threads -> {"running", "sleep", "deep", "stopped", "dead"}]
      BY <1>4, <2>1 DEF set_current_blocked, Recalc, Woken, TypeOK
    <2> QED
      BY <1>4, <2>2 DEF Local, set_current_blocked, TypeOK
  <1>5. ASSUME NEW w \in Waits, NEW timeout \in BOOLEAN, do_sigtimedwait(t, w, timeout)
        PROVE  TypeOK'
    <2>1. w \in SUBSET Signals
      BY WaitsAssumption
    <2>2. pending' \in [Threads -> SUBSET AllSignals] /\ shared' \in SUBSET AllSignals
      BY <1>5 DEF do_sigtimedwait, TakeWaited, Dequeue, TypeOK
    <2>3. blocked' \in [Threads -> SUBSET Signals]
      BY <1>5 DEF do_sigtimedwait, TypeOK
    <2>4. wait' \in [Threads -> [these : SUBSET Signals, real : SUBSET Signals]]
      BY <1>5, <2>1 DEF do_sigtimedwait, TypeOK
    <2>5. jobctl' \in [Threads -> SUBSET JobctlBits]
      BY <1>5 DEF do_sigtimedwait, TakeWaited, MarkDequeued, JobctlBits, TypeOK
    <2>6. /\ state' \in [Threads -> {"running", "sleep", "deep", "stopped", "dead"}]
          /\ tif' \in [Threads -> BOOLEAN]
      BY <1>5 DEF do_sigtimedwait, AfterDequeue, Recalc, TypeOK
    <2>7. pc' \in [Threads -> {"user", "wait", "relock", "loop", "stop", "orphan",
                              "exit", "exiting", "exitlock", "exited", "gone"}]
      BY <1>5 DEF do_sigtimedwait, TypeOK
    <2>8. UNCHANGED <<list, handler, exiting, group, curr_target, counters, warned>>
      BY <1>5 DEF Local, do_sigtimedwait
    <2> QED
      BY <2>2, <2>3, <2>4, <2>5, <2>6, <2>7, <2>8 DEF TypeOK
  <1>6. ASSUME NEW sig \in Forced, force_sig_info(t, sig) PROVE TypeOK'
    <2>1. sig \in AllSignals
      BY ForcedAssumption DEF AllSignals
    <2> QED
      BY <1>6, <2>1 DEF Local, force_sig_info, TypeOK
  <1>7. ASSUME NEW sig \in Catchable, NEW h \in Handlers, do_sigaction(t, sig, h)
        PROVE  TypeOK'
    <2>1. h \in {"SIG_DFL", "SIG_IGN", "fn", "oneshot"}
      BY HandlersAssumption
    <2> QED
      BY <1>7, <2>1 DEF Local, do_sigaction, TypeOK
  <1> QED
    BY <1>1, <1>2, <1>3, <1>4, <1>5, <1>6, <1>7 DEF Local

(* What prepare_signal leaves is of the same types. *)
LEMMA PrepareTypes ==
  ASSUME TypeOK, NEW sig \in Signals
  PROVE  LET prep == prepare_signal(sig) IN
         /\ prep.pending \in [Threads -> SUBSET AllSignals]
         /\ prep.shared \in SUBSET AllSignals
         /\ prep.jobctl \in [Threads -> SUBSET JobctlBits]
         /\ prep.state \in [Threads -> {"running", "sleep", "deep", "stopped", "dead"}]
         /\ prep.flags \in SUBSET FlagBits
         /\ prep.count \in 0 .. NThreads
  <1>1. /\ prepare_signal(sig).pending \in [Threads -> SUBSET AllSignals]
        /\ prepare_signal(sig).shared \in SUBSET AllSignals
    BY DEF prepare_signal, TypeOK
  <1>2. prepare_signal(sig).jobctl \in [Threads -> SUBSET JobctlBits]
    BY DEF prepare_signal, ClearJobctl, TypeOK
  <1>3. prepare_signal(sig).state \in [Threads -> {"running", "sleep", "deep", "stopped", "dead"}]
    BY DEF prepare_signal, TypeOK
  <1>4. prepare_signal(sig).flags \in SUBSET FlagBits
    BY DEF prepare_signal, Why, FlagBits, TypeOK
  <1>5. prepare_signal(sig).count \in 0 .. NThreads
    BY ThreadsAssumption DEF prepare_signal, TypeOK
  <1> QED
    BY <1>1, <1>2, <1>3, <1>4, <1>5

(* The pending sets once the signal is queued. *)
PendingWith(sig, p, grp) ==
    IF grp THEN prepare_signal(sig).pending
           ELSE [prepare_signal(sig).pending EXCEPT ![p] = @ \cup {sig}]
SharedWith(sig, grp) ==
    IF grp THEN prepare_signal(sig).shared \cup {sig} ELSE prepare_signal(sig).shared

(* The signal kills the group, through thread t. *)
Kills(sig, p, grp, t) ==
    /\ t \in list /\ sig_fatal(sig)
    /\ StartGroupExit(PendingWith(sig, p, grp), SharedWith(sig, grp),
                      prepare_signal(sig).state)

(* The signal is queued, and thread t, if it is one, is woken for it. *)
Queues(sig, p, grp, t) ==
    LET prep == prepare_signal(sig) IN
    /\ pending' = PendingWith(sig, p, grp) /\ shared' = SharedWith(sig, grp)
    /\ jobctl' = prep.jobctl
    /\ sigflags' = prep.flags /\ group_stop_count' = prep.count
    /\ t = 0 => state' = prep.state /\ tif' = tif
    /\ t # 0 => /\ t \in list
                /\ state' = [prep.state EXCEPT ![t] = Woken(prep.state, t, sig = SIGKILL)]
                /\ tif' = [tif EXCEPT ![t] = TRUE]

(* Why complete_signal does not kill the group although somebody wants it. *)
NotFatal(sig, t) ==
    \/ ~ sig_fatal(sig) \/ "GROUP_EXIT" \in prepare_signal(sig).flags
    \/ sig \in real_blocked(t) \/ sig \in SIG_KERNEL_COREDUMP

(* What becomes of a signal: it is dropped, it kills, or it is queued.     *)
LEMMA SendCases ==
  ASSUME TypeOK, NEW sig \in Signals, NEW p \in list, NEW grp \in BOOLEAN,
         send_signal(sig, p, grp)
  PROVE  /\ curr_target' \in Threads
         /\ \/ /\ Drop(prepare_signal(sig))
               /\ \/ sig_ignored(p, sig)
                  \/ sig \in IF grp THEN prepare_signal(sig).shared
                                   ELSE prepare_signal(sig).pending[p]
            \/ \E t \in list : Kills(sig, p, grp, t)
            \/ \E t \in {0} \cup list, curr \in SUBSET list :
                  LET W == Wanting(sig, prepare_signal(sig).state, curr) IN
                  /\ Queues(sig, p, grp, t)
                  /\ t # 0 => t \in W /\ NotFatal(sig, t) /\ (~ grp => t = p)
                  /\ t = 0 => p \notin W /\ (grp => W = {})
  <1> DEFINE prep == prepare_signal(sig)
             dropped == \/ sig_ignored(p, sig)
                        \/ sig \in (IF grp THEN prep.shared ELSE prep.pending[p])
  <1>1. list \in SUBSET Threads /\ curr_target \in Threads /\ 0 \notin Threads
    BY DEF TypeOK, Threads
  <1>2. CASE dropped
    <2>1. Drop(prep)
      BY <1>2 DEF send_signal
    <2>2. curr_target' = curr_target
      BY <2>1 DEF Drop
    <2> QED
      BY <1>1, <1>2, <2>1, <2>2
  <1>3. CASE ~ dropped
    <2>1. PICK curr \in SUBSET {t \in list : state[t] = "running"} :
            LET t == Target(sig, p, grp, prep.state, curr) IN
            IF /\ t # 0 /\ sig_fatal(sig) /\ "GROUP_EXIT" \notin prep.flags
               /\ sig \notin real_blocked(t) /\ sig \notin SIG_KERNEL_COREDUMP
              THEN /\ StartGroupExit(PendingWith(sig, p, grp), SharedWith(sig, grp), prep.state)
                   /\ curr_target' = IF t = p THEN curr_target ELSE t
              ELSE /\ pending' = PendingWith(sig, p, grp)
                   /\ shared' = SharedWith(sig, grp)
                   /\ jobctl' = prep.jobctl
                   /\ sigflags' = prep.flags
                   /\ group_stop_count' = prep.count
                   /\ IF t = 0
                        THEN /\ state' = prep.state
                             /\ UNCHANGED <<tif, curr_target>>
                        ELSE /\ state' = [prep.state EXCEPT ![t] =
                                          Woken(prep.state, t, sig = SIGKILL)]
                             /\ tif' = [tif EXCEPT ![t] = TRUE]
                             /\ curr_target' = IF t = p THEN curr_target ELSE t
      BY <1>3 DEF send_signal, PendingWith, SharedWith
    <2> DEFINE t == Target(sig, p, grp, prep.state, curr)
               W == Wanting(sig, prep.state, curr)
    <2>2. /\ t \in {0} \cup W /\ (t = 0 => p \notin W) /\ (t = 0 /\ grp => W = {})
          /\ ~ grp => t \in {0, p}
      BY TargetWants
    <2>3. t \in {0} \cup list /\ (t # 0 => t \in list)
      BY <2>2 DEF Wanting
    <2>4. curr \in SUBSET list
      OBVIOUS
    <2> HIDE DEF prep, t
    <2>5. curr_target' \in Threads
      BY <1>1, <2>1, <2>3 DEF t
    <2>6. Kills(sig, p, grp, t) \/ (Queues(sig, p, grp, t) /\ (t # 0 => NotFatal(sig, t)))
      BY <2>1, <2>3 DEF t, prep, Kills, Queues, NotFatal
    <2>7. Kills(sig, p, grp, t) => t \in list
      BY DEF Kills
    <2> QED
      BY <2>2, <2>3, <2>4, <2>5, <2>6, <2>7 DEF prep
  <1> QED
    BY <1>2, <1>3

(* In short: it is dropped, it kills the group, or it is queued. *)
LEMMA SendKinds ==
  ASSUME TypeOK, NEW sig \in Signals, NEW p \in list, NEW grp \in BOOLEAN,
         send_signal(sig, p, grp)
  PROVE  \/ Drop(prepare_signal(sig))
         \/ \E t \in list : Kills(sig, p, grp, t)
         \/ \E t \in {0} \cup list : Queues(sig, p, grp, t)
  BY SendCases

LEMMA SendTypes ==
  ASSUME TypeOK, NEW sig \in Signals, NEW p \in list, NEW grp \in BOOLEAN,
         send_signal(sig, p, grp), Count(sig),
         UNCHANGED <<list, masks, handler, exiting, pc, warned>>
  PROVE  TypeOK'
  <1> DEFINE prep == prepare_signal(sig)
             States == {"running", "sleep", "deep", "stopped", "dead"}
  <1>1. /\ prep.pending \in [Threads -> SUBSET AllSignals]
        /\ prep.shared \in SUBSET AllSignals
        /\ prep.jobctl \in [Threads -> SUBSET JobctlBits]
        /\ prep.state \in [Threads -> States]
        /\ prep.flags \in SUBSET FlagBits
        /\ prep.count \in 0 .. NThreads
    BY PrepareTypes
  <1>2. /\ list \in SUBSET Threads /\ tif \in [Threads -> BOOLEAN]
        /\ sig \in AllSignals /\ SIGKILL \in AllSignals
    BY DEF TypeOK, AllSignals
  <1> HIDE DEF prep
  <1>3. /\ PendingWith(sig, p, grp) \in [Threads -> SUBSET AllSignals]
        /\ SharedWith(sig, grp) \in SUBSET AllSignals
    BY <1>1, <1>2 DEF PendingWith, SharedWith, prep
  <1>4. counters' \in [AllSignals -> 0 .. CounterMod - 1]
    <2>1. counters \in [AllSignals -> 0 .. CounterMod - 1]
      BY DEF TypeOK
    <2>2. (counters[sig] + 1) % CounterMod \in 0 .. CounterMod - 1
      <3>1. counters[sig] \in Nat /\ CounterMod \in Nat /\ CounterMod > 0
        BY <1>2, <2>1, CounterAssumption
      <3> QED
        BY <3>1
    <2>3. counters' = [counters EXCEPT ![sig] = (counters[sig] + 1) % CounterMod]
      BY DEF Count
    <2> QED
      BY <2>1, <2>2, <2>3
  <1>5. curr_target' \in Threads
    BY SendCases
  <1> DEFINE Typed == /\ pending' \in [Threads -> SUBSET AllSignals]
                      /\ shared' \in SUBSET AllSignals
                      /\ jobctl' \in [Threads -> SUBSET JobctlBits]
                      /\ state' \in [Threads -> States]
                      /\ sigflags' \in SUBSET FlagBits
                      /\ group_stop_count' \in 0 .. NThreads
                      /\ tif' \in [Threads -> BOOLEAN]
  <1>6. ASSUME Drop(prep) PROVE Typed
    <2>1. /\ pending' = prep.pending /\ shared' = prep.shared /\ jobctl' = prep.jobctl
          /\ state' = prep.state /\ sigflags' = prep.flags
          /\ group_stop_count' = prep.count /\ tif' = tif
      BY <1>6 DEF Drop
    <2> QED
      BY <1>1, <1>2, <2>1
  <1>7. ASSUME NEW t \in list, Kills(sig, p, grp, t) PROVE Typed
    <2> DEFINE pw == PendingWith(sig, p, grp)
    <2>1. StartGroupExit(pw, SharedWith(sig, grp), prep.state)
      BY <1>7 DEF Kills, prep
    <2> HIDE DEF pw
    <2>2. pw \in [Threads -> SUBSET AllSignals]
      BY <1>3 DEF pw
    <2>3. sigflags' \in SUBSET FlagBits /\ group_stop_count' \in 0 .. NThreads
      BY <2>1, ThreadsAssumption DEF StartGroupExit, FlagBits
    <2>4. pending' \in [Threads -> SUBSET AllSignals]
      BY <1>2, <2>1, <2>2 DEF StartGroupExit
    <2>5. jobctl' \in [Threads -> SUBSET JobctlBits]
      BY <2>1 DEF StartGroupExit, ClearJobctl, TypeOK
    <2>6. state' \in [Threads -> States] /\ tif' \in [Threads -> BOOLEAN]
      BY <1>1, <1>2, <2>1 DEF StartGroupExit, Woken
    <2> QED
      BY <1>3, <2>1, <2>3, <2>4, <2>5, <2>6 DEF StartGroupExit
  <1>8. ASSUME NEW t \in {0} \cup list, Queues(sig, p, grp, t) PROVE Typed
    BY <1>1, <1>2, <1>3, <1>8 DEF Queues, Woken, prep
  <1>9. Typed
    <2> HIDE DEF Typed
    <2>1. \/ Drop(prep) \/ \E t \in list : Kills(sig, p, grp, t)
          \/ \E t \in {0} \cup list : Queues(sig, p, grp, t)
      BY SendKinds DEF prep
    <2> QED
      BY <1>6, <1>7, <1>8, <2>1
  <1> HIDE DEF prep
  <1> QED
    BY <1>4, <1>5, <1>9 DEF TypeOK, masks

(* next_thread needs somebody in the list: the leader never leaves it. *)
TypeInv == TypeOK /\ Leader \in list

LEMMA TypesInductive == TypeInv /\ [Next]_vars => TypeInv'
  <1> SUFFICES ASSUME TypeOK, Leader \in list, [Next]_vars
               PROVE  TypeOK' /\ Leader \in list'
    BY DEF TypeInv
  <1>0. Leader \in Threads
    BY DEF TypeOK
  <1>1. ASSUME NEW sig \in Signals, Kill(sig) PROVE TypeOK' /\ Leader \in list'
    BY <1>1, SendTypes DEF Kill
  <1>2. ASSUME NEW sig \in Signals, NEW t \in Threads, Tkill(t, sig)
        PROVE  TypeOK' /\ Leader \in list'
    BY <1>2, SendTypes DEF Tkill
  <1>3. ASSUME NEW t \in Threads, Step(t) PROVE TypeOK' /\ Leader \in list'
    <2>1. Leader \in list'
      BY <1>3 DEF Step, EnterSignal, NotifyParent, JoinStop, NoSignal, Deliver, TakeStop,
         IsOrphaned, TryStop, TakeFatal, WaitReturns, do_group_exit, exit_signals,
         ExitLocked, exit_notify
    <2> QED
      BY <1>3, <2>1, StepTypes
  <1>4. ASSUME NEW t \in Threads, Local(t) PROVE TypeOK' /\ Leader \in list'
    <2>1. list' = list
      BY <1>4 DEF Local, CallExit, Sleep, Wake, set_current_blocked, do_sigtimedwait,
                  force_sig_info, do_sigaction
    <2> QED
      BY <1>4, <2>1, LocalTypes
  <1>5. CASE UNCHANGED vars
    BY <1>5 DEF vars, queues, masks, group, TypeOK
  <1> QED
    BY <1>1, <1>2, <1>3, <1>4, <1>5 DEF Next, Send

LEMMA SignalTypesInit == Init => TypeInv
  <1> SUFFICES ASSUME Init PROVE TypeOK /\ Leader \in list
    BY DEF TypeInv
  <1>1. Leader \in Threads /\ 0 \in 0 .. NThreads /\ 0 \in 0 .. CounterMod - 1
    BY ThreadsAssumption, CounterAssumption DEF Leader, Threads
  <1>2. wait \in [Threads -> [these : SUBSET Signals, real : SUBSET Signals]]
    BY DEF Init, NotWaiting
  <1>3. pc \in [Threads -> {"user", "wait", "relock", "loop", "stop", "orphan",
                           "exit", "exiting", "exitlock", "exited", "gone"}]
    BY DEF Init
  <1> QED
    BY <1>1, <1>2, <1>3 DEF Init, TypeOK

(* The type invariant holds in every reachable state. *)
THEOREM SignalTypes == Spec => []TypeOK
  <1>1. TypeInv => TypeOK
    BY DEF TypeInv
  <1> QED
    BY <1>1, SignalTypesInit, TypesInductive, PTL DEF Spec

-----------------------------------------------------------------------------
(* Whereabouts. *)

(* A step that only wakes threads, and tells them of a signal. *)
OnlyWakes(u) ==
    /\ \/ state'[u] = state[u]
       \/ state[u] \in {"sleep", "stopped"} /\ state'[u] = "running"
    /\ tif'[u] = tif[u] \/ (tif'[u] /\ state'[u] # "sleep")

LEMMA WakingKeepsWhereabouts ==
  ASSUME TypeOK, Whereabouts, UNCHANGED <<list, pc, exiting>>,
         \A u \in Threads : OnlyWakes(u)
  PROVE  Whereabouts'
  <1>1. tif \in [Threads -> BOOLEAN]
    BY DEF TypeOK
  <1> QED
    BY <1>1 DEF Whereabouts, OnlyWakes

LEMMA SendWakes ==
  ASSUME TypeOK, NEW sig \in Signals, NEW p \in list, NEW grp \in BOOLEAN,
         send_signal(sig, p, grp), NEW u \in Threads
  PROVE  OnlyWakes(u)
  <1> DEFINE prep == prepare_signal(sig)
  <1>1. /\ prep.state \in [Threads -> {"running", "sleep", "deep", "stopped", "dead"}]
        /\ list \in SUBSET Threads /\ tif \in [Threads -> BOOLEAN]
    BY PrepareTypes DEF TypeOK
  <1>2. \/ prep.state[u] = state[u]
        \/ state[u] \in {"sleep", "stopped"} /\ prep.state[u] = "running"
    BY DEF prepare_signal
  <1>3. \/ Drop(prep) \/ \E t \in list : Kills(sig, p, grp, t)
        \/ \E t \in {0} \cup list : Queues(sig, p, grp, t)
    BY SendKinds
  <1>4. CASE Drop(prep)
    <2>1. state' = prep.state /\ tif' = tif
      BY <1>4 DEF Drop
    <2> HIDE DEF prep
    <2> QED
      BY <1>2, <2>1 DEF OnlyWakes
  <1>5. ASSUME NEW t \in list, Kills(sig, p, grp, t) PROVE OnlyWakes(u)
    <2>1. /\ state'[u] = IF u \in list THEN Woken(prep.state, u, TRUE) ELSE prep.state[u]
          /\ tif'[u] = (u \in list \/ tif[u])
      BY <1>5 DEF Kills, StartGroupExit
    <2> HIDE DEF prep
    <2> QED
      BY <1>1, <1>2, <2>1 DEF OnlyWakes, Woken
  <1>6. ASSUME NEW t \in {0} \cup list, Queues(sig, p, grp, t) PROVE OnlyWakes(u)
    <2>1. CASE t = 0
      <3>1. state' = prep.state /\ tif' = tif
        BY <1>6, <2>1 DEF Queues
      <3> HIDE DEF prep
      <3> QED
        BY <1>2, <3>1 DEF OnlyWakes
    <2>2. CASE t # 0
      <3>1. /\ state' = [prep.state EXCEPT ![t] = Woken(prep.state, t, sig = SIGKILL)]
            /\ tif' = [tif EXCEPT ![t] = TRUE]
        BY <1>6, <2>2 DEF Queues
      <3> HIDE DEF prep
      <3> QED
        BY <1>1, <1>2, <3>1 DEF OnlyWakes, Woken
    <2> QED
      BY <2>1, <2>2
  <1> QED
    BY <1>3, <1>4, <1>5, <1>6

LEMMA WhereaboutsStep ==
  ASSUME TypeOK, Whereabouts, NEW t \in Threads, Step(t)
  PROVE  Whereabouts'
  <1> USE DEF group, Goto
  <1>0. /\ list \in SUBSET Threads /\ tif \in [Threads -> BOOLEAN]
        /\ state \in [Threads -> {"running", "sleep", "deep", "stopped", "dead"}]
        /\ exiting \in [Threads -> BOOLEAN]
        /\ pc \in [Threads -> {"user", "wait", "relock", "loop", "stop", "orphan",
                           "exit", "exiting", "exitlock", "exited", "gone"}]
    BY DEF TypeOK
  <1>1. CASE EnterSignal(t)
    BY <1>0, <1>1 DEF EnterSignal, Whereabouts
  <1>2. CASE NotifyParent(t)
    BY <1>0, <1>2 DEF NotifyParent, Whereabouts
  <1>3. ASSUME StopNow(t, jobctl[t]), UNCHANGED <<list, exiting>>,
               pc[t] \in {"relock", "loop", "stop", "orphan"}
        PROVE  Whereabouts'
    BY <1>0, <1>3 DEF StopNow, Whereabouts, Woken
  <1>4. CASE JoinStop(t)
    BY <1>3, <1>4 DEF JoinStop, AtLoop
  <1>5. CASE NoSignal(t)
    BY <1>0, <1>5 DEF NoSignal, AtLoop, Whereabouts
  <1>6. ASSUME AtLoop(t), UNCHANGED <<list, exiting, state>>,
               tif' = [tif EXCEPT ![t] = AfterDequeue(t)],
               NEW l \in {"loop", "user", "stop", "orphan", "exit"}, Goto(t, l)
        PROVE  Whereabouts'
    <2>1. pc[t] = "loop" \/ (pc[t] = "relock" /\ state[t] = "running")
      BY <1>6 DEF AtLoop
    <2>2. state[t] \notin {"sleep", "stopped", "dead"} /\ ~ exiting[t] /\ t \in list
      BY <1>0, <2>1 DEF Whereabouts
    <2>3. /\ UNCHANGED <<list, exiting, state>> /\ pc'[t] = l /\ pc'[t] \notin {"gone", "exited"}
          /\ \A u \in Threads \ {t} : pc'[u] = pc[u] /\ tif'[u] = tif[u]
      BY <1>0, <1>6
    <2> QED
      BY <1>0, <2>2, <2>3 DEF Whereabouts
  <1>7. CASE Deliver(t)
    BY <1>6, <1>7 DEF Deliver, Take
  <1>8. CASE TakeStop(t)
    BY <1>6, <1>8 DEF TakeStop, Take
  <1>9. CASE IsOrphaned(t)
    BY <1>0, <1>9 DEF IsOrphaned, Whereabouts
  <1>10. CASE TryStop(t)
    <2>1. CASE StopNow(t, jobctl[t])
      BY <1>3, <1>10, <2>1 DEF TryStop
    <2>2. CASE Goto(t, "loop") /\ UNCHANGED <<tif, state, jobctl, group, warned>>
      BY <1>0, <1>10, <2>2 DEF TryStop, Whereabouts
    <2> QED
      BY <1>10, <2>1, <2>2 DEF TryStop
  <1>11. CASE TakeFatal(t)
    BY <1>6, <1>11 DEF TakeFatal, Take
  <1>12. CASE WaitReturns(t)
    BY <1>0, <1>12 DEF WaitReturns, Whereabouts, Woken
  <1>13. CASE do_group_exit(t)
    <2>1. \A u \in Threads : OnlyWakes(u)
      <3>1. CASE UNCHANGED <<state, tif>>
        BY <1>0, <3>1 DEF OnlyWakes
      <3>2. CASE zap_other_threads(t)
        <4> SUFFICES ASSUME NEW u \in Threads PROVE OnlyWakes(u)
          OBVIOUS
        <4>1. \/ state'[u] = state[u] /\ tif'[u] = tif[u]
              \/ state'[u] = Woken(state, u, TRUE) /\ tif'[u]
          BY <1>0, <3>2 DEF zap_other_threads
        <4> QED
          BY <1>0, <4>1 DEF OnlyWakes, Woken
      <3> QED
        BY <1>13, <3>1, <3>2 DEF do_group_exit
    <2>2. UNCHANGED <<list, exiting>> /\ pc[t] = "exit" /\ pc' = [pc EXCEPT ![t] = "exiting"]
      BY <1>13 DEF do_group_exit
    <2> QED
      BY <1>0, <2>1, <2>2 DEF OnlyWakes, Whereabouts
  <1>14. CASE exit_signals(t)
    BY <1>0, <1>14 DEF exit_signals, Whereabouts
  <1>15. CASE ExitLocked(t)
    BY <1>0, <1>15 DEF ExitLocked, WakeAll, Woken, Whereabouts
  <1>16. CASE exit_notify(t)
    BY <1>0, <1>16 DEF exit_notify, Whereabouts
  <1> QED
    BY <1>1, <1>2, <1>4, <1>5, <1>7, <1>8, <1>9, <1>10, <1>11, <1>12, <1>13, <1>14,
       <1>15, <1>16 DEF Step

LEMMA WhereaboutsLocal ==
  ASSUME TypeOK, Whereabouts, NEW t \in Threads, Local(t)
  PROVE  Whereabouts'
  <1>0. /\ list \in SUBSET Threads /\ tif \in [Threads -> BOOLEAN]
        /\ state \in [Threads -> {"running", "sleep", "deep", "stopped", "dead"}]
        /\ exiting \in [Threads -> BOOLEAN]
        /\ pc \in [Threads -> {"user", "wait", "relock", "loop", "stop", "orphan",
                           "exit", "exiting", "exitlock", "exited", "gone"}]
    BY DEF TypeOK
  <1>1. CASE CallExit(t)
    BY <1>0, <1>1 DEF CallExit, Whereabouts
  <1>2. CASE Sleep(t)
    BY <1>0, <1>2 DEF Sleep, Whereabouts
  <1>3. CASE Wake(t)
    BY <1>0, <1>3 DEF Wake, Whereabouts
  <1>4. ASSUME NEW m \in Masks, set_current_blocked(t, m) PROVE Whereabouts'
    BY <1>0, <1>4 DEF set_current_blocked, Woken, Whereabouts
  <1>5. ASSUME NEW w \in Waits, NEW timeout \in BOOLEAN, do_sigtimedwait(t, w, timeout)
        PROVE  Whereabouts'
    <2>1. /\ pc[t] = "user" /\ state[t] = "running" /\ UNCHANGED <<list, exiting>>
          /\ tif' = [tif EXCEPT ![t] = AfterDequeue(t)]
          /\ \/ UNCHANGED <<state, pc>>
             \/ pc' = [pc EXCEPT ![t] = "wait"] /\ state' = state
             \/ /\ pc' = [pc EXCEPT ![t] = "wait"] /\ ~ AfterDequeue(t)
                /\ state' = [state EXCEPT ![t] = "sleep"]
      BY <1>5 DEF do_sigtimedwait, Goto
    <2> QED
      BY <1>0, <2>1 DEF Whereabouts
  <1>6. ASSUME NEW sig \in Forced, force_sig_info(t, sig) PROVE Whereabouts'
    BY <1>0, <1>6 DEF force_sig_info, Whereabouts
  <1>7. ASSUME NEW sig \in Catchable, NEW h \in Handlers, do_sigaction(t, sig, h)
        PROVE  Whereabouts'
    BY <1>0, <1>7 DEF do_sigaction, Whereabouts
  <1> QED
    BY <1>1, <1>2, <1>3, <1>4, <1>5, <1>6, <1>7 DEF Local

LEMMA WhereaboutsInductive == TypeOK /\ Whereabouts /\ [Next]_vars => Whereabouts'
  <1> SUFFICES ASSUME TypeOK, Whereabouts, [Next]_vars PROVE Whereabouts'
    OBVIOUS
  <1>0. Leader \in list
    BY DEF Whereabouts
  <1>1. ASSUME NEW sig \in Signals, Kill(sig) PROVE Whereabouts'
    BY <1>0, <1>1, SendWakes, WakingKeepsWhereabouts DEF Kill
  <1>2. ASSUME NEW sig \in Signals, NEW t \in Threads, Tkill(t, sig) PROVE Whereabouts'
    BY <1>2, SendWakes, WakingKeepsWhereabouts DEF Tkill
  <1>3. CASE UNCHANGED vars
    BY <1>3 DEF vars, Whereabouts
  <1> QED
    BY <1>1, <1>2, <1>3, WhereaboutsStep, WhereaboutsLocal DEF Next, Send
=============================================================================
