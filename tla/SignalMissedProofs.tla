-------------------------- MODULE SignalMissedProofs --------------------------
(***************************************************************************)
(* Proofs about Signal: a pending signal that some thread could take is    *)
(* never left with nobody about to look for it.                            *)
(***************************************************************************)
EXTENDS SignalStopProofs

(* The threads that could take signal s from the shared queue. *)
Takers(s) == {t \in list : ~ exiting[t] /\ s \notin blocked[t]}

LEMMA NoMissedSignalDef ==
  NoMissedSignal <=>
    \/ signal_group_exit
    \/ /\ \A s \in shared : Takers(s) # {} => \E t \in Takers(s) : Alert(t)
       /\ \A t \in list : ~ exiting[t] /\ pending[t] \ blocked[t] # {} => Alert(t)
  BY DEF NoMissedSignal, Takers

InLoop == {"relock", "loop", "stop", "orphan"}

(* A thread that is told of a signal does not sleep. *)
LEMMA AlertWhen ==
  ASSUME JobInv, NEW t \in Threads
  PROVE  Alert(t) <=> tif[t] \/ pc[t] \in InLoop
  BY DEF Alert, InLoop, JobInv, Whereabouts

(* retarget_shared_pending misses nobody: for every shared signal it is    *)
(* asked about, and that another thread can take, one that can take it is  *)
(* woken or knows of a signal already.                                     *)
LEMMA RetargetFinds ==
  ASSUME TypeOK, NEW t \in Threads, NEW which, NEW s \in shared, s \in which,
         NEW v \in list \ {t}, ~ exiting[v], s \notin blocked[v]
  PROVE  \E u \in list \ {t} : /\ ~ exiting[u] /\ s \notin blocked[u]
                               /\ u \in Retargeted(t, which) \/ tif[u]
  <1> DEFINE others == {u \in list \ {t} : ~ exiting[u]}
             able   == {u \in others : s \notin blocked[u]}
  <1>1. /\ able \in SUBSET Threads /\ able # {} /\ t \in Int
        /\ \A w \in Threads : Distance(t, w) \in Int
    <2>1. list \in SUBSET Threads
      BY DEF TypeOK
    <2>2. t \in Int /\ \A w \in Threads : Distance(t, w) \in Int
      BY ThreadsAssumption DEF Threads, Distance
    <2> QED
      BY <2>1, <2>2
  <1>2. PICK u \in able : \A w \in able : Distance(t, u) <= Distance(t, w)
    <2> HIDE DEF able
    <2> QED
      BY <1>1, FirstAfter
  <1>3. \A w \in others : Distance(t, w) < Distance(t, u) => s \in blocked[w]
    <2> SUFFICES ASSUME NEW w \in others, Distance(t, w) < Distance(t, u), s \notin blocked[w]
                 PROVE  FALSE
      OBVIOUS
    <2>1. w \in able /\ w \in Threads /\ u \in Threads
      BY DEF TypeOK
    <2>2. Distance(t, u) <= Distance(t, w)
      BY <1>2, <2>1
    <2> QED
      BY <1>1, <2>1, <2>2
  <1>4. u \in Retargeted(t, which) \/ tif[u]
    BY <1>2, <1>3 DEF Retargeted
  <1> QED
    BY <1>2, <1>4

(* A step of thread t that is not a death or a send.  Of t's own part: it  *)
(* looks for signals afterwards, or there is nothing for it to take, or it *)
(* exits, or it did not look before either and could take the same.  Of    *)
(* the others': who knew of a signal still does, and if t was to look for  *)
(* a shared signal, and no longer takes it, others are told.               *)
LEMMA OneThread ==
  ASSUME JobInv, JobInv', NoMissedSignal, ~ signal_group_exit, NEW t \in list,
         list' = list, shared' \in SUBSET shared,
         \A u \in list \ {t} :
            /\ pending'[u] \subseteq pending[u] /\ blocked'[u] = blocked[u]
            /\ exiting'[u] = exiting[u] /\ pc'[u] = pc[u] /\ (tif[u] => tif'[u]),
         exiting[t] => exiting'[t],
         \/ Alert(t)' \/ exiting'[t] \/ (pending'[t] \cup shared') \subseteq blocked'[t]
         \/ /\ ~ Alert(t) /\ blocked'[t] = blocked[t] /\ exiting'[t] = exiting[t]
            /\ pending'[t] \subseteq pending[t],
         \A s \in shared' :
            (/\ Alert(t) /\ list # {t} /\ ~ exiting[t] /\ s \notin blocked[t]
             /\ exiting'[t] \/ s \in blocked'[t]) =>
               \E which : s \in which /\ \A u \in Retargeted(t, which) : u # t => tif'[u]
  PROVE  NoMissedSignal'
  <1>0. /\ list \in SUBSET Threads /\ t \in Threads /\ TypeOK
        /\ \A u \in Threads : Alert(u) <=> tif[u] \/ pc[u] \in InLoop
        /\ \A u \in Threads : Alert(u)' <=> tif'[u] \/ pc'[u] \in InLoop
    <2>1. list \in SUBSET Threads /\ TypeOK
      BY DEF JobInv, TypeOK
    <2>2. \A u \in Threads : Alert(u)' <=> tif'[u] \/ pc'[u] \in InLoop
      BY DEF Alert, InLoop, JobInv, Whereabouts
    <2> QED
      BY <2>1, <2>2, AlertWhen
  <1>1. \A u \in list \ {t} : Alert(u) => Alert(u)'
    BY <1>0
  <1>2. /\ \A s \in shared : Takers(s) # {} => \E u \in Takers(s) : Alert(u)
        /\ \A u \in list : ~ exiting[u] /\ pending[u] \ blocked[u] # {} => Alert(u)
    BY NoMissedSignalDef
  <1>3. ASSUME NEW u \in list, ~ exiting'[u], pending'[u] \ blocked'[u] # {}
        PROVE  Alert(u)'
    BY <1>1, <1>2, <1>3
  <1>4. ASSUME NEW s \in shared', NEW v \in list, ~ exiting'[v], s \notin blocked'[v]
        PROVE  \E u \in list : ~ exiting'[u] /\ s \notin blocked'[u] /\ Alert(u)'
    <2>1. CASE ~ exiting'[t] /\ s \notin blocked'[t] /\ Alert(t)'
      BY <2>1
    <2>2. CASE \E u \in list \ {t} : ~ exiting[u] /\ s \notin blocked[u] /\ Alert(u)
      BY <1>1, <2>2
    <2>3. CASE /\ ~ \E u \in list \ {t} : ~ exiting[u] /\ s \notin blocked[u] /\ Alert(u)
               /\ ~ exiting[t] /\ s \notin blocked[t] /\ Alert(t)
               /\ exiting'[t] \/ s \in blocked'[t]
      <3>1. v # t /\ ~ exiting[v] /\ s \notin blocked[v]
        BY <1>4, <2>3
      <3>2. PICK which : s \in which /\ \A u \in Retargeted(t, which) : u # t => tif'[u]
        BY <2>3, <3>1
      <3>3. PICK u \in list \ {t} : /\ ~ exiting[u] /\ s \notin blocked[u]
                                    /\ u \in Retargeted(t, which) \/ tif[u]
        <4>1. s \in shared /\ s \in which /\ v \in list \ {t}
          BY <3>1, <3>2
        <4> QED
          BY <1>0, <3>1, <4>1, RetargetFinds
      <3>4. tif'[u]
        BY <3>2, <3>3
      <3> QED
        BY <1>0, <3>3, <3>4
    <2>4. \/ \E u \in list : ~ exiting[u] /\ s \notin blocked[u] /\ Alert(u)
          \/ /\ v = t /\ (exiting[t] \/ s \in blocked[t])
      BY <1>2, <1>4 DEF Takers
    <2> QED
      BY <1>4, <2>1, <2>2, <2>3, <2>4
  <1> QED
    BY <1>3, <1>4 DEF NoMissedSignal

-----------------------------------------------------------------------------
(* Each step is of that kind. *)

(* t takes what it takes and then looks again (recalc_sigpending). *)
LEMMA LooksAgain ==
  ASSUME NEW t \in Threads, tif \in [Threads -> BOOLEAN],
         tif' = [tif EXCEPT ![t] = AfterDequeue(t)], state'[t] # "sleep"
  PROVE  Alert(t)' \/ (pending'[t] \cup shared') \subseteq blocked'[t]
  BY DEF Alert, AfterDequeue, Recalc

LEMMA MissedStep ==
  ASSUME JobInv, JobInv', NoMissedSignal, ~ signal_group_exit, ~ signal_group_exit',
         NEW t \in Threads, Step(t)
  PROVE  NoMissedSignal'
  <1>0. /\ list \in SUBSET Threads /\ pending \in [Threads -> SUBSET AllSignals]
        /\ shared \in SUBSET AllSignals
        /\ blocked \in [Threads -> SUBSET Signals] /\ exiting \in [Threads -> BOOLEAN]
        /\ tif \in [Threads -> BOOLEAN]
        /\ state \in [Threads -> {"running", "sleep", "deep", "stopped", "dead"}]
        /\ pc \in [Threads -> {"user", "wait", "relock", "loop", "stop", "orphan",
                           "exit", "exiting", "exitlock", "exited", "gone"}]
    BY DEF JobInv, TypeOK
  <1>a. /\ pc[t] # "gone" => t \in list
        /\ state[t] = "sleep" => pc[t] \in {"user", "wait"}
        /\ exiting[t] <=> pc[t] \in {"exited", "gone"}
    BY DEF JobInv, Whereabouts
  <1>b. Alert(t) <=> tif[t] \/ pc[t] \in InLoop
    BY AlertWhen
  (* What most steps have in common. *)
  <1> DEFINE Mine == /\ list' = list /\ exiting' = exiting /\ blocked' = blocked
                     /\ shared' \in SUBSET shared
                     /\ \A u \in list : pending'[u] \subseteq pending[u]
                     /\ \A u \in list \ {t} : pc'[u] = pc[u] /\ (tif[u] => tif'[u])
  <1>1. ASSUME t \in list, Mine,
               \/ Alert(t)' \/ (pending'[t] \cup shared') \subseteq blocked'[t] \/ ~ Alert(t)
        PROVE  NoMissedSignal'
    <2>1. \A s \in shared' : ~ (s \notin blocked[t] /\ (exiting'[t] \/ s \in blocked'[t]) /\ ~ exiting[t])
      BY <1>1
    <2> QED
      BY <1>1, <2>1, OneThread
  <1>2. CASE EnterSignal(t)
    BY <1>0, <1>1, <1>a, <1>2 DEF EnterSignal, Goto, Alert, queues, masks
  <1>3. CASE NotifyParent(t)
    BY <1>0, <1>1, <1>a, <1>3 DEF NotifyParent, Alert, queues, masks
  <1>4. ASSUME StopNow(t, jobctl[t]), UNCHANGED <<list, queues, masks, exiting>>, t \in list
        PROVE  NoMissedSignal'
    <2>1. Alert(t)' /\ \A u \in list \ {t} : pc'[u] = pc[u] /\ (tif[u] => tif'[u])
      BY <1>0, <1>4 DEF StopNow, Alert
    <2> QED
      BY <1>1, <1>4, <2>1 DEF queues, masks
  <1>5. CASE JoinStop(t)
    BY <1>4, <1>5, <1>a DEF JoinStop, AtLoop
  <1>6. CASE NoSignal(t)
    <2>1. t \in list
      BY <1>6, <1>a DEF NoSignal, AtLoop
    <2>2. Mine /\ (pending'[t] \cup shared') \subseteq blocked'[t]
      BY <1>0, <1>6 DEF NoSignal, Goto, queues, masks
    <2> QED
      BY <1>1, <2>1, <2>2
  <1>7. ASSUME NEW sig, Take(t, sig), UNCHANGED <<list, exiting, state>>, NEW l, Goto(t, l),
               tif' = [tif EXCEPT ![t] = AfterDequeue(t)]
        PROVE  NoMissedSignal'
    <2>1. t \in list /\ state'[t] # "sleep"
      BY <1>0, <1>7, <1>a DEF Take, AtLoop
    <2>2. Mine
      BY <1>0, <1>7 DEF Take, Dequeue, Goto, masks
    <2>3. Alert(t)' \/ (pending'[t] \cup shared') \subseteq blocked'[t]
      BY <1>0, <1>7, <2>1, LooksAgain
    <2> QED
      BY <1>1, <2>1, <2>2, <2>3
  <1>8. CASE Deliver(t)
    BY <1>7, <1>8 DEF Deliver
  <1>9. CASE TakeStop(t)
    BY <1>7, <1>9 DEF TakeStop
  <1>10. CASE IsOrphaned(t)
    BY <1>0, <1>1, <1>a, <1>10 DEF IsOrphaned, Goto, Alert, queues, masks
  <1>11. CASE TryStop(t)
    <2>0. t \in list /\ UNCHANGED <<list, queues, masks, exiting>>
      BY <1>0, <1>a, <1>11 DEF TryStop
    <2>1. CASE StopNow(t, jobctl[t])
      BY <1>4, <2>0, <2>1
    <2>2. CASE Goto(t, "loop") /\ UNCHANGED <<tif, state, jobctl, group, warned>>
      BY <1>0, <1>1, <2>0, <2>2 DEF Goto, Alert, queues, masks
    <2> QED
      BY <1>11, <2>1, <2>2 DEF TryStop
  <1>12. CASE TakeFatal(t)
    BY <1>7, <1>12 DEF TakeFatal
  <1>13. CASE WaitReturns(t)
    <2>1. /\ t \in list /\ pc[t] = "wait" /\ ~ exiting[t] /\ state[t] = "running"
          /\ list' = list /\ exiting' = exiting
      BY <1>0, <1>a, <1>13 DEF WaitReturns
    <2>2. /\ blocked' = [blocked EXCEPT ![t] = real_blocked(t)]
          /\ tif' = [u \in Threads |-> IF u = t THEN AfterDequeue(t)
                                               ELSE u \in WaitReblocked(t) \/ tif[u]]
          /\ state'[t] # "sleep" /\ pc' = [pc EXCEPT ![t] = "user"]
      BY <1>0, <2>1, <1>13 DEF WaitReturns, Woken, Goto
    <2>3. shared' \in SUBSET shared /\ \A u \in list : pending'[u] \subseteq pending[u]
      BY <1>0, <1>13 DEF WaitReturns, TakeWaited, Dequeue, queues
    <2>4. Alert(t)' \/ (pending'[t] \cup shared') \subseteq blocked'[t]
      BY <2>2 DEF Alert, AfterDequeue, Recalc
    <2>5. ASSUME NEW s \in shared', Alert(t), s \notin blocked[t], s \in blocked'[t], list # {t}
          PROVE  \E which : s \in which /\ \A u \in Retargeted(t, which) : u # t => tif'[u]
      <3>1. tif[t]
        BY <1>b, <2>1, <2>5 DEF InLoop
      <3>2. WaitReblocked(t) = Retargeted(t, real_blocked(t) \ blocked[t])
        BY <2>5, <3>1 DEF WaitReblocked, Reblocked, thread_group_empty
      <3>3. s \in real_blocked(t) \ blocked[t]
        BY <1>0, <2>2, <2>5
      <3>4. \A u \in Retargeted(t, real_blocked(t) \ blocked[t]) : u # t => tif'[u]
        <4>1. Retargeted(t, real_blocked(t) \ blocked[t]) \in SUBSET Threads
          BY <1>0 DEF Retargeted
        <4> QED
          BY <2>2, <3>2, <4>1
      <3> QED
        BY <3>3, <3>4
    <2>6. \A u \in list \ {t} : blocked'[u] = blocked[u] /\ pc'[u] = pc[u] /\ (tif[u] => tif'[u])
      BY <1>0, <2>2
    <2> QED
      BY <2>1, <2>3, <2>4, <2>5, <2>6, OneThread
  <1>14. CASE do_group_exit(t)
    <2>1. UNCHANGED <<pending, tif, state>> /\ t \in list
      BY <1>0, <1>14, <1>a DEF do_group_exit, signal_group_exit
    <2>2. Mine /\ Alert(t)' = Alert(t)
      BY <1>0, <1>14, <2>1 DEF do_group_exit, Goto, Alert, masks
    <2> QED
      BY <1>1, <2>1, <2>2
  <1>15. CASE exit_signals(t)
    <2>1. /\ t \in list /\ pc[t] = "exiting" /\ ~ exiting[t]
          /\ UNCHANGED <<list, pending, shared, blocked, tif, state>>
      BY <1>0, <1>a, <1>15 DEF exit_signals, queues, masks
    <2>2. CASE thread_group_empty(t)
      <3>1. exiting'[t] /\ list = {t}
        BY <1>0, <1>15, <2>2 DEF exit_signals, thread_group_empty
      <3> QED
        BY <2>1, <3>1, OneThread
    <2>3. CASE ~ thread_group_empty(t)
      <3>1. Mine /\ Alert(t)' = Alert(t)
        BY <1>0, <1>15, <2>1, <2>3 DEF exit_signals, Goto, Alert
      <3> QED
        BY <1>1, <2>1, <3>1
    <2> QED
      BY <2>2, <2>3
  <1>16. CASE ExitLocked(t)
    <2>1. /\ t \in list /\ pc[t] = "exitlock" /\ ~ exiting[t]
          /\ UNCHANGED <<list, pending, shared, blocked>>
          /\ exiting' = [exiting EXCEPT ![t] = TRUE] /\ pc' = [pc EXCEPT ![t] = "exited"]
      BY <1>0, <1>a, <1>16 DEF ExitLocked, Goto, queues, masks
    <2>2. \A u \in Threads : tif'[u] = (u \in (IF tif[t] THEN Retargeted(t, AllSignals \ blocked[t]) ELSE {}) \/ tif[u])
      BY <1>16 DEF ExitLocked, WakeAll
    <2>3. ASSUME NEW s \in shared', Alert(t), s \notin blocked[t], list # {t}
          PROVE  \E which : s \in which /\ \A u \in Retargeted(t, which) : u # t => tif'[u]
      <3>1. tif[t]
        BY <1>b, <2>1, <2>3 DEF InLoop
      <3>2. s \in AllSignals \ blocked[t]
        BY <1>0, <2>1, <2>3
      <3>3. Retargeted(t, AllSignals \ blocked[t]) \in SUBSET Threads
        BY <1>0 DEF Retargeted
      <3> QED
        BY <2>2, <3>1, <3>2, <3>3
    <2>4. \A u \in list \ {t} : exiting'[u] = exiting[u] /\ pc'[u] = pc[u] /\ (tif[u] => tif'[u])
      BY <1>0, <2>1, <2>2
    <2>5. exiting'[t]
      BY <1>0, <2>1
    <2> QED
      BY <2>1, <2>3, <2>4, <2>5, OneThread
  <1>17. CASE exit_notify(t)
    <2>1. /\ t \in list /\ exiting[t] /\ UNCHANGED <<shared, blocked, exiting, tif>>
          /\ list' \in SUBSET list /\ \A u \in list \ {t} : u \in list'
          /\ \A u \in list \ {t} : pending'[u] = pending[u] /\ state'[u] = state[u] /\ pc'[u] = pc[u]
      BY <1>0, <1>a, <1>17 DEF exit_notify, Goto, masks
    <2>2. \A u \in list \ {t} : Alert(u)' = Alert(u)
      BY <1>0, <2>1 DEF Alert
    <2>3. /\ \A s \in shared : Takers(s) # {} => \E u \in Takers(s) : Alert(u)
          /\ \A u \in list : ~ exiting[u] /\ pending[u] \ blocked[u] # {} => Alert(u)
      BY NoMissedSignalDef
    <2>4. \A s \in shared : t \notin Takers(s) /\ Takers(s)' = Takers(s)
      BY <2>1 DEF Takers
    <2>5. \A s \in shared : Takers(s) \in SUBSET (list \ {t})
      BY <2>4 DEF Takers
    <2>6. \A s \in shared' : Takers(s)' # {} => \E u \in Takers(s)' : Alert(u)'
      BY <2>1, <2>2, <2>3, <2>4, <2>5
    <2>7. \A u \in list' : ~ exiting'[u] /\ pending'[u] \ blocked'[u] # {} => Alert(u)'
      BY <2>1, <2>2, <2>3
    <2> QED
      BY <2>6, <2>7 DEF NoMissedSignal, Takers
  <1> QED
    BY <1>2, <1>3, <1>5, <1>6, <1>8, <1>9, <1>10, <1>11, <1>12, <1>13, <1>14, <1>15,
       <1>16, <1>17 DEF Step

LEMMA MissedLocal ==
  ASSUME JobInv, JobInv', NoMissedSignal, ~ signal_group_exit,
         NEW t \in Threads, Local(t)
  PROVE  NoMissedSignal'
  <1>0. /\ list \in SUBSET Threads /\ pending \in [Threads -> SUBSET AllSignals]
        /\ shared \in SUBSET AllSignals
        /\ blocked \in [Threads -> SUBSET Signals] /\ exiting \in [Threads -> BOOLEAN]
        /\ tif \in [Threads -> BOOLEAN]
        /\ state \in [Threads -> {"running", "sleep", "deep", "stopped", "dead"}]
        /\ pc \in [Threads -> {"user", "wait", "relock", "loop", "stop", "orphan",
                           "exit", "exiting", "exitlock", "exited", "gone"}]
    BY DEF JobInv, TypeOK
  <1>a. /\ pc[t] # "gone" => t \in list
        /\ state[t] = "sleep" => pc[t] \in {"user", "wait"}
        /\ exiting[t] <=> pc[t] \in {"exited", "gone"}
    BY DEF JobInv, Whereabouts
  <1>b. Alert(t) <=> tif[t] \/ pc[t] \in InLoop
    BY AlertWhen
  <1>1. ASSUME t \in list, UNCHANGED <<list, exiting, blocked, shared, pending, tif>>,
               \A u \in list \ {t} : pc'[u] = pc[u], Alert(t) => Alert(t)'
        PROVE  NoMissedSignal'
    BY <1>1, OneThread
  <1>2. CASE CallExit(t)
    <2>1. /\ t \in list /\ UNCHANGED <<list, exiting, blocked, shared, pending, tif, state>>
          /\ \A u \in list \ {t} : pc'[u] = pc[u]
          /\ pc[t] = "user"
      BY <1>0, <1>2, <1>a DEF CallExit, queues, masks
    <2>2. Alert(t) => Alert(t)'
      BY <2>1 DEF Alert
    <2> QED
      BY <1>1, <2>1, <2>2
  <1>3. CASE Sleep(t)
    <2>1. t \in list /\ pc[t] = "user" /\ ~ tif[t]
          /\ UNCHANGED <<list, exiting, blocked, shared, pending, tif, pc>>
      BY <1>0, <1>3, <1>a DEF Sleep, queues, masks
    <2>2. ~ Alert(t)
      BY <1>b, <2>1 DEF InLoop
    <2> QED
      BY <1>1, <2>1, <2>2
  <1>4. CASE Wake(t)
    <2>1. t \in list /\ UNCHANGED <<list, exiting, blocked, shared, pending, tif, pc>>
          /\ state'[t] # "sleep"
      BY <1>0, <1>4, <1>a DEF Wake, queues, masks
    <2>2. Alert(t) => Alert(t)'
      BY <2>1 DEF Alert
    <2> QED
      BY <1>1, <2>1, <2>2
  <1>5. ASSUME NEW m \in Masks, set_current_blocked(t, m) PROVE NoMissedSignal'
    <2>1. /\ t \in list /\ pc[t] = "user" /\ state[t] = "running"
          /\ UNCHANGED <<list, exiting, shared, pending, pc>>
          /\ blocked' = [blocked EXCEPT ![t] = m]
      BY <1>0, <1>5, <1>a DEF set_current_blocked, queues
    <2>2. /\ tif' = [u \in Threads |-> IF u = t THEN Recalc(pending[t], shared, m, jobctl[t])
                                               ELSE u \in Reblocked(t, m) \/ tif[u]]
          /\ state'[t] # "sleep"
      BY <1>0, <1>5, <2>1 DEF set_current_blocked, Woken
    <2>3. Alert(t)' \/ (pending'[t] \cup shared') \subseteq blocked'[t]
      BY <1>0, <2>1, <2>2 DEF Alert, Recalc
    <2>4. ASSUME NEW s \in shared', Alert(t), s \notin blocked[t], s \in blocked'[t], list # {t}
          PROVE  \E which : s \in which /\ \A u \in Retargeted(t, which) : u # t => tif'[u]
      <3>1. tif[t]
        BY <1>b, <2>1, <2>4 DEF InLoop
      <3>2. Reblocked(t, m) = Retargeted(t, m \ blocked[t])
        BY <2>4, <3>1 DEF Reblocked, thread_group_empty
      <3>3. s \in m \ blocked[t]
        BY <1>0, <2>1, <2>4
      <3>4. \A u \in Retargeted(t, m \ blocked[t]) : u # t => tif'[u]
        <4>1. Retargeted(t, m \ blocked[t]) \in SUBSET Threads
          BY <1>0 DEF Retargeted
        <4> QED
          BY <2>2, <3>2, <4>1
      <3> QED
        BY <3>3, <3>4
    <2>5. \A u \in list \ {t} : blocked'[u] = blocked[u] /\ (tif[u] => tif'[u])
      BY <1>0, <2>1, <2>2
    <2>6. ~ exiting[t] /\ ~ exiting'[t]
      BY <1>a, <2>1
    <2> QED
      BY <2>1, <2>3, <2>4, <2>5, <2>6, OneThread
  <1>6. ASSUME NEW w \in Waits, NEW timeout \in BOOLEAN, do_sigtimedwait(t, w, timeout)
        PROVE  NoMissedSignal'
    <2>1. /\ t \in list /\ ~ exiting[t] /\ state[t] = "running" /\ UNCHANGED <<list, exiting>>
          /\ tif' = [tif EXCEPT ![t] = AfterDequeue(t)]
          /\ pc' = pc \/ pc' = [pc EXCEPT ![t] = "wait"]
          /\ \/ state' = state
             \/ ~ AfterDequeue(t) /\ state' = [state EXCEPT ![t] = "sleep"]
          /\ \/ blocked' = blocked
             \/ blocked' = [blocked EXCEPT ![t] = @ \cap Unwanted(w)]
      BY <1>0, <1>6, <1>a DEF do_sigtimedwait, Goto, masks
    <2>2. shared' \in SUBSET shared /\ \A u \in list : pending'[u] \subseteq pending[u]
      BY <1>0, <1>6 DEF do_sigtimedwait, TakeWaited, Dequeue, queues
    <2>3. Alert(t)' \/ (pending'[t] \cup shared') \subseteq blocked'[t]
      <3>1. CASE AfterDequeue(t)
        BY <1>0, <2>1, <3>1 DEF Alert
      <3>2. CASE ~ AfterDequeue(t)
        BY <3>2 DEF AfterDequeue, Recalc
      <3> QED
        BY <3>1, <3>2
    <2>4. \A s : s \in blocked'[t] => s \in blocked[t]
      BY <1>0, <2>1
    <2>5. \A u \in list \ {t} : blocked'[u] = blocked[u] /\ pc'[u] = pc[u] /\ (tif[u] => tif'[u])
      BY <1>0, <2>1
    <2> QED
      BY <2>1, <2>2, <2>3, <2>4, <2>5, OneThread
  <1>7. ASSUME NEW sig \in Forced, force_sig_info(t, sig) PROVE NoMissedSignal'
    <2>1. /\ t \in list /\ ~ exiting[t] /\ pc[t] = "user" /\ state[t] = "running"
          /\ UNCHANGED <<list, exiting, shared, state, pc>>
          /\ blocked' = [blocked EXCEPT ![t] = @ \ {sig}]
          /\ pending' = [pending EXCEPT ![t] = @ \cup {sig}]
          /\ tif' = [tif EXCEPT ![t] = @ \/ sig \in blocked[t] \/ sig \notin pending[t]]
      BY <1>0, <1>7, <1>a DEF force_sig_info
    <2>2. \A u \in list \ {t} : /\ pending'[u] \subseteq pending[u] /\ blocked'[u] = blocked[u]
                                /\ tif[u] => tif'[u]
      BY <1>0, <2>1
    <2>3. CASE sig \in blocked[t] \/ sig \notin pending[t]
      <3>1. Alert(t)'
        BY <1>0, <2>1, <2>3 DEF Alert
      <3>2. \A s : s \in blocked'[t] => s \in blocked[t]
        BY <1>0, <2>1
      <3> QED
        BY <2>1, <2>2, <3>1, <3>2, OneThread
    <2>4. CASE sig \notin blocked[t] /\ sig \in pending[t]
      <3>1. Alert(t)
        BY <2>1, <2>4, NoMissedSignalDef
      <3>2. Alert(t)' /\ blocked'[t] = blocked[t]
        BY <1>0, <2>1, <2>4, <3>1 DEF Alert
      <3> QED
        BY <2>1, <2>2, <3>2, OneThread
    <2> QED
      BY <2>3, <2>4
  <1>8. ASSUME NEW sig \in Catchable, NEW h \in Handlers, do_sigaction(t, sig, h)
        PROVE  NoMissedSignal'
    <2>1. /\ t \in list /\ ~ exiting[t] /\ UNCHANGED <<list, exiting, blocked, tif, state, pc>>
          /\ shared' \in SUBSET shared /\ \A u \in list : pending'[u] \subseteq pending[u]
      BY <1>0, <1>8, <1>a DEF do_sigaction, masks
    <2>2. Alert(t)' = Alert(t)
      BY <2>1 DEF Alert
    <2> QED
      BY <2>1, <2>2, OneThread
  <1> QED
    BY <1>2, <1>3, <1>4, <1>5, <1>6, <1>7, <1>8 DEF Local

(* complete_signal looks for a thread that is not about to look for        *)
(* signals: when it finds none, everybody who could take the signal is.    *)
LEMMA UnwantedIsAlert ==
  ASSUME JobInv, NEW sig \in Signals, NEW v \in list, ~ exiting[v], sig \notin blocked[v],
         NEW curr, v \notin Wanting(sig, prepare_signal(sig).state, curr)
  PROVE  Alert(v)
  <1>1. ~ wants_signal(sig, v, prepare_signal(sig).state, curr)
    BY DEF Wanting
  <1>2. prepare_signal(sig).state[v] = "stopped" \/ tif[v]
    BY <1>1 DEF wants_signal
  <1>3. v \in Threads
    BY DEF JobInv, TypeOK
  <1>4. prepare_signal(sig).state[v] = "stopped" => state[v] = "stopped"
    BY <1>3 DEF prepare_signal
  <1>5. state[v] = "stopped" => pc[v] \in InLoop
    BY <1>3 DEF JobInv, Whereabouts, InLoop
  <1> QED
    BY <1>2, <1>3, <1>4, <1>5, AlertWhen

LEMMA MissedSend ==
  ASSUME JobInv, JobInv', NoMissedSignal, ~ signal_group_exit, ~ signal_group_exit',
         NEW sig \in Signals, NEW p \in list, NEW grp \in BOOLEAN,
         send_signal(sig, p, grp), UNCHANGED <<list, masks, handler, exiting, pc, warned>>
  PROVE  NoMissedSignal'
  <1> DEFINE prep == prepare_signal(sig)
  <1>0. /\ list \in SUBSET Threads /\ pending \in [Threads -> SUBSET AllSignals]
        /\ tif \in [Threads -> BOOLEAN] /\ TypeOK
        /\ list' = list /\ exiting' = exiting /\ blocked' = blocked /\ pc' = pc
        /\ prep.pending \in [Threads -> SUBSET AllSignals]
    BY PrepareTypes DEF JobInv, TypeOK, masks
  <1>1. /\ prep.shared \in SUBSET shared
        /\ \A u \in list : prep.pending[u] \subseteq pending[u]
    BY <1>0 DEF prepare_signal
  <1>2. \A u \in Threads : Alert(u)' <=> tif'[u] \/ pc[u] \in InLoop
    BY <1>0 DEF Alert, InLoop, JobInv, Whereabouts
  <1>3. \A u \in Threads : /\ Alert(u) <=> tif[u] \/ pc[u] \in InLoop
                           /\ Alert(u) => Alert(u)'
    <2>1. \A u \in Threads : tif[u] => tif'[u]
      BY <1>0, SendWakes DEF OnlyWakes
    <2> QED
      BY <1>2, <2>1, AlertWhen
  <1>4. /\ \A s \in shared : Takers(s) # {} => \E u \in Takers(s) : Alert(u)
        /\ \A u \in list : ~ exiting[u] /\ pending[u] \ blocked[u] # {} => Alert(u)
    BY NoMissedSignalDef
  <1> SUFFICES
        /\ \A s \in shared' : Takers(s) # {} => \E u \in Takers(s) : Alert(u)'
        /\ \A u \in list : ~ exiting[u] /\ pending'[u] \ blocked[u] # {} => Alert(u)'
    BY <1>0 DEF NoMissedSignal, Takers
  <1>5. \A s \in shared : Takers(s) # {} => \E u \in Takers(s) : Alert(u)'
    BY <1>0, <1>3, <1>4 DEF Takers
  <1>6. CASE Drop(prep)
    <2>1. pending' = prep.pending /\ shared' = prep.shared
      BY <1>6 DEF Drop
    <2> HIDE DEF prep
    <2> QED
      BY <1>0, <1>1, <1>3, <1>4, <1>5, <2>1
  <1>7. ASSUME NEW t \in {0} \cup list, NEW curr \in SUBSET list, Queues(sig, p, grp, t),
               t # 0 => t \in Wanting(sig, prep.state, curr) /\ (~ grp => t = p),
               t = 0 => p \notin Wanting(sig, prep.state, curr)
                        /\ (grp => Wanting(sig, prep.state, curr) = {})
        PROVE  /\ \A s \in shared' : Takers(s) # {} => \E u \in Takers(s) : Alert(u)'
               /\ \A u \in list : ~ exiting[u] /\ pending'[u] \ blocked[u] # {} => Alert(u)'
    <2>1. /\ shared' = IF grp THEN prep.shared \cup {sig} ELSE prep.shared
          /\ pending' = IF grp THEN prep.pending
                        ELSE [prep.pending EXCEPT ![p] = @ \cup {sig}]
          /\ t # 0 => tif'[t]
      <3>1. t # 0 => t \in Threads /\ tif' = [tif EXCEPT ![t] = TRUE]
        BY <1>0, <1>7 DEF Queues
      <3>2. pending' = PendingWith(sig, p, grp) /\ shared' = SharedWith(sig, grp)
        BY <1>7 DEF Queues
      <3> QED
        BY <1>0, <3>1, <3>2 DEF PendingWith, SharedWith
    <2>2. t # 0 => t \in Takers(sig) /\ Alert(t)'
      <3>1. t # 0 => t \in Threads /\ wants_signal(sig, t, prep.state, curr)
        BY <1>0, <1>7 DEF Wanting
      <3> QED
        BY <1>0, <1>2, <1>7, <2>1, <3>1 DEF wants_signal, Takers
    <2>3. \A v \in Takers(sig) : v \notin Wanting(sig, prep.state, curr) => Alert(v)'
      <3> SUFFICES ASSUME NEW v \in Takers(sig), v \notin Wanting(sig, prep.state, curr)
                   PROVE  Alert(v)'
        OBVIOUS
      <3>1. v \in list /\ ~ exiting[v] /\ sig \notin blocked[v]
        BY DEF Takers
      <3>2. Alert(v)
        BY <3>1, UnwantedIsAlert
      <3> QED
        BY <1>0, <1>3, <3>1, <3>2
    <2> HIDE DEF prep
    <2>4. grp /\ Takers(sig) # {} => \E u \in Takers(sig) : Alert(u)'
      <3>1. CASE t # 0
        BY <2>2, <3>1
      <3>2. CASE t = 0
        BY <1>7, <2>3, <3>2
      <3> QED
        BY <3>1, <3>2
    <2>5. ~ grp /\ ~ exiting[p] /\ sig \notin blocked[p] => Alert(p)'
      <3>1. CASE t # 0
        BY <1>7, <2>2, <3>1
      <3>2. CASE t = 0
        BY <1>7, <2>3, <3>2 DEF Takers
      <3> QED
        BY <3>1, <3>2
    <2>6. ASSUME NEW u \in list, ~ exiting[u], pending'[u] \ blocked[u] # {} PROVE Alert(u)'
      <3>1. CASE prep.pending[u] \ blocked[u] # {}
        BY <1>0, <1>1, <1>3, <1>4, <2>6, <3>1
      <3>2. CASE prep.pending[u] \ blocked[u] = {}
        <4>1. ~ grp /\ u = p /\ sig \notin blocked[p]
          BY <1>0, <2>1, <2>6, <3>2
        <4> QED
          BY <2>5, <2>6, <4>1
      <3> QED
        BY <3>1, <3>2
    <2> QED
      BY <1>1, <1>5, <2>1, <2>4, <2>6
  <1>8. ASSUME NEW t \in list, Kills(sig, p, grp, t) PROVE FALSE
    BY <1>8 DEF Kills, StartGroupExit, signal_group_exit
  <1> QED
    BY <1>0, <1>6, <1>7, <1>8, SendCases

LEMMA NoMissedSignalInductive ==
  ASSUME JobInv, JobInv', NoMissedSignal, [Next]_vars
  PROVE  NoMissedSignal'
  <1>0. Leader \in list
    BY DEF JobInv, Whereabouts
  <1>1. CASE signal_group_exit'
    BY <1>1 DEF NoMissedSignal
  <1>2. CASE UNCHANGED vars
    BY <1>2 DEF vars, queues, masks, group, NoMissedSignal, Alert, signal_group_exit
  <1>3. CASE Next /\ ~ signal_group_exit'
    <2>0. ~ signal_group_exit
      BY <1>3, NextIsJobStep, GroupExitStays
    <2>1. ASSUME NEW sig \in Signals, Kill(sig) PROVE NoMissedSignal'
      <3>1. /\ send_signal(sig, Leader, TRUE)
            /\ UNCHANGED <<list, masks, handler, exiting, pc, warned>>
        BY <2>1 DEF Kill
      <3> QED
        BY <1>0, <1>3, <2>0, <3>1, MissedSend
    <2>2. ASSUME NEW sig \in Signals, NEW t \in Threads, Tkill(t, sig) PROVE NoMissedSignal'
      <3>1. /\ t \in list /\ send_signal(sig, t, FALSE)
            /\ UNCHANGED <<list, masks, handler, exiting, pc, warned>>
        BY <2>2 DEF Tkill
      <3> QED
        BY <1>3, <2>0, <3>1, MissedSend
    <2> QED
      BY <1>3, <2>0, <2>1, <2>2, MissedStep, MissedLocal DEF Next, Send
  <1> QED
    BY <1>1, <1>2, <1>3

(* No signal is missed: a signal pending for the group that some thread    *)
(* does not block has such a thread about to look for it, however the      *)
(* threads block, wait for and take signals and exit while it is pending   *)
(* (the handing over in exit_signals, set_current_blocked and at the end   *)
(* of sigtimedwait is what keeps this); and no thread sleeps over a signal *)
(* of its own.                                                             *)
THEOREM SignalNoMissedSignal == Spec => []NoMissedSignal
  <1>1. Init => NoMissedSignal
    BY DEF Init, NoMissedSignal
  <1>2. JobInv /\ JobInv' /\ NoMissedSignal /\ [Next]_vars => NoMissedSignal'
    BY NoMissedSignalInductive
  <1> QED
    BY <1>1, <1>2, JobInit, JobInductive, PTL DEF Spec
=============================================================================
