--------------------------- MODULE SignalStopProofs ---------------------------
(***************************************************************************)
(* Proofs about group stop in Signal: the count of the threads that have   *)
(* still to stop, the report to the parent, and the death of the group.    *)
(***************************************************************************)
EXTENDS SignalProofs

(* SIGKILL is neither caught nor blocked, and only a thread that is        *)
(* leaving has one pending unless the whole group dies.                    *)
KillNotHeldUp ==
    /\ handler[SIGKILL] = "SIG_DFL"
    /\ \A t \in Threads : SIGKILL \notin blocked[t] /\ SIGKILL \notin real_blocked(t)
    /\ \A t \in list : SIGKILL \in pending[t] => signal_group_exit \/ exiting[t]

Pending(t) == "STOP_PENDING" \in jobctl[t]

(* A thread that has to stop knows of it, and is counted until it does. *)
StopBits ==
    \A t \in list :
        /\ Pending(t) <=> "STOP_CONSUME" \in jobctl[t]
        /\ Pending(t) => tif[t]
        /\ Pending(t) /\ signal_group_exit => pc[t] \in {"exiting", "exited", "gone"}
        /\ Pending(t) /\ exiting[t] => signal_group_exit \/ t = Leader

Stopping == group_stop_count > 0 \/ "STOP_STOPPED" \in sigflags

(* While a stop is under way or done, every thread is on its way out, has  *)
(* stopped, or has still to; and one, that began it, has stopped.          *)
EveryoneTakesPart ==
    Stopping => /\ \A t \in list : exiting[t] \/ state[t] = "stopped" \/ Pending(t)
                /\ \E t \in list : state[t] = "stopped"

(* Of the threads that a SIGCONT has woken one is still about to look for  *)
(* the report to the parent.                                               *)
SomeoneReports ==
    CldBits # {} /\ ~ signal_group_exit =>
        \E t \in list : pc[t] = "relock" /\ state[t] = "running"

(* A dying group has no stop. *)
DyingDoesNotStop ==
    signal_group_exit => ~ Stopping /\ \A t \in Threads : state[t] # "stopped"

(* All of job control, and all that it needs. *)
JobControl ==
    /\ StopBits /\ EveryoneTakesPart /\ SomeoneReports /\ DyingDoesNotStop
    /\ StopCountExact /\ NoWarning /\ NobodyLeftStopped /\ StoppedMeansStopped

JobInv == TypeOK /\ Whereabouts /\ KillNotHeldUp /\ JobControl

-----------------------------------------------------------------------------
(* What a step can be to job control. *)

Reporter(u) == pc[u] = "relock" /\ state[u] = "running"

(* It leaves job control alone. *)
Undisturbed ==
    /\ UNCHANGED <<list, exiting, sigflags, group_stop_count, warned>>
    /\ \A u \in Threads :
          /\ Pending(u)' = Pending(u)
          /\ "STOP_CONSUME" \in jobctl'[u] <=> "STOP_CONSUME" \in jobctl[u]
          /\ state'[u] = "stopped" <=> state[u] = "stopped"
          /\ Pending(u) /\ tif[u] => tif'[u]
          /\ signal_group_exit /\ pc[u] \in {"exiting", "exited", "gone"} => pc'[u] = pc[u]
          /\ Reporter(u) => CldBits = {} \/ Reporter(u)'

(* A thread takes the report. *)
Reports ==
    /\ \E t \in Threads : NotifyParent(t)
    /\ sigflags' = sigflags \ {"CLD_STOPPED", "CLD_CONTINUED"}
    /\ UNCHANGED <<list, exiting, group_stop_count, warned, jobctl, state, tif, pc>>

(* A thread takes part in a stop, and only those in Left have still to. *)
TakesPart(Left) ==
    /\ ~ signal_group_exit /\ "STOP_STOPPED" \notin sigflags
    /\ UNCHANGED <<list, warned>>
    /\ Left \in SUBSET list
    /\ \A u \in list :
          /\ Pending(u)' <=> u \in Left
          /\ "STOP_CONSUME" \in jobctl'[u] <=> u \in Left
          /\ u \in Left => tif'[u] /\ (exiting'[u] => u = Leader)
          /\ u \in Left \/ exiting'[u] \/ state'[u] = "stopped"
          /\ Reporter(u) => CldBits = {} \/ Reporter(u)'
    /\ group_stop_count' = Cardinality(Left)
    /\ sigflags' = IF Left = {} THEN {"STOP_STOPPED"} ELSE sigflags
    /\ \E u \in list : state'[u] = "stopped"

(* The group begins to die. *)
Dies ==
    /\ sigflags' = {"GROUP_EXIT"} /\ group_stop_count' = 0
    /\ UNCHANGED <<list, warned>>
    /\ \A u \in Threads : state'[u] # "stopped"
    /\ \A u \in list :
          /\ Pending(u)' <=> "STOP_CONSUME" \in jobctl'[u]
          /\ Pending(u)' => tif'[u] /\ pc'[u] \in {"exiting", "exited", "gone"}

(* A SIGCONT ends the stop. *)
Continued ==
    /\ ~ signal_group_exit
    /\ sigflags' = IF Why = {} THEN sigflags ELSE Why \cup {"STOP_CONTINUED"}
    /\ group_stop_count' = 0
    /\ UNCHANGED <<list, warned, pc>>
    /\ \A u \in list : jobctl'[u] = {}
    /\ \A u \in Threads :
          state'[u] # "stopped" /\ (state[u] \in {"running", "stopped"} => state'[u] = "running")

(* A thread exits that has nobody to hand its signals to. *)
ExitsEarly(t) ==
    /\ list = {t} \/ signal_group_exit
    /\ exiting' = [exiting EXCEPT ![t] = TRUE] /\ pc[t] = "exiting"
    /\ pc' = [pc EXCEPT ![t] = "exited"]
    /\ UNCHANGED <<list, sigflags, group_stop_count, warned, jobctl, state, tif>>

(* A thread exits that has no stop to take part in. *)
ExitsQuietly(t) ==
    /\ ~ Pending(t) /\ exiting' = [exiting EXCEPT ![t] = TRUE]
    /\ pc[t] = "exitlock" /\ pc' = [pc EXCEPT ![t] = "exited"]
    /\ UNCHANGED <<list, sigflags, group_stop_count, warned, jobctl>>
    /\ \A u \in Threads :
          /\ state'[u] = "stopped" <=> state[u] = "stopped"
          /\ state[u] = "running" => state'[u] = "running"
          /\ tif[u] => tif'[u]

(* A dead thread leaves the list, unless it is the leader. *)
Leaves(t) ==
    /\ pc[t] = "exited" /\ pc' = [pc EXCEPT ![t] = "gone"]
    /\ state' = [state EXCEPT ![t] = "dead"]
    /\ list' = IF t = Leader THEN list ELSE list \ {t}
    /\ UNCHANGED <<exiting, sigflags, group_stop_count, warned, jobctl, tif>>

JobStep ==
    \/ Undisturbed \/ Reports \/ Dies \/ Continued
    \/ \E Left \in SUBSET list : TakesPart(Left)
    \/ \E t \in list : ExitsEarly(t) \/ ExitsQuietly(t) \/ Leaves(t)

-----------------------------------------------------------------------------
(* Each of these keeps job control. *)

Counted == {t \in list : {"STOP_PENDING", "STOP_CONSUME"} \subseteq jobctl[t]}

LEMMA FiniteThreads ==
  ASSUME TypeOK, NEW S \in SUBSET list
  PROVE  /\ IsFiniteSet(S) /\ Cardinality(S) \in Nat
         /\ Cardinality(S) = 0 <=> S = {}
  <1>1. IsFiniteSet(Threads)
    BY FS_Interval, ThreadsAssumption DEF Threads
  <1>2. S \in SUBSET Threads
    BY DEF TypeOK
  <1> QED
    BY <1>1, <1>2, FS_Subset, FS_CardinalityType, FS_EmptySet

LEMMA UndisturbedKeeps ==
  ASSUME TypeOK, TypeOK', JobControl, Undisturbed
  PROVE  JobControl'
  <1> USE DEF signal_group_exit, Pending, Reporter, CldBits
  <1>0. /\ list \in SUBSET Threads /\ list' = list /\ sigflags' = sigflags
        /\ group_stop_count' = group_stop_count /\ exiting' = exiting
    BY DEF TypeOK, Undisturbed
  <1>1. StopBits'
    <2> SUFFICES ASSUME NEW u \in list
                 PROVE /\ Pending(u)' <=> "STOP_CONSUME" \in jobctl'[u]
                       /\ Pending(u)' => tif'[u]
                       /\ Pending(u)' /\ signal_group_exit => pc'[u] \in {"exiting", "exited", "gone"}
                       /\ Pending(u)' /\ exiting[u] => signal_group_exit \/ u = Leader
      BY <1>0 DEF StopBits
    <2> QED
      BY <1>0 DEF JobControl, StopBits, Undisturbed
  <1>2. EveryoneTakesPart'
    BY <1>0 DEF JobControl, EveryoneTakesPart, Stopping, Undisturbed
  <1>3. SomeoneReports'
    BY <1>0 DEF JobControl, SomeoneReports, Undisturbed, CldBits, Reporter
  <1>4. DyingDoesNotStop'
    BY <1>0 DEF JobControl, DyingDoesNotStop, Stopping, Undisturbed
  <1>5. StopCountExact'
    <2>1. Counted' = Counted
      BY <1>0 DEF Undisturbed, Counted, Pending
    <2> QED
      BY <1>0, <2>1 DEF JobControl, StopCountExact, Counted
  <1>6. NoWarning' /\ NobodyLeftStopped' /\ StoppedMeansStopped'
    BY <1>0 DEF JobControl, NoWarning, NobodyLeftStopped, StoppedMeansStopped, Undisturbed
  <1> QED
    BY <1>1, <1>2, <1>3, <1>4, <1>5, <1>6 DEF JobControl

LEMMA ReportsKeeps ==
  ASSUME TypeOK, JobControl, Reports
  PROVE  JobControl'
  <1> USE DEF signal_group_exit, Pending, Reporter, CldBits
  <1>0. /\ UNCHANGED <<list, exiting, group_stop_count, warned, jobctl, state, tif, pc>>
        /\ sigflags' \cap {"CLD_STOPPED", "CLD_CONTINUED"} = {}
        /\ signal_group_exit' = signal_group_exit
        /\ "STOP_STOPPED" \in sigflags' <=> "STOP_STOPPED" \in sigflags
    BY DEF Reports
  <1>1. StopBits'
    BY <1>0 DEF JobControl, StopBits
  <1>2. EveryoneTakesPart' /\ SomeoneReports' /\ DyingDoesNotStop'
    BY <1>0 DEF JobControl, EveryoneTakesPart, DyingDoesNotStop, SomeoneReports, Stopping
  <1>3. StopCountExact'
    BY <1>0 DEF JobControl, StopCountExact
  <1>4. NoWarning' /\ NobodyLeftStopped' /\ StoppedMeansStopped'
    BY <1>0 DEF JobControl, NoWarning, NobodyLeftStopped, StoppedMeansStopped
  <1> QED
    BY <1>1, <1>2, <1>3, <1>4 DEF JobControl

LEMMA TakesPartKeeps ==
  ASSUME TypeOK, JobControl, NEW Left \in SUBSET list, TakesPart(Left)
  PROVE  JobControl'
  <1> USE DEF signal_group_exit, Pending, Reporter, CldBits
  <1>0. /\ list \in SUBSET Threads /\ list' = list /\ warned' = warned
        /\ ~ signal_group_exit /\ ~ signal_group_exit'
        /\ Cardinality(Left) \in Nat /\ (Cardinality(Left) = 0 <=> Left = {})
        /\ group_stop_count' = Cardinality(Left)
        /\ sigflags' = IF Left = {} THEN {"STOP_STOPPED"} ELSE sigflags
        /\ "STOP_STOPPED" \notin sigflags
    BY FiniteThreads DEF TypeOK, TakesPart
  <1>a. /\ \A u \in list : /\ Pending(u)' <=> u \in Left
                           /\ "STOP_CONSUME" \in jobctl'[u] <=> u \in Left
                           /\ u \in Left => tif'[u] /\ (exiting'[u] => u = Leader)
                           /\ u \in Left \/ exiting'[u] \/ state'[u] = "stopped"
        /\ \E u \in list : state'[u] = "stopped"
    BY DEF TakesPart
  <1>1. StopBits'
    BY <1>0, <1>a DEF StopBits
  <1>2. EveryoneTakesPart'
    BY <1>0, <1>a DEF EveryoneTakesPart
  <1>3. SomeoneReports'
    BY <1>0 DEF JobControl, SomeoneReports, TakesPart
  <1>4. DyingDoesNotStop'
    BY <1>0 DEF DyingDoesNotStop
  <1>5. StopCountExact'
    <2>1. Counted' = Left
      BY <1>0, <1>a DEF Counted
    <2> QED
      BY <1>0, <2>1 DEF StopCountExact, Counted
  <1>6. NobodyLeftStopped'
    BY <1>0 DEF NobodyLeftStopped
  <1>7. StoppedMeansStopped'
    BY <1>0, <1>a DEF StoppedMeansStopped
  <1>8. NoWarning'
    BY <1>0 DEF JobControl, NoWarning
  <1> QED
    BY <1>1, <1>2, <1>3, <1>4, <1>5, <1>6, <1>7, <1>8 DEF JobControl

LEMMA DiesKeeps ==
  ASSUME TypeOK, JobControl, Dies
  PROVE  JobControl'
  <1> USE DEF signal_group_exit, Pending, CldBits
  <1>0. /\ list \in SUBSET Threads /\ list' = list /\ warned' = warned
        /\ sigflags' = {"GROUP_EXIT"} /\ group_stop_count' = 0
    BY DEF TypeOK, Dies
  <1>1. StopBits'
    BY <1>0 DEF StopBits, Dies
  <1>2. ~ Stopping'
    BY <1>0 DEF Stopping
  <1>3. EveryoneTakesPart' /\ SomeoneReports' /\ DyingDoesNotStop'
    BY <1>0, <1>2 DEF EveryoneTakesPart, SomeoneReports, DyingDoesNotStop, Dies
  <1>4. StopCountExact' /\ NoWarning' /\ NobodyLeftStopped' /\ StoppedMeansStopped'
    BY <1>0 DEF JobControl, StopCountExact, NoWarning, NobodyLeftStopped, StoppedMeansStopped, Dies
  <1> QED
    BY <1>1, <1>3, <1>4 DEF JobControl

LEMMA ContinuedKeeps ==
  ASSUME TypeOK, Whereabouts, JobControl, Continued
  PROVE  JobControl'
  <1> USE DEF signal_group_exit, Pending, CldBits
  <1>0. /\ list \in SUBSET Threads /\ list' = list /\ warned' = warned /\ pc' = pc
        /\ group_stop_count' = 0 /\ group_stop_count \in Nat
        /\ ~ signal_group_exit
        /\ sigflags' = IF Why = {} THEN sigflags ELSE Why \cup {"STOP_CONTINUED"}
    BY DEF TypeOK, Continued
  <1>1. /\ Why = {} <=> ~ Stopping
        /\ Why \subseteq {"CLD_STOPPED", "CLD_CONTINUED"}
    BY <1>0 DEF Why, Stopping
  <1>2. ~ signal_group_exit' /\ "STOP_STOPPED" \notin sigflags' /\ ~ Stopping'
    BY <1>0, <1>1 DEF Stopping
  <1>3. \A u \in list : ~ Pending(u)' /\ "STOP_CONSUME" \notin jobctl'[u]
    BY DEF Continued
  <1>4. StopBits' /\ EveryoneTakesPart' /\ DyingDoesNotStop'
    BY <1>0, <1>2, <1>3 DEF StopBits, EveryoneTakesPart, DyingDoesNotStop
  <1>5. SomeoneReports'
    <2>1. CASE Stopping
      <3>1. PICK u \in list : state[u] = "stopped"
        BY <2>1 DEF JobControl, EveryoneTakesPart
      <3>2. pc[u] = "relock"
        BY <1>0, <3>1 DEF Whereabouts
      <3> QED
        BY <1>0, <3>1, <3>2 DEF Continued, SomeoneReports
    <2>2. CASE ~ Stopping
      <3>1. sigflags' = sigflags
        BY <1>0, <1>1, <2>2
      <3> QED
        BY <1>0, <3>1 DEF Continued, JobControl, SomeoneReports
    <2> QED
      BY <2>1, <2>2
  <1>6. StopCountExact'
    <2>1. Counted' = {}
      BY <1>0, <1>3 DEF Counted
    <2> QED
      BY <1>0, <1>2, <2>1, FS_EmptySet DEF StopCountExact, Counted
  <1>7. NoWarning' /\ NobodyLeftStopped' /\ StoppedMeansStopped'
    BY <1>0, <1>2 DEF JobControl, NoWarning, NobodyLeftStopped, StoppedMeansStopped, Continued
  <1> QED
    BY <1>4, <1>5, <1>6, <1>7 DEF JobControl

LEMMA ExitsEarlyKeeps ==
  ASSUME TypeOK, Whereabouts, JobControl, NEW t \in list, ExitsEarly(t)
  PROVE  JobControl'
  <1> USE DEF signal_group_exit, Pending, CldBits
  <1>0. /\ list \in SUBSET Threads /\ exiting \in [Threads -> BOOLEAN]
        /\ pc \in [Threads -> {"user", "wait", "relock", "loop", "stop", "orphan",
                           "exit", "exiting", "exitlock", "exited", "gone"}]
        /\ UNCHANGED <<list, sigflags, group_stop_count, warned, jobctl, state, tif>>
        /\ \A u \in Threads : exiting[u] => exiting'[u]
        /\ \A u \in Threads \ {t} : exiting'[u] = exiting[u] /\ pc'[u] = pc[u]
        /\ pc[t] = "exiting" /\ pc'[t] = "exited"
        /\ ~ signal_group_exit => t = Leader
    BY DEF TypeOK, Whereabouts, ExitsEarly
  <1>1. StopBits'
    BY <1>0 DEF JobControl, StopBits
  <1>2. EveryoneTakesPart' /\ SomeoneReports' /\ DyingDoesNotStop'
    BY <1>0 DEF JobControl, EveryoneTakesPart, SomeoneReports, DyingDoesNotStop, Stopping
  <1>3. StopCountExact'
    BY <1>0 DEF JobControl, StopCountExact
  <1>4. NoWarning' /\ NobodyLeftStopped' /\ StoppedMeansStopped'
    BY <1>0 DEF JobControl, NoWarning, NobodyLeftStopped, StoppedMeansStopped
  <1> QED
    BY <1>1, <1>2, <1>3, <1>4 DEF JobControl

LEMMA ExitsQuietlyKeeps ==
  ASSUME TypeOK, JobControl, NEW t \in list, ExitsQuietly(t)
  PROVE  JobControl'
  <1> USE DEF signal_group_exit, Pending, CldBits
  <1>0. /\ list \in SUBSET Threads /\ exiting \in [Threads -> BOOLEAN]
        /\ pc \in [Threads -> {"user", "wait", "relock", "loop", "stop", "orphan",
                           "exit", "exiting", "exitlock", "exited", "gone"}]
        /\ UNCHANGED <<list, sigflags, group_stop_count, warned, jobctl>>
        /\ \A u \in Threads :
              /\ exiting[u] => exiting'[u]
              /\ state'[u] = "stopped" <=> state[u] = "stopped"
              /\ state[u] = "running" => state'[u] = "running"
              /\ tif[u] => tif'[u]
        /\ \A u \in Threads \ {t} : exiting'[u] = exiting[u] /\ pc'[u] = pc[u]
        /\ pc[t] = "exitlock" /\ ~ Pending(t)
    BY DEF TypeOK, ExitsQuietly
  <1>1. StopBits'
    BY <1>0 DEF JobControl, StopBits
  <1>2. EveryoneTakesPart' /\ SomeoneReports' /\ DyingDoesNotStop'
    BY <1>0 DEF JobControl, EveryoneTakesPart, SomeoneReports, DyingDoesNotStop, Stopping
  <1>3. StopCountExact'
    BY <1>0 DEF JobControl, StopCountExact
  <1>4. NoWarning' /\ NobodyLeftStopped' /\ StoppedMeansStopped'
    BY <1>0 DEF JobControl, NoWarning, NobodyLeftStopped, StoppedMeansStopped
  <1> QED
    BY <1>1, <1>2, <1>3, <1>4 DEF JobControl

LEMMA LeavesKeeps ==
  ASSUME TypeOK, Whereabouts, JobControl, NEW t \in list, Leaves(t)
  PROVE  JobControl'
  <1> USE DEF signal_group_exit, Pending, CldBits
  <1>0. /\ list \in SUBSET Threads
        /\ state \in [Threads -> {"running", "sleep", "deep", "stopped", "dead"}]
        /\ pc \in [Threads -> {"user", "wait", "relock", "loop", "stop", "orphan",
                           "exit", "exiting", "exitlock", "exited", "gone"}]
        /\ UNCHANGED <<exiting, sigflags, group_stop_count, warned, jobctl, tif>>
        /\ list' = IF t = Leader THEN list ELSE list \ {t}
        /\ pc[t] = "exited" /\ exiting[t] /\ pc'[t] = "gone"
        /\ state[t] # "stopped" /\ state'[t] = "dead"
        /\ \A u \in Threads \ {t} : state'[u] = state[u] /\ pc'[u] = pc[u]
    BY DEF TypeOK, Whereabouts, Leaves
  <1>1. StopBits'
    BY <1>0 DEF JobControl, StopBits
  <1>2. EveryoneTakesPart' /\ SomeoneReports' /\ DyingDoesNotStop'
    BY <1>0 DEF JobControl, EveryoneTakesPart, SomeoneReports, DyingDoesNotStop, Stopping
  <1>3. StopCountExact'
    <2>1. CASE signal_group_exit
      BY <1>0, <2>1 DEF JobControl, StopCountExact
    <2>2. CASE ~ signal_group_exit
      <3>1. t = Leader \/ ~ Pending(t)
        BY <1>0, <2>2 DEF JobControl, StopBits
      <3>2. Counted' = Counted
        BY <1>0, <3>1 DEF Counted
      <3> QED
        BY <1>0, <2>2, <3>2 DEF JobControl, StopCountExact, Counted
    <2> QED
      BY <2>1, <2>2
  <1>4. NoWarning' /\ NobodyLeftStopped' /\ StoppedMeansStopped'
    BY <1>0 DEF JobControl, NoWarning, NobodyLeftStopped, StoppedMeansStopped
  <1> QED
    BY <1>1, <1>2, <1>3, <1>4 DEF JobControl

LEMMA JobStepKeeps ==
  ASSUME TypeOK, TypeOK', Whereabouts, JobControl, JobStep
  PROVE  JobControl'
  BY UndisturbedKeeps, ReportsKeeps, DiesKeeps, ContinuedKeeps, TakesPartKeeps,
     ExitsEarlyKeeps, ExitsQuietlyKeeps, LeavesKeeps DEF JobStep

-----------------------------------------------------------------------------
(* Every step of Signal is one of these. *)

(* A thread that stops has, if it begins the stop, no other stop before it *)
(* and is itself counted; if it does not, it has been counted.             *)
LEMMA StopNowTakesPart ==
  ASSUME JobInv, NEW t \in Threads, StopNow(t, jobctl[t]), UNCHANGED <<list, exiting>>,
         pc[t] \in {"relock", "loop", "stop", "orphan"},
         pc[t] = "relock" => state[t] = "running" /\ CldBits = {},
         Pending(t) \/ ~ signal_group_exit
  PROVE  \E Left \in SUBSET list : TakesPart(Left)
  <1> USE DEF Pending
  <1>0. /\ list \in SUBSET Threads /\ exiting \in [Threads -> BOOLEAN]
        /\ tif \in [Threads -> BOOLEAN] /\ jobctl \in [Threads -> SUBSET JobctlBits]
        /\ state \in [Threads -> {"running", "sleep", "deep", "stopped", "dead"}]
        /\ pc \in [Threads -> {"user", "wait", "relock", "loop", "stop", "orphan",
                           "exit", "exiting", "exitlock", "exited", "gone"}]
        /\ group_stop_count \in Nat
    BY DEF JobInv, TypeOK
  <1>1. t \in list /\ ~ exiting[t] /\ state[t] # "stopped"
    BY <1>0 DEF JobInv, Whereabouts
  <1>2. ~ signal_group_exit
    BY <1>1 DEF JobInv, JobControl, StopBits
  <1>3. "STOP_STOPPED" \notin sigflags
    BY <1>1 DEF JobInv, JobControl, StoppedMeansStopped
  <1>4. SIGKILL \notin pending[t]
    BY <1>1, <1>2 DEF JobInv, KillNotHeldUp
  <1>5. \A u \in list : Pending(u) <=> "STOP_CONSUME" \in jobctl[u]
    BY DEF JobInv, JobControl, StopBits
  <1>6. \A u \in list : Reporter(u) => CldBits = {} \/ Reporter(u)'
    BY <1>0 DEF StopNow, Reporter, Woken
  <1>7. state'[t] = "stopped"
    BY <1>0 DEF StopNow
  <1>8. CASE ~ Pending(t)
    <2>a. PICK Left : Left = StopTargets(t) \ {t}
      OBVIOUS
    <2>1. ~ Stopping
      BY <1>1, <1>8 DEF JobInv, JobControl, EveryoneTakesPart
    <2>2. group_stop_count = 0 /\ Counted = {}
      <3>1. group_stop_count = 0
        BY <1>0, <2>1 DEF Stopping
      <3>2. Cardinality(Counted) = 0
        BY <1>2, <3>1 DEF JobInv, JobControl, StopCountExact, Counted
      <3>3. Counted \in SUBSET list
        BY DEF Counted
      <3> QED
        BY <3>1, <3>2, <3>3, FiniteThreads DEF JobInv
    <2>3. \A u \in list : ~ Pending(u) /\ "STOP_CONSUME" \notin jobctl[u] /\ state[u] # "stopped"
      <3>1. \A u \in list : state[u] # "stopped"
        BY <1>0, <2>1 DEF Stopping, JobInv, JobControl, NobodyLeftStopped
      <3> QED
        BY <1>5, <2>2, <3>1 DEF Counted
    <2>4. t \in StopTargets(t) /\ StopTargets(t) \in SUBSET list
      BY <1>1, <1>4 DEF StopTargets, fatal_signal_pending
    <2>5. /\ Cardinality(StopTargets(t)) = Cardinality(Left) + 1
          /\ Cardinality(Left) \in Nat /\ (Cardinality(Left) = 0 <=> Left = {})
      <3>1. IsFiniteSet(StopTargets(t)) /\ Left \in SUBSET list
        BY <2>a, <2>4, FiniteThreads DEF JobInv
      <3>2. Cardinality(Left) \in Nat /\ (Cardinality(Left) = 0 <=> Left = {})
        BY <3>1, FiniteThreads DEF JobInv
      <3>3. Cardinality(Left) = Cardinality(StopTargets(t)) - 1
        BY <2>a, <2>4, <3>1, FS_RemoveElement
      <3>4. Cardinality(StopTargets(t)) \in Nat
        BY <2>4, FiniteThreads DEF JobInv
      <3> QED
        BY <3>2, <3>3, <3>4
    <2>6. \A u \in list : u \in Left \/ u = t \/ exiting[u]
      <3>1. \A u \in list : SIGKILL \in pending[u] => exiting[u]
        BY <1>2 DEF JobInv, KillNotHeldUp
      <3> QED
        BY <2>a, <2>3, <3>1 DEF StopTargets, fatal_signal_pending
    <2> DEFINE bits == jobctl[t] \cup {"STOP_PENDING", "STOP_CONSUME"}
    <2>7. /\ group_stop_count' = CountAfter(bits, Cardinality(StopTargets(t)))
          /\ sigflags' = FlagsAfter(bits, Cardinality(StopTargets(t)))
          /\ warned' = (warned \/ Warns(bits, Cardinality(StopTargets(t))))
          /\ \A u \in Left : /\ jobctl'[u] = jobctl[u] \cup {"STOP_PENDING", "STOP_CONSUME"}
                             /\ tif'[u] /\ ~ exiting'[u]
          /\ \A u \in list \ Left : jobctl'[u] = IF u = t THEN {} ELSE jobctl[u]
      BY <2>a, <1>0, <1>8, <2>4 DEF StopNow, StopTargets
    <2>8. /\ group_stop_count' = Cardinality(Left)
          /\ sigflags' = IF Left = {} THEN {"STOP_STOPPED"} ELSE sigflags
          /\ warned' = warned
      <3>1. Cardinality(StopTargets(t)) # 0 /\ Cardinality(StopTargets(t)) - 1 = Cardinality(Left)
        BY <2>5
      <3>2. CountAfter(bits, Cardinality(StopTargets(t))) = Cardinality(Left)
        BY <3>1 DEF CountAfter
      <3>3. ~ Warns(bits, Cardinality(StopTargets(t)))
        BY <3>1 DEF Warns
      <3>4. warned \in BOOLEAN
        BY DEF JobInv, TypeOK
      <3> QED
        BY <1>3, <2>5, <2>7, <3>2, <3>3, <3>4 DEF FlagsAfter
    <2>9. \A u \in list : /\ Pending(u)' <=> u \in Left
                          /\ "STOP_CONSUME" \in jobctl'[u] <=> u \in Left
                          /\ u \in Left => tif'[u] /\ (exiting'[u] => u = Leader)
                          /\ u \in Left \/ exiting'[u] \/ state'[u] = "stopped"
      <3> QED
        BY <1>7, <2>3, <2>6, <2>7
    <2>10. Left \in SUBSET list
      BY <2>a, <2>4
    <2>11. TakesPart(Left)
      <3> QED
        BY <1>1, <1>2, <1>3, <1>6, <1>7, <2>8, <2>9, <2>10 DEF TakesPart
    <2> QED
      BY <2>10, <2>11
  <1>9. CASE Pending(t)
    <2>a. PICK Left : Left = Counted \ {t}
      OBVIOUS
    <2>1. t \in Counted /\ Counted \in SUBSET list
      BY <1>1, <1>5, <1>9 DEF Counted
    <2>2. group_stop_count = Cardinality(Counted)
      BY <1>2 DEF JobInv, JobControl, StopCountExact, Counted
    <2>3. /\ group_stop_count = Cardinality(Left) + 1
          /\ Cardinality(Left) \in Nat /\ (Cardinality(Left) = 0 <=> Left = {})
      <3>1. IsFiniteSet(Counted) /\ Left \in SUBSET list
        BY <2>a, <2>1, FiniteThreads DEF JobInv
      <3>2. Cardinality(Left) \in Nat /\ (Cardinality(Left) = 0 <=> Left = {})
        BY <3>1, FiniteThreads DEF JobInv
      <3>3. Cardinality(Left) = Cardinality(Counted) - 1
        BY <2>a, <2>1, <3>1, FS_RemoveElement
      <3> QED
        BY <1>0, <2>2, <3>2, <3>3
    <2>4. \A u \in list : u \in Left \/ u = t \/ exiting[u] \/ state[u] = "stopped"
      <3>1. Stopping
        BY <2>3 DEF Stopping
      <3> QED
        BY <2>a, <1>5, <3>1 DEF JobInv, JobControl, EveryoneTakesPart, Counted
    <2>5. /\ group_stop_count' = CountAfter(jobctl[t], group_stop_count)
          /\ sigflags' = FlagsAfter(jobctl[t], group_stop_count)
          /\ warned' = (warned \/ Warns(jobctl[t], group_stop_count))
          /\ \A u \in Threads \ {t} : jobctl'[u] = jobctl[u] /\ state'[u] = state[u]
          /\ \A u \in Threads : tif[u] => tif'[u]
          /\ jobctl'[t] = {}
      BY <1>0, <1>9 DEF StopNow
    <2>6. "STOP_CONSUME" \in jobctl[t]
      BY <1>1, <1>5, <1>9
    <2>7. /\ group_stop_count' = Cardinality(Left)
          /\ sigflags' = IF Left = {} THEN {"STOP_STOPPED"} ELSE sigflags
          /\ warned' = warned
      <3>1. group_stop_count # 0 /\ group_stop_count - 1 = Cardinality(Left)
        BY <2>3
      <3>2. CountAfter(jobctl[t], group_stop_count) = Cardinality(Left)
        BY <2>6, <3>1 DEF CountAfter
      <3>3. ~ Warns(jobctl[t], group_stop_count)
        BY <1>9, <3>1 DEF Warns
      <3>4. warned \in BOOLEAN
        BY DEF JobInv, TypeOK
      <3> QED
        BY <1>3, <2>3, <2>5, <2>6, <3>2, <3>3, <3>4 DEF FlagsAfter
    <2>8. \A u \in list : /\ Pending(u)' <=> u \in Left
                          /\ "STOP_CONSUME" \in jobctl'[u] <=> u \in Left
                          /\ u \in Left => tif'[u] /\ (exiting'[u] => u = Leader)
                          /\ u \in Left \/ exiting'[u] \/ state'[u] = "stopped"
      <3>1. \A u \in list : u \in Left <=> Pending(u) /\ u # t
        BY <2>a, <1>5 DEF Counted
      <3>2. \A u \in list : Pending(u) => tif[u] /\ (exiting[u] => u = Leader)
        BY <1>2 DEF JobInv, JobControl, StopBits
      <3> QED
        BY <1>0, <1>5, <1>7, <2>4, <2>5, <3>1, <3>2
    <2>9. Left \in SUBSET list
      BY <2>a, <2>1
    <2>10. TakesPart(Left)
      <3> QED
        BY <1>1, <1>2, <1>3, <1>6, <1>7, <2>7, <2>8, <2>9 DEF TakesPart
    <2> QED
      BY <2>9, <2>10
  <1> QED
    BY <1>8, <1>9

LEMMA ExitLockedIsJobStep ==
  ASSUME JobInv, NEW t \in Threads, ExitLocked(t)
  PROVE  JobStep
  <1> USE DEF Pending
  <1>0. /\ list \in SUBSET Threads /\ exiting \in [Threads -> BOOLEAN]
        /\ tif \in [Threads -> BOOLEAN] /\ jobctl \in [Threads -> SUBSET JobctlBits]
        /\ state \in [Threads -> {"running", "sleep", "deep", "stopped", "dead"}]
        /\ pc \in [Threads -> {"user", "wait", "relock", "loop", "stop", "orphan",
                           "exit", "exiting", "exitlock", "exited", "gone"}]
        /\ group_stop_count \in Nat
    BY DEF JobInv, TypeOK
  <1>1. t \in list /\ ~ exiting[t] /\ state[t] # "stopped"
    BY <1>0 DEF ExitLocked, JobInv, Whereabouts
  <1>2. Pending(t) <=> tif[t] /\ "STOP_PENDING" \in jobctl[t]
    BY <1>1 DEF JobInv, JobControl, StopBits
  <1>3. /\ pc[t] = "exitlock" /\ pc' = [pc EXCEPT ![t] = "exited"]
        /\ exiting' = [exiting EXCEPT ![t] = TRUE] /\ list' = list
        /\ \A u \in Threads :
              /\ state'[u] = "stopped" <=> state[u] = "stopped"
              /\ state[u] = "running" => state'[u] = "running"
              /\ tif[u] => tif'[u]
    BY <1>0 DEF ExitLocked, Goto, WakeAll, Woken
  <1>4. CASE ~ Pending(t)
    <2>1. UNCHANGED <<jobctl, sigflags, group_stop_count, warned>>
      BY <1>4 DEF ExitLocked, group
    <2>2. ExitsQuietly(t)
      BY <1>3, <1>4, <2>1 DEF ExitsQuietly
    <2> QED
      BY <1>1, <2>2 DEF JobStep
  <1>5. CASE Pending(t)
    <2>a. PICK Left : Left = Counted \ {t}
      OBVIOUS
    <2>1. /\ group_stop_count' = CountAfter(jobctl[t], group_stop_count)
          /\ sigflags' = FlagsAfter(jobctl[t], group_stop_count)
          /\ warned' = (warned \/ Warns(jobctl[t], group_stop_count))
          /\ jobctl' = [jobctl EXCEPT ![t] = {}]
      BY <1>2, <1>5 DEF ExitLocked
    <2>2. ~ signal_group_exit
      BY <1>1, <1>3, <1>5 DEF JobInv, JobControl, StopBits
    <2>3. "STOP_STOPPED" \notin sigflags
      BY <1>1 DEF JobInv, JobControl, StoppedMeansStopped
    <2>4. \A u \in list : /\ Pending(u) <=> "STOP_CONSUME" \in jobctl[u]
                          /\ Pending(u) => tif[u] /\ (exiting[u] => u = Leader)
      BY <2>2 DEF JobInv, JobControl, StopBits
    <2>5. t \in Counted /\ Counted \in SUBSET list
      BY <1>1, <1>5, <2>4 DEF Counted
    <2>6. /\ group_stop_count = Cardinality(Left) + 1
          /\ Cardinality(Left) \in Nat /\ (Cardinality(Left) = 0 <=> Left = {})
      <3>1. IsFiniteSet(Counted) /\ Left \in SUBSET list
        BY <2>a, <2>5, FiniteThreads DEF JobInv
      <3>2. Cardinality(Left) \in Nat /\ (Cardinality(Left) = 0 <=> Left = {})
        BY <3>1, FiniteThreads DEF JobInv
      <3>3. Cardinality(Left) = Cardinality(Counted) - 1
        BY <2>a, <2>5, <3>1, FS_RemoveElement
      <3>4. group_stop_count = Cardinality(Counted)
        BY <2>2 DEF JobInv, JobControl, StopCountExact, Counted
      <3> QED
        BY <1>0, <3>2, <3>3, <3>4
    <2>7. /\ \A u \in list : u \in Left \/ u = t \/ exiting[u] \/ state[u] = "stopped"
          /\ \E u \in list : state[u] = "stopped"
      <3>1. Stopping
        BY <2>6 DEF Stopping
      <3> QED
        BY <2>a, <2>4, <3>1 DEF JobInv, JobControl, EveryoneTakesPart, Counted
    <2>8. \A u \in list : u \in Left <=> Pending(u) /\ u # t
      BY <2>a, <2>4 DEF Counted
    <2>9. Left \in SUBSET list
      BY <2>a, <2>5
    <2>10. /\ group_stop_count' = Cardinality(Left)
           /\ sigflags' = IF Left = {} THEN {"STOP_STOPPED"} ELSE sigflags
           /\ warned' = warned
      <3>1. group_stop_count # 0 /\ group_stop_count - 1 = Cardinality(Left)
        BY <2>6
      <3>2. "STOP_CONSUME" \in jobctl[t]
        BY <1>1, <1>5, <2>4
      <3>3. CountAfter(jobctl[t], group_stop_count) = Cardinality(Left)
        BY <3>1, <3>2 DEF CountAfter
      <3>4. ~ Warns(jobctl[t], group_stop_count)
        BY <1>5, <3>1 DEF Warns
      <3>5. warned \in BOOLEAN
        BY DEF JobInv, TypeOK
      <3> QED
        BY <2>1, <2>3, <2>6, <3>2, <3>3, <3>4, <3>5 DEF FlagsAfter
    <2>11. \A u \in list : Reporter(u) => Reporter(u)'
      BY <1>0, <1>3 DEF Reporter
    <2>12. \A u \in list : /\ Pending(u)' <=> u \in Left
                           /\ "STOP_CONSUME" \in jobctl'[u] <=> u \in Left
                           /\ u \in Left => tif'[u] /\ (exiting'[u] => u = Leader)
                           /\ u \in Left \/ exiting'[u] \/ state'[u] = "stopped"
      BY <1>0, <1>3, <2>1, <2>4, <2>7, <2>8
    <2>13. \E u \in list : state'[u] = "stopped"
      BY <1>0, <1>3, <2>7
    <2>14. TakesPart(Left)
      BY <1>3, <2>2, <2>3, <2>9, <2>10, <2>11, <2>12, <2>13 DEF TakesPart
    <2> QED
      BY <2>9, <2>14 DEF JobStep
  <1> QED
    BY <1>4, <1>5

(* A thread at the head of the loop that has no stop to take part in. *)
LEMMA LoopIsUndisturbed ==
  ASSUME JobInv, NEW t \in Threads, AtLoop(t), ~ Pending(t),
         NEW l, Goto(t, l), NEW b \in BOOLEAN, tif' = [tif EXCEPT ![t] = b],
         \/ jobctl' = jobctl
         \/ \E sig : jobctl' = [jobctl EXCEPT ![t] = MarkDequeued(t, sig)],
         UNCHANGED <<list, exiting, state, group, warned>>
  PROVE  Undisturbed
  <1>0. /\ tif \in [Threads -> BOOLEAN] /\ jobctl \in [Threads -> SUBSET JobctlBits]
        /\ pc \in [Threads -> {"user", "wait", "relock", "loop", "stop", "orphan",
                           "exit", "exiting", "exitlock", "exited", "gone"}]
    BY DEF JobInv, TypeOK
  <1>1. \A u \in Threads : /\ Pending(u)' = Pending(u)
                           /\ "STOP_CONSUME" \in jobctl'[u] <=> "STOP_CONSUME" \in jobctl[u]
    BY <1>0 DEF Pending, MarkDequeued
  <1>2. \A u \in Threads : Pending(u) /\ tif[u] => tif'[u]
    BY <1>0
  <1>3. \A u \in Threads :
           /\ signal_group_exit /\ pc[u] \in {"exiting", "exited", "gone"} => pc'[u] = pc[u]
           /\ Reporter(u) => CldBits = {} \/ Reporter(u)'
    BY <1>0 DEF AtLoop, Goto, Reporter
  <1> QED
    BY <1>1, <1>2, <1>3 DEF Undisturbed, group

LEMMA StepIsJobStep ==
  ASSUME JobInv, NEW t \in Threads, Step(t)
  PROVE  JobStep
  <1>0. /\ list \in SUBSET Threads /\ exiting \in [Threads -> BOOLEAN]
        /\ tif \in [Threads -> BOOLEAN] /\ jobctl \in [Threads -> SUBSET JobctlBits]
        /\ state \in [Threads -> {"running", "sleep", "deep", "stopped", "dead"}]
        /\ pc \in [Threads -> {"user", "wait", "relock", "loop", "stop", "orphan",
                           "exit", "exiting", "exitlock", "exited", "gone"}]
    BY DEF JobInv, TypeOK
  <1>a. pc[t] # "gone" => t \in list
    BY DEF JobInv, Whereabouts
  <1>1. CASE EnterSignal(t)
    <2>1. Undisturbed
      BY <1>0, <1>1 DEF EnterSignal, Goto, Undisturbed, Pending, Reporter, group
    <2> QED
      BY <2>1 DEF JobStep
  <1>2. CASE NotifyParent(t)
    <2>1. /\ sigflags' = sigflags \ {"CLD_STOPPED", "CLD_CONTINUED"}
          /\ UNCHANGED <<list, exiting, group_stop_count, warned, jobctl, state, tif, pc>>
      BY <1>2 DEF NotifyParent, CldBits
    <2>2. Reports
      BY <1>2, <2>1 DEF Reports
    <2> QED
      BY <2>2 DEF JobStep
  <1>3. CASE JoinStop(t)
    <2>1. \E Left \in SUBSET list : TakesPart(Left)
      BY <1>3, StopNowTakesPart DEF JoinStop, AtLoop, Pending
    <2> QED
      BY <2>1 DEF JobStep
  <1>4. CASE NoSignal(t)
    <2>1. Undisturbed
      BY <1>4, LoopIsUndisturbed DEF NoSignal, Pending
    <2> QED
      BY <2>1 DEF JobStep
  <1>5. CASE Deliver(t)
    <2>1. AfterDequeue(t) \in BOOLEAN
      BY DEF AfterDequeue, Recalc
    <2>2. Undisturbed
      BY <1>5, <2>1, LoopIsUndisturbed DEF Deliver, Take, Pending
    <2> QED
      BY <2>2 DEF JobStep
  <1>6. CASE TakeStop(t)
    <2>1. AfterDequeue(t) \in BOOLEAN
      BY DEF AfterDequeue, Recalc
    <2>2. Undisturbed
      BY <1>6, <2>1, LoopIsUndisturbed DEF TakeStop, Take, Pending
    <2> QED
      BY <2>2 DEF JobStep
  <1>7. CASE IsOrphaned(t)
    <2>1. Undisturbed
      BY <1>0, <1>7 DEF IsOrphaned, Goto, Undisturbed, Pending, Reporter, group
    <2> QED
      BY <2>1 DEF JobStep
  <1>8. CASE TryStop(t)
    <2>0. pc[t] \in {"stop", "orphan"} /\ UNCHANGED <<list, exiting>>
      BY <1>8 DEF TryStop
    <2>1. CASE StopNow(t, jobctl[t]) /\ (Pending(t) \/ MayInitiate(jobctl[t]))
      <3>1. \E Left \in SUBSET list : TakesPart(Left)
        BY <2>0, <2>1, StopNowTakesPart DEF MayInitiate
      <3> QED
        BY <3>1 DEF JobStep
    <2>2. CASE Goto(t, "loop") /\ UNCHANGED <<tif, state, jobctl, group, warned>>
      <3>1. Undisturbed
        BY <1>0, <2>0, <2>2 DEF Goto, Undisturbed, Pending, Reporter, group
      <3> QED
        BY <3>1 DEF JobStep
    <2> QED
      BY <1>8, <2>1, <2>2 DEF TryStop, Pending
  <1>9. CASE TakeFatal(t)
    <2>1. AfterDequeue(t) \in BOOLEAN
      BY DEF AfterDequeue, Recalc
    <2>2. Undisturbed
      BY <1>9, <2>1, LoopIsUndisturbed DEF TakeFatal, Take, Pending
    <2> QED
      BY <2>2 DEF JobStep
  <1>10. CASE WaitReturns(t)
    <2>1. /\ pc[t] = "wait" /\ pc' = [pc EXCEPT ![t] = "user"]
          /\ UNCHANGED <<list, exiting, sigflags, group_stop_count, warned>>
          /\ \A u \in Threads \ {t} : tif[u] => tif'[u]
          /\ tif'[t] = AfterDequeue(t)
          /\ \A u \in Threads : state'[u] = state[u] \/ (state[u] = "sleep" /\ state'[u] = "running")
      BY <1>0, <1>10 DEF WaitReturns, Goto, Woken, group
    <2>2. Pending(t) => tif'[t]
      BY <2>1 DEF AfterDequeue, Recalc, Pending
    <2>3. \/ jobctl' = jobctl
          \/ \E sig : jobctl' = [jobctl EXCEPT ![t] = MarkDequeued(t, sig)]
      BY <1>10 DEF WaitReturns, TakeWaited
    <2>4. \A u \in Threads : /\ Pending(u)' = Pending(u)
                             /\ "STOP_CONSUME" \in jobctl'[u] <=> "STOP_CONSUME" \in jobctl[u]
      BY <1>0, <2>3 DEF Pending, MarkDequeued
    <2>5. Undisturbed
      BY <1>0, <2>1, <2>2, <2>4 DEF Undisturbed, Reporter
    <2> QED
      BY <2>5 DEF JobStep
  <1>11. CASE do_group_exit(t)
    <2>0. /\ pc[t] = "exit" /\ pc' = [pc EXCEPT ![t] = "exiting"]
          /\ UNCHANGED <<list, exiting, warned>>
      BY <1>11 DEF do_group_exit, Goto
    <2>1. CASE UNCHANGED <<pending, tif, state, jobctl, group>>
      <3>1. Undisturbed
        BY <1>0, <2>0, <2>1 DEF Undisturbed, Pending, Reporter, group
      <3> QED
        BY <3>1 DEF JobStep
    <2>2. CASE sigflags' = {"GROUP_EXIT"} /\ zap_other_threads(t)
      <3>1. \A u \in Threads : state'[u] # "stopped"
        <4> SUFFICES ASSUME NEW u \in Threads, state[u] = "stopped" PROVE state'[u] # "stopped"
          BY <1>0, <2>2 DEF zap_other_threads, Woken
        <4>1. u \in list \ {t}
          BY <1>0, <2>0 DEF JobInv, Whereabouts
        <4> QED
          BY <1>0, <2>2, <4>1 DEF zap_other_threads, Woken
      <3>2. \A u \in list : /\ u # t => jobctl'[u] = {}
                            /\ u = t => jobctl'[u] = jobctl[u] /\ (tif[u] => tif'[u])
        BY <1>0, <2>2 DEF zap_other_threads, ClearJobctl
      <3>3. \A u \in list : (Pending(u) <=> "STOP_CONSUME" \in jobctl[u]) /\ (Pending(u) => tif[u])
        BY DEF JobInv, JobControl, StopBits
      <3>4. \A u \in list : /\ Pending(u)' <=> "STOP_CONSUME" \in jobctl'[u]
                            /\ Pending(u)' => tif'[u] /\ pc'[u] \in {"exiting", "exited", "gone"}
        BY <1>0, <2>0, <3>2, <3>3 DEF Pending
      <3>5. Dies
        BY <2>0, <2>2, <3>1, <3>4 DEF Dies, zap_other_threads
      <3> QED
        BY <3>5 DEF JobStep
    <2> QED
      BY <1>11, <2>1, <2>2 DEF do_group_exit
  <1>12. CASE exit_signals(t)
    <2>1. CASE thread_group_empty(t) \/ signal_group_exit
      <3>1. ExitsEarly(t)
        BY <1>12, <2>1 DEF exit_signals, ExitsEarly, Goto, thread_group_empty, group
      <3>2. t \in list
        BY <1>0, <1>a, <1>12 DEF exit_signals
      <3> QED
        BY <3>1, <3>2 DEF JobStep
    <2>2. CASE ~ (thread_group_empty(t) \/ signal_group_exit)
      <3>1. /\ pc[t] = "exiting" /\ pc' = [pc EXCEPT ![t] = "exitlock"]
            /\ UNCHANGED <<list, exiting, sigflags, group_stop_count, warned, jobctl, state, tif>>
        BY <1>12, <2>2 DEF exit_signals, Goto, group
      <3>2. Undisturbed
        BY <1>0, <2>2, <3>1 DEF Undisturbed, Pending, Reporter
      <3> QED
        BY <3>2 DEF JobStep
    <2> QED
      BY <2>1, <2>2
  <1>13. CASE ExitLocked(t)
    BY <1>13, ExitLockedIsJobStep
  <1>14. CASE exit_notify(t)
    <2>1. Leaves(t) /\ t \in list
      BY <1>0, <1>a, <1>14 DEF exit_notify, Leaves, Goto, group
    <2> QED
      BY <2>1 DEF JobStep
  <1> QED
    BY <1>1, <1>2, <1>3, <1>4, <1>5, <1>6, <1>7, <1>8, <1>9, <1>10, <1>11, <1>12,
       <1>13, <1>14 DEF Step

LEMMA LocalIsJobStep ==
  ASSUME JobInv, NEW t \in Threads, Local(t)
  PROVE  JobStep
  <1>0. /\ tif \in [Threads -> BOOLEAN] /\ jobctl \in [Threads -> SUBSET JobctlBits]
        /\ state \in [Threads -> {"running", "sleep", "deep", "stopped", "dead"}]
        /\ pc \in [Threads -> {"user", "wait", "relock", "loop", "stop", "orphan",
                           "exit", "exiting", "exitlock", "exited", "gone"}]
    BY DEF JobInv, TypeOK
  <1> SUFFICES Undisturbed
    BY DEF JobStep
  <1>1. CASE CallExit(t)
    BY <1>0, <1>1 DEF CallExit, Undisturbed, Pending, Reporter, group
  <1>2. CASE Sleep(t)
    BY <1>0, <1>2 DEF Sleep, Undisturbed, Pending, Reporter, group
  <1>3. CASE Wake(t)
    BY <1>0, <1>3 DEF Wake, Undisturbed, Pending, Reporter, group
  <1>4. ASSUME NEW m \in Masks, set_current_blocked(t, m) PROVE Undisturbed
    <2>1. /\ UNCHANGED <<list, exiting, sigflags, group_stop_count, warned, jobctl, pc>>
          /\ \A u \in Threads : state'[u] = state[u] \/ (state[u] = "sleep" /\ state'[u] = "running")
          /\ \A u \in Threads \ {t} : tif[u] => tif'[u]
          /\ tif'[t] = Recalc(pending[t], shared, m, jobctl[t])
      BY <1>0, <1>4 DEF set_current_blocked, Woken, group
    <2>2. Pending(t) => tif'[t]
      BY <2>1 DEF Recalc, Pending
    <2> QED
      BY <1>0, <2>1, <2>2 DEF Undisturbed, Pending, Reporter
  <1>5. ASSUME NEW w \in Waits, NEW timeout \in BOOLEAN, do_sigtimedwait(t, w, timeout)
        PROVE  Undisturbed
    <2>1. /\ pc[t] = "user" /\ state[t] = "running"
          /\ UNCHANGED <<list, exiting, sigflags, group_stop_count, warned>>
          /\ tif' = [tif EXCEPT ![t] = AfterDequeue(t)]
          /\ pc' \in {pc, [pc EXCEPT ![t] = "wait"]}
          /\ state' \in {state, [state EXCEPT ![t] = "sleep"]}
          /\ \/ jobctl' = jobctl
             \/ \E sig : jobctl' = [jobctl EXCEPT ![t] = MarkDequeued(t, sig)]
      BY <1>5 DEF do_sigtimedwait, Goto, TakeWaited, group
    <2>2. AfterDequeue(t) \in BOOLEAN /\ (Pending(t) => AfterDequeue(t))
      BY DEF AfterDequeue, Recalc, Pending
    <2>3. \A u \in Threads : /\ Pending(u)' = Pending(u)
                             /\ "STOP_CONSUME" \in jobctl'[u] <=> "STOP_CONSUME" \in jobctl[u]
      BY <1>0, <2>1 DEF Pending, MarkDequeued
    <2>4. \A u \in Threads : Pending(u) /\ tif[u] => tif'[u]
      BY <1>0, <2>1, <2>2
    <2>5. \A u \in Threads :
             /\ state'[u] = "stopped" <=> state[u] = "stopped"
             /\ pc[u] \in {"exiting", "exited", "gone"} => pc'[u] = pc[u]
             /\ Reporter(u) => Reporter(u)'
      BY <1>0, <2>1 DEF Reporter
    <2> QED
      BY <2>1, <2>3, <2>4, <2>5 DEF Undisturbed
  <1>6. ASSUME NEW sig \in Forced, force_sig_info(t, sig) PROVE Undisturbed
    BY <1>0, <1>6 DEF force_sig_info, Undisturbed, Pending, Reporter, group
  <1>7. ASSUME NEW sig \in Catchable, NEW h \in Handlers, do_sigaction(t, sig, h)
        PROVE  Undisturbed
    BY <1>7 DEF do_sigaction, Undisturbed, Pending, Reporter, group
  <1> QED
    BY <1>1, <1>2, <1>3, <1>4, <1>5, <1>6, <1>7 DEF Local

LEMMA SendIsJobStep ==
  ASSUME JobInv, NEW sig \in Signals, NEW p \in list, NEW grp \in BOOLEAN,
         send_signal(sig, p, grp), UNCHANGED <<list, exiting, pc, warned>>
  PROVE  JobStep
  <1> DEFINE prep == prepare_signal(sig)
  <1>0. /\ list \in SUBSET Threads /\ tif \in [Threads -> BOOLEAN]
        /\ state \in [Threads -> {"running", "sleep", "deep", "stopped", "dead"}]
        /\ TypeOK
        /\ prep.state \in [Threads -> {"running", "sleep", "deep", "stopped", "dead"}]
    BY PrepareTypes DEF JobInv, TypeOK
  <1>1. \A u \in Threads : u \notin list => state[u] = "dead"
    BY DEF JobInv, Whereabouts
  <1>2. \A u \in Threads :
           OnlyWakes(u) /\ (state[u] = "running" => state'[u] = "running") /\ (tif[u] => tif'[u])
    BY <1>0, SendWakes DEF OnlyWakes
  <1>3. ASSUME NEW t \in list, Kills(sig, p, grp, t) PROVE JobStep
    <2>1. \A u \in Threads : /\ u \in list => jobctl'[u] = {} /\ state'[u] = Woken(prep.state, u, TRUE)
                             /\ u \notin list => state'[u] = prep.state[u]
      BY <1>0, <1>3 DEF Kills, StartGroupExit, ClearJobctl
    <2>2. \A u \in Threads : u \notin list => prep.state[u] = "dead"
      BY <1>1 DEF prepare_signal
    <2>3. \A u \in Threads : state'[u] # "stopped"
      BY <1>0, <2>1, <2>2 DEF Woken
    <2>4. Dies
      BY <1>0, <1>3, <2>1, <2>3 DEF Dies, Kills, StartGroupExit, Pending
    <2> QED
      BY <2>4 DEF JobStep
  <1>4. ASSUME NEW t \in {0} \cup list,
               Drop(prep) \/ (Queues(sig, p, grp, t) /\ (t # 0 => NotFatal(sig, t)))
        PROVE  JobStep
    <2>1. /\ jobctl' = prep.jobctl /\ sigflags' = prep.flags /\ group_stop_count' = prep.count
          /\ \A u \in Threads : \/ state'[u] = prep.state[u]
                                \/ u = t /\ t # 0 /\ state'[u] = Woken(prep.state, t, sig = SIGKILL)
      BY <1>0, <1>4 DEF Drop, Queues
    <2>2. CASE Continues(sig)
      <3>1. /\ sig = SIGCONT /\ ~ signal_group_exit
            /\ \A u \in list : jobctl'[u] = {}
            /\ sigflags' = IF Why = {} THEN sigflags ELSE Why \cup {"STOP_CONTINUED"}
            /\ group_stop_count' = IF Why = {} THEN group_stop_count ELSE 0
        BY <1>0, <2>1, <2>2 DEF Continues, prepare_signal, ClearJobctl
      <3>2. group_stop_count' = 0
        BY <3>1 DEF Why
      <3>3. \A u \in Threads : prep.state[u] = IF u \in list /\ state[u] = "stopped"
                                                 THEN "running" ELSE state[u]
        BY <2>2 DEF prepare_signal
      <3>4. \A u \in Threads : state'[u] # "stopped" /\ (state[u] = "stopped" => state'[u] = "running")
        BY <1>0, <1>1, <2>1, <3>1, <3>3 DEF Woken, SIGKILL, SIGCONT
      <3>5. Continued
        BY <1>2, <3>1, <3>2, <3>4 DEF Continued
      <3> QED
        BY <3>5 DEF JobStep
    <2>3. CASE ~ Continues(sig)
      <3>1. /\ jobctl' = jobctl /\ sigflags' = sigflags /\ group_stop_count' = group_stop_count
            /\ prep.flags = sigflags
            /\ \A u \in Threads : prep.state[u] = state[u]
        BY <2>1, <2>3 DEF prepare_signal
      <3>2. ASSUME NEW u \in Threads PROVE state'[u] = "stopped" <=> state[u] = "stopped"
        <4>1. CASE state'[u] = prep.state[u]
          BY <3>1, <4>1
        <4>2. CASE u = t /\ t # 0 /\ state'[u] = Woken(prep.state, t, sig = SIGKILL) /\ sig # SIGKILL
          BY <1>0, <3>1, <4>2 DEF Woken
        <4>3. CASE state'[u] # prep.state[u] /\ u = t /\ t # 0 /\ sig = SIGKILL
          <5>1. NotFatal(SIGKILL, t)
            <6>1. ~ Drop(prep)
              BY <4>3 DEF Drop
            <6> QED
              BY <1>4, <4>3, <6>1
          <5>2. sig_fatal(SIGKILL) /\ SIGKILL \notin real_blocked(t) /\ SIGKILL \notin SIG_KERNEL_COREDUMP
            BY <4>3 DEF JobInv, KillNotHeldUp, sig_fatal, SIGKILL, SIG_KERNEL_IGNORE,
                        SIG_KERNEL_STOP_MASK, SIG_KERNEL_COREDUMP, SIGCONT, SIGSTOP
          <5>3. signal_group_exit
            BY <3>1, <4>3, <5>1, <5>2 DEF NotFatal, signal_group_exit
          <5>4. state[u] # "stopped"
            BY <5>3 DEF JobInv, JobControl, DyingDoesNotStop
          <5> QED
            BY <1>2, <5>4 DEF OnlyWakes
        <4> QED
          BY <2>1, <4>1, <4>2, <4>3
      <3>3. Undisturbed
        BY <1>2, <3>1, <3>2 DEF Undisturbed, Pending, Reporter
      <3> QED
        BY <3>3 DEF JobStep
    <2> QED
      BY <2>2, <2>3
  <1>5. \/ Drop(prep) \/ \E t \in list : Kills(sig, p, grp, t)
        \/ \E t \in {0} \cup list : Queues(sig, p, grp, t) /\ (t # 0 => NotFatal(sig, t))
    BY <1>0, SendCases
  <1> HIDE DEF prep
  <1> QED
    BY <1>3, <1>4, <1>5

-----------------------------------------------------------------------------
(* The invariant. *)

LEMMA GroupExitStays ==
  ASSUME JobStep
  PROVE  signal_group_exit => signal_group_exit'
  BY DEF JobStep, signal_group_exit, Undisturbed, Reports, Dies, Continued, TakesPart,
         ExitsEarly, ExitsQuietly, Leaves

(* Nothing gives SIGKILL a handler or blocks it, and nobody but a dying    *)
(* group or a sender gives a thread one.                                   *)
LEMMA KillNotHeldUpStep ==
  ASSUME JobInv, NEW t \in Threads, Step(t)
  PROVE  KillNotHeldUp'
  <1> USE DEF real_blocked
  <1>0. /\ list \in SUBSET Threads /\ exiting \in [Threads -> BOOLEAN]
        /\ pending \in [Threads -> SUBSET AllSignals]
        /\ blocked \in [Threads -> SUBSET Signals]
        /\ wait \in [Threads -> [these : SUBSET Signals, real : SUBSET Signals]]
        /\ handler \in [AllSignals -> {"SIG_DFL", "SIG_IGN", "fn", "oneshot"}]
        /\ SIGKILL \in AllSignals
    BY DEF JobInv, TypeOK, AllSignals
  <1>1. signal_group_exit => signal_group_exit'
    BY StepIsJobStep, GroupExitStays
  <1>2. handler'[SIGKILL] = "SIG_DFL"
    <2>1. \/ handler' = handler
          \/ \E sig \in AllSignals : handler' = [handler EXCEPT ![sig] = "SIG_DFL"]
      BY DEF Step, EnterSignal, NotifyParent, JoinStop, NoSignal, Deliver, TakeStop,
         IsOrphaned, TryStop, TakeFatal, WaitReturns, do_group_exit, exit_signals,
         ExitLocked, exit_notify
    <2> QED
      BY <1>0, <2>1 DEF JobInv, KillNotHeldUp
  <1>3. \A u \in Threads : SIGKILL \notin blocked'[u] /\ SIGKILL \notin wait'[u].real
    <2>1. \/ UNCHANGED masks
          \/ /\ blocked' = [blocked EXCEPT ![t] = wait[t].real]
             /\ wait' = [wait EXCEPT ![t] = NotWaiting]
      BY DEF Step, EnterSignal, NotifyParent, JoinStop, NoSignal, Deliver, TakeStop, Take,
         IsOrphaned, TryStop, TakeFatal, WaitReturns, do_group_exit, exit_signals,
         ExitLocked, exit_notify
    <2> QED
      BY <1>0, <2>1 DEF JobInv, KillNotHeldUp, NotWaiting, masks
  <1>4. list' \in SUBSET list /\ \A u \in Threads : exiting[u] => exiting'[u]
    BY <1>0 DEF Step, EnterSignal, NotifyParent, JoinStop, NoSignal, Deliver, TakeStop,
       IsOrphaned, TryStop, TakeFatal, WaitReturns, do_group_exit, exit_signals,
       ExitLocked, exit_notify
  <1>5. signal_group_exit' \/ \A u \in Threads : pending'[u] \subseteq pending[u]
    <2>1. CASE do_group_exit(t)
      BY <2>1 DEF do_group_exit, signal_group_exit
    <2>2. CASE ~ do_group_exit(t)
      <3>1. \/ pending' = pending
            \/ \E sig : pending' = [pending EXCEPT ![t] = @ \ {sig}]
            \/ pending' = [pending EXCEPT ![t] = {}]
        BY <2>2 DEF Step, EnterSignal, NotifyParent, JoinStop, NoSignal, Deliver, TakeStop,
           IsOrphaned, TryStop, TakeFatal, WaitReturns, exit_signals,
           ExitLocked, exit_notify, Take, TakeWaited, Dequeue, queues
      <3> QED
        BY <1>0, <3>1
    <2> QED
      BY <2>1, <2>2
  <1> QED
    BY <1>0, <1>1, <1>2, <1>3, <1>4, <1>5 DEF JobInv, KillNotHeldUp

LEMMA KillNotHeldUpLocal ==
  ASSUME JobInv, NEW t \in Threads, Local(t)
  PROVE  KillNotHeldUp'
  <1> USE DEF real_blocked
  <1>0. /\ list \in SUBSET Threads
        /\ pending \in [Threads -> SUBSET AllSignals]
        /\ blocked \in [Threads -> SUBSET Signals]
        /\ wait \in [Threads -> [these : SUBSET Signals, real : SUBSET Signals]]
        /\ handler \in [AllSignals -> {"SIG_DFL", "SIG_IGN", "fn", "oneshot"}]
        /\ SIGKILL \in AllSignals
    BY DEF JobInv, TypeOK, AllSignals
  <1>1. signal_group_exit => signal_group_exit'
    BY LocalIsJobStep, GroupExitStays
  <1>a. UNCHANGED <<list, exiting>>
    BY DEF Local, CallExit, Sleep, Wake, set_current_blocked, do_sigtimedwait,
           force_sig_info, do_sigaction
  <1>2. handler'[SIGKILL] = "SIG_DFL"
    <2>1. \/ handler' = handler
          \/ \E sig \in Forced : handler' = [handler EXCEPT ![sig] = "SIG_DFL"]
          \/ \E sig \in Catchable, h \in Handlers : handler' = [handler EXCEPT ![sig] = h]
      BY DEF Local, CallExit, Sleep, Wake, set_current_blocked, do_sigtimedwait,
             force_sig_info, do_sigaction
    <2>2. SIGKILL \notin Catchable /\ SIGKILL \notin Forced
      BY CatchableAssumption, ForcedAssumption DEF SIG_KERNEL_ONLY, SYNCHRONOUS_MASK, SIGKILL
    <2> QED
      BY <1>0, <2>1, <2>2 DEF JobInv, KillNotHeldUp
  <1>3. \A u \in Threads : SIGKILL \notin blocked'[u] /\ SIGKILL \notin wait'[u].real
    <2>1. \/ UNCHANGED masks
          \/ \E m \in Masks : blocked' = [blocked EXCEPT ![t] = m] /\ wait' = wait
          \/ \E s : blocked' = [blocked EXCEPT ![t] = @ \cap s]
                    /\ \E w : wait' = [wait EXCEPT ![t] = [these |-> w, real |-> blocked[t]]]
          \/ \E s : blocked' = [blocked EXCEPT ![t] = @ \ s] /\ wait' = wait
      BY DEF Local, CallExit, Sleep, Wake, set_current_blocked, do_sigtimedwait,
             force_sig_info, do_sigaction, masks
    <2>2. \A m \in Masks : SIGKILL \notin m
      BY MasksAssumption DEF SIG_KERNEL_ONLY
    <2> QED
      BY <1>0, <2>1, <2>2 DEF JobInv, KillNotHeldUp, masks
  <1>4. \A u \in list : SIGKILL \in pending'[u] => SIGKILL \in pending[u]
    <2>1. \/ pending' = pending
          \/ \E sig : pending' = [pending EXCEPT ![t] = @ \ {sig}]
          \/ \E sig \in Forced : pending' = [pending EXCEPT ![t] = @ \cup {sig}]
          \/ \A u \in Threads : pending'[u] \subseteq pending[u]
      <3>1. CASE \E w \in Waits, timeout \in BOOLEAN : do_sigtimedwait(t, w, timeout)
        BY <3>1 DEF do_sigtimedwait, TakeWaited, Dequeue, queues
      <3>2. CASE \E sig \in Forced : force_sig_info(t, sig)
        BY <3>2 DEF force_sig_info
      <3>3. CASE \E sig \in Catchable, h \in Handlers : do_sigaction(t, sig, h)
        BY <3>3 DEF do_sigaction
      <3> QED
        BY <3>1, <3>2, <3>3 DEF Local, CallExit, Sleep, Wake, set_current_blocked, queues
    <2>2. SIGKILL \notin Forced
      BY ForcedAssumption DEF SYNCHRONOUS_MASK, SIGKILL
    <2> QED
      BY <1>0, <2>1, <2>2
  <1> QED
    BY <1>0, <1>1, <1>a, <1>2, <1>3, <1>4 DEF JobInv, KillNotHeldUp

(* SIGKILL sent to a thread that does not exit kills the group. *)
LEMMA KillNotHeldUpSend ==
  ASSUME JobInv, NEW sig \in Signals, NEW p \in list, NEW grp \in BOOLEAN,
         send_signal(sig, p, grp), UNCHANGED <<list, masks, handler, exiting, pc, warned>>
  PROVE  KillNotHeldUp'
  <1> USE DEF real_blocked
  <1>0. list \in SUBSET Threads /\ pending \in [Threads -> SUBSET AllSignals] /\ TypeOK
    BY DEF JobInv, TypeOK
  <1>1. signal_group_exit => signal_group_exit'
    BY SendIsJobStep, GroupExitStays
  <1>2. /\ handler' = handler /\ blocked' = blocked /\ wait' = wait
        /\ list' = list /\ exiting' = exiting
    BY DEF masks
  <1>3. \A u \in list : prepare_signal(sig).pending[u] \subseteq pending[u]
    BY <1>0 DEF prepare_signal
  <1>4. /\ handler[SIGKILL] = "SIG_DFL"
        /\ \A u \in Threads : SIGKILL \notin blocked[u] /\ SIGKILL \notin wait[u].real
    BY DEF JobInv, KillNotHeldUp
  <1>5. ASSUME NEW u \in list, SIGKILL \in pending'[u], SIGKILL \notin pending[u]
        PROVE  signal_group_exit' \/ exiting[u]
    <2>1. CASE Drop(prepare_signal(sig))
      BY <1>3, <1>5, <2>1 DEF Drop
    <2>2. CASE \E t \in list : Kills(sig, p, grp, t)
      BY <2>2 DEF Kills, StartGroupExit, signal_group_exit
    <2>3. ASSUME NEW t \in {0} \cup list, NEW curr, Queues(sig, p, grp, t),
                 t # 0 => NotFatal(sig, t),
                 t = 0 => p \notin Wanting(sig, prepare_signal(sig).state, curr)
          PROVE  signal_group_exit' \/ exiting[u]
      <3>1. u = p /\ sig = SIGKILL /\ ~ grp
        <4>1. pending' = PendingWith(sig, p, grp)
          BY <2>3 DEF Queues
        <4>2. prepare_signal(sig).pending \in [Threads -> SUBSET AllSignals]
          BY <1>0, PrepareTypes
        <4> HIDE DEF prepare_signal
        <4> QED
          BY <1>0, <1>3, <1>5, <4>1, <4>2 DEF PendingWith
      <3>2. CASE t = 0
        <4>1. ~ wants_signal(SIGKILL, p, prepare_signal(sig).state, curr)
          BY <2>3, <3>1, <3>2 DEF Wanting
        <4> QED
          BY <1>0, <1>4, <3>1, <4>1 DEF wants_signal
      <3>3. CASE t # 0
        <4>1. t \in Threads /\ NotFatal(SIGKILL, t)
          BY <1>0, <2>3, <3>1, <3>3
        <4>2. sig_fatal(SIGKILL) /\ SIGKILL \notin SIG_KERNEL_COREDUMP /\ SIGKILL \notin real_blocked(t)
          BY <1>4, <4>1 DEF sig_fatal, SIGKILL, SIG_KERNEL_IGNORE,
             SIG_KERNEL_STOP_MASK, SIG_KERNEL_COREDUMP, SIGCONT, SIGSTOP
        <4>3. "GROUP_EXIT" \in prepare_signal(sig).flags
          BY <3>1, <4>1, <4>2 DEF NotFatal
        <4>4. prepare_signal(sig).flags = sigflags
          BY <3>1 DEF prepare_signal, Continues, SIGKILL, SIGCONT
        <4> QED
          BY <1>1, <4>3, <4>4 DEF signal_group_exit
      <3> QED
        BY <3>2, <3>3
    <2> QED
      BY <1>0, <2>1, <2>2, <2>3, SendCases
  <1> QED
    BY <1>0, <1>1, <1>2, <1>4, <1>5 DEF JobInv, KillNotHeldUp

LEMMA NextIsJobStep ==
  ASSUME JobInv, Next
  PROVE  JobStep /\ KillNotHeldUp'
  <1>0. Leader \in list
    BY DEF JobInv, Whereabouts
  <1>1. ASSUME NEW sig \in Signals, Kill(sig) PROVE JobStep /\ KillNotHeldUp'
    <2>1. /\ send_signal(sig, Leader, TRUE)
          /\ UNCHANGED <<list, masks, handler, exiting, pc, warned>>
      BY <1>1 DEF Kill
    <2> QED
      BY <1>0, <2>1, SendIsJobStep, KillNotHeldUpSend
  <1>2. ASSUME NEW sig \in Signals, NEW t \in Threads, Tkill(t, sig)
        PROVE  JobStep /\ KillNotHeldUp'
    <2>1. /\ t \in list /\ send_signal(sig, t, FALSE)
          /\ UNCHANGED <<list, masks, handler, exiting, pc, warned>>
      BY <1>2 DEF Tkill
    <2> QED
      BY <2>1, SendIsJobStep, KillNotHeldUpSend
  <1> QED
    BY <1>1, <1>2, StepIsJobStep, LocalIsJobStep, KillNotHeldUpStep, KillNotHeldUpLocal
       DEF Next, Send

LEMMA JobInductive == JobInv /\ [Next]_vars => JobInv'
  <1> SUFFICES ASSUME JobInv, [Next]_vars PROVE JobInv'
    OBVIOUS
  <1>1. TypeOK' /\ Whereabouts'
    <2>1. TypeInv
      BY DEF JobInv, TypeInv, Whereabouts
    <2> QED
      BY <2>1, TypesInductive, WhereaboutsInductive DEF JobInv, TypeInv
  <1>2. CASE Next
    BY <1>1, <1>2, NextIsJobStep, JobStepKeeps DEF JobInv
  <1>3. CASE UNCHANGED vars
    <2>1. KillNotHeldUp'
      BY <1>3 DEF vars, masks, queues, group, JobInv, KillNotHeldUp, signal_group_exit, real_blocked
    <2>2. Undisturbed
      BY <1>3 DEF vars, group, Undisturbed, Pending, Reporter
    <2> QED
      BY <1>1, <2>1, <2>2, UndisturbedKeeps DEF JobInv
  <1> QED
    BY <1>2, <1>3

LEMMA JobInit == Init => JobInv
  <1> SUFFICES ASSUME Init PROVE JobInv
    OBVIOUS
  <1>1. TypeOK /\ Leader \in list
    BY SignalTypesInit DEF TypeInv
  <1>2. Whereabouts
    BY <1>1 DEF Init, Whereabouts
  <1>3. KillNotHeldUp
    BY DEF Init, KillNotHeldUp, real_blocked, NotWaiting, AllSignals
  <1>4. StopBits /\ ~ Stopping
    BY DEF Init, StopBits, Stopping, Pending
  <1>5. ~ signal_group_exit /\ CldBits = {}
    BY DEF Init, signal_group_exit, CldBits
  <1>6. StopCountExact
    <2>1. Counted = {}
      BY DEF Init, Counted
    <2> QED
      BY <1>5, <2>1, FS_EmptySet DEF Init, StopCountExact, Counted
  <1>7. EveryoneTakesPart /\ SomeoneReports /\ DyingDoesNotStop
    BY <1>4, <1>5 DEF EveryoneTakesPart, SomeoneReports, DyingDoesNotStop
  <1>8. NoWarning /\ NobodyLeftStopped /\ StoppedMeansStopped
    BY DEF Init, NoWarning, NobodyLeftStopped, StoppedMeansStopped
  <1> QED
    BY <1>1, <1>2, <1>3, <1>4, <1>6, <1>7, <1>8 DEF JobInv, JobControl

(* The count of the stop is exact, through every race of stop signals with *)
(* SIGCONT, with exiting threads and with the death of the group: that the *)
(* last thread to stop, and no other, reports the group stopped rests on it. *)
THEOREM SignalStopCount == Spec => []StopCountExact
  <1>1. JobInv => StopCountExact
    BY DEF JobInv, JobControl
  <1> QED
    BY <1>1, JobInit, JobInductive, PTL DEF Spec

(* task_participate_group_stop is only called for a thread with a stop     *)
(* pending, and the count it takes it from is not 0: neither WARN_ON_ONCE  *)
(* fires.                                                                  *)
THEOREM SignalNoWarning == Spec => []NoWarning
  <1>1. JobInv => NoWarning
    BY DEF JobInv, JobControl
  <1> QED
    BY <1>1, JobInit, JobInductive, PTL DEF Spec

(* A SIGCONT, a SIGKILL or a group exit leaves no thread asleep in         *)
(* TASK_STOPPED: who is there belongs to a stop that is under way or done. *)
THEOREM SignalNobodyLeftStopped == Spec => []NobodyLeftStopped
  <1>1. JobInv => NobodyLeftStopped
    BY DEF JobInv, JobControl
  <1> QED
    BY <1>1, JobInit, JobInductive, PTL DEF Spec

(* SIGNAL_STOP_STOPPED, which the parent waits for, is only set while every *)
(* thread has stopped or is past the point where it takes signals.         *)
THEOREM SignalStoppedMeansStopped == Spec => []StoppedMeansStopped
  <1>1. JobInv => StoppedMeansStopped
    BY DEF JobInv, JobControl
  <1> QED
    BY <1>1, JobInit, JobInductive, PTL DEF Spec

(* No stop, continue or exit that was under way takes SIGNAL_GROUP_EXIT    *)
(* off a group again.                                                      *)
THEOREM SignalDeathIsFinal == Spec => DeathIsFinal
  <1>1. JobInv /\ [Next]_vars => [signal_group_exit => signal_group_exit']_vars
    BY NextIsJobStep, GroupExitStays
  <1> QED
    BY <1>1, JobInit, JobInductive, PTL DEF Spec, DeathIsFinal

(* A report that is due to the parent is not lost when a new stop begins,  *)
(* or completes, before a thread that SIGCONT has woken could make it: only *)
(* that thread, or the death of the group, takes it away.                  *)
THEOREM SignalReportNotLost == Spec => ReportNotLost
  <1>1. ASSUME JobInv, JobInv', Next, CldBits # {}, ~ signal_group_exit'
        PROVE  CldBits' # {} \/ \E t \in Threads : NotifyParent(t)
    <2>1. JobStep
      BY <1>1, NextIsJobStep
    <2>2. CASE sigflags' = sigflags
      BY <1>1, <2>2 DEF CldBits
    <2>3. CASE Reports
      BY <2>3 DEF Reports
    <2>4. CASE Dies
      BY <1>1, <2>4 DEF Dies, signal_group_exit
    <2>5. CASE Continued
      <3>1. Why = {} \/ Why \cap {"CLD_STOPPED", "CLD_CONTINUED"} # {}
        BY DEF Why
      <3> QED
        BY <1>1, <2>5, <3>1 DEF Continued, CldBits
    <2>6. ASSUME NEW Left \in SUBSET list, TakesPart(Left) PROVE CldBits' # {}
      <3>1. ~ signal_group_exit /\ list' = list
        BY <2>6 DEF TakesPart
      <3>2. PICK u \in list : Reporter(u)
        BY <1>1, <3>1 DEF JobInv, JobControl, SomeoneReports, Reporter
      <3>3. Reporter(u)'
        BY <1>1, <2>6, <3>2 DEF TakesPart
      <3>4. u \in Threads
        BY <1>1 DEF JobInv, TypeOK
      <3>5. ~ exiting'[u] /\ state'[u] # "stopped"
        BY <1>1, <3>3, <3>4 DEF JobInv, Whereabouts, Reporter
      <3>6. u \in Left
        BY <2>6, <3>5 DEF TakesPart
      <3> QED
        BY <1>1, <2>6, <3>6 DEF TakesPart, CldBits
    <2>7. CASE Undisturbed \/ \E t \in list : ExitsEarly(t) \/ ExitsQuietly(t) \/ Leaves(t)
      BY <2>2, <2>7 DEF Undisturbed, ExitsEarly, ExitsQuietly, Leaves
    <2> QED
      BY <2>1, <2>3, <2>4, <2>5, <2>6, <2>7 DEF JobStep
  <1>2. JobInv /\ JobInv' /\ [Next]_vars =>
          [CldBits # {} => CldBits' # {} \/ signal_group_exit'
                                         \/ \E t \in Threads : NotifyParent(t)]_vars
    BY <1>1
  <1> QED
    BY <1>2, JobInit, JobInductive, PTL DEF Spec, ReportNotLost

-----------------------------------------------------------------------------
(* Stop and continue signals. *)

Opposed(S) == SIGCONT \notin S \/ S \cap SIG_KERNEL_STOP_MASK = {}

LEMMA SendKeepsStopOrContinue ==
  ASSUME JobInv, StopOrContinue, ~ signal_group_exit, list' = list,
         NEW sig \in Signals, NEW p \in list, NEW grp \in BOOLEAN, send_signal(sig, p, grp)
  PROVE  StopOrContinue'
  <1> DEFINE prep == prepare_signal(sig)
             kept == AllPending \ Removed(sig)
  <1>0. /\ list \in SUBSET Threads /\ pending \in [Threads -> SUBSET AllSignals] /\ TypeOK
        /\ prep.pending \in [Threads -> SUBSET AllSignals]
    BY PrepareTypes DEF JobInv, TypeOK
  <1>1. prep.shared \subseteq kept /\ \A u \in list : prep.pending[u] \subseteq kept
    BY <1>0 DEF prepare_signal, AllPending
  <1>2. Opposed(kept \cup {sig}) /\ Opposed(kept)
    BY DEF Opposed, StopOrContinue, Removed, SIG_KERNEL_STOP_MASK, SIGCONT, SIGSTOP
  <1>3. \/ Drop(prep) \/ \E t \in list : Kills(sig, p, grp, t)
        \/ \E t \in {0} \cup list : Queues(sig, p, grp, t)
    BY <1>0, SendKinds
  <1>4. CASE \E t \in list : Kills(sig, p, grp, t)
    BY <1>4 DEF Kills, StartGroupExit, StopOrContinue, signal_group_exit
  <1>5. CASE Drop(prep) \/ \E t \in {0} \cup list : Queues(sig, p, grp, t)
    <2>1. shared' \subseteq kept \cup {sig}
          /\ \A u \in list : pending'[u] \subseteq kept \cup {sig}
      <3> HIDE DEF prep, kept
      <3>1. CASE Drop(prep)
        BY <1>1, <3>1 DEF Drop
      <3>2. CASE \E t \in {0} \cup list : Queues(sig, p, grp, t)
        <4>1. pending' = PendingWith(sig, p, grp) /\ shared' = SharedWith(sig, grp)
          BY <3>2 DEF Queues
        <4>2. /\ pending' = IF grp THEN prep.pending
                            ELSE [prep.pending EXCEPT ![p] = @ \cup {sig}]
              /\ shared' = IF grp THEN prep.shared \cup {sig} ELSE prep.shared
          BY <4>1 DEF PendingWith, SharedWith, prep
        <4> QED
          BY <1>0, <1>1, <4>2
      <3> QED
        BY <1>5, <3>1, <3>2
    <2>2. AllPending' \subseteq kept \cup {sig}
      <3> HIDE DEF kept
      <3> QED
        BY <2>1 DEF AllPending
    <2> QED
      BY <1>2, <2>2 DEF StopOrContinue, Opposed
  <1> QED
    BY <1>3, <1>4, <1>5

LEMMA StopOrContinueInductive ==
  ASSUME JobInv, StopOrContinue, [Next]_vars
  PROVE  StopOrContinue'
  <1>0. /\ list \in SUBSET Threads /\ pending \in [Threads -> SUBSET AllSignals]
        /\ Leader \in list
    BY DEF JobInv, TypeOK, Whereabouts
  <1>1. CASE signal_group_exit
    <2>1. signal_group_exit'
      <3>1. CASE Next
        BY <1>1, <3>1, NextIsJobStep, GroupExitStays
      <3>2. CASE UNCHANGED vars
        BY <1>1, <3>2 DEF vars, group, signal_group_exit
      <3> QED
        BY <3>1, <3>2
    <2> QED
      BY <2>1 DEF StopOrContinue
  <1>2. ASSUME ~ signal_group_exit, list' \in SUBSET list, shared' \in SUBSET shared,
               NEW S, S \cap (SIG_KERNEL_STOP_MASK \cup {SIGCONT}) = {},
               \A u \in list' : pending'[u] \subseteq pending[u] \cup S
        PROVE  StopOrContinue'
    <2>1. AllPending' \subseteq AllPending \cup S
      BY <1>0, <1>2 DEF AllPending
    <2>2. Opposed(AllPending)
      BY <1>2 DEF StopOrContinue, Opposed
    <2> QED
      BY <1>2, <2>1, <2>2 DEF StopOrContinue, Opposed
  <1>a. ASSUME ~ signal_group_exit, list' \in SUBSET list, shared' \in SUBSET shared,
               \A u \in list' : pending'[u] \subseteq pending[u]
        PROVE  StopOrContinue'
    <2>1. {} \cap (SIG_KERNEL_STOP_MASK \cup {SIGCONT}) = {}
      OBVIOUS
    <2>2. \A u \in list' : pending'[u] \subseteq pending[u] \cup {}
      BY <1>a
    <2> QED
      BY <1>2, <1>a, <2>1, <2>2
  <1>3. ASSUME ~ signal_group_exit, NEW sig \in Signals, Kill(sig) PROVE StopOrContinue'
    BY <1>0, <1>3, SendKeepsStopOrContinue DEF Kill
  <1>4. ASSUME ~ signal_group_exit, NEW sig \in Signals, NEW t \in Threads, Tkill(t, sig)
        PROVE  StopOrContinue'
    BY <1>4, SendKeepsStopOrContinue DEF Tkill
  <1>5. ASSUME ~ signal_group_exit, NEW t \in Threads, Step(t) PROVE StopOrContinue'
    <2>1. CASE do_group_exit(t) /\ sigflags' = {"GROUP_EXIT"}
      BY <2>1 DEF StopOrContinue, signal_group_exit
    <2>2. CASE ~ (do_group_exit(t) /\ sigflags' = {"GROUP_EXIT"})
      <3>1. /\ shared' \in SUBSET shared /\ list' \in SUBSET list
            /\ \/ pending' = pending
               \/ \E sig : pending' = [pending EXCEPT ![t] = @ \ {sig}]
               \/ pending' = [pending EXCEPT ![t] = {}]
        BY <1>5, <2>2 DEF Step, EnterSignal, NotifyParent, JoinStop, NoSignal, Deliver, TakeStop,
           IsOrphaned, TryStop, TakeFatal, WaitReturns, do_group_exit, exit_signals,
           ExitLocked, exit_notify, Take, TakeWaited, Dequeue, queues
      <3>2. \A u \in list : pending'[u] \subseteq pending[u]
        BY <1>0, <3>1
      <3> QED
        BY <1>a, <1>5, <3>1, <3>2
    <2> QED
      BY <2>1, <2>2
  <1>6. ASSUME ~ signal_group_exit, NEW t \in Threads, Local(t) PROVE StopOrContinue'
    <2>1. CASE CallExit(t) \/ Sleep(t) \/ Wake(t) \/ \E m \in Masks : set_current_blocked(t, m)
      <3>1. UNCHANGED <<list, pending, shared>>
        BY <2>1 DEF CallExit, Sleep, Wake, set_current_blocked, queues
      <3> QED
        BY <1>a, <1>6, <3>1
    <2>2. ASSUME NEW w \in Waits, NEW timeout \in BOOLEAN, do_sigtimedwait(t, w, timeout)
          PROVE  StopOrContinue'
      <3>1. /\ list' = list /\ shared' \in SUBSET shared
            /\ pending' = pending \/ \E sig : pending' = [pending EXCEPT ![t] = @ \ {sig}]
        BY <2>2 DEF do_sigtimedwait, TakeWaited, Dequeue, queues
      <3>2. \A u \in list : pending'[u] \subseteq pending[u]
        BY <1>0, <3>1
      <3> QED
        BY <1>a, <1>6, <3>1, <3>2
    <2>3. ASSUME NEW sig \in Forced, force_sig_info(t, sig) PROVE StopOrContinue'
      <3>1. {sig} \cap (SIG_KERNEL_STOP_MASK \cup {SIGCONT}) = {}
        BY ForcedAssumption DEF SYNCHRONOUS_MASK, SIG_KERNEL_STOP_MASK, SIGCONT, SIGSTOP
      <3>2. /\ list' = list /\ shared' = shared
            /\ \A u \in list : pending'[u] \subseteq pending[u] \cup {sig}
        BY <1>0, <2>3 DEF force_sig_info
      <3> QED
        BY <1>2, <1>6, <3>1, <3>2
    <2>4. ASSUME NEW sig \in Catchable, NEW h \in Handlers, do_sigaction(t, sig, h)
          PROVE  StopOrContinue'
      <3>1. /\ list' = list /\ shared' \in SUBSET shared
            /\ \A u \in list : pending'[u] \subseteq pending[u]
        BY <1>0, <2>4 DEF do_sigaction
      <3> QED
        BY <1>a, <1>6, <3>1
    <2> QED
      BY <1>6, <2>1, <2>2, <2>3, <2>4 DEF Local
  <1>7. CASE ~ signal_group_exit /\ UNCHANGED vars
    BY <1>a, <1>7 DEF vars, queues
  <1> QED
    BY <1>1, <1>3, <1>4, <1>5, <1>6, <1>7 DEF Next, Send

(* A pending SIGCONT and a pending stop signal cancel each other out when   *)
(* they are sent, in every queue of the group, and no thread puts one back *)
(* beside the other: unless the group dies the two are never both pending. *)
THEOREM SignalStopOrContinue == Spec => []StopOrContinue
  <1>1. Init => StopOrContinue
    BY DEF Init, StopOrContinue, AllPending
  <1>2. (JobInv /\ StopOrContinue) /\ [Next]_vars => (JobInv /\ StopOrContinue)'
    BY JobInductive, StopOrContinueInductive
  <1> QED
    BY <1>1, <1>2, JobInit, PTL DEF Spec
=============================================================================
