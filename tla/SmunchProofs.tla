----------------------------- MODULE SmunchProofs -----------------------------
(***************************************************************************)
(* Proofs about Smunch: which of the rules of signal.c outlive a system    *)
(* call that goes around it.                                               *)
(***************************************************************************)
EXTENDS Smunch, SignalMissedProofs

SmunchTypes ==
    /\ cpc \in [Callers -> {"idle", "found", "release"}]
    /\ pattern \in [Callers -> SUBSET Signals]
    /\ released \in Nat

(* What holds of the target whatever is sent to it. *)
Standing == SmunchTypes /\ TypeInv /\ Whereabouts

(* What a step can be: one of signal.c, or one that leaves its state       *)
(* alone, or sends, or goes to sleep.                                      *)
LEMMA SmunchSteps ==
  ASSUME [SmunchNext]_allvars
  PROVE  \/ [Next]_vars /\ UNCHANGED smunchvars
         \/ UNCHANGED vars /\ UNCHANGED smunchvars
         \/ \E c \in Callers, pat \in Patterns : SmunchFind(c, pat)
         \/ \E c \in Callers : \/ SmunchRefused(c) \/ SmunchZombie(c) \/ SmunchRelease(c)
                               \/ SmunchKill(c) \/ SmunchSignals(c)
         \/ deepsleep \/ Wait
  BY DEF SmunchNext, smunch, allvars

(* What smunch does to the target. *)
Written(c, sigs) ==
    /\ thread_group_empty(Leader)
    /\ pending' = [pending EXCEPT ![Leader] = pending[Leader] \cup sigs]
    /\ UNCHANGED <<list, shared, masks, handler, jobctl, exiting, group,
                   curr_target, counters, pc, warned, pattern, released>>
    /\ cpc' = [cpc EXCEPT ![c] = "idle"]

LEMMA SmunchWrites ==
  ASSUME NEW c \in Callers
  PROVE  /\ SmunchKill(c) =>
              /\ Written(c, {SIGKILL}) /\ ~ Zombie /\ tif' = tif
              /\ state' = [state EXCEPT ![Leader] = "running"]
         /\ SmunchSignals(c) =>
              /\ Written(c, pattern[c]) /\ SIGKILL \notin pattern[c]
              /\ tif' = [tif EXCEPT ![Leader] = TRUE]
              /\ state' = [state EXCEPT ![Leader] = Woken(state, Leader, FALSE)]
  BY DEF SmunchKill, SmunchSignals, SmunchLocked, Written, Done

LEMMA StandingInductive == Standing /\ [SmunchNext]_allvars => Standing'
  <1> SUFFICES ASSUME Standing, [SmunchNext]_allvars PROVE Standing'
    OBVIOUS
  <1>0. /\ SmunchTypes /\ TypeOK /\ Leader \in list /\ Whereabouts /\ Leader \in Threads
        /\ SIGKILL \in AllSignals
        /\ \A pat \in Patterns : pat \in SUBSET Signals
        /\ \A c \in Callers : pattern[c] \in SUBSET AllSignals
    BY PatternsAssumption DEF Standing, TypeInv, TypeOK, SmunchTypes, AllSignals
  <1>1. CASE [Next]_vars /\ UNCHANGED smunchvars
    <2>1. TypeInv' /\ Whereabouts'
      BY <1>0, <1>1, TypesInductive, WhereaboutsInductive DEF TypeInv
    <2> QED
      BY <1>0, <1>1, <2>1 DEF Standing, SmunchTypes, smunchvars
  <1>2. ASSUME UNCHANGED vars, SmunchTypes' PROVE Standing'
    <2>1. TypeInv' /\ Whereabouts'
      BY <1>0, <1>2, TypesInductive, WhereaboutsInductive DEF TypeInv
    <2> QED
      BY <1>2, <2>1 DEF Standing
  <1>3. ASSUME NEW c \in Callers, NEW sigs \in SUBSET AllSignals, Written(c, sigs),
               \/ state' = [state EXCEPT ![Leader] = "running"] /\ ~ Zombie /\ tif' = tif
               \/ /\ state' = [state EXCEPT ![Leader] = Woken(state, Leader, FALSE)]
                  /\ tif' = [tif EXCEPT ![Leader] = TRUE]
        PROVE  Standing'
    <2>1. SmunchTypes'
      BY <1>0, <1>3 DEF SmunchTypes, Written
    <2>2. pending' \in [Threads -> SUBSET AllSignals]
      BY <1>0, <1>3 DEF TypeOK, Written
    <2>3. /\ state' \in [Threads -> {"running", "sleep", "deep", "stopped", "dead"}]
          /\ tif' \in [Threads -> BOOLEAN]
      BY <1>0, <1>3 DEF TypeOK, Woken
    <2>4. TypeOK'
      BY <1>0, <1>3, <2>2, <2>3 DEF TypeOK, Written, masks, group
    <2>5. Whereabouts'
      BY <1>0, <1>3, <2>3 DEF Whereabouts, Written, TypeOK, Woken, Zombie
    <2> QED
      BY <1>0, <1>3, <2>1, <2>4, <2>5 DEF Standing, TypeInv, Written
  <1>4. ASSUME NEW c \in Callers, SmunchKill(c) \/ SmunchSignals(c) PROVE Standing'
    BY <1>0, <1>3, <1>4, SmunchWrites
  <1>5. CASE deepsleep
    <2>1. TypeOK' /\ Whereabouts' /\ Leader \in list'
      BY <1>0, <1>5 DEF deepsleep, TypeOK, Whereabouts, queues, masks, group
    <2> QED
      BY <1>0, <1>5, <2>1 DEF Standing, TypeInv, SmunchTypes, deepsleep, smunchvars
  <1>6. ASSUME NEW c \in Callers, SmunchRefused(c) \/ SmunchZombie(c) \/ SmunchRelease(c)
        PROVE  Standing'
    BY <1>0, <1>2, <1>6
       DEF SmunchRefused, SmunchZombie, SmunchRelease, SmunchTypes, Done
  <1>7. ASSUME NEW c \in Callers, NEW pat \in Patterns, SmunchFind(c, pat) PROVE Standing'
    BY <1>0, <1>2, <1>7 DEF SmunchFind, SmunchTypes
  <1>8. CASE Wait
    BY <1>0, <1>2, <1>8 DEF Wait, SmunchTypes
  <1>9. CASE UNCHANGED vars /\ UNCHANGED smunchvars
    BY <1>0, <1>2, <1>9 DEF SmunchTypes, smunchvars
  <1> QED
    BY <1>1, <1>4, <1>5, <1>6, <1>7, <1>8, <1>9, SmunchSteps

LEMMA StandingInit == SmunchInit => Standing
  <1>1. SmunchInit => TypeInv /\ Whereabouts
    BY JobInit DEF SmunchInit, JobInv, TypeInv, Whereabouts
  <1>2. SmunchInit => SmunchTypes
    BY DEF SmunchInit, SmunchTypes
  <1> QED
    BY <1>1, <1>2 DEF Standing

-----------------------------------------------------------------------------
(* smunch without SIGKILL: what it goes around does not break what the     *)
(* rest of signal.c relies on.                                             *)

NoKill == \A c \in Callers : SIGKILL \notin pattern[c]

(* To job control what smunch and deepsleep do is nothing. *)
LEMMA SmunchUndisturbed ==
  ASSUME Standing, NoKill,
         deepsleep \/ \E c \in Callers : SmunchSignals(c)
  PROVE  Undisturbed
  <1>0. /\ Leader \in Threads /\ tif \in [Threads -> BOOLEAN]
        /\ state \in [Threads -> {"running", "sleep", "deep", "stopped", "dead"}]
    BY DEF Standing, TypeInv, TypeOK
  <1>1. CASE deepsleep
    BY <1>0, <1>1 DEF deepsleep, Undisturbed, Pending, Reporter, group
  <1>2. ASSUME NEW c \in Callers, SmunchSignals(c) PROVE Undisturbed
    <2>1. /\ UNCHANGED <<list, exiting, group, warned, jobctl, pc>>
          /\ tif' = [tif EXCEPT ![Leader] = TRUE]
          /\ state' = [state EXCEPT ![Leader] = Woken(state, Leader, FALSE)]
      BY <1>2, SmunchWrites DEF Written
    <2> QED
      BY <1>0, <2>1 DEF Undisturbed, Pending, Reporter, group, Woken
  <1> QED
    BY <1>1, <1>2

LEMMA SmunchKeepsJobInv ==
  ASSUME Standing, Standing', NoKill, JobInv, [SmunchNext]_allvars
  PROVE  JobInv'
  <1>0. /\ TypeOK' /\ Whereabouts' /\ TypeOK /\ JobControl /\ KillNotHeldUp
        /\ pending \in [Threads -> SUBSET AllSignals] /\ Leader \in Threads
    BY DEF Standing, TypeInv, TypeOK, JobInv
  <1>1. CASE [Next]_vars
    BY <1>1, JobInductive
  <1>2. ASSUME NEW c \in Callers, SmunchSignals(c) PROVE JobInv'
    <2>1. JobControl'
      BY <1>0, <1>2, SmunchUndisturbed, UndisturbedKeeps
    <2>2. Written(c, pattern[c]) /\ SIGKILL \notin pattern[c]
      BY <1>2, SmunchWrites
    <2>3. KillNotHeldUp'
      BY <1>0, <2>2 DEF KillNotHeldUp, Written, masks, group, real_blocked, signal_group_exit
    <2> QED
      BY <1>0, <2>1, <2>3 DEF JobInv
  <1>3. CASE deepsleep
    <2>1. JobControl'
      BY <1>0, <1>3, SmunchUndisturbed, UndisturbedKeeps
    <2>2. KillNotHeldUp'
      BY <1>0, <1>3
         DEF KillNotHeldUp, deepsleep, queues, masks, group, real_blocked, signal_group_exit
    <2> QED
      BY <1>0, <2>1, <2>2 DEF JobInv
  <1>4. ASSUME NEW c \in Callers PROVE ~ SmunchKill(c)
    BY DEF NoKill, SmunchKill
  <1>5. CASE UNCHANGED vars
    BY <1>1, <1>5
  <1> QED
    BY <1>1, <1>2, <1>3, <1>4, <1>5, SmunchSteps
       DEF SmunchFind, SmunchRefused, SmunchZombie, SmunchRelease, Wait

LEMMA SmunchMissesNothing ==
  ASSUME JobInv, JobInv', Standing, NoKill, NoMissedSignal, [SmunchNext]_allvars
  PROVE  NoMissedSignal'
  <1>0. /\ Leader \in Threads /\ tif \in [Threads -> BOOLEAN]
        /\ state \in [Threads -> {"running", "sleep", "deep", "stopped", "dead"}]
        /\ Leader \in list
    BY DEF Standing, TypeInv, TypeOK
  <1>1. CASE [Next]_vars
    BY <1>1, NoMissedSignalInductive
  <1>2. ASSUME NEW c \in Callers, SmunchSignals(c) PROVE NoMissedSignal'
    <2>1. /\ list' = {Leader} /\ tif'[Leader]
          /\ state'[Leader] = Woken(state, Leader, FALSE)
      BY <1>0, <1>2, SmunchWrites DEF Written, thread_group_empty
    <2>2. Alert(Leader)'
      BY <2>1 DEF Alert, Woken
    <2> QED
      BY <2>1, <2>2 DEF NoMissedSignal
  <1>3. CASE deepsleep
    <2>1. /\ UNCHANGED <<list, pending, shared, blocked, exiting, tif, pc, sigflags>>
          /\ state' = [state EXCEPT ![Leader] = "deep"]
      BY <1>3 DEF deepsleep, queues, masks, group
    <2>2. \A t \in Threads : Alert(t) => Alert(t)'
      BY <1>0, <2>1 DEF Alert
    <2>3. list \in SUBSET Threads
      BY DEF Standing, TypeInv, TypeOK
    <2> QED
      BY <2>1, <2>2, <2>3 DEF NoMissedSignal, signal_group_exit
  <1>4. ASSUME NEW c \in Callers PROVE ~ SmunchKill(c)
    BY DEF NoKill, SmunchKill
  <1>5. CASE UNCHANGED vars
    BY <1>1, <1>5
  <1> QED
    BY <1>1, <1>2, <1>3, <1>4, <1>5, SmunchSteps
       DEF SmunchFind, SmunchRefused, SmunchZombie, SmunchRelease, Wait

LEMMA NoKillStays ==
  ASSUME \A pat \in Patterns : SIGKILL \notin pat, SmunchTypes, NoKill, [SmunchNext]_allvars
  PROVE  NoKill'
  <1>1. ASSUME NEW c \in Callers, NEW pat \in Patterns, SmunchFind(c, pat) PROVE NoKill'
    BY <1>1 DEF SmunchFind, SmunchTypes, NoKill
  <1>2. ASSUME UNCHANGED pattern PROVE NoKill'
    BY <1>2 DEF NoKill
  <1>3. ASSUME NEW c \in Callers, SmunchKill(c) \/ SmunchSignals(c) PROVE UNCHANGED pattern
    BY <1>3, SmunchWrites DEF Written
  <1> QED
    BY <1>1, <1>2, <1>3, SmunchSteps
       DEF SmunchRefused, SmunchZombie, SmunchRelease, Wait, deepsleep, smunchvars

NoKillInv == Standing /\ NoKill /\ JobInv /\ NoMissedSignal

LEMMA NoKillInvariant ==
  ASSUME \A pat \in Patterns : SIGKILL \notin pat
  PROVE  SmunchSpec => []NoKillInv
  <1>1. SmunchInit => NoKillInv
    <2>1. SmunchInit => NoKill /\ NoMissedSignal
      BY DEF SmunchInit, Init, NoKill, NoMissedSignal
    <2> QED
      BY <2>1, StandingInit, JobInit DEF SmunchInit, NoKillInv
  <1>2. NoKillInv /\ [SmunchNext]_allvars => NoKillInv'
    BY StandingInductive, NoKillStays, SmunchKeepsJobInv, SmunchMissesNothing
       DEF NoKillInv, Standing
  <1> QED
    BY <1>1, <1>2, PTL DEF SmunchSpec

(* smunch writes the queue without prepare_signal and complete_signal, but *)
(* it sets TIF_SIGPENDING and wakes the target: unless SIGKILL is among    *)
(* what it sends, no pending signal is left with nobody to look for it.    *)
THEOREM SmunchNoMissedSignal ==
  ASSUME \A pat \in Patterns : SIGKILL \notin pat
  PROVE  SmunchSpec => []NoMissedSignal
  BY NoKillInvariant, PTL DEF NoKillInv

(* Nor does it disturb group stop, although prepare_signal, which it goes  *)
(* around, keeps stop and continue signals apart: the count stays exact,   *)
(* and no WARN_ON_ONCE of task_participate_group_stop fires.  (SIGKILL can *)
(* fire one: do_signal_stop finds nobody who may stop when smunch writes   *)
(* it after the siglock was dropped for a tty stop.)                       *)
THEOREM SmunchStopCount ==
  ASSUME \A pat \in Patterns : SIGKILL \notin pat
  PROVE  SmunchSpec => [](StopCountExact /\ NoWarning)
  <1>1. NoKillInv => StopCountExact /\ NoWarning
    BY DEF NoKillInv, JobInv, JobControl
  <1> QED
    BY <1>1, NoKillInvariant, PTL
=============================================================================
