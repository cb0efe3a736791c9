---------------------------- MODULE KillPathProofs ----------------------------
(***************************************************************************)
(* Proofs about KillPath: whatever happens to the tasks and to their       *)
(* credentials between lookup, check and sending, a signal reaches the     *)
(* process that was named, once, and no task that the caller had no right  *)
(* to signal since it was looked up.                                       *)
(***************************************************************************)
EXTENDS KillPath, TLAPS

Structs == Nat \X (Tasks \cup {0})

(* What the tasks are at any time: a struct pid belongs to one task, of a  *)
(* process that has not ended; a task that was used once is not used       *)
(* again, so that a struct pid is not attached a second time; and nobody   *)
(* but the caller's process has its number.                                *)
TaskTypes ==
    /\ pid \in [Tasks -> Structs] /\ process \in [Tasks -> Tasks \cup {0}]
    /\ tgid \in [Tasks -> Nat]
Processes ==
    /\ process[Caller] = InitGroup[Caller]
    /\ \A t \in Tasks :
           /\ process[t] \in {0, InitGroup[t]}
           /\ pid[t] # NULL => process[t] # 0
           /\ process[t] # 0 => tgid[t] # 0
           /\ tgid[InitGroup[t]] = tgid[t]
           /\ tgid[t] = 0 => InitGroup[t] = t
           /\ tgid[t] = tgid[Caller] => InitGroup[t] = InitGroup[Caller]
Attached ==
    /\ \A t, u \in Tasks : pid[t] = pid[u] /\ pid[t] # NULL => t = u
    /\ \A t \in Tasks : pid[t][2] # 0 => tgid[pid[t][2]] # 0
TaskInv == TaskTypes /\ Processes /\ Attached

(* What a call is about: the struct pid it was given, and the process that *)
(* was behind it when the call began.                                      *)
IsCall ==
    call \in [op : {call.op}, at : {"done", "find", "check", "lock", "each"},
              pid : Structs, sig : {call.sig}, info : {call.info}, group : {call.group},
              p : {call.p}, owner : {call.owner}, todo : SUBSET Tasks,
              answers : SUBSET {"ok", "EPERM", "EINVAL"}, hit : SUBSET Tasks,
              may : SUBSET Tasks, ret : {call.ret}, was : {call.was}]
Named ==
    /\ call.pid[2] # 0 => tgid[call.pid[2]] # 0
    /\ \A t \in Tasks : pid[t] = call.pid /\ call.pid # NULL => process[t] = call.owner
UnderWay ==
    call.at \in {"find", "check", "lock"} =>
        /\ call.hit = {} /\ counters = call.was
        /\ call.op \in {"kill", "specific", "as_cred", "init"}
Found ==
    call.at \in {"check", "lock"} =>
        /\ call.p \in Tasks /\ tgid[call.p] # 0 /\ process[call.p] \in {0, call.owner}
        /\ call.op = "specific" => call.group \in {0, tgid[call.p]}

(* What a call remembers of rights: a task it is about that the caller may *)
(* signal now is among those it was allowed to signal; a task that was     *)
(* checked and is not released was; and a group send has answered every    *)
(* process, with "ok" exactly if it reached it.                            *)
Remembered == \A t \in Addressed : MaySignal(call.sig, t, cred[t]) => t \in call.may
Checked ==
    /\ call.at = "lock" /\ call.op # "init" /\ si_fromuser(call.info)
    /\ process[call.p] # 0
    => call.p \in call.may
Answered ==
    call.at = "each" =>
        /\ \A t \in call.todo : process[t] # 0
        /\ call.op \in {"pgrp", "all"}
        /\ call.sig # 0 => ("ok" \in call.answers <=> call.hit # {})
CallInv == IsCall /\ Named /\ UnderWay /\ Found /\ Remembered /\ Checked /\ Answered

CredTypes == cred \in [Tasks -> UNION {CredsOf[t] : t \in Tasks}]
PathInv == TaskInv /\ CallInv /\ CredTypes /\ KillExact /\ OnlyPermitted

-----------------------------------------------------------------------------
LEMMA Zero == 0 \notin Tasks /\ Caller \in Tasks
  BY CallerAssumption

(* What the lookups return. *)
LEMMA PidTask ==
  ASSUME NEW p
  PROVE  \/ pid_task(p) = 0 /\ \A t \in Tasks : pid[t] = p => p = NULL
         \/ pid_task(p) \in Tasks /\ pid[pid_task(p)] = p /\ p # NULL
  BY Zero DEF pid_task

LEMMA FindVpid ==
  ASSUME NEW n
  PROVE  find_vpid(n) = NULL \/ \E t \in Tasks : find_vpid(n) = pid[t]
  <1>1. CASE \E t \in Tasks : pid[t][1] = n
    <2>1. find_vpid(n) \in {pid[t] : t \in Tasks}
      BY <1>1 DEF find_vpid
    <2> QED BY <2>1
  <1>2. CASE ~ \E t \in Tasks : pid[t][1] = n
    BY <1>2 DEF find_vpid
  <1> QED BY <1>1, <1>2

LEMMA InitPath == Init => PathInv
  <1> SUFFICES ASSUME Init PROVE PathInv
    OBVIOUS
  <1> USE Zero, CallerAssumption, TablesAssumption
  <1>1. TaskTypes
    BY DEF Init, TaskTypes, Structs
  <1>2. Processes
    <2>1. process[Caller] = InitGroup[Caller] /\ tgid[Caller] # 0
      BY DEF Init
    <2>2. ASSUME NEW t \in Tasks
          PROVE  /\ process[t] \in {0, InitGroup[t]}
                 /\ pid[t] # NULL => process[t] # 0
                 /\ process[t] # 0 => tgid[t] # 0
      BY DEF Init, NULL
    <2>3. ASSUME NEW t \in Tasks
          PROVE  /\ tgid[InitGroup[t]] = tgid[t]
                 /\ tgid[t] = 0 => InitGroup[t] = t
                 /\ tgid[t] = tgid[Caller] => InitGroup[t] = InitGroup[Caller]
      BY <2>1 DEF Init
    <2> QED BY <2>1, <2>2, <2>3 DEF Processes
  <1>3. Attached
    BY DEF Init, Attached, NULL
  <1>4. CallInv
    BY DEF Init, CallInv, IsCall, Named, UnderWay, Found, Remembered, Addressed, Checked,
           Answered, NoCall, NULL, Structs
  <1>5. CredTypes /\ KillExact /\ OnlyPermitted
    BY DEF Init, CredTypes, KillExact, OnlyPermitted, Returned, NoCall
  <1> QED BY <1>1, <1>2, <1>3, <1>4, <1>5 DEF PathInv, TaskInv

-----------------------------------------------------------------------------
(* The tasks change.  A struct pid that is attached afterwards was         *)
(* attached before, to a task of the same process, or is new; and what is  *)
(* known of a task that was used stays true until it is released.          *)
TaskStep ==
    \/ \E t \in Tasks : Release(t)
    \/ \E t, u \in Tasks : TakeOver(t, u)
    \/ \E t \in Tasks, n \in Nrs : Fork(t, n)

Handed ==
    \A t \in Tasks : pid'[t] # NULL =>
        \/ \E u \in Tasks : pid[u] = pid'[t] /\ process[u] = process'[t]
        \/ pid'[t][2] \in Tasks /\ tgid[pid'[t][2]] = 0
Settled ==
    \A t \in Tasks : tgid[t] # 0 => /\ tgid'[t] = tgid[t]
                                    /\ process'[t] \in {0, process[t]}

LEMMA ReleaseKeeps ==
  ASSUME TaskInv, NEW t \in Tasks, Release(t)
  PROVE  TaskInv' /\ Handed /\ Settled
  <1> USE Zero DEF NULL
  <1>0. TaskTypes /\ Processes /\ Attached
    BY DEF TaskInv
  <1>1. TaskTypes'
    BY <1>0 DEF TaskTypes, Release, Structs
  <1>2. Processes'
    BY <1>0 DEF Processes, TaskTypes, Release
  <1>3. Attached'
    BY <1>0 DEF Attached, TaskTypes, Release
  <1>4. Handed /\ Settled
    BY <1>0 DEF Handed, Settled, TaskTypes, Release
  <1> QED BY <1>1, <1>2, <1>3, <1>4 DEF TaskInv

LEMMA TakeOverKeeps ==
  ASSUME TaskInv, NEW t \in Tasks, NEW u \in Tasks, TakeOver(t, u)
  PROVE  TaskInv' /\ Handed /\ Settled
  <1> USE Zero DEF NULL
  <1>0. /\ TaskTypes /\ Processes /\ Attached
        /\ t # u /\ process[t] = process[u] /\ process[t] # 0
    BY DEF TaskInv, TakeOver, Others
  <1>1. TaskTypes'
    BY <1>0 DEF TaskTypes, TakeOver, Structs
  <1>2. Processes'
    BY <1>0 DEF Processes, TaskTypes, TakeOver
  <1>3. Attached'
    BY <1>0 DEF Attached, TaskTypes, TakeOver
  <1>4. Handed /\ Settled
    BY <1>0 DEF Handed, Settled, TaskTypes, TakeOver
  <1> QED BY <1>1, <1>2, <1>3, <1>4 DEF TaskInv

LEMMA ForkKeeps ==
  ASSUME TaskInv, NEW t \in Tasks, NEW n \in Nrs, Fork(t, n)
  PROVE  TaskInv' /\ Handed /\ Settled
  <1> USE Zero DEF NULL
  <1>0. /\ TaskTypes /\ Processes /\ Attached
        /\ t # 0 /\ n \in Nat /\ n # 0 /\ tgid[t] = 0 /\ InitGroup[t] = t
    BY TablesAssumption DEF TaskInv, Fork, Nrs, Processes
  <1>1. TaskTypes'
    BY <1>0 DEF TaskTypes, Fork, Structs
  <1>2. Processes'
    <2>0. /\ process[Caller] # 0 /\ tgid[Caller] # 0 /\ tgid[Caller] # n
          /\ InitGroup \in [Tasks -> Tasks]
      BY <1>0, TablesAssumption DEF Processes, Fork
    <2>1. \A u \in Tasks : InitGroup[u] = t => u = t
      BY <1>0 DEF Processes
    <2>2. process'[Caller] = InitGroup[Caller] /\ tgid'[Caller] = tgid[Caller]
      BY <1>0, <2>0 DEF Processes, Fork, TaskTypes
    <2>3. ASSUME NEW u \in Tasks
          PROVE  /\ process'[u] \in {0, InitGroup[u]}
                 /\ pid'[u] # NULL => process'[u] # 0
                 /\ process'[u] # 0 => tgid'[u] # 0
      BY <1>0 DEF Processes, Fork, TaskTypes
    <2>4. ASSUME NEW u \in Tasks
          PROVE  /\ tgid'[InitGroup[u]] = tgid'[u]
                 /\ tgid'[u] = 0 => InitGroup[u] = u
                 /\ tgid'[u] = tgid'[Caller] => InitGroup[u] = InitGroup[Caller]
      BY <1>0, <2>0, <2>1, <2>2 DEF Processes, Fork, TaskTypes
    <2> QED BY <2>2, <2>3, <2>4 DEF Processes
  <1>3. Attached'
    <2>1. \A u \in Tasks : u # t => pid'[u] = pid[u] /\ pid[u][1] # n
      BY <1>0 DEF Fork, TaskTypes
    <2>2. pid'[t] = <<n, t>> /\ tgid'[t] = n
      BY <1>0 DEF Fork, TaskTypes
    <2>3. \A v \in Tasks \cup {0} : tgid[v] # 0 /\ v # 0 => tgid'[v] # 0
      BY <1>0 DEF Fork, TaskTypes
    <2>4. \A v, u \in Tasks : pid'[v] = pid'[u] /\ pid'[v] # NULL => v = u
      BY <1>0, <2>1, <2>2 DEF Attached
    <2>5. \A v \in Tasks : pid'[v][2] # 0 => tgid'[pid'[v][2]] # 0
      <3> SUFFICES ASSUME NEW v \in Tasks, pid'[v][2] # 0
                   PROVE  tgid'[pid'[v][2]] # 0
        OBVIOUS
      <3>1. CASE v = t
        BY <3>1, <1>0, <2>2
      <3>2. CASE v # t
        <4>1. pid[v] \in Structs /\ pid'[v] = pid[v]
          BY <3>2, <2>1, <1>0 DEF TaskTypes
        <4>2. pid[v][2] \in Tasks \cup {0}
          BY <4>1 DEF Structs
        <4> QED BY <4>1, <4>2, <2>3, <1>0 DEF Attached
      <3> QED BY <3>1, <3>2
    <2> QED BY <2>4, <2>5 DEF Attached
  <1>4. Handed /\ Settled
    BY <1>0 DEF Handed, Settled, TaskTypes, Fork
  <1> QED BY <1>1, <1>2, <1>3, <1>4 DEF TaskInv

LEMMA TasksKeep ==
  ASSUME TaskInv, TaskStep
  PROVE  TaskInv' /\ Handed /\ Settled
  BY ReleaseKeeps, TakeOverKeeps, ForkKeeps DEF TaskStep

-----------------------------------------------------------------------------
(* What is known of a call survives every change of the tasks. *)
LEMMA NamedKept ==
  ASSUME PathInv, TaskStep, UNCHANGED <<cred, cap, counters, call, calls, oops>>
  PROVE  Named'
  <1>0. TaskInv' /\ Handed /\ Settled /\ TaskTypes /\ Named /\ call' = call
    BY TasksKeep DEF PathInv, CallInv, TaskInv
  <1>1. call.pid \in Nat \X (Tasks \cup {0})
    BY DEF PathInv, CallInv, IsCall, Structs
  <1>2. call.pid[2] # 0 => tgid'[call.pid[2]] # 0
    BY <1>0, <1>1, Zero DEF Named, Settled, TaskTypes
  <1>3. ASSUME NEW t \in Tasks, pid'[t] = call.pid, call.pid # NULL
        PROVE  process'[t] = call.owner
    <2>1. ~ (pid'[t][2] \in Tasks /\ tgid[pid'[t][2]] = 0)
      BY <1>0, <1>3, Zero DEF Named
    <2>2. PICK u \in Tasks : pid[u] = pid'[t] /\ process[u] = process'[t]
      BY <1>0, <1>3, <2>1 DEF Handed
    <2> QED BY <1>0, <1>3, <2>2 DEF Named
  <1> QED BY <1>0, <1>2, <1>3 DEF Named

LEMMA KillExactKept ==
  ASSUME PathInv, TaskStep, UNCHANGED <<cred, cap, counters, call, calls, oops>>
  PROVE  KillExact'
  <1>0. /\ Handed /\ Settled /\ KillExact /\ Named
        /\ call' = call /\ counters' = counters
    BY TasksKeep DEF PathInv, CallInv
  <1>1. ASSUME pid_task(call.pid) = 0 PROVE pid_task(call.pid)' = 0
    <2>1. \A t \in Tasks : pid[t] = call.pid => call.pid = NULL
      BY <1>1, PidTask, Zero
    <2>2. ASSUME NEW t \in Tasks, pid'[t] = call.pid PROVE call.pid = NULL
      <3>1. SUFFICES ASSUME call.pid # NULL PROVE FALSE
        OBVIOUS
      <3>2. CASE \E u \in Tasks : pid[u] = pid'[t]
        BY <3>1, <3>2, <2>1, <2>2
      <3>3. CASE pid'[t][2] \in Tasks /\ tgid[pid'[t][2]] = 0
        BY <3>3, <1>0, <2>2, Zero DEF Named
      <3> QED BY <3>1, <3>2, <3>3, <2>2, <1>0 DEF Handed
    <2> QED BY <2>2, <1>0 DEF pid_task
  <1>2. ASSUME Returned("specific"), call.group # 0, NEW s \in call.hit
        PROVE  tgid'[s] = call.group
    <2>1. s \in Tasks /\ tgid[s] = call.group
      BY <1>0, <1>2 DEF KillExact, PathInv, CallInv, IsCall
    <2> QED BY <2>1, <1>0, <1>2 DEF Settled
  <1> QED BY <1>0, <1>1, <1>2 DEF KillExact, Returned, CountedFor

LEMMA MeanwhileKeeps ==
  ASSUME PathInv, TaskStep, UNCHANGED <<cred, cap, counters, call, calls, oops>>
  PROVE  PathInv'
  <1>0. /\ TaskInv' /\ Handed /\ Settled /\ CallInv /\ CredTypes /\ OnlyPermitted
        /\ call' = call /\ counters' = counters /\ cred' = cred /\ cap' = cap
        /\ call.at # "each"
    BY TasksKeep DEF PathInv, TaskStep, Release, TakeOver, Fork, tasklist_lock
  <1>1. IsCall' /\ UnderWay' /\ Answered' /\ CredTypes'
    BY <1>0 DEF CallInv, IsCall, UnderWay, Answered, CredTypes, Structs
  <1>2. Found'
    BY <1>0, Zero DEF CallInv, Found, Settled
  <1>3. Remembered'
    BY <1>0 DEF CallInv, Remembered, Addressed, MaySignal
  <1>4. Checked'
    <2> SUFFICES ASSUME call.at = "lock", call.op # "init", si_fromuser(call.info),
                        process'[call.p] # 0
                 PROVE  call.p \in call.may
      BY <1>0 DEF Checked, si_fromuser, is_si_special
    <2>1. call.p \in Tasks /\ tgid[call.p] # 0
      BY <1>0 DEF CallInv, Found
    <2>2. process'[call.p] = process[call.p]
      BY <2>1, <1>0 DEF Settled
    <2> QED BY <1>0, <2>2 DEF CallInv, Checked
  <1>5. OnlyPermitted'
    BY <1>0 DEF OnlyPermitted, Returned, si_fromuser, is_si_special
  <1> QED BY <1>0, <1>1, <1>2, <1>3, <1>4, <1>5, NamedKept, KillExactKept
          DEF PathInv, CallInv

(* A task changes its credentials, and the call remembers the right that   *)
(* the caller thereby gets.                                                *)
LEMMA SetCredsKeeps ==
  ASSUME PathInv, NEW t \in Tasks, NEW c \in CredsOf[t], SetCreds(t, c)
  PROVE  PathInv'
  <1> DEFINE new == {u \in Addressed : u = t /\ MaySignal(call.sig, t, c)}
  <1>0. /\ UNCHANGED <<pid, process, tgid, cap, counters>> /\ t # Caller
        /\ cred' = [cred EXCEPT ![t] = c] /\ call' = [call EXCEPT !.may = @ \cup new]
    BY DEF SetCreds, tasks
  <1>1. TaskInv' /\ CredTypes'
    BY <1>0 DEF PathInv, TaskInv, TaskTypes, Processes, Attached, CredTypes, Structs
  <1>2. /\ IsCall' /\ call'.op = call.op /\ call'.at = call.at /\ call'.pid = call.pid
        /\ call'.sig = call.sig /\ call'.info = call.info /\ call'.group = call.group
        /\ call'.p = call.p /\ call'.owner = call.owner /\ call'.todo = call.todo
        /\ call'.answers = call.answers /\ call'.hit = call.hit /\ call'.ret = call.ret
        /\ call'.was = call.was /\ call'.may = call.may \cup new
    <2>1. IsCall /\ new \in SUBSET Tasks
      BY DEF PathInv, CallInv
    <2> HIDE DEF new
    <2> QED BY <1>0, <2>1 DEF IsCall, Structs
  <1>3. Named' /\ UnderWay' /\ Found' /\ Answered'
    BY <1>0, <1>2 DEF PathInv, CallInv, Named, UnderWay, Found, Answered
  <1>4. Remembered'
    <2> SUFFICES ASSUME NEW u \in Addressed, MaySignal(call.sig, u, cred[u])'
                 PROVE  u \in call'.may
      <3>1. Addressed' = Addressed
        BY <1>2 DEF Addressed
      <3> QED BY <3>1 DEF Remembered
    <2>0. u \in Tasks /\ Caller \in Tasks
      BY Zero DEF Addressed, PathInv, CallInv, IsCall, Found
    <2>1. cred'[Caller] = cred[Caller] /\ (u # t => cred'[u] = cred[u]) /\ cred'[t] = c
      BY <1>0, <2>0 DEF PathInv, CredTypes
    <2>2. MaySignal(call.sig, u, cred'[u])
      BY <1>0, <1>2, <2>1 DEF MaySignal
    <2>3. CASE u = t
      BY <1>2, <2>1, <2>2, <2>3
    <2>4. CASE u # t
      BY <1>2, <2>1, <2>2, <2>4 DEF PathInv, CallInv, Remembered
    <2> QED BY <2>3, <2>4
  <1>5. Checked' /\ OnlyPermitted'
    <2> HIDE DEF new
    <2> QED BY <1>0, <1>2 DEF PathInv, CallInv, Checked, OnlyPermitted, Returned,
                              si_fromuser, is_si_special
  <1>6. KillExact'
    BY <1>0, <1>2 DEF PathInv, KillExact, Returned, CountedFor, pid_task
  <1> QED BY <1>1, <1>2, <1>3, <1>4, <1>5, <1>6 DEF PathInv, CallInv

-----------------------------------------------------------------------------
(* A call begins. *)
LEMMA EnterKeeps ==
  ASSUME PathInv, NEW op, NEW n, NEW sig, NEW info, NEW group, Enter(op, n, sig, info, group),
         op \in {"kill", "specific", "as_cred", "init"}
  PROVE  PathInv'
  <1> DEFINE p == find_vpid(n)
  <1>0. /\ TaskInv /\ UNCHANGED <<tasks, cred, cap, counters>>
        /\ call' = [NoCall EXCEPT !.op = op, !.at = "find", !.pid = p, !.sig = sig,
                        !.info = info, !.group = group, !.was = counters,
                        !.owner = IF p = NULL THEN 0 ELSE process[pid_task(p)]]
    BY DEF Enter, PathInv
  <1>1. /\ call'.op = op /\ call'.at = "find" /\ call'.pid = p /\ call'.hit = {}
        /\ call'.owner = IF p = NULL THEN 0 ELSE process[pid_task(p)]
        /\ call'.was = counters
    BY <1>0 DEF NoCall
  <1>2. TaskInv'
    BY <1>0 DEF TaskInv, TaskTypes, Processes, Attached, tasks
  <1>3. p \in Structs /\ (p[2] # 0 => tgid[p[2]] # 0)
    <2>1. NULL \in Structs /\ NULL[2] = 0
      BY DEF Structs, NULL
    <2>2. ASSUME NEW t \in Tasks, p = pid[t]
          PROVE  p \in Structs /\ (p[2] # 0 => tgid[p[2]] # 0)
      BY <2>2, <1>0 DEF TaskInv, TaskTypes, Attached
    <2>3. p = NULL \/ \E t \in Tasks : p = pid[t]
      BY FindVpid
    <2> HIDE DEF p
    <2> QED BY <2>1, <2>2, <2>3
  <1>4. Named'
    <2>1. ASSUME NEW t \in Tasks, pid[t] = p, p # NULL
          PROVE  process[t] = call'.owner
      <3>1. pid_task(p) \in Tasks /\ pid[pid_task(p)] = p
        BY <2>1, PidTask
      <3> QED BY <3>1, <2>1, <1>0, <1>1 DEF TaskInv, Attached
    <2> QED BY <2>1, <1>0, <1>1, <1>3 DEF Named, tasks
  <1>5. IsCall'
    <2> HIDE DEF p
    <2>1. call' = [op |-> op, at |-> "find", pid |-> p, sig |-> sig, info |-> info,
                   group |-> group, p |-> 0, owner |-> call'.owner, todo |-> {},
                   answers |-> {}, hit |-> {}, may |-> {}, ret |-> "none",
                   was |-> counters]
      BY <1>0 DEF NoCall
    <2>2. Structs' = Structs
      BY DEF Structs
    <2> QED BY <1>3, <2>1, <2>2 DEF IsCall
  <1>6. UnderWay' /\ Found' /\ Remembered' /\ Checked' /\ Answered'
    BY <1>0, <1>1 DEF UnderWay, Found, Remembered, Addressed, Checked, Answered
  <1>7. CredTypes' /\ KillExact' /\ OnlyPermitted'
    BY <1>0, <1>1 DEF PathInv, CredTypes, KillExact, OnlyPermitted, Returned
  <1> QED BY <1>2, <1>4, <1>5, <1>6, <1>7 DEF PathInv, CallInv

(* A call that has begun: the fields that a step leaves alone. *)
SameCall ==
    /\ call'.op = call.op /\ call'.pid = call.pid /\ call'.sig = call.sig
    /\ call'.info = call.info /\ call'.group = call.group /\ call'.owner = call.owner
    /\ call'.was = call.was

LEMMA Returns ==
  ASSUME IsCall, NEW r, Return(r)
  PROVE  IsCall' /\ SameCall /\ call'.at = "done" /\ call'.p = call.p
         /\ call'.hit = call.hit /\ call'.may = call.may /\ call'.ret = r
  BY DEF IsCall, SameCall, Structs, Return

LEMMA GoesOn ==
  ASSUME IsCall, NEW at \in {"find", "check", "lock"}, call' = [call EXCEPT !.at = at]
  PROVE  IsCall' /\ SameCall /\ call'.at = at /\ call'.p = call.p
         /\ call'.hit = call.hit /\ call'.may = call.may /\ call'.ret = call.ret
  BY DEF IsCall, SameCall, Structs

LEMMA SameTasks ==
  ASSUME PathInv, UNCHANGED <<tasks, cred, cap>>, SameCall
  PROVE  TaskInv' /\ Named' /\ CredTypes' /\ Structs' = Structs
  BY DEF PathInv, TaskInv, TaskTypes, Processes, Attached, tasks, CallInv, Named, SameCall,
         CredTypes, Structs

(* Before the lookup and after the return a call has no task at hand. *)
LEMMA NoTaskAtHand ==
  ASSUME call'.at \in {"done", "find"}
  PROVE  Found' /\ Remembered' /\ Checked' /\ Answered'
  BY DEF Found, Remembered, Addressed, Checked, Answered

(* A call returns without having sent anything. *)
LEMMA NothingSent ==
  ASSUME PathInv, UNCHANGED <<tasks, cred, cap, counters>>,
         call.at \in {"find", "check", "lock"},
         NEW r, Return(r), r = "ok" => call.sig = 0 \/ call.op # "kill",
         r = "ESRCH" /\ call.op = "kill" => pid_task(call.pid) = 0
  PROVE  PathInv'
  <1>0. IsCall /\ UnderWay
    BY DEF PathInv, CallInv
  <1>1. /\ IsCall' /\ SameCall /\ call'.at = "done" /\ call'.hit = {} /\ call'.ret = r
        /\ counters' = call.was /\ call.op \in {"kill", "specific", "as_cred", "init"}
    BY <1>0, Returns DEF UnderWay
  <1>2. UnderWay' /\ Found' /\ Remembered' /\ Checked' /\ Answered'
    BY <1>1, NoTaskAtHand DEF UnderWay
  <1>3. KillExact'
    BY <1>1 DEF KillExact, Returned, SameCall, tasks, pid_task
  <1>4. OnlyPermitted'
    BY <1>1 DEF OnlyPermitted, Returned, SameCall
  <1> QED BY <1>1, <1>2, <1>3, <1>4, SameTasks DEF PathInv, CallInv

LEMMA FindKeeps ==
  ASSUME PathInv, Find
  PROVE  PathInv'
  <1> DEFINE t == TaskOf(call.pid)
             found == [call EXCEPT !.at = "check", !.p = t, !.may = Permitted(call.sig, {t})]
  <1>0. /\ IsCall /\ UnderWay /\ Named /\ call.at = "find"
        /\ UNCHANGED <<tasks, cred, cap, counters>>
    BY DEF PathInv, CallInv, Find
  <1>1. CASE \E r : /\ Return(r) /\ (r = "ok" => FALSE)
                    /\ r = "ESRCH" => t = 0 \/ ~ OfProcess(t)
    <2>1. PICK r : Return(r) /\ r # "ok" /\ (r = "ESRCH" => t = 0 \/ ~ OfProcess(t))
      BY <1>1
    <2>2. call.op = "kill" /\ r = "ESRCH" => pid_task(call.pid) = 0
      BY <2>1 DEF OfProcess, TaskOf
    <2> QED BY <1>0, <2>1, <2>2, NothingSent
  <1>2. CASE t # 0 /\ OfProcess(t) /\ call' = found
    <2>1. t \in Tasks /\ pid[t] = call.pid /\ call.pid # NULL
      BY <1>2, PidTask DEF TaskOf
    <2>2. /\ IsCall' /\ SameCall /\ call'.at = "check" /\ call'.p = t
          /\ call'.hit = call.hit /\ call'.may = Permitted(call.sig, {t})
      <3>1. Permitted(call.sig, {t}) \in SUBSET Tasks
        BY <2>1 DEF Permitted
      <3> HIDE DEF t
      <3> QED BY <1>0, <1>2, <3>1 DEF IsCall, SameCall, Structs
    <2>3. UnderWay' /\ Remembered' /\ Checked' /\ Answered'
      <3>1. Remembered'
        BY <1>0, <2>2 DEF Remembered, Addressed, Permitted, SameCall, MaySignal
      <3> QED BY <1>0, <2>2, <3>1 DEF UnderWay, Checked, Answered, SameCall
    <2>4. Found'
      <3>1. process[t] = call.owner /\ tgid[t] # 0
        BY <1>0, <2>1 DEF Named, PathInv, TaskInv, Processes
      <3> QED BY <3>1, <1>0, <1>2, <2>1, <2>2 DEF Found, SameCall, tasks, OfProcess
    <2>5. KillExact' /\ OnlyPermitted'
      BY <1>0, <2>2 DEF KillExact, OnlyPermitted, Returned, UnderWay
    <2> QED BY <1>0, <2>2, <2>3, <2>4, <2>5, SameTasks DEF PathInv, CallInv
  <1>3. \/ \E r : Return(r) /\ (r = "ok" => FALSE) /\ (r = "ESRCH" => t = 0 \/ ~ OfProcess(t))
        \/ t # 0 /\ OfProcess(t) /\ call' = found
    <2>1. \/ Return("EINVAL") \/ Return("oops")
          \/ Return("ESRCH") /\ (t = 0 \/ ~ OfProcess(t))
          \/ t # 0 /\ OfProcess(t) /\ call' = found
      BY DEF Find, AfterLookup
    <2> QED BY <2>1
  <1> QED BY <1>1, <1>2, <1>3

(* The checks of the code let through only what MaySignal permits: a task  *)
(* of a process that has not ended has the session of its leader.          *)
LEMMA CheckedIsPermitted ==
  ASSUME PathInv, NEW t \in Tasks, NEW sig, NEW info, process[t] # 0, si_fromuser(info),
         check_kill_permission(sig, info, t) = "ok"
  PROVE  MaySignal(sig, t, cred[t])
  <1>0. process[t] = InitGroup[t]
    BY DEF PathInv, TaskInv, Processes
  <1>1. CASE same_thread_group(t)
    BY <1>1 DEF same_thread_group, MaySignal, PathInv, TaskInv, Processes
  <1>2. CASE kill_ok_by_cred(t)
    BY <1>2 DEF kill_ok_by_cred, MaySignal
  <1>3. CASE sig = SIGCONT /\ task_session(t) \in {0, task_session(Caller)}
    <2>1. task_session(t) = Session[InitGroup[t]] /\ Session[InitGroup[t]] # 0
      BY <1>0, TablesAssumption DEF task_session
    <2>2. task_session(Caller) = Session[InitGroup[Caller]]
      BY Zero DEF task_session, PathInv, TaskInv, Processes
    <2> QED BY <1>3, <2>1, <2>2 DEF MaySignal
  <1> QED BY <1>1, <1>2, <1>3 DEF check_kill_permission

LEMMA AsCredIsPermitted ==
  ASSUME NEW t \in Tasks, NEW sig, kill_as_cred_perm(cred[Caller], t)
  PROVE  MaySignal(sig, t, cred[t])
  BY DEF kill_as_cred_perm, MaySignal

LEMMA CheckKeeps ==
  ASSUME PathInv, Check
  PROVE  PathInv'
  <1>0. /\ IsCall /\ UnderWay /\ Found /\ Remembered /\ call.at = "check"
        /\ UNCHANGED <<tasks, cred, cap, counters>>
    BY DEF PathInv, CallInv, Check
  <1>1. CASE Permission # "ok"
    <2>1. Permission # "ESRCH"
      BY DEF Permission, check_kill_permission
    <2> QED BY <1>0, <1>1, <2>1, NothingSent DEF Check
  <1>2. CASE Permission = "ok" /\ call.sig = 0 /\ call.op # "init"
    BY <1>0, <1>2, NothingSent DEF Check
  <1>3. CASE Permission = "ok" /\ ~ (call.sig = 0 /\ call.op # "init")
    <2>1. /\ IsCall' /\ SameCall /\ call'.at = "lock" /\ call'.p = call.p
          /\ call'.hit = call.hit /\ call'.may = call.may
      BY <1>0, <1>3, GoesOn DEF Check
    <2>2. UnderWay' /\ Found' /\ Answered'
      BY <1>0, <2>1 DEF UnderWay, Found, Answered, SameCall, tasks
    <2>3. Remembered'
      BY <1>0, <2>1 DEF Remembered, Addressed, SameCall, MaySignal
    <2>4. Checked'
      <3> SUFFICES ASSUME call.op # "init", si_fromuser(call.info), process[call.p] # 0
                   PROVE  MaySignal(call.sig, call.p, cred[call.p])
        BY <1>0, <2>1 DEF Checked, Remembered, Addressed, SameCall, tasks, si_fromuser,
                          is_si_special
      <3>1. call.p \in Tasks
        BY <1>0 DEF Found
      <3>2. CASE call.op = "as_cred"
        BY <3>1, <3>2, <1>3, AsCredIsPermitted DEF Permission
      <3>3. CASE call.op # "as_cred"
        <4>1. check_kill_permission(call.sig, call.info, call.p) = "ok"
          BY <3>3, <1>3 DEF Permission
        <4> QED BY <3>1, <4>1, CheckedIsPermitted
      <3> QED BY <3>2, <3>3
    <2>5. KillExact' /\ OnlyPermitted'
      BY <1>0, <2>1 DEF KillExact, OnlyPermitted, Returned, UnderWay
    <2> QED BY <1>0, <2>1, <2>2, <2>3, <2>4, <2>5, SameTasks DEF PathInv, CallInv
  <1> QED BY <1>1, <1>2, <1>3

LEMMA SendKeeps ==
  ASSUME PathInv, Send
  PROVE  PathInv'
  <1> DEFINE s == process[call.p]
  <1>0. /\ IsCall /\ UnderWay /\ Found /\ Checked /\ call.at = "lock"
        /\ call.hit = {} /\ counters = call.was
        /\ call.op \in {"kill", "specific", "as_cred", "init"}
        /\ call.p \in Tasks /\ s \in {0, call.owner} /\ s \in Tasks \cup {0}
        /\ UNCHANGED <<tasks, cred, cap>>
    BY DEF PathInv, CallInv, Send, UnderWay, Found, TaskInv, TaskTypes
  <1>1. CASE s = 0 /\ call.op = "kill"
    <2>1. call' = [call EXCEPT !.at = "find"] /\ counters' = counters
      BY <1>1 DEF Send, Unhashed
    <2>2. IsCall' /\ SameCall /\ call'.at = "find" /\ call'.p = call.p /\ call'.hit = call.hit
      BY <1>0, <2>1, GoesOn
    <2>3. UnderWay' /\ Found' /\ Remembered' /\ Checked' /\ Answered'
      BY <1>0, <2>1, <2>2, NoTaskAtHand DEF UnderWay, SameCall
    <2>4. KillExact' /\ OnlyPermitted'
      BY <1>0, <2>2 DEF KillExact, OnlyPermitted, Returned
    <2> QED BY <1>0, <2>2, <2>3, <2>4, SameTasks DEF PathInv, CallInv
  <1>2. CASE s = 0 /\ call.op # "kill"
    <2>1. counters' = counters /\ (Return("ok") \/ Return("ESRCH") \/ Return("oops"))
      BY <1>0, <1>2 DEF Send, Unhashed
    <2> QED BY <1>0, <1>2, <2>1, NothingSent
  <1>3. CASE s # 0 /\ call' = [call EXCEPT !.at = "done", !.ret = "ok",
                                   !.hit = IF call.op = "init" THEN {} ELSE {call.p}]
    <2>1. counters' = Counted(call.op, s, call.sig)
      BY <1>3 DEF Send
    <2>2. /\ IsCall' /\ SameCall /\ call'.at = "done" /\ call'.ret = "ok"
          /\ call'.hit = (IF call.op = "init" THEN {} ELSE {call.p})
          /\ call'.may = call.may
      <3> DEFINE hit == IF call.op = "init" THEN {} ELSE {call.p}
      <3>1. hit \in SUBSET Tasks /\ Structs' = Structs
        BY <1>0 DEF Structs
      <3>2. call' = [call EXCEPT !.at = "done", !.ret = "ok", !.hit = hit]
        BY <1>3
      <3> HIDE DEF hit
      <3>3. /\ IsCall' /\ SameCall /\ call'.at = "done" /\ call'.ret = "ok"
            /\ call'.hit = hit /\ call'.may = call.may
        BY <1>0, <3>1, <3>2 DEF IsCall, SameCall
      <3> QED BY <3>3 DEF hit
    <2>3. UnderWay' /\ Found' /\ Remembered' /\ Checked' /\ Answered'
      BY <2>2, NoTaskAtHand DEF UnderWay
    <2>4. KillExact'
      <3>1. call.op = "kill" => /\ {InitGroup[t] : t \in call'.hit} = {call'.owner}
                                /\ CountedFor(call.owner)'
        <4>1. InitGroup[call.p] = s /\ s = call.owner
          BY <1>0, <1>3 DEF PathInv, TaskInv, Processes
        <4> QED BY <1>0, <1>3, <2>1, <2>2, <4>1 DEF Counted, CountedFor, SameCall
      <3>2. call.op = "specific" /\ call.group # 0 => tgid[call.p] = call.group
        BY <1>0, <1>3 DEF Found
      <3> QED BY <1>0, <2>2, <3>1, <3>2 DEF KillExact, Returned, SameCall, tasks, CountedFor
    <2>5. OnlyPermitted'
      <3>1. si_fromuser(call.info) /\ call.op # "init" => call.p \in call.may
        BY <1>0, <1>3 DEF Checked
      <3> QED BY <1>0, <2>2, <3>1
              DEF OnlyPermitted, Returned, SameCall, si_fromuser, is_si_special
    <2> QED BY <1>0, <2>2, <2>3, <2>4, <2>5, SameTasks DEF PathInv, CallInv
  <1>4. CASE Return("EAGAIN")
    <2>1. /\ IsCall' /\ SameCall /\ call'.at = "done" /\ call'.ret = "EAGAIN"
          /\ call'.hit = {}
      BY <1>0, <1>4, Returns
    <2>2. UnderWay' /\ Found' /\ Remembered' /\ Checked' /\ Answered'
      BY <2>1, NoTaskAtHand DEF UnderWay
    <2>3. KillExact' /\ OnlyPermitted'
      BY <1>0, <2>1 DEF KillExact, OnlyPermitted, Returned, SameCall
    <2> QED BY <1>0, <2>1, <2>2, <2>3, SameTasks DEF PathInv, CallInv
  <1> QED BY <1>1, <1>2, <1>3, <1>4 DEF Send

-----------------------------------------------------------------------------
(* The group sends: they begin, take one process after the other, and end. *)
LEMMA SendAllKeeps ==
  ASSUME PathInv, NEW op \in {"pgrp", "all"}, NEW targets \in SUBSET Leaders, NEW sig,
         NEW info, SendAll(op, targets, sig, info)
  PROVE  PathInv'
  <1>0. /\ TaskInv /\ UNCHANGED <<tasks, cred, cap, counters>> /\ targets \in SUBSET Tasks
        /\ Permitted(sig, targets) \in SUBSET Tasks
        /\ \A t \in targets : process[t] # 0
    BY DEF SendAll, PathInv, Leaders, Permitted
  <1>1. call' = [op |-> op, at |-> "each", pid |-> NULL, sig |-> sig, info |-> info,
                 group |-> 0, p |-> 0, owner |-> 0, todo |-> targets, answers |-> {},
                 hit |-> {}, may |-> Permitted(sig, targets), ret |-> "none",
                 was |-> counters]
    BY DEF SendAll, NoCall
  <1>2. TaskInv' /\ CredTypes'
    BY <1>0 DEF TaskInv, TaskTypes, Processes, Attached, tasks, PathInv, CredTypes, Structs
  <1>3. IsCall'
    <2>1. NULL \in Structs'
      BY DEF Structs, NULL
    <2> QED BY <1>0, <1>1, <2>1 DEF IsCall
  <1>4. Named' /\ UnderWay' /\ Found' /\ Checked' /\ Answered'
    BY <1>0, <1>1 DEF Named, UnderWay, Found, Checked, Answered, NULL, tasks
  <1>5. Remembered'
    BY <1>0, <1>1 DEF Remembered, Addressed, Permitted, MaySignal
  <1>6. KillExact' /\ OnlyPermitted'
    BY <1>1 DEF KillExact, OnlyPermitted, Returned
  <1> QED BY <1>2, <1>3, <1>4, <1>5, <1>6 DEF PathInv, CallInv

LEMMA SendOneKeeps ==
  ASSUME PathInv, SendOne
  PROVE  PathInv'
  <1>0. /\ IsCall /\ Remembered /\ Answered /\ OnlyPermitted /\ call.at = "each"
        /\ UNCHANGED <<tasks, cred, cap>>
    BY DEF PathInv, CallInv, SendOne
  <1>p. PICK t \in call.todo :
        LET answer == check_kill_permission(call.sig, call.info, t)
            sent   == answer = "ok" /\ call.sig # 0
        IN  call' = [call EXCEPT !.todo = @ \ {t}, !.answers = @ \cup {answer},
                        !.hit = IF sent THEN @ \cup {t} ELSE @]
    BY DEF SendOne
  <1> DEFINE answer == check_kill_permission(call.sig, call.info, t)
             sent   == answer = "ok" /\ call.sig # 0
  <1>1. t \in Tasks /\ process[t] # 0 /\ answer \in {"ok", "EPERM", "EINVAL"}
    BY <1>0 DEF IsCall, Answered, check_kill_permission
  <1>2. /\ IsCall' /\ SameCall /\ call'.at = "each" /\ call'.todo = call.todo \ {t}
        /\ call'.answers = call.answers \cup {answer} /\ call'.may = call.may
        /\ call'.hit = (IF sent THEN call.hit \cup {t} ELSE call.hit)
    <2> DEFINE hit == IF sent THEN call.hit \cup {t} ELSE call.hit
               todo == call.todo \ {t}
               answers == call.answers \cup {answer}
    <2>1. /\ hit \in SUBSET Tasks /\ todo \in SUBSET Tasks /\ Structs' = Structs
          /\ answers \in SUBSET {"ok", "EPERM", "EINVAL"}
      BY <1>0, <1>1 DEF IsCall, Structs
    <2>2. call' = [call EXCEPT !.todo = todo, !.answers = answers, !.hit = hit]
      BY <1>p
    <2> HIDE DEF hit, todo, answers
    <2>3. /\ IsCall' /\ SameCall /\ call'.at = call.at /\ call'.todo = todo
          /\ call'.answers = answers /\ call'.may = call.may /\ call'.hit = hit
      BY <1>0, <2>1, <2>2 DEF IsCall, SameCall
    <2> QED BY <1>0, <2>3 DEF hit, todo, answers
  <1>3. UnderWay' /\ Found' /\ Checked'
    BY <1>2 DEF UnderWay, Found, Checked
  <1>4. Remembered'
    BY <1>0, <1>2 DEF Remembered, Addressed, SameCall, MaySignal
  <1>5. Answered'
    <2> HIDE DEF answer
    <2> QED BY <1>0, <1>2 DEF Answered, SameCall, tasks
  <1>6. OnlyPermitted' /\ KillExact'
    <2>1. ASSUME si_fromuser(call.info), sent PROVE t \in call.may
      BY <2>1, <1>0, <1>1, CheckedIsPermitted DEF Remembered, Addressed
    <2> HIDE DEF sent
    <2> QED BY <1>0, <1>2, <2>1
            DEF OnlyPermitted, KillExact, Returned, SameCall, si_fromuser, is_si_special
  <1> QED BY <1>0, <1>2, <1>3, <1>4, <1>5, <1>6, SameTasks DEF PathInv, CallInv

LEMMA EndAllKeeps ==
  ASSUME PathInv, EndAll
  PROVE  PathInv'
  <1>0. /\ IsCall /\ Answered /\ OnlyPermitted /\ call.at = "each"
        /\ UNCHANGED <<tasks, cred, cap>>
    BY DEF PathInv, CallInv, EndAll
  <1>1. PICK r : /\ Return(r)
                 /\ call.op = "pgrp" => r \in PgrpReturns(call.answers)
    BY DEF EndAll
  <1>2. /\ IsCall' /\ SameCall /\ call'.at = "done" /\ call'.hit = call.hit
        /\ call'.may = call.may /\ call'.ret = r
    BY <1>0, <1>1, Returns
  <1>3. UnderWay' /\ Found' /\ Remembered' /\ Checked' /\ Answered'
    BY <1>2, NoTaskAtHand DEF UnderWay
  <1>4. KillExact'
    BY <1>0, <1>2 DEF KillExact, Returned, SameCall, Answered
  <1>5. OnlyPermitted'
    <2>1. call.op = "pgrp" => (r = "ok" <=> "ok" \in call.answers)
      BY <1>1 DEF PgrpReturns
    <2> QED BY <1>0, <1>2, <2>1
            DEF OnlyPermitted, Returned, SameCall, Answered, si_fromuser, is_si_special
  <1> QED BY <1>0, <1>2, <1>3, <1>4, <1>5, SameTasks DEF PathInv, CallInv

-----------------------------------------------------------------------------
(* Every step keeps the invariant. *)
LEMMA PathStep == PathInv /\ [Next]_vars => PathInv'
  <1> SUFFICES ASSUME PathInv, [Next]_vars PROVE PathInv'
    OBVIOUS
  <1>1. CASE Calls
    <2>1. CASE \E n, sig, info : Kill(n, sig, info)
      BY <2>1, EnterKeeps DEF Kill
    <2>2. CASE \E n, sig, info : rt_sigqueueinfo(n, sig, info)
      BY <2>2, EnterKeeps DEF rt_sigqueueinfo, Kill
    <2>3. CASE \E n, sig : kill_pid_info_as_cred(n, sig)
      BY <2>3, EnterKeeps DEF kill_pid_info_as_cred
    <2>4. CASE \E tg, n, sig : do_send_specific(tg, n, sig, "SI_TKILL")
      BY <2>4, EnterKeeps DEF do_send_specific
    <2>5. CASE \E sig, g : kill_pgrp(g, sig, "SI_USER")
      BY <2>5, SendAllKeeps DEF kill_pgrp
    <2>6. CASE \E sig : kill_all(sig, "SI_USER")
      BY <2>6, SendAllKeeps DEF kill_all
    <2>7. CASE \E n : init_sigcounter(n)
      BY <2>7, EnterKeeps DEF init_sigcounter
    <2> QED BY <1>1, <2>1, <2>2, <2>3, <2>4, <2>5, <2>6, <2>7 DEF Calls
  <1>2. CASE GoOn
    BY <1>2, FindKeeps, CheckKeeps, SendKeeps, SendOneKeeps, EndAllKeeps DEF GoOn
  <1>3. CASE Meanwhile
    <2>1. CASE TaskStep
      <3>1. UNCHANGED <<cred, cap, counters, call, calls, oops>>
        BY <2>1 DEF TaskStep, Release, TakeOver, Fork
      <3> QED BY <2>1, <3>1, MeanwhileKeeps
    <2>2. CASE \E t \in Tasks : \E c \in CredsOf[t] : SetCreds(t, c)
      BY <2>2, SetCredsKeeps
    <2> QED BY <1>3, <2>1, <2>2 DEF Meanwhile, TaskStep
  <1>4. CASE UNCHANGED vars
    <2>1. UNCHANGED <<pid, process, tgid, cred, cap, counters, call>>
      BY <1>4 DEF vars, tasks
    <2>2. TaskInv' /\ CredTypes'
      BY <2>1 DEF PathInv, TaskInv, TaskTypes, Processes, Attached, CredTypes, Structs
    <2>3. IsCall' /\ Named' /\ UnderWay' /\ Found'
      BY <2>1 DEF PathInv, CallInv, IsCall, Named, UnderWay, Found, Structs
    <2>4. Remembered' /\ Checked' /\ Answered'
      BY <2>1 DEF PathInv, CallInv, Remembered, Addressed, MaySignal, Checked, Answered,
                  si_fromuser, is_si_special
    <2>5. KillExact' /\ OnlyPermitted'
      BY <2>1 DEF PathInv, KillExact, OnlyPermitted, Returned, CountedFor, si_fromuser,
                  is_si_special, pid_task
    <2> QED BY <2>2, <2>3, <2>4, <2>5 DEF PathInv, CallInv
  <1> QED BY <1>1, <1>2, <1>3, <1>4 DEF Next

LEMMA KillPathInvariant == Spec => []PathInv
  BY InitPath, PathStep, PTL DEF Spec

(* kill reaches the process that had the number when it was called or      *)
(* nobody, and counts the signal once, however many tasks exit, exec and   *)
(* are forked between the lookup (kill_pid_info), the check and the send;  *)
(* and tgkill reaches only a thread of the process that was named.         *)
THEOREM KillPathExact == Spec => []KillExact
  BY KillPathInvariant, PTL DEF PathInv

(* Although the right is looked at before the lock (signal.c:1284, 2772,   *)
(* 1375) and the task may exec or change its credentials until the lock is *)
(* taken, a signal from user space goes only to a task that the caller had *)
(* the right to signal since that task was last looked up, and             *)
(* __kill_pgrp_info reports success exactly when it reached somebody.      *)
THEOREM KillPathOnlyPermitted == Spec => []OnlyPermitted
  BY KillPathInvariant, PTL DEF PathInv
=============================================================================
