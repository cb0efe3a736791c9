------------------------------ MODULE SignalQueue ------------------------------
(***************************************************************************)
(* The sigqueue entries behind pending signals (signal.c): allocation      *)
(* against RLIMIT_SIGPENDING, queueing by __send_signal, collection,       *)
(* flushing, and the entries a POSIX timer allocates in advance.           *)
(*                                                                         *)
(* Signal models which signals are pending and who takes them; here every  *)
(* pending signal may have an entry with its siginfo, or have lost it.     *)
(* All processes belong to one user, whose count of entries they share     *)
(* without a common lock: a send holds the siglock of its target from the  *)
(* moment it begins until it is done.                                      *)
(***************************************************************************)
EXTENDS Integers, Sequences, FiniteSets, Functions

CONSTANTS
    Procs,      \* processes of the user that receive signals
    Senders,    \* contexts that send
    Timers,     \* POSIX timers
    Sigs,       \* signal numbers in use
    Infos,      \* what sends hand over
    Ignorable,  \* signals that processes may come to ignore
    TimerSig,   \* the signal of the timers
    Entries,    \* sigqueue objects of the slab cache
    Limit,      \* RLIMIT_SIGPENDING
    MaxSends,   \* bound: sends and timers created in a behaviour
    MaxOverrun  \* bound: expirations of a queued timer that are counted

SIGRTMIN == 32

ASSUME SigsAssumption == Sigs \subseteq 1 .. 64 /\ TimerSig \in Sigs
                           /\ Ignorable \subseteq Sigs
ASSUME LimitAssumption == Limit \in Nat /\ MaxSends \in Nat /\ MaxOverrun \in Nat
NoEntry == "none"
ASSUME EntriesAssumption == IsFiniteSet(Entries) /\ NoEntry \notin Entries
ASSUME ContextsAssumption ==
    IsFiniteSet(Senders) /\ IsFiniteSet(Timers) /\ Senders \cap Timers = {}

Queues == Procs \X {"private", "shared"}

(* What a send may hand over: the three special values of info, and the   *)
(* si_code of kill, of sigqueue and of tkill.                              *)
Special == {"NOINFO", "PRIV", "FORCED"}
ASSUME InfosAssumption ==
    Infos \subseteq Special \cup {"SI_USER", "SI_QUEUE", "SI_TKILL"}
is_si_special(info) == info \in Special

VARIABLES
    sigpending,     \* user->sigpending
    slab,           \* entries that are allocated
    entry,          \* si_signo, si_code, value and si_overrun of each
    PREALLOC,       \* entries with SIGQUEUE_PREALLOC
    list, signal,   \* struct sigpending: the entries and the set of signals
    ignored,        \* signals each process ignores
    alive,          \* processes that have a sighand
    send,           \* what each sender is doing
    timer,          \* what each timer is doing, and its entry
    sends,          \* sends and timers so far: the value of the next send
    owed, due       \* history, for the properties

queues == <<list, signal>>
vars == <<sigpending, slab, entry, PREALLOC, queues, ignored, alive, send, timer,
          sends, owed, due>>

Idle == [at |-> "idle"]
NoTimer == [at |-> "none", q |-> NoEntry]
Info(e) == [sig |-> e.sig, code |-> e.code, val |-> e.val]
Blank == [sig |-> 0, code |-> "none", val |-> 0, overrun |-> 0]

Init ==
    /\ sigpending = 0 /\ slab = {} /\ PREALLOC = {}
    /\ entry = [q \in Entries |-> Blank]
    /\ list = [c \in Queues |-> <<>>] /\ signal = [c \in Queues |-> {}]
    /\ ignored = [p \in Procs |-> {}] /\ alive = Procs
    /\ send = [s \in Senders |-> Idle]
    /\ timer = [t \in Timers |-> NoTimer]
    /\ sends = 0
    /\ owed = [c \in Queues |-> <<>>] /\ due = [c \in Queues |-> {}]

(* Nobody holds the siglock of p. *)
Siglock(p) == \A s \in Senders : send[s].at = "alloc" => send[s].to[1] # p

Queued(q) == \E c \in Queues : q \in Range(list[c])

(* The n-th of some places in a sequence, and what is left of the sequence *)
(* at those places.                                                        *)
Nth(I, n) == CHOOSE i \in I : Cardinality({j \in I : j <= i}) = n
Kept(s, I) == [n \in 1 .. Cardinality(I) |-> s[Nth(I, n)]]

-----------------------------------------------------------------------------
(* The entries themselves. *)

(* Mutant: the limit is compared with the count before this entry. *)
FitsBefore == sigpending <= Limit + 1

(* The entry has been counted already; two that count at once may both     *)
(* find the user over the limit.                                           *)
Fits == sigpending <= Limit

(* The count, once an allocation has failed. *)
Uncharged == sigpending - 1

(* An entry that is free, or none: kmem_cache_alloc may fail. *)
Allocated(override) ==
    (IF override \/ Fits
       THEN IF slab = Entries THEN {} ELSE {CHOOSE q \in Entries : q \notin slab}
       ELSE {}) \cup {NoEntry}

(* Mutant: a timer's entry is freed when its signal is taken. *)
FreedAlways(qs) == qs

(* __sigqueue_free for each of qs: those that are freed. *)
Freed(qs) == qs \ PREALLOC

GiveBack(qs) ==
    /\ slab' = slab \ Freed(qs)
    /\ sigpending' = sigpending - Cardinality(Freed(qs))
    /\ entry' = [q \in Entries |-> IF q \in Freed(qs) THEN Blank ELSE entry[q]]

-----------------------------------------------------------------------------
(* Sending.                                                                *)

legacy_queue(c, sig) == sig < SIGRTMIN /\ sig \in signal[c]

override_rlimit(sig, info) ==
    sig < SIGRTMIN /\ (is_si_special(info) \/ info = "SI_USER")

SetPending(c, sig) == signal' = [signal EXCEPT ![c] = @ \cup {sig}]

(* do_send_sig_info up to the count of the entry: the siglock is taken, a  *)
(* signal that is ignored, or not real-time and pending, goes no further,  *)
(* and one that is forced needs no entry.                                  *)
Send(s, c, sig, info) ==
    /\ send[s] = Idle /\ sends < MaxSends
    /\ c[1] \in alive /\ Siglock(c[1])
    /\ sends' = sends + 1
    /\ IF sig \in ignored[c[1]]
         THEN UNCHANGED <<sigpending, signal, send, due>>
       ELSE IF legacy_queue(c, sig)
         THEN /\ due' = [due EXCEPT ![c] = @ \cup {sig}]
              /\ UNCHANGED <<sigpending, signal, send>>
       ELSE IF info = "FORCED"
         THEN /\ SetPending(c, sig)
              /\ due' = [due EXCEPT ![c] = @ \cup {sig}]
              /\ UNCHANGED <<sigpending, send>>
         ELSE /\ sigpending' = sigpending + 1
              /\ send' = [send EXCEPT ![s] = [at |-> "alloc", to |-> c,
                              sig |-> sig, info |-> info, val |-> sends]]
              /\ UNCHANGED <<signal, due>>
    /\ UNCHANGED <<slab, entry, PREALLOC, list, ignored, alive, timer, owed>>

(* The queue is full: a real-time signal that was not sent by kill is      *)
(* refused with EAGAIN.                                                    *)
Refused(sig, info) == ~ is_si_special(info) /\ sig >= SIGRTMIN /\ info # "SI_USER"

(* Mutant: without an entry nothing is pending. *)
LoseSignal(c, sig) == UNCHANGED signal

(* Any other is sent all the same, without its siginfo. *)
LoseInfo(c, sig) == SetPending(c, sig)

(* __sigqueue_alloc from the test of the limit, and the rest of            *)
(* __send_signal: the entry is queued, or the signal goes without.         *)
Enqueue(s) ==
    /\ send[s].at = "alloc"
    /\ LET c == send[s].to  sig == send[s].sig  info == send[s].info IN
       \E q \in Allocated(override_rlimit(sig, info)) :
          /\ IF q = NoEntry
               THEN /\ sigpending' = Uncharged
                    /\ IF Refused(sig, info) THEN UNCHANGED <<signal, due>>
                       ELSE /\ LoseInfo(c, sig)
                            /\ due' = [due EXCEPT ![c] = @ \cup {sig}]
                    /\ UNCHANGED <<slab, entry, list, owed>>
               ELSE /\ slab' = slab \cup {q}
                    /\ entry' = [entry EXCEPT ![q] =
                          [sig |-> sig, code |-> info, val |-> send[s].val,
                           overrun |-> 0]]
                    /\ list' = [list EXCEPT ![c] = Append(@, q)]
                    /\ SetPending(c, sig)
                    /\ owed' = [owed EXCEPT ![c] = Append(@, Info(entry'[q]))]
                    /\ due' = [due EXCEPT ![c] = @ \cup {sig}]
                    /\ UNCHANGED sigpending
          /\ send' = [send EXCEPT ![s] = Idle]
    /\ UNCHANGED <<PREALLOC, ignored, alive, timer, sends>>

-----------------------------------------------------------------------------
(* Collecting and flushing, under the siglock.                             *)

(* The places of a signal's entries. *)
Of(c, sig) == {i \in DOMAIN list[c] : entry[list[c][i]].sig = sig}

(* Mutant: the signal is taken for done although it has another entry. *)
StillPendingNever(c, sig) == FALSE

(* There is another siginfo for the same signal. *)
still_pending(c, sig) == Cardinality(Of(c, sig)) > 1

(* Mutant: the last entry is collected. *)
FirstIsLast(c, sig) == list[c][Nth(Of(c, sig), Cardinality(Of(c, sig)))]

(* The entry that is collected. *)
first(c, sig) == list[c][Nth(Of(c, sig), 1)]

(* dequeue_signal takes from the private queue first.  Its mask is         *)
(* whatever the caller waits for, so that any pending signal may be next.  *)
From(p, sig) == <<p, IF sig \in signal[<<p, "private">>] THEN "private" ELSE "shared">>

Without(s, qs) == Kept(s, {i \in DOMAIN s : s[i] \notin qs})

(* The oldest siginfo of the signal that has not been handed over. *)
PaidOff(s, sig) ==
    Kept(s, DOMAIN s \ {Nth({i \in DOMAIN s : s[i].sig = sig}, 1)})

dequeue_signal(p, sig) ==
    /\ p \in alive /\ Siglock(p)
    /\ LET c == From(p, sig) IN
       /\ sig \in signal[c]
       /\ signal' = [signal EXCEPT ![c] = IF still_pending(c, sig) THEN @ ELSE @ \ {sig}]
       /\ due' = [due EXCEPT ![c] = @ \ {sig}]
       /\ IF Of(c, sig) = {}
            THEN UNCHANGED <<list, slab, sigpending, entry, owed>>
            ELSE /\ list' = [list EXCEPT ![c] = Without(@, {first(c, sig)})]
                 /\ GiveBack({first(c, sig)})
                 /\ owed' = [owed EXCEPT ![c] = PaidOff(@, sig)]
    /\ UNCHANGED <<PREALLOC, ignored, alive, send, timer, sends>>

QueuesOf(p) == {p} \X {"private", "shared"}

(* Remove the entries qs[c] and the signals gone[c] of the queues of p. *)
TakeOut(p, qs, gone) ==
    /\ list' = [c \in Queues |-> IF c \in QueuesOf(p) THEN Without(list[c], qs[c])
                                                     ELSE list[c]]
    /\ signal' = [c \in Queues |-> IF c \in QueuesOf(p) THEN signal[c] \ gone[c]
                                                       ELSE signal[c]]
    /\ GiveBack(UNION {qs[c] : c \in QueuesOf(p)})
    /\ owed' = [c \in Queues |-> IF c \in QueuesOf(p)
                  THEN Kept(owed[c], {i \in DOMAIN owed[c] :
                           \E q \in Range(list[c]) \ qs[c] : Info(entry[q]) = owed[c][i]})
                  ELSE owed[c]]
    /\ due' = [c \in Queues |-> IF c \in QueuesOf(p) THEN due[c] \ gone[c] ELSE due[c]]

(* flush_signals: both queues. *)
flush_signals(p) ==
    /\ p \in alive /\ Siglock(p)
    /\ TakeOut(p, [c \in Queues |-> Range(list[c])], [c \in Queues |-> Sigs])
    /\ UNCHANGED <<PREALLOC, ignored, alive, send, timer, sends>>

TimerEntries(c) == {q \in Range(list[c]) : entry[q].code = "SI_TIMER"}

(* The signals whose entries were all the timers'.  A signal that was sent *)
(* without an entry goes with them.                                        *)
NotRetained(c) ==
    {entry[q].sig : q \in TimerEntries(c)}
        \ {entry[q].sig : q \in Range(list[c]) \ TimerEntries(c)}

flush_itimer_signals(p) ==
    /\ p \in alive /\ Siglock(p)
    /\ TakeOut(p, [c \in Queues |-> TimerEntries(c)], [c \in Queues |-> NotRetained(c)])
    /\ UNCHANGED <<PREALLOC, ignored, alive, send, timer, sends>>

(* rm_from_queue_full: do_sigaction discards what is ignored from now on. *)
Discard(p, sig) ==
    /\ p \in alive /\ Siglock(p) /\ sig \notin ignored[p]
    /\ ignored' = [ignored EXCEPT ![p] = @ \cup {sig}]
    /\ TakeOut(p, [c \in Queues |-> {list[c][i] : i \in Of(c, sig)}],
               [c \in Queues |-> {sig}])
    /\ UNCHANGED <<PREALLOC, alive, send, timer, sends>>

(* The process is gone: exit_itimers has deleted its timers, and           *)
(* __exit_signal flushes its queues.                                       *)
Exit(p) ==
    /\ p \in alive /\ Siglock(p)
    /\ \A t \in Timers : timer[t].at # "none" => timer[t].of # p
    /\ alive' = alive \ {p}
    /\ TakeOut(p, [c \in Queues |-> Range(list[c])], [c \in Queues |-> Sigs])
    /\ UNCHANGED <<PREALLOC, ignored, send, timer, sends>>

-----------------------------------------------------------------------------
(* Timers.                                                                 *)

(* timer_create: sigqueue_alloc, for the process p that will be signalled, *)
(* in two steps as above.                                                  *)
CreateTimer(t, p) ==
    /\ timer[t].at = "none" /\ p \in alive /\ sends < MaxSends
    /\ sends' = sends + 1
    /\ sigpending' = sigpending + 1
    /\ timer' = [timer EXCEPT ![t] = [at |-> "alloc", q |-> NoEntry, of |-> p]]
    /\ UNCHANGED <<slab, entry, PREALLOC, queues, ignored, alive, send, owed, due>>

sigqueue_alloc(t) ==
    /\ timer[t].at = "alloc"
    /\ \E q \in Allocated(FALSE) :
          IF q = NoEntry
            THEN /\ sigpending' = Uncharged
                 /\ timer' = [timer EXCEPT ![t] = NoTimer]
                 /\ UNCHANGED <<slab, entry, PREALLOC>>
            ELSE /\ slab' = slab \cup {q}
                 /\ PREALLOC' = PREALLOC \cup {q}
                 /\ entry' = [entry EXCEPT ![q] = [sig |-> TimerSig,
                        code |-> "SI_TIMER", val |-> 0, overrun |-> 0]]
                 /\ timer' = [timer EXCEPT ![t] =
                                 [at |-> "armed", q |-> q, of |-> timer[t].of]]
                 /\ UNCHANGED sigpending
    /\ UNCHANGED <<queues, ignored, alive, send, sends, owed, due>>

(* The timer expires: send_sigqueue.  An entry that is still queued only   *)
(* counts the expiration.                                                  *)
send_sigqueue(t, kind) ==
    /\ timer[t].at = "armed"
    /\ LET q == timer[t].q  p == timer[t].of  c == <<p, kind>> IN
       /\ p \in alive /\ Siglock(p)
       /\ TimerSig \notin ignored[p]
       /\ IF Queued(q)
            THEN /\ entry[q].overrun < MaxOverrun
                 /\ entry' = [entry EXCEPT ![q].overrun = @ + 1]
                 /\ UNCHANGED <<list, signal, owed>>
            ELSE /\ entry' = [entry EXCEPT ![q].overrun = 0]
                 /\ list' = [list EXCEPT ![c] = Append(@, q)]
                 /\ SetPending(c, TimerSig)
                 /\ owed' = [owed EXCEPT ![c] = Append(@, Info(entry'[q]))]
    /\ UNCHANGED <<sigpending, slab, PREALLOC, ignored, alive, send, timer,
                   sends, due>>

(* Mutant: an entry that is still queued is freed too. *)
FreesQueued(q) == TRUE

(* timer_delete: sigqueue_free.  An entry that is still queued will be     *)
(* freed when it is dequeued ...                                           *)
FreesNow(q) == ~ Queued(q)

sigqueue_free(t) ==
    /\ timer[t].at = "armed" /\ Siglock(timer[t].of)
    /\ PREALLOC' = PREALLOC \ {timer[t].q}
    /\ timer' = [timer EXCEPT ![t] =
          IF FreesNow(timer[t].q) THEN [@ EXCEPT !.at = "freeing"] ELSE NoTimer]
    /\ UNCHANGED <<sigpending, slab, entry, queues, ignored, alive, send, sends,
                   owed, due>>

(* ... and one that is not, at once, without the lock. *)
FreeUnlocked(t) ==
    /\ timer[t].at = "freeing"
    /\ GiveBack({timer[t].q})
    /\ timer' = [timer EXCEPT ![t] = NoTimer]
    /\ UNCHANGED <<PREALLOC, queues, ignored, alive, send, sends, owed, due>>

-----------------------------------------------------------------------------
Next ==
    \/ \E s \in Senders, c \in Queues, sig \in Sigs, info \in Infos :
           Send(s, c, sig, info)
    \/ \E s \in Senders : Enqueue(s)
    \/ \E p \in Procs, sig \in Sigs : dequeue_signal(p, sig)
    \/ \E p \in Procs, sig \in Ignorable : Discard(p, sig)
    \/ \E p \in Procs : flush_signals(p) \/ flush_itimer_signals(p) \/ Exit(p)
    \/ \E t \in Timers, p \in Procs : CreateTimer(t, p)
    \/ \E t \in Timers, kind \in {"private", "shared"} : send_sigqueue(t, kind)
    \/ \E t \in Timers : sigqueue_alloc(t) \/ sigqueue_free(t) \/ FreeUnlocked(t)

Spec == Init /\ [][Next]_vars

-----------------------------------------------------------------------------
Counting == {s \in Senders : send[s].at = "alloc"}
            \cup {t \in Timers : timer[t].at = "alloc"}

(* Where the entry q is: places in queues, and timers that hold it. *)
Places(q) == {w \in Queues \X (1 .. Cardinality(Entries)) :
                  w[2] \in DOMAIN list[w[1]] /\ list[w[1]][w[2]] = q}
Holders(q) == {t \in Timers : timer[t].q = q}

(* Every entry in use can still be reached, so that somebody frees it, and *)
(* none is in two places, so that nobody frees it twice: it is in one      *)
(* queue, or its timer holds it, or both, in which case it is marked, as   *)
(* one that only a timer may free; a free one is nowhere.  And the user is *)
(* charged for exactly the entries in use and those being allocated:       *)
(* __sigqueue_alloc counts first and takes back, __sigqueue_free uncounts  *)
(* what it frees.                                                          *)
EntryOwned ==
    /\ \A q \in Entries :
          /\ Cardinality(Places(q)) <= 1 /\ Cardinality(Holders(q)) <= 1
          /\ q \in slab <=> Places(q) # {} \/ Holders(q) # {}
          /\ Places(q) # {} /\ Holders(q) # {} => q \in PREALLOC
    /\ sigpending = Cardinality(slab) + Cardinality(Counting)

(* No queued siginfo is out of sight: its signal is in the set that        *)
(* next_signal looks at, whatever was collected or flushed around it.      *)
QueuedIsPending ==
    \A c \in Queues, q \in Entries : q \in Range(list[c]) => entry[q].sig \in signal[c]

(* The siginfos of a signal are handed over in the order in which they     *)
(* were accepted, each once: what is queued is what is owed.               *)
FirstInFirstOut ==
    \A c \in Queues : [i \in DOMAIN list[c] |-> Info(entry[list[c][i]])] = owed[c]

(* "since kill is not allowed to fail with EAGAIN when low on memory we    *)
(* just make sure at least one signal gets delivered": a signal that was   *)
(* sent, and not refused, stays pending until one of its number is taken   *)
(* or it is flushed -- at the limit, without memory, and next to a timer's *)
(* or an earlier one of the same number.                                   *)
AtLeastOne == \A c \in Queues : due[c] \subseteq signal[c]

(* The limit is never exceeded by an entry that a sender allocates and     *)
(* that must respect it, although processes of the user allocate at the    *)
(* same time.  (Nothing is said of sigqueue_alloc, whose entries count.)   *)
WithinLimit ==
    [][\A s \in Senders :
          /\ send[s].at = "alloc" /\ send'[s] = Idle
          /\ ~ override_rlimit(send[s].sig, send[s].info)
          /\ slab' # slab
          => Cardinality(slab') <= Limit]_vars
=============================================================================
