--------------------------- MODULE SignalQueueProofs ---------------------------
(***************************************************************************)
(* Proofs about SignalQueue: no entry is lost, freed twice or left         *)
(* uncounted, none is out of sight, and the siginfos keep their order.     *)
(***************************************************************************)
EXTENDS SignalQueue, FiniteSetTheorems, SequenceTheorems, TLAPS

Codes == Infos \cup {"SI_TIMER", "none"}
SigInfos == [sig : Sigs \cup {0}, code : Codes, val : Nat]

Types ==
    /\ sigpending \in Int /\ sends \in Nat
    /\ slab \in SUBSET Entries /\ PREALLOC \in SUBSET Entries
    /\ entry \in [Entries -> [sig : Sigs \cup {0}, code : Codes, val : Nat, overrun : Nat]]
    /\ list \in [Queues -> Seq(Entries)] /\ signal \in [Queues -> SUBSET Sigs]
    /\ owed \in [Queues -> Seq(SigInfos)] /\ due \in [Queues -> SUBSET Sigs]
    /\ send \in [Senders -> {Idle} \cup [at : {"alloc"}, to : Queues, sig : Sigs,
                                         info : Infos, val : Nat]]
    /\ timer \in [Timers -> {NoTimer} \cup [at : {"alloc"}, q : {NoEntry}, of : Procs]
                            \cup [at : {"armed", "freeing"}, q : Entries, of : Procs]]

Held(q) == \E t \in Timers : timer[t].q = q

(* An entry has one place in the queues, and one timer. *)
OnePlace ==
    \A c, d \in Queues : \A i \in DOMAIN list[c], j \in DOMAIN list[d] :
        list[c][i] = list[d][j] => c = d /\ i = j
OneHolder ==
    \A t, u \in Timers : timer[t].q = timer[u].q /\ timer[t].q \in Entries => t = u

(* What is allocated is what is queued or held. *)
InUse == \A q \in Entries : q \in slab <=> Queued(q) \/ Held(q)

(* The entries that are marked are those of the armed timers; the one that *)
(* a timer is about to free is in no queue.                                *)
Marked ==
    /\ \A t \in Timers :
          /\ timer[t].at = "armed" => timer[t].q \in PREALLOC
                                      /\ entry[timer[t].q].sig = TimerSig
          /\ timer[t].at = "freeing" => timer[t].q \notin PREALLOC
                                        /\ ~ Queued(timer[t].q)
    /\ \A q \in PREALLOC : \E t \in Timers : timer[t].at = "armed" /\ timer[t].q = q

Charged == sigpending = Cardinality(slab) + Cardinality(Counting)

QInv == /\ Types /\ OnePlace /\ OneHolder /\ InUse /\ Marked /\ Charged
        /\ QueuedIsPending /\ FirstInFirstOut /\ AtLeastOne

-----------------------------------------------------------------------------
(* The n-th of some places, and a sequence reduced to some of its places.  *)
LEMMA NthPlace ==
  ASSUME NEW k \in Nat, NEW I \in SUBSET (1 .. k)
  PROVE  /\ IsFiniteSet(I) /\ Cardinality(I) \in Nat
         /\ \A n \in 1 .. Cardinality(I) :
                Nth(I, n) \in I /\ Cardinality({j \in I : j <= Nth(I, n)}) = n
         /\ \A i \in I : \E n \in 1 .. Cardinality(I) : Nth(I, n) = i
  <1> DEFINE Upto(i) == {j \in I : j <= i}
             N == Cardinality(I)
             rank == [i \in I |-> Cardinality(Upto(i))]
  <1>1. IsFiniteSet(I) /\ N \in Nat
    <2>1. IsFiniteSet(1 .. k)
      BY FS_Interval
    <2> QED BY <2>1, FS_Subset, FS_CardinalityType
  <1>2. ASSUME NEW i \in I
        PROVE  IsFiniteSet(Upto(i)) /\ Cardinality(Upto(i)) \in 1 .. N
    <2>1. Upto(i) \in SUBSET I /\ i \in Upto(i)
      OBVIOUS
    <2> HIDE DEF Upto
    <2>2. IsFiniteSet(Upto(i)) /\ Cardinality(Upto(i)) <= N
      BY <1>1, <2>1, FS_Subset
    <2>3. Cardinality(Upto(i)) \in Nat /\ Cardinality(Upto(i)) # 0
      BY <2>1, <2>2, FS_CardinalityType, FS_EmptySet
    <2> QED BY <1>1, <2>2, <2>3
  <1>3. ASSUME NEW i \in I, NEW j \in I, i < j
        PROVE  Cardinality(Upto(i)) # Cardinality(Upto(j))
    <2>0. \A l \in I : l \in Nat
      OBVIOUS
    <2>1. i \in Nat /\ j \in Nat
      BY <2>0
    <2>2. \A l \in I : l <= i => l <= j
      BY <1>3, <2>0, <2>1
    <2>3. j <= j /\ ~ (j <= i)
      BY <1>3, <2>1
    <2>4. Upto(i) \in SUBSET Upto(j) /\ j \in Upto(j) /\ j \notin Upto(i)
      BY <2>2, <2>3
    <2> HIDE DEF Upto
    <2> QED BY <2>4, <1>2, FS_Subset
  <1>4. \A i, j \in I : rank[i] = rank[j] => i = j
    <2> HIDE DEF Upto
    <2>1. \A i, j \in I : i \in Nat /\ j \in Nat
      OBVIOUS
    <2> QED BY <1>3, <2>1
  <1>5. rank \in [I -> 1 .. N]
    <2> HIDE DEF Upto, N
    <2> QED BY <1>2
  <1>6. rank \in Injection(I, 1 .. N)
    <2> HIDE DEF rank, N
    <2> QED BY <1>4, <1>5 DEF Injection, IsInjective
  <1>7. IsFiniteSet(1 .. N) /\ Cardinality(1 .. N) = N
    BY <1>1, FS_Interval
  <1>8. rank \in Surjection(I, 1 .. N)
    <2> HIDE DEF rank, N
    <2>1. N = Cardinality(I)
      BY DEF N
    <2> QED BY <1>6, <1>7, <2>1, FS_Injection
  <1>9. ASSUME NEW n \in 1 .. N
        PROVE  Nth(I, n) \in I /\ Cardinality(Upto(Nth(I, n))) = n
    <2>1. \E i \in I : rank[i] = n
      <3> HIDE DEF rank, N
      <3> QED BY <1>8 DEF Surjection
    <2>2. \E i \in I : Cardinality(Upto(i)) = n
      BY <2>1
    <2> QED BY <2>2 DEF Nth
  <1>10. ASSUME NEW i \in I PROVE \E n \in 1 .. N : Nth(I, n) = i
    <2> DEFINE n == Cardinality(Upto(i))
    <2>1. n \in 1 .. N
      BY <1>2
    <2>2. Nth(I, n) \in I /\ Cardinality(Upto(Nth(I, n))) = n
      <3> HIDE DEF n, Upto
      <3> QED BY <2>1, <1>9
    <2>3. Nth(I, n) = i
      <3> HIDE DEF Upto
      <3> QED BY <2>2, <1>4
    <2> QED BY <2>1, <2>3
  <1> QED BY <1>1, <1>9, <1>10

LEMMA KeptPlaces ==
  ASSUME NEW S, NEW s \in Seq(S), NEW I \in SUBSET DOMAIN s
  PROVE  /\ Kept(s, I) \in Seq(S)
         /\ DOMAIN Kept(s, I) = 1 .. Cardinality(I) /\ Cardinality(I) \in Nat
         /\ \A n \in 1 .. Cardinality(I) : Nth(I, n) \in I /\ Kept(s, I)[n] = s[Nth(I, n)]
         /\ \A m, n \in 1 .. Cardinality(I) : Nth(I, m) = Nth(I, n) => m = n
         /\ Range(Kept(s, I)) = {s[i] : i \in I}
  <1>1. DOMAIN s = 1 .. Len(s) /\ Len(s) \in Nat
    OBVIOUS
  <1>2. I \in SUBSET (1 .. Len(s))
    BY <1>1
  <1>3. /\ Cardinality(I) \in Nat
        /\ \A n \in 1 .. Cardinality(I) :
               Nth(I, n) \in I /\ Cardinality({j \in I : j <= Nth(I, n)}) = n
        /\ \A i \in I : \E n \in 1 .. Cardinality(I) : Nth(I, n) = i
    BY <1>1, <1>2, NthPlace
  <1>4. \A n \in 1 .. Cardinality(I) : Kept(s, I)[n] = s[Nth(I, n)]
    BY DEF Kept
  <1>5. DOMAIN Kept(s, I) = 1 .. Cardinality(I)
    BY DEF Kept
  <1>6. Kept(s, I) \in Seq(S)
    <2>1. \A n \in 1 .. Cardinality(I) : s[Nth(I, n)] \in S
      <3>1. \A i \in I : s[i] \in S
        BY <1>1, <1>2
      <3> QED BY <1>3, <3>1
    <2>2. Kept(s, I) \in [1 .. Cardinality(I) -> S]
      BY <2>1 DEF Kept
    <2> QED BY <2>2, <1>3, SeqDef
  <1>7. Range(Kept(s, I)) = {s[i] : i \in I}
    <2>1. Range(Kept(s, I)) = {s[Nth(I, n)] : n \in 1 .. Cardinality(I)}
      BY <1>4, <1>5 DEF Range
    <2> QED BY <2>1, <1>3
  <1> QED BY <1>3, <1>4, <1>5, <1>6, <1>7

(* What is kept keeps its order. *)
LEMMA KeptInOrder ==
  ASSUME NEW k \in Nat, NEW I \in SUBSET (1 .. k),
         NEW m \in 1 .. Cardinality(I), NEW n \in 1 .. Cardinality(I), m < n
  PROVE  Nth(I, m) < Nth(I, n)
  <1> DEFINE Upto(i) == {j \in I : j <= i}
  <1>1. /\ IsFiniteSet(I) /\ Nth(I, m) \in I /\ Nth(I, n) \in I
        /\ Cardinality(Upto(Nth(I, m))) = m /\ Cardinality(Upto(Nth(I, n))) = n
    BY NthPlace
  <1>0. \A i \in I : i \in Nat
    OBVIOUS
  <1>2. Nth(I, m) \in Nat /\ Nth(I, n) \in Nat
    <2> HIDE DEF Upto
    <2> QED BY <1>0, <1>1
  <1> SUFFICES ASSUME Nth(I, n) <= Nth(I, m) PROVE FALSE
    BY <1>2
  <1>3. Upto(Nth(I, n)) \in SUBSET Upto(Nth(I, m)) /\ Upto(Nth(I, m)) \in SUBSET I
    <2>1. \A l \in I : l <= Nth(I, n) => l <= Nth(I, m)
      BY <1>0, <1>2
    <2> QED BY <2>1
  <1>4. n <= m
    <2> HIDE DEF Upto
    <2> QED BY <1>1, <1>3, FS_Subset
  <1> QED BY <1>4

-----------------------------------------------------------------------------
LEMMA NoEntries == /\ IsFiniteSet(Entries) /\ NoEntry \notin Entries
                   /\ 0 \notin Sigs /\ TimerSig \in Sigs
                   /\ "SI_TIMER" \notin Infos /\ "none" \notin Infos
  BY EntriesAssumption, SigsAssumption, InfosAssumption DEF Special

LEMMA InitQueue == Init => QInv
  <1> SUFFICES ASSUME Init PROVE QInv
    OBVIOUS
  <1> USE NoEntries
  <1>1. Types
    <2>1. entry \in [Entries -> [sig : Sigs \cup {0}, code : Codes, val : Nat, overrun : Nat]]
      BY DEF Init, Blank, Codes
    <2> QED BY <2>1 DEF Init, Types
  <1>2. \A c \in Queues : list[c] = <<>> /\ owed[c] = <<>> /\ due[c] = {}
    BY DEF Init
  <1>3. \A t \in Timers : timer[t].at = "none" /\ timer[t].q = NoEntry
    BY DEF Init, NoTimer
  <1>4. \A s \in Senders : send[s].at = "idle"
    BY DEF Init, Idle
  <1>5. OnePlace /\ QueuedIsPending /\ FirstInFirstOut /\ AtLeastOne
    BY <1>2 DEF OnePlace, QueuedIsPending, FirstInFirstOut, AtLeastOne, Range
  <1>6. OneHolder /\ InUse /\ Marked
    BY <1>2, <1>3 DEF Init, OneHolder, InUse, Marked, Queued, Held, Range
  <1>7. Charged
    <2>1. Counting = {} /\ slab = {} /\ sigpending = 0
      BY <1>3, <1>4 DEF Init, Counting
    <2> QED BY <2>1, FS_EmptySet DEF Charged
  <1> QED BY <1>1, <1>5, <1>6, <1>7 DEF QInv

-----------------------------------------------------------------------------
(* The count of the user. *)
LEMMA CountsFinite ==
  ASSUME Types
  PROVE  IsFiniteSet(slab) /\ Cardinality(slab) \in Nat
  BY NoEntries, FS_Subset, FS_CardinalityType DEF Types

LEMMA CountingFinite ==
  IsFiniteSet(Counting) /\ Cardinality(Counting) \in Nat
  <1> DEFINE A == {s \in Senders : send[s].at = "alloc"}
             B == {t \in Timers : timer[t].at = "alloc"}
  <1>1. IsFiniteSet(A) /\ IsFiniteSet(B)
    BY ContextsAssumption, FS_Subset
  <1>2. Counting = A \cup B
    BY DEF Counting
  <1> HIDE DEF A, B
  <1> QED BY <1>1, <1>2, FS_Union, FS_CardinalityType

(* __sigqueue_free uncounts what it frees. *)
LEMMA GivenBack ==
  ASSUME Types, Charged, NEW qs \in SUBSET slab, GiveBack(qs), UNCHANGED <<send, timer>>
  PROVE  Charged' /\ sigpending' \in Int
  <1>1. /\ Freed(qs) \in SUBSET slab /\ slab' = slab \ Freed(qs)
        /\ sigpending' = sigpending - Cardinality(Freed(qs))
    BY DEF GiveBack, Freed
  <1>2. Counting' = Counting
    BY DEF Counting
  <1>3. IsFiniteSet(slab) /\ Cardinality(slab) \in Nat
    BY CountsFinite
  <1>4. IsFiniteSet(Freed(qs)) /\ Cardinality(Freed(qs)) \in Nat
    BY <1>1, <1>3, FS_Subset, FS_CardinalityType
  <1>5. Cardinality(slab') = Cardinality(slab) - Cardinality(Freed(qs))
    <2>1. slab \cap Freed(qs) = Freed(qs)
      BY <1>1
    <2> QED BY <1>1, <1>3, <2>1, FS_Difference
  <1>6. Cardinality(Counting) \in Nat
    BY CountingFinite
  <1> QED BY <1>1, <1>2, <1>3, <1>4, <1>5, <1>6 DEF Charged

-----------------------------------------------------------------------------
(* Taking entries out of queues: what is left of a queue are other places  *)
(* of it, all those whose entry is not taken, and the siginfos owed at     *)
(* these places.                                                           *)
Left(c, qs) ==
    /\ list'[c] \in Seq(Entries) /\ owed'[c] \in Seq(SigInfos)
    /\ DOMAIN owed'[c] = DOMAIN list'[c]
    /\ \E f \in [DOMAIN list'[c] -> DOMAIN list[c]] :
          /\ \A i, j \in DOMAIN list'[c] : f[i] = f[j] => i = j
          /\ \A i \in DOMAIN list'[c] : /\ list'[c][i] = list[c][f[i]]
                                        /\ owed'[c][i] = owed[c][f[i]]
    /\ Range(list'[c]) = Range(list[c]) \ qs

LEMMA FifoPlaces ==
  ASSUME QInv, NEW c \in Queues
  PROVE  /\ list[c] \in Seq(Entries) /\ owed[c] \in Seq(SigInfos)
         /\ DOMAIN owed[c] = DOMAIN list[c] /\ DOMAIN list[c] = 1 .. Len(list[c])
         /\ \A i \in DOMAIN list[c] : /\ list[c][i] \in Entries
                                      /\ owed[c][i] = Info(entry[list[c][i]])
  <1>1. list[c] \in Seq(Entries) /\ owed[c] \in Seq(SigInfos)
    BY DEF QInv, Types
  <1>2. owed[c] = [i \in DOMAIN list[c] |-> Info(entry[list[c][i]])]
    BY DEF QInv, FirstInFirstOut
  <1>3. DOMAIN owed[c] = DOMAIN list[c]
    BY <1>2
  <1>4. \A i \in DOMAIN list[c] : owed[c][i] = Info(entry[list[c][i]])
    BY <1>2
  <1>5. \A i \in DOMAIN list[c] : list[c][i] \in Entries
    BY <1>1
  <1>6. DOMAIN list[c] = 1 .. Len(list[c])
    BY <1>1
  <1> QED BY <1>1, <1>3, <1>4, <1>5, <1>6

LEMMA LeftByKept ==
  ASSUME QInv, NEW c \in Queues, NEW qs,
         NEW I, I = {i \in DOMAIN list[c] : list[c][i] \notin qs},
         list'[c] = Kept(list[c], I), owed'[c] = Kept(owed[c], I)
  PROVE  Left(c, qs)
  <1> DEFINE N == Cardinality(I)
  <1>1. /\ I \in SUBSET DOMAIN list[c] /\ I \in SUBSET DOMAIN owed[c]
        /\ list[c] \in Seq(Entries) /\ owed[c] \in Seq(SigInfos)
    BY FifoPlaces
  <1>2. /\ list'[c] \in Seq(Entries) /\ DOMAIN list'[c] = 1 .. N /\ N \in Nat
        /\ \A n \in 1 .. N : Nth(I, n) \in I /\ list'[c][n] = list[c][Nth(I, n)]
        /\ \A m, n \in 1 .. N : Nth(I, m) = Nth(I, n) => m = n
        /\ Range(list'[c]) = {list[c][i] : i \in I}
    <2> DEFINE K == Kept(list[c], I)
    <2>1. /\ K \in Seq(Entries) /\ DOMAIN K = 1 .. N /\ N \in Nat
          /\ \A n \in 1 .. N : Nth(I, n) \in I /\ K[n] = list[c][Nth(I, n)]
          /\ \A m, n \in 1 .. N : Nth(I, m) = Nth(I, n) => m = n
          /\ Range(K) = {list[c][i] : i \in I}
      <3>1. list[c] \in Seq(Entries) /\ I \in SUBSET DOMAIN list[c]
        BY <1>1
      <3> QED BY ONLY <3>1, KeptPlaces
    <2> HIDE DEF K, N
    <2>2. list'[c] = K
      BY DEF K
    <2> QED BY <2>1, <2>2
  <1>3. /\ owed'[c] \in Seq(SigInfos) /\ DOMAIN owed'[c] = 1 .. N
        /\ \A n \in 1 .. N : owed'[c][n] = owed[c][Nth(I, n)]
    <2> DEFINE K == Kept(owed[c], I)
    <2>1. /\ K \in Seq(SigInfos) /\ DOMAIN K = 1 .. N
          /\ \A n \in 1 .. N : K[n] = owed[c][Nth(I, n)]
      <3>1. owed[c] \in Seq(SigInfos) /\ I \in SUBSET DOMAIN owed[c]
        BY <1>1
      <3> QED BY ONLY <3>1, KeptPlaces
    <2> HIDE DEF K, N
    <2>2. owed'[c] = K
      BY DEF K
    <2> QED BY <2>1, <2>2
  <1>4. Range(list'[c]) = Range(list[c]) \ qs
    <2>1. \A q \in Range(list'[c]) : q \in Range(list[c]) /\ q \notin qs
      BY <1>2 DEF Range
    <2>2. \A i \in DOMAIN list[c] : list[c][i] \notin qs => list[c][i] \in Range(list'[c])
      BY <1>2
    <2> QED BY <2>1, <2>2 DEF Range
  <1> DEFINE f == [n \in 1 .. N |-> Nth(I, n)]
  <1>5. /\ f \in [DOMAIN list'[c] -> DOMAIN list[c]]
        /\ \A i, j \in DOMAIN list'[c] : f[i] = f[j] => i = j
        /\ \A i \in DOMAIN list'[c] : /\ list'[c][i] = list[c][f[i]]
                                      /\ owed'[c][i] = owed[c][f[i]]
    <2> HIDE DEF N
    <2> QED BY <1>1, <1>2, <1>3
  <1>6. DOMAIN owed'[c] = DOMAIN list'[c]
    BY <1>2, <1>3
  <1> HIDE DEF f, N
  <1> QED BY <1>2, <1>3, <1>4, <1>5, <1>6 DEF Left

LEMMA LeftAlone ==
  ASSUME QInv, NEW c \in Queues, NEW qs, list'[c] = list[c], owed'[c] = owed[c],
         Range(list[c]) \cap qs = {}
  PROVE  Left(c, qs)
  <1> DEFINE f == [n \in DOMAIN list[c] |-> n]
  <1>1. /\ f \in [DOMAIN list'[c] -> DOMAIN list[c]]
        /\ \A i, j \in DOMAIN list'[c] : f[i] = f[j] => i = j
        /\ \A i \in DOMAIN list'[c] : /\ list'[c][i] = list[c][f[i]]
                                      /\ owed'[c][i] = owed[c][f[i]]
    OBVIOUS
  <1>2. Range(list'[c]) = Range(list[c]) \ qs
    OBVIOUS
  <1> HIDE DEF f
  <1> QED BY <1>1, <1>2, FifoPlaces DEF Left

(* The entry of a timer: it has one while it is armed or being deleted. *)
LEMMA TimerHas ==
  ASSUME Types, NEW t \in Timers
  PROVE  /\ timer[t].at \in {"armed", "freeing"} <=> timer[t].q \in Entries
         /\ timer[t].at \in {"none", "alloc", "armed", "freeing"}
         /\ timer[t].at \notin {"armed", "freeing"} => timer[t].q = NoEntry
         /\ timer[t].at # "none" => timer[t].of \in Procs
  BY NoEntries DEF Types, NoTimer

LEMMA TakenOut ==
  ASSUME QInv, NEW qs \in SUBSET Entries, \A q \in qs : Queued(q), GiveBack(qs),
         \A c \in Queues : Left(c, qs),
         list' \in [Queues -> Seq(Entries)], owed' \in [Queues -> Seq(SigInfos)],
         signal' \in [Queues -> SUBSET Sigs], due' \in [Queues -> SUBSET Sigs],
         UNCHANGED <<PREALLOC, send, timer, sends>>
  PROVE  /\ Types' /\ OnePlace' /\ OneHolder' /\ InUse' /\ Marked' /\ Charged'
         /\ FirstInFirstOut'
         /\ \A c \in Queues : \A q \in Range(list'[c]) :
                q \in Range(list[c]) /\ q \notin qs /\ entry'[q] = entry[q]
  <1>0. Types /\ OnePlace /\ OneHolder /\ InUse /\ Marked /\ Charged
    BY DEF QInv
  <1>1. /\ qs \in SUBSET slab
        /\ slab' = slab \ Freed(qs) /\ Freed(qs) = qs \ PREALLOC
        /\ entry' = [q \in Entries |-> IF q \in Freed(qs) THEN Blank ELSE entry[q]]
    BY <1>0 DEF GiveBack, Freed, InUse
  <1>2. Charged' /\ sigpending' \in Int
    BY <1>0, <1>1, GivenBack
  <1>3. \A c \in Queues : Range(list'[c]) = Range(list[c]) \ qs
    BY DEF Left
  <1>4. \A q \in Entries : Queued(q)' <=> Queued(q) /\ q \notin qs
    BY <1>3 DEF Queued
  <1>5. ASSUME NEW c \in Queues, NEW q \in Range(list'[c])
        PROVE  q \in Entries /\ q \in Range(list[c]) /\ q \notin qs /\ entry'[q] = entry[q]
    <2>1. q \in Range(list[c]) /\ q \notin qs
      BY <1>3
    <2>2. q \in Entries
      BY <2>1, FifoPlaces DEF Range
    <2> QED BY <2>1, <2>2, <1>1
  <1>6. Types'
    <2>1. Blank \in [sig : Sigs \cup {0}, code : Codes, val : Nat, overrun : Nat]
      BY DEF Blank, Codes
    <2>2. entry' \in [Entries -> [sig : Sigs \cup {0}, code : Codes, val : Nat,
                                  overrun : Nat]]
      BY <1>0, <1>1, <2>1 DEF Types
    <2>3. slab' \in SUBSET Entries
      BY <1>0, <1>1 DEF Types
    <2> QED BY <1>0, <1>2, <2>2, <2>3 DEF Types
  <1>7. OnePlace'
    <2> SUFFICES ASSUME NEW c \in Queues, NEW d \in Queues, NEW i \in DOMAIN list'[c],
                        NEW j \in DOMAIN list'[d], list'[c][i] = list'[d][j]
                 PROVE  c = d /\ i = j
      BY DEF OnePlace
    <2>1. PICK f \in [DOMAIN list'[c] -> DOMAIN list[c]] :
              /\ \A k, l \in DOMAIN list'[c] : f[k] = f[l] => k = l
              /\ \A k \in DOMAIN list'[c] : list'[c][k] = list[c][f[k]]
      BY DEF Left
    <2>0. Left(d, qs)
      OBVIOUS
    <2>2. PICK g \in [DOMAIN list'[d] -> DOMAIN list[d]] :
              \A k \in DOMAIN list'[d] : list'[d][k] = list[d][g[k]]
      BY ONLY <2>0 DEF Left
    <2>3. /\ f[i] \in DOMAIN list[c] /\ list'[c][i] = list[c][f[i]]
          /\ g[j] \in DOMAIN list[d] /\ list'[d][j] = list[d][g[j]]
      BY <2>1, <2>2
    <2>4. c = d
      <3>1. \A k \in DOMAIN list[c], l \in DOMAIN list[d] :
                list[c][k] = list[d][l] => c = d /\ k = l
        BY <1>0 DEF OnePlace
      <3>2. list[c][f[i]] = list[d][g[j]]
        BY <2>3
      <3> QED BY <2>3, <3>1, <3>2
    <2>5. j \in DOMAIN list'[c] /\ f[j] \in DOMAIN list[c] /\ list'[c][j] = list[c][f[j]]
      BY <2>1, <2>4
    <2>6. list[c][f[i]] = list[c][f[j]]
      BY <2>3, <2>4, <2>5
    <2>7. f[i] = f[j]
      BY <1>0, <2>3, <2>5, <2>6 DEF OnePlace
    <2> QED BY <2>1, <2>4, <2>5, <2>7
  <1>8. OneHolder'
    BY <1>0 DEF OneHolder
  <1>9. InUse'
    <2> SUFFICES ASSUME NEW q \in Entries PROVE q \in slab' <=> Queued(q)' \/ Held(q)
      BY DEF InUse, Held
    <2>1. ASSUME Held(q), q \in Freed(qs) PROVE FALSE
      <3>1. PICK t \in Timers : timer[t].q = q
        BY <2>1 DEF Held
      <3>2. timer[t].at \in {"armed", "freeing"}
        BY <1>0, <3>1, TimerHas
      <3> QED BY <1>0, <1>1, <2>1, <3>1, <3>2 DEF Marked
    <2>2. ASSUME q \in PREALLOC PROVE Held(q)
      BY <1>0, <2>2 DEF Marked, Held
    <2> QED BY <1>0, <1>1, <1>4, <2>1, <2>2 DEF InUse
  <1>10. Marked'
    <2>1. ASSUME NEW t \in Timers, timer[t].at = "armed"
          PROVE  timer[t].q \in PREALLOC /\ entry'[timer[t].q].sig = TimerSig
      <3>1. timer[t].q \in Entries /\ timer[t].q \in PREALLOC /\ entry[timer[t].q].sig = TimerSig
        BY <1>0, <2>1, TimerHas DEF Marked
      <3> QED BY <3>1, <1>1
    <2>2. ASSUME NEW t \in Timers, timer[t].at = "freeing"
          PROVE  timer[t].q \notin PREALLOC /\ ~ Queued(timer[t].q)'
      <3>1. timer[t].q \in Entries
        BY <1>0, <2>2, TimerHas
      <3> QED BY <1>0, <1>4, <2>2, <3>1 DEF Marked
    <2> QED BY <1>0, <2>1, <2>2 DEF Marked
  <1>11. FirstInFirstOut'
    <2> SUFFICES ASSUME NEW c \in Queues
                 PROVE  [i \in DOMAIN list'[c] |-> Info(entry'[list'[c][i]])] = owed'[c]
      BY DEF FirstInFirstOut, Info
    <2>1. PICK f \in [DOMAIN list'[c] -> DOMAIN list[c]] :
              \A i \in DOMAIN list'[c] : /\ list'[c][i] = list[c][f[i]]
                                         /\ owed'[c][i] = owed[c][f[i]]
      BY DEF Left
    <2>2. DOMAIN owed'[c] = DOMAIN list'[c] /\ owed'[c] \in Seq(SigInfos)
      BY DEF Left
    <2>3. ASSUME NEW i \in DOMAIN list'[c]
          PROVE  owed'[c][i] = Info(entry'[list'[c][i]])
      <3>1. owed'[c][i] = Info(entry[list'[c][i]])
        BY <2>1, FifoPlaces
      <3>2. entry'[list'[c][i]] = entry[list'[c][i]]
        BY <1>5 DEF Range
      <3> QED BY <3>1, <3>2
    <2>4. owed'[c] = [i \in DOMAIN owed'[c] |-> owed'[c][i]]
      BY <2>2
    <2> QED BY <2>2, <2>3, <2>4
  <1> QED BY <1>2, <1>5, <1>6, <1>7, <1>8, <1>9, <1>10, <1>11

-----------------------------------------------------------------------------
(* The actions that take entries out. *)
LEMMA TakeOutKeeps ==
  ASSUME QInv, NEW p \in Procs, NEW qs, NEW gone, TakeOut(p, qs, gone),
         UNCHANGED <<PREALLOC, send, timer, sends>>,
         \A c \in QueuesOf(p) :
             /\ qs[c] \subseteq Range(list[c])
             /\ \A q \in qs[c], r \in Range(list[c]) :
                    Info(entry[q]) = Info(entry[r]) => r \in qs[c]
             /\ \A r \in Range(list[c]) \ qs[c] : entry[r].sig \notin gone[c]
  PROVE  QInv'
  <1> DEFINE all == UNION {qs[c] : c \in QueuesOf(p)}
  <1>0. /\ Types /\ OnePlace /\ QueuedIsPending /\ AtLeastOne
        /\ QueuesOf(p) \subseteq Queues
    BY DEF QInv, QueuesOf, Queues
  <1>1. /\ \A c \in Queues \ QueuesOf(p) : list'[c] = list[c] /\ owed'[c] = owed[c]
                                           /\ signal'[c] = signal[c] /\ due'[c] = due[c]
        /\ \A c \in QueuesOf(p) :
              /\ list'[c] = Without(list[c], qs[c])
              /\ owed'[c] = Kept(owed[c], {i \in DOMAIN owed[c] :
                     \E q \in Range(list[c]) \ qs[c] : Info(entry[q]) = owed[c][i]})
              /\ signal'[c] = signal[c] \ gone[c] /\ due'[c] = due[c] \ gone[c]
    BY <1>0 DEF TakeOut
  <1>2. GiveBack(all)
    BY DEF TakeOut
  <1>3. \A q \in all : \E c \in QueuesOf(p) : q \in qs[c] /\ q \in Range(list[c])
    OBVIOUS
  <1>4. all \in SUBSET Entries /\ \A q \in all : Queued(q)
    <2>1. \A c \in Queues : Range(list[c]) \subseteq Entries
      BY FifoPlaces DEF Range
    <2> HIDE DEF all
    <2> QED BY <1>0, <1>3, <2>1 DEF Queued
  <1>5. \A c, d \in Queues : \A q \in Range(list[c]) \cap Range(list[d]) : c = d
    BY <1>0 DEF OnePlace, Range
  <1>6. ASSUME NEW c \in Queues PROVE Left(c, all)
    <2>1. CASE c \notin QueuesOf(p)
      <3>1. Range(list[c]) \cap all = {}
        <4> HIDE DEF all
        <4> QED BY <1>0, <1>3, <1>5, <2>1
      <3> HIDE DEF all
      <3> QED BY <1>1, <2>1, <3>1, LeftAlone
    <2>2. CASE c \in QueuesOf(p)
      <3> DEFINE I == {i \in DOMAIN list[c] : list[c][i] \notin all}
      <3>1. \A q \in Range(list[c]) : q \in all <=> q \in qs[c]
        <4>1. \A q \in qs[c] : q \in all
          BY <2>2
        <4> HIDE DEF all
        <4> QED BY <1>0, <1>3, <1>5, <4>1
      <3>2. \A i \in DOMAIN list[c] : list[c][i] \in Range(list[c])
        BY DEF Range
      <3>3. I = {i \in DOMAIN list[c] : list[c][i] \notin qs[c]}
        <4> HIDE DEF all
        <4> QED BY <3>1, <3>2
      <3>4. I = {i \in DOMAIN owed[c] :
                     \E q \in Range(list[c]) \ qs[c] : Info(entry[q]) = owed[c][i]}
        <4>1. DOMAIN owed[c] = DOMAIN list[c]
          BY FifoPlaces
        <4>2. ASSUME NEW i \in DOMAIN list[c]
              PROVE  list[c][i] \notin qs[c] <=>
                         \E q \in Range(list[c]) \ qs[c] : Info(entry[q]) = owed[c][i]
          <5>1. owed[c][i] = Info(entry[list[c][i]]) /\ list[c][i] \in Range(list[c])
            BY FifoPlaces, <3>2
          <5> QED BY <2>2, <5>1
        <4> HIDE DEF I
        <4> QED BY <3>3, <4>1, <4>2
      <3>5. list'[c] = Kept(list[c], I) /\ owed'[c] = Kept(owed[c], I)
        <4> HIDE DEF I
        <4> QED BY <1>1, <2>2, <3>3, <3>4 DEF Without
      <3> HIDE DEF all
      <3> QED BY <3>5, LeftByKept
    <2> QED BY <2>1, <2>2
  <1> HIDE DEF all
  <1>7. /\ list' \in [Queues -> Seq(Entries)] /\ owed' \in [Queues -> Seq(SigInfos)]
        /\ signal' \in [Queues -> SUBSET Sigs] /\ due' \in [Queues -> SUBSET Sigs]
    <2>1. \A c \in Queues : list'[c] \in Seq(Entries) /\ owed'[c] \in Seq(SigInfos)
      BY <1>6 DEF Left
    <2>2. ASSUME NEW c \in Queues
          PROVE  signal'[c] \in SUBSET Sigs /\ due'[c] \in SUBSET Sigs
      <3>1. signal[c] \in SUBSET Sigs /\ due[c] \in SUBSET Sigs
        BY <1>0 DEF Types
      <3>2. signal'[c] \subseteq signal[c] /\ due'[c] \subseteq due[c]
        BY <1>1
      <3> QED BY <3>1, <3>2
    <2>3. /\ list' = [c \in Queues |-> list'[c]] /\ owed' = [c \in Queues |-> owed'[c]]
          /\ signal' = [c \in Queues |-> signal'[c]] /\ due' = [c \in Queues |-> due'[c]]
      BY DEF TakeOut
    <2> QED BY <2>1, <2>2, <2>3
  <1>8. /\ Types' /\ OnePlace' /\ OneHolder' /\ InUse' /\ Marked' /\ Charged'
        /\ FirstInFirstOut'
        /\ \A c \in Queues : \A q \in Range(list'[c]) :
               q \in Range(list[c]) /\ q \notin all /\ entry'[q] = entry[q]
    BY <1>2, <1>4, <1>6, <1>7, TakenOut
  <1>9. QueuedIsPending'
    <2> SUFFICES ASSUME NEW c \in Queues, NEW q \in Entries, q \in Range(list'[c])
                 PROVE  entry'[q].sig \in signal'[c]
      BY DEF QueuedIsPending
    <2>1. q \in Range(list[c]) /\ q \notin all /\ entry'[q] = entry[q]
      BY <1>8
    <2>2. entry[q].sig \in signal[c]
      BY <1>0, <2>1 DEF QueuedIsPending
    <2>3. c \in QueuesOf(p) => q \notin qs[c]
      BY <2>1 DEF all
    <2> QED BY <1>1, <2>1, <2>2, <2>3
  <1>10. AtLeastOne'
    BY <1>0, <1>1 DEF AtLeastOne
  <1> QED BY <1>8, <1>9, <1>10 DEF QInv

LEMMA FlushSignalsKeeps ==
  ASSUME QInv, NEW p \in Procs, flush_signals(p)
  PROVE  QInv'
  <1>1. QueuesOf(p) \subseteq Queues
    BY DEF QueuesOf, Queues
  <1> QED BY <1>1, TakeOutKeeps DEF flush_signals

LEMMA ExitKeeps ==
  ASSUME QInv, NEW p \in Procs, Exit(p)
  PROVE  QInv'
  <1>1. QueuesOf(p) \subseteq Queues
    BY DEF QueuesOf, Queues
  <1> QED BY <1>1, TakeOutKeeps DEF Exit

LEMMA FlushItimerKeeps ==
  ASSUME QInv, NEW p \in Procs, flush_itimer_signals(p)
  PROVE  QInv'
  <1> DEFINE qs == [c \in Queues |-> TimerEntries(c)]
             gone == [c \in Queues |-> NotRetained(c)]
  <1>1. TakeOut(p, qs, gone) /\ UNCHANGED <<PREALLOC, send, timer, sends>>
    BY DEF flush_itimer_signals
  <1>2. ASSUME NEW c \in QueuesOf(p)
        PROVE  /\ qs[c] \subseteq Range(list[c])
               /\ \A q \in qs[c], r \in Range(list[c]) :
                      Info(entry[q]) = Info(entry[r]) => r \in qs[c]
               /\ \A r \in Range(list[c]) \ qs[c] : entry[r].sig \notin gone[c]
    <2>1. c \in Queues
      BY DEF QueuesOf, Queues
    <2> QED BY <2>1 DEF TimerEntries, NotRetained, Info
  <1> HIDE DEF qs, gone
  <1> QED BY <1>1, <1>2, TakeOutKeeps

LEMMA DiscardKeeps ==
  ASSUME QInv, NEW p \in Procs, NEW sig \in Ignorable, Discard(p, sig)
  PROVE  QInv'
  <1> DEFINE qs == [c \in Queues |-> {list[c][i] : i \in Of(c, sig)}]
             gone == [c \in Queues |-> {sig}]
  <1>1. TakeOut(p, qs, gone) /\ UNCHANGED <<PREALLOC, send, timer, sends>>
    BY DEF Discard
  <1>2. ASSUME NEW c \in QueuesOf(p)
        PROVE  /\ qs[c] \subseteq Range(list[c])
               /\ \A q \in qs[c], r \in Range(list[c]) :
                      Info(entry[q]) = Info(entry[r]) => r \in qs[c]
               /\ \A r \in Range(list[c]) \ qs[c] : entry[r].sig \notin gone[c]
    <2>1. c \in Queues
      BY DEF QueuesOf, Queues
    <2>2. \A q \in Range(list[c]) : q \in qs[c] <=> entry[q].sig = sig
      BY <2>1 DEF Of, Range
    <2>3. qs[c] \subseteq Range(list[c]) /\ \A q \in qs[c] : entry[q].sig = sig
      BY <2>1 DEF Of, Range
    <2>4. gone[c] = {sig}
      BY <2>1
    <2> HIDE DEF qs, gone
    <2> QED BY <2>2, <2>3, <2>4 DEF Info
  <1> HIDE DEF qs, gone
  <1> QED BY <1>1, <1>2, TakeOutKeeps

(* The first entry of a signal is taken, and the siginfo that has been     *)
(* owed for the longest time.                                              *)
LEMMA FirstPlace ==
  ASSUME QInv, NEW c \in Queues, NEW sig, Of(c, sig) # {}
  PROVE  /\ Nth(Of(c, sig), 1) \in Of(c, sig)
         /\ ~ still_pending(c, sig) =>
                \A i \in Of(c, sig) : i = Nth(Of(c, sig), 1)
  <1> DEFINE I == Of(c, sig)
             N == Cardinality(I)
  <1>1. Len(list[c]) \in Nat /\ I \in SUBSET (1 .. Len(list[c]))
    BY FifoPlaces DEF Of
  <1> HIDE DEF I
  <1>2. /\ IsFiniteSet(I) /\ N \in Nat
        /\ \A n \in 1 .. N : Nth(I, n) \in I
        /\ \A i \in I : \E n \in 1 .. N : Nth(I, n) = i
    BY <1>1, NthPlace
  <1>3. N # 0
    BY <1>2, FS_EmptySet DEF I
  <1>4. Nth(I, 1) \in I
    <2> HIDE DEF N
    <2> QED BY <1>2, <1>3
  <1>5. N = 1 => \A i \in I : i = Nth(I, 1)
    <2> HIDE DEF N
    <2> QED BY <1>2
  <1>6. ~ still_pending(c, sig) => N = 1
    <2>1. still_pending(c, sig) <=> N > 1
      BY DEF still_pending, I
    <2> HIDE DEF N
    <2> QED BY <1>2, <1>3, <2>1
  <1> QED BY <1>4, <1>5, <1>6 DEF I

LEMMA FirstTaken ==
  ASSUME QInv, NEW c \in Queues, NEW sig \in Sigs, Of(c, sig) # {},
         list' = [list EXCEPT ![c] = Without(@, {first(c, sig)})],
         owed' = [owed EXCEPT ![c] = PaidOff(@, sig)]
  PROVE  /\ \A d \in Queues : Left(d, {first(c, sig)})
         /\ first(c, sig) \in Entries /\ first(c, sig) \in Range(list[c])
         /\ list' \in [Queues -> Seq(Entries)] /\ owed' \in [Queues -> Seq(SigInfos)]
  <1> DEFINE n == Nth(Of(c, sig), 1)
             q == list[c][n]
             I == {i \in DOMAIN list[c] : list[c][i] \notin {q}}
  <1>0. Types /\ OnePlace
    BY DEF QInv
  <1>1. first(c, sig) = q
    BY DEF first
  <1>2. n \in Of(c, sig) /\ n \in DOMAIN list[c] /\ q \in Entries /\ q \in Range(list[c])
    <2>1. n \in Of(c, sig)
      BY FirstPlace
    <2>2. n \in DOMAIN list[c]
      BY <2>1 DEF Of
    <2> HIDE DEF n
    <2> QED BY <2>1, <2>2, FifoPlaces DEF Range
  <1>3. {i \in DOMAIN owed[c] : owed[c][i].sig = sig} = Of(c, sig)
    <2>1. DOMAIN owed[c] = DOMAIN list[c]
      BY FifoPlaces
    <2>2. ASSUME NEW i \in DOMAIN list[c]
          PROVE  owed[c][i].sig = entry[list[c][i]].sig
      <3>1. owed[c][i] = Info(entry[list[c][i]])
        BY FifoPlaces
      <3> QED BY <3>1 DEF Info
    <2> QED BY <2>1, <2>2 DEF Of
  <1>4. I = DOMAIN owed[c] \ {n}
    <2>1. DOMAIN owed[c] = DOMAIN list[c]
      BY FifoPlaces
    <2>2. \A i \in DOMAIN list[c] : list[c][i] = list[c][n] => i = n
      <3> HIDE DEF n
      <3> QED BY <1>0, <1>2 DEF OnePlace
    <2> HIDE DEF n
    <2> QED BY <1>2, <2>1, <2>2
  <1>5. list[c] \in Seq(Entries) /\ owed[c] \in Seq(SigInfos)
        /\ list \in [Queues -> Seq(Entries)] /\ owed \in [Queues -> Seq(SigInfos)]
    BY <1>0 DEF Types
  <1>6. list'[c] = Kept(list[c], I) /\ owed'[c] = Kept(owed[c], I)
    <2>1. list'[c] = Without(list[c], {q})
      BY <1>1, <1>5
    <2>2. owed'[c] = PaidOff(owed[c], sig)
      BY <1>5
    <2>3. PaidOff(owed[c], sig) = Kept(owed[c], DOMAIN owed[c] \ {n})
      BY <1>3 DEF PaidOff
    <2> HIDE DEF n
    <2> QED BY <1>4, <2>1, <2>2, <2>3 DEF Without
  <1> HIDE DEF I, n
  <1>7. Left(c, {q})
    <2> HIDE DEF q
    <2> QED BY <1>6, LeftByKept DEF I
  <1>8. ASSUME NEW d \in Queues, d # c PROVE Left(d, {q})
    <2>1. list'[d] = list[d] /\ owed'[d] = owed[d]
      BY <1>5, <1>8
    <2>2. Range(list[d]) \cap {q} = {}
      BY <1>0, <1>2, <1>8 DEF OnePlace, Range
    <2> HIDE DEF q
    <2> QED BY <2>1, <2>2, LeftAlone
  <1>9. \A d \in Queues : list'[d] \in Seq(Entries) /\ owed'[d] \in Seq(SigInfos)
    BY <1>7, <1>8 DEF Left
  <1>10. list' \in [Queues -> Seq(Entries)] /\ owed' \in [Queues -> Seq(SigInfos)]
    <2>1. /\ list' = [d \in Queues |-> list'[d]] /\ owed' = [d \in Queues |-> owed'[d]]
      BY <1>5
    <2> QED BY <1>9, <2>1
  <1> HIDE DEF q
  <1> QED BY <1>1, <1>2, <1>7, <1>8, <1>10

LEMMA DequeueKeeps ==
  ASSUME QInv, NEW p \in Procs, NEW sig \in Sigs, dequeue_signal(p, sig)
  PROVE  QInv'
  <1> DEFINE c == From(p, sig)
             q == first(c, sig)
  <1>0. /\ Types /\ OnePlace /\ QueuedIsPending /\ AtLeastOne
        /\ c \in Queues
        /\ signal' = [signal EXCEPT ![c] = IF still_pending(c, sig) THEN @ ELSE @ \ {sig}]
        /\ due' = [due EXCEPT ![c] = @ \ {sig}]
        /\ UNCHANGED <<PREALLOC, send, timer, sends>>
    BY DEF QInv, dequeue_signal, From, Queues
  <1> HIDE DEF c
  <1>1. /\ signal \in [Queues -> SUBSET Sigs] /\ due \in [Queues -> SUBSET Sigs]
    BY <1>0 DEF Types
  <1>2. /\ signal' \in [Queues -> SUBSET Sigs] /\ due' \in [Queues -> SUBSET Sigs]
        /\ \A d \in Queues \ {c} : signal'[d] = signal[d] /\ due'[d] = due[d]
        /\ signal'[c] \in {signal[c], signal[c] \ {sig}} /\ due'[c] = due[c] \ {sig}
        /\ still_pending(c, sig) => signal'[c] = signal[c]
    <2>1. /\ signal[c] \in SUBSET Sigs /\ signal[c] \ {sig} \in SUBSET Sigs
          /\ due[c] \ {sig} \in SUBSET Sigs
      BY <1>0, <1>1
    <2> QED BY <1>0, <1>1, <2>1
  <1>3. AtLeastOne'
    BY <1>0, <1>2 DEF AtLeastOne
  <1>4. CASE Of(c, sig) = {}
    <2>1. UNCHANGED <<list, slab, sigpending, entry, owed>>
      BY <1>4 DEF dequeue_signal, c
    <2>2. Types' /\ OnePlace' /\ OneHolder' /\ InUse' /\ Marked' /\ Charged'
          /\ FirstInFirstOut'
      <3>1. Types'
        BY <1>0, <1>2, <2>1 DEF Types
      <3>2. OnePlace' /\ OneHolder'
        BY <1>0, <2>1 DEF QInv, OnePlace, OneHolder
      <3>3. InUse' /\ Marked'
        BY <1>0, <2>1 DEF QInv, InUse, Marked, Queued, Held
      <3>4. Charged'
        BY <1>0, <2>1 DEF QInv, Charged, Counting
      <3>5. FirstInFirstOut'
        BY <2>1 DEF QInv, FirstInFirstOut, Info
      <3> QED BY <3>1, <3>2, <3>3, <3>4, <3>5
    <2>3. QueuedIsPending'
      <3>1. \A r \in Range(list[c]) : entry[r].sig # sig
        BY <1>4 DEF Of, Range
      <3> QED BY <1>0, <1>2, <2>1, <3>1 DEF QueuedIsPending
    <2> QED BY <1>3, <2>2, <2>3 DEF QInv
  <1>5. CASE Of(c, sig) # {}
    <2>1. /\ list' = [list EXCEPT ![c] = Without(@, {q})] /\ GiveBack({q})
          /\ owed' = [owed EXCEPT ![c] = PaidOff(@, sig)]
      BY <1>5 DEF dequeue_signal, c
    <2>2. /\ \A d \in Queues : Left(d, {q})
          /\ q \in Entries /\ q \in Range(list[c])
          /\ list' \in [Queues -> Seq(Entries)] /\ owed' \in [Queues -> Seq(SigInfos)]
      BY <1>0, <1>5, <2>1, FirstTaken
    <2>3. {q} \in SUBSET Entries /\ \A r \in {q} : Queued(r)
      BY <1>0, <2>2 DEF Queued
    <2>4. q = list[c][Nth(Of(c, sig), 1)]
      BY DEF first
    <2> HIDE DEF q
    <2>5. /\ Types' /\ OnePlace' /\ OneHolder' /\ InUse' /\ Marked' /\ Charged'
          /\ FirstInFirstOut'
          /\ \A d \in Queues : \A r \in Range(list'[d]) :
                 r \in Range(list[d]) /\ r \notin {q} /\ entry'[r] = entry[r]
      BY <1>0, <1>2, <2>1, <2>2, <2>3, TakenOut
    <2>6. QueuedIsPending'
      <3> SUFFICES ASSUME NEW d \in Queues, NEW r \in Entries, r \in Range(list'[d])
                   PROVE  entry'[r].sig \in signal'[d]
        BY DEF QueuedIsPending
      <3>1. r \in Range(list[d]) /\ r # q /\ entry'[r] = entry[r]
            /\ entry[r].sig \in signal[d]
        BY <1>0, <2>5 DEF QueuedIsPending
      <3>2. d = c /\ entry[r].sig = sig => still_pending(c, sig)
        <4> SUFFICES ASSUME d = c, entry[r].sig = sig, ~ still_pending(c, sig)
                     PROVE  FALSE
          OBVIOUS
        <4>1. PICK i \in Of(c, sig) : list[c][i] = r
          BY <3>1 DEF Of, Range
        <4>2. i = Nth(Of(c, sig), 1)
          BY <1>0, <1>5, FirstPlace
        <4> QED BY <2>4, <3>1, <4>1, <4>2
      <3> QED BY <1>2, <3>1, <3>2
    <2> QED BY <1>3, <2>5, <2>6 DEF QInv
  <1> QED BY <1>4, <1>5

-----------------------------------------------------------------------------
(* An entry is queued. *)
LEMMA PutIn ==
  ASSUME QInv, NEW c \in Queues, NEW q \in Entries, ~ Queued(q),
         list' = [list EXCEPT ![c] = Append(@, q)],
         owed' = [owed EXCEPT ![c] = Append(@, Info(entry'[q]))],
         signal' = [signal EXCEPT ![c] = @ \cup {entry'[q].sig}],
         entry' \in [Entries -> [sig : Sigs \cup {0}, code : Codes, val : Nat, overrun : Nat]],
         entry'[q].sig \in Sigs,
         \A r \in Entries \ {q} : Info(entry'[r]) = Info(entry[r])
  PROVE  /\ list' \in [Queues -> Seq(Entries)] /\ owed' \in [Queues -> Seq(SigInfos)]
         /\ signal' \in [Queues -> SUBSET Sigs]
         /\ OnePlace' /\ FirstInFirstOut' /\ QueuedIsPending'
         /\ \A r \in Entries : Queued(r)' <=> Queued(r) \/ r = q
         /\ \A d \in Queues : signal[d] \subseteq signal'[d]
         /\ entry'[q].sig \in signal'[c]
  <1>0. /\ Types /\ OnePlace /\ QueuedIsPending
        /\ list \in [Queues -> Seq(Entries)] /\ owed \in [Queues -> Seq(SigInfos)]
        /\ signal \in [Queues -> SUBSET Sigs]
    BY DEF QInv, Types
  <1> DEFINE n == Len(list[c])
  <1>1. /\ list[c] \in Seq(Entries) /\ owed[c] \in Seq(SigInfos)
        /\ DOMAIN list[c] = 1 .. n /\ DOMAIN owed[c] = 1 .. n /\ n \in Nat
        /\ Len(owed[c]) = n
    <2>1. list[c] \in Seq(Entries) /\ owed[c] \in Seq(SigInfos)
          /\ DOMAIN list[c] = 1 .. n /\ DOMAIN owed[c] = 1 .. n
      BY FifoPlaces
    <2>2. Len(owed[c]) \in Nat /\ DOMAIN owed[c] = 1 .. Len(owed[c]) /\ n \in Nat
      BY <2>1
    <2> QED BY <2>1, <2>2
  <1>2. /\ list'[c] = Append(list[c], q) /\ owed'[c] = Append(owed[c], Info(entry'[q]))
        /\ \A d \in Queues \ {c} : list'[d] = list[d] /\ owed'[d] = owed[d]
    BY <1>0
  <1>3. Info(entry'[q]) \in SigInfos
    BY DEF Info, SigInfos
  <1>4. /\ list'[c] \in Seq(Entries) /\ DOMAIN list'[c] = 1 .. n + 1
        /\ list'[c][n + 1] = q /\ \A i \in 1 .. n : list'[c][i] = list[c][i]
    BY <1>1, <1>2
  <1>5. /\ owed'[c] \in Seq(SigInfos) /\ DOMAIN owed'[c] = 1 .. n + 1
        /\ owed'[c][n + 1] = Info(entry'[q]) /\ \A i \in 1 .. n : owed'[c][i] = owed[c][i]
    BY <1>1, <1>2, <1>3
  <1>6. list' \in [Queues -> Seq(Entries)] /\ owed' \in [Queues -> Seq(SigInfos)]
    BY <1>0, <1>1, <1>3
  <1>7. /\ signal' \in [Queues -> SUBSET Sigs] /\ signal'[c] = signal[c] \cup {entry'[q].sig}
        /\ \A d \in Queues : signal[d] \subseteq signal'[d]
    <2>1. signal[c] \cup {entry'[q].sig} \in SUBSET Sigs
      BY <1>0
    <2> QED BY <1>0, <2>1
  <1>8. ASSUME NEW d \in Queues, NEW i \in DOMAIN list'[d]
        PROVE  \/ d = c /\ i = n + 1 /\ list'[d][i] = q
               \/ /\ i \in DOMAIN list[d] /\ list'[d][i] = list[d][i] /\ list[d][i] # q
                  /\ owed'[d][i] = owed[d][i] /\ list[d][i] \in Range(list[d])
                  /\ list[d][i] \in Entries
    <2>1. (d = c /\ i = n + 1) \/ i \in DOMAIN list[d]
      BY <1>1, <1>2, <1>4
    <2>2. ASSUME i \in DOMAIN list[d]
          PROVE  list'[d][i] = list[d][i] /\ owed'[d][i] = owed[d][i]
      BY <1>1, <1>2, <1>4, <1>5, <2>2
    <2>3. ASSUME i \in DOMAIN list[d]
          PROVE  list[d][i] \in Range(list[d]) /\ list[d][i] # q /\ list[d][i] \in Entries
      BY <2>3, FifoPlaces DEF Queued, Range
    <2> QED BY <1>4, <2>1, <2>2, <2>3
  <1> HIDE DEF n
  <1>9. OnePlace'
    <2> SUFFICES ASSUME NEW d \in Queues, NEW e \in Queues, NEW i \in DOMAIN list'[d],
                        NEW j \in DOMAIN list'[e], list'[d][i] = list'[e][j]
                 PROVE  d = e /\ i = j
      BY DEF OnePlace
    <2>1. CASE list'[d][i] = q
      BY <1>8, <2>1
    <2>2. CASE list'[d][i] # q
      <3>1. i \in DOMAIN list[d] /\ j \in DOMAIN list[e] /\ list[d][i] = list[e][j]
        BY <1>8, <2>2
      <3>2. \A k \in DOMAIN list[d], l \in DOMAIN list[e] :
                list[d][k] = list[e][l] => d = e /\ k = l
        BY <1>0 DEF OnePlace
      <3> QED BY <3>1, <3>2
    <2> QED BY <2>1, <2>2
  <1>10. FirstInFirstOut'
    <2> SUFFICES ASSUME NEW d \in Queues
                 PROVE  [i \in DOMAIN list'[d] |-> Info(entry'[list'[d][i]])] = owed'[d]
      BY DEF FirstInFirstOut, Info
    <2>1. owed'[d] \in Seq(SigInfos) /\ DOMAIN owed'[d] = DOMAIN list'[d]
      BY <1>2, <1>4, <1>5, FifoPlaces
    <2>2. ASSUME NEW i \in DOMAIN list'[d]
          PROVE  owed'[d][i] = Info(entry'[list'[d][i]])
      <3>1. CASE d = c /\ i = n + 1
        BY <3>1, <1>4, <1>5
      <3>2. CASE ~ (d = c /\ i = n + 1)
        <4>1. /\ i \in DOMAIN list[d] /\ list'[d][i] = list[d][i] /\ list[d][i] # q
              /\ owed'[d][i] = owed[d][i] /\ list[d][i] \in Entries
          BY <1>8, <3>2
        <4>2. owed[d][i] = Info(entry[list[d][i]])
          BY <4>1, FifoPlaces
        <4> QED BY <4>1, <4>2
      <3> QED BY <3>1, <3>2
    <2>3. owed'[d] = [i \in DOMAIN owed'[d] |-> owed'[d][i]]
      <3>1. \A s \in Seq(SigInfos) : s = [i \in DOMAIN s |-> s[i]]
        OBVIOUS
      <3> QED BY <2>1, <3>1
    <2> QED BY <2>1, <2>2, <2>3
  <1>11. QueuedIsPending'
    <2> SUFFICES ASSUME NEW d \in Queues, NEW r \in Entries, r \in Range(list'[d])
                 PROVE  entry'[r].sig \in signal'[d]
      BY DEF QueuedIsPending
    <2>1. PICK i \in DOMAIN list'[d] : list'[d][i] = r
      BY DEF Range
    <2>2. CASE r = q
      BY <1>7, <1>8, <2>1, <2>2
    <2>3. CASE r # q
      <3>1. r \in Range(list[d])
        BY <1>8, <2>1, <2>3
      <3>2. entry'[r].sig = entry[r].sig
        <4>1. Info(entry'[r]) = Info(entry[r])
          BY <2>3
        <4> QED BY <4>1 DEF Info
      <3> QED BY <1>0, <1>7, <3>1, <3>2 DEF QueuedIsPending
    <2> QED BY <2>2, <2>3
  <1>12. ASSUME NEW r \in Entries PROVE Queued(r)' <=> Queued(r) \/ r = q
    <2>1. ASSUME Queued(r)' PROVE Queued(r) \/ r = q
      <3>0. PICK d \in Queues : r \in Range(list'[d])
        BY <2>1 DEF Queued
      <3>1. PICK i \in DOMAIN list'[d] : list'[d][i] = r
        BY <3>0 DEF Range
      <3> QED BY <1>8, <3>1 DEF Queued
    <2>2. ASSUME Queued(r) PROVE Queued(r)'
      <3>0. PICK d \in Queues : r \in Range(list[d])
        BY <2>2 DEF Queued
      <3>1. PICK i \in DOMAIN list[d] : list[d][i] = r
        BY <3>0 DEF Range
      <3>2. i \in DOMAIN list'[d] /\ list'[d][i] = r
        <4>1. CASE d = c
          <5>1. i \in 1 .. n /\ n \in Nat
            BY <1>1, <3>1, <4>1
          <5>2. i \in 1 .. n + 1
            BY <5>1
          <5> QED BY <1>4, <3>1, <4>1, <5>1, <5>2
        <4>2. CASE d # c
          BY <1>2, <3>1, <4>2
        <4> QED BY <4>1, <4>2
      <3> QED BY <3>2 DEF Queued, Range
    <2>3. Queued(q)'
      <3>1. n + 1 \in DOMAIN list'[c]
        BY <1>1, <1>4
      <3> QED BY <1>4, <3>1 DEF Queued, Range
    <2> QED BY <2>1, <2>2, <2>3
  <1> QED BY <1>6, <1>7, <1>9, <1>10, <1>11, <1>12

(* An entry that can be allocated is free: it is in no queue, and no timer *)
(* holds it or has it marked.                                              *)
LEMMA FreeEntry ==
  ASSUME QInv, NEW override, NEW q \in Allocated(override), q # NoEntry
  PROVE  /\ q \in Entries /\ q \notin slab /\ ~ Queued(q) /\ ~ Held(q) /\ q \notin PREALLOC
         /\ slab \cup {q} \in SUBSET Entries
         /\ Cardinality(slab \cup {q}) = Cardinality(slab) + 1
  <1>0. Types /\ InUse /\ Marked /\ IsFiniteSet(slab)
    BY CountsFinite DEF QInv
  <1>1. slab # Entries /\ q = CHOOSE r \in Entries : r \notin slab
    BY DEF Allocated
  <1>2. q \in Entries /\ q \notin slab
    BY <1>0, <1>1 DEF Types
  <1>3. slab \cup {q} \in SUBSET Entries
    BY <1>0, <1>2 DEF Types
  <1>4. Cardinality(slab \cup {q}) = Cardinality(slab) + 1
    BY <1>0, <1>2, FS_AddElement
  <1> QED BY <1>0, <1>2, <1>3, <1>4 DEF InUse, Marked, Held

(* One more, or one fewer, that has counted and not yet allocated. *)
LEMMA CountingOneMore ==
  ASSUME NEW x, x \notin Counting, Counting' = Counting \cup {x}
  PROVE  Cardinality(Counting)' = Cardinality(Counting) + 1
  BY CountingFinite, FS_AddElement

LEMMA CountingOneLess ==
  ASSUME NEW x, x \in Counting, Counting' = Counting \ {x}
  PROVE  Cardinality(Counting)' = Cardinality(Counting) - 1
  BY CountingFinite, FS_RemoveElement

-----------------------------------------------------------------------------
(* The actions that send. *)
LEMMA Sending ==
  ASSUME Types, NEW s \in Senders
  PROVE  /\ send[s].at \in {"idle", "alloc"} /\ Idle.at = "idle"
         /\ send[s].at = "alloc" => /\ send[s].to \in Queues /\ send[s].sig \in Sigs
                                    /\ send[s].info \in Infos /\ send[s].val \in Nat
  BY DEF Types, Idle

LEMMA QueuesAlone ==
  ASSUME QInv, UNCHANGED <<slab, entry, PREALLOC, list, owed, timer>>,
         \A c \in Queues : signal[c] \subseteq signal'[c]
  PROVE  OnePlace' /\ OneHolder' /\ InUse' /\ Marked' /\ QueuedIsPending' /\ FirstInFirstOut'
  <1>1. OnePlace' /\ OneHolder'
    BY DEF QInv, OnePlace, OneHolder
  <1>2. InUse' /\ Marked'
    BY DEF QInv, InUse, Marked, Queued, Held
  <1>3. QueuedIsPending'
    BY DEF QInv, QueuedIsPending
  <1>4. FirstInFirstOut'
    BY DEF QInv, FirstInFirstOut, Info
  <1> QED BY <1>1, <1>2, <1>3, <1>4

(* A signal becomes pending, or one that is pending is sent again. *)
LEMMA BecomesPending ==
  ASSUME QInv, NEW c \in Queues, NEW sig \in Sigs,
         signal' = [signal EXCEPT ![c] = @ \cup {sig}],
         due' = [due EXCEPT ![c] = @ \cup {sig}] \/ due' = due
  PROVE  /\ signal' \in [Queues -> SUBSET Sigs] /\ due' \in [Queues -> SUBSET Sigs]
         /\ \A d \in Queues : signal[d] \subseteq signal'[d]
         /\ AtLeastOne'
  <1>1. /\ signal \in [Queues -> SUBSET Sigs] /\ due \in [Queues -> SUBSET Sigs]
        /\ AtLeastOne
    BY DEF QInv, Types
  <1>2. signal[c] \cup {sig} \in SUBSET Sigs /\ due[c] \cup {sig} \in SUBSET Sigs
    BY <1>1
  <1>3. \A d \in Queues : signal'[d] = IF d = c THEN signal[d] \cup {sig} ELSE signal[d]
    BY <1>1
  <1>4. \A d \in Queues : due'[d] \subseteq IF d = c THEN due[d] \cup {sig} ELSE due[d]
    BY <1>1
  <1>5. AtLeastOne'
    BY <1>1, <1>3, <1>4 DEF AtLeastOne
  <1>6. signal' \in [Queues -> SUBSET Sigs] /\ due' \in [Queues -> SUBSET Sigs]
    BY <1>1, <1>2
  <1> QED BY <1>3, <1>5, <1>6

LEMMA SendKeeps ==
  ASSUME QInv, NEW s \in Senders, NEW c \in Queues, NEW sig \in Sigs, NEW info \in Infos,
         Send(s, c, sig, info)
  PROVE  QInv'
  <1>0. /\ Types /\ sends \in Nat /\ sends' = sends + 1 /\ send[s] = Idle
        /\ UNCHANGED <<slab, entry, PREALLOC, list, owed, timer>>
        /\ signal \in [Queues -> SUBSET Sigs] /\ due \in [Queues -> SUBSET Sigs]
        /\ Charged /\ AtLeastOne
    BY DEF Send, QInv, Types
  <1>1. CASE UNCHANGED <<sigpending, signal, send>> /\ due' = due
    <2>1. Types'
      BY <1>0, <1>1 DEF Types
    <2>2. Charged' /\ AtLeastOne'
      BY <1>0, <1>1 DEF Charged, Counting, AtLeastOne
    <2> QED BY <1>0, <1>1, <2>1, <2>2, QueuesAlone DEF QInv
  <1>2. CASE /\ UNCHANGED <<sigpending, signal, send>> /\ sig \in signal[c]
             /\ due' = [due EXCEPT ![c] = @ \cup {sig}]
    <2>1. signal' = [signal EXCEPT ![c] = @ \cup {sig}]
      <3>1. signal[c] \cup {sig} = signal[c]
        BY <1>2
      <3> QED BY <1>0, <1>2, <3>1
    <2>2. /\ due' \in [Queues -> SUBSET Sigs] /\ AtLeastOne'
          /\ \A d \in Queues : signal[d] \subseteq signal'[d]
      BY <1>2, <2>1, BecomesPending
    <2>3. Types'
      BY <1>0, <1>2, <2>2 DEF Types
    <2>4. Charged'
      BY <1>0, <1>2 DEF Charged, Counting
    <2> QED BY <1>0, <2>2, <2>3, <2>4, QueuesAlone DEF QInv
  <1>3. CASE /\ SetPending(c, sig) /\ UNCHANGED <<sigpending, send>>
             /\ due' = [due EXCEPT ![c] = @ \cup {sig}]
    <2>1. /\ signal' \in [Queues -> SUBSET Sigs] /\ due' \in [Queues -> SUBSET Sigs]
          /\ AtLeastOne' /\ \A d \in Queues : signal[d] \subseteq signal'[d]
      BY <1>3, BecomesPending DEF SetPending
    <2>2. Types'
      BY <1>0, <1>3, <2>1 DEF Types
    <2>3. Charged'
      BY <1>0, <1>3 DEF Charged, Counting
    <2> QED BY <1>0, <2>1, <2>2, <2>3, QueuesAlone DEF QInv
  <1>4. CASE /\ sigpending' = sigpending + 1 /\ UNCHANGED <<signal, due>>
             /\ send' = [send EXCEPT ![s] = [at |-> "alloc", to |-> c,
                            sig |-> sig, info |-> info, val |-> sends]]
    <2>1. Types'
      <3>1. sigpending' \in Int /\ sends' \in Nat
        BY <1>0, <1>4 DEF Types
      <3>2. [at |-> "alloc", to |-> c, sig |-> sig, info |-> info, val |-> sends]
                \in [at : {"alloc"}, to : Queues, sig : Sigs, info : Infos, val : Nat]
        BY <1>0
      <3> QED BY <1>0, <1>4, <3>1, <3>2 DEF Types
    <2>2. Charged'
      <3>1. s \notin Counting
        BY <1>0, ContextsAssumption DEF Counting, Idle
      <3>2. /\ \A r \in Senders \ {s} : send'[r] = send[r]
            /\ send'[s].at = "alloc"
        BY <1>0, <1>4 DEF Types
      <3>3. Counting' = Counting \cup {s}
        BY <1>0, <3>2 DEF Counting
      <3>4. Cardinality(Counting)' = Cardinality(Counting) + 1
        BY <3>1, <3>3, CountingOneMore
      <3>5. slab' = slab
        BY <1>0
      <3> QED BY <1>0, <1>4, <3>4, <3>5, CountsFinite, CountingFinite DEF Charged
    <2>3. AtLeastOne'
      BY <1>0, <1>4 DEF AtLeastOne
    <2> QED BY <1>0, <1>4, <2>1, <2>2, <2>3, QueuesAlone DEF QInv
  <1> QED BY <1>1, <1>2, <1>3, <1>4 DEF Send, legacy_queue

LEMMA EnqueueKeeps ==
  ASSUME QInv, NEW s \in Senders, Enqueue(s)
  PROVE  QInv'
  <1> DEFINE c == send[s].to
             sig == send[s].sig
             info == send[s].info
  <1>0. /\ Types /\ send[s].at = "alloc" /\ c \in Queues /\ sig \in Sigs /\ info \in Infos
        /\ send[s].val \in Nat
        /\ UNCHANGED <<PREALLOC, timer, sends>> /\ send' = [send EXCEPT ![s] = Idle]
        /\ Charged /\ AtLeastOne
    BY Sending DEF Enqueue, QInv
  <1>1. PICK q \in Allocated(override_rlimit(sig, info)) :
          IF q = NoEntry
            THEN /\ sigpending' = Uncharged
                 /\ IF Refused(sig, info) THEN UNCHANGED <<signal, due>>
                    ELSE /\ LoseInfo(c, sig)
                         /\ due' = [due EXCEPT ![c] = @ \cup {sig}]
                 /\ UNCHANGED <<slab, entry, list, owed>>
            ELSE /\ slab' = slab \cup {q}
                 /\ entry' = [entry EXCEPT ![q] =
                       [sig |-> sig, code |-> info, val |-> send[s].val, overrun |-> 0]]
                 /\ list' = [list EXCEPT ![c] = Append(@, q)]
                 /\ SetPending(c, sig)
                 /\ owed' = [owed EXCEPT ![c] = Append(@, Info(entry'[q]))]
                 /\ due' = [due EXCEPT ![c] = @ \cup {sig}]
                 /\ UNCHANGED sigpending
    BY DEF Enqueue
  <1> HIDE DEF c, sig, info
  <1>2. send' \in [Senders -> {Idle} \cup [at : {"alloc"}, to : Queues, sig : Sigs,
                                           info : Infos, val : Nat]]
    BY <1>0 DEF Types
  <1>3. Cardinality(Counting)' = Cardinality(Counting) - 1
    <2>1. s \in Counting
      BY <1>0 DEF Counting
    <2>2. (\A r \in Senders \ {s} : send'[r] = send[r]) /\ send'[s].at = "idle"
      BY <1>0 DEF Types, Idle
    <2>3. Counting' = Counting \ {s}
      BY <1>0, <2>2, ContextsAssumption DEF Counting
    <2> QED BY <2>1, <2>3, CountingOneLess
  <1>4. CASE q = NoEntry
    <2>1. /\ signal' \in [Queues -> SUBSET Sigs] /\ due' \in [Queues -> SUBSET Sigs]
          /\ AtLeastOne' /\ \A d \in Queues : signal[d] \subseteq signal'[d]
      <3>1. CASE UNCHANGED <<signal, due>>
        BY <1>0, <3>1 DEF AtLeastOne, Types
      <3>2. CASE SetPending(c, sig) /\ due' = [due EXCEPT ![c] = @ \cup {sig}]
        BY <1>0, <3>2, BecomesPending DEF SetPending
      <3> QED BY <1>1, <1>4, <3>1, <3>2 DEF LoseInfo
    <2>2. /\ UNCHANGED <<slab, entry, PREALLOC, list, owed, timer>>
          /\ sigpending' = sigpending - 1 /\ sigpending \in Int
      BY <1>0, <1>1, <1>4 DEF Uncharged, Types
    <2>3. Types'
      BY <1>0, <1>2, <2>1, <2>2 DEF Types
    <2>4. Charged'
      BY <1>0, <1>3, <2>2, CountsFinite, CountingFinite DEF Charged
    <2> QED BY <2>1, <2>2, <2>3, <2>4, QueuesAlone DEF QInv
  <1>5. CASE q # NoEntry
    <2> DEFINE new == [sig |-> sig, code |-> info, val |-> send[s].val, overrun |-> 0]
    <2>1. /\ slab' = slab \cup {q} /\ entry' = [entry EXCEPT ![q] = new]
          /\ list' = [list EXCEPT ![c] = Append(@, q)]
          /\ signal' = [signal EXCEPT ![c] = @ \cup {sig}]
          /\ owed' = [owed EXCEPT ![c] = Append(@, Info(entry'[q]))]
          /\ due' = [due EXCEPT ![c] = @ \cup {sig}]
          /\ UNCHANGED sigpending
      BY <1>1, <1>5 DEF SetPending
    <2>2. /\ q \in Entries /\ q \notin slab /\ ~ Queued(q) /\ ~ Held(q) /\ q \notin PREALLOC
          /\ slab \cup {q} \in SUBSET Entries
          /\ Cardinality(slab \cup {q}) = Cardinality(slab) + 1
      BY <1>5, FreeEntry
    <2>3. new \in [sig : Sigs \cup {0}, code : Codes, val : Nat, overrun : Nat]
          /\ new.sig = sig
      BY <1>0 DEF Codes
    <2> HIDE DEF new
    <2>4. /\ entry' \in [Entries -> [sig : Sigs \cup {0}, code : Codes, val : Nat,
                                     overrun : Nat]]
          /\ entry'[q] = new /\ \A r \in Entries \ {q} : entry'[r] = entry[r]
      BY <1>0, <2>1, <2>2, <2>3 DEF Types
    <2>5. /\ entry'[q].sig = sig /\ entry'[q].sig \in Sigs
          /\ \A r \in Entries \ {q} : Info(entry'[r]) = Info(entry[r])
      BY <1>0, <2>3, <2>4 DEF Info
    <2>6. /\ list' \in [Queues -> Seq(Entries)] /\ owed' \in [Queues -> Seq(SigInfos)]
          /\ OnePlace' /\ FirstInFirstOut' /\ QueuedIsPending'
          /\ \A r \in Entries : Queued(r)' <=> Queued(r) \/ r = q
      BY <1>0, <2>1, <2>2, <2>4, <2>5, PutIn
    <2>7. /\ signal' \in [Queues -> SUBSET Sigs] /\ due' \in [Queues -> SUBSET Sigs]
          /\ AtLeastOne'
      BY <1>0, <2>1, BecomesPending
    <2>8. Types'
      BY <1>0, <1>2, <2>1, <2>2, <2>4, <2>6, <2>7 DEF Types
    <2>9. Charged'
      <3>1. /\ Cardinality(slab)' = Cardinality(slab) + 1 /\ sigpending' = sigpending
        BY <2>1, <2>2
      <3> QED BY <1>0, <1>3, <3>1, CountsFinite, CountingFinite DEF Charged
    <2>10. OneHolder' /\ InUse'
      BY <1>0, <2>1, <2>6 DEF QInv, OneHolder, InUse, Held
    <2>11. Marked'
      <3>1. \A t \in Timers : timer[t].at \in {"armed", "freeing"} =>
                                  timer[t].q \in Entries \ {q}
        BY <1>0, <2>2, TimerHas DEF Held
      <3>2. \A t \in Timers : timer[t].at = "armed" =>
                timer[t].q \in PREALLOC /\ entry'[timer[t].q].sig = TimerSig
        BY <2>4, <3>1 DEF QInv, Marked
      <3>3. \A t \in Timers : timer[t].at = "freeing" =>
                timer[t].q \notin PREALLOC /\ ~ Queued(timer[t].q)'
        BY <1>0, <2>6, <3>1 DEF QInv, Marked
      <3>4. \A r \in PREALLOC : \E t \in Timers : timer[t].at = "armed" /\ timer[t].q = r
        BY DEF QInv, Marked
      <3> QED BY <1>0, <3>2, <3>3, <3>4 DEF Marked
    <2> QED BY <2>6, <2>7, <2>8, <2>9, <2>10, <2>11 DEF QInv
  <1> QED BY <1>4, <1>5

-----------------------------------------------------------------------------
(* The timers. *)
TimerStates == {NoTimer} \cup [at : {"alloc"}, q : {NoEntry}, of : Procs]
                         \cup [at : {"armed", "freeing"}, q : Entries, of : Procs]

LEMMA CreateTimerKeeps ==
  ASSUME QInv, NEW t \in Timers, NEW p \in Procs, CreateTimer(t, p)
  PROVE  QInv'
  <1>0. /\ Types /\ timer[t].at = "none" /\ sends' = sends + 1 /\ sigpending' = sigpending + 1
        /\ timer' = [timer EXCEPT ![t] = [at |-> "alloc", q |-> NoEntry, of |-> p]]
        /\ UNCHANGED <<slab, entry, PREALLOC, list, signal, send, owed, due>>
        /\ timer \in [Timers -> TimerStates]
    BY DEF CreateTimer, QInv, Types, queues, TimerStates
  <1>1. /\ \A u \in Timers \ {t} : timer'[u] = timer[u]
        /\ timer'[t].at = "alloc" /\ timer'[t].q = NoEntry /\ timer[t].q = NoEntry
    BY <1>0, TimerHas
  <1>2. Types'
    <2>1. sigpending' \in Int /\ sends' \in Nat
      BY <1>0 DEF Types
    <2>2. timer' \in [Timers -> TimerStates]
      BY <1>0 DEF TimerStates
    <2> QED BY <1>0, <2>1, <2>2 DEF Types, TimerStates
  <1>3. \A u \in Timers : timer'[u].q = timer[u].q
    BY <1>1
  <1>4. OneHolder' /\ InUse'
    BY <1>0, <1>3 DEF QInv, OneHolder, InUse, Held, Queued
  <1>5. Marked'
    BY <1>0, <1>1, <1>3 DEF QInv, Marked, Queued
  <1>6. Charged'
    <2>1. t \notin Counting
      BY <1>0, ContextsAssumption DEF Counting
    <2>2. Counting' = Counting \cup {t}
      BY <1>0, <1>1 DEF Counting
    <2>3. Cardinality(Counting)' = Cardinality(Counting) + 1
      BY <2>1, <2>2, CountingOneMore
    <2>4. Cardinality(slab)' = Cardinality(slab)
      BY <1>0
    <2> QED BY <1>0, <2>3, <2>4, CountsFinite, CountingFinite DEF Charged, QInv
  <1>7. OnePlace' /\ AtLeastOne' /\ QueuedIsPending'
    BY <1>0 DEF QInv, OnePlace, AtLeastOne, QueuedIsPending
  <1>8. FirstInFirstOut'
    BY <1>0 DEF QInv, FirstInFirstOut, Info
  <1> QED BY <1>2, <1>4, <1>5, <1>6, <1>7, <1>8 DEF QInv

LEMMA TimerAllocKeeps ==
  ASSUME QInv, NEW t \in Timers, sigqueue_alloc(t)
  PROVE  QInv'
  <1>0. /\ Types /\ timer[t].at = "alloc" /\ timer[t].q = NoEntry /\ timer[t].of \in Procs
        /\ UNCHANGED <<list, signal, send, sends, owed, due>>
        /\ timer \in [Timers -> TimerStates] /\ Charged
    BY TimerHas DEF sigqueue_alloc, QInv, Types, queues, TimerStates
  <1>1. PICK q \in Allocated(FALSE) :
          IF q = NoEntry
            THEN /\ sigpending' = Uncharged
                 /\ timer' = [timer EXCEPT ![t] = NoTimer]
                 /\ UNCHANGED <<slab, entry, PREALLOC>>
            ELSE /\ slab' = slab \cup {q}
                 /\ PREALLOC' = PREALLOC \cup {q}
                 /\ entry' = [entry EXCEPT ![q] = [sig |-> TimerSig,
                        code |-> "SI_TIMER", val |-> 0, overrun |-> 0]]
                 /\ timer' = [timer EXCEPT ![t] = [at |-> "armed", q |-> q, of |-> timer[t].of]]
                 /\ UNCHANGED sigpending
    BY DEF sigqueue_alloc
  <1>2. /\ \A u \in Timers \ {t} : timer'[u] = timer[u]
        /\ timer'[t].at # "alloc"
    <2>1. CASE timer' = [timer EXCEPT ![t] = NoTimer]
      BY <1>0, <2>1 DEF NoTimer
    <2>2. CASE timer' = [timer EXCEPT ![t] = [at |-> "armed", q |-> q, of |-> timer[t].of]]
      BY <1>0, <2>2
    <2> QED BY <1>1, <2>1, <2>2
  <1>3. Cardinality(Counting)' = Cardinality(Counting) - 1
    <2>1. t \in Counting
      BY <1>0 DEF Counting
    <2>2. Counting' = Counting \ {t}
      BY <1>0, <1>2, ContextsAssumption DEF Counting
    <2> QED BY <2>1, <2>2, CountingOneLess
  <1>4. OnePlace' /\ AtLeastOne'
    BY <1>0 DEF QInv, OnePlace, AtLeastOne
  <1>5. CASE q = NoEntry
    <2>1. /\ sigpending' = sigpending - 1 /\ sigpending \in Int
          /\ timer' = [timer EXCEPT ![t] = NoTimer] /\ UNCHANGED <<slab, entry, PREALLOC>>
      BY <1>0, <1>1, <1>5 DEF Uncharged, Types
    <2>2. timer'[t].q = NoEntry /\ timer'[t].at = "none"
      BY <1>0, <2>1 DEF NoTimer
    <2>3. \A u \in Timers : timer'[u].q = timer[u].q
      BY <1>0, <1>2, <2>2
    <2>4. Types'
      <3>1. timer' \in [Timers -> TimerStates]
        BY <1>0, <2>1 DEF TimerStates
      <3> QED BY <1>0, <2>1, <3>1 DEF Types, TimerStates
    <2>5. OneHolder' /\ InUse'
      BY <1>0, <2>1, <2>3 DEF QInv, OneHolder, InUse, Held, Queued
    <2>6. Marked'
      BY <1>0, <1>2, <2>1, <2>2, <2>3 DEF QInv, Marked, Queued
    <2>7. Charged'
      BY <1>0, <1>3, <2>1, CountsFinite, CountingFinite DEF Charged
    <2>8. QueuedIsPending' /\ FirstInFirstOut'
      BY <1>0, <2>1 DEF QInv, QueuedIsPending, FirstInFirstOut, Info
    <2> QED BY <1>4, <2>4, <2>5, <2>6, <2>7, <2>8 DEF QInv
  <1>6. CASE q # NoEntry
    <2> DEFINE new == [sig |-> TimerSig, code |-> "SI_TIMER", val |-> 0, overrun |-> 0]
    <2>1. /\ slab' = slab \cup {q} /\ entry' = [entry EXCEPT ![q] = new]
          /\ PREALLOC' = PREALLOC \cup {q} /\ sigpending' = sigpending
          /\ timer' = [timer EXCEPT ![t] = [at |-> "armed", q |-> q, of |-> timer[t].of]]
      BY <1>1, <1>6
    <2>2. /\ q \in Entries /\ q \notin slab /\ ~ Queued(q) /\ ~ Held(q) /\ q \notin PREALLOC
          /\ slab \cup {q} \in SUBSET Entries
          /\ Cardinality(slab \cup {q}) = Cardinality(slab) + 1
      BY <1>6, FreeEntry
    <2>3. new \in [sig : Sigs \cup {0}, code : Codes, val : Nat, overrun : Nat]
          /\ new.sig = TimerSig
      BY NoEntries DEF Codes
    <2> HIDE DEF new
    <2>4. /\ entry' \in [Entries -> [sig : Sigs \cup {0}, code : Codes, val : Nat,
                                     overrun : Nat]]
          /\ entry'[q].sig = TimerSig /\ \A r \in Entries \ {q} : entry'[r] = entry[r]
      BY <1>0, <2>1, <2>2, <2>3 DEF Types
    <2>5. timer'[t].q = q /\ timer'[t].at = "armed" /\ timer'[t].of = timer[t].of
          /\ timer' \in [Timers -> TimerStates]
      <3>1. [at |-> "armed", q |-> q, of |-> timer[t].of] \in TimerStates
        BY <1>0, <2>2 DEF TimerStates
      <3> QED BY <1>0, <2>1, <3>1
    <2>6. Types'
      <3>1. PREALLOC \cup {q} \in SUBSET Entries
        BY <1>0, <2>2 DEF Types
      <3> QED BY <1>0, <2>1, <2>2, <2>4, <2>5, <3>1 DEF Types, TimerStates
    <2>7. OneHolder'
      BY <1>2, <2>2, <2>5 DEF QInv, OneHolder, Held
    <2>8. InUse'
      <3>1. ASSUME NEW r \in Entries PROVE Held(r)' <=> Held(r) \/ r = q
        <4>1. ASSUME Held(r) PROVE Held(r)'
          <5>1. PICK u \in Timers : timer[u].q = r
            BY <4>1 DEF Held
          <5>2. u # t
            BY <1>0, <5>1, NoEntries
          <5> QED BY <1>2, <5>1, <5>2 DEF Held
        <4> QED BY <1>2, <2>5, <4>1 DEF Held
      <3>2. \A r \in Entries : Queued(r)' <=> Queued(r)
        BY <1>0 DEF Queued
      <3> QED BY <2>1, <3>1, <3>2 DEF QInv, InUse
    <2>9. Marked'
      <3>1. ASSUME NEW u \in Timers, u # t, timer[u].at \in {"armed", "freeing"}
            PROVE  timer[u].q \in Entries /\ timer[u].q # q /\ timer'[u] = timer[u]
        BY <1>0, <1>2, <2>2, <3>1, TimerHas DEF Held
      <3>2. ASSUME NEW u \in Timers, timer'[u].at = "armed"
            PROVE  timer'[u].q \in PREALLOC' /\ entry'[timer'[u].q].sig = TimerSig
        <4>1. CASE u = t
          BY <2>1, <2>4, <2>5, <4>1
        <4>2. CASE u # t
          <5>1. timer'[u] = timer[u] /\ timer[u].at = "armed"
            BY <1>2, <3>2, <4>2
          <5>2. timer[u].q \in Entries \ {q}
            BY <3>1, <4>2, <5>1
          <5>3. timer[u].q \in PREALLOC /\ entry[timer[u].q].sig = TimerSig
            BY <5>1 DEF QInv, Marked
          <5>4. entry'[timer[u].q] = entry[timer[u].q]
            BY <2>4, <5>2
          <5> QED BY <2>1, <5>1, <5>3, <5>4
        <4> QED BY <4>1, <4>2
      <3>3. ASSUME NEW u \in Timers, timer'[u].at = "freeing"
            PROVE  timer'[u].q \notin PREALLOC' /\ ~ Queued(timer'[u].q)
        <4>1. u # t
          BY <2>5, <3>3
        <4>2. timer'[u] = timer[u] /\ timer[u].at = "freeing"
          BY <1>2, <3>3, <4>1
        <4>3. timer[u].q # q
          BY <3>1, <4>1, <4>2
        <4>4. timer[u].q \notin PREALLOC /\ ~ Queued(timer[u].q)
          BY <4>2 DEF QInv, Marked
        <4> QED BY <2>1, <4>2, <4>3, <4>4
      <3>4. ASSUME NEW r \in PREALLOC'
            PROVE  \E u \in Timers : timer'[u].at = "armed" /\ timer'[u].q = r
        <4>1. CASE r = q
          BY <2>5, <4>1
        <4>2. CASE r # q
          <5>1. PICK u \in Timers : timer[u].at = "armed" /\ timer[u].q = r
            BY <2>1, <4>2 DEF QInv, Marked
          <5> QED BY <1>0, <1>2, <5>1
        <4> QED BY <4>1, <4>2
      <3>5. \A r \in Entries : Queued(r)' <=> Queued(r)
        BY <1>0 DEF Queued
      <3> QED BY <1>0, <3>2, <3>3, <3>4 DEF Marked, Queued
    <2>10. Charged'
      <3>1. Cardinality(slab)' = Cardinality(slab) + 1
        BY <2>1, <2>2
      <3> QED BY <1>0, <1>3, <2>1, <3>1, CountsFinite, CountingFinite DEF Charged
    <2>11. \A d \in Queues : \A r \in Range(list[d]) : r \in Entries /\ entry'[r] = entry[r]
      <3>1. \A d \in Queues : \A r \in Range(list[d]) : r \in Entries /\ r # q
        BY <2>2, FifoPlaces DEF Queued, Range
      <3> QED BY <2>4, <3>1
    <2>12. QueuedIsPending'
      BY <1>0, <2>11 DEF QInv, QueuedIsPending
    <2>13. FirstInFirstOut'
      BY <1>0, <2>11 DEF QInv, FirstInFirstOut, Info, Range
    <2> QED BY <1>4, <2>6, <2>7, <2>8, <2>9, <2>10, <2>12, <2>13 DEF QInv
  <1> QED BY <1>5, <1>6

LEMMA TimerExpiresKeeps ==
  ASSUME QInv, NEW t \in Timers, NEW kind \in {"private", "shared"}, send_sigqueue(t, kind)
  PROVE  QInv'
  <1> DEFINE q == timer[t].q
             c == <<timer[t].of, kind>>
  <1>0. /\ Types /\ timer[t].at = "armed" /\ q \in Entries /\ timer[t].of \in Procs
        /\ c \in Queues /\ q \in PREALLOC /\ entry[q].sig = TimerSig /\ TimerSig \in Sigs
        /\ UNCHANGED <<sigpending, slab, PREALLOC, send, timer, sends, due>>
    BY TimerHas, NoEntries DEF send_sigqueue, QInv, Marked, Queues
  <1> HIDE DEF c
  <1>1. /\ entry \in [Entries -> [sig : Sigs \cup {0}, code : Codes, val : Nat, overrun : Nat]]
        /\ entry[q] \in [sig : Sigs \cup {0}, code : Codes, val : Nat, overrun : Nat]
    BY <1>0 DEF Types
  <1>2. /\ entry' \in [Entries -> [sig : Sigs \cup {0}, code : Codes, val : Nat, overrun : Nat]]
        /\ \A r \in Entries \ {q} : entry'[r] = entry[r]
        /\ entry'[q].sig = TimerSig /\ Info(entry'[q]) = Info(entry[q])
    <2>1. \/ entry' = [entry EXCEPT ![q] = [entry[q] EXCEPT !.overrun = entry[q].overrun + 1]]
          \/ entry' = [entry EXCEPT ![q] = [entry[q] EXCEPT !.overrun = 0]]
      BY DEF send_sigqueue
    <2>2. PICK n \in Nat : entry' = [entry EXCEPT ![q] = [entry[q] EXCEPT !.overrun = n]]
      <3>1. entry[q].overrun + 1 \in Nat /\ 0 \in Nat
        BY <1>1
      <3> DEFINE With(n) == entry' = [entry EXCEPT ![q] = [entry[q] EXCEPT !.overrun = n]]
      <3>2. With(entry[q].overrun + 1) \/ With(0)
        BY <2>1
      <3>3. \E n \in Nat : With(n)
        <4> HIDE DEF With
        <4> QED BY <3>1, <3>2
      <3> QED BY <3>3
    <2> DEFINE new == [entry[q] EXCEPT !.overrun = n]
    <2>3. /\ new \in [sig : Sigs \cup {0}, code : Codes, val : Nat, overrun : Nat]
          /\ new.sig = entry[q].sig /\ new.code = entry[q].code /\ new.val = entry[q].val
      BY <1>1
    <2>4. entry' = [entry EXCEPT ![q] = new]
      BY <2>2
    <2> HIDE DEF new, q
    <2> QED BY <1>0, <1>1, <2>3, <2>4 DEF Info
  <1>3. \A r \in Entries : Info(entry'[r]) = Info(entry[r]) /\ entry'[r].sig = entry[r].sig
    <2>1. \A r \in Entries : Info(entry'[r]) = Info(entry[r])
      BY <1>2
    <2>2. \A r \in Entries : Info(entry'[r]).sig = entry'[r].sig
                             /\ Info(entry[r]).sig = entry[r].sig
      BY DEF Info
    <2> QED BY <2>1, <2>2
  <1>4. OneHolder' /\ Charged'
    BY <1>0 DEF QInv, OneHolder, Charged, Counting
  <1>5. \A r \in Entries : Held(r)' <=> Held(r)
    BY <1>0 DEF Held
  <1>6. CASE Queued(q)
    <2>1. UNCHANGED <<list, signal, owed>>
      BY <1>6 DEF send_sigqueue
    <2>2. Types'
      BY <1>0, <1>2, <2>1 DEF Types
    <2>3. OnePlace' /\ AtLeastOne'
      BY <1>0, <2>1 DEF QInv, OnePlace, AtLeastOne
    <2>4. InUse'
      BY <1>0, <2>1 DEF QInv, InUse, Queued, Held
    <2>5. Marked'
      <3>1. \A u \in Timers : timer[u].at = "armed" => timer[u].q \in Entries
        BY <1>0, TimerHas
      <3> QED BY <1>0, <1>3, <2>1, <3>1 DEF QInv, Marked, Queued
    <2>6. QueuedIsPending'
      BY <1>3, <2>1 DEF QInv, QueuedIsPending
    <2>7. FirstInFirstOut'
      <3> SUFFICES ASSUME NEW d \in Queues
                   PROVE  [i \in DOMAIN list[d] |-> Info(entry'[list[d][i]])] = owed[d]
        BY <2>1 DEF FirstInFirstOut, Info
      <3>1. \A i \in DOMAIN list[d] : Info(entry'[list[d][i]]) = Info(entry[list[d][i]])
        BY <1>3, FifoPlaces
      <3>2. [i \in DOMAIN list[d] |-> Info(entry[list[d][i]])] = owed[d]
        BY DEF QInv, FirstInFirstOut
      <3> QED BY <3>1, <3>2
    <2> QED BY <1>4, <2>2, <2>3, <2>4, <2>5, <2>6, <2>7 DEF QInv
  <1>7. CASE ~ Queued(q)
    <2>1. /\ list' = [list EXCEPT ![c] = Append(@, q)]
          /\ signal' = [signal EXCEPT ![c] = @ \cup {TimerSig}]
          /\ owed' = [owed EXCEPT ![c] = Append(@, Info(entry'[q]))]
      BY <1>7 DEF send_sigqueue, SetPending, c
    <2>2. /\ list' \in [Queues -> Seq(Entries)] /\ owed' \in [Queues -> Seq(SigInfos)]
          /\ OnePlace' /\ FirstInFirstOut' /\ QueuedIsPending'
          /\ \A r \in Entries : Queued(r)' <=> Queued(r) \/ r = q
      <3> HIDE DEF q
      <3> QED BY <1>0, <1>2, <1>3, <1>7, <2>1, PutIn
    <2>3. signal' \in [Queues -> SUBSET Sigs] /\ AtLeastOne'
      BY <1>0, <2>1, BecomesPending
    <2>4. Types'
      BY <1>0, <1>2, <2>2, <2>3 DEF Types
    <2>5. InUse'
      <3>1. Held(q)
        BY DEF Held
      <3> QED BY <1>0, <1>5, <2>2, <3>1 DEF QInv, InUse
    <2>6. Marked'
      <3>1. \A u \in Timers : timer[u].at = "armed" =>
                timer[u].q \in PREALLOC /\ entry'[timer[u].q].sig = TimerSig
        <4>1. \A u \in Timers : timer[u].at = "armed" => timer[u].q \in Entries
          BY <1>0, TimerHas
        <4> QED BY <1>3, <4>1 DEF QInv, Marked
      <3>2. ASSUME NEW u \in Timers, timer[u].at = "freeing"
            PROVE  timer[u].q \notin PREALLOC /\ ~ Queued(timer[u].q)'
        <4>1. timer[u].q \in Entries /\ timer[u].q \notin PREALLOC /\ ~ Queued(timer[u].q)
          BY <1>0, <3>2, TimerHas DEF QInv, Marked
        <4>2. timer[u].q # q
          BY <1>0, <4>1
        <4> QED BY <1>0, <2>2, <4>1, <4>2
      <3>3. \A r \in PREALLOC : \E u \in Timers : timer[u].at = "armed" /\ timer[u].q = r
        BY DEF QInv, Marked
      <3> QED BY <1>0, <3>1, <3>2, <3>3 DEF Marked
    <2> QED BY <1>4, <2>2, <2>3, <2>4, <2>5, <2>6 DEF QInv
  <1> QED BY <1>6, <1>7

LEMMA TimerDeleteKeeps ==
  ASSUME QInv, NEW t \in Timers, sigqueue_free(t)
  PROVE  QInv'
  <1> DEFINE q == timer[t].q
  <1>0. /\ Types /\ timer[t].at = "armed" /\ q \in Entries /\ timer[t].of \in Procs
        /\ PREALLOC' = PREALLOC \ {q}
        /\ timer \in [Timers -> TimerStates]
        /\ UNCHANGED <<sigpending, slab, entry, list, signal, send, sends, owed, due>>
    BY TimerHas DEF sigqueue_free, QInv, Types, queues, TimerStates
  <1>1. timer' = [timer EXCEPT ![t] = IF ~ Queued(q) THEN [timer[t] EXCEPT !.at = "freeing"]
                                                   ELSE NoTimer]
    BY DEF sigqueue_free, FreesNow
  <1>2. /\ timer' \in [Timers -> TimerStates]
        /\ \A u \in Timers \ {t} : timer'[u] = timer[u]
        /\ ~ Queued(q) => timer'[t].at = "freeing" /\ timer'[t].q = q
        /\ Queued(q) => timer'[t].at = "none" /\ timer'[t].q = NoEntry
    <2>1. timer[t] \in [at : {"armed", "freeing"}, q : Entries, of : Procs]
      BY <1>0, NoEntries DEF TimerStates, NoTimer
    <2>2. [timer[t] EXCEPT !.at = "freeing"]
              \in [at : {"armed", "freeing"}, q : Entries, of : Procs]
      BY <2>1
    <2>3. [timer[t] EXCEPT !.at = "freeing"].at = "freeing"
          /\ [timer[t] EXCEPT !.at = "freeing"].q = q
      BY <2>1
    <2>4. CASE Queued(q)
      <3>1. timer' = [timer EXCEPT ![t] = NoTimer]
        BY <1>1, <2>4
      <3> HIDE DEF q
      <3> QED BY <1>0, <2>4, <3>1 DEF TimerStates, NoTimer
    <2>5. CASE ~ Queued(q)
      <3> DEFINE new == [timer[t] EXCEPT !.at = "freeing"]
      <3>1. timer' = [timer EXCEPT ![t] = new]
        BY <1>1, <2>5
      <3>2. new \in TimerStates /\ new.at = "freeing" /\ new.q = q
        BY <2>2, <2>3 DEF TimerStates
      <3> HIDE DEF q, new
      <3> QED BY <1>0, <2>5, <3>1, <3>2
    <2> QED BY <2>4, <2>5
  <1>3. \A u \in Timers \ {t} : timer[u].q # q
    BY <1>0 DEF QInv, OneHolder
  <1> HIDE DEF q
  <1>4. Types'
    <2>1. PREALLOC' \in SUBSET Entries
      BY <1>0 DEF Types
    <2> QED BY <1>0, <1>2, <2>1 DEF Types, TimerStates
  <1>5. \A r \in Entries : Queued(r)' <=> Queued(r)
    BY <1>0 DEF Queued
  <1>6. OneHolder'
    BY <1>0, <1>2, <1>3, NoEntries DEF QInv, OneHolder
  <1>7. InUse'
    <2>1. ASSUME NEW r \in Entries, r # q PROVE Held(r)' <=> Held(r)
      <3>1. timer'[t].q # r /\ timer[t].q # r
        BY <1>2, <2>1, NoEntries DEF q
      <3> QED BY <1>2, <3>1 DEF Held
    <2>2. q \in slab /\ (Queued(q) \/ \E u \in Timers : timer'[u].q = q)
      <3>1. Held(q)
        BY DEF Held, q
      <3>2. ~ Queued(q) => \E u \in Timers : timer'[u].q = q
        BY <1>2
      <3> QED BY <1>0, <3>1, <3>2 DEF QInv, InUse
    <2>3. \A r \in Entries : r = q => (r \in slab' <=> Queued(r)' \/ Held(r)')
      BY <1>0, <1>5, <2>2 DEF Held
    <2> QED BY <1>0, <1>5, <2>1, <2>3 DEF QInv, InUse
  <1>8. Marked'
    <2>1. ASSUME NEW u \in Timers, timer'[u].at = "armed"
          PROVE  timer'[u].q \in PREALLOC' /\ entry'[timer'[u].q].sig = TimerSig
      <3>1. u # t /\ timer'[u] = timer[u]
        BY <1>2, <2>1
      <3>2. timer[u].q \in PREALLOC /\ entry[timer[u].q].sig = TimerSig
        BY <2>1, <3>1 DEF QInv, Marked
      <3> QED BY <1>0, <1>3, <3>1, <3>2
    <2>2. ASSUME NEW u \in Timers, timer'[u].at = "freeing"
          PROVE  timer'[u].q \notin PREALLOC' /\ ~ Queued(timer'[u].q)
      <3>1. CASE u = t
        BY <1>0, <1>2, <2>2, <3>1
      <3>2. CASE u # t
        <4>1. timer'[u] = timer[u] /\ timer[u].at = "freeing"
          BY <1>2, <2>2, <3>2
        <4>2. timer[u].q \notin PREALLOC /\ ~ Queued(timer[u].q)
          BY <4>1 DEF QInv, Marked
        <4> QED BY <1>0, <4>1, <4>2
      <3> QED BY <3>1, <3>2
    <2>3. ASSUME NEW r \in PREALLOC'
          PROVE  \E u \in Timers : timer'[u].at = "armed" /\ timer'[u].q = r
      <3>1. r \in PREALLOC /\ r # q
        BY <1>0, <2>3
      <3>2. PICK u \in Timers : timer[u].at = "armed" /\ timer[u].q = r
        BY <3>1 DEF QInv, Marked
      <3>3. u # t
        BY <3>1, <3>2 DEF q
      <3> QED BY <1>2, <3>2, <3>3
    <2> QED BY <1>0, <2>1, <2>2, <2>3 DEF Marked, Queued
  <1>9. Charged'
    <2>1. timer[t].at # "alloc" /\ timer'[t].at # "alloc"
      BY <1>0, <1>2
    <2>2. \A u \in Timers : timer'[u].at = "alloc" <=> timer[u].at = "alloc"
      BY <1>2, <2>1
    <2>3. Counting' = Counting
      BY <1>0, <2>2 DEF Counting
    <2> QED BY <1>0, <2>3 DEF QInv, Charged
  <1>10. OnePlace' /\ AtLeastOne' /\ QueuedIsPending' /\ FirstInFirstOut'
    BY <1>0 DEF QInv, OnePlace, AtLeastOne, QueuedIsPending, FirstInFirstOut, Info
  <1> QED BY <1>4, <1>6, <1>7, <1>8, <1>9, <1>10 DEF QInv

LEMMA FreeUnlockedKeeps ==
  ASSUME QInv, NEW t \in Timers, FreeUnlocked(t)
  PROVE  QInv'
  <1> DEFINE q == timer[t].q
  <1>0. /\ Types /\ timer[t].at = "freeing" /\ q \in Entries /\ q \notin PREALLOC
        /\ ~ Queued(q) /\ GiveBack({q}) /\ timer' = [timer EXCEPT ![t] = NoTimer]
        /\ timer \in [Timers -> TimerStates]
        /\ UNCHANGED <<PREALLOC, list, signal, send, sends, owed, due>>
    BY TimerHas DEF FreeUnlocked, QInv, Marked, Types, queues, TimerStates
  <1>1. /\ timer' \in [Timers -> TimerStates]
        /\ \A u \in Timers \ {t} : timer'[u] = timer[u]
        /\ timer'[t].at = "none" /\ timer'[t].q = NoEntry
    BY <1>0 DEF TimerStates, NoTimer
  <1>2. \A u \in Timers \ {t} : timer[u].q # q
    BY <1>0 DEF QInv, OneHolder
  <1>3. q \in slab
    <2>1. Held(q)
      BY DEF Held
    <2> QED BY <1>0, <2>1 DEF QInv, InUse
  <1>4. /\ slab' = slab \ {q} /\ sigpending' = sigpending - 1
        /\ entry' = [r \in Entries |-> IF r = q THEN Blank ELSE entry[r]]
    <2>1. Freed({q}) = {q} /\ Cardinality({q}) = 1
      BY <1>0, FS_Singleton DEF Freed
    <2> HIDE DEF q
    <2> QED BY <1>0, <2>1 DEF GiveBack
  <1>5. timer[t].q = q
    OBVIOUS
  <1> HIDE DEF q
  <1>6. Types'
    <2>1. Blank \in [sig : Sigs \cup {0}, code : Codes, val : Nat, overrun : Nat]
      BY DEF Blank, Codes
    <2>2. entry' \in [Entries -> [sig : Sigs \cup {0}, code : Codes, val : Nat,
                                  overrun : Nat]]
      BY <1>0, <1>4, <2>1 DEF Types
    <2>3. slab' \in SUBSET Entries /\ sigpending' \in Int
      BY <1>0, <1>4 DEF Types
    <2> QED BY <1>0, <1>1, <2>2, <2>3 DEF Types, TimerStates
  <1>7. \A d \in Queues : \A r \in Range(list[d]) : r \in Entries /\ r # q /\ entry'[r] = entry[r]
    <2>1. \A d \in Queues : \A r \in Range(list[d]) : r \in Entries /\ r # q
      BY <1>0, FifoPlaces DEF Queued, Range
    <2> QED BY <1>4, <2>1
  <1>8. OneHolder'
    BY <1>0, <1>1, NoEntries DEF QInv, OneHolder
  <1>9. InUse'
    <2>1. ASSUME NEW r \in Entries PROVE Held(r)' <=> Held(r) /\ r # q
      <3>1. ASSUME Held(r)' PROVE Held(r) /\ r # q
        <4>1. PICK u \in Timers : timer'[u].q = r
          BY <3>1 DEF Held
        <4>2. u # t
          BY <1>1, <4>1, NoEntries
        <4> QED BY <1>1, <1>2, <4>1, <4>2 DEF Held
      <3>2. ASSUME Held(r), r # q PROVE Held(r)'
        <4>1. PICK u \in Timers : timer[u].q = r
          BY <3>2 DEF Held
        <4>2. u # t
          BY <1>5, <3>2, <4>1
        <4> QED BY <1>1, <4>1, <4>2 DEF Held
      <3> QED BY <3>1, <3>2
    <2>2. \A r \in Entries : Queued(r)' <=> Queued(r)
      BY <1>0 DEF Queued
    <2> QED BY <1>0, <1>4, <2>1, <2>2 DEF QInv, InUse
  <1>10. Marked'
    <2>1. ASSUME NEW u \in Timers, timer'[u].at \in {"armed", "freeing"}
          PROVE  u # t /\ timer'[u] = timer[u] /\ timer[u].q # q /\ timer[u].q \in Entries
      BY <1>0, <1>1, <1>2, <2>1, TimerHas
    <2>2. ASSUME NEW u \in Timers, timer'[u].at = "armed"
          PROVE  timer'[u].q \in PREALLOC /\ entry'[timer'[u].q].sig = TimerSig
      <3>1. timer'[u] = timer[u] /\ timer[u].q # q /\ timer[u].q \in Entries
        BY <2>1, <2>2
      <3>2. timer[u].q \in PREALLOC /\ entry[timer[u].q].sig = TimerSig
        BY <2>2, <3>1 DEF QInv, Marked
      <3> QED BY <1>4, <3>1, <3>2
    <2>3. ASSUME NEW u \in Timers, timer'[u].at = "freeing"
          PROVE  timer'[u].q \notin PREALLOC /\ ~ Queued(timer'[u].q)
      BY <2>1, <2>3 DEF QInv, Marked
    <2>4. ASSUME NEW r \in PREALLOC
          PROVE  \E u \in Timers : timer'[u].at = "armed" /\ timer'[u].q = r
      <3>1. PICK u \in Timers : timer[u].at = "armed" /\ timer[u].q = r
        BY DEF QInv, Marked
      <3>2. u # t
        BY <1>0, <3>1
      <3> QED BY <1>1, <3>1, <3>2
    <2> QED BY <1>0, <2>2, <2>3, <2>4 DEF Marked, Queued
  <1>11. Charged'
    <2>1. \A u \in Timers : timer'[u].at = "alloc" <=> timer[u].at = "alloc"
      BY <1>0, <1>1
    <2>2. Counting' = Counting
      BY <1>0, <2>1 DEF Counting
    <2>3. Cardinality(slab') = Cardinality(slab) - 1
      BY <1>0, <1>3, <1>4, CountsFinite, FS_RemoveElement
    <2> QED BY <1>0, <1>4, <2>2, <2>3, CountsFinite, CountingFinite DEF QInv, Charged
  <1>12. OnePlace' /\ AtLeastOne'
    BY <1>0 DEF QInv, OnePlace, AtLeastOne
  <1>13. QueuedIsPending'
    BY <1>0, <1>7 DEF QInv, QueuedIsPending
  <1>14. FirstInFirstOut'
    BY <1>0, <1>7 DEF QInv, FirstInFirstOut, Info, Range
  <1> QED BY <1>6, <1>8, <1>9, <1>10, <1>11, <1>12, <1>13, <1>14 DEF QInv

-----------------------------------------------------------------------------
(* Every step keeps the invariant. *)
LEMMA QueueStep == QInv /\ [Next]_vars => QInv'
  <1> SUFFICES ASSUME QInv, [Next]_vars PROVE QInv'
    OBVIOUS
  <1>1. ASSUME NEW s \in Senders, NEW c \in Queues, NEW sig \in Sigs, NEW info \in Infos,
               Send(s, c, sig, info)
        PROVE  QInv'
    BY <1>1, SendKeeps
  <1>2. ASSUME NEW s \in Senders, Enqueue(s) PROVE QInv'
    BY <1>2, EnqueueKeeps
  <1>3. ASSUME NEW p \in Procs, NEW sig \in Sigs, dequeue_signal(p, sig) PROVE QInv'
    BY <1>3, DequeueKeeps
  <1>4. ASSUME NEW p \in Procs, NEW sig \in Ignorable, Discard(p, sig) PROVE QInv'
    BY <1>4, DiscardKeeps
  <1>5. ASSUME NEW p \in Procs, flush_signals(p) \/ flush_itimer_signals(p) \/ Exit(p)
        PROVE  QInv'
    BY <1>5, FlushSignalsKeeps, FlushItimerKeeps, ExitKeeps
  <1>6. ASSUME NEW t \in Timers, NEW p \in Procs, CreateTimer(t, p) PROVE QInv'
    BY <1>6, CreateTimerKeeps
  <1>7. ASSUME NEW t \in Timers, NEW kind \in {"private", "shared"}, send_sigqueue(t, kind)
        PROVE  QInv'
    BY <1>7, TimerExpiresKeeps
  <1>8. ASSUME NEW t \in Timers, sigqueue_alloc(t) \/ sigqueue_free(t) \/ FreeUnlocked(t)
        PROVE  QInv'
    BY <1>8, TimerAllocKeeps, TimerDeleteKeeps, FreeUnlockedKeeps
  <1>9. CASE UNCHANGED vars
    <2>1. /\ UNCHANGED <<slab, entry, PREALLOC, list, owed, timer>>
          /\ UNCHANGED <<sigpending, signal, send, sends, due>>
      BY <1>9 DEF vars, queues
    <2>2. OnePlace' /\ OneHolder' /\ InUse' /\ Marked' /\ QueuedIsPending' /\ FirstInFirstOut'
      BY <2>1, QueuesAlone
    <2>3. Types' /\ Charged' /\ AtLeastOne'
      BY <2>1 DEF QInv, Types, Charged, Counting, AtLeastOne
    <2> QED BY <2>2, <2>3 DEF QInv
  <1> QED BY <1>1, <1>2, <1>3, <1>4, <1>5, <1>6, <1>7, <1>8, <1>9 DEF Next

LEMMA QueueInvariant == Spec => []QInv
  BY InitQueue, QueueStep, PTL DEF Spec

(* A set in which any two elements are the same has at most one.           *)
LEMMA AtMostOne ==
  ASSUME NEW S, \A x, y \in S : x = y
  PROVE  IsFiniteSet(S) /\ Cardinality(S) <= 1
  <1>1. CASE S = {}
    BY <1>1, FS_EmptySet
  <1>2. CASE S # {}
    <2>1. PICK x \in S : TRUE
      BY <1>2
    <2>2. S = {x}
      <3>1. \A y \in S : y = x
        OBVIOUS
      <3> QED BY <2>1, <3>1
    <2>3. IsFiniteSet({x}) /\ Cardinality({x}) = 1
      BY FS_Singleton
    <2> QED BY <2>2, <2>3
  <1> QED BY <1>1, <1>2

-----------------------------------------------------------------------------
(* An entry has one place among those that Places looks at: a queue is not *)
(* longer than there are entries.                                          *)
LEMMA PlacesOf ==
  ASSUME QInv, NEW q \in Entries
  PROVE  /\ Places(q) # {} <=> Queued(q)
         /\ IsFiniteSet(Places(q)) /\ Cardinality(Places(q)) <= 1
  <1>0. OnePlace /\ IsFiniteSet(Entries)
    BY NoEntries DEF QInv
  <1>1. ASSUME NEW c \in Queues
        PROVE  DOMAIN list[c] \subseteq 1 .. Cardinality(Entries)
    <2> DEFINE n == Len(list[c])
    <2>1. list[c] \in Seq(Entries) /\ DOMAIN list[c] = 1 .. n /\ n \in Nat
      BY FifoPlaces
    <2>2. list[c] \in Injection(1 .. n, Entries)
      <3>1. list[c] \in [1 .. n -> Entries]
        BY <2>1
      <3>2. \A i, j \in 1 .. n : list[c][i] = list[c][j] => i = j
        BY <1>0, <2>1 DEF OnePlace
      <3> HIDE DEF n
      <3> QED BY <3>1, <3>2 DEF Injection, IsInjective
    <2>3. Cardinality(1 .. n) = n
      BY <2>1, FS_Interval
    <2>4. n <= Cardinality(Entries) /\ Cardinality(Entries) \in Nat
      <3> HIDE DEF n
      <3> QED BY <1>0, <2>2, <2>3, FS_Injection, FS_CardinalityType
    <2> HIDE DEF n
    <2> QED BY <2>1, <2>4
  <1>2. \A v, w \in Places(q) : v = w
    <2> SUFFICES ASSUME NEW v \in Places(q), NEW w \in Places(q) PROVE v = w
      OBVIOUS
    <2>1. /\ v = <<v[1], v[2]>> /\ v[1] \in Queues /\ v[2] \in DOMAIN list[v[1]]
          /\ w = <<w[1], w[2]>> /\ w[1] \in Queues /\ w[2] \in DOMAIN list[w[1]]
          /\ list[v[1]][v[2]] = list[w[1]][w[2]]
      BY DEF Places
    <2>2. v[1] = w[1] /\ v[2] = w[2]
      BY <1>0, <2>1 DEF OnePlace
    <2> QED BY <2>1, <2>2
  <1>3. Places(q) # {} <=> Queued(q)
    <2>1. ASSUME Queued(q) PROVE Places(q) # {}
      <3>1. PICK c \in Queues : q \in Range(list[c])
        BY <2>1 DEF Queued
      <3>2. PICK i \in DOMAIN list[c] : list[c][i] = q
        BY <3>1 DEF Range
      <3>3. <<c, i>> \in Places(q)
        BY <1>1, <3>2 DEF Places
      <3> QED BY <3>3
    <2>2. ASSUME NEW w \in Places(q) PROVE Queued(q)
      <3>1. w[1] \in Queues /\ w[2] \in DOMAIN list[w[1]] /\ list[w[1]][w[2]] = q
        BY DEF Places
      <3> QED BY <3>1 DEF Queued, Range
    <2> QED BY <2>1, <2>2
  <1>4. IsFiniteSet(Places(q)) /\ Cardinality(Places(q)) <= 1
    BY <1>2, AtMostOne
  <1> QED BY <1>3, <1>4

LEMMA OwnedByInvariant == QInv => EntryOwned
  <1> SUFFICES ASSUME QInv PROVE EntryOwned
    OBVIOUS
  <1>0. Types /\ OneHolder /\ InUse /\ Marked /\ Charged
    BY DEF QInv
  <1>1. ASSUME NEW q \in Entries
        PROVE  /\ Cardinality(Places(q)) <= 1 /\ Cardinality(Holders(q)) <= 1
               /\ q \in slab <=> Places(q) # {} \/ Holders(q) # {}
               /\ Places(q) # {} /\ Holders(q) # {} => q \in PREALLOC
    <2>1. (Places(q) # {} <=> Queued(q)) /\ Cardinality(Places(q)) <= 1
      BY PlacesOf
    <2>2. Holders(q) # {} <=> Held(q)
      BY DEF Holders, Held
    <2>3. Cardinality(Holders(q)) <= 1
      <3>1. \A t, u \in Holders(q) : t = u
        BY <1>0 DEF Holders, OneHolder
      <3> QED BY <3>1, AtMostOne
    <2>4. ASSUME Queued(q), Held(q) PROVE q \in PREALLOC
      <3>1. PICK t \in Timers : timer[t].q = q
        BY <2>4 DEF Held
      <3>2. timer[t].at \in {"armed", "freeing"}
        BY <1>0, <3>1, TimerHas
      <3> QED BY <1>0, <2>4, <3>1, <3>2 DEF Marked
    <2> QED BY <1>0, <2>1, <2>2, <2>3, <2>4 DEF InUse
  <1> QED BY <1>0, <1>1 DEF EntryOwned, Charged

-----------------------------------------------------------------------------
(* No sigqueue entry is lost, freed twice (by a timer that is deleted      *)
(* without the siglock, and by whoever takes or flushes its signal) or     *)
(* left out of user->sigpending.                                           *)
THEOREM SignalQueueEntryOwned == Spec => []EntryOwned
  BY QueueInvariant, OwnedByInvariant, PTL

(* Whatever collect_signal and the flushes take out, the signal of every   *)
(* entry that stays is in the set that next_signal looks at.               *)
THEOREM SignalQueueQueuedIsPending == Spec => []QueuedIsPending
  BY QueueInvariant, PTL DEF QInv

(* collect_signal hands over the siginfos of a signal in the order in      *)
(* which __send_signal accepted them, each once.                           *)
THEOREM SignalQueueFirstInFirstOut == Spec => []FirstInFirstOut
  BY QueueInvariant, PTL DEF QInv

(* A signal that __send_signal did not refuse is pending until one of its  *)
(* number is taken or it is flushed, at the limit and without memory too.  *)
THEOREM SignalQueueAtLeastOne == Spec => []AtLeastOne
  BY QueueInvariant, PTL DEF QInv

(* The count that __sigqueue_alloc raises before it compares it keeps the  *)
(* processes of a user below RLIMIT_SIGPENDING, although they share no     *)
(* lock.                                                                   *)
THEOREM SignalQueueWithinLimit == Spec => WithinLimit
  <1> DEFINE Within == \A s \in Senders :
                 /\ send[s].at = "alloc" /\ send'[s] = Idle
                 /\ ~ override_rlimit(send[s].sig, send[s].info)
                 /\ slab' # slab
                 => Cardinality(slab') <= Limit
  <1>1. QInv /\ [Next]_vars => Within
    <2> SUFFICES ASSUME QInv, [Next]_vars, NEW s \in Senders, send[s].at = "alloc",
                        send'[s] = Idle, ~ override_rlimit(send[s].sig, send[s].info),
                        slab' # slab
                 PROVE  Cardinality(slab') <= Limit
      OBVIOUS
    <2>1. send[s] # Idle /\ send'[s] # send[s]
      BY DEF Idle
    <2>2. Enqueue(s)
      <3>0. send \in [Senders -> {Idle} \cup [at : {"alloc"}, to : Queues, sig : Sigs,
                                              info : Infos, val : Nat]]
        BY DEF QInv, Types
      <3>1. ASSUME NEW r \in Senders, NEW c, NEW sig, NEW info, Send(r, c, sig, info)
            PROVE  FALSE
        BY <2>1, <3>0, <3>1 DEF Send
      <3>2. ASSUME NEW r \in Senders, Enqueue(r) PROVE r = s
        BY <2>1, <3>0, <3>2 DEF Enqueue
      <3>3. send' # send
        BY <2>1
      <3> QED BY <3>1, <3>2, <3>3
              DEF Next, dequeue_signal, Discard, flush_signals, flush_itimer_signals, Exit,
                  CreateTimer, send_sigqueue, sigqueue_alloc, sigqueue_free, FreeUnlocked, vars
    <2>3. PICK q \in Allocated(FALSE) : q # NoEntry /\ slab' = slab \cup {q}
      <3>1. PICK q \in Allocated(override_rlimit(send[s].sig, send[s].info)) :
                IF q = NoEntry THEN slab' = slab ELSE slab' = slab \cup {q}
        BY <2>2 DEF Enqueue
      <3>2. q \in Allocated(FALSE)
        BY <3>1 DEF Allocated
      <3> QED BY <3>1, <3>2
    <2>4. sigpending <= Limit
      BY <2>3 DEF Allocated, Fits
    <2>5. Cardinality(slab') = Cardinality(slab) + 1
      BY <2>3, FreeEntry
    <2>6. Cardinality(Counting) # 0
      <3>1. s \in Counting
        BY DEF Counting
      <3> QED BY <3>1, CountingFinite, FS_EmptySet
    <2>7. sigpending = Cardinality(slab) + Cardinality(Counting) /\ Types
      BY DEF QInv, Charged
    <2> QED BY <2>4, <2>5, <2>6, <2>7, CountsFinite, CountingFinite, LimitAssumption
  <1>2. QInv /\ [Next]_vars => [Within]_vars
    BY <1>1
  <1> QED BY <1>2, QueueInvariant, PTL DEF Spec, WithinLimit
=============================================================================
