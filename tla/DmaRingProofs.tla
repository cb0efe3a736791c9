---------------------------- MODULE DmaRingProofs ----------------------------
(***************************************************************************)
(* Proofs about DmaRing, for every ring of at least two slots, every set   *)
(* of callers and sizes, and every set of disturbances; then what a lone,  *)
(* undisturbed caller of START_DMA can rely on, and that for it the ring   *)
(* implements the queue of DmaQueue.                                       *)
(***************************************************************************)
EXTENDS DmaRefinement, SequenceTheorems, TLAPS

(* fill = (fill+1) % BUFFERS moves an index to the next slot, around the   *)
(* end of the ring.                                                        *)
LEMMA NextSlotValue ==
  ASSUME NEW s \in Slots
  PROVE  /\ NextSlot(s) \in Slots
         /\ NextSlot(s) = IF s = BUFFERS - 1 THEN 0 ELSE s + 1
  <1>1. s \in Int /\ 0 <= s /\ s < BUFFERS /\ BUFFERS \in Nat /\ BUFFERS > 1
    BY BuffersAssumption DEF Slots
  <1>2. CASE s = BUFFERS - 1
    <2>1. s + 1 = BUFFERS
      BY <1>1, <1>2
    <2>2. BUFFERS % BUFFERS = 0
      BY <1>1
    <2> QED
      BY <1>1, <1>2, <2>1, <2>2 DEF NextSlot, Slots
  <1>3. CASE s # BUFFERS - 1
    <2>1. s + 1 \in 0 .. BUFFERS - 1
      BY <1>1, <1>3
    <2>2. (s + 1) % BUFFERS = s + 1
      BY <1>1, <2>1
    <2> QED
      BY <1>1, <1>3, <2>1, <2>2 DEF NextSlot, Slots
  <1> QED
    BY <1>2, <1>3

-----------------------------------------------------------------------------
(* TypeOK is inductive on its own: every value of the ring, of the callers *)
(* and of the card stays in its range, the ring indices because they wrap. *)
LEMMA TypeOKInductive == TypeOK /\ [Next]_vars => TypeOK'
  <1> SUFFICES ASSUME TypeOK, [Next]_vars
               PROVE  TypeOK'
    OBVIOUS
  <1> USE BuffersAssumption, SizesAssumption
  <1>a. NextSlot(fill) \in Slots /\ NextSlot(drain) \in Slots
    BY NextSlotValue DEF TypeOK
  <1>1. ASSUME NEW p \in Procs, CopyFromUser(p) PROVE TypeOK'
    BY <1>1 DEF CopyFromUser, TypeOK, SizeValues, Goto, ring, card, irq
  <1>2. ASSUME NEW p \in Procs, Call(p) PROVE TypeOK'
    BY <1>2 DEF Call, TypeOK, SizeValues, Goto, ring, card, irq
  <1>3. ASSUME NEW p \in Procs, Suspend(p) PROVE TypeOK'
    BY <1>3 DEF Suspend, TypeOK, Goto, ring, card, irq
  <1>4. ASSUME NEW p \in Procs, StartCard(p) PROVE TypeOK'
    BY <1>4, <1>a DEF StartCard, Queue, Program, TypeOK, Goto, irq
  <1>5. ASSUME NEW p \in Procs, QueueBehind(p) PROVE TypeOK'
    BY <1>5, <1>a DEF QueueBehind, Queue, TypeOK, Goto, card, irq
  <1>6. ASSUME NEW p \in Procs, WaitEvent(p) PROVE TypeOK'
    BY <1>6 DEF WaitEvent, TypeOK, Goto, ring, card, irq
  <1>7. ASSUME NEW p \in Procs, Interrupted(p) PROVE TypeOK'
    BY <1>7 DEF Interrupted, TypeOK, Goto, ring, card, irq
  <1>8. ASSUME NEW p \in Procs, QueueAfterWait(p) PROVE TypeOK'
    BY <1>8, <1>a DEF QueueAfterWait, Queue, TypeOK, Goto, card, irq
  <1>9. ASSUME NEW p \in Procs, CopyToUser(p) PROVE TypeOK'
    BY <1>9 DEF CopyToUser, TypeOK, Goto, ring, card, irq
  <1>10. CASE CardDone
    BY <1>10 DEF CardDone, TypeOK, ring, proc, irq
  <1>11. CASE ReadStatus
    BY <1>11 DEF ReadStatus, TypeOK, ring, proc, card
  <1>12. CASE Acknowledge
    BY <1>12 DEF Acknowledge, TypeOK, ring, proc
  <1>13. CASE Handle
    <2>1. CASE RingEmpty
      BY <1>13, <2>1 DEF Handle, TypeOK, ring, card, proc
    <2>2. CASE ~ RingEmpty
      BY <1>13, <2>2, <1>a DEF Handle, Retire, Program, TypeOK, card, proc
    <2> QED
      BY <2>1, <2>2
  <1>14. CASE WakeUp
    BY <1>14 DEF WakeUp, TypeOK, ring, card
  <1>15. CASE UNCHANGED vars
    BY <1>15 DEF vars, TypeOK, ring, proc, card, irq
  <1> QED
    BY <1>1, <1>2, <1>3, <1>4, <1>5, <1>6, <1>7, <1>8, <1>9, <1>10, <1>11,
       <1>12, <1>13, <1>14, <1>15 DEF Next, Kernel, Handler

(* The type invariant holds in every reachable state. *)
THEOREM TypeCorrect == Spec => []TypeOK
  <1>1. Init => TypeOK
    BY BuffersAssumption DEF Init, TypeOK, Slots, SizeValues
  <1> QED
    BY <1>1, TypeOKInductive, PTL DEF Spec


-----------------------------------------------------------------------------
(* A handler that has read the done bit still finds it set when it         *)
(* acknowledges: nothing else clears it.                                   *)
AckSeesDone == irqpc = "ack" /\ flags = 1 => status = 1

(* The inductive invariant of the ring.  OneTransferAtATime is not         *)
(* inductive without CarriesOldest: it is because the whole window is full *)
(* while a transfer is in flight that no caller can take the ring for      *)
(* empty and write the registers a second time.                            *)
RingInv == TypeOK /\ AckSeesDone /\ OneTransferAtATime /\ CarriesOldest

(* In the window of slots from drain to fill, drain always is. *)
LEMMA DrainInWindow == TypeOK => drain \in Slots /\ InWindow(drain)
  BY BuffersAssumption DEF TypeOK, InWindow, Slots

(* Moving fill on adds the old fill to the window and nothing else. *)
LEMMA FillGrowsWindow ==
  ASSUME TypeOK, drain' = drain, fill' = NextSlot(fill),
         NEW s \in Slots, InWindow(s)'
  PROVE  s = fill \/ InWindow(s)
  <1>1. fill' = IF fill = BUFFERS - 1 THEN 0 ELSE fill + 1
    BY NextSlotValue DEF TypeOK
  <1> QED
    BY <1>1, BuffersAssumption DEF TypeOK, Slots, InWindow

(* Moving drain on, to another slot than fill, only takes the old drain    *)
(* out of the window; so it does from a full ring.                         *)
LEMMA DrainShrinksWindow ==
  ASSUME TypeOK, fill' = fill, drain' = NextSlot(drain),
         fill' # drain',
         NEW s \in Slots, InWindow(s)'
  PROVE  s # drain /\ InWindow(s)
  <1>1. drain' = IF drain = BUFFERS - 1 THEN 0 ELSE drain + 1
    BY NextSlotValue DEF TypeOK
  <1> QED
    BY <1>1, BuffersAssumption DEF TypeOK, Slots, InWindow

(* Queueing a request, without touching card or handler, keeps the         *)
(* invariant, even when it overwrites a slot that is still full.           *)
LEMMA QueueKeepsRing ==
  ASSUME RingInv, TypeOK', NEW p \in Procs, Queue(p), UNCHANGED <<card, irq>>
  PROVE  RingInv'
  <1>1. AckSeesDone' /\ OneTransferAtATime'
    BY DEF RingInv, AckSeesDone, OneTransferAtATime, card, irq
  <1>2. ASSUME NEW s \in Slots, InFlight', InWindow(s)'
        PROVE  isFull'[s] = 1
    <2>1. InFlight
      BY <1>2 DEF InFlight, card, irq
    <2>2. s = fill \/ InWindow(s)
      BY <1>2, FillGrowsWindow DEF RingInv, Queue
    <2> QED
      BY <2>1, <2>2 DEF RingInv, CarriesOldest, Queue, TypeOK
  <1>3. InFlight' => addr' = drain'
    BY DEF RingInv, CarriesOldest, InFlight, Queue, card, irq
  <1> QED
    BY <1>1, <1>2, <1>3 DEF RingInv, CarriesOldest

(* A step that leaves the ring, the card and the handler alone. *)
LEMMA ElsewhereKeepsRing ==
  ASSUME RingInv, TypeOK', UNCHANGED <<ring, card, irq>>
  PROVE  RingInv'
  BY DEF RingInv, AckSeesDone, OneTransferAtATime, CarriesOldest, InFlight,
         InWindow, ring, card, irq

(* No step of a caller, of the card or of the handler breaks RingInv. *)
LEMMA RingInvInductive == RingInv /\ [Next]_vars => RingInv'
  <1> SUFFICES ASSUME RingInv, [Next]_vars
               PROVE  RingInv'
    OBVIOUS
  <1>t. TypeOK /\ TypeOK'
    BY TypeOKInductive DEF RingInv
  <1>1. ASSUME NEW p \in Procs,
               CopyFromUser(p) \/ Call(p) \/ Suspend(p) \/ WaitEvent(p)
                 \/ Interrupted(p) \/ CopyToUser(p)
        PROVE  RingInv'
    <2>1. UNCHANGED <<ring, card, irq>>
      BY <1>1 DEF CopyFromUser, Call, Suspend, WaitEvent, Interrupted,
                  CopyToUser
    <2> QED
      BY <2>1, <1>t, ElsewhereKeepsRing
  <1>2. ASSUME NEW p \in Procs, QueueBehind(p) \/ QueueAfterWait(p)
        PROVE  RingInv'
    BY <1>2, <1>t, QueueKeepsRing DEF QueueBehind, QueueAfterWait
  <1>3. ASSUME NEW p \in Procs, StartCard(p)
        PROVE  RingInv'
    <2>1. ~ InFlight
      BY <1>3, <1>t, DrainInWindow
      DEF StartCard, RingEmpty, RingInv, CarriesOldest
    <2>2. AckSeesDone' /\ OneTransferAtATime'
      BY <1>3, <1>t, <2>1 DEF StartCard, Program, RingInv, AckSeesDone,
         OneTransferAtATime, InFlight, TypeOK, irq
    <2>3. ASSUME NEW s \in Slots, InWindow(s)'
          PROVE  isFull'[s] = 1
      <3>1. fill' = IF fill = BUFFERS - 1 THEN 0 ELSE fill + 1
        BY <1>3, <1>t, NextSlotValue DEF StartCard, Queue, TypeOK
      <3>2. s = fill
        BY <1>3, <1>t, <2>3, <3>1, BuffersAssumption
        DEF StartCard, RingEmpty, Queue, InWindow, TypeOK, Slots
      <3> QED
        BY <1>3, <1>t, <3>2 DEF StartCard, Queue, TypeOK
    <2>4. addr' = drain'
      BY <1>3 DEF StartCard, RingEmpty, Queue, Program
    <2> QED
      BY <1>t, <2>2, <2>3, <2>4 DEF RingInv, CarriesOldest
  <1>4. CASE CardDone
    <2>1. InFlight /\ busy = 1 /\ status = 0 /\ irqpc # "lock"
      BY <1>4, <1>t DEF CardDone, InFlight, RingInv, OneTransferAtATime, TypeOK
    <2>2. AckSeesDone' /\ OneTransferAtATime'
      BY <1>4, <1>t, <2>1 DEF CardDone, AckSeesDone, OneTransferAtATime, irq
    <2> QED
      BY <1>4, <1>t, <2>1, <2>2
      DEF CardDone, RingInv, CarriesOldest, InWindow, ring
  <1>5. CASE ReadStatus
    BY <1>5, <1>t DEF ReadStatus, RingInv, AckSeesDone, OneTransferAtATime,
       CarriesOldest, InFlight, InWindow, ring, card
  <1>6. CASE Acknowledge
    <2>1. AckSeesDone'
      BY <1>6 DEF Acknowledge, AckSeesDone
    <2>2. OneTransferAtATime' /\ (InFlight' => InFlight)
      BY <1>6, <1>t DEF Acknowledge, RingInv, AckSeesDone, OneTransferAtATime,
         InFlight, TypeOK
    <2> QED
      BY <1>6, <1>t, <2>1, <2>2
      DEF Acknowledge, RingInv, CarriesOldest, InWindow, ring
  <1>7. CASE Handle
    <2>1. InFlight /\ busy = 0 /\ status = 0 /\ irqpc = "lock"
      BY <1>7, <1>t DEF Handle, InFlight, RingInv, OneTransferAtATime, TypeOK
    <2>2. ~ RingEmpty
      BY <1>t, <2>1, DrainInWindow DEF RingEmpty, RingInv, CarriesOldest
    <2>3. Retire /\ irqpc' # "lock" /\ irqpc' # "ack"
      BY <1>7, <2>2 DEF Handle
    <2>4. CASE RingFull \/ fill # drain'
      <3>1. Program(drain', count[drain'])
        BY <1>7, <2>2, <2>4 DEF Handle
      <3>2. AckSeesDone' /\ OneTransferAtATime'
        BY <2>1, <2>3, <3>1 DEF Program, AckSeesDone, OneTransferAtATime
      <3>3. fill' # drain'
        <4>1. drain' = IF drain = BUFFERS - 1 THEN 0 ELSE drain + 1
          BY <1>t, <2>3, NextSlotValue DEF Retire, TypeOK
        <4> QED
          BY <1>t, <2>3, <2>4, <4>1, BuffersAssumption
          DEF RingFull, Retire, TypeOK, Slots
      <3>4. ASSUME NEW s \in Slots, InWindow(s)'
            PROVE  isFull'[s] = 1
        <4>1. s # drain /\ InWindow(s)
          BY <1>t, <2>3, <3>3, <3>4, DrainShrinksWindow DEF Retire
        <4> QED
          BY <1>t, <2>1, <2>3, <4>1 DEF RingInv, CarriesOldest, Retire, TypeOK
      <3> QED
        BY <1>t, <3>1, <3>2, <3>4 DEF Program, RingInv, CarriesOldest
    <2>5. CASE ~ (RingFull \/ fill # drain')
      <3>1. UNCHANGED card
        BY <1>7, <2>2, <2>5 DEF Handle
      <3>2. ~ InFlight' /\ AckSeesDone' /\ OneTransferAtATime'
        BY <2>1, <2>3, <3>1 DEF InFlight, AckSeesDone, OneTransferAtATime, card
      <3> QED
        BY <1>t, <3>2 DEF RingInv, CarriesOldest
    <2> QED
      BY <2>4, <2>5
  <1>8. CASE WakeUp
    BY <1>8, <1>t DEF WakeUp, RingInv, AckSeesDone, OneTransferAtATime,
       CarriesOldest, InFlight, InWindow, ring, card
  <1>9. CASE UNCHANGED vars
    BY <1>9, <1>t, ElsewhereKeepsRing DEF vars
  <1> QED
    BY <1>1, <1>2, <1>3, <1>4, <1>5, <1>6, <1>7, <1>8, <1>9
    DEF Next, Kernel, Handler

(* RingInv holds in every reachable state. *)
LEMMA RingInvInvariant == Spec => []RingInv
  <1>1. Init => RingInv
    BY BuffersAssumption
    DEF Init, RingInv, TypeOK, AckSeesDone, OneTransferAtATime, CarriesOldest,
        InFlight, Slots, SizeValues
  <1> QED
    BY <1>1, RingInvInductive, PTL DEF Spec

(* The card is never given a transfer while it has one: for every number   *)
(* of callers, every size of ring, with interrupted waits, shared          *)
(* interrupt lines and failed copies.                                      *)
THEOREM CardHasOneTransfer == Spec => []OneTransferAtATime
  BY RingInvInvariant, PTL DEF RingInv

(* What the card carries is the oldest request of the ring. *)
THEOREM CardCarriesOldest == Spec => []CarriesOldest
  BY RingInvInvariant, PTL DEF RingInv

(* The branch of dma_interrupt marked "Should not come here!!" is dead. *)
THEOREM HandlerFindsRequest == Spec => []NeverComesHere
  <1>1. RingInv => NeverComesHere
    BY DrainInWindow DEF RingInv, NeverComesHere, RingEmpty, CarriesOldest,
       InFlight
  <1> QED
    BY <1>1, RingInvInvariant, PTL

(* The card has at most the one transfer. *)
LEMMA AtMostOneBusy == RingInv => busy \in Nat /\ busy =< 1
  BY DEF RingInv, TypeOK, OneTransferAtATime

(* Nothing the driver does reaches the card in the middle of a transfer. *)
THEOREM CardIsUndisturbed == Spec => CardUndisturbed
  <1>1. ASSUME RingInv, RingInv', [Next]_vars, busy > 0, busy' > 0
        PROVE  addr' = addr /\ config' = config /\ isFull'[addr] = 1
    <2>1. busy = 1 /\ busy' = 1
      <3>1. (RingInv => busy \in Nat /\ busy =< 1)'
        BY AtMostOneBusy, PTL
      <3> QED
        BY <1>1, <3>1, AtMostOneBusy
    <2>2. UNCHANGED <<addr, config>>
      <3>1. ASSUME NEW p \in Procs,
                   CopyFromUser(p) \/ Kernel(p) \/ Interrupted(p)
            PROVE  UNCHANGED <<addr, config>>
        BY <3>1, <2>1 DEF Kernel, CopyFromUser, Call, Suspend, StartCard,
           QueueBehind, WaitEvent, Interrupted, QueueAfterWait, CopyToUser,
           Program, card
      <3>2. CASE Handler
        BY <3>2, <2>1 DEF Handler, ReadStatus, Acknowledge, Handle, WakeUp,
           Program, card
      <3>3. CASE CardDone \/ UNCHANGED vars
        BY <3>3 DEF CardDone, vars, card
      <3> QED
        BY <1>1, <3>1, <3>2, <3>3 DEF Next
    <2>3. isFull'[addr'] = 1
      <3>1. InFlight' /\ TypeOK'
        BY <1>1 DEF InFlight, RingInv
      <3>2. drain' \in Slots /\ InWindow(drain)'
        BY <3>1, BuffersAssumption DEF TypeOK, InWindow, Slots
      <3> QED
        BY <1>1, <3>1, <3>2 DEF RingInv, CarriesOldest, InWindow
    <2> QED
      BY <2>2, <2>3
  <1>2. RingInv /\ RingInv' /\ [Next]_vars
          => [ busy > 0 /\ busy' > 0 => /\ addr' = addr /\ config' = config
                                        /\ isFull'[addr] = 1 ]_vars
    BY <1>1
  <1> QED
    BY <1>2, RingInvInvariant, PTL DEF Spec, CardUndisturbed

-----------------------------------------------------------------------------
(* One caller, no signals, an interrupt line of its own, no failed copies. *)
Solo == Env = {} /\ \E p : Procs = {p}

(* The lone caller is the only process there is. *)
LEMMA SoloCaller == Solo => Procs = {Caller}
  BY DEF Solo, Caller

(* The request inside the driver is the one its caller made. *)
SizeKept ==
    /\ pc[Caller] = "copied" => size = asked[Caller]
    /\ pc[Caller] \in {"lock", "wait", "asleep", "relock"} =>
          numBytes[Caller] = asked[Caller] /\ numBytes[Caller] # 0

(* The registers hold the size of the request that is in flight. *)
ConfigKept == busy > 0 => config = count[drain]

(* Without a shared line the handler only runs to find the done bit set. *)
AckHasDone == irqpc = "ack" => flags = 1

SoloInv ==
    /\ RingInv
    /\ RingExact /\ NoOverwrite /\ OwnSlot
    /\ SizeKept /\ ConfigKept /\ AckHasDone

-----------------------------------------------------------------------------
(* In a ring that is exact and not full, the slot at fill is free. *)
LEMMA FillIsFree ==
  ASSUME TypeOK, RingExact, ~ RingFull
  PROVE  isFull[fill] = 0 /\ ~ (InWindow(fill) /\ fill # drain)
  BY BuffersAssumption DEF TypeOK, RingExact, RingFull, InWindow, Slots

(* Queueing into a free slot keeps the ring exact. *)
LEMMA QueueKeepsExact ==
  ASSUME TypeOK, TypeOK', RingExact, ~ RingFull, NEW p \in Procs, Queue(p)
  PROVE  RingExact'
  <1>1. fill' = IF fill = BUFFERS - 1 THEN 0 ELSE fill + 1
    BY NextSlotValue DEF TypeOK, Queue
  <1>2. isFull' = [isFull EXCEPT ![fill] = 1] /\ drain' = drain
    BY DEF Queue
  <1>3. ASSUME NEW s \in Slots
        PROVE  (InWindow(s))' <=> s = fill \/ (InWindow(s) /\ fill # drain)
    BY <1>1, <1>2, BuffersAssumption DEF TypeOK, InWindow, Slots
  <1>4. isFull[fill] = 0
    BY FillIsFree
  <1>5. fill' = drain' => isFull'[drain'] = 1
    BY <1>1, <1>2, BuffersAssumption DEF TypeOK, RingExact, InWindow, Slots
  <1>6. ASSUME NEW s \in Slots
        PROVE  isFull'[s] = 1 <=>
                 (InWindow(s))' /\ (fill' # drain' \/ isFull'[drain'] = 1)
    <2>1. isFull'[s] = 1 <=> s = fill \/ isFull[s] = 1
      BY <1>2 DEF TypeOK
    <2>2. isFull[s] = 1 <=> InWindow(s) /\ fill # drain
      BY DEF RingExact, RingFull
    <2> QED
      BY <1>3, <1>5, <2>1, <2>2
  <1> QED
    BY <1>6 DEF RingExact

(* Retiring the oldest slot keeps the ring exact. *)
LEMMA RetireKeepsExact ==
  ASSUME TypeOK, TypeOK', RingExact, ~ RingEmpty, Retire
  PROVE  RingExact'
  <1>1. drain' = IF drain = BUFFERS - 1 THEN 0 ELSE drain + 1
    BY NextSlotValue DEF TypeOK, Retire
  <1>2. isFull' = [isFull EXCEPT ![drain] = 0] /\ fill' = fill
    BY DEF Retire
  <1>3. ASSUME NEW s \in Slots, fill' # drain'
        PROVE  (InWindow(s))' <=> s # drain /\ InWindow(s)
    BY <1>1, <1>2, <1>3, BuffersAssumption DEF TypeOK, InWindow, Slots
  <1>4. ASSUME NEW s \in Slots
        PROVE  isFull[s] = 1 <=> InWindow(s)
    BY DEF RingExact, RingEmpty, TypeOK
  <1>5. ASSUME NEW s \in Slots
        PROVE  isFull'[s] = 1 <=> s # drain /\ InWindow(s)
    BY <1>2, <1>4 DEF TypeOK
  <1>6. CASE fill' # drain'
    BY <1>3, <1>5, <1>6 DEF RingExact
  <1>7. CASE fill' = drain'
    <2>1. ASSUME NEW s \in Slots PROVE s # drain => ~ InWindow(s)
      BY <1>1, <1>2, <1>7, BuffersAssumption DEF TypeOK, InWindow, Slots
    <2>2. ASSUME NEW s \in Slots PROVE isFull'[s] # 1
      BY <1>5, <2>1
    <2>3. drain' \in Slots
      BY DEF TypeOK
    <2> QED
      BY <1>7, <2>2, <2>3 DEF RingExact
  <1> QED
    BY <1>6, <1>7

-----------------------------------------------------------------------------
(* A step that leaves the ring and the card alone keeps what SoloInv says  *)
(* of them.                                                                *)
LEMMA RingUntouched ==
  ASSUME RingExact, ConfigKept, UNCHANGED <<ring, card>>
  PROVE  RingExact' /\ ConfigKept'
  BY DEF RingExact, ConfigKept, InWindow, ring, card

(* SoloInv is inductive: the lone caller is the only one to move fill, so  *)
(* what it read of the ring while it waited still holds when it queues.    *)
LEMMA SoloInvInductive ==
  ASSUME Solo
  PROVE  SoloInv /\ [Next]_vars => SoloInv'
  <1> SUFFICES ASSUME SoloInv, [Next]_vars
               PROVE  SoloInv'
    OBVIOUS
  <1> USE DEF SoloInv
  <1>r. RingInv'
    BY RingInvInductive
  <1>t. TypeOK /\ TypeOK'
    BY <1>r DEF RingInv
  <1>p. Procs = {Caller}
    BY SoloCaller
  <1>e. Env = {}
    BY DEF Solo
  <1>o. OwnSlot /\ NoOverwrite
    OBVIOUS
  <1> DEFINE p == Caller
  <1>1. CASE CopyFromUser(p)
    <2>1. UNCHANGED <<ring, card, irq, ubuf>> /\ size' = asked'[p]
      BY <1>1, <1>t, <1>p, <1>e DEF CopyFromUser, TypeOK
    <2>2. pc[p] = "user" /\ pc'[p] = "copied"
      BY <1>1, <1>t, <1>p DEF CopyFromUser, Goto, TypeOK
    <2>3. RingExact' /\ ConfigKept'
      BY <2>1, RingUntouched
    <2>4. NoOverwrite' /\ OwnSlot' /\ SizeKept' /\ AckHasDone'
      BY <1>p, <1>o, <2>1, <2>2
      DEF NoOverwrite, OwnSlot, SizeKept, AckHasDone, ring, irq
    <2> QED
      BY <1>r, <2>3, <2>4
  <1>2. CASE Call(p)
    <2>1. /\ UNCHANGED <<ring, card, irq, ubuf, asked>>
          /\ numBytes'[p] = size
      BY <1>2, <1>t, <1>p DEF Call, TypeOK
    <2>2. /\ pc[p] = "copied"
          /\ pc'[p] = "return" \/ (pc'[p] = "lock" /\ size # 0)
      BY <1>2, <1>t, <1>p DEF Call, Goto, TypeOK
    <2>3. RingExact' /\ ConfigKept'
      BY <2>1, RingUntouched
    <2>4. NoOverwrite' /\ OwnSlot' /\ SizeKept' /\ AckHasDone'
      BY <1>p, <1>o, <2>1, <2>2
      DEF NoOverwrite, OwnSlot, SizeKept, AckHasDone, ring, irq
    <2> QED
      BY <1>r, <2>3, <2>4
  <1>3. CASE Suspend(p) \/ WaitEvent(p)
    <2>1. UNCHANGED <<ring, card, irq, ubuf, asked, numBytes>>
      BY <1>3 DEF Suspend, WaitEvent
    <2>2. /\ pc[p] \in {"lock", "wait"}
          /\ pc'[p] \in {"wait", "asleep"}
             \/ (pc'[p] = "relock" /\ WaitCondition)
      BY <1>3, <1>t, <1>p DEF Suspend, WaitEvent, Goto, TypeOK
    <2>3. RingExact' /\ ConfigKept'
      BY <2>1, RingUntouched
    <2>4. WaitCondition => isFull[fill] = 0
      BY <1>t, FillIsFree DEF WaitCondition, RingFull
    <2>5. NoOverwrite' /\ OwnSlot' /\ SizeKept' /\ AckHasDone'
      BY <1>p, <1>o, <2>1, <2>2, <2>4
      DEF NoOverwrite, OwnSlot, SizeKept, AckHasDone, ring, irq
    <2> QED
      BY <1>r, <2>3, <2>5
  <1>4. CASE Interrupted(p)
    BY <1>4, <1>e DEF Interrupted
  <1>5. CASE StartCard(p) \/ QueueBehind(p) \/ QueueAfterWait(p)
    <2>1. Queue(p) /\ UNCHANGED <<irq, ubuf>> /\ pc'[p] = "return"
      BY <1>5, <1>t, <1>p
      DEF StartCard, QueueBehind, QueueAfterWait, Goto, TypeOK
    <2>2. ~ RingFull
      BY <1>5, <1>p, <1>o
      DEF StartCard, QueueBehind, QueueAfterWait, RingEmpty, RingFull,
          NoOverwrite
    <2>3. RingExact'
      BY <1>t, <1>p, <2>1, <2>2, QueueKeepsExact
    <2>4. ConfigKept'
      <3>1. CASE StartCard(p)
        BY <3>1, <1>t, <1>p
        DEF StartCard, RingEmpty, Queue, Program, ConfigKept, TypeOK
      <3>2. CASE QueueBehind(p) \/ QueueAfterWait(p)
        <4>1. UNCHANGED card
          BY <3>2 DEF QueueBehind, QueueAfterWait
        <4>2. busy > 0 => fill # drain
          BY <1>t, <2>2, DrainInWindow
          DEF RingInv, CarriesOldest, InFlight, RingFull
        <4> QED
          BY <4>1, <4>2, <2>1, <1>t DEF Queue, ConfigKept, TypeOK, card
      <3> QED
        BY <1>5, <3>1, <3>2
    <2>5. NoOverwrite' /\ OwnSlot' /\ SizeKept' /\ AckHasDone'
      BY <1>p, <2>1 DEF NoOverwrite, OwnSlot, SizeKept, AckHasDone, irq
    <2> QED
      BY <1>r, <2>3, <2>4, <2>5
  <1>6. CASE CopyToUser(p)
    <2>1. UNCHANGED <<ring, card, irq, asked, numBytes>>
      BY <1>6 DEF CopyToUser
    <2>2. pc'[p] = "user" /\ ubuf'[p] = fill
      BY <1>6, <1>t, <1>p, <1>e DEF CopyToUser, Goto, TypeOK
    <2>3. RingExact' /\ ConfigKept'
      BY <2>1, RingUntouched
    <2>4. NoOverwrite' /\ OwnSlot' /\ SizeKept' /\ AckHasDone'
      BY <1>p, <1>o, <2>1, <2>2
      DEF NoOverwrite, OwnSlot, SizeKept, AckHasDone, ring, irq
    <2> QED
      BY <1>r, <2>3, <2>4
  <1>7. CASE CardDone
    <2>1. UNCHANGED <<ring, size, proc, irq, addr, config>> /\ busy > 0
      BY <1>7 DEF CardDone
    <2>2. RingExact' /\ ConfigKept'
      BY <2>1 DEF RingExact, ConfigKept, InWindow, ring
    <2>3. NoOverwrite' /\ OwnSlot' /\ SizeKept' /\ AckHasDone'
      BY <1>o, <2>1
      DEF NoOverwrite, OwnSlot, SizeKept, AckHasDone, ring, proc, irq
    <2> QED
      BY <1>r, <2>2, <2>3
  <1>8. CASE ReadStatus \/ Acknowledge
    <2>1. UNCHANGED <<ring, size, proc, busy, config>>
      BY <1>8 DEF ReadStatus, Acknowledge, card
    <2>2. AckHasDone'
      BY <1>8, <1>e DEF ReadStatus, Acknowledge, AckHasDone
    <2>3. RingExact' /\ ConfigKept'
      BY <2>1 DEF RingExact, ConfigKept, InWindow, ring
    <2>4. NoOverwrite' /\ OwnSlot' /\ SizeKept'
      BY <1>o, <2>1 DEF NoOverwrite, OwnSlot, SizeKept, ring, proc
    <2> QED
      BY <1>r, <2>2, <2>3, <2>4
  <1>9. CASE Handle
    <2>1. InFlight /\ busy = 0
      BY <1>9, <1>t DEF Handle, InFlight, RingInv, OneTransferAtATime, TypeOK
    <2>2. ~ RingEmpty
      BY <1>t, <2>1, DrainInWindow DEF RingEmpty, RingInv, CarriesOldest
    <2>3. Retire /\ UNCHANGED <<size, proc>> /\ irqpc' # "ack"
      BY <1>9, <2>2 DEF Handle
    <2>4. RingExact'
      BY <1>t, <2>2, <2>3, RetireKeepsExact
    <2>5. ConfigKept'
      BY <1>9, <2>1, <2>2, <2>3 DEF Handle, Retire, Program, ConfigKept, card
    <2>6. NoOverwrite'
      BY <1>t, <1>o, <2>3 DEF NoOverwrite, Retire, proc, TypeOK
    <2>7. OwnSlot' /\ SizeKept' /\ AckHasDone'
      BY <1>o, <2>3 DEF OwnSlot, SizeKept, AckHasDone, Retire, proc
    <2> QED
      BY <1>r, <2>4, <2>5, <2>6, <2>7
  <1>10. CASE WakeUp
    <2>1. UNCHANGED <<ring, card, size, asked, numBytes, ubuf>> /\ irqpc' # "ack"
      BY <1>10 DEF WakeUp
    <2>2. pc'[p] = IF pc[p] = "asleep" THEN "wait" ELSE pc[p]
      BY <1>10, <1>p DEF WakeUp
    <2>3. RingExact' /\ ConfigKept'
      BY <2>1, RingUntouched
    <2>4. NoOverwrite' /\ OwnSlot' /\ SizeKept' /\ AckHasDone'
      BY <1>p, <1>o, <2>1, <2>2
      DEF NoOverwrite, OwnSlot, SizeKept, AckHasDone, ring
    <2> QED
      BY <1>r, <2>3, <2>4
  <1>11. CASE UNCHANGED vars
    <2>1. UNCHANGED <<ring, size, proc, card, irq>>
      BY <1>11 DEF vars
    <2>2. RingExact' /\ ConfigKept'
      BY <2>1, RingUntouched
    <2>3. NoOverwrite' /\ OwnSlot' /\ SizeKept' /\ AckHasDone'
      BY <1>o, <2>1
      DEF NoOverwrite, OwnSlot, SizeKept, AckHasDone, ring, proc, irq
    <2> QED
      BY <1>r, <2>2, <2>3
  <1> QED
    BY <1>p, <1>1, <1>2, <1>3, <1>4, <1>5, <1>6, <1>7, <1>8, <1>9, <1>10, <1>11
    DEF Next, Kernel, Handler

(* SoloInv holds in every reachable state of a lone caller. *)
LEMMA SoloInvInvariant ==
  ASSUME Solo
  PROVE  Spec => []SoloInv
  <1>1. Init => SoloInv
    <2> SUFFICES ASSUME Init PROVE SoloInv
      OBVIOUS
    <2>1. Procs = {Caller}
      BY SoloCaller
    <2>2. RingInv
      BY BuffersAssumption
      DEF Init, RingInv, TypeOK, AckSeesDone, OneTransferAtATime,
          CarriesOldest, InFlight, Slots, SizeValues
    <2>3. RingExact
      BY BuffersAssumption DEF Init, RingExact, Slots
    <2>4. NoOverwrite /\ OwnSlot /\ SizeKept /\ ConfigKept /\ AckHasDone
      BY <2>1 DEF Init, NoOverwrite, OwnSlot, SizeKept, ConfigKept, AckHasDone
    <2> QED
      BY <2>2, <2>3, <2>4 DEF SoloInv
  <1>2. SoloInv /\ [Next]_vars => SoloInv'
    BY SoloInvInductive
  <1> QED
    BY <1>1, <1>2, PTL DEF Spec

(* For a lone caller the full slots are always those from drain to fill. *)
THEOREM SoloRingIsExact == ASSUME Solo PROVE Spec => []RingExact
  <1>1. Spec => []SoloInv
    BY SoloInvInvariant
  <1> QED
    BY <1>1, PTL DEF SoloInv

(* A lone caller that was suspended queues its request in a free slot,     *)
(* although initiateTransfer does not look again after it has waited.      *)
THEOREM SoloNeverOverwrites == ASSUME Solo PROVE Spec => []NoOverwrite
  <1>1. Spec => []SoloInv
    BY SoloInvInvariant
  <1> QED
    BY <1>1, PTL DEF SoloInv

(* A lone caller's request is queued in the slot it wrote its data to. *)
THEOREM SoloQueuesOwnSlot == ASSUME Solo PROVE Spec => []OwnSlot
  <1>1. Spec => []SoloInv
    BY SoloInvInvariant
  <1> QED
    BY <1>1, PTL DEF SoloInv

-----------------------------------------------------------------------------
(* An index less than one turn ahead of drain is brought back into the     *)
(* ring by a single subtraction.                                           *)
LEMMA SlotAtValue ==
  ASSUME TypeOK, NEW i \in 0 .. BUFFERS - 1
  PROVE  /\ SlotAt(i) \in Slots
         /\ SlotAt(i) = IF drain + i < BUFFERS THEN drain + i
                                               ELSE drain + i - BUFFERS
  <1>1. /\ BUFFERS \in Nat /\ BUFFERS > 1
        /\ drain \in Int /\ 0 <= drain /\ drain < BUFFERS
        /\ i \in Int /\ 0 <= i /\ i < BUFFERS
    BY BuffersAssumption DEF TypeOK, Slots
  <1> DEFINE a == drain + i
  <1>2. a \in Int /\ 0 <= a /\ a < BUFFERS + BUFFERS
    BY <1>1
  <1> HIDE DEF a
  <1>3. CASE a < BUFFERS
    <2>1. a % BUFFERS = a
      BY <1>1, <1>2, <1>3
    <2> QED
      BY <1>1, <1>2, <1>3, <2>1 DEF SlotAt, Slots, a
  <1>4. CASE ~ (a < BUFFERS)
    <2>1. a % BUFFERS = a - BUFFERS
      BY <1>1, <1>2, <1>4
    <2> QED
      BY <1>1, <1>2, <1>4, <2>1 DEF SlotAt, Slots, a
  <1> QED
    BY <1>3, <1>4

(* The ring holds between none and BUFFERS requests. *)
LEMMA QueueLenBounds ==
  ASSUME TypeOK
  PROVE  /\ QueueLen \in 0 .. BUFFERS
         /\ RingFull <=> QueueLen = BUFFERS
         /\ RingEmpty <=> QueueLen = 0
  BY BuffersAssumption DEF TypeOK, QueueLen, Slots, RingFull, RingEmpty

(* Queueing in a ring that is not full appends to the queue it stands for. *)
LEMMA QueueAppends ==
  ASSUME TypeOK, TypeOK', RingExact, NEW p \in Procs, Queue(p), ~ RingFull
  PROVE  QueueOfRing' = Append(QueueOfRing, numBytes[p])
  <1>0. BUFFERS \in Nat /\ BUFFERS > 1
    BY BuffersAssumption
  <1>1. fill' = IF fill = BUFFERS - 1 THEN 0 ELSE fill + 1
    BY NextSlotValue DEF TypeOK, Queue
  <1>2. QueueLen \in 0 .. BUFFERS - 1
    BY <1>0, QueueLenBounds
  <1>3. QueueLen' = QueueLen + 1
    <2>1. drain' = drain /\ isFull'[fill] = 1
      BY DEF Queue, TypeOK
    <2>2. fill' = drain' => fill # drain /\ isFull'[drain'] = 1
      <3>1. fill # drain => isFull[drain] = 1
        BY DrainInWindow DEF RingExact
      <3> QED
        BY <1>0, <1>1, <2>1, <3>1 DEF Queue, TypeOK, Slots
    <2>3. fill \in 0 .. BUFFERS - 1 /\ drain \in 0 .. BUFFERS - 1
      BY DEF TypeOK, Slots
    <2>4. CASE fill = drain
      <3>1. QueueLen = 0
        BY <2>4 DEF QueueLen, RingFull
      <3>2. QueueLen' = 1
        BY <1>0, <1>1, <2>1, <2>2, <2>3, <2>4 DEF QueueLen
      <3> QED
        BY <3>1, <3>2
    <2>5. CASE fill # drain
      BY <1>0, <1>1, <2>1, <2>2, <2>3, <2>5 DEF QueueLen
    <2> QED
      BY <2>4, <2>5
  <1>4. ASSUME NEW i \in 1 .. QueueLen
        PROVE  count'[SlotAt(i - 1)] = count[SlotAt(i - 1)]
    <2>1. i - 1 \in 0 .. BUFFERS - 1
      BY <1>0, <1>2
    <2>a. SlotAt(i - 1) = IF drain + (i - 1) < BUFFERS
                            THEN drain + (i - 1)
                            ELSE drain + (i - 1) - BUFFERS
      BY <2>1, SlotAtValue
    <2>b. fill \in 0 .. BUFFERS - 1 /\ drain \in 0 .. BUFFERS - 1
      BY DEF TypeOK, Slots
    <2>c. fill # drain
      BY <1>2 DEF QueueLen, RingFull
    <2>2. SlotAt(i - 1) # fill
      BY <1>0, <1>2, <2>a, <2>b, <2>c DEF QueueLen
    <2> QED
      BY <2>1, <2>2, SlotAtValue DEF Queue, TypeOK
  <1>5. count'[SlotAt(QueueLen)] = numBytes[p]
    <2>1. SlotAt(QueueLen) = fill
      BY <1>0, <1>2, SlotAtValue DEF QueueLen, TypeOK, Slots, RingFull
    <2> QED
      BY <2>1 DEF Queue, TypeOK
  <1>6. QueueOfRing' = [i \in 1 .. QueueLen' |-> count'[SlotAt(i - 1)]]
    BY DEF QueueOfRing, SlotAt, Queue
  <1>7. \A i \in 1 .. QueueLen + 1 :
           count'[SlotAt(i - 1)] =
             IF i = QueueLen + 1 THEN numBytes[p] ELSE count[SlotAt(i - 1)]
    BY <1>0, <1>2, <1>4, <1>5
  <1>8. QueueOfRing' = [i \in 1 .. QueueLen + 1 |->
           IF i = QueueLen + 1 THEN numBytes[p] ELSE count[SlotAt(i - 1)]]
    BY <1>3, <1>6, <1>7
  <1>9. Append(QueueOfRing, numBytes[p]) = [i \in 1 .. QueueLen + 1 |->
           IF i = QueueLen + 1 THEN numBytes[p] ELSE count[SlotAt(i - 1)]]
    BY <1>2, <1>0 DEF QueueOfRing
  <1> QED
    BY <1>8, <1>9

(* A ring that is not empty stands for a queue with its oldest slot at the *)
(* head.                                                                   *)
LEMMA HeadOfRing ==
  ASSUME TypeOK, ~ RingEmpty
  PROVE  /\ QueueOfRing \in Seq(SizeValues)
         /\ Len(QueueOfRing) = QueueLen
         /\ QueueOfRing # << >>
         /\ Head(QueueOfRing) = count[drain]
  <1>0. /\ BUFFERS \in Nat /\ BUFFERS > 1
        /\ fill \in 0 .. BUFFERS - 1 /\ drain \in 0 .. BUFFERS - 1
    BY BuffersAssumption DEF TypeOK, Slots
  <1>1. QueueLen \in 1 .. BUFFERS
    BY <1>0, QueueLenBounds
  <1>2. SlotAt(0) = drain
    BY <1>0, SlotAtValue
  <1>3. /\ QueueOfRing \in Seq(SizeValues)
        /\ Len(QueueOfRing) = QueueLen
        /\ QueueOfRing # << >>
    <2>1. ASSUME NEW i \in 1 .. QueueLen
          PROVE  count[SlotAt(i - 1)] \in SizeValues
      <3>1. i - 1 \in 0 .. BUFFERS - 1
        BY <1>0, <1>1
      <3> QED
        BY <3>1, SlotAtValue DEF TypeOK
    <2>2. QueueOfRing \in [1 .. QueueLen -> SizeValues]
      BY <2>1 DEF QueueOfRing
    <2>3. QueueLen \in Nat /\ QueueLen # 0
      BY <1>0, <1>1
    <2> QED
      BY <2>2, <2>3
  <1>4. Head(QueueOfRing) = count[drain]
    <2>1. 1 \in 1 .. QueueLen
      BY <1>0, <1>1
    <2>2. QueueOfRing[1] = count[SlotAt(1 - 1)]
      BY <2>1 DEF QueueOfRing
    <2> QED
      BY <1>2, <1>3, <2>2
  <1> QED
    BY <1>3, <1>4

(* Retiring the slot at drain takes the head off the queue. *)
LEMMA RetireTakesHead ==
  ASSUME TypeOK, TypeOK', RingExact, RingExact', ~ RingEmpty, Retire
  PROVE  QueueOfRing' = Tail(QueueOfRing)
  <1>0. /\ BUFFERS \in Nat /\ BUFFERS > 1
        /\ fill \in 0 .. BUFFERS - 1 /\ drain \in 0 .. BUFFERS - 1
    BY BuffersAssumption DEF TypeOK, Slots
  <1>1. drain' = IF drain = BUFFERS - 1 THEN 0 ELSE drain + 1
    BY NextSlotValue DEF TypeOK, Retire
  <1>2. QueueLen \in 1 .. BUFFERS
    BY <1>0, QueueLenBounds
  <1>3. QueueLen' = QueueLen - 1
    <2>1. fill' = fill /\ isFull'[drain] = 0 /\ drain' # drain
      BY <1>0, <1>1 DEF Retire, TypeOK
    <2>2. isFull'[drain'] # 1 \/ fill' # drain'
      <3>1. drain \in Slots
        BY DEF TypeOK
      <3>2. fill' = drain' /\ isFull'[drain'] = 1 => isFull'[drain] = 1
        BY <3>1, <1>0 DEF RingExact, InWindow, TypeOK, Slots
      <3> QED
        BY <2>1, <3>2
    <2>3. CASE fill = drain
      <3>1. QueueLen = BUFFERS
        BY <2>3, QueueLenBounds DEF RingEmpty, RingFull, TypeOK
      <3> QED
        BY <1>0, <1>1, <2>1, <2>3, <3>1 DEF QueueLen
    <2>4. CASE fill # drain
      BY <1>0, <1>1, <2>1, <2>2, <2>4 DEF QueueLen
    <2> QED
      BY <2>3, <2>4
  <1>4. ASSUME NEW i \in 1 .. QueueLen - 1
        PROVE  count'[(SlotAt(i - 1))'] = count[SlotAt(i)]
    <2>1. i - 1 \in 0 .. BUFFERS - 1 /\ i \in 0 .. BUFFERS - 1
      BY <1>0, <1>2
    <2>2. SlotAt(i) = IF drain + i < BUFFERS THEN drain + i
                                             ELSE drain + i - BUFFERS
      BY <2>1, SlotAtValue
    <2>3. (SlotAt(i - 1))' = (drain' + (i - 1)) % BUFFERS
      BY DEF SlotAt
    <2>4. SlotAt(i) = (drain + i) % BUFFERS
      BY DEF SlotAt
    <2>5. CASE drain # BUFFERS - 1
      BY <1>0, <1>1, <2>1, <2>3, <2>4, <2>5 DEF Retire
    <2>6. CASE drain = BUFFERS - 1
      <3>1. drain' + (i - 1) \in 0 .. BUFFERS - 1
        BY <1>0, <1>1, <2>1, <2>6
      <3>2. (drain' + (i - 1)) % BUFFERS = drain' + (i - 1)
        BY <1>0, <3>1
      <3> QED
        BY <1>0, <1>1, <2>1, <2>2, <2>3, <2>6, <3>2 DEF Retire
    <2> QED
      BY <2>5, <2>6
  <1>5. /\ QueueOfRing \in Seq(SizeValues)
        /\ Len(QueueOfRing) = QueueLen
        /\ QueueOfRing # << >>
    BY HeadOfRing
  <1>6. Tail(QueueOfRing) = [i \in 1 .. QueueLen - 1 |-> QueueOfRing[i + 1]]
    <2>1. /\ Tail(QueueOfRing) \in Seq(SizeValues)
          /\ Len(Tail(QueueOfRing)) = QueueLen - 1
          /\ \A i \in 1 .. QueueLen - 1 :
                Tail(QueueOfRing)[i] = QueueOfRing[i + 1]
      BY <1>0, <1>2, <1>5, HeadTailProperties
    <2>2. Tail(QueueOfRing) \in [1 .. QueueLen - 1 -> SizeValues]
      BY <2>1, LenProperties
    <2> QED
      BY <2>1, <2>2
  <1>7. ASSUME NEW i \in 1 .. QueueLen - 1
        PROVE  QueueOfRing[i + 1] = count[SlotAt(i)]
    <2>1. i + 1 \in 1 .. QueueLen /\ (i + 1) - 1 = i
      BY <1>0, <1>2
    <2> QED
      BY <2>1 DEF QueueOfRing
  <1>8. QueueOfRing' = [i \in 1 .. QueueLen - 1 |-> count'[(SlotAt(i - 1))']]
    BY <1>3 DEF QueueOfRing
  <1> QED
    BY <1>4, <1>6, <1>7, <1>8

-----------------------------------------------------------------------------
(* Steps that leave the ring and the card alone leave the queue alone. *)
LEMMA QueueUntouched ==
  ASSUME UNCHANGED ring
  PROVE  QueueOfRing' = QueueOfRing
  BY DEF ring, QueueOfRing, QueueLen, SlotAt

(* Every step of a lone caller, of the card and of the handler is a step   *)
(* of the queue or leaves the queue as it is.                              *)
LEMMA StepImplementsQueue ==
  ASSUME Solo
  PROVE  SoloInv /\ SoloInv' /\ [Next]_vars
           => [Queue0!QNext]_(Queue0!qvars)
  <1> SUFFICES ASSUME SoloInv, SoloInv', [Next]_vars
               PROVE  Queue0!QNext \/ UNCHANGED Queue0!qvars
    OBVIOUS
  <1> USE DEF Queue0!qvars
  <1>t. TypeOK /\ TypeOK' /\ RingExact /\ RingExact' /\ SizeKept /\ OwnSlot
    BY DEF SoloInv, RingInv
  <1>p. Procs = {Caller}
    BY SoloCaller
  <1>e. Env = {}
    BY DEF Solo
  <1> DEFINE p == Caller
             carried == status = 1 \/ irqpc = "lock"
  <1>1. CASE CopyFromUser(p)
    <2>1. UNCHANGED <<ring, card, irq>>
      BY <1>1 DEF CopyFromUser
    <2>2. PendingOf(p) = 0 /\ PendingOf(p)' \in Sizes
      BY <1>1, <1>t, <1>p DEF CopyFromUser, Goto, PendingOf, TypeOK
    <2>3. Queue0!Ask
      BY <2>1, <2>2, QueueUntouched DEF Queue0!Ask, card, irq
    <2> QED
      BY <2>3 DEF Queue0!QNext
  <1>2. CASE Call(p)
    <2>1. UNCHANGED <<ring, card, irq>>
      BY <1>2 DEF Call
    <2>2. PendingOf(p)' = PendingOf(p)
      BY <1>2, <1>t, <1>p DEF Call, Goto, PendingOf, TypeOK, SizeKept
    <2> QED
      BY <2>1, <2>2, QueueUntouched DEF card, irq
  <1>3. CASE Suspend(p) \/ WaitEvent(p)
    <2>1. UNCHANGED <<ring, card, irq>>
      BY <1>3 DEF Suspend, WaitEvent
    <2>2. PendingOf(p)' = PendingOf(p)
      BY <1>3, <1>t, <1>p DEF Suspend, WaitEvent, Goto, PendingOf, TypeOK
    <2> QED
      BY <2>1, <2>2, QueueUntouched DEF card, irq
  <1>4. CASE Interrupted(p)
    BY <1>4, <1>e DEF Interrupted
  <1>5. CASE StartCard(p) \/ QueueBehind(p) \/ QueueAfterWait(p)
    <2>1. Queue(p) /\ UNCHANGED <<irq, moved, status>>
      BY <1>5 DEF StartCard, QueueBehind, QueueAfterWait, Program, card
    <2>2. ~ RingFull
      BY <1>5, <1>p
      DEF StartCard, QueueBehind, QueueAfterWait, RingEmpty, RingFull,
          SoloInv, NoOverwrite
    <2>3. PendingOf(p) = numBytes[p] /\ numBytes[p] # 0 /\ PendingOf(p)' = 0
      BY <1>5, <1>t, <1>p
      DEF StartCard, QueueBehind, QueueAfterWait, Goto, PendingOf, TypeOK,
          SizeKept
    <2>4. QueueOfRing' = Append(QueueOfRing, PendingOf(p))
      BY <1>t, <1>p, <2>1, <2>2, <2>3, QueueAppends
    <2>5. Len(QueueOfRing) < BUFFERS
      <3>1. QueueLen \in 0 .. BUFFERS - 1
        BY <1>t, <2>2, QueueLenBounds, BuffersAssumption
      <3> QED
        BY <3>1, BuffersAssumption DEF QueueOfRing
    <2>6. Queue0!Accept
      BY <2>1, <2>3, <2>4, <2>5 DEF Queue0!Accept, irq
    <2> QED
      BY <2>6 DEF Queue0!QNext
  <1>6. CASE CopyToUser(p)
    <2>1. UNCHANGED <<ring, card, irq>>
      BY <1>6 DEF CopyToUser
    <2>2. PendingOf(p)' = PendingOf(p)
      BY <1>6, <1>t, <1>p DEF CopyToUser, Goto, PendingOf, TypeOK
    <2> QED
      BY <2>1, <2>2, QueueUntouched DEF card, irq
  <1>7. CASE CardDone
    <2>1. UNCHANGED <<ring, proc, irq>> /\ moved' = config /\ status' = 1
      BY <1>7 DEF CardDone
    <2>2. busy > 0 /\ InFlight /\ status = 0 /\ irqpc # "lock"
      BY <1>7, <1>t
      DEF CardDone, InFlight, SoloInv, RingInv, OneTransferAtATime, TypeOK
    <2>3. ~ RingEmpty /\ config = count[drain]
      BY <1>t, <2>2, DrainInWindow
      DEF RingEmpty, SoloInv, RingInv, CarriesOldest, ConfigKept
    <2>4. QueueOfRing # << >> /\ Head(QueueOfRing) = count[drain]
      BY <1>t, <2>3, HeadOfRing
    <2>5. Queue0!Carry
      BY <2>1, <2>2, <2>3, <2>4, QueueUntouched
      DEF Queue0!Carry, PendingOf, proc, irq
    <2> QED
      BY <2>5 DEF Queue0!QNext
  <1>8. CASE ReadStatus \/ Acknowledge
    <2>1. UNCHANGED <<ring, proc, moved>>
      BY <1>8 DEF ReadStatus, Acknowledge, card
    <2>2. carried' <=> carried
      BY <1>8, <1>t DEF ReadStatus, Acknowledge, card, SoloInv, RingInv,
         AckHasDone, AckSeesDone
    <2> QED
      BY <2>1, <2>2, QueueUntouched DEF PendingOf, proc
  <1>9. CASE Handle
    <2>1. InFlight /\ irqpc = "lock" /\ status = 0
      BY <1>9, <1>t
      DEF Handle, InFlight, SoloInv, RingInv, OneTransferAtATime, TypeOK
    <2>2. ~ RingEmpty
      BY <1>t, <2>1, DrainInWindow
      DEF RingEmpty, SoloInv, RingInv, CarriesOldest
    <2>3. /\ Retire /\ irqpc' # "lock"
          /\ UNCHANGED <<proc, moved, status>>
      BY <1>9, <2>2 DEF Handle, Program, card
    <2>4. QueueOfRing' = Tail(QueueOfRing)
      BY <1>t, <2>2, <2>3, RetireTakesHead
    <2>5. Queue0!Retire
      BY <2>1, <2>3, <2>4 DEF Queue0!Retire, PendingOf, proc
    <2> QED
      BY <2>5 DEF Queue0!QNext
  <1>10. CASE WakeUp
    <2>1. /\ UNCHANGED <<ring, card, asked>>
          /\ irqpc # "lock" /\ irqpc' # "lock"
      BY <1>10 DEF WakeUp
    <2>2. PendingOf(p)' = PendingOf(p)
      BY <1>10, <1>t, <1>p DEF WakeUp, PendingOf, TypeOK
    <2> QED
      BY <2>1, <2>2, QueueUntouched DEF card
  <1>11. CASE UNCHANGED vars
    BY <1>11, QueueUntouched DEF vars, PendingOf, proc, card, irq
  <1> QED
    BY <1>p, <1>1, <1>2, <1>3, <1>4, <1>5, <1>6, <1>7, <1>8, <1>9, <1>10,
       <1>11 DEF Next, Kernel, Handler

(* A lone caller's requests go through the ring as through a queue: in     *)
(* order, each carried by the card exactly once and with its own size.     *)
THEOREM SoloImplementsQueue == ASSUME Solo PROVE Spec => ImplementsQueue
  <1>1. Init => Queue0!QInit
    <2> SUFFICES ASSUME Init PROVE Queue0!QInit
      OBVIOUS
    <2>1. PendingOf(Caller) = 0
      BY SoloCaller DEF Init, PendingOf
    <2>2. QueueLen = 0
      BY BuffersAssumption DEF Init, QueueLen, Slots
    <2>3. QueueOfRing = << >>
      BY <2>2 DEF QueueOfRing
    <2> QED
      BY <2>1, <2>3 DEF Init, Queue0!QInit
  <1>2. SoloInv /\ SoloInv' /\ [Next]_vars => [Queue0!QNext]_(Queue0!qvars)
    BY StepImplementsQueue
  <1>3. Spec => []SoloInv
    BY SoloInvInvariant
  <1> QED
    BY <1>1, <1>2, <1>3, PTL DEF Spec, ImplementsQueue, Queue0!QSpec
=============================================================================
