------------------------------- MODULE DmaRing -------------------------------
(***************************************************************************)
(* The ring of DMA buffers of graphicDriver/dmaBuffer/dmaBuffer.c: the     *)
(* START_DMA ioctl (kyouko2_ioctl and initiateTransfer), run by any number *)
(* of processes, against the interrupt handler dma_interrupt and the       *)
(* Kyouko2 card that carries one buffer after the other.                   *)
(*                                                                         *)
(* The spinlock `lock' is taken with interrupts off by both sides, so a    *)
(* locked section is one action.  What happens outside it is a step of its *)
(* own: copying the size in and the address out, the status read and the   *)
(* acknowledge of the handler, the wakeup, and the test of the wait        *)
(* condition in wait_event_interruptible.                                  *)
(*                                                                         *)
(* The behaviours start in the state BIND_DMA leaves behind.               *)
(***************************************************************************)
EXTENDS Integers

CONSTANTS
    BUFFERS,    \* slots of the ring (macrodmaBuffer.h: 8)
    Procs,      \* threads that call START_DMA on the bound device
    Sizes,      \* the sizes they ask for
    Env         \* the disturbances admitted: a subset of Disturbances

Disturbances ==
    {"signal",      \* a signal ends wait_event_interruptible early
     "sharedirq",   \* another device on the line (IRQF_SHARED) interrupts
     "fault"}       \* copy_from_user or copy_to_user fails

ASSUME BuffersAssumption == BUFFERS \in Nat /\ BUFFERS > 1
ASSUME SizesAssumption   == Sizes \subseteq Nat
ASSUME EnvAssumption     == Env \subseteq Disturbances

Slots == 0 .. BUFFERS - 1

VARIABLES
    fill, drain,    \* the two static indices of the ring
    isFull, count,  \* dmaBuffer[i].isFull and dmaBuffer[i].count
    size,           \* `static unsigned int size', one for all callers
    pc,             \* where each process is in its START_DMA call
    asked,          \* the size the process put in its argument
    numBytes,       \* the parameter of initiateTransfer
    ubuf,           \* the slot whose address the process was last given
    addr, config,   \* STREAMBUFFERAADDRESS and STREAMBUFFERACONFIG
    busy,           \* transfers programmed and not yet completed
    moved,          \* size of the last transfer the card completed
    status,         \* the transfer-done bit (0x2) of INFOSTATUS
    irqpc, flags    \* where the handler is, and the status bit it read

ring == <<fill, drain, isFull, count>>
proc == <<pc, asked, numBytes, ubuf>>
card == <<addr, config, busy, moved, status>>
irq  == <<irqpc, flags>>
vars == <<ring, size, proc, card, irq>>

SizeValues == Sizes \cup {0}

TypeOK ==
    /\ fill \in Slots /\ drain \in Slots
    /\ isFull \in [Slots -> {0, 1}]
    /\ count \in [Slots -> SizeValues]
    /\ size \in SizeValues
    /\ pc \in [Procs -> {"user", "copied", "lock", "wait", "asleep",
                         "relock", "return"}]
    /\ asked \in [Procs -> SizeValues]
    /\ numBytes \in [Procs -> SizeValues]
    /\ ubuf \in [Procs -> Slots]
    /\ addr \in Slots /\ config \in SizeValues
    /\ busy \in Nat /\ moved \in SizeValues
    /\ status \in {0, 1} /\ flags \in {0, 1}
    /\ irqpc \in {"idle", "ack", "lock", "wake"}

-----------------------------------------------------------------------------
(* The state after BIND_DMA: every slot clean, both indices 0, the user    *)
(* holding the address of slot 0, the status cleared, interrupts enabled.  *)
Init ==
    /\ fill = 0 /\ drain = 0
    /\ isFull = [s \in Slots |-> 0]
    /\ count = [s \in Slots |-> 0]
    /\ size = 0
    /\ pc = [p \in Procs |-> "user"]
    /\ asked = [p \in Procs |-> 0]
    /\ numBytes = [p \in Procs |-> 0]
    /\ ubuf = [p \in Procs |-> 0]
    /\ addr = 0 /\ config = 0 /\ busy = 0 /\ moved = 0 /\ status = 0
    /\ irqpc = "idle" /\ flags = 0

(* Mutant: an index runs past the end of the ring before it wraps. *)
NextSlotUnwrapped(s) == IF s > BUFFERS - 1 THEN 0 ELSE s + 1

NextSlot(s) == (s + 1) % BUFFERS

Goto(p, l) == pc' = [pc EXCEPT ![p] = l]

(* Writing STREAMBUFFERAADDRESS and STREAMBUFFERACONFIG starts a transfer. *)
Program(slot, n) ==
    /\ addr' = slot
    /\ config' = n
    /\ busy' = busy + 1
    /\ UNCHANGED <<moved, status>>

-----------------------------------------------------------------------------
(* START_DMA *)

(* copy_from_user(&size, arg): a failed copy leaves zeroes in size. *)
CopyFromUser(p) ==
    /\ pc[p] = "user"
    /\ \E n \in Sizes :
          /\ asked' = [asked EXCEPT ![p] = n]
          /\ size' \in {n} \cup (IF "fault" \in Env THEN {0} ELSE {})
    /\ Goto(p, "copied")
    /\ UNCHANGED <<ring, numBytes, ubuf, card, irq>>

(* Mutant: the early return for an empty request is tested on the wrong    *)
(* side, so that an empty request is queued as well.                       *)
CallUnchecked(p) ==
    /\ pc[p] = "copied"
    /\ numBytes' = [numBytes EXCEPT ![p] = size]
    /\ Goto(p, "lock")
    /\ UNCHANGED <<ring, size, asked, ubuf, card, irq>>

(* initiateTransfer(size), up to its early return for an empty request. *)
Call(p) ==
    /\ pc[p] = "copied"
    /\ numBytes' = [numBytes EXCEPT ![p] = size]
    /\ Goto(p, IF size = 0 THEN "return" ELSE "lock")
    /\ UNCHANGED <<ring, size, asked, ubuf, card, irq>>

RingFull  == fill = drain /\ isFull[fill] = 1
RingEmpty == fill = drain /\ isFull[fill] # 1

(* Mutant: the request is queued without marking its slot full. *)
QueueUnmarked(p) ==
    /\ count' = [count EXCEPT ![fill] = numBytes[p]]
    /\ fill' = NextSlot(fill)
    /\ UNCHANGED <<drain, isFull>>

(* Put numBytes in the slot at fill and move fill on. *)
Queue(p) ==
    /\ isFull' = [isFull EXCEPT ![fill] = 1]
    /\ count' = [count EXCEPT ![fill] = numBytes[p]]
    /\ fill' = NextSlot(fill)
    /\ UNCHANGED drain

(* The first locked section, one action for each of its three branches. *)
Suspend(p) ==
    /\ pc[p] = "lock" /\ RingFull
    /\ Goto(p, "wait")
    /\ UNCHANGED <<ring, size, asked, numBytes, ubuf, card, irq>>

StartCard(p) ==
    /\ pc[p] = "lock" /\ RingEmpty
    /\ Queue(p)
    /\ Program(fill, numBytes[p])
    /\ Goto(p, "return")
    /\ UNCHANGED <<size, asked, numBytes, ubuf, irq>>

(* Mutant: every accepted request goes to the registers, not only the      *)
(* first one of an empty ring.                                             *)
QueueBehindAndProgram(p) ==
    /\ pc[p] = "lock" /\ fill # drain
    /\ Queue(p)
    /\ Program(fill, numBytes[p])
    /\ Goto(p, "return")
    /\ UNCHANGED <<size, asked, numBytes, ubuf, irq>>

QueueBehind(p) ==
    /\ pc[p] = "lock" /\ fill # drain
    /\ Queue(p)
    /\ Goto(p, "return")
    /\ UNCHANGED <<size, asked, numBytes, ubuf, card, irq>>

WaitCondition == fill # drain \/ isFull[fill] = 0

(* Mutant: the wait ends whatever the condition says. *)
WaitNotAtAll(p) ==
    /\ pc[p] = "wait"
    /\ Goto(p, "relock")
    /\ UNCHANGED <<ring, size, asked, numBytes, ubuf, card, irq>>

(* wait_event_interruptible: the process is on the wait queue before it    *)
(* tests the condition, so that testing and sleeping lose no wakeup.       *)
WaitEvent(p) ==
    /\ pc[p] = "wait"
    /\ Goto(p, IF WaitCondition THEN "relock" ELSE "asleep")
    /\ UNCHANGED <<ring, size, asked, numBytes, ubuf, card, irq>>

(* A signal ends the wait with -ERESTARTSYS, which nobody looks at. *)
Interrupted(p) ==
    /\ "signal" \in Env
    /\ pc[p] \in {"wait", "asleep"}
    /\ Goto(p, "relock")
    /\ UNCHANGED <<ring, size, asked, numBytes, ubuf, card, irq>>

(* The second locked section queues the request whatever the ring is now.  *)
QueueAfterWait(p) ==
    /\ pc[p] = "relock"
    /\ Queue(p)
    /\ Goto(p, "return")
    /\ UNCHANGED <<size, asked, numBytes, ubuf, card, irq>>

(* Mutant: the address handed back is the one of the slot just queued. *)
CopyToUserSameSlot(p) ==
    /\ pc[p] = "return"
    /\ Goto(p, "user")
    /\ UNCHANGED <<ring, size, asked, numBytes, ubuf, card, irq>>

(* copy_to_user(arg, &userVirtAddr[fill]), with the fill of this moment. *)
CopyToUser(p) ==
    /\ pc[p] = "return"
    /\ \/ ubuf' = [ubuf EXCEPT ![p] = fill]
       \/ "fault" \in Env /\ UNCHANGED ubuf
    /\ Goto(p, "user")
    /\ UNCHANGED <<ring, size, asked, numBytes, card, irq>>

-----------------------------------------------------------------------------
(* The card completes a transfer: it sets the done bit and interrupts. *)
CardDone ==
    /\ busy > 0
    /\ busy' = busy - 1
    /\ moved' = config
    /\ status' = 1
    /\ UNCHANGED <<ring, size, proc, addr, config, irq>>

-----------------------------------------------------------------------------
(* dma_interrupt; the kernel runs it on one processor at a time. *)

ReadStatus ==
    /\ irqpc = "idle"
    /\ status = 1 \/ "sharedirq" \in Env
    /\ flags' = status
    /\ irqpc' = "ack"
    /\ UNCHANGED <<ring, size, proc, card>>

(* INFOSTATUS <- 0xFFFFFFFF clears every bit, also one set since the read. *)
Acknowledge ==
    /\ irqpc = "ack"
    /\ status' = 0
    /\ irqpc' = IF flags = 0 THEN "idle" ELSE "lock"
    /\ UNCHANGED <<ring, size, proc, addr, config, busy, moved, flags>>

(* Mutant: the drained slot keeps its isFull. *)
RetireWithoutClearing ==
    /\ drain' = NextSlot(drain)
    /\ UNCHANGED <<fill, count, isFull>>

Retire ==
    /\ isFull' = [isFull EXCEPT ![drain] = 0]
    /\ drain' = NextSlot(drain)
    /\ UNCHANGED <<fill, count>>

(* Mutant: the slot just drained is programmed again. *)
HandleSameSlot ==
    /\ irqpc = "lock"
    /\ IF RingEmpty
         THEN UNCHANGED <<ring, card>>
         ELSE /\ Retire
              /\ IF RingFull \/ fill # drain'
                   THEN Program(drain, count[drain])
                   ELSE UNCHANGED card
    /\ irqpc' = IF RingFull THEN "wake" ELSE "idle"
    /\ UNCHANGED <<size, proc, flags>>

(* Mutant: the next request is started only when the ring was full. *)
HandleForgetsNext ==
    /\ irqpc = "lock"
    /\ IF RingEmpty
         THEN UNCHANGED <<ring, card>>
         ELSE /\ Retire
              /\ IF RingFull
                   THEN Program(drain', count[drain'])
                   ELSE UNCHANGED card
    /\ irqpc' = IF RingFull THEN "wake" ELSE "idle"
    /\ UNCHANGED <<size, proc, flags>>

(* The locked section.  A ring that looks empty here is the branch that    *)
(* prints "Should not come here!!" and does nothing else.                  *)
Handle ==
    /\ irqpc = "lock"
    /\ IF RingEmpty
         THEN UNCHANGED <<ring, card>>
         ELSE /\ Retire
              /\ IF RingFull \/ fill # drain'
                   THEN Program(drain', count[drain'])
                   ELSE UNCHANGED card
    /\ irqpc' = IF RingFull THEN "wake" ELSE "idle"
    /\ UNCHANGED <<size, proc, flags>>

(* Mutant: the wakeup is lost. *)
WakeNobody ==
    /\ irqpc = "wake"
    /\ irqpc' = "idle"
    /\ UNCHANGED <<ring, size, proc, card, flags>>

(* wake_up_interruptible(&dma_snooze), after the unlock. *)
WakeUp ==
    /\ irqpc = "wake"
    /\ pc' = [p \in Procs |-> IF pc[p] = "asleep" THEN "wait" ELSE pc[p]]
    /\ irqpc' = "idle"
    /\ UNCHANGED <<ring, size, asked, numBytes, ubuf, card, flags>>

-----------------------------------------------------------------------------
Kernel(p) ==
    \/ Call(p) \/ Suspend(p) \/ StartCard(p) \/ QueueBehind(p)
    \/ WaitEvent(p) \/ QueueAfterWait(p) \/ CopyToUser(p)

Handler == ReadStatus \/ Acknowledge \/ Handle \/ WakeUp

Next ==
    \/ \E p \in Procs : CopyFromUser(p) \/ Kernel(p) \/ Interrupted(p)
    \/ CardDone
    \/ Handler

(* The card finishes what it was given, the handler runs when the line is  *)
(* raised, and a process inside the kernel is scheduled again; whether a   *)
(* process ever calls START_DMA is its own affair.                         *)
Fairness ==
    /\ WF_vars(CardDone)
    /\ WF_vars(Handler)
    /\ \A p \in Procs : WF_vars(Kernel(p))

Spec == Init /\ [][Next]_vars /\ Fairness

-----------------------------------------------------------------------------
(* A transfer is in flight from the write of the registers until the       *)
(* handler enters its locked section and retires it.                       *)
InFlight == busy > 0 \/ status = 1 \/ irqpc = "lock"

(* The slots from drain up to fill, the whole ring when they are equal. *)
InWindow(s) == IF drain < fill THEN drain <= s /\ s < fill
                               ELSE drain <= s \/ s < fill

(* The branch of dma_interrupt that prints "Should not come here!!" cannot *)
(* be taken: whoever calls START_DMA and whatever interrupts it, a handler *)
(* about to retire a transfer finds a request in the ring.                 *)
NeverComesHere == irqpc = "lock" => ~ RingEmpty

(* initiateTransfer and dma_interrupt both write the registers, and        *)
(* between them never start a transfer before the last one is retired:     *)
(* the card has one register pair and no queue.                            *)
OneTransferAtATime ==
    busy + status + (IF irqpc = "lock" THEN 1 ELSE 0) =< 1

(* The transfer in flight is that of the oldest slot, the one at drain,    *)
(* and every slot from there to fill still holds a request: the handler    *)
(* that retires slot drain retires what the card carried.                  *)
CarriesOldest ==
    InFlight => /\ addr = drain
                /\ \A s \in Slots : InWindow(s) => isFull[s] = 1

(* While the card is reading a buffer no step of the driver rewrites its   *)
(* registers or gives the slot up.                                         *)
CardUndisturbed ==
    [][ busy > 0 /\ busy' > 0 => /\ addr' = addr /\ config' = config
                                 /\ isFull'[addr] = 1 ]_vars

-----------------------------------------------------------------------------
(* What one caller that is not disturbed (Procs a singleton, Env empty)    *)
(* can rely on.                                                            *)

(* isFull, fill and drain tell the same story: the full slots are exactly  *)
(* those of the window, and equal indices mean all of them or none.        *)
RingExact ==
    \A s \in Slots :
        isFull[s] = 1 <=> InWindow(s) /\ (fill # drain \/ isFull[drain] = 1)

(* The request queued after a suspension goes to a free slot, although the *)
(* code does not look again once it has the lock back.                     *)
NoOverwrite == \A p \in Procs : pc[p] = "relock" => isFull[fill] = 0

(* The slot a request is queued in is the one whose address the process    *)
(* was given, and so the one it wrote its data to.                         *)
OwnSlot ==
    \A p \in Procs : pc[p] # "return" => ubuf[p] = fill

(* As long as a transfer is in flight every queued slot gets its turn and  *)
(* is emptied.                                                             *)
AcceptedDrains ==
    \A s \in Slots : InFlight /\ isFull[s] = 1 ~> isFull[s] = 0

(* A process suspended on the full ring returns to its caller, if a        *)
(* transfer is in flight when it goes to sleep.                            *)
SuspendedReturns ==
    \A p \in Procs : pc[p] = "asleep" /\ InFlight ~> pc[p] = "user"

-----------------------------------------------------------------------------
(* Statements of the source that the code does not keep. *)

(* "Buffer is empty. So write request to register" (dmaBuffer.c:223): a    *)
(* ring that holds a request always has a transfer in flight, since no     *)
(* other step would ever start it.                                         *)
RequestIsStarted == isFull[drain] = 1 => InFlight
=============================================================================
