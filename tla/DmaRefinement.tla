---------------------------- MODULE DmaRefinement ----------------------------
(***************************************************************************)
(* The ring of dmaBuffer.c, used by one undisturbed caller, implements the *)
(* queue of DmaQueue.                                                      *)
(***************************************************************************)
EXTENDS DmaRing, Sequences

(* The number of requests in the ring. *)
QueueLen ==
    IF fill = drain
      THEN IF isFull[drain] = 1 THEN BUFFERS ELSE 0
      ELSE IF drain < fill THEN fill - drain ELSE fill - drain + BUFFERS

(* The slot i places behind drain. *)
SlotAt(i) == (drain + i) % BUFFERS

QueueOfRing == [i \in 1 .. QueueLen |-> count[SlotAt(i - 1)]]

(* The request a process has made and the ring has not taken. *)
PendingOf(p) ==
    IF pc[p] \in {"copied", "lock", "wait", "asleep", "relock"}
      THEN asked[p] ELSE 0

Caller == CHOOSE p \in Procs : TRUE

Queue0 == INSTANCE DmaQueue WITH
    Capacity <- BUFFERS,
    pending  <- PendingOf(Caller),
    queue    <- QueueOfRing,
    carried  <- (status = 1 \/ irqpc = "lock"),
    moved    <- moved

(* Every request of a lone caller enters the queue once, in order and with *)
(* its size, is carried once by the card with that size, and leaves the    *)
(* ring only then: START_DMA and dma_interrupt implement DmaQueue.         *)
ImplementsQueue == Queue0!QSpec
=============================================================================
