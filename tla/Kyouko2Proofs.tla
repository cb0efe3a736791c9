----------------------------- MODULE Kyouko2Proofs -----------------------------
(***************************************************************************)
(* Proofs about Kyouko2: as long as no program has died in open or         *)
(* release, what a driver holds of the machine is determined by the call   *)
(* it is in and by the steps that are left of it.                          *)
(***************************************************************************)
EXTENDS Kyouko2, SequenceTheorems, TLAPS

Referenced == fd \/ vmas # {}

(* The last n steps of call c. *)
Last(c, n) == SubSeq(c, Len(c) - n + 1, Len(c))

driver_full_release ==
    <<"irq_off", "free_irq", "msi_off", "free", "unmapped", "reboot", "iounmap">>

(* The steps of the ioctls other than BIND_DMA, which hold on to what they *)
(* find.                                                                   *)
Harmless == {"write", "sync", "reboot", "drain", "start", "wait"}

(* The window of the current program, which is missing if its mapping      *)
(* failed and shows no card if it was mapped before the probe.             *)
Window == /\ maps = {base} \ {0}
          /\ base = 0 => 0 \in dud
          /\ base \notin dud => probed

(* What the driver holds: buffers, dma_mapped, MSI, the hooked handler.    *)
(* Where a kernel call fails and the driver goes on, it may be missing;    *)
(* MSI and the handler also where the program died before it got them.     *)
Buffers(b) == IF b THEN /\ bufs \subseteq {handle}
                        /\ "alloc" \notin Faults => bufs = {handle}
                   ELSE bufs = {}
Hooked(h) == IF h THEN /\ hooks \in {0, 1}
                       /\ "request_irq" \notin Faults /\ dud = {} => hooks = 1
                  ELSE hooks = 0 /\ irqpc = "idle"
Holds(b, d, m, h) ==
    /\ Buffers(b) /\ Hooked(h)
    /\ dma_mapped \in BOOLEAN /\ (dma_mapped <=> d)
    /\ msi \in BOOLEAN /\ (msi => m) /\ (m /\ dud = {} => msi)
Bare == Holds(FALSE, FALSE, FALSE, FALSE) /\ ~ ie

(* The handler is hooked for certain. *)
HookedNow == "request_irq" \notin Faults => hooks = 1

(* The card's interrupt is enabled through this window, for this handler. *)
Enabled == ie => Reaches /\ HookedNow

(* The phases of a program's use of the device. *)
Rest == ~ Referenced /\ todo = <<>> /\ maps = {} /\ Bare
Opening ==
    /\ Referenced /\ ~ bound /\ maps = {} /\ Bare
    /\ opens # 0 /\ opens \notin dud
    /\ \/ drv # "launch" /\ todo = <<"ioremap">>
       \/ drv = "drawLineTriangle" /\ todo = <<"read", "ioremap">>
Unbound ==
    /\ Referenced /\ ~ bound /\ todo \in Seq(Harmless) /\ Bare
    /\ IF drv = "launch" THEN maps = {} /\ todo = <<>> ELSE Window
Binding ==
    /\ Referenced /\ bound /\ Window /\ ~ ie
    /\ \/ /\ drv = "dmaBuffer"
          /\ \E n \in 1 .. 6 : /\ todo = Last(dmaBuffer_bind, n)
                               /\ Holds(n < 6, FALSE, n < 4, n < 3)
                               /\ n < 3 => HookedNow
       \/ /\ drv = "driver"
          /\ \E n \in 1 .. 7 : /\ todo = Last(driver_bind, n)
                               /\ Holds(n < 7, n < 6, n < 4, n < 3)
                               /\ n < 3 => HookedNow
Bound ==
    /\ Referenced /\ bound /\ Window /\ todo \in Seq(Harmless) /\ Enabled
    /\ drv \in {"dmaBuffer", "driver"} /\ Holds(TRUE, drv = "driver", TRUE, TRUE)
ReleasingAll ==
    /\ drv = "driver" /\ bound /\ Window /\ Enabled
    /\ \E n \in 1 .. 7 : /\ todo = Last(driver_full_release, n)
                         /\ Holds(n >= 4, n >= 3, n >= 5, n >= 6)
                         /\ ie => n = 7
ReleasingBlindly ==
    /\ drv = "dmaBuffer" /\ Enabled
    /\ \E n \in 1 .. 6 : /\ todo = Last(dmaBuffer_release, n)
                         /\ IF n >= 5 THEN Window ELSE maps = {}
                         /\ Holds(bound, FALSE, bound /\ n >= 2, bound /\ n >= 3)
                         /\ ie => n = 6 /\ bound
ReleasingWindow ==
    /\ drv \in {"driver", "drawLineTriangle", "contact"} /\ ~ bound
    /\ Window /\ Bare
    /\ todo \in {<<"iounmap">>, <<"reboot", "iounmap">>}
Releasing ==
    ~ Referenced /\ (ReleasingAll \/ ReleasingBlindly \/ ReleasingWindow)

Phases == Rest \/ Opening \/ Unbound \/ Binding \/ Bound \/ Releasing

AllSteps == Harmless \cup {"read", "ack", "irq_on", "irq_off", "ioremap", "iounmap",
                           "alloc", "free", "reset", "mapped", "unmapped", "msi_on",
                           "msi_off", "request_irq", "free_irq"}

(* The current call starts no transfer. *)
StartFree == todo \in Seq(AllSteps \ {"start", "wait"})

(* driver.c: a transfer, a completion or a handler is under way for a full *)
(* slot, at most one of them, and only between BIND_DMA and the reboot in  *)
(* release.                                                                *)
Active == busy # Idle \/ status \/ irqpc # "idle"
Transfers ==
    drv = "driver" =>
        /\ queued \in Nat /\ irqpc \in {"idle", "lock"}
        /\ Active => queued > 0 /\ Reaches
        /\ busy # Idle => busy = handle /\ ~ status /\ irqpc = "idle"
        /\ status => irqpc = "idle"
        /\ Active => bound /\ IF Referenced THEN todo \in Seq(Harmless)
                                            ELSE todo \notin {<<>>, <<"iounmap">>}
        /\ ~ bound => StartFree

(* Where testdmaBuffer.c ends graphics mode: the calls before its V-th may *)
(* start a transfer, and behind it none is under way.                      *)
V == 5 + 2 * Rounds
Position ==
    drv = "driver" /\ client = "test" =>
        /\ at \in 0 .. V + 1
        /\ ~ Referenced => at \in {0, V + 1}
        /\ at \notin 1 .. V - 1 => StartFree
        /\ Active => /\ at \in 1 .. V
                     /\ at = V => todo \in {<<"sync", "drain">>, <<"drain">>}

(* While nothing is wrecked ... *)
KInv == /\ drv \in Drivers /\ opens \in Nat /\ dud \subseteq 0 .. opens
        /\ module \in {"none", "going"} => ~ Referenced /\ todo = <<>>
        /\ Phases /\ Transfers /\ Position

(* ... and at all times. *)
IInv == drv \in Drivers /\ OnlyBlindDie /\ (~ Wrecked => KInv)

-----------------------------------------------------------------------------
(* The steps that are left of a call. *)
LEMMA LastSteps ==
  ASSUME NEW S, NEW c \in Seq(S), NEW n \in 1 .. Len(c)
  PROVE  /\ Last(c, n) # <<>> /\ Last(c, 0) = <<>> /\ Last(c, Len(c)) = c
         /\ Head(Last(c, n)) = c[Len(c) - n + 1]
         /\ Tail(Last(c, n)) = Last(c, n - 1)
  <1>1. Len(c) \in Nat /\ Len(c) - n + 1 \in 1 .. Len(c)
    OBVIOUS
  <1>2. \A i \in Len(c) - n + 1 .. Len(c) : c[i] \in S
    BY <1>1, ElementOfSeq
  <1>3. Len(Last(c, n)) = n
    BY <1>1, <1>2, SubSeqProperties DEF Last
  <1>4. Last(c, 0) = <<>>
    BY <1>1, SubSeqEmpty DEF Last
  <1>5. Last(c, Len(c)) = c
    BY <1>1, SubSeqFull DEF Last
  <1>6. Last(c, n) # <<>>
    BY <1>3, EmptySeq
  <1>7. /\ Head(Last(c, n)) = c[Len(c) - n + 1]
        /\ Tail(Last(c, n)) = Last(c, n - 1)
    <2>1. Len(c) \in Len(c) - n + 1 .. Len(c) /\ Len(c) - (n - 1) + 1 = Len(c) - n + 1 + 1
      BY <1>1
    <2> QED
      BY <1>1, <2>1, HeadTailOfSubSeq DEF Last
  <1> QED
    BY <1>4, <1>5, <1>6, <1>7

LEMMA DriverBindSteps ==
  ASSUME NEW n \in 1 .. 7
  PROVE  /\ Last(driver_bind, 0) = <<>> /\ Last(driver_bind, 7) = driver_bind
         /\ Last(driver_bind, n) # <<>>
         /\ Tail(Last(driver_bind, n)) = Last(driver_bind, n - 1)
         /\ LET s == Head(Last(driver_bind, n)) IN
            /\ (n = 7 => s = "alloc") /\ (n = 6 => s = "mapped")
            /\ (n = 5 => s = "reset") /\ (n = 4 => s = "msi_on")
            /\ (n = 3 => s = "request_irq") /\ (n = 2 => s = "ack")
            /\ (n = 1 => s = "irq_on")
            /\ s \in {"alloc", "mapped", "reset", "msi_on", "request_irq", "ack", "irq_on"}
  <1>1. /\ driver_bind \in Seq({"alloc", "mapped", "reset", "msi_on", "request_irq", "ack", "irq_on"}) /\ Len(driver_bind) = 7
        /\ Len(driver_bind) - n + 1 = 8 - n
    BY DEF driver_bind
  <1>2. Head(Last(driver_bind, n)) = driver_bind[8 - n]
    <2>1. Head(Last(driver_bind, n)) = driver_bind[Len(driver_bind) - n + 1]
      BY <1>1, LastSteps
    <2> QED
      BY <1>1, <2>1
  <1>3. /\ (n = 7 => driver_bind[8 - n] = "alloc") /\ (n = 6 => driver_bind[8 - n] = "mapped")
        /\ (n = 5 => driver_bind[8 - n] = "reset") /\ (n = 4 => driver_bind[8 - n] = "msi_on")
        /\ (n = 3 => driver_bind[8 - n] = "request_irq") /\ (n = 2 => driver_bind[8 - n] = "ack")
        /\ (n = 1 => driver_bind[8 - n] = "irq_on")
    BY DEF driver_bind
  <1>4. driver_bind[8 - n] \in {"alloc", "mapped", "reset", "msi_on", "request_irq", "ack", "irq_on"}
    BY <1>3
  <1> QED
    BY <1>1, <1>2, <1>3, <1>4, LastSteps

LEMMA DmaBufferBindSteps ==
  ASSUME NEW n \in 1 .. 6
  PROVE  /\ Last(dmaBuffer_bind, 0) = <<>> /\ Last(dmaBuffer_bind, 6) = dmaBuffer_bind
         /\ Last(dmaBuffer_bind, n) # <<>>
         /\ Tail(Last(dmaBuffer_bind, n)) = Last(dmaBuffer_bind, n - 1)
         /\ LET s == Head(Last(dmaBuffer_bind, n)) IN
            /\ (n = 6 => s = "alloc") /\ (n = 5 => s = "reset")
            /\ (n = 4 => s = "msi_on") /\ (n = 3 => s = "request_irq")
            /\ (n = 2 => s = "ack") /\ (n = 1 => s = "irq_on")
  <1> DEFINE c == dmaBuffer_bind
  <1>1. /\ c \in Seq({"alloc", "mapped", "reset", "msi_on", "request_irq", "ack", "irq_on"}) /\ Len(c) = 6
        /\ Len(c) - n + 1 = 7 - n
    BY DEF dmaBuffer_bind
  <1>2. Head(Last(c, n)) = c[7 - n]
    <2>1. Head(Last(c, n)) = c[Len(c) - n + 1]
      BY <1>1, LastSteps
    <2> QED
      BY <1>1, <2>1
  <1>3. /\ (n = 6 => c[7 - n] = "alloc") /\ (n = 5 => c[7 - n] = "reset")
        /\ (n = 4 => c[7 - n] = "msi_on") /\ (n = 3 => c[7 - n] = "request_irq")
        /\ (n = 2 => c[7 - n] = "ack") /\ (n = 1 => c[7 - n] = "irq_on")
    BY DEF dmaBuffer_bind
  <1> QED
    BY <1>1, <1>2, <1>3, LastSteps

LEMMA FullReleaseSteps ==
  ASSUME NEW n \in 1 .. 7
  PROVE  /\ Last(driver_full_release, 0) = <<>>
         /\ Last(driver_full_release, 7) = driver_full_release
         /\ Last(driver_full_release, n) # <<>>
         /\ Tail(Last(driver_full_release, n)) = Last(driver_full_release, n - 1)
         /\ LET s == Head(Last(driver_full_release, n)) IN
            /\ (n = 7 => s = "irq_off") /\ (n = 6 => s = "free_irq")
            /\ (n = 5 => s = "msi_off") /\ (n = 4 => s = "free")
            /\ (n = 3 => s = "unmapped") /\ (n = 2 => s = "reboot")
            /\ (n = 1 => s = "iounmap") /\ (n # 1 => s # "iounmap")
  <1> DEFINE c == driver_full_release
  <1>1. /\ c \in Seq({"irq_off", "free_irq", "msi_off", "free", "unmapped", "reboot", "iounmap"}) /\ Len(c) = 7
        /\ Len(c) - n + 1 = 8 - n
    BY DEF driver_full_release
  <1>2. Head(Last(c, n)) = c[8 - n]
    <2>1. Head(Last(c, n)) = c[Len(c) - n + 1]
      BY <1>1, LastSteps
    <2> QED
      BY <1>1, <2>1
  <1>3. /\ (n = 7 => c[8 - n] = "irq_off") /\ (n = 6 => c[8 - n] = "free_irq")
        /\ (n = 5 => c[8 - n] = "msi_off") /\ (n = 4 => c[8 - n] = "free")
        /\ (n = 3 => c[8 - n] = "unmapped") /\ (n = 2 => c[8 - n] = "reboot")
        /\ (n = 1 => c[8 - n] = "iounmap")
    BY DEF driver_full_release
  <1>4. n # 1 => c[8 - n] # "iounmap"
    BY <1>3
  <1> QED
    BY <1>1, <1>2, <1>3, <1>4, LastSteps

LEMMA DmaBufferReleaseSteps ==
  ASSUME NEW n \in 1 .. 6
  PROVE  /\ Last(dmaBuffer_release, 0) = <<>>
         /\ Last(dmaBuffer_release, 6) = dmaBuffer_release
         /\ Last(dmaBuffer_release, n) # <<>>
         /\ Tail(Last(dmaBuffer_release, n)) = Last(dmaBuffer_release, n - 1)
         /\ LET s == Head(Last(dmaBuffer_release, n)) IN
            /\ (n = 6 => s = "reboot") /\ (n = 5 => s = "iounmap")
            /\ (n = 4 => s = "irq_off") /\ (n = 3 => s = "free_irq")
            /\ (n = 2 => s = "msi_off") /\ (n = 1 => s = "free")
  <1> DEFINE c == dmaBuffer_release
  <1>1. /\ c \in Seq({"irq_off", "free_irq", "msi_off", "free", "unmapped", "reboot", "iounmap"}) /\ Len(c) = 6
        /\ Len(c) - n + 1 = 7 - n
    BY DEF dmaBuffer_release
  <1>2. Head(Last(c, n)) = c[7 - n]
    <2>1. Head(Last(c, n)) = c[Len(c) - n + 1]
      BY <1>1, LastSteps
    <2> QED
      BY <1>1, <2>1
  <1>3. /\ (n = 6 => c[7 - n] = "reboot") /\ (n = 5 => c[7 - n] = "iounmap")
        /\ (n = 4 => c[7 - n] = "irq_off") /\ (n = 3 => c[7 - n] = "free_irq")
        /\ (n = 2 => c[7 - n] = "msi_off") /\ (n = 1 => c[7 - n] = "free")
    BY DEF dmaBuffer_release
  <1> QED
    BY <1>1, <1>2, <1>3, LastSteps

-----------------------------------------------------------------------------
(* What a step does to what the driver holds, by the name of the step. *)
HandlesStep(s) ==
    /\ s # "ioremap" => base' = base /\ dud' = dud
    /\ s = "ioremap" =>
          \/ /\ base' = opens /\ maps' = maps \cup {opens}
             /\ dud' = dud \cup (IF probed THEN {} ELSE {opens})
          \/ base' = 0 /\ maps' = maps /\ dud' = dud \cup {0}
    /\ s = "iounmap" => maps' = maps \ {base}
    /\ s \notin {"ioremap", "iounmap"} => maps' = maps
    /\ s \notin {"mapped", "unmapped"} => dma_mapped' = dma_mapped
    /\ s = "mapped" => dma_mapped' = TRUE
    /\ s = "unmapped" => dma_mapped' = FALSE
    /\ s \notin {"msi_on", "msi_off"} => msi' = msi
    /\ s = "msi_on" => msi' \in BOOLEAN /\ (msi' <=> (probed \/ msi))
    /\ s = "msi_off" => msi' = FALSE
    /\ s \notin {"alloc", "free"} => UNCHANGED <<handle, bufs>>
    /\ s = "free" => handle' = handle /\ bufs' = bufs \ {handle}
    /\ s = "alloc" => \/ handle' = opens /\ bufs' = bufs \cup {opens}
                      \/ "alloc" \in Faults /\ UNCHANGED <<handle, bufs>>
    /\ s \notin {"request_irq", "free_irq"} => hooks' = hooks
    /\ s = "free_irq" => irqpc = "idle" /\ hooks' = IF hooks = 0 THEN 0 ELSE hooks - 1
    /\ s = "request_irq" => \/ hooks' = hooks + 1
                            \/ "request_irq" \in Faults /\ hooks' = hooks

CardStep(s) ==
    /\ irqpc' = irqpc
    /\ ie' => ie \/ (s = "irq_on" /\ base \notin dud)
    /\ Reaches /\ s \in {"irq_off", "reboot"} => ~ ie'
    /\ busy' # busy => \/ busy' = Idle
                       \/ s = "start" /\ queued = 0 /\ busy' = handle /\ base \notin dud
    /\ status' => status
    /\ Reaches /\ s = "reboot" => busy' = Idle /\ ~ status'

RingStep(s) ==
    /\ s \notin {"reset", "start", "wait"} => queued' = queued
    /\ s = "reset" => queued' = 0
    /\ s \in {"start", "wait"} => queued' = queued \/ queued' = queued + 1
    /\ s = "start" /\ queued = 0 => queued' = 1
    /\ s = "drain" => queued = 0

StepOf(s) ==
    /\ todo # <<>> /\ Head(todo) = s
    /\ UNCHANGED <<drv, client, module, probed, damage, fd, bound, opens, at>>
    /\ vmas \subseteq vmas' /\ (s # "alloc" => vmas' = vmas)
    /\ todo' = Tail(todo) \/ (s = "start" /\ todo' = <<"wait">> \o Tail(todo))
    /\ HandlesStep(s) /\ CardStep(s) /\ RingStep(s)

LEMMA StepsAreStepOf ==
  ASSUME Steps, ~ Fault, dma_mapped \in BOOLEAN, msi \in BOOLEAN
  PROVE  \E s \in AllSteps : StepOf(s)
  <1> USE DEF Step, Then, Done, Write, Arrives, Mapped, Reaches, scenario, loader, windows,
              owned, user, card, StepOf, HandlesStep, CardStep, RingStep
  <1>1. CASE Registers
    <2>1. PICK s \in {"read", "write", "sync", "reboot", "ack", "irq_on", "irq_off"} :
              todo # <<>> /\ Head(todo) = s
      BY <1>1 DEF Registers
    <2>2. HandlesStep(s) /\ RingStep(s)
      BY <1>1, <2>1 DEF Registers
    <2>3. CardStep(s)
      BY <1>1, <2>1 DEF Registers
    <2>4. StepOf(s)
      BY <1>1, <2>1, <2>2, <2>3 DEF Registers
    <2> QED
      BY <2>1, <2>4 DEF AllSteps, Harmless
  <1>2. CASE Ioremap
    <2>1. StepOf("ioremap")
      BY <1>2 DEF Ioremap
    <2> QED
      BY <2>1 DEF AllSteps, Harmless
  <1>3. CASE Iounmap
    <2>1. StepOf("iounmap")
      BY <1>3 DEF Iounmap
    <2> QED
      BY <2>1 DEF AllSteps, Harmless
  <1>4. CASE Alloc
    <2>1. StepOf("alloc")
      BY <1>4 DEF Alloc
    <2> QED
      BY <2>1 DEF AllSteps, Harmless
  <1>5. CASE Free
    <2>1. StepOf("free")
      BY <1>5 DEF Free
    <2> QED
      BY <2>1 DEF AllSteps, Harmless
  <1>6. CASE Reset
    <2>1. StepOf("reset")
      BY <1>6 DEF Reset
    <2> QED
      BY <2>1 DEF AllSteps, Harmless
  <1>7. CASE RequestIrq
    <2>1. StepOf("request_irq")
      BY <1>7 DEF RequestIrq
    <2> QED
      BY <2>1 DEF AllSteps, Harmless
  <1>8. CASE FreeIrq
    <2>1. StepOf("free_irq")
      BY <1>8 DEF FreeIrq
    <2> QED
      BY <2>1 DEF AllSteps, Harmless
  <1>9. CASE Drain
    <2>1. StepOf("drain")
      BY <1>9 DEF Drain
    <2> QED
      BY <2>1 DEF AllSteps, Harmless
  <1>10. CASE initiateTransfer
    <2>1. StepOf("start")
      <3>1. todo # <<>> /\ Head(todo) = "start" /\ HandlesStep("start")
        BY <1>10 DEF initiateTransfer
      <3>2. CASE queued = BUFFERS
        <4>1. RingStep("start")
          BY <1>10, <3>2, BuffersAssumption DEF initiateTransfer
        <4>2. CardStep("start")
          BY <1>10, <3>2, BuffersAssumption DEF initiateTransfer
        <4> QED
          BY <1>10, <3>1, <3>2, <4>1, <4>2 DEF initiateTransfer
      <3>3. CASE queued # BUFFERS
        <4>1. RingStep("start")
          BY <1>10, <3>3 DEF initiateTransfer
        <4>2. CardStep("start")
          BY <1>10, <3>1, <3>3 DEF initiateTransfer
        <4> QED
          BY <1>10, <3>1, <3>3, <4>1, <4>2 DEF initiateTransfer
      <3> QED
        BY <3>2, <3>3
    <2> QED
      BY <2>1 DEF AllSteps, Harmless
  <1>11. CASE WokenUp
    <2>1. StepOf("wait")
      BY <1>11 DEF WokenUp
    <2> QED
      BY <2>1 DEF AllSteps, Harmless
  <1>12. CASE SetMapped
    <2>1. StepOf("mapped") \/ StepOf("unmapped")
      BY <1>12 DEF SetMapped
    <2> QED
      BY <2>1 DEF AllSteps, Harmless
  <1>13. CASE Msi
    <2>1. StepOf("msi_on") \/ StepOf("msi_off")
      BY <1>13 DEF Msi
    <2> QED
      BY <2>1 DEF AllSteps, Harmless
  <1> QED
    BY <1>1, <1>2, <1>3, <1>4, <1>5, <1>6, <1>7, <1>8, <1>9, <1>10, <1>11, <1>12, <1>13
       DEF Steps

-----------------------------------------------------------------------------
(* A step of a call leads from one phase to the next. *)
LEMMA StepParts ==
  ASSUME NEW s, StepOf(s)
  PROVE  /\ todo # <<>> /\ Head(todo) = s /\ (s # "start" => todo' = Tail(todo))
         /\ UNCHANGED <<drv, client, module, probed, damage, fd, bound, opens, at>>
         /\ Referenced => Referenced'
         /\ s # "alloc" => Referenced' = Referenced
         /\ HandlesStep(s) /\ CardStep(s) /\ RingStep(s)
  BY DEF StepOf, Referenced

(* What is reached through the window. *)
LEMMA WindowShows ==
  ASSUME Window
  PROVE  /\ Mapped <=> base # 0
         /\ Reaches <=> base \notin dud
         /\ Reaches => probed
  BY DEF Window, Mapped, Reaches

LEMMA SameWindow ==
  ASSUME UNCHANGED <<base, maps, dud>>, probed => probed'
  PROVE  /\ Window => Window'
         /\ Reaches' <=> Reaches
  BY DEF Window, Reaches, Mapped

LEMMA OpeningStep ==
  ASSUME Opening, NEW s, StepOf(s)
  PROVE  Opening' \/ Unbound'
  <1>0. /\ todo # <<>> /\ Head(todo) = s /\ (s # "start" => todo' = Tail(todo))
        /\ UNCHANGED <<drv, bound, opens, probed>> /\ (Referenced => Referenced')
        /\ HandlesStep(s) /\ CardStep(s)
    BY StepParts
  <1>1. s \in {"read", "ioremap"}
    BY <1>0 DEF Opening
  <1>2. Referenced' /\ ~ bound' /\ Bare'
    BY <1>0, <1>1 DEF Opening, HandlesStep, CardStep, Bare, Holds, Buffers, Hooked
  <1>3. CASE drv = "drawLineTriangle" /\ todo = <<"read", "ioremap">>
    <2>1. s = "read" /\ todo' = <<"ioremap">>
      BY <1>0, <1>3
    <2>2. maps' = {} /\ drv' # "launch" /\ opens' # 0 /\ opens' \notin dud'
      BY <1>0, <1>3, <2>1 DEF Opening, HandlesStep
    <2> QED
      BY <1>2, <2>1, <2>2 DEF Opening
  <1>4. CASE drv # "launch" /\ todo = <<"ioremap">>
    <2>1. s = "ioremap" /\ todo' = <<>>
      BY <1>0, <1>4
    <2>2. Window'
      <3>1. CASE base' = opens /\ maps' = maps \cup {opens}
                 /\ dud' = dud \cup (IF probed THEN {} ELSE {opens})
        BY <1>0, <3>1 DEF Opening, Window
      <3>2. CASE base' = 0 /\ maps' = maps /\ dud' = dud \cup {0}
        BY <3>2 DEF Opening, Window
      <3> QED
        BY <1>0, <2>1, <3>1, <3>2 DEF HandlesStep
    <2>3. todo' \in Seq(Harmless) /\ drv' # "launch"
      BY <1>0, <1>4, <2>1
    <2> QED
      BY <1>2, <2>2, <2>3 DEF Unbound
  <1> QED
    BY <1>3, <1>4 DEF Opening

(* An ioctl does nothing that BIND_DMA and release undo. *)
LEMMA HarmlessStep ==
  ASSUME todo \in Seq(Harmless), NEW s, StepOf(s)
  PROVE  /\ todo' \in Seq(Harmless) /\ s \in Harmless
         /\ UNCHANGED <<base, maps, dud, probed, dma_mapped, msi, handle, bufs, hooks, irqpc>>
         /\ ie' => ie
  <1>1. s \in Harmless
    BY DEF StepOf
  <1>2. Tail(todo) \in Seq(Harmless) /\ <<"wait">> \o Tail(todo) \in Seq(Harmless)
    BY DEF StepOf, Harmless
  <1>3. todo' \in Seq(Harmless)
    BY <1>2 DEF StepOf
  <1>4. HandlesStep(s) /\ CardStep(s) /\ probed' = probed
    BY DEF StepOf
  <1>5. /\ UNCHANGED <<base, maps, dud, probed, dma_mapped, msi, handle, bufs, hooks, irqpc>>
        /\ ie' => ie
    BY <1>1, <1>4 DEF HandlesStep, CardStep, Harmless
  <1> QED
    BY <1>1, <1>3, <1>5

LEMMA IoctlStep ==
  ASSUME NEW s, StepOf(s)
  PROVE  /\ Unbound => Unbound'
         /\ Bound => Bound'
  <1>0. UNCHANGED <<drv, bound>> /\ (Referenced => Referenced') /\ todo # <<>>
    BY StepParts
  <1>1. ASSUME Unbound PROVE Unbound'
    BY <1>0, <1>1, HarmlessStep DEF Unbound, Window, Bare, Holds, Buffers, Hooked
  <1>2. ASSUME Bound PROVE Bound'
    <2>1. /\ todo' \in Seq(Harmless) /\ (ie' => ie)
          /\ UNCHANGED <<base, maps, dud, probed, dma_mapped, msi, handle, bufs, hooks, irqpc>>
      BY <1>2, HarmlessStep DEF Bound
    <2>2. Window' /\ Enabled'
      BY <1>2, <2>1 DEF Bound, Window, Enabled, HookedNow, Reaches, Mapped
    <2>3. Holds(TRUE, drv = "driver", TRUE, TRUE)'
      BY <1>0, <1>2, <2>1 DEF Bound, Holds, Buffers, Hooked
    <2> QED
      BY <1>0, <1>2, <2>1, <2>2, <2>3 DEF Bound
  <1> QED
    BY <1>1, <1>2

LEMMA BindingStep ==
  ASSUME Binding, NEW s, StepOf(s)
  PROVE  Binding' \/ Bound'
  <1>0. /\ todo # <<>> /\ Head(todo) = s /\ (s # "start" => todo' = Tail(todo))
        /\ HandlesStep(s) /\ CardStep(s) /\ probed' = probed
    BY StepParts
  <1>1. Referenced' /\ bound' /\ drv' = drv
    BY StepParts DEF Binding
  <1>2. CASE drv = "driver"
    <2>1. PICK n \in 1 .. 7 : /\ todo = Last(driver_bind, n)
                              /\ Holds(n < 7, n < 6, n < 4, n < 3)
                              /\ n < 3 => HookedNow
      BY <1>2 DEF Binding
    <2>2. /\ (n = 7 => s = "alloc") /\ (n = 6 => s = "mapped") /\ (n = 5 => s = "reset")
          /\ (n = 4 => s = "msi_on") /\ (n = 3 => s = "request_irq") /\ (n = 2 => s = "ack")
          /\ (n = 1 => s = "irq_on")
      BY <1>0, <2>1, DriverBindSteps
    <2>3. todo' = Last(driver_bind, n - 1)
      <3>1. s # "start"
        BY <2>2
      <3> QED
        BY <1>0, <2>1, <3>1, DriverBindSteps
    <2>4. /\ UNCHANGED <<base, maps, dud>>
          /\ ie' => n = 1 /\ base \notin dud
      BY <1>0, <2>2 DEF HandlesStep, CardStep, Binding
    <2>5. Window'
      BY <1>0, <2>4, SameWindow DEF Binding
    <2>6. Buffers(n - 1 < 7)'
      BY <1>0, <2>1, <2>2 DEF HandlesStep, Holds, Buffers
    <2>7. Hooked(n - 1 < 3)' /\ (n - 1 < 3 => HookedNow')
      <3>1. CASE n = 3
        <4>1. hooks = 0 /\ irqpc = "idle" /\ s = "request_irq"
          BY <2>1, <2>2, <3>1 DEF Holds, Hooked
        <4>2. hooks' \in {0, 1} /\ ("request_irq" \notin Faults => hooks' = 1)
          BY <1>0, <4>1 DEF HandlesStep
        <4> QED
          BY <3>1, <4>2 DEF Hooked, HookedNow
      <3>2. CASE n # 3
        <4>1. hooks' = hooks /\ irqpc' = irqpc
          BY <1>0, <2>2, <3>2 DEF HandlesStep, CardStep
        <4>2. (n - 1 < 3) <=> (n < 3)
          BY <3>2
        <4> QED
          BY <2>1, <2>4, <4>1, <4>2 DEF Holds, Hooked, HookedNow
      <3> QED
        BY <3>1, <3>2
    <2>8. /\ dma_mapped' \in BOOLEAN /\ (dma_mapped' <=> n - 1 < 6)
          /\ msi' \in BOOLEAN /\ (msi' => n - 1 < 4) /\ (n - 1 < 4 /\ dud' = {} => msi')
      <3>1. dma_mapped <=> n < 6
        BY <2>1 DEF Holds
      <3>2. (msi => n < 4) /\ (n < 4 /\ dud = {} => msi)
        BY <2>1 DEF Holds
      <3>3. dma_mapped' \in BOOLEAN /\ msi' \in BOOLEAN
        BY <1>0, <2>1 DEF HandlesStep, Holds
      <3>4. dma_mapped' <=> n - 1 < 6
        BY <1>0, <2>2, <3>1 DEF HandlesStep
      <3>5. dud = {} => probed
        BY DEF Binding, Window
      <3>6. (msi' => n - 1 < 4) /\ (n - 1 < 4 /\ dud' = {} => msi')
        <4>1. CASE n = 4
          <5>1. msi' <=> (probed \/ msi)
            BY <1>0, <2>2, <4>1 DEF HandlesStep
          <5> QED
            BY <2>4, <3>5, <4>1, <5>1
        <4>2. CASE n # 4
          <5>1. msi' = msi
            BY <1>0, <2>2, <4>2 DEF HandlesStep
          <5>2. (n - 1 < 4) <=> (n < 4)
            BY <4>2
          <5> QED
            BY <2>4, <3>2, <5>1, <5>2
        <4> QED
          BY <4>1, <4>2
      <3> QED
        BY <3>3, <3>4, <3>6
    <2>9. CASE n = 1
      <3>1. todo' \in Seq(Harmless)
        BY <2>3, <2>9, DriverBindSteps
      <3>2. /\ n - 1 < 7 /\ n - 1 < 4 /\ n - 1 < 3 /\ n - 1 < 6
        BY <2>9
      <3>3. Holds(TRUE, drv = "driver", TRUE, TRUE)'
        BY <1>1, <1>2, <2>6, <2>7, <2>8, <3>2 DEF Holds, Buffers, Hooked
      <3>4. Enabled'
        <4>1. Reaches' <=> base' \notin dud'
          BY <2>5, WindowShows DEF Window, Reaches, Mapped
        <4> QED
          BY <2>4, <2>7, <3>2, <4>1 DEF Enabled
      <3> QED
        BY <1>1, <1>2, <2>5, <3>1, <3>3, <3>4 DEF Bound
    <2>10. CASE n # 1
      <3>1. n - 1 \in 1 .. 7 /\ ~ ie'
        BY <2>4, <2>10
      <3> QED
        BY <1>1, <1>2, <2>3, <2>5, <2>6, <2>7, <2>8, <3>1 DEF Binding, Holds
    <2> QED
      BY <2>9, <2>10
  <1>3. CASE drv = "dmaBuffer"
    <2>1. PICK n \in 1 .. 6 : /\ todo = Last(dmaBuffer_bind, n)
                              /\ Holds(n < 6, FALSE, n < 4, n < 3)
                              /\ n < 3 => HookedNow
      BY <1>3 DEF Binding
    <2>2. /\ (n = 6 => s = "alloc") /\ (n = 5 => s = "reset") /\ (n = 4 => s = "msi_on")
          /\ (n = 3 => s = "request_irq") /\ (n = 2 => s = "ack") /\ (n = 1 => s = "irq_on")
      BY <1>0, <2>1, DmaBufferBindSteps
    <2>3. todo' = Last(dmaBuffer_bind, n - 1)
      <3>1. s # "start"
        BY <2>2
      <3> QED
        BY <1>0, <2>1, <3>1, DmaBufferBindSteps
    <2>4. /\ UNCHANGED <<base, maps, dud>>
          /\ ie' => n = 1 /\ base \notin dud
      BY <1>0, <2>2 DEF HandlesStep, CardStep, Binding
    <2>5. Window'
      BY <1>0, <2>4, SameWindow DEF Binding
    <2>6. Buffers(n - 1 < 6)'
      BY <1>0, <2>1, <2>2 DEF HandlesStep, Holds, Buffers
    <2>7. Hooked(n - 1 < 3)' /\ (n - 1 < 3 => HookedNow')
      <3>1. CASE n = 3
        <4>1. hooks = 0 /\ irqpc = "idle" /\ s = "request_irq"
          BY <2>1, <2>2, <3>1 DEF Holds, Hooked
        <4>2. hooks' \in {0, 1} /\ ("request_irq" \notin Faults => hooks' = 1)
          BY <1>0, <4>1 DEF HandlesStep
        <4> QED
          BY <3>1, <4>2 DEF Hooked, HookedNow
      <3>2. CASE n # 3
        <4>1. hooks' = hooks /\ irqpc' = irqpc
          BY <1>0, <2>2, <3>2 DEF HandlesStep, CardStep
        <4>2. (n - 1 < 3) <=> (n < 3)
          BY <3>2
        <4> QED
          BY <2>1, <2>4, <4>1, <4>2 DEF Holds, Hooked, HookedNow
      <3> QED
        BY <3>1, <3>2
    <2>8. /\ dma_mapped' \in BOOLEAN /\ (dma_mapped' <=> FALSE)
          /\ msi' \in BOOLEAN /\ (msi' => n - 1 < 4) /\ (n - 1 < 4 /\ dud' = {} => msi')
      <3>1. dma_mapped <=> FALSE
        BY <2>1 DEF Holds
      <3>2. (msi => n < 4) /\ (n < 4 /\ dud = {} => msi)
        BY <2>1 DEF Holds
      <3>3. dma_mapped' \in BOOLEAN /\ msi' \in BOOLEAN
        BY <1>0, <2>1 DEF HandlesStep, Holds
      <3>4. dma_mapped' <=> FALSE
        BY <1>0, <2>2, <3>1 DEF HandlesStep
      <3>5. dud = {} => probed
        BY DEF Binding, Window
      <3>6. (msi' => n - 1 < 4) /\ (n - 1 < 4 /\ dud' = {} => msi')
        <4>1. CASE n = 4
          <5>1. msi' <=> (probed \/ msi)
            BY <1>0, <2>2, <4>1 DEF HandlesStep
          <5> QED
            BY <2>4, <3>5, <4>1, <5>1
        <4>2. CASE n # 4
          <5>1. msi' = msi
            BY <1>0, <2>2, <4>2 DEF HandlesStep
          <5>2. (n - 1 < 4) <=> (n < 4)
            BY <4>2
          <5> QED
            BY <2>4, <3>2, <5>1, <5>2
        <4> QED
          BY <4>1, <4>2
      <3> QED
        BY <3>3, <3>4, <3>6
    <2>9. CASE n = 1
      <3>1. todo' \in Seq(Harmless)
        BY <2>3, <2>9, DmaBufferBindSteps
      <3>2. /\ n - 1 < 6 /\ n - 1 < 4 /\ n - 1 < 3
        BY <2>9
      <3>3. Holds(TRUE, drv = "driver", TRUE, TRUE)'
        BY <1>1, <1>3, <2>6, <2>7, <2>8, <3>2 DEF Holds, Buffers, Hooked
      <3>4. Enabled'
        <4>1. Reaches' <=> base' \notin dud'
          BY <2>5, WindowShows DEF Window, Reaches, Mapped
        <4> QED
          BY <2>4, <2>7, <3>2, <4>1 DEF Enabled
      <3> QED
        BY <1>1, <1>3, <2>5, <3>1, <3>3, <3>4 DEF Bound
    <2>10. CASE n # 1
      <3>1. n - 1 \in 1 .. 6 /\ ~ ie'
        BY <2>4, <2>10
      <3> QED
        BY <1>1, <1>3, <2>3, <2>5, <2>6, <2>7, <2>8, <3>1 DEF Binding, Holds
    <2> QED
      BY <2>9, <2>10
  <1> QED
    BY <1>2, <1>3 DEF Binding

LEMMA ReleasingAllStep ==
  ASSUME ~ Referenced, ReleasingAll, NEW s, StepOf(s)
  PROVE  Rest' \/ (~ Referenced /\ ReleasingAll)'
  <1>0. /\ todo # <<>> /\ Head(todo) = s /\ (s # "start" => todo' = Tail(todo))
        /\ HandlesStep(s) /\ CardStep(s) /\ probed' = probed
    BY StepParts
  <1>1. /\ bound' /\ drv' = "driver"
        /\ s # "alloc" => ~ Referenced'
    BY StepParts DEF ReleasingAll
  <1>2. PICK n \in 1 .. 7 : /\ todo = Last(driver_full_release, n)
                            /\ Holds(n >= 4, n >= 3, n >= 5, n >= 6)
                            /\ ie => n = 7
    BY DEF ReleasingAll
  <1>3. /\ (n = 7 => s = "irq_off") /\ (n = 6 => s = "free_irq") /\ (n = 5 => s = "msi_off")
        /\ (n = 4 => s = "free") /\ (n = 3 => s = "unmapped") /\ (n = 2 => s = "reboot")
        /\ (n = 1 => s = "iounmap")
    BY <1>0, <1>2, FullReleaseSteps
  <1>4. s \notin {"start", "alloc", "irq_on", "ioremap"}
    BY <1>3
  <1>5. todo' = Last(driver_full_release, n - 1)
    BY <1>0, <1>2, <1>4, FullReleaseSteps
  <1>6. base' = base /\ dud' = dud
    BY <1>0, <1>4 DEF HandlesStep
  <1>7. ~ ie' /\ Enabled'
    <2>1. ie => Reaches
      BY DEF ReleasingAll, Enabled
    <2>2. ~ ie'
      BY <1>0, <1>2, <1>3, <2>1 DEF CardStep
    <2> QED
      BY <2>2 DEF Enabled
  <1>8. Buffers(n - 1 >= 4)'
    BY <1>0, <1>2, <1>3 DEF HandlesStep, Holds, Buffers
  <1>9. Hooked(n - 1 >= 6)'
    BY <1>0, <1>2, <1>3, <1>6 DEF HandlesStep, CardStep, Holds, Hooked
  <1>10. /\ dma_mapped' \in BOOLEAN /\ (dma_mapped' <=> n - 1 >= 3)
         /\ msi' \in BOOLEAN /\ (msi' => n - 1 >= 5) /\ (n - 1 >= 5 /\ dud' = {} => msi')
    <2>1. dma_mapped <=> n >= 3
      BY <1>2 DEF Holds
    <2>2. (msi => n >= 5) /\ (n >= 5 /\ dud = {} => msi)
      BY <1>2 DEF Holds
    <2>3. dma_mapped' \in BOOLEAN /\ msi' \in BOOLEAN
      BY <1>0, <1>2 DEF HandlesStep, Holds
    <2>4. dma_mapped' <=> n - 1 >= 3
      BY <1>0, <1>3, <2>1 DEF HandlesStep
    <2>5. msi' => n - 1 >= 5
      <3>1. CASE n = 5
        BY <1>0, <1>3, <3>1 DEF HandlesStep
      <3>2. CASE n # 5
        <4>1. msi' = msi /\ (n >= 5 => n - 1 >= 5)
          BY <1>0, <1>3, <3>2 DEF HandlesStep
        <4> QED
          BY <2>2, <4>1
      <3> QED
        BY <3>1, <3>2
    <2>6. n - 1 >= 5 /\ dud' = {} => msi'
      BY <1>0, <1>3, <1>6, <2>2 DEF HandlesStep
    <2> QED
      BY <2>3, <2>4, <2>5, <2>6
  <1>11. CASE n = 1
    <2>1. todo' = <<>>
      BY <1>5, <1>11, FullReleaseSteps
    <2>2. maps' = {}
      BY <1>0, <1>3, <1>11 DEF HandlesStep, ReleasingAll, Window
    <2>3. Bare'
      BY <1>7, <1>8, <1>9, <1>10, <1>11 DEF Bare, Holds, Buffers, Hooked
    <2> QED
      BY <1>1, <1>4, <2>1, <2>2, <2>3 DEF Rest
  <1>12. CASE n # 1
    <2>1. n - 1 \in 1 .. 7
      BY <1>12
    <2>2. Window'
      <3>1. maps' = maps
        BY <1>0, <1>3, <1>12 DEF HandlesStep
      <3> QED
        BY <1>0, <1>6, <3>1, SameWindow DEF ReleasingAll
    <2> QED
      BY <1>1, <1>4, <1>5, <1>7, <1>8, <1>9, <1>10, <2>1, <2>2 DEF ReleasingAll, Holds
  <1> QED
    BY <1>11, <1>12

LEMMA ReleasingBlindlyStep ==
  ASSUME ~ Referenced, ReleasingBlindly, NEW s, StepOf(s)
  PROVE  Rest' \/ (~ Referenced /\ ReleasingBlindly)'
  <1>0. /\ todo # <<>> /\ Head(todo) = s /\ (s # "start" => todo' = Tail(todo))
        /\ HandlesStep(s) /\ CardStep(s) /\ probed' = probed
    BY StepParts
  <1>1. /\ bound' = bound /\ drv' = "dmaBuffer"
        /\ s # "alloc" => ~ Referenced'
    BY StepParts DEF ReleasingBlindly
  <1>2. PICK n \in 1 .. 6 : /\ todo = Last(dmaBuffer_release, n)
                            /\ IF n >= 5 THEN Window ELSE maps = {}
                            /\ Holds(bound, FALSE, bound /\ n >= 2, bound /\ n >= 3)
                            /\ ie => n = 6 /\ bound
    BY DEF ReleasingBlindly
  <1>3. /\ (n = 6 => s = "reboot") /\ (n = 5 => s = "iounmap") /\ (n = 4 => s = "irq_off")
        /\ (n = 3 => s = "free_irq") /\ (n = 2 => s = "msi_off") /\ (n = 1 => s = "free")
    BY <1>0, <1>2, DmaBufferReleaseSteps
  <1>4. s \notin {"start", "alloc", "irq_on", "mapped", "unmapped", "ioremap"}
    BY <1>3
  <1>5. todo' = Last(dmaBuffer_release, n - 1)
    BY <1>0, <1>2, <1>4, DmaBufferReleaseSteps
  <1>6. base' = base /\ dud' = dud
    BY <1>0, <1>4 DEF HandlesStep
  <1>7. ~ ie' /\ Enabled'
    <2>1. ie => Reaches
      BY DEF ReleasingBlindly, Enabled
    <2>2. ~ ie'
      BY <1>0, <1>2, <1>3, <2>1 DEF CardStep
    <2> QED
      BY <2>2 DEF Enabled
  <1>8. IF n - 1 >= 5 THEN Window' ELSE maps' = {}
    <2>1. CASE n = 6
      <3>1. maps' = maps
        BY <1>0, <1>3, <2>1 DEF HandlesStep
      <3> QED
        BY <1>0, <1>2, <1>6, <2>1, <3>1, SameWindow
    <2>2. CASE n = 5
      BY <1>0, <1>2, <1>3, <2>2 DEF HandlesStep, Window
    <2>3. CASE n < 5
      BY <1>0, <1>2, <1>3, <2>3 DEF HandlesStep
    <2> QED
      BY <2>1, <2>2, <2>3
  <1>9. Buffers(IF n = 1 THEN FALSE ELSE bound)'
    BY <1>0, <1>1, <1>2, <1>3 DEF HandlesStep, Holds, Buffers
  <1>10. Hooked(bound /\ n - 1 >= 3)'
    BY <1>0, <1>1, <1>2, <1>3, <1>6 DEF HandlesStep, CardStep, Holds, Hooked
  <1>11. /\ dma_mapped' \in BOOLEAN /\ (dma_mapped' <=> FALSE)
         /\ msi' \in BOOLEAN /\ (msi' => bound' /\ n - 1 >= 2)
         /\ (bound' /\ n - 1 >= 2 /\ dud' = {} => msi')
    <2>1. dma_mapped = FALSE
      BY <1>2 DEF Holds
    <2>2. (msi => bound /\ n >= 2) /\ (bound /\ n >= 2 /\ dud = {} => msi)
      BY <1>2 DEF Holds
    <2>3. dma_mapped' = FALSE /\ msi' \in BOOLEAN
      BY <1>0, <1>2, <1>4, <2>1 DEF HandlesStep, Holds
    <2>4. msi' => bound' /\ n - 1 >= 2
      <3>1. CASE n = 2
        BY <1>0, <1>3, <3>1 DEF HandlesStep
      <3>2. CASE n # 2
        <4>1. msi' = msi /\ (n >= 2 => n - 1 >= 2)
          BY <1>0, <1>3, <3>2 DEF HandlesStep
        <4> QED
          BY <1>1, <2>2, <4>1
      <3> QED
        BY <3>1, <3>2
    <2>5. bound' /\ n - 1 >= 2 /\ dud' = {} => msi'
      BY <1>0, <1>1, <1>3, <1>6, <2>2 DEF HandlesStep
    <2> QED
      BY <2>3, <2>4, <2>5
  <1>12. CASE n = 1
    <2>1. todo' = <<>>
      BY <1>5, <1>12, DmaBufferReleaseSteps
    <2>2. Bare'
      BY <1>7, <1>9, <1>10, <1>11, <1>12 DEF Bare, Holds, Buffers, Hooked
    <2> QED
      BY <1>1, <1>4, <1>8, <1>12, <2>1, <2>2 DEF Rest
  <1>13. CASE n # 1
    <2>1. n - 1 \in 1 .. 6
      BY <1>13
    <2>2. Buffers(bound)'
      BY <1>9, <1>13 DEF Buffers
    <2> QED
      BY <1>1, <1>4, <1>5, <1>7, <1>8, <1>10, <1>11, <2>1, <2>2 DEF ReleasingBlindly, Holds
  <1> QED
    BY <1>12, <1>13

LEMMA ReleasingWindowStep ==
  ASSUME ~ Referenced, ReleasingWindow, NEW s, StepOf(s)
  PROVE  Rest' \/ (~ Referenced /\ ReleasingWindow)'
  <1>0. /\ todo # <<>> /\ Head(todo) = s /\ (s # "start" => todo' = Tail(todo))
        /\ UNCHANGED <<drv, bound, probed>> /\ (s # "alloc" => ~ Referenced')
        /\ HandlesStep(s) /\ CardStep(s)
    BY StepParts
  <1>1. s \in {"reboot", "iounmap"}
    BY <1>0 DEF ReleasingWindow
  <1>2. ~ Referenced' /\ Bare'
    BY <1>0, <1>1 DEF ReleasingWindow, HandlesStep, CardStep, Bare, Holds, Buffers, Hooked
  <1>3. CASE todo = <<"iounmap">>
    <2>1. s = "iounmap" /\ todo' = <<>>
      BY <1>0, <1>3
    <2>2. maps' = {}
      BY <1>0, <2>1 DEF ReleasingWindow, HandlesStep, Window
    <2> QED
      BY <1>2, <2>1, <2>2 DEF Rest
  <1>4. CASE todo = <<"reboot", "iounmap">>
    <2>1. s = "reboot" /\ todo' = <<"iounmap">>
      BY <1>0, <1>4
    <2>2. UNCHANGED <<base, maps, dud>>
      BY <1>0, <2>1 DEF HandlesStep
    <2>3. Window'
      BY <1>0, <2>2, SameWindow DEF ReleasingWindow
    <2> QED
      BY <1>0, <1>2, <2>1, <2>3 DEF ReleasingWindow
  <1> QED
    BY <1>3, <1>4 DEF ReleasingWindow

LEMMA StepKeepsPhases ==
  ASSUME Phases, NEW s, StepOf(s)
  PROVE  Phases'
  <1>1. ~ Rest
    BY StepParts DEF Rest
  <1> QED
    BY <1>1, OpeningStep, IoctlStep, BindingStep, ReleasingAllStep, ReleasingBlindlyStep,
       ReleasingWindowStep DEF Phases, Releasing

-----------------------------------------------------------------------------
(* What the phases depend on. *)
LEMMA SamePhase ==
  ASSUME Phases,
         UNCHANGED <<drv, owned, fd, vmas, bound, opens, todo, ie>>,
         probed => probed', irqpc' = irqpc \/ hooks # 0 \/ irqpc' = "idle"
  PROVE  Phases'
  <1> USE DEF owned, windows
  <1>1. (Referenced' <=> Referenced) /\ (Window => Window') /\ (Enabled => Enabled')
    BY SameWindow DEF Referenced, Enabled, HookedNow
  <1>2. /\ \A b, d, m, h \in BOOLEAN : Holds(b, d, m, h) => Holds(b, d, m, h)'
        /\ (Bare => Bare') /\ (HookedNow => HookedNow')
    BY DEF Holds, Buffers, Hooked, Bare, HookedNow
  <1>3. (Rest => Rest') /\ (Opening => Opening') /\ (Unbound => Unbound')
    BY <1>1, <1>2 DEF Rest, Opening, Unbound
  <1>4. (Binding => Binding') /\ (Bound => Bound')
    BY <1>1, <1>2 DEF Binding, Bound, Holds, Buffers, Hooked
  <1>5. Releasing => Releasing'
    BY <1>1, <1>2 DEF Releasing, ReleasingAll, ReleasingBlindly, ReleasingWindow, Holds,
                      Buffers, Hooked
  <1> QED
    BY <1>3, <1>4, <1>5 DEF Phases

(* With no call under way the device is at rest or in use. *)
LEMMA BetweenCalls ==
  ASSUME Phases, todo = <<>>
  PROVE  Rest \/ Unbound \/ Bound
  BY DriverBindSteps, DmaBufferBindSteps, FullReleaseSteps, DmaBufferReleaseSteps
     DEF Phases, Opening, Binding, Releasing, ReleasingAll, ReleasingBlindly, ReleasingWindow

LEMMA SystemKeepsPhases ==
  ASSUME KInv, System
  PROVE  Phases'
  <1> USE DEF scenario, owned, windows, user, card
  <1>1. CASE Insmod
    <2>1. ~ Referenced /\ todo = <<>>
      BY <1>1 DEF Insmod, KInv
    <2>2. Rest
      BY <2>1, BetweenCalls DEF KInv, Unbound, Bound
    <2>3. Rest'
      BY <1>1, <2>2 DEF Insmod, Rest, Referenced, Bare, Holds, Buffers, Hooked
    <2> QED
      BY <2>3 DEF Phases
  <1>2. ASSUME NEW ok \in BOOLEAN, Load(ok)
        PROVE  Phases'
    BY <1>2, SamePhase DEF Load, KInv
  <1>3. CASE Loaded
    BY <1>3, SamePhase DEF Loaded, KInv
  <1>4. CASE Rmmod
    BY <1>4, SamePhase DEF Rmmod, KInv
  <1>5. CASE Unload
    BY <1>5, SamePhase DEF Unload, KInv
  <1> QED
    BY <1>1, <1>2, <1>3, <1>4, <1>5 DEF System

(* open: at rest the device holds nothing. *)
LEMMA OpenKeepsPhases ==
  ASSUME KInv, Open
  PROVE  Phases'
  <1> USE DEF scenario, loader, owned, windows, card
  <1>1. Rest
    <2>1. ~ Referenced /\ todo = <<>>
      BY DEF Open, Turn, Referenced
    <2> QED
      BY <2>1, BetweenCalls DEF KInv, Unbound, Bound
  <1>2. Referenced' /\ ~ bound' /\ maps' = {} /\ Bare' /\ drv' = drv
    BY <1>1 DEF Open, Rest, Referenced, Bare, Holds, Buffers, Hooked
  <1>2a. opens' # 0 /\ opens' \notin dud'
    BY DEF Open, KInv
  <1>3. \/ drv = "launch" /\ todo' = <<>>
        \/ drv # "launch" /\ todo' = <<"ioremap">>
        \/ drv = "drawLineTriangle" /\ todo' = <<"read", "ioremap">>
    BY DEF Open, Enter, fops, KInv, Drivers, dmaBuffer_fops, driver_fops,
           drawLineTriangle_fops, contact_fops, launch_fops, dmaBuffer_open, driver_open,
           drawLineTriangle_open, contact_open
  <1>4. CASE drv = "launch" /\ todo' = <<>>
    BY <1>2, <1>4 DEF Phases, Unbound
  <1>5. CASE drv # "launch" /\ todo' = <<"ioremap">>
    BY <1>2, <1>2a, <1>5 DEF Phases, Opening
  <1>6. CASE drv = "drawLineTriangle" /\ todo' = <<"read", "ioremap">>
    BY <1>2, <1>2a, <1>6 DEF Phases, Opening
  <1> QED
    BY <1>3, <1>4, <1>5, <1>6

(* The ioctls and what they are made of. *)
LEMMA IoctlCalls ==
  ASSUME drv \in Drivers, NEW c \in DOMAIN fops \ {"open", "release"}
  PROVE  /\ c # "bind" => fops[c] \in Seq(Harmless)
         /\ c = "bind" => \/ drv = "driver" /\ fops[c] = driver_bind
                          \/ drv = "dmaBuffer" /\ fops[c] = dmaBuffer_bind
  <1>1. /\ <<>> \in Seq(Harmless) /\ <<"write">> \in Seq(Harmless)
        /\ <<"sync">> \in Seq(Harmless) /\ <<"start">> \in Seq(Harmless)
        /\ <<"sync", "reboot">> \in Seq(Harmless) /\ <<"sync", "drain">> \in Seq(Harmless)
        /\ <<"write", "sync", "write">> \in Seq(Harmless)
        /\ <<"write", "sync", "write", "sync", "write">> \in Seq(Harmless)
    BY DEF Harmless
  <1>2. CASE drv = "dmaBuffer"
    <2>1. fops = dmaBuffer_fops
      BY <1>2 DEF fops
    <2>2. /\ DOMAIN fops = {"open", "release", "vmodeOn", "vmodeOff", "sync", "bind", "start",
                            "flush"}
          /\ fops["bind"] = dmaBuffer_bind
          /\ fops["vmodeOn"] = <<"write", "sync", "write">>
          /\ fops["vmodeOff"] = <<"sync", "reboot">> /\ fops["sync"] = <<"sync">>
          /\ fops["start"] = <<"start">> /\ fops["flush"] = <<"write">>
      BY <2>1 DEF dmaBuffer_fops, dmaBuffer_graphicsOn, dmaBuffer_vmodeOff
    <2> QED
      BY <1>1, <1>2, <2>2
  <1>3. CASE drv = "driver"
    <2>1. fops = driver_fops
      BY <1>3 DEF fops
    <2>2. /\ DOMAIN fops = {"open", "release", "vmodeOn", "vmodeOff", "sync", "bind", "start",
                            "flush"}
          /\ fops["bind"] = driver_bind
          /\ fops["vmodeOn"] = <<"write", "sync", "write", "sync", "write">>
          /\ fops["vmodeOff"] \in {<<"sync", "drain">>, <<"sync", "reboot">>}
          /\ fops["sync"] = <<"sync">> /\ fops["start"] \in {<<"start">>, <<>>}
          /\ fops["flush"] = <<"write">>
      BY <2>1 DEF driver_fops, driver_vmodeOn, driver_vmodeOff, driver_start
    <2> QED
      BY <1>1, <1>3, <2>2
  <1>4. CASE drv = "drawLineTriangle"
    <2>1. fops = drawLineTriangle_fops
      BY <1>4 DEF fops
    <2>2. /\ DOMAIN fops = {"open", "release", "vmodeOn", "vmodeOff", "sync"}
          /\ fops["vmodeOn"] = <<"write", "sync", "write">>
          /\ fops["vmodeOff"] = <<"sync", "reboot">> /\ fops["sync"] = <<"sync">>
      BY <2>1 DEF drawLineTriangle_fops, drawLineTriangle_graphicsOn
    <2> QED
      BY <1>1, <1>4, <2>2
  <1>5. CASE drv = "contact"
    BY <1>5 DEF fops, contact_fops
  <1>6. CASE drv = "launch"
    BY <1>6 DEF fops, launch_fops
  <1> QED
    BY <1>2, <1>3, <1>4, <1>5, <1>6 DEF Drivers

LEMMA IoctlKeepsPhases ==
  ASSUME KInv, NEW c \in DOMAIN fops \ {"open", "release"}, Ioctl(c)
  PROVE  Phases'
  <1> USE DEF scenario, loader, owned, windows, card
  <1>1. /\ todo' = fops[c] /\ Referenced /\ Referenced'
        /\ c # "bind" => (bound' <=> bound)
        /\ c = "bind" => ~ bound /\ bound'
        /\ UNCHANGED <<drv, base, maps, dud, probed, handle, bufs, hooks, msi, dma_mapped, ie,
                      irqpc>>
    <2>1. /\ todo' = fops[c] /\ Referenced /\ Referenced'
          /\ UNCHANGED <<drv, base, maps, dud, probed, handle, bufs, hooks, msi, dma_mapped, ie,
                      irqpc>>
      BY DEF Ioctl, Enter, Referenced
    <2>2. bound' = (bound \/ c = "bind") /\ (c = "bind" => ~ bound)
      BY DEF Ioctl
    <2> QED
      BY <2>1, <2>2
  <1>2. Unbound \/ Bound
    BY <1>1, BetweenCalls DEF KInv, Ioctl, Turn, Rest
  <1>2a. (Window => Window') /\ (Enabled => Enabled')
    BY <1>1, SameWindow DEF Enabled, HookedNow
  <1>2b. drv # "launch"
    BY DEF fops, launch_fops
  <1>3. CASE c # "bind"
    <2>1. todo' \in Seq(Harmless)
      BY <1>1, <1>3, IoctlCalls DEF KInv
    <2>2. Unbound => Unbound'
      BY <1>1, <1>2a, <1>2b, <1>3, <2>1 DEF Unbound, Bare, Holds, Buffers, Hooked
    <2>3. Bound => Bound'
      BY <1>1, <1>2a, <1>3, <2>1 DEF Bound, Holds, Buffers, Hooked
    <2> QED
      BY <1>2, <2>2, <2>3 DEF Phases
  <1>4. CASE c = "bind"
    <2>1. Unbound
      BY <1>1, <1>2, <1>4 DEF Bound
    <2>2. /\ bound' /\ Window' /\ ~ ie' /\ bufs' = {} /\ hooks' = 0 /\ irqpc' = "idle"
          /\ dma_mapped' = FALSE /\ msi' = FALSE
      BY <1>1, <1>2a, <1>2b, <1>4, <2>1 DEF Unbound, Bare, Holds, Buffers, Hooked
    <2>3. CASE drv = "driver" /\ fops[c] = driver_bind
      <3>1. 7 \in 1 .. 7 /\ todo' = Last(driver_bind, 7) /\ ~ (7 < 3)
        BY <1>1, <2>3, DriverBindSteps
      <3>2. Holds(7 < 7, 7 < 6, 7 < 4, 7 < 3)'
        <4>1. ~ (7 < 7) /\ ~ (7 < 6) /\ ~ (7 < 4) /\ ~ (7 < 3)
          OBVIOUS
        <4> QED
          BY <2>2, <4>1 DEF Holds, Buffers, Hooked
      <3> QED
        BY <1>1, <2>2, <2>3, <3>1, <3>2 DEF Phases, Binding
    <2>4. CASE drv = "dmaBuffer" /\ fops[c] = dmaBuffer_bind
      <3>1. 6 \in 1 .. 6 /\ todo' = Last(dmaBuffer_bind, 6) /\ ~ (6 < 3)
        BY <1>1, <2>4, DmaBufferBindSteps
      <3>2. Holds(6 < 6, FALSE, 6 < 4, 6 < 3)'
        <4>1. ~ (6 < 6) /\ ~ (6 < 6) /\ ~ (6 < 4) /\ ~ (6 < 3)
          OBVIOUS
        <4> QED
          BY <2>2, <4>1 DEF Holds, Buffers, Hooked
      <3> QED
        BY <1>1, <2>2, <2>4, <3>1, <3>2 DEF Phases, Binding
    <2> QED
      BY <1>4, <2>3, <2>4, IoctlCalls DEF KInv
  <1> QED
    BY <1>3, <1>4

(* What a program has that has gone through BIND_DMA, or died in it. *)
Held == /\ bound /\ Window /\ Enabled
        /\ drv \in {"dmaBuffer", "driver"} /\ Holds(TRUE, drv = "driver", TRUE, TRUE)

(* The last reference goes: by close, with the process, or as it dies. *)
LEMMA ReleaseStarts ==
  ASSUME drv \in Drivers, Unbound \/ Held, ~ Referenced', Enter("release"),
         UNCHANGED <<drv, probed, owned, bound, ie, irqpc>>
  PROVE  Phases'
  <1> USE DEF owned, windows
  <1>1. (Window => Window') /\ (Enabled => Enabled')
    BY SameWindow DEF Enabled, HookedNow
  <1>2. CASE drv = "dmaBuffer"
    <2>1. todo' = dmaBuffer_release
      BY <1>2 DEF Enter, fops, dmaBuffer_fops
    <2>2. 6 \in 1 .. 6 /\ todo' = Last(dmaBuffer_release, 6) /\ 6 >= 5
      BY <2>1, DmaBufferReleaseSteps
    <2>3. Window' /\ Enabled'
      BY <1>1, <1>2 DEF Unbound, Held, Bare, Enabled
    <2>4. Buffers(bound)' /\ Hooked(bound)' /\ (ie' => bound')
      BY DEF Unbound, Held, Bare, Holds, Buffers, Hooked
    <2>5. Hooked(bound /\ 6 >= 3)'
      BY <2>4 DEF Hooked
    <2>6. /\ dma_mapped' \in BOOLEAN /\ (dma_mapped' <=> FALSE)
          /\ msi' \in BOOLEAN /\ (msi' => bound') /\ (bound' /\ dud' = {} => msi')
      BY <1>2 DEF Unbound, Held, Bare, Holds
    <2>7. Holds(bound, FALSE, bound /\ 6 >= 2, bound /\ 6 >= 3)'
      BY <2>4, <2>5, <2>6 DEF Holds
    <2> QED
      BY <1>2, <2>2, <2>3, <2>4, <2>7 DEF Phases, Releasing, ReleasingBlindly
  <1>3. CASE drv = "driver" /\ Held
    <2>1. todo' = driver_full_release
      BY <1>3 DEF Enter, fops, driver_fops, driver_release, driver_full_release, Held, Holds
    <2>2. 7 \in 1 .. 7 /\ todo' = Last(driver_full_release, 7)
      BY <2>1, FullReleaseSteps
    <2>3. Holds(7 >= 4, 7 >= 3, 7 >= 5, 7 >= 6)'
      <3>1. 7 >= 4 /\ 7 >= 3 /\ 7 >= 5 /\ 7 >= 6
        OBVIOUS
      <3> QED
        BY <1>3, <3>1 DEF Held, Holds, Buffers, Hooked
    <2>4. bound' /\ Window' /\ Enabled' /\ drv' = "driver"
      BY <1>1, <1>3 DEF Held
    <2> QED
      BY <2>2, <2>3, <2>4 DEF Phases, Releasing, ReleasingAll
  <1>4. CASE drv = "driver" /\ Unbound
    <2>1. todo' = <<"iounmap">>
      BY <1>4 DEF Enter, fops, driver_fops, driver_release, Unbound, Bare, Holds
    <2> QED
      BY <1>1, <1>4, <2>1 DEF Phases, Releasing, ReleasingWindow, Unbound, Bare, Holds, Buffers,
                              Hooked
  <1>5. CASE drv \in {"drawLineTriangle", "contact"}
    <2>1. todo' = <<"reboot", "iounmap">>
      BY <1>5 DEF Enter, fops, drawLineTriangle_fops, drawLineTriangle_release, contact_fops,
                  contact_release
    <2>2. Unbound
      BY <1>5 DEF Held
    <2> QED
      BY <1>1, <1>5, <2>1, <2>2 DEF Phases, Releasing, ReleasingWindow, Unbound, Bare, Holds,
                                    Buffers, Hooked
  <1>6. CASE drv = "launch"
    <2>1. todo' = <<>>
      BY <1>6 DEF Enter, fops, launch_fops
    <2>2. Unbound
      BY <1>6 DEF Held
    <2> QED
      BY <1>6, <2>1, <2>2 DEF Phases, Rest, Unbound, Bare, Holds, Buffers, Hooked
  <1> QED
    BY <1>2, <1>3, <1>4, <1>5, <1>6 DEF Drivers

(* While some reference is left, closing and mapping change nothing. *)
LEMMA StillReferenced ==
  ASSUME KInv, todo = <<>>, Referenced, Referenced',
         UNCHANGED <<drv, probed, owned, todo, bound, ie, irqpc>>
  PROVE  Phases'
  <1> USE DEF owned, windows
  <1>1. Unbound \/ Bound
    BY BetweenCalls DEF KInv, Rest
  <1>2. (Window => Window') /\ (Enabled => Enabled')
    BY SameWindow DEF Enabled, HookedNow
  <1>3. Unbound => Unbound'
    BY <1>2 DEF Unbound, Bare, Holds, Buffers, Hooked
  <1>4. Bound => Bound'
    BY <1>2 DEF Bound, Holds, Buffers, Hooked
  <1> QED
    BY <1>1, <1>3, <1>4 DEF Phases

LEMMA CallsKeepPhases ==
  ASSUME KInv, Calls
  PROVE  Phases'
  <1> USE DEF scenario, loader, card
  <1>1. CASE Open
    BY <1>1, OpenKeepsPhases
  <1>2. ASSUME NEW c \in DOMAIN fops \ {"open", "release"}, Ioctl(c)
        PROVE  Phases'
    BY <1>2, IoctlKeepsPhases
  <1>3. CASE Mmap
    <2>1. Referenced /\ Referenced' /\ todo = <<>> /\ UNCHANGED <<drv, probed, owned, todo, bound, ie, irqpc>>
      BY <1>3 DEF Mmap, Turn, Referenced
    <2> QED
      BY <2>1, StillReferenced
  <1>4. CASE Close
    <2>1. Referenced /\ todo = <<>> /\ UNCHANGED <<drv, probed, owned, bound, ie, irqpc>>
      BY <1>4 DEF Close, Turn, Referenced
    <2>2. \/ vmas # {} /\ Referenced' /\ todo' = todo
          \/ vmas = {} /\ ~ Referenced' /\ Enter("release")
      BY <1>4 DEF Close, LastReference, Referenced
    <2>3. Unbound \/ Held
      BY <2>1, BetweenCalls DEF KInv, Rest, Bound, Held
    <2> QED
      BY <2>1, <2>2, <2>3, StillReferenced, ReleaseStarts DEF KInv
  <1>5. CASE Exit
    <2>1. ~ Referenced' /\ todo = <<>> /\ UNCHANGED <<drv, probed, owned, bound, ie, irqpc>>
      BY <1>5 DEF Exit, Turn, Referenced
    <2>2. CASE Referenced
      <3>1. Enter("release")
        BY <1>5, <2>2 DEF Exit, Referenced
      <3>2. Unbound \/ Held
        BY <2>1, <2>2, BetweenCalls DEF KInv, Rest, Bound, Held
      <3> QED
        BY <2>1, <3>1, <3>2, ReleaseStarts DEF KInv
    <2>3. CASE ~ Referenced
      <3>1. todo' = todo
        BY <1>5, <2>3 DEF Exit, Referenced
      <3>2. Rest
        BY <2>1, <2>3, BetweenCalls DEF KInv, Unbound, Bound
      <3>3. Rest'
        BY <2>1, <3>1, <3>2 DEF Rest, Bare, Holds, Buffers, Hooked, owned, windows
      <3> QED
        BY <3>3 DEF Phases
    <2> QED
      BY <2>2, <2>3
  <1> QED
    BY <1>1, <1>2, <1>3, <1>4, <1>5 DEF Calls

(* The card and the handler leave what the driver holds alone, and the     *)
(* handler does not run unless it is hooked.                               *)
LEMMA HandlerKeepsPhases ==
  ASSUME Phases, CardDone \/ Interrupt \/ dma_interrupt
  PROVE  Phases'
  <1> USE DEF scenario, loader, user, card, Write
  <1>1. CASE CardDone
    BY <1>1, SamePhase DEF CardDone
  <1>2. CASE Interrupt
    <2>1. hooks # 0
      BY <1>2 DEF Interrupt
    <2>2. ie' = ie
      BY <1>2 DEF Interrupt
    <2> QED
      BY <1>2, <2>1, <2>2, SamePhase DEF Interrupt
  <1>3. CASE dma_interrupt
    <2>1. irqpc' = "idle" /\ ie' = ie
      BY <1>3 DEF dma_interrupt
    <2> QED
      BY <1>3, <2>1, SamePhase DEF dma_interrupt
  <1> QED
    BY <1>1, <1>2, <1>3

(* What can be done next in each phase. *)
LEMMA Heads ==
  ASSUME todo # <<>>
  PROVE  /\ Opening => Head(todo) \in {"read", "ioremap"}
         /\ Unbound \/ Bound => Head(todo) \in Harmless
         /\ Binding => Head(todo) \in {"alloc", "mapped", "reset", "msi_on", "request_irq",
                                       "ack", "irq_on"}
         /\ ReleasingWindow => Head(todo) \in {"iounmap", "reboot"}
  <1>1. Opening => Head(todo) \in {"read", "ioremap"}
    BY DEF Opening
  <1>2. Unbound \/ Bound => Head(todo) \in Harmless
    <2>1. todo \in Seq(Harmless) => Head(todo) \in Harmless
      OBVIOUS
    <2> QED
      BY <2>1 DEF Unbound, Bound
  <1>3. ASSUME Binding
        PROVE  Head(todo) \in {"alloc", "mapped", "reset", "msi_on", "request_irq", "ack",
                               "irq_on"}
    <2>1. CASE \E n \in 1 .. 7 : todo = Last(driver_bind, n)
      BY <2>1, DriverBindSteps
    <2>2. CASE \E n \in 1 .. 6 : todo = Last(dmaBuffer_bind, n)
      <3>1. PICK n \in 1 .. 6 : todo = Last(dmaBuffer_bind, n)
        BY <2>2
      <3>2. LET s == Head(todo) IN
              /\ (n = 6 => s = "alloc") /\ (n = 5 => s = "reset") /\ (n = 4 => s = "msi_on")
              /\ (n = 3 => s = "request_irq") /\ (n = 2 => s = "ack")
              /\ (n = 1 => s = "irq_on")
        BY <3>1, DmaBufferBindSteps
      <3> QED
        BY <3>2
    <2> QED
      BY <1>3, <2>1, <2>2 DEF Binding
  <1>4. ReleasingWindow => Head(todo) \in {"iounmap", "reboot"}
    BY DEF ReleasingWindow
  <1> QED
    BY <1>1, <1>2, <1>3, <1>4

-----------------------------------------------------------------------------
(* Where a program can die. *)
Blind == base \in dud /\ (Unbound \/ Held \/ (~ fd /\ drv # "launch"))

LEMMA FaultPoint ==
  ASSUME KInv, Fault
  PROVE  \/ drv = "drawLineTriangle" /\ Step("read")
         \/ drv = "dmaBuffer" /\ ~ fd
         \/ Blind
  <1>1. /\ todo # <<>>
        /\ \/ Touches /\ ~ Mapped
           \/ Head(todo) \in {"msi_on", "request_irq", "free_irq"} /\ ~ probed
    BY DEF Fault, Touches, Step
  <1>2. Window => base \in dud
    BY <1>1, WindowShows DEF Window
  <1>3. ASSUME Opening
        PROVE  drv = "drawLineTriangle" /\ Step("read")
    <2>1. CASE todo = <<"ioremap">>
      BY <1>1, <2>1 DEF Touches
    <2>2. CASE drv = "drawLineTriangle" /\ todo = <<"read", "ioremap">>
      BY <2>2 DEF Step
    <2> QED
      BY <1>3, <2>1, <2>2 DEF Opening
  <1>4. ASSUME Unbound
        PROVE  Blind
    BY <1>1, <1>2, <1>4 DEF Unbound, Blind
  <1>5. ASSUME Bound
        PROVE  Blind
    BY <1>2, <1>5 DEF Bound, Held, Blind
  <1>6. ASSUME Binding
        PROVE  Blind
    <2>1. base \in dud /\ bound /\ Window /\ Enabled
      BY <1>2, <1>6 DEF Binding, Enabled
    <2>2. Head(todo) \notin {"alloc", "mapped", "reset"}
      BY <1>1 DEF Touches
    <2>3. CASE drv = "driver"
      <3>1. PICK n \in 1 .. 7 : /\ todo = Last(driver_bind, n)
                                /\ Holds(n < 7, n < 6, n < 4, n < 3)
        BY <1>6, <2>3 DEF Binding
      <3>2. n \in 1 .. 4
        <4>1. LET s == Head(todo) IN
              (n = 7 => s = "alloc") /\ (n = 6 => s = "mapped") /\ (n = 5 => s = "reset")
          BY <3>1, DriverBindSteps
        <4> QED
          BY <2>2, <4>1
      <3>3. Holds(TRUE, TRUE, TRUE, TRUE)
        <4>1. n < 7 /\ n < 6
          BY <3>2
        <4> QED
          BY <2>1, <3>1, <4>1 DEF Holds, Buffers, Hooked
      <3> QED
        BY <2>1, <2>3, <3>3 DEF Held, Blind, Holds
    <2>4. CASE drv = "dmaBuffer"
      <3>1. PICK n \in 1 .. 6 : /\ todo = Last(dmaBuffer_bind, n)
                                /\ Holds(n < 6, FALSE, n < 4, n < 3)
        BY <1>6, <2>4 DEF Binding
      <3>2. n \in 1 .. 4
        <4>1. LET s == Head(todo) IN (n = 6 => s = "alloc") /\ (n = 5 => s = "reset")
          BY <3>1, DmaBufferBindSteps
        <4> QED
          BY <2>2, <4>1
      <3>3. Holds(TRUE, FALSE, TRUE, TRUE)
        <4>1. n < 6
          BY <3>2
        <4> QED
          BY <2>1, <3>1, <4>1 DEF Holds, Buffers, Hooked
      <3> QED
        BY <2>1, <2>4, <3>3 DEF Held, Blind, Holds
    <2> QED
      BY <1>6, <2>3, <2>4 DEF Binding
  <1>7. ASSUME Releasing
        PROVE  (drv = "dmaBuffer" /\ ~ fd) \/ Blind
    BY <1>2, <1>7 DEF Releasing, ReleasingAll, ReleasingBlindly, ReleasingWindow, Referenced,
                      Blind
  <1>8. ~ Rest
    BY <1>1 DEF Rest
  <1> QED
    BY <1>3, <1>4, <1>5, <1>6, <1>7, <1>8 DEF KInv, Phases

(* A program that dies does not die in open or release, if it leaves no    *)
(* wreck; then what it has is released.                                    *)
LEMMA FaultReleases ==
  ASSUME KInv, Fault, ~ Wrecked'
  PROVE  /\ fd /\ Enter("release") /\ ~ Referenced'
         /\ Blind /\ (Unbound \/ Held)
         /\ damage' # {} /\ at' = 0
         /\ UNCHANGED <<drv, client, module, opens, probed, owned, queued, bound, card, irqpc>>
  <1>1. fd /\ ~ Step("read") /\ Enter("release")
    BY DEF Fault, Wrecked
  <1>2. /\ ~ Referenced' /\ damage' # {} /\ at' = 0
        /\ UNCHANGED <<drv, client, module, opens, probed, owned, queued, bound, card, irqpc>>
    BY DEF Fault, Referenced, scenario, loader
  <1>3. Blind /\ (Unbound \/ Held)
    BY <1>1, FaultPoint DEF Blind
  <1> QED
    BY <1>1, <1>2, <1>3

LEMMA FaultKeepsPhases ==
  ASSUME KInv, Fault, ~ Wrecked'
  PROVE  Phases'
  <1>1. drv \in Drivers
    BY DEF KInv
  <1> QED
    BY <1>1, FaultReleases, ReleaseStarts DEF card

LEMMA PhasesInductive ==
  ASSUME KInv, [Next]_vars, ~ Wrecked'
  PROVE  Phases'
  <1>1. CASE Steps /\ ~ Fault
    <2>1. dma_mapped \in BOOLEAN /\ msi \in BOOLEAN
      BY DEF KInv, Phases, Rest, Opening, Unbound, Binding, Bound, Releasing, ReleasingAll,
             ReleasingBlindly, ReleasingWindow, Bare, Holds
    <2> QED
      BY <1>1, <2>1, StepsAreStepOf, StepKeepsPhases DEF KInv
  <1>2. CASE UNCHANGED vars
    BY <1>2, SamePhase DEF KInv, vars, scenario, loader, user, card
  <1> QED
    BY <1>1, <1>2, SystemKeepsPhases, CallsKeepPhases, HandlerKeepsPhases, FaultKeepsPhases
       DEF Next, KInv

-----------------------------------------------------------------------------
(* driver.c: one token per full ring. *)
LEMMA SameTransfers ==
  ASSUME Transfers,
         UNCHANGED <<drv, queued, irqpc, busy, status, base, maps, dud, handle, bound, todo,
                     fd, vmas>>
  PROVE  Transfers'
  <1>1. /\ (Active' <=> Active) /\ (StartFree' <=> StartFree)
        /\ (Referenced' <=> Referenced) /\ (Reaches' <=> Reaches)
    BY DEF Active, StartFree, Referenced, Reaches, Mapped
  <1> QED
    BY <1>1 DEF Transfers

LEMMA LastOfRelease == Last(driver_full_release, 1) = <<"iounmap">>
  <1> DEFINE c == driver_full_release
  <1>1. Len(c) = 7 /\ c[7] = "iounmap"
    BY DEF driver_full_release
  <1>2. \A i \in 7 .. 7 : c[i] \in {"iounmap"}
    BY <1>1
  <1> HIDE DEF c
  <1>3. /\ SubSeq(c, 7, 7) \in Seq({"iounmap"}) /\ Len(SubSeq(c, 7, 7)) = 1
        /\ SubSeq(c, 7, 7)[1] = c[7]
    BY <1>2, SubSeqProperties
  <1>4. <<"iounmap">> \in Seq({"iounmap"}) /\ Len(<<"iounmap">>) = 1 /\ <<"iounmap">>[1] = "iounmap"
    OBVIOUS
  <1>5. SubSeq(c, 7, 7) = <<"iounmap">>
    <2>1. \A i \in 1 .. 1 : SubSeq(c, 7, 7)[i] = <<"iounmap">>[i]
      BY <1>1, <1>3, <1>4
    <2> QED
      BY <1>3, <1>4, <2>1, SeqEqual
  <1>6. Last(c, 1) = SubSeq(c, 7, 7)
    BY <1>1 DEF Last
  <1> QED
    BY <1>5, <1>6 DEF c

(* The calls that start no transfer. *)
LEMMA StartFreeCalls ==
  ASSUME drv = "driver"
  PROVE  LET Calm == Seq(AllSteps \ {"start", "wait"}) IN
         /\ <<>> \in Calm /\ fops["open"] \in Calm /\ fops["release"] \in Calm
         /\ \A c \in DOMAIN fops \ {"start"} : fops[c] \in Calm
         /\ ~ dma_mapped => fops["start"] = <<>>
         /\ fops["start"] \in {<<"start">>, <<>>}
  <1> DEFINE Calm == Seq(AllSteps \ {"start", "wait"})
  <1>1. /\ <<>> \in Calm /\ <<"ioremap">> \in Calm /\ <<"iounmap">> \in Calm
        /\ <<"write">> \in Calm /\ <<"sync">> \in Calm
        /\ <<"sync", "reboot">> \in Calm /\ <<"sync", "drain">> \in Calm
        /\ <<"write", "sync", "write", "sync", "write">> \in Calm
    BY DEF AllSteps, Harmless
  <1>2. driver_full_release \in Calm /\ driver_bind \in Calm
    BY DEF AllSteps, Harmless, driver_full_release, driver_bind
  <1>3. fops = driver_fops
    BY DEF fops
  <1>4. /\ DOMAIN fops = {"open", "release", "vmodeOn", "vmodeOff", "sync", "bind", "start",
                          "flush"}
        /\ fops["open"] = <<"ioremap">>
        /\ fops["release"] \in {driver_full_release, <<"iounmap">>}
        /\ fops["bind"] = driver_bind
        /\ fops["vmodeOn"] = <<"write", "sync", "write", "sync", "write">>
        /\ fops["vmodeOff"] \in {<<"sync", "drain">>, <<"sync", "reboot">>}
        /\ fops["sync"] = <<"sync">> /\ fops["flush"] = <<"write">>
        /\ fops["start"] \in {<<"start">>, <<>>}
        /\ ~ dma_mapped => fops["start"] = <<>>
    BY <1>3 DEF driver_fops, driver_open, driver_release, driver_full_release, driver_vmodeOn,
                driver_vmodeOff, driver_start
  <1> HIDE DEF Calm
  <1>5. \A c \in DOMAIN fops \ {"start"} : fops[c] \in Calm
    BY <1>1, <1>2, <1>4
  <1> QED
    BY <1>1, <1>4, <1>5 DEF Calm

LEMMA StartFreeStep ==
  ASSUME StartFree, NEW s, StepOf(s)
  PROVE  StartFree' /\ s \notin {"start", "wait"}
  <1>1. s \in AllSteps \ {"start", "wait"} /\ Tail(todo) \in Seq(AllSteps \ {"start", "wait"})
    BY DEF StepOf, StartFree
  <1> QED
    BY <1>1, StepParts DEF StartFree

(* While nothing is under way, only the start of a transfer changes that. *)
LEMMA StaysQuiet ==
  ASSUME ~ Active, NEW s \in AllSteps, StepOf(s), s # "start"
  PROVE  ~ Active'
  BY StepParts DEF Active, CardStep

(* Outside graphics with bound buffers, and until release, nothing is.     *)
LEMMA QuietPhases ==
  ASSUME KInv, drv = "driver", ~ Bound, ~ (~ Referenced /\ ReleasingAll)
  PROVE  ~ Active
  <1>1. SUFFICES ASSUME Active
                 PROVE  FALSE
    OBVIOUS
  <1>2. bound /\ (Referenced => todo \in Seq(Harmless)) /\ (~ Referenced => todo # <<>>)
    BY <1>1 DEF KInv, Transfers
  <1>3. CASE Binding
    <2>1. PICK n \in 1 .. 7 : todo = Last(driver_bind, n)
      BY <1>3 DEF Binding
    <2>2. /\ todo # <<>>
          /\ Head(todo) \in {"alloc", "mapped", "reset", "msi_on", "request_irq", "ack",
                             "irq_on"}
      BY <2>1, DriverBindSteps
    <2>3. todo \in Seq(Harmless) => Head(todo) \in Harmless
      BY <2>2
    <2> QED
      BY <1>2, <1>3, <2>2, <2>3 DEF Binding, Harmless
  <1> QED
    BY <1>2, <1>3 DEF KInv, Phases, Rest, Opening, Unbound, Releasing, ReleasingBlindly,
                      ReleasingWindow

LEMMA TransfersStep ==
  ASSUME KInv, NEW s \in AllSteps, StepOf(s)
  PROVE  Transfers'
  <1>1. SUFFICES ASSUME drv = "driver"
                 PROVE  Transfers'
    BY StepParts DEF Transfers
  <1>2. /\ queued \in Nat /\ irqpc \in {"idle", "lock"} /\ (Active => queued > 0 /\ Reaches)
        /\ (busy # Idle => busy = handle /\ ~ status /\ irqpc = "idle")
        /\ (status => irqpc = "idle")
        /\ (~ bound => StartFree)
    BY <1>1 DEF KInv, Transfers
  <1>3. /\ HandlesStep(s) /\ CardStep(s) /\ RingStep(s) /\ bound' = bound
        /\ (Referenced => Referenced') /\ (s # "alloc" => Referenced' = Referenced)
    BY StepParts
  <1>4. queued' \in Nat /\ irqpc' \in {"idle", "lock"} /\ (~ bound' => StartFree')
    BY <1>2, <1>3, StartFreeStep DEF RingStep, CardStep
  <1>5. CASE Bound
    <2>1. todo' \in Seq(Harmless) /\ s \in Harmless /\ handle' = handle /\ Referenced'
      BY <1>3, <1>5, HarmlessStep DEF Bound
    <2>2. /\ bound' /\ (base \notin dud => Reaches) /\ (Reaches' <=> Reaches)
      BY <1>3, <1>5, HarmlessStep, WindowShows, SameWindow DEF Bound
    <2>3. queued' = queued \/ queued' = queued + 1
      BY <1>3, <2>1 DEF RingStep, Harmless
    <2>4. CASE s = "start" /\ queued = 0
      <3>1. queued' = 1 /\ ~ Active
        BY <1>2, <1>3, <2>4 DEF RingStep
      <3>2. ~ status' /\ irqpc' = "idle" /\ (busy' # Idle => busy' = handle /\ Reaches')
        BY <1>3, <2>2, <3>1 DEF CardStep, Active
      <3>3. Active' => queued' > 0 /\ Reaches'
        BY <3>1, <3>2 DEF Active
      <3> QED
        BY <1>4, <2>1, <2>2, <3>2, <3>3 DEF Transfers
    <2>5. CASE ~ (s = "start" /\ queued = 0)
      <3>1. busy' = busy \/ busy' = Idle
        BY <1>3, <2>5 DEF CardStep
      <3>2. Active' => Active
        BY <1>3, <3>1 DEF CardStep, Active
      <3>3. Active' => queued' > 0 /\ Reaches'
        BY <1>2, <2>2, <2>3, <3>2
      <3>4. /\ busy' # Idle => busy' = handle' /\ ~ status' /\ irqpc' = "idle"
            /\ status' => irqpc' = "idle"
        BY <1>2, <1>3, <2>1, <3>1 DEF CardStep
      <3> QED
        BY <1>4, <2>1, <2>2, <3>3, <3>4 DEF Transfers
    <2> QED
      BY <2>4, <2>5
  <1>6. CASE ~ Referenced /\ ReleasingAll
    <2>1. PICK n \in 1 .. 7 : /\ todo = Last(driver_full_release, n)
                              /\ Holds(n >= 4, n >= 3, n >= 5, n >= 6)
                              /\ ie => n = 7
      BY <1>6 DEF ReleasingAll
    <2>2. /\ (n = 7 => s = "irq_off") /\ (n = 6 => s = "free_irq") /\ (n = 5 => s = "msi_off")
          /\ (n = 4 => s = "free") /\ (n = 3 => s = "unmapped") /\ (n = 2 => s = "reboot")
          /\ (n = 1 => s = "iounmap")
      <3>1. Head(todo) = s
        BY StepParts
      <3> QED
        BY <2>1, <3>1, FullReleaseSteps
    <2>3. s \notin {"start", "wait", "alloc", "reset", "ioremap"} /\ (n # 1 => s # "iounmap")
      BY <2>2
    <2>4. handle' = handle /\ queued' = queued
      BY <1>3, <2>3 DEF HandlesStep, RingStep
    <2>5. busy' = busy \/ busy' = Idle
      BY <1>3, <2>3 DEF CardStep
    <2>6. Active' => Active
      BY <1>3, <2>5 DEF CardStep, Active
    <2>7. n <= 2 => ~ Active'
      <3>1. CASE n = 1
        <4>1. todo = <<"iounmap">>
          BY <2>1, <3>1, LastOfRelease
        <4> QED
          BY <1>1, <1>6, <2>6, <4>1 DEF KInv, Transfers
      <3>2. CASE n = 2
        <4>1. irqpc = "idle" /\ s = "reboot"
          BY <2>1, <2>2, <3>2 DEF Holds, Hooked
        <4>2. Active => Reaches
          BY <1>2
        <4>3. Reaches => ~ Active'
          BY <1>3, <4>1 DEF CardStep, Active
        <4> QED
          BY <2>6, <4>2, <4>3
      <3> QED
        BY <3>1, <3>2
    <2>8. n > 2 => todo' \notin {<<>>, <<"iounmap">>}
      <3>1. SUFFICES ASSUME n > 2
                     PROVE  todo' \notin {<<>>, <<"iounmap">>}
        OBVIOUS
      <3>2. n - 1 \in 1 .. 7 /\ n - 1 # 1 /\ todo' = Last(driver_full_release, n - 1)
        <4>1. todo' = Tail(todo)
          BY <2>3, StepParts
        <4>2. n - 1 \in 1 .. 7 /\ n - 1 # 1
          BY <3>1
        <4>3. Tail(todo) = Last(driver_full_release, n - 1)
          BY <2>1, FullReleaseSteps
        <4> QED
          BY <4>1, <4>2, <4>3
      <3>3. todo' # <<>> /\ Head(todo') # "iounmap"
        BY <3>2, FullReleaseSteps
      <3>4. Head(<<"iounmap">>) = "iounmap"
        OBVIOUS
      <3> QED
        BY <3>3, <3>4
    <2>9. bound' /\ ~ Referenced'
      BY <1>3, <1>6, <2>3 DEF ReleasingAll
    <2>10. Active' => queued' > 0 /\ Reaches' /\ todo' \notin {<<>>, <<"iounmap">>}
      <3>1. n # 1 => (Reaches' <=> Reaches)
        BY <1>3, <2>3 DEF HandlesStep, Reaches, Mapped
      <3>2. Active' => n # 1
        BY <2>7
      <3>3. Active' => n > 2
        BY <2>1, <2>7
      <3> QED
        BY <1>2, <2>4, <2>6, <2>8, <3>1, <3>2, <3>3
    <2>11. /\ busy' # Idle => busy' = handle' /\ ~ status' /\ irqpc' = "idle"
           /\ status' => irqpc' = "idle"
      BY <1>2, <1>3, <2>4, <2>5 DEF CardStep
    <2> QED
      BY <1>4, <2>9, <2>10, <2>11 DEF Transfers
  <1>7. CASE ~ Bound /\ ~ (~ Referenced /\ ReleasingAll)
    <2>1. ~ Active
      BY <1>1, <1>7, QuietPhases
    <2>2. s # "start"
      <3>1. CASE ~ bound
        BY <1>2, <3>1, StartFreeStep
      <3>2. CASE bound
        <4>1. Binding
          BY <1>1, <1>7, <3>2, StepParts DEF KInv, Phases, Rest, Opening, Unbound, Releasing,
                                  ReleasingBlindly, ReleasingWindow
        <4>2. PICK n \in 1 .. 7 : todo = Last(driver_bind, n)
          BY <1>1, <4>1 DEF Binding
        <4> QED
          <5>1. Head(todo) = s
            BY StepParts
          <5> QED
            <6>1. s \in {"alloc", "mapped", "reset", "msi_on", "request_irq", "ack", "irq_on"}
              BY <4>2, <5>1, DriverBindSteps
            <6> QED
              BY <6>1
      <3> QED
        BY <3>1, <3>2
    <2>3. ~ Active'
      BY <2>1, <2>2, StaysQuiet
    <2> QED
      BY <1>4, <2>3 DEF Transfers, Active
  <1> QED
    BY <1>5, <1>6, <1>7

LEMMA TransfersCalls ==
  ASSUME KInv, Calls
  PROVE  Transfers'
  <1> USE DEF scenario, owned, windows, card, loader
  <1>1. SUFFICES ASSUME drv = "driver"
                 PROVE  Transfers'
    BY DEF Calls, Open, Ioctl, Mmap, Close, Exit, Transfers
  <1>2. /\ todo = <<>>
        /\ UNCHANGED <<drv, queued, irqpc, busy, status, base, maps, dud, handle, dma_mapped>>
    BY DEF Calls, Open, Ioctl, Mmap, Close, Exit, Turn
  <1>3. /\ queued \in Nat /\ irqpc \in {"idle", "lock"} /\ (Active => queued > 0 /\ Reaches)
        /\ (busy # Idle => busy = handle /\ ~ status /\ irqpc = "idle")
        /\ (status => irqpc = "idle")
        /\ (Active => bound /\ Referenced)
    BY <1>1, <1>2 DEF KInv, Transfers
  <1>4. Rest \/ Unbound \/ Bound
    BY <1>2, BetweenCalls DEF KInv
  <1>5. /\ queued' \in Nat /\ irqpc' \in {"idle", "lock"} /\ (Active' => queued' > 0 /\ Reaches')
        /\ (busy' # Idle => busy' = handle' /\ ~ status' /\ irqpc' = "idle")
        /\ (status' => irqpc' = "idle")
        /\ (Active' <=> Active)
    BY <1>2, <1>3 DEF Active, Reaches, Mapped
  <1>6. SUFFICES /\ Active => bound' /\ IF Referenced' THEN todo' \in Seq(Harmless)
                                                      ELSE todo' \notin {<<>>, <<"iounmap">>}
                 /\ ~ bound' => StartFree'
    BY <1>5 DEF Transfers
  <1>7. CASE Open
    <2>1. ~ Active
      BY <1>3, <1>7 DEF Open, Referenced
    <2>2. StartFree'
      BY <1>1, <1>7, StartFreeCalls DEF Open, Enter, StartFree
    <2> QED
      BY <2>1, <2>2
  <1>8. ASSUME NEW c \in DOMAIN fops \ {"open", "release"}, Ioctl(c)
        PROVE  /\ Active => bound' /\ IF Referenced' THEN todo' \in Seq(Harmless)
                                                    ELSE todo' \notin {<<>>, <<"iounmap">>}
               /\ ~ bound' => StartFree'
    <2>1. todo' = fops[c] /\ Referenced' /\ bound' = (bound \/ c = "bind")
          /\ (c = "bind" => ~ bound)
      BY <1>8 DEF Ioctl, Enter, Referenced
    <2>2. Active => c # "bind" /\ bound'
      BY <1>3, <2>1
    <2>3. c # "bind" => fops[c] \in Seq(Harmless)
      BY IoctlCalls DEF KInv
    <2>4. ~ bound' => StartFree'
      <3>1. SUFFICES ASSUME ~ bound'
                     PROVE  StartFree'
        OBVIOUS
      <3>2. ~ bound
        BY <2>1, <3>1
      <3>3. ~ dma_mapped
        BY <1>4, <3>2 DEF Bound, Unbound, Rest, Bare, Holds
      <3> QED
        BY <1>1, <2>1, <3>3, StartFreeCalls DEF StartFree
    <2> QED
      BY <2>1, <2>2, <2>3, <2>4
  <1>9. CASE Mmap
    <2>1. todo' = todo /\ bound' = bound /\ Referenced'
      BY <1>9 DEF Mmap, Referenced
    <2>2. <<>> \in Seq(Harmless)
      OBVIOUS
    <2> QED
      BY <1>1, <1>2, <1>3, <2>1, <2>2, StartFreeCalls DEF StartFree
  <1>10. CASE Close \/ Exit
    <2>1. /\ bound' = bound
          /\ \/ todo' = todo /\ (Referenced => Referenced')
             \/ Referenced /\ ~ Referenced' /\ todo' = fops["release"]
      <3>1. CASE Close
        BY <3>1 DEF Close, LastReference, Enter, Referenced
      <3>2. CASE Exit
        BY <3>2 DEF Exit, Enter, Referenced
      <3> QED
        BY <1>10, <3>1, <3>2
    <2>2. CASE todo' = todo /\ (Referenced => Referenced')
      <3>1. <<>> \in Seq(Harmless)
        OBVIOUS
      <3> QED
        BY <1>1, <1>2, <1>3, <2>1, <2>2, <3>1, StartFreeCalls DEF StartFree
    <2>3. CASE Referenced /\ ~ Referenced' /\ todo' = fops["release"]
      <3>1. StartFree'
        BY <1>1, <2>3, StartFreeCalls DEF StartFree
      <3>2. ASSUME Active
            PROVE  todo' \notin {<<>>, <<"iounmap">>}
        <4>1. Bound
          BY <1>3, <1>4, <3>2 DEF Rest, Unbound
        <4>2. dma_mapped
          BY <1>1, <4>1 DEF Bound, Holds
        <4>3. todo' = driver_full_release
          BY <1>1, <2>3, <4>2 DEF fops, driver_fops, driver_release, driver_full_release
        <4>4. driver_full_release \notin {<<>>, <<"iounmap">>}
          BY DEF driver_full_release
        <4> QED
          BY <4>3, <4>4
      <3> QED
        BY <1>3, <2>1, <2>3, <3>1, <3>2
    <2> QED
      BY <2>1, <2>2, <2>3
  <1> QED
    BY <1>7, <1>8, <1>9, <1>10 DEF Calls

LEMMA TransfersHandler ==
  ASSUME KInv, CardDone \/ Interrupt \/ dma_interrupt
  PROVE  Transfers'
  <1> USE DEF scenario, loader, owned, windows, user
  <1>1. SUFFICES ASSUME drv = "driver"
                 PROVE  Transfers'
    BY DEF CardDone, Interrupt, dma_interrupt, Transfers
  <1>2. /\ queued \in Nat /\ irqpc \in {"idle", "lock"} /\ (Active => queued > 0 /\ Reaches)
        /\ (busy # Idle => busy = handle /\ ~ status /\ irqpc = "idle")
        /\ (status => irqpc = "idle")
        /\ (Active => bound /\ IF Referenced THEN todo \in Seq(Harmless)
                                            ELSE todo \notin {<<>>, <<"iounmap">>})
        /\ (~ bound => StartFree)
    BY <1>1 DEF KInv, Transfers
  <1>3. UNCHANGED <<drv, base, maps, dud, handle, fd, vmas, bound, todo>>
    BY DEF CardDone, Interrupt, dma_interrupt
  <1>4. /\ (Referenced' <=> Referenced) /\ (StartFree' <=> StartFree)
        /\ (Reaches' <=> Reaches)
    BY <1>3 DEF Referenced, StartFree, Reaches, Mapped
  <1>5. Active
    BY DEF Active, CardDone, Interrupt, dma_interrupt
  <1>6. bound' /\ IF Referenced' THEN todo' \in Seq(Harmless)
                                ELSE todo' \notin {<<>>, <<"iounmap">>}
    BY <1>2, <1>3, <1>4, <1>5
  <1>7. CASE CardDone
    <2>1. queued' = queued /\ irqpc' = irqpc /\ busy' = Idle /\ irqpc = "idle"
      BY <1>2, <1>7 DEF CardDone
    <2> QED
      BY <1>2, <1>4, <1>5, <1>6, <2>1 DEF Transfers
  <1>8. CASE Interrupt
    <2>1. queued' = queued /\ irqpc' = "lock" /\ busy = Idle
      BY <1>2, <1>8 DEF Interrupt
    <2>2. busy' = busy /\ ~ status'
      BY <1>2, <1>5, <1>8 DEF Interrupt, Write, Arrives, Reaches
    <2> QED
      BY <1>2, <1>4, <1>5, <1>6, <2>1, <2>2 DEF Transfers
  <1>9. CASE dma_interrupt
    <2>1. irqpc' = "idle" /\ irqpc = "lock" /\ busy = Idle /\ ~ status /\ queued > 0
      BY <1>2, <1>5, <1>9 DEF dma_interrupt
    <2>2. queued' = queued - 1
      BY <1>2, <1>9, <2>1 DEF dma_interrupt
    <2>3. ~ status' /\ (busy' # Idle => busy' = handle /\ queued > 1)
      BY <1>9, <2>1 DEF dma_interrupt, Write, card
    <2>4. Active' => queued' > 0
      BY <1>2, <2>1, <2>2, <2>3 DEF Active
    <2>5. queued' \in Nat
      BY <1>2, <2>1, <2>2
    <2> QED
      BY <1>2, <1>3, <1>4, <1>5, <1>6, <2>1, <2>3, <2>4, <2>5 DEF Transfers
  <1> QED
    BY <1>7, <1>8, <1>9

(* Nobody dies while a transfer is under way. *)
LEMMA FaultTransfers ==
  ASSUME KInv, Fault, ~ Wrecked'
  PROVE  /\ Transfers'
         /\ drv = "driver" => ~ Active /\ ~ Active' /\ StartFree'
  <1>1. /\ base \in dud /\ Enter("release")
        /\ UNCHANGED <<drv, owned, queued, bound, card, irqpc>>
    BY FaultReleases DEF Blind
  <1>2. ASSUME drv = "driver"
        PROVE  ~ Active /\ ~ Active' /\ StartFree'
    <2>1. ~ Active
      BY <1>1, <1>2 DEF KInv, Transfers, Reaches
    <2>2. ~ Active'
      BY <1>1, <2>1 DEF Active, card
    <2>3. StartFree'
      BY <1>1, <1>2, StartFreeCalls DEF Enter, StartFree
    <2> QED
      BY <2>1, <2>2, <2>3
  <1>3. drv = "driver" => queued' \in Nat /\ irqpc' \in {"idle", "lock"}
    BY <1>1 DEF KInv, Transfers
  <1> QED
    BY <1>1, <1>2, <1>3 DEF Transfers, Active

LEMMA TransfersInductive ==
  ASSUME KInv, [Next]_vars, ~ Wrecked'
  PROVE  Transfers'
  <1> USE DEF scenario, owned, windows, user, card
  <1>1. CASE Steps /\ ~ Fault
    <2>1. dma_mapped \in BOOLEAN /\ msi \in BOOLEAN
      BY DEF KInv, Phases, Rest, Opening, Unbound, Binding, Bound, Releasing, ReleasingAll,
             ReleasingBlindly, ReleasingWindow, Bare, Holds
    <2> QED
      BY <1>1, <2>1, StepsAreStepOf, TransfersStep
  <1>2. CASE UNCHANGED vars
    BY <1>2, SameTransfers DEF KInv, vars
  <1>3. CASE System
    <2>1. CASE Insmod
      <3>1. ~ Referenced /\ todo = <<>>
        BY <2>1 DEF Insmod, KInv
      <3>2. ~ Active \/ drv # "driver"
        BY <3>1 DEF KInv, Transfers
      <3>3. UNCHANGED <<drv, irqpc, busy, status, bound, todo>> /\ queued' = 0
        BY <2>1 DEF Insmod
      <3> QED
        BY <3>2, <3>3 DEF KInv, Transfers, Active, StartFree
    <2>2. ASSUME NEW ok \in BOOLEAN, Load(ok)
          PROVE  Transfers'
      BY <2>2, SameTransfers DEF Load, KInv
    <2>3. CASE Loaded
      BY <2>3, SameTransfers DEF Loaded, KInv
    <2>4. CASE Rmmod
      BY <2>4, SameTransfers DEF Rmmod, KInv
    <2>5. CASE Unload
      BY <2>5, SameTransfers DEF Unload, KInv
    <2> QED
      BY <1>3, <2>1, <2>2, <2>3, <2>4, <2>5 DEF System
  <1>4. CASE Fault
    BY <1>4, FaultTransfers
  <1> QED
    BY <1>1, <1>2, <1>3, <1>4, TransfersCalls, TransfersHandler DEF Next

-----------------------------------------------------------------------------
(* Where the test program of driver.c is. *)
LEMMA TestCalls ==
  ASSUME drv = "driver"
  PROVE  /\ V \in Nat /\ V >= 5 /\ Len(test) = V + 2
         /\ test[1] = "open" /\ test[2] = "vmodeOn" /\ test[3] = "sync" /\ test[4] = "bind"
         /\ \A i \in 5 .. V - 1 : test[i] \in {"flush", "start"}
         /\ test[V] = "vmodeOff" /\ test[V + 1] = "close" /\ test[V + 2] = "exit"
  <1> DEFINE S == {"open", "vmodeOn", "sync", "bind", "flush", "start", "vmodeOff", "close",
                   "exit"}
             a == <<"open", "vmodeOn", "sync", "bind">>
             z == <<"vmodeOff", "close", "exit">>
  <1>1. Rounds \in Nat /\ V = 5 + 2 * Rounds /\ V \in Nat /\ V >= 5
    BY BoundsAssumption DEF V
  <1>2. a \in Seq(S) /\ z \in Seq(S) /\ Len(a) = 4 /\ Len(z) = 3
    OBVIOUS
  <1>3. /\ Rounds2 \in Seq(S) /\ Len(Rounds2) = 2 * Rounds
        /\ \A i \in 1 .. 2 * Rounds : Rounds2[i] \in {"flush", "start"}
    BY <1>1 DEF Rounds2
  <1>4. test = a \o Rounds2 \o z
    BY DEF test, testdmaBuffer
  <1>5. /\ a[1] = "open" /\ a[2] = "vmodeOn" /\ a[3] = "sync" /\ a[4] = "bind"
        /\ z[1] = "vmodeOff" /\ z[2] = "close" /\ z[3] = "exit"
    OBVIOUS
  <1> HIDE DEF S, a, z
  <1>6. /\ a \o Rounds2 \in Seq(S) /\ Len(a \o Rounds2) = V - 1
        /\ \A i \in 1 .. V - 1 : (a \o Rounds2)[i] = IF i <= 4 THEN a[i] ELSE Rounds2[i - 4]
    <2>1. Len(a) + Len(Rounds2) = V - 1
      BY <1>1, <1>2, <1>3
    <2>2. /\ a \o Rounds2 \in Seq(S) /\ Len(a \o Rounds2) = Len(a) + Len(Rounds2)
          /\ \A i \in 1 .. Len(a) + Len(Rounds2) :
                (a \o Rounds2)[i] = IF i <= Len(a) THEN a[i] ELSE Rounds2[i - Len(a)]
      BY <1>2, <1>3, ConcatProperties
    <2> QED
      BY <1>2, <2>1, <2>2
  <1>7. /\ Len(test) = V + 2
        /\ \A i \in 1 .. V + 2 : test[i] = IF i <= V - 1 THEN (a \o Rounds2)[i]
                                                         ELSE z[i - (V - 1)]
    <2> DEFINE b == a \o Rounds2
    <2>1. Len(b) + Len(z) = V + 2
      BY <1>1, <1>2, <1>6
    <2>2. /\ Len(b \o z) = Len(b) + Len(z)
          /\ \A i \in 1 .. Len(b) + Len(z) :
                (b \o z)[i] = IF i <= Len(b) THEN b[i] ELSE z[i - Len(b)]
      <3>1. b \in Seq(S)
        BY <1>6
      <3> HIDE DEF b
      <3> QED
        BY <1>2, <3>1, ConcatProperties
    <2> QED
      BY <1>4, <1>6, <2>1, <2>2
  <1>8. \A i \in 5 .. V - 1 : test[i] \in {"flush", "start"}
    <2> SUFFICES ASSUME NEW i \in 5 .. V - 1
                 PROVE  test[i] \in {"flush", "start"}
      OBVIOUS
    <2>1. i \in 1 .. V - 1 /\ i \in 1 .. V + 2 /\ ~ (i <= 4) /\ i - 4 \in 1 .. 2 * Rounds
      BY <1>1
    <2> QED
      BY <1>3, <1>6, <1>7, <2>1
  <1>9. test[1] = "open" /\ test[2] = "vmodeOn" /\ test[3] = "sync" /\ test[4] = "bind"
    <2> SUFFICES ASSUME NEW i \in 1 .. 4
                 PROVE  test[i] = a[i]
      BY <1>5
    <2>1. i \in 1 .. V - 1 /\ i \in 1 .. V + 2 /\ i <= 4 /\ i <= V - 1
      BY <1>1
    <2> QED
      BY <1>6, <1>7, <2>1
  <1>10. test[V] = "vmodeOff" /\ test[V + 1] = "close" /\ test[V + 2] = "exit"
    BY <1>1, <1>5, <1>7
  <1> QED
    BY <1>1, <1>7, <1>8, <1>9, <1>10

(* What the program calls next tells where it is. *)
LEMMA Whereabouts ==
  ASSUME drv = "driver", NEW p \in 0 .. V + 1
  PROVE  /\ test[p + 1] = "open" => p = 0
         /\ test[p + 1] \notin {"open", "vmodeOff", "close", "exit"} => p \in 1 .. V - 2
         /\ test[p + 1] = "vmodeOff" => p = V - 1
         /\ test[p + 1] = "close" => p = V
         /\ test[p + 1] = "exit" => p = V + 1
         /\ test[p + 1] # "mmap"
  <1>1. V \in Nat /\ V >= 5
    BY TestCalls
  <1>2. p + 1 \in 1 .. V + 2
    BY <1>1
  <1>3. CASE p + 1 \in 5 .. V - 1
    BY <1>1, <1>2, <1>3, TestCalls
  <1>4. CASE p + 1 \in {1, 2, 3, 4, V, V + 1, V + 2}
    BY <1>1, <1>2, <1>4, TestCalls
  <1> QED
    BY <1>1, <1>2, <1>3, <1>4

LEMMA PositionStep ==
  ASSUME KInv, NEW s \in AllSteps, StepOf(s)
  PROVE  Position'
  <1>1. SUFFICES ASSUME drv = "driver", client = "test"
                 PROVE  Position'
    BY StepParts DEF Position
  <1>2. /\ at' = at /\ (Referenced => Referenced') /\ RingStep(s)
        /\ todo # <<>> /\ Head(todo) = s /\ (s # "start" => todo' = Tail(todo))
    BY StepParts
  <1>3. /\ at \in 0 .. V + 1 /\ (~ Referenced => at \in {0, V + 1})
        /\ (at \notin 1 .. V - 1 => StartFree)
        /\ (Active => /\ at \in 1 .. V
                      /\ at = V => todo \in {<<"sync", "drain">>, <<"drain">>})
    BY <1>1 DEF KInv, Position
  <1>4. V \in Nat /\ V >= 5
    BY <1>1, TestCalls
  <1>5. CASE at \in 1 .. V - 1
    <2>1. at' \in 0 .. V + 1 /\ at' \in 1 .. V - 1 /\ at' \in 1 .. V /\ at' # V /\ Referenced'
      BY <1>2, <1>3, <1>4, <1>5
    <2> QED
      BY <2>1 DEF Position
  <1>6. CASE at \notin 1 .. V - 1
    <2>1. StartFree' /\ s # "start"
      BY <1>3, <1>6, StartFreeStep
    <2>2. Active' => Active
      BY <2>1, StaysQuiet
    <2>3. Active => todo = <<"sync", "drain">> /\ at = V
      <3>1. SUFFICES ASSUME Active
                     PROVE  todo = <<"sync", "drain">> /\ at = V
        OBVIOUS
      <3>2. at = V
        BY <1>3, <1>4, <1>6, <3>1
      <3>3. queued > 0 /\ queued \in Nat
        BY <1>1, <3>1 DEF KInv, Transfers
      <3>4. s # "drain"
        BY <1>2, <3>3 DEF RingStep
      <3>5. todo # <<"drain">>
        BY <1>2, <3>4
      <3> QED
        BY <1>3, <3>1, <3>2, <3>5
    <2>4. Active' => at' = V /\ at' \in 1 .. V /\ todo' = <<"drain">>
      <3>1. Tail(<<"sync", "drain">>) = <<"drain">>
        OBVIOUS
      <3>2. todo' = Tail(todo) /\ at' = at
        BY <1>2, <2>1
      <3>3. V \in 1 .. V
        BY <1>4
      <3> QED
        BY <2>2, <2>3, <3>1, <3>2, <3>3
    <2> QED
      BY <1>2, <1>3, <2>1, <2>4 DEF Position
  <1> QED
    BY <1>5, <1>6

LEMMA PositionCalls ==
  ASSUME KInv, Calls
  PROVE  Position'
  <1> USE DEF scenario, owned, card, loader
  <1>1. SUFFICES ASSUME drv = "driver", client = "test"
                 PROVE  Position'
    BY DEF Calls, Open, Ioctl, Mmap, Close, Exit, Position
  <1>2. /\ todo = <<>>
        /\ UNCHANGED <<drv, client, irqpc, busy, status>>
    BY DEF Calls, Open, Ioctl, Mmap, Close, Exit, Turn
  <1>3. V \in Nat /\ V >= 5 /\ Len(test) = V + 2
    BY <1>1, TestCalls
  <1>4. /\ at \in 0 .. V + 1 /\ (~ Referenced => at \in {0, V + 1})
        /\ (at \notin 1 .. V - 1 => StartFree)
        /\ (Active => at \in 1 .. V - 1)
        /\ (Active' <=> Active)
    <2>1. /\ at \in 0 .. V + 1 /\ (~ Referenced => at \in {0, V + 1})
          /\ (at \notin 1 .. V - 1 => StartFree)
          /\ (Active => /\ at \in 1 .. V
                        /\ at = V => todo \in {<<"sync", "drain">>, <<"drain">>})
      BY <1>1 DEF KInv, Position
    <2>2. Active => at # V
      BY <1>2, <2>1
    <2> QED
      BY <1>2, <1>3, <2>1, <2>2 DEF Active
  <1>5. at' = IF at + 1 < V + 2 THEN at + 1 ELSE 0
    BY <1>1, <1>3 DEF Calls, Open, Ioctl, Mmap, Close, Exit, Advance
  <1>6. \A c : Turn(c) => test[at + 1] = c
    BY <1>1 DEF Turn
  <1>7. CASE Open
    <2>1. at = 0 /\ at' = 1 /\ Referenced'
      BY <1>1, <1>3, <1>4, <1>5, <1>6, <1>7, Whereabouts DEF Open, Referenced
    <2> QED
      BY <1>3, <1>4, <2>1 DEF Position
  <1>8. ASSUME NEW c \in DOMAIN fops \ {"open", "release"}, Ioctl(c)
        PROVE  Position'
    <2>1. test[at + 1] = c /\ Referenced' /\ todo' = fops[c]
      BY <1>6, <1>8 DEF Ioctl, Referenced, Enter
    <2>2. c \notin {"open", "close", "exit"}
      BY <1>1, <1>8 DEF fops, driver_fops
    <2>3. CASE c # "vmodeOff"
      <3>1. at \in 1 .. V - 2
        BY <1>1, <1>4, <2>1, <2>2, <2>3, Whereabouts
      <3>2. at' \in 0 .. V + 1 /\ at' \in 1 .. V - 1 /\ at' \in 1 .. V /\ at' # V
        BY <1>3, <1>5, <3>1
      <3> QED
        BY <2>1, <3>2 DEF Position
    <2>4. CASE c = "vmodeOff"
      <3>1. at = V - 1
        BY <1>1, <1>4, <2>1, <2>4, Whereabouts
      <3>2. at' = V /\ at' \in 0 .. V + 1 /\ at' \in 1 .. V
        BY <1>3, <1>5, <3>1
      <3>3. StartFree'
        BY <1>1, <2>1, <2>4, StartFreeCalls DEF StartFree
      <3>4. Active => todo' = <<"sync", "drain">>
        <4>1. Active => dma_mapped
          <5>1. Active => bound
            BY <1>1 DEF KInv, Transfers
          <5>2. Rest \/ Unbound \/ Bound
            BY <1>2, BetweenCalls DEF KInv
          <5>3. Active => Bound
            BY <5>1, <5>2, <1>1, <1>2 DEF Rest, Unbound, KInv, Transfers
          <5> QED
            BY <1>1, <5>3 DEF Bound, Holds
        <4>2. dma_mapped => fops["vmodeOff"] = <<"sync", "drain">>
          BY <1>1 DEF fops, driver_fops, driver_vmodeOff
        <4> QED
          BY <2>1, <2>4, <4>1, <4>2
      <3> QED
        BY <1>4, <2>1, <3>2, <3>3, <3>4 DEF Position
    <2> QED
      BY <2>3, <2>4
  <1>9. CASE Mmap
    BY <1>1, <1>4, <1>6, <1>9, Whereabouts DEF Mmap
  <1>10. CASE Close \/ Exit
    <2>1. at' \in {0, V + 1} /\ ~ Active
      <3>1. CASE Close
        <4>1. at = V
          BY <1>1, <1>4, <1>6, <3>1, Whereabouts DEF Close
        <4> QED
          BY <1>3, <1>4, <1>5, <4>1
      <3>2. CASE Exit
        <4>1. at = V + 1
          BY <1>1, <1>4, <1>6, <3>2, Whereabouts DEF Exit
        <4> QED
          BY <1>3, <1>4, <1>5, <4>1
      <3> QED
        BY <1>10, <3>1, <3>2
    <2>2. todo' \in {<<>>, fops["release"]}
      BY <1>2, <1>10 DEF Close, Exit, LastReference, Enter
    <2>3. StartFree'
      BY <1>1, <2>2, StartFreeCalls DEF StartFree
    <2>4. at' \in 0 .. V + 1
      BY <1>3, <2>1
    <2> QED
      BY <1>4, <2>1, <2>3, <2>4 DEF Position
  <1> QED
    BY <1>7, <1>8, <1>9, <1>10 DEF Calls

LEMMA PositionInductive ==
  ASSUME KInv, [Next]_vars, ~ Wrecked'
  PROVE  Position'
  <1> USE DEF scenario, owned, user, card, loader
  <1>1. CASE Steps /\ ~ Fault
    <2>1. dma_mapped \in BOOLEAN /\ msi \in BOOLEAN
      BY DEF KInv, Phases, Rest, Opening, Unbound, Binding, Bound, Releasing, ReleasingAll,
             ReleasingBlindly, ReleasingWindow, Bare, Holds
    <2> QED
      BY <1>1, <2>1, StepsAreStepOf, PositionStep
  <1>2. ASSUME UNCHANGED <<drv, client, at, fd, vmas, todo>>, Active' => Active
        PROVE  Position'
    <2>1. (Referenced' <=> Referenced) /\ (StartFree' <=> StartFree)
      BY <1>2 DEF Referenced, StartFree
    <2> QED
      BY <1>2, <2>1 DEF KInv, Position
  <1>3. CASE CardDone \/ Interrupt \/ dma_interrupt
    <2>1. Active /\ UNCHANGED <<drv, client, at, fd, vmas, todo>>
      BY <1>3 DEF Active, CardDone, Interrupt, dma_interrupt
    <2> QED
      BY <1>2, <2>1
  <1>4. CASE System
    <2>1. UNCHANGED <<drv, client, at, fd, vmas, todo, busy, status, irqpc>>
      BY <1>4 DEF System, Insmod, Load, Loaded, Rmmod, Unload
    <2> QED
      BY <1>2, <2>1 DEF Active
  <1>5. CASE UNCHANGED vars
    BY <1>2, <1>5 DEF vars, Active
  <1>6. CASE Fault
    <2>1. SUFFICES ASSUME drv' = "driver"
                   PROVE  at' \in 0 .. V + 1 /\ at' \in {0, V + 1} /\ StartFree' /\ ~ Active'
      BY DEF Position
    <2>2. at' = 0 /\ drv' = drv
      BY <1>6, FaultReleases
    <2>3. V \in Nat
      BY <2>1, <2>2, TestCalls
    <2> QED
      BY <1>6, <2>1, <2>2, <2>3, FaultTransfers
  <1> QED
    BY <1>1, <1>3, <1>4, <1>5, <1>6, PositionCalls DEF Next

(* The module is not loaded afresh, and does not leave, while the device   *)
(* is in use.                                                              *)
LEMMA ModuleInductive ==
  ASSUME KInv, [Next]_vars
  PROVE  module' \in {"none", "going"} => ~ Referenced' /\ todo' = <<>>
  <1> USE DEF scenario, owned, user, card, loader
  <1>1. CASE Steps
    <2>1. module' = module /\ todo # <<>>
      BY <1>1 DEF Steps, Registers, Ioremap, Iounmap, Alloc, Free, Reset, SetMapped, Msi,
                  RequestIrq, FreeIrq, Drain, initiateTransfer, WokenUp, Fault, Touches,
                  Step, Done, Then
    <2> QED
      BY <2>1 DEF KInv
  <1>2. CASE Calls
    <2>1. module' = module
      BY <1>2 DEF Calls, Open, Ioctl, Mmap, Close, Exit
    <2>2. CASE Open
      BY <2>1, <2>2 DEF Open
    <2>3. CASE Exit
      BY <2>1, <2>3 DEF Exit, Referenced, KInv
    <2>4. CASE Mmap \/ Close \/ \E c \in DOMAIN fops \ {"open", "release"} : Ioctl(c)
      <3>1. Referenced
        BY <2>4 DEF Mmap, Close, Ioctl, Referenced
      <3> QED
        BY <2>1, <3>1 DEF KInv
    <2> QED
      BY <1>2, <2>2, <2>3, <2>4 DEF Calls
  <1>3. CASE System
    <2>1. UNCHANGED <<fd, vmas, todo>>
      BY <1>3 DEF System, Insmod, Load, Loaded, Rmmod, Unload
    <2>2. module' \in {"none", "going"} =>
              module \in {"none", "going"} \/ (~ Referenced /\ todo = <<>>)
      BY <1>3 DEF System, Insmod, Load, Loaded, Rmmod, Unload, Referenced
    <2> QED
      BY <2>1, <2>2 DEF KInv, Referenced
  <1>4. CASE CardDone \/ Interrupt \/ dma_interrupt \/ UNCHANGED vars
    BY <1>4 DEF KInv, Referenced, CardDone, Interrupt, dma_interrupt, vars
  <1> QED
    BY <1>1, <1>2, <1>3, <1>4 DEF Next

-----------------------------------------------------------------------------
LEMMA KInvInit == Init => KInv
  <1> SUFFICES ASSUME Init
               PROVE  KInv
    OBVIOUS
  <1>1. drv \in Drivers
    BY ScenariosAssumption DEF Init
  <1>2. Rest
    BY DEF Init, Rest, Referenced, Bare, Holds, Buffers, Hooked
  <1>3. todo = <<>> /\ ~ Referenced /\ ~ Active
    BY DEF Init, Referenced, Active
  <1>4. drv = "driver" => StartFree
    BY <1>3, StartFreeCalls DEF StartFree
  <1>5. Transfers
    BY <1>3, <1>4 DEF Init, Transfers, Active
  <1>6. Position
    <2>1. V \in Nat
      BY BoundsAssumption DEF V
    <2> QED
      BY <1>3, <1>4, <2>1 DEF Init, Position
  <1>7. opens \in Nat /\ dud \subseteq 0 .. opens
    BY DEF Init
  <1> QED
    BY <1>1, <1>2, <1>3, <1>5, <1>6, <1>7 DEF KInv, Phases

(* Numbers of opens are not used twice. *)
LEMMA OpensInductive ==
  ASSUME KInv, [Next]_vars
  PROVE  opens' \in Nat /\ dud' \subseteq 0 .. opens'
  <1> USE DEF scenario, owned, windows, user, card, loader
  <1>1. opens \in Nat /\ dud \subseteq 0 .. opens
    BY DEF KInv
  <1>2. CASE Steps /\ ~ Fault
    <2>1. dma_mapped \in BOOLEAN /\ msi \in BOOLEAN
      BY DEF KInv, Phases, Rest, Opening, Unbound, Binding, Bound, Releasing, ReleasingAll,
             ReleasingBlindly, ReleasingWindow, Bare, Holds
    <2>2. PICK s \in AllSteps : StepOf(s)
      BY <1>2, <2>1, StepsAreStepOf
    <2>3. opens' = opens /\ dud' \subseteq dud \cup {0, opens}
      BY <2>2 DEF StepOf, HandlesStep
    <2> QED
      BY <1>1, <2>3
  <1>3. CASE Open
    <2>1. opens' = opens + 1 /\ dud' = dud
      BY <1>3 DEF Open
    <2> QED
      BY <1>1, <2>1
  <1>4. CASE Next /\ ~ Steps /\ ~ Open
    <2>1. opens' = opens /\ dud' = dud
      BY <1>4 DEF Next, System, Insmod, Load, Loaded, Rmmod, Unload, Calls, Ioctl, Mmap, Close,
                  Exit, CardDone, Interrupt, dma_interrupt
    <2> QED
      BY <1>1, <2>1
  <1>5. CASE Fault \/ UNCHANGED vars
    BY <1>1, <1>5 DEF Fault, vars
  <1> QED
    BY <1>2, <1>3, <1>4, <1>5

(* Only a program that dies leaves damage, and what was mapped blindly is  *)
(* not forgotten.                                                          *)
LEMMA DamageGrows ==
  ASSUME [Next]_vars
  PROVE  /\ drv' = drv /\ dud \subseteq dud'
         /\ damage \subseteq damage' /\ (~ Fault => damage' = damage)
  <1> USE DEF scenario, owned, windows
  <1>1. CASE Fault
    BY <1>1 DEF Fault
  <1>2. CASE Steps /\ ~ Fault
    BY <1>2 DEF Steps, Registers, Ioremap, Iounmap, Alloc, Free, Reset, SetMapped, Msi,
                RequestIrq, FreeIrq, Drain, initiateTransfer, WokenUp, Done, Then
  <1>3. CASE System
    BY <1>3 DEF System, Insmod, Load, Loaded, Rmmod, Unload
  <1>4. CASE Calls
    BY <1>4 DEF Calls, Open, Ioctl, Mmap, Close, Exit
  <1>5. CASE CardDone \/ Interrupt \/ dma_interrupt \/ UNCHANGED vars
    BY <1>5 DEF CardDone, Interrupt, dma_interrupt, vars
  <1> QED
    BY <1>1, <1>2, <1>3, <1>4, <1>5 DEF Next

LEMMA IInvInductive == IInv /\ [Next]_vars => IInv'
  <1> SUFFICES ASSUME IInv, [Next]_vars
               PROVE  IInv'
    OBVIOUS
  <1>1. drv' \in Drivers
    BY DamageGrows DEF IInv
  <1>2. OnlyBlindDie'
    <2>1. CASE ~ Fault
      BY <2>1, DamageGrows DEF IInv, OnlyBlindDie
    <2>2. CASE Fault /\ Wrecked
      BY <2>2, DamageGrows DEF IInv, OnlyBlindDie, Wrecked
    <2>3. CASE Fault /\ ~ Wrecked
      <3>1. drv \in {"driver", "contact", "launch"} => dud # {}
        BY <2>3, FaultPoint DEF IInv, Blind
      <3> QED
        BY <3>1, DamageGrows DEF OnlyBlindDie
    <2> QED
      BY <2>1, <2>2, <2>3
  <1>3. ASSUME ~ Wrecked'
        PROVE  KInv'
    <2>1. KInv
      BY <1>3, DamageGrows DEF IInv, Wrecked
    <2> QED
      BY <1>1, <1>3, <2>1, PhasesInductive, TransfersInductive, PositionInductive,
         ModuleInductive, OpensInductive DEF KInv
  <1> QED
    BY <1>1, <1>2, <1>3 DEF IInv

LEMMA IInvInvariant == Spec => []IInv
  <1>1. Init => IInv
    BY KInvInit DEF IInv, KInv, OnlyBlindDie, Init
  <1> QED
    BY <1>1, IInvInductive, PTL DEF Spec

(* The window is there for as long as the handler is hooked. *)
LEMMA HookedWindow ==
  ASSUME Phases, drv \in {"driver", "contact"}, hooks # 0
  PROVE  Window
  BY DEF Phases, Rest, Opening, Unbound, Binding, Bound, Releasing, ReleasingAll,
         ReleasingBlindly, ReleasingWindow, Bare, Holds, Hooked

(* No register is touched but through a window that shows the registers    *)
(* and is still there: not by a call, and not by the handler (driver.c and *)
(* contactWithGraphicCard.c, if every program has found the card).         *)
THEOREM Kyouko2NoStaleAccess == Spec => []NoStaleAccess
  <1>1. IInv => NoStaleAccess
    <2> SUFFICES ASSUME IInv, drv \in {"driver", "contact"}, dud = {}
                 PROVE  TouchesMapped
      BY DEF NoStaleAccess
    <2>0. KInv
      BY DEF IInv, OnlyBlindDie, Wrecked
    <2>1. Window => Reaches
      BY WindowShows
    <2>2. hooks > 0 => Reaches
      <3>1. hooks > 0 => hooks # 0
        OBVIOUS
      <3> QED
        BY <2>0, <2>1, <3>1, HookedWindow DEF KInv
    <2>3. ASSUME todo # <<>>, ~ Reaches
          PROVE  ~ Touches
      <3>1. Opening \/ Rest
        BY <2>0, <2>1, <2>3 DEF KInv, Phases, Unbound, Binding, Bound, Releasing, ReleasingAll,
                    ReleasingBlindly, ReleasingWindow
      <3>2. todo = <<"ioremap">>
        BY <2>3, <3>1 DEF Opening, Rest
      <3> QED
        BY <3>2 DEF Touches
    <2>4. Touches => todo # <<>>
      BY DEF Touches
    <2> QED
      BY <2>2, <2>3, <2>4 DEF TouchesMapped
  <1> QED
    BY <1>1, IInvInvariant, PTL

(* In driver.c, contactWithGraphicCard.c and launchModule.c nobody dies of *)
(* a null pointer or a lost window, unless some program opened the device  *)
(* before the probe or a mapping failed.                                   *)
THEOREM Kyouko2OnlyBlindDie == Spec => []OnlyBlindDie
  <1>1. IInv => OnlyBlindDie
    BY DEF IInv
  <1> QED
    BY <1>1, IInvInvariant, PTL

(* What open and BIND_DMA acquire, release gives back, in every driver and *)
(* for every program, also one that dies in the middle of an ioctl.        *)
THEOREM Kyouko2NothingLeaks == Spec => []NothingLeaks
  <1>1. IInv => NothingLeaks
    <2> SUFFICES ASSUME KInv, ~ Referenced, todo = <<>>
                 PROVE  maps = {} /\ bufs = {} /\ hooks = 0 /\ ~ msi
      BY DEF NothingLeaks, Referenced, IInv
    <2>1. Rest
      BY BetweenCalls DEF KInv, Unbound, Bound
    <2> QED
      BY <2>1 DEF Rest, Bare, Holds, Buffers, Hooked
  <1> QED
    BY <1>1, IInvInvariant, PTL

(* Nothing is given back twice, and nothing that was never acquired, if    *)
(* the kernel calls whose failure the driver overlooks do not fail, and    *)
(* every program has found the card.                                       *)
THEOREM Kyouko2GivesBackOnce ==
  ASSUME "alloc" \notin Faults, "request_irq" \notin Faults
  PROVE  Spec => []GivesBackOnce
  <1>1. IInv => GivesBackOnce
    <2> SUFFICES ASSUME KInv, dud = {}, todo # <<>>,
                        Head(todo) \in {"iounmap", "free", "free_irq", "msi_off"},
                        Head(todo) = "iounmap" \/ drv = "driver"
                 PROVE  CASE Head(todo) = "iounmap"  -> base \in maps
                          [] Head(todo) = "free"     -> handle \in bufs
                          [] Head(todo) = "free_irq" -> hooks > 0
                          [] Head(todo) = "msi_off"  -> msi
      BY DEF GivesBackOnce, Step, Sound, IInv
    <2>0. Window => base \in maps
      BY WindowShows DEF Reaches, Mapped
    <2>1. ~ Rest /\ ~ Opening /\ ~ Unbound /\ ~ Binding /\ ~ Bound
      BY Heads DEF Rest, Harmless
    <2>2. CASE ReleasingAll
      <3>1. PICK n \in 1 .. 7 : /\ todo = Last(driver_full_release, n)
                                /\ Holds(n >= 4, n >= 3, n >= 5, n >= 6)
        BY <2>2 DEF ReleasingAll
      <3>2. LET s == Head(todo) IN
              /\ (n = 7 => s = "irq_off") /\ (n = 6 => s = "free_irq")
              /\ (n = 5 => s = "msi_off") /\ (n = 4 => s = "free")
              /\ (n = 3 => s = "unmapped") /\ (n = 2 => s = "reboot")
              /\ (n = 1 => s = "iounmap")
        BY <3>1, FullReleaseSteps
      <3>3. base \in maps
        BY <2>0, <2>2 DEF ReleasingAll
      <3>4. Head(todo) = "free" => handle \in bufs
        BY <3>1, <3>2 DEF Holds, Buffers
      <3>5. Head(todo) = "free_irq" => hooks > 0
        BY <3>1, <3>2 DEF Holds, Hooked
      <3>6. Head(todo) = "msi_off" => msi
        BY <3>1, <3>2 DEF Holds
      <3> QED
        BY <3>3, <3>4, <3>5, <3>6
    <2>3. CASE ReleasingBlindly
      <3>1. PICK n \in 1 .. 6 : /\ todo = Last(dmaBuffer_release, n)
                                /\ IF n >= 5 THEN Window ELSE maps = {}
        BY <2>3 DEF ReleasingBlindly
      <3>2. LET s == Head(todo) IN
              /\ (n = 6 => s = "reboot") /\ (n = 5 => s = "iounmap")
              /\ (n = 4 => s = "irq_off") /\ (n = 3 => s = "free_irq")
              /\ (n = 2 => s = "msi_off") /\ (n = 1 => s = "free")
        BY <3>1, DmaBufferReleaseSteps
      <3>3. Head(todo) = "iounmap"
        BY <2>3 DEF ReleasingBlindly
      <3>4. n = 5
        BY <3>2, <3>3
      <3>5. base \in maps
        BY <2>0, <3>1, <3>4
      <3> QED
        BY <3>3, <3>5
    <2>4. CASE ReleasingWindow
      BY <2>0, <2>4, Heads DEF ReleasingWindow
    <2> QED
      BY <2>1, <2>2, <2>3, <2>4 DEF KInv, Phases, Releasing
  <1> QED
    BY <1>1, IInvInvariant, PTL

(* The card's interrupt is enabled only while the handler is hooked, if    *)
(* request_irq, whose failure the drivers overlook, does not fail, and no  *)
(* program has died in open or release.                                    *)
THEOREM Kyouko2HandlerHooked ==
  ASSUME "request_irq" \notin Faults
  PROVE  Spec => [](~ Wrecked => HandlerHooked)
  <1>1. IInv => (~ Wrecked => HandlerHooked)
    <2>1. ASSUME KInv, ie
          PROVE  hooks = 1
      <3>1. Bound \/ ReleasingAll \/ ReleasingBlindly
        BY <2>1 DEF KInv, Phases, Rest, Opening, Unbound, Binding, Releasing, ReleasingWindow, Bare
      <3>2. Bound => hooks = 1
        BY <2>1 DEF Bound, Enabled, HookedNow
      <3>3. ReleasingAll => hooks = 1
        BY <2>1 DEF ReleasingAll, Enabled, HookedNow
      <3>4. ReleasingBlindly => hooks = 1
        BY <2>1 DEF ReleasingBlindly, Enabled, HookedNow
      <3> QED
        BY <3>1, <3>2, <3>3, <3>4
    <2> QED
      BY <2>1 DEF HandlerHooked, IInv
  <1> QED
    BY <1>1, IInvInvariant, PTL

(* The card never reads a buffer that was freed, if the program ends       *)
(* graphics mode before it leaves, as testdmaBuffer.c does, the buffers    *)
(* were allocated, and no program has died in open or release.             *)
THEOREM Kyouko2CardReadsLive ==
  ASSUME "alloc" \notin Faults
  PROVE  Spec => [](~ Wrecked => CardReadsLive)
  <1>1. IInv => (~ Wrecked => CardReadsLive)
    <2> SUFFICES ASSUME KInv, drv = "driver", client = "test", busy # Idle
                 PROVE  busy \in bufs
      BY DEF CardReadsLive, IInv
    <2>1. Active /\ busy = handle
      BY DEF KInv, Transfers, Active
    <2>2. V \in Nat
      BY TestCalls
    <2>3. Referenced
      BY <2>1, <2>2 DEF KInv, Position
    <2>4. Bound
      BY <2>1, <2>3, QuietPhases
    <2> QED
      BY <2>1, <2>4 DEF Bound, Holds, Buffers
  <1> QED
    BY <1>1, IInvInvariant, PTL

(* BIND_DMA sets fill and drain back when no transfer, completion or       *)
(* handler of an earlier program is under way.                             *)
THEOREM Kyouko2BindFindsIdle == Spec => []BindFindsIdle
  <1>1. IInv => BindFindsIdle
    <2> SUFFICES ASSUME KInv, drv = "driver", todo # <<>>, Head(todo) = "reset"
                 PROVE  ~ Active
      BY DEF BindFindsIdle, Step, Active, IInv
    <2>1. ~ Bound
      BY Heads DEF Harmless
    <2>2. ~ ReleasingAll
      <3> SUFFICES ASSUME NEW n \in 1 .. 7, todo = Last(driver_full_release, n)
                   PROVE  FALSE
        BY DEF ReleasingAll
      <3>1. LET s == Head(todo) IN
              /\ (n = 7 => s = "irq_off") /\ (n = 6 => s = "free_irq")
              /\ (n = 5 => s = "msi_off") /\ (n = 4 => s = "free")
              /\ (n = 3 => s = "unmapped") /\ (n = 2 => s = "reboot")
              /\ (n = 1 => s = "iounmap")
        BY FullReleaseSteps
      <3> QED
        BY <3>1
    <2> QED
      BY <2>1, <2>2, QuietPhases
  <1> QED
    BY <1>1, IInvInvariant, PTL
=============================================================================
