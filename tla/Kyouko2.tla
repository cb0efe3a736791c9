-------------------------------- MODULE Kyouko2 --------------------------------
(***************************************************************************)
(* The life of the Kyouko2 drivers: module load and unload, open and       *)
(* release, the ioctls, and the resources these acquire and give back (the *)
(* register window, the DMA buffers, the interrupt), against the card, the *)
(* interrupt handler and a user process.                                   *)
(*                                                                         *)
(* Five drivers share one shape.  What a driver does in a call is data: a  *)
(* sequence of steps, executed one at a time, between which the handler,   *)
(* the card and the loader run.  A step is one kernel call or a run of     *)
(* register writes.                                                        *)
(*                                                                         *)
(* The buffers of one BIND_DMA are allocated and freed together, and so    *)
(* are the two windows of one open: a number, counting up, stands for each *)
(* set, and 0 for none.  The ring is the number of its full slots, which   *)
(* DmaRefinement shows to be enough for one caller.                        *)
(*                                                                         *)
(* A program may open the device before the card is probed; what it then   *)
(* maps is not the card, and a step that needs the card kills it (Fault).  *)
(* The kernel closes what a program that dies has open, and never what a   *)
(* call of open or release was at.                                         *)
(*                                                                         *)
(* Left out: what mode setting draws, the depth of the card's FIFO (sync   *)
(* ends), and the addresses handed to user space.                          *)
(***************************************************************************)
EXTENDS Integers, Sequences, FiniteSets

CONSTANTS
    BUFFERS,    \* slots of the ring
    Scenarios,  \* pairs of a driver and a kind of user program
    Faults,     \* the kernel calls that may fail
    MaxOpens,   \* bound: opens in a behaviour
    Rounds      \* rounds of FLUSH and START_DMA in a test program

Drivers == {"dmaBuffer", "driver", "drawLineTriangle", "contact", "launch"}
Clients == {"any", "test"}

ASSUME BuffersAssumption == BUFFERS \in Nat \ {0, 1}
ASSUME ScenariosAssumption == Scenarios \subseteq Drivers \X Clients
ASSUME FaultsAssumption ==
    Faults \subseteq {"cdev_add", "pci_register", "no_device", "pci_enable",
                      "ioremap", "alloc", "request_irq"}
ASSUME BoundsAssumption == MaxOpens \in Nat /\ Rounds \in Nat

VARIABLES
    drv, client,            \* the scenario
    module, ldr,            \* the module's state; what is left to load or unload
    cdev, pcidrv,           \* registrations
    probed, enabled,        \* p_pci_dev is set; pci_enable_device was called
    base, maps,             \* k_control_base; the windows that are mapped
    dud,                    \* values of base behind which there is no card
    handle, bufs,           \* dma_handle; the buffers that are allocated
    hooks, msi,             \* handlers hooked to the interrupt; MSI
    dma_mapped,             \* driver.c only
    queued,                 \* full slots of the ring
    fd, vmas, bound,        \* the user's descriptor, mappings, BIND_DMA done
    todo,                   \* the steps left of the current call
    opens, at,              \* opens so far; calls of the test program made
    ie, busy, status,       \* card: interrupt enable, buffers in transfer,
                            \* status bit
    irqpc,                  \* where the interrupt handler is
    damage                  \* what programs that died in the driver have left

scenario == <<drv, client>>
loader   == <<module, ldr, cdev, pcidrv, probed, enabled>>
windows  == <<base, maps, dud>>
owned    == <<windows, handle, bufs, hooks, msi, dma_mapped>>
user     == <<fd, vmas, bound, opens, at>>
card     == <<ie, busy, status>>
vars     == <<scenario, loader, owned, queued, user, todo, card, irqpc, damage>>

Idle    == -1   \* busy: no transfer
CONTROL == -1   \* vmas: the register window, and the card's memory
RAM     == -2

-----------------------------------------------------------------------------
(* What the drivers do, call by call.  A call that begins with a test of   *)
(* dma_mapped is chosen by it; nothing else changes it meanwhile.          *)

(* dmaBuffer.c *)
dmaBuffer_open       == <<"ioremap">>
dmaBuffer_release    == <<"reboot", "iounmap", "irq_off", "free_irq", "msi_off",
                          "free">>
dmaBuffer_graphicsOn == <<"write", "sync", "write">>
dmaBuffer_vmodeOff   == <<"sync", "reboot">>
dmaBuffer_bind       == <<"alloc", "reset", "msi_on", "request_irq", "ack",
                          "irq_on">>
dmaBuffer_fops ==
    [open |-> dmaBuffer_open, release |-> dmaBuffer_release,
     vmodeOn |-> dmaBuffer_graphicsOn, vmodeOff |-> dmaBuffer_vmodeOff,
     sync |-> <<"sync">>, bind |-> dmaBuffer_bind, start |-> <<"start">>,
     flush |-> <<"write">>]
dmaBuffer_exit == <<"pci_unregister", "cdev_del">>

(* driver.c *)
driver_open == <<"ioremap">>

(* Mutants: the window goes before the card is rebooted; the card is not   *)
(* rebooted; the handler stays hooked; dma_mapped is not reset; the        *)
(* handler goes while interrupts are on.                                   *)
ReleaseInOrder(steps) == IF dma_mapped THEN steps ELSE <<"iounmap">>
ReleaseUnmapsFirst == ReleaseInOrder(
    <<"irq_off", "free_irq", "msi_off", "free", "unmapped", "iounmap", "reboot">>)
ReleaseWithoutReboot == ReleaseInOrder(
    <<"irq_off", "free_irq", "msi_off", "free", "unmapped", "iounmap">>)
ReleaseKeepsIrq == ReleaseInOrder(
    <<"irq_off", "msi_off", "free", "unmapped", "reboot", "iounmap">>)
ReleaseStaysMapped == ReleaseInOrder(
    <<"irq_off", "free_irq", "msi_off", "free", "reboot", "iounmap">>)
ReleaseFreesIrqFirst == ReleaseInOrder(
    <<"free_irq", "irq_off", "msi_off", "free", "unmapped", "reboot", "iounmap">>)

driver_release ==
    IF dma_mapped
      THEN <<"irq_off", "free_irq", "msi_off", "free", "unmapped", "reboot",
             "iounmap">>
      ELSE <<"iounmap">>
driver_vmodeOn == <<"write", "sync", "write", "sync", "write">>

(* Mutant: graphics mode ends with transfers under way. *)
VmodeOffAtOnce == <<"sync">>

driver_vmodeOff == IF dma_mapped THEN <<"sync", "drain">>
                                 ELSE <<"sync", "reboot">>
driver_bind == <<"alloc", "mapped", "reset", "msi_on", "request_irq", "ack",
                 "irq_on">>
driver_start == IF dma_mapped THEN <<"start">> ELSE <<>>
driver_fops ==
    [open |-> driver_open, release |-> driver_release,
     vmodeOn |-> driver_vmodeOn, vmodeOff |-> driver_vmodeOff,
     sync |-> <<"sync">>, bind |-> driver_bind, start |-> driver_start,
     flush |-> <<"write">>]
driver_exit == <<"pci_unregister", "cdev_del">>

(* drawLineTriangle.c *)
drawLineTriangle_open       == <<"read", "ioremap">>
drawLineTriangle_release    == <<"reboot", "iounmap">>
drawLineTriangle_graphicsOn == <<"write", "sync", "write">>
drawLineTriangle_fops ==
    [open |-> drawLineTriangle_open, release |-> drawLineTriangle_release,
     vmodeOn |-> drawLineTriangle_graphicsOn, vmodeOff |-> <<"sync", "reboot">>,
     sync |-> <<"sync">>]
drawLineTriangle_exit == <<"pci_unregister", "cdev_del">>

(* contactWithGraphicCard.c *)
contact_open    == <<"ioremap">>
contact_release == <<"reboot", "iounmap">>
contact_fops    == [open |-> contact_open, release |-> contact_release]
contact_exit    == <<"pci_disable", "pci_unregister", "cdev_del">>

(* launchModule.c, whose open and release only print. *)
launch_fops == [open |-> <<>>, release |-> <<>>]
launch_exit == <<"cdev_del">>

fops == CASE drv = "dmaBuffer"        -> dmaBuffer_fops
          [] drv = "driver"           -> driver_fops
          [] drv = "drawLineTriangle" -> drawLineTriangle_fops
          [] drv = "contact"          -> contact_fops
          [] drv = "launch"           -> launch_fops

-----------------------------------------------------------------------------
(* Loading.  The steps that follow a step of the init function, when it    *)
(* has succeeded and when it has failed; "fail" returns an error, upon     *)
(* which the kernel drops the module, and nothing is undone.               *)

(* dmaBuffer.c and drawLineTriangle.c: a negative result of                *)
(* pci_register_driver passes for success.                                 *)
dmaBuffer_init ==
    [cdev_add     |-> [ok |-> <<"pci_register">>, error |-> <<"fail">>],
     pci_register |-> [ok |-> <<"pci_enable">>, error |-> <<"pci_enable">>],
     pci_enable   |-> [ok |-> <<"set_master">>, error |-> <<"fail">>],
     set_master   |-> [ok |-> <<>>]]
drawLineTriangle_init ==
    [cdev_add     |-> [ok |-> <<"pci_register">>, error |-> <<"fail">>],
     pci_register |-> [ok |-> <<"pci_enable">>, error |-> <<"pci_enable">>],
     pci_enable   |-> [ok |-> <<"set_master">>, error |-> <<"fail">>],
     set_master   |-> [ok |-> <<>>]]

(* driver.c goes on to pci_set_master in any case. *)
driver_init ==
    [cdev_add     |-> [ok |-> <<"pci_register">>, error |-> <<"fail">>],
     pci_register |-> [ok |-> <<"pci_enable">>, error |-> <<"set_master", "fail">>],
     pci_enable   |-> [ok |-> <<"set_master">>, error |-> <<"set_master", "fail">>],
     set_master   |-> [ok |-> <<>>]]

contact_init ==
    [cdev_add     |-> [ok |-> <<"pci_register">>, error |-> <<"fail">>],
     pci_register |-> [ok |-> <<"pci_enable">>, error |-> <<"fail">>],
     pci_enable   |-> [ok |-> <<"set_master">>, error |-> <<"fail">>],
     set_master   |-> [ok |-> <<>>]]

launch_init == [cdev_add |-> [ok |-> <<>>, error |-> <<"fail">>]]

init_module ==
    CASE drv = "dmaBuffer"        -> dmaBuffer_init
      [] drv = "driver"           -> driver_init
      [] drv = "drawLineTriangle" -> drawLineTriangle_init
      [] drv = "contact"          -> contact_init
      [] drv = "launch"           -> launch_init

cleanup_module ==
    CASE drv = "dmaBuffer"        -> dmaBuffer_exit
      [] drv = "driver"           -> driver_exit
      [] drv = "drawLineTriangle" -> drawLineTriangle_exit
      [] drv = "contact"          -> contact_exit
      [] drv = "launch"           -> launch_exit

Init ==
    /\ \E sc \in Scenarios : drv = sc[1] /\ client = sc[2]
    /\ module = "none" /\ ldr = <<>>
    /\ cdev = FALSE /\ pcidrv = FALSE /\ probed = FALSE /\ enabled = FALSE
    /\ base = 0 /\ maps = {} /\ dud = {} /\ handle = 0 /\ bufs = {}
    /\ hooks = 0 /\ msi = FALSE /\ dma_mapped = FALSE /\ queued = 0
    /\ fd = FALSE /\ vmas = {} /\ bound = FALSE /\ todo = <<>>
    /\ opens = 0 /\ at = 0
    /\ ie = FALSE /\ busy = Idle /\ status = FALSE /\ irqpc = "idle"
    /\ damage = {}

(* insmod: the module's static data is fresh. *)
Insmod ==
    /\ module = "none"
    /\ module' = "loading" /\ ldr' = <<"cdev_add">>
    /\ probed' = FALSE /\ enabled' = FALSE
    /\ base' = 0 /\ handle' = 0 /\ dma_mapped' = FALSE /\ queued' = 0
    /\ UNCHANGED <<scenario, cdev, pcidrv, maps, dud, bufs, hooks, msi, user, todo,
                   card, irqpc, damage>>

(* One step of the init function.  Registering the PCI driver probes the   *)
(* card, if there is one; enabling or mastering a device that was not      *)
(* probed dereferences a null pointer, which kills the loader; the module  *)
(* stays, neither loaded nor dropped.                                      *)
Load(ok) ==
    /\ module = "loading" /\ ldr # <<>> /\ Head(ldr) # "fail"
    /\ LET s == Head(ldr)
           oops == s \in {"pci_enable", "set_master"} /\ ~ probed
       IN  /\ ok \/ (s \in Faults /\ ~ oops)
           /\ ldr' = IF oops THEN <<>>
                     ELSE (IF ok THEN init_module[s].ok ELSE init_module[s].error)
                          \o (IF ok THEN Tail(ldr) ELSE <<>>)
           /\ module' = IF oops THEN "oops" ELSE module
           /\ cdev' = (cdev \/ (ok /\ s = "cdev_add"))
           /\ pcidrv' = (pcidrv \/ (ok /\ s = "pci_register"))
           /\ IF ok /\ s = "pci_register"
                THEN probed' \in {TRUE} \cup (IF "no_device" \in Faults
                                                THEN {probed} ELSE {})
                ELSE UNCHANGED probed
           /\ enabled' = (enabled \/ (ok /\ ~ oops /\ s = "pci_enable"))
    /\ UNCHANGED <<scenario, owned, queued, user, todo, card, irqpc, damage>>

Loaded ==
    /\ module = "loading" /\ ldr \in {<<>>, <<"fail">>}
    /\ module' = IF ldr = <<>> THEN "live" ELSE "failed"
    /\ ldr' = <<>>
    /\ UNCHANGED <<scenario, cdev, pcidrv, probed, enabled, owned, queued,
                   user, todo, card, irqpc, damage>>

(* rmmod, refused while the device is open. *)
Rmmod ==
    /\ module = "live" /\ ~ fd /\ vmas = {} /\ todo = <<>>
    /\ "pinned" \notin damage
    /\ module' = "going" /\ ldr' = cleanup_module
    /\ UNCHANGED <<scenario, cdev, pcidrv, probed, enabled, owned, queued,
                   user, todo, card, irqpc, damage>>

Unload ==
    /\ module = "going"
    /\ LET s == IF ldr = <<>> THEN "done" ELSE Head(ldr)
       IN  /\ cdev' = (cdev /\ s # "cdev_del")
           /\ pcidrv' = (pcidrv /\ s # "pci_unregister")
           /\ enabled' = (enabled /\ s # "pci_disable")
           /\ module' = IF s = "done" THEN "none" ELSE "going"
           /\ ldr' = IF s = "done" THEN <<>> ELSE Tail(ldr)
    /\ UNCHANGED <<scenario, probed, owned, queued, user, todo, card,
                   irqpc, damage>>

-----------------------------------------------------------------------------
(* The user process.  The test programs of the repository make the calls   *)
(* below; any other opens the device, calls what it likes, and leaves.     *)
Rounds2 == [i \in 1 .. 2 * Rounds |-> IF i % 2 = 1 THEN "flush" ELSE "start"]
testdmaBuffer ==
    <<"open", "vmodeOn", "sync", "bind">> \o Rounds2
    \o <<"vmodeOff", "close", "exit">>
testdrawLineTriangle ==
    <<"open", "mmap", "mmap", "vmodeOn", "sync", "sync", "sync", "sync", "sync",
      "vmodeOff", "close", "exit">>
testcontactWithGraphicCard == <<"open", "mmap", "close", "exit">>
testlaunchModule == <<"open", "close", "exit">>

test == CASE drv \in {"dmaBuffer", "driver"} -> testdmaBuffer
          [] drv = "drawLineTriangle"        -> testdrawLineTriangle
          [] drv = "contact"                 -> testcontactWithGraphicCard
          [] drv = "launch"                  -> testlaunchModule

(* The process is in user mode and its program calls c next. *)
Turn(c) == todo = <<>> /\ (client = "test" => test[at + 1] = c)
Advance == at' = IF client = "test" /\ at + 1 < Len(test) THEN at + 1 ELSE 0

(* Enter call c of the driver. *)
Enter(c) == todo' = fops[c]

(* The last reference to the file is gone: the driver's release runs. *)
LastReference(d, m) ==
    IF d \/ m # {} THEN UNCHANGED todo ELSE Enter("release")

(* A module that is being loaded can be used already, and so can one whose *)
(* loader has died.                                                        *)
Open ==
    /\ Turn("open") /\ ~ fd /\ vmas = {} /\ opens < MaxOpens
    /\ cdev /\ module \in {"live", "loading", "oops"}
    /\ fd' = TRUE /\ bound' = FALSE /\ opens' = opens + 1 /\ Advance
    /\ Enter("open")
    /\ UNCHANGED <<scenario, loader, owned, queued, vmas, card, irqpc, damage>>

(* An ioctl.  A program binds the buffers at most once. *)
Ioctl(c) ==
    /\ Turn(c) /\ fd /\ c \in DOMAIN fops
    /\ c = "bind" => ~ bound
    /\ bound' = (bound \/ c = "bind") /\ Advance
    /\ Enter(c)
    /\ UNCHANGED <<scenario, loader, owned, queued, fd, vmas, opens, card, irqpc,
                   damage>>

(* What an offset of mmap selects: the registers, the card's memory, or    *)
(* the buffers.  driver.c lets only root map, and nothing maps in          *)
(* launchModule.c.                                                         *)
dmaBuffer_mmap == {CONTROL, RAM, handle}
driver_mmap(root) == IF root THEN {CONTROL, RAM, handle} ELSE {}
drawLineTriangle_mmap == {CONTROL, RAM}
contact_mmap == {CONTROL}
kyouko2_mmap(root) ==
    CASE drv = "dmaBuffer"        -> dmaBuffer_mmap
      [] drv = "driver"           -> driver_mmap(root)
      [] drv = "drawLineTriangle" -> drawLineTriangle_mmap
      [] drv = "contact"          -> contact_mmap
      [] drv = "launch"           -> {}

(* The program maps the registers or the card's memory itself. *)
Mmap ==
    /\ Turn("mmap") /\ fd
    /\ Advance
    /\ \E root \in BOOLEAN, m \in {CONTROL, RAM} :
           vmas' = IF m \in kyouko2_mmap(root) THEN vmas \cup {m} ELSE vmas
    /\ UNCHANGED <<scenario, loader, owned, queued, fd, bound, opens, todo,
                   card, irqpc, damage>>

(* close(2); a mapping of the file keeps it open until the process exits. *)
Close ==
    /\ Turn("close") /\ fd
    /\ fd' = FALSE /\ Advance
    /\ LastReference(FALSE, vmas)
    /\ UNCHANGED <<scenario, loader, owned, queued, vmas, bound, opens, card,
                   irqpc, damage>>

Exit ==
    /\ Turn("exit") /\ (fd \/ vmas # {} \/ client = "test")
    /\ fd' = FALSE /\ vmas' = {} /\ Advance
    /\ IF fd \/ vmas # {} THEN Enter("release") ELSE UNCHANGED todo
    /\ UNCHANGED <<scenario, loader, owned, queued, bound, opens, card, irqpc,
                   damage>>

-----------------------------------------------------------------------------
(* The steps of a call. *)
Step(s) == todo # <<>> /\ Head(todo) = s
Then(rest) == todo' = rest /\ UNCHANGED <<scenario, loader, user, damage>>
Done == Then(Tail(todo))

(* The next step of the call reads or writes a register. *)
Touches ==
    todo # <<>> /\ \/ Head(todo) \in {"read", "write", "sync", "reboot", "ack",
                                      "irq_on", "irq_off"}
                   \/ Head(todo) = "start" /\ queued = 0

Mapped  == base \in maps
Reaches == Mapped /\ base \notin dud

(* Whether an access through k_control_base arrives at the card.  One      *)
(* through a window that is gone may still hit (the translation was        *)
(* cached), miss, or fault; one through a null pointer faults, unless the  *)
(* compiler has dropped it, as it may the read in drawLineTriangle.c.      *)
Arrives == IF Mapped THEN {Reaches}
           ELSE IF base # 0 THEN {FALSE, base \notin dud}
           ELSE IF Step("read") THEN {FALSE} ELSE {}

(* What the card makes of a register write.  Rebooting drops the transfer  *)
(* and the configuration.                                                  *)
Write(i, b, s) ==
    \E arrives \in Arrives : IF arrives THEN ie' = i /\ busy' = b /\ status' = s
                                        ELSE UNCHANGED card

Registers ==
    /\ \/ \E s \in {"read", "write", "sync"} : Step(s) /\ Write(ie, busy, status)
       \/ Step("reboot")  /\ Write(FALSE, Idle, FALSE)
       \/ Step("ack")     /\ Write(ie, busy, FALSE)
       \/ Step("irq_on")  /\ Write(TRUE, busy, status)
       \/ Step("irq_off") /\ Write(FALSE, busy, status)
    /\ Done /\ UNCHANGED <<owned, queued, irqpc>>

(* The physical address is 0 until the probe has set it.  A mapping that   *)
(* fails gives a null pointer, which nobody tests.                         *)
Ioremap ==
    /\ Step("ioremap")
    /\ \/ /\ base' = opens /\ maps' = maps \cup {opens}
          /\ dud' = dud \cup (IF probed THEN {} ELSE {opens})
       \/ /\ "ioremap" \in Faults
          /\ base' = 0 /\ dud' = dud \cup {0} /\ UNCHANGED maps
    /\ Done
    /\ UNCHANGED <<handle, bufs, hooks, msi, dma_mapped, queued, card, irqpc>>

Iounmap ==
    /\ Step("iounmap")
    /\ maps' = maps \ {base}
    /\ Done
    /\ UNCHANGED <<base, dud, handle, bufs, hooks, msi, dma_mapped, queued, card,
                   irqpc>>

(* pci_alloc_consistent, which needs no device, and do_mmap for every      *)
(* slot.  When they fail the failure is printed, and what was in           *)
(* dma_handle before is used.                                              *)
Alloc ==
    /\ Step("alloc")
    /\ \/ handle' = opens /\ bufs' = bufs \cup {opens}
       \/ "alloc" \in Faults /\ UNCHANGED <<handle, bufs>>
    /\ \E root \in BOOLEAN :
           vmas' = IF handle \in kyouko2_mmap(root) THEN vmas \cup {handle'}
                                                    ELSE vmas
    /\ todo' = Tail(todo)
    /\ UNCHANGED <<scenario, loader, windows, hooks, msi, dma_mapped, queued,
                   fd, bound, opens, at, card, irqpc, damage>>

Free ==
    /\ Step("free")
    /\ bufs' = bufs \ {handle}
    /\ Done
    /\ UNCHANGED <<windows, handle, hooks, msi, dma_mapped, queued, card, irqpc>>

(* With every isFull cleared by the step before: fill = drain = 0. *)
Reset ==
    /\ Step("reset") /\ queued' = 0
    /\ Done /\ UNCHANGED <<owned, card, irqpc>>

SetMapped ==
    /\ \E s \in {"mapped", "unmapped"} : Step(s) /\ dma_mapped' = (s = "mapped")
    /\ Done
    /\ UNCHANGED <<windows, handle, bufs, hooks, msi, queued, card, irqpc>>

(* Without a device MSI is not enabled, if that is all that happens; what  *)
(* comes before msi_off has found the device.                              *)
Msi ==
    /\ \/ Step("msi_on") /\ msi' = (probed \/ msi)
       \/ Step("msi_off") /\ msi' = FALSE
    /\ Done
    /\ UNCHANGED <<windows, handle, bufs, hooks, dma_mapped, queued, card, irqpc>>

(* The number of the interrupt is that of the device. *)
RequestIrq ==
    /\ Step("request_irq") /\ probed
    /\ hooks' \in {hooks + 1} \cup (IF "request_irq" \in Faults THEN {hooks} ELSE {})
    /\ Done
    /\ UNCHANGED <<windows, handle, bufs, msi, dma_mapped, queued, card, irqpc>>

(* free_irq waits for a handler that runs; of a handler that is not hooked *)
(* it only warns.                                                          *)
FreeIrq ==
    /\ Step("free_irq") /\ probed /\ irqpc = "idle"
    /\ hooks' = IF hooks = 0 THEN 0 ELSE hooks - 1
    /\ Done
    /\ UNCHANGED <<windows, handle, bufs, msi, dma_mapped, queued, card, irqpc>>

(* A register without a window, or the device before the probe: the        *)
(* program dies.  It leaves the device as Exit does, so that release runs, *)
(* unless it was in open or release: then the file is never put, which     *)
(* pins the module.  In START_DMA it held the lock.                        *)
Fault ==
    /\ \/ Touches /\ ~ Mapped
       \/ \E s \in {"msi_on", "request_irq", "free_irq"} : Step(s) /\ ~ probed
    /\ LET inIoctl == fd /\ ~ Step("read") IN
       /\ IF inIoctl THEN Enter("release") ELSE todo' = <<>>
       /\ damage' = damage \cup {"died"}
                    \cup (IF inIoctl THEN {} ELSE {"pinned"})
                    \cup (IF Step("start") THEN {"locked"} ELSE {})
    /\ fd' = FALSE /\ vmas' = {} /\ at' = 0
    /\ UNCHANGED <<scenario, loader, owned, queued, bound, opens, card, irqpc>>

(* The end of graphics mode in driver.c waits until every slot is empty. *)
Drain ==
    /\ Step("drain") /\ queued = 0
    /\ Done /\ UNCHANGED <<owned, queued, card, irqpc>>

(* The lock of the ring was not left held. *)
LockFree == "locked" \notin damage

(* initiateTransfer, as in DmaRing: queue the request, start the card when *)
(* the ring was empty, wait when it is full.                               *)
initiateTransfer ==
    /\ Step("start") /\ LockFree
    /\ IF queued = BUFFERS
         THEN Then(<<"wait">> \o Tail(todo)) /\ UNCHANGED <<queued, card>>
         ELSE /\ queued' = queued + 1
              /\ IF queued = 0 THEN Write(ie, handle, status)
                               ELSE UNCHANGED card
              /\ Done
    /\ UNCHANGED <<owned, irqpc>>

WokenUp ==
    /\ Step("wait") /\ queued < BUFFERS /\ LockFree
    /\ queued' = queued + 1
    /\ Done /\ UNCHANGED <<owned, card, irqpc>>

-----------------------------------------------------------------------------
(* The card ends a transfer. *)
CardDone ==
    /\ busy # Idle
    /\ busy' = Idle /\ status' = TRUE
    /\ UNCHANGED <<scenario, loader, owned, queued, user, todo, ie, irqpc, damage>>

(* The interrupt is raised: dma_interrupt reads and clears the status ... *)
Interrupt ==
    /\ hooks > 0 /\ ie /\ status /\ irqpc = "idle"
    /\ irqpc' = "lock"
    /\ Write(ie, busy, FALSE)
    /\ UNCHANGED <<scenario, loader, owned, queued, user, todo, damage>>

(* ... and under the lock retires a slot and starts the next. *)
dma_interrupt ==
    /\ irqpc = "lock" /\ irqpc' = "idle" /\ LockFree
    /\ queued' = IF queued = 0 THEN 0 ELSE queued - 1
    /\ Write(ie, IF queued > 1 THEN handle ELSE busy, status)
    /\ UNCHANGED <<scenario, loader, owned, user, todo, damage>>

-----------------------------------------------------------------------------
System == Insmod \/ (\E ok \in BOOLEAN : Load(ok)) \/ Loaded \/ Rmmod \/ Unload
Calls  == Open \/ (\E c \in DOMAIN fops \ {"open", "release"} : Ioctl(c))
               \/ Mmap \/ Close \/ Exit
Steps  == \/ Registers \/ Ioremap \/ Iounmap \/ Alloc \/ Free \/ Reset
          \/ SetMapped \/ Msi \/ RequestIrq \/ FreeIrq \/ Drain
          \/ initiateTransfer \/ WokenUp
          \/ Fault

Next == System \/ Calls \/ Steps \/ CardDone \/ Interrupt \/ dma_interrupt

Spec == Init /\ [][Next]_vars

-----------------------------------------------------------------------------
(* A program died in open or release: release has not run to its end, and *)
(* what the driver's variables say may not be so.                          *)
Wrecked == "pinned" \in damage

(* So far every program has opened the device after the probe, its windows *)
(* were mapped, and none has left a wreck.                                 *)
Sound == dud = {} /\ ~ Wrecked

(* No register is touched but through a window that shows the registers    *)
(* and is still there: not by a call, and not by the handler, which on a   *)
(* shared line may run whenever it is hooked.                              *)
TouchesMapped == Touches \/ hooks > 0 => Reaches

(* ... in driver.c and contactWithGraphicCard.c, in whatever order a       *)
(* program makes its calls, as long as every program has found the card    *)
(* (release: INTERRUPT off, free_irq, REBOOT, and only then iounmap).      *)
NoStaleAccess == drv \in {"driver", "contact"} /\ dud = {} => TouchesMapped

(* In these drivers, and in launchModule.c, nobody dies of a null pointer  *)
(* or of a window that is gone unless some program opened the device       *)
(* before the probe, or a mapping failed: not of START_DMA without         *)
(* BIND_DMA, and not in a release without it.                              *)
OnlyBlindDie == drv \in {"driver", "contact", "launch"} /\ damage # {} => dud # {}

(* What open and BIND_DMA acquire, release gives back: when the last       *)
(* reference to the device is gone and release has run to its end, no      *)
(* window, buffer, handler or MSI is left, also of a program that died in  *)
(* the middle of BIND_DMA because the card was not probed yet.             *)
NothingLeaks ==
    ~ fd /\ vmas = {} /\ todo = <<>> /\ ~ Wrecked =>
        maps = {} /\ bufs = {} /\ hooks = 0 /\ ~ msi

(* Nothing is given back twice, and nothing that was never acquired: in    *)
(* driver.c dma_mapped decides, over any number of programs of which some  *)
(* bind buffers and some do not, as long as every program has found the    *)
(* card: BIND_DMA sets it before it acquires the interrupt, so that one    *)
(* that dies in between has the interrupt freed all the same.              *)
(* (dmaBuffer.c frees the buffers of an earlier program when one opens and *)
(* leaves without BIND_DMA.)                                               *)
GivesBackOnce ==
    Sound => /\ Step("iounmap") => base \in maps
             /\ drv = "driver" => /\ Step("free") => handle \in bufs
                                  /\ Step("free_irq") => hooks > 0
                                  /\ Step("msi_off") => msi

(* The card's interrupt is enabled only while the handler is hooked, in    *)
(* BIND_DMA and release, and across VMODE and a reboot.                    *)
HandlerHooked == ie => hooks > 0

(* driver.c waits at the end of graphics mode until every slot is empty,   *)
(* so that the card never reads a buffer that release has freed -- if the  *)
(* program ends graphics mode before it leaves, as testdmaBuffer.c does.   *)
CardReadsLive ==
    drv = "driver" /\ client = "test" => busy \in bufs \cup {Idle}

(* BIND_DMA sets fill and drain back to 0 without the lock; no transfer,   *)
(* completion or handler of an earlier program is then under way.          *)
BindFindsIdle ==
    drv = "driver" /\ ~ Wrecked /\ Step("reset") =>
        busy = Idle /\ ~ status /\ irqpc = "idle"
=============================================================================
