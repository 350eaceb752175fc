----------------------------- MODULE DriverLife -----------------------------
(***************************************************************************)
(* The life of a device in the kernel module: loading, probe, the device   *)
(* nodes, interrupts and file accesses meanwhile, removal, unloading.      *)
(*                                                                         *)
(* Probe and remove are lists of steps.  What a step acquires is in `got`  *)
(* until a step gives it back.  The interrupt handler runs on another      *)
(* processor between any two steps, and so does a process in one of the    *)
(* accelerator's files.                                                    *)
(*                                                                         *)
(* Following a null pointer, or an error pointer, stops the kernel; using  *)
(* freed memory may stop it or may pass unnoticed (MayCrash).              *)
(*                                                                         *)
(* External, modelled from how the drivers use them: the driver core       *)
(* clears drvdata after a failed probe and after remove; device_del and    *)
(* free_irq wait for accesses and handlers in progress; managed (devm_)    *)
(* resources go in the reverse order of their acquisition, after probe     *)
(* failed or remove returned; the interrupt controller keeps its line high *)
(* while an enabled interrupt is pending; an MSI is one message at the     *)
(* line's rising edge, the Zynq's interrupt lasts as long as the line.     *)
(***************************************************************************)
EXTENDS Naturals, Sequences

CONSTANT Platforms \* the module built: "pci", "zynq"

ASSUME PlatformAssumption == Platforms \subseteq {"pci", "zynq"}

VARIABLES
  plat,    \* the platform
  reconf,  \* juniper_pci_is_reconfigurable
  loaded,  \* the module is in the kernel
  class,   \* juniper_class, juniper_accel_class: "none", "made", "error"
  driver,  \* the driver is registered
  phase,   \* of the device: unbound, probing, failing, bound, removing
  todo,    \* steps left of the phase
  got,     \* what is held
  failed,  \* history: a probe of the PCI driver has failed
  ran,     \* history: accelerators could be started
  pend,    \* the controller: accelerator 0's interrupt is pending
  enabled, \* the controller: IER and MER are set
  msg,     \* an MSI is under way
  missed,  \* history: the line is high and its interrupt came to nothing
  flag,    \* accel_data->interrupted
  ipc,     \* the interrupt handler: out, id, find, flag, ack
  fpc,     \* a process in a file of the accelerator: out, use
  crashed  \* who stopped the kernel: no, probe, remove, exit, irq, file

modVars == <<loaded, class, driver>>
devVars == <<phase, todo, got, failed, ran>>
irqVars == <<pend, enabled, msg, missed, flag, ipc>>
lifeVars == <<plat, reconf, modVars, devVars, irqVars, fpc, crashed>>

-----------------------------------------------------------------------------
(* The steps.  A step named in Checks holds nothing afterwards.             *)

Checks == {"flags", "mask", "setup", "memres", "periphres", "irqno", "init",
           "uio_unreg"}

PciProbe ==
  <<"pd", "extern", "drvdata", "enable", "flags", "regions", "mem", "periph",
    "master", "msi", "irq", "mask", "pages", "dma", "setup">>

ZynqProbe ==
  <<"memres", "periphres", "mem", "periph", "irqno", "extern", "irq",
    "uio_reg", "uio", "drvdata">>

Optional(s) == IF reconf THEN <<s>> ELSE <<>>

\* juniper_sysfs_new_device, for the one accelerator that get_cores() reports.
NodeSteps ==
  <<"fpga_data", "fpga">> \o Optional("config_file") \o
  <<"init", "accel_data", "accel", "files">> \o Optional("hold_files") \o
  <<"mem_file">>

ProbeSteps == (IF plat = "pci" THEN PciProbe ELSE ZynqProbe) \o NodeSteps

\* juniper_sysfs_lost_device: of each node the data is freed (_data), the
\* pointer to it cleared (_ptr) and the node deleted, innermost first.
LostSteps ==
  <<"accel_data", "accel_ptr", "mem_file", "accel",
    "fpga_data", "fpga_ptr", "config_file", "fpga">>

\* A mistake: the registers are unmapped before the IRQ is freed.
PciRemove_UnmapFirst ==
  <<"dma", "pages", "periph", "mem", "irq", "msi", "master", "regions",
    "extern", "pd", "enable">>

\* What remains after lost_device_callback.
PciRemove ==
  <<"dma", "pages", "irq", "msi", "master", "periph", "mem", "regions",
    "extern", "pd", "enable">>

\* The children of the platform device include the UIO node.
ZynqRemove == <<"uio_unreg", "uio_reg", "extern">>

Devres == <<"irq", "periph", "mem">>

RemoveSteps ==
  IF plat = "pci" THEN LostSteps \o PciRemove
  ELSE <<"uio_data", "uio">> \o LostSteps \o ZynqRemove \o Devres

\* A mistake: the label err_uio_reg forgets the juniper_device.
ErrSteps_NoDevice(r) ==
  CASE r = "uio" -> <<"uio_reg">>
    [] r \in {"uio_reg", "irq"} -> <<"extern">>
    [] OTHER -> <<>>

\* The labels at the end of the Zynq probe, from the one r's failure jumps to.
ErrSteps(r) ==
  CASE r = "uio" -> <<"uio_reg", "extern">>
    [] r \in {"uio_reg", "irq"} -> <<"extern">>
    [] OTHER -> <<>>

\* What a step that succeeds adds.
Gain(r) ==
  CASE r \in Checks -> {}
    [] r = "uio" -> {"uio", "uio_data"}
    [] r = "fpga" -> {"fpga", "fpga_ptr"}
    [] r = "accel" -> {"accel", "accel_ptr"}
    [] OTHER -> {r}

Held(s) == s \in got

LifeInit ==
  /\ plat \in Platforms
  /\ reconf \in BOOLEAN /\ (plat = "zynq" => reconf)
  /\ loaded = FALSE /\ class = "none" /\ driver = FALSE
  /\ phase = "unbound" /\ todo = <<>> /\ got = {}
  /\ failed = FALSE /\ ran = FALSE
  /\ pend = FALSE /\ enabled = FALSE /\ msg = FALSE /\ missed = FALSE
  /\ flag = FALSE /\ ipc = "out" /\ fpc = "out" /\ crashed = "no"

Crash(who) ==
  crashed' = who /\ UNCHANGED <<plat, reconf, modVars, devVars, irqVars, fpc>>

-----------------------------------------------------------------------------
(* Loading and unloading.                                                   *)

\* class_create returns an error pointer, never 0.
RegisterSysfs == class' \in {"made", "error"}

\* The return value is negative on failure; juniper_init looks for a positive
\* one, and for any value goes on and returns 0.
RegisterDriver == driver' \in BOOLEAN

ModuleInit ==
  /\ ~loaded
  /\ loaded' = TRUE /\ RegisterSysfs /\ RegisterDriver
  /\ UNCHANGED <<plat, reconf, devVars, irqVars, fpc, crashed>>

\* pci_unregister_driver has removed the device.  class_unregister frees the
\* class that class_destroy then unregisters again.
UnregisterSysfs ==
  \/ Crash("exit")
  \/ /\ class = "made"
     /\ loaded' = FALSE /\ class' = "none" /\ driver' = FALSE
     /\ UNCHANGED <<plat, reconf, devVars, irqVars, fpc, crashed>>

ModuleExit == loaded /\ phase = "unbound" /\ UnregisterSysfs

-----------------------------------------------------------------------------
(* Probe.                                                                   *)

Probe ==
  /\ driver /\ phase = "unbound"
  /\ phase' = "probing" /\ todo' = ProbeSteps
  /\ UNCHANGED <<plat, reconf, modVars, got, failed, ran, irqVars, fpc, crashed>>

\* The line rises, or an interrupt waits to be enabled: PCI sends a message
\* if MSI is enabled.
Edge(p, e) ==
  LET rises == p /\ e /\ ~(pend /\ enabled) /\ plat = "pci" IN
  /\ pend' = p /\ enabled' = e
  /\ msg' = (msg \/ (rises /\ Held("msi")))
  /\ missed' = (missed \/ (rises /\ ~Held("msi")))

\* A mistake: the pending interrupt is cleared, its message under way.
InterpInit_Clears == Edge(FALSE, TRUE)

\* juniper_interp_init: IER and MER.
InterpInit == Edge(pend, TRUE)

\* A step of probe succeeds.  The regions of a device belong to one owner.
\* New accelerator data is zeroed.
Acquire ==
  /\ phase = "probing" /\ todo # <<>>
  /\ LET r == Head(todo) IN
     /\ r = "regions" => ~Held(r)
     /\ r \in {"fpga", "accel"} => class = "made"
     /\ got' = got \union Gain(r)
     /\ todo' = Tail(todo)
     /\ flag' = (flag /\ r # "accel_data")
     /\ IF r = "init" THEN InterpInit
        ELSE UNCHANGED <<pend, enabled, msg, missed>>
  /\ UNCHANGED <<plat, reconf, modVars, phase, failed, ran, ipc, fpc, crashed>>

ProbeReturns ==
  /\ phase = "probing" /\ todo = <<>>
  /\ phase' = "bound" /\ ran' = TRUE
  /\ UNCHANGED <<plat, reconf, modVars, todo, got, failed, irqVars, fpc, crashed>>

Infallible == {"drvdata", "master", "setup", "init"}

\* The results of kzalloc are used unchecked, and device_create's error
\* pointers, or a class that is one, are not null.
NodeFails(r) == r \in {"fpga_data", "fpga", "accel_data", "accel"} /\ Crash("probe")

\* Mistakes: new_device reports the failure and goes on; it frees the data of
\* the accelerator's node and leaves the node.
GiveUp_GoesOn    == UNCHANGED <<todo, got>>
GiveUp_FreesData == todo' = <<>> /\ got' = got \ {"accel_data"}

GiveUp == todo' = <<>> /\ UNCHANGED got

\* new_device gives up half way; nobody looks at its result.
FilesFail(r) ==
  /\ r \in {"config_file", "files", "hold_files", "mem_file"}
  /\ phase' = "bound" /\ GiveUp
  /\ ran' = (ran \/ Held("files"))
  /\ UNCHANGED <<plat, reconf, modVars, failed, irqVars, fpc, crashed>>

\* An early return of the PCI probe releases nothing.
PciFails(r) ==
  /\ plat = "pci" /\ r \notin {NodeSteps[i] : i \in DOMAIN NodeSteps}
  /\ phase' = "unbound" /\ todo' = <<>> /\ failed' = TRUE
  /\ got' = got \ {"drvdata"}
  /\ UNCHANGED <<plat, reconf, modVars, ran, irqVars, fpc, crashed>>

\* What is not held yet is in Devres too: giving that back does nothing.
ZynqFails(r) ==
  /\ plat = "zynq" /\ r \notin {NodeSteps[i] : i \in DOMAIN NodeSteps}
  /\ phase' = "failing"
  /\ todo' = ErrSteps(r) \o Devres
  /\ UNCHANGED <<plat, reconf, modVars, got, failed, ran, irqVars, fpc, crashed>>

Fail ==
  /\ phase = "probing" /\ todo # <<>> /\ Head(todo) \notin Infallible
  /\ \/ NodeFails(Head(todo)) \/ FilesFail(Head(todo))
     \/ PciFails(Head(todo))  \/ ZynqFails(Head(todo))

-----------------------------------------------------------------------------
(* Remove, and the end of a failed probe.                                   *)

Remove ==
  /\ phase = "bound"
  /\ phase' = "removing" /\ todo' = RemoveSteps
  /\ UNCHANGED <<plat, reconf, modVars, got, failed, ran, irqVars, fpc, crashed>>

\* lost_device_iter asks the freed FPGA data for its device, to decide about
\* config_file; uio_unregister_device works on the data that went with uio.
UsesFreed(r) == r \in {"config_file", "uio_unreg"}

\* device_for_each_child finds no node to free where none was made.
Release ==
  /\ phase \in {"removing", "failing"} /\ todo # <<>>
  /\ LET r == Head(todo) IN
     /\ r = "irq" => ipc = "out"
     /\ r = "accel" => fpc = "out"
     /\ got' = got \ (IF r = "accel" THEN {"accel", "files", "hold_files"} ELSE {r})
     /\ todo' = Tail(todo)
  /\ UNCHANGED <<plat, reconf, modVars, phase, failed, ran, irqVars, fpc, crashed>>

ReleaseCrashes ==
  /\ phase = "removing" /\ todo # <<>> /\ UsesFreed(Head(todo))
  /\ Head(todo) = "config_file" => Held("fpga")
  /\ Crash("remove")

RemoveReturns ==
  /\ phase \in {"removing", "failing"} /\ todo = <<>>
  /\ phase' = "unbound" /\ got' = got \ {"drvdata"}
  /\ UNCHANGED <<plat, reconf, modVars, todo, failed, ran, irqVars, fpc, crashed>>

-----------------------------------------------------------------------------
(* The interrupt.                                                           *)

Line == pend /\ enabled

\* An accelerator that was started raises its interrupt, bound or not.
Raise ==
  /\ ran /\ ~pend /\ Edge(TRUE, enabled)
  /\ UNCHANGED <<plat, reconf, modVars, devVars, flag, ipc, fpc, crashed>>

\* A message that finds no handler is dropped.
MessageDropped ==
  /\ msg /\ ~Held("irq")
  /\ msg' = FALSE /\ missed' = TRUE
  /\ UNCHANGED <<plat, reconf, modVars, devVars, pend, enabled, flag, ipc, fpc, crashed>>

Goto(l) == ipc' = l /\ UNCHANGED <<plat, reconf, modVars, devVars, fpc, crashed>>

IrqEnter ==
  /\ ipc = "out" /\ Held("irq")
  /\ IF plat = "pci" THEN msg ELSE Line
  /\ Goto("id") /\ msg' = FALSE
  /\ UNCHANGED <<pend, enabled, missed, flag>>

\* The handler gives up without acknowledging the interrupt.
Abandon ==
  /\ Goto("out") /\ missed' = (plat = "pci")
  /\ UNCHANGED <<pend, enabled, msg, flag>>

\* The step needs the pointers in ptrs, and the memory in data.
Needs(ptrs, data, next) ==
  \/ ptrs \subseteq got /\ next
  \/ ~(ptrs \union data \subseteq got) /\ Crash("irq")

\* PCI takes the device's drvdata for the FPGA's (their first fields agree);
\* the Zynq looks for the FPGA node first.
IrqId ==
  /\ ipc = "id"
  /\ LET next == Goto("find") /\ UNCHANGED <<pend, enabled, msg, missed, flag>>
     IN \/ plat = "pci" /\ Needs({"drvdata"}, {"pd", "extern"}, next)
        \/ plat = "zynq" /\ ~Held("fpga") /\ Abandon
        \/ plat = "zynq" /\ Held("fpga")
           /\ Needs({"fpga_ptr"}, {"fpga_data", "extern"}, next)

\* The child, then the accelerator below it: without a check for none, or
\* for one whose data is gone.
IrqFind ==
  /\ ipc = "find"
  /\ \/ plat = "pci" /\ ~Held("fpga") /\ Abandon
     \/ /\ plat = "pci" => Held("fpga")
        /\ Needs({"accel", "accel_ptr"}, {"accel_data"},
                 Goto("flag") /\ UNCHANGED <<pend, enabled, msg, missed, flag>>)

\* A mistake: the flag of another accelerator.
SetFlag_Other == UNCHANGED flag

SetFlag == flag' = (flag \/ Held("accel_data"))

IrqFlag ==
  /\ ipc = "flag"
  /\ Needs({}, {"accel_data"},
           /\ Goto("ack") /\ SetFlag
           /\ UNCHANGED <<pend, enabled, msg, missed>>)

\* A mistake: the bit is not shifted past the reserved interrupt.
Acknowledge_OtherBit == UNCHANGED <<pend, missed>>

Acknowledge == pend' = FALSE /\ missed' = FALSE

IrqAck ==
  /\ ipc = "ack"
  /\ Needs({}, (IF plat = "pci" THEN {"pd"} ELSE {"fpga_data"}) \union {"extern"},
           /\ Goto("out") /\ Acknowledge
           /\ UNCHANGED <<enabled, msg, flag>>)

-----------------------------------------------------------------------------
(* A process reads or writes a file of the accelerator: the node's data is  *)
(* looked up, then followed to the registers.                               *)

FileEnter ==
  /\ fpc = "out" /\ {"accel", "files"} \subseteq got
  /\ \/ Held("accel_ptr") /\ fpc' = "use"
        /\ UNCHANGED <<plat, reconf, modVars, devVars, irqVars, crashed>>
     \/ ~Held("accel_ptr") /\ Crash("file")

FileUse ==
  /\ fpc = "use"
  /\ \/ fpc' = "out"
        /\ UNCHANGED <<plat, reconf, modVars, devVars, irqVars, crashed>>
     \/ ~({"accel_data", "fpga_data", "extern"} \subseteq got) /\ Crash("file")

-----------------------------------------------------------------------------
Handler == IrqEnter \/ IrqId \/ IrqFind \/ IrqFlag \/ IrqAck

LifeNext ==
  /\ crashed = "no"
  /\ \/ ModuleInit \/ ModuleExit
     \/ Probe \/ Acquire \/ Fail \/ ProbeReturns
     \/ Remove \/ Release \/ ReleaseCrashes \/ RemoveReturns
     \/ Raise \/ MessageDropped \/ Handler
     \/ FileEnter \/ FileUse

LifeSpec == LifeInit /\ [][LifeNext]_lifeVars

\* The processor that takes an interrupt runs its handler to the end.
LifeFairSpec == LifeSpec /\ WF_lifeVars((crashed = "no") /\ Handler)

-----------------------------------------------------------------------------
(* Properties.                                                              *)

Steps ==
  Checks \union {"pd", "extern", "drvdata", "enable", "regions", "mem", "periph",
   "master", "msi", "irq", "pages", "dma", "uio_reg", "uio", "uio_data",
   "fpga_data", "fpga_ptr", "fpga", "config_file", "accel_data", "accel_ptr",
   "accel", "files", "hold_files", "mem_file"}

\* Each variable has its type.
LifeTypeOK ==
  /\ plat \in Platforms /\ reconf \in BOOLEAN
  /\ loaded \in BOOLEAN /\ class \in {"none", "made", "error"} /\ driver \in BOOLEAN
  /\ phase \in {"unbound", "probing", "failing", "bound", "removing"}
  /\ todo \in Seq(Steps) /\ got \subseteq Steps
  /\ phase \in {"unbound", "bound"} => todo = <<>>
  /\ failed \in BOOLEAN /\ ran \in BOOLEAN
  /\ pend \in BOOLEAN /\ enabled \in BOOLEAN /\ msg \in BOOLEAN
  /\ missed \in BOOLEAN /\ flag \in BOOLEAN
  /\ ipc \in {"out", "id", "find", "flag", "ack"} /\ fpc \in {"out", "use"}
  /\ crashed \in {"no", "probe", "remove", "exit", "irq", "file"}

\* The handler and a process in a file meet registers that are mapped:
\* whatever probe, its failure or remove are doing at that moment, the nodes
\* and the IRQ are gone before the mappings are (juniper_pci.c:249-258).
RegistersMapped ==
  (ipc # "out" \/ fpc # "out") => {"mem", "periph"} \subseteq got

\* A device that was removed, and a Zynq device whose probe failed, hold
\* nothing any more: each step that acquires has one that releases, on every
\* path.  (The early returns of the PCI probe release nothing; nothing can be
\* said after one of those.)
CleanUnbound == phase = "unbound" /\ ~failed => got = {}

\* No interrupt and no file access stops the kernel on a device whose nodes
\* are all there, whatever happened before; only during probe and remove, or
\* on what a failed probe has left behind.
SteadyIsSafe ==
  /\ crashed = "irq" => phase # "bound" \/ ~Held("accel")
  /\ crashed = "file" => phase = "removing"

\* The handler never reads an empty vector register, for which it has no
\* working answer where long has 64 bits (juniper_sysfs.c:593 compares the
\* unsigned value with -1): each message means a pending interrupt.
VectorNotEmpty == ipc = "id" => Line

\* A PCI device goes deaf, its line high and no message to come, only after
\* an interrupt was abandoned for want of a node, or rose while MSI was off
\* (juniper_interp_init does not clear what is pending).
DeafOnlyIfMissed ==
  plat = "pci" /\ Line /\ ~msg /\ ipc = "out" => missed

\* An interrupt of a device whose nodes are there sets accel_data's flag and
\* is acknowledged, unless the device goes away, or was deaf.
InterruptServed ==
  (phase = "bound" /\ Held("mem_file") /\ Line /\ ~missed)
    ~> ((flag /\ ~Line) \/ phase # "bound" \/ crashed # "no")

=============================================================================
