-------------------------- MODULE DriverLifeProofs ---------------------------
(***************************************************************************)
(* Theorems about DriverLife: where an interrupt is, between the line, the *)
(* message and the handler, whatever the driver is doing; and what is held *)
(* while probe, its failure and remove go through their lists of steps.    *)
(***************************************************************************)
EXTENDS DriverLife, TLAPS

LineTypes ==
  /\ plat \in {"pci", "zynq"}
  /\ pend \in BOOLEAN /\ enabled \in BOOLEAN
  /\ msg \in BOOLEAN /\ missed \in BOOLEAN
  /\ ipc \in {"out", "id", "find", "flag", "ack"}

\* A message, and a handler that has been entered, stand for a high line;
\* there is at most one of them.  The Zynq has no messages.
LineInv ==
  /\ msg \/ ipc # "out" => Line
  /\ ~(msg /\ ipc # "out")
  /\ plat = "zynq" => ~msg

DeafInv == plat = "pci" /\ Line /\ ~msg /\ ipc = "out" => missed

Inv == LineTypes /\ LineInv /\ DeafInv

\* Only these write what Inv is about.
IrqState == <<plat, pend, enabled, msg, missed, ipc>>

LEMMA InvInit == LifeInit => Inv
  BY PlatformAssumption DEF LifeInit, Inv, LineTypes, LineInv, DeafInv, Line

LEMMA InvStutter == ASSUME Inv, UNCHANGED IrqState PROVE Inv'
  BY DEF Inv, LineTypes, LineInv, DeafInv, Line, IrqState

\* The line rises at most once before the handler lowers it.
LEMMA InvEdge ==
  ASSUME Inv, NEW p \in BOOLEAN, NEW e \in BOOLEAN, Edge(p, e),
         pend => p, enabled => e, UNCHANGED <<plat, ipc>>
  PROVE  Inv'
<1> DEFINE rises == p /\ e /\ ~(pend /\ enabled) /\ plat = "pci"
<1>1. /\ pend' = p /\ enabled' = e
      /\ msg' = (msg \/ (rises /\ Held("msi")))
      /\ missed' = (missed \/ (rises /\ ~Held("msi")))
  BY DEF Edge
<1>2. Held("msi") \in BOOLEAN
  BY DEF Held
<1> QED
  BY <1>1, <1>2 DEF Inv, LineTypes, LineInv, DeafInv, Line

\* Loading, probe and remove: only juniper_interp_init touches the interrupt.
LEMMA InvDevice ==
  ASSUME Inv,
         \/ ModuleInit \/ ModuleExit \/ Probe \/ Acquire \/ Fail \/ ProbeReturns
         \/ Remove \/ Release \/ ReleaseCrashes \/ RemoveReturns
         \/ FileEnter \/ FileUse
  PROVE  Inv'
<1>1. CASE Acquire
  <2>1. CASE UNCHANGED <<pend, enabled, msg, missed>>
    BY <1>1, <2>1, InvStutter DEF Acquire, IrqState
  <2>2. CASE Edge(pend, TRUE)
    BY <1>1, <2>2, InvEdge DEF Acquire, Inv, LineTypes
  <2> QED
    BY <1>1, <2>1, <2>2 DEF Acquire, InterpInit
<1>2. CASE ModuleInit \/ ModuleExit \/ Probe \/ ProbeReturns \/ Remove
  BY <1>2, InvStutter DEF ModuleInit, ModuleExit, UnregisterSysfs, Crash, Probe, ProbeReturns,
     Remove, irqVars, IrqState
<1>3. CASE Fail
  BY <1>3, InvStutter DEF Fail, NodeFails, FilesFail, PciFails, ZynqFails, Crash, irqVars,
     IrqState
<1>4. CASE Release \/ ReleaseCrashes \/ RemoveReturns
  BY <1>4, InvStutter DEF Release, ReleaseCrashes, RemoveReturns, Crash, irqVars, IrqState
<1>5. CASE FileEnter \/ FileUse
  BY <1>5, InvStutter DEF FileEnter, FileUse, Crash, irqVars, IrqState
<1> QED
  BY <1>1, <1>2, <1>3, <1>4, <1>5

LEMMA InvRaise == ASSUME Inv, Raise PROVE Inv'
<1>1. ~pend /\ Edge(TRUE, enabled) /\ UNCHANGED <<plat, ipc>>
  BY DEF Raise
<1> QED
  BY <1>1, InvEdge DEF Inv, LineTypes

LEMMA InvDropped == ASSUME Inv, MessageDropped PROVE Inv'
  BY DEF MessageDropped, Inv, LineTypes, LineInv, DeafInv, Line

LEMMA InvCrash == ASSUME Inv, Crash("irq") PROVE Inv'
  BY InvStutter DEF Crash, irqVars, IrqState

LEMMA InvAbandon == ASSUME Inv, ipc # "out", Abandon PROVE Inv'
<1>1. ipc' = "out" /\ missed' = (plat = "pci") /\ UNCHANGED <<plat, pend, enabled, msg>>
  BY DEF Abandon, Goto
<1> QED
  BY <1>1 DEF Inv, LineTypes, LineInv, DeafInv, Line

\* A step of the handler that touches nothing of the interrupt.
LEMMA InvGoto ==
  ASSUME Inv, ipc # "out", NEW l \in {"find", "flag", "ack"},
         ipc' = l, UNCHANGED <<plat, pend, enabled, msg, missed>>
  PROVE  Inv'
  BY DEF Inv, LineTypes, LineInv, DeafInv, Line

LEMMA InvHandler == ASSUME Inv, Handler PROVE Inv'
<1>1. CASE IrqEnter
  BY <1>1 DEF IrqEnter, Goto, Inv, LineTypes, LineInv, DeafInv, Line
<1>2. CASE IrqId
  <2>1. /\ ipc # "out"
        /\ Crash("irq") \/ Abandon
           \/ (ipc' = "find" /\ UNCHANGED <<plat, pend, enabled, msg, missed>>)
    BY <1>2 DEF IrqId, Needs, Goto
  <2> QED
    BY <2>1, InvCrash, InvAbandon, InvGoto
<1>3. CASE IrqFind
  <2>1. /\ ipc # "out"
        /\ Crash("irq") \/ Abandon
           \/ (ipc' = "flag" /\ UNCHANGED <<plat, pend, enabled, msg, missed>>)
    BY <1>3 DEF IrqFind, Needs, Goto
  <2> QED
    BY <2>1, InvCrash, InvAbandon, InvGoto
<1>4. CASE IrqFlag
  <2>1. /\ ipc # "out"
        /\ Crash("irq")
           \/ (ipc' = "ack" /\ UNCHANGED <<plat, pend, enabled, msg, missed>>)
    BY <1>4 DEF IrqFlag, Needs, Goto
  <2> QED
    BY <2>1, InvCrash, InvGoto
<1>5. CASE IrqAck
  <2>1. /\ ipc = "ack"
        /\ Crash("irq")
           \/ (ipc' = "out" /\ Acknowledge /\ UNCHANGED <<plat, enabled, msg>>)
    BY <1>5 DEF IrqAck, Needs, Goto
  <2>2. CASE ipc' = "out" /\ Acknowledge /\ UNCHANGED <<plat, enabled, msg>>
    BY <2>1, <2>2 DEF Acknowledge, Inv, LineTypes, LineInv, DeafInv, Line
  <2> QED
    BY <2>1, <2>2, InvCrash
<1> QED
  BY <1>1, <1>2, <1>3, <1>4, <1>5 DEF Handler

LEMMA Induction == LifeSpec => []Inv
<1>1. Inv /\ [LifeNext]_lifeVars => Inv'
  <2> SUFFICES ASSUME Inv, [LifeNext]_lifeVars PROVE Inv'
    OBVIOUS
  <2>1. CASE UNCHANGED lifeVars
    BY <2>1, InvStutter DEF lifeVars, irqVars, IrqState
  <2> QED
    BY <2>1, InvDevice, InvRaise, InvDropped, InvHandler DEF LifeNext
<1> QED
  BY <1>1, InvInit, PTL DEF LifeSpec

-----------------------------------------------------------------------------
\* The handler reads the vector register only while an interrupt is pending
\* and enabled, in whatever state of the driver it is entered.
THEOREM VectorIsNotEmpty == LifeSpec => []VectorNotEmpty
<1>1. Inv => VectorNotEmpty
  BY DEF Inv, LineInv, VectorNotEmpty
<1> QED
  BY <1>1, Induction, PTL

\* A PCI device goes deaf only after an interrupt was abandoned, dropped, or
\* rose without MSI.
THEOREM DeafBecauseMissed == LifeSpec => []DeafOnlyIfMissed
<1>1. Inv => DeafOnlyIfMissed
  BY DEF Inv, DeafInv, DeafOnlyIfMissed
<1> QED
  BY <1>1, Induction, PTL

-----------------------------------------------------------------------------
(* Lists of steps.                                                          *)

\* The members of a list of steps.
Elems(s) == {s[i] : i \in DOMAIN s}

\* No step comes after one that it may not come after.
Ordered(s, after) == \A i, j \in DOMAIN s : i < j => s[j] \in after[s[i]]

\* Lists one after the other: all their members, in order if every step of the
\* second may come after every step of the first.
LEMMA Concat ==
  ASSUME NEW S, NEW after, NEW s \in Seq(S), NEW t \in Seq(S)
  PROVE  /\ s \o t \in Seq(S)
         /\ Elems(s \o t) = Elems(s) \union Elems(t)
         /\ (Ordered(s, after) /\ Ordered(t, after)
              /\ (\A x \in Elems(s), y \in Elems(t) : y \in after[x]))
            => Ordered(s \o t, after)
<1> DEFINE u == s \o t
<1>1. /\ u \in Seq(S)
      /\ DOMAIN s = 1 .. Len(s) /\ DOMAIN t = 1 .. Len(t)
      /\ DOMAIN u = 1 .. Len(s) + Len(t)
      /\ Len(s) \in Nat /\ Len(t) \in Nat
  OBVIOUS
<1>2. \A i \in DOMAIN u :
        \/ i \in DOMAIN s /\ u[i] = s[i]
        \/ i > Len(s) /\ i - Len(s) \in DOMAIN t /\ u[i] = t[i - Len(s)]
  OBVIOUS
<1>3. \A i \in DOMAIN s : i \in DOMAIN u /\ u[i] = s[i]
  OBVIOUS
<1>4. \A i \in DOMAIN t : i + Len(s) \in DOMAIN u /\ u[i + Len(s)] = t[i]
  OBVIOUS
<1> HIDE DEF u
<1>5. Elems(u) = Elems(s) \union Elems(t)
  <2>1. \A x \in Elems(u) : x \in Elems(s) \union Elems(t)
    BY <1>2 DEF Elems
  <2>2. \A x \in Elems(s) : x \in Elems(u)
    BY <1>3 DEF Elems
  <2>3. \A x \in Elems(t) : x \in Elems(u)
    BY <1>4 DEF Elems
  <2> QED
    BY <2>1, <2>2, <2>3
<1>6. ASSUME Ordered(s, after), Ordered(t, after),
             \A x \in Elems(s), y \in Elems(t) : y \in after[x]
      PROVE  Ordered(u, after)
  <2> SUFFICES ASSUME NEW i \in DOMAIN u, NEW j \in DOMAIN u, i < j
               PROVE  u[j] \in after[u[i]]
    BY DEF Ordered
  <2>1. CASE i \in DOMAIN s /\ u[i] = s[i] /\ j \in DOMAIN s /\ u[j] = s[j]
    BY <1>6, <2>1 DEF Ordered
  <2>2. CASE /\ i \in DOMAIN s /\ u[i] = s[i]
             /\ j - Len(s) \in DOMAIN t /\ u[j] = t[j - Len(s)]
    BY <1>6, <2>2 DEF Elems
  <2>3. CASE /\ i - Len(s) \in DOMAIN t /\ u[i] = t[i - Len(s)]
             /\ j - Len(s) \in DOMAIN t /\ u[j] = t[j - Len(s)]
    BY <1>1, <1>6, <2>3 DEF Ordered
  <2>4. i > Len(s) => ~(j \in DOMAIN s)
    BY <1>1
  <2> QED
    BY <1>2, <2>1, <2>2, <2>3, <2>4
<1> QED
  BY <1>1, <1>5, <1>6 DEF u

\* What is ahead, and what is left after the next step.
LEMMA Ahead ==
  ASSUME NEW S, NEW after, NEW s \in Seq(S), s # <<>>
  PROVE  /\ Head(s) \in S /\ Tail(s) \in Seq(S)
         /\ Elems(s) = {Head(s)} \union Elems(Tail(s))
         /\ Ordered(s, after) =>
              /\ Ordered(Tail(s), after)
              /\ Elems(Tail(s)) \subseteq after[Head(s)]
<1>1. /\ Len(s) \in Nat /\ Len(s) > 0 /\ DOMAIN s = 1 .. Len(s)
      /\ Head(s) = s[1] /\ Head(s) \in S
  OBVIOUS
<1>2. /\ Tail(s) \in Seq(S) /\ DOMAIN Tail(s) = 1 .. Len(s) - 1
      /\ \A i \in 1 .. Len(s) - 1 : Tail(s)[i] = s[i + 1]
  OBVIOUS
<1>3. \A i \in DOMAIN s : i = 1 \/ (i - 1 \in DOMAIN Tail(s) /\ s[i] = Tail(s)[i - 1])
  BY <1>1, <1>2
<1>4. \A i \in DOMAIN Tail(s) : i + 1 \in DOMAIN s /\ 1 < i + 1 /\ Tail(s)[i] = s[i + 1]
  BY <1>1, <1>2
<1>5. Elems(s) = {Head(s)} \union Elems(Tail(s))
  <2>1. \A x \in Elems(s) : x \in {Head(s)} \union Elems(Tail(s))
    BY <1>1, <1>3 DEF Elems
  <2>2. \A x \in {Head(s)} \union Elems(Tail(s)) : x \in Elems(s)
    BY <1>1, <1>4 DEF Elems
  <2> QED
    BY <2>1, <2>2
<1>6. Ordered(s, after) => Elems(Tail(s)) \subseteq after[Head(s)]
  BY <1>1, <1>4 DEF Ordered, Elems
<1>7. Ordered(s, after) => Ordered(Tail(s), after)
  BY <1>1, <1>2, <1>4 DEF Ordered
<1> QED
  BY <1>1, <1>2, <1>5, <1>6, <1>7

-----------------------------------------------------------------------------
(* The order of the steps of probe.                                         *)

Late == {"accel", "files", "hold_files", "mem_file"}
NodeThings == {"fpga_data", "fpga", "config_file", "init", "accel_data"} \union Late
PciThings == {"pd", "extern", "drvdata", "enable", "flags", "regions", "mem", "periph",
              "master", "msi", "irq", "mask", "pages", "dma", "setup"}

\* The place of a step in the Zynq probe; the nodes come last.
Place(r) ==
  CASE r = "memres" -> 1 [] r = "periphres" -> 2 [] r = "mem" -> 3 [] r = "periph" -> 4
    [] r = "irqno" -> 5 [] r = "extern" -> 6 [] r = "irq" -> 7 [] r = "uio_reg" -> 8
    [] r \in {"uio", "uio_data"} -> 9 [] r = "drvdata" -> 10 [] OTHER -> 11

\* What may come after a step.  After the accelerator's node only its files
\* may, after the IRQ no mapping; the Zynq driver goes by places.
Later(r) ==
  IF r \in NodeThings THEN (IF r = "accel" THEN Late ELSE NodeThings)
  ELSE NodeThings \union
       {q \in Steps : IF plat = "zynq" THEN Place(q) > Place(r)
                      ELSE r = "irq" => q \notin {"mem", "periph"}}
ProbeOrder == [r \in Steps |-> Later(r)]

LEMMA PciOrder ==
  ASSUME plat = "pci"
  PROVE  PciProbe \in Seq(Steps) /\ Elems(PciProbe) = PciThings /\ Ordered(PciProbe, ProbeOrder)
<1>1. PciProbe \in Seq(Steps) /\ DOMAIN PciProbe = 1 .. 15
   BY DEF PciProbe, Steps, Checks
<1>2. \A i \in 1 .. 15 :
        /\ PciProbe[i] \in PciThings
        /\ PciProbe[i] = "irq" => i = 11
        /\ PciProbe[i] \in {"mem", "periph"} => i < 11
   BY DEF PciProbe, PciThings
<1>3. PciThings \subseteq Elems(PciProbe)
  <2>1. PciThings = {PciProbe[i] : i \in 1 .. 15}
    BY DEF PciProbe, PciThings
  <2> QED
    BY <1>1, <2>1 DEF Elems
<1>4. PciThings \intersect NodeThings = {} /\ PciThings \subseteq Steps
   BY DEF PciThings, NodeThings, Late, Steps, Checks
<1>5. Ordered(PciProbe, ProbeOrder)
  <2> SUFFICES ASSUME NEW i \in 1 .. 15, NEW j \in 1 .. 15, i < j
               PROVE  PciProbe[j] \in Later(PciProbe[i])
    BY <1>1, <1>2, <1>4 DEF Ordered, ProbeOrder
  <2> QED
   BY <1>2, <1>4 DEF Later
<1> QED 
  BY <1>1, <1>2, <1>3, <1>5 DEF Elems

ZynqThings == {"memres", "periphres", "mem", "periph", "irqno", "extern", "irq",
               "uio_reg", "uio", "drvdata"}

LEMMA ZynqOrder ==
  ASSUME plat = "zynq"
  PROVE  /\ ZynqProbe \in Seq(Steps) /\ Elems(ZynqProbe) = ZynqThings
         /\ Ordered(ZynqProbe, ProbeOrder)
<1>1. ZynqProbe \in Seq(Steps) /\ DOMAIN ZynqProbe = 1 .. 10
  BY DEF ZynqProbe, Steps, Checks
<1>2. \A i \in 1 .. 10 : ZynqProbe[i] \in ZynqThings /\ Place(ZynqProbe[i]) = i
  BY DEF ZynqProbe, ZynqThings, Place
<1>3. ZynqThings = {ZynqProbe[i] : i \in 1 .. 10}
  BY DEF ZynqProbe, ZynqThings
<1>4. ZynqThings \intersect NodeThings = {} /\ ZynqThings \subseteq Steps
   BY DEF ZynqThings, NodeThings, Late, Steps, Checks
<1>5. Ordered(ZynqProbe, ProbeOrder)
  <2> SUFFICES ASSUME NEW i \in 1 .. 10, NEW j \in 1 .. 10, i < j
               PROVE  ZynqProbe[j] \in Later(ZynqProbe[i])
    BY <1>1, <1>2, <1>4 DEF Ordered, ProbeOrder
  <2> QED
   BY <1>2, <1>4 DEF Later
<1> QED
  BY <1>1, <1>2, <1>3, <1>5 DEF Elems

\* After the accelerator's node come only its files.
LEMMA NodeOrder ==
  /\ NodeSteps \in Seq(NodeThings) /\ Ordered(NodeSteps, ProbeOrder)
  /\ Elems(NodeSteps) \subseteq NodeThings
  /\ {"fpga_data", "fpga", "accel_data", "accel"} \subseteq Elems(NodeSteps)
<1> DEFINE a == <<"fpga_data", "fpga">>
           b == Optional("config_file")
           c == <<"init", "accel_data", "accel", "files">>
           d == Optional("hold_files")
           e == <<"mem_file">>
<1>1. /\ NodeThings \subseteq Steps /\ Late \subseteq NodeThings
      /\ \A x \in NodeThings, y \in Late : y \in ProbeOrder[x]
      /\ \A x \in NodeThings \ {"accel"}, y \in NodeThings : y \in ProbeOrder[x]
  BY DEF NodeThings, Late, Steps, Checks, ProbeOrder, Later
<1>2. /\ a \in Seq(NodeThings) /\ Elems(a) = {"fpga_data", "fpga"}
      /\ Ordered(a, ProbeOrder)
  <2>1. a \in Seq(NodeThings) /\ DOMAIN a = 1 .. 2 /\ a[1] = "fpga_data" /\ a[2] = "fpga"
    BY DEF NodeThings
  <2> QED
    BY <1>1, <2>1 DEF Elems, Ordered
<1>3. /\ b \in Seq(NodeThings) /\ Elems(b) \subseteq {"config_file"}
      /\ Ordered(b, ProbeOrder)
  <2>1. CASE reconf
    <3>1. b = <<"config_file">> /\ "config_file" \in NodeThings
      BY <2>1 DEF NodeThings, Late, Optional
    <3> HIDE DEF b
    <3>2. b \in Seq(NodeThings) /\ DOMAIN b = 1 .. 1 /\ b[1] = "config_file"
      BY <3>1
    <3> QED
      BY <3>2 DEF Elems, Ordered
  <2>2. CASE ~reconf
    <3>1. b = << >>
      BY <2>2 DEF Optional
    <3> HIDE DEF b
    <3>2. b \in Seq(NodeThings) /\ DOMAIN b = {}
      BY <3>1
    <3> QED
      BY <3>2 DEF Elems, Ordered
  <2> QED
    BY <2>1, <2>2
<1>4. /\ c \in Seq(NodeThings) /\ Elems(c) = {"init", "accel_data", "accel", "files"}
      /\ Ordered(c, ProbeOrder)
  <2>1. /\ c \in Seq(NodeThings) /\ DOMAIN c = 1 .. 4 /\ c[1] = "init" /\ c[2] = "accel_data"
        /\ c[3] = "accel" /\ c[4] = "files"
    BY DEF NodeThings, Late
  <2>2. \A i \in 1 .. 4 : c[i] \in NodeThings /\ (c[i] = "accel" => i = 3)
    BY <2>1
  <2>3. "files" \in Late
    BY DEF Late
  <2>4. Ordered(c, ProbeOrder)
    <3> SUFFICES ASSUME NEW i \in 1 .. 4, NEW j \in 1 .. 4, i < j
                 PROVE  c[j] \in ProbeOrder[c[i]]
      BY <2>1 DEF Ordered
    <3>1. CASE i = 3
      BY <3>1, <1>1, <2>1, <2>2, <2>3
    <3> QED
      BY <3>1, <1>1, <2>2
  <2> QED
    BY <2>1, <2>2, <2>4 DEF Elems
<1>5. /\ d \in Seq(NodeThings) /\ Elems(d) \subseteq {"hold_files"}
      /\ Ordered(d, ProbeOrder)
  <2>1. CASE reconf
    <3>1. d = <<"hold_files">> /\ "hold_files" \in NodeThings
      BY <2>1 DEF NodeThings, Late, Optional
    <3> HIDE DEF d
    <3>2. d \in Seq(NodeThings) /\ DOMAIN d = 1 .. 1 /\ d[1] = "hold_files"
      BY <3>1
    <3> QED
      BY <3>2 DEF Elems, Ordered
  <2>2. CASE ~reconf
    <3>1. d = << >>
      BY <2>2 DEF Optional
    <3> HIDE DEF d
    <3>2. d \in Seq(NodeThings) /\ DOMAIN d = {}
      BY <3>1
    <3> QED
      BY <3>2 DEF Elems, Ordered
  <2> QED
    BY <2>1, <2>2
<1>6. /\ e \in Seq(NodeThings) /\ Elems(e) = {"mem_file"} /\ Ordered(e, ProbeOrder)
  <2>1. e \in Seq(NodeThings) /\ DOMAIN e = 1 .. 1 /\ e[1] = "mem_file"
    BY DEF NodeThings, Late
  <2> QED
    BY <2>1 DEF Elems, Ordered
<1> HIDE DEF a, b, c, d, e
<1>7. /\ {"fpga_data", "fpga", "config_file"} \subseteq NodeThings \ {"accel"}
      /\ {"init", "accel_data", "accel", "files", "hold_files", "mem_file"} \subseteq NodeThings
      /\ {"hold_files", "mem_file"} \subseteq Late
  BY DEF NodeThings, Late
<1>8. /\ a \o b \in Seq(NodeThings) /\ Ordered(a \o b, ProbeOrder)
      /\ Elems(a \o b) \subseteq NodeThings \ {"accel"}
      /\ {"fpga_data", "fpga"} \subseteq Elems(a \o b)
  <2>1. \A x \in Elems(a), y \in Elems(b) : y \in ProbeOrder[x]
    BY <1>1, <1>2, <1>3, <1>7
  <2>2. /\ a \o b \in Seq(NodeThings)
        /\ Elems(a \o b) = Elems(a) \union Elems(b)
        /\ Ordered(a \o b, ProbeOrder)
    BY <1>2, <1>3, <2>1, Concat
  <2> QED
    BY <1>2, <1>3, <1>7, <2>2
<1> DEFINE ab == a \o b
<1> HIDE DEF ab
<1>9. /\ ab \o c \in Seq(NodeThings) /\ Ordered(ab \o c, ProbeOrder)
      /\ Elems(ab \o c) \subseteq NodeThings
      /\ {"fpga_data", "fpga", "accel_data", "accel"} \subseteq Elems(ab \o c)
  <2>0. ab \in Seq(NodeThings) /\ Ordered(ab, ProbeOrder)
    BY <1>8 DEF ab
  <2>1. \A x \in Elems(ab), y \in Elems(c) : y \in ProbeOrder[x]
    BY <1>1, <1>4, <1>7, <1>8 DEF ab
  <2>2. /\ ab \o c \in Seq(NodeThings)
        /\ Elems(ab \o c) = Elems(ab) \union Elems(c)
        /\ Ordered(ab \o c, ProbeOrder)
    BY <1>4, <2>0, <2>1, Concat
  <2> QED
    BY <1>4, <1>7, <1>8, <2>2 DEF ab
<1> DEFINE l == ab \o c
<1> HIDE DEF l
<1>10. /\ l \o d \in Seq(NodeThings) /\ Ordered(l \o d, ProbeOrder)
       /\ Elems(l \o d) = Elems(l) \union Elems(d)
  <2>1. \A x \in Elems(l), y \in Elems(d) : y \in ProbeOrder[x]
    BY <1>1, <1>5, <1>7, <1>9 DEF l
  <2>2. l \in Seq(NodeThings) /\ Ordered(l, ProbeOrder)
    BY <1>9 DEF l
  <2> QED
    BY <1>5, <2>1, <2>2, Concat
<1> DEFINE ld == l \o d
<1> HIDE DEF ld
<1>11. /\ ld \o e \in Seq(NodeThings) /\ Ordered(ld \o e, ProbeOrder)
       /\ Elems(ld \o e) = Elems(l) \union Elems(d) \union {"mem_file"}
  <2>0. ld \in Seq(NodeThings) /\ Ordered(ld, ProbeOrder)
    BY <1>10 DEF ld
  <2>1. \A x \in Elems(ld), y \in Elems(e) : y \in ProbeOrder[x]
    BY <1>1, <1>5, <1>6, <1>7, <1>9, <1>10 DEF l, ld
  <2>2. /\ ld \o e \in Seq(NodeThings)
        /\ Elems(ld \o e) = Elems(ld) \union Elems(e)
        /\ Ordered(ld \o e, ProbeOrder)
    BY <1>6, <2>0, <2>1, Concat
  <2> QED
    BY <1>6, <1>10, <2>2 DEF ld
<1>12. NodeSteps = ld \o e
  <2>1. /\ a \in Seq(NodeThings) /\ b \in Seq(NodeThings) /\ c \in Seq(NodeThings)
        /\ d \in Seq(NodeThings) /\ e \in Seq(NodeThings)
    BY <1>2, <1>3, <1>4, <1>5, <1>6
  <2> QED
    BY DEF NodeSteps, ld, l, ab, a, b, c, d, e
<1> QED
  BY <1>5, <1>7, <1>9, <1>11, <1>12 DEF l

\* What an accelerator in use is looked up and followed through.
Base ==
  {"mem", "periph", "extern", "drvdata", "fpga_data", "fpga", "accel_data", "accel"}
  \union (IF plat = "pci" THEN {"pd"} ELSE {})

BusThings == IF plat = "pci" THEN PciThings ELSE ZynqThings

LEMMA ProbeOrdered ==
  ASSUME plat \in {"pci", "zynq"}
  PROVE  /\ ProbeSteps \in Seq(Steps) /\ Ordered(ProbeSteps, ProbeOrder)
         /\ Elems(ProbeSteps) = BusThings \union Elems(NodeSteps)
         /\ Base \subseteq Elems(ProbeSteps)
<1> DEFINE p == IF plat = "pci" THEN PciProbe ELSE ZynqProbe
<1>1. p \in Seq(Steps) /\ Elems(p) = BusThings /\ Ordered(p, ProbeOrder)
  BY PciOrder, ZynqOrder DEF BusThings
<1>2. NodeThings \subseteq Steps
  BY DEF NodeThings, Late, Steps, Checks
<1>3. NodeSteps \in Seq(Steps) /\ Ordered(NodeSteps, ProbeOrder)
  BY <1>2, NodeOrder
<1>4. \A x \in Elems(p), y \in Elems(NodeSteps) : y \in ProbeOrder[x]
  <2>1. BusThings \subseteq Steps \ NodeThings
    BY DEF BusThings, PciThings, ZynqThings, NodeThings, Late, Steps, Checks
  <2> QED
    BY <1>1, <2>1, NodeOrder DEF ProbeOrder, Later
<1>5. ProbeSteps = p \o NodeSteps
  BY DEF ProbeSteps
<1> HIDE DEF p
<1>6. /\ ProbeSteps \in Seq(Steps) /\ Ordered(ProbeSteps, ProbeOrder)
      /\ Elems(ProbeSteps) = Elems(p) \union Elems(NodeSteps)
  BY <1>1, <1>3, <1>4, <1>5, Concat
<1>7. Base \subseteq BusThings
         \union {"fpga_data", "fpga", "accel_data", "accel"}
  BY DEF Base, BusThings, PciThings, ZynqThings
<1> QED
  BY <1>1, <1>6, <1>7, NodeOrder

-----------------------------------------------------------------------------
(* The order of the steps of remove, and of a failed probe.                 *)

\* Once a mapping is gone nothing that uses it is left to release.
RemoveOrder ==
  [r \in Steps |-> IF r \in {"mem", "periph"} THEN Steps \ {"irq", "accel"} ELSE Steps]

LostThings == {"accel_data", "accel_ptr", "mem_file", "accel", "fpga_data", "fpga_ptr",
               "config_file", "fpga"}

LEMMA LostOrder ==
  /\ LostSteps \in Seq(Steps) /\ Elems(LostSteps) = LostThings
  /\ Ordered(LostSteps, RemoveOrder)
<1>1. LostSteps \in Seq(Steps) /\ DOMAIN LostSteps = 1 .. 8
  BY DEF LostSteps, Steps, Checks
<1>2. LostThings = {LostSteps[i] : i \in 1 .. 8}
  BY DEF LostSteps, LostThings
<1>3. LostThings \subseteq Steps \ {"mem", "periph"}
  BY DEF LostThings, Steps, Checks
<1>4. \A i, j \in 1 .. 8 : LostSteps[j] \in RemoveOrder[LostSteps[i]]
  BY <1>2, <1>3 DEF RemoveOrder
<1> QED
  BY <1>1, <1>2, <1>4 DEF Elems, Ordered

PciLast == {"dma", "pages", "irq", "msi", "master", "periph", "mem", "regions", "extern",
            "pd", "enable"}

LEMMA PciRemoveOrder ==
  /\ PciRemove \in Seq(Steps) /\ Elems(PciRemove) = PciLast
  /\ Ordered(PciRemove, RemoveOrder)
<1>1. PciRemove \in Seq(Steps) /\ DOMAIN PciRemove = 1 .. 11
  BY DEF PciRemove, Steps, Checks
<1>2. PciLast = {PciRemove[i] : i \in 1 .. 11}
  BY DEF PciRemove, PciLast
<1>3. PciLast \subseteq Steps /\ ~("accel" \in PciLast)
  BY DEF PciLast, Steps, Checks
<1>4. \A i \in 1 .. 11 :
        (PciRemove[i] = "irq" => i = 3) /\ (PciRemove[i] \in {"mem", "periph"} => i > 3)
  BY DEF PciRemove
<1>5. \A i, j \in 1 .. 11 : i < j => PciRemove[j] \in RemoveOrder[PciRemove[i]]
  BY <1>2, <1>3, <1>4 DEF RemoveOrder
<1> QED
  BY <1>1, <1>2, <1>5 DEF Elems, Ordered

LEMMA DevresOrder ==
  /\ Devres \in Seq(Steps) /\ Elems(Devres) = {"irq", "periph", "mem"}
  /\ Ordered(Devres, RemoveOrder)
<1>1. /\ Devres \in Seq(Steps) /\ DOMAIN Devres = 1 .. 3
      /\ Devres[1] = "irq" /\ Devres[2] = "periph" /\ Devres[3] = "mem"
  BY DEF Devres, Steps, Checks
<1>2. \A i \in 1 .. 3 : i = 1 \/ i = 2 \/ i = 3
  OBVIOUS
<1>3. {"irq", "periph", "mem"} \subseteq Steps
  BY DEF Steps
<1>4. \A i, j \in 1 .. 3 : i < j => Devres[j] \in RemoveOrder[Devres[i]]
  BY <1>1, <1>2, <1>3 DEF RemoveOrder
<1> QED
  BY <1>1, <1>2, <1>4 DEF Elems, Ordered

LEMMA ZynqRemoveOrder ==
  /\ ZynqRemove \in Seq(Steps) /\ Elems(ZynqRemove) = {"uio_unreg", "uio_reg", "extern"}
  /\ Ordered(ZynqRemove, RemoveOrder)
<1>1. /\ ZynqRemove \in Seq(Steps) /\ DOMAIN ZynqRemove = 1 .. 3
      /\ ZynqRemove[1] = "uio_unreg" /\ ZynqRemove[2] = "uio_reg"
      /\ ZynqRemove[3] = "extern"
  BY DEF ZynqRemove, Steps, Checks
<1>2. \A i \in 1 .. 3 : i = 1 \/ i = 2 \/ i = 3
  OBVIOUS
<1>3. {"uio_unreg", "uio_reg", "extern"} \subseteq Steps
  BY DEF Steps, Checks
<1>4. \A i, j \in 1 .. 3 : ZynqRemove[j] \in RemoveOrder[ZynqRemove[i]]
  BY <1>1, <1>2, <1>3 DEF RemoveOrder
<1> QED
  BY <1>1, <1>2, <1>4 DEF Elems, Ordered

\* What a step may acquire, on the bus and of the nodes.
BusGains ==
  IF plat = "pci" THEN PciThings \ Checks
  ELSE {"mem", "periph", "extern", "irq", "uio_reg", "uio", "uio_data", "drvdata"}

NodeGains == LostThings \union {"files", "hold_files"}

LEMMA RemoveOrdered ==
  ASSUME plat \in {"pci", "zynq"}
  PROVE  /\ RemoveSteps \in Seq(Steps) /\ Ordered(RemoveSteps, RemoveOrder)
         /\ (BusGains \ {"drvdata"}) \union LostThings \subseteq Elems(RemoveSteps)
<1>1. \A x \in Steps \ {"mem", "periph"}, y \in Steps : y \in RemoveOrder[x]
  BY DEF RemoveOrder
<1>2. LostThings \subseteq Steps \ {"mem", "periph"}
  BY DEF LostThings, Steps
<1>3. CASE plat = "pci"
  <2>1. RemoveSteps = LostSteps \o PciRemove
    BY <1>3 DEF RemoveSteps
  <2>2. PciLast \subseteq Steps
    BY DEF PciLast, Steps
  <2>3. \A x \in Elems(LostSteps), y \in Elems(PciRemove) : y \in RemoveOrder[x]
    BY <1>1, <1>2, <2>2, LostOrder, PciRemoveOrder
  <2>4. /\ RemoveSteps \in Seq(Steps) /\ Ordered(RemoveSteps, RemoveOrder)
        /\ Elems(RemoveSteps) = LostThings \union PciLast
    BY <2>1, <2>3, LostOrder, PciRemoveOrder, Concat
  <2>5. BusGains \ {"drvdata"} \subseteq PciLast
    BY <1>3 DEF BusGains, PciThings, PciLast, Checks
  <2> QED
    BY <2>4, <2>5
<1>4. CASE plat = "zynq"
  <2> DEFINE u == <<"uio_data", "uio">>
             v == u \o LostSteps
             w == v \o ZynqRemove
  <2>1. RemoveSteps = w \o Devres
    BY <1>4 DEF RemoveSteps
  <2>2. u \in Seq(Steps) /\ Elems(u) = {"uio_data", "uio"} /\ Ordered(u, RemoveOrder)
    <3>1. u \in Seq(Steps) /\ DOMAIN u = 1 .. 2 /\ u[1] = "uio_data" /\ u[2] = "uio"
      BY DEF Steps
    <3>2. {"uio_data", "uio"} \subseteq Steps \ {"mem", "periph"}
      BY DEF Steps
    <3> HIDE DEF u
    <3> QED
      BY <1>1, <3>1, <3>2 DEF Elems, Ordered
  <2> HIDE DEF u
  <2>3. /\ {"uio_data", "uio", "uio_unreg", "uio_reg", "extern"}
           \subseteq Steps \ {"mem", "periph"}
        /\ {"irq", "periph", "mem"} \subseteq Steps
    BY DEF Steps, Checks
  <2>4. /\ v \in Seq(Steps) /\ Ordered(v, RemoveOrder)
        /\ Elems(v) = {"uio_data", "uio"} \union LostThings
    <3>1. \A x \in Elems(u), y \in Elems(LostSteps) : y \in RemoveOrder[x]
      BY <1>1, <1>2, <2>2, <2>3, LostOrder
    <3> QED
      BY <2>2, <3>1, LostOrder, Concat
  <2> HIDE DEF v
  <2>5. /\ w \in Seq(Steps) /\ Ordered(w, RemoveOrder)
        /\ Elems(w) = {"uio_data", "uio"} \union LostThings
                        \union {"uio_unreg", "uio_reg", "extern"}
    <3>1. \A x \in Elems(v), y \in Elems(ZynqRemove) : y \in RemoveOrder[x]
      BY <1>1, <1>2, <2>3, <2>4, ZynqRemoveOrder
    <3> QED
      BY <2>4, <3>1, ZynqRemoveOrder, Concat
  <2> HIDE DEF w
  <2>6. /\ RemoveSteps \in Seq(Steps) /\ Ordered(RemoveSteps, RemoveOrder)
        /\ Elems(RemoveSteps) = Elems(w) \union {"irq", "periph", "mem"}
    <3>1. \A x \in Elems(w), y \in Elems(Devres) : y \in RemoveOrder[x]
      BY <1>1, <1>2, <2>3, <2>5, DevresOrder
    <3> QED
      BY <2>1, <2>5, <3>1, DevresOrder, Concat
  <2>7. BusGains = {"mem", "periph", "extern", "irq", "uio_reg", "uio", "uio_data", "drvdata"}
    BY <1>4 DEF BusGains
  <2> QED
    BY <2>5, <2>6, <2>7
<1> QED
  BY <1>3, <1>4

LEMMA FailOrdered ==
  ASSUME NEW r
  PROVE  LET s == ErrSteps(r) \o Devres IN
         /\ s \in Seq(Steps) /\ Ordered(s, RemoveOrder)
         /\ {"irq", "periph", "mem"} \subseteq Elems(s)
         /\ Elems(s) \subseteq {"uio_reg", "extern", "irq", "periph", "mem"}
         /\ r \in {"uio", "uio_reg", "irq"} => "extern" \in Elems(s)
         /\ r = "uio" => "uio_reg" \in Elems(s)
<1> DEFINE e == ErrSteps(r)
<1>1. /\ e \in Seq(Steps) /\ Ordered(e, RemoveOrder)
      /\ Elems(e) \subseteq {"uio_reg", "extern"}
      /\ r \in {"uio", "uio_reg", "irq"} => "extern" \in Elems(e)
      /\ r = "uio" => "uio_reg" \in Elems(e)
  <2>1. {"uio_reg", "extern"} \subseteq Steps
    BY DEF Steps
  <2>2. CASE r = "uio"
    <3>1. e = <<"uio_reg", "extern">>
      BY <2>2 DEF ErrSteps
    <3> HIDE DEF e
    <3>2. e \in Seq(Steps) /\ DOMAIN e = 1 .. 2 /\ e[1] = "uio_reg" /\ e[2] = "extern"
      BY <2>1, <3>1
    <3> QED
      BY <2>1, <2>2, <3>2 DEF Elems, Ordered, RemoveOrder
  <2>3. CASE r \in {"uio_reg", "irq"}
    <3>1. e = <<"extern">>
      BY <2>3 DEF ErrSteps
    <3> HIDE DEF e
    <3>2. e \in Seq(Steps) /\ DOMAIN e = 1 .. 1 /\ e[1] = "extern"
      BY <2>1, <3>1
    <3> QED
      BY <2>1, <2>3, <3>2 DEF Elems, Ordered
  <2>4. CASE r \notin {"uio", "uio_reg", "irq"}
    <3>1. e = << >>
      BY <2>4 DEF ErrSteps
    <3> HIDE DEF e
    <3>2. e \in Seq(Steps) /\ DOMAIN e = {}
      BY <3>1
    <3> QED
      BY <2>4, <3>2 DEF Elems, Ordered
  <2> QED
    BY <2>2, <2>3, <2>4
<1> HIDE DEF e
<1>2. \A x \in Elems(e), y \in Elems(Devres) : y \in RemoveOrder[x]
  <2>1. {"uio_reg", "extern"} \subseteq Steps /\ {"irq", "periph", "mem"} \subseteq Steps
    BY DEF Steps
  <2> QED
    BY <1>1, <2>1, DevresOrder DEF RemoveOrder
<1>3. /\ e \o Devres \in Seq(Steps) /\ Ordered(e \o Devres, RemoveOrder)
      /\ Elems(e \o Devres) = Elems(e) \union {"irq", "periph", "mem"}
  BY <1>1, <1>2, DevresOrder, Concat
<1> QED
  BY <1>1, <1>3 DEF e

-----------------------------------------------------------------------------
(* What is held in each phase.                                              *)

\* What a list of steps gives back.
Covered(s) ==
  Elems(s) \union (IF "accel" \in Elems(s) THEN {"files", "hold_files"} ELSE {})

\* What holds in every phase.
HeldInv ==
  /\ got \subseteq BusGains \union NodeGains
  /\ "irq" \in got \/ "accel" \in got => {"mem", "periph"} \subseteq got
  /\ "fpga" \in got /\ phase # "removing" => "fpga_ptr" \in got
  /\ "accel" \in got /\ phase # "removing" => "accel_ptr" \in got
  /\ "accel" \in got => phase \notin {"unbound", "failing"}
  /\ "accel" \in got /\ phase = "bound" => Base \subseteq got
  /\ ipc # "out" => "irq" \in got
  /\ fpc # "out" => "accel" \in got
  /\ plat = "zynq" => ~failed

\* Whatever an accelerator needs is held or ahead, and nothing of it is ahead
\* once the accelerator is there.  The Zynq driver starts with nothing.
ProbeInv ==
  phase = "probing" =>
    /\ Ordered(todo, ProbeOrder)
    /\ Elems(todo) \subseteq BusThings \union Elems(NodeSteps)
    /\ Base \subseteq got \union Elems(todo)
    /\ "accel" \in got => Elems(todo) \subseteq Late
    /\ plat = "zynq" => \A x \in got : Elems(todo) \subseteq ProbeOrder[x]

\* Everything held is still to be given back.
RemoveInv ==
  phase \in {"removing", "failing"} =>
    /\ Ordered(todo, RemoveOrder)
    /\ got \subseteq Covered(todo) \union {"drvdata"}
    /\ phase = "failing" =>
         plat = "zynq" /\ Elems(todo) \subseteq {"uio_reg", "extern", "irq", "periph", "mem"}

LifeInv == LifeTypeOK /\ HeldInv /\ ProbeInv /\ RemoveInv /\ CleanUnbound /\ SteadyIsSafe

\* The lists and tables depend on the platform alone.
LEMMA Same ==
  ASSUME UNCHANGED <<plat, reconf>>
  PROVE  /\ ProbeOrder' = ProbeOrder /\ NodeSteps' = NodeSteps /\ Base' = Base
         /\ BusGains' = BusGains /\ BusThings' = BusThings
         /\ ProbeSteps' = ProbeSteps /\ RemoveSteps' = RemoveSteps
  BY DEF ProbeOrder, Later, NodeSteps, Optional, Base, BusGains, BusThings, ProbeSteps,
         RemoveSteps

LEMMA LifeFirst == LifeInit => LifeInv
<1> SUFFICES ASSUME LifeInit PROVE LifeInv
  OBVIOUS
<1>1. LifeTypeOK
  <2>1. todo \in Seq(Steps) /\ got \subseteq Steps
    BY DEF LifeInit
  <2> QED
    BY <2>1 DEF LifeInit, LifeTypeOK
<1>2. HeldInv
  BY DEF LifeInit, HeldInv
<1>3. ProbeInv /\ RemoveInv /\ CleanUnbound /\ SteadyIsSafe
  BY DEF LifeInit, ProbeInv, RemoveInv, CleanUnbound, SteadyIsSafe
<1> QED
  BY <1>1, <1>2, <1>3 DEF LifeInv

\* What of LifeInv is about the device only.
LEMMA LifeDevice ==
  ASSUME LifeInv, UNCHANGED <<plat, reconf, phase, todo, got, failed>>
  PROVE  /\ ProbeInv' /\ RemoveInv' /\ CleanUnbound'
         /\ (ipc' # "out" => "irq" \in got) /\ (fpc' # "out" => "accel" \in got) => HeldInv'
<1>1. ProbeInv'
  BY Same DEF LifeInv, ProbeInv
<1>2. RemoveInv'
  BY Same DEF LifeInv, RemoveInv
<1>3. CleanUnbound'
  BY DEF LifeInv, CleanUnbound
<1>4. (ipc' # "out" => "irq" \in got) /\ (fpc' # "out" => "accel" \in got) => HeldInv'
  BY Same DEF LifeInv, HeldInv
<1> QED
  BY <1>1, <1>2, <1>3, <1>4

LEMMA LifeProbe == ASSUME LifeInv, crashed = "no", Probe PROVE LifeInv'
<1>1. /\ driver /\ phase = "unbound" /\ phase' = "probing" /\ todo' = ProbeSteps
      /\ UNCHANGED <<plat, reconf, modVars, got, failed, ran, irqVars, fpc, crashed>>
  BY DEF Probe
<1>2. plat \in {"pci", "zynq"}
  BY PlatformAssumption DEF LifeInv, LifeTypeOK
<1>3. LifeTypeOK'
  BY <1>1, <1>2, ProbeOrdered DEF LifeInv, LifeTypeOK, modVars, irqVars
<1>4. HeldInv'
  BY <1>1, Same DEF LifeInv, HeldInv, irqVars
<1>5. ProbeInv'
  <2>1. "accel" \notin got /\ (plat = "zynq" => got = {})
    BY <1>1 DEF LifeInv, HeldInv, CleanUnbound
  <2> QED
    BY <1>1, <1>2, <2>1, ProbeOrdered, Same DEF ProbeInv
<1>6. RemoveInv' /\ CleanUnbound' /\ SteadyIsSafe'
  BY <1>1 DEF RemoveInv, CleanUnbound, SteadyIsSafe, LifeInv
<1> QED
  BY <1>3, <1>4, <1>5, <1>6 DEF LifeInv

\* Whatever stops the kernel, it stops before anything else changes.
LEMMA LifeCrash ==
  ASSUME LifeInv, NEW who \in {"probe", "remove", "exit", "irq", "file"}, Crash(who),
         who = "irq" => phase # "bound" \/ "accel" \notin got,
         who = "file" => phase = "removing"
  PROVE  LifeInv'
<1>1. /\ crashed' = who
      /\ UNCHANGED <<plat, reconf, phase, todo, got, failed, ipc, fpc>>
  BY DEF Crash, devVars, irqVars
<1>2. LifeTypeOK'
  BY <1>1 DEF Crash, LifeInv, LifeTypeOK, modVars, devVars, irqVars
<1>3. HeldInv' /\ ProbeInv' /\ RemoveInv' /\ CleanUnbound'
  BY <1>1, LifeDevice DEF LifeInv, HeldInv
<1>4. SteadyIsSafe'
  BY <1>1 DEF SteadyIsSafe, Held
<1> QED
  BY <1>2, <1>3, <1>4 DEF LifeInv

LEMMA LifeModule == ASSUME LifeInv, crashed = "no", ModuleInit \/ ModuleExit PROVE LifeInv'
<1>1. CASE ModuleExit /\ Crash("exit")
  BY <1>1, LifeCrash
<1>2. CASE ModuleInit \/ (ModuleExit /\ ~Crash("exit"))
  <2>1. /\ UNCHANGED <<plat, reconf, devVars, irqVars, fpc, crashed>>
        /\ loaded' \in BOOLEAN /\ class' \in {"none", "made", "error"} /\ driver' \in BOOLEAN
    BY <1>2 DEF ModuleInit, ModuleExit, UnregisterSysfs, RegisterSysfs, RegisterDriver
  <2>2. UNCHANGED <<plat, reconf, phase, todo, got, failed, ipc, fpc>>
    BY <2>1 DEF devVars, irqVars
  <2>3. LifeTypeOK'
    BY <2>1 DEF LifeInv, LifeTypeOK, devVars, irqVars
  <2>4. HeldInv' /\ ProbeInv' /\ RemoveInv' /\ CleanUnbound'
    BY <2>2, LifeDevice DEF LifeInv, HeldInv
  <2>5. SteadyIsSafe'
    BY <2>1, <2>2 DEF LifeInv, SteadyIsSafe, Held
  <2> QED
    BY <2>3, <2>4, <2>5 DEF LifeInv
<1> QED
  BY <1>1, <1>2

LEMMA LifeAcquire == ASSUME LifeInv, crashed = "no", Acquire PROVE LifeInv'
<1> DEFINE r == Head(todo)
<1>1. /\ phase = "probing" /\ todo # <<>>
      /\ got' = got \union Gain(r) /\ todo' = Tail(todo)
      /\ flag' = (flag /\ r # "accel_data")
      /\ UNCHANGED <<plat, reconf, modVars, phase, failed, ran, ipc, fpc, crashed>>
  BY DEF Acquire
<1>2. plat \in {"pci", "zynq"} /\ todo \in Seq(Steps)
  BY PlatformAssumption DEF LifeInv, LifeTypeOK
<1>3. /\ Ordered(todo, ProbeOrder)
      /\ Elems(todo) \subseteq BusThings \union Elems(NodeSteps)
      /\ Base \subseteq got \union Elems(todo)
      /\ "accel" \in got => Elems(todo) \subseteq Late
      /\ plat = "zynq" => \A x \in got : Elems(todo) \subseteq ProbeOrder[x]
  BY <1>1 DEF LifeInv, ProbeInv
<1> HIDE DEF r
<1>4. /\ r \in Steps /\ todo' \in Seq(Steps)
      /\ Elems(todo) = {r} \union Elems(todo')
      /\ Ordered(todo', ProbeOrder) /\ Elems(todo') \subseteq ProbeOrder[r]
  BY <1>1, <1>2, <1>3, Ahead DEF r
<1>5. r \in BusThings \union NodeThings /\ NodeThings \subseteq Steps
  BY <1>3, <1>4, NodeOrder DEF NodeThings, Late, Steps, Checks
<1>6. Gain(r) \subseteq BusGains \union NodeGains /\ Gain(r) \subseteq Steps
  BY <1>2, <1>5 DEF Gain, BusGains, NodeGains, BusThings, PciThings, ZynqThings, NodeThings,
     Late, LostThings, Checks, Steps
<1>7. r \in Gain(r) \/ r \in Checks
  BY DEF Gain
<1>8. \A x \in Gain(r) : x = r \/ x \in {"uio_data", "fpga_ptr", "accel_ptr"}
  BY DEF Gain
<1>9. /\ "uio_data" \in Gain(r) => r \in {"uio", "uio_data"}
      /\ "fpga_ptr" \in Gain(r) => r \in {"fpga", "fpga_ptr"}
      /\ "accel_ptr" \in Gain(r) => r \in {"accel", "accel_ptr"}
      /\ r = "fpga" => "fpga_ptr" \in Gain(r)
      /\ r = "accel" => "accel_ptr" \in Gain(r)
      /\ r \notin Steps \ {"fpga", "accel"} \/ r = "uio" \/ Gain(r) \subseteq {r}
  BY <1>4 DEF Gain
<1>10. Base \subseteq got' \union Elems(todo')
  <2>1. Base \intersect Checks = {}
    BY DEF Base, Checks
  <2> QED
    BY <1>1, <1>3, <1>4, <1>7, <2>1
<1>11. "accel" \in got' => Elems(todo') \subseteq Late
  <2>1. ProbeOrder["accel"] = Late
    BY DEF ProbeOrder, Later, Steps, NodeThings, Late
  <2> QED
    BY <1>1, <1>3, <1>4, <1>8, <2>1
<1>12. "irq" \in got' \/ "accel" \in got' => {"mem", "periph"} \subseteq got'
  <2>1. {"mem", "periph"} \subseteq Base \ Late
    BY DEF Base, Late
  <2>2. "mem" \notin ProbeOrder["irq"] /\ "periph" \notin ProbeOrder["irq"]
    BY <1>2 DEF ProbeOrder, Later, Steps, NodeThings, Late, Place
  <2>3. CASE "irq" \in got \/ "accel" \in got
    BY <2>3, <1>1 DEF LifeInv, HeldInv
  <2>4. CASE r = "irq"
    BY <2>4, <1>10, <1>4, <2>1, <2>2
  <2>5. CASE r = "accel"
    BY <2>5, <1>10, <1>11, <2>1, <1>1, <1>7, <1>4 DEF Checks
  <2> QED
    BY <1>1, <1>8, <2>3, <2>4, <2>5
<1>13. ASSUME plat = "zynq", NEW x \in got'
       PROVE  Elems(todo') \subseteq ProbeOrder[x]
  <2>1. CASE x \in got
    BY <1>3, <1>4, <1>13, <2>1
  <2>2. CASE x = r
    BY <1>4, <2>2
  <2>3. CASE x \in Gain(r) /\ x # r
    <3>1. \/ x = "uio_data" /\ r = "uio"
          \/ x = "fpga_ptr" /\ r = "fpga"
          \/ x = "accel_ptr" /\ r = "accel"
      BY <1>8, <1>9, <2>3
    <3>2. ProbeOrder[r] \subseteq ProbeOrder[x]
      BY <1>13, <3>1 DEF ProbeOrder, Later, Place, NodeThings, Late, Steps
    <3> QED
      BY <1>4, <3>2
  <2> QED
    BY <1>1, <2>1, <2>2, <2>3
<1>14. LifeTypeOK'
  <2>1. UNCHANGED <<loaded, class, driver>>
    BY <1>1 DEF modVars
  <2>2. pend' \in BOOLEAN /\ enabled' \in BOOLEAN /\ msg' \in BOOLEAN /\ missed' \in BOOLEAN
    <3>1. CASE Edge(pend, TRUE)
      BY <3>1 DEF LifeInv, LifeTypeOK, Edge, Held
    <3>2. CASE UNCHANGED <<pend, enabled, msg, missed>>
      BY <3>2 DEF LifeInv, LifeTypeOK
    <3> QED
      BY <3>1, <3>2 DEF Acquire, InterpInit
  <2> QED
    BY <1>1, <1>4, <1>6, <2>1, <2>2 DEF LifeInv, LifeTypeOK
<1>15. HeldInv'
  BY <1>1, <1>6, <1>8, <1>9, <1>12, Same DEF LifeInv, HeldInv
<1>16. ProbeInv'
  BY <1>1, <1>3, <1>4, <1>10, <1>11, <1>13, Same DEF ProbeInv
<1>17. RemoveInv' /\ CleanUnbound' /\ SteadyIsSafe'
  BY <1>1 DEF RemoveInv, CleanUnbound, SteadyIsSafe
<1> QED
  BY <1>14, <1>15, <1>16, <1>17 DEF LifeInv

\* Probe ends, with or without all the files: the accelerator is there with
\* everything it needs, or not at all.
LEMMA LifeBound ==
  ASSUME LifeInv, crashed = "no", phase = "probing", phase' = "bound", todo' = <<>>,
         todo = <<>> \/ Head(todo) \in {"config_file", "files", "hold_files", "mem_file"},
         ran' \in BOOLEAN,
         UNCHANGED <<plat, reconf, modVars, got, failed, irqVars, fpc, crashed>>
  PROVE  LifeInv'
<1>1. LifeTypeOK'
  <2>1. todo' \in Seq(Steps)
    OBVIOUS
  <2> QED
    BY <2>1 DEF LifeInv, LifeTypeOK, modVars, irqVars
<1>2. "accel" \in got => Base \subseteq got
  <2>1. Base \intersect Late = {"accel"}
    BY DEF Base, Late
  <2> QED
    BY <2>1 DEF LifeInv, ProbeInv
<1>3. HeldInv'
  BY <1>2, Same DEF LifeInv, HeldInv, irqVars
<1>4. ProbeInv' /\ RemoveInv' /\ CleanUnbound'
  BY DEF ProbeInv, RemoveInv, CleanUnbound
<1>5. SteadyIsSafe'
  BY DEF SteadyIsSafe
<1> QED
  BY <1>1, <1>3, <1>4, <1>5 DEF LifeInv

LEMMA LifeFail == ASSUME LifeInv, crashed = "no", Fail PROVE LifeInv'
<1> DEFINE r == Head(todo)
<1>1. phase = "probing" /\ todo # <<>> /\ r \notin Infallible
  BY DEF Fail
<1>2. plat \in {"pci", "zynq"} /\ todo \in Seq(Steps)
  BY PlatformAssumption DEF LifeInv, LifeTypeOK
<1>3. /\ Elems(todo) \subseteq BusThings \union Elems(NodeSteps)
      /\ "accel" \in got => Elems(todo) \subseteq Late
      /\ plat = "zynq" => \A x \in got : Elems(todo) \subseteq ProbeOrder[x]
  BY <1>1 DEF LifeInv, ProbeInv
<1>4. r \in Elems(todo)
  BY <1>1, <1>2, Ahead
<1>5. r \notin {NodeSteps[i] : i \in DOMAIN NodeSteps} => r \in BusThings /\ "accel" \notin got
  <2>1. BusThings \intersect Late = {}
    BY DEF BusThings, PciThings, ZynqThings, Late
  <2> QED
    BY <1>3, <1>4, <2>1 DEF Elems
<1> HIDE DEF r
<1>6. CASE NodeFails(r)
  BY <1>6, LifeCrash DEF NodeFails
<1>7. CASE FilesFail(r)
  <2>1. ran' \in BOOLEAN
    BY <1>7 DEF FilesFail, Held, LifeInv, LifeTypeOK
  <2> QED
    BY <1>1, <1>7, <2>1, LifeBound DEF FilesFail, GiveUp, r
<1>8. CASE PciFails(r)
  <2>1. /\ plat = "pci" /\ "accel" \notin got
        /\ phase' = "unbound" /\ todo' = <<>> /\ failed' = TRUE
        /\ got' = got \ {"drvdata"}
        /\ UNCHANGED <<plat, reconf, modVars, ran, irqVars, fpc, crashed>>
    BY <1>5, <1>8 DEF PciFails
  <2>2. todo' \in Seq(Steps)
    BY <2>1
  <2>3. LifeTypeOK'
    BY <2>1, <2>2 DEF LifeInv, LifeTypeOK, modVars, irqVars
  <2>4. HeldInv'
    BY <1>1, <2>1, Same DEF LifeInv, HeldInv, irqVars
  <2>5. ProbeInv' /\ RemoveInv' /\ CleanUnbound' /\ SteadyIsSafe'
    BY <2>1 DEF ProbeInv, RemoveInv, CleanUnbound, SteadyIsSafe
  <2> QED
    BY <2>3, <2>4, <2>5 DEF LifeInv
<1>9. CASE ZynqFails(r)
  <2>1. /\ plat = "zynq" /\ "accel" \notin got /\ r \in ZynqThings
        /\ phase' = "failing" /\ todo' = ErrSteps(r) \o Devres
        /\ UNCHANGED <<plat, reconf, modVars, got, failed, ran, irqVars, fpc, crashed>>
    BY <1>5, <1>9 DEF ZynqFails, BusThings
  <2>2. /\ todo' \in Seq(Steps) /\ Ordered(todo', RemoveOrder)
        /\ {"irq", "periph", "mem"} \subseteq Elems(todo')
        /\ Elems(todo') \subseteq {"uio_reg", "extern", "irq", "periph", "mem"}
        /\ r \in {"uio", "uio_reg", "irq"} => "extern" \in Elems(todo')
        /\ r = "uio" => "uio_reg" \in Elems(todo')
    BY <2>1, FailOrdered
  <2>3. got \subseteq Elems(todo') \union {"drvdata"}
    <3> SUFFICES ASSUME NEW x \in got PROVE x \in Elems(todo') \union {"drvdata"}
      OBVIOUS
    <3>1. r \in Later(x)
      BY <1>3, <1>4, <2>1 DEF ProbeOrder, LifeInv, LifeTypeOK
    <3>2. r \notin NodeThings /\ r # "drvdata"
      BY <1>1, <2>1 DEF ZynqThings, NodeThings, Late, Infallible
    <3>3. Place(r) > Place(x)
      BY <2>1, <3>1, <3>2 DEF Later
    <3>4. x \in {"mem", "periph", "extern", "irq", "uio_reg", "uio", "uio_data", "drvdata"}
                 \union NodeGains
      BY <2>1 DEF LifeInv, HeldInv, BusGains
    <3>5. Place(r) \leq 9
      BY <2>1, <3>2 DEF Place, ZynqThings
    <3>6. x \notin NodeGains
      BY <3>3, <3>5 DEF Place, NodeGains, LostThings
    <3>7. x = "extern" => r \in {"uio", "uio_reg", "irq"}
      BY <2>1, <3>2, <3>3 DEF Place, ZynqThings
    <3>8. x = "uio_reg" => r = "uio"
      BY <2>1, <3>2, <3>3 DEF Place, ZynqThings
    <3>9. x \notin {"uio", "uio_data"}
      BY <3>3, <3>5 DEF Place
    <3> QED
      BY <2>2, <3>4, <3>6, <3>7, <3>8, <3>9
  <2>4. LifeTypeOK'
    BY <2>1, <2>2 DEF LifeInv, LifeTypeOK, modVars, irqVars
  <2>5. HeldInv'
    BY <1>1, <2>1, Same DEF LifeInv, HeldInv, irqVars
  <2>6. RemoveInv'
    <3>1. RemoveOrder' = RemoveOrder
      BY DEF RemoveOrder
    <3> QED
      BY <2>1, <2>2, <2>3, <3>1 DEF RemoveInv, Covered
  <2>7. ProbeInv' /\ CleanUnbound' /\ SteadyIsSafe'
    BY <2>1 DEF ProbeInv, CleanUnbound, SteadyIsSafe
  <2> QED
    BY <2>4, <2>5, <2>6, <2>7 DEF LifeInv
<1> QED
  BY <1>6, <1>7, <1>8, <1>9 DEF Fail, r

LEMMA LifeRemove == ASSUME LifeInv, crashed = "no", Remove PROVE LifeInv'
<1>1. /\ phase = "bound" /\ phase' = "removing" /\ todo' = RemoveSteps
      /\ UNCHANGED <<plat, reconf, modVars, got, failed, ran, irqVars, fpc, crashed>>
  BY DEF Remove
<1>2. /\ todo' \in Seq(Steps) /\ Ordered(todo', RemoveOrder)
      /\ (BusGains \ {"drvdata"}) \union LostThings \subseteq Elems(todo')
  BY <1>1, RemoveOrdered, PlatformAssumption DEF LifeInv, LifeTypeOK
<1>3. got \subseteq Covered(todo') \union {"drvdata"}
  <2>1. "accel" \in LostThings
    BY DEF LostThings
  <2> QED
    BY <1>2, <2>1 DEF LifeInv, HeldInv, NodeGains, Covered
<1>4. LifeTypeOK'
  BY <1>1, <1>2 DEF LifeInv, LifeTypeOK, modVars, irqVars
<1>5. HeldInv'
  BY <1>1, Same DEF LifeInv, HeldInv, irqVars
<1>6. RemoveInv'
  BY <1>1, <1>2, <1>3 DEF RemoveInv
<1>7. ProbeInv' /\ CleanUnbound' /\ SteadyIsSafe'
  BY <1>1 DEF ProbeInv, CleanUnbound, SteadyIsSafe
<1> QED
  BY <1>4, <1>5, <1>6, <1>7 DEF LifeInv

\* A mapping goes after everything that uses it.
LEMMA LifeRelease == ASSUME LifeInv, crashed = "no", Release PROVE LifeInv'
<1> DEFINE r == Head(todo)
           gone == IF r = "accel" THEN {"accel", "files", "hold_files"} ELSE {r}
<1>1. /\ phase \in {"removing", "failing"} /\ todo # <<>>
      /\ r = "irq" => ipc = "out"
      /\ r = "accel" => fpc = "out"
      /\ got' = got \ gone /\ todo' = Tail(todo)
      /\ UNCHANGED <<plat, reconf, modVars, phase, failed, ran, irqVars, fpc, crashed>>
  BY DEF Release
<1>2. todo \in Seq(Steps)
  BY DEF LifeInv, LifeTypeOK
<1>3. /\ Ordered(todo, RemoveOrder)
      /\ got \subseteq Covered(todo) \union {"drvdata"}
      /\ phase = "failing" =>
         plat = "zynq" /\ Elems(todo) \subseteq {"uio_reg", "extern", "irq", "periph", "mem"}
  BY <1>1 DEF LifeInv, RemoveInv
<1>4. /\ r \in Steps /\ todo' \in Seq(Steps)
      /\ Elems(todo) = {r} \union Elems(todo')
      /\ Ordered(todo', RemoveOrder) /\ Elems(todo') \subseteq RemoveOrder[r]
  BY <1>1, <1>2, <1>3, Ahead
<1> HIDE DEF r
<1>5. got' \subseteq Covered(todo') \union {"drvdata"}
  BY <1>1, <1>3, <1>4 DEF Covered
<1>6. r \in {"mem", "periph"} => "irq" \notin got' /\ "accel" \notin got'
  <2>1. r \in {"mem", "periph"} => "irq" \notin Elems(todo') /\ "accel" \notin Elems(todo')
    BY <1>4 DEF RemoveOrder
  <2> QED
    BY <1>5, <2>1 DEF Covered
<1>7. "irq" \in got' \/ "accel" \in got' => {"mem", "periph"} \subseteq got'
  BY <1>1, <1>6 DEF LifeInv, HeldInv
<1>8. LifeTypeOK'
  BY <1>1, <1>4 DEF LifeInv, LifeTypeOK, modVars, irqVars
<1>9. phase = "failing" => r # "fpga_ptr"
  BY <1>3, <1>4
<1>10. HeldInv'
  BY <1>1, <1>7, <1>9, Same DEF LifeInv, HeldInv, irqVars
<1>11. RemoveInv'
  BY <1>1, <1>3, <1>4, <1>5 DEF RemoveInv
<1>12. ProbeInv' /\ CleanUnbound' /\ SteadyIsSafe'
  BY <1>1 DEF ProbeInv, CleanUnbound, SteadyIsSafe
<1> QED
  BY <1>8, <1>10, <1>11, <1>12 DEF LifeInv

LEMMA LifeReleased == ASSUME LifeInv, crashed = "no", RemoveReturns PROVE LifeInv'
<1>1. /\ phase \in {"removing", "failing"} /\ todo = <<>>
      /\ phase' = "unbound" /\ got' = got \ {"drvdata"}
      /\ UNCHANGED <<plat, reconf, modVars, todo, failed, ran, irqVars, fpc, crashed>>
  BY DEF RemoveReturns
<1>2. got' = {}
  <2>1. Covered(todo) = {}
    BY <1>1 DEF Covered, Elems
  <2> QED
    BY <1>1, <2>1 DEF LifeInv, RemoveInv
<1>3. LifeTypeOK'
  BY <1>1, <1>2 DEF LifeInv, LifeTypeOK, modVars, irqVars
<1>4. HeldInv'
  BY <1>1, <1>2 DEF LifeInv, HeldInv, irqVars
<1>5. ProbeInv' /\ RemoveInv' /\ CleanUnbound' /\ SteadyIsSafe'
  BY <1>1, <1>2 DEF ProbeInv, RemoveInv, CleanUnbound, SteadyIsSafe
<1> QED
  BY <1>3, <1>4, <1>5 DEF LifeInv

\* A step of the handler, of a process in a file, or of an accelerator.
LEMMA LifeUse ==
  ASSUME LifeInv, crashed = "no",
         UNCHANGED <<plat, reconf, modVars, devVars, crashed>>,
         pend' \in BOOLEAN, enabled' \in BOOLEAN, msg' \in BOOLEAN, missed' \in BOOLEAN,
         flag' \in BOOLEAN,
         ipc' \in {"out", "id", "find", "flag", "ack"}, fpc' \in {"out", "use"},
         ipc' # "out" => "irq" \in got, fpc' # "out" => "accel" \in got
  PROVE  LifeInv'
<1>1. UNCHANGED <<phase, todo, got, failed>>
  BY DEF devVars
<1>2. LifeTypeOK'
  BY DEF LifeInv, LifeTypeOK, modVars, devVars
<1>3. HeldInv' /\ ProbeInv' /\ RemoveInv' /\ CleanUnbound'
  BY <1>1, LifeDevice
<1>4. SteadyIsSafe'
  BY DEF SteadyIsSafe
<1> QED
  BY <1>2, <1>3, <1>4 DEF LifeInv

\* Everything a device in use needs is there.
LEMMA InUse ==
  ASSUME LifeInv, phase = "bound", "accel" \in got
  PROVE  /\ {"drvdata", "extern", "fpga", "fpga_ptr", "fpga_data", "accel", "accel_ptr",
             "accel_data"} \subseteq got
         /\ plat = "pci" => "pd" \in got
  BY DEF LifeInv, HeldInv, Base

LEMMA LifeFile == ASSUME LifeInv, crashed = "no", FileEnter \/ FileUse PROVE LifeInv'
<1>1. CASE FileEnter
  <2>1. "accel" \in got
    BY <1>1 DEF FileEnter
  <2>2. CASE Crash("file")
    <3>1. "accel_ptr" \notin got
      BY <1>1, <2>2 DEF FileEnter, Held, Crash
    <3> QED
      BY <2>1, <2>2, <3>1, LifeCrash DEF LifeInv, HeldInv
  <2>3. CASE fpc' = "use" /\ UNCHANGED <<plat, reconf, modVars, devVars, irqVars, crashed>>
    BY <2>1, <2>3, LifeUse DEF LifeInv, LifeTypeOK, HeldInv, irqVars
  <2> QED
    BY <1>1, <2>2, <2>3 DEF FileEnter
<1>2. CASE FileUse
  <2>1. "accel" \in got
    BY <1>2 DEF FileUse, LifeInv, HeldInv
  <2>2. CASE Crash("file") /\ ~({"accel_data", "fpga_data", "extern"} \subseteq got)
    <3>1. phase = "removing"
      <4>1. phase \in {"probing", "bound", "removing"}
        BY <2>1 DEF LifeInv, HeldInv, LifeTypeOK
      <4>2. CASE phase = "probing"
        <5>1. {"accel_data", "fpga_data", "extern"} \subseteq Base \ Late
          BY DEF Base, Late
        <5> QED
          BY <2>1, <2>2, <4>2, <5>1 DEF LifeInv, ProbeInv
      <4> QED
        BY <2>1, <2>2, <4>1, <4>2, InUse
    <3> QED
      BY <2>2, <3>1, LifeCrash
  <2>3. CASE fpc' = "out" /\ UNCHANGED <<plat, reconf, modVars, devVars, irqVars, crashed>>
    BY <2>3, LifeUse DEF LifeInv, LifeTypeOK, HeldInv, irqVars
  <2> QED
    BY <1>2, <2>2, <2>3 DEF FileUse
<1> QED
  BY <1>1, <1>2

LEMMA LifeLine == ASSUME LifeInv, crashed = "no", Raise \/ MessageDropped PROVE LifeInv'
<1>1. UNCHANGED <<plat, reconf, modVars, devVars, flag, ipc, fpc, crashed>>
  BY DEF Raise, MessageDropped
<1>2. pend' \in BOOLEAN /\ enabled' \in BOOLEAN /\ msg' \in BOOLEAN /\ missed' \in BOOLEAN
  BY DEF Raise, MessageDropped, Edge, Held, LifeInv, LifeTypeOK
<1> QED
  BY <1>1, <1>2, LifeUse DEF LifeInv, LifeTypeOK, HeldInv

\* The handler stops the kernel only for want of something an accelerator in
\* use has.
LEMMA LifeHandler == ASSUME LifeInv, crashed = "no", Handler PROVE LifeInv'
<1> DEFINE Safe == phase # "bound" \/ "accel" \notin got
<1>1. "irq" \in got
  BY DEF Handler, IrqEnter, IrqId, IrqFind, IrqFlag, IrqAck, Held, LifeInv, HeldInv
<1>2. ASSUME Crash("irq"), Safe PROVE LifeInv'
  BY <1>2, LifeCrash
<1>3. ASSUME NEW l \in {"out", "id", "find", "flag", "ack"}, Goto(l),
             pend' \in BOOLEAN, enabled' \in BOOLEAN, msg' \in BOOLEAN,
             missed' \in BOOLEAN, flag' \in BOOLEAN
      PROVE  LifeInv'
  BY <1>1, <1>3, LifeUse DEF Goto, LifeInv, LifeTypeOK, HeldInv
<1>4. /\ pend \in BOOLEAN /\ enabled \in BOOLEAN /\ msg \in BOOLEAN /\ missed \in BOOLEAN
      /\ flag \in BOOLEAN /\ plat \in {"pci", "zynq"}
  BY PlatformAssumption DEF LifeInv, LifeTypeOK
<1>5. ASSUME Abandon PROVE LifeInv'
  BY <1>3, <1>4, <1>5 DEF Abandon
<1>6. CASE IrqEnter
  BY <1>3, <1>4, <1>6 DEF IrqEnter
<1>7. CASE IrqId
  <2>1. \/ Abandon
        \/ Goto("find") /\ UNCHANGED <<pend, enabled, msg, missed, flag>>
        \/ /\ Crash("irq")
           /\ \/ plat = "pci" /\ ~({"drvdata", "pd", "extern"} \subseteq got)
              \/ plat = "zynq" /\ ~({"fpga_ptr", "fpga_data", "extern"} \subseteq got)
    BY <1>7 DEF IrqId, Needs
  <2>2. CASE /\ Crash("irq")
             /\ \/ plat = "pci" /\ ~({"drvdata", "pd", "extern"} \subseteq got)
                \/ plat = "zynq" /\ ~({"fpga_ptr", "fpga_data", "extern"} \subseteq got)
    BY <1>2, <2>2, InUse
  <2> QED
    BY <1>3, <1>4, <1>5, <2>1, <2>2
<1>8. CASE IrqFind
  <2>1. \/ Abandon
        \/ Goto("flag") /\ UNCHANGED <<pend, enabled, msg, missed, flag>>
        \/ Crash("irq") /\ ~({"accel", "accel_ptr", "accel_data"} \subseteq got)
    BY <1>8 DEF IrqFind, Needs
  <2>2. CASE Crash("irq") /\ ~({"accel", "accel_ptr", "accel_data"} \subseteq got)
    BY <1>2, <2>2, InUse
  <2> QED
    BY <1>3, <1>4, <1>5, <2>1, <2>2
<1>9. CASE IrqFlag
  <2>1. \/ Goto("ack") /\ SetFlag /\ UNCHANGED <<pend, enabled, msg, missed>>
        \/ Crash("irq") /\ "accel_data" \notin got
    BY <1>9 DEF IrqFlag, Needs
  <2>2. CASE Crash("irq") /\ "accel_data" \notin got
    BY <1>2, <2>2, InUse
  <2>3. CASE Goto("ack") /\ SetFlag /\ UNCHANGED <<pend, enabled, msg, missed>>
    BY <1>3, <1>4, <2>3 DEF SetFlag, Held
  <2> QED
    BY <2>1, <2>2, <2>3
<1>10. CASE IrqAck
  <2>1. \/ Goto("out") /\ Acknowledge /\ UNCHANGED <<enabled, msg, flag>>
        \/ /\ Crash("irq")
           /\ \/ plat = "pci" /\ ~({"pd", "extern"} \subseteq got)
              \/ plat = "zynq" /\ ~({"fpga_data", "extern"} \subseteq got)
    BY <1>4, <1>10 DEF IrqAck, Needs
  <2>2. CASE /\ Crash("irq")
             /\ \/ plat = "pci" /\ ~({"pd", "extern"} \subseteq got)
                \/ plat = "zynq" /\ ~({"fpga_data", "extern"} \subseteq got)
    BY <1>2, <2>2, InUse
  <2>3. CASE Goto("out") /\ Acknowledge /\ UNCHANGED <<enabled, msg, flag>>
    BY <1>3, <1>4, <2>3 DEF Acknowledge
  <2> QED
    BY <2>1, <2>2, <2>3
<1> QED
  BY <1>6, <1>7, <1>8, <1>9, <1>10 DEF Handler

LEMMA LifeInvariance == LifeSpec => []LifeInv
<1>1. LifeInv /\ [LifeNext]_lifeVars => LifeInv'
  <2> SUFFICES ASSUME LifeInv, [LifeNext]_lifeVars PROVE LifeInv'
    OBVIOUS
  <2>1. CASE UNCHANGED lifeVars
    <3>1. UNCHANGED <<plat, reconf, phase, todo, got, failed, ipc, fpc, crashed>>
      BY <2>1 DEF lifeVars, devVars, irqVars
    <3>2. LifeTypeOK'
      BY <2>1 DEF lifeVars, modVars, devVars, irqVars, LifeInv, LifeTypeOK
    <3>3. HeldInv' /\ ProbeInv' /\ RemoveInv' /\ CleanUnbound'
      BY <3>1, LifeDevice DEF LifeInv, HeldInv
    <3>4. SteadyIsSafe'
      BY <3>1 DEF LifeInv, SteadyIsSafe, Held
    <3> QED
      BY <3>2, <3>3, <3>4 DEF LifeInv
  <2>2. CASE ReleaseCrashes /\ crashed = "no"
    BY <2>2, LifeCrash DEF ReleaseCrashes
  <2>3. CASE ProbeReturns /\ crashed = "no"
    BY <2>3, LifeBound DEF ProbeReturns
  <2> QED
    BY <2>1, <2>2, <2>3, LifeModule, LifeProbe, LifeAcquire, LifeFail, LifeRemove,
       LifeRelease, LifeReleased, LifeLine, LifeHandler, LifeFile DEF LifeNext
<1> QED
  BY <1>1, LifeFirst, PTL DEF LifeSpec

-----------------------------------------------------------------------------
\* Every variable of the device life cycle keeps its type.
THEOREM TypeCorrect == LifeSpec => []LifeTypeOK
<1>1. LifeInv => LifeTypeOK
  BY DEF LifeInv
<1> QED
  BY <1>1, LifeInvariance, PTL

\* Whatever probe, its failure or remove are doing, the interrupt handler and
\* a process in a file of the accelerator find the registers mapped.
THEOREM RegistersAreMapped == LifeSpec => []RegistersMapped
<1>1. LifeInv => RegistersMapped
  BY DEF LifeInv, HeldInv, RegistersMapped
<1> QED
  BY <1>1, LifeInvariance, PTL

\* Each step of probe that acquires has one that releases, on every path but
\* the early returns of the PCI probe.
THEOREM NothingLeft == LifeSpec => []CleanUnbound
<1>1. LifeInv => CleanUnbound
  BY DEF LifeInv
<1> QED
  BY <1>1, LifeInvariance, PTL

\* No interrupt stops the kernel on a device with its nodes, and no file
\* access unless it is being removed.
THEOREM SteadySafe == LifeSpec => []SteadyIsSafe
<1>1. LifeInv => SteadyIsSafe
  BY DEF LifeInv
<1> QED
  BY <1>1, LifeInvariance, PTL

=============================================================================
