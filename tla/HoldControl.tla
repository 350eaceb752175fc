---------------------------- MODULE HoldControl -----------------------------
(***************************************************************************)
(* Holding, starting and polling accelerators through sysfs.               *)
(*                                                                         *)
(* accel_hold decouples a core from the bus and keeps it in reset, so that *)
(* it can be reconfigured.  The hold lines of all cores are one GPIO       *)
(* register which cannot be read back: the driver keeps its value in       *)
(* current_hold_mask, and a flag `held` per core which accel_idle and      *)
(* accel_start consult.  Nothing is locked.  sysfs may run the stores of   *)
(* several processes, and the reads of a host thread, side by side.        *)
(*                                                                         *)
(* A held core answers no register access (wrapper.vhd drives its READY    *)
(* and VALID outputs low): the access waits until the line is released.    *)
(***************************************************************************)
EXTENDS Integers

CONSTANTS
  Accels,   \* dev->idx of the device's accelerators; get_cores() makes it {0}
  Writers,  \* processes that store to accel_hold
  MaxStores \* bound: stores to accel_hold in a behaviour

ASSUME HoldAssumption == Accels \subseteq Nat /\ MaxStores \in Nat

VARIABLES
  mask,   \* fpga->current_hold_mask, as the set of its bits
  gpio,   \* the hold lines that are driven
  held,   \* accel_data->held
  core,   \* what each core does: idle, running
  wpc,    \* writer: where it is in accel_hold_store
  wacc,   \* writer: the accelerator it stores to
  wval,   \* writer: the value it stores
  wmask,  \* writer: hold_mask of juniper_interp_accel_hold
  upc,    \* the host thread of each accelerator, in fpga_run
  stores, \* history: stores begun
  done,   \* history: the core completed the run last asked for
  met,    \* history: a store to this accelerator overlaps the host's request
  whole   \* history: not held when last started, and no store to it since

hwVars     == <<gpio, core>>
writerVars == <<wpc, wacc, wval, wmask, mask, held, stores>>
holdVars == <<mask, gpio, held, core, wpc, wacc, wval, wmask, upc, stores, done,
              met, whole>>

\* A store to a's accel_hold is in progress.
Storing(a) == \E w \in Writers : wpc[w] # "out" /\ wacc[w] = a

\* juniper_interp_init has removed the hold on everything.
HoldInit ==
  /\ mask = {} /\ gpio = {}
  /\ held = [a \in Accels |-> FALSE]
  /\ core = [a \in Accels |-> "idle"]
  /\ wpc = [w \in Writers |-> "out"]
  /\ wacc \in [Writers -> Accels]
  /\ wval = [w \in Writers |-> FALSE]
  /\ wmask = [w \in Writers |-> {}]
  /\ upc = [a \in Accels |-> "stopped"]
  /\ stores = 0
  /\ done = [a \in Accels |-> TRUE]
  /\ met = [a \in Accels |-> FALSE]
  /\ whole = [a \in Accels |-> TRUE]

-----------------------------------------------------------------------------
(* accel_hold_store and juniper_interp_accel_hold *)

\* mutant: releasing one core releases them all.
NewMask_ClearAll(v, a) == IF v THEN mask \union {a} ELSE {}

\* mutant: the bit is the interrupt's number, one above the core's.
NewMask_IrqBit(v, a) == IF v THEN mask \union {a + 1} ELSE mask \ {a + 1}

NewMask(v, a) == IF v THEN mask \union {a} ELSE mask \ {a}

\* hold_mask is computed from current_hold_mask.
HoldRead(w, a, v) ==
  /\ wpc[w] = "out" /\ stores < MaxStores
  /\ stores' = stores + 1
  /\ wpc' = [wpc EXCEPT ![w] = "mask"]
  /\ wacc' = [wacc EXCEPT ![w] = a]
  /\ wval' = [wval EXCEPT ![w] = v]
  /\ wmask' = [wmask EXCEPT ![w] = NewMask(v, a)]
  /\ met' = [met EXCEPT ![a] = TRUE]
  /\ whole' = [whole EXCEPT ![a] = FALSE]
  /\ UNCHANGED <<mask, held, hwVars, upc, done>>

HoldSetMask(w) ==
  /\ wpc[w] = "mask"
  /\ wpc' = [wpc EXCEPT ![w] = "gpio"]
  /\ mask' = wmask[w]
  /\ UNCHANGED <<wacc, wval, wmask, held, stores, hwVars, upc, done, met, whole>>

\* The lines change; a core whose line rises is reset.
HoldSetGpio(w) ==
  /\ wpc[w] = "gpio"
  /\ wpc' = [wpc EXCEPT ![w] = "held"]
  /\ gpio' = wmask[w]
  /\ core' = [a \in Accels |-> IF a \in wmask[w] THEN "idle" ELSE core[a]]
  /\ UNCHANGED <<mask, wacc, wval, wmask, held, stores, upc, done, met, whole>>

\* mutant: releasing leaves held as it was.
HoldSetHeld_OnlyRaise(w) ==
  /\ wpc[w] = "held"
  /\ wpc' = [wpc EXCEPT ![w] = "out"]
  /\ held' = [held EXCEPT ![wacc[w]] = held[wacc[w]] \/ wval[w]]
  /\ UNCHANGED <<mask, wacc, wval, wmask, stores, hwVars, upc, done, met, whole>>

HoldSetHeld(w) ==
  /\ wpc[w] = "held"
  /\ wpc' = [wpc EXCEPT ![w] = "out"]
  /\ held' = [held EXCEPT ![wacc[w]] = wval[w]]
  /\ UNCHANGED <<mask, wacc, wval, wmask, stores, hwVars, upc, done, met, whole>>

Store(w) == HoldSetMask(w) \/ HoldSetGpio(w) \/ HoldSetHeld(w)

-----------------------------------------------------------------------------
(* The host thread of an accelerator: accel_start, then accel_idle until it *)
(* reads 1.  juniper_interp_accel_start and _idle look at held first.       *)

\* A request begins: does a store overlap it, or may one still?
Begin(a) == met' = [met EXCEPT ![a] = Storing(a)]

\* held: the start is dropped and the store still reports success.
StartCheck(a) ==
  /\ upc[a] = "stopped"
  /\ upc' = [upc EXCEPT ![a] = IF held[a] THEN "poll" ELSE "start"]
  /\ done' = [done EXCEPT ![a] = FALSE]
  /\ whole' = [whole EXCEPT ![a] = ~held[a] /\ ~Storing(a)]
  /\ Begin(a)
  /\ UNCHANGED <<writerVars, hwVars>>

\* mutant: the status is written back as it was read.
StartWrite_NoBit(a) ==
  /\ upc[a] = "start" /\ a \notin gpio
  /\ upc' = [upc EXCEPT ![a] = "poll"]
  /\ UNCHANGED <<writerVars, hwVars, done, met, whole>>

\* The start bit is set in the control register of a core that answers.
StartWrite(a) ==
  /\ upc[a] = "start" /\ a \notin gpio
  /\ upc' = [upc EXCEPT ![a] = "poll"]
  /\ core' = [core EXCEPT ![a] = "running"]
  /\ UNCHANGED <<writerVars, gpio, done, met, whole>>

\* mutant: accel_idle does not look at held.
IdleCheck_Unchecked(a) ==
  /\ upc[a] = "poll"
  /\ upc' = [upc EXCEPT ![a] = "idle"]
  /\ Begin(a)
  /\ UNCHANGED <<writerVars, hwVars, done, whole>>

\* held: not idle.
IdleCheck(a) ==
  /\ upc[a] = "poll"
  /\ upc' = [upc EXCEPT ![a] = IF held[a] THEN "poll" ELSE "idle"]
  /\ Begin(a)
  /\ UNCHANGED <<writerVars, hwVars, done, whole>>

\* mutant: the done bit is read in place of the idle bit.
IdleRead_DoneBit(a) ==
  /\ upc[a] = "idle" /\ a \notin gpio
  /\ upc' = [upc EXCEPT ![a] = IF done[a] THEN "stopped" ELSE "poll"]
  /\ UNCHANGED <<writerVars, hwVars, done, met, whole>>

\* The idle bit of the control register.
IdleRead(a) ==
  /\ upc[a] = "idle" /\ a \notin gpio
  /\ upc' = [upc EXCEPT ![a] = IF core[a] = "idle" THEN "stopped" ELSE "poll"]
  /\ UNCHANGED <<writerVars, hwVars, done, met, whole>>

\* The core ends its run.
CoreDone(a) ==
  /\ core[a] = "running"
  /\ core' = [core EXCEPT ![a] = "idle"]
  /\ done' = [done EXCEPT ![a] = TRUE]
  /\ UNCHANGED <<writerVars, gpio, upc, met, whole>>

Thread(a) == StartWrite(a) \/ IdleCheck(a) \/ IdleRead(a)

HoldNext ==
  \/ \E w \in Writers, a \in Accels, v \in BOOLEAN : HoldRead(w, a, v)
  \/ \E w \in Writers : Store(w)
  \/ \E a \in Accels : StartCheck(a) \/ Thread(a) \/ CoreDone(a)

HoldSpec == HoldInit /\ [][HoldNext]_holdVars

\* Calls in progress are scheduled; nobody is obliged to begin one.
HoldFairSpec ==
  /\ HoldSpec
  /\ \A w \in Writers : WF_holdVars(Store(w))
  /\ \A a \in Accels : WF_holdVars(Thread(a)) /\ WF_holdVars(CoreDone(a))

-----------------------------------------------------------------------------
(* Properties *)

\* Every variable keeps its type; the register has no line but the cores'.
HoldTypeOK ==
  /\ mask \subseteq Accels /\ gpio \subseteq Accels
  /\ held \in [Accels -> BOOLEAN]
  /\ core \in [Accels -> {"idle", "running"}]
  /\ wpc \in [Writers -> {"out", "mask", "gpio", "held"}]
  /\ wacc \in [Writers -> Accels]
  /\ wval \in [Writers -> BOOLEAN]
  /\ wmask \in [Writers -> SUBSET Accels]
  /\ upc \in [Accels -> {"stopped", "start", "poll", "idle"}]
  /\ stores \in Nat
  /\ done \in [Accels -> BOOLEAN] /\ met \in [Accels -> BOOLEAN]
  /\ whole \in [Accels -> BOOLEAN]

\* With no store in progress, accel_hold reads what the hold line is, and the
\* remembered mask is the register's value.
HeldAgrees ==
  (\A w \in Writers : wpc[w] = "out") =>
    /\ mask = gpio
    /\ \A a \in Accels : held[a] <=> a \in gpio

\* A hold line only moves under a store to its own accelerator.
OnlyOwnLine ==
  [][\A a \in Accels : ((a \in gpio') # (a \in gpio)) => Storing(a)]_holdVars

\* accel_start and accel_idle look at held so as not to touch a core that
\* cannot answer; they find one only when a store to accel_hold overlaps them.
StallNeedsOverlap ==
  \A a \in Accels : upc[a] \in {"start", "idle"} /\ a \in gpio => met[a]

\* When fpga_run takes the accelerator for idle, the run it asked for has been
\* carried out, unless the core was held when it was started, or a store to
\* accel_hold has come since: a refused start reports success, and a hold
\* resets the core (juniper_interp.c:123-136, prepare_src_project.py:145-148).
RanUnlessHeld == \A a \in Accels : upc[a] = "stopped" /\ whole[a] => done[a]

\* Once every hold has been released for good, a host thread in fpga_run ends.
RunEnds ==
  \A a \in Accels :
    <>[](~held[a] /\ a \notin gpio) => (upc[a] # "stopped" ~> upc[a] = "stopped")

=============================================================================
