-------------------------- MODULE HoldControlProofs --------------------------
(***************************************************************************)
(* Theorems about HoldControl.  The agreement of flag, mask and lines, and *)
(* what rests on it, needs stores to accel_hold that do not overlap: they  *)
(* are proved for a single writer and any number of accelerators.          *)
(***************************************************************************)
EXTENDS HoldControl, TLAPS

\* At most one process stores to accel_hold.
OneWriter == \A v, w \in Writers : v = w

-----------------------------------------------------------------------------
(* Types.                                                                   *)

\* Every variable keeps its type, for any writers, accelerators and bound.
THEOREM TypeCorrect == HoldSpec => []HoldTypeOK
<1>1. HoldInit => HoldTypeOK
  BY HoldAssumption DEF HoldInit, HoldTypeOK
<1>2. HoldTypeOK /\ [HoldNext]_holdVars => HoldTypeOK'
  <2> SUFFICES ASSUME HoldTypeOK, [HoldNext]_holdVars PROVE HoldTypeOK'
    OBVIOUS
  <2> USE DEF HoldTypeOK
  <2>1. ASSUME NEW w \in Writers, NEW a \in Accels, NEW v \in BOOLEAN, HoldRead(w, a, v)
        PROVE  HoldTypeOK'
    <3>1. NewMask(v, a) \subseteq Accels
      BY DEF NewMask
    <3>2. stores' \in Nat
      BY <2>1 DEF HoldRead
    <3> QED
      BY <2>1, <3>1, <3>2 DEF HoldRead, hwVars
  <2>2. ASSUME NEW w \in Writers, Store(w) PROVE HoldTypeOK'
    BY <2>2 DEF Store, HoldSetMask, HoldSetGpio, HoldSetHeld, hwVars
  <2>3. ASSUME NEW a \in Accels, StartCheck(a) PROVE HoldTypeOK'
    <3>1. Storing(a) \in BOOLEAN
      BY DEF Storing
    <3> QED
      BY <2>3, <3>1 DEF StartCheck, Begin, hwVars, writerVars
  <2>4. ASSUME NEW a \in Accels, Thread(a) PROVE HoldTypeOK'
    <3>1. Storing(a) \in BOOLEAN
      BY DEF Storing
    <3> QED
      BY <2>4, <3>1 DEF Thread, StartWrite, IdleCheck, IdleRead, Begin, hwVars, writerVars
  <2>5. ASSUME NEW a \in Accels, CoreDone(a) PROVE HoldTypeOK'
    BY <2>5 DEF CoreDone, writerVars
  <2>6. CASE UNCHANGED holdVars
    BY <2>6 DEF holdVars
  <2> QED
    BY <2>1, <2>2, <2>3, <2>4, <2>5, <2>6 DEF HoldNext
<1> QED
  BY <1>1, <1>2, PTL DEF HoldSpec

-----------------------------------------------------------------------------
(* One writer: how far its store has come tells what agrees.                *)

\* The mask a store is about to set: NewMask applied to lines g.
Target(w, g) ==
  IF wval[w] THEN g \union {wacc[w]} ELSE g \ {wacc[w]}

Agrees(a) == held[a] <=> a \in gpio

AgreeInv ==
  /\ (\A w \in Writers : wpc[w] = "out") => mask = gpio /\ \A a \in Accels : Agrees(a)
  /\ \A w \in Writers :
       /\ wpc[w] = "mask" => /\ mask = gpio /\ wmask[w] = Target(w, gpio)
                             /\ \A a \in Accels : Agrees(a)
       /\ wpc[w] = "gpio" => /\ mask = wmask[w] /\ wmask[w] = Target(w, gpio)
                             /\ \A a \in Accels : Agrees(a)
       /\ wpc[w] = "held" => /\ mask = gpio /\ (wval[w] <=> wacc[w] \in gpio)
                             /\ \A a \in Accels \ {wacc[w]} : Agrees(a)

LEMMA AgreeInit == HoldInit => AgreeInv
  BY DEF HoldInit, AgreeInv, Agrees

\* The steps of a store.
LEMMA AgreeStore ==
  ASSUME OneWriter, HoldTypeOK, AgreeInv, NEW w \in Writers,
         (\E a \in Accels, v \in BOOLEAN : HoldRead(w, a, v)) \/ Store(w)
  PROVE  AgreeInv'
<1>1. ASSUME NEW a \in Accels, NEW v \in BOOLEAN, HoldRead(w, a, v) PROVE AgreeInv'
  <2> USE DEF OneWriter, HoldTypeOK, AgreeInv, Agrees, Target
  <2>1. \A u \in Writers : wpc[u] = "out"
    BY <1>1 DEF HoldRead
  <2>2. wmask'[w] = Target(w, gpio)'
    BY <1>1, <2>1 DEF HoldRead, NewMask, hwVars
  <2> QED
    BY <1>1, <2>1, <2>2 DEF HoldRead, hwVars
<1>2. CASE HoldSetMask(w)
  BY <1>2 DEF HoldSetMask, hwVars, OneWriter, HoldTypeOK, AgreeInv, Agrees, Target
<1>3. CASE HoldSetGpio(w)
  BY <1>3 DEF HoldSetGpio, OneWriter, HoldTypeOK, AgreeInv, Agrees, Target
<1>4. CASE HoldSetHeld(w)
  BY <1>4 DEF HoldSetHeld, hwVars, OneWriter, HoldTypeOK, AgreeInv, Agrees, Target
<1> QED
  BY <1>1, <1>2, <1>3, <1>4 DEF Store

\* No other step writes what AgreeInv is about.
LEMMA AgreeStep ==
  ASSUME OneWriter, HoldTypeOK, AgreeInv, [HoldNext]_holdVars
  PROVE  AgreeInv'
<1>1. ASSUME UNCHANGED <<mask, gpio, held, wpc, wacc, wval, wmask>> PROVE AgreeInv'
  BY <1>1 DEF AgreeInv, Agrees, Target
<1>2. ASSUME NEW w \in Writers,
             (\E a \in Accels, v \in BOOLEAN : HoldRead(w, a, v)) \/ Store(w)
      PROVE  AgreeInv'
  BY <1>2, AgreeStore
<1>3. ASSUME NEW a \in Accels, StartCheck(a) \/ Thread(a) \/ CoreDone(a)
      PROVE  UNCHANGED <<mask, gpio, held, wpc, wacc, wval, wmask>>
  BY <1>3 DEF StartCheck, Thread, StartWrite, IdleCheck, IdleRead, CoreDone, hwVars, writerVars
<1>4. CASE UNCHANGED holdVars
  BY <1>1, <1>4 DEF holdVars
<1> QED
  BY <1>1, <1>2, <1>3, <1>4 DEF HoldNext

-----------------------------------------------------------------------------
(* What the steps keep for the host threads.                                *)

\* A thread that got past its check of held without a store in sight.
MetInv ==
  \A a \in Accels : upc[a] \in {"start", "idle"} /\ ~met[a] => ~held[a] /\ ~Storing(a)

\* A run that nobody has interfered with: the core is free, and has been
\* started unless the start is still to come.
WholeInv ==
  \A a \in Accels : whole[a] =>
    /\ ~Storing(a)
    /\ upc[a] # "stopped" => ~held[a]
    /\ upc[a] \in {"poll", "idle"} => core[a] = "running" \/ done[a]
    /\ upc[a] = "stopped" => done[a]

HostInv == MetInv /\ WholeInv

LEMMA HostInit == HoldInit => HostInv
  BY DEF HoldInit, HostInv, MetInv, WholeInv, Storing

LEMMA HostHoldRead ==
  ASSUME HoldTypeOK, HostInv, NEW w \in Writers, NEW a \in Accels, NEW v \in BOOLEAN,
         HoldRead(w, a, v)
  PROVE  HostInv'
<1>1. \A b \in Accels \ {a} : Storing(b)' = Storing(b)
  BY DEF HoldTypeOK, HoldRead, Storing
<1>2. met'[a] /\ ~whole'[a]
  BY DEF HoldTypeOK, HoldRead
<1>3. \A b \in Accels \ {a} : met'[b] = met[b] /\ whole'[b] = whole[b]
  BY DEF HoldTypeOK, HoldRead
<1> QED
  BY <1>1, <1>2, <1>3 DEF HoldTypeOK, HostInv, MetInv, WholeInv, HoldRead, hwVars

\* A store resets no core but its own, whose run is not whole.
LEMMA HostStore ==
  ASSUME OneWriter, HoldTypeOK, AgreeInv, HostInv, NEW w \in Writers, Store(w)
  PROVE  HostInv'
<1> USE DEF HoldTypeOK, HostInv, MetInv, WholeInv
<1>1. Storing(wacc[w])
  BY DEF Store, HoldSetMask, HoldSetGpio, HoldSetHeld, Storing
<1>2. \A a \in Accels : Storing(a)' => Storing(a)
  BY DEF Store, HoldSetMask, HoldSetGpio, HoldSetHeld, Storing
<1>3. CASE HoldSetMask(w)
  BY <1>2, <1>3 DEF HoldSetMask, hwVars
<1>4. CASE HoldSetGpio(w)
  <2>1. \A a \in Accels : a \in wmask[w] /\ a # wacc[w] => held[a]
    BY <1>4 DEF HoldSetGpio, AgreeInv, Target, Agrees
  <2>2. \A a \in Accels : whole[a] /\ upc[a] # "stopped" => core'[a] = core[a]
    BY <1>1, <1>4, <2>1 DEF HoldSetGpio
  <2>3. UNCHANGED <<held, upc, done, met, whole>>
    BY <1>4 DEF HoldSetGpio
  <2> QED
    BY <1>2, <2>2, <2>3
<1>5. CASE HoldSetHeld(w)
  <2>1. \A a \in Accels : ~Storing(a) => held'[a] = held[a]
    BY <1>1, <1>5 DEF HoldSetHeld
  <2>2. ~met[wacc[w]] => upc[wacc[w]] \notin {"start", "idle"}
    BY <1>1
  <2>3. ~whole[wacc[w]]
    BY <1>1
  <2>4. UNCHANGED <<core, upc, done, met, whole>>
    BY <1>5 DEF HoldSetHeld, hwVars
  <2> QED
    BY <1>2, <2>1, <2>2, <2>3, <2>4
<1> QED
  BY <1>3, <1>4, <1>5 DEF Store

LEMMA HostThread ==
  ASSUME HoldTypeOK, HostInv, NEW a \in Accels, StartCheck(a) \/ Thread(a) \/ CoreDone(a)
  PROVE  HostInv'
<1> USE DEF HoldTypeOK, HostInv, MetInv, WholeInv
<1>1. \A b \in Accels : Storing(b)' = Storing(b)
  BY DEF StartCheck, Thread, StartWrite, IdleCheck, IdleRead, CoreDone, writerVars, Storing
<1>2. Storing(a) \in BOOLEAN
  BY DEF Storing
<1>3. CASE StartCheck(a)
  BY <1>1, <1>2, <1>3 DEF StartCheck, Begin, hwVars, writerVars
<1>4. CASE StartWrite(a)
  BY <1>1, <1>4 DEF StartWrite, writerVars
<1>5. CASE IdleCheck(a)
  BY <1>1, <1>2, <1>5 DEF IdleCheck, Begin, hwVars, writerVars
<1>6. CASE IdleRead(a)
  BY <1>1, <1>6 DEF IdleRead, hwVars, writerVars
<1>7. CASE CoreDone(a)
  BY <1>1, <1>7 DEF CoreDone, writerVars
<1> QED
  BY <1>3, <1>4, <1>5, <1>6, <1>7 DEF Thread

LEMMA HostStep ==
  ASSUME OneWriter, HoldTypeOK, AgreeInv, HostInv, [HoldNext]_holdVars
  PROVE  HostInv'
<1>1. CASE UNCHANGED holdVars
  BY <1>1 DEF holdVars, HostInv, MetInv, WholeInv, Storing
<1> QED
  BY <1>1, HostHoldRead, HostStore, HostThread DEF HoldNext

-----------------------------------------------------------------------------
LEMMA Induction == OneWriter => (HoldSpec => [](HoldTypeOK /\ AgreeInv /\ HostInv))
<1> SUFFICES ASSUME OneWriter PROVE HoldSpec => [](HoldTypeOK /\ AgreeInv /\ HostInv)
  OBVIOUS
<1>1. HoldTypeOK /\ AgreeInv /\ HostInv /\ [HoldNext]_holdVars => AgreeInv' /\ HostInv'
  BY AgreeStep, HostStep
<1> QED
  BY <1>1, AgreeInit, HostInit, TypeCorrect, PTL DEF HoldSpec

\* With one process that stores to accel_hold, its file, the remembered mask
\* and the lines agree whenever no store is in progress.
THEOREM HoldAgrees == OneWriter => (HoldSpec => []HeldAgrees)
<1> SUFFICES ASSUME OneWriter PROVE HoldSpec => []HeldAgrees
  OBVIOUS
<1>1. AgreeInv => HeldAgrees
  BY DEF AgreeInv, Agrees, HeldAgrees
<1> QED
  BY <1>1, Induction, PTL

\* With one such process, a start or a read of accel_idle meets a core that
\* cannot answer only if a store overlaps it.
THEOREM StallsOverlap == OneWriter => (HoldSpec => []StallNeedsOverlap)
<1> SUFFICES ASSUME OneWriter PROVE HoldSpec => []StallNeedsOverlap
  OBVIOUS
<1>1. HoldTypeOK /\ AgreeInv /\ MetInv => StallNeedsOverlap
  <2> SUFFICES ASSUME HoldTypeOK, AgreeInv, MetInv, NEW a \in Accels,
                      upc[a] \in {"start", "idle"}, a \in gpio, ~met[a]
               PROVE  FALSE
    BY DEF StallNeedsOverlap, HoldTypeOK
  <2>1. ~held[a] /\ ~Storing(a)
    BY DEF MetInv
  <2>2. \A w \in Writers : wpc[w] # "out" => wacc[w] # a
    BY <2>1 DEF Storing
  <2> QED
    BY <2>1, <2>2 DEF AgreeInv, Agrees, HoldTypeOK
<1> QED
  BY <1>1, Induction, PTL DEF HostInv

\* With one such process, a run that fpga_run takes for finished has been
\* carried out, unless the core was held at its start or a store came since.
THEOREM FinishedHasRun == OneWriter => (HoldSpec => []RanUnlessHeld)
<1> SUFFICES ASSUME OneWriter PROVE HoldSpec => []RanUnlessHeld
  OBVIOUS
<1>1. WholeInv => RanUnlessHeld
  BY DEF WholeInv, RanUnlessHeld
<1> QED
  BY <1>1, Induction, PTL DEF HostInv

\* With one such process, a hold line moves only under a store of its own.
THEOREM OwnLine == OneWriter => (HoldSpec => OnlyOwnLine)
<1> SUFFICES ASSUME OneWriter PROVE HoldSpec => OnlyOwnLine
  OBVIOUS
<1> DEFINE Own == \A a \in Accels : ((a \in gpio') # (a \in gpio)) => Storing(a)
<1>1. HoldTypeOK /\ AgreeInv /\ [HoldNext]_holdVars => [Own]_holdVars
  <2> SUFFICES ASSUME HoldTypeOK, AgreeInv, HoldNext PROVE Own
    OBVIOUS
  <2>1. CASE UNCHANGED gpio
    BY <2>1
  <2>2. ASSUME NEW w \in Writers, HoldSetGpio(w) PROVE Own
    BY <2>2 DEF HoldSetGpio, AgreeInv, Target, Storing, HoldTypeOK
  <2> QED
    BY <2>1, <2>2 DEF HoldNext, HoldRead, Store, HoldSetMask, HoldSetHeld, StartCheck, Thread,
                      StartWrite, IdleCheck, IdleRead, CoreDone, hwVars, writerVars
<1> QED
  BY <1>1, Induction, PTL DEF OnlyOwnLine, HoldSpec

=============================================================================
