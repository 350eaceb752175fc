------------------------- MODULE SyscallLinkProofs --------------------------
(***************************************************************************)
(* Theorems about SyscallLink, for every set of commands and words, every  *)
(* host handler, every number of runs and calls.                           *)
(***************************************************************************)
EXTENDS SyscallLink, TLAPS

\* The assumption on the constants, in the form the steps use it.
LEMMA ConstantFacts ==
  /\ Zero \in Vals
  /\ \A v \in Args : v \in Vals
  /\ \A v \in Vals : LowByte[v] \in Cmds
  /\ \A c \in Cmds, v \in Vals : Serve[c][v] \in Vals
BY ConstantsAssumption DEF ConstantsAssumption

LEMMA PlacesStep == PlacesOK /\ [Next]_vars => PlacesOK'
<1> SUFFICES ASSUME PlacesOK, [Next]_vars PROVE PlacesOK'
  OBVIOUS
<1> USE DEF PlacesOK, AccelPcs, IrqPcs, HostPcs,
    accelVars, irqVars, replyVars, hostVars, callVars
<1>1. CASE ForceCmd \/ ForceArg \/ ForceInt
  BY <1>1 DEF ForceCmd, ForceArg, ForceInt, Pulse
<1>2. CASE SysCmd \/ SysArg \/ SysInt
  BY <1>2 DEF SysCmd, SysArg, SysInt, Pulse
<1>3. CASE WaitAA \/ Wait55 \/ SysReturn \/ AccelDone
  BY <1>3 DEF WaitAA, Wait55, SysReturn, AccelDone
<1>4. CASE Irq
  BY <1>4 DEF Irq, IrqRead, IrqSetFlag, IrqAck
<1>5. CASE Start \/ PollIdle
  BY <1>5 DEF Start, PollIdle
<1>6. CASE Show1 \/ Show2 \/ ReadCmd \/ ReadArg
  BY <1>6 DEF Show1, Show2, ReadCmd, ReadArg
<1>7. CASE Exec \/ Reply
  BY <1>7 DEF Exec, Reply, WriteArg, WriteKnock
<1>8. CASE UNCHANGED vars
  BY <1>8 DEF vars
<1> QED
  BY <1>1, <1>2, <1>3, <1>4, <1>5, <1>6, <1>7, <1>8
  DEF Next, Accel, Host, Finished

LEMMA CountersStep == CountersOK /\ [Next]_vars => CountersOK'
<1> SUFFICES ASSUME CountersOK, [Next]_vars PROVE CountersOK'
  OBVIOUS
<1> USE DEF CountersOK, accelVars, irqVars, replyVars, hostVars, callVars
<1>1. CASE ForceCmd \/ ForceArg \/ ForceInt
  BY <1>1 DEF ForceCmd, ForceArg, ForceInt, Pulse
<1>2. CASE SysCmd \/ SysArg \/ SysInt
  BY <1>2 DEF SysCmd, SysArg, SysInt, Pulse
<1>3. CASE WaitAA \/ Wait55 \/ SysReturn \/ AccelDone
  BY <1>3 DEF WaitAA, Wait55, SysReturn, AccelDone
<1>4. CASE Irq
  BY <1>4 DEF Irq, IrqRead, IrqSetFlag, IrqAck
<1>5. CASE Start \/ PollIdle
  BY <1>5 DEF Start, PollIdle
<1>6. CASE Show1 \/ Show2 \/ ReadCmd \/ ReadArg
  BY <1>6 DEF Show1, Show2, ReadCmd, ReadArg
<1>7. CASE Exec \/ Reply
  BY <1>7 DEF Exec, Reply, WriteArg, WriteKnock
<1>8. CASE UNCHANGED vars
  BY <1>8 DEF vars
<1> QED
  BY <1>1, <1>2, <1>3, <1>4, <1>5, <1>6, <1>7, <1>8
  DEF Next, Accel, Host, Finished

LEMMA FlagsStep == FlagsOK /\ [Next]_vars => FlagsOK'
<1> SUFFICES ASSUME FlagsOK, [Next]_vars PROVE FlagsOK'
  OBVIOUS
<1> USE DEF FlagsOK, accelVars, irqVars, replyVars, hostVars, callVars
<1>1. CASE ForceCmd \/ ForceArg \/ ForceInt
  BY <1>1 DEF ForceCmd, ForceArg, ForceInt, Pulse
<1>2. CASE SysCmd \/ SysArg \/ SysInt
  BY <1>2 DEF SysCmd, SysArg, SysInt, Pulse, Settled
<1>3. CASE WaitAA \/ Wait55 \/ SysReturn \/ AccelDone
  BY <1>3 DEF WaitAA, Wait55, SysReturn, AccelDone
<1>4. CASE Irq
  BY <1>4 DEF Irq, IrqRead, IrqSetFlag, IrqAck
<1>5. CASE Start \/ PollIdle
  BY <1>5 DEF Start, PollIdle
<1>6. CASE Show1 \/ Show2 \/ ReadCmd \/ ReadArg
  BY <1>6 DEF Show1, Show2, ReadCmd, ReadArg
<1>7. CASE Exec \/ Reply
  BY <1>7 DEF Exec, Reply, WriteArg, WriteKnock
<1>8. CASE UNCHANGED vars
  BY <1>8 DEF vars
<1> QED
  BY <1>1, <1>2, <1>3, <1>4, <1>5, <1>6, <1>7, <1>8
  DEF Next, Accel, Host, Finished

LEMMA DataStep == DataOK /\ [Next]_vars => DataOK'
<1> SUFFICES ASSUME DataOK, [Next]_vars PROVE DataOK'
  OBVIOUS
<1> USE ConstantFacts DEF DataOK, accelVars, irqVars, replyVars, hostVars, callVars
<1>1. CASE ForceCmd \/ ForceArg \/ ForceInt
  BY <1>1 DEF ForceCmd, ForceArg, ForceInt, Pulse
<1>2. CASE SysCmd \/ SysArg \/ SysInt
  BY <1>2 DEF SysCmd, SysArg, SysInt, Pulse
<1>3. CASE WaitAA \/ Wait55 \/ SysReturn \/ AccelDone
  BY <1>3 DEF WaitAA, Wait55, SysReturn, AccelDone
<1>4. CASE Irq
  BY <1>4 DEF Irq, IrqRead, IrqSetFlag, IrqAck
<1>5. CASE Start \/ PollIdle
  BY <1>5 DEF Start, PollIdle
<1>6. CASE Show1 \/ Show2 \/ ReadCmd \/ ReadArg
  BY <1>6 DEF Show1, Show2, ReadCmd, ReadArg
<1>7. CASE Exec \/ Reply
  BY <1>7 DEF Exec, Reply, WriteArg, WriteKnock
<1>8. CASE UNCHANGED vars
  BY <1>8 DEF vars
<1> QED
  BY <1>1, <1>2, <1>3, <1>4, <1>5, <1>6, <1>7, <1>8
  DEF Next, Accel, Host, Finished

LEMMA InitTypeOK == Init => TypeOK
<1>1. Init => PlacesOK /\ CountersOK
  BY DEF Init, PlacesOK, CountersOK, AccelPcs, IrqPcs, HostPcs
<1>2. Init => FlagsOK /\ DataOK
  BY ConstantFacts DEF Init, FlagsOK, DataOK
<1> QED
  BY <1>1, <1>2 DEF TypeOK

LEMMA TypeStep == TypeOK /\ [Next]_vars => TypeOK'
  BY PlacesStep, CountersStep, FlagsStep, DataStep DEF TypeOK

\* The registers, flags and local variables keep their types: in particular a
\* word never reaches the byte-wide command register uncut.
THEOREM TypeCorrect == Spec => []TypeOK
  BY InitTypeOK, TypeStep, PTL DEF Spec

-----------------------------------------------------------------------------
(* Services and interrupts *)

LEMMA UnservedStep == TypeOK /\ UnservedInv /\ [Next]_vars => UnservedInv'
<1> SUFFICES ASSUME TypeOK, UnservedInv, [Next]_vars PROVE UnservedInv'
  OBVIOUS
<1> USE DEF TypeOK, PlacesOK, CountersOK, FlagsOK, UnservedInv, Unserved, One,
    accelVars, irqVars, replyVars, hostVars, callVars
<1>1. CASE ForceInt \/ SysInt
  BY <1>1 DEF ForceInt, SysInt, Pulse
<1>2. CASE \/ ForceCmd \/ ForceArg \/ SysCmd \/ SysArg
           \/ WaitAA \/ Wait55 \/ SysReturn \/ AccelDone
  BY <1>2 DEF ForceCmd, ForceArg, SysCmd, SysArg,
              WaitAA, Wait55, SysReturn, AccelDone
<1>3. CASE IrqRead
  BY <1>3 DEF IrqRead
<1>4. CASE IrqSetFlag
  BY <1>4 DEF IrqSetFlag
<1>5. CASE IrqAck
  BY <1>5 DEF IrqAck
<1>6. CASE Start \/ PollIdle
  BY <1>6 DEF Start, PollIdle
<1>7. CASE Show1
  BY <1>7 DEF Show1
<1>8. CASE Show2
  BY <1>8 DEF Show2
<1>9. CASE ReadCmd \/ ReadArg
  BY <1>9 DEF ReadCmd, ReadArg
<1>10. CASE Exec
  BY <1>10 DEF Exec
<1>11. CASE Reply
  BY <1>11 DEF Reply, WriteArg, WriteKnock
<1>12. CASE UNCHANGED vars
  BY <1>12 DEF vars
<1> QED
  BY <1>1, <1>2, <1>3, <1>4, <1>5, <1>6, <1>7, <1>8, <1>9, <1>10, <1>11,
     <1>12
  DEF Next, Accel, Irq, Host, Finished

\* Every service is provoked by an interrupt of its own, in the code as it
\* stands: merging pulses loses services and never repeats one.
THEOREM EveryServiceProvoked == Spec => []ServicesProvoked
<1>1. Init => UnservedInv
  BY DEF Init, UnservedInv, Unserved, One
<1>2. TypeOK /\ UnservedInv /\ [Next]_vars => UnservedInv'
  BY UnservedStep
<1>3. TypeOK /\ UnservedInv => ServicesProvoked
  BY DEF TypeOK, CountersOK, UnservedInv, Unserved, One, ServicesProvoked
<1> QED
  BY <1>1, <1>2, <1>3, TypeCorrect, PTL DEF Spec

-----------------------------------------------------------------------------
(* Replies and returns *)

\* The first knock is shown between the host's two writes, over the result.
LEMMA KnockStep == PlacesOK /\ DataOK /\ KnockInv /\ [Next]_vars => KnockInv'
<1> SUFFICES ASSUME PlacesOK, DataOK, KnockInv, [Next]_vars PROVE KnockInv'
  OBVIOUS
<1> USE DEF PlacesOK, HostPcs, DataOK, KnockInv, accelVars, irqVars, replyVars, hostVars, callVars
<1>1. CASE Accel
  BY <1>1 DEF Accel, ForceCmd, ForceArg, ForceInt, SysCmd, SysArg, SysInt,
         WaitAA, Wait55, SysReturn, AccelDone
<1>2. CASE Irq
  BY <1>2 DEF Irq, IrqRead, IrqSetFlag, IrqAck
<1>3. CASE Start \/ PollIdle
  BY <1>3 DEF Start, PollIdle
<1>4. CASE Show1 \/ Show2 \/ ReadCmd \/ ReadArg \/ Exec
  BY <1>4 DEF Show1, Show2, ReadCmd, ReadArg, Exec
<1>5. CASE Reply
  BY <1>5 DEF Reply, WriteArg, WriteKnock
<1>6. CASE UNCHANGED vars
  BY <1>6 DEF vars
<1> QED
  BY <1>1, <1>2, <1>3, <1>4, <1>5, <1>6
  DEF Next, Host, Finished

LEMMA UnreturnedStep ==
  PlacesOK /\ CountersOK /\ UnreturnedInv /\ [Next]_vars => UnreturnedInv'
<1> SUFFICES ASSUME PlacesOK, CountersOK, UnreturnedInv, [Next]_vars
             PROVE  UnreturnedInv'
  OBVIOUS
<1> USE DEF PlacesOK, AccelPcs, HostPcs, CountersOK, UnreturnedInv, Unreturned,
    One, accelVars, irqVars, replyVars, hostVars, callVars
<1>1. CASE ForceCmd \/ ForceArg \/ ForceInt
  BY <1>1 DEF ForceCmd, ForceArg, ForceInt, Pulse
<1>2. CASE SysCmd \/ SysArg \/ SysInt
  BY <1>2 DEF SysCmd, SysArg, SysInt, Pulse
<1>3. CASE WaitAA
  BY <1>3 DEF WaitAA
<1>4. CASE Wait55
  BY <1>4 DEF Wait55
<1>5. CASE SysReturn
  BY <1>5 DEF SysReturn
<1>6. CASE AccelDone
  BY <1>6 DEF AccelDone
<1>7. CASE Irq
  BY <1>7 DEF Irq, IrqRead, IrqSetFlag, IrqAck
<1>8. CASE Start \/ PollIdle
  BY <1>8 DEF Start, PollIdle
<1>9. CASE Show1 \/ Show2 \/ ReadCmd \/ ReadArg
  BY <1>9 DEF Show1, Show2, ReadCmd, ReadArg
<1>10. CASE Exec
  BY <1>10 DEF Exec
<1>11. CASE Reply
  BY <1>11 DEF Reply, WriteArg, WriteKnock
<1>12. CASE UNCHANGED vars
  BY <1>12 DEF vars
<1> QED
  BY <1>1, <1>2, <1>3, <1>4, <1>5, <1>6, <1>7, <1>8, <1>9,
     <1>10, <1>11, <1>12
  DEF Next, Accel, Host, Finished

\* Every return of pcie_syscall consumes a service of its own: no reply is
\* read twice, however the accelerator and the host are interleaved.
THEOREM EveryReturnServed == Spec => []ReturnsServed
<1>1. Init => UnreturnedInv
  BY DEF Init, UnreturnedInv, Unreturned, One
<1>2. TypeOK /\ UnreturnedInv /\ [Next]_vars => UnreturnedInv'
  BY UnreturnedStep DEF TypeOK
<1>3. TypeOK /\ UnreturnedInv => ReturnsServed
  BY DEF TypeOK, CountersOK, UnreturnedInv, Unreturned, One, ReturnsServed
<1> QED
  BY <1>1, <1>2, <1>3, TypeCorrect, PTL DEF Spec

\* If the accelerator polls faster than the host writes, the result register
\* does not change between the first knock and the return.
THEOREM ResultIsStable == KeepsUp /\ Spec => ResultStable
<1> SUFFICES ASSUME KeepsUp PROVE Spec => ResultStable
  OBVIOUS
<1> DEFINE Inv == TypeOK /\ KnockInv /\ SecondKnockInv
<1>1. Init => Inv
  <2>1. Init => KnockInv /\ SecondKnockInv
    BY DEF Init, KnockInv, SecondKnockInv
  <2>2. Init => TypeOK
    BY InitTypeOK
  <2> QED
    BY <2>1, <2>2
<1>2. TypeOK /\ KnockInv /\ SecondKnockInv /\ [Next]_vars => SecondKnockInv'
  <2> SUFFICES ASSUME TypeOK, KnockInv, SecondKnockInv, [Next]_vars
               PROVE  SecondKnockInv'
    OBVIOUS
  <2> USE DEF TypeOK, PlacesOK, AccelPcs, HostPcs, KnockInv, SecondKnockInv,
      MayWrite, AccelSeesReply, accelVars, irqVars, replyVars, hostVars, callVars
  <2>1. CASE ForceCmd \/ ForceArg \/ ForceInt
    BY <2>1 DEF ForceCmd, ForceArg, ForceInt, Pulse
  <2>2. CASE SysCmd \/ SysArg \/ SysInt
    BY <2>2 DEF SysCmd, SysArg, SysInt, Pulse
  <2>3. CASE WaitAA
    BY <2>3 DEF WaitAA
  <2>4. CASE Wait55
    BY <2>4 DEF Wait55
  <2>5. CASE SysReturn
    BY <2>5 DEF SysReturn
  <2>6. CASE AccelDone
    BY <2>6 DEF AccelDone
  <2>7. CASE Irq
    BY <2>7 DEF Irq, IrqRead, IrqSetFlag, IrqAck
  <2>8. CASE Start \/ PollIdle
    BY <2>8 DEF Start, PollIdle
  <2>9. CASE Show1 \/ Show2 \/ ReadCmd \/ ReadArg
    BY <2>9 DEF Show1, Show2, ReadCmd, ReadArg
  <2>10. CASE Exec
    BY <2>10 DEF Exec
  <2>11. CASE Reply
    BY <2>11 DEF Reply, WriteArg, WriteKnock
  <2>12. CASE UNCHANGED vars
    BY <2>12 DEF vars
  <2> QED
    BY <2>1, <2>2, <2>3, <2>4, <2>5, <2>6, <2>7, <2>8, <2>9,
       <2>10, <2>11, <2>12
    DEF Next, Accel, Host, Finished
<1>3. Inv /\ [Next]_vars => Inv'
  BY <1>2, KnockStep, TypeStep DEF TypeOK
<1>4. Inv /\ [Next]_vars =>
        [(apc \in {"wait_55", "ret"}) => argIn' = argIn]_vars
  <2> SUFFICES ASSUME Inv, [Next]_vars, apc \in {"wait_55", "ret"}
               PROVE  argIn' = argIn
    OBVIOUS
  <2> USE DEF KnockInv, SecondKnockInv, MayWrite, AccelSeesReply,
      accelVars, irqVars, replyVars, hostVars, callVars
  <2>1. CASE Accel
    BY <2>1 DEF Accel, ForceCmd, ForceArg, ForceInt, SysCmd, SysArg, SysInt,
                WaitAA, Wait55, SysReturn, AccelDone
  <2>2. CASE Irq
    BY <2>2 DEF Irq, IrqRead, IrqSetFlag, IrqAck
  <2>3. CASE \/ Start \/ PollIdle \/ Show1 \/ Show2
             \/ ReadCmd \/ ReadArg \/ Exec
    BY <2>3 DEF Start, PollIdle, Show1, Show2, ReadCmd, ReadArg, Exec
  <2>4. CASE Reply
    BY <2>4 DEF Reply, WriteArg, WriteKnock
  <2>5. CASE UNCHANGED vars
    BY <2>5 DEF vars
  <2> QED
    BY <2>1, <2>2, <2>3, <2>4, <2>5 DEF Next, Host, Finished
<1> QED
  BY <1>1, <1>3, <1>4, PTL DEF Spec, ResultStable

-----------------------------------------------------------------------------
(* Calls that begin on a settled link *)

LEMMA UnservedNat == Unserved \in Nat /\ Unserved' \in Nat
<1>1. Unserved \in Nat
  BY DEF Unserved, One
<1>2. Unserved' \in Nat
  BY DEF Unserved, One
<1> QED
  BY <1>1, <1>2

\* What is left to serve can only become less by these steps: an interrupt is
\* handed on, from the controller to the flag and from there to the host.
LEMMA HandedOn ==
  ASSUME TypeOK,
         \/ Irq \/ PollIdle \/ Show1 \/ Show2 \/ ReadCmd \/ ReadArg \/ Reply
  PROVE  Unserved' <= Unserved
<1> USE DEF TypeOK, PlacesOK, FlagsOK, IrqPcs, HostPcs, Unserved, One,
    accelVars, irqVars, replyVars, hostVars, callVars
<1>1. CASE IrqRead
  BY <1>1 DEF IrqRead
<1>2. CASE IrqSetFlag
  BY <1>2 DEF IrqSetFlag
<1>3. CASE IrqAck
  BY <1>3 DEF IrqAck
<1>4. CASE PollIdle \/ Show1 \/ Show2
  BY <1>4 DEF PollIdle, Show1, Show2
<1>5. CASE ReadCmd \/ ReadArg
  BY <1>5 DEF ReadCmd, ReadArg
<1>6. CASE Reply
  BY <1>6 DEF Reply, WriteArg, WriteKnock
<1> QED
  BY <1>1, <1>2, <1>3, <1>4, <1>5, <1>6 DEF Irq

LEMMA FewerUnserved ==
  \A e, b, u, v \in Nat : v <= u /\ e + u <= b + 1 => e + v <= b + 1
OBVIOUS

LEMMA NoneUnserved == \A u, v \in Nat : v <= u /\ u = 0 => v = 0
OBVIOUS

\* A step of another party that hands on what is left, keeps a settled link
\* settled and brings the host no closer to a reply keeps the places.
LEMMA QuietPlacesKept ==
  ASSUME CountersOK, quiet, QuietInv,
         UNCHANGED <<apc, execs, base>>,
         Settled => Settled',
         hpc' \in {"arg_aa", "aa", "arg_55", "55"} =>
           hpc \in {"arg_aa", "aa", "arg_55", "55"},
         hpc' \in {"arg_aa", "aa"} => hpc \in {"arg_aa", "aa"},
         Unserved' <= Unserved
  PROVE  QuietPlaces'
<1> USE DEF QuietInv, QuietPlaces
<1>1. QuietBetween'
  BY DEF QuietBetween
<1>2. QuietWaiting'
  BY UnservedNat, FewerUnserved DEF QuietWaiting, CountersOK
<1>3. QuietReplied'
  BY UnservedNat, NoneUnserved DEF QuietReplied
<1> QED
  BY <1>1, <1>2, <1>3

LEMMA QuietPlacesStep ==
  ASSUME TypeOK, KnockInv, QuietInv, [Next]_vars, quiet'
  PROVE  QuietPlaces'
<1> USE DEF TypeOK
<1>1. CASE Accel
  <2> USE DEF PlacesOK, AccelPcs, IrqPcs, HostPcs, CountersOK, FlagsOK, KnockInv, QuietInv,
      QuietPlaces, QuietBetween, QuietWaiting, QuietReplied, Settled, Unserved,
      One, irqVars, replyVars, hostVars, callVars
  <2>1. CASE SysCmd
    BY <2>1 DEF SysCmd
  <2>2. CASE SysArg
    BY <2>2 DEF SysArg
  <2>3. CASE SysInt
    BY <2>3 DEF SysInt, Pulse
  <2>4. CASE WaitAA
    BY <2>4 DEF WaitAA
  <2>5. CASE Wait55
    BY <2>5 DEF Wait55
  <2>6. CASE SysReturn
    BY <2>6 DEF SysReturn
  <2>7. CASE AccelDone
    BY <2>7 DEF AccelDone
  <2>8. CASE ForceCmd \/ ForceArg \/ ForceInt
    BY <2>8 DEF ForceCmd, ForceArg, ForceInt, Pulse
  <2> QED
    BY <1>1, <2>1, <2>2, <2>3, <2>4, <2>5, <2>6, <2>7, <2>8 DEF Accel
<1>2. CASE Irq
  <2> USE DEF Irq, IrqRead, IrqSetFlag, IrqAck, accelVars, hostVars, callVars
  <2>1. quiet /\ UNCHANGED <<apc, execs, base, hpc>>
    BY <1>2
  <2>2. Settled => Settled'
    BY <1>2 DEF Settled
  <2> QED
    BY <1>2, <2>1, <2>2, HandedOn, QuietPlacesKept
<1>3. CASE Start
  BY <1>3 DEF Start
<1>4. CASE \/ PollIdle \/ Show1 \/ Show2 \/ ReadCmd \/ ReadArg
  <2> USE DEF PollIdle, Show1, Show2, ReadCmd, ReadArg,
      accelVars, irqVars, callVars
  <2>1. /\ quiet /\ UNCHANGED <<apc, execs, base>>
        /\ hpc' \notin {"arg_aa", "aa", "arg_55", "55"}
    BY <1>4
  <2>2. Settled => Settled'
    BY <1>4 DEF Settled
  <2> QED
    BY <1>4, <2>1, <2>2, HandedOn, QuietPlacesKept
<1>5. CASE Exec
  BY <1>5 DEF Exec, PlacesOK, AccelPcs, IrqPcs, CountersOK, FlagsOK, QuietInv,
      QuietPlaces, QuietBetween, QuietWaiting, QuietReplied, Settled, Unserved,
      One, accelVars, irqVars, replyVars, callVars
<1>6. CASE Reply
  <2>1. /\ quiet /\ UNCHANGED <<apc, execs, base>>
        /\ hpc \in {"arg_aa", "aa", "arg_55", "55"}
        /\ hpc' \in {"arg_aa", "aa"} => hpc \in {"arg_aa", "aa"}
        /\ ~Settled
    BY <1>6 DEF Reply, WriteArg, WriteKnock, Settled, accelVars, callVars
  <2> QED
    BY <1>6, <2>1, HandedOn, QuietPlacesKept
<1>7. CASE UNCHANGED vars
  BY <1>7 DEF vars, PlacesOK, AccelPcs, IrqPcs, HostPcs, CountersOK, FlagsOK, QuietInv,
      QuietPlaces, QuietBetween, QuietWaiting, QuietReplied, Settled, Unserved, One
<1> QED
  BY <1>1, <1>2, <1>3, <1>4, <1>5, <1>6, <1>7 DEF Next, Host, Finished

LEMMA QuietRequestStep ==
  ASSUME TypeOK, KnockInv, QuietInv, [Next]_vars, quiet'
  PROVE  QuietRequest'
<1> USE DEF TypeOK, PlacesOK, AccelPcs, IrqPcs, HostPcs, CountersOK, FlagsOK, DataOK,
    QuietInv, QuietPlaces, QuietBetween, QuietWaiting, QuietReplied, QuietRequest, Settled,
    accelVars, irqVars, replyVars, hostVars, callVars
<1>1. CASE SysCmd
  BY <1>1 DEF SysCmd
<1>2. CASE SysArg
  BY <1>2 DEF SysArg
<1>3. CASE SysInt
  BY <1>3 DEF SysInt, Pulse
<1>4. CASE WaitAA
  BY <1>4 DEF WaitAA
<1>5. CASE Wait55
  BY <1>5 DEF Wait55
<1>6. CASE SysReturn \/ AccelDone
  BY <1>6 DEF SysReturn, AccelDone
<1>7. CASE ForceCmd \/ ForceArg \/ ForceInt
  BY <1>7 DEF ForceCmd, ForceArg, ForceInt, Pulse
<1>8. CASE Irq
  BY <1>8 DEF Irq, IrqRead, IrqSetFlag, IrqAck
<1>9. CASE Start
  BY <1>9 DEF Start
<1>10. CASE PollIdle \/ Show1 \/ Show2
  BY <1>10 DEF PollIdle, Show1, Show2
<1>11. CASE ReadCmd \/ ReadArg
  BY <1>11 DEF ReadCmd, ReadArg
<1>12. CASE Exec
  BY <1>12 DEF Exec
<1>13. CASE Reply
  BY <1>13 DEF Reply, WriteArg, WriteKnock
<1>14. CASE UNCHANGED vars
  BY <1>14 DEF vars
<1> QED
  BY <1>1, <1>2, <1>3, <1>4, <1>5, <1>6, <1>7, <1>8, <1>9,
     <1>10, <1>11, <1>12, <1>13, <1>14
  DEF Next, Accel, Host, Finished

LEMMA QuietAnswerStep ==
  ASSUME TypeOK, KnockInv, QuietInv, [Next]_vars, quiet'
  PROVE  QuietAnswer'
<1> USE DEF TypeOK, PlacesOK, AccelPcs, IrqPcs, HostPcs, CountersOK, FlagsOK,
    KnockInv, QuietInv, QuietPlaces, QuietBetween, QuietWaiting, QuietReplied,
    QuietRequest, QuietAnswer, Settled, Unserved, One,
    accelVars, irqVars, replyVars, hostVars, callVars
<1>1. CASE SysCmd
  BY <1>1 DEF SysCmd
<1>2. CASE SysArg
  BY <1>2 DEF SysArg
<1>3. CASE SysInt
  BY <1>3 DEF SysInt, Pulse
<1>4. CASE WaitAA
  BY <1>4 DEF WaitAA
<1>5. CASE Wait55
  BY <1>5 DEF Wait55
<1>6. CASE SysReturn \/ AccelDone
  BY <1>6 DEF SysReturn, AccelDone
<1>7. CASE ForceCmd \/ ForceArg \/ ForceInt
  BY <1>7 DEF ForceCmd, ForceArg, ForceInt, Pulse
<1>8. CASE Irq
  BY <1>8 DEF Irq, IrqRead, IrqSetFlag, IrqAck
<1>9. CASE Start
  BY <1>9 DEF Start
<1>10. CASE PollIdle \/ Show1 \/ Show2
  BY <1>10 DEF PollIdle, Show1, Show2
<1>11. CASE ReadCmd \/ ReadArg
  BY <1>11 DEF ReadCmd, ReadArg
<1>12. CASE Exec
  BY <1>12 DEF Exec
<1>13. CASE Reply
  BY <1>13 DEF Reply, WriteArg, WriteKnock
<1>14. CASE UNCHANGED vars
  BY <1>14 DEF vars
<1> QED
  BY <1>1, <1>2, <1>3, <1>4, <1>5, <1>6, <1>7, <1>8, <1>9,
     <1>10, <1>11, <1>12, <1>13, <1>14
  DEF Next, Accel, Host, Finished

LEMMA QuietInduction == Spec => [](TypeOK /\ KnockInv /\ QuietInv)
<1>1. Init => KnockInv /\ QuietInv
  BY DEF Init, KnockInv, QuietInv
<1>2. TypeOK /\ KnockInv /\ QuietInv /\ [Next]_vars => QuietInv'
  <2> SUFFICES ASSUME TypeOK, KnockInv, QuietInv, [Next]_vars, quiet'
               PROVE  QuietPlaces' /\ QuietRequest' /\ QuietAnswer'
    BY DEF QuietInv
  <2> QED
    BY QuietPlacesStep, QuietRequestStep, QuietAnswerStep
<1>3. TypeOK /\ KnockInv /\ [Next]_vars => KnockInv'
  BY KnockStep DEF TypeOK
<1> QED
  BY <1>1, <1>2, <1>3, InitTypeOK, TypeStep, PTL DEF Spec

\* In the program as shipped, with or without the forced interrupt, a call that
\* begins on a settled link returns the host's result for its own request, and the host
\* has executed that request, once, and nothing else since the call began.
THEOREM QuietCallsAreRight == Spec => []QuietCallRight
<1>1. TypeOK /\ KnockInv /\ QuietInv => QuietCallRight
  BY DEF TypeOK, CountersOK, QuietInv, QuietPlaces, QuietReplied, QuietAnswer, QuietCallRight
<1> QED
  BY <1>1, QuietInduction, PTL

\* One such call settles the rest of its run: nothing of it is left for the next.
THEOREM QuietRunsStayQuiet == Spec => StaysQuiet
<1>1. TypeOK /\ KnockInv /\ QuietInv /\ [Next]_vars =>
        [quiet /\ apc = "run" /\ apc' = "sys_arg" => quiet']_vars
  <2> SUFFICES ASSUME QuietInv, [Next]_vars, quiet, apc = "run", apc' = "sys_arg"
               PROVE  quiet'
    OBVIOUS
  <2>1. Settled
    BY DEF QuietInv, QuietPlaces, QuietBetween
  <2>2. CASE Accel
    BY <2>1, <2>2 DEF Accel, ForceCmd, ForceArg, ForceInt, SysCmd, SysArg, SysInt,
                WaitAA, Wait55, SysReturn, AccelDone
  <2>3. CASE Irq
    BY <2>3 DEF Irq, IrqRead, IrqSetFlag, IrqAck, accelVars
  <2>4. CASE Host
    BY <2>4 DEF Host, Start, PollIdle, Show1, Show2, ReadCmd, ReadArg, Exec, Reply,
                WriteArg, WriteKnock, accelVars
  <2>5. CASE UNCHANGED vars
    BY <2>5 DEF vars
  <2> QED
    BY <2>2, <2>3, <2>4, <2>5 DEF Next, Finished
<1> QED
  BY <1>1, QuietInduction, PTL DEF Spec, StaysQuiet

-----------------------------------------------------------------------------
(* Refinement *)

LEMMA QuietStepImplements ==
  ASSUME TypeOK, KnockInv, QuietInv, [Next]_vars, quiet'
  PROVE  [Remote!AbsNext]_(Remote!absVars)
<1> USE DEF TypeOK, PlacesOK, AccelPcs, CountersOK, DataOK, absPhase, absAns,
        QuietInv, Remote!AbsNext, Remote!absVars, accelVars, irqVars, replyVars, hostVars, callVars
<1>1. CASE Start
  BY <1>1 DEF Start
<1>2. CASE SysCmd
  <2>1. req' \in Cmds \X Vals
    BY <1>2, ConstantFacts DEF SysCmd
  <2> QED
    BY <1>2, <2>1 DEF SysCmd, Remote!Ask
<1>3. CASE Exec
  <2>1. apc = "wait_aa" /\ execs = base
    BY <1>3 DEF Exec, QuietPlaces, QuietBetween, QuietWaiting, QuietReplied, Settled, Unserved, One
  <2>2. hcmd = req[1] /\ harg = req[2]
    BY <1>3, <2>1 DEF Exec, QuietRequest
  <2> QED
    BY <1>3, <2>1, <2>2 DEF Exec, Remote!Execute
<1>4. CASE SysReturn
  <2>1. argIn = hret /\ execs = base + 1
    BY <1>4 DEF SysReturn, QuietPlaces, QuietReplied, QuietAnswer
  <2> QED
    BY <1>4, <2>1 DEF SysReturn, Remote!Deliver
<1>5. CASE AccelDone
  BY <1>5 DEF AccelDone, Remote!End
<1>6. CASE SysArg \/ SysInt \/ WaitAA \/ Wait55
  BY <1>6 DEF SysArg, SysInt, WaitAA, Wait55, Pulse
<1>7. CASE ForceCmd \/ ForceArg \/ ForceInt
  BY <1>7 DEF ForceCmd, ForceArg, ForceInt, QuietPlaces, QuietBetween
<1>8. CASE Irq
  BY <1>8 DEF Irq, IrqRead, IrqSetFlag, IrqAck
<1>9. CASE PollIdle \/ Show1 \/ Show2 \/ ReadCmd \/ ReadArg
  BY <1>9 DEF PollIdle, Show1, Show2, ReadCmd, ReadArg
<1>10. CASE Reply
  BY <1>10 DEF Reply, WriteArg, WriteKnock
<1>11. CASE UNCHANGED vars
  BY <1>11 DEF vars
<1> QED
  BY <1>1, <1>2, <1>3, <1>4, <1>5, <1>6, <1>7, <1>8, <1>9, <1>10, <1>11
  DEF Next, Accel, Host, Finished

\* As shipped, every step of such a call, and every step from there to the end of
\* the run, is a step of the remote call of SyscallAbs or invisible to it.
THEOREM QuietCallsImplementRemote == Spec => QuietCallsImplement
<1>1. TypeOK /\ KnockInv /\ QuietInv /\ [Next]_vars =>
        [quiet' => [Remote!AbsNext]_(Remote!absVars)]_vars
  BY QuietStepImplements
<1> QED
  BY <1>1, QuietInduction, PTL DEF Spec, QuietCallsImplement

=============================================================================
