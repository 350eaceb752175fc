---------------------------- MODULE SyscallLink -----------------------------
(***************************************************************************)
(* The path of a system call from the accelerator to the host and back.    *)
(*                                                                         *)
(* Three parties run side by side:                                         *)
(*   - the accelerator: hls() and pcie_syscall() as synthesised by HLS;    *)
(*   - the kernel's interrupt handler juniper_sysfs_interrupted();         *)
(*   - the host thread: the generated fpga_run() loop, the handler         *)
(*     caicos_handle_pcie_interrupt() and the sysfs files they read and    *)
(*     write.                                                              *)
(* They share the AXI-Lite registers (those the accelerator writes are not *)
(* those it reads), the pending bit of the interrupt controller and the    *)
(* flag `interrupted` of struct juniper_accel_device.                      *)
(*                                                                         *)
(* Of the six argument registers the model keeps cmd and arg1: the host    *)
(* reads the others in the same way, after these, and writes none of them. *)
(***************************************************************************)
EXTENDS Integers

CONSTANTS
  Cmds,     \* command bytes
  Vals,     \* 32-bit words: arguments and results
  Args,     \* the words the accelerator's program passes as arg1
  Zero,     \* the reset value of a word register
  LowByte,  \* LowByte[v]: the command byte a word becomes when stored in cmd
  Serve,    \* Serve[c][v]: the result of the handler's switch
  KeepsUp,  \* TRUE: the accelerator polls faster than the host writes
  MaxRuns,  \* bound: runs the host starts
  MaxCalls  \* bound: system calls the accelerator makes, over all runs

ASSUME ConstantsAssumption ==
  /\ Args \subseteq Vals
  /\ Zero \in Vals
  /\ LowByte \in [Vals -> Cmds]
  /\ Serve \in [Cmds -> [Vals -> Vals]]
  /\ Cmds # {}
  /\ KeepsUp \in BOOLEAN
  /\ MaxRuns \in Nat
  /\ MaxCalls \in Nat

VARIABLES
  apc,        \* accelerator: where it is
  req,        \* accelerator: the parameters of the current pcie_syscall
  got,        \* accelerator: what the last pcie_syscall returned
  cmdOut,     \* register the accelerator writes: SYSCALL_OUT_ARG0
  argOut,     \* register the accelerator writes: SYSCALL_OUT_ARG1
  knock,      \* register the host writes: SYSCALL_ARG0
  argIn,      \* register the host writes: SYSCALL_ARG1
  isr,        \* interrupt controller: the accelerator's pending bit
  ipc,        \* interrupt handler: where it is
  flag,       \* accel_data->interrupted
  hpc,        \* host thread: where it is
  seen,       \* host: the byte accel_interrupted_show put in its buffer
  hcmd, harg, \* host: args.cmd and args.arg1 of caicos_handle_pcie_interrupt
  hret,       \* host: its rv
  runs,       \* history: runs started
  calls,      \* history: interrupts raised by pcie_syscall
  pulses,     \* history: interrupts raised, forced ones included
  execs,      \* history: services the host executed
  rets,       \* history: pcie_syscalls that returned
  owed,       \* history: a pcie_syscall interrupt the host has not yet seen
  quiet,      \* history: the last call of this run began on a settled link
  base        \* history: services executed before that call

callVars  == <<quiet, base>>
accelVars == <<apc, req, got, cmdOut, argOut, calls, pulses, rets, callVars>>
irqVars   == <<isr, ipc>>
replyVars == <<knock, argIn>>
hostVars  == <<hpc, seen, hcmd, harg, hret, runs, execs>>
vars == <<apc, req, got, cmdOut, argOut, knock, argIn, isr, ipc, flag, hpc,
          seen, hcmd, harg, hret, runs, calls, pulses, execs, rets, owed, quiet, base>>

AccelPcs == {"idle", "force_cmd", "force_arg", "force_int", "run",
             "sys_arg", "sys_int", "wait_aa", "wait_55", "ret"}
IrqPcs   == {"idle", "set", "ack"}
HostPcs  == {"stopped", "poll", "show1", "show2", "read_cmd", "read_arg",
             "exec", "arg_aa", "aa", "arg_55", "55"}

(***************************************************************************)
(* Power-up: every register reads as reset, no interrupt is pending, the   *)
(* accelerator structure has just been kzalloc'ed.                         *)
(***************************************************************************)
Init ==
  /\ apc = "idle" /\ req \in Cmds \X {Zero} /\ got = Zero
  /\ cmdOut = LowByte[Zero] /\ argOut = Zero
  /\ knock = "none" /\ argIn = Zero
  /\ isr = FALSE /\ ipc = "idle" /\ flag = FALSE
  /\ hpc = "stopped" /\ seen = FALSE
  /\ hcmd = LowByte[Zero] /\ harg = Zero /\ hret = Zero
  /\ runs = 0 /\ calls = 0 /\ pulses = 0 /\ execs = 0 /\ rets = 0
  /\ owed = FALSE /\ quiet = FALSE /\ base = 0

-----------------------------------------------------------------------------
(* The accelerator *)

\* No interrupt is on its way to the host, and the host is answering none.
Settled ==
  /\ hpc \in {"stopped", "poll", "show1"} \/ (hpc = "show2" /\ ~seen)
  /\ ~flag /\ ipc # "set" /\ ~(ipc = "idle" /\ isr)

\* do_syscall_interrupt: the pulse sets the pending bit of the controller.
Pulse ==
  /\ isr' = TRUE
  /\ pulses' = pulses + 1

\* mutant: the word is not cut down to a byte.
ForceCmd_NoCut ==
  /\ apc = "force_cmd"
  /\ apc' = "force_arg"
  /\ cmdOut' = argIn
  /\ UNCHANGED <<req, got, argOut, calls, pulses, rets, owed, flag, callVars,
                 irqVars, replyVars, hostVars>>

\* force_synthesis_of_syscall_interface: cmd := arg1, the registers read are
\* the host's, the registers written are the accelerator's.
ForceCmd ==
  /\ apc = "force_cmd"
  /\ apc' = "force_arg"
  /\ cmdOut' = LowByte[argIn]
  /\ UNCHANGED <<req, got, argOut, calls, pulses, rets, owed, flag, callVars,
                 irqVars, replyVars, hostVars>>

\* ... arg1 := arg2; the host never writes its arg2.
ForceArg ==
  /\ apc = "force_arg"
  /\ apc' = "force_int"
  /\ argOut' = Zero
  /\ UNCHANGED <<req, got, cmdOut, calls, pulses, rets, owed, flag, callVars,
                 irqVars, replyVars, hostVars>>

ForceInt ==
  /\ apc = "force_int"
  /\ apc' = "run"
  /\ Pulse
  /\ UNCHANGED <<req, got, cmdOut, argOut, calls, rets, owed, flag, callVars,
                 ipc, replyVars, hostVars>>

\* The program enters pcie_syscall, which first writes the command.
SysCmd ==
  /\ apc = "run"
  /\ calls < MaxCalls
  /\ \E c \in Cmds, v \in Args :
       /\ req' = <<c, v>>
       /\ cmdOut' = c
  /\ apc' = "sys_arg"
  /\ quiet' = Settled
  /\ base' = execs
  /\ UNCHANGED <<got, argOut, calls, pulses, rets, owed, flag,
                 irqVars, replyVars, hostVars>>

SysArg ==
  /\ apc = "sys_arg"
  /\ apc' = "sys_int"
  /\ argOut' = req[2]
  /\ UNCHANGED <<req, got, cmdOut, calls, pulses, rets, owed, flag, callVars,
                 irqVars, replyVars, hostVars>>

SysInt ==
  /\ apc = "sys_int"
  /\ apc' = "wait_aa"
  /\ Pulse
  /\ calls' = calls + 1
  /\ owed' = TRUE
  /\ UNCHANGED <<req, got, cmdOut, argOut, rets, flag, ipc, callVars,
                 replyVars, hostVars>>

\* mutant: only one knock is waited for.
WaitAA_NoSecondKnock ==
  /\ apc = "wait_aa" /\ knock = "AA"
  /\ apc' = "ret"
  /\ UNCHANGED <<req, got, cmdOut, argOut, calls, pulses, rets, owed, flag, callVars,
                 irqVars, replyVars, hostVars>>

\* mutant: only the second knock is waited for.
WaitAA_SecondKnockOnly ==
  /\ apc = "wait_aa" /\ knock = "55"
  /\ apc' = "ret"
  /\ UNCHANGED <<req, got, cmdOut, argOut, calls, pulses, rets, owed, flag, callVars,
                 irqVars, replyVars, hostVars>>

\* while(syscall_args.cmd != 0xAA);
WaitAA ==
  /\ apc = "wait_aa" /\ knock = "AA"
  /\ apc' = "wait_55"
  /\ UNCHANGED <<req, got, cmdOut, argOut, calls, pulses, rets, owed, flag, callVars,
                 irqVars, replyVars, hostVars>>

\* while(syscall_args.cmd != 0x55);
Wait55 ==
  /\ apc = "wait_55" /\ knock = "55"
  /\ apc' = "ret"
  /\ UNCHANGED <<req, got, cmdOut, argOut, calls, pulses, rets, owed, flag, callVars,
                 irqVars, replyVars, hostVars>>

\* return syscall_args.arg1;
SysReturn ==
  /\ apc = "ret"
  /\ apc' = "run"
  /\ got' = argIn
  /\ rets' = rets + 1
  /\ UNCHANGED <<req, cmdOut, argOut, calls, pulses, owed, flag, callVars,
                 irqVars, replyVars, hostVars>>

\* hls() returns: the core is idle again.
AccelDone ==
  /\ apc = "run"
  /\ apc' = "idle"
  /\ UNCHANGED <<req, got, cmdOut, argOut, calls, pulses, rets, owed, flag, callVars,
                 irqVars, replyVars, hostVars>>

Accel == \/ ForceCmd \/ ForceArg \/ ForceInt
         \/ SysCmd \/ SysArg \/ SysInt
         \/ WaitAA \/ Wait55 \/ SysReturn \/ AccelDone

-----------------------------------------------------------------------------
(* The interrupt handler juniper_sysfs_interrupted *)

\* juniper_interp_get_interrupt_id reads the vector register.
IrqRead ==
  /\ ipc = "idle" /\ isr
  /\ ipc' = "set"
  /\ UNCHANGED <<isr, flag, owed, accelVars, replyVars, hostVars>>

\* accel_data->interrupted = 1;
IrqSetFlag ==
  /\ ipc = "set"
  /\ ipc' = "ack"
  /\ flag' = TRUE
  /\ UNCHANGED <<isr, owed, accelVars, replyVars, hostVars>>

\* juniper_interp_ack_interrupt clears the pending bit, whatever set it.
IrqAck ==
  /\ ipc = "ack"
  /\ ipc' = "idle"
  /\ isr' = FALSE
  /\ UNCHANGED <<flag, owed, accelVars, replyVars, hostVars>>

Irq == IrqRead \/ IrqSetFlag \/ IrqAck

-----------------------------------------------------------------------------
(* The host thread *)

\* juniper_fpga_partition_start on an idle accelerator.
Start ==
  /\ hpc = "stopped" /\ apc = "idle" /\ runs < MaxRuns
  /\ hpc' = "poll"
  /\ runs' = runs + 1
  /\ apc' = "force_cmd"
  /\ quiet' = FALSE
  /\ UNCHANGED <<req, got, cmdOut, argOut, calls, pulses, rets, owed, base, flag,
                 irqVars, replyVars, seen, hcmd, harg, hret, execs>>

\* if(juniper_fpga_partition_idle(..)) break;
PollIdle ==
  /\ hpc = "poll"
  /\ hpc' = IF apc = "idle" THEN "stopped" ELSE "show1"
  /\ UNCHANGED <<flag, owed, accelVars, irqVars, replyVars,
                 seen, hcmd, harg, hret, runs, execs>>

\* accel_interrupted_show, first read: buf[0] = interrupted ? '1' : '0'.
Show1 ==
  /\ hpc = "show1"
  /\ hpc' = "show2"
  /\ seen' = flag
  /\ owed' = (owed /\ ~flag)
  /\ UNCHANGED <<flag, accelVars, irqVars, replyVars,
                 hcmd, harg, hret, runs, execs>>

\* mutant: the flag is not cleared by the read.
Show2_NoClear ==
  /\ hpc = "show2"
  /\ hpc' = IF seen THEN "read_cmd" ELSE "poll"
  /\ UNCHANGED <<flag, owed, accelVars, irqVars, replyVars,
                 seen, hcmd, harg, hret, runs, execs>>

\* ... second read: if(interrupted) interrupted = 0.  The caller then acts on
\* what the first read saw.
Show2 ==
  /\ hpc = "show2"
  /\ hpc' = IF seen THEN "read_cmd" ELSE "poll"
  /\ flag' = FALSE
  /\ UNCHANGED <<owed, accelVars, irqVars, replyVars,
                 seen, hcmd, harg, hret, runs, execs>>

\* accel_syscall_args_show reads the registers one by one.
ReadCmd ==
  /\ hpc = "read_cmd"
  /\ hpc' = "read_arg"
  /\ hcmd' = cmdOut
  /\ UNCHANGED <<flag, owed, accelVars, irqVars, replyVars,
                 seen, harg, hret, runs, execs>>

ReadArg ==
  /\ hpc = "read_arg"
  /\ hpc' = "exec"
  /\ harg' = argOut
  /\ UNCHANGED <<flag, owed, accelVars, irqVars, replyVars,
                 seen, hcmd, hret, runs, execs>>

\* The switch of caicos_handle_pcie_interrupt.
Exec ==
  /\ hpc = "exec"
  /\ hpc' = "arg_aa"
  /\ hret' = Serve[hcmd][harg]
  /\ execs' = execs + 1
  /\ UNCHANGED <<flag, owed, accelVars, irqVars, replyVars,
                 seen, hcmd, harg, runs>>

\* The accelerator can move on what is in the registers now.
AccelSeesReply ==
  \/ apc = "wait_aa" /\ knock = "AA"
  \/ apc = "wait_55" /\ knock = "55"
  \/ apc = "ret"

\* When the accelerator keeps up, the next host write finds it waiting again.
MayWrite == KeepsUp => ~AccelSeesReply

\* juniper_fpga_partition_set_syscall_return writes accel_syscall_args twice;
\* each time accel_syscall_args_store sets arg1 first, then cmd.
WriteArg(here, next) ==
  /\ hpc = here /\ MayWrite
  /\ hpc' = next
  /\ argIn' = hret
  /\ UNCHANGED <<knock, flag, owed, accelVars, irqVars,
                 seen, hcmd, harg, hret, runs, execs>>

WriteKnock(here, next, byte) ==
  /\ hpc = here /\ MayWrite
  /\ hpc' = next
  /\ knock' = byte
  /\ UNCHANGED <<argIn, flag, owed, accelVars, irqVars,
                 seen, hcmd, harg, hret, runs, execs>>

\* mutant: the store sets cmd before arg1.
Reply_KnockFirst ==
  \/ WriteKnock("arg_aa", "aa", "AA") \/ WriteArg("aa", "arg_55")
  \/ WriteKnock("arg_55", "55", "55") \/ WriteArg("55", "poll")

\* mutant: the second write of set_syscall_return is left out.
Reply_OneKnock ==
  \/ WriteArg("arg_aa", "aa") \/ WriteKnock("aa", "poll", "AA")

Reply ==
  \/ WriteArg("arg_aa", "aa") \/ WriteKnock("aa", "arg_55", "AA")
  \/ WriteArg("arg_55", "55") \/ WriteKnock("55", "poll", "55")

Host == \/ Start \/ PollIdle \/ Show1 \/ Show2
        \/ ReadCmd \/ ReadArg \/ Exec \/ Reply

\* All the runs of the bound have ended and the handler has gone quiet.
Finished ==
  /\ hpc = "stopped" /\ runs = MaxRuns
  /\ apc = "idle" /\ ipc = "idle" /\ ~isr
  /\ UNCHANGED vars

Next == Accel \/ Irq \/ Host \/ Finished

Spec == Init /\ [][Next]_vars

\* The core is clocked and the handler and the host thread are scheduled; the
\* program the core runs is free to compute for ever, but here it ends.
FairSpec == Spec /\ WF_vars(Accel) /\ WF_vars(Irq) /\ WF_vars(Host)

-----------------------------------------------------------------------------
(* Properties *)

PlacesOK == apc \in AccelPcs /\ ipc \in IrqPcs /\ hpc \in HostPcs

CountersOK ==
  /\ runs \in Nat /\ calls \in Nat /\ pulses \in Nat
  /\ execs \in Nat /\ rets \in Nat /\ base \in Nat

FlagsOK == /\ isr \in BOOLEAN /\ flag \in BOOLEAN /\ seen \in BOOLEAN
           /\ owed \in BOOLEAN /\ quiet \in BOOLEAN

DataOK ==
  /\ req \in Cmds \X Vals /\ got \in Vals
  /\ cmdOut \in Cmds /\ argOut \in Vals
  /\ knock \in {"none", "AA", "55"} /\ argIn \in Vals
  /\ hcmd \in Cmds /\ harg \in Vals /\ hret \in Vals

\* Every variable keeps its type; a word never reaches the byte-wide command
\* register uncut (force_synthesis_of_syscall_interface).
TypeOK == PlacesOK /\ CountersOK /\ FlagsOK /\ DataOK

\* Every service the host executes is provoked by an interrupt of its own:
\* merging pulses may lose services but a flag is never consumed twice
\* (accel_interrupted_show against juniper_sysfs_interrupted).
ServicesProvoked == execs <= pulses

\* Every return of pcie_syscall consumes a reply of its own: this is what the
\* two knocks are for, a single one could be seen by two calls.
ReturnsServed == rets <= execs

\* Once the accelerator has seen the first knock, the result register does
\* not change until pcie_syscall has read it (the store sets arg1 before cmd,
\* and sets it twice).
ResultStable ==
  [][(apc \in {"wait_55", "ret"}) => argIn' = argIn]_vars

\* What pcie_syscall is about to return is the host's result for the request
\* it wrote, not for an older one, a forced one or a mixture of two.
RightAnswer == apc = "ret" => argIn = Serve[req[1]][req[2]]

\* The same for a call that began on a settled link, when nothing of the forced
\* interrupt was left: the answer is the host's for its own request, and the
\* host has executed that request and nothing else since the call began, however
\* fast or slow either side is.
QuietCallRight ==
  quiet /\ apc = "ret" => argIn = Serve[req[1]][req[2]] /\ execs = base + 1

\* One such call is enough: every later one of the run begins on a settled link
\* too, so the forced interrupt can spoil the first calls of a run only.
StaysQuiet ==
  [][quiet /\ apc = "run" /\ apc' = "sys_arg" => quiet']_vars

\* The interrupt of the call in progress has been wiped out: nothing on the
\* way to the host carries it any more.
Swallowed ==
  /\ owed /\ apc = "wait_aa"
  /\ ~flag /\ ipc # "set" /\ ~(ipc = "idle" /\ isr)

\* A run the host waits for ends, unless the interrupt of a call is wiped out
\* (by the second read of accel_interrupted_show or a late acknowledge):
\* nothing else, a missed knock or a stale flag, stops the system.
RunEndsUnlessSwallowed == (hpc # "stopped") ~> (hpc = "stopped" \/ Swallowed)

\* A call that waits for the knock gets it.
EveryCallReturns == (apc = "wait_aa") ~> (apc = "ret")

(***************************************************************************)
(* What makes the counting properties inductive: where the interrupts not  *)
(* yet served, and the replies not yet consumed, are.                      *)
(***************************************************************************)
One(p) == IF p THEN 1 ELSE 0

\* Each place that can still lead to a service stands for an interrupt that
\* has not been served.
Unserved ==
  One(hpc \in {"read_cmd", "read_arg", "exec"})
  + One(flag \/ (hpc = "show2" /\ seen))
  + One(ipc = "set" \/ (ipc = "idle" /\ isr))

UnservedInv == execs + Unserved <= pulses

\* A first knock is owed, or on display, or has been seen by the call that is
\* about to return: each for a service of its own.
Unreturned ==
  One(apc \in {"wait_55", "ret"})
  + One(hpc \in {"arg_aa", "aa"})
  + One(knock = "AA" /\ apc # "wait_55")

UnreturnedInv == rets + Unreturned <= execs

\* The first knock is on display exactly while the host is between its two
\* writes, and the result has been in its register since before.
KnockInv ==
  /\ knock = "AA" <=> hpc \in {"arg_55", "55"}
  /\ hpc \in {"aa", "arg_55", "55"} => argIn = hret

\* A call that saw the first knock and not the second finds the host about to
\* write it, or sees it now.
SecondKnockInv == apc = "wait_55" => hpc \in {"arg_55", "55"} \/ knock = "55"

\* A call that began on a settled link raises one interrupt, for which the host
\* serves once and then falls silent, ...
QuietBetween ==
  /\ apc \notin {"force_cmd", "force_arg", "force_int"}
  /\ apc \notin {"wait_aa", "wait_55"} => Settled
  /\ apc \in {"sys_arg", "sys_int"} => execs = base

QuietWaiting ==
  apc = "wait_aa" =>
    /\ base <= execs /\ execs + Unserved <= base + 1
    /\ hpc \in {"arg_aa", "aa", "arg_55", "55"} => execs = base + 1

QuietReplied ==
  apc \in {"wait_55", "ret"} =>
    execs = base + 1 /\ Unserved = 0 /\ hpc \notin {"arg_aa", "aa"}

QuietPlaces == QuietBetween /\ QuietWaiting /\ QuietReplied

\* ... the request is in the registers from before that interrupt, the host
\* reads it and no other, ...
QuietRequest ==
  /\ apc \in {"sys_arg", "sys_int", "wait_aa"} => cmdOut = req[1]
  /\ apc \in {"sys_int", "wait_aa"} => argOut = req[2]
  /\ apc = "wait_aa" /\ hpc \in {"read_arg", "exec"} => hcmd = req[1]
  /\ apc = "wait_aa" /\ hpc = "exec" => harg = req[2]

\* ... and its result is the one the call returns.
QuietAnswer ==
  /\ apc \in {"wait_aa", "wait_55", "ret"} /\ execs > base =>
       hret = Serve[req[1]][req[2]]
  /\ apc \in {"wait_55", "ret"} => argIn = hret

QuietInv == quiet => QuietPlaces /\ QuietRequest /\ QuietAnswer

(***************************************************************************)
(* The link as an implementation of the remote call.  What the host does   *)
(* between two calls is not part of it: the abstract answer is the host's  *)
(* result once it has been executed for the call, and what the last call   *)
(* returned before.                                                        *)
(***************************************************************************)
absPhase ==
  IF apc = "idle" THEN "idle"
  ELSE IF apc \in {"force_cmd", "force_arg", "force_int", "run"} THEN "busy"
  ELSE IF execs > base THEN "served" ELSE "asked"

absAns == IF absPhase = "served" THEN hret ELSE got

Remote == INSTANCE SyscallAbs WITH phase <- absPhase, ans <- absAns

\* Every step of a call that began on a settled link, and every step from there
\* to the end of the run, is one of the remote call or is invisible to it: the
\* registers, the flag, the handler and the polling loop together implement it.
QuietCallsImplement == [][quiet' => [Remote!AbsNext]_(Remote!absVars)]_vars

=============================================================================
