# caicos in TLA+

caicos turns the C code that JamaicaBuilder generates for a set of Java methods
into an FPGA accelerator (through Vivado HLS) and into host code that calls it.
This directory holds a TLA+ model of its core: who writes which register, flag
or file when, and who may be in the middle of something else at that moment; how
a call, a stored value or a reference gets from one side to the other and back;
what a build computes and caches. TLC checks the modules on small instances,
TLAPS proves the main results for every value of the constants.

Paths are relative to `src/`. `driver/` stands for
`system_software/host_kernel_module/`, `zynq/` for
`system_software/host_kernel_module_zynq/`, whose `juniper_interp.c` is the same
text three lines further down, and whose `juniper_sysfs.c` differs in
`juniper_sysfs_interrupted` (lines 556-623): it looks for the FPGA's node first.

## The system

| Component | State | Operations | Interacts with |
|---|---|---|---|
| Accelerator top level, `projectfiles/src/toplevel.c` | argument array `__juniper_args`, syscall registers | `hls` (dispatch on opid), `do_syscall_interrupt` | host through AXI-Lite registers; interrupt controller |
| Porting layer, `projectfiles/src/fpgaporting.c` | none of its own; memory | `pcie_syscall`, `force_synthesis_of_syscall_interface`, RAM and array accesses, nulled runtime functions | translated code above, registers and memory below |
| FPGA interface library, `projectfiles/juniper_fpga_interface/` | none | start, idle, interrupted, set/get arg, base, retval, syscall args and return | opens one sysfs file per call |
| Generated host code, `prepare_src_project.py`, `projectfiles/templates/caicos_interrupts.c` | none | one replacement body per translated method, `caicos_handle_pcie_interrupt` | the library; the Jamaica VM |
| Kernel driver, files and interrupt: `driver/juniper_sysfs.c`, `driver/juniper_interp.c` | per FPGA `current_hold_mask`; per accelerator `held`, `interrupted` | a show/store per file, `juniper_sysfs_interrupted` | registers; called concurrently by sysfs and by the interrupt |
| Kernel driver, bus layer: `driver/juniper_pci.c`, `juniper_main.c` | BAR mappings, IRQ, DMA area | register, probe, remove, interrupt handler | PCI core, sysfs layer by callbacks |
| Wrapper, `dynamic_board_designs/common/wrapper_hdl/wrapper.vhd` | none | `hold` gates reset and handshakes | core and bus |
| Flow analysis, `flowanalysis.py`, `interfaces.py` | `resolutioncache`, interface numbering | `ReachableFunctions`, `InterfaceResolver` | AST cache |
| Project generation, `caicos.py`, `prepare_hls_project.py`, `class_references.py` | call, system call and class numbering | build the HLS and the host project | flow analysis, rewriting |
| Rewriting, `juniperrewrites.py`, `utils.py` | the syntax tree | rewrites of memory accesses and calls | AST cache |
| AST cache, `astcache.py` | memory cache, file cache | `get`, `invalidate_ast_for`, `clear` | file system |
| malloc preloader, `projectfiles/malloc_preload/` | one mapped region | `mmap` | Jamaica heap; base address of the accelerator |
| Debug software, board designs, scripts, images | | | not modelled |

How a translated method runs: its replacement body on the host writes each
argument (`OP_WRITE_ARG`) and then the call (`OP_CALL`), each as one *run* of the
accelerator: write `accel_start`, then poll `accel_idle` and `accel_interrupted`
until idle. While it runs the accelerator may need the VM (allocation, monitors,
class references): `pcie_syscall` writes command and arguments to its output
registers, pulses the interrupt and polls its input registers. The interrupt
handler sets `interrupted`; the polling host thread sees it, reads the
arguments, executes the service and writes the result together with the first
knock (0xAA) and then with the second (0x55).

What is hard about it: three parties share registers and one flag without a
lock; an interrupt pulse can be merged or lost; every run raises an interrupt of
its own besides those of its calls; the reply is a two-step hand-shake whose
steps can be missed; files of one device may be written by several processes;
devices may go away under use; and what the compiler computes is cached across
builds and across roots. `hazards` in `PROJECT.json` lists these at their lines.

What makes each component correct: a system call is executed exactly once and
gets its own answer; a run ends; the hold line, mask and flag agree; arguments
arrive where the translated method reads them, failures are noticed; a 32- or
64-bit value survives the bytes it travels in; an array element is where the
tree says; nothing is used before it exists or after it is freed; the reachable
set is the closure of the call graph; a cached tree is that of the current
source.

## The modules

| Module | What it is |
|---|---|
| `SyscallAbs` | what `pcie_syscall` promises: a remote call, one request at a time, executed once, answered with its own result |
| `SyscallLink` | the link as the code has it: accelerator, interrupt handler and host thread side by side |
| `CallAbs` | what a call of a translated method promises: it runs once, with its own arguments, and its result comes back |
| `CallMarshal` | the replaced body on the host, file access by file access, some of which fail, and the dispatch on the accelerator |
| `HoldControl` | `accel_hold`, `accel_start`, `accel_idle` of several processes and the wrapper's hold line |
| `DriverLife` | a device from loading to unloading, PCI and Zynq: probe, its failures, nodes, remove, with interrupts and file accesses in between |
| `Bytes` | words and their bytes: the packing of library and driver |
| `HeapAbs` | what is promised of stored values: a store puts one of a cell's own values there and changes no other cell |
| `HeapAccess` | memory as the accelerator's code reads and writes it: fields, arrays as trees, the collector's state |
| `DriverFiles` | the register files of an accelerator: library, driver and registers, several processes |
| `FlowAnalysis` | the search for the functions a build needs: one walk over the call graph per configured method, with a cache they share |
| `Dispatch` | the numbers of system calls, classes and implementations, in the accelerator's code and in the host's switches |
| `AstCache` | the trees of a build, rewritten in place, and the file cache across builds |
| `SyscallLinkProofs`, `CallMarshalProofs`, `HoldControlProofs`, `DriverLifeProofs`, `DriverFilesProofs`, `HeapAccessProofs`, `FlowAnalysisProofs`, `BuildToolsProofs` (`AstCache` and `Dispatch`) | theorems about the modules they are named after |
| `MCSyscallLink`, `MCCallMarshal` | the instances TLC checks |
| `MCData`, `MCDriver`, `MCBuildTools` | two or three modules each, of which a behaviour takes one: `HeapAccess` or `DriverFiles`, `HoldControl` or `DriverLife`, `FlowAnalysis`, `AstCache` or `Dispatch` |

A call in `SyscallLink` that begins on a settled link implements `SyscallAbs`, one in
`CallMarshal` without failures and 64-bit types implements `CallAbs`;
`HeapAccess` and `DriverFiles` implement `HeapAbs`, each for its own cells.

### SyscallLink

State: where each party is (`apc`, `ipc`, `hpc`: one value per statement that
touches something shared), the registers (`cmdOut`, `argOut` written by the
accelerator; `knock`, `argIn` written by the host), the controller's pending bit
`isr`, the driver's `flag` (`accel_data->interrupted`), the locals of both sides
and history counters that no guard but a bound reads.

| Action | Code |
|---|---|
| `ForceCmd`, `ForceArg`, `ForceInt` | `force_synthesis_of_syscall_interface`, called at `projectfiles/src/toplevel.c:47` |
| `SysCmd`, `SysArg`, `SysInt`, `WaitAA`, `Wait55`, `SysReturn` | `pcie_syscall` |
| `IrqRead`, `IrqSetFlag`, `IrqAck` | `juniper_sysfs_interrupted`: vector read, `interrupted = 1`, acknowledge |
| `Start`, `PollIdle` | the loop of `fpga_run` in `prepare_src_project.py` |
| `Show1`, `Show2` | the two reads of the flag in `accel_interrupted_show` |
| `ReadCmd`, `ReadArg` | `accel_syscall_args_show` |
| `Exec` | the switch of `caicos_handle_pcie_interrupt` |
| `Reply` | `juniper_fpga_partition_set_syscall_return`: two writes, each of which sets arg1 and then cmd |

Abstractions: of the arguments only arg1 is kept; the host reads the others in
the same way, later, and writes none of them. The service is a function of
command and argument. `Start` needs an idle core (the host started it last and saw it idle).
Registers the accelerator reads are the host's, those it writes are its own:
`get_syscall_arg` uses the `OUT` addresses, `set_syscall_arg` the others.
`KeepsUp` says that the accelerator, polling at bus speed, has seen a knock before
the host's next file write. Nothing in the code enforces it; runs and theorems
that need it name it.

The forced interrupt can spoil the first calls of a run, so what is right of the
shipped program is said of calls it cannot reach. `Settled` says that no
interrupt is on its way to the host and that the host is answering none; `quiet`
and `base` are history, set where `pcie_syscall` is entered: whether the link was
settled then, and how many services had been executed. `QuietCallRight` says
that such a call has its own request served, once, and gets its own answer;
`StaysQuiet` that every later call of the run is such a call; `QuietCallsImplement` that
all the steps from there to the end of the run are steps of `SyscallAbs`. A call that
begins while the forced interrupt is under way may get another's answer: that is
`RightAnswer`, which fails.

### HoldControl

State: the driver's `mask` and `held`, the lines `gpio`, each core, writers in
`accel_hold_store` (`wpc`, with the computed mask in `wmask`) and a host thread
per core in `fpga_run` (`upc`). `HoldRead`, `HoldSetMask`, `HoldSetGpio` and
`HoldSetHeld` are the steps of one store; `StartCheck`/`StartWrite` and
`IdleCheck`/`IdleRead` are the check of `held` and the register access that
follows it. An access to a held core waits (`wrapper.vhd` drives its READY and
VALID outputs low). `juniper_interp_get_cores` returns 1 today; the driver is
written for more, and the mask only matters for more, so the run takes two.
`whole` is history: the core was not held when last started, and no store to it
has begun since. `accel_start` on a held core does nothing and reports success,
so a host thread that finds the core idle may not have had its run;
`RanUnlessHeld` says that this is the only way.

Agreement of flag, mask and lines needs stores that do not overlap. The file may
be written by its owner and group (`driver/juniper_sysfs.c:19`), nothing in the
repository stores to it, and nothing in the driver stops two who do: run and
theorems have one writer (`OneWriter`).

### DriverLife

State: the phase of the device and the steps left of it (`todo`), what is held
(`got`: mappings, IRQ, nodes, the data of a node and the pointer to it), the
interrupt's way from the controller (`pend`, `enabled`) by a message (`msg`) to
the handler (`ipc`) and the flag, a process in a file (`fpc`), and who stopped
the kernel (`crashed`).

| Action | Code |
|---|---|
| `ModuleInit`, `ModuleExit` | `juniper_init`, `juniper_exit`: class, driver |
| `Probe`, `Acquire`, `ProbeReturns` | `juniper_probe` of either `juniper_pci.c` and `juniper_sysfs_new_device`, one step at a time; the step `init` is `juniper_interp_init` |
| `Fail` | a step fails: `NodeFails` (results used unchecked), `FilesFail` (`new_device` gives up half way), `PciFails` (an early return), `ZynqFails` (the error labels) |
| `Remove`, `Release`, `RemoveReturns`, `ReleaseCrashes` | `juniper_remove`, `juniper_sysfs_lost_device`; the devm resources |
| `Raise`, `MessageDropped` | accelerator and PCI |
| `IrqEnter`, `IrqId`, `IrqFind`, `IrqFlag`, `IrqAck` | `juniper_irqhandler`, `juniper_sysfs_interrupted`, `juniper_interp_ack_interrupt` |
| `FileEnter`, `FileUse` | a show or store: the data of the node, then the registers behind it |

Steps are names, and probe and remove are sequences of them. Following a null
pointer stops the kernel (`Crash`), using freed memory may. What the driver core does is
modelled from how the drivers use it and listed at the head of the module.

### Bytes, HeapAccess, DriverFiles

A byte has `B` values, so that a word of four fits TLC's integers; 8 in the run,
256 in the code.

`HeapAccess` computes where an access goes. `Walk` is the loop of
`resolve_tree_array`, as a function of the levels walked, `Resolve` its result; a shift by
`ecx + byteoffset` is a division by `Stride`. `ArrayPlace`, `FieldPlace` and `StatePlace`
are the accesses of `projectfiles/src/fpgaporting.c:72-436`; `Get` and `Set` are
the three masters, which address words, halves and bytes of one memory;
`GetLong` and `SetLong` join and split 64 bits. `Store` is the only action;
`loads` is what a load of each location would give, and the cells of `HeapAbs`.

`HeapLaidOut` is what the accesses rest on and this code does not see to: Jamaica's
allocator lays out arrays and objects, and the translated code takes them for
what they are. All that a location is and that an access to it reads is in
memory; entries of a tree's nodes that differ lead to nodes, of eight words, that
do not overlap; different arrays, fields and pieces of the collector's state do not overlap;
and what is stored in is on the way to nothing (a location that holds a node's address
or an array's depth is not stored in by the translated code). TLC evaluates it for the run's memory.

`DriverFiles` has processes that call the library, or read and write the memory
file. `Accesses` is the list of register accesses of a call; `Call`, `Access`
and `Return` are its begin, one access, and its end, and calls of two processes
interleave access by access. `Output` is the accelerator's write of a request
or a return value. `signed` is whether `char` is. `settled` is history: the word
last given to a file that writes several registers, once a call has been alone.
`FilesAssumption` types the requests; that those to the memory file stay within
the memory is the kernel's doing, since `juniper_sysfs_new_device` gives the file the
memory's size (`driver/juniper_sysfs.c:210`). `Given` is what `HeapAbs` may find
in each file: the words of the requests that name it.

What the code does and the properties leave room for:
- a reply byte of 0x80 or more, joined from plain chars, sets every bit above it
  where `char` is signed (`driver/juniper_sysfs.c:545`): `ReplySettled` excepts it,
  `ReplyArrives` does not and fails (run `reply_signed`);
- 8- and 16-bit fields take the word's index for theirs
  (`projectfiles/src/fpgaporting.c:101`): what is stored in one comes back
  (`ImplementsHeap`), from another word than the one the field is in;
- a negative low word covers the high word of a long
  (`projectfiles/src/fpgaporting.c:216`): longs with one are not stored in the run;
- an access of the memory file that is not aligned does nothing and reports
  success (`driver/juniper_interp.c:154-179`): it is taken for a success without
  words, and nothing is said of it;
- the shifts of `projectfiles/src/fpgaporting.c:256-257` are divisions of any
  size: one by 32 or more, undefined in C, needs a tree deeper than the index of
  an array has bits for.

### FlowAnalysis

A program is a function from definitions to the calls they contain; a call is a
name, and whether JamaicaBuilder's list of an interface's implementations
supplied it. `pos` and `walking` say where `trace_from_functions`
(`prepare_hls_project.py`) is; `stack` holds the frames of
`find_reachable_functions`, `todo` the calls each has still to look at, `cache`
is `resolutioncache`.

| Action | Code |
|---|---|
| `StartRoot`, `FinishRoot` | one turn of the loop in `trace_from_functions`: a new `ReachableFunctions`; collecting its sets |
| `Trap`, `Ignore` | a call in `excluded_functions`; one in `calls_to_ignore` |
| `Skip`, `Revisit`, `Descend` | a name looked up: not defined; defined and seen; defined and new |
| `Return` | the end of a frame |

Abstractions: a frame looks at its calls in any order; calls through casts,
which the code warns about and leaves out, are not in a program. What a search
of the files would return is the constant `Found`, by root, since the order of
the files depends on it. `OneDefinition` states the assumption of `resolve_call`
("code which would link without warnings about multiply defined symbols"); the
properties need it.

### Dispatch

A site is a place in the translated code that asks the host for something: a
call of a runtime function, a reference to a class, a call through an interface.

| Action | Code |
|---|---|
| `Number` | `parse_getInterfaceMethod_call` in `interfaces.py` |
| `NumberCall` | `build_from_functions` in `prepare_hls_project.py`: in the order of a set |
| `RewriteCall`, `RewriteClass` | `rewrite_syscall_calls`, `replace_class_references` in `juniperrewrites.py` |
| `Generate` | `generate_interrupt_handler` in `prepare_src_project.py` |
| `Run` | `pcie_syscall` at the site, and the host's answer through its switches |

`Answer` is the host's switches, `Called` the accelerator's on the answer to an
interface call (`interfaces.py:102-119`). Neither does what it is there for:
- The host's switch for class references is on `args.arg1`, and `arg1` is always 1,
  the number of the class being `arg2` (`class_references.py:58-61`,
  `prepare_src_project.py:238`): `ClassAnswers` fails (run `class_answers`).
- The host answers an interface call with the number of the implementation, the
  accelerator's switch compares it with the addresses of the C functions (`Address`):
  `InterfaceReaches` fails (run `interface_answers`). A compiler may reject such a
  `case`, whose label is no integer constant; the model takes the switch as written.

`AnswersIdentify` is about the host's half of an interface call only: the numbers
it answers with tell the implementations apart.

System calls are numbered upwards from 1, and 250 is the class references'
(`projectfiles/templates/caicos_interrupts.c`): a program with 250 different callees
would give one of them that number, and the host's switch two cases for it. The
theorems about `Dispatch` are about programs with fewer (`FewCalls`).

### AstCache

`mem` is the memory cache of one build, `disk` the file cache that outlives it.
`Edit`, `BeginBuild`, `BeginHardware`, `BeginHost`, `EndBuild` and `Die` are the
phases of `build_all`, with JamaicaBuilder before and a kill or an exception at
any point. `Fetch`, `Parse` and `Save` are `get`; `Save` closes a file that
`Parse` opened, and a build that dies in between leaves a torn one. `Rewrite` changes
the tree in place for the hardware project; `Invalidate` and `Refactor` are
`refactor_src` for the host's. The comparison of times in
`astcache.py` is of a structure with a number and always finds the file new
enough: a stale tree is possible, from a file only, and so is a failure of a
build after one that died (`CacheSound`). That no tree is stale, which is what
`astcache.py:69-84` promises, is more than the code does: `TreesCurrent` fails (run
`stale_tree`).

### CallMarshal

A method is given by the kinds of its parameters and of its result: the thread,
a word of up to 32 bits, or 64 bits. `hpc` is the host's next file access, `k`
the parameter it is passing; one more than there are stands for the call itself.
`opid`, `arg1`, `arg2`, `base`, `retval` are the registers, `args` is
`__juniper_args`, `cur` what the current run has read.

| Action | Code |
|---|---|
| `Invoke`, `SetBase`, `SetOp`, `SetIndex`, `SetValue` | the statements `generate_replacement_code` writes: base, `OP_WRITE_ARG`, number and value of a parameter; `OP_CALL` and the method |
| `StartRun`, `Poll` | `fpga_run` |
| `Return` | reading the result, or not |
| `Fetch`, `RunVersion`, `RunWriteArg`, `RunCall`, `RunNothing` | `hls` in `projectfiles/src/toplevel.c` and the `__juniper_call` that `write_functions_c` writes |

`Write` and `Access`/`Fails` are the library's file accesses: each may fail, and
a failure is a negative number the generated code ignores (a write) or takes for
TRUE (a read). `ArgsMax` and `ArgIndex` are how the accelerator's side counts:
word 0 is the thread, the others are counted from 1; the host counts all from 0.
That the thread is the first parameter is an assumption about JamaicaBuilder's
output (`CallAssumption`).

Abstractions: a method is not interpreted; its result is taken to tell all calls
with different arguments apart. The system calls of a run, and with them the
poll of `accel_interrupted`, are left to `SyscallLink`. How a value is converted
to a word (division by 4 for references, reinterpretation for floats) is not
modelled. `clean` and `mark` are history: whether the call began on an idle core
and has met no failure, and how many methods had run by then. `CleanCallsImplement` says of
such a call, if its types have 32 bits or less (`Narrow`), that its steps are those of `CallAbs`.

## Runs

| Run | Bounds | Question and answer |
|---|---|---|
| `link_shipped` | 2 runs, 3 calls, any speed | As shipped: no service without an interrupt (`ServicesProvoked`), no return without a service (`ReturnsServed`); a call begun on a settled link is a remote call, and so is all that follows in its run (`QuietCallRight`, `StaysQuiet`, `QuietCallsImplement`). Holds. |
| `link_progress` | 2 runs, 2 calls, `KeepsUp`, fair | A run ends unless its interrupt is wiped out; results are stable. Holds. |
| `link_wrong_answer` | 2 runs, 2 calls | `RightAnswer` fails: a call returns the forced request's answer. |
| `link_lost` | 1 run, 2 calls, fair | `EveryCallReturns` fails: an interrupt between the two reads of the flag is gone. |
| `call_failures` | 2 methods, 2 calls, 2 failures, fair | A call without a failure, begun on an idle core, is right, whatever the last one left behind (`RightCall`), and is the call of `CallAbs` if its types are narrow (`CleanCallsImplement`); every call ends (`CallEnds`). Holds. |
| `driver` | hold files: 2 cores, 1 writer, 4 stores; device: none; fair | `HeldAgrees`, `OnlyOwnLine`, `StallNeedsOverlap`, `RanUnlessHeld`; a released core's run ends (`RunEnds`). Registers are mapped when used (`RegistersMapped`), all is given back (`CleanUnbound`), a bound device's interrupts and files are safe (`SteadyIsSafe`), the vector is never empty (`VectorNotEmpty`), a PCI device is deaf only after a miss (`DeafOnlyIfMissed`), an interrupt is served (`InterruptServed`). Holds. |
| `data_paths` | 2 stores at 24 places; 2 processes, 3 calls, 1 output | What is stored comes back (`ImplementsHeap`, `ImplementsFiles`), an undisturbed read gives what the file held (`QuietReads`), masters and replies are as last set (`MastersSettled`, `ReplySettled`). Holds. |
| `reply_signed` | as `data_paths` | `ReplyArrives` fails: a reply with a byte of the upper half arrives as another word. |
| `build_tools` | 320 programs over 3 functions, 2 roots; 2 files, 2 versions, 3 builds; 4 sets of sites; fair | The walk ends (`TraceEnds`) and the build has exactly what its roots call (`NothingExtra`, `WalkComplete`, `BuildExact`). Host code from trees nobody rewrote (`HostFromSource`), bad trees from the file cache only (`CacheSound`). The host runs the function of a call, with its arguments (`SyscallReaches`), and answers an interface call with the number of the VM's implementation (`AnswersIdentify`). Holds. |
| `class_answers` | as `build_tools` | `ClassAnswers` fails: a reference to a class is answered with another class. |
| `interface_answers` | as `build_tools` | `InterfaceReaches` fails: the accelerator's switch on the answer leads nowhere. |
| `stale_tree` | as `build_tools` | `TreesCurrent` fails: code is made from a tree of an older source. |

A type invariant (`TypeOK`, `HoldTypeOK`, ...) is checked once, in a run of its module.

Some properties confine a fault of the code instead of excluding it: they except
the states it spoils and say that all others are right. Of some of these a
violation run shows the excepted case: stale trees (`CacheSound`, run `stale_tree`),
signed bytes (`ReplySettled`, run `reply_signed`), first calls of a run
(`QuietCallRight`, run `link_wrong_answer`). The others have none:
`HeldAgrees` and `OnlyOwnLine` have one writer, `CleanUnbound` excepts a PCI probe
that failed, `SteadyIsSafe` the times of probe and removal, `NothingExtra` rests on
`OneDefinition`, which `resolve_call` assumes in so many words, and `CacheSound`
allows that a torn file fails a build. What the code does there is in the models,
and listed under Findings.

Why the bounds suffice: what goes wrong on the link is between one request and
the next, or between the end of one run and the start of the next; two runs and
three calls contain a call with a predecessor and a successor in either run, and a
stale flag or knock of the first run in the second. The instance has two
commands, two arguments and a result of its own for each request, so a mixed-up
answer always shows. A store to `accel_hold` has four steps; four stores
hold and release either core, in any order, around a start, a poll and the end of a run.

The call graphs contain cycles of one, two and three functions, a second root
inside and outside the first one's reach, and a name of each kind that is not
descended into; a fourth function would only make the paths longer.

The methods of `CallMarshal` have two and three parameters, one of which has 64 bits,
so that words and registers left by one call are in the way of the next, one word may
even be taken for a method's number (a parameter's index that is the number of no
method included); two failures can spoil a start and a wait of the same call, or of
two.

`DriverLife` has finitely many states: any number of loads, probes and removals.
One accelerator is what `juniper_interp_get_cores` reports.

The arrays of `MCData` have trees of depth 0, 1 and 2 and an element size each;
the indexes are first and last of a leaf, of an inner node and of the array, where
a wrong shift or remainder lands elsewhere. Memory holds a different word at
every index, so a misplaced load shows. Two stores: one to disturb the other. The values
have bytes that differ, of which some are of the upper half. Three calls of two
processes: one that is overlapped, and one after it that has to put things right.

In `MCBuildTools` the second file has no host code, and the third build meets
what a first left and a second renewed. The programs have the longest system call
that fits, one that does not, two implementations of one interface, a second
interface, and two classes; every order of numbering occurs.

Fairness: weak fairness of each party. The core is clocked; the handler
is run by the kernel while its interrupt is pending; the host thread polls in a
loop. The program on the core is taken to end (`AccelDone` is one of the steps
of `Accel`, and calls are bounded). In `HoldControl` calls in progress
proceed; nobody has to begin one. The flow analysis is one sequential program
that keeps going (`WF_vars(Trace)`). In `CallMarshal` the host thread and the
core keep going; methods end. In `DriverLife` only the handler is fair: the
processor that takes an interrupt runs it to its end. Probe and remove need not
go on.

Deadlock is checked for the link and the calls (`Finished` marks the end of the
bounds). It is not where the system may stop: in `HoldControl` a host thread may
wait for ever on a core nobody releases; in `DriverLife` a crashed kernel does
nothing; `MCData` and `MCBuildTools` stop at their bounds, and in `Dispatch` a
system call with too many arguments ends the build. That the flow analysis does not
stop early is `TraceEnds`.

## Proofs

`SyscallLinkProofs` proves, for all constants that satisfy
`ConstantsAssumption`:

| Theorem | Needs |
|---|---|
| `TypeCorrect`: `Spec => []TypeOK` | |
| `EveryServiceProvoked`: `Spec => []ServicesProvoked` | |
| `EveryReturnServed`: `Spec => []ReturnsServed` | |
| `ResultIsStable`: `Spec => ResultStable` | `KeepsUp` |
| `QuietCallsAreRight`: `Spec => []QuietCallRight` | |
| `QuietRunsStayQuiet`: `Spec => StaysQuiet` | |
| `QuietCallsImplementRemote`: `Spec => QuietCallsImplement` | |

The counting properties are not inductive. `execs <= pulses` becomes so when the
interrupts on their way are counted: each place that can still lead to a
service (a request the host has begun, the flag or a sampled flag, a pending bit
not yet read or read and not yet noted) stands for a pulse of its own
(`UnservedInv`). In the same way `rets <= execs` becomes
`rets + Unreturned <= execs`, where `Unreturned` counts the places from which a
call may take a first knock (`UnreturnedInv`); it needs `KnockInv`, which says
that the first knock is on display exactly between the host's two writes and
that the result is in its register by then.

For a call that began on a settled link the same counting is exact. It raises one
interrupt, and `QuietInv` follows it. `QuietPlaces`: until the pulse nothing is on its
way and `execs = base`; while the call waits for the first knock, what is
served and what is still on its way together are at most one (`execs + Unserved <= base + 1`), and
a host that is replying has served it; from the first knock on it has been served and nothing
is on its way (`Unserved = 0`), so the link is settled again when the call
returns, which is what `StaysQuiet` needs. That a call which has seen the first knock was
served follows from `KnockInv`: the knock is on display only while the host is between its
writes. `QuietRequest`: the registers hold the current request from before the pulse, so the
host reads that one. `QuietAnswer`: its result is the one the call returns.
The refinement maps the phase of the abstract call to where the accelerator is and whether a
service has been executed since the call began (`execs > base`). None of this needs
`KeepsUp`, and the forced interrupt is in it: the theorems are about the shipped
program.

`FlowAnalysisProofs` proves, for every set of programs and any number of roots
that satisfy `FlowAssumption`: `TypeCorrect`, `WalkAddsNothing`
(`FlowSpec => []NothingExtra`), `WalkIsComplete` (`FlowSpec => []WalkComplete`) and
`BuildIsExact` (`FlowSpec => []BuildExact`).

That a walk is complete when its stack is empty says nothing about the steps
before. The invariant `Inv` adds what they keep: calls left to look at belong to
a frame (`TodoInv`), and what a call that has been looked at demands is in the
sets already (`HandledInv`). With no frame left nothing is left to look at, so the definitions seen
are closed under calls (`WalkDone`) and contain the least closed set; that they
are inside it is `SeenInv`. The cache stays out of the way because what it holds
for a name is what any root's search would find (`CacheInv`), and the results
collected are those of the roots that are done (`DoneInv`), which together reach
what the set of roots does (`ReachUnion`). Reachability is the least closed set,
not a recursive definition, so no induction over paths is needed.

`CallMarshalProofs` proves, for any methods, kinds of parameters, words, failures
and bounds that satisfy `CallAssumption`: `TypeCorrect` (`Spec => []TypeOK`),
`CallIsRight` (`Spec => []RightCall`) and `CleanCallsAreCalls`
(`Spec => CleanCallsImplement`).

`RightCall` speaks of the end of a call; the invariant follows it from its
beginning, as long as it is clean: the core rests unless the host polls
(`RestInv`), the registers a run will read have been set, and what it has read
is what they hold (`SetInv`), the parameters passed so far are in their words
(`StoredInv`), and the method has run not at all before the last run and once
after it (`RanInv`). That words 0 to `ArgsMax - 1` suffice for every method
rests on `ArgsMax` being a maximum (`ArgsMaxFacts`, which takes the least counterexample,
since an induction is out of the provers' reach); that word `i - 1` is the one the
accelerator takes for parameter `i`, on counting the parameters that are not the
thread (`ArgIndexIs`). For the refinement the same invariant places a clean call: the run of the method
is the abstract call's execution, reading the result its return, every other step a
stutter; after a clean call the core rests (`CleanInv`).

`HoldControlProofs` proves, for any accelerators, writers and bound:
`TypeCorrect` (`HoldSpec => []HoldTypeOK`); and under `OneWriter`, which says that at most one
process stores to `accel_hold`: `HoldAgrees` (`HoldSpec => []HeldAgrees`),
`StallsOverlap` (`HoldSpec => []StallNeedsOverlap`), `FinishedHasRun`
(`HoldSpec => []RanUnlessHeld`) and `OwnLine` (`HoldSpec => OnlyOwnLine`).

`HeldAgrees` speaks of moments without a store in progress. `AgreeInv` says what
agrees at each point of one: the mask with the line or with the target computed from
it, the flags of the others throughout. On it rests `HostInv`: a host
thread past its check of `held` meets a line that is held only if a store has met its
request (`MetInv`), and a core whose line has been low throughout is running
or has finished the run asked for (`WholeInv`).

`DriverLifeProofs` proves, for either platform or both: `TypeCorrect`
(`LifeSpec => []LifeTypeOK`), `RegistersAreMapped` (`LifeSpec => []RegistersMapped`),
`NothingLeft` (`LifeSpec => []CleanUnbound`), `SteadySafe` (`LifeSpec => []SteadyIsSafe`),
`VectorIsNotEmpty` (`LifeSpec => []VectorNotEmpty`) and `DeafBecauseMissed`
(`LifeSpec => []DeafOnlyIfMissed`).

The first four follow a device through a sequence of steps, so the invariant
(`LifeInv`) relates what is held with what is left to do. An interrupt or an
accelerator's node implies the mappings, and each node its pointer, until removal
(`HeldInv`); in a probe, what an accelerator needs is held or acquired further on,
and nothing of it once its node is there (`ProbeInv`); in a removal, or on an
error path, everything held is released further on, in an order that leaves the
mappings to the end (`RemoveInv`). The lemmas on lists (`Elems`, `Ordered`,
`Concat`, `Ahead`) say which steps come before which in the drivers' sequences and
their tails, and in the error paths. For the last two the invariant says that a
message, or a handler that has been entered, stands for a high line and that
there is one of them at most (`LineInv`); a line that rises sends a message or is
missed (`InvEdge`), and nothing that probe and remove do touches it but
`juniper_interp_init` (`InvDevice`).

`DriverFilesProofs` proves, for any processes, requests, outputs and bounds, any
number of words of memory and any byte of an even number of values: `TypesKept`
(`FilesSpec => []FilesTypeOK`), `ReadsAreWhole` (`FilesSpec => []QuietReads`),
`MastersAgree` (`FilesSpec => []MastersSettled`), `RepliesArrive`
(`FilesSpec => []ReplySettled`) and `FilesImplement` (`FilesSpec => ImplementsFiles`).

First come the words: every word has four bytes (`HasBytes`, `BytesOf`), so that
taking it apart and putting it together, or turning it round twice, gives it
back (`UnpackPack`, `SwapSwap`), and a reply joined from signed chars is another
word only if a low byte is negative (`JoinedWord`). Then what each kind of call does
(`AccessesGood`): which registers it writes and that what is seen there
is a word it was given. The invariant (`FilesInv`) says of every call that it
`Tracks` its accesses: those it has left are the end of the list, and as long as no
other write has hit its registers, what it has read is what they hold and what it has
written is still there (`TracksRead`, `TracksWrite`, `TracksOther`). A file that has
settled has no writer under way (`SettledAlone`), which is why a step that stores in
it cannot come before the next call has cleared `settled`.

`HeapAccessProofs` proves, for any words of memory, any locations and any number of
stores of any values, `HeapImplements` (`HeapSpec => ImplementsHeap`), from
`HeapAssumption`, `ByteAssumption` and `HeapLaidOut`. Memory is taken apart into
bytes (`MByte`), and a location is a range of them (`Extent`). A load depends on the bytes of
its location alone (`LoadDepends`), a store changes those and no others
(`StoreWrites`). The invariant (`HeapInv`) is that what any walk reads is as it was
at first: stores miss it (`TrailsApart`), so a walk always ends where it did
(`WalkFixed`). Two walks in one array are together, as far apart as their
elements, until they take different entries of a node, and from then on in nodes
that do not overlap, since an index within a node's stride takes one of its
eight entries (`StepApart`, `PathsApart`); so no two locations share a byte
(`ExtentsApart`). The number of levels is whatever the array's head says, 0 to 15; claims about
`Walk` and `Eights` at every level are proved from the least level at which one could fail
(`LeastNatural`), since the library's induction theorems cannot be used.

`BuildToolsProofs` proves, for programs and orders of numbering that satisfy
`DispatchAssumption` and `FewCalls`: `CallsReach` (`DispatchSpec => []SyscallReaches`)
and `AnswersAreIdentified` (`DispatchSpec => []AnswersIdentify`). The numbering of
implementations and that of system calls give each a number of its own (`Numbering`,
kept by `NextNumber`), a call that has been rewritten carries the number of what it
asks for (`Rewritten`), and the host's switch is made from the same tables (`Switch`,
`Tables`); no callee's number is that of class references. Of class
references and of the accelerator's own switch nothing is proved: they are findings.

It proves too, for any files and host files and any number of builds:
`HostCodeFromSource` (`CacheSpec => []HostFromSource`) and `CacheIsSound`
(`CacheSpec => []CacheSound`). A tree still to be used is as it was parsed
(`FreshInv`: it has not been reached by the rewriting, or has been dropped since); one
that this build has parsed is of the current source (`CurrentInv`); a torn file
is being written, or its build has died (`TornInv`).

Model-checked only: the liveness properties (`RunEndsUnlessSwallowed`, `RunEnds`,
`TraceEnds`, `CallEnds`, `InterruptServed`), which are about fairness and out of the
provers' reach.

## Findings

1. `link_wrong_answer`: the call that
   `projectfiles/src/fpgaporting.c:24` presents as a synthesis aid makes the
   host serve a request at the start of every run; its reply can be taken by the
   first real call.
2. `link_lost`: `accel_interrupted_show` (`driver/juniper_sysfs.c:478` and `:484`)
   can clear a flag it has not reported; `pcie_syscall` then waits for ever.
3. `class_answers`: the host's switch for class references is on the wrong argument
   (`prepare_src_project.py:238`); all are answered with the class numbered first.
4. `interface_answers`: the accelerator compares the answer to an interface call,
   a number, with the addresses of functions (`interfaces.py:115`).
5. `stale_tree`: `astcache.py:80` compares a structure with a time; a cache file
   older than the source is used.
6. `reply_signed`: bytes of a reply are joined as plain chars
   (`driver/juniper_sysfs.c:545`); the repository's own test sends 0xDEADBEEF.

Behaviour of the code that is part of the models and that a user should know of:
a failed read of `accel_idle` is taken for idle (`prepare_src_project.py:148`);
`accel_start` on a held core is dropped in silence; overlapping stores to
`accel_hold` take no lock (`driver/juniper_sysfs.c:310`) and can leave `held`, mask
and line apart; a build that dies while it writes a cache file (`astcache.py:99`)
leaves one that ends every later build; an early return of the PCI probe
gives nothing back (`driver/juniper_pci.c:121-220`), so `CleanUnbound` says nothing
after one; `juniper_remove` of the Zynq frees the data of the UIO node before
unregistering it, and `juniper_sysfs_lost_device` asks freed data for its device
(`UsesFreed`); unloading unregisters the class twice (`UnregisterSysfs`); an interrupt that comes while the
nodes do not exist may stop the kernel, or is abandoned, and then a PCI device
stays deaf; and what the data paths list above.

Parameters and results of 64 bits are not passed at all, as the code's own TODOs
say (`prepare_src_project.py:183-190`, `:213-218`), though `README.md:21` names a
method with both as an example.

## Not modelled

- `projectfiles/include/jamaica_config.h` and `jamaica_arith.h`: Jamaica's
  headers, constants and macros for the translated code, a third of the repository's
  lines.
- The reconfiguration file and the ICAP (`driver/juniper_interp.c:210-243`): its
  waiting loop depends on hardware the repository says nothing of.
- Rewriting of memory accesses in `juniperrewrites.py`: what it matches and
  replaces is C syntax. Calls nested in the arguments of others are not visited
  by `rewrite_syscall_calls`; sites are those it visits.
- Arrays of 64 bits, of floats and of references, exceptions and stack checks of
  the porting layer: their bodies are empty.
- The malloc preloader, the debug software, Tcl, Makefiles, board designs, images.
- The DMA engine, set up by probe and not used; the reference to the accelerator's node
  that the handler takes and never gives back.
- Failing accesses in `SyscallLink`, and two callers in `CallMarshal`.

## Plan

1. Failing accesses in `SyscallLink`, in the place of a violation run; two
   callers in `CallMarshal`.

The suite stays at a dozen runs: modules of one part of the system share a run, and
a disagreement with what the repository says of itself has one of its own.
