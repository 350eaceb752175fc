---------------------------- MODULE DriverFiles -----------------------------
(***************************************************************************)
(* The files of an accelerator as processes use them, through the FPGA     *)
(* interface library (arguments, base of memory, return value, system      *)
(* calls) or directly (memory): bytes on one side, registers on the other. *)
(* A file is one call into the driver, but several register accesses, and  *)
(* nothing keeps two calls apart.                                          *)
(*                                                                         *)
(* A register is a pair of a name and a number.                            *)
(***************************************************************************)
EXTENDS Bytes

CONSTANTS
  Procs,     \* processes that use the files
  Requests,  \* the calls they make
  MemWords,  \* words of the accelerator's memory
  Outputs,   \* what the accelerator writes: pairs of an output register and a word
  MaxCalls,  \* bound: calls
  MaxWrites  \* bound: writes by the accelerator

Args == 0..3
Masters == 0..2
Knock1 == 5 % B
Knock2 == 2 % B

Regs ==
  ({"arg"} \X Args) \union ({"master"} \X Masters) \union {<<"retval", 0>>}
  \union ({"in"} \X (0..1)) \union ({"out"} \X (0..5)) \union ({"mem"} \X MemWords)

\* Those the accelerator writes itself.
OutRegs == {<<"retval", 0>>} \union ({"out"} \X (0..5))

\* c.part is the accelerator, c.n the number of an argument or an offset in
\* bytes, c.v the words passed, c.len a length.
CallType ==
  [op : {"set_arg", "get_arg", "set_base", "get_base", "get_retval", "get_args",
         "set_return", "read_mem", "write_mem"},
   part : Nat, n : Nat, v : Seq(Word), len : Nat]

\* The kernel keeps accesses of the memory file within its size, which
\* new_device sets to that of the memory.
ASSUME FilesAssumption ==
  /\ Requests \subseteq CallType
  /\ \A c \in Requests :
       /\ c.op \in {"set_arg", "set_base", "set_return"} => Len(c.v) = 1
       /\ c.op \in {"read_mem", "write_mem"} =>
            \A i \in 1..(c.len \div 4) : c.n \div 4 + i - 1 \in MemWords
       /\ c.op = "write_mem" => Len(c.v) = c.len \div 4
  /\ MaxCalls \in Nat /\ MaxWrites \in Nat /\ Outputs \subseteq OutRegs \X Word

VARIABLES
  signed,  \* whether the kernel's compiler has signed chars
  reg,     \* the registers and the memory
  call,    \* per process: its call, the accesses left, the words read so far
  result,  \* per process: what its last read gave
  settled, \* history: the word last given to a file that writes several registers
  calls, writes \* history: counters for the bounds

filesVars == <<signed, reg, call, result, settled, calls, writes>>

-----------------------------------------------------------------------------
(* What a call does.                                                        *)

Rd(r) == [r |-> r, write |-> FALSE, v |-> 0]
Wr(r, v) == [r |-> r, write |-> TRUE, v |-> v]

\* There is one accelerator and there are four argument files; the library
\* builds other names too, which cannot be opened.
Exists(c) == c.part = 0 /\ (c.op \in {"set_arg", "get_arg"} => c.n \in Args)

Reads == {"get_arg", "get_base", "get_retval", "get_args", "read_mem"}

Aligned(c) == c.op \in {"read_mem", "write_mem"} => c.n % 4 = 0 /\ c.len % 4 = 0

SetArg(c) == <<Wr(<<"arg", c.n>>, Unpack(Pack(c.v[1])))>>
GetArg(c) == <<Rd(<<"arg", c.n>>)>>
GetBase == <<Rd(<<"master", 0>>)>>
GetRetval == <<Rd(<<"retval", 0>>)>>

SetBase_Two(v) == [i \in 1..2 |-> Wr(<<"master", i - 1>>, v)]

\* juniper_interp_set_ram_base: all three masters
SetBase(v) == [i \in 1..3 |-> Wr(<<"master", i - 1>>, v)]

StoreReply_FromFirstByte(v, knock) ==
  <<Wr(<<"in", 1>>, Joined((v * B + knock) % W, signed)), Wr(<<"in", 0>>, knock)>>

\* accel_syscall_args_store: the value, then the command
StoreReply(v, knock) ==
  <<Wr(<<"in", 1>>, Joined(v, signed)), Wr(<<"in", 0>>, knock)>>

WriteMem_NoSwap(c) == [i \in 1..(c.len \div 4) |->
                        Wr(<<"mem", c.n \div 4 + i - 1>>, c.v[i])]

\* juniper_interp_accel_write and _read
WriteMem(c) == [i \in 1..(c.len \div 4) |->
                 Wr(<<"mem", c.n \div 4 + i - 1>>, Swap(c.v[i]))]

ReadMem(c) == [i \in 1..(c.len \div 4) |-> Rd(<<"mem", c.n \div 4 + i - 1>>)]

\* juniper_interp_get_syscall_arg, once per register
ReadArgs == [i \in 1..6 |-> Rd(<<"out", i - 1>>)]

\* The accesses to registers of a call, in their order.
Accesses(c) ==
  IF ~Exists(c) \/ ~Aligned(c) THEN <<>>
  ELSE CASE c.op = "set_arg" -> SetArg(c)
         [] c.op = "get_arg" -> GetArg(c)
         [] c.op = "set_base" -> SetBase(Unpack(Pack(c.v[1])))
         [] c.op = "get_base" -> GetBase
         [] c.op = "get_retval" -> GetRetval
         [] c.op = "get_args" -> ReadArgs
         [] c.op = "set_return" -> StoreReply(c.v[1], Knock1) \o StoreReply(c.v[1], Knock2)
         [] c.op = "read_mem" -> ReadMem(c)
         [] c.op = "write_mem" -> WriteMem(c)

Decode_NoSwap(c, got) ==
  CASE c.op = "get_args" ->
         [i \in DOMAIN got |-> IF i = 1 THEN got[i] % B ELSE Unpack(Pack(got[i]))]
    [] OTHER -> [i \in DOMAIN got |-> Unpack(Pack(got[i]))]

\* What the caller gets of the words read: the driver spreads them over a
\* buffer, the library joins them.  The command is one byte.
Decode(c, got) ==
  CASE c.op = "read_mem" -> [i \in DOMAIN got |-> Swap(got[i])]
    [] c.op = "get_args" ->
         [i \in DOMAIN got |-> IF i = 1 THEN got[i] % B ELSE Unpack(Pack(got[i]))]
    [] OTHER -> [i \in DOMAIN got |-> Unpack(Pack(got[i]))]

-----------------------------------------------------------------------------
(* A file, as its readers see it: one word per register that can be read.   *)

View(r) ==
  CASE r[1] = "mem" -> Swap(reg[r])
    [] r = <<"out", 0>> -> reg[r] % B
    [] OTHER -> reg[r]

Viewed == Regs \ (({"in"} \X (0..1)) \union {<<"master", 1>>, <<"master", 2>>})

Idle == [c |-> [op |-> "none"], todo |-> <<>>, got |-> <<>>, seen |-> <<>>, quiet |-> TRUE]

Active(p) == call[p].c.op # "none"

\* The calls whose registers an access writes under their hands are disturbed.
Disturbed(q, r) == Active(q) /\ \E i \in DOMAIN Accesses(call[q].c) : Accesses(call[q].c)[i].r = r

FilesInit ==
  /\ signed \in BOOLEAN
  /\ reg = [r \in Regs |-> 0]
  /\ call = [p \in Procs |-> Idle]
  /\ result = [p \in Procs |-> [c |-> [op |-> "none"]]]
  /\ settled = [op \in {"set_base", "set_return"} |-> {0}]
  /\ calls = 0 /\ writes = 0

-----------------------------------------------------------------------------
(* A process calls; the driver makes the accesses; the call returns.         *)

Call(p, c) ==
  /\ ~Active(p) /\ calls < MaxCalls /\ calls' = calls + 1
  /\ call' = [call EXCEPT ![p] =
       [c |-> c, todo |-> Accesses(c), got |-> <<>>, quiet |-> TRUE,
        seen |-> IF c.op \notin Reads THEN <<>> ELSE [i \in DOMAIN Accesses(c) |-> View(Accesses(c)[i].r)]]]
  /\ settled' = IF c.op \in DOMAIN settled /\ Exists(c)
                  THEN [settled EXCEPT ![c.op] = {}] ELSE settled
  /\ UNCHANGED <<signed, reg, result, writes>>

Access(p) ==
  /\ call[p].todo # <<>>
  /\ LET a == Head(call[p].todo) IN
     /\ reg' = IF a.write THEN [reg EXCEPT ![a.r] = a.v] ELSE reg
     /\ call' = [q \in Procs |->
          IF q = p THEN [call[p] EXCEPT !.todo = Tail(@),
                                        !.got = IF a.write THEN @ ELSE Append(@, reg[a.r])]
          ELSE IF a.write /\ Disturbed(q, a.r) THEN [call[q] EXCEPT !.quiet = FALSE]
          ELSE call[q]]
  /\ UNCHANGED <<signed, result, settled, calls, writes>>

\* A misaligned access of memory has done nothing, and reports its length.
Return(p) ==
  /\ Active(p) /\ call[p].todo = <<>>
  /\ LET c == call[p].c IN
     /\ result' = IF c.op \notin Reads THEN result ELSE [result EXCEPT ![p] =
          [c |-> c, rv |-> IF Exists(c) THEN "OK" ELSE "NOFILE", quiet |-> call[p].quiet,
           val |-> Decode(c, call[p].got), seen |-> call[p].seen]]
     /\ settled' =
          IF /\ c.op \in DOMAIN settled /\ Exists(c) /\ call[p].quiet
             /\ \A q \in Procs \ {p} : call[q].c.op # c.op
            THEN [settled EXCEPT ![c.op] = {c.v[1]}] ELSE settled
  /\ call' = [call EXCEPT ![p] = Idle]
  /\ UNCHANGED <<signed, reg, calls, writes>>

\* The accelerator writes a request or a return value.
Output(r, v) ==
  /\ writes < MaxWrites /\ writes' = writes + 1
  /\ reg' = [reg EXCEPT ![r] = v]
  /\ call' = [q \in Procs |-> IF Disturbed(q, r) THEN [call[q] EXCEPT !.quiet = FALSE]
                              ELSE call[q]]
  /\ UNCHANGED <<signed, result, settled, calls>>

FilesNext ==
  \/ \E p \in Procs : (\E c \in Requests : Call(p, c)) \/ Access(p) \/ Return(p)
  \/ \E o \in Outputs : Output(o[1], o[2])

FilesSpec == FilesInit /\ [][FilesNext]_filesVars

-----------------------------------------------------------------------------
\* Registers hold words, a call has no more accesses than its list.
FilesTypeOK ==
  /\ signed \in BOOLEAN /\ reg \in [Regs -> Word]
  /\ calls \in 0..MaxCalls /\ writes \in 0..MaxWrites
  /\ \A p \in Procs : Active(p) =>
       Len(call[p].todo) + Len(call[p].got) <= Len(Accesses(call[p].c))

\* A read that succeeds, and that no write to its registers overlaps, gives
\* what its file held, word by word: the bytes of the driver's buffer are put
\* together as they were taken apart, those of the memory file swapped as they
\* were when it was written (juniper_sysfs.c:345-532, juniper_interp.c:154-179).
QuietReads ==
  \A p \in Procs :
    LET r == result[p] IN
    r.c.op \in Reads /\ r.rv = "OK" /\ r.quiet => r.val = r.seen

\* Once a store of the base of memory has run by itself, the three masters,
\* through which the accelerator reads words, halves and bytes, agree on it
\* until the next one begins, whatever overlapped before (juniper_interp.c:325-330).
MastersSettled ==
  \A v \in settled["set_base"] : \A i \in Masters : reg[<<"master", i>>] = v

\* A reply sent by itself is in the accelerator's register as the host's VM
\* gave it; one with a byte of the upper half among the three low ones, where
\* char is signed, is not (juniper_sysfs.c:534-554).
ReplySettled ==
  \A v \in settled["set_return"] :
    reg[<<"in", 1>>] = v \/ (signed /\ High(v) # {})

\* A reply sent by itself arrives whatever its value, such as the 0xDEADBEEF of
\* the repository's own test (projectfiles/tests/juniper_fpga_interface_syscall_test/main.c:26).
ReplyArrives == \A v \in settled["set_return"] : reg[<<"in", 1>>] = v

\* The words the requests hand to a file, or the accelerator writes there.
Given == [f \in Viewed |->
  IF f \in OutRegs
    THEN {IF f = <<"out", 0>> THEN o[2] % B ELSE o[2] : o \in {w \in Outputs : w[1] = f}}
  ELSE {c.v[1] : c \in {d \in Requests :
          /\ Exists(d)
          /\ \/ d.op = "set_arg" /\ f = <<"arg", d.n>>
             \/ d.op = "set_base" /\ f = <<"master", 0>>}}
       \union UNION {{c.v[i] : i \in {j \in DOMAIN c.v : f = <<"mem", c.n \div 4 + j - 1>>}} :
          c \in {d \in Requests : d.op = "write_mem" /\ Exists(d) /\ Aligned(d)}}]

\* To those who read them the files are cells: a call writes the words it was
\* given to the files it names, one by one; one that fails or is not aligned
\* writes nothing (juniper_sysfs.c:345-554, juniper_fpga_interface.c:147-286).
File == INSTANCE HeapAbs WITH
  Cells <- Viewed, Value <- Given, cells <- [f \in Viewed |-> View(f)]
ImplementsFiles == File!AbsSpec

=============================================================================
