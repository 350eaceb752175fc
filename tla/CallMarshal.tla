---------------------------- MODULE CallMarshal -----------------------------
(***************************************************************************)
(* How a call of a translated method reaches the accelerator.              *)
(*                                                                         *)
(* The body generate_replacement_code gives the method on the host sets    *)
(* the memory base, hands over the parameters one by one, each by a run of *)
(* the accelerator with OP_WRITE_ARG, and makes the call by a run with     *)
(* OP_CALL.  On the accelerator hls() dispatches on the operation, and     *)
(* __juniper_call (write_functions_c) passes the stored words to the       *)
(* method.  A run is accel_start and polling accel_idle; what happens to   *)
(* system calls in between is the subject of SyscallLink.                  *)
(*                                                                         *)
(* The library reports a file access that fails by a negative number; the  *)
(* generated code ignores it, or takes it for TRUE.                        *)
(***************************************************************************)
EXTENDS Naturals, Sequences, FiniteSets, FiniteSetsExt

CONSTANTS
  MaxId,     \* the methods are those with call ids 0 .. MaxId
  Params,    \* Params[m]: the kinds of its parameters, in order
  Result,    \* Result[m]: what it returns
  Words,     \* what a parameter can be
  NoWord,    \* a word nobody has written
  MaxCalls, MaxFails \* bounds: calls, and file accesses that fail

Methods == 0 .. MaxId

\* thread: *jamaica_thread; word: up to 32 bits; wide: 64 bits.
Kinds == {"thread", "word", "wide"}

ASSUME CallAssumption ==
  /\ MaxId \in Nat /\ MaxCalls \in Nat /\ MaxFails \in Nat
  /\ Params \in [Methods -> Seq(Kinds)]
  /\ \A m \in Methods : \A i \in DOMAIN Params[m] :
       Params[m][i] = "thread" <=> i = 1
  /\ \A m \in Methods : Params[m] # <<>>
  /\ Result \in [Methods -> {"void", "word", "wide"}]
  /\ NoWord \notin Words

Arity(m) == Len(Params[m])

ArgsMax == Max({Arity(m) : m \in Methods})

Invocations == UNION {{m} \X [1 .. Arity(m) -> Words] : m \in Methods}

\* A word of the result register: 0, the version, or what a method returns,
\* which is taken to tell every call with other arguments apart.
Zero == <<>>
Version == <<"version">>
Garbage == <<"uninitialised">>
Answer == [c \in Methods \X UNION {[1 .. Arity(m) -> Words \union {NoWord}] : m \in Methods} |->
             IF Result[c[1]] = "void" THEN Zero ELSE c]

VARIABLES
  hpc,   \* host: the statement it is at; home when no call is in progress
  call,  \* the current, or last, call: method and parameters
  k,     \* the parameter it is passing; one more than there are: the call
  got,   \* the result the caller received last
  opid, arg1, arg2, retval, base, \* the registers
  core,  \* the accelerator: idle, started, running
  cur,   \* what it has read: operation and arguments
  args,  \* __juniper_args
  ran,   \* history: what __juniper_call passed on last, and its result
  calls, execs, fails, \* history: calls, methods executed, failures
  clean, \* history: the call began on an idle accelerator and nothing failed
  mark   \* history: execs when the call began

hostVars == <<hpc, call, k, got, calls, mark>>
regVars  == <<opid, arg1, arg2, base>>
coreVars == <<retval, core, cur, args, ran, execs>>
failVars == <<fails, clean>>
vars == <<hostVars, regVars, coreVars, failVars>>

Init ==
  /\ hpc = "home" /\ call \in Invocations /\ k = 1 /\ got = Zero
  /\ opid = "OP_VERSION" /\ arg1 = 0 /\ arg2 = NoWord /\ retval = Zero
  /\ base = FALSE /\ core = "idle" /\ cur = <<"OP_VERSION", 0, NoWord>>
  /\ args = [i \in 0 .. ArgsMax - 1 |-> NoWord]
  /\ ran = <<>>
  /\ calls = 0 /\ execs = 0 /\ fails = 0
  /\ clean = FALSE /\ mark = 0

-----------------------------------------------------------------------------
(* Host: the replaced body *)

Passing == k <= Arity(call[1])

Kind == Params[call[1]][k]

Invoke ==
  /\ hpc = "home" /\ calls < MaxCalls
  /\ call' \in Invocations
  /\ k' = 1 /\ hpc' = "base" /\ calls' = calls + 1
  /\ clean' = (core = "idle") /\ mark' = execs
  /\ UNCHANGED <<got, regVars, coreVars, fails>>

\* A file access succeeds, or fails without the code noticing.
Access == UNCHANGED failVars
Fails  == fails < MaxFails /\ fails' = fails + 1 /\ clean' = FALSE

\* The write of value v to register r, an error ignored.
Write(r, v) ==
  \/ Access /\ r' = v
  \/ Fails /\ r' = r

SetBase ==
  /\ hpc = "base" /\ hpc' = "op"
  /\ Write(base, TRUE)
  /\ UNCHANGED <<call, k, got, calls, mark, opid, arg1, arg2, coreVars>>

\* Once before the first parameter and once before the call.
SetOp ==
  /\ hpc = "op" /\ hpc' = "index"
  /\ Write(opid, IF Passing THEN "OP_WRITE_ARG" ELSE "OP_CALL")
  /\ UNCHANGED <<call, k, got, calls, mark, arg1, arg2, base, coreVars>>

\* mutant: parameters are counted from 1.
SetIndex_FromOne ==
  /\ hpc = "index"
  /\ hpc' = IF Passing /\ Kind # "wide" THEN "value" ELSE "start"
  /\ Write(arg1, IF Passing THEN k ELSE call[1])
  /\ UNCHANGED <<call, k, got, calls, mark, opid, arg2, base, coreVars>>

\* mutant: nothing at all is done for a parameter of 64 bits, not even
\* counting it.
SetIndex_SkipWide ==
  /\ hpc = "index"
  /\ hpc' = IF Passing /\ Kind # "wide" THEN "value" ELSE "start"
  /\ Write(arg1, IF Passing
                 THEN Cardinality({i \in 1 .. k - 1 : Params[call[1]][i] # "wide"})
                 ELSE call[1])
  /\ UNCHANGED <<call, k, got, calls, mark, opid, arg2, base, coreVars>>

\* The number of the parameter, from 0, or of the method.  A parameter of 64
\* bits is not written (TODO in the code), but its run takes place.
SetIndex ==
  /\ hpc = "index"
  /\ hpc' = IF Passing /\ Kind # "wide" THEN "value" ELSE "start"
  /\ Write(arg1, IF Passing THEN k - 1 ELSE call[1])
  /\ UNCHANGED <<call, k, got, calls, mark, opid, arg2, base, coreVars>>

SetValue ==
  /\ hpc = "value" /\ hpc' = "start"
  /\ Write(arg2, call[2][k])
  /\ UNCHANGED <<call, k, got, calls, mark, opid, arg1, base, coreVars>>

\* An accelerator that is running still has its start bit set.
StartRun ==
  /\ hpc = "start" /\ hpc' = "poll"
  /\ Write(core, IF core = "idle" THEN "started" ELSE core)
  /\ UNCHANGED <<call, k, got, calls, mark, regVars, retval, cur, args, ran, execs>>

\* mutant: the loop over the parameters does not advance.
Poll_SameParam ==
  /\ hpc = "poll"
  /\ (Access /\ core = "idle") \/ Fails
  /\ k' = k
  /\ hpc' = IF Passing THEN "index" ELSE "ret"
  /\ UNCHANGED <<call, got, calls, mark, regVars, coreVars>>

\* mutant: the call counts as a parameter.
Poll_Counts ==
  /\ hpc = "poll"
  /\ (Access /\ core = "idle") \/ Fails
  /\ k' = k + 1
  /\ hpc' = IF ~Passing THEN "ret" ELSE IF k < Arity(call[1]) THEN "index" ELSE "op"
  /\ UNCHANGED <<call, got, calls, mark, regVars, coreVars>>

\* The loop of fpga_run: left when the core is idle, or when the read fails,
\* since what it returns then is not 0.
Poll ==
  /\ hpc = "poll"
  /\ (Access /\ core = "idle") \/ Fails
  /\ IF Passing
     THEN k' = k + 1 /\ hpc' = (IF k < Arity(call[1]) THEN "index" ELSE "op")
     ELSE k' = k /\ hpc' = "ret"
  /\ UNCHANGED <<call, got, calls, mark, regVars, coreVars>>

\* The variable rv is uninitialised when the read fails; a result of 64 bits
\* is not read (TODO in the code), but returned as 0.
Return ==
  /\ hpc = "ret" /\ hpc' = "home"
  /\ IF Result[call[1]] = "word"
     THEN \/ Access /\ got' = retval
          \/ Fails /\ got' = Garbage
     ELSE Access /\ got' = Zero
  /\ UNCHANGED <<call, k, calls, mark, regVars, coreVars>>

Host == \/ Invoke \/ SetBase \/ SetOp \/ SetIndex \/ SetValue \/ StartRun
        \/ Poll \/ Return

-----------------------------------------------------------------------------
(* Accelerator: hls and __juniper_call *)

\* The run reads the registers at some time after it has been started.
Fetch ==
  /\ core = "started" /\ core' = "running"
  /\ cur' = <<opid, arg1, arg2>>
  /\ UNCHANGED <<hostVars, regVars, retval, args, ran, execs, failVars>>

\* A run of operation op ends and returns r.
RunEnds(op, r) ==
  /\ core = "running" /\ cur[1] = op
  /\ core' = "idle" /\ retval' = r
  /\ UNCHANGED <<hostVars, regVars, cur, failVars>>

RunVersion ==
  /\ RunEnds("OP_VERSION", Version)
  /\ UNCHANGED <<args, ran, execs>>

RunWriteArg ==
  /\ RunEnds("OP_WRITE_ARG", Zero)
  /\ args' = IF cur[2] < ArgsMax THEN [args EXCEPT ![cur[2]] = cur[3]] ELSE args
  /\ UNCHANGED <<ran, execs>>

\* The word passed for parameter i: the thread is the one of word 0, the
\* others are counted from 1.
ArgIndex(m, i) ==
  IF Params[m][i] = "thread" THEN 0
  ELSE Cardinality({j \in 1 .. i : Params[m][j] # "thread"})

Received(m) == [i \in 1 .. Arity(m) |-> args[ArgIndex(m, i)]]

RunCall ==
  /\ cur[2] \in Methods
  /\ ran' = <<cur[2], Received(cur[2])>> /\ execs' = execs + 1
  /\ RunEnds("OP_CALL", Answer[ran'])
  /\ UNCHANGED args

\* default: there is no such method.
RunNothing ==
  /\ cur[2] \notin Methods /\ RunEnds("OP_CALL", Zero)
  /\ UNCHANGED <<args, ran, execs>>

Core == Fetch \/ RunVersion \/ RunWriteArg \/ RunCall \/ RunNothing

Finished ==
  /\ hpc = "home" /\ calls = MaxCalls /\ core = "idle"
  /\ UNCHANGED vars

Next == Host \/ Core \/ Finished

Spec == Init /\ [][Next]_vars

FairSpec == Spec /\ WF_vars(Host) /\ WF_vars(Core)

-----------------------------------------------------------------------------
(* Properties *)

\* Types.
TypeOK ==
  /\ hpc \in {"home", "base", "op", "index", "value", "start", "poll", "ret"}
  /\ call \in Invocations /\ k \in 1 .. Arity(call[1]) + 1
  /\ opid \in {"OP_VERSION", "OP_WRITE_ARG", "OP_CALL"}
  /\ arg1 \in Nat /\ arg2 \in Words \union {NoWord}
  /\ base \in BOOLEAN /\ core \in {"idle", "started", "running"}
  /\ cur \in {"OP_VERSION", "OP_WRITE_ARG", "OP_CALL"} \X Nat \X (Words \union {NoWord})
  /\ args \in [0 .. ArgsMax - 1 -> Words \union {NoWord}]
  /\ ran = <<>> \/ ran \in DOMAIN Answer
  /\ calls \in 0 .. MaxCalls /\ fails \in 0 .. MaxFails /\ clean \in BOOLEAN
  /\ execs \in Nat /\ mark \in 0 .. execs

\* A call during which no access fails runs its method exactly once, with the
\* memory base set, every parameter of up to 32 bits in its place whatever
\* kinds the others are, and has the result at hand when it is done, also
\* after calls that went wrong, as long as the accelerator had come to rest.
RightCall ==
  clean /\ hpc = "ret" =>
    /\ base /\ core = "idle" /\ execs = mark + 1
    /\ ran[1] = call[1]
    /\ \A i \in 1 .. Arity(call[1]) :
         Params[call[1]][i] # "wide" => ran[2][i] = call[2][i]
    /\ retval = Answer[ran]

\* The host thread comes out of the call, failures or not.
CallEnds == hpc # "home" ~> hpc = "home"

\* Where the abstract call is.
Phase ==
  IF hpc = "home" THEN "idle" ELSE IF execs = mark THEN "called" ELSE "done"

Contract == INSTANCE CallAbs WITH
  Calls <- Invocations, phase <- Phase, req <- call,
  ans <- IF ran = <<>> THEN <<>> ELSE Answer[ran]

\* The TODOs of generate_replacement_code are about the other types.
Narrow(m) ==
  /\ Result[m] # "wide"
  /\ \A i \in 1 .. Arity(m) : Params[m][i] # "wide"

\* As long as nothing fails, the replaced body implements the call of a method
\* whose types have 32 bits or less: every step of a call that began on an idle
\* core is one of the abstract call or is invisible to it, whatever the calls
\* before it left behind.
CleanCallsImplement ==
  [][clean' /\ Narrow(call'[1]) => [Contract!AbsNext]_(Contract!absVars)]_vars

=============================================================================
