------------------------- MODULE CallMarshalProofs --------------------------
(***************************************************************************)
(* Theorems about CallMarshal, for any methods with any parameters, any    *)
(* number of calls and of failing file accesses.                           *)
(***************************************************************************)
EXTENDS CallMarshal, FiniteSetTheorems, WellFoundedInduction, TLAPS

-----------------------------------------------------------------------------
(* The constants *)

LEMMA ConstantFacts ==
  /\ MaxId \in Nat /\ MaxCalls \in Nat /\ MaxFails \in Nat
  /\ 0 \in Methods /\ Methods \subseteq Nat
  /\ \A m \in Methods : /\ Params[m] \in Seq(Kinds)
                        /\ Arity(m) \in Nat /\ Arity(m) >= 1
                        /\ DOMAIN Params[m] = 1 .. Arity(m)
  /\ \A m \in Methods : \A i \in 1 .. Arity(m) : Params[m][i] = "thread" <=> i = 1
<1>1. MaxId \in Nat /\ MaxCalls \in Nat /\ MaxFails \in Nat /\ 0 \in Methods /\ Methods \subseteq Nat
  BY CallAssumption DEF CallAssumption, Methods
<1>2. ASSUME NEW m \in Methods
      PROVE  /\ Params[m] \in Seq(Kinds)
             /\ Arity(m) \in Nat /\ Arity(m) >= 1
             /\ DOMAIN Params[m] = 1 .. Arity(m)
             /\ \A i \in 1 .. Arity(m) : Params[m][i] = "thread" <=> i = 1
  <2>1. Params[m] \in Seq(Kinds) /\ Params[m] # <<>>
    BY CallAssumption DEF CallAssumption
  <2>2. Arity(m) \in Nat /\ DOMAIN Params[m] = 1 .. Arity(m) /\ Arity(m) # 0
    BY <2>1 DEF Arity
  <2>3. \A i \in DOMAIN Params[m] : Params[m][i] = "thread" <=> i = 1
    BY CallAssumption DEF CallAssumption
  <2> QED
    BY <2>1, <2>2, <2>3
<1> QED
  BY <1>1, <1>2

\* The least number of a set, without an induction principle.
LEMMA LeastNatural ==
  ASSUME NEW T \in SUBSET Nat, T # {}
  PROVE  \E x \in T : \A y \in T : x <= y
<1>1. \E x \in T : \A y \in T : ~ (<<y, x>> \in OpToRel(<, Nat))
  BY Zenon, NatLessThanWellFounded, WFMin
<1>2. PICK x \in T : \A y \in T : ~ (<<y, x>> \in OpToRel(<, Nat))
  BY Zenon, <1>1
<1>3. ASSUME NEW y \in T PROVE x <= y
  <2>1. ~ (<<y, x>> \in OpToRel(<, Nat))
    BY Zenon, <1>2
  <2>2. <<y, x>> \in Nat \X Nat
    OBVIOUS
  <2>3. ~ (y < x)
    BY Zenon, <2>1, <2>2 DEF OpToRel
  <2> QED
    BY <2>3
<1> QED
  BY <1>3

\* get_args_max: some method has that many parameters, none has more.
LEMMA ArgsMaxFacts ==
  /\ ArgsMax \in Nat
  /\ \A m \in Methods : Arity(m) <= ArgsMax
<1> DEFINE Upto(n) == {Arity(m) : m \in 0 .. n}
           Bad == {n \in 0 .. MaxId : ~ \E x \in Upto(n) : \A y \in Upto(n) : x >= y}
<1>1. Bad = {}
  <2> SUFFICES ASSUME Bad # {} PROVE FALSE
    OBVIOUS
  <2>1. Bad \in SUBSET Nat
    BY ConstantFacts
  <2>2. PICK n \in Bad : \A l \in Bad : n <= l
    BY <2>1, LeastNatural
  <2>3. n \in Nat /\ n <= MaxId /\ \A m \in 0 .. n : Arity(m) \in Nat
    BY ConstantFacts DEF Methods
  <2>4. CASE n = 0
    <3>1. Upto(0) = {Arity(0)}
      OBVIOUS
    <3> QED
      BY <2>3, <2>4, <3>1
  <2>5. CASE n # 0
    <3>0. n - 1 \in 0 .. MaxId /\ ~ (n <= n - 1)
      BY <2>3, <2>5, ConstantFacts
    <3>1. n - 1 \notin Bad
      <4> HIDE DEF Bad
      <4> QED
        BY <2>2, <3>0
    <3>2. PICK x \in Upto(n - 1) : \A y \in Upto(n - 1) : x >= y
      BY <3>0, <3>1
    <3>3. 0 .. n = (0 .. n - 1) \union {n}
      BY <2>3, <2>5
    <3>4. Upto(n) = Upto(n - 1) \union {Arity(n)}
      BY <3>3
    <3>5. x \in Nat /\ Arity(n) \in Nat /\ \A y \in Upto(n - 1) : y \in Nat
      BY <2>3, <2>5
    <3>6. \E z \in Upto(n) : \A y \in Upto(n) : z >= y
      <4>1. CASE x >= Arity(n)
        BY <3>2, <3>4, <3>5, <4>1
      <4>2. CASE ~ (x >= Arity(n))
        BY <3>2, <3>4, <3>5, <4>2
      <4> QED
        BY <4>1, <4>2
    <3> QED
      BY <3>6
  <2> QED
    BY <2>4, <2>5
<1>2. \E x \in Upto(MaxId) : \A y \in Upto(MaxId) : x >= y
  <2>1. MaxId \in 0 .. MaxId
    BY ConstantFacts
  <2> HIDE DEF Upto
  <2> QED
    BY <1>1, <2>1
<1>3. Upto(MaxId) = {Arity(m) : m \in Methods}
  BY DEF Methods
<1>4. \E x \in {Arity(m) : m \in Methods} : \A y \in {Arity(m) : m \in Methods} : x >= y
  BY <1>2, <1>3
<1>5. ArgsMax \in {Arity(m) : m \in Methods} /\ \A y \in {Arity(m) : m \in Methods} : ArgsMax >= y
  BY <1>4 DEF ArgsMax, Max
<1> QED
  BY <1>5, ConstantFacts

\* The word a parameter is read from is the one it has been written to.
LEMMA ArgIndexIs ==
  ASSUME NEW m \in Methods, NEW i \in 1 .. Arity(m)
  PROVE  ArgIndex(m, i) = i - 1 /\ i - 1 \in 0 .. ArgsMax - 1
<1>1. {j \in 1 .. i : Params[m][j] # "thread"} = 2 .. i
  BY ConstantFacts
<1>2. Cardinality(2 .. i) = i - 1
  <2>1. i \in Nat /\ i >= 1
    BY ConstantFacts
  <2>2. Cardinality(2 .. i) = IF 2 > i THEN 0 ELSE i - 2 + 1
    BY <2>1, FS_Interval
  <2> QED
    BY <2>1, <2>2
<1>3. Params[m][i] = "thread" <=> i = 1
  BY ConstantFacts
<1>4. ArgIndex(m, i) = i - 1
  <2>1. CASE i = 1
    BY <1>3, <2>1 DEF ArgIndex
  <2>2. CASE i # 1
    BY <1>1, <1>2, <1>3, <2>2 DEF ArgIndex
  <2> QED
    BY <2>1, <2>2
<1> QED
  BY <1>4, ArgsMaxFacts, ConstantFacts

LEMMA InvocationFacts ==
  ASSUME NEW c \in Invocations
  PROVE  /\ c[1] \in Methods /\ c[2] \in [1 .. Arity(c[1]) -> Words]
         /\ c = <<c[1], c[2]>>
<1>1. PICK m \in Methods : c \in {m} \X [1 .. Arity(m) -> Words]
  BY DEF Invocations
<1> QED
  BY <1>1

-----------------------------------------------------------------------------
(* Types *)

\* The two outcomes of a file access.
LEMMA AccessType ==
  ASSUME TypeOK, Access \/ Fails
  PROVE  fails' \in 0 .. MaxFails /\ clean' \in BOOLEAN
<1>1. CASE Access
  <2>1. fails' = fails /\ clean' = clean
    BY <1>1 DEF Access, failVars
  <2> QED
    BY <2>1 DEF TypeOK
<1>2. CASE Fails
  <2>1. fails' \in 0 .. MaxFails
    <3>1. fails < MaxFails /\ fails' = fails + 1 /\ fails \in Nat
      BY <1>2 DEF Fails, TypeOK
    <3> QED
      BY <3>1, ConstantFacts
  <2>2. clean' \in BOOLEAN
    BY <1>2 DEF Fails
  <2> QED
    BY <2>1, <2>2
<1> QED
  BY <1>1, <1>2

LEMMA ReceivedType ==
  ASSUME TypeOK, NEW m \in Methods
  PROVE  <<m, Received(m)>> \in DOMAIN Answer
<1>1. Received(m) \in [1 .. Arity(m) -> Words \union {NoWord}]
  BY ArgIndexIs DEF Received, TypeOK
<1> QED
  BY <1>1 DEF Answer

\* Where the host is in its list of parameters.
PlaceInv ==
  /\ hpc = "base" => k = 1
  /\ hpc = "value" => Passing /\ Kind # "wide"
  /\ hpc = "ret" => ~Passing

LEMMA PlaceStep == TypeOK /\ PlaceInv /\ [Next]_vars => PlaceInv'
<1> SUFFICES ASSUME TypeOK, PlaceInv, [Next]_vars PROVE PlaceInv'
  OBVIOUS
<1> USE DEF regVars, coreVars, hostVars, PlaceInv, Passing, Kind
<1>1. CASE Invoke \/ SetBase \/ SetOp \/ SetIndex
  BY <1>1 DEF Invoke, SetBase, SetOp, SetIndex
<1>2. CASE SetValue \/ StartRun \/ Poll \/ Return
  BY <1>2 DEF SetValue, StartRun, Poll, Return
<1>3. CASE Core
  BY <1>3 DEF Core, Fetch, RunVersion, RunWriteArg, RunCall, RunNothing, RunEnds
<1>4. CASE UNCHANGED vars
  BY <1>4 DEF vars
<1> QED
  BY <1>1, <1>2, <1>3, <1>4 DEF Next, Host, Finished

LEMMA TypeStep == TypeOK /\ PlaceInv /\ [Next]_vars => TypeOK'
<1> SUFFICES ASSUME TypeOK, PlaceInv, [Next]_vars PROVE TypeOK'
  OBVIOUS
<1> USE DEF regVars, coreVars, hostVars
<1>0. /\ call[1] \in Methods /\ call[2] \in [1 .. Arity(call[1]) -> Words]
      /\ Arity(call[1]) \in Nat /\ Arity(call[1]) >= 1 /\ call[1] \in Nat
      /\ k \in Nat /\ k >= 1 /\ k <= Arity(call[1]) + 1
  BY InvocationFacts, ConstantFacts DEF TypeOK
<1>1. CASE Invoke
  <2>1. call' \in Invocations
    BY <1>1 DEF Invoke
  <2>2. 1 \in 1 .. Arity(call'[1]) + 1
    BY <2>1, InvocationFacts, ConstantFacts
  <2>3. calls' \in 0 .. MaxCalls
    BY <1>1, ConstantFacts DEF Invoke, TypeOK
  <2>4. clean' \in BOOLEAN /\ mark' \in 0 .. execs'
    BY <1>1 DEF Invoke, TypeOK
  <2> QED
    BY <1>1, <2>1, <2>2, <2>3, <2>4 DEF Invoke, TypeOK
<1>2. CASE SetBase \/ SetOp \/ SetIndex \/ SetValue \/ StartRun
  <2>1. fails' \in 0 .. MaxFails /\ clean' \in BOOLEAN
    BY <1>2, AccessType DEF SetBase, SetOp, SetIndex, SetValue, StartRun, Write
  <2>2. CASE SetBase \/ SetOp
    BY <2>1, <2>2 DEF SetBase, SetOp, Write, TypeOK
  <2>3. CASE SetIndex
    <3>1. arg1' \in Nat
      BY <1>0, <2>3 DEF SetIndex, Write, Passing, TypeOK
    <3> QED
      BY <2>1, <2>3, <3>1 DEF SetIndex, TypeOK
  <2>4. CASE SetValue
    <3>1. call[2][k] \in Words
      BY <1>0, <2>4 DEF SetValue, PlaceInv, Passing
    <3>2. arg2' \in Words \union {NoWord}
      BY <2>4, <3>1 DEF SetValue, Write, TypeOK
    <3> QED
      BY <2>1, <2>4, <3>2 DEF SetValue, TypeOK
  <2>5. CASE StartRun
    BY <2>1, <2>5 DEF StartRun, Write, TypeOK
  <2> QED
    BY <1>2, <2>2, <2>3, <2>4, <2>5
<1>3. CASE Poll
  <2>1. fails' \in 0 .. MaxFails /\ clean' \in BOOLEAN
    BY <1>3, AccessType DEF Poll
  <2>2. k' \in 1 .. Arity(call[1]) + 1
    BY <1>0, <1>3 DEF Poll, Passing
  <2> QED
    BY <1>3, <2>1, <2>2 DEF Poll, TypeOK
<1>4. CASE Return
  <2>1. fails' \in 0 .. MaxFails /\ clean' \in BOOLEAN
    BY <1>4, AccessType DEF Return
  <2> QED
    BY <1>4, <2>1 DEF Return, TypeOK
<1>5. CASE Fetch
  BY <1>5 DEF Fetch, TypeOK, failVars
<1>6. CASE RunVersion \/ RunNothing
  BY <1>6 DEF RunVersion, RunNothing, RunEnds, TypeOK, failVars
<1>7. CASE RunWriteArg
  <2>1. args' \in [0 .. ArgsMax - 1 -> Words \union {NoWord}]
    BY <1>7 DEF RunWriteArg, TypeOK
  <2> QED
    BY <1>7, <2>1 DEF RunWriteArg, RunEnds, TypeOK, failVars
<1>8. CASE RunCall
  <2>1. ran' \in DOMAIN Answer
    BY <1>8, ReceivedType DEF RunCall
  <2>2. execs' \in Nat /\ mark \in 0 .. execs'
    BY <1>8 DEF RunCall, TypeOK
  <2> QED
    BY <1>8, <2>1, <2>2 DEF RunCall, RunEnds, TypeOK, failVars
<1>9. CASE UNCHANGED vars
  BY <1>9 DEF vars, failVars, TypeOK
<1> QED
  BY <1>1, <1>2, <1>3, <1>4, <1>5, <1>6, <1>7, <1>8, <1>9
  DEF Next, Host, Core, Finished

LEMMA TypeInit == Init => TypeOK /\ PlaceInv
<1> SUFFICES ASSUME Init PROVE TypeOK /\ PlaceInv
  OBVIOUS
<1>1. call \in Invocations /\ 1 \in 1 .. Arity(call[1]) + 1
  BY InvocationFacts, ConstantFacts DEF Init
<1>2. 0 \in 0 .. MaxCalls /\ 0 \in 0 .. MaxFails /\ 0 \in 0 .. 0
  BY ConstantFacts
<1>3. args \in [0 .. ArgsMax - 1 -> Words \union {NoWord}]
  BY DEF Init
<1> QED
  BY <1>1, <1>2, <1>3 DEF Init, TypeOK, PlaceInv

\* Every variable keeps its type, the argument array included.
THEOREM TypeCorrect == Spec => []TypeOK
<1>1. TypeOK /\ PlaceInv /\ [Next]_vars => TypeOK' /\ PlaceInv'
  BY TypeStep, PlaceStep
<1> QED
  BY <1>1, TypeInit, PTL DEF Spec

-----------------------------------------------------------------------------
(* A call without failures *)

\* The accelerator is at rest unless the host is polling.
RestInv == core = "idle" \/ hpc = "poll"

\* The registers are set by the time they are read.
SetInv ==
  /\ hpc # "base" => base
  /\ hpc \in {"index", "value", "start", "poll"} =>
       opid = IF Passing THEN "OP_WRITE_ARG" ELSE "OP_CALL"
  /\ hpc \in {"value", "start", "poll"} =>
       arg1 = IF Passing THEN k - 1 ELSE call[1]
  /\ hpc \in {"start", "poll"} /\ Passing /\ Kind # "wide" => arg2 = call[2][k]
  /\ core = "running" => cur = <<opid, arg1, arg2>>

\* The run the host polls for is over.
RunOver == hpc = "poll" /\ core = "idle"

\* The parameters passed so far are where the method will look for them.
Stored(i) == Params[call[1]][i] # "wide" => args[i - 1] = call[2][i]

StoredInv ==
  /\ \A i \in 1 .. Arity(call[1]) : i < k => Stored(i)
  /\ RunOver /\ Passing => Stored(k)

CallDone ==
  \/ hpc = "ret"
  \/ RunOver /\ ~Passing

\* The method has run: once, with the parameters of the call.
RanInv ==
  /\ ~CallDone => execs = mark
  /\ CallDone =>
       /\ execs = mark + 1 /\ ran[1] = call[1]
       /\ \A i \in 1 .. Arity(call[1]) :
            Params[call[1]][i] # "wide" => ran[2][i] = call[2][i]
       /\ retval = Answer[ran]

CallInv == clean /\ hpc # "home" => RestInv /\ SetInv /\ StoredInv /\ RanInv

Inv == TypeOK /\ PlaceInv /\ CallInv

\* What the invariant says of a call, in terms of numbers.
LEMMA CallFacts ==
  ASSUME TypeOK
  PROVE  /\ call[1] \in Methods /\ call[1] \in Nat
         /\ Arity(call[1]) \in Nat /\ Arity(call[1]) <= ArgsMax /\ ArgsMax \in Nat
         /\ k \in Nat /\ k >= 1 /\ k <= Arity(call[1]) + 1
BY InvocationFacts, ConstantFacts, ArgsMaxFacts DEF TypeOK

\* Host steps that only write a register.
LEMMA CallInvWrite ==
  ASSUME Inv, SetBase \/ SetOp \/ SetIndex \/ SetValue \/ StartRun
  PROVE  CallInv'
<1> SUFFICES ASSUME clean' PROVE (RestInv /\ SetInv /\ StoredInv /\ RanInv)'
  BY DEF CallInv
<1> USE DEF regVars, coreVars
<1>1. Access
  BY DEF SetBase, SetOp, SetIndex, SetValue, StartRun, Write, Fails
<1>2. clean
  BY <1>1 DEF Access, failVars
<1>3. RestInv /\ SetInv /\ StoredInv /\ RanInv /\ PlaceInv
  BY <1>2 DEF Inv, CallInv, SetBase, SetOp, SetIndex, SetValue, StartRun
<1>4. ~RunOver /\ ~CallDone /\ core = "idle"
  BY <1>3 DEF RunOver, CallDone, RestInv, SetBase, SetOp, SetIndex, SetValue, StartRun
<1>5. /\ call' = call /\ k' = k /\ args' = args /\ mark' = mark /\ execs' = execs
      /\ hpc' \in {"op", "index", "value", "start", "poll"}
      /\ core' \in {"idle", "started"} /\ (hpc' = "poll" <=> core' = "started")
  BY <1>1, <1>4 DEF SetBase, SetOp, SetIndex, SetValue, StartRun, Write, Fails
<1>6. ~RunOver' /\ ~CallDone' /\ RestInv'
  BY <1>5 DEF RunOver, CallDone, RestInv
<1>7. StoredInv' /\ RanInv'
  BY <1>3, <1>4, <1>5, <1>6 DEF StoredInv, Stored, RanInv
<1>8. SetInv'
  <2> USE <1>3, <1>5 DEF SetInv, Passing, Kind, PlaceInv
  <2>2. CASE SetBase
    BY <2>2 DEF SetBase, Write, Fails
  <2>3. CASE SetOp
    BY <2>3 DEF SetOp, Write, Fails
  <2>4. CASE SetIndex
    BY <2>4 DEF SetIndex, Write, Fails
  <2>5. CASE SetValue
    BY <2>5 DEF SetValue, Write, Fails
  <2>6. CASE StartRun
    BY <2>6 DEF StartRun
  <2> QED
    BY <2>2, <2>3, <2>4, <2>5, <2>6
<1> QED
  BY <1>6, <1>7, <1>8

LEMMA CallInvPoll ==
  ASSUME Inv, Poll
  PROVE  CallInv'
<1> SUFFICES ASSUME clean' PROVE (RestInv /\ SetInv /\ StoredInv /\ RanInv)'
  BY DEF CallInv
<1> USE DEF regVars, coreVars
<1>1. Access /\ core = "idle"
  BY DEF Poll, Fails
<1>2. clean
  BY <1>1 DEF Access, failVars
<1>3. RestInv /\ SetInv /\ StoredInv /\ RanInv /\ RunOver
  BY <1>1, <1>2 DEF Inv, CallInv, Poll, RunOver
<1>4. /\ call' = call /\ args' = args /\ mark' = mark /\ execs' = execs
      /\ ran' = ran /\ retval' = retval /\ core' = "idle"
      /\ opid' = opid /\ arg1' = arg1 /\ arg2' = arg2 /\ base' = base /\ hpc = "poll"
  BY <1>1 DEF Poll
<1>5. Arity(call[1]) \in Nat /\ k \in Nat /\ k <= Arity(call[1]) + 1
  BY CallFacts DEF Inv
<1>6. CASE Passing
  <2>1. k' = k + 1 /\ hpc' = (IF k < Arity(call[1]) THEN "index" ELSE "op")
    BY <1>6 DEF Poll
  <2>2. ~CallDone /\ ~CallDone' /\ RestInv' /\ ~RunOver'
    BY <1>4, <1>6, <2>1 DEF CallDone, RunOver, RestInv
  <2>3. StoredInv'
    <3>1. \A i \in 1 .. Arity(call[1]) : i < k + 1 => Stored(i)
      <4> SUFFICES ASSUME NEW i \in 1 .. Arity(call[1]), i < k + 1 PROVE Stored(i)
        OBVIOUS
      <4>1. i < k \/ i = k
        BY <1>5
      <4> QED
        BY <1>3, <1>6, <4>1 DEF StoredInv
    <3> QED
      BY <1>4, <2>1, <2>2, <3>1 DEF StoredInv, Stored
  <2>4. RanInv'
    BY <1>3, <1>4, <2>2 DEF RanInv
  <2>5. SetInv'
    <3>1. hpc' = "index" => Passing'
      BY <1>4, <1>5, <2>1 DEF Passing
    <3> QED
      BY <1>3, <1>4, <1>6, <2>1, <3>1 DEF SetInv
  <2> QED
    BY <2>2, <2>3, <2>4, <2>5
<1>7. CASE ~Passing
  <2>1. k' = k /\ hpc' = "ret"
    BY <1>7 DEF Poll
  <2>2. CallDone /\ CallDone'
    BY <1>3, <1>7, <2>1 DEF CallDone
  <2>6. RestInv' /\ ~RunOver'
    BY <1>4, <2>1 DEF RestInv, RunOver
  <2>3. StoredInv'
    BY <1>3, <1>4, <2>1, <2>6 DEF StoredInv, Stored
  <2>4. RanInv'
    BY <1>3, <1>4, <2>2 DEF RanInv
  <2>5. SetInv'
    BY <1>3, <1>4, <2>1 DEF SetInv
  <2> QED
    BY <2>3, <2>4, <2>5, <2>6
<1> QED
  BY <1>6, <1>7

LEMMA CallInvCore ==
  ASSUME Inv, Core
  PROVE  CallInv'
<1> SUFFICES ASSUME clean', hpc' # "home"
             PROVE  (RestInv /\ SetInv /\ StoredInv /\ RanInv)'
  BY DEF CallInv
<1> USE DEF regVars, hostVars, failVars
<1>1. /\ hpc' = hpc /\ call' = call /\ k' = k /\ mark' = mark /\ clean' = clean
      /\ opid' = opid /\ arg1' = arg1 /\ arg2' = arg2 /\ base' = base
      /\ core # "idle"
  BY DEF Core, Fetch, RunVersion, RunWriteArg, RunCall, RunNothing, RunEnds
<1>2. RestInv /\ SetInv /\ StoredInv /\ RanInv /\ hpc = "poll"
  BY <1>1 DEF Inv, CallInv, RestInv
<1>3. ~RunOver /\ ~CallDone /\ RestInv'
  BY <1>1, <1>2 DEF RunOver, CallDone, RestInv
<1>4. /\ call[1] \in Methods /\ Arity(call[1]) \in Nat /\ Arity(call[1]) <= ArgsMax
      /\ ArgsMax \in Nat /\ k \in Nat /\ k >= 1 /\ k <= Arity(call[1]) + 1
  BY CallFacts DEF Inv
<1>5. CASE Fetch
  <2>1. core' = "running" /\ cur' = <<opid, arg1, arg2>>
        /\ args' = args /\ execs' = execs
    BY <1>5 DEF Fetch
  <2>2. ~RunOver' /\ ~CallDone'
    BY <1>1, <1>2, <2>1 DEF RunOver, CallDone
  <2> QED
    BY <1>1, <1>2, <1>3, <2>1, <2>2 DEF SetInv, StoredInv, Stored, RanInv, Passing, Kind
<1>6. ASSUME core = "running", core' = "idle" PROVE
         /\ cur[1] = opid /\ cur[2] = arg1 /\ cur[3] = arg2
         /\ opid = (IF Passing THEN "OP_WRITE_ARG" ELSE "OP_CALL")
         /\ arg1 = (IF Passing THEN k - 1 ELSE call[1])
         /\ SetInv' /\ RunOver' /\ (CallDone' <=> ~Passing)
  <2>1. SetInv'
    BY <1>1, <1>2, <1>6 DEF SetInv, Passing, Kind
  <2>2. RunOver' /\ (CallDone' <=> ~Passing)
    BY <1>1, <1>2, <1>6 DEF RunOver, CallDone, Passing
  <2> QED
    BY <1>2, <1>6, <2>1, <2>2 DEF SetInv
<1>7. CASE RunVersion \/ RunNothing
  BY <1>4, <1>6, <1>7 DEF RunVersion, RunNothing, RunEnds
<1>8. CASE RunWriteArg
  <2>1. /\ core = "running" /\ core' = "idle" /\ cur[1] = "OP_WRITE_ARG"
        /\ execs' = execs
        /\ args' = IF cur[2] < ArgsMax THEN [args EXCEPT ![cur[2]] = cur[3]] ELSE args
    BY <1>8 DEF RunWriteArg, RunEnds
  <2>2. Passing /\ cur[2] = k - 1 /\ cur[3] = arg2 /\ ~CallDone' /\ SetInv' /\ RunOver'
    BY <1>6, <2>1
  <2>3. k <= Arity(call[1]) /\ k - 1 \in 0 .. ArgsMax - 1
    BY <1>4, <2>2 DEF Passing
  <2>4. args \in [0 .. ArgsMax - 1 -> Words \union {NoWord}]
    BY DEF Inv, TypeOK
  <2>5. args' = [args EXCEPT ![k - 1] = arg2]
    BY <1>4, <2>1, <2>2, <2>3
  <2>6. Kind # "wide" => arg2 = call[2][k]
    BY <1>2, <2>2 DEF SetInv
  <2>7. ASSUME NEW i \in 1 .. Arity(call[1]), i < k PROVE Stored(i)'
    <3>1. i - 1 # k - 1 /\ i - 1 \in 0 .. ArgsMax - 1
      BY <1>4, <2>7
    <3>2. args'[i - 1] = args[i - 1]
      BY <2>4, <2>5, <3>1
    <3>3. Stored(i)
      BY <1>2, <2>7 DEF StoredInv
    <3> QED
      BY <1>1, <3>2, <3>3 DEF Stored
  <2>10. args'[k - 1] = arg2
    BY <2>3, <2>4, <2>5
  <2>8. StoredInv'
    <3>1. Params[call[1]][k] # "wide" => args'[k - 1] = call[2][k]
      BY <2>6, <2>10 DEF Kind
    <3>2. \A i \in 1 .. Arity(call'[1]) : i < k' => Stored(i)'
      BY <1>1, <2>7
    <3> QED
      BY <1>1, <3>1, <3>2 DEF StoredInv, Stored
  <2>9. RanInv'
    BY <1>1, <1>2, <1>3, <2>1, <2>2 DEF RanInv
  <2> QED
    BY <1>3, <2>2, <2>8, <2>9
<1>9. CASE RunCall
  <2>1. /\ core = "running" /\ core' = "idle" /\ cur[1] = "OP_CALL"
        /\ ran' = <<cur[2], Received(cur[2])>> /\ execs' = execs + 1
        /\ retval' = Answer[ran'] /\ args' = args
    BY <1>9 DEF RunCall, RunEnds
  <2>2. ~Passing /\ cur[2] = call[1] /\ CallDone' /\ SetInv'
    BY <1>6, <2>1
  <2>3. \A i \in 1 .. Arity(call[1]) : i < k
    BY <1>4, <2>2 DEF Passing
  <2>4. \A i \in 1 .. Arity(call[1]) :
          Params[call[1]][i] # "wide" => args[i - 1] = call[2][i]
    BY <1>2, <2>3 DEF StoredInv, Stored
  <2>5. \A i \in 1 .. Arity(call[1]) : Received(call[1])[i] = args[i - 1]
    BY <1>4, ArgIndexIs DEF Received
  <2>6. ran'[1] = call[1] /\ \A i \in 1 .. Arity(call[1]) :
          Params[call[1]][i] # "wide" => ran'[2][i] = call[2][i]
    BY <2>1, <2>2, <2>4, <2>5
  <2>7. RanInv'
    BY <1>1, <1>2, <1>3, <2>1, <2>2, <2>6 DEF RanInv
  <2>8. StoredInv'
    BY <1>1, <2>1, <2>2, <2>4 DEF StoredInv, Stored, Passing
  <2> QED
    BY <1>3, <2>2, <2>7, <2>8
<1> QED
  BY <1>5, <1>7, <1>8, <1>9 DEF Core

LEMMA InvStep == Inv /\ [Next]_vars => Inv'
<1> SUFFICES ASSUME Inv, [Next]_vars PROVE CallInv'
  BY TypeStep, PlaceStep DEF Inv
<1>1. CASE Invoke
  <2>1. clean' => core' = "idle"
    BY <1>1 DEF Invoke, coreVars
  <2>2. /\ hpc' = "base" /\ k' = 1 /\ mark' = execs /\ execs' = execs
    BY <1>1 DEF Invoke, coreVars
  <2>3. clean' => RestInv' /\ SetInv'
    BY <2>1, <2>2 DEF RestInv, SetInv
  <2>4. ~RunOver' /\ ~CallDone'
    BY <2>2 DEF RunOver, CallDone
  <2>5. StoredInv' /\ RanInv'
    BY <2>2, <2>4 DEF StoredInv, RanInv
  <2> QED
    BY <2>3, <2>5 DEF CallInv
<1>2. CASE Return
  BY <1>2 DEF Return, CallInv
<1>3. CASE UNCHANGED vars
  BY <1>3 DEF Inv, CallInv, RestInv, SetInv, StoredInv, Stored, RanInv, RunOver, CallDone,
     Passing, Kind, vars, hostVars, regVars, coreVars, failVars
<1> QED
  BY <1>1, <1>2, <1>3, CallInvWrite, CallInvPoll, CallInvCore
  DEF Next, Host, Finished

LEMMA InvInit == Init => Inv
BY TypeInit DEF Init, Inv, CallInv

\* The inductive invariant holds throughout.
THEOREM Invariance == Spec => []Inv
BY InvInit, InvStep, PTL DEF Spec

\* A call during which nothing fails is made once, in the right words, and its
\* result is in the register when the host reads it.
THEOREM CallIsRight == Spec => []RightCall
<1>1. Inv => RightCall
  <2> SUFFICES ASSUME Inv, clean, hpc = "ret" PROVE RightCall
    BY DEF RightCall
  <2>1. RestInv /\ SetInv /\ RanInv
    BY DEF Inv, CallInv
  <2>2. CallDone
    BY DEF CallDone
  <2> QED
    BY <2>1, <2>2 DEF RightCall, RestInv, SetInv, RanInv
<1> QED
  BY <1>1, Invariance, PTL

-----------------------------------------------------------------------------
(* A call without failures, and without 64-bit types, is the abstract one   *)

\* A call that stays clean leaves the accelerator at rest.
CleanInv ==
  /\ clean /\ hpc = "home" => core = "idle"
  /\ execs # 0 => ran # <<>>

LEMMA CleanStep ==
  ASSUME Inv, CleanInv, [Next]_vars
  PROVE  CleanInv'
<1> USE DEF CleanInv, hostVars, regVars, coreVars
<1>0. UNCHANGED <<execs, ran>> => (execs # 0 => ran # <<>>)'
  BY DEF CleanInv
<1>1. CASE Invoke \/ SetBase \/ SetOp \/ SetIndex \/ SetValue \/ StartRun \/ Poll
  <2>1. hpc' # "home" /\ UNCHANGED <<execs, ran>>
    BY <1>1 DEF Invoke, SetBase, SetOp, SetIndex, SetValue, StartRun, Poll
  <2> QED
    BY <1>0, <2>1
<1>2. CASE Return
  <2>1. clean' => clean /\ core' = core
    BY <1>2 DEF Return, Access, Fails, failVars
  <2>2. clean => core = "idle"
    BY <1>2 DEF Return, Inv, CallInv, RestInv
  <2>3. UNCHANGED <<execs, ran>>
    BY <1>2 DEF Return
  <2> QED
    BY <1>0, <2>1, <2>2, <2>3
<1>3. CASE Core
  <2>1. hpc' = hpc /\ clean' = clean /\ core # "idle"
    BY <1>3 DEF Core, Fetch, RunVersion, RunWriteArg, RunCall, RunNothing, RunEnds, failVars
  <2>2. execs' # 0 => ran' # <<>>
    <3>1. CASE RunCall
      BY <3>1 DEF RunCall
    <3>2. CASE ~RunCall
      BY <1>0, <1>3, <3>2 DEF Core, Fetch, RunVersion, RunWriteArg, RunNothing
    <3> QED
      BY <3>1, <3>2
  <2> QED
    BY <2>1, <2>2
<1>4. CASE UNCHANGED vars
  BY <1>0, <1>4 DEF vars, failVars
<1> QED
  BY <1>1, <1>2, <1>3, <1>4 DEF Next, Host, Finished

\* Only Invoke makes a call clean, or begins another.
LEMMA CleanBefore ==
  ASSUME [Next]_vars, ~Invoke, clean'
  PROVE  clean /\ call' = call
<1> USE DEF hostVars, regVars, coreVars, failVars
<1>1. CASE SetBase \/ SetOp \/ SetIndex \/ SetValue \/ StartRun
  BY <1>1 DEF SetBase, SetOp, SetIndex, SetValue, StartRun, Write, Access, Fails
<1>2. CASE Poll \/ Return
  BY <1>2 DEF Poll, Return, Access, Fails
<1>3. CASE Core
  BY <1>3 DEF Core, Fetch, RunVersion, RunWriteArg, RunCall, RunNothing, RunEnds
<1>4. CASE UNCHANGED vars
  BY <1>4 DEF vars
<1> QED
  BY <1>1, <1>2, <1>3, <1>4 DEF Next, Host, Finished

\* Of a clean call in progress: it is executed at most once.
LEMMA CleanFacts ==
  ASSUME Inv, clean, hpc # "home"
  PROVE  /\ RestInv /\ SetInv /\ StoredInv /\ RanInv
         /\ execs \in Nat /\ mark \in Nat
         /\ Phase = IF CallDone THEN "done" ELSE "called"
<1>1. RestInv /\ SetInv /\ StoredInv /\ RanInv
  BY DEF Inv, CallInv
<1>2. execs \in Nat /\ mark \in Nat
  BY DEF Inv, TypeOK
<1> QED
  BY <1>1, <1>2 DEF RanInv, Phase

\* The method gets what the caller passed.
LEMMA ExecutesCall ==
  ASSUME Inv, CleanInv, clean, Narrow(call[1]), RunCall
  PROVE  /\ hpc = "poll" /\ ~Passing /\ core = "running" /\ core' = "idle"
         /\ ran' = call
<1>1. /\ core = "running" /\ core' = "idle" /\ cur[1] = "OP_CALL"
      /\ ran' = <<cur[2], Received(cur[2])>>
  BY DEF RunCall, RunEnds
<1>2. hpc = "poll" /\ RestInv /\ SetInv /\ StoredInv
  BY <1>1, CleanFacts DEF Inv, CleanInv, RestInv
<1>3. ~Passing /\ cur[2] = call[1]
  BY <1>1, <1>2 DEF SetInv
<1>4. /\ call[1] \in Methods /\ call[2] \in [1 .. Arity(call[1]) -> Words]
      /\ call = <<call[1], call[2]>>
  BY InvocationFacts DEF Inv, TypeOK
<1>5. \A i \in 1 .. Arity(call[1]) : i < k
  BY <1>3, CallFacts DEF Inv, Passing
<1>6. \A i \in 1 .. Arity(call[1]) : args[i - 1] = call[2][i]
  BY <1>2, <1>4, <1>5 DEF StoredInv, Stored, Narrow
<1>7. Received(call[1]) = [i \in 1 .. Arity(call[1]) |-> call[2][i]]
  BY <1>4, <1>6, ArgIndexIs DEF Received
<1>8. Received(call[1]) = call[2]
  BY <1>4, <1>7
<1> QED
  BY <1>1, <1>2, <1>3, <1>4, <1>8

LEMMA CallStepImplements ==
  ASSUME Inv, CleanInv, [Next]_vars, clean', Narrow(call'[1])
  PROVE  [Contract!AbsNext]_(Contract!absVars)
<1> USE DEF Contract!AbsNext, Contract!absVars, hostVars, regVars, coreVars
<1>0. ~Invoke => clean /\ call' = call /\ Narrow(call[1])
  BY CleanBefore
<1>1. CASE Invoke
  BY <1>1 DEF Invoke, Contract!Invoke, Phase
<1>2. CASE SetBase \/ SetOp \/ SetIndex \/ SetValue \/ StartRun \/ Poll
  <2>1. /\ hpc # "home" /\ hpc' # "home"
        /\ UNCHANGED <<call, got, ran, execs, mark>>
    BY <1>2 DEF SetBase, SetOp, SetIndex, SetValue, StartRun, Poll
  <2> QED
    BY <2>1 DEF Phase
<1>3. CASE Return
  <2>1. /\ hpc = "ret" /\ hpc' = "home"
        /\ UNCHANGED <<call, ran>>
    BY <1>3 DEF Return
  <2>0. clean /\ Narrow(call[1]) /\ ~Fails
    <3>1. ~Invoke
      BY <2>1 DEF Invoke
    <3> QED
      BY <1>0, <3>1 DEF Fails
  <2>2. CallDone /\ Phase = "done" /\ Phase' = "idle"
    BY <2>0, <2>1, CleanFacts DEF CallDone, Phase
  <2>3. ran[1] = call[1] /\ retval = Answer[ran]
    BY <2>0, <2>1, <2>2, CleanFacts DEF RanInv
  <2>4. call[1] \in Methods
    BY CallFacts DEF Inv
  <2>5. ran # <<>> /\ ran \in DOMAIN Answer
    <3>1. execs = mark + 1 /\ execs \in Nat /\ mark \in Nat
      BY <2>0, <2>1, <2>2, CleanFacts DEF RanInv
    <3> QED
      BY <3>1 DEF Inv, TypeOK, CleanInv
  <2>6. got' = Answer[ran]
    <3>1. CASE Result[call[1]] = "word"
      BY <1>3, <2>0, <2>3, <3>1 DEF Return
    <3>2. CASE Result[call[1]] # "word"
      <4>1. Result[ran[1]] = "void"
        BY <2>0, <2>3, <2>4, <3>2, CallAssumption DEF CallAssumption, Narrow
      <4>2. Answer[ran] = Zero
        BY <2>5, <4>1 DEF Answer
      <4> QED
        BY <1>3, <3>2, <4>2 DEF Return
    <3> QED
      BY <3>1, <3>2
  <2> QED
    BY <2>1, <2>2, <2>5, <2>6 DEF Contract!Return
<1>4. CASE RunCall
  <2>2. UNCHANGED <<hpc, call, k, got, mark>> /\ execs' = execs + 1 /\ clean' = clean
    BY <1>4 DEF RunCall, RunEnds, failVars
  <2>0. clean /\ Narrow(call[1])
    BY <2>2
  <2>1. /\ hpc = "poll" /\ ~Passing /\ core = "running" /\ core' = "idle" /\ ran' = call
    BY <1>4, <2>0, ExecutesCall
  <2>3. ~CallDone /\ execs = mark /\ execs \in Nat /\ Phase = "called"
    BY <2>0, <2>1, CleanFacts DEF CallDone, RunOver, RanInv
  <2>4. Phase' = "done"
    BY <2>1, <2>2, <2>3 DEF Phase
  <2>5. call # <<>>
    <3>1. call = <<call[1], call[2]>>
      BY InvocationFacts DEF Inv, TypeOK
    <3> QED
      BY <3>1
  <2> QED
    BY <2>1, <2>2, <2>3, <2>4, <2>5 DEF Contract!Execute
<1>5. CASE Fetch \/ RunVersion \/ RunWriteArg \/ RunNothing
  <2>1. UNCHANGED <<hpc, call, got, mark, ran, execs>>
    BY <1>5 DEF Fetch, RunVersion, RunWriteArg, RunNothing, RunEnds
  <2> QED
    BY <2>1 DEF Phase
<1>6. CASE UNCHANGED vars
  BY <1>6 DEF vars, Phase
<1> QED
  BY <1>1, <1>2, <1>3, <1>4, <1>5, <1>6 DEF Next, Host, Core, Finished

\* For any methods, any calls and any failures: as long as nothing fails, a call
\* of a method whose types have 32 bits or less is the call of CallAbs.
THEOREM CleanCallsAreCalls == Spec => CleanCallsImplement
<1>1. Init => CleanInv
  BY DEF Init, CleanInv
<1>2. Inv /\ CleanInv /\ [Next]_vars =>
        CleanInv' /\ (clean' /\ Narrow(call'[1]) => [Contract!AbsNext]_(Contract!absVars))
  BY CleanStep, CallStepImplements
<1>3. Spec => []Inv
  BY Invariance
<1> QED
  BY <1>1, <1>2, <1>3, PTL DEF Spec, CleanCallsImplement

=============================================================================
