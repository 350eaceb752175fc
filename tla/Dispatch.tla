------------------------------ MODULE Dispatch ------------------------------
(***************************************************************************)
(* What the accelerator's code asks the host for, and how the two come to  *)
(* mean the same by a number: caicos numbers system calls, classes and     *)
(* implementations of interfaces while it rewrites the accelerator's code, *)
(* and writes the host's switches from the same tables afterwards.         *)
(*                                                                         *)
(* A site is a place in the code that is rewritten: a record of its kind,  *)
(* the function, class or interface named there and the values of its      *)
(* arguments (the thread, the first one, is left out: it is replaced).     *)
(***************************************************************************)
EXTENDS Integers, Sequences, FiniteSets

CONSTANTS
  SiteSets, \* sets of sites
  Impls,    \* of each interface: its implementations, from JamaicaBuilder's list
  Chosen,   \* of each interface call: the implementation the VM finds for it
  Address   \* of each implementation: the address of its C function

MaxArgs == 6              \* MAX_SYSCALL_ARGS, with the thread
ClassCall == 250          \* juniper_get_class_reference
GetInterfaceMethod == "jamaicaInterpreter_getInterfaceMethod"

\* A call to the VM for the method of an interface is a system call as well.
Callee(s) == IF s.kind = "interface" THEN GetInterfaceMethod ELSE s.name

\* A call has the arguments of its function's declaration, of 32 bits.
ASSUME DispatchAssumption ==
  \A P \in SiteSets :
    /\ \A s \in P :
         /\ s.kind \in {"call", "class", "interface"}
         /\ s.args \in Seq(Int)
         /\ s.kind = "interface" =>
              Chosen[s] \in Impls[s.name] /\ Impls[s.name] \subseteq DOMAIN Address
    /\ \A s, t \in P :
         s.kind # "class" /\ t.kind # "class" /\ Callee(s) = Callee(t)
           => Len(s.args) = Len(t.args)

VARIABLES
  sites,      \* the program
  stage,      \* "trace", "rewrite", "run"; "error"
  mapping,    \* interfacemapping: the numbers of implementations
  syscalls,   \* the numbers of functions
  referenced, \* ClassRefs.referenced: the numbers of classes
  code,       \* of each site rewritten: the arguments of its pcie_syscall
  host,       \* the host's switch: command -> what is called
  answered    \* history: site, and what the host did for it

dispatchVars == <<sites, stage, mapping, syscalls, referenced, code, host, answered>>

Requested == {Callee(s) : s \in {t \in sites : t.kind # "class"}}
Impl == UNION {Impls[s.name] : s \in {t \in sites : t.kind = "interface"}}

NoNumbers == [x \in {} |-> 0]
\* The next of a sequence of numbers that begins with 1.
NextId(m) == Cardinality(DOMAIN m) + 1
Extend(f, x, v) == [y \in DOMAIN f \union {x} |-> IF y = x THEN v ELSE f[y]]

DispatchInit ==
  /\ sites \in SiteSets
  /\ stage = "trace" /\ mapping = NoNumbers /\ syscalls = NoNumbers
  /\ referenced = NoNumbers /\ code = NoNumbers /\ host = NoNumbers /\ answered = {}

-----------------------------------------------------------------------------
Number_SameId(m) ==
  /\ stage = "trace" /\ m \in Impl \ DOMAIN mapping
  /\ mapping' = Extend(mapping, m, 1)
  /\ UNCHANGED <<sites, stage, syscalls, referenced, code, host, answered>>

\* parse_getInterfaceMethod_call: the next number, to each name met first
Number(m) ==
  /\ stage = "trace" /\ m \in Impl \ DOMAIN mapping
  /\ mapping' = Extend(mapping, m, NextId(mapping))
  /\ UNCHANGED <<sites, stage, syscalls, referenced, code, host, answered>>

\* build_from_functions: a number for each function, in the order of a set
NumberCall(c) ==
  /\ stage = "trace" /\ Impl \subseteq DOMAIN mapping /\ c \in Requested \ DOMAIN syscalls
  /\ syscalls' = Extend(syscalls, c, NextId(syscalls))
  /\ UNCHANGED <<sites, stage, mapping, referenced, code, host, answered>>

BeginRewrite ==
  /\ stage = "trace" /\ Impl \subseteq DOMAIN mapping /\ Requested \subseteq DOMAIN syscalls
  /\ stage' = "rewrite"
  /\ UNCHANGED <<sites, mapping, syscalls, referenced, code, host, answered>>

\* replace_class_references: pcie_syscall(250, 1, number)
RewriteClass(s) ==
  /\ stage = "rewrite" /\ s \in sites \ DOMAIN code /\ s.kind = "class"
  /\ referenced' = IF s.name \in DOMAIN referenced THEN referenced
                   ELSE Extend(referenced, s.name, NextId(referenced))
  /\ code' = Extend(code, s, <<ClassCall, 1, referenced'[s.name], 0, 0, 0>>)
  /\ UNCHANGED <<sites, stage, mapping, syscalls, host, answered>>

Pad_Front(args) == [i \in 1..(MaxArgs - 1) |->
  IF i + Len(args) >= MaxArgs THEN args[i + Len(args) - MaxArgs + 1] ELSE 0]

\* rewrite_syscall_calls: the number takes the place of the thread, zeros
\* those of missing arguments; more than there is room for is an error.
Pad(args) == [i \in 1..(MaxArgs - 1) |-> IF i <= Len(args) THEN args[i] ELSE 0]

RewriteCall(s) ==
  /\ stage = "rewrite" /\ s \in sites \ DOMAIN code /\ s.kind # "class"
  /\ IF Len(s.args) + 1 > MaxArgs
       THEN stage' = "error" /\ UNCHANGED code
       ELSE code' = Extend(code, s, <<syscalls[Callee(s)]>> \o Pad(s.args)) /\ UNCHANGED stage
  /\ UNCHANGED <<sites, mapping, syscalls, referenced, host, answered>>

\* generate_interrupt_handler
Generate ==
  /\ stage = "rewrite" /\ DOMAIN code = sites
  /\ stage' = "run"
  /\ host' = [n \in {syscalls[c] : c \in Requested} \union {ClassCall} |->
                IF n = ClassCall THEN "class" ELSE CHOOSE c \in Requested : syscalls[c] = n]
  /\ UNCHANGED <<sites, mapping, syscalls, referenced, code, answered>>

-----------------------------------------------------------------------------
\* How many arguments a function takes, by its declaration in jamaica.h.
Params(c) == Len((CHOOSE s \in sites : s.kind # "class" /\ Callee(s) = c).args)

\* interrupt_handler_classref_code: the switch is on arg1.
ClassOf(q) == {r \in DOMAIN referenced : referenced[r] = q[2]}

\* get_host_code: the number of what the VM found.
ImplOf(s) == mapping[Chosen[s]]

\* caicos_handle_pcie_interrupt
Answer(s) ==
  LET q == code[s] IN
  IF q[1] \notin DOMAIN host THEN [what |-> "default", args |-> <<>>, rv |-> 0]
  ELSE IF q[1] = ClassCall THEN [what |-> "class", args |-> <<>>, rv |-> ClassOf(q)]
  ELSE [what |-> host[q[1]], args |-> SubSeq(q, 2, Params(host[q[1]]) + 1),
        rv |-> IF s.kind = "interface" THEN ImplOf(s) ELSE 0]

Run(s) ==
  /\ stage = "run" /\ answered' = {[site |-> s, answer |-> Answer(s)]}
  /\ UNCHANGED <<sites, stage, mapping, syscalls, referenced, code, host>>

\* rewrite_interface_calls: the accelerator's switch on the answer calls the
\* implementation whose function the answer names, if there is one.
Called(s, rv) == {m \in Impls[s.name] : Address[m] = rv}

DispatchNext ==
  \/ \E m \in Impl : Number(m)
  \/ \E c \in Requested : NumberCall(c)
  \/ BeginRewrite \/ Generate
  \/ \E s \in sites : RewriteClass(s) \/ RewriteCall(s) \/ Run(s)

DispatchSpec == DispatchInit /\ [][DispatchNext]_dispatchVars

-----------------------------------------------------------------------------
\* The system call that takes a function's place reaches that function, with
\* the arguments of the call in their places, whatever order the functions
\* were numbered in (juniperrewrites.py:276-315, prepare_src_project.py:246-280).
SyscallReaches ==
  \A a \in answered : a.site.kind # "class" =>
    a.answer.what = Callee(a.site) /\ a.answer.args = a.site.args

\* The number in an answer stands for the implementation the VM found and no
\* other: the host's tables tell all of them apart (interfaces.py:53-82).
AnswersIdentify ==
  \A a \in answered : a.site.kind = "interface" =>
    {m \in DOMAIN mapping : mapping[m] = a.answer.rv} = {Chosen[a.site]}

\* An interface call of the accelerator comes out at the implementation that
\* the VM found, and at no other (interfaces.py:64-68, :102-119).
InterfaceReaches ==
  \A a \in answered : a.site.kind = "interface" =>
    Called(a.site, a.answer.rv) = {Chosen[a.site]}

\* A reference to a class is answered with that class: juniper_get_class_reference
\* "fetches a juniper_ref of the class metadata" (class_references.py:48-65).
ClassAnswers ==
  \A a \in answered : a.site.kind = "class" => a.answer.rv = {a.site.name}

=============================================================================
