---------------------------- MODULE FlowAnalysis ----------------------------
(***************************************************************************)
(* Which functions of the generated C code become hardware.                *)
(*                                                                         *)
(* trace_from_functions walks the call graph from each configured method   *)
(* in turn.  A walk (class ReachableFunctions) is a recursive descent: its *)
(* frames are `stack`, the calls a frame has still to look at are          *)
(* todo[d].  Each walk has sets of its own; the cache from names to        *)
(* definitions belongs to the process and outlives it.                     *)
(*                                                                         *)
(* Calls to excluded functions become system calls, calls to ignored ones  *)
(* are left alone (the HLS library or the porting layer has them), a name  *)
(* that is defined nowhere is skipped with a warning.  An interface call   *)
(* counts as a call of each implementation JamaicaBuilder lists; those     *)
(* come with their definition and are not searched for.                    *)
(***************************************************************************)
EXTENDS Naturals, Sequences

CONSTANTS
  Defs,      \* function definitions (FuncDef nodes)
  Names,     \* names of functions
  Undefined, \* Python's None: no definition found
  Unset,     \* not in resolutioncache
  Files,     \* source files
  FileOf,    \* FileOf[d]: the file that defines d
  Found,     \* Found[r][n]: the first definition of n in the order in which
             \* the files are searched for root r (get_files_to_search)
  Home,      \* Home[n]: the definition an interface lists for n
  Excluded,  \* excluded_functions
  Ignored,   \* calls_to_ignore
  Porting,   \* fpgaporting.c, in every build
  Additional, \* additionalsourcefiles of the configuration
  Roots,     \* the definitions of the configured methods, in order
  Programs   \* the programs considered: each maps a definition to its calls

\* A call: a name, and whether an interface listed it.
Sites == Names \X BOOLEAN

ASSUME FlowAssumption ==
  /\ Undefined \notin Defs /\ Unset \notin Defs /\ Unset # Undefined
  /\ FileOf \in [Defs -> Files]
  /\ Found \in [Defs -> [Names -> Defs \union {Undefined}]]
  /\ Home \in [Names -> Defs]
  /\ Porting \in Files /\ Additional \subseteq Files
  /\ Roots \in Seq(Defs)
  /\ Programs \subseteq [Defs -> SUBSET Sites]

VARIABLES
  calls,   \* the program: the calls each definition contains
  pos,     \* trace_from_functions: index of the current root
  walking, \* the walk from that root is in progress
  stack,   \* its frames, innermost first
  todo,    \* todo[d]: the calls of d its frame has still to look at
  seen,    \* func_defs_seen
  reached, \* reachable_functions
  trapped, \* reachable_non_translated
  cache,   \* resolutioncache
  allReached, allTrapped, build  \* the results: all_reachable_functions,
                                 \* reachable_non_translated, filestobuild

walkVars   == <<stack, todo, seen, reached, trapped>>
resultVars == <<allReached, allTrapped, build>>
flowVars == <<calls, pos, walking, walkVars, cache, resultVars>>

FlowInit ==
  /\ calls \in Programs
  /\ pos = 1 /\ walking = FALSE
  /\ stack = <<>> /\ todo = [d \in Defs |-> {}]
  /\ seen = {} /\ reached = {} /\ trapped = {}
  /\ cache = [n \in Names |-> Unset]
  /\ allReached = {} /\ allTrapped = {} /\ build = {Porting}

\* mutant: the sets are attributes of the class, one for all walks.
StartRoot_Shared ==
  /\ ~walking /\ pos <= Len(Roots)
  /\ walking' = TRUE
  /\ stack' = IF Roots[pos] \in seen THEN <<>> ELSE <<Roots[pos]>>
  /\ seen' = seen \union {Roots[pos]}
  /\ todo' = [d \in Defs |-> IF d = Roots[pos] THEN calls[d] ELSE {}]
  /\ build' = build \union Additional
  /\ UNCHANGED <<calls, pos, reached, trapped, cache, allReached, allTrapped>>

\* A new ReachableFunctions; its constructor descends into the root.
StartRoot ==
  /\ ~walking /\ pos <= Len(Roots)
  /\ walking' = TRUE
  /\ stack' = <<Roots[pos]>>
  /\ seen' = {Roots[pos]}
  /\ todo' = [d \in Defs |-> IF d = Roots[pos] THEN calls[d] ELSE {}]
  /\ reached' = {} /\ trapped' = {}
  /\ build' = build \union Additional
  /\ UNCHANGED <<calls, pos, cache, allReached, allTrapped>>

\* The innermost frame looks at call c, and is done with it.
Looks(c) ==
  /\ stack # <<>> /\ c \in todo[Head(stack)]
  /\ UNCHANGED <<calls, pos, walking, resultVars>>

Rest(c) == [todo EXCEPT ![Head(stack)] = @ \ {c}]

Trap(c) ==
  /\ Looks(c) /\ c[1] \in Excluded
  /\ trapped' = trapped \union {c[1]}
  /\ todo' = Rest(c)
  /\ UNCHANGED <<stack, seen, reached, cache>>

Ignore(c) ==
  /\ Looks(c) /\ c[1] \in Ignored \ Excluded
  /\ todo' = Rest(c)
  /\ UNCHANGED <<stack, seen, reached, trapped, cache>>

\* What the cache holds for the name once it has been looked up.
Resolved(c) ==
  IF cache[c[1]] # Unset THEN cache[c[1]]
  ELSE IF c[2] THEN Home[c[1]] ELSE Found[Roots[pos]][c[1]]

LooksUp(c) ==
  /\ Looks(c) /\ c[1] \notin Excluded \union Ignored
  /\ cache' = [cache EXCEPT ![c[1]] = Resolved(c)]

\* mutant: the test for None guards the descent, not the line before it.
Skip_AddsNone(c) ==
  /\ LooksUp(c) /\ Resolved(c) = Undefined
  /\ reached' = reached \union {Undefined}
  /\ todo' = Rest(c)
  /\ UNCHANGED <<stack, seen, trapped>>

Skip(c) ==
  /\ LooksUp(c) /\ Resolved(c) = Undefined
  /\ todo' = Rest(c)
  /\ UNCHANGED <<stack, seen, reached, trapped>>

\* mutant: loops are not cut, a definition is gone through once more.
Revisit_Again(c) ==
  /\ LooksUp(c) /\ Resolved(c) \in seen
  /\ reached' = reached \union {Resolved(c)}
  /\ todo' = [Rest(c) EXCEPT ![Resolved(c)] = calls[Resolved(c)]]
  /\ UNCHANGED <<stack, seen, trapped>>

\* Already descended into: this is what ends the recursion of a cycle.
Revisit(c) ==
  /\ LooksUp(c) /\ Resolved(c) \in seen
  /\ reached' = reached \union {Resolved(c)}
  /\ todo' = Rest(c)
  /\ UNCHANGED <<stack, seen, trapped>>

\* mutant: only names this call has put into the cache are descended into.
Descend_NewOnly(c) ==
  /\ LooksUp(c) /\ Resolved(c) \notin seen \union {Undefined}
  /\ reached' = reached \union {Resolved(c)}
  /\ seen' = seen \union {Resolved(c)}
  /\ IF cache[c[1]] = Unset
     THEN /\ stack' = <<Resolved(c)>> \o stack
          /\ todo' = [Rest(c) EXCEPT ![Resolved(c)] = calls[Resolved(c)]]
     ELSE stack' = stack /\ todo' = Rest(c)
  /\ UNCHANGED trapped

Descend(c) ==
  /\ LooksUp(c) /\ Resolved(c) \notin seen \union {Undefined}
  /\ reached' = reached \union {Resolved(c)}
  /\ seen' = seen \union {Resolved(c)}
  /\ stack' = <<Resolved(c)>> \o stack
  /\ todo' = [Rest(c) EXCEPT ![Resolved(c)] = calls[Resolved(c)]]
  /\ UNCHANGED trapped

\* find_reachable_functions returns.
Return ==
  /\ stack # <<>> /\ todo[Head(stack)] = {}
  /\ stack' = Tail(stack)
  /\ UNCHANGED <<calls, pos, walking, todo, seen, reached, trapped, cache,
                 resultVars>>

\* mutant: the starting point is left out.
FinishRoot_NoStart ==
  /\ walking /\ stack = <<>>
  /\ walking' = FALSE /\ pos' = pos + 1
  /\ allReached' = allReached \union reached
  /\ allTrapped' = allTrapped \union trapped
  /\ build' = build \union {FileOf[d] : d \in reached}
  /\ UNCHANGED <<calls, walkVars, cache>>

\* The walk's results, and the starting point, are added to those of the build.
FinishRoot ==
  /\ walking /\ stack = <<>>
  /\ walking' = FALSE /\ pos' = pos + 1
  /\ allReached' = allReached \union reached \union {Roots[pos]}
  /\ allTrapped' = allTrapped \union trapped
  /\ build' = build \union {FileOf[d] : d \in reached \union {Roots[pos]}}
  /\ UNCHANGED <<calls, walkVars, cache>>

Finished ==
  /\ ~walking /\ pos > Len(Roots)
  /\ UNCHANGED flowVars

Walk == \/ \E c \in Sites : Trap(c) \/ Ignore(c) \/ Skip(c) \/ Revisit(c) \/ Descend(c)
        \/ Return

Trace == StartRoot \/ Walk \/ FinishRoot

FlowNext == Trace \/ Finished

FlowSpec == FlowInit /\ [][FlowNext]_flowVars

FlowFairSpec == FlowSpec /\ WF_flowVars(Trace)

-----------------------------------------------------------------------------
(* What the walk should compute, for a program p *)

\* "Assumes code which would link without warnings about multiply defined
\* symbols": the order of the search does not matter.
OneDefinition(p) ==
  /\ \A r, s \in Defs : Found[r] = Found[s]
  /\ \A r, d \in Defs, n \in Names : <<n, TRUE>> \in p[d] => Home[n] = Found[r][n]

\* The definitions a definition calls, system calls and ignored calls aside.
Callees(p, d) ==
  {Found[d][c[1]] : c \in {s \in p[d] : s[1] \notin Excluded \union Ignored}}
    \ {Undefined}

Closed(p, S) == \A d \in S : Callees(p, d) \subseteq S

\* The least set that contains A and is closed under calls.
Reach(p, A) ==
  {d \in Defs : \A S \in SUBSET Defs : A \subseteq S /\ Closed(p, S) => d \in S}

\* The excluded functions the definitions of S call.
Traps(p, S) == {n \in Excluded \intersect Names : \E d \in S, b \in BOOLEAN : <<n, b>> \in p[d]}

-----------------------------------------------------------------------------
(* Properties *)

\* Types.
FlowTypeOK ==
  /\ calls \in [Defs -> SUBSET Sites]
  /\ pos \in 1 .. Len(Roots) + 1
  /\ walking \in BOOLEAN /\ (walking => pos <= Len(Roots))
  /\ stack \in Seq(Defs) /\ todo \in [Defs -> SUBSET Sites]
  /\ seen \subseteq Defs /\ reached \subseteq Defs /\ trapped \subseteq Names
  /\ cache \in [Names -> Defs \union {Undefined, Unset}]
  /\ allReached \subseteq Defs /\ allTrapped \subseteq Names
  /\ build \subseteq Files

\* A walk reaches nothing that is not called, whatever an earlier walk has
\* left in the cache: no function is synthesised without need.
NothingExtra == OneDefinition(calls) /\ walking => reached \subseteq Reach(calls, {Roots[pos]})

\* When a walk ends, it has reached all that its root may call and noted every
\* system call on the way, although cycles are cut and the cache is shared.
WalkComplete ==
  OneDefinition(calls) /\ walking /\ stack = <<>> =>
    /\ Reach(calls, {Roots[pos]}) = reached \union {Roots[pos]}
    /\ trapped = Traps(calls, Reach(calls, {Roots[pos]}))

\* At the end the build has exactly the definitions the roots need, the system
\* calls these make, and the files they are in: a definition or a number
\* missing here is a hole in the hardware.
BuildExact ==
  OneDefinition(calls) /\ ~walking /\ pos > Len(Roots) =>
    LET need == Reach(calls, {Roots[i] : i \in DOMAIN Roots}) IN
      /\ allReached = need
      /\ allTrapped = Traps(calls, need)
      /\ build = {Porting} \union (UNION {Additional : i \in DOMAIN Roots})
                   \union {FileOf[d] : d \in need}

\* The recursion ends, on every program, and so do those of the other roots.
TraceEnds == walking ~> (~walking /\ pos > Len(Roots))

=============================================================================
