------------------------- MODULE FlowAnalysisProofs -------------------------
(***************************************************************************)
(* Theorems about FlowAnalysis, for every set of programs, every search    *)
(* order and any number of roots: what is handed to the HLS tool is what   *)
(* the configured methods need, no less and no more.                       *)
(***************************************************************************)
EXTENDS FlowAnalysis, TLAPS

LEMMA ConstantFacts ==
  /\ Undefined \notin Defs /\ Unset \notin Defs /\ Unset # Undefined
  /\ \A r \in Defs, n \in Names : Found[r][n] \in Defs \union {Undefined}
  /\ \A n \in Names : Home[n] \in Defs
  /\ \A d \in Defs : FileOf[d] \in Files
  /\ Porting \in Files /\ Additional \subseteq Files
  /\ Len(Roots) \in Nat
  /\ \A i \in 1 .. Len(Roots) : Roots[i] \in Defs
  /\ \A p \in Programs : p \in [Defs -> SUBSET Sites]
BY FlowAssumption DEF FlowAssumption

LEMMA SiteParts ==
  ASSUME NEW c \in Sites
  PROVE  c = <<c[1], c[2]>> /\ c[1] \in Names /\ c[2] \in BOOLEAN
BY DEF Sites

-----------------------------------------------------------------------------
(* Types *)

\* A name that is looked up resolves to a definition or to nothing.
LEMMA ResolvedType ==
  ASSUME FlowTypeOK, walking, NEW c \in Sites
  PROVE  Resolved(c) \in Defs \union {Undefined}
<1>1. c[1] \in Names /\ Roots[pos] \in Defs
  BY SiteParts, ConstantFacts DEF FlowTypeOK
<1>2. cache[c[1]] \in Defs \union {Undefined, Unset}
  BY <1>1 DEF FlowTypeOK
<1> QED
  BY <1>1, <1>2, ConstantFacts DEF Resolved

\* A frame that is looked at belongs to a walk.
FramesInv == ~walking => stack = <<>>

LEMMA FramesStep == FramesInv /\ [FlowNext]_flowVars => FramesInv'
BY DEF FramesInv, FlowNext, Trace, Walk, Trap, Ignore, Skip, Revisit, Descend,
   LooksUp, Looks, Return, StartRoot, FinishRoot, Finished, flowVars, walkVars

LEMMA TypeStep == FlowTypeOK /\ FramesInv /\ [FlowNext]_flowVars => FlowTypeOK'
<1> SUFFICES ASSUME FlowTypeOK, FramesInv, [FlowNext]_flowVars PROVE FlowTypeOK'
  OBVIOUS
<1>1. CASE StartRoot
  <2>1. Roots[pos] \in Defs
    BY <1>1, ConstantFacts DEF StartRoot, FlowTypeOK
  <2>2. todo' \in [Defs -> SUBSET Sites]
    BY <1>1 DEF StartRoot, FlowTypeOK
  <2>3. build' \subseteq Files
    BY <1>1, ConstantFacts DEF StartRoot, FlowTypeOK
  <2>4. pos' \in 1 .. Len(Roots) + 1 /\ pos' <= Len(Roots) /\ walking' \in BOOLEAN
    BY <1>1 DEF StartRoot, FlowTypeOK
  <2> QED
    BY <1>1, <2>1, <2>2, <2>3, <2>4 DEF StartRoot, FlowTypeOK, resultVars
<1>2. ASSUME NEW c \in Sites, Trap(c) \/ Ignore(c) \/ Skip(c) \/ Revisit(c) \/ Descend(c)
      PROVE  FlowTypeOK'
  <2>1. /\ walking /\ Head(stack) \in Defs
        /\ calls' = calls /\ pos' = pos /\ walking' = walking
        /\ UNCHANGED resultVars
    BY <1>2 DEF Trap, Ignore, Skip, Revisit, Descend, LooksUp, Looks, FramesInv, FlowTypeOK
  <2>2. Rest(c) \in [Defs -> SUBSET Sites]
    BY <2>1 DEF Rest, FlowTypeOK
  <2>3. c[1] \in Names
    BY SiteParts
  <2>4. Resolved(c) \in Defs \union {Undefined}
    BY <2>1, ResolvedType
  <2>5. cache' \in [Names -> Defs \union {Undefined, Unset}]
    BY <1>2, <2>3, <2>4 DEF Trap, Ignore, Skip, Revisit, Descend, LooksUp, FlowTypeOK
  <2>6. CASE Trap(c) \/ Ignore(c) \/ Skip(c)
    BY <2>6, <2>1, <2>2, <2>3, <2>5 DEF Trap, Ignore, Skip, FlowTypeOK, resultVars
  <2>7. CASE Revisit(c)
    BY <2>7, <2>1, <2>2, <2>5 DEF Revisit, FlowTypeOK, resultVars
  <2>8. CASE Descend(c)
    <3>1. Resolved(c) \in Defs
      BY <2>8, <2>4 DEF Descend
    <3>2. stack' \in Seq(Defs)
      BY <2>8, <3>1 DEF Descend, FlowTypeOK
    <3>3. todo' \in [Defs -> SUBSET Sites]
      BY <2>8, <3>1, <2>2 DEF Descend, FlowTypeOK
    <3>4. seen' \subseteq Defs /\ reached' \subseteq Defs /\ trapped' \subseteq Names
      BY <2>8, <3>1 DEF Descend, FlowTypeOK
    <3> QED
      BY <2>1, <2>5, <3>2, <3>3, <3>4 DEF FlowTypeOK, resultVars
  <2> QED
    BY <1>2, <2>6, <2>7, <2>8
<1>3. CASE Return
  BY <1>3 DEF Return, FlowTypeOK, resultVars
<1>4. CASE FinishRoot
  <2>1. Roots[pos] \in Defs /\ pos + 1 \in 1 .. Len(Roots) + 1
    BY <1>4, ConstantFacts DEF FinishRoot, FlowTypeOK
  <2>2. {FileOf[d] : d \in reached \union {Roots[pos]}} \subseteq Files
    BY <2>1, ConstantFacts DEF FlowTypeOK
  <2> QED
    BY <1>4, <2>1, <2>2 DEF FinishRoot, FlowTypeOK, walkVars
<1>5. CASE UNCHANGED flowVars
  BY <1>5 DEF flowVars, walkVars, resultVars, FlowTypeOK
<1> QED
  BY <1>1, <1>2, <1>3, <1>4, <1>5 DEF FlowNext, Trace, Walk, Finished

LEMMA TypeInit == FlowInit => FlowTypeOK /\ FramesInv
<1> SUFFICES ASSUME FlowInit PROVE FlowTypeOK /\ FramesInv
  OBVIOUS
<1>1. calls \in [Defs -> SUBSET Sites]
  BY ConstantFacts DEF FlowInit
<1>2. pos \in 1 .. Len(Roots) + 1
  BY ConstantFacts DEF FlowInit
<1>3. todo \in [Defs -> SUBSET Sites] /\ stack \in Seq(Defs)
  BY DEF FlowInit
<1>4. cache \in [Names -> Defs \union {Undefined, Unset}]
  BY DEF FlowInit
<1> QED
  BY <1>1, <1>2, <1>3, <1>4, ConstantFacts DEF FlowInit, FlowTypeOK, FramesInv

\* Every variable keeps its type.
THEOREM TypeCorrect == FlowSpec => []FlowTypeOK
<1>1. FlowInit => FlowTypeOK /\ FramesInv
  BY TypeInit
<1>2. FlowTypeOK /\ FramesInv /\ [FlowNext]_flowVars => FlowTypeOK' /\ FramesInv'
  BY TypeStep, FramesStep
<1> QED
  BY <1>1, <1>2, PTL DEF FlowSpec

-----------------------------------------------------------------------------
(* Reachability *)

\* What is reachable from inside a closed set stays in it.
LEMMA ReachLeast ==
  ASSUME NEW p, NEW A, NEW S \in SUBSET Defs, A \subseteq S, Closed(p, S)
  PROVE  Reach(p, A) \subseteq S
BY DEF Reach

LEMMA ReachStart ==
  ASSUME NEW p, NEW A \in SUBSET Defs
  PROVE  A \subseteq Reach(p, A) /\ Reach(p, A) \subseteq Defs
BY DEF Reach

LEMMA CalleesType ==
  ASSUME NEW p \in [Defs -> SUBSET Sites], NEW d \in Defs
  PROVE  Callees(p, d) \subseteq Defs
<1> SUFFICES ASSUME NEW c \in p[d], Found[d][c[1]] # Undefined
             PROVE  Found[d][c[1]] \in Defs
  BY DEF Callees
<1>1. c \in Sites
  OBVIOUS
<1> QED
  BY <1>1, SiteParts, ConstantFacts

LEMMA ReachClosed ==
  ASSUME NEW p \in [Defs -> SUBSET Sites], NEW A
  PROVE  Closed(p, Reach(p, A))
<1> SUFFICES ASSUME NEW d \in Reach(p, A), NEW e \in Callees(p, d)
             PROVE  e \in Reach(p, A)
  BY DEF Closed
<1>1. d \in Defs /\ e \in Defs
  BY CalleesType DEF Reach
<1>2. ASSUME NEW S \in SUBSET Defs, A \subseteq S, Closed(p, S) PROVE e \in S
  <2>1. d \in S
    BY <1>2 DEF Reach
  <2> QED
    BY <1>2, <2>1 DEF Closed
<1> QED
  BY <1>1, <1>2 DEF Reach

\* What several roots reach is what each of them reaches.
LEMMA ReachUnion ==
  ASSUME NEW p \in [Defs -> SUBSET Sites], NEW I \in SUBSET (1 .. Len(Roots))
  PROVE  Reach(p, {Roots[i] : i \in I}) = UNION {Reach(p, {Roots[i]}) : i \in I}
<1> DEFINE A == {Roots[i] : i \in I}
           U == UNION {Reach(p, {Roots[i]}) : i \in I}
<1>0. \A i \in I : Roots[i] \in Defs
  BY ConstantFacts
<1>1. Reach(p, A) \subseteq U
  <2>1. U \in SUBSET Defs
    BY DEF Reach
  <2>2. A \subseteq U
    BY <1>0, ReachStart
  <2>3. \A i \in I : Closed(p, Reach(p, {Roots[i]}))
    BY ReachClosed
  <2>4. Closed(p, U)
    BY <2>3 DEF Closed
  <2> QED
    BY <2>1, <2>2, <2>4, ReachLeast
<1>2. ASSUME NEW i \in I PROVE Reach(p, {Roots[i]}) \subseteq Reach(p, A)
  BY <1>2 DEF Reach
<1> QED
  BY <1>1, <1>2

-----------------------------------------------------------------------------
(* The inductive invariant, for programs with one definition for a name *)

\* The order of the search makes no difference to what a name stands for.
CacheInv ==
  \A n \in Names, r \in Defs : cache[n] # Unset => cache[n] = Found[r][n]

\* Only frames have calls left, and those are calls of theirs.
TodoInv ==
  \A d \in Defs :
    /\ todo[d] \subseteq calls[d]
    /\ todo[d] # {} => d \in seen /\ \E i \in 1 .. Len(stack) : stack[i] = d

SeenInv ==
  walking => /\ seen = reached \union {Roots[pos]}
             /\ seen \subseteq Reach(calls, {Roots[pos]})
             /\ trapped \subseteq Traps(calls, seen)

\* What a call that has been looked at demands.
Handled(d, c) ==
  /\ c[1] \in Excluded => c[1] \in trapped
  /\ c[1] \notin Excluded \union Ignored => Found[d][c[1]] \in seen \union {Undefined}

HandledInv ==
  walking => \A d \in seen : \A c \in calls[d] \ todo[d] : Handled(d, c)

\* The results are those of the roots that are done.
DoneInv ==
  /\ allReached = UNION {Reach(calls, {Roots[i]}) : i \in 1 .. pos - 1}
  /\ allTrapped = Traps(calls, allReached)
  /\ build = {Porting} \union {FileOf[d] : d \in allReached}
               \union (IF walking \/ pos > 1 THEN Additional ELSE {})

WalkInv == CacheInv /\ TodoInv /\ SeenInv /\ HandledInv /\ DoneInv

Inv == FlowTypeOK /\ FramesInv /\ (OneDefinition(calls) => WalkInv)

\* What a look at call c does to the variables all looks treat alike.
LEMMA LookFacts ==
  ASSUME FlowTypeOK, FramesInv, NEW c,
         Trap(c) \/ Ignore(c) \/ Skip(c) \/ Revisit(c) \/ Descend(c)
  PROVE  /\ walking /\ walking' /\ Roots[pos] \in Defs
         /\ stack # <<>> /\ Head(stack) \in Defs
         /\ c \in todo[Head(stack)] /\ c \in Sites
         /\ calls' = calls /\ pos' = pos /\ UNCHANGED resultVars
         /\ calls \in [Defs -> SUBSET Sites]
<1>1. walking /\ stack # <<>> /\ c \in todo[Head(stack)] /\ UNCHANGED <<calls, pos, walking, resultVars>>
  BY DEF Trap, Ignore, Skip, Revisit, Descend, LooksUp, Looks, FramesInv
<1>2. Head(stack) \in Defs
  BY <1>1 DEF FlowTypeOK
<1>3. Roots[pos] \in Defs
  BY <1>1, ConstantFacts DEF FlowTypeOK
<1> QED
  BY <1>1, <1>2, <1>3 DEF FlowTypeOK

LEMMA ResolvedIsFound ==
  ASSUME FlowTypeOK, OneDefinition(calls), CacheInv, walking,
         NEW d \in Defs, NEW c \in calls[d]
  PROVE  /\ \A r \in Defs : Resolved(c) = Found[r][c[1]]
         /\ Resolved(c) \in Defs \union {Undefined}
<1>1. c \in Sites
  BY DEF FlowTypeOK
<1>2. c = <<c[1], c[2]>> /\ c[1] \in Names /\ c[2] \in BOOLEAN
  BY <1>1, SiteParts
<1>3. Roots[pos] \in Defs
  BY ConstantFacts DEF FlowTypeOK
<1>4. \A r \in Defs : Found[r] = Found[Roots[pos]]
  BY <1>3 DEF OneDefinition
<1>5. c[2] => Home[c[1]] = Found[d][c[1]]
  <2>1. HAVE c[2]
  <2>2. <<c[1], TRUE>> \in calls[d]
    BY <2>1, <1>2
  <2> QED
    BY <2>2, <1>2 DEF OneDefinition
<1>6. cache[c[1]] # Unset => \A r \in Defs : cache[c[1]] = Found[r][c[1]]
  BY <1>2 DEF CacheInv
<1>7. \A r \in Defs : Resolved(c) = Found[r][c[1]]
  BY <1>3, <1>4, <1>5, <1>6 DEF Resolved
<1> QED
  BY <1>7, <1>1, ResolvedType

LEMMA CacheStep ==
  ASSUME FlowTypeOK, FramesInv, OneDefinition(calls), WalkInv, [FlowNext]_flowVars
  PROVE  CacheInv'
<1>1. ASSUME NEW c, Skip(c) \/ Revisit(c) \/ Descend(c) PROVE CacheInv'
  <2>1. /\ walking /\ Head(stack) \in Defs /\ c \in todo[Head(stack)]
        /\ c \in Sites
    BY <1>1, LookFacts
  <2>2. c \in calls[Head(stack)]
    BY <2>1 DEF WalkInv, TodoInv
  <2>3. \A r \in Defs : Resolved(c) = Found[r][c[1]]
    BY <2>1, <2>2, ResolvedIsFound DEF WalkInv
  <2>4. cache' = [cache EXCEPT ![c[1]] = Resolved(c)]
    BY <1>1 DEF Skip, Revisit, Descend, LooksUp
  <2>5. cache \in [Names -> Defs \union {Undefined, Unset}]
    BY DEF FlowTypeOK
  <2> QED
    BY <2>3, <2>4, <2>5 DEF WalkInv, CacheInv
<1>2. ASSUME UNCHANGED cache PROVE CacheInv'
  BY <1>2 DEF WalkInv, CacheInv
<1>3. ASSUME NEW c, Trap(c) \/ Ignore(c) PROVE CacheInv'
  BY <1>2, <1>3 DEF Trap, Ignore
<1>4. CASE StartRoot \/ Return \/ FinishRoot \/ UNCHANGED flowVars
  BY <1>2, <1>4 DEF StartRoot, Return, FinishRoot, flowVars
<1> QED
  BY <1>1, <1>3, <1>4 DEF FlowNext, Trace, Walk, Finished

\* A frame that is pushed or popped leaves the others where they were.
LEMMA Push ==
  ASSUME NEW s \in Seq(Defs), NEW e \in Defs
  PROVE  /\ Len(<<e>> \o s) = Len(s) + 1
         /\ (<<e>> \o s)[1] = e
         /\ \A i \in 1 .. Len(s) : (<<e>> \o s)[i + 1] = s[i]
OBVIOUS

LEMMA Pop ==
  ASSUME NEW s \in Seq(Defs), s # <<>>, NEW i \in 1 .. Len(s), s[i] # Head(s)
  PROVE  i - 1 \in 1 .. Len(Tail(s)) /\ Tail(s)[i - 1] = s[i]
OBVIOUS

LEMMA TodoStep ==
  ASSUME FlowTypeOK, FramesInv, OneDefinition(calls), WalkInv, [FlowNext]_flowVars
  PROVE  TodoInv'
<1> USE DEF WalkInv
<1>1. CASE StartRoot
  <2>1. Roots[pos] \in Defs /\ calls' = calls
    BY <1>1, ConstantFacts DEF StartRoot, FlowTypeOK
  <2>2. stack' = <<Roots[pos]>> /\ seen' = {Roots[pos]}
    BY <1>1 DEF StartRoot
  <2>3. Len(stack') = 1 /\ stack'[1] = Roots[pos]
    BY <2>2
  <2>4. todo' = [d \in Defs |-> IF d = Roots[pos] THEN calls[d] ELSE {}]
    BY <1>1 DEF StartRoot
  <2> QED
    BY <2>1, <2>2, <2>3, <2>4 DEF TodoInv
<1>2. ASSUME NEW c, Trap(c) \/ Ignore(c) \/ Skip(c) \/ Revisit(c) \/ Descend(c)
      PROVE  TodoInv'
  <2>1. /\ walking /\ Head(stack) \in Defs /\ c \in todo[Head(stack)]
        /\ calls' = calls /\ calls \in [Defs -> SUBSET Sites]
    BY <1>2, LookFacts
  <2>2. /\ Rest(c) \in [Defs -> SUBSET Sites]
        /\ \A d \in Defs : Rest(c)[d] \subseteq todo[d]
    BY <2>1 DEF Rest, FlowTypeOK
  <2>3. CASE Trap(c) \/ Ignore(c) \/ Skip(c) \/ Revisit(c)
    <3>1. todo' = Rest(c) /\ stack' = stack /\ seen' = seen
      BY <2>3 DEF Trap, Ignore, Skip, Revisit
    <3> QED
      BY <2>1, <2>2, <3>1 DEF TodoInv
  <2>4. CASE Descend(c)
    <3> DEFINE e == Resolved(c)
    <3>1. c \in calls[Head(stack)]
      BY <2>1 DEF TodoInv
    <3>2. e \in Defs
      BY <2>1, <2>4, <3>1, ResolvedIsFound DEF Descend
    <3>3. /\ todo' = [Rest(c) EXCEPT ![e] = calls[e]]
          /\ stack' = <<e>> \o stack /\ seen' = seen \union {e}
      BY <2>4 DEF Descend
    <3> HIDE DEF e
    <3>4. stack \in Seq(Defs) /\ Len(stack) \in Nat
      BY DEF FlowTypeOK
    <3>5. /\ Len(stack') = Len(stack) + 1 /\ stack'[1] = e
          /\ \A i \in 1 .. Len(stack) : stack'[i + 1] = stack[i]
      BY <3>2, <3>3, <3>4, Push
    <3>6. ASSUME NEW d \in Defs
          PROVE  /\ todo'[d] \subseteq calls[d]
                 /\ todo'[d] # {} =>
                      d \in seen' /\ \E i \in 1 .. Len(stack') : stack'[i] = d
      <4>1. CASE d = e
        BY <3>2, <3>3, <3>4, <3>5, <2>2, <4>1
      <4>2. CASE d # e
        <5>1. todo'[d] \subseteq todo[d]
          BY <2>2, <3>3, <4>2
        <5>2. ASSUME todo'[d] # {}
              PROVE  d \in seen' /\ \E i \in 1 .. Len(stack') : stack'[i] = d
          <6>1. d \in seen /\ \E i \in 1 .. Len(stack) : stack[i] = d
            BY <5>1, <5>2 DEF TodoInv
          <6>2. PICK i \in 1 .. Len(stack) : stack[i] = d
            BY <6>1
          <6>3. i + 1 \in 1 .. Len(stack') /\ stack'[i + 1] = d
            BY <6>2, <3>4, <3>5
          <6> QED
            BY <6>1, <6>3, <3>3
        <5> QED
          BY <5>1, <5>2 DEF TodoInv
      <4> QED
        BY <4>1, <4>2
    <3> QED
      BY <3>6, <2>1 DEF TodoInv
  <2> QED
    BY <1>2, <2>3, <2>4
<1>3. CASE Return
  <2>1. /\ stack # <<>> /\ todo[Head(stack)] = {} /\ stack' = Tail(stack)
        /\ calls' = calls /\ todo' = todo /\ seen' = seen
    BY <1>3 DEF Return
  <2>2. stack \in Seq(Defs)
    BY DEF FlowTypeOK
  <2>3. ASSUME NEW d \in Defs, todo[d] # {}
        PROVE  \E i \in 1 .. Len(stack') : stack'[i] = d
    <3>1. PICK i \in 1 .. Len(stack) : stack[i] = d
      BY <2>3 DEF TodoInv
    <3>2. stack[i] # Head(stack)
      BY <2>1, <2>3, <3>1
    <3>3. i - 1 \in 1 .. Len(stack') /\ stack'[i - 1] = d
      BY <2>1, <2>2, <3>1, <3>2, Pop
    <3> QED
      BY <3>3
  <2> QED
    BY <2>1, <2>3 DEF TodoInv
<1>4. CASE FinishRoot \/ UNCHANGED flowVars
  BY <1>4 DEF FinishRoot, flowVars, walkVars, TodoInv
<1> QED
  BY <1>1, <1>2, <1>3, <1>4 DEF FlowNext, Trace, Walk, Finished

LEMMA SeenStep ==
  ASSUME FlowTypeOK, FramesInv, OneDefinition(calls), WalkInv, [FlowNext]_flowVars
  PROVE  SeenInv'
<1> USE DEF WalkInv
<1>1. CASE StartRoot
  <2>1. /\ Roots[pos] \in Defs /\ calls' = calls /\ pos' = pos
        /\ seen' = {Roots[pos]} /\ reached' = {} /\ trapped' = {}
    BY <1>1, ConstantFacts DEF StartRoot, FlowTypeOK
  <2>2. {Roots[pos]} \subseteq Reach(calls, {Roots[pos]})
    BY <2>1, ReachStart
  <2> QED
    BY <2>1, <2>2 DEF SeenInv
<1>2. ASSUME NEW c, Trap(c) \/ Ignore(c) \/ Skip(c) \/ Revisit(c) \/ Descend(c)
      PROVE  SeenInv'
  <2>1. /\ walking /\ Head(stack) \in Defs /\ c \in todo[Head(stack)]
        /\ c \in Sites /\ Roots[pos] \in Defs
        /\ calls' = calls /\ pos' = pos /\ calls \in [Defs -> SUBSET Sites]
    BY <1>2, LookFacts
  <2>2. c \in calls[Head(stack)] /\ Head(stack) \in seen
    BY <2>1 DEF TodoInv
  <2>3. CASE Trap(c)
    <3>1. trapped' = trapped \union {c[1]} /\ seen' = seen /\ reached' = reached
          /\ c[1] \in Excluded
      BY <2>3 DEF Trap
    <3>2. <<c[1], c[2]>> \in calls[Head(stack)] /\ c[1] \in Names /\ c[2] \in BOOLEAN
      BY <2>1, <2>2, SiteParts
    <3>3. c[1] \in Traps(calls, seen)
      BY <2>2, <3>1, <3>2 DEF Traps
    <3> QED
      BY <2>1, <3>1, <3>3 DEF SeenInv
  <2>4. CASE Ignore(c) \/ Skip(c)
    BY <2>1, <2>4 DEF Ignore, Skip, SeenInv
  <2>5. CASE Revisit(c)
    BY <2>1, <2>5 DEF Revisit, SeenInv
  <2>6. CASE Descend(c)
    <3>1. /\ reached' = reached \union {Resolved(c)} /\ seen' = seen \union {Resolved(c)}
          /\ trapped' = trapped /\ Resolved(c) # Undefined
          /\ c[1] \notin Excluded \union Ignored
      BY <2>6 DEF Descend, LooksUp
    <3>2. Resolved(c) = Found[Head(stack)][c[1]]
      BY <2>1, <2>2, ResolvedIsFound
    <3>3. Resolved(c) \in Callees(calls, Head(stack))
      BY <2>2, <3>1, <3>2 DEF Callees
    <3>4. Resolved(c) \in Reach(calls, {Roots[pos]})
      BY <2>1, <2>2, <3>3, ReachClosed DEF SeenInv, Closed
    <3>5. Traps(calls, seen) \subseteq Traps(calls, seen')
      BY <3>1 DEF Traps
    <3> QED
      BY <2>1, <3>1, <3>4, <3>5 DEF SeenInv
  <2> QED
    BY <1>2, <2>3, <2>4, <2>5, <2>6
<1>3. CASE Return \/ FinishRoot \/ UNCHANGED flowVars
  BY <1>3 DEF Return, FinishRoot, flowVars, walkVars, SeenInv
<1> QED
  BY <1>1, <1>2, <1>3 DEF FlowNext, Trace, Walk, Finished

LEMMA HandledStep ==
  ASSUME FlowTypeOK, FramesInv, OneDefinition(calls), WalkInv, [FlowNext]_flowVars
  PROVE  HandledInv'
<1> USE DEF WalkInv
<1>1. CASE StartRoot
  <2>1. /\ Roots[pos] \in Defs /\ calls' = calls /\ seen' = {Roots[pos]}
        /\ todo' = [d \in Defs |-> IF d = Roots[pos] THEN calls[d] ELSE {}]
    BY <1>1, ConstantFacts DEF StartRoot, FlowTypeOK
  <2>2. calls'[Roots[pos]] \ todo'[Roots[pos]] = {}
    BY <2>1
  <2> QED
    BY <2>1, <2>2 DEF HandledInv
<1>2. ASSUME NEW c, Trap(c) \/ Ignore(c) \/ Skip(c) \/ Revisit(c) \/ Descend(c)
      PROVE  HandledInv'
  <2>1. /\ walking /\ Head(stack) \in Defs /\ c \in todo[Head(stack)]
        /\ calls' = calls
    BY <1>2, LookFacts
  <2>2. c \in calls[Head(stack)] /\ Head(stack) \in seen
    BY <2>1 DEF TodoInv
  <2>3. todo \in [Defs -> SUBSET Sites] /\ seen \subseteq Defs
    BY DEF FlowTypeOK
  <2>4. seen \subseteq seen' /\ trapped \subseteq trapped'
    BY <1>2 DEF Trap, Ignore, Skip, Revisit, Descend
  <2>5. ASSUME NEW d \in Defs, d = Head(stack) PROVE Handled(d, c)'
    <3>1. CASE Skip(c) \/ Revisit(c) \/ Descend(c)
      <4>1. Resolved(c) = Found[d][c[1]]
        BY <2>1, <2>2, <2>5, ResolvedIsFound
      <4>2. Resolved(c) \in seen' \union {Undefined} /\ c[1] \notin Excluded
        BY <3>1 DEF Skip, Revisit, Descend, LooksUp
      <4> QED
        BY <4>1, <4>2 DEF Handled
    <3>2. CASE Trap(c) \/ Ignore(c)
      BY <3>2 DEF Trap, Ignore, Handled
    <3> QED
      BY <1>2, <3>1, <3>2
  <2>6. ASSUME NEW d \in seen, NEW b \in calls[d] \ todo'[d]
        PROVE  Handled(d, b)'
    <3>1. CASE b \notin todo[d]
      <4>1. Handled(d, b)
        BY <2>1, <3>1 DEF HandledInv
      <4> QED
        BY <4>1, <2>4 DEF Handled
    <3>2. CASE b \in todo[d]
      <4>1. d = Head(stack) /\ b = c
        BY <1>2, <2>1, <2>3, <3>2 DEF Trap, Ignore, Skip, Revisit, Descend, Rest
      <4> QED
        BY <4>1, <2>1, <2>5
    <3> QED
      BY <3>1, <3>2
  <2>7. ASSUME NEW d \in seen' \ seen PROVE calls[d] \ todo'[d] = {}
    <3>1. Descend(c) /\ d = Resolved(c)
      BY <1>2, <2>7 DEF Trap, Ignore, Skip, Revisit, Descend
    <3>2. d \in Defs
      BY <3>1, <2>1, <2>2, ResolvedIsFound DEF Descend
    <3> QED
      BY <3>1, <3>2, <2>3 DEF Descend, Rest
  <2> QED
    BY <2>1, <2>6, <2>7 DEF HandledInv
<1>3. CASE Return \/ FinishRoot \/ UNCHANGED flowVars
  BY <1>3 DEF Return, FinishRoot, flowVars, walkVars, HandledInv, Handled
<1> QED
  BY <1>1, <1>2, <1>3 DEF FlowNext, Trace, Walk, Finished

\* When no frame is left, the definitions seen are closed under calls.
LEMMA WalkDone ==
  ASSUME FlowTypeOK, WalkInv, walking, stack = <<>>
  PROVE  /\ Reach(calls, {Roots[pos]}) = seen
         /\ trapped = Traps(calls, seen)
<1> USE DEF WalkInv
<1>1. \A d \in Defs : todo[d] = {}
  <2>1. 1 .. Len(stack) = {}
    OBVIOUS
  <2> QED
    BY <2>1 DEF TodoInv
<1>2. seen \subseteq Defs /\ calls \in [Defs -> SUBSET Sites]
  BY DEF FlowTypeOK
<1>3. \A d \in seen : \A c \in calls[d] : Handled(d, c)
  BY <1>1, <1>2 DEF HandledInv
<1>4. Closed(calls, seen)
  BY <1>3 DEF Closed, Callees, Handled
<1>5. Reach(calls, {Roots[pos]}) \subseteq seen
  BY <1>2, <1>4, ReachLeast DEF SeenInv
<1>6. ASSUME NEW n \in Traps(calls, seen) PROVE n \in trapped
  <2>1. PICK d \in seen, b \in BOOLEAN : <<n, b>> \in calls[d]
    BY DEF Traps
  <2>2. n \in Excluded
    BY DEF Traps
  <2>3. <<n, b>>[1] = n
    OBVIOUS
  <2> QED
    BY <1>3, <2>1, <2>2, <2>3 DEF Handled
<1> QED
  BY <1>5, <1>6 DEF SeenInv

LEMMA DoneStep ==
  ASSUME FlowTypeOK, FramesInv, OneDefinition(calls), WalkInv, [FlowNext]_flowVars
  PROVE  DoneInv'
<1> USE DEF WalkInv
<1>1. CASE StartRoot
  <2>1. /\ walking' /\ calls' = calls /\ pos' = pos
        /\ allReached' = allReached /\ allTrapped' = allTrapped
        /\ build' = build \union Additional
    BY <1>1 DEF StartRoot
  <2>2. build' = {Porting} \union {FileOf[d] : d \in allReached} \union Additional
    BY <2>1 DEF DoneInv
  <2> QED
    BY <2>1, <2>2 DEF DoneInv
<1>2. ASSUME NEW c, Trap(c) \/ Ignore(c) \/ Skip(c) \/ Revisit(c) \/ Descend(c)
      PROVE  DoneInv'
  <2>1. walking /\ walking' /\ calls' = calls /\ pos' = pos /\ UNCHANGED resultVars
    BY <1>2, LookFacts
  <2> QED
    BY <2>1 DEF DoneInv, resultVars
<1>3. CASE FinishRoot
  <2>1. /\ walking /\ stack = <<>> /\ ~walking' /\ pos' = pos + 1 /\ calls' = calls
        /\ allReached' = allReached \union reached \union {Roots[pos]}
        /\ allTrapped' = allTrapped \union trapped
        /\ build' = build \union {FileOf[d] : d \in reached \union {Roots[pos]}}
    BY <1>3 DEF FinishRoot
  <2>2. pos \in Nat /\ pos >= 1
    BY ConstantFacts DEF FlowTypeOK
  <2>3. /\ reached \union {Roots[pos]} = Reach(calls, {Roots[pos]})
        /\ trapped = Traps(calls, reached \union {Roots[pos]})
    BY <2>1, WalkDone DEF SeenInv
  <2>4. 1 .. pos' - 1 = (1 .. pos - 1) \union {pos}
    BY <2>1, <2>2
  <2>5. allReached' = allReached \union (reached \union {Roots[pos]})
    BY <2>1
  <2>6. allReached' = UNION {Reach(calls', {Roots[i]}) : i \in 1 .. pos' - 1}
    BY <2>1, <2>3, <2>4, <2>5 DEF DoneInv
  <2>7. allTrapped' = Traps(calls', allReached')
    BY <2>1, <2>3, <2>5 DEF DoneInv, Traps
  <2>8. build' = {Porting} \union {FileOf[d] : d \in allReached'} \union Additional
    BY <2>1, <2>5 DEF DoneInv
  <2>9. walking' \/ pos' > 1
    BY <2>1, <2>2
  <2> QED
    BY <2>6, <2>7, <2>8, <2>9 DEF DoneInv
<1>4. CASE Return \/ UNCHANGED flowVars
  <2>1. calls' = calls /\ pos' = pos /\ walking' = walking /\ UNCHANGED resultVars
    BY <1>4 DEF Return, flowVars
  <2> QED
    BY <2>1 DEF DoneInv, resultVars
<1> QED
  BY <1>1, <1>2, <1>3, <1>4 DEF FlowNext, Trace, Walk, Finished

LEMMA InvInit == FlowInit => Inv
<1> SUFFICES ASSUME FlowInit PROVE WalkInv
  BY TypeInit DEF Inv
<1>1. CacheInv /\ SeenInv /\ HandledInv
  BY DEF FlowInit, CacheInv, SeenInv, HandledInv
<1>2. TodoInv
  BY DEF FlowInit, TodoInv
<1>3. DoneInv
  <2>1. 1 .. pos - 1 = {}
    BY DEF FlowInit
  <2>2. UNION {Reach(calls, {Roots[i]}) : i \in 1 .. pos - 1} = {}
    BY <2>1
  <2>3. Traps(calls, {}) = {}
    BY DEF Traps
  <2> QED
    BY <2>2, <2>3 DEF FlowInit, DoneInv
<1> QED
  BY <1>1, <1>2, <1>3 DEF WalkInv

LEMMA InvStep == Inv /\ [FlowNext]_flowVars => Inv'
<1> SUFFICES ASSUME Inv, [FlowNext]_flowVars PROVE Inv'
  OBVIOUS
<1>1. FlowTypeOK' /\ FramesInv'
  BY TypeStep, FramesStep DEF Inv
<1>2. calls' = calls
  BY DEF FlowNext, Trace, Walk, Trap, Ignore, Skip, Revisit, Descend, LooksUp,
     Looks, Return, StartRoot, FinishRoot, Finished, flowVars
<1>3. CASE OneDefinition(calls)
  BY <1>1, <1>3, CacheStep, TodoStep, SeenStep, HandledStep, DoneStep
  DEF Inv, WalkInv
<1>4. CASE ~OneDefinition(calls)
  BY <1>1, <1>2, <1>4 DEF Inv
<1> QED
  BY <1>3, <1>4

\* The inductive invariant holds throughout.
THEOREM Invariance == FlowSpec => []Inv
BY InvInit, InvStep, PTL DEF FlowSpec

-----------------------------------------------------------------------------
(* What is promised *)

\* A walk reaches nothing that its root does not call, directly or not.
THEOREM WalkAddsNothing == FlowSpec => []NothingExtra
<1>1. Inv => NothingExtra
  BY DEF Inv, WalkInv, SeenInv, NothingExtra
<1> QED
  BY <1>1, Invariance, PTL

\* When a walk ends it has reached everything its root calls.
THEOREM WalkIsComplete == FlowSpec => []WalkComplete
<1>1. Inv => WalkComplete
  BY WalkDone DEF Inv, WalkInv, SeenInv, WalkComplete
<1> QED
  BY <1>1, Invariance, PTL

\* The build is what the roots need, however the walks share the cache.
THEOREM BuildIsExact == FlowSpec => []BuildExact
<1>1. Inv => BuildExact
  <2> SUFFICES ASSUME Inv, OneDefinition(calls), ~walking, pos > Len(Roots)
               PROVE  LET need == Reach(calls, {Roots[i] : i \in DOMAIN Roots}) IN
                        /\ allReached = need
                        /\ allTrapped = Traps(calls, need)
                        /\ build = {Porting} \union (UNION {Additional : i \in DOMAIN Roots})
                                     \union {FileOf[d] : d \in need}
    BY DEF BuildExact
  <2>1. FlowTypeOK /\ DoneInv
    BY DEF Inv, WalkInv
  <2>2. DOMAIN Roots = 1 .. Len(Roots) /\ Len(Roots) \in Nat
    BY FlowAssumption DEF FlowAssumption
  <2>3. pos = Len(Roots) + 1 /\ 1 .. pos - 1 = DOMAIN Roots
    BY <2>1, <2>2 DEF FlowTypeOK
  <2>4. allReached = Reach(calls, {Roots[i] : i \in DOMAIN Roots})
    BY <2>1, <2>2, <2>3, ReachUnion DEF FlowTypeOK, DoneInv
  <2>5. (UNION {Additional : i \in DOMAIN Roots}) = IF pos > 1 THEN Additional ELSE {}
    <3>1. CASE Len(Roots) = 0
      BY <2>2, <2>3, <3>1
    <3>2. CASE Len(Roots) > 0
      <4>1. 1 \in DOMAIN Roots
        BY <2>2, <3>2
      <4> QED
        BY <2>2, <2>3, <3>2, <4>1
    <3> QED
      BY <2>2, <3>1, <3>2
  <2> QED
    BY <2>1, <2>4, <2>5 DEF DoneInv
<1> QED
  BY <1>1, Invariance, PTL

=============================================================================
