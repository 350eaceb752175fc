---------------------------- MODULE MCBuildTools ----------------------------
(***************************************************************************)
(* The search for the functions of a build, the cache of syntax trees and  *)
(* the numbering of what the accelerator asks for, side by side: a         *)
(* behaviour is one of the three.                                          *)
(***************************************************************************)
EXTENDS FlowAnalysis, AstCache, Dispatch, TLC

VARIABLE part

\* Every call graph over three functions, cycles and one direct recursion
\* included, with or without an excluded call at the bottom and, in the middle, a
\* name nobody defines, an ignored one and an interface's implementation.
MCDefs  == {"f", "g", "h"}
MCNames == MCDefs \union {"alloc", "lib", "sin"}
MCFound == [r \in MCDefs |-> [n \in MCNames |-> IF n \in MCDefs THEN n ELSE "none"]]
MCHome  == [n \in MCNames |-> IF n \in MCDefs THEN n ELSE "f"]
MCFileOf == "f" :> 1 @@ "g" :> 1 @@ "h" :> 2
MCRoots == <<"f", "g">>

Sent(S) == {<<n, FALSE>> : n \in S}
Extra == {<<"lib", FALSE>>, <<"sin", FALSE>>, <<"h", TRUE>>}
MCGraphs ==
  {"f" :> F @@ "g" :> G @@ "h" :> H :
     F \in SUBSET Sent({"g", "h"}),
     G \in SUBSET Sent({"f", "g", "h"}) \union {Extra, Extra \union Sent({"f"})},
     H \in SUBSET Sent({"f", "g", "alloc"})}

-----------------------------------------------------------------------------
Site(kind, name, args) == [kind |-> kind, name |-> name, args |-> args]
Alloc == Site("call", "alloc", <<11>>)
Enter == Site("call", "enter", <<>>)
Five == Site("call", "five", <<21, 22, 23, 24, 25>>)
Six == Site("call", "six", <<21, 22, 23, 24, 25, 26>>)
RunI == Site("interface", "Runnable", <<31, 32>>)
RunAgain == Site("interface", "Runnable", <<33, 32>>)
CmpI == Site("interface", "Comparable", <<34, 35>>)
String == Site("class", "String", <<>>)
Object == Site("class", "Object", <<>>)

MCSiteSets == {{Alloc, Enter, Five, RunI, String}, {RunI, RunAgain, CmpI, Alloc, String, Object},
               {Alloc, Six}, {Object}}
MCImpls == [Runnable |-> {"A.run", "C.run"}, Comparable |-> {"C.compareTo"}]
MCChosen == [s \in {RunI, RunAgain, CmpI} |->
  IF s = RunI THEN "A.run" ELSE IF s = RunAgain THEN "C.run" ELSE "C.compareTo"]
MCAddress == [m \in {"A.run", "C.run", "C.compareTo"} |->
  CASE m = "A.run" -> 4096 [] m = "C.run" -> 4160 [] m = "C.compareTo" -> 4224]

Init ==
  /\ part \in {"flow", "cache", "dispatch"}
  /\ FlowInit /\ CacheInit /\ DispatchInit
  \* what the part taken does not use has one value
  /\ part # "flow" => calls = [d \in Defs |-> {}]
  /\ part # "cache" => cacheOn
  /\ part # "dispatch" => sites = {Object}

Next ==
  /\ UNCHANGED part
  /\ \/ part = "flow" /\ FlowNext /\ UNCHANGED <<cacheVars, dispatchVars>>
     \/ part = "cache" /\ CacheNext /\ UNCHANGED <<flowVars, dispatchVars>>
     \/ part = "dispatch" /\ DispatchNext /\ UNCHANGED <<flowVars, cacheVars>>

Spec ==
  /\ Init /\ [][Next]_<<part, flowVars, cacheVars, dispatchVars>>
  /\ WF_flowVars(part = "flow" /\ Trace)

=============================================================================
