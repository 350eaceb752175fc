-------------------------- MODULE BuildToolsProofs --------------------------
(***************************************************************************)
(* Theorems about the build tools.  AstCache, for any files, host files    *)
(* and bounds; and Dispatch: in whatever order the functions, classes and  *)
(* implementations of a program are met, a number stands for one of them,  *)
(* and the host's switch reads it as the accelerator's code meant it.      *)
(***************************************************************************)
EXTENDS AstCache, Dispatch, FiniteSetTheorems, SequenceTheorems, TLAPS

-----------------------------------------------------------------------------
(* The cache of syntax trees.                                               *)


Tree == [ver : Int, rewritten : BOOLEAN, file : BOOLEAN]

CacheTypes ==
  /\ mem \in [Sources -> Tree] /\ disk \in [Sources -> Int] /\ source \in [Sources -> Nat \ {0}]
  /\ phase \in {"idle", "trace", "hardware", "host", "failed"}
  /\ saving \subseteq Sources /\ killed \subseteq Sources /\ dropped \subseteq Sources

\* A tree that is still to be used is as it was parsed: rewriting is over for
\* the file, or its tree has been dropped in between.
FreshInv ==
  \A f \in Sources :
    /\ phase = "trace" => ~mem[f].rewritten
    /\ phase = "hardware" /\ f \in left => ~mem[f].rewritten
    /\ phase = "host" /\ f \in dropped => ~mem[f].rewritten

\* A tree this build has parsed is of the source as it is, from which nothing
\* changes until the build ends.
CurrentInv ==
  \A f \in Sources :
    phase # "idle" /\ mem[f] # Absent /\ ~mem[f].file => mem[f].ver = source[f]

\* A torn file is being written, or was when a build died.
TornInv ==
  /\ \A f \in Sources : disk[f] = Torn => f \in saving \union killed
  /\ \A f \in saving : mem[f] # Absent /\ mem[f].ver = source[f]
  /\ \A f, g \in saving : f = g
  /\ phase = "idle" => saving = {}
  /\ phase \in {"hardware", "host"} => saving \subseteq left
  /\ phase = "failed" => killed # {}

CacheInv == CacheTypes /\ FreshInv /\ CurrentInv /\ TornInv /\ HostFromSource /\ CacheSound

LEMMA CacheInvInit == CacheInit => CacheInv
  BY CacheAssumption DEF CacheInit, CacheInv, CacheTypes, Tree, FreshInv, CurrentInv, TornInv,
     HostFromSource, CacheSound, Absent, NoUse, Torn

\* A tree as it was parsed comes, or a tree goes.
LEMMA CacheInvTree ==
  ASSUME CacheInv, NEW f \in Sources, NEW t \in Tree,
         ~t.rewritten, t = Absent \/ t.file \/ t.ver = source[f],
         mem' = [mem EXCEPT ![f] = t],
         dropped' \in {dropped, dropped \union {f}},
         UNCHANGED <<source, phase, left>>
  PROVE  mem' \in [Sources -> Tree] /\ FreshInv' /\ CurrentInv'
<1>1. /\ mem' \in [Sources -> Tree]
      /\ \A g \in Sources : mem'[g] = IF g = f THEN t ELSE mem[g]
  BY DEF CacheInv, CacheTypes
<1>2. FreshInv'
  BY <1>1 DEF CacheInv, FreshInv
<1>3. CurrentInv'
  BY <1>1 DEF CacheInv, CurrentInv
<1> QED
  BY <1>1, <1>2, <1>3

LEMMA CacheInvFetch == ASSUME CacheInv, NEW f \in Sources, Fetch(f) PROVE CacheInv'
<1> DEFINE t == [ver |-> disk[f], rewritten |-> FALSE, file |-> TRUE]
<1>1. CASE disk[f] # Torn
  <2>1. /\ mem' = [mem EXCEPT ![f] = t] /\ saving = {}
        /\ UNCHANGED <<source, disk, phase, left, saving, dropped, used, killed>>
    BY <1>1 DEF Fetch, Wanted
  <2>2. t \in Tree /\ ~t.rewritten /\ t.file
    BY DEF CacheInv, CacheTypes, Tree
  <2>3. mem' \in [Sources -> Tree] /\ FreshInv' /\ CurrentInv'
    BY <2>1, <2>2, CacheInvTree
  <2> QED
    BY <2>1, <2>3 DEF CacheInv, CacheTypes, TornInv, HostFromSource, CacheSound
<1>2. CASE disk[f] = Torn
  <2>1. /\ phase' = "failed" /\ saving = {} /\ phase # "idle"
        /\ UNCHANGED <<source, mem, disk, left, saving, dropped, used, killed>>
    BY <1>2 DEF Fetch, Wanted
  <2>2. killed # {}
    BY <1>2, <2>1 DEF CacheInv, TornInv
  <2> QED
    BY <2>1, <2>2
    DEF CacheInv, CacheTypes, FreshInv, CurrentInv, TornInv, HostFromSource, CacheSound
<1> QED
  BY <1>1, <1>2

\* The file is torn from here until Save.
LEMMA CacheInvParse == ASSUME CacheInv, NEW f \in Sources, Parse(f) PROVE CacheInv'
<1> DEFINE t == [ver |-> source[f], rewritten |-> FALSE, file |-> FALSE]
<1>1. /\ mem' = [mem EXCEPT ![f] = t] /\ saving = {}
      /\ phase \in {"trace", "hardware", "host"}
      /\ phase \in {"hardware", "host"} => f \in left
      /\ \/ saving' = {f} /\ disk' = [disk EXCEPT ![f] = Torn]
         \/ UNCHANGED <<saving, disk>>
      /\ UNCHANGED <<source, phase, left, dropped, used, killed>>
  BY DEF Parse, Wanted
<1>2. t \in Tree /\ ~t.rewritten /\ t.ver = source[f] /\ t # Absent
  BY DEF CacheInv, CacheTypes, Tree, Absent
<1>3. mem' \in [Sources -> Tree] /\ FreshInv' /\ CurrentInv'
  BY <1>1, <1>2, CacheInvTree
<1>4. /\ mem'[f] = t
      /\ disk' \in [Sources -> Int]
      /\ \A g \in Sources : disk'[g] = Torn => g \in saving' \union killed
  BY <1>1 DEF CacheInv, CacheTypes, TornInv, Torn
<1>5. CacheTypes' /\ HostFromSource' /\ CacheSound'
  BY <1>1, <1>3, <1>4 DEF CacheInv, CacheTypes, HostFromSource, CacheSound
<1>6. \A g \in saving' : g = f /\ mem'[g] # Absent /\ mem'[g].ver = source'[g]
  BY <1>1, <1>2, <1>4
<1>7. TornInv'
  BY <1>1, <1>4, <1>6 DEF CacheInv, TornInv
<1> QED
  BY <1>3, <1>5, <1>7 DEF CacheInv

\* The version saved is a version of the source, not the mark of a torn file.
LEMMA CacheInvSave == ASSUME CacheInv, NEW f \in Sources, Save(f) PROVE CacheInv'
<1>1. /\ f \in saving /\ saving' = {} /\ disk' = [disk EXCEPT ![f] = mem[f].ver]
      /\ UNCHANGED <<source, mem, phase, left, dropped, used, killed>>
  BY DEF Save
<1>2. mem[f].ver = source[f] /\ source[f] \in Nat
  BY <1>1 DEF CacheInv, TornInv, CacheTypes
<1>3. disk' \in [Sources -> Int]
  BY <1>1, <1>2 DEF CacheInv, CacheTypes
<1>4. \A g \in Sources : disk'[g] = Torn => g \in killed
  <2> SUFFICES ASSUME NEW g \in Sources, disk'[g] = Torn PROVE g \in killed
    OBVIOUS
  <2>1. g # f
    BY <1>1, <1>2 DEF CacheInv, CacheTypes, Torn
  <2>2. disk[g] = Torn
    BY <1>1, <2>1 DEF CacheInv, CacheTypes
  <2>3. saving \subseteq {f}
    BY <1>1 DEF CacheInv, TornInv
  <2> QED
    BY <2>1, <2>2, <2>3 DEF CacheInv, TornInv
<1>5. TornInv'
  BY <1>1, <1>4 DEF CacheInv, TornInv
<1> QED
  BY <1>1, <1>3, <1>5 DEF CacheInv, CacheTypes, FreshInv, CurrentInv, HostFromSource, CacheSound

LEMMA CacheInvInvalidate == ASSUME CacheInv, NEW f \in Sources, Invalidate(f) PROVE CacheInv'
<1>1. /\ phase = "host" /\ saving = {}
      /\ dropped' = dropped \union {f} /\ mem' = [mem EXCEPT ![f] = Absent]
      /\ UNCHANGED <<source, disk, phase, left, saving, used, killed>>
  BY DEF Invalidate
<1>2. Absent \in Tree /\ ~Absent.rewritten
  BY DEF Absent, Tree
<1>3. mem' \in [Sources -> Tree] /\ FreshInv' /\ CurrentInv'
  BY <1>1, <1>2, CacheInvTree
<1> QED
  BY <1>1, <1>3 DEF CacheInv, CacheTypes, TornInv, HostFromSource, CacheSound

\* A tree that is rewritten is no longer among those to be used.
LEMMA CacheInvRewrite == ASSUME CacheInv, NEW f \in Sources, Rewrite(f) PROVE CacheInv'
<1>1. /\ phase = "hardware" /\ saving = {} /\ f \in left /\ mem[f] # Absent
      /\ mem' = [mem EXCEPT ![f].rewritten = TRUE]
      /\ used' = [for |-> "hardware", tree |-> mem[f], source |-> source[f]]
      /\ left' = left \ {f}
      /\ UNCHANGED <<source, disk, phase, saving, dropped, killed>>
  BY DEF Rewrite
<1>2. mem[f] \in Tree /\ ~mem[f].rewritten
  BY <1>1 DEF CacheInv, CacheTypes, FreshInv
<1>3. /\ mem' \in [Sources -> Tree]
      /\ \A g \in Sources \ {f} : mem'[g] = mem[g]
      /\ mem'[f].ver = mem[f].ver /\ mem'[f].file = mem[f].file
  BY <1>1, <1>2 DEF CacheInv, CacheTypes, Tree
<1>4. FreshInv'
  BY <1>1, <1>3 DEF CacheInv, FreshInv
<1>5. CurrentInv'
  BY <1>1, <1>3 DEF CacheInv, CurrentInv
<1>6. CacheTypes' /\ TornInv'
  BY <1>1, <1>3 DEF CacheInv, CacheTypes, TornInv
<1>7. HostFromSource' /\ CacheSound'
  BY <1>1, <1>2 DEF CacheInv, HostFromSource, CacheSound, CurrentInv
<1> QED
  BY <1>4, <1>5, <1>6, <1>7 DEF CacheInv

LEMMA CacheInvStep == ASSUME CacheInv, [CacheNext]_cacheVars PROVE CacheInv'
<1> USE DEF CacheInv, CacheTypes, Tree, FreshInv, CurrentInv, TornInv, HostFromSource, CacheSound,
            Absent, NoUse, Torn
<1>1. ASSUME NEW f \in Sources, Edit(f) PROVE CacheInv'
  BY <1>1 DEF Edit
<1>2. ASSUME NEW f \in Sources, Fetch(f) PROVE CacheInv'
  BY <1>2, CacheInvFetch
<1>3. ASSUME NEW f \in Sources, Parse(f) PROVE CacheInv'
  BY <1>3, CacheInvParse
<1>4. ASSUME NEW f \in Sources, Save(f) PROVE CacheInv'
  BY <1>4, CacheInvSave
<1>5. ASSUME NEW f \in Sources, Rewrite(f) PROVE CacheInv'
  BY <1>5, CacheInvRewrite
<1>6. ASSUME NEW f \in Sources, Invalidate(f) PROVE CacheInv'
  BY <1>6, CacheInvInvalidate
<1>7. ASSUME NEW f \in Sources, Refactor(f) PROVE CacheInv'
  BY <1>7 DEF Refactor
<1>8. CASE BeginBuild
  BY <1>8 DEF BeginBuild
<1>9. CASE BeginHost
  BY <1>9 DEF BeginHost
<1>10. CASE EndBuild
  BY <1>10 DEF EndBuild
<1>11. CASE Die
  BY <1>11 DEF Die
<1>12. ASSUME NEW found \in SUBSET Sources, BeginHardware(found) PROVE CacheInv'
  BY <1>12 DEF BeginHardware
<1>13. CASE UNCHANGED cacheVars
  BY <1>13 DEF cacheVars
<1> QED
  BY <1>1, <1>2, <1>3, <1>4, <1>5, <1>6, <1>7, <1>8, <1>9, <1>10, <1>11, <1>12, <1>13
  DEF CacheNext

LEMMA CacheInduction == CacheSpec => []CacheInv
  BY CacheInvInit, CacheInvStep, PTL DEF CacheSpec

-----------------------------------------------------------------------------
\* Host code is made from trees that nobody has rewritten.
THEOREM HostCodeFromSource == CacheSpec => []HostFromSource
<1>1. CacheInv => HostFromSource
  BY DEF CacheInv
<1> QED
  BY <1>1, CacheInduction, PTL

\* A tree is rewritten once in a build; one that is not of the current source
\* comes from the file cache; only a torn cache file ends a build.
THEOREM CacheIsSound == CacheSpec => []CacheSound
<1>1. CacheInv => CacheSound
  BY DEF CacheInv
<1> QED
  BY <1>1, CacheInduction, PTL

-----------------------------------------------------------------------------
(* The numbers of what the accelerator asks for.                            *)


\* f gives each of finitely many things a number of its own.
Numbering(f) ==
  /\ IsFiniteSet(DOMAIN f)
  /\ \A x \in DOMAIN f : f[x] \in 1 .. Cardinality(DOMAIN f)
  /\ \A x, y \in DOMAIN f : f[x] = f[y] => x = y

LEMMA NoNumbering == Numbering(NoNumbers) /\ DOMAIN NoNumbers = {}
  BY FS_EmptySet DEF Numbering, NoNumbers

\* The next number is nobody's yet.
LEMMA NextNumber ==
  ASSUME NEW f, Numbering(f), NEW x, x \notin DOMAIN f
  PROVE  Numbering(Extend(f, x, NextId(f)))
<1> DEFINE n == Cardinality(DOMAIN f)
           k == NextId(f)
           g == Extend(f, x, k)
<1>1. /\ DOMAIN g = DOMAIN f \union {x} /\ g[x] = n + 1
      /\ \A y \in DOMAIN f : g[y] = f[y]
  <2>1. k = n + 1
    BY DEF NextId
  <2> HIDE DEF k
  <2>2. /\ DOMAIN g = DOMAIN f \union {x} /\ g[x] = k
        /\ \A y \in DOMAIN f : y # x => g[y] = f[y]
    BY DEF Extend
  <2> QED
    BY <2>1, <2>2
<1>2. n \in Nat /\ IsFiniteSet(DOMAIN f)
  BY FS_CardinalityType DEF Numbering
<1>3. IsFiniteSet(DOMAIN g) /\ Cardinality(DOMAIN g) = n + 1
  BY <1>1, <1>2, FS_AddElement
<1> HIDE DEF g
<1>4. \A y \in DOMAIN f : f[y] \in 1 .. n
  BY DEF Numbering
<1> HIDE DEF n
<1>5. \A y \in DOMAIN g : g[y] \in 1 .. n + 1
  BY <1>1, <1>2, <1>4
<1>6. ASSUME NEW y \in DOMAIN g, NEW z \in DOMAIN g, g[y] = g[z] PROVE y = z
  <2>1. CASE y \in DOMAIN f /\ z \in DOMAIN f
    BY <1>1, <1>6, <2>1 DEF Numbering
  <2>2. CASE y = x /\ z = x
    BY <2>2
  <2>3. CASE y \in DOMAIN f /\ z = x
    BY <1>1, <1>2, <1>4, <1>6, <2>3
  <2>4. CASE y = x /\ z \in DOMAIN f
    BY <1>1, <1>2, <1>4, <1>6, <2>4
  <2> QED
    BY <1>1, <2>1, <2>2, <2>3, <2>4
<1> QED
  BY <1>3, <1>5, <1>6 DEF Numbering, g

LEMMA PadIsSeq ==
  ASSUME NEW args \in Seq(Int), Len(args) + 1 \leq MaxArgs
  PROVE  /\ Pad(args) \in Seq(Int) /\ Len(Pad(args)) = 5
         /\ Len(args) \in 0 .. 5
         /\ \A i \in 1 .. Len(args) : Pad(args)[i] = args[i]
<1>1. Len(args) \in 0 .. 5 /\ DOMAIN args = 1 .. Len(args)
  <2> DEFINE m == Len(args)
  <2>1. m \in Nat /\ m + 1 \leq 6 /\ DOMAIN args = 1 .. m
    BY DEF MaxArgs
  <2> HIDE DEF m
  <2>2. m \in 0 .. 5
    BY <2>1
  <2> QED
    BY <2>1, <2>2 DEF m
<1>2. /\ Pad(args) \in [1 .. 5 -> Int]
      /\ \A i \in 1 .. Len(args) : Pad(args)[i] = args[i]
  BY <1>1 DEF Pad, MaxArgs
<1>3. Pad(args) \in Seq(Int)
  <2>1. \E n \in Nat : Pad(args) \in [1 .. n -> Int]
    BY <1>2
  <2> QED
    BY <2>1, SeqDef
<1>4. Len(Pad(args)) = 5
  BY <1>2, <1>3
<1> QED
  BY <1>1, <1>2, <1>3, <1>4

LEMMA SecondOn ==
  ASSUME NEW q \in Seq(Int), NEW m \in Nat, m + 1 \leq Len(q)
  PROVE  /\ SubSeq(q, 2, m + 1) \in Seq(Int) /\ Len(SubSeq(q, 2, m + 1)) = m
         /\ \A i \in 1 .. m : SubSeq(q, 2, m + 1)[i] = q[i + 1]
<1>1. \A i \in 2 .. m + 1 : q[i] \in Int
  OBVIOUS
<1>2. /\ SubSeq(q, 2, m + 1) \in Seq(Int)
      /\ Len(SubSeq(q, 2, m + 1)) = IF 2 <= m + 1 THEN m + 1 - 2 + 1 ELSE 0
      /\ \A i \in 1 .. m + 1 - 2 + 1 : SubSeq(q, 2, m + 1)[i] = q[2 + i - 1]
  BY <1>1, SubSeqProperties
<1>3. ASSUME NEW i \in 1 .. m PROVE SubSeq(q, 2, m + 1)[i] = q[i + 1]
  <2>1. i \in 1 .. m + 1 - 2 + 1 /\ 2 + i - 1 = i + 1
    OBVIOUS
  <2> QED
    BY <1>2, <2>1
<1> QED
  BY <1>2, <1>3

\* The arguments stay where the host looks for them, behind the number.
LEMMA PadKeeps ==
  ASSUME NEW n \in Int, NEW args \in Seq(Int), Len(args) + 1 \leq MaxArgs
  PROVE  /\ (<<n>> \o Pad(args))[1] = n
         /\ SubSeq(<<n>> \o Pad(args), 2, Len(args) + 1) = args
<1> DEFINE p == Pad(args)
           a == <<n>>
           q == a \o p
           m == Len(args)
<1>1. /\ p \in Seq(Int) /\ Len(p) = 5 /\ m \in 0 .. 5
      /\ \A i \in 1 .. m : p[i] = args[i]
  BY PadIsSeq
<1> HIDE DEF p
<1>2. a \in Seq(Int) /\ Len(a) = 1 /\ a[1] = n
  OBVIOUS
<1> HIDE DEF a
<1>3. /\ q \in Seq(Int) /\ Len(q) = 1 + 5
      /\ \A i \in 1 .. 1 + 5 : q[i] = IF i <= 1 THEN a[i] ELSE p[i - 1]
  <2>1. /\ a \o p \in Seq(Int) /\ Len(a \o p) = Len(a) + Len(p)
        /\ \A i \in 1 .. Len(a) + Len(p) :
              (a \o p)[i] = IF i <= Len(a) THEN a[i] ELSE p[i - Len(a)]
    BY <1>1, <1>2, ConcatProperties
  <2> QED
    BY <1>1, <1>2, <2>1
<1> HIDE DEF q
<1>4. q[1] = n /\ \A i \in 1 .. 5 : q[i + 1] = p[i]
  BY <1>2, <1>3
<1> HIDE DEF m
<1>5. m \in Nat /\ m + 1 \leq Len(q)
  BY <1>1, <1>3
<1>6. /\ SubSeq(q, 2, m + 1) \in Seq(Int) /\ Len(SubSeq(q, 2, m + 1)) = m
      /\ \A i \in 1 .. m : SubSeq(q, 2, m + 1)[i] = q[i + 1]
  BY <1>3, <1>5, SecondOn
<1>7. ASSUME NEW i \in 1 .. m PROVE SubSeq(q, 2, m + 1)[i] = args[i]
  <2>1. i \in 1 .. 5
    BY <1>1
  <2> QED
    BY <1>1, <1>4, <1>6, <2>1
<1>8. SubSeq(q, 2, m + 1) = args
  BY <1>6, <1>7, SeqEqual DEF m
<1> QED
  BY <1>4, <1>8 DEF m, q, a, p

-----------------------------------------------------------------------------
(* The tables of a build.                                                   *)

\* The number of a class reference is out of reach of the functions' numbers:
\* at the 250th function both would have one case of the host's switch.
FewCalls ==
  \A P \in SiteSets :
    LET C == {Callee(s) : s \in {t \in P : t.kind # "class"}}
    IN  IsFiniteSet(C) /\ Cardinality(C) < ClassCall

\* What a site has become.
Rewritten ==
  \A s \in DOMAIN code :
    /\ s \in sites
    /\ s.kind # "class" =>
         Len(s.args) + 1 \leq MaxArgs /\ code[s] = <<syscalls[Callee(s)]>> \o Pad(s.args)

Switch ==
  [n \in {syscalls[c] : c \in Requested} \union {ClassCall} |->
     IF n = ClassCall THEN "class" ELSE CHOOSE c \in Requested : syscalls[c] = n]

Tables ==
  /\ sites \in SiteSets
  /\ Numbering(mapping) /\ DOMAIN mapping \subseteq Impl
  /\ Numbering(syscalls) /\ DOMAIN syscalls \subseteq Requested
  /\ stage # "trace" => Impl \subseteq DOMAIN mapping /\ Requested \subseteq DOMAIN syscalls
  /\ Rewritten /\ (stage = "trace" => DOMAIN code = {})
  /\ stage = "run" => DOMAIN code = sites /\ host = Switch

NumberInv ==
  /\ Tables
  /\ \A a \in answered :
       stage = "run" /\ a.site \in sites /\ a.answer = Answer(a.site)

LEMMA NumberInvInit == DispatchInit => NumberInv
  BY NoNumbering DEF DispatchInit, NumberInv, Tables, Rewritten

LEMMA SameSites ==
  ASSUME sites' = sites
  PROVE  Impl' = Impl /\ Requested' = Requested
  BY DEF Impl, Requested

LEMMA NumberInvNumber == ASSUME NumberInv, NEW m \in Impl, Number(m) PROVE NumberInv'
<1>1. /\ stage = "trace" /\ m \notin DOMAIN mapping
      /\ mapping' = Extend(mapping, m, NextId(mapping))
      /\ UNCHANGED <<sites, stage, syscalls, referenced, code, host, answered>>
  BY DEF Number
<1>2. Numbering(mapping)'
  BY <1>1, NextNumber DEF NumberInv, Tables, Numbering
<1>3. DOMAIN mapping' \subseteq Impl
  BY <1>1 DEF Extend, NumberInv, Tables
<1>4. Rewritten' /\ DOMAIN code' = {} /\ answered' = {}
  BY <1>1 DEF NumberInv, Tables, Rewritten
<1> QED
  BY <1>1, <1>2, <1>3, <1>4, SameSites DEF NumberInv, Tables, Numbering

LEMMA NumberInvNumberCall == ASSUME NumberInv, NEW c \in Requested, NumberCall(c) PROVE NumberInv'
<1>1. /\ stage = "trace" /\ c \notin DOMAIN syscalls
      /\ syscalls' = Extend(syscalls, c, NextId(syscalls))
      /\ UNCHANGED <<sites, stage, mapping, referenced, code, host, answered>>
  BY DEF NumberCall
<1>2. Numbering(syscalls)'
  BY <1>1, NextNumber DEF NumberInv, Tables, Numbering
<1>3. DOMAIN syscalls' \subseteq Requested
  BY <1>1 DEF Extend, NumberInv, Tables
<1>4. Rewritten' /\ DOMAIN code' = {} /\ answered' = {}
  BY <1>1 DEF NumberInv, Tables, Rewritten
<1> QED
  BY <1>1, <1>2, <1>3, <1>4, SameSites DEF NumberInv, Tables, Numbering

LEMMA NumberInvRewrite ==
  ASSUME NumberInv, NEW s \in sites, RewriteClass(s) \/ RewriteCall(s)
  PROVE  NumberInv'
<1>1. /\ stage = "rewrite" /\ s \notin DOMAIN code
      /\ stage' \in {"rewrite", "error"}
      /\ UNCHANGED <<sites, mapping, syscalls, host, answered>>
  BY DEF RewriteClass, RewriteCall
<1>2. Rewritten'
  <2>1. CASE UNCHANGED code
    BY <1>1, <2>1 DEF NumberInv, Tables, Rewritten
  <2>2. ASSUME NEW q, code' = Extend(code, s, q),
               s.kind # "class" => Len(s.args) + 1 \leq MaxArgs
                                   /\ q = <<syscalls[Callee(s)]>> \o Pad(s.args)
        PROVE  Rewritten'
    <3>1. /\ DOMAIN code' = DOMAIN code \union {s} /\ code'[s] = q
          /\ \A t \in DOMAIN code : code'[t] = code[t]
      BY <1>1, <2>2 DEF Extend
    <3> QED
      BY <1>1, <2>2, <3>1 DEF NumberInv, Tables, Rewritten
  <2>3. CASE RewriteClass(s)
    BY <2>2, <2>3 DEF RewriteClass
  <2>4. CASE RewriteCall(s)
    <3>1. CASE Len(s.args) + 1 > MaxArgs
      BY <2>1, <2>4, <3>1 DEF RewriteCall
    <3>2. CASE ~(Len(s.args) + 1 > MaxArgs)
      <4>1. s.args \in Seq(Int)
        BY DispatchAssumption DEF NumberInv, Tables
      <4>2. Len(s.args) + 1 \leq MaxArgs
        BY <3>2, <4>1 DEF MaxArgs
      <4> QED
        BY <2>2, <2>4, <3>2, <4>2 DEF RewriteCall
    <3> QED
      BY <3>1, <3>2
  <2> QED
    BY <2>3, <2>4
<1>3. answered' = {}
  BY <1>1 DEF NumberInv
<1> QED
  BY <1>1, <1>2, <1>3, SameSites DEF NumberInv, Tables, Numbering

LEMMA NumberInvStage == ASSUME NumberInv, BeginRewrite \/ Generate PROVE NumberInv'
<1>1. UNCHANGED <<sites, mapping, syscalls, referenced, code, answered>>
  BY DEF BeginRewrite, Generate
<1>2. answered' = {} /\ Rewritten'
  BY <1>1 DEF BeginRewrite, Generate, NumberInv, Tables, Rewritten
<1>3. Numbering(mapping)' /\ Numbering(syscalls)'
  BY <1>1 DEF NumberInv, Tables, Numbering
<1>4. Switch' = Switch
  BY <1>1, SameSites DEF Switch
<1>5. CASE BeginRewrite
  BY <1>1, <1>2, <1>3, <1>5, SameSites DEF BeginRewrite, NumberInv, Tables
<1>6. CASE Generate
  BY <1>1, <1>2, <1>3, <1>4, <1>6, SameSites DEF Generate, Switch, NumberInv, Tables
<1> QED
  BY <1>5, <1>6

LEMMA NumberInvRun == ASSUME NumberInv, NEW s \in sites, Run(s) PROVE NumberInv'
<1>1. /\ stage = "run" /\ answered' = {[site |-> s, answer |-> Answer(s)]}
      /\ UNCHANGED <<sites, stage, mapping, syscalls, referenced, code, host>>
  BY DEF Run
<1>2. Tables'
  BY <1>1, SameSites DEF NumberInv, Tables, Numbering, Rewritten, Switch
<1>3. \A t : Answer(t)' = Answer(t)
  BY <1>1 DEF Answer, ClassOf, ImplOf, Params
<1> QED
  BY <1>1, <1>2, <1>3 DEF NumberInv

LEMMA NumberInvStutter == ASSUME NumberInv, UNCHANGED dispatchVars PROVE NumberInv'
<1>1. Tables'
  BY SameSites DEF dispatchVars, NumberInv, Tables, Numbering, Rewritten, Switch
<1>2. \A t : Answer(t)' = Answer(t)
  BY DEF dispatchVars, Answer, ClassOf, ImplOf, Params
<1> QED
  BY <1>1, <1>2 DEF dispatchVars, NumberInv

LEMMA NumberInduction == DispatchSpec => []NumberInv
<1>1. NumberInv /\ [DispatchNext]_dispatchVars => NumberInv'
  BY NumberInvNumber, NumberInvNumberCall, NumberInvRewrite, NumberInvStage, NumberInvRun, NumberInvStutter DEF DispatchNext
<1> QED
  BY <1>1, NumberInvInit, PTL DEF DispatchSpec

-----------------------------------------------------------------------------
(* What the host does for a site.                                           *)

LEMMA AnswersCall ==
  ASSUME FewCalls, NumberInv, stage = "run", NEW s \in sites, s.kind # "class"
  PROVE  /\ Answer(s).what = Callee(s) /\ Answer(s).args = s.args
         /\ s.kind = "interface" => Answer(s).rv = mapping[Chosen[s]]
<1> DEFINE q == code[s]
           n == syscalls[Callee(s)]
<1>1. /\ s.args \in Seq(Int) /\ Len(s.args) + 1 \leq MaxArgs
      /\ q = <<n>> \o Pad(s.args)
  BY DispatchAssumption DEF NumberInv, Tables, Rewritten
<1>2. Callee(s) \in Requested /\ Callee(s) \in DOMAIN syscalls
  BY DEF Requested, NumberInv, Tables
<1>3. n \in Int /\ n # ClassCall
  <2>1. IsFiniteSet(Requested) /\ Cardinality(Requested) < ClassCall
    BY DEF FewCalls, Requested, NumberInv, Tables
  <2>2. Cardinality(DOMAIN syscalls) \leq Cardinality(Requested)
    BY <2>1, FS_Subset DEF NumberInv, Tables
  <2>3. Cardinality(DOMAIN syscalls) \in Nat /\ Cardinality(Requested) \in Nat
    BY <2>1, FS_CardinalityType DEF NumberInv, Tables, Numbering
  <2>4. n \in 1 .. Cardinality(DOMAIN syscalls)
    BY <1>2 DEF NumberInv, Tables, Numbering
  <2> HIDE DEF n
  <2> QED
    BY <2>1, <2>2, <2>3, <2>4 DEF ClassCall
<1>4. n \in DOMAIN host /\ host[n] = Callee(s)
  <2>1. n \in DOMAIN Switch /\ host = Switch
    BY <1>2 DEF Switch, NumberInv, Tables
  <2>2. Switch[n] = CHOOSE c \in Requested : syscalls[c] = n
    BY <1>3, <2>1 DEF Switch
  <2>3. \A c \in Requested : syscalls[c] = n => c = Callee(s)
    BY <1>2 DEF NumberInv, Tables, Numbering
  <2> QED
    BY <1>2, <2>1, <2>2, <2>3
<1> HIDE DEF n
<1>5. Params(Callee(s)) = Len(s.args)
  <2> DEFINE t == CHOOSE u \in sites : u.kind # "class" /\ Callee(u) = Callee(s)
  <2>1. t \in sites /\ t.kind # "class" /\ Callee(t) = Callee(s)
    OBVIOUS
  <2> HIDE DEF t
  <2>2. Len(t.args) = Len(s.args)
    BY <2>1, DispatchAssumption DEF NumberInv, Tables
  <2> QED
    BY <2>2 DEF Params, t
<1>6. q[1] = n /\ SubSeq(q, 2, Len(s.args) + 1) = s.args
  <2>1. /\ (<<n>> \o Pad(s.args))[1] = n
        /\ SubSeq(<<n>> \o Pad(s.args), 2, Len(s.args) + 1) = s.args
    BY <1>1, <1>3, PadKeeps
  <2> QED
    BY <1>1, <2>1
<1> QED
  BY <1>3, <1>4, <1>5, <1>6 DEF Answer, ImplOf

\* In whatever order the functions were numbered, the system call that takes
\* a function's place reaches that function, with the arguments of the call.
THEOREM CallsReach == FewCalls => (DispatchSpec => []SyscallReaches)
<1> SUFFICES ASSUME FewCalls PROVE DispatchSpec => []SyscallReaches
  OBVIOUS
<1>1. NumberInv => SyscallReaches
  BY AnswersCall DEF SyscallReaches, NumberInv
<1> QED
  BY <1>1, NumberInduction, PTL

\* The number in an answer stands for the implementation the VM found and no
\* other, in whatever order they were met.
THEOREM AnswersAreIdentified == FewCalls => (DispatchSpec => []AnswersIdentify)
<1> SUFFICES ASSUME FewCalls PROVE DispatchSpec => []AnswersIdentify
  OBVIOUS
<1>1. ASSUME NumberInv, NEW a \in answered, a.site.kind = "interface"
      PROVE  {m \in DOMAIN mapping : mapping[m] = a.answer.rv} = {Chosen[a.site]}
  <2>1. a.answer.rv = mapping[Chosen[a.site]]
    BY <1>1, AnswersCall DEF NumberInv
  <2>2. Chosen[a.site] \in DOMAIN mapping
    BY <1>1, DispatchAssumption DEF Impl, NumberInv, Tables
  <2> QED
    BY <1>1, <2>1, <2>2 DEF NumberInv, Tables, Numbering
<1>2. NumberInv => AnswersIdentify
  BY <1>1 DEF AnswersIdentify
<1> QED
  BY <1>2, NumberInduction, PTL

=============================================================================
