------------------------------ MODULE AstCache ------------------------------
(***************************************************************************)
(* The syntax trees of a build (astcache.py) and who uses them: the flow   *)
(* analysis loads trees, the hardware project is made by rewriting them in *)
(* place, the host code from what the files said before.  A build is a     *)
(* process; what outlives it is the file cache, if one is configured.      *)
(*                                                                         *)
(* A tree is known by the version of the source it was parsed from, by     *)
(* whether it has been rewritten, and by whether it came from a file.      *)
(***************************************************************************)
EXTENDS Integers, FiniteSets

CONSTANTS
  Sources,    \* C files of Jamaica's output
  HostFiles,  \* those with methods that are replaced on the host
  MaxVersion, \* bound: versions of a file
  MaxBuilds   \* bound: builds

ASSUME CacheAssumption ==
  HostFiles \subseteq Sources /\ MaxVersion \in Nat /\ MaxBuilds \in Nat

VARIABLES
  cacheOn, \* 'astcache' is configured
  source,  \* version of each file
  mem,     \* memcache: no tree, or one
  disk,    \* the file cache: no file, a torn one, or a version
  phase,   \* "idle", then "trace", "hardware", "host"; "failed"
  left,    \* files the phase has still to do
  saving,  \* the file whose tree is being saved
  dropped, \* files whose tree has been invalidated in this phase
  builds,
  used,    \* history: the tree the last step made code from
  killed   \* history: files left torn by an interrupted build

cacheVars == <<cacheOn, source, mem, disk, phase, left, saving, dropped, builds, used, killed>>

Absent == [ver |-> 0, rewritten |-> FALSE, file |-> FALSE]
Torn == 0 - 1
NoUse == [for |-> "nothing", tree |-> Absent, source |-> 0]

CacheInit ==
  /\ cacheOn \in BOOLEAN
  /\ source = [f \in Sources |-> 1] /\ mem = [f \in Sources |-> Absent]
  /\ disk = [f \in Sources |-> 0]
  /\ phase = "idle" /\ left = {} /\ saving = {} /\ dropped = {} /\ builds = 0
  /\ used = NoUse /\ killed = {}

-----------------------------------------------------------------------------
\* JamaicaBuilder runs again.
Edit(f) ==
  /\ phase = "idle" /\ source[f] < MaxVersion
  /\ source' = [source EXCEPT ![f] = @ + 1]
  /\ UNCHANGED <<cacheOn, mem, disk, phase, left, saving, dropped, builds, used, killed>>

\* build_all, up to trace_from_functions
BeginBuild ==
  /\ phase = "idle" /\ builds < MaxBuilds
  /\ phase' = "trace" /\ builds' = builds + 1
  /\ mem' = [f \in Sources |-> Absent] /\ used' = NoUse
  /\ UNCHANGED <<cacheOn, source, disk, left, saving, dropped, killed>>

-----------------------------------------------------------------------------
(* get                                                                      *)

Wanted(f) ==
  /\ saving = {} /\ mem[f] = Absent
  /\ \/ phase = "trace"
     \/ phase = "hardware" /\ f \in left
     \/ phase = "host" /\ f \in left \intersect dropped

\* The test for a newer source compares a structure with a number, which is
\* always greater: any file there is will do.
InFileCache(f) == cacheOn /\ disk[f] # 0

\* fetch_from_filecache; a torn file raises an exception nobody handles.
Fetch(f) ==
  /\ Wanted(f) /\ InFileCache(f)
  /\ \/ /\ disk[f] # Torn /\ UNCHANGED phase
        /\ mem' = [mem EXCEPT ![f] = [ver |-> disk[f], rewritten |-> FALSE, file |-> TRUE]]
     \/ /\ disk[f] = Torn /\ phase' = "failed" /\ UNCHANGED mem
  /\ UNCHANGED <<cacheOn, source, disk, left, saving, dropped, builds, used, killed>>

\* parse_jamaica_output, add_parent_links; save_to_filecache opens the file,
Parse(f) ==
  /\ Wanted(f) /\ ~InFileCache(f)
  /\ mem' = [mem EXCEPT ![f] = [ver |-> source[f], rewritten |-> FALSE, file |-> FALSE]]
  /\ IF cacheOn THEN saving' = {f} /\ disk' = [disk EXCEPT ![f] = Torn]
     ELSE UNCHANGED <<saving, disk>>
  /\ UNCHANGED <<cacheOn, source, phase, left, dropped, builds, used, killed>>

Save_LeavesOpen(f) ==
  /\ f \in saving /\ saving' = {}
  /\ UNCHANGED <<cacheOn, source, disk, mem, phase, left, dropped, builds, used, killed>>

\* and writes and closes it.
Save(f) ==
  /\ f \in saving /\ saving' = {}
  /\ disk' = [disk EXCEPT ![f] = mem[f].ver]
  /\ UNCHANGED <<cacheOn, source, mem, phase, left, dropped, builds, used, killed>>

-----------------------------------------------------------------------------
\* copy_project_files takes the files the flow analysis found.
BeginHardware(found) ==
  /\ phase = "trace" /\ saving = {}
  /\ found \subseteq {f \in Sources : mem[f] # Absent}
  /\ phase' = "hardware" /\ left' = found
  /\ UNCHANGED <<cacheOn, source, mem, disk, saving, dropped, builds, used, killed>>

\* rewrite_source_file: the tree in the memory cache is changed in place.
Rewrite(f) ==
  /\ phase = "hardware" /\ saving = {} /\ f \in left /\ mem[f] # Absent
  /\ mem' = [mem EXCEPT ![f].rewritten = TRUE]
  /\ used' = [for |-> "hardware", tree |-> mem[f], source |-> source[f]]
  /\ left' = left \ {f}
  /\ UNCHANGED <<cacheOn, source, disk, phase, saving, dropped, builds, killed>>

BeginHost ==
  /\ phase = "hardware" /\ left = {}
  /\ phase' = "host" /\ left' = HostFiles /\ dropped' = {}
  /\ UNCHANGED <<cacheOn, source, mem, disk, saving, builds, used, killed>>

Invalidate_Keeps(f) ==
  /\ phase = "host" /\ f \in left \ dropped /\ saving = {}
  /\ dropped' = dropped \union {f}
  /\ UNCHANGED <<cacheOn, source, mem, disk, phase, left, saving, builds, used, killed>>

\* refactor_src: invalidate_ast_for; the host code of the file's methods
Invalidate(f) ==
  /\ phase = "host" /\ f \in left \ dropped /\ saving = {}
  /\ dropped' = dropped \union {f} /\ mem' = [mem EXCEPT ![f] = Absent]
  /\ UNCHANGED <<cacheOn, source, disk, phase, left, saving, builds, used, killed>>

Refactor(f) ==
  /\ phase = "host" /\ saving = {} /\ f \in left \intersect dropped /\ mem[f] # Absent
  /\ used' = [for |-> "host", tree |-> mem[f], source |-> source[f]]
  /\ left' = left \ {f}
  /\ UNCHANGED <<cacheOn, source, mem, disk, phase, saving, dropped, builds, killed>>

EndBuild ==
  /\ phase = "host" /\ left = {}
  /\ phase' = "idle"
  /\ UNCHANGED <<cacheOn, source, mem, disk, left, saving, dropped, builds, used, killed>>

\* The build is killed, or an exception ends it; the next one is a new process.
Die ==
  /\ phase \notin {"idle"}
  /\ phase' = "idle" /\ left' = {} /\ dropped' = {} /\ saving' = {}
  /\ killed' = killed \union saving
  /\ UNCHANGED <<cacheOn, source, mem, disk, builds, used>>

CacheNext ==
  \/ \E f \in Sources : \/ Edit(f) \/ Fetch(f) \/ Parse(f) \/ Save(f)
                      \/ Rewrite(f) \/ Invalidate(f) \/ Refactor(f)
  \/ BeginBuild \/ BeginHost \/ EndBuild \/ Die
  \/ \E found \in SUBSET Sources : BeginHardware(found)

CacheSpec == CacheInit /\ [][CacheNext]_cacheVars

-----------------------------------------------------------------------------
\* The host code is made from trees as the files had them, though the hardware
\* project has been made from the same trees in the same process, by changing
\* them (prepare_src_project.py:76-77: "Any previous edits to the AST need to
\* be disregarded").
HostFromSource == used.for = "host" => ~used.tree.rewritten

\* A tree is rewritten once in a build, a tree that is not of the current
\* source comes from the file cache, and a build fails on a cache file only
\* if one that was writing it has died (astcache.py:65-102).
CacheSound ==
  /\ used.for = "hardware" => ~used.tree.rewritten
  /\ used.for # "nothing" /\ ~used.tree.file => used.tree.ver = used.source
  /\ phase = "failed" => killed # {}

\* Code is made from the tree of what its source says now, though trees are
\* kept across builds: an old cache file is not "suitable" (astcache.py:69-84).
TreesCurrent == used.for # "nothing" => used.tree.ver = used.source

=============================================================================
