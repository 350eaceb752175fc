------------------------------- MODULE MCData -------------------------------
(***************************************************************************)
(* Memory accesses of the accelerator and file accesses of the host, side  *)
(* by side: a behaviour is one or the other.                               *)
(***************************************************************************)
EXTENDS HeapAccess, DriverFiles, TLC

VARIABLE part

\* Memory of 176 words.  The thread is at 0.  Arrays: five bytes at 40 (no
\* tree), 36 shorts at 50 (a root, three leaves), 70 ints at 84 (a root, two
\* inner nodes, nine leaves).
MCWords == 0..175
ArrayHead(n, d) == n * 16 + d
MCMemory == [w \in MCWords |->
  CASE w = 1 -> 4 * 36
    [] w = 43 -> ArrayHead(5, 0)
    [] w = 53 -> ArrayHead(36, 1)
    [] w \in 54..56 -> 4 * (60 + 8 * (w - 54))
    [] w = 87 -> ArrayHead(70, 2)
    [] w = 88 -> 4 * 92
    [] w = 89 -> 4 * 100
    [] w \in 92..99 -> 4 * (101 + 8 * (w - 92))
    [] w = 100 -> 4 * 165
    [] OTHER -> w]

Loc(k, b, i) == [k |-> k, b |-> b, i |-> i]
MCLocs ==
  {Loc("a8", 40, i) : i \in {0, 3, 4}} \union
  {Loc("a16", 50, i) : i \in {0, 15, 16, 35}} \union
  {Loc("a32", 84, i) : i \in {0, 7, 8, 64, 69}} \union
  {Loc("len", 84, 0)} \union
  {Loc("w", 174, 0), Loc("l", 46, 0)} \union
  {Loc("s", 20, 0), Loc("s", 20, 1), Loc("b", 20, 0), Loc("b", 20, 3)} \union
  {Loc(k, 0, 0) : k \in {"white", "greylist", "cli", "plainalloc", "javastacksize"}}

\* <<4, 3, 2, 1>> and <<7, 7, 7, 7>> as bytes
MCValues == {668, 4095}

Req(op, pt, n, v, len) == [op |-> op, part |-> pt, n |-> n, v |-> v, len |-> len]
\* The last word of <<3, 2, 1, 0>> has no byte of the upper half.
MCRequests ==
  {Req("set_arg", 0, 3, <<668>>, 4), Req("set_arg", 0, 7, <<668>>, 4),
   Req("set_base", 1, 0, <<668>>, 4),
   Req("set_base", 0, 0, <<668>>, 4), Req("set_base", 0, 0, <<83>>, 4),
   Req("get_retval", 0, 0, <<>>, 4), Req("get_args", 0, 0, <<>>, 21), Req("set_return", 0, 0, <<668>>, 5),
   Req("set_return", 0, 0, <<83>>, 5),
   Req("write_mem", 0, 4, <<668, 83>>, 8), Req("write_mem", 0, 6, <<83>>, 4),
   Req("read_mem", 0, 0, <<>>, 8)}

MCOutputs == {<<<<"out", 0>>, 668>>, <<<<"retval", 0>>, 668>>}

Symmetry == Permutations(Procs)

Init == part \in {"heap", "files"} /\ HeapInit /\ FilesInit

Next ==
  /\ UNCHANGED part
  /\ \/ part = "heap" /\ HeapNext /\ UNCHANGED filesVars
     \/ part = "files" /\ FilesNext /\ UNCHANGED heapVars

Spec == Init /\ [][Next]_<<part, heapVars, filesVars>>

=============================================================================
