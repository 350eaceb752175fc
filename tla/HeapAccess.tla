----------------------------- MODULE HeapAccess -----------------------------
(***************************************************************************)
(* Memory as the accelerator sees it, and the functions of fpgaporting.c   *)
(* that read and write it for the translated code: fields, arrays (which   *)
(* Jamaica stores as trees of segments), and the state of the collector.   *)
(*                                                                         *)
(* Memory is a function on words; the 16- and 8-bit masters address halves *)
(* and quarters of the same words, low ones first.  References are word    *)
(* indexes, pointers stored in memory are byte addresses.                  *)
(***************************************************************************)
EXTENDS Bytes

CONSTANTS
  Words,     \* indexes of the words of memory
  Memory,    \* its initial content
  Locs,      \* what the translated code accesses: records [k, b, i]
  Thread,    \* *ct
  Values,    \* words that are stored
  MaxStores  \* bound: stores in a behaviour

ASSUME HeapAssumption ==
  /\ Words \subseteq Nat /\ Memory \in [Words -> Word]
  /\ Thread \in Nat /\ Values \subseteq Word /\ MaxStores \in Nat

VARIABLES
  mem,    \* __juniper_ram_master
  stores, \* stores done
  loads   \* auxiliary: what a load of each location gives

heapVars == <<mem, stores, loads>>

-----------------------------------------------------------------------------
(* The three masters on the same memory: units of u bytes.                  *)

UnitsOf(u) == IF u = 4 THEN W ELSE IF u = 2 THEN B * B ELSE B

Get(m, u, x) == (m[(x * u) \div 4] \div Scale((x * u) % 4)) % UnitsOf(u)

Set(m, u, x, v) ==
  [m EXCEPT ![(x * u) \div 4] =
     @ + ((v % UnitsOf(u)) - Get(m, u, x)) * Scale((x * u) % 4)]

-----------------------------------------------------------------------------
(* Arrays.                                                                  *)

\* JAMAICA_ARRAY_LENGTH_DEPTH and JAMAICA_ARRAY_ELEMENTS
LengthDepth == 3
Elements == 4

Depth(m, ref) == m[ref + LengthDepth] % 16

GetArrayLength(m, ref) == m[ref + LengthDepth] \div 16

\* How many elements one entry of a node stands for, by the node's height:
\* three bits of the index per level, above those of a leaf of eight words.
Eights[n \in 0..15] == IF n = 0 THEN 1 ELSE 8 * Eights[n - 1]

Stride(height, byteoffset) == Eights[height] * 2 ^ byteoffset

\* The segment, and what is left of the index, after n of the levels.
Walk(m, ref, i, byteoffset) ==
  LET d == Depth(m, ref)
      walk[n \in 0..d] ==
        IF n = 0 THEN [seg |-> ref + Elements, idx |-> i]
        ELSE LET p == walk[n - 1]
                 entry == p.idx \div Stride(d - n + 1, byteoffset)
             IN [seg |-> m[p.seg + entry] \div 4,
                 idx |-> p.idx - entry * Stride(d - n + 1, byteoffset)]
  IN walk

Resolve_LevelShort(m, ref, i, byteoffset) ==
  LET d == Depth(m, ref)
  IN Walk(m, ref, i, byteoffset)[IF d = 0 THEN 0 ELSE d - 1]

\* resolve_tree_array
Resolve(m, ref, i, byteoffset) == Walk(m, ref, i, byteoffset)[Depth(m, ref)]

ArrayKinds == {"a8", "a16", "a32"}

ByteOffset(k) == CASE k = "a8" -> 2 [] k = "a16" -> 1 [] k = "a32" -> 0

\* jamaicaGC_GetArray8, 16, 32 and their setters: the unit and its index.
ArrayPlace(m, k, ref, i) ==
  LET p == Resolve(m, ref, i, ByteOffset(k))
  IN <<4 \div 2 ^ ByteOffset(k), p.seg * 2 ^ ByteOffset(k) + p.idx>>

-----------------------------------------------------------------------------
(* Fields and the state of the collector.                                   *)

\* juniper_ram_get_ and _set_: r, i, ui (and f, in a build with floats); s,
\* us; b, ub.  The sub-word masters get the word's index as it is.
FieldPlace(k, addr, off) ==
  CASE k = "w" -> <<4, addr>>
    [] k = "s" -> <<2, addr + off>>
    [] k = "b" -> <<1, addr + off>>

GcEnv(m) == m[Thread + 1] \div 4

\* juniper_get_ and _set_: gc_greylist, gc_white, m_cli, javastacksize,
\* plainalloc.
StatePlace(m, k) ==
  CASE k = "greylist" -> <<4, GcEnv(m)>>
    [] k = "white" -> <<4, GcEnv(m) + 1>>
    [] k = "cli" -> <<4, Thread + 3>>
    [] k = "javastacksize" -> <<4, Thread + 30>>
    [] k = "plainalloc" -> <<4, Thread + 31>>

Place(m, l) ==
  CASE l.k \in ArrayKinds -> ArrayPlace(m, l.k, l.b, l.i)
    [] l.k \in {"w", "s", "b"} -> FieldPlace(l.k, l.b, l.i)
    [] OTHER -> StatePlace(m, l.k)

-----------------------------------------------------------------------------
(* 64-bit values are pairs <<low, high>> of words.                          *)

\* juniper_ram_get_l, get_d: a negative low word is sign-extended before the
\* halves are joined, and covers the high one.
GetLong(m, addr) ==
  <<m[addr], IF m[addr] >= W \div 2 THEN W - 1 ELSE m[addr + 1]>>

\* juniper_ram_set_l, set_d
SetLong(m, addr, v) == [m EXCEPT ![addr] = v[1], ![addr + 1] = v[2]]

-----------------------------------------------------------------------------
Load(m, l) ==
  CASE l.k = "l" -> GetLong(m, l.b)
    [] l.k = "len" -> GetArrayLength(m, l.b)
    [] OTHER -> LET p == Place(m, l) IN Get(m, p[1], p[2])

\* The values of a location; of longs, those whose low word is not negative;
\* of the length of an array, none: it is only read.
ValuesOf(l) ==
  CASE l.k = "l" -> {v \in Values : v < W \div 2} \X Values
    [] l.k = "len" -> {}
    [] l.k \in {"a8", "b"} -> {v % B : v \in Values}
    [] l.k \in {"a16", "s"} -> {v % (B * B) : v \in Values}
    [] OTHER -> Values

Loads(m) == [l \in Locs |-> Load(m, l)]

HeapInit == mem = Memory /\ stores = 0 /\ loads = Loads(Memory)

Store(l, v) ==
  /\ stores < MaxStores /\ stores' = stores + 1
  /\ mem' = IF l.k = "l" THEN SetLong(mem, l.b, v)
            ELSE LET p == Place(mem, l) IN Set(mem, p[1], p[2], v)
  /\ loads' = Loads(mem')

HeapNext == \E l \in Locs : \E v \in ValuesOf(l) : Store(l, v)

HeapSpec == HeapInit /\ [][HeapNext]_heapVars

-----------------------------------------------------------------------------
\* A store is seen by every later load of its location, at whatever place in
\* whatever tree, and by no load of another one (fpgaporting.c:72-436).
Cell == INSTANCE HeapAbs WITH
  Cells <- Locs, Value <- [l \in Locs |-> ValuesOf(l)], cells <- loads
ImplementsHeap == Cell!AbsSpec

-----------------------------------------------------------------------------
(* What the accesses rest on: Jamaica's allocator lays out the arrays and   *)
(* the objects, the translated code takes them for what they are.           *)

Kinds == ArrayKinds \union {"w", "s", "b", "l", "len", "greylist", "white", "cli",
                            "javastacksize", "plainalloc"}

Path(l) == Walk(Memory, l.b, l.i, ByteOffset(l.k))

\* The word that points to the node or leaf after n levels.
Slot(l, n) ==
  Path(l)[n - 1].seg
    + Path(l)[n - 1].idx \div Stride(Depth(Memory, l.b) - n + 1, ByteOffset(l.k))

\* The words an access reads on its way.
Trail(l) ==
  CASE l.k \in ArrayKinds ->
         {l.b + LengthDepth} \union {Slot(l, n) : n \in 1..Depth(Memory, l.b)}
    [] l.k \in {"greylist", "white"} -> {Thread + 1}
    [] OTHER -> {}

BytesFrom(x, n) == x..(x + n - 1)

\* The bytes of a location; and of the element of a tree, all those of its leaf.
Extent(l) ==
  CASE l.k = "l" -> BytesFrom(4 * l.b, 8)
    [] l.k = "len" -> BytesFrom(4 * (l.b + LengthDepth), 4)
    [] OTHER -> LET p == Place(Memory, l) IN BytesFrom(p[1] * p[2], p[1])

Footprint(l) ==
  IF l.k \in ArrayKinds /\ Depth(Memory, l.b) > 0
    THEN BytesFrom(4 * Path(l)[Depth(Memory, l.b)].seg, 32)
    ELSE Extent(l)

SameArray(l1, l2) == l1.k \in ArrayKinds /\ l1.k = l2.k /\ l1.b = l2.b

\* Everything is in memory.  Different entries of a tree's nodes lead to nodes
\* that do not overlap.  Different things do not overlap, and what is
\* stored in is not on the way to anything.
Layout ==
  /\ \A l \in Locs :
       /\ l \in [k : Kinds, b : Nat, i : Nat]
       /\ Trail(l) \subseteq Words
       /\ \A x \in Footprint(l) : x \div 4 \in Words
  /\ \A l1, l2 \in Locs : SameArray(l1, l2) =>
       \A n \in 1..Depth(Memory, l1.b) : Slot(l1, n) # Slot(l2, n) =>
         \/ Path(l1)[n].seg + 8 <= Path(l2)[n].seg
         \/ Path(l2)[n].seg + 8 <= Path(l1)[n].seg
  /\ \A l1, l2 \in Locs : ValuesOf(l1) # {} =>
       /\ l1 # l2 /\ ~SameArray(l1, l2) => Footprint(l1) \intersect Footprint(l2) = {}
       /\ \A w \in Trail(l2) : Footprint(l1) \intersect BytesFrom(4 * w, 4) = {}

ASSUME HeapLaidOut == Layout

=============================================================================
