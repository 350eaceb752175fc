------------------------------ MODULE HeapAbs -------------------------------
(***************************************************************************)
(* What the porting layer promises to the translated code, and the files   *)
(* of the driver to the host: named cells, each of which keeps the value   *)
(* last stored in it.  What they hold at first is somebody else's doing.   *)
(***************************************************************************)
CONSTANTS
  Cells,
  Value \* of each cell: what may be stored there

VARIABLE cells

\* A store changes its own cell and no other.
Store(c) ==
  /\ cells'[c] \in Value[c]
  /\ \A d \in Cells \ {c} : cells'[d] = cells[d]

AbsNext == \E c \in Cells : Store(c)

AbsSpec == [][AbsNext]_cells

=============================================================================
