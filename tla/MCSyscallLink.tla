--------------------------- MODULE MCSyscallLink ----------------------------
(* A small instance of SyscallLink: two commands, two arguments and a result *)
(* of its own for every request, so that a mixed-up answer shows.            *)
EXTENDS SyscallLink

MCCmds == {0, 1}
MCVals == 0 .. 3
MCArgs == {0, 1}
MCLowByte == [v \in MCVals |-> v % 2]
MCServe == [c \in MCCmds |-> [v \in MCVals |-> (2 * c + v + 1) % 4]]

=============================================================================
