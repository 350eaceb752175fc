----------------------------- MODULE SyscallAbs -----------------------------
(***************************************************************************)
(* What pcie_syscall (src/projectfiles/src/fpgaporting.c) promises the     *)
(* program that runs on the accelerator: a remote call.  While a run is in *)
(* progress the program may ask for one service at a time; the host        *)
(* executes it exactly once before the result is delivered, and the result *)
(* delivered is the one the host computed for that very request.           *)
(***************************************************************************)

CONSTANTS Cmds,   \* the command bytes a request can carry
          Vals,   \* the words: arguments and results
          Serve   \* Serve[c][v] is the host's result for command c, argument v

VARIABLES phase,  \* idle, busy (running), asked, served
          req,    \* the current, or last, request
          ans,    \* the current, or last, result of the host
          got     \* the last result the program received

absVars == <<phase, req, ans, got>>

AbsInit ==
  /\ phase = "idle"
  /\ req \in Cmds \X Vals
  /\ ans \in Vals
  /\ got \in Vals

Begin ==
  /\ phase = "idle"
  /\ phase' = "busy"
  /\ UNCHANGED <<req, ans, got>>

Ask ==
  /\ phase = "busy"
  /\ phase' = "asked"
  /\ req' \in Cmds \X Vals
  /\ UNCHANGED <<ans, got>>

Execute ==
  /\ phase = "asked"
  /\ phase' = "served"
  /\ ans' = Serve[req[1]][req[2]]
  /\ UNCHANGED <<req, got>>

Deliver ==
  /\ phase = "served"
  /\ phase' = "busy"
  /\ got' = ans
  /\ UNCHANGED <<req, ans>>

End ==
  /\ phase = "busy"
  /\ phase' = "idle"
  /\ UNCHANGED <<req, ans, got>>

AbsNext == Begin \/ Ask \/ Execute \/ Deliver \/ End

AbsSpec == AbsInit /\ [][AbsNext]_absVars

=============================================================================
