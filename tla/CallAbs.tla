------------------------------ MODULE CallAbs -------------------------------
(***************************************************************************)
(* What a call of a translated method promises the Java program: it runs   *)
(* once, with the arguments of the call, and the result is its own.  The   *)
(* methods themselves are not interpreted: a result is Answer[c] of the    *)
(* call c, a method and its arguments.                                     *)
(***************************************************************************)
CONSTANTS Calls, Answer

VARIABLES phase,  \* idle, called, done
          req,    \* the current, or last, call
          ans,    \* the result of the last execution
          got     \* the last result the caller received

absVars == <<phase, req, ans, got>>

AbsInit ==
  /\ phase = "idle"
  /\ req \in Calls
  /\ ans = <<>> /\ got = <<>>

Invoke ==
  /\ phase = "idle" /\ phase' = "called"
  /\ req' \in Calls
  /\ UNCHANGED <<ans, got>>

Execute ==
  /\ phase = "called" /\ phase' = "done"
  /\ ans' = Answer[req]
  /\ UNCHANGED <<req, got>>

Return ==
  /\ phase = "done" /\ phase' = "idle"
  /\ got' = ans
  /\ UNCHANGED <<req, ans>>

AbsNext == Invoke \/ Execute \/ Return

AbsSpec == AbsInit /\ [][AbsNext]_absVars

=============================================================================
