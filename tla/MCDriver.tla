------------------------------ MODULE MCDriver ------------------------------
(***************************************************************************)
(* The kernel driver: the hold files of its accelerators, and the life of  *)
(* a device, side by side; a behaviour is one or the other.  The           *)
(* accelerators are numbered from 0, as dev->idx does; writers are model   *)
(* values.                                                                 *)
(***************************************************************************)
EXTENDS HoldControl, DriverLife

VARIABLE part

Init ==
  /\ part \in {"hold", "life"}
  /\ HoldInit /\ LifeInit
  \* what the part taken does not use has one value
  /\ part = "hold" => plat = "pci" /\ ~reconf

Next ==
  /\ UNCHANGED part
  /\ \/ part = "hold" /\ HoldNext /\ UNCHANGED lifeVars
     \/ part = "life" /\ LifeNext /\ UNCHANGED holdVars

Spec ==
  /\ Init /\ [][Next]_<<part, holdVars, lifeVars>>
  /\ \A w \in Writers : WF_holdVars(part = "hold" /\ Store(w))
  /\ \A a \in Accels : WF_holdVars(part = "hold" /\ Thread(a))
                        /\ WF_holdVars(part = "hold" /\ CoreDone(a))
  /\ WF_lifeVars(part = "life" /\ crashed = "no" /\ Handler)

=============================================================================
