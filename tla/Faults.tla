------------------------------- MODULE Faults -------------------------------
(***************************************************************************)
(* The updates and the replication under more faults than module System    *)
(* has room for, checked side by side: a behaviour is a behaviour of one   *)
(* part.  What must never happen, not what must happen in the end.         *)
(***************************************************************************)
EXTENDS UpdateJob, Replication, SingleUpdate

VARIABLE focus     \* the part that moves

faultsVars == <<focus, updateVars, replVars, singleVars>>

\* A part that rests begins in one of its ways only.
FaultsInit ==
  /\ focus \in {"update", "replication", "single"}
  /\ UpdateInit /\ ReplInit /\ SingleInit
  /\ focus # "update" => job[A] = [NewJob("rolling", "Entry") EXCEPT !.seq = 2]
  /\ focus # "single" => sound

FaultsNext ==
  \/ focus = "update" /\ UpdateNext /\ UNCHANGED <<focus, replVars, singleVars>>
  \/ focus = "replication" /\ ReplNext /\ UNCHANGED <<focus, updateVars, singleVars>>
  \/ focus = "single" /\ SingleNext /\ UNCHANGED <<focus, updateVars, replVars>>

FaultsSpec == FaultsInit /\ [][FaultsNext]_faultsVars
=============================================================================
