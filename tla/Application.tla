---------------------------- MODULE Application ----------------------------
(***************************************************************************)
(* The parts of the application that share no state in these models,       *)
(* checked side by side: a behaviour is a behaviour of one part.           *)
(***************************************************************************)
EXTENDS Stock, Maintenance, Backup

VARIABLE focus     \* the part that moves

\* A part that rests begins in one of its ways only.
ApplicationInit ==
  /\ focus \in {"stock", "maintenance", "backup"}
  /\ StockInit /\ MaintInit /\ BackupInit
  /\ focus # "stock" => resv.is = "none" /\ count.is = "none"
  /\ focus # "maintenance" => mplan = [active |-> TRUE, next |-> 0, fixed |-> TRUE] /\ tasks = <<NewTask(0)>>
  /\ focus # "backup" => runs = <<>>

ApplicationNext ==
  \/ focus = "stock" /\ StockNext /\ UNCHANGED <<focus, maintVars, backupVars>>
  \/ focus = "maintenance" /\ MaintNext /\ UNCHANGED <<focus, stockVars, backupVars>>
  \/ focus = "backup" /\ BackupNext /\ UNCHANGED <<focus, stockVars, maintVars>>

applicationVars == <<focus, stockVars, maintVars, backupVars>>

ApplicationSpec == ApplicationInit /\ [][ApplicationNext]_applicationVars

ApplicationTypeOK == StockTypeOK /\ MaintTypeOK /\ BackupTypeOK
=============================================================================
