------------------------------- MODULE Backup -------------------------------
(***************************************************************************)
(* Backups of the application and their restoration                        *)
(* (src/internal/web/backup.go): files in the backup directory, the log    *)
(* backup_runs, one schedule, and the mutex under which a backup or a      *)
(* restoration runs.  The program may end at any step; then the directory  *)
(* and the log are what they were, and the next start tidies up.           *)
(***************************************************************************)
EXTENDS Integers, Sequences, FiniteSets

CONSTANTS Job,        \* the goroutines that back up, restore and delete
          Unlocked,   \* nobody holds backupMu
          Keep,       \* keep_count of the schedule, on_update_keep
          Slow,       \* bound: a backup takes longer than a second
          Deletable,  \* bound: the kinds the administrator deletes
          MaxRuns,    \* bound: entries in the log, and what went wrong
          MaxWrites,  \* bound: changes users make
          MaxTroubles \* bound: steps that fail and restarts

ASSUME BackupAssumption ==
  /\ Unlocked \notin Job
  /\ Keep \in Nat \ {0} /\ Slow \in BOOLEAN
  /\ MaxRuns \in Nat /\ MaxWrites \in Nat /\ MaxTroubles \in Nat

VARIABLES data,       \* what the database and the uploaded files hold
          before,     \* what they held when the safety copy of the last restoration
                      \* that has replaced anything began
          disk,       \* the backup files: name -> whole, or deleted by the administrator
          parts,      \* the half-written ones (.part)
          runs,       \* backup_runs in the order they started
          mutex,      \* who holds backupMu
          worker,     \* where the goroutines are
          clock,      \* the second, of which the file names are made
          writes, troubles

backupCounts == <<clock, writes, troubles>>
backupVars == <<data, before, disk, parts, runs, mutex, worker, backupCounts>>

NoWorker == [is |-> "idle", at |-> "idle", run |-> 0, name |-> <<>>, since |-> 0,
             held |-> <<>>, from |-> <<>>, log |-> 0, todo |-> {}]
NoData == <<>>
Mixed == -1           \* some files of this version, some of that
Version(d, f) == [db |-> d, files |-> f]

\* Nothing is backed up yet, or there is an older backup.
BackupInit ==
  /\ data = Version(1, 1) /\ before = NoData
  /\ \E old \in SUBSET {<<0, "manual">>} :
       /\ disk = [n \in old |-> [is |-> "whole", data |-> Version(0, 0)]]
       /\ runs = IF old = {} THEN <<>>
                 ELSE <<[name |-> <<0, "manual">>, kind |-> "manual", status |-> "ok"]>>
  /\ parts = {}
  /\ mutex = Unlocked
  /\ worker = [j \in Job |-> NoWorker]
  /\ clock = 1 /\ writes = 0 /\ troubles = 0

Put(f, n, v) == [m \in DOMAIN f \cup {n} |-> IF m = n THEN v ELSE f[m]]
Without(f, n) == [m \in DOMAIN f \ {n} |-> f[m]]
Whole(n) == n \in DOMAIN disk /\ disk[n].is = "whole"

-----------------------------------------------------------------------------
\* Bounds.
Room == Len(runs) + troubles < MaxRuns
Trouble == troubles < MaxTroubles /\ Room

At(j, at) == worker' = [worker EXCEPT ![j].at = at]
Leaves(j) == worker' = [worker EXCEPT ![j] = NoWorker]
Unlock(j) == mutex' = IF mutex = j THEN Unlocked ELSE mutex

(* BackupCreateWeb, BackupRestoreWeb try the lock and give up if it is     *)
(* held; a scheduled backup waits for it, on its time and on request, also *)
(* twice; BackupDeleteWeb takes no lock.  Every entry but that of a        *)
(* restoration can be restored, whatever became of it (backupRunFile).     *)
Asked(j) ==
  /\ worker[j].at = "idle"
  /\ \/ /\ mutex = Unlocked /\ mutex' = j
        /\ worker' = [worker EXCEPT ![j].is = "manual", ![j].at = "start"]
     \/ /\ worker' = [worker EXCEPT ![j].is = "scheduled", ![j].at = "lock"]
        /\ UNCHANGED mutex
     \/ /\ mutex = Unlocked /\ mutex' = j
        /\ \E r \in DOMAIN runs :
             /\ runs[r].kind # "restore" /\ runs[r].status # "gone"
             /\ worker' = [worker EXCEPT ![j].is = "restore", ![j].at = "log",
                                         ![j].from = runs[r].name]
     \/ /\ \E r \in DOMAIN runs :
             /\ runs[r].kind \in Deletable /\ runs[r].status # "gone"
             /\ worker' = [worker EXCEPT ![j].is = "delete", ![j].at = "prune", ![j].todo = {r}]
        /\ UNCHANGED mutex
  /\ UNCHANGED <<data, before, disk, parts, runs, backupCounts>>

Lock(j) ==
  /\ worker[j].at = "lock" /\ mutex = Unlocked
  /\ mutex' = j
  /\ At(j, "start")
  /\ UNCHANGED <<data, before, disk, parts, runs, backupCounts>>

\* Mutant: the safety copy counts among the backups of the schedule.
Kind_Scheduled(j) == IF worker[j].is = "restore" THEN "scheduled" ELSE worker[j].is

(* startBackupRun: the entry in the log; the name of the file is made of   *)
(* the second and the kind.                                                *)
Kind(j) == IF worker[j].is = "restore" THEN "safety" ELSE worker[j].is

StartRun(j) ==
  /\ worker[j].at = "start" /\ Room
  /\ LET name == <<clock, Kind(j)>> IN
     /\ runs' = Append(runs, [name |-> name, kind |-> Kind(j), status |-> "running"])
     /\ worker' = [worker EXCEPT ![j].at = "open", ![j].run = Len(runs) + 1,
                                 ![j].name = name, ![j].since = clock]
  /\ UNCHANGED <<data, before, disk, parts, mutex, backupCounts>>

(* writeBackup: O_EXCL on the .part file and the snapshot of the database; *)
(* then the files as they are by then, and the rename.                     *)
OpenPart(j) ==
  /\ worker[j].at = "open"
  /\ IF worker[j].name \in parts
     THEN At(j, "failed") /\ UNCHANGED parts
     ELSE /\ parts' = parts \cup {worker[j].name}
          /\ worker' = [worker EXCEPT ![j].at = "rename", ![j].held = data]
  /\ UNCHANGED <<data, before, disk, runs, mutex, backupCounts>>

Rename(j) ==
  /\ worker[j].at = "rename"
  /\ Slow => clock > worker[j].since
  /\ parts' = parts \ {worker[j].name}
  /\ disk' = Put(disk, worker[j].name,
                  [is |-> "whole", data |-> Version(worker[j].held.db, data.files)])
  /\ worker' = [worker EXCEPT ![j].at = "finish", ![j].since = 0]
  /\ UNCHANGED <<data, before, runs, mutex, backupCounts>>

(* finishBackupRun, and what the one who backed up does next; whoever has  *)
(* opened a .part file and fails takes it away.                            *)
FinishRun(j) ==
  /\ worker[j].at \in {"finish", "failed"}
  /\ runs' = [runs EXCEPT ![worker[j].run].status = IF worker[j].at = "finish" THEN "ok" ELSE "failed"]
  /\ parts' = parts \ (IF worker[j].at = "failed" /\ worker[j].held # NoData
                       THEN {worker[j].name} ELSE {})
  /\ IF worker[j].is = "restore"
     THEN /\ worker' = [worker EXCEPT ![j].run = 0, ![j].name = <<>>,
                          ![j].at = IF @ = "finish" THEN "database" ELSE "broken"]
          /\ UNCHANGED mutex
     ELSE /\ Unlock(j)
          /\ IF worker[j].at = "finish" /\ worker[j].is \in {"scheduled", "update"}
             THEN At(j, "old") ELSE Leaves(j)
  /\ UNCHANGED <<data, before, disk, backupCounts>>

(* A step of writing fails: the database, the disk, the connection.        *)
WriteFails(j) ==
  /\ worker[j].at \in {"open", "rename"} /\ Trouble
  /\ troubles' = troubles + 1
  /\ At(j, "failed")
  /\ UNCHANGED <<data, before, disk, parts, runs, mutex, clock, writes>>

(* pruneScheduleBackups, pruneUpdateBackups, after the lock is let go: the *)
(* successful runs but the newest are listed, then each loses its file and *)
(* its entry.  BackupDeleteWeb does the last for one entry.                *)
Newest(kind) ==
  LET ok == {r \in DOMAIN runs : runs[r].kind = kind /\ runs[r].status = "ok"}
  IN  {r \in ok : Cardinality({s \in ok : s > r}) < Keep}

\* Mutant: all the backups of the schedule are listed.
ListOld_All(j) ==
  /\ worker[j].at = "old"
  /\ worker' = [worker EXCEPT ![j].at = "prune",
                  ![j].todo = {r \in DOMAIN runs : runs[r].kind = worker[j].is /\ runs[r].status = "ok"}]
  /\ UNCHANGED <<data, before, disk, parts, runs, mutex, backupCounts>>

ListOld(j) ==
  /\ worker[j].at = "old"
  /\ LET kind == worker[j].is IN
     worker' = [worker EXCEPT ![j].at = "prune",
                  ![j].todo = {r \in DOMAIN runs : runs[r].kind = kind /\ runs[r].status = "ok"}
                                \ Newest(kind)]
  /\ UNCHANGED <<data, before, disk, parts, runs, mutex, backupCounts>>

RemoveFile(j) ==
  /\ worker[j].at = "prune" /\ worker[j].todo # {}
  /\ \E r \in worker[j].todo :
       /\ disk' = IF worker[j].is = "delete"
                  THEN Put(disk, runs[r].name, [is |-> "deleted"])
                  ELSE Without(disk, runs[r].name)
       /\ worker' = [worker EXCEPT ![j].at = "entry", ![j].run = r]
  /\ UNCHANGED <<data, before, parts, runs, mutex, backupCounts>>

RemoveEntry(j) ==
  /\ worker[j].at = "entry"
  /\ runs' = [runs EXCEPT ![worker[j].run].status = "gone"]
  /\ worker' = [worker EXCEPT ![j].at = "prune", ![j].todo = @ \ {worker[j].run}]
  /\ UNCHANGED <<data, before, disk, parts, mutex, backupCounts>>

Pruned(j) ==
  /\ worker[j].at = "prune" /\ worker[j].todo = {}
  /\ Leaves(j)
  /\ UNCHANGED <<data, before, disk, parts, runs, mutex, backupCounts>>

-----------------------------------------------------------------------------
(* restoreBackup: its own entry in the log; the file is opened and stays   *)
(* open; the safety copy, as above; the database in one transaction; the   *)
(* files one by one; the entry.                                            *)
LogRestore(j) ==
  /\ worker[j].at = "log" /\ Room
  /\ runs' = Append(runs, [name |-> worker[j].from, kind |-> "restore", status |-> "running"])
  /\ worker' = [worker EXCEPT ![j].log = Len(runs) + 1,
                  ![j].at = IF Whole(worker[j].from) THEN "start" ELSE "broken",
                  ![j].from = IF Whole(@) THEN disk[@].data ELSE NoData]
  /\ UNCHANGED <<data, before, disk, parts, mutex, backupCounts>>

RestoreDatabase(j) ==
  /\ worker[j].at = "database"
  /\ before' = worker[j].held
  /\ data' = [data EXCEPT !.db = worker[j].from.db]
  /\ At(j, "files")
  /\ UNCHANGED <<disk, parts, runs, mutex, backupCounts>>

RestoreFiles(j) ==
  /\ worker[j].at \in {"files", "rest"}
  /\ data' = [data EXCEPT !.files = IF worker[j].at = "files" THEN Mixed ELSE worker[j].from.files]
  /\ At(j, IF worker[j].at = "files" THEN "rest" ELSE "restored")
  /\ UNCHANGED <<before, disk, parts, runs, mutex, backupCounts>>

RestoreFails(j) ==
  /\ worker[j].at \in {"database", "files", "rest"} /\ Trouble
  /\ troubles' = troubles + 1
  /\ At(j, "broken")
  /\ UNCHANGED <<data, before, disk, parts, runs, mutex, clock, writes>>

LogRestored(j) ==
  /\ worker[j].at \in {"restored", "broken"}
  /\ runs' = [runs EXCEPT ![worker[j].log].status = IF worker[j].at = "restored" THEN "ok" ELSE "failed"]
  /\ Unlock(j)
  /\ Leaves(j)
  /\ UNCHANGED <<data, before, disk, parts, backupCounts>>

-----------------------------------------------------------------------------
(* The program ends and starts again: markStaleBackupRuns, left out while  *)
(* the maintenance lock holds; a new version backs up first                *)
(* (BackupBeforeUpdate), before it serves anything.                        *)
Restart ==
  /\ Trouble /\ troubles' = troubles + 1
  /\ \/ /\ runs' = [r \in DOMAIN runs |->
                      IF runs[r].status = "running" THEN [runs[r] EXCEPT !.status = "failed"] ELSE runs[r]]
        /\ parts' = {}
     \/ UNCHANGED <<runs, parts>>
  /\ \/ \E j \in Job :
        /\ worker' = [i \in Job |-> IF i = j THEN [NoWorker EXCEPT !.is = "update", !.at = "start"]
                                    ELSE NoWorker]
        /\ mutex' = j
     \/ /\ worker' = [i \in Job |-> NoWorker] /\ mutex' = Unlocked
  /\ UNCHANGED <<data, before, disk, clock, writes>>

\* Nothing keeps users out, not even during a restoration.
UserWrites ==
  /\ writes < MaxWrites /\ writes' = writes + 1
  /\ data' = Version(writes + 2, writes + 2)
  /\ UNCHANGED <<before, disk, parts, runs, mutex, worker, clock, troubles>>

Second ==
  /\ \E j \in Job : worker[j].at = "rename" /\ clock = worker[j].since
  /\ clock' = clock + 1
  /\ UNCHANGED <<data, before, disk, parts, runs, mutex, worker, writes, troubles>>

BackupNext ==
  \/ \E j \in Job :
       \/ Asked(j) \/ Lock(j) \/ StartRun(j) \/ OpenPart(j) \/ Rename(j) \/ FinishRun(j)
       \/ WriteFails(j) \/ ListOld(j) \/ RemoveFile(j) \/ RemoveEntry(j) \/ Pruned(j)
       \/ LogRestore(j) \/ RestoreDatabase(j) \/ RestoreFiles(j) \/ RestoreFails(j) \/ LogRestored(j)
  \/ Restart \/ UserWrites \/ Second

BackupSpec == BackupInit /\ [][BackupNext]_backupVars

-----------------------------------------------------------------------------
BackupTypeOK ==
  /\ data.db \in Nat /\ data.files \in Nat \cup {Mixed}
  /\ mutex \in Job \cup {Unlocked}
  /\ \A r \in DOMAIN runs : runs[r].status \in {"running", "ok", "failed", "gone"}
  /\ \A j \in Job : worker[j].at \in {"idle", "lock", "start", "open", "rename", "finish", "failed",
       "old", "prune", "entry", "log", "database", "files", "rest", "restored", "broken"}

(* The newest backups of the schedule, and those before an update, are on  *)
(* disk and whole, whatever is pruned, breaks off or starts again          *)
(* (pruneScheduleBackups keeps the newest).                                *)
KeptOnDisk == \A kind \in {"scheduled", "update"} : \A r \in Newest(kind) : Whole(runs[r].name)

(* Once a restoration has replaced anything, a whole backup with the       *)
(* database as it was when the safety copy began is on disk, and with the  *)
(* files of then or as users have left them since (restoreBackup).  Only   *)
(* what users enter after that may be lost with the restoration.           *)
SafetyCopyKept ==
  before # NoData =>
    \E n \in DOMAIN disk :
      Whole(n) /\ disk[n].data.db = before.db /\ disk[n].data.files >= before.files
=============================================================================
