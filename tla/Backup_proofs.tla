---------------------------- MODULE Backup_proofs ----------------------------
(* Theorems about Backup: what pruning leaves, for any number of           *)
(* goroutines, backups, failures and restarts.                             *)
EXTENDS Backup, FiniteSetTheorems, SequenceTheorems, TLAPS

-----------------------------------------------------------------------------
(* Types                                                                   *)

Protected == {"scheduled", "update"}

Works == {"idle", "manual", "scheduled", "update", "restore", "delete"}
Places == {"idle", "lock", "start", "open", "rename", "finish", "failed", "old", "prune", "entry",
           "log", "database", "files", "rest", "restored", "broken"}
Kinds == Works \cup {"safety"}
FileName == Nat \X Kinds

RunRecord == [name : FileName, kind : Kinds,
              status : {"running", "ok", "failed", "gone"}]

\* What is held open of a file does not matter here.
WorkRecord(V) ==
  [is : Works, at : Places, run : Nat, name : V, since : Nat, held : V, from : V, log : Nat,
   todo : SUBSET Nat]

WorkShape == \E V : worker \in [Job -> WorkRecord(V)]

Shape == runs \in Seq(RunRecord) /\ clock \in Nat /\ WorkShape

-----------------------------------------------------------------------------
(* The inductive invariant                                                 *)

\* The later successful runs of the kind of run r in log q.
Later(q, r) == {s \in DOMAIN q : q[s].kind = q[r].kind /\ q[s].status = "ok" /\ s > r}

\* There are enough of them for r not to be kept.
Superseded(q, r) == Cardinality(Later(q, r)) >= Keep

\* A run whose file has been under its name.
Done(q, r) == q[r].kind \in Protected /\ q[r].status \in {"ok", "gone"}

WholeIn(d, n) == n \in DOMAIN d /\ d[n].is = "whole"

\* Names of files belong to their kind and, once done, to one run.
NamesApart ==
  /\ \A r \in DOMAIN runs : runs[r].kind # "restore" => runs[r].name[2] = runs[r].kind
  /\ \A r \in DOMAIN runs : Done(runs, r) => runs[r].name[1] < clock
  /\ \A r, s \in DOMAIN runs :
       Done(runs, r) /\ Done(runs, s) /\ runs[r].name[1] = runs[s].name[1]
         /\ runs[r].kind = runs[s].kind => r = s

FilesKept ==
  \A r \in DOMAIN runs :
    runs[r].kind \in Protected /\ runs[r].status = "ok"
      => WholeIn(disk, runs[r].name) \/ Superseded(runs, r)

\* Who backs up or begins a restoration holds the mutex.
Holds(j) == worker[j].at \in {"start", "open", "rename", "finish", "failed", "log"} => mutex = j

BacksUp(j) == worker[j].at \in {"open", "rename", "finish", "failed"}

\* Its run is the one it started, later than all that are done.
OwnRun(j) ==
  BacksUp(j) =>
    /\ worker[j].run \in DOMAIN runs
    /\ runs[worker[j].run].kind = Kind(j) /\ runs[worker[j].run].name = worker[j].name
    /\ Kind(j) \in Protected =>
         /\ runs[worker[j].run].status = "running"
         /\ \A r \in DOMAIN runs : Done(runs, r) => runs[r].name[1] < worker[j].name[1]
         /\ worker[j].at = "rename" => worker[j].since = worker[j].name[1]
         /\ worker[j].at = "open" => worker[j].since = worker[j].name[1]
         /\ worker[j].at = "finish" => worker[j].name[1] < clock /\ WholeIn(disk, worker[j].name)

Restores(j) ==
  /\ worker[j].at \in {"log", "database", "files", "rest", "restored", "broken"}
       => worker[j].is = "restore"
  /\ worker[j].at = "log" => worker[j].from \in FileName
  /\ worker[j].is = "restore" /\ worker[j].at # "log" =>
       worker[j].log \in DOMAIN runs /\ runs[worker[j].log].kind = "restore"

\* What may be removed: what is not among the newest, or not of the schedule.
Doomed(j, r) ==
  /\ r \in DOMAIN runs
  /\ worker[j].is = "delete" => runs[r].kind \notin Protected \cup {"restore"}
  /\ worker[j].is # "delete" => Done(runs, r) /\ Superseded(runs, r)

Prunes(j) ==
  /\ worker[j].at = "old" => worker[j].is \in Protected
  /\ worker[j].at \in {"prune", "entry"} => \A r \in worker[j].todo : Doomed(j, r)
  /\ worker[j].at = "entry" => worker[j].run \in worker[j].todo

WorkInv(j) == Holds(j) /\ OwnRun(j) /\ Restores(j) /\ Prunes(j)

BackupInv == Shape /\ NamesApart /\ FilesKept /\ \A j \in Job : WorkInv(j)

\* What the administrator deletes is no backup of the schedule or before an
\* update, and not the entry of a restoration, which names such a file.
DeletesOther == Deletable \cap (Protected \cup {"restore"}) = {}

-----------------------------------------------------------------------------
(* Superseded runs                                                         *)

LEMMA LogOf ==
  ASSUME NEW q \in Seq(RunRecord)
  PROVE  /\ DOMAIN q \subseteq Nat /\ IsFiniteSet(DOMAIN q)
         /\ \A r \in DOMAIN q : q[r] \in RunRecord
<1>1. DOMAIN q = 1..Len(q) /\ Len(q) \in Nat OBVIOUS
<1>2. IsFiniteSet(1..Len(q)) BY <1>1, FS_Interval
<1>3. \A r \in DOMAIN q : q[r] \in RunRecord BY <1>1
<1> QED BY <1>1, <1>2, <1>3

LEMMA MoreStay ==
  ASSUME NEW p, NEW q \in Seq(RunRecord), NEW r, NEW t,
         Later(p, t) \subseteq Later(q, r), Superseded(p, t)
  PROVE  Superseded(q, r)
<1>1. IsFiniteSet(Later(q, r))
  <2>1. Later(q, r) \subseteq DOMAIN q BY DEF Later
  <2> QED BY <2>1, LogOf, FS_Subset
<1>2. IsFiniteSet(Later(p, t)) BY <1>1, FS_Subset
<1>3. Cardinality(Later(p, t)) <= Cardinality(Later(q, r)) BY <1>1, FS_Subset
<1>4. Cardinality(Later(p, t)) \in Nat /\ Cardinality(Later(q, r)) \in Nat
  BY <1>1, <1>2, FS_CardinalityType
<1> QED BY <1>3, <1>4, BackupAssumption DEF Superseded

\* Log n is log q with another status of run t.
OtherStatus(q, n, t) ==
  /\ DOMAIN n = DOMAIN q
  /\ \A s \in DOMAIN q : /\ n[s].kind = q[s].kind /\ n[s].name = q[s].name
                         /\ s # t => n[s].status = q[s].status

\* To remove a run that is superseded leaves the others superseded.
LEMMA GoneStay ==
  ASSUME NEW q \in Seq(RunRecord), NEW n \in Seq(RunRecord), NEW t \in DOMAIN q, OtherStatus(q, n, t),
         Superseded(q, t), NEW r \in DOMAIN q, Superseded(q, r)
  PROVE  Superseded(n, r)
<1>1. DOMAIN q \subseteq Nat BY LogOf
<1>2. CASE t \in Later(q, r)
  <2>1. Later(q, t) \subseteq Later(n, r)
    <3> SUFFICES ASSUME NEW s \in Later(q, t) PROVE s \in Later(n, r)
      OBVIOUS
    <3>1. s \in DOMAIN q /\ s > t /\ t > r /\ {r, s, t} \subseteq Nat
      BY <1>1, <1>2 DEF Later
    <3>2. s > r /\ s # t
      BY <3>1
    <3> QED
      BY <1>2, <3>1, <3>2 DEF Later, OtherStatus
  <2> QED BY <2>1, MoreStay
<1>3. CASE t \notin Later(q, r)
  <2>1. Later(q, r) \subseteq Later(n, r) BY <1>3 DEF Later, OtherStatus
  <2> QED BY <2>1, MoreStay
<1> QED BY <1>2, <1>3

\* A new entry or one whose status changes to ok takes nothing away.
LEMMA AppendStays ==
  ASSUME NEW q \in Seq(RunRecord), NEW e \in RunRecord
  PROVE  /\ Append(q, e) \in Seq(RunRecord) /\ DOMAIN Append(q, e) = DOMAIN q \cup {Len(q) + 1}
         /\ Append(q, e)[Len(q) + 1] = e /\ Len(q) + 1 \notin DOMAIN q /\ Len(q) + 1 \in Nat
         /\ \A r \in DOMAIN q : Append(q, e)[r] = q[r]
         /\ \A r \in DOMAIN q : Superseded(q, r) => Superseded(Append(q, e), r)
<1>1. /\ Append(q, e) \in Seq(RunRecord) /\ Len(q) \in Nat
      /\ DOMAIN q = 1..Len(q) /\ DOMAIN Append(q, e) = 1..(Len(q) + 1)
      /\ Append(q, e)[Len(q) + 1] = e
      /\ \A r \in 1..Len(q) : Append(q, e)[r] = q[r]
  OBVIOUS
<1>2. DOMAIN Append(q, e) = DOMAIN q \cup {Len(q) + 1} BY <1>1
<1>3. ASSUME NEW r \in DOMAIN q, Superseded(q, r) PROVE Superseded(Append(q, e), r)
  <2>1. Later(q, r) \subseteq Later(Append(q, e), r) BY <1>1, <1>2 DEF Later
  <2> QED BY <1>1, <1>3, <2>1, MoreStay
<1> QED BY <1>1, <1>2, <1>3

\* The same for a status: of another kind, or not from ok to something else.
LEMMA StatusStays ==
  ASSUME NEW q \in Seq(RunRecord), NEW n \in Seq(RunRecord), NEW t \in DOMAIN q, OtherStatus(q, n, t),
         q[t].kind \notin Protected \/ q[t].status # "ok" \/ Superseded(q, t),
         NEW r \in DOMAIN q, q[r].kind \in Protected, Superseded(q, r)
  PROVE  Superseded(n, r)
<1>1. CASE Superseded(q, t) BY <1>1, GoneStay
<1>2. CASE q[t].kind \notin Protected \/ q[t].status # "ok"
  <2>1. t \notin Later(q, r) BY <1>2 DEF Later
  <2>2. Later(q, r) \subseteq Later(n, r) BY <2>1 DEF Later, OtherStatus
  <2> QED BY <2>2, MoreStay
<1> QED BY <1>1, <1>2

LEMMA StatusSet ==
  ASSUME runs \in Seq(RunRecord), NEW t \in DOMAIN runs, NEW v \in {"running", "ok", "failed", "gone"},
         runs' = [runs EXCEPT ![t].status = v]
  PROVE  runs' \in Seq(RunRecord) /\ OtherStatus(runs, runs', t) /\ runs'[t].status = v
<1>1. runs[t] \in RunRecord BY LogOf
<1>2. [runs[t] EXCEPT !.status = v] \in RunRecord BY <1>1 DEF RunRecord
<1>3. runs' = [runs EXCEPT ![t] = [runs[t] EXCEPT !.status = v]] OBVIOUS
<1>4. runs' \in Seq(RunRecord) /\ DOMAIN runs' = DOMAIN runs BY <1>2, <1>3
<1> QED BY <1>1, <1>4 DEF RunRecord, OtherStatus

-----------------------------------------------------------------------------
(* The goroutines                                                          *)

\* A goroutine that stands still keeps its part of the invariant.
LogKept ==
  /\ DOMAIN runs \subseteq DOMAIN runs'
  /\ \A r \in DOMAIN runs :
       /\ runs'[r].name = runs[r].name /\ runs'[r].kind = runs[r].kind
       /\ Done(runs, r) => Done(runs', r)
       /\ runs[r].kind \in Protected /\ Superseded(runs, r) => Superseded(runs', r)

Spared(j) ==
  /\ worker'[j] = worker[j] /\ (mutex = j => mutex' = j)
  /\ clock' \in Nat /\ clock <= clock'
  /\ BacksUp(j) =>
       /\ runs[worker[j].run].kind \in Protected => runs'[worker[j].run].status = runs[worker[j].run].status
       /\ \A r \in DOMAIN runs' : Done(runs', r) => r \in DOMAIN runs /\ Done(runs, r)
  /\ worker[j].at = "finish" /\ Kind(j) \in Protected /\ WholeIn(disk, worker[j].name)
       => WholeIn(disk', worker[j].name)

LEMMA SparedKeeps ==
  ASSUME Shape, NEW j \in Job, WorkInv(j), LogKept, Spared(j)
  PROVE  WorkInv(j)'
<1>1. /\ worker'[j] = worker[j] /\ (mutex = j => mutex' = j) /\ Kind(j)' = Kind(j)
      /\ BacksUp(j)' = BacksUp(j)
  BY DEF Spared, Kind, BacksUp
<1>2. Holds(j)' BY <1>1 DEF WorkInv, Holds
<1>3. OwnRun(j)'
  <2> SUFFICES ASSUME BacksUp(j) PROVE OwnRun(j)'
    BY <1>1 DEF OwnRun
  <2> DEFINE o == worker[j].run
  <2>1. /\ o \in DOMAIN runs /\ o \in DOMAIN runs'
        /\ runs'[o].kind = Kind(j) /\ runs'[o].name = worker[j].name
        /\ runs[o].kind = Kind(j) /\ runs[o].name = worker[j].name
    BY DEF WorkInv, OwnRun, LogKept
  <2>2. Kind(j) \in Protected =>
          /\ runs'[o].status = "running"
          /\ \A r \in DOMAIN runs' : Done(runs', r) => runs'[r].name[1] < worker[j].name[1]
    BY <2>1 DEF WorkInv, OwnRun, Spared, LogKept
  <2>3. Kind(j) \in Protected =>
          /\ worker[j].at = "rename" => worker[j].since = worker[j].name[1]
          /\ worker[j].at = "open" => worker[j].since = worker[j].name[1]
    BY DEF WorkInv, OwnRun
  <2>4. Kind(j) \in Protected /\ worker[j].at = "finish" =>
          worker[j].name[1] < clock' /\ WholeIn(disk', worker[j].name)
    <3>1. worker[j].name[1] \in Nat /\ clock \in Nat /\ clock' \in Nat
      <4>1. runs[o] \in RunRecord BY <2>1, LogOf DEF Shape
      <4>2. worker[j].name \in FileName BY <2>1, <4>1 DEF RunRecord
      <4> QED BY <4>2 DEF Shape, Spared, FileName
    <3>2. Kind(j) \in Protected /\ worker[j].at = "finish" =>
            worker[j].name[1] < clock /\ WholeIn(disk, worker[j].name)
      BY DEF WorkInv, OwnRun
    <3> QED BY <3>1, <3>2 DEF Spared
  <2> HIDE DEF o
  <2> QED BY <1>1, <2>1, <2>2, <2>3, <2>4 DEF OwnRun, o
<1>4. Restores(j)' BY <1>1 DEF WorkInv, Restores, LogKept
<1>5. Prunes(j)'
  <2>1. \A r : Doomed(j, r) => Doomed(j, r)' BY <1>1 DEF Doomed, LogKept, Done
  <2> QED BY <1>1, <2>1 DEF WorkInv, Prunes
<1> QED BY <1>2, <1>3, <1>4, <1>5 DEF WorkInv

LEMMA WorkerChanges ==
  ASSUME WorkShape, NEW j \in Job, NEW V, NEW w \in WorkRecord(V), worker' = [worker EXCEPT ![j] = w]
  PROVE  WorkShape' /\ worker'[j] = w /\ \A i \in Job : i # j => worker'[i] = worker[i]
<1>1. PICK W : worker \in [Job -> WorkRecord(W)] BY DEF WorkShape
<1>2. \A x \in WorkRecord(V) : x \in WorkRecord(V \cup W) BY DEF WorkRecord
<1>3. \A x \in WorkRecord(W) : x \in WorkRecord(V \cup W) BY DEF WorkRecord
<1>4. worker' \in [Job -> WorkRecord(V \cup W)] BY <1>1, <1>2, <1>3
<1> QED BY <1>1, <1>4 DEF WorkShape

LEMMA IdleWorker ==
  /\ NoWorker \in WorkRecord({<<>>}) /\ NoWorker.is = "idle" /\ NoWorker.at = "idle"
  BY DEF NoWorker, WorkRecord, Works, Places

LEMMA WorkerOf ==
  ASSUME WorkShape, NEW j \in Job
  PROVE  \E V : worker[j] \in WorkRecord(V)
  BY DEF WorkShape

\* Who is idle has nothing to keep.
LEMMA IdleInv ==
  ASSUME NEW j, worker[j] = NoWorker
  PROVE  WorkInv(j)
  BY IdleWorker DEF WorkInv, Holds, OwnRun, BacksUp, Restores, Prunes

\* Only the goroutine moves on, and takes no mutex another holds.
LEMMA OwnMove ==
  ASSUME BackupInv, NEW j \in Job, UNCHANGED <<runs, disk, clock>>, WorkShape', WorkInv(j)',
         \A i \in Job : i # j => worker'[i] = worker[i] /\ (mutex = i => mutex' = i)
  PROVE  BackupInv'
<1>1. Shape' /\ NamesApart' /\ FilesKept' /\ LogKept
  BY DEF BackupInv, Shape, NamesApart, FilesKept, LogKept
<1>2. \A i \in Job : i # j => Spared(i)
  BY DEF BackupInv, Shape, Spared, Done
<1>3. \A i \in Job : WorkInv(i)' BY <1>1, <1>2, SparedKeeps DEF BackupInv
<1> QED BY <1>1, <1>3 DEF BackupInv

\* It leaves, and lets its mutex go.
LEMMA Leave ==
  ASSUME BackupInv, NEW j \in Job, Leaves(j), UNCHANGED <<runs, disk, clock>>,
         mutex' = mutex \/ Unlock(j)
  PROVE  BackupInv'
<1>1. WorkShape' /\ worker'[j] = NoWorker /\ \A i \in Job : i # j => worker'[i] = worker[i]
  BY WorkerChanges, IdleWorker DEF Leaves, BackupInv, Shape
<1>2. WorkInv(j)'
  BY <1>1, IdleWorker DEF WorkInv, Holds, OwnRun, BacksUp, Restores, Prunes
<1>3. \A i \in Job : i # j /\ mutex = i => mutex' = i BY DEF Unlock
<1> QED BY <1>1, <1>2, <1>3, OwnMove

-----------------------------------------------------------------------------
(* The steps that leave the log and the files alone                        *)

LEMMA AskedStep == ASSUME BackupInv, DeletesOther, NEW j \in Job, Asked(j) PROVE BackupInv'
<1>1. UNCHANGED <<runs, disk, clock>> /\ worker[j].at = "idle"
  BY DEF Asked, backupCounts
<1>2. PICK V : worker[j] \in WorkRecord(V) BY WorkerOf DEF BackupInv, Shape
<1>3. WorkInv(j) /\ Shape BY DEF BackupInv
<1>4. CASE /\ mutex = Unlocked /\ mutex' = j
           /\ worker' = [worker EXCEPT ![j].is = "manual", ![j].at = "start"]
  <2> DEFINE w == [worker[j] EXCEPT !.is = "manual", !.at = "start"]
  <2>1. w \in WorkRecord(V) /\ w.is = "manual" /\ w.at = "start" BY <1>2 DEF WorkRecord, Works, Places
  <2>2. worker' = [worker EXCEPT ![j] = w] BY <1>4
  <2> HIDE DEF w
  <2>3. WorkShape' /\ worker'[j] = w /\ \A i \in Job : i # j => worker'[i] = worker[i]
    BY <1>3, <2>1, <2>2, WorkerChanges DEF Shape
  <2>4. WorkInv(j)'
    BY <1>4, <2>1, <2>3 DEF WorkInv, Holds, OwnRun, BacksUp, Restores, Prunes
  <2> QED BY <1>1, <1>4, <2>3, <2>4, OwnMove, BackupAssumption
<1>5. CASE /\ worker' = [worker EXCEPT ![j].is = "scheduled", ![j].at = "lock"]
           /\ UNCHANGED mutex
  <2> DEFINE w == [worker[j] EXCEPT !.is = "scheduled", !.at = "lock"]
  <2>1. w \in WorkRecord(V) /\ w.is = "scheduled" /\ w.at = "lock" BY <1>2 DEF WorkRecord, Works, Places
  <2>2. worker' = [worker EXCEPT ![j] = w] BY <1>5
  <2> HIDE DEF w
  <2>3. WorkShape' /\ worker'[j] = w /\ \A i \in Job : i # j => worker'[i] = worker[i]
    BY <1>3, <2>1, <2>2, WorkerChanges DEF Shape
  <2>4. WorkInv(j)'
    BY <2>1, <2>3 DEF WorkInv, Holds, OwnRun, BacksUp, Restores, Prunes
  <2> QED BY <1>1, <1>5, <2>3, <2>4, OwnMove
<1>6. ASSUME mutex = Unlocked, mutex' = j, NEW r \in DOMAIN runs,
             worker' = [worker EXCEPT ![j].is = "restore", ![j].at = "log", ![j].from = runs[r].name]
      PROVE  BackupInv'
  <2> DEFINE n == runs[r].name
             w == [worker[j] EXCEPT !.is = "restore", !.at = "log", !.from = n]
  <2>1. n \in FileName BY <1>3, LogOf DEF Shape, RunRecord
  <2>2. worker' = [worker EXCEPT ![j] = w] BY <1>6
  <2> HIDE DEF n
  <2>3. w \in WorkRecord(V \cup {n}) /\ w.is = "restore" /\ w.at = "log" /\ w.from = n
    BY <1>2 DEF WorkRecord, Works, Places
  <2> HIDE DEF w
  <2>4. WorkShape' /\ worker'[j] = w /\ \A i \in Job : i # j => worker'[i] = worker[i]
    BY <1>3, <2>2, <2>3, WorkerChanges DEF Shape
  <2>5. WorkInv(j)'
    BY <1>6, <2>1, <2>3, <2>4 DEF WorkInv, Holds, OwnRun, BacksUp, Restores, Prunes
  <2> QED BY <1>1, <1>6, <2>4, <2>5, OwnMove, BackupAssumption
<1>7. ASSUME NEW r \in DOMAIN runs, runs[r].kind \in Deletable, UNCHANGED mutex,
             worker' = [worker EXCEPT ![j].is = "delete", ![j].at = "prune", ![j].todo = {r}],
             Deletable \cap (Protected \cup {"restore"}) = {}
      PROVE  BackupInv'
  <2> DEFINE w == [worker[j] EXCEPT !.is = "delete", !.at = "prune", !.todo = {r}]
  <2>1. r \in Nat BY <1>3, LogOf DEF Shape
  <2>2. worker' = [worker EXCEPT ![j] = w] BY <1>7
  <2>3. w \in WorkRecord(V) /\ w.is = "delete" /\ w.at = "prune" /\ w.todo = {r}
    BY <1>2, <2>1 DEF WorkRecord, Works, Places
  <2> HIDE DEF w
  <2>4. WorkShape' /\ worker'[j] = w /\ \A i \in Job : i # j => worker'[i] = worker[i]
    BY <1>3, <2>2, <2>3, WorkerChanges DEF Shape
  <2>5. Prunes(j)' BY <1>1, <1>7, <2>3, <2>4 DEF Prunes, Doomed
  <2>6. WorkInv(j)'
    BY <2>3, <2>4, <2>5 DEF WorkInv, Holds, OwnRun, BacksUp, Restores
  <2> QED BY <1>1, <1>7, <2>4, <2>6, OwnMove
<1> QED BY <1>4, <1>5, <1>6, <1>7 DEF Asked, DeletesOther

\* Only the place changes.
LEMMA AtMoves ==
  ASSUME WorkShape, NEW j \in Job, NEW a \in Places, At(j, a)
  PROVE  /\ WorkShape' /\ \A i \in Job : i # j => worker'[i] = worker[i]
         /\ worker'[j].at = a /\ worker'[j].is = worker[j].is /\ worker'[j].run = worker[j].run
         /\ worker'[j].name = worker[j].name /\ worker'[j].since = worker[j].since
         /\ worker'[j].from = worker[j].from /\ worker'[j].log = worker[j].log
         /\ worker'[j].todo = worker[j].todo /\ worker'[j].held = worker[j].held
<1> DEFINE w == [worker[j] EXCEPT !.at = a]
<1>1. PICK V : worker[j] \in WorkRecord(V) BY WorkerOf
<1>2. w \in WorkRecord(V) BY <1>1 DEF WorkRecord
<1>3. /\ w.at = a /\ w.is = worker[j].is /\ w.run = worker[j].run /\ w.name = worker[j].name
      /\ w.since = worker[j].since /\ w.from = worker[j].from /\ w.log = worker[j].log
      /\ w.todo = worker[j].todo /\ w.held = worker[j].held
  BY <1>1 DEF WorkRecord
<1>4. worker' = [worker EXCEPT ![j] = w] BY DEF At
<1> HIDE DEF w
<1>5. WorkShape' /\ worker'[j] = w /\ \A i \in Job : i # j => worker'[i] = worker[i]
  BY <1>2, <1>4, WorkerChanges
<1> QED BY <1>3, <1>5

LEMMA LockStep == ASSUME BackupInv, NEW j \in Job, Lock(j) PROVE BackupInv'
<1>1. /\ UNCHANGED <<runs, disk, clock>> /\ worker[j].at = "lock" /\ mutex = Unlocked /\ mutex' = j
      /\ At(j, "start")
  BY DEF Lock, backupCounts
<1>2. /\ WorkShape' /\ \A i \in Job : i # j => worker'[i] = worker[i]
      /\ worker'[j].at = "start" /\ worker'[j].is = worker[j].is /\ worker'[j].log = worker[j].log
  BY <1>1, AtMoves DEF BackupInv, Shape, Places
<1>3. WorkInv(j)'
  BY <1>1, <1>2 DEF BackupInv, WorkInv, Holds, OwnRun, BacksUp, Restores, Prunes
<1> QED BY <1>1, <1>2, <1>3, OwnMove, BackupAssumption

LEMMA FailStep ==
  ASSUME BackupInv, NEW j \in Job, worker[j].at \in {"open", "rename"}, At(j, "failed"),
         UNCHANGED <<runs, disk, clock, mutex>>
  PROVE  BackupInv'
<1>1. /\ WorkShape' /\ \A i \in Job : i # j => worker'[i] = worker[i]
      /\ worker'[j].at = "failed" /\ worker'[j].is = worker[j].is /\ worker'[j].log = worker[j].log
      /\ worker'[j].run = worker[j].run /\ worker'[j].name = worker[j].name
  BY AtMoves DEF BackupInv, Shape, Places
<1>2. WorkInv(j) BY DEF BackupInv
<1>3. Kind(j)' = Kind(j) BY <1>1 DEF Kind
<1>4. OwnRun(j)' BY <1>1, <1>2, <1>3 DEF WorkInv, OwnRun, BacksUp
<1>5. WorkInv(j)' BY <1>1, <1>2, <1>4 DEF WorkInv, Holds, Restores, Prunes
<1> QED BY <1>1, <1>5, OwnMove

LEMMA OpenStep == ASSUME BackupInv, NEW j \in Job, OpenPart(j) PROVE BackupInv'
<1>1. UNCHANGED <<runs, disk, clock, mutex>> /\ worker[j].at = "open"
  BY DEF OpenPart, backupCounts
<1>2. CASE At(j, "failed") BY <1>1, <1>2, FailStep
<1>3. CASE worker' = [worker EXCEPT ![j].at = "rename", ![j].held = data]
  <2> DEFINE h == data
             w == [worker[j] EXCEPT !.at = "rename", !.held = h]
  <2>1. PICK V : worker[j] \in WorkRecord(V) BY WorkerOf DEF BackupInv, Shape
  <2>2. worker' = [worker EXCEPT ![j] = w] BY <1>3
  <2> HIDE DEF h
  <2>3. w \in WorkRecord(V \cup {h}) BY <2>1 DEF WorkRecord, Places
  <2>4. /\ w.at = "rename" /\ w.is = worker[j].is /\ w.run = worker[j].run
        /\ w.name = worker[j].name /\ w.since = worker[j].since /\ w.log = worker[j].log
    BY <2>1 DEF WorkRecord
  <2> HIDE DEF w
  <2>5. WorkShape' /\ worker'[j] = w /\ \A i \in Job : i # j => worker'[i] = worker[i]
    BY <2>2, <2>3, WorkerChanges DEF BackupInv, Shape
  <2>6. WorkInv(j) BY DEF BackupInv
  <2>7. Kind(j)' = Kind(j) BY <2>4, <2>5 DEF Kind
  <2>8. OwnRun(j)' BY <1>1, <2>4, <2>5, <2>6, <2>7 DEF WorkInv, OwnRun, BacksUp
  <2>9. WorkInv(j)' BY <1>1, <2>4, <2>5, <2>6, <2>8 DEF WorkInv, Holds, Restores, Prunes
  <2> QED BY <1>1, <2>5, <2>9, OwnMove
<1> QED BY <1>2, <1>3 DEF OpenPart

LEMMA ListStep == ASSUME BackupInv, NEW j \in Job, ListOld(j) PROVE BackupInv'
<1> DEFINE kind == worker[j].is
           ok == {r \in DOMAIN runs : runs[r].kind = kind /\ runs[r].status = "ok"}
           old == ok \ Newest(kind)
           w == [worker[j] EXCEPT !.at = "prune", !.todo = old]
<1>1. UNCHANGED <<runs, disk, clock, mutex>> /\ worker[j].at = "old"
  BY DEF ListOld, backupCounts
<1>2. worker' = [worker EXCEPT ![j] = w] BY DEF ListOld
<1>3. Shape /\ WorkInv(j) BY DEF BackupInv
<1>4. kind \in Protected BY <1>1, <1>3 DEF WorkInv, Prunes
<1>5. ASSUME NEW r \in old PROVE r \in DOMAIN runs /\ Done(runs, r) /\ Superseded(runs, r)
  <2>1. r \in ok /\ r \notin Newest(kind) OBVIOUS
  <2>2. Later(runs, r) = {s \in ok : s > r} BY <2>1 DEF Later
  <2>3. ~(Cardinality({s \in ok : s > r}) < Keep) BY <2>1 DEF Newest
  <2>4. Cardinality(Later(runs, r)) \in Nat
    <3>1. Later(runs, r) \subseteq DOMAIN runs BY DEF Later
    <3>2. IsFiniteSet(DOMAIN runs) BY <1>3, LogOf DEF Shape
    <3> QED BY <3>1, <3>2, FS_Subset, FS_CardinalityType
  <2>5. Cardinality(Later(runs, r)) >= Keep BY <2>2, <2>3, <2>4, BackupAssumption
  <2>6. Done(runs, r) BY <1>4, <2>1 DEF Done
  <2> QED BY <2>1, <2>5, <2>6 DEF Superseded
<1>6. old \subseteq Nat BY <1>3, <1>5, LogOf DEF Shape
<1> HIDE DEF old
<1>7. PICK V : worker[j] \in WorkRecord(V) BY <1>3, WorkerOf DEF Shape
<1>8. w \in WorkRecord(V) BY <1>6, <1>7 DEF WorkRecord, Places
<1>9. w.at = "prune" /\ w.is = kind /\ w.log = worker[j].log /\ w.todo = old
  BY <1>7 DEF WorkRecord
<1> HIDE DEF w
<1>10. WorkShape' /\ worker'[j] = w /\ \A i \in Job : i # j => worker'[i] = worker[i]
  BY <1>2, <1>3, <1>8, WorkerChanges DEF Shape
<1>11. Prunes(j)'
  <2>1. worker'[j].is # "delete" /\ worker'[j].at = "prune" /\ worker'[j].todo = old
    BY <1>4, <1>9, <1>10 DEF Protected
  <2> QED BY <1>1, <1>5, <2>1 DEF Prunes, Doomed
<1>12. WorkInv(j)' BY <1>1, <1>3, <1>9, <1>10, <1>11 DEF WorkInv, Holds, OwnRun, BacksUp, Restores
<1> QED BY <1>1, <1>10, <1>12, OwnMove

LEMMA RestoreStep ==
  ASSUME BackupInv, NEW j \in Job, RestoreDatabase(j) \/ RestoreFiles(j) \/ RestoreFails(j)
  PROVE  BackupInv'
<1>1. PICK a \in {"files", "rest", "restored", "broken"} : At(j, a)
  BY DEF RestoreDatabase, RestoreFiles, RestoreFails
<1>2. UNCHANGED <<runs, disk, clock, mutex>> /\ worker[j].at \in {"database", "files", "rest"}
  BY DEF RestoreDatabase, RestoreFiles, RestoreFails, backupCounts
<1>3. /\ WorkShape' /\ \A i \in Job : i # j => worker'[i] = worker[i]
      /\ worker'[j].at = a /\ worker'[j].is = worker[j].is /\ worker'[j].log = worker[j].log
  BY <1>1, AtMoves DEF BackupInv, Shape, Places
<1>4. WorkInv(j)'
  BY <1>2, <1>3 DEF BackupInv, WorkInv, Holds, OwnRun, BacksUp, Restores, Prunes
<1> QED BY <1>2, <1>3, <1>4, OwnMove

LEMMA WritesStep == ASSUME BackupInv, UserWrites \/ Second PROVE BackupInv'
<1>1. UNCHANGED <<runs, disk, mutex, worker>> /\ clock' \in Nat /\ clock <= clock'
  BY DEF UserWrites, Second, BackupInv, Shape
<1>2. Shape' BY <1>1 DEF BackupInv, Shape, WorkShape
<1>3. NamesApart'
  <2>1. \A r \in DOMAIN runs : runs[r].name[1] \in Nat
    BY LogOf DEF BackupInv, Shape, RunRecord, FileName
  <2>2. \A r \in DOMAIN runs : Done(runs, r) => runs[r].name[1] < clock'
    BY <1>1, <2>1 DEF BackupInv, Shape, NamesApart
  <2> QED BY <1>1, <2>2 DEF BackupInv, NamesApart
<1>4. FilesKept' BY <1>1 DEF BackupInv, FilesKept
<1>5. LogKept BY <1>1 DEF LogKept
<1>6. \A j \in Job : Spared(j) BY <1>1 DEF Spared
<1>7. \A j \in Job : WorkInv(j)' BY <1>5, <1>6, SparedKeeps DEF BackupInv
<1> QED BY <1>2, <1>3, <1>4, <1>7 DEF BackupInv

-----------------------------------------------------------------------------
(* The steps on the files                                                  *)

LEMMA RenameStep ==
  ASSUME BackupInv, Slow, NEW j \in Job, Rename(j)
  PROVE  BackupInv'
<1> DEFINE n == worker[j].name
           v == [is |-> "whole", data |-> Version(worker[j].held.db, data.files)]
           w == [worker[j] EXCEPT !.at = "finish", !.since = 0]
<1>1. /\ UNCHANGED <<runs, mutex, clock>> /\ worker[j].at = "rename" /\ clock > worker[j].since
      /\ disk' = Put(disk, n, v)
  BY DEF Rename, backupCounts
<1>2. worker' = [worker EXCEPT ![j] = w] BY DEF Rename
<1>3. Shape /\ WorkInv(j) BY DEF BackupInv
<1>4. WholeIn(disk', n) /\ \A m : WholeIn(disk, m) => WholeIn(disk', m)
  BY <1>1 DEF Put, WholeIn
<1>5. PICK V : worker[j] \in WorkRecord(V) BY <1>3, WorkerOf DEF Shape
<1>6. w \in WorkRecord(V) BY <1>5 DEF WorkRecord, Places
<1>7. /\ w.at = "finish" /\ w.is = worker[j].is /\ w.run = worker[j].run
      /\ w.name = n /\ w.log = worker[j].log
  BY <1>5 DEF WorkRecord
<1> HIDE DEF w, v
<1>8. WorkShape' /\ worker'[j] = w /\ \A i \in Job : i # j => worker'[i] = worker[i]
  BY <1>2, <1>3, <1>6, WorkerChanges DEF Shape
<1>9. Kind(j)' = Kind(j) BY <1>7, <1>8 DEF Kind
<1>10. OwnRun(j)'
  <2>1. Kind(j) \in Protected => worker[j].since = n[1]
    BY <1>1, <1>3 DEF WorkInv, OwnRun, BacksUp
  <2>2. Kind(j) \in Protected => n[1] < clock BY <1>1, <2>1
  <2>3. worker'[j].name = n /\ worker'[j].at = "finish" /\ worker'[j].run = worker[j].run
    BY <1>7, <1>8
  <2>4. /\ worker[j].run \in DOMAIN runs
        /\ runs[worker[j].run].kind = Kind(j) /\ runs[worker[j].run].name = n
        /\ Kind(j) \in Protected =>
             /\ runs[worker[j].run].status = "running"
             /\ \A r \in DOMAIN runs : Done(runs, r) => runs[r].name[1] < n[1]
    BY <1>1, <1>3 DEF WorkInv, OwnRun, BacksUp
  <2>5. WholeIn(disk', worker'[j].name) BY <1>4, <2>3
  <2> HIDE DEF n
  <2> QED BY <1>1, <1>9, <2>2, <2>3, <2>4, <2>5 DEF OwnRun
<1>11. WorkInv(j)' BY <1>1, <1>3, <1>7, <1>8, <1>10 DEF WorkInv, Holds, Restores, Prunes
<1>12. Shape' /\ NamesApart' BY <1>1, <1>3, <1>8 DEF BackupInv, Shape, NamesApart
<1>13. FilesKept'
  <2>1. \A r \in DOMAIN runs : WholeIn(disk, runs[r].name) => WholeIn(disk', runs[r].name)
    BY <1>4
  <2> QED BY <1>1, <2>1 DEF BackupInv, FilesKept
<1>14. LogKept BY <1>1 DEF LogKept
<1>15. \A i \in Job : i # j => Spared(i)
  BY <1>1, <1>3, <1>4, <1>8 DEF Spared, Shape
<1>16. \A i \in Job : WorkInv(i)' BY <1>11, <1>14, <1>15, SparedKeeps DEF BackupInv
<1> QED BY <1>12, <1>13, <1>16 DEF BackupInv

LEMMA RemoveFileStep ==
  ASSUME BackupInv, NEW j \in Job, RemoveFile(j)
  PROVE  BackupInv'
<1>1. UNCHANGED <<runs, mutex, clock>> /\ worker[j].at = "prune"
  BY DEF RemoveFile, backupCounts
<1>2. PICK r \in worker[j].todo :
        /\ disk' = IF worker[j].is = "delete"
                   THEN Put(disk, runs[r].name, [is |-> "deleted"])
                   ELSE Without(disk, runs[r].name)
        /\ worker' = [worker EXCEPT ![j].at = "entry", ![j].run = r]
  BY DEF RemoveFile
<1>3. Shape /\ WorkInv(j) /\ NamesApart /\ FilesKept BY DEF BackupInv
<1>4. Doomed(j, r) /\ r \in DOMAIN runs BY <1>1, <1>2, <1>3 DEF WorkInv, Prunes, Doomed
<1>5. \A m : m # runs[r].name /\ WholeIn(disk, m) => WholeIn(disk', m)
  BY <1>2 DEF Put, Without, WholeIn
\* Another run of the schedule keeps its file.
<1>6. ASSUME NEW s \in DOMAIN runs, Done(runs, s), runs[s].name = runs[r].name
      PROVE  Superseded(runs, s)
  <2>1. runs[s].kind \in Protected /\ runs[s].kind # "restore" BY <1>6 DEF Done, Protected
  <2>2. runs[s].name[2] = runs[s].kind BY <1>3, <2>1 DEF NamesApart
  <2>3. worker[j].is # "delete"
    <3>1. worker[j].is = "delete" => runs[r].name[2] = runs[r].kind
      BY <1>3, <1>4 DEF Doomed, NamesApart
    <3> QED BY <1>4, <1>6, <2>1, <2>2, <3>1 DEF Doomed
  <2>4. Done(runs, r) /\ Superseded(runs, r) BY <1>4, <2>3 DEF Doomed
  <2>5. runs[r].name[2] = runs[r].kind BY <1>3, <1>4, <2>4 DEF NamesApart, Done, Protected
  <2>6. r = s BY <1>3, <1>4, <1>6, <2>2, <2>4, <2>5 DEF NamesApart
  <2> QED BY <2>4, <2>6
<1>7. FilesKept'
  <2> SUFFICES ASSUME NEW s \in DOMAIN runs, runs[s].kind \in Protected, runs[s].status = "ok"
               PROVE  WholeIn(disk', runs[s].name) \/ Superseded(runs, s)
    BY <1>1 DEF FilesKept
  <2>1. CASE runs[s].name = runs[r].name BY <1>6, <2>1 DEF Done
  <2>2. CASE runs[s].name # runs[r].name BY <1>3, <1>5, <2>2 DEF FilesKept
  <2> QED BY <2>1, <2>2
<1>8. r \in Nat BY <1>3, <1>4, LogOf DEF Shape
<1> DEFINE w == [worker[j] EXCEPT !.at = "entry", !.run = r]
<1>9. worker' = [worker EXCEPT ![j] = w] BY <1>2
<1>10. PICK V : worker[j] \in WorkRecord(V) BY <1>3, WorkerOf DEF Shape
<1>11. w \in WorkRecord(V) BY <1>8, <1>10 DEF WorkRecord, Places
<1>12. /\ w.at = "entry" /\ w.run = r /\ w.is = worker[j].is /\ w.log = worker[j].log
       /\ w.todo = worker[j].todo
  BY <1>10 DEF WorkRecord
<1> HIDE DEF w
<1>13. WorkShape' /\ worker'[j] = w /\ \A i \in Job : i # j => worker'[i] = worker[i]
  BY <1>3, <1>9, <1>11, WorkerChanges DEF Shape
<1>14. Prunes(j)'
  <2>1. \A s \in worker[j].todo : Doomed(j, s) BY <1>1, <1>3 DEF WorkInv, Prunes
  <2> QED BY <1>1, <1>2, <1>12, <1>13, <2>1 DEF Prunes, Doomed
<1>15. WorkInv(j)' BY <1>1, <1>3, <1>12, <1>13, <1>14 DEF WorkInv, Holds, OwnRun, BacksUp, Restores
<1>16. Shape' /\ NamesApart' /\ LogKept
  BY <1>1, <1>3, <1>13 DEF Shape, NamesApart, LogKept
<1>17. ASSUME NEW i \in Job, i # j PROVE Spared(i)
  <2>1. ASSUME worker[i].at = "finish", Kind(i) \in Protected PROVE worker[i].name # runs[r].name
    <3> DEFINE o == worker[i].run
    <3>1. /\ o \in DOMAIN runs /\ runs[o].kind = Kind(i) /\ runs[o].name = worker[i].name
          /\ \A s \in DOMAIN runs : Done(runs, s) => runs[s].name[1] < worker[i].name[1]
      BY <2>1 DEF BackupInv, WorkInv, OwnRun, BacksUp
    <3>2. runs[o].name[2] = Kind(i) BY <1>3, <2>1, <3>1 DEF NamesApart, Protected
    <3>3. CASE worker[j].is = "delete"
      <4>1. runs[r].kind \notin Protected /\ runs[r].name[2] = runs[r].kind
        BY <1>3, <1>4, <3>3 DEF Doomed, NamesApart
      <4> QED BY <2>1, <3>1, <3>2, <4>1
    <3>4. CASE worker[j].is # "delete"
      <4>1. runs[r].name[1] < worker[i].name[1] BY <1>4, <3>1, <3>4 DEF Doomed
      <4>2. runs[r].name[1] \in Nat BY <1>3, <1>4, LogOf DEF Shape, RunRecord, FileName
      <4> QED BY <4>1, <4>2
    <3> QED BY <3>3, <3>4
  <2> QED BY <1>1, <1>3, <1>5, <1>13, <1>17, <2>1 DEF Spared, Shape
<1>18. \A i \in Job : WorkInv(i)' BY <1>15, <1>16, <1>17, SparedKeeps DEF BackupInv
<1> QED BY <1>7, <1>16, <1>18 DEF BackupInv

-----------------------------------------------------------------------------
(* The steps on the log                                                    *)

LEMMA RemoveEntryStep ==
  ASSUME BackupInv, NEW j \in Job, RemoveEntry(j)
  PROVE  BackupInv'
<1> DEFINE t == worker[j].run
           todo == worker[j].todo \ {t}
           w == [worker[j] EXCEPT !.at = "prune", !.todo = todo]
<1>1. /\ UNCHANGED <<disk, mutex, clock>> /\ worker[j].at = "entry"
      /\ runs' = [runs EXCEPT ![t].status = "gone"]
  BY DEF RemoveEntry, backupCounts
<1>2. worker' = [worker EXCEPT ![j] = w] BY DEF RemoveEntry
<1>3. Shape /\ WorkInv(j) /\ NamesApart /\ FilesKept BY DEF BackupInv
<1>4. Doomed(j, t) /\ t \in DOMAIN runs /\ t \in worker[j].todo
  BY <1>1, <1>3 DEF WorkInv, Prunes, Doomed
<1>5. runs[t].kind \notin Protected \/ (Done(runs, t) /\ Superseded(runs, t))
  BY <1>4 DEF Doomed
<1> HIDE DEF t
<1>6. /\ runs' \in Seq(RunRecord) /\ DOMAIN runs' = DOMAIN runs
      /\ \A r \in DOMAIN runs : /\ runs'[r].name = runs[r].name /\ runs'[r].kind = runs[r].kind
                                /\ r # t => runs'[r].status = runs[r].status
      /\ runs'[t].status = "gone"
      /\ \A r \in DOMAIN runs : runs[r].kind \in Protected /\ Superseded(runs, r)
                                  => Superseded(runs', r)
  <2>1. runs' \in Seq(RunRecord) /\ OtherStatus(runs, runs', t) /\ runs'[t].status = "gone"
    BY <1>1, <1>3, <1>4, StatusSet DEF Shape
  <2>2. \A r \in DOMAIN runs : runs[r].kind \in Protected /\ Superseded(runs, r)
                                 => Superseded(runs', r)
    BY <1>3, <1>4, <1>5, <2>1, StatusStays DEF Shape
  <2> QED BY <2>1, <2>2 DEF OtherStatus
<1>7. \A r \in DOMAIN runs : Done(runs', r) <=> Done(runs, r)
  BY <1>5, <1>6 DEF Done
<1>8. LogKept BY <1>6, <1>7 DEF LogKept
<1>9. NamesApart'
  <2>1. \A r \in DOMAIN runs' : runs'[r].kind # "restore" => runs'[r].name[2] = runs'[r].kind
    BY <1>3, <1>6 DEF NamesApart
  <2>2. \A r \in DOMAIN runs' : Done(runs', r) => runs'[r].name[1] < clock'
    BY <1>1, <1>3, <1>6, <1>7 DEF NamesApart
  <2>3. \A r, s \in DOMAIN runs' :
          Done(runs', r) /\ Done(runs', s) /\ runs'[r].name[1] = runs'[s].name[1]
            /\ runs'[r].kind = runs'[s].kind => r = s
    BY <1>3, <1>6, <1>7 DEF NamesApart
  <2> QED BY <2>1, <2>2, <2>3 DEF NamesApart
<1>10. FilesKept' BY <1>1, <1>3, <1>6 DEF FilesKept
<1>11. PICK V : worker[j] \in WorkRecord(V) BY <1>3, WorkerOf DEF Shape
<1>12. todo \in SUBSET Nat /\ todo \subseteq worker[j].todo BY <1>11 DEF WorkRecord
<1> HIDE DEF todo
<1>13. w \in WorkRecord(V) BY <1>11, <1>12 DEF WorkRecord, Places
<1>14. /\ w.at = "prune" /\ w.is = worker[j].is /\ w.log = worker[j].log /\ w.todo = todo
  BY <1>11 DEF WorkRecord
<1> HIDE DEF w
<1>15. WorkShape' /\ worker'[j] = w /\ \A i \in Job : i # j => worker'[i] = worker[i]
  BY <1>2, <1>3, <1>13, WorkerChanges DEF Shape
<1>16. Prunes(j)'
  <2>1. \A r \in todo : Doomed(j, r) BY <1>1, <1>3, <1>12 DEF WorkInv, Prunes
  <2>2. \A r \in todo : Doomed(j, r)'
    BY <1>6, <1>7, <1>14, <1>15, <2>1 DEF Doomed, Done
  <2> QED BY <1>14, <1>15, <2>2 DEF Prunes
<1>17. WorkInv(j)'
  <2>1. Restores(j)' BY <1>1, <1>3, <1>6, <1>14, <1>15 DEF WorkInv, Restores
  <2> QED BY <1>14, <1>15, <1>16, <2>1 DEF WorkInv, Holds, OwnRun, BacksUp
<1>18. Shape' BY <1>1, <1>3, <1>6, <1>15 DEF Shape
<1>19. ASSUME NEW i \in Job, i # j PROVE Spared(i)
  <2>1. ASSUME BacksUp(i), runs[worker[i].run].kind \in Protected PROVE worker[i].run # t
    <3>1. runs[worker[i].run].status = "running"
      BY <2>1 DEF BackupInv, WorkInv, OwnRun
    <3> QED BY <1>5, <2>1, <3>1 DEF Done
  <2>2. BacksUp(i) => worker[i].run \in DOMAIN runs BY DEF BackupInv, WorkInv, OwnRun
  <2>3. \A r \in DOMAIN runs' : Done(runs', r) => r \in DOMAIN runs /\ Done(runs, r)
    BY <1>6, <1>7
  <2>4. BacksUp(i) /\ runs[worker[i].run].kind \in Protected =>
          runs'[worker[i].run].status = runs[worker[i].run].status
    BY <1>6, <2>1, <2>2
  <2>5. clock' \in Nat /\ clock <= clock' BY <1>1, <1>3 DEF Shape
  <2> QED BY <1>1, <1>15, <1>19, <2>3, <2>4, <2>5 DEF Spared
<1>20. \A i \in Job : WorkInv(i)' BY <1>3, <1>8, <1>17, <1>19, SparedKeeps DEF BackupInv
<1> QED BY <1>9, <1>10, <1>18, <1>20 DEF BackupInv

\* A new entry, of a run that has not ended.
LEMMA NewEntry ==
  ASSUME BackupInv, NEW e \in RunRecord, e.status = "running",
         e.kind # "restore" => e.name[2] = e.kind,
         runs' = Append(runs, e), UNCHANGED <<disk, mutex, clock>>
  PROVE  /\ runs' \in Seq(RunRecord) /\ NamesApart' /\ FilesKept' /\ LogKept
         /\ DOMAIN runs' = DOMAIN runs \cup {Len(runs) + 1} /\ runs'[Len(runs) + 1] = e
         /\ Len(runs) + 1 \in Nat
         /\ \A r \in DOMAIN runs' : Done(runs', r) => r \in DOMAIN runs /\ Done(runs, r)
         /\ \A r \in DOMAIN runs : runs'[r] = runs[r]
         /\ \A i \in Job : worker'[i] = worker[i] => Spared(i)
<1> DEFINE l == Len(runs) + 1
<1>1. /\ runs' \in Seq(RunRecord) /\ DOMAIN runs' = DOMAIN runs \cup {l} /\ runs'[l] = e
      /\ l \notin DOMAIN runs /\ l \in Nat
      /\ \A r \in DOMAIN runs : runs'[r] = runs[r]
      /\ \A r \in DOMAIN runs : Superseded(runs, r) => Superseded(runs', r)
  BY AppendStays DEF BackupInv, Shape
<1> HIDE DEF l
<1>2. \A r \in DOMAIN runs' : Done(runs', r) => r \in DOMAIN runs /\ Done(runs, r)
  BY <1>1 DEF Done
<1>3. LogKept BY <1>1 DEF LogKept, Done
<1>4. NamesApart' BY <1>1, <1>2 DEF BackupInv, NamesApart
<1>5. FilesKept' BY <1>1 DEF BackupInv, FilesKept
<1>6. ASSUME NEW i \in Job, worker'[i] = worker[i] PROVE Spared(i)
  <2>1. BacksUp(i) => worker[i].run \in DOMAIN runs BY DEF BackupInv, WorkInv, OwnRun
  <2> QED BY <1>1, <1>2, <1>6, <2>1 DEF Spared, BackupInv, Shape
<1> QED BY <1>1, <1>2, <1>3, <1>4, <1>5, <1>6 DEF l

LEMMA StartStep ==
  ASSUME BackupInv, NEW j \in Job, StartRun(j)
  PROVE  BackupInv'
<1> DEFINE n == <<clock, Kind(j)>>
           e == [name |-> n, kind |-> Kind(j), status |-> "running"]
           l == Len(runs) + 1
           w == [worker[j] EXCEPT !.at = "open", !.run = l, !.name = n, !.since = clock]
<1>1. /\ UNCHANGED <<disk, mutex, clock>> /\ worker[j].at = "start" /\ runs' = Append(runs, e)
  BY DEF StartRun, backupCounts
<1>2. worker' = [worker EXCEPT ![j] = w] BY DEF StartRun
<1>3. Shape /\ WorkInv(j) /\ NamesApart BY DEF BackupInv
<1>4. PICK V : worker[j] \in WorkRecord(V) BY <1>3, WorkerOf DEF Shape
<1>5. clock \in Nat /\ Kind(j) \in Kinds /\ Kind(j) # "restore"
  BY <1>3, <1>4 DEF Shape, Kind, WorkRecord, Works, Kinds
<1>6. n \in FileName /\ n[1] = clock /\ n[2] = Kind(j) BY <1>5 DEF FileName
<1> HIDE DEF n
<1>7. e \in RunRecord /\ e.status = "running" /\ e.name = n /\ e.kind = Kind(j)
  BY <1>5, <1>6 DEF RunRecord
<1> HIDE DEF e
<1>8. /\ runs' \in Seq(RunRecord) /\ NamesApart' /\ FilesKept' /\ LogKept
      /\ DOMAIN runs' = DOMAIN runs \cup {l} /\ runs'[l] = e /\ l \in Nat
      /\ \A r \in DOMAIN runs' : Done(runs', r) => r \in DOMAIN runs /\ Done(runs, r)
      /\ \A r \in DOMAIN runs : runs'[r] = runs[r]
      /\ \A i \in Job : worker'[i] = worker[i] => Spared(i)
  BY <1>1, <1>6, <1>7, NewEntry
<1> HIDE DEF l
<1>9. w \in WorkRecord(V \cup {n}) BY <1>4, <1>5, <1>8 DEF WorkRecord, Places
<1>10. /\ w.at = "open" /\ w.run = l /\ w.name = n /\ w.since = clock /\ w.is = worker[j].is
       /\ w.log = worker[j].log
  BY <1>4 DEF WorkRecord
<1> HIDE DEF w
<1>11. WorkShape' /\ worker'[j] = w /\ \A i \in Job : i # j => worker'[i] = worker[i]
  BY <1>2, <1>3, <1>9, WorkerChanges DEF Shape
<1>12. Kind(j)' = Kind(j) BY <1>10, <1>11 DEF Kind
<1>13. OwnRun(j)'
  <2>1. \A r \in DOMAIN runs' : Done(runs', r) => runs'[r].name[1] < n[1]
    BY <1>3, <1>6, <1>8 DEF NamesApart
  <2>2. worker'[j].at = "open" /\ worker'[j].run = l /\ worker'[j].name = n /\ worker'[j].since = n[1]
    BY <1>6, <1>10, <1>11
  <2>3. l \in DOMAIN runs' /\ runs'[l].kind = Kind(j) /\ runs'[l].name = n /\ runs'[l].status = "running"
    BY <1>7, <1>8
  <2> QED BY <1>12, <2>1, <2>2, <2>3 DEF OwnRun
<1>14. Restores(j)' BY <1>1, <1>3, <1>8, <1>10, <1>11 DEF WorkInv, Restores
<1>15. WorkInv(j)' BY <1>1, <1>3, <1>10, <1>11, <1>13, <1>14 DEF WorkInv, Holds, Prunes
<1>16. Shape' BY <1>1, <1>3, <1>8, <1>11 DEF Shape
<1>17. \A i \in Job : WorkInv(i)' BY <1>3, <1>8, <1>11, <1>15, SparedKeeps DEF BackupInv
<1> QED BY <1>8, <1>16, <1>17 DEF BackupInv

LEMMA LogRestoreStep ==
  ASSUME BackupInv, NEW j \in Job, LogRestore(j)
  PROVE  BackupInv'
<1> DEFINE n == worker[j].from
           e == [name |-> n, kind |-> "restore", status |-> "running"]
           l == Len(runs) + 1
           a == IF Whole(n) THEN "start" ELSE "broken"
           f == IF Whole(n) THEN disk[n].data ELSE NoData
           w == [worker[j] EXCEPT !.log = l, !.at = a, !.from = f]
<1>1. /\ UNCHANGED <<disk, mutex, clock>> /\ worker[j].at = "log" /\ runs' = Append(runs, e)
  BY DEF LogRestore, backupCounts
<1>2. worker' = [worker EXCEPT ![j] = w] BY DEF LogRestore
<1>3. Shape /\ WorkInv(j) BY DEF BackupInv
<1>4. n \in FileName /\ worker[j].is = "restore" BY <1>1, <1>3 DEF WorkInv, Restores
<1>5. a \in {"start", "broken"} OBVIOUS
<1> HIDE DEF a, f, n
<1>6. e \in RunRecord /\ e.status = "running" /\ e.kind = "restore"
  BY <1>4 DEF RunRecord, Kinds, Works
<1> HIDE DEF e
<1>7. /\ runs' \in Seq(RunRecord) /\ NamesApart' /\ FilesKept' /\ LogKept
      /\ DOMAIN runs' = DOMAIN runs \cup {l} /\ runs'[l] = e /\ l \in Nat
      /\ \A i \in Job : worker'[i] = worker[i] => Spared(i)
  BY <1>1, <1>6, NewEntry
<1> HIDE DEF l
<1>8. PICK V : worker[j] \in WorkRecord(V) BY <1>3, WorkerOf DEF Shape
<1>9. w \in WorkRecord(V \cup {f}) BY <1>5, <1>7, <1>8 DEF WorkRecord, Places
<1>10. w.at = a /\ w.is = worker[j].is /\ w.log = l BY <1>8 DEF WorkRecord
<1> HIDE DEF w
<1>11. WorkShape' /\ worker'[j] = w /\ \A i \in Job : i # j => worker'[i] = worker[i]
  BY <1>2, <1>3, <1>9, WorkerChanges DEF Shape
<1>12. Restores(j)' BY <1>4, <1>5, <1>6, <1>7, <1>10, <1>11 DEF Restores
<1>13. WorkInv(j)'
  BY <1>1, <1>3, <1>5, <1>10, <1>11, <1>12 DEF WorkInv, Holds, OwnRun, BacksUp, Prunes
<1>14. Shape' BY <1>1, <1>3, <1>7, <1>11 DEF Shape
<1>15. \A i \in Job : WorkInv(i)' BY <1>3, <1>7, <1>11, <1>13, SparedKeeps DEF BackupInv
<1> QED BY <1>7, <1>14, <1>15 DEF BackupInv

\* A run ends: well only with its file, and as the last that is done.
LEMMA RunEnds ==
  ASSUME BackupInv, NEW t \in DOMAIN runs, NEW v \in {"ok", "failed"},
         runs' = [runs EXCEPT ![t].status = v], UNCHANGED <<disk, clock>>,
         runs[t].kind \in Protected =>
           /\ runs[t].status = "running"
           /\ \A r \in DOMAIN runs : Done(runs, r) => runs[r].name[1] < runs[t].name[1]
           /\ v = "ok" => runs[t].name[1] < clock /\ WholeIn(disk, runs[t].name)
  PROVE  /\ runs' \in Seq(RunRecord) /\ OtherStatus(runs, runs', t)
         /\ NamesApart' /\ FilesKept' /\ LogKept
         /\ runs[t].kind \notin Protected =>
              \A r \in DOMAIN runs : /\ Done(runs', r) => Done(runs, r)
                                     /\ runs[r].kind \in Protected => runs'[r].status = runs[r].status
<1>1. Shape /\ NamesApart /\ FilesKept BY DEF BackupInv
<1>2. runs' \in Seq(RunRecord) /\ OtherStatus(runs, runs', t) /\ runs'[t].status = v
  BY <1>1, StatusSet DEF Shape
<1>3. /\ DOMAIN runs' = DOMAIN runs
      /\ \A r \in DOMAIN runs : /\ runs'[r].name = runs[r].name /\ runs'[r].kind = runs[r].kind
                                /\ r # t => runs'[r].status = runs[r].status
  BY <1>2 DEF OtherStatus
<1>4. \A r \in DOMAIN runs : runs[r].kind \in Protected /\ Superseded(runs, r) => Superseded(runs', r)
  BY <1>1, <1>2, StatusStays DEF Shape
<1>5. \A r \in DOMAIN runs : /\ Done(runs, r) => Done(runs', r)
                             /\ Done(runs', r) /\ r # t => Done(runs, r)
                             /\ Done(runs', t) => runs[t].kind \in Protected /\ v = "ok"
  BY <1>2, <1>3 DEF Done
<1>6. LogKept BY <1>3, <1>4, <1>5 DEF LogKept
<1>7. \A r \in DOMAIN runs : runs[r].name[1] \in Nat
  BY <1>1, LogOf DEF Shape, RunRecord, FileName
<1>8. NamesApart'
  <2>1. \A r \in DOMAIN runs' : runs'[r].kind # "restore" => runs'[r].name[2] = runs'[r].kind
    BY <1>1, <1>3 DEF NamesApart
  <2>2. \A r \in DOMAIN runs' : Done(runs', r) => runs'[r].name[1] < clock'
    BY <1>1, <1>3, <1>5 DEF NamesApart
  <2>3. ASSUME NEW r \in DOMAIN runs', NEW s \in DOMAIN runs', Done(runs', r), Done(runs', s),
               runs'[r].name[1] = runs'[s].name[1], runs'[r].kind = runs'[s].kind
        PROVE  r = s
    <3>1. runs[r].name[1] = runs[s].name[1] /\ runs[r].kind = runs[s].kind BY <1>3, <2>3
    <3>2. CASE r = t /\ s # t
      <4>1. runs[s].name[1] < runs[t].name[1] BY <1>3, <1>5, <2>3, <3>2
      <4> QED BY <1>3, <1>7, <3>1, <3>2, <4>1
    <3>3. CASE r # t /\ s = t
      <4>1. runs[r].name[1] < runs[t].name[1] BY <1>3, <1>5, <2>3, <3>3
      <4> QED BY <1>3, <1>7, <3>1, <3>3, <4>1
    <3>4. CASE r # t /\ s # t BY <1>1, <1>3, <1>5, <2>3, <3>1, <3>4 DEF NamesApart
    <3> QED BY <3>2, <3>3, <3>4
  <2> QED BY <2>1, <2>2, <2>3 DEF NamesApart
<1>9. FilesKept'
  <2> SUFFICES ASSUME NEW r \in DOMAIN runs, runs[r].kind \in Protected, runs'[r].status = "ok"
               PROVE  WholeIn(disk, runs[r].name) \/ Superseded(runs', r)
    BY <1>3 DEF FilesKept
  <2>1. CASE r = t BY <1>2, <2>1
  <2>2. CASE r # t BY <1>1, <1>3, <1>4, <2>2 DEF FilesKept
  <2> QED BY <2>1, <2>2
<1>10. runs[t].kind \notin Protected =>
         \A r \in DOMAIN runs : /\ Done(runs', r) => Done(runs, r)
                                /\ runs[r].kind \in Protected => runs'[r].status = runs[r].status
  BY <1>3, <1>5
<1> QED BY <1>2, <1>6, <1>8, <1>9, <1>10

LEMMA FinishStep ==
  ASSUME BackupInv, NEW j \in Job, FinishRun(j)
  PROVE  BackupInv'
<1> DEFINE t == worker[j].run
           v == IF worker[j].at = "finish" THEN "ok" ELSE "failed"
<1>1. /\ UNCHANGED <<disk, clock>> /\ worker[j].at \in {"finish", "failed"}
      /\ runs' = [runs EXCEPT ![t].status = v]
  BY DEF FinishRun, backupCounts
<1>2. Shape /\ WorkInv(j) /\ mutex = j BY <1>1 DEF BackupInv, WorkInv, Holds
<1>3. /\ t \in DOMAIN runs /\ v \in {"ok", "failed"}
      /\ runs[t].kind \in Protected =>
           /\ runs[t].status = "running"
           /\ \A r \in DOMAIN runs : Done(runs, r) => runs[r].name[1] < runs[t].name[1]
           /\ v = "ok" => runs[t].name[1] < clock /\ WholeIn(disk, runs[t].name)
  BY <1>1, <1>2 DEF WorkInv, OwnRun, BacksUp
<1> HIDE DEF t, v
<1>4. runs' \in Seq(RunRecord) /\ OtherStatus(runs, runs', t) /\ NamesApart' /\ FilesKept' /\ LogKept
  BY <1>1, <1>3, RunEnds
<1>5. ASSUME NEW i \in Job, i # j, worker'[i] = worker[i] PROVE Spared(i)
  <2>1. ~BacksUp(i) BY <1>2, <1>5 DEF BackupInv, WorkInv, Holds, BacksUp
  <2>2. worker[i].at # "finish" BY <2>1 DEF BacksUp
  <2>3. mutex = i => mutex' = i BY <1>2, <1>5
  <2>4. clock' \in Nat /\ clock <= clock' BY <1>1, <1>2 DEF Shape
  <2> QED BY <1>5, <2>1, <2>2, <2>3, <2>4 DEF Spared
<1>6. ASSUME WorkShape', \A i \in Job : i # j => worker'[i] = worker[i], WorkInv(j)'
      PROVE  BackupInv'
  <2>1. Shape' BY <1>1, <1>2, <1>4, <1>6 DEF Shape
  <2>2. \A i \in Job : WorkInv(i)' BY <1>2, <1>4, <1>5, <1>6, SparedKeeps DEF BackupInv
  <2> QED BY <1>4, <2>1, <2>2 DEF BackupInv
<1>7. CASE worker[j].is = "restore"
  <2> DEFINE a == IF worker[j].at = "finish" THEN "database" ELSE "broken"
             w == [worker[j] EXCEPT !.run = 0, !.name = <<>>, !.at = a]
  <2>1. worker' = [worker EXCEPT ![j] = w] BY <1>7 DEF FinishRun
  <2>2. PICK V : worker[j] \in WorkRecord(V) BY <1>2, WorkerOf DEF Shape
  <2>3. a \in {"database", "broken"} OBVIOUS
  <2> HIDE DEF a
  <2>4. w \in WorkRecord(V \cup {<<>>}) BY <2>2, <2>3 DEF WorkRecord, Places
  <2>5. w.at = a /\ w.is = worker[j].is /\ w.log = worker[j].log BY <2>2 DEF WorkRecord
  <2> HIDE DEF w
  <2>6. WorkShape' /\ worker'[j] = w /\ \A i \in Job : i # j => worker'[i] = worker[i]
    BY <1>2, <2>1, <2>4, WorkerChanges DEF Shape
  <2>7. Restores(j)'
    BY <1>1, <1>2, <1>4, <1>7, <2>3, <2>5, <2>6 DEF WorkInv, Restores, LogKept
  <2>8. WorkInv(j)' BY <2>3, <2>5, <2>6, <2>7 DEF WorkInv, Holds, OwnRun, BacksUp, Prunes
  <2> QED BY <1>6, <2>6, <2>8
<1>8. CASE worker[j].is # "restore" /\ Leaves(j)
  <2>1. WorkShape' /\ worker'[j] = NoWorker /\ \A i \in Job : i # j => worker'[i] = worker[i]
    BY <1>2, <1>8, WorkerChanges, IdleWorker DEF Leaves, Shape
  <2>2. WorkInv(j)'
    BY <2>1, IdleWorker DEF WorkInv, Holds, OwnRun, BacksUp, Restores, Prunes
  <2> QED BY <1>6, <2>1, <2>2
<1>9. CASE worker[j].is \in {"scheduled", "update"} /\ At(j, "old")
  <2>1. /\ WorkShape' /\ \A i \in Job : i # j => worker'[i] = worker[i]
        /\ worker'[j].at = "old" /\ worker'[j].is = worker[j].is
    BY <1>2, <1>9, AtMoves DEF Shape, Places
  <2>2. WorkInv(j)'
    BY <1>9, <2>1 DEF WorkInv, Holds, OwnRun, BacksUp, Restores, Prunes, Protected
  <2> QED BY <1>6, <2>1, <2>2
<1> QED BY <1>7, <1>8, <1>9 DEF FinishRun

LEMMA LogRestoredStep ==
  ASSUME BackupInv, NEW j \in Job, LogRestored(j)
  PROVE  BackupInv'
<1> DEFINE t == worker[j].log
           v == IF worker[j].at = "restored" THEN "ok" ELSE "failed"
<1>1. /\ UNCHANGED <<disk, clock>> /\ worker[j].at \in {"restored", "broken"}
      /\ runs' = [runs EXCEPT ![t].status = v] /\ Unlock(j) /\ Leaves(j)
  BY DEF LogRestored, backupCounts
<1>2. Shape /\ WorkInv(j) BY DEF BackupInv
<1>3. t \in DOMAIN runs /\ v \in {"ok", "failed"} /\ runs[t].kind \notin Protected
  BY <1>1, <1>2 DEF WorkInv, Restores, Protected
<1> HIDE DEF t, v
<1>4. /\ runs' \in Seq(RunRecord) /\ OtherStatus(runs, runs', t)
      /\ NamesApart' /\ FilesKept' /\ LogKept
      /\ \A r \in DOMAIN runs : /\ Done(runs', r) => Done(runs, r)
                                /\ runs[r].kind \in Protected => runs'[r].status = runs[r].status
  BY <1>1, <1>3, RunEnds
<1>5. WorkShape' /\ worker'[j] = NoWorker /\ \A i \in Job : i # j => worker'[i] = worker[i]
  BY <1>1, <1>2, WorkerChanges, IdleWorker DEF Leaves, Shape
<1>6. WorkInv(j)'
  BY <1>5, IdleWorker DEF WorkInv, Holds, OwnRun, BacksUp, Restores, Prunes
<1>7. ASSUME NEW i \in Job, i # j PROVE Spared(i)
  <2>1. DOMAIN runs' = DOMAIN runs BY <1>4 DEF OtherStatus
  <2>2. BacksUp(i) => worker[i].run \in DOMAIN runs BY DEF BackupInv, WorkInv, OwnRun
  <2>3. mutex = i => mutex' = i BY <1>1, <1>7 DEF Unlock
  <2>4. clock' \in Nat /\ clock <= clock' BY <1>1, <1>2 DEF Shape
  <2> QED BY <1>1, <1>4, <1>5, <1>7, <2>1, <2>2, <2>3, <2>4 DEF Spared
<1>8. Shape' BY <1>1, <1>2, <1>4, <1>5 DEF Shape
<1>9. \A i \in Job : WorkInv(i)' BY <1>2, <1>4, <1>6, <1>7, SparedKeeps DEF BackupInv
<1> QED BY <1>4, <1>8, <1>9 DEF BackupInv

-----------------------------------------------------------------------------
(* The start, the restart, and all steps together                          *)

LEMMA RestartStep ==
  ASSUME BackupInv, Restart
  PROVE  BackupInv'
<1> DEFINE q == [r \in DOMAIN runs |->
                   IF runs[r].status = "running" THEN [runs[r] EXCEPT !.status = "failed"] ELSE runs[r]]
<1>1. UNCHANGED <<disk, clock>> /\ (runs' = q \/ runs' = runs)
  BY DEF Restart
<1>2. Shape /\ NamesApart /\ FilesKept BY DEF BackupInv
<1>3. \A r \in DOMAIN runs : runs[r] \in RunRecord BY <1>2, LogOf DEF Shape
<1>4. /\ runs' \in Seq(RunRecord) /\ DOMAIN runs' = DOMAIN runs
      /\ \A r \in DOMAIN runs : /\ runs'[r].name = runs[r].name /\ runs'[r].kind = runs[r].kind
                                /\ runs'[r].status = "ok" <=> runs[r].status = "ok"
                                /\ runs'[r].status = "gone" <=> runs[r].status = "gone"
  <2>1. CASE runs' = q
    <3>1. \A r \in DOMAIN runs : [runs[r] EXCEPT !.status = "failed"] \in RunRecord
      BY <1>3 DEF RunRecord
    <3>2. DOMAIN runs = 1..Len(runs) /\ Len(runs) \in Nat BY <1>2 DEF Shape
    <3>3. q \in [1..Len(runs) -> RunRecord] BY <1>3, <3>1, <3>2
    <3>4. q \in Seq(RunRecord) BY <3>2, <3>3
    <3>5. \A r \in DOMAIN runs : /\ q[r].name = runs[r].name /\ q[r].kind = runs[r].kind
                                 /\ q[r].status = "ok" <=> runs[r].status = "ok"
                                 /\ q[r].status = "gone" <=> runs[r].status = "gone"
      BY <1>3 DEF RunRecord
    <3> HIDE DEF q
    <3> QED BY <2>1, <3>2, <3>3, <3>4, <3>5
  <2>2. CASE runs' = runs BY <1>2, <2>2 DEF Shape
  <2> QED BY <1>1, <2>1, <2>2
<1>5. \A r \in DOMAIN runs : /\ Done(runs', r) <=> Done(runs, r)
                             /\ Superseded(runs', r) <=> Superseded(runs, r)
  <2>1. \A r \in DOMAIN runs : Later(runs', r) = Later(runs, r) BY <1>4 DEF Later
  <2> QED BY <1>4, <2>1 DEF Done, Superseded
<1>6. NamesApart'
  <2>1. \A r \in DOMAIN runs' : runs'[r].kind # "restore" => runs'[r].name[2] = runs'[r].kind
    BY <1>2, <1>4 DEF NamesApart
  <2>2. \A r \in DOMAIN runs' : Done(runs', r) => runs'[r].name[1] < clock'
    BY <1>1, <1>2, <1>4, <1>5 DEF NamesApart
  <2>3. \A r, s \in DOMAIN runs' :
          Done(runs', r) /\ Done(runs', s) /\ runs'[r].name[1] = runs'[s].name[1]
            /\ runs'[r].kind = runs'[s].kind => r = s
    BY <1>2, <1>4, <1>5 DEF NamesApart
  <2> QED BY <2>1, <2>2, <2>3 DEF NamesApart
<1>7. FilesKept' BY <1>1, <1>2, <1>4, <1>5 DEF FilesKept
<1>8. WorkShape' /\ \A j \in Job : WorkInv(j)'
  <2>1. CASE worker' = [i \in Job |-> NoWorker]
    <3>1. WorkShape' BY <2>1, IdleWorker DEF WorkShape
    <3>2. ASSUME NEW j \in Job PROVE WorkInv(j)'
      <4>1. worker'[j] = NoWorker BY <2>1
      <4> QED BY <4>1, IdleWorker DEF WorkInv, Holds, OwnRun, BacksUp, Restores, Prunes
    <3> QED BY <3>1, <3>2
  <2>2. ASSUME NEW j \in Job, mutex' = j,
               worker' = [i \in Job |-> IF i = j THEN [NoWorker EXCEPT !.is = "update", !.at = "start"]
                                        ELSE NoWorker]
        PROVE  WorkShape' /\ \A i \in Job : WorkInv(i)'
    <3> DEFINE w == [NoWorker EXCEPT !.is = "update", !.at = "start"]
    <3>1. w \in WorkRecord({<<>>}) BY IdleWorker DEF WorkRecord, Works, Places
    <3>2. w.is = "update" /\ w.at = "start" BY DEF NoWorker
    <3>3. \A i \in Job : worker'[i] = IF i = j THEN w ELSE NoWorker BY <2>2
    <3>4. worker' \in [Job -> WorkRecord({<<>>})]
      <4> HIDE DEF w
      <4>1. worker' = [i \in Job |-> IF i = j THEN w ELSE NoWorker] BY <2>2 DEF w
      <4> QED BY <3>1, <4>1, IdleWorker
    <3>5. WorkShape' BY <3>4 DEF WorkShape
    <3> HIDE DEF w
    <3>6. ASSUME NEW i \in Job, i # j PROVE WorkInv(i)'
      <4>1. worker'[i] = NoWorker BY <3>3, <3>6
      <4> QED BY <4>1, IdleWorker DEF WorkInv, Holds, OwnRun, BacksUp, Restores, Prunes
    <3>7. WorkInv(j)'
      <4>1. worker'[j] = w BY <3>3
      <4> QED BY <2>2, <3>2, <4>1 DEF WorkInv, Holds, OwnRun, BacksUp, Restores, Prunes
    <3> QED BY <3>5, <3>6, <3>7
  <2> QED BY <2>1, <2>2 DEF Restart
<1>9. Shape' BY <1>1, <1>2, <1>4, <1>8 DEF Shape
<1> QED BY <1>6, <1>7, <1>8, <1>9 DEF BackupInv

LEMMA StartInv == BackupInit => BackupInv
<1> SUFFICES ASSUME BackupInit PROVE BackupInv OBVIOUS
<1> DEFINE e == [name |-> <<0, "manual">>, kind |-> "manual", status |-> "ok"]
<1>1. clock = 1 /\ worker = [j \in Job |-> NoWorker] /\ (runs = <<>> \/ runs = <<e>>)
  BY DEF BackupInit
<1>2. <<0, "manual">> \in FileName BY DEF FileName, Kinds, Works
<1>3. e \in RunRecord BY <1>2 DEF RunRecord, Kinds, Works
<1>4. e.name[1] = 0 /\ e.name[2] = "manual" /\ e.kind = "manual" OBVIOUS
<1> HIDE DEF e
<1>5. runs \in Seq(RunRecord) /\ \A r \in DOMAIN runs : runs[r] = e
  <2>1. <<>> \in Seq(RunRecord) /\ DOMAIN <<>> = {} OBVIOUS
  <2>2. <<e>> \in Seq(RunRecord) /\ \A r \in DOMAIN <<e>> : <<e>>[r] = e BY <1>3
  <2> QED BY <1>1, <2>1, <2>2
<1>6. NamesApart /\ FilesKept BY <1>4, <1>5 DEF NamesApart, FilesKept, Done, Protected
<1>7. WorkShape BY <1>1, IdleWorker DEF WorkShape
<1>8. \A j \in Job : WorkInv(j)
  BY <1>1, IdleWorker DEF WorkInv, Holds, OwnRun, BacksUp, Restores, Prunes
<1> QED BY <1>1, <1>5, <1>6, <1>7, <1>8 DEF BackupInv, Shape

LEMMA StandsStill == ASSUME BackupInv, UNCHANGED backupVars PROVE BackupInv'
<1>1. UNCHANGED <<runs, disk, clock, mutex, worker>> BY DEF backupVars, backupCounts
<1>2. Shape' /\ NamesApart' /\ FilesKept' /\ LogKept
  BY <1>1 DEF BackupInv, Shape, WorkShape, NamesApart, FilesKept, LogKept
<1>3. \A j \in Job : Spared(j) BY <1>1 DEF Spared, BackupInv, Shape
<1>4. \A j \in Job : WorkInv(j)' BY <1>2, <1>3, SparedKeeps DEF BackupInv
<1> QED BY <1>2, <1>4 DEF BackupInv

LEMMA KeepsInv ==
  ASSUME Slow, DeletesOther
  PROVE  BackupInv /\ [BackupNext]_backupVars => BackupInv'
<1> SUFFICES ASSUME BackupInv, [BackupNext]_backupVars PROVE BackupInv'
  OBVIOUS
<1>1. CASE UNCHANGED backupVars BY <1>1, StandsStill
<1>2. CASE Restart BY <1>2, RestartStep
<1>3. CASE UserWrites \/ Second BY <1>3, WritesStep
<1>4. ASSUME NEW j \in Job, WriteFails(j) PROVE BackupInv'
  BY <1>4, FailStep DEF WriteFails
<1>5. ASSUME NEW j \in Job, Pruned(j) PROVE BackupInv'
  BY <1>5, Leave DEF Pruned, backupCounts
<1>6. ASSUME NEW j \in Job,
             \/ Asked(j) \/ Lock(j) \/ StartRun(j) \/ OpenPart(j) \/ Rename(j) \/ FinishRun(j)
             \/ ListOld(j) \/ RemoveFile(j) \/ RemoveEntry(j)
             \/ LogRestore(j) \/ RestoreDatabase(j) \/ RestoreFiles(j) \/ RestoreFails(j)
             \/ LogRestored(j)
      PROVE  BackupInv'
  BY <1>6, AskedStep, LockStep, StartStep, OpenStep, RenameStep, FinishStep, ListStep,
     RemoveFileStep, RemoveEntryStep, LogRestoreStep, RestoreStep, LogRestoredStep
<1> QED BY <1>1, <1>2, <1>3, <1>4, <1>5, <1>6 DEF BackupNext

LEMMA InvHolds ==
  ASSUME Slow, DeletesOther
  PROVE  BackupSpec => []BackupInv
  BY StartInv, KeepsInv, PTL DEF BackupSpec

-----------------------------------------------------------------------------
(* What pruning leaves                                                     *)

(* For any number of goroutines, any number of backups to keep, and        *)
(* whatever fails or starts again: the newest backups of the schedule and  *)
(* those before an update are on disk and whole, as long as a backup takes *)
(* longer than the second its name is made of and the administrator        *)
(* deletes none of them (pruneScheduleBackups, pruneUpdateBackups).        *)
THEOREM NewestStay ==
  ASSUME Slow, DeletesOther
  PROVE  BackupSpec => []KeptOnDisk
<1>1. BackupInv => KeptOnDisk
  <2> SUFFICES ASSUME BackupInv, NEW kind \in {"scheduled", "update"}, NEW r \in Newest(kind)
               PROVE  Whole(runs[r].name)
    BY DEF KeptOnDisk
  <2> DEFINE ok == {s \in DOMAIN runs : runs[s].kind = kind /\ runs[s].status = "ok"}
  <2>1. r \in ok /\ Cardinality({s \in ok : s > r}) < Keep BY DEF Newest
  <2>2. Later(runs, r) = {s \in ok : s > r} BY <2>1 DEF Later
  <2>3. Cardinality(Later(runs, r)) \in Nat
    <3>1. Later(runs, r) \subseteq DOMAIN runs BY DEF Later
    <3>2. IsFiniteSet(DOMAIN runs) BY LogOf DEF BackupInv, Shape
    <3> QED BY <3>1, <3>2, FS_Subset, FS_CardinalityType
  <2>4. ~Superseded(runs, r) BY <2>1, <2>2, <2>3, BackupAssumption DEF Superseded
  <2>5. WholeIn(disk, runs[r].name) BY <2>1, <2>4 DEF BackupInv, FilesKept, Protected
  <2> QED BY <2>5 DEF WholeIn, Whole
<1> QED BY <1>1, InvHolds, PTL

-----------------------------------------------------------------------------
(* The copy of what a restoration replaces                                 *)

\* A copy of database v, with its files or younger ones.
CopyIn(d, v) ==
  \E n \in DOMAIN d :
    n[2] = "safety" /\ WholeIn(d, n) /\ d[n].data.db = v.db /\ d[n].data.files >= v.files

\* The next change of a user is younger than files v.
Dated(v) == v.files \in Int /\ v.files < writes + 2

FilesDated == \A n \in DOMAIN disk : WholeIn(disk, n) => Dated(disk[n].data)

\* A restoration holds the mutex to its end, writes its copy under a name of
\* its own, and has it before it replaces anything; who deletes leaves copies.
Careful(j) ==
  /\ worker[j].is = "restore" =>
       /\ mutex = j
       /\ worker[j].at \in {"open", "rename"} =>
            worker[j].since = worker[j].name[1] /\ worker[j].name \notin DOMAIN disk
       /\ worker[j].at = "rename" =>
            worker[j].held.files \in Int /\ data.files >= worker[j].held.files
       /\ worker[j].at \in {"finish", "database"} => CopyIn(disk, worker[j].held)
       /\ worker[j].at \notin {"log", "broken"} => Dated(worker[j].from)
  /\ worker[j].is = "delete" /\ worker[j].at \in {"prune", "entry"} =>
       \A r \in worker[j].todo : runs[r].kind # "safety"

CopyInv ==
  /\ data = Version(data.db, data.files) /\ writes \in Nat /\ Dated(data) /\ FilesDated
  /\ before # NoData => CopyIn(disk, before)
  /\ \A n \in DOMAIN disk : n[2] = "safety" => n[1] \in Nat /\ n[1] < clock
  /\ \A j \in Job : Careful(j)

\* No copy comes, goes or changes.
CopiesSame ==
  \A n : n[2] = "safety" => /\ n \in DOMAIN disk' <=> n \in DOMAIN disk
                            /\ n \in DOMAIN disk => disk'[n] = disk[n]

KindsSame == \A r \in DOMAIN runs : runs'[r].kind = runs[r].kind

LEMMA CopyStays == ASSUME CopiesSame, NEW v, CopyIn(disk, v) PROVE CopyIn(disk', v)
<1>1. PICK n \in DOMAIN disk : /\ n[2] = "safety" /\ WholeIn(disk, n)
                             /\ disk[n].data.db = v.db /\ disk[n].data.files >= v.files
  BY DEF CopyIn
<1>2. n \in DOMAIN disk' /\ disk'[n] = disk[n] BY <1>1 DEF CopiesSame
<1> QED BY <1>1, <1>2 DEF CopyIn, WholeIn

\* The file of a run has the name of its kind.
LEMMA NameOfRun ==
  ASSUME BackupInv, NEW j \in Job, BacksUp(j)
  PROVE  worker[j].name \in FileName /\ worker[j].name[2] = Kind(j)
<1>1. PICK V : worker[j] \in WorkRecord(V) BY WorkerOf DEF BackupInv, Shape
<1>2. Kind(j) # "restore" BY DEF Kind
<1>3. /\ worker[j].run \in DOMAIN runs
      /\ runs[worker[j].run].kind = Kind(j) /\ runs[worker[j].run].name = worker[j].name
  BY DEF BackupInv, WorkInv, OwnRun
<1>4. runs[worker[j].run] \in RunRecord BY <1>3, LogOf DEF BackupInv, Shape
<1> QED BY <1>2, <1>3, <1>4 DEF BackupInv, NamesApart, RunRecord

LEMMA KindIsCopy ==
  ASSUME BackupInv, NEW j \in Job
  PROVE  Kind(j) = "safety" <=> worker[j].is = "restore"
<1>1. PICK V : worker[j] \in WorkRecord(V) BY WorkerOf DEF BackupInv, Shape
<1> QED BY <1>1 DEF Kind, WorkRecord, Works

\* Who stands still stays careful.
LEMMA OthersCareful ==
  ASSUME BackupInv, NEW i \in Job, Careful(i), worker'[i] = worker[i], mutex = i => mutex' = i,
         KindsSame, worker[i].is # "restore" \/ (CopiesSame /\ UNCHANGED <<data, writes>>)
  PROVE  Careful(i)'
<1>1. worker[i].is = "delete" /\ worker[i].at \in {"prune", "entry"} =>
        \A r \in worker[i].todo : runs'[r].kind # "safety"
  BY DEF BackupInv, WorkInv, Prunes, Doomed, Careful, KindsSame
<1>2. CASE worker[i].is # "restore" BY <1>1, <1>2 DEF Careful
<1>3. CASE worker[i].is = "restore" /\ CopiesSame /\ UNCHANGED <<data, writes>>
  <2>1. worker[i].at \in {"open", "rename"} => worker[i].name \notin DOMAIN disk'
    <3>1. worker[i].at \in {"open", "rename"} => worker[i].name[2] = "safety"
      BY <1>3, NameOfRun, KindIsCopy DEF BacksUp
    <3> QED BY <1>3, <3>1 DEF Careful, CopiesSame
  <2>2. worker[i].at \in {"finish", "database"} => CopyIn(disk', worker[i].held)
    BY <1>3, CopyStays DEF Careful
  <2> QED BY <1>1, <1>3, <2>1, <2>2 DEF Careful, Dated
<1> QED BY <1>2, <1>3

\* A step of one goroutine that changes neither data nor copies.
LEMMA CopyMove ==
  ASSUME BackupInv, CopyInv, NEW j \in Job, CopiesSame, FilesDated', KindsSame,
         UNCHANGED <<data, before, clock, writes>>,
         \A i \in Job : i # j => worker'[i] = worker[i] /\ (mutex = i => mutex' = i),
         Careful(j)'
  PROVE  CopyInv'
<1>1. \A i \in Job : i # j => Careful(i)' BY OthersCareful DEF CopyInv
<1>2. \A n \in DOMAIN disk' : n[2] = "safety" => n[1] \in Nat /\ n[1] < clock'
  BY DEF CopyInv, CopiesSame
<1>3. before' # NoData => CopyIn(disk', before') BY CopyStays DEF CopyInv
<1>4. data' = Version(data'.db, data'.files) /\ writes' \in Nat /\ Dated(data)' BY DEF CopyInv, Dated
<1> QED BY <1>1, <1>2, <1>3, <1>4 DEF CopyInv

LEMMA DiskSame ==
  ASSUME FilesDated, UNCHANGED <<disk, writes>>
  PROVE  CopiesSame /\ FilesDated'
  BY DEF CopiesSame, FilesDated, Dated, WholeIn

LEMMA StatusOnly ==
  ASSUME BackupInv, NEW t \in DOMAIN runs, NEW v, runs' = [runs EXCEPT ![t].status = v]
  PROVE  KindsSame
<1>1. \A r \in DOMAIN runs : runs[r] \in RunRecord BY LogOf DEF BackupInv, Shape
<1>2. [runs[t] EXCEPT !.status = v].kind = runs[t].kind BY <1>1 DEF RunRecord
<1>3. \A r \in DOMAIN runs : r # t => runs'[r] = runs[r] OBVIOUS
<1>4. runs'[t] = [runs[t] EXCEPT !.status = v] OBVIOUS
<1> QED BY <1>2, <1>3, <1>4 DEF KindsSame

\* Who does neither restore nor delete has nothing to keep.
LEMMA NothingToKeep ==
  ASSUME NEW j, worker[j].is \notin {"restore", "delete"}
  PROVE  Careful(j)
  BY DEF Careful

-----------------------------------------------------------------------------
(* Every step keeps the copy                                               *)

LEMMA AskedCopy ==
  ASSUME BackupInv, CopyInv, "safety" \notin Deletable, NEW j \in Job, Asked(j)
  PROVE  CopyInv'
<1>1. UNCHANGED <<data, before, disk, runs, clock, writes>> /\ worker[j].at = "idle"
  BY DEF Asked, backupCounts
<1>2. CopiesSame /\ FilesDated' /\ KindsSame BY <1>1, DiskSame DEF CopyInv, KindsSame
<1>3. PICK W : worker \in [Job -> WorkRecord(W)] BY DEF BackupInv, Shape, WorkShape
<1>4. worker[j] \in WorkRecord(W) BY <1>3
<1>5. CASE /\ mutex = Unlocked /\ mutex' = j
           /\ worker' = [worker EXCEPT ![j].is = "manual", ![j].at = "start"]
  <2>1. worker'[j].is = "manual" /\ \A i \in Job : i # j => worker'[i] = worker[i]
    BY <1>3, <1>4, <1>5 DEF WorkRecord
  <2> QED BY <1>1, <1>2, <1>5, <2>1, CopyMove, BackupAssumption DEF Careful
<1>6. CASE /\ worker' = [worker EXCEPT ![j].is = "scheduled", ![j].at = "lock"]
           /\ UNCHANGED mutex
  <2>1. worker'[j].is = "scheduled" /\ \A i \in Job : i # j => worker'[i] = worker[i]
    BY <1>3, <1>4, <1>6 DEF WorkRecord
  <2> QED BY <1>1, <1>2, <1>6, <2>1, CopyMove DEF Careful
<1>7. ASSUME mutex = Unlocked, mutex' = j, NEW r \in DOMAIN runs,
             worker' = [worker EXCEPT ![j].is = "restore", ![j].at = "log", ![j].from = runs[r].name]
      PROVE  CopyInv'
  <2>1. /\ worker'[j].is = "restore" /\ worker'[j].at = "log"
        /\ \A i \in Job : i # j => worker'[i] = worker[i]
    BY <1>3, <1>4, <1>7 DEF WorkRecord
  <2> QED BY <1>1, <1>2, <1>7, <2>1, CopyMove, BackupAssumption DEF Careful
<1>8. ASSUME NEW r \in DOMAIN runs, runs[r].kind \in Deletable, UNCHANGED mutex,
             worker' = [worker EXCEPT ![j].is = "delete", ![j].at = "prune", ![j].todo = {r}]
      PROVE  CopyInv'
  <2>1. /\ worker'[j].is = "delete" /\ worker'[j].todo = {r}
        /\ \A i \in Job : i # j => worker'[i] = worker[i]
    BY <1>3, <1>4, <1>8 DEF WorkRecord
  <2>2. Careful(j)' BY <1>1, <1>8, <2>1 DEF Careful
  <2> QED BY <1>1, <1>2, <1>8, <2>1, <2>2, CopyMove
<1> QED BY <1>5, <1>6, <1>7, <1>8 DEF Asked

LEMMA LockCopy ==
  ASSUME BackupInv, CopyInv, NEW j \in Job, Lock(j)
  PROVE  CopyInv'
<1>1. /\ UNCHANGED <<data, before, disk, runs, clock, writes>> /\ mutex = Unlocked /\ mutex' = j
      /\ worker[j].at = "lock" /\ At(j, "start")
  BY DEF Lock, backupCounts
<1>2. CopiesSame /\ FilesDated' /\ KindsSame BY <1>1, DiskSame DEF CopyInv, KindsSame
<1>3. /\ \A i \in Job : i # j => worker'[i] = worker[i]
      /\ worker'[j].at = "start" /\ worker'[j].is = worker[j].is
  BY <1>1, AtMoves DEF BackupInv, Shape, Places
<1>4. Careful(j)'
  <2>1. worker[j].is # "restore" BY <1>1, BackupAssumption DEF CopyInv, Careful
  <2> QED BY <1>1, <1>3, <2>1 DEF Careful
<1> QED BY <1>1, <1>2, <1>3, <1>4, CopyMove, BackupAssumption

LEMMA StartRunCopy ==
  ASSUME BackupInv, CopyInv, NEW j \in Job, StartRun(j)
  PROVE  CopyInv'
<1> DEFINE nm == <<clock, Kind(j)>>
           e == [name |-> nm, kind |-> Kind(j), status |-> "running"]
<1>1. /\ UNCHANGED <<data, before, disk, mutex, clock, writes>> /\ worker[j].at = "start"
      /\ runs' = Append(runs, e)
      /\ worker' = [worker EXCEPT ![j].at = "open", ![j].run = Len(runs) + 1,
                                  ![j].name = nm, ![j].since = clock]
  BY DEF StartRun, backupCounts
<1> HIDE DEF e
<1>2. CopiesSame /\ FilesDated' BY <1>1, DiskSame DEF CopyInv
<1>3. KindsSame BY <1>1 DEF KindsSame, BackupInv, Shape
<1>4. PICK W : worker \in [Job -> WorkRecord(W)] BY DEF BackupInv, Shape, WorkShape
<1>5. worker[j] \in WorkRecord(W) BY <1>4
<1> HIDE DEF nm
<1>6. /\ worker'[j].at = "open" /\ worker'[j].is = worker[j].is
      /\ worker'[j].name = nm /\ worker'[j].since = clock
      /\ worker'[j].from = worker[j].from
      /\ \A i \in Job : i # j => worker'[i] = worker[i]
  BY <1>1, <1>4, <1>5 DEF WorkRecord
<1>7. ASSUME worker[j].is = "restore" PROVE nm[1] = clock /\ nm \notin DOMAIN disk
  <2>1. nm = <<clock, "safety">> BY <1>7, KindIsCopy DEF nm
  <2>2. nm[1] = clock /\ nm[2] = "safety" BY <2>1
  <2>3. clock \in Nat BY DEF BackupInv, Shape
  <2> QED BY <2>2, <2>3 DEF CopyInv
<1>8. Careful(j)' BY <1>1, <1>6, <1>7 DEF CopyInv, Careful, Dated
<1> QED BY <1>1, <1>2, <1>3, <1>6, <1>8, CopyMove

LEMMA FailCopy ==
  ASSUME BackupInv, CopyInv, NEW j \in Job, NEW a \in {"failed", "broken"}, At(j, a),
         worker[j].at \notin {"log", "broken"},
         UNCHANGED <<data, before, disk, runs, clock, mutex, writes>>
  PROVE  CopyInv'
<1>1. CopiesSame /\ FilesDated' /\ KindsSame BY DiskSame DEF CopyInv, KindsSame
<1>2. /\ \A i \in Job : i # j => worker'[i] = worker[i]
      /\ worker'[j].at = a /\ worker'[j].is = worker[j].is /\ worker'[j].from = worker[j].from
  BY AtMoves DEF BackupInv, Shape, Places
<1>3. Careful(j)' BY <1>2 DEF CopyInv, Careful, Dated
<1> QED BY <1>1, <1>2, <1>3, CopyMove

LEMMA OpenCopy ==
  ASSUME BackupInv, CopyInv, NEW j \in Job, OpenPart(j)
  PROVE  CopyInv'
<1>1. UNCHANGED <<data, before, disk, runs, clock, mutex, writes>> /\ worker[j].at = "open"
  BY DEF OpenPart, backupCounts
<1>2. CASE At(j, "failed") BY <1>1, <1>2, FailCopy
<1>3. CASE worker' = [worker EXCEPT ![j].at = "rename", ![j].held = data]
  <2>1. PICK W : worker \in [Job -> WorkRecord(W)] BY DEF BackupInv, Shape, WorkShape
  <2>2. worker[j] \in WorkRecord(W) BY <2>1
  <2>3. data.files \in Int BY DEF CopyInv, Dated
  <2>4. /\ worker'[j].at = "rename" /\ worker'[j].is = worker[j].is /\ worker'[j].held = data
        /\ worker'[j].from = worker[j].from
        /\ worker'[j].name = worker[j].name /\ worker'[j].since = worker[j].since
        /\ \A i \in Job : i # j => worker'[i] = worker[i]
    BY <1>3, <2>1, <2>2 DEF WorkRecord
  <2>5. Careful(j) BY DEF CopyInv
  <2>6. Careful(j)' BY <1>1, <2>3, <2>4, <2>5 DEF Careful, Dated
  <2>7. CopiesSame /\ FilesDated' /\ KindsSame BY <1>1, DiskSame DEF CopyInv, KindsSame
  <2> QED BY <1>1, <2>4, <2>6, <2>7, CopyMove
<1> QED BY <1>2, <1>3 DEF OpenPart

\* The copy of a restoration takes its name; other backups have other names.
LEMMA RenameCopy ==
  ASSUME BackupInv, CopyInv, Slow, NEW j \in Job, Rename(j)
  PROVE  CopyInv'
<1> DEFINE n == worker[j].name
           v == [is |-> "whole", data |-> Version(worker[j].held.db, data.files)]
<1>1. /\ UNCHANGED <<data, before, runs, mutex, clock, writes>> /\ worker[j].at = "rename"
      /\ clock > worker[j].since /\ disk' = Put(disk, n, v)
      /\ worker' = [worker EXCEPT ![j].at = "finish", ![j].since = 0]
  BY DEF Rename, backupCounts
<1>2. PICK W : worker \in [Job -> WorkRecord(W)] BY DEF BackupInv, Shape, WorkShape
<1>3. worker[j] \in WorkRecord(W) BY <1>2
<1>4. /\ worker'[j].at = "finish" /\ worker'[j].is = worker[j].is
      /\ worker'[j].held = worker[j].held /\ worker'[j].from = worker[j].from
      /\ \A i \in Job : i # j => worker'[i] = worker[i]
  BY <1>1, <1>2, <1>3 DEF WorkRecord
<1>5. n \in FileName /\ n[2] = Kind(j) /\ (n[2] = "safety" <=> worker[j].is = "restore")
  BY <1>1, NameOfRun, KindIsCopy DEF BacksUp
<1>6. KindsSame BY <1>1 DEF KindsSame
<1>7. /\ v.is = "whole" /\ v.data.db = worker[j].held.db /\ v.data.files = data.files
      /\ worker[j].is = "restore" => v.data.files >= worker[j].held.files
  BY <1>1 DEF CopyInv, Careful, Version
<1> HIDE DEF n, v
<1>8. /\ DOMAIN disk' = DOMAIN disk \cup {n} /\ disk'[n] = v
      /\ \A m \in DOMAIN disk : m # n => disk'[m] = disk[m]
  BY <1>1 DEF Put
<1>9. FilesDated' BY <1>1, <1>7, <1>8 DEF CopyInv, FilesDated, Dated, WholeIn
<1>10. CASE worker[j].is # "restore"
  <2>1. CopiesSame BY <1>5, <1>8, <1>10 DEF CopiesSame
  <2>2. Careful(j)' BY <1>4, <1>10 DEF Careful
  <2> QED BY <1>1, <1>4, <1>6, <1>9, <2>1, <2>2, CopyMove
<1>11. CASE worker[j].is = "restore"
  <2>1. n \notin DOMAIN disk /\ worker[j].since = n[1] /\ mutex = j
    BY <1>1, <1>11 DEF CopyInv, Careful, n
  <2>2. CopyIn(disk', worker[j].held) BY <1>5, <1>7, <1>8, <1>11 DEF CopyIn, WholeIn
  <2>3. before # NoData => CopyIn(disk', before)
    <3> SUFFICES ASSUME CopyIn(disk, before) PROVE CopyIn(disk', before) BY DEF CopyInv
    <3>1. PICK m \in DOMAIN disk : /\ m[2] = "safety" /\ WholeIn(disk, m)
                                   /\ disk[m].data.db = before.db /\ disk[m].data.files >= before.files
      BY DEF CopyIn
    <3>2. m \in DOMAIN disk' /\ disk'[m] = disk[m] BY <1>8, <2>1, <3>1
    <3> QED BY <3>1, <3>2 DEF CopyIn, WholeIn
  <2>4. \A m \in DOMAIN disk' : m[2] = "safety" => m[1] \in Nat /\ m[1] < clock'
    <3>1. n[1] \in Nat BY <1>5 DEF FileName
    <3>2. n[1] < clock' BY <1>1, <2>1, <3>1 DEF BackupInv, Shape
    <3> QED BY <1>1, <1>8, <3>1, <3>2 DEF CopyInv
  <2>5. \A i \in Job : i # j => Careful(i)'
    <3> SUFFICES ASSUME NEW i \in Job, i # j PROVE Careful(i)' OBVIOUS
    <3>1. worker[i].is # "restore" BY <2>1 DEF CopyInv, Careful
    <3> QED BY <1>1, <1>4, <1>6, <3>1, OthersCareful DEF CopyInv
  <2>6. Careful(j)' BY <1>1, <1>4, <1>11, <2>1, <2>2 DEF CopyInv, Careful, Dated
  <2> QED BY <1>1, <1>9, <2>3, <2>4, <2>5, <2>6 DEF CopyInv, Dated
<1> QED BY <1>10, <1>11

LEMMA LeaveCopy ==
  ASSUME BackupInv, CopyInv, NEW j \in Job, Leaves(j), KindsSame,
         UNCHANGED <<data, before, disk, clock, writes>>, mutex' = mutex \/ Unlock(j)
  PROVE  CopyInv'
<1>1. worker'[j] = NoWorker /\ \A i \in Job : i # j => worker'[i] = worker[i]
  BY WorkerChanges, IdleWorker DEF Leaves, BackupInv, Shape
<1>2. \A i \in Job : i # j /\ mutex = i => mutex' = i BY DEF Unlock
<1>3. Careful(j)' BY <1>1, IdleWorker DEF Careful
<1> QED BY <1>1, <1>2, <1>3, CopyMove, DiskSame DEF CopyInv

LEMMA FinishCopy ==
  ASSUME BackupInv, CopyInv, NEW j \in Job, FinishRun(j)
  PROVE  CopyInv'
<1> DEFINE t == worker[j].run
           v == IF worker[j].at = "finish" THEN "ok" ELSE "failed"
<1>1. /\ UNCHANGED <<data, before, disk, clock, writes>> /\ worker[j].at \in {"finish", "failed"}
      /\ runs' = [runs EXCEPT ![t].status = v]
  BY DEF FinishRun, backupCounts
<1>2. t \in DOMAIN runs BY <1>1 DEF BackupInv, WorkInv, OwnRun, BacksUp
<1> HIDE DEF t, v
<1>3. KindsSame /\ CopiesSame /\ FilesDated' BY <1>1, <1>2, StatusOnly, DiskSame DEF CopyInv
<1>4. PICK W : worker \in [Job -> WorkRecord(W)] BY DEF BackupInv, Shape, WorkShape
<1>5. worker[j] \in WorkRecord(W) BY <1>4
<1>6. CASE worker[j].is = "restore"
  <2>1. UNCHANGED mutex
        /\ worker' = [worker EXCEPT ![j].run = 0, ![j].name = <<>>,
                        ![j].at = IF @ = "finish" THEN "database" ELSE "broken"]
    BY <1>6 DEF FinishRun
  <2>2. /\ worker'[j].is = "restore" /\ worker'[j].held = worker[j].held
        /\ worker'[j].from = worker[j].from
        /\ worker'[j].at = IF worker[j].at = "finish" THEN "database" ELSE "broken"
        /\ \A i \in Job : i # j => worker'[i] = worker[i]
    BY <1>4, <1>5, <1>6, <2>1 DEF WorkRecord
  <2>3. Careful(j) BY DEF CopyInv
  <2>4. Careful(j)' BY <1>1, <1>6, <2>1, <2>2, <2>3 DEF Careful, Dated
  <2> QED BY <1>1, <1>3, <2>1, <2>2, <2>4, CopyMove
<1>7. CASE Unlock(j) /\ Leaves(j) BY <1>1, <1>3, <1>7, LeaveCopy
<1>8. CASE worker[j].is \in {"scheduled", "update"} /\ Unlock(j) /\ At(j, "old")
  <2>1. /\ \A i \in Job : i # j => worker'[i] = worker[i]
        /\ worker'[j].is = worker[j].is
    BY <1>8, AtMoves DEF BackupInv, Shape, Places
  <2>2. \A i \in Job : i # j /\ mutex = i => mutex' = i BY <1>8 DEF Unlock
  <2>3. Careful(j)' BY <1>8, <2>1 DEF Careful
  <2> QED BY <1>1, <1>3, <2>1, <2>2, <2>3, CopyMove
<1> QED BY <1>6, <1>7, <1>8 DEF FinishRun

LEMMA ListCopy ==
  ASSUME BackupInv, CopyInv, NEW j \in Job, ListOld(j)
  PROVE  CopyInv'
<1> DEFINE old == {r \in DOMAIN runs : runs[r].kind = worker[j].is /\ runs[r].status = "ok"}
                    \ Newest(worker[j].is)
<1>1. /\ UNCHANGED <<data, before, disk, runs, mutex, clock, writes>> /\ worker[j].at = "old"
      /\ worker' = [worker EXCEPT ![j].at = "prune", ![j].todo = old]
  BY DEF ListOld, backupCounts
<1> HIDE DEF old
<1>2. worker[j].is \in Protected BY <1>1 DEF BackupInv, WorkInv, Prunes
<1>3. PICK W : worker \in [Job -> WorkRecord(W)] BY DEF BackupInv, Shape, WorkShape
<1>4. worker[j] \in WorkRecord(W) BY <1>3
<1>5. worker'[j].is = worker[j].is /\ \A i \in Job : i # j => worker'[i] = worker[i]
  BY <1>1, <1>3, <1>4 DEF WorkRecord
<1>6. Careful(j)' BY <1>2, <1>5 DEF Careful, Protected
<1> QED BY <1>1, <1>5, <1>6, CopyMove, DiskSame DEF CopyInv, KindsSame

\* What is removed is no copy.
LEMMA RemoveFileCopy ==
  ASSUME BackupInv, CopyInv, NEW j \in Job, RemoveFile(j)
  PROVE  CopyInv'
<1>1. UNCHANGED <<data, before, runs, mutex, clock, writes>> /\ worker[j].at = "prune"
  BY DEF RemoveFile, backupCounts
<1>2. PICK r \in worker[j].todo :
        /\ disk' = IF worker[j].is = "delete"
                   THEN Put(disk, runs[r].name, [is |-> "deleted"])
                   ELSE Without(disk, runs[r].name)
        /\ worker' = [worker EXCEPT ![j].at = "entry", ![j].run = r]
  BY DEF RemoveFile
<1>3. Doomed(j, r) BY <1>1, <1>2 DEF BackupInv, WorkInv, Prunes
<1>4. runs[r].kind \notin {"restore", "safety"} /\ r \in DOMAIN runs
  <2>1. CASE worker[j].is = "delete"
    BY <1>1, <1>2, <1>3, <2>1 DEF Doomed, CopyInv, Careful
  <2>2. CASE worker[j].is # "delete" BY <1>3, <2>2 DEF Doomed, Done, Protected
  <2> QED BY <2>1, <2>2
<1>5. runs[r].name[2] # "safety" BY <1>4 DEF BackupInv, NamesApart
<1>6. CopiesSame
  <2>1. ASSUME NEW n, n[2] = "safety"
        PROVE  /\ n \in DOMAIN disk' <=> n \in DOMAIN disk
               /\ n \in DOMAIN disk => disk'[n] = disk[n]
    <3>1. n # runs[r].name BY <1>5, <2>1
    <3> QED BY <1>2, <3>1 DEF Put, Without
  <2> QED BY <2>1 DEF CopiesSame
<1>7. FilesDated'
  <2>1. \A m : WholeIn(disk', m) => WholeIn(disk, m) /\ disk'[m] = disk[m]
    BY <1>2 DEF Put, Without, WholeIn
  <2> QED BY <1>1, <2>1 DEF CopyInv, FilesDated, Dated, WholeIn
<1>8. PICK W : worker \in [Job -> WorkRecord(W)] BY DEF BackupInv, Shape, WorkShape
<1>9. worker[j] \in WorkRecord(W) BY <1>8
<1>10. /\ worker'[j].is = worker[j].is /\ worker'[j].at = "entry" /\ worker'[j].todo = worker[j].todo
       /\ worker'[j].from = worker[j].from
       /\ \A i \in Job : i # j => worker'[i] = worker[i]
  BY <1>2, <1>8, <1>9 DEF WorkRecord
<1>11. Careful(j) BY DEF CopyInv
<1>12. Careful(j)' BY <1>1, <1>10, <1>11 DEF Careful, Dated
<1> QED BY <1>1, <1>6, <1>10, <1>12, <1>7, CopyMove DEF KindsSame

LEMMA RemoveEntryCopy ==
  ASSUME BackupInv, CopyInv, NEW j \in Job, RemoveEntry(j)
  PROVE  CopyInv'
<1> DEFINE t == worker[j].run
<1>1. /\ UNCHANGED <<data, before, disk, mutex, clock, writes>> /\ worker[j].at = "entry"
      /\ runs' = [runs EXCEPT ![t].status = "gone"]
      /\ worker' = [worker EXCEPT ![j].at = "prune", ![j].todo = @ \ {t}]
  BY DEF RemoveEntry, backupCounts
<1>2. t \in DOMAIN runs /\ \A r \in worker[j].todo : r \in DOMAIN runs
  BY <1>1 DEF BackupInv, WorkInv, Prunes, Doomed
<1> HIDE DEF t
<1>3. KindsSame /\ CopiesSame /\ FilesDated' BY <1>1, <1>2, StatusOnly, DiskSame DEF CopyInv
<1>4. PICK W : worker \in [Job -> WorkRecord(W)] BY DEF BackupInv, Shape, WorkShape
<1>5. worker[j] \in WorkRecord(W) BY <1>4
<1>6. /\ worker'[j].is = worker[j].is /\ worker'[j].at = "prune"
      /\ worker'[j].from = worker[j].from
      /\ worker'[j].todo \subseteq worker[j].todo
      /\ \A i \in Job : i # j => worker'[i] = worker[i]
  BY <1>1, <1>4, <1>5 DEF WorkRecord
<1>7. Careful(j) BY DEF CopyInv
<1>8. worker'[j].is = "delete" => \A r \in worker'[j].todo : runs'[r].kind # "safety"
  BY <1>1, <1>2, <1>3, <1>6, <1>7 DEF Careful, KindsSame
<1>9. worker'[j].is = "restore" =>
        mutex' = j /\ worker'[j].from.files \in Int /\ worker'[j].from.files < writes' + 2
  BY <1>1, <1>6, <1>7 DEF Careful, Dated
<1>10. Careful(j)' BY <1>6, <1>8, <1>9 DEF Careful, Dated
<1> QED BY <1>1, <1>3, <1>6, <1>10, CopyMove

LEMMA LogRestoreCopy ==
  ASSUME BackupInv, CopyInv, NEW j \in Job, LogRestore(j)
  PROVE  CopyInv'
<1> DEFINE e == [name |-> worker[j].from, kind |-> "restore", status |-> "running"]
           w == Whole(worker[j].from)
           f == IF w THEN disk[worker[j].from].data ELSE NoData
<1>1. /\ UNCHANGED <<data, before, disk, mutex, clock, writes>> /\ worker[j].at = "log"
      /\ runs' = Append(runs, e)
      /\ worker' = [worker EXCEPT ![j].log = Len(runs) + 1, ![j].at = IF w THEN "start" ELSE "broken",
                                  ![j].from = f]
  BY DEF LogRestore, backupCounts
<1> HIDE DEF e, w, f
<1>2. KindsSame BY <1>1 DEF KindsSame, BackupInv, Shape
<1>3. PICK W : worker \in [Job -> WorkRecord(W)] BY DEF BackupInv, Shape, WorkShape
<1>4. worker[j] \in WorkRecord(W) BY <1>3
<1>5. /\ worker'[j].is = worker[j].is /\ worker'[j].at = (IF w THEN "start" ELSE "broken")
      /\ worker'[j].from = f
      /\ \A i \in Job : i # j => worker'[i] = worker[i]
  BY <1>1, <1>3, <1>4 DEF WorkRecord
<1>6. Careful(j) BY DEF CopyInv
<1>7. w => f.files \in Int /\ f.files < writes + 2
  BY DEF CopyInv, FilesDated, Whole, WholeIn, Dated, w, f
<1>8. Careful(j)' BY <1>1, <1>5, <1>6, <1>7 DEF Careful, Dated
<1> QED BY <1>1, <1>2, <1>5, <1>8, CopyMove, DiskSame DEF CopyInv

\* The data are replaced by the one who holds the mutex, and after the copy.
LEMMA ReplaceCopy ==
  ASSUME BackupInv, CopyInv, NEW j \in Job, RestoreDatabase(j) \/ RestoreFiles(j)
  PROVE  CopyInv'
<1>1. UNCHANGED <<disk, runs, mutex, clock, writes>> /\ worker[j].at \in {"database", "files", "rest"}
  BY DEF RestoreDatabase, RestoreFiles, backupCounts
<1>2. PICK a \in {"files", "rest", "restored"} : At(j, a)
  BY DEF RestoreDatabase, RestoreFiles
<1>3. worker[j].is = "restore" BY <1>1 DEF BackupInv, WorkInv, Restores
<1>4. mutex = j BY <1>3 DEF CopyInv, Careful
<1>5. /\ \A i \in Job : i # j => worker'[i] = worker[i]
      /\ worker'[j].at = a /\ worker'[j].is = "restore" /\ worker'[j].from = worker[j].from
  BY <1>2, <1>3, AtMoves DEF BackupInv, Shape, Places
<1>6. Careful(j)' BY <1>1, <1>3, <1>4, <1>5 DEF CopyInv, Careful, Dated
<1>7. ASSUME NEW i \in Job, i # j PROVE Careful(i)'
  <2>1. worker[i].is # "restore" BY <1>4, <1>7 DEF CopyInv, Careful
  <2> QED BY <1>1, <1>5, <1>7, <2>1, OthersCareful DEF CopyInv, KindsSame
<1>8. Dated(data)'
  <2>1. Dated(worker[j].from) /\ Dated(data) BY <1>1, <1>3 DEF CopyInv, Careful
  <2>2. data'.files \in {data.files, Mixed, worker[j].from.files}
    <3>1. data = Version(data.db, data.files) BY DEF CopyInv
    <3> QED BY <3>1 DEF RestoreDatabase, RestoreFiles, Version
  <2>3. writes \in Nat /\ writes' = writes BY <1>1 DEF CopyInv
  <2> QED BY <2>1, <2>2, <2>3 DEF Dated, Mixed
<1>9. before' # NoData => CopyIn(disk', before')
  <2>1. CASE RestoreDatabase(j)
    <3>1. worker[j].at = "database" /\ before' = worker[j].held BY <2>1 DEF RestoreDatabase
    <3> QED BY <1>1, <1>3, <3>1 DEF CopyInv, Careful
  <2>2. CASE RestoreFiles(j)
    <3>1. before' = before BY <2>2 DEF RestoreFiles
    <3> QED BY <1>1, <3>1 DEF CopyInv
  <2> QED BY <2>1, <2>2
<1>10. data' = Version(data'.db, data'.files)
  <2>1. \E d, f : data' = [data EXCEPT !.db = d] \/ data' = [data EXCEPT !.files = f]
    BY DEF RestoreDatabase, RestoreFiles
  <2> QED BY <2>1 DEF CopyInv, Version
<1>11. writes' \in Nat /\ FilesDated' BY <1>1, DiskSame DEF CopyInv
<1> QED BY <1>1, <1>6, <1>7, <1>8, <1>9, <1>10, <1>11 DEF CopyInv

LEMMA LogRestoredCopy ==
  ASSUME BackupInv, CopyInv, NEW j \in Job, LogRestored(j)
  PROVE  CopyInv'
<1> DEFINE t == worker[j].log
           v == IF worker[j].at = "restored" THEN "ok" ELSE "failed"
<1>1. /\ UNCHANGED <<data, before, disk, clock, writes>> /\ worker[j].at \in {"restored", "broken"}
      /\ runs' = [runs EXCEPT ![t].status = v] /\ Unlock(j) /\ Leaves(j)
  BY DEF LogRestored, backupCounts
<1>2. t \in DOMAIN runs BY <1>1 DEF BackupInv, WorkInv, Restores
<1> HIDE DEF t, v
<1>3. KindsSame BY <1>1, <1>2, StatusOnly
<1> QED BY <1>1, <1>3, LeaveCopy

LEMMA RestartCopy ==
  ASSUME BackupInv, CopyInv, Restart
  PROVE  CopyInv'
<1>1. UNCHANGED <<data, before, disk, clock, writes>> BY DEF Restart
<1>2. ASSUME NEW i \in Job PROVE worker'[i].is \in {"idle", "update"}
  <2>1. worker'[i] \in {NoWorker, [NoWorker EXCEPT !.is = "update", !.at = "start"]}
    BY DEF Restart
  <2>2. NoWorker.is = "idle" BY DEF NoWorker
  <2>3. [NoWorker EXCEPT !.is = "update", !.at = "start"].is = "update" BY DEF NoWorker
  <2> QED BY <2>1, <2>2, <2>3
<1>3. \A i \in Job : Careful(i)' BY <1>2 DEF Careful
<1> QED BY <1>1, <1>3, DiskSame DEF CopyInv, Dated

\* What users enter is younger than all copies and what is restored.
LEMMA WritesCopy ==
  ASSUME BackupInv, CopyInv, UserWrites
  PROVE  CopyInv'
<1>1. /\ UNCHANGED <<before, disk, runs, mutex, worker, clock>>
      /\ data' = Version(data'.db, data'.files) /\ data'.files = writes + 2
      /\ writes' = writes + 1 /\ writes \in Nat
  BY DEF UserWrites, Version, CopyInv
<1>2. ASSUME NEW j \in Job PROVE Careful(j)'
  <2>1. Careful(j) /\ Dated(data) BY DEF CopyInv
  <2>2. worker[j].is = "restore" /\ worker[j].at = "rename" =>
          worker[j].held.files \in Int /\ data'.files >= worker[j].held.files
    BY <1>1, <2>1 DEF Careful, Dated
  <2>3. worker[j].is = "restore" /\ worker[j].at \notin {"log", "broken"} =>
          worker[j].from.files \in Int /\ worker[j].from.files < writes' + 2
    BY <1>1, <2>1 DEF Careful, Dated
  <2> QED BY <1>1, <2>1, <2>2, <2>3 DEF Careful, Dated
<1>3. FilesDated' BY <1>1 DEF CopyInv, FilesDated, Dated, WholeIn
<1>4. Dated(data)' BY <1>1 DEF Dated
<1> QED BY <1>1, <1>2, <1>3, <1>4 DEF CopyInv

LEMMA SecondCopy ==
  ASSUME BackupInv, CopyInv, Second
  PROVE  CopyInv'
<1>1. UNCHANGED <<data, before, disk, runs, mutex, worker, writes>> /\ clock' = clock + 1 /\ clock \in Nat
  BY DEF Second, BackupInv, Shape
<1>2. \A j \in Job : Careful(j)' BY <1>1, OthersCareful, DiskSame DEF CopyInv, KindsSame
<1>3. \A n \in DOMAIN disk' : n[2] = "safety" => n[1] \in Nat /\ n[1] < clock'
  BY <1>1 DEF CopyInv
<1> QED BY <1>1, <1>2, <1>3, DiskSame DEF CopyInv, Dated

LEMMA StartCopy == BackupInit => CopyInv
<1> SUFFICES ASSUME BackupInit PROVE CopyInv OBVIOUS
<1>1. data = Version(1, 1) /\ before = NoData /\ worker = [j \in Job |-> NoWorker]
  BY DEF BackupInit
<1>2. \A n \in DOMAIN disk : n = <<0, "manual">> BY DEF BackupInit
<1>3. \A n \in DOMAIN disk : n[2] # "safety" BY <1>2
<1>4. \A j \in Job : Careful(j)
  <2>1. \A j \in Job : worker[j].is = "idle" BY <1>1 DEF NoWorker
  <2> QED BY <2>1, NothingToKeep
<1>5. data = Version(data.db, data.files) /\ writes = 0 /\ Dated(data) BY <1>1 DEF BackupInit, Dated, Version
<1>6. FilesDated
  <2>1. \A n \in DOMAIN disk : disk[n].data = Version(0, 0) BY DEF BackupInit
  <2> QED BY <1>5, <2>1 DEF FilesDated, Dated, Version
<1> QED BY <1>1, <1>3, <1>4, <1>5, <1>6 DEF CopyInv

LEMMA KeepsCopy ==
  ASSUME Slow, "safety" \notin Deletable
  PROVE  BackupInv /\ CopyInv /\ [BackupNext]_backupVars => CopyInv'
<1> SUFFICES ASSUME BackupInv, CopyInv, [BackupNext]_backupVars PROVE CopyInv'
  OBVIOUS
<1>1. CASE UNCHANGED backupVars
  BY <1>1 DEF backupVars, backupCounts, CopyInv, Careful, FilesDated, Dated, WholeIn
<1>2. CASE Restart BY <1>2, RestartCopy
<1>3. CASE UserWrites BY <1>3, WritesCopy
<1>4. CASE Second BY <1>4, SecondCopy
<1>5. ASSUME NEW j \in Job, WriteFails(j) \/ RestoreFails(j) PROVE CopyInv'
  <2>1. PICK a \in {"failed", "broken"} : At(j, a) BY <1>5 DEF WriteFails, RestoreFails
  <2> QED BY <1>5, <2>1, FailCopy DEF WriteFails, RestoreFails
<1>6. ASSUME NEW j \in Job, Pruned(j) PROVE CopyInv'
  BY <1>6, LeaveCopy DEF Pruned, backupCounts, KindsSame
<1>7. ASSUME NEW j \in Job,
             \/ Asked(j) \/ Lock(j) \/ StartRun(j) \/ OpenPart(j) \/ Rename(j) \/ FinishRun(j)
             \/ ListOld(j) \/ RemoveFile(j) \/ RemoveEntry(j)
             \/ LogRestore(j) \/ RestoreDatabase(j) \/ RestoreFiles(j) \/ LogRestored(j)
      PROVE  CopyInv'
  BY <1>7, AskedCopy, LockCopy, StartRunCopy, OpenCopy, RenameCopy, FinishCopy, ListCopy,
     RemoveFileCopy, RemoveEntryCopy, LogRestoreCopy, ReplaceCopy, LogRestoredCopy
<1> QED BY <1>1, <1>2, <1>3, <1>4, <1>5, <1>6, <1>7 DEF BackupNext

(* Whatever fails or starts again, with any number of goroutines, and with *)
(* users at work all the time: once a restoration has replaced anything, a *)
(* whole copy of the database as it was when the safety copy began is on   *)
(* disk, with the files of then or younger ones.  It takes that a backup   *)
(* lasts longer than the second its name is made of, and that the          *)
(* administrator deletes neither copies nor backups of the schedule        *)
(* (restoreBackup).                                                        *)
THEOREM SafetyCopyStays ==
  ASSUME Slow, DeletesOther, "safety" \notin Deletable
  PROVE  BackupSpec => []SafetyCopyKept
<1>1. CopyInv => SafetyCopyKept BY DEF CopyInv, CopyIn, SafetyCopyKept, Whole, WholeIn
<1> QED BY <1>1, StartInv, KeepsInv, StartCopy, KeepsCopy, PTL DEF BackupSpec
=============================================================================
