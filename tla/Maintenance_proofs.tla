------------------------- MODULE Maintenance_proofs -------------------------
(* Theorems about Maintenance, for every value of its constants. *)
EXTENDS Maintenance, SequenceTheorems, WellFoundedInduction, TLAPS

-----------------------------------------------------------------------------
(* The inductive invariant                                                 *)

Places == {"idle", "check", "mark", "next", "put", "look", "insert", "commit",
           "plan", "tasks", "active", "drop", "due", "status"}

TaskRecord == [status : OpenStatus \cup {"done", "skipped", "gone"}, due : Nat,
               touched : BOOLEAN, completed : 0..Days]

OrderRecord == [at : Places, op : Ops \cup {"none", "hourly"}, task : Nat,
                day : Nat, fixed : BOOLEAN]

Shape ==
  /\ mplan \in [active : BOOLEAN, next : Nat, fixed : BOOLEAN]
  /\ tasks \in Seq(TaskRecord)
  /\ planLock \in Caller \cup {Unheld}
  /\ today \in 0..Days
  /\ order \in [Caller -> OrderRecord]

\* A request that will change a task has one that exists.
TaskKnown ==
  \A c \in Caller : order[c].at \in {"check", "mark", "next", "put", "due", "status"}
                      => order[c].task \in DOMAIN tasks

\* Between the look for an open task and the commit of the new one the
\* transaction holds the lock, and there is no open task.
LockKept ==
  \A c \in Caller : order[c].at \in {"insert", "commit"} => planLock = c /\ ~HasOpen

Sound == Shape /\ TaskKnown

\* No task that was closed is open after the step, and none is added.
NoneReopened ==
  /\ DOMAIN tasks \subseteq DOMAIN tasks'
  /\ \A i \in DOMAIN tasks : tasks'[i].status \in OpenStatus => tasks[i].status \in OpenStatus

NoneAdded == DOMAIN tasks' = DOMAIN tasks

-----------------------------------------------------------------------------
(* Tasks                                                                   *)

\* One task is changed, and not opened.
LEMMA OneChanged ==
  ASSUME tasks \in Seq(TaskRecord), NEW i \in DOMAIN tasks, NEW r \in TaskRecord,
         tasks' = [tasks EXCEPT ![i] = r],
         r.status \in OpenStatus => tasks[i].status \in OpenStatus
  PROVE  tasks' \in Seq(TaskRecord) /\ NoneReopened /\ NoneAdded
<1>1. DOMAIN tasks = 1..Len(tasks) BY LenProperties
<1>2. /\ tasks' \in Seq(TaskRecord) /\ Len(tasks') = Len(tasks)
      /\ \A j \in 1..Len(tasks) : tasks'[j] = IF j = i THEN r ELSE tasks[j]
  BY <1>1, ExceptSeq
<1>3. DOMAIN tasks' = 1..Len(tasks) BY <1>2, LenProperties
<1> QED BY <1>1, <1>2, <1>3 DEF NoneReopened, NoneAdded

\* Each task is changed, and none opened.
LEMMA AllChanged ==
  ASSUME tasks \in Seq(TaskRecord), tasks' \in [DOMAIN tasks -> TaskRecord],
         \A i \in DOMAIN tasks : tasks'[i].status \in OpenStatus => tasks[i].status \in OpenStatus
  PROVE  tasks' \in Seq(TaskRecord) /\ NoneReopened /\ NoneAdded
<1>1. DOMAIN tasks = 1..Len(tasks) /\ Len(tasks) \in Nat BY LenProperties
<1>2. tasks' \in Seq(TaskRecord) BY <1>1, SeqDef
<1> QED BY <1>1, <1>2 DEF NoneReopened, NoneAdded

\* A task is added at the end.
LEMMA OneAdded ==
  ASSUME tasks \in Seq(TaskRecord), NEW r \in TaskRecord, tasks' = Append(tasks, r)
  PROVE  /\ tasks' \in Seq(TaskRecord) /\ NoneReopened
         /\ DOMAIN tasks' = DOMAIN tasks \cup {Len(tasks) + 1}
         /\ \A i \in DOMAIN tasks : tasks'[i] = tasks[i]
<1>1. DOMAIN tasks = 1..Len(tasks) /\ Len(tasks) \in Nat BY LenProperties
<1>2. /\ tasks' \in Seq(TaskRecord) /\ Len(tasks') = Len(tasks) + 1
      /\ \A i \in 1..Len(tasks) : tasks'[i] = tasks[i]
  BY AppendProperties
<1>3. DOMAIN tasks' = 1..(Len(tasks) + 1) BY <1>2, LenProperties
<1> QED BY <1>1, <1>2, <1>3 DEF NoneReopened

\* The task of a request, and its records.
LEMMA TaskOf ==
  ASSUME Shape, NEW i \in DOMAIN tasks
  PROVE  tasks[i] \in TaskRecord /\ i \in Nat
  BY LenProperties, ElementOfSeq DEF Shape

LEMMA NewTaskRecord ==
  ASSUME NEW due \in Nat
  PROVE  NewTask(due) \in TaskRecord
  BY MaintenanceAssumption DEF NewTask, TaskRecord, OpenStatus

\* The next date is a day: the first date of the rhythm that is not past
\* exists, because the rhythm comes past the last day.
LEMMA NextDay1 ==
  ASSUME Shape, NEW t \in TaskRecord
  PROVE  NextDueFor(t) \in Nat
<1>0. /\ Every \in Nat /\ Every >= 1 /\ Days \in Nat /\ today \in Nat /\ today <= Days
      /\ t.due \in Nat /\ t.completed \in Nat
  BY MaintenanceAssumption DEF Shape, TaskRecord
<1>1. CASE ~mplan.fixed BY <1>0, <1>1 DEF NextDueFor
<1>2. CASE mplan.fixed
  <2> DEFINE later == {t.due + k * Every : k \in 1..(Days + 1)}
             open == {n \in later : n >= today}
  <2>1. \A k \in Nat : k * Every \in Nat /\ k * Every >= k
    <3> TAKE k \in Nat
    <3>1. k * (Every - 1) \in Nat BY <1>0
    <3>2. k * Every = k * (Every - 1) + k BY <1>0
    <3> QED BY <3>1, <3>2
  <2>2. later \subseteq Nat BY <2>1, <1>0
  <2>3. t.due + (Days + 1) * Every \in open BY <2>1, <1>0
  <2>4. PICK n \in open : \A m \in open : ~(<<m, n>> \in OpToRel(<, Nat))
    BY <2>2, <2>3, NatLessThanWellFounded, WFMin, Zenon
  <2>5. \A m \in open : n <= m
    <3> TAKE m \in open
    <3>1. m \in Nat /\ n \in Nat BY <2>2
    <3>2. ~(m < n) BY <2>4, <3>1 DEF OpToRel
    <3> QED BY <3>1, <3>2
  <2>6. \E x \in later : x >= today /\ \A m \in later : m >= today => x <= m BY <2>5
  <2>7. NextDueFor(t) = CHOOSE x \in later : x >= today /\ \A m \in later : m >= today => x <= m
    BY <1>2 DEF NextDueFor
  <2> HIDE DEF later
  <2> QED BY <2>2, <2>6, <2>7
<1> QED BY <1>1, <1>2

-----------------------------------------------------------------------------
(* Steps                                                                   *)

\* A step that leaves the tasks alone.
LEMMA OrderOnly ==
  ASSUME Sound, NEW c \in Caller, NEW r \in OrderRecord, order' = [order EXCEPT ![c] = r],
         UNCHANGED tasks, mplan' \in [active : BOOLEAN, next : Nat, fixed : BOOLEAN],
         planLock' \in Caller \cup {Unheld}, today' \in 0..Days,
         r.at \in {"check", "mark", "next", "put", "due", "status"} => r.task \in DOMAIN tasks
  PROVE  Sound' /\ NoneReopened /\ NoneAdded
  BY DEF Sound, Shape, TaskKnown, NoneReopened, NoneAdded

\* A step that changes tasks, and at most one request with them.
LEMMA TasksOnly ==
  ASSUME Sound, NEW c \in Caller, NEW r \in OrderRecord, order' \in {order, [order EXCEPT ![c] = r]},
         NoneReopened, tasks' \in Seq(TaskRecord), UNCHANGED <<mplan, today>>,
         planLock' \in Caller \cup {Unheld},
         r.at \in {"check", "mark", "next", "put", "due", "status"} => r.task \in DOMAIN tasks
  PROVE  Sound'
  BY DEF Sound, Shape, TaskKnown, NoneReopened

LEMMA OrderOf ==
  ASSUME Shape, NEW c \in Caller
  PROVE  /\ order[c] \in OrderRecord
         /\ \A at \in Places : [order[c] EXCEPT !.at = at] \in OrderRecord
         /\ NoOrder \in OrderRecord
  BY DEF Shape, OrderRecord, NoOrder, Places

LEMMA OrderWith ==
  \A o \in OrderRecord : \A at \in Places : \A day \in Nat :
    /\ [o EXCEPT !.at = at, !.day = day] \in OrderRecord
    /\ [o EXCEPT !.at = at, !.day = day].at = at
    /\ [o EXCEPT !.at = at, !.day = day].task = o.task
  BY DEF OrderRecord

\* Every step keeps the kinds, opens no closed task, and adds one only in
\* ensureTaskForPlan, or where CreateTask is asked for.
LEMMA StepSound ==
  ASSUME Sound, [MaintNext]_maintVars
  PROVE  /\ Sound' /\ NoneReopened
         /\ NoneAdded \/ (\E c \in Caller : CommitTask(c)) \/ "create" \in Ops
<1> USE DEF Sound
<1>1. ASSUME NEW c \in Staff, Ask(c) PROVE Sound' /\ NoneReopened /\ (NoneAdded \/ "create" \in Ops)
  <2>0. c \in Caller BY DEF Caller
  <2>1. PICK op \in Ops :
          \/ /\ op \in {"complete", "skip", "wait"} /\ UNCHANGED tasks
             /\ \E i \in DOMAIN tasks :
                  Takes(c, [NoOrder EXCEPT !.op = op, !.task = i,
                              !.at = CASE op = "complete" -> "check"
                                       [] op = "skip" -> "mark"
                                       [] op = "wait" -> "due"])
          \/ /\ op = "edit" /\ UNCHANGED tasks
             /\ \E day \in 0..Days, fixed \in BOOLEAN :
                  Takes(c, [NoOrder EXCEPT !.op = op, !.at = "plan", !.day = day, !.fixed = fixed])
          \/ /\ op \in {"rest", "wake"} /\ UNCHANGED tasks
             /\ Takes(c, [NoOrder EXCEPT !.op = op, !.at = "active"])
          \/ op = "create" /\ tasks' = Append(tasks, NewTask(today)) /\ UNCHANGED order
          \/ /\ op = "delete" /\ UNCHANGED order
             /\ \E i \in DOMAIN tasks : tasks' = [tasks EXCEPT ![i].status = "gone"]
    BY <1>1 DEF Ask
  <2>2. UNCHANGED <<mplan, planLock, today>> BY <1>1 DEF Ask
  <2>3. CASE op \in {"complete", "skip", "wait"} /\ UNCHANGED tasks
    <3>1. PICK i \in DOMAIN tasks :
            Takes(c, [NoOrder EXCEPT !.op = op, !.task = i,
                        !.at = CASE op = "complete" -> "check"
                                 [] op = "skip" -> "mark"
                                 [] op = "wait" -> "due"])
      BY <2>1, <2>3
    <3>2. i \in Nat BY TaskOf
    <3> DEFINE r == [NoOrder EXCEPT !.op = op, !.task = i,
                        !.at = CASE op = "complete" -> "check"
                                 [] op = "skip" -> "mark"
                                 [] op = "wait" -> "due"]
    <3>3. r \in OrderRecord /\ r.task = i BY <2>3, <3>2 DEF OrderRecord, NoOrder, Places
    <3> QED BY <2>0, <2>2, <2>3, <3>1, <3>3, OrderOnly DEF Takes, Shape
  <2>4. CASE op = "edit" /\ UNCHANGED tasks
    <3>1. PICK day \in 0..Days, fixed \in BOOLEAN :
            Takes(c, [NoOrder EXCEPT !.op = op, !.at = "plan", !.day = day, !.fixed = fixed])
      BY <2>1, <2>4
    <3> DEFINE r == [NoOrder EXCEPT !.op = op, !.at = "plan", !.day = day, !.fixed = fixed]
    <3>2. day \in Nat BY MaintenanceAssumption
    <3>3. r = [NoOrder EXCEPT !.op = op, !.at = "plan", !.day = day, !.fixed = fixed] OBVIOUS
    <3>4. r \in OrderRecord /\ r.at = "plan" BY <3>2, <2>4 DEF OrderRecord, NoOrder, Places
    <3> HIDE DEF r
    <3> QED BY <2>0, <2>2, <2>4, <3>1, <3>3, <3>4, OrderOnly DEF Takes, Shape
  <2>5. CASE op \in {"rest", "wake"} /\ UNCHANGED tasks
    <3> DEFINE r == [NoOrder EXCEPT !.op = op, !.at = "active"]
    <3>1. r \in OrderRecord /\ r.at = "active" BY <2>5 DEF OrderRecord, NoOrder, Places
    <3>2. Takes(c, r) BY <2>1, <2>5
    <3> QED BY <2>0, <2>2, <2>5, <3>1, <3>2, OrderOnly DEF Takes, Shape
  <2>6. CASE op = "create" /\ tasks' = Append(tasks, NewTask(today)) /\ UNCHANGED order
    <3>1. NewTask(today) \in TaskRecord BY NewTaskRecord, MaintenanceAssumption DEF Shape
    <3>2. tasks' \in Seq(TaskRecord) /\ NoneReopened BY <2>6, <3>1, OneAdded DEF Shape
    <3> QED BY <2>0, <2>2, <2>6, <3>2, TasksOnly, OrderOf DEF NoOrder, Shape
  <2>7. CASE op = "delete" /\ UNCHANGED order /\ \E i \in DOMAIN tasks : tasks' = [tasks EXCEPT ![i].status = "gone"]
    <3>1. PICK i \in DOMAIN tasks : tasks' = [tasks EXCEPT ![i].status = "gone"] BY <2>7
    <3>2. [tasks[i] EXCEPT !.status = "gone"] \in TaskRecord BY TaskOf DEF TaskRecord
    <3>3. ([tasks[i] EXCEPT !.status = "gone"]).status \notin OpenStatus BY TaskOf DEF TaskRecord, OpenStatus
    <3>4. tasks' \in Seq(TaskRecord) /\ NoneReopened /\ NoneAdded BY <3>1, <3>2, <3>3, OneChanged DEF Shape
    <3> QED BY <2>0, <2>2, <2>7, <3>4, TasksOnly, OrderOf DEF NoOrder, Shape
  <2> QED BY <2>1, <2>3, <2>4, <2>5, <2>6, <2>7
<1>2. CASE HourlyRun
  <2>1. [NoOrder EXCEPT !.op = "hourly", !.at = "look"] \in OrderRecord BY DEF OrderRecord, NoOrder, Places
  <2> QED BY <1>2, <2>1, OrderOnly DEF HourlyRun, Takes, Shape, Caller, NoOrder
<1>3. CASE NextDay
  BY <1>3, MaintenanceAssumption DEF NextDay, Shape, TaskKnown, NoneReopened, NoneAdded
<1>4. CASE StartTask
  <2>1. PICK i \in DOMAIN tasks : tasks[i].status \in OpenStatus /\ tasks' = [tasks EXCEPT ![i].status = "in_progress"]
    BY <1>4 DEF StartTask
  <2>2. [tasks[i] EXCEPT !.status = "in_progress"] \in TaskRecord BY TaskOf DEF TaskRecord, OpenStatus
  <2>3. tasks' \in Seq(TaskRecord) /\ NoneReopened /\ NoneAdded BY <2>1, <2>2, OneChanged DEF Shape
  <2> QED BY <1>4, <2>3 DEF StartTask, Shape, TaskKnown, NoneReopened
<1>5. CASE Touch
  <2>1. PICK i \in DOMAIN tasks : tasks' = [tasks EXCEPT ![i].touched = TRUE] BY <1>5 DEF Touch
  <2>2. [tasks[i] EXCEPT !.touched = TRUE] \in TaskRecord BY TaskOf DEF TaskRecord
  <2>3. ([tasks[i] EXCEPT !.touched = TRUE]).status = tasks[i].status BY TaskOf DEF TaskRecord
  <2>4. tasks' \in Seq(TaskRecord) /\ NoneReopened /\ NoneAdded BY <2>1, <2>2, <2>3, OneChanged DEF Shape
  <2> QED BY <1>5, <2>4 DEF Touch, Shape, TaskKnown, NoneReopened
<1>6. ASSUME NEW c \in Caller, GiveUp(c) PROVE Sound' /\ NoneReopened /\ NoneAdded
  BY <1>6, OrderOnly, OrderOf DEF GiveUp, EndOrder, Takes, Shape, NoOrder
<1>7. ASSUME NEW c \in Caller, OrderGoesOn(c)
      PROVE  Sound' /\ NoneReopened /\ (NoneAdded \/ CommitTask(c))
  <2> DEFINE to(at) == [order[c] EXCEPT !.at = at]
  <2>0. /\ order[c] \in OrderRecord /\ NoOrder \in OrderRecord /\ NoOrder.at = "idle"
        /\ \A at \in Places : to(at) \in OrderRecord /\ to(at).at = at /\ to(at).task = order[c].task
    BY OrderOf DEF OrderRecord, NoOrder
  <2>1. CASE CheckTask(c)
    <3>1. order[c].task \in DOMAIN tasks BY <2>1 DEF CheckTask, TaskKnown
    <3>2. order' = [order EXCEPT ![c] = to("mark")] \/ order' = [order EXCEPT ![c] = NoOrder]
      BY <2>1 DEF CheckTask, On, EndOrder, Takes
    <3>3. CASE order' = [order EXCEPT ![c] = to("mark")]
      <4>1. to("mark") \in OrderRecord /\ to("mark").task = order[c].task BY <2>0 DEF Places
      <4> HIDE DEF to
      <4> QED BY <2>1, <3>1, <3>3, <4>1, OrderOnly DEF CheckTask, Shape
    <3>4. CASE order' = [order EXCEPT ![c] = NoOrder]
      BY <2>0, <2>1, <3>4, OrderOnly DEF CheckTask, Shape
    <3> QED BY <3>2, <3>3, <3>4
  <2>2. CASE Mark(c)
    <3>1. order[c].task \in DOMAIN tasks BY <2>2 DEF Mark, TaskKnown
    <3>2. CASE tasks[order[c].task].status \in OpenStatus
      <4> DEFINE i == order[c].task
                 t == [tasks[i] EXCEPT !.status = IF order[c].op = "skip" THEN "skipped" ELSE "done",
                                       !.completed = today]
      <4>0. tasks[i] \in TaskRecord /\ today \in 0..Days BY <3>1, TaskOf DEF Shape
      <4>1. t \in TaskRecord /\ t.status \notin OpenStatus BY <4>0 DEF TaskRecord, OpenStatus
      <4>2. tasks' = [tasks EXCEPT ![i] = t] BY <2>2, <3>2 DEF Mark
      <4>3. tasks' \in Seq(TaskRecord) /\ NoneReopened /\ NoneAdded BY <3>1, <4>1, <4>2, OneChanged DEF Shape
      <4>4. order' = [order EXCEPT ![c] = to("next")] BY <2>2, <3>2 DEF Mark, On
      <4> QED BY <2>0, <2>2, <3>1, <4>3, <4>4, TasksOnly DEF Mark, Shape, Places
    <3>3. CASE tasks[order[c].task].status \notin OpenStatus
      BY <2>0, <2>2, <3>3, OrderOnly DEF Mark, EndOrder, Takes, Shape
    <3> QED BY <3>2, <3>3
  <2>3. CASE ReadPlan(c)
    <3>1. order[c].task \in DOMAIN tasks BY <2>3 DEF ReadPlan, TaskKnown
    <3> DEFINE r == [order[c] EXCEPT !.at = "put", !.day = NextDueFor(tasks[order[c].task])]
    <3>2. NextDueFor(tasks[order[c].task]) \in Nat BY <3>1, TaskOf, NextDay1
    <3>3. r \in OrderRecord /\ r.task = order[c].task
      <4> DEFINE o == order[c]
                 day == NextDueFor(tasks[order[c].task])
      <4>1. o \in OrderRecord /\ "put" \in Places /\ day \in Nat BY <2>0, <3>2 DEF Places
      <4>2. r = [o EXCEPT !.at = "put", !.day = day] OBVIOUS
      <4>3. r \in OrderRecord /\ r.task = o.task
        <5> HIDE DEF r, o, day
        <5> QED BY <4>1, <4>2, OrderWith, ZenonT(60)
      <4> QED BY <4>3
    <3>4. order' = [order EXCEPT ![c] = r] \/ order' = [order EXCEPT ![c] = NoOrder]
      BY <2>3 DEF ReadPlan, EndOrder, Takes
    <3> HIDE DEF r
    <3> QED BY <2>0, <2>3, <3>1, <3>3, <3>4, OrderOnly DEF ReadPlan, Shape
  <2>4. CASE PutNext(c)
    <3>1. order' = [order EXCEPT ![c] = to("look")] BY <2>4 DEF PutNext, On
    <3>2. mplan' \in [active : BOOLEAN, next : Nat, fixed : BOOLEAN] BY <2>0, <2>4 DEF PutNext, Shape, OrderRecord
    <3> QED BY <2>0, <2>4, <3>1, <3>2, OrderOnly DEF PutNext, Shape, Places
  <2>5. CASE Look(c)
    <3>1. order' = [order EXCEPT ![c] = to("insert")] \/ order' = [order EXCEPT ![c] = NoOrder]
      BY <2>5 DEF Look, On, EndOrder, Takes
    <3>2. planLock' \in Caller \cup {Unheld} BY <2>5 DEF Look, Shape
    <3>3. CASE order' = [order EXCEPT ![c] = to("insert")]
      <4>1. to("insert") \in OrderRecord /\ to("insert").at = "insert" BY <2>0 DEF Places
      <4> HIDE DEF to
      <4> QED BY <2>5, <3>2, <3>3, <4>1, OrderOnly DEF Look, Shape
    <3>4. CASE order' = [order EXCEPT ![c] = NoOrder]
      BY <2>0, <2>5, <3>2, <3>4, OrderOnly DEF Look, Shape
    <3> QED BY <3>1, <3>3, <3>4
  <2>6. CASE Insert(c)
    <3> DEFINE r == [order[c] EXCEPT !.at = "commit", !.day = mplan.next]
    <3>0. mplan.next \in Nat BY DEF Shape
    <3>1. r \in OrderRecord /\ r.at = "commit"
      <4> DEFINE o == order[c]
                 day == mplan.next
      <4>1. o \in OrderRecord /\ "commit" \in Places /\ day \in Nat BY <2>0, <3>0 DEF Places
      <4>2. r = [o EXCEPT !.at = "commit", !.day = day] OBVIOUS
      <4> HIDE DEF r, o, day
      <4> QED BY <4>1, <4>2, OrderWith
    <3>2. order' = [order EXCEPT ![c] = r] \/ order' = [order EXCEPT ![c] = NoOrder]
      BY <2>6 DEF Insert, EndOrder, Takes
    <3>3. planLock' \in Caller \cup {Unheld} BY <2>6 DEF Insert, Shape
    <3> HIDE DEF r
    <3> QED BY <2>0, <2>6, <3>1, <3>2, <3>3, OrderOnly DEF Insert, Shape
  <2>7. CASE CommitTask(c)
    <3>1. NewTask(order[c].day) \in TaskRecord BY <2>0, NewTaskRecord DEF OrderRecord
    <3>2. tasks' \in Seq(TaskRecord) /\ NoneReopened BY <2>7, <3>1, OneAdded DEF CommitTask, Shape
    <3> QED BY <2>0, <2>7, <3>2, TasksOnly DEF CommitTask, EndOrder, Takes
  <2>8. CASE EditPlan(c)
    <3>1. order' = [order EXCEPT ![c] = to("tasks")] BY <2>8 DEF EditPlan, On
    <3>2. mplan' \in [active : BOOLEAN, next : Nat, fixed : BOOLEAN] BY <2>0, <2>8 DEF EditPlan, Shape, OrderRecord
    <3> QED BY <2>0, <2>8, <3>1, <3>2, OrderOnly DEF EditPlan, Shape, Places
  <2>9. CASE EditTasks(c)
    <3>1. order' = [order EXCEPT ![c] = to("look")] BY <2>9 DEF EditTasks, On
    <3>2. \A i \in DOMAIN tasks : tasks'[i] \in TaskRecord /\ tasks'[i].status = tasks[i].status
      BY <2>9, TaskOf DEF EditTasks, TaskRecord, Shape
    <3>3. tasks' \in [DOMAIN tasks -> TaskRecord] BY <2>9, <3>2 DEF EditTasks
    <3>4. tasks' \in Seq(TaskRecord) /\ NoneReopened /\ NoneAdded BY <3>2, <3>3, AllChanged DEF Shape
    <3> QED BY <2>0, <2>9, <3>1, <3>4, TasksOnly DEF EditTasks, Shape, Places
  <2>10. CASE SetActive(c)
    <3>1. order' = [order EXCEPT ![c] = to("look")] \/ order' = [order EXCEPT ![c] = to("drop")]
      BY <2>10 DEF SetActive, On
    <3>2. mplan' \in [active : BOOLEAN, next : Nat, fixed : BOOLEAN] BY <2>10 DEF SetActive, Shape
    <3>3. PICK at \in {"look", "drop"} : order' = [order EXCEPT ![c] = to(at)] BY <3>1
    <3>4. to(at) \in OrderRecord /\ to(at).at = at BY <2>0 DEF Places
    <3> HIDE DEF to
    <3> QED BY <2>10, <3>2, <3>3, <3>4, OrderOnly DEF SetActive, Shape
  <2>11. CASE DropUntouched(c)
    <3>1. order' = [order EXCEPT ![c] = NoOrder] BY <2>11 DEF DropUntouched, EndOrder, Takes
    <3>2. \A i \in DOMAIN tasks : tasks'[i] \in TaskRecord /\ (tasks'[i].status \in OpenStatus => tasks[i].status \in OpenStatus)
      BY <2>11, TaskOf DEF DropUntouched, TaskRecord, OpenStatus
    <3>3. tasks' \in [DOMAIN tasks -> TaskRecord] BY <2>11, <3>2 DEF DropUntouched
    <3>4. tasks' \in Seq(TaskRecord) /\ NoneReopened /\ NoneAdded BY <3>2, <3>3, AllChanged DEF Shape
    <3> QED BY <2>0, <2>11, <3>1, <3>4, TasksOnly DEF DropUntouched, Shape
  <2>12. CASE MoveDue(c)
    <3>1. order[c].task \in DOMAIN tasks BY <2>12 DEF MoveDue, TaskKnown
    <3> DEFINE i == order[c].task
               t == [tasks[i] EXCEPT !.due = today + 1]
    <3>2. t \in TaskRecord /\ t.status = tasks[i].status
      <4>1. tasks[i] \in TaskRecord /\ today + 1 \in Nat BY <3>1, TaskOf, MaintenanceAssumption DEF Shape
      <4> QED BY <4>1 DEF TaskRecord
    <3>3. tasks' = [tasks EXCEPT ![i] = t] BY <2>12 DEF MoveDue
    <3>4. tasks' \in Seq(TaskRecord) /\ NoneReopened /\ NoneAdded BY <3>1, <3>2, <3>3, OneChanged DEF Shape
    <3>5. order' = [order EXCEPT ![c] = to("status")] BY <2>12 DEF MoveDue, On
    <3> QED BY <2>0, <2>12, <3>1, <3>4, <3>5, TasksOnly DEF MoveDue, Shape, Places
  <2>13. CASE SetPending(c)
    <3>1. order[c].task \in DOMAIN tasks BY <2>13 DEF SetPending, TaskKnown
    <3> DEFINE i == order[c].task
               t == [tasks[i] EXCEPT !.status = IF @ \in OpenStatus THEN "pending" ELSE @]
    <3>2. t \in TaskRecord /\ (t.status \in OpenStatus => tasks[i].status \in OpenStatus)
      BY <3>1, TaskOf DEF TaskRecord, OpenStatus
    <3>3. tasks' = [tasks EXCEPT ![i] = t] BY <2>13 DEF SetPending
    <3>4. tasks' \in Seq(TaskRecord) /\ NoneReopened /\ NoneAdded BY <3>1, <3>2, <3>3, OneChanged DEF Shape
    <3> QED BY <2>0, <2>13, <3>4, TasksOnly DEF SetPending, EndOrder, Takes, Shape
  <2> QED BY <1>7, <2>1, <2>2, <2>3, <2>4, <2>5, <2>6, <2>7, <2>8, <2>9, <2>10, <2>11, <2>12, <2>13 DEF OrderGoesOn
<1>8. CASE UNCHANGED maintVars
  BY <1>8 DEF maintVars, Shape, TaskKnown, NoneReopened, NoneAdded
<1> QED BY <1>1, <1>2, <1>3, <1>4, <1>5, <1>6, <1>7, <1>8 DEF MaintNext

-----------------------------------------------------------------------------
(* Where requests go                                                       *)

\* Only four operations lead to the critical places of a request.
LEMMA OrderMoves ==
  ASSUME Shape, [MaintNext]_maintVars, NEW d \in Caller
  PROVE  \/ order'[d] = order[d]
         \/ order'[d].at \notin {"insert", "commit", "next", "put"}
         \/ Mark(d) \/ ReadPlan(d) \/ Look(d) \/ Insert(d)
<1> DEFINE Goal == \/ order'[d] = order[d]
                   \/ order'[d].at \notin {"insert", "commit", "next", "put"}
                   \/ Mark(d) \/ ReadPlan(d) \/ Look(d) \/ Insert(d)
<1>0. order \in [Caller -> OrderRecord] BY DEF Shape
<1>1. ASSUME NEW c \in Caller, NEW r, order' = [order EXCEPT ![c] = r],
             r.at \notin {"insert", "commit", "next", "put"}
      PROVE  Goal
  BY <1>0, <1>1
<1>2. NoOrder.at \notin {"insert", "commit", "next", "put"} BY DEF NoOrder
<1>3. ASSUME NEW c \in Staff, Ask(c) PROVE Goal
  <2>0. c \in Caller BY DEF Caller
  <2>1. CASE UNCHANGED order BY <2>1
  <2>2. CASE \E op \in {"complete", "skip", "wait"}, i \in DOMAIN tasks :
               Takes(c, [NoOrder EXCEPT !.op = op, !.task = i,
                           !.at = CASE op = "complete" -> "check"
                                    [] op = "skip" -> "mark"
                                    [] op = "wait" -> "due"])
    <3>1. PICK op \in {"complete", "skip", "wait"}, i \in DOMAIN tasks :
               Takes(c, [NoOrder EXCEPT !.op = op, !.task = i,
                           !.at = CASE op = "complete" -> "check"
                                    [] op = "skip" -> "mark"
                                    [] op = "wait" -> "due"])
      BY <2>2
    <3> DEFINE r == [NoOrder EXCEPT !.op = op, !.task = i,
                           !.at = CASE op = "complete" -> "check"
                                    [] op = "skip" -> "mark"
                                    [] op = "wait" -> "due"]
    <3>2. order' = [order EXCEPT ![c] = r] BY <3>1 DEF Takes
    <3>3. r.at \in {"check", "mark", "due"} BY DEF NoOrder
    <3> HIDE DEF r
    <3> QED BY <1>1, <2>0, <3>2, <3>3
  <2>3. CASE \E day \in 0..Days, fixed \in BOOLEAN :
               Takes(c, [NoOrder EXCEPT !.op = "edit", !.at = "plan", !.day = day, !.fixed = fixed])
    <3>1. PICK day \in 0..Days, fixed \in BOOLEAN :
            Takes(c, [NoOrder EXCEPT !.op = "edit", !.at = "plan", !.day = day, !.fixed = fixed])
      BY <2>3
    <3> DEFINE r == [NoOrder EXCEPT !.op = "edit", !.at = "plan", !.day = day, !.fixed = fixed]
    <3>2. order' = [order EXCEPT ![c] = r] BY <3>1 DEF Takes
    <3>3. r.at = "plan" BY DEF NoOrder
    <3> HIDE DEF r
    <3> QED BY <1>1, <2>0, <3>2, <3>3
  <2>4. CASE \E op \in {"rest", "wake"} : Takes(c, [NoOrder EXCEPT !.op = op, !.at = "active"])
    <3>1. PICK op \in {"rest", "wake"} : Takes(c, [NoOrder EXCEPT !.op = op, !.at = "active"])
      BY <2>4
    <3> DEFINE r == [NoOrder EXCEPT !.op = op, !.at = "active"]
    <3>2. order' = [order EXCEPT ![c] = r] BY <3>1 DEF Takes
    <3>3. r.at = "active" BY DEF NoOrder
    <3> HIDE DEF r
    <3> QED BY <1>1, <2>0, <3>2, <3>3
  <2> QED BY <1>3, <2>1, <2>2, <2>3, <2>4, Zenon DEF Ask
<1>4. CASE HourlyRun
  <2> DEFINE r == [NoOrder EXCEPT !.op = "hourly", !.at = "look"]
  <2>1. order' = [order EXCEPT ![Hourly] = r] BY <1>4 DEF HourlyRun, Takes
  <2>2. r.at = "look" BY DEF NoOrder
  <2> HIDE DEF r
  <2> QED BY <1>1, <2>1, <2>2 DEF Caller
<1>5. ASSUME NEW c \in Caller, GiveUp(c) PROVE Goal
  BY <1>1, <1>2, <1>5 DEF GiveUp, EndOrder, Takes
<1>6. ASSUME NEW c \in Caller, OrderGoesOn(c) PROVE Goal
  <2>1. CASE order' = [order EXCEPT ![c] = NoOrder] BY <1>1, <1>2, <2>1
  <2>2. CASE \E at \in {"mark", "look", "tasks", "drop", "status"} : On(c, at)
    <3>1. PICK at \in {"mark", "look", "tasks", "drop", "status"} : On(c, at) BY <2>2
    <3> DEFINE r == [order[c] EXCEPT !.at = at]
    <3>2. order' = [order EXCEPT ![c] = r] BY <3>1 DEF On
    <3>3. r.at = at BY <1>0 DEF OrderRecord
    <3> HIDE DEF r
    <3> QED BY <1>1, <3>1, <3>2, <3>3
  <2>3. CASE Mark(c) \/ ReadPlan(c) \/ Look(c) \/ Insert(c)
    <3>1. CASE c = d BY <2>3, <3>1
    <3>2. CASE c # d
      BY <1>0, <2>3, <3>2 DEF Mark, ReadPlan, Look, Insert, On, EndOrder, Takes
    <3> QED BY <3>1, <3>2
  <2>4. \/ order' = [order EXCEPT ![c] = NoOrder]
        \/ \E at \in {"mark", "look", "tasks", "drop", "status"} : On(c, at)
        \/ Mark(c) \/ ReadPlan(c) \/ Look(c) \/ Insert(c)
    BY <1>6 DEF OrderGoesOn, CheckTask, PutNext, CommitTask, EditPlan, EditTasks, SetActive,
                DropUntouched, MoveDue, SetPending, EndOrder, Takes
  <2> QED BY <2>1, <2>2, <2>3, <2>4
<1>7. CASE UNCHANGED order BY <1>7
<1>8. \/ \E c \in Staff : Ask(c)
      \/ \E c \in Caller : OrderGoesOn(c) \/ GiveUp(c)
      \/ HourlyRun \/ UNCHANGED order
  BY DEF MaintNext, NextDay, StartTask, Touch, maintVars
<1> QED BY <1>3, <1>4, <1>5, <1>6, <1>7, <1>8

LEMMA Goes ==
  ASSUME Shape, NEW c \in Caller
  PROVE  /\ Mark(c) => order'[c].at \in {"next", "idle"}
         /\ ReadPlan(c) => order'[c].at \in {"put", "idle"}
         /\ Look(c) => order'[c].at \in {"insert", "idle"}
         /\ Insert(c) => order'[c].at \in {"commit", "idle"}
<1>0. order \in [Caller -> OrderRecord] BY DEF Shape
<1>1. EndOrder(c) => order'[c].at = "idle" BY <1>0 DEF EndOrder, Takes, NoOrder
<1>2. \A at : On(c, at) => order'[c].at = at BY <1>0 DEF On, OrderRecord
<1>3. ASSUME NEW at, NEW day, Takes(c, [order[c] EXCEPT !.at = at, !.day = day])
      PROVE  order'[c].at = at
  <2>1. order'[c] = [order[c] EXCEPT !.at = at, !.day = day] BY <1>0, <1>3 DEF Takes
  <2> QED BY <1>0, <2>1 DEF OrderRecord
<1>4. Mark(c) => EndOrder(c) \/ On(c, "next") BY DEF Mark
<1>5. ReadPlan(c) => \/ EndOrder(c)
                     \/ \E day : Takes(c, [order[c] EXCEPT !.at = "put", !.day = day])
  BY Zenon DEF ReadPlan
<1>6. Look(c) => EndOrder(c) \/ On(c, "insert") BY DEF Look
<1>7. Insert(c) => \/ EndOrder(c)
                   \/ \E day : Takes(c, [order[c] EXCEPT !.at = "commit", !.day = day])
  BY Zenon DEF Insert
<1> QED BY <1>1, <1>2, <1>3, <1>4, <1>5, <1>6, <1>7

-----------------------------------------------------------------------------
(* One open task                                                           *)

LEMMA StartSound == MaintInit => Sound /\ LockKept /\ OneOpenTask /\ ClosedByOne
<1> SUFFICES ASSUME MaintInit PROVE Sound /\ LockKept /\ OneOpenTask /\ ClosedByOne OBVIOUS
<1> USE DEF MaintInit
<1>1. NewTask(0) \in TaskRecord BY NewTaskRecord
<1>2. tasks \in Seq(TaskRecord) /\ DOMAIN tasks \subseteq {1}
  <2>1. CASE tasks = <<>> BY <2>1
  <2>2. CASE tasks = <<NewTask(0)>>
    <3> DEFINE t == NewTask(0)
    <3>1. t \in TaskRecord /\ tasks = <<t>> BY <1>1, <2>2
    <3> HIDE DEF t
    <3>2. <<t>> \in Seq(TaskRecord) /\ Len(<<t>>) = 1 BY <3>1
    <3> QED BY <3>1, <3>2, LenProperties
  <2> QED BY <2>1, <2>2
<1>3. \A c \in Caller : order[c] = NoOrder OBVIOUS
<1>4. NoOrder \in OrderRecord /\ NoOrder.at = "idle" BY DEF NoOrder, OrderRecord, Places
<1>5. Sound
  <2>1. mplan \in [active : BOOLEAN, next : Nat, fixed : BOOLEAN] OBVIOUS
  <2>2. today \in 0..Days BY MaintenanceAssumption
  <2> QED BY <1>2, <1>3, <1>4, <2>1, <2>2 DEF Sound, Shape, TaskKnown
<1>6. LockKept BY <1>3, <1>4 DEF LockKept
<1>7. OneOpenTask BY <1>2 DEF OneOpenTask
<1>8. ClosedByOne BY <1>3, <1>4 DEF ClosedByOne, Closing, Caller
<1> QED BY <1>5, <1>6, <1>7, <1>8

\* Who is about to create a task has the lock; the lock is taken from no one else.
LEMMA LockStep ==
  ASSUME Sound, LockKept, [MaintNext]_maintVars, NEW d \in Caller,
         order'[d].at \in {"insert", "commit"}
  PROVE  planLock' = d /\ ~HasOpen /\ ~(\E c \in Caller : CommitTask(c))
<1>0. order \in [Caller -> OrderRecord] /\ Unheld \notin Caller
  BY MaintenanceAssumption DEF Sound, Shape, Caller
<1>1. ASSUME NEW c \in Caller, CommitTask(c) PROVE FALSE
  <2>1. planLock = c BY <1>1 DEF CommitTask, LockKept
  <2>2. d # c BY <1>0, <1>1 DEF CommitTask, EndOrder, Takes, NoOrder
  <2>3. order'[d] = order[d] BY <1>0, <1>1, <2>2 DEF CommitTask, EndOrder, Takes
  <2> QED BY <2>1, <2>2, <2>3 DEF LockKept
<1>2. CASE order'[d] = order[d]
  <2>1. planLock = d /\ ~HasOpen BY <1>2 DEF LockKept
  <2>2. ASSUME NEW c \in Caller, Look(c) PROVE FALSE BY <1>0, <2>1, <2>2 DEF Look
  <2>3. ASSUME NEW c \in Caller, Insert(c) PROVE FALSE
    <3>1. c = d BY <2>1, <2>3 DEF Insert, LockKept
    <3>2. order[d].at = "insert" BY <2>3, <3>1 DEF Insert
    <3>3. order'[d].at \in {"commit", "idle"} BY <2>3, <3>1, Goes DEF Sound
    <3> QED BY <1>2, <3>2, <3>3
  <2>4. ASSUME NEW c \in Caller, GiveUp(c) PROVE planLock' = planLock
    <3>1. CASE planLock = c
      <4>1. order'[d] = NoOrder BY <1>0, <2>1, <2>4, <3>1 DEF GiveUp, EndOrder, Takes
      <4> QED BY <4>1 DEF NoOrder
    <3> QED BY <2>4, <3>1 DEF GiveUp
  <2>5. \/ planLock' = planLock
        \/ \E c \in Caller : Look(c) \/ Insert(c) \/ CommitTask(c) \/ GiveUp(c)
    BY DEF MaintNext, maintVars, Ask, OrderGoesOn, HourlyRun, NextDay, StartTask, Touch, CheckTask,
           Mark, ReadPlan, PutNext, EditPlan, EditTasks, SetActive, DropUntouched, MoveDue, SetPending
  <2> QED BY <1>1, <2>1, <2>2, <2>3, <2>4, <2>5
<1>3. CASE Mark(d) \/ ReadPlan(d)
  <2>1. order'[d].at \in {"next", "put", "idle"}
    BY <1>3, Goes DEF Sound
  <2> QED BY <2>1
<1>4. CASE Look(d)
  <2>1. ~HasOpen
    <3>1. CASE HasOpen
      <4>1. order'[d] = NoOrder BY <1>0, <1>4, <3>1 DEF Look, EndOrder, Takes
      <4> QED BY <4>1 DEF NoOrder
    <3> QED BY <3>1
  <2> QED BY <1>1, <1>4, <2>1 DEF Look
<1>5. CASE Insert(d)
  <2>1. planLock = d /\ ~HasOpen BY <1>5 DEF Insert, LockKept
  <2>2. mplan.active
    <3>1. CASE ~mplan.active
      <4>1. order'[d] = NoOrder BY <1>0, <1>5, <3>1 DEF Insert, EndOrder, Takes
      <4> QED BY <4>1 DEF NoOrder
    <3> QED BY <3>1
  <2> QED BY <1>1, <1>5, <2>1, <2>2 DEF Insert
<1>6. \/ order'[d] = order[d] \/ Mark(d) \/ ReadPlan(d) \/ Look(d) \/ Insert(d)
  BY OrderMoves DEF Sound
<1> QED BY <1>2, <1>3, <1>4, <1>5, <1>6

LEMMA LockStays ==
  ASSUME Sound, LockKept, "create" \notin Ops, [MaintNext]_maintVars
  PROVE  LockKept'
<1> SUFFICES ASSUME NEW d \in Caller, order'[d].at \in {"insert", "commit"}
             PROVE  planLock' = d /\ ~HasOpen'
  BY DEF LockKept
<1>1. planLock' = d /\ ~HasOpen /\ ~(\E c \in Caller : CommitTask(c)) BY LockStep
<1>2. NoneReopened /\ NoneAdded BY <1>1, StepSound
<1> QED BY <1>1, <1>2 DEF HasOpen, NoneReopened, NoneAdded

LEMMA OneStaysOpen ==
  ASSUME Sound, LockKept, OneOpenTask, "create" \notin Ops, [MaintNext]_maintVars
  PROVE  OneOpenTask'
<1>1. CASE NoneAdded
  BY <1>1, StepSound DEF OneOpenTask, NoneReopened, NoneAdded
<1>2. ASSUME NEW c \in Caller, CommitTask(c) PROVE OneOpenTask'
  <2>1. ~HasOpen BY <1>2 DEF CommitTask, LockKept
  <2>2. NewTask(order[c].day) \in TaskRecord BY NewTaskRecord DEF Sound, Shape, OrderRecord
  <2>3. /\ DOMAIN tasks' = DOMAIN tasks \cup {Len(tasks) + 1}
        /\ \A i \in DOMAIN tasks : tasks'[i] = tasks[i]
    BY <1>2, <2>2, OneAdded DEF CommitTask, Sound, Shape
  <2>4. \A i \in DOMAIN tasks : tasks'[i].status \notin OpenStatus BY <2>1, <2>3 DEF HasOpen
  <2> QED BY <2>3, <2>4 DEF OneOpenTask
<1> QED BY <1>1, <1>2, StepSound

(* A plan has at most one open task however many requests complete, skip,  *)
(* edit, wait for and wake it beside the hourly run, and wherever they     *)
(* break off: ensureTaskForPlan looks and inserts under the advisory lock, *)
(* and nothing opens a closed task.  Without CreateTask, which inserts     *)
(* without the lock.                                                       *)
THEOREM OneOpen == "create" \notin Ops => (MaintSpec => []OneOpenTask)
<1> SUFFICES ASSUME "create" \notin Ops PROVE MaintSpec => []OneOpenTask OBVIOUS
<1> DEFINE Inv == Sound /\ LockKept /\ OneOpenTask
<1>1. MaintInit => Inv BY StartSound
<1>2. Inv /\ [MaintNext]_maintVars => Inv' BY StepSound, LockStays, OneStaysOpen
<1>3. Inv => OneOpenTask OBVIOUS
<1> QED BY <1>1, <1>2, <1>3, PTL DEF MaintSpec

-----------------------------------------------------------------------------
(* Types                                                                   *)

(* Every operation leaves plan, tasks, lock and requests of their kinds;   *)
(* above all, the next date of a fixed rhythm exists whatever the due day. *)
THEOREM MaintTypesHold == MaintSpec => []MaintTypeOK
<1>1. MaintInit => Sound BY StartSound
<1>2. Sound /\ [MaintNext]_maintVars => Sound' BY StepSound
<1>3. Sound => MaintTypeOK
  BY TaskOf DEF Sound, Shape, MaintTypeOK, TaskRecord, OrderRecord, Places
<1> QED BY <1>1, <1>2, <1>3, PTL DEF MaintSpec

-----------------------------------------------------------------------------
(* Closed by one                                                           *)

\* A request comes to close a task by marking it, which was open.
LEMMA ClosingStep ==
  ASSUME Sound, [MaintNext]_maintVars, NEW c \in Caller, Closing(c)'
  PROVE  /\ order'[c].task = order[c].task /\ order[c].task \in DOMAIN tasks
         /\ \/ Closing(c)
            \/ /\ tasks[order[c].task].status \in OpenStatus
               /\ tasks'[order[c].task].status \notin OpenStatus
               /\ \A d \in Caller \ {c} : order'[d] = order[d]
<1>0. order \in [Caller -> OrderRecord] BY DEF Sound, Shape
<1>10. order'[c].at \in {"next", "put"} BY DEF Closing
<1>1. CASE order'[c] = order[c] BY <1>0, <1>1 DEF Closing, Sound, TaskKnown
<1>2. CASE Mark(c)
  <2> DEFINE i == order[c].task
  <2>1. i \in DOMAIN tasks BY <1>2 DEF Mark, Sound, TaskKnown
  <2>2. tasks[i].status \in OpenStatus
    <3>1. CASE tasks[i].status \notin OpenStatus
      <4>1. order'[c] = NoOrder BY <1>0, <1>2, <3>1 DEF Mark, EndOrder, Takes
      <4> QED BY <1>10, <4>1 DEF NoOrder
    <3> QED BY <3>1
  <2>3. order' = [order EXCEPT ![c].at = "next"] BY <1>2, <2>2 DEF Mark, On
  <2>4. order'[c].task = i /\ \A d \in Caller \ {c} : order'[d] = order[d]
    BY <1>0, <2>3 DEF OrderRecord
  <2>5. tasks[i] \in TaskRecord BY <2>1, TaskOf DEF Sound
  <2>6. tasks'[i] = [tasks[i] EXCEPT !.status = IF order[c].op = "skip" THEN "skipped" ELSE "done",
                                     !.completed = today]
    BY <1>2, <2>1, <2>2 DEF Mark
  <2>7. tasks'[i].status \in {"skipped", "done"} BY <2>5, <2>6 DEF TaskRecord
  <2> QED BY <2>1, <2>2, <2>4, <2>7 DEF OpenStatus
<1>3. CASE ReadPlan(c)
  <2>1. Closing(c) /\ order[c].task \in DOMAIN tasks BY <1>3 DEF ReadPlan, Closing, Sound, TaskKnown
  <2>2. CASE order' = [order EXCEPT ![c] = NoOrder] BY <1>0, <1>10, <2>2 DEF NoOrder
  <2>3. CASE \E day : order' = [order EXCEPT ![c] = [order[c] EXCEPT !.at = "put", !.day = day]]
    BY <1>0, <2>1, <2>3 DEF OrderRecord
  <2> QED BY <1>3, <2>2, <2>3 DEF ReadPlan, EndOrder, Takes
<1>4. CASE Look(c) \/ Insert(c)
  <2>1. order'[c].at \in {"insert", "commit", "idle"}
    BY <1>4, Goes DEF Sound
  <2> QED BY <1>10, <2>1
<1> QED BY <1>10, <1>1, <1>2, <1>3, <1>4, OrderMoves DEF Sound

LEMMA ClosedStays ==
  ASSUME Sound, ClosedByOne, [MaintNext]_maintVars
  PROVE  ClosedByOne'
<1>0. Staff \subseteq Caller BY DEF Caller
<1>1. NoneReopened BY StepSound
<1> SUFFICES ASSUME NEW c \in Staff, Closing(c)'
             PROVE  /\ tasks'[order'[c].task].status \notin OpenStatus
                    /\ \A d \in Staff \ {c} : Closing(d)' => order'[d].task # order'[c].task
  BY DEF ClosedByOne
<1>2. /\ order'[c].task = order[c].task /\ order[c].task \in DOMAIN tasks
      /\ \/ Closing(c)
         \/ /\ tasks[order[c].task].status \in OpenStatus
            /\ tasks'[order[c].task].status \notin OpenStatus
            /\ \A d \in Caller \ {c} : order'[d] = order[d]
  BY <1>0, ClosingStep
<1>3. tasks'[order'[c].task].status \notin OpenStatus
  BY <1>1, <1>2 DEF ClosedByOne, NoneReopened
<1>4. ASSUME NEW d \in Staff \ {c}, Closing(d)' PROVE order'[d].task # order'[c].task
  <2>1. /\ order'[d].task = order[d].task /\ order[d].task \in DOMAIN tasks
        /\ \/ Closing(d)
           \/ /\ tasks[order[d].task].status \in OpenStatus
              /\ tasks'[order[d].task].status \notin OpenStatus
              /\ \A e \in Caller \ {d} : order'[e] = order[e]
    BY <1>0, <1>4, ClosingStep
  <2>2. CASE Closing(c) /\ Closing(d) BY <1>2, <2>1, <2>2 DEF ClosedByOne
  <2>3. CASE Closing(c) /\ ~Closing(d) BY <1>2, <2>1, <2>3 DEF ClosedByOne
  <2>4. CASE ~Closing(c) /\ Closing(d) BY <1>2, <2>1, <2>4 DEF ClosedByOne
  <2>5. CASE ~Closing(c) /\ ~Closing(d)
    <3>1. order'[d] = order[d] BY <1>0, <1>2, <2>5
    <3> QED BY <1>4, <2>5, <3>1 DEF Closing
  <2> QED BY <2>2, <2>3, <2>4, <2>5
<1> QED BY <1>3, <1>4

(* A task is closed by one request: markDone and markSkipped ask for an    *)
(* open status in their WHERE, so of two requests that complete and skip   *)
(* one task only one goes on to set the next date, and no other operation  *)
(* opens the task again meanwhile.                                         *)
THEOREM ClosedOnce == MaintSpec => []ClosedByOne
<1> DEFINE Inv == Sound /\ ClosedByOne
<1>1. MaintInit => Inv BY StartSound
<1>2. Inv /\ [MaintNext]_maintVars => Inv' BY StepSound, ClosedStays
<1>3. Inv => ClosedByOne OBVIOUS
<1> QED BY <1>1, <1>2, <1>3, PTL DEF MaintSpec

=============================================================================
