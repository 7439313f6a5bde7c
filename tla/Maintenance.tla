---------------------------- MODULE Maintenance ----------------------------
(***************************************************************************)
(* A maintenance plan and its tasks (src/internal/modules/maintenance):    *)
(* an active plan has one open task, its next date; whoever finishes or    *)
(* skips it sets the date after it and creates the next task, and an       *)
(* hourly run creates the one that is missing.                             *)
(*                                                                         *)
(* Only ensureTaskForPlan runs in a transaction; of every other operation  *)
(* each statement commits on its own, requests run beside each other and   *)
(* may break off between two statements.  The parts a task uses are in     *)
(* module Stock.                                                           *)
(***************************************************************************)
EXTENDS Integers, Sequences

CONSTANTS Staff,       \* requests in flight
          Hourly,      \* the hourly run (StartScheduler)
          Unheld,      \* nobody holds the lock of the plan
          Every,       \* the interval, in days
          Days,        \* bound: the last day
          Ops,         \* bound: the operations users ask for
          MaxOrders,   \* bound: requests in a behaviour
          MaxBreakOffs \* bound: requests that break off

ASSUME MaintenanceAssumption == /\ Every \in Nat \ {0}
                                /\ Days \in Nat /\ MaxOrders \in Nat /\ MaxBreakOffs \in Nat
                                /\ Hourly \notin Staff /\ Unheld \notin Staff \cup {Hourly}

VARIABLES mplan,       \* active, next_due_at, and schedule_mode: fixed or not
          tasks,       \* the plan's maintenance_tasks in the order they were created
          planLock,    \* who holds pg_advisory_xact_lock of the plan
          today,
          order,       \* the requests: where they are and what they have read
          orders, breakOffs

maintVars == <<mplan, tasks, planLock, today, order, orders, breakOffs>>

Caller == Staff \cup {Hourly}
OpenStatus == {"open", "in_progress", "pending"}
NoOrder == [at |-> "idle", op |-> "none", task |-> 0, day |-> 0, fixed |-> FALSE]
NewTask(due) == [status |-> "open", due |-> due, touched |-> FALSE, completed |-> 0]

HasOpen == \E i \in DOMAIN tasks : tasks[i].status \in OpenStatus

\* A plan with its task, or just created, or one whose creation broke off.
MaintInit ==
  /\ mplan \in [active : BOOLEAN, next : {0}, fixed : BOOLEAN]
  /\ tasks \in {<<>>, <<NewTask(0)>>}
  /\ planLock = Unheld /\ today = 0
  /\ order = [c \in Caller |-> NoOrder]
  /\ orders = 0 /\ breakOffs = 0

-----------------------------------------------------------------------------
Takes(c, r) == order' = [order EXCEPT ![c] = r]
On(c, at) == order' = [order EXCEPT ![c].at = at]
EndOrder(c) == Takes(c, NoOrder)

(* A request arrives.  CreateTask with the id of the plan and DeleteTask   *)
(* are one statement each, and so are the changes below.                   *)
Ask(c) ==
  /\ order[c].at = "idle" /\ orders < MaxOrders
  /\ orders' = orders + 1
  /\ \E op \in Ops :
       \/ /\ op \in {"complete", "skip", "wait"}
          /\ \E i \in DOMAIN tasks :
               Takes(c, [NoOrder EXCEPT !.op = op, !.task = i,
                           !.at = CASE op = "complete" -> "check"
                                    [] op = "skip" -> "mark"
                                    [] op = "wait" -> "due"])
          /\ UNCHANGED tasks
       \/ /\ op = "edit"
          /\ \E day \in 0..Days, fixed \in BOOLEAN :
               Takes(c, [NoOrder EXCEPT !.op = op, !.at = "plan", !.day = day, !.fixed = fixed])
          /\ UNCHANGED tasks
       \/ /\ op \in {"rest", "wake"}
          /\ Takes(c, [NoOrder EXCEPT !.op = op, !.at = "active"])
          /\ UNCHANGED tasks
       \/ /\ op = "create"
          /\ tasks' = Append(tasks, NewTask(today))
          /\ UNCHANGED order
       \/ /\ op = "delete"
          /\ \E i \in DOMAIN tasks : tasks' = [tasks EXCEPT ![i].status = "gone"]
          /\ UNCHANGED order
  /\ UNCHANGED <<mplan, planLock, today, breakOffs>>

(* EnsurePlanTasks begins: at the start, every hour and on request, for a  *)
(* plan its list names.                                                    *)
HourlyRun ==
  /\ order[Hourly].at = "idle"
  /\ mplan.active /\ ~HasOpen
  /\ Takes(Hourly, [NoOrder EXCEPT !.op = "hourly", !.at = "look"])
  /\ UNCHANGED <<mplan, tasks, planLock, today, orders, breakOffs>>

\* Mutant: a lock of the session, which outlives the transaction.
GiveUp_Locked(c) ==
  /\ order[c].at # "idle" /\ breakOffs < MaxBreakOffs
  /\ breakOffs' = breakOffs + 1
  /\ EndOrder(c)
  /\ UNCHANGED <<mplan, tasks, planLock, today, orders>>

(* A request breaks off: its statement failed or the program ended.  The   *)
(* lock goes with the transaction.                                         *)
GiveUp(c) ==
  /\ order[c].at # "idle" /\ breakOffs < MaxBreakOffs
  /\ breakOffs' = breakOffs + 1
  /\ planLock' = IF planLock = c THEN Unheld ELSE planLock
  /\ EndOrder(c)
  /\ UNCHANGED <<mplan, tasks, today, orders>>

NextDay == /\ today < Days /\ today' = today + 1
           /\ UNCHANGED <<mplan, tasks, planLock, order, orders, breakOffs>>

(* SetStatus and Assign: an open task is begun.                            *)
StartTask ==
  /\ \E i \in DOMAIN tasks : /\ tasks[i].status \in OpenStatus
                             /\ tasks' = [tasks EXCEPT ![i].status = "in_progress"]
  /\ UNCHANGED <<mplan, planLock, today, order, orders, breakOffs>>

(* SaveStep, AddAction, AddPendingPart: the task is no longer untouched.   *)
Touch ==
  /\ \E i \in DOMAIN tasks : /\ tasks[i].status # "gone"
                             /\ tasks' = [tasks EXCEPT ![i].touched = TRUE]
  /\ UNCHANGED <<mplan, planLock, today, order, orders, breakOffs>>

-----------------------------------------------------------------------------
(* Complete: the task must be open, and what the form asks for be there;   *)
(* an action at least (CountActions).                                      *)
CheckTask(c) ==
  /\ order[c].at = "check"
  /\ LET t == tasks[order[c].task] IN
     IF t.status \in OpenStatus /\ t.touched THEN On(c, "mark") ELSE EndOrder(c)
  /\ UNCHANGED <<mplan, tasks, planLock, today, orders, breakOffs>>

\* Mutant: UPDATE without a look at the status.
Mark_Anyway(c) ==
  /\ order[c].at = "mark"
  /\ tasks' = [tasks EXCEPT ![order[c].task].status = "done", ![order[c].task].completed = today]
  /\ On(c, "next")
  /\ UNCHANGED <<mplan, planLock, today, orders, breakOffs>>

(* markDone, markSkipped: WHERE status IN (the open ones).                 *)
Mark(c) ==
  /\ order[c].at = "mark"
  /\ LET i == order[c].task IN
     IF tasks[i].status \in OpenStatus
     THEN /\ tasks' = [tasks EXCEPT ![i].status = IF order[c].op = "skip" THEN "skipped" ELSE "done",
                                    ![i].completed = today]
          /\ On(c, "next")
     ELSE EndOrder(c) /\ UNCHANGED tasks
  /\ UNCHANGED <<mplan, planLock, today, orders, breakOffs>>

(* nextDueFor: in a fixed rhythm the first date after the due day that is  *)
(* not past, else the interval from the day it was done.                   *)
NextDueFor(t) ==
  IF ~mplan.fixed
  THEN (IF t.status = "done" THEN t.completed ELSE today) + Every
  ELSE LET later == {t.due + k * Every : k \in 1..(Days + 1)}
       IN  CHOOSE n \in later : n >= today /\ \A m \in later : m >= today => n <= m

(* ScheduleNext reads the task and the plan, then sets next_due_at.        *)
ReadPlan(c) ==
  /\ order[c].at = "next"
  /\ LET t == tasks[order[c].task] IN
     IF t.status # "gone" /\ mplan.active
     THEN Takes(c, [order[c] EXCEPT !.at = "put", !.day = NextDueFor(t)])
     ELSE EndOrder(c)
  /\ UNCHANGED <<mplan, tasks, planLock, today, orders, breakOffs>>

PutNext(c) ==
  /\ order[c].at = "put"
  /\ mplan' = [mplan EXCEPT !.next = order[c].day]
  /\ On(c, "look")
  /\ UNCHANGED <<tasks, planLock, today, orders, breakOffs>>

-----------------------------------------------------------------------------
\* Mutant: without the lock.
Look_Unlocked(c) ==
  /\ order[c].at = "look"
  /\ IF HasOpen THEN EndOrder(c) ELSE On(c, "insert")
  /\ UNCHANGED <<mplan, tasks, planLock, today, orders, breakOffs>>

(* ensureTaskForPlan: lock and look for an open task; insert the next one  *)
(* from what the plan holds then, if it is active; commit.                 *)
Look(c) ==
  /\ order[c].at = "look"
  /\ planLock = Unheld
  /\ IF HasOpen
     THEN EndOrder(c) /\ UNCHANGED planLock
     ELSE On(c, "insert") /\ planLock' = c
  /\ UNCHANGED <<mplan, tasks, today, orders, breakOffs>>

Insert(c) ==
  /\ order[c].at = "insert"
  /\ IF mplan.active
     THEN Takes(c, [order[c] EXCEPT !.at = "commit", !.day = mplan.next]) /\ UNCHANGED planLock
     ELSE EndOrder(c) /\ planLock' = Unheld
  /\ UNCHANGED <<mplan, tasks, today, orders, breakOffs>>

CommitTask(c) ==
  /\ order[c].at = "commit"
  /\ tasks' = Append(tasks, NewTask(order[c].day))
  /\ planLock' = Unheld
  /\ EndOrder(c)
  /\ UNCHANGED <<mplan, today, orders, breakOffs>>

-----------------------------------------------------------------------------
(* UpdatePlan: the plan; its date to the task not yet begun; the task that *)
(* is missing.                                                             *)
EditPlan(c) ==
  /\ order[c].at = "plan"
  /\ mplan' = [mplan EXCEPT !.next = order[c].day, !.fixed = order[c].fixed]
  /\ On(c, "tasks")
  /\ UNCHANGED <<tasks, planLock, today, orders, breakOffs>>

EditTasks(c) ==
  /\ order[c].at = "tasks"
  /\ tasks' = [i \in DOMAIN tasks |->
                 IF tasks[i].status = "open" THEN [tasks[i] EXCEPT !.due = mplan.next] ELSE tasks[i]]
  /\ On(c, "look")
  /\ UNCHANGED <<mplan, planLock, today, orders, breakOffs>>

(* SetPlanActive: a plan that rests loses its untouched task, one that     *)
(* wakes gets its task.                                                    *)
SetActive(c) ==
  /\ order[c].at = "active"
  /\ mplan' = [mplan EXCEPT !.active = order[c].op = "wake"]
  /\ On(c, IF order[c].op = "wake" THEN "look" ELSE "drop")
  /\ UNCHANGED <<tasks, planLock, today, orders, breakOffs>>

DropUntouched(c) ==
  /\ order[c].at = "drop"
  /\ tasks' = [i \in DOMAIN tasks |->
                 IF tasks[i].status = "open" /\ ~tasks[i].touched
                 THEN [tasks[i] EXCEPT !.status = "gone"] ELSE tasks[i]]
  /\ EndOrder(c)
  /\ UNCHANGED <<mplan, planLock, today, orders, breakOffs>>

(* Wait: the date first, without a look at the status, then the status.    *)
MoveDue(c) ==
  /\ order[c].at = "due"
  /\ tasks' = [tasks EXCEPT ![order[c].task].due = today + 1]
  /\ On(c, "status")
  /\ UNCHANGED <<mplan, planLock, today, orders, breakOffs>>

SetPending(c) ==
  /\ order[c].at = "status"
  /\ tasks' = [tasks EXCEPT ![order[c].task].status = IF @ \in OpenStatus THEN "pending" ELSE @]
  /\ EndOrder(c)
  /\ UNCHANGED <<mplan, planLock, today, orders, breakOffs>>

-----------------------------------------------------------------------------
OrderGoesOn(c) ==
  \/ CheckTask(c) \/ Mark(c) \/ ReadPlan(c) \/ PutNext(c)
  \/ Look(c) \/ Insert(c) \/ CommitTask(c)
  \/ EditPlan(c) \/ EditTasks(c) \/ SetActive(c) \/ DropUntouched(c)
  \/ MoveDue(c) \/ SetPending(c)

MaintNext ==
  \/ \E c \in Staff : Ask(c)
  \/ \E c \in Caller : OrderGoesOn(c) \/ GiveUp(c)
  \/ HourlyRun \/ NextDay \/ StartTask \/ Touch

(* A request that runs comes to its end, and the hourly run comes again.   *)
MaintFair == /\ \A c \in Caller : WF_maintVars(OrderGoesOn(c))
             /\ WF_maintVars(HourlyRun)

MaintSpec == MaintInit /\ [][MaintNext]_maintVars /\ MaintFair

-----------------------------------------------------------------------------
MaintTypeOK ==
  /\ mplan \in [active : BOOLEAN, next : Nat, fixed : BOOLEAN]
  /\ \A i \in DOMAIN tasks :
       tasks[i] \in [status : OpenStatus \cup {"done", "skipped", "gone"}, due : Nat,
                     touched : BOOLEAN, completed : 0..Days]
  /\ planLock \in Caller \cup {Unheld}
  /\ \A c \in Caller : order[c].at \in {"idle", "check", "mark", "next", "put", "look", "insert",
       "commit", "plan", "tasks", "active", "drop", "due", "status"}

(* A plan never has two open tasks, whoever completes, skips, edits, wakes *)
(* and generates at once (schedule.go: one open task, a lock per plan).    *)
OneOpenTask ==
  \A i, j \in DOMAIN tasks :
    tasks[i].status \in OpenStatus /\ tasks[j].status \in OpenStatus => i = j

(* A task is closed by one request: only that one goes on to set the next  *)
(* date, and nobody opens the task again behind its back.                  *)
Closing(c) == order[c].at \in {"next", "put"}
ClosedByOne ==
  \A c \in Staff : Closing(c) =>
    /\ tasks[order[c].task].status \notin OpenStatus
    /\ \A d \in Staff \ {c} : Closing(d) => order[d].task # order[c].task

(* An active plan without an open task gets one, wherever the request that *)
(* should have created it broke off (the hourly run).                      *)
PlanServed == (mplan.active /\ ~HasOpen) ~> (~mplan.active \/ HasOpen)

(* Finished or skipped, a date does not come again: the next task is due   *)
(* later (schedule.go: ScheduleNext computes the date that follows).       *)
DueOnce ==
  \A i, j \in DOMAIN tasks : i < j => tasks[i].due < tasks[j].due
=============================================================================
