---------------------------- MODULE SingleUpdate ----------------------------
(***************************************************************************)
(* An update of a server without a partner, carried out by the update      *)
(* agent (cmd/update-agent/job.go, job_host.go, install_update.sh), and    *)
(* the maintenance lock of pdh that follows it                             *)
(* (internal/web/maint_lock.go).                                           *)
(*                                                                         *)
(* The agent runs one host command after another; it keeps the job in      *)
(* memory and in update-job.json, it is restarted by the scripts it runs   *)
(* and may die between any two commands, and any command may fail.         *)
(* pdh runs bin/pdh: whatever was built last is what starts.               *)
(***************************************************************************)
EXTENDS Naturals, Sequences

CONSTANTS MaxWork,      \* bound: changes users make
          MaxRefusals,  \* bound: commands that fail, answers of /health that do not come
          MaxKills,     \* bound: the agent dies
          MaxUnsaved,   \* bound: update-job.json cannot be written
          MaxRelaunches \* bound: pdh ends by itself and is started again

ASSUME SingleAssumption ==
  {MaxWork, MaxRefusals, MaxKills, MaxUnsaved, MaxRelaunches} \subseteq Nat

VARIABLES
  update,    \* the job in memory
  saved,     \* update-job.json
  plan,      \* what the running step of the job does
  todo,      \* the host commands left of it
  rerun,     \* a script has ordered the restart of the agent
  agentUp,   \* the agent runs and answers
  source,    \* the checkout: "old", "new"
  bin,       \* bin/pdh
  stamp,     \* bin/.built-commit
  pdhRuns,   \* the running program, or "off"
  schema,    \* the database: "old", "new"
  work, made,\* the users' changes in the database, and all they made
  late,      \* those in the database that pdh let in after it had lifted the job's lock
  dump,      \* the backup before the update: its schema and changes
  sound,     \* the new version answers /health once it runs
  locks,     \* the maintenance lock as pdh last heard of it
  silent,    \* without an answer for 30 s: pdh has lifted the lock
  refusals, kills, unsaved, relaunches

hostVars == <<source, bin, stamp, pdhRuns, schema, work, made, late,
              dump, sound, locks, silent>>
agentVars == <<update, saved, plan, todo, rerun, agentUp>>
singleBounds == <<refusals, kills, unsaved, relaunches>>
singleVars == <<agentVars, hostVars, singleBounds>>

\* mark: the version is remembered as faulty; remark: the result asks for a human.
NoUpdate == [phase |-> "none", aborted |-> FALSE, finishing |-> FALSE,
             rb |-> "stop", mark |-> FALSE, remark |-> FALSE]

SingleInit ==
  /\ update = NoUpdate /\ saved = NoUpdate
  /\ plan = "none" /\ todo = <<>> /\ rerun = FALSE /\ agentUp = TRUE
  /\ source = "old" /\ bin = "old" /\ stamp = "old" /\ pdhRuns = "old"
  /\ schema = "old" /\ work = 0 /\ made = 0 /\ late = 0
  /\ dump = [schema |-> "none", work |-> 0, late |-> 0]
  /\ sound \in BOOLEAN /\ locks = FALSE /\ silent = FALSE
  /\ refusals = 0 /\ kills = 0 /\ unsaved = 0 /\ relaunches = 0

-----------------------------------------------------------------------------
(* The job. *)

Over(u) == u.phase \in {"none", "done", "failed"}
Locks(u) == u.phase \in {"locked", "verify_new", "release", "rollback"}

\* jobPut: an abort that came in meanwhile stays.
Put(u) ==
  /\ update' = [u EXCEPT !.aborted = @ \/ update.aborted]
  /\ \/ saved' = update' /\ UNCHANGED unsaved
     \/ unsaved < MaxUnsaved /\ unsaved' = unsaved + 1 /\ UNCHANGED saved

Plans(p, steps) == plan' = p /\ todo' = steps

EntersPhase(p) == Put([update EXCEPT !.phase = p]) /\ Plans("none", <<>>)

FailsWith(mark, remark) ==
  /\ Put([update EXCEPT !.phase = "failed", !.mark = mark, !.remark = @ \/ remark])
  /\ Plans("none", <<>>)

\* install_update.sh in its parts: fetch and merge or reset, build, restart.
Install == <<"fetch", "build">>
Undo == <<"reset", "build">>

\* Mutant: gives up without starting pdh again.
Abandons_Off == Plans("abandon", Undo \o <<"unlock">>) /\ UNCHANGED <<update, saved, unsaved>>

\* jobAbandon
Abandons == Plans("abandon", Undo \o <<"unlock", "start">>) /\ UNCHANGED <<update, saved, unsaved>>

\* Mutant: back to the old program without the backup.
RollsBack_ProgramOnly(mark) ==
  /\ Put([update EXCEPT !.phase = "rollback", !.mark = mark, !.rb = "script"])
  /\ Plans("none", <<>>)

\* jobRollback
RollsBack(mark) ==
  /\ Put([update EXCEPT !.phase = "rollback", !.mark = mark, !.rb = "stop"])
  /\ Plans("none", <<>>)

Stays == UNCHANGED <<rerun, hostVars, refusals, kills, relaunches>>

StartSingleJob ==
  /\ agentUp /\ update.phase = "none"
  /\ Put([NoUpdate EXCEPT !.phase = "prepare"]) /\ UNCHANGED <<plan, todo, agentUp>> /\ Stays

Ready(p) == plan = "none" /\ update.phase = p

JobPrepare ==
  /\ Ready("prepare") /\ Stays
  /\ IF update.aborted THEN FailsWith(FALSE, FALSE)
     ELSE Plans("prepare", Install) /\ UNCHANGED <<update, saved, unsaved>>

JobCountdown ==
  /\ Ready("countdown") /\ Stays
  /\ IF update.aborted THEN Plans("cancel", Undo) /\ UNCHANGED <<update, saved, unsaved>>
     ELSE EntersPhase("locked")

\* Mutant: the backup before pdh is stopped.
JobLocked_DumpFirst ==
  /\ Ready("locked") /\ Stays
  /\ IF update.finishing THEN EntersPhase("verify_new")
     ELSE IF update.aborted THEN Abandons
     ELSE /\ Plans("locked", <<"lock", "dump", "stop", "finishing", "restart">>)
          /\ UNCHANGED <<update, saved, unsaved>>

\* The first save of Finishing comes between the backup and --finish.
JobLocked ==
  /\ Ready("locked") /\ Stays
  /\ IF update.finishing THEN EntersPhase("verify_new")
     ELSE IF update.aborted THEN Abandons
     ELSE /\ Plans("locked", <<"lock", "stop", "dump", "finishing", "restart">>)
          /\ UNCHANGED <<update, saved, unsaved>>

\* The abort is read first, then /health is asked: an abort in between is kept
\* in the job but no longer looked at.
JobVerifyNew ==
  /\ Ready("verify_new") /\ Stays
  /\ IF update.aborted THEN RollsBack(FALSE)
     ELSE Plans("health", <<>>) /\ UNCHANGED <<update, saved, unsaved>>

PdhHealthy(v) == pdhRuns = v /\ schema = v /\ (v = "new" => sound)

\* Not healthy: asked again, or the time is up.
HealthAnswers ==
  /\ plan = "health"
  /\ \/ PdhHealthy("new") /\ EntersPhase("release") /\ Stays
     \/ /\ IF PdhHealthy("new") THEN refusals < MaxRefusals /\ refusals' = refusals + 1
                                ELSE UNCHANGED refusals
        /\ RollsBack(TRUE)
        /\ UNCHANGED <<rerun, hostVars, kills, relaunches>>

JobRelease ==
  /\ Ready("release") /\ Stays
  /\ Plans("release", <<"unlock">>) /\ UNCHANGED <<update, saved, unsaved>>

\* jobRollbackStep: every step is saved before the next one begins.
JobRollback ==
  /\ Ready("rollback") /\ Stays
  /\ IF ~update.finishing THEN Abandons
     ELSE CASE update.rb = "stop" -> Plans("rb_stop", <<"stop">>) /\ UNCHANGED <<update, saved, unsaved>>
            [] update.rb = "restore" -> Plans("rb_restore", <<"restore">>) /\ UNCHANGED <<update, saved, unsaved>>
            [] update.rb = "script" ->
                 Put([update EXCEPT !.rb = "verify"]) /\ Plans("rb_script", Undo \o <<"restart">>)
            [] update.rb = "verify" ->
                 /\ Plans("rb_unlock", <<"unlock">>)
                 /\ UNCHANGED <<saved, unsaved>>
                 /\ update' = [update EXCEPT !.remark = @ \/ ~PdhHealthy("old")]

\* The commands of a step are done.
PlanDone ==
  /\ plan \notin {"none", "health"} /\ todo = <<>>
  /\ CASE plan = "prepare" -> EntersPhase("countdown")
       [] plan \in {"cancel", "abandon"} -> FailsWith(FALSE, FALSE)
       [] plan = "discard" -> FailsWith(TRUE, FALSE)
       [] plan = "locked" -> EntersPhase("verify_new")
       [] plan = "release" -> EntersPhase("done")
       [] plan = "rb_stop" -> Put([update EXCEPT !.rb = "restore"]) /\ Plans("none", <<>>)
       [] plan = "rb_restore" -> Put([update EXCEPT !.rb = "script"]) /\ Plans("none", <<>>)
       [] plan = "rb_script" -> Put(update) /\ Plans("none", <<>>)
       [] plan = "rb_unlock" -> FailsWith(update.mark, FALSE)
  /\ Stays

\* abortSingleJob: accepted until the update is released or rolled back.
AbortSingleJob ==
  /\ agentUp /\ ~Over(update) /\ update.phase \notin {"rollback", "release"} /\ ~update.aborted
  /\ update' = [update EXCEPT !.aborted = TRUE]
  /\ saved' = update'
  /\ UNCHANGED <<plan, todo, agentUp, unsaved>> /\ Stays

-----------------------------------------------------------------------------
(* The host commands. *)

\* pdh starts what was built last; a new program migrates the database.  It
\* begins locked, and counts the 30 s without an answer anew (maintInit).
Starts ==
  /\ pdhRuns' = bin
  /\ schema' = IF bin = "new" THEN "new" ELSE schema
  /\ locks' = TRUE /\ silent' = FALSE
  /\ UNCHANGED <<source, bin, stamp, work, made, late, dump, sound>>

\* --finish and --rollback restart pdh only with what belongs to the checkout.
CanDo(c) == c = "restart" => stamp = source

HostDoes(c) ==
  CASE c = "fetch" ->
         source' = "new" /\ UNCHANGED <<bin, stamp, pdhRuns, schema, work, made, late, dump, sound, locks, silent>>
    [] c = "reset" ->
         source' = "old" /\ UNCHANGED <<bin, stamp, pdhRuns, schema, work, made, late, dump, sound, locks, silent>>
    [] c = "build" ->
         bin' = source /\ stamp' = source
         /\ UNCHANGED <<source, pdhRuns, schema, work, made, late, dump, sound, locks, silent>>
    [] c = "stop" ->
         pdhRuns' = "off"
         /\ UNCHANGED <<source, bin, stamp, schema, work, made, late, dump, sound, locks, silent>>
    [] c = "dump" ->
         dump' = [schema |-> schema, work |-> work, late |-> late]
         /\ UNCHANGED <<source, bin, stamp, pdhRuns, schema, work, made, late, sound, locks, silent>>
    [] c = "restore" ->
         schema' = dump.schema /\ work' = dump.work /\ late' = dump.late
         /\ UNCHANGED <<source, bin, stamp, pdhRuns, made, dump, sound, locks, silent>>
    [] c = "restart" -> Starts
    [] c = "start" -> IF pdhRuns = "off" THEN Starts ELSE UNCHANGED hostVars
    [] OTHER -> UNCHANGED hostVars   \* lock, unlock, finishing

RunCommand ==
  /\ todo # <<>> /\ CanDo(Head(todo))
  /\ HostDoes(Head(todo))
  /\ todo' = Tail(todo) /\ rerun' = (rerun \/ Head(todo) = "restart")
  /\ IF Head(todo) = "finishing" THEN Put([update EXCEPT !.finishing = TRUE])
     ELSE UNCHANGED <<update, saved, unsaved>>
  /\ UNCHANGED <<plan, refusals, kills, relaunches>>

\* A build that fails leaves bin/pdh as it was, without its stamp.
Damage(c) ==
  /\ stamp' = IF c = "build" THEN "none" ELSE stamp
  /\ UNCHANGED <<source, bin, pdhRuns, schema, work, made, late, dump, sound, locks, silent>>

\* The part of jobPrepare about a script that fails: refused, or the checkout
\* still at the old version, and the job just ends; else it goes back first.
PrepareFails(c) ==
  \/ c = "fetch" /\ FailsWith(FALSE, FALSE)
  \/ /\ c = "build" \/ source = "new"
     /\ Plans("discard", Undo) /\ UNCHANGED <<update, saved, unsaved>>

\* The part of jobLocked: given up until --finish begins, the way back after it.
\* While a job is open no other install_update.sh begins (updateHandler), so
\* --finish is not refused as busy.
LockedFails(c) == IF c = "restart" THEN RollsBack(TRUE) ELSE Abandons

\* The part of jobRollbackStep: a remark, and on to the next step.
RollbackFails ==
  /\ Put([update EXCEPT !.rb = IF plan = "rb_script" THEN "verify" ELSE "script",
                        !.remark = TRUE])
  /\ Plans("none", <<>>)

\* What the job does about a command that fails.  What fails while it gives up
\* is logged; install_update.sh ends there, without its build.
AfterFailure(c) ==
  CASE plan = "prepare" -> PrepareFails(c)
    [] plan = "locked" -> LockedFails(c)
    [] plan \in {"rb_stop", "rb_restore", "rb_script"} -> RollbackFails
    [] plan = "abandon" /\ c = "start" -> FailsWith(FALSE, TRUE)
    [] OTHER -> /\ Plans(plan, IF c = "reset" THEN Tail(Tail(todo)) ELSE Tail(todo))
                /\ UNCHANGED <<update, saved, unsaved>>

CommandFails ==
  /\ todo # <<>> /\ Head(todo) # "finishing"
  /\ IF CanDo(Head(todo)) THEN refusals < MaxRefusals /\ refusals' = refusals + 1
                          ELSE UNCHANGED refusals
  /\ Damage(Head(todo)) /\ AfterFailure(Head(todo))
  /\ UNCHANGED <<rerun, kills, relaunches>>

-----------------------------------------------------------------------------
(* The agent ends: a script has ordered its restart, or it died; the       *)
(* script it ran dies with it.  It begins anew with the saved job          *)
(* (loadSingleJob, before it answers anything).                            *)
AgentDies ==
  /\ agentUp /\ agentUp' = FALSE
  /\ IF rerun THEN UNCHANGED kills ELSE kills < MaxKills /\ kills' = kills + 1
  /\ rerun' = FALSE /\ update' = saved /\ Plans("none", <<>>)
  /\ IF todo # <<>> /\ Head(todo) = "build" THEN Damage("build") ELSE UNCHANGED hostVars
  /\ UNCHANGED <<saved, unsaved, refusals, relaunches>>

AgentStarts ==
  /\ ~agentUp /\ agentUp' = TRUE
  /\ UNCHANGED <<update, saved, plan, todo, rerun, hostVars, singleBounds>>

(* pdh. *)
MaintTick ==
  /\ agentUp /\ pdhRuns # "off" /\ (silent \/ locks # Locks(update))
  /\ locks' = Locks(update) /\ silent' = FALSE
  /\ UNCHANGED <<agentVars, source, bin, stamp, pdhRuns, schema, work, made, late, dump, sound, singleBounds>>

\* maintTick without an answer: the last state holds, but not beyond 30 s.
LockLapses ==
  /\ ~agentUp /\ pdhRuns # "off" /\ locks /\ ~silent /\ silent' = TRUE
  /\ UNCHANGED <<agentVars, source, bin, stamp, pdhRuns, schema, work, made, late, dump, sound, locks,
                 singleBounds>>

\* What users enter while a job locks that pdh no longer hears of is counted apart.
UserWrites ==
  /\ pdhRuns # "off" /\ (~locks \/ silent)
  /\ \/ /\ ~(silent /\ Locks(update)) /\ made < MaxWork
        /\ work' = work + 1 /\ made' = made + 1 /\ UNCHANGED late
     \/ /\ silent /\ Locks(update) /\ late < MaxWork
        /\ late' = late + 1 /\ UNCHANGED <<work, made>>
  /\ UNCHANGED <<agentVars, source, bin, stamp, pdhRuns, schema, dump, sound, locks, silent, singleBounds>>

PdhRelaunches ==
  /\ pdhRuns # "off" /\ relaunches < MaxRelaunches /\ relaunches' = relaunches + 1
  /\ Starts /\ UNCHANGED <<agentVars, refusals, kills, unsaved>>

JobStep ==
  /\ agentUp /\ UNCHANGED agentUp
  /\ \/ JobPrepare \/ JobCountdown \/ JobLocked \/ JobVerifyNew \/ HealthAnswers
     \/ JobRelease \/ JobRollback \/ PlanDone \/ RunCommand \/ CommandFails

SingleNext ==
  \/ StartSingleJob \/ JobStep \/ AbortSingleJob \/ AgentDies \/ AgentStarts
  \/ MaintTick \/ LockLapses \/ UserWrites \/ PdhRelaunches

\* The loop of the job goes on every three seconds (jobKick, jobPoll); pdh asks
\* every two; systemd starts an agent that ended again (Restart=on-failure).
SingleFair ==
  WF_singleVars(JobStep) /\ WF_singleVars(AgentStarts) /\ WF_singleVars(MaintTick)

SingleSpec == SingleInit /\ [][SingleNext]_singleVars /\ SingleFair

-----------------------------------------------------------------------------
(* Properties. *)

Phases == {"none", "prepare", "countdown", "locked", "verify_new", "release",
           "rollback", "done", "failed"}

SingleTypeOK ==
  /\ {update.phase, saved.phase} \subseteq Phases
  /\ {source, bin, schema} \subseteq {"old", "new"} /\ stamp \in {"none", "old", "new"}
  /\ pdhRuns \in {"off", "old", "new"}
  /\ plan \in {"none", "prepare", "cancel", "discard", "abandon", "locked", "health", "release",
               "rb_stop", "rb_restore", "rb_script", "rb_unlock"}

\* What users entered is never lost: whatever fails, whenever the agent dies,
\* a backup that is restored holds every change made before it (jobLocked stops
\* pdh before the backup, and the lock holds until the update is over).  Except
\* what pdh lets in when the agent has been away for 30 s in the middle of a job
\* (maintTick, maintFailOpen): these changes are "late", and a restoration that
\* comes after them undoes them.
WritesKept == work = made

\* The old program never works on a database the new one has migrated, unless
\* the result of the update says that something was left undone.
OldOnOld == pdhRuns = "old" => schema = "old" \/ update.remark

\* A job ends whatever fails, and then pdh runs, or the result says that
\* someone has to look.
SingleEnds == ~Over(update) ~> Over(update) /\ (pdhRuns # "off" \/ update.remark)

\* After an update that failed without a remark the old version runs again.
OldRunsAgain == update.phase = "failed" /\ ~update.remark => pdhRuns # "new"

\* What pdh let in after it had lifted the lock is kept too: false, the way back
\* undoes it (MCLateWrites.cfg).
LateStays == [][late' >= late]_late

\* An abort that was accepted is carried out.
AbortCounts == update.aborted => update.phase # "done"
=============================================================================
