------------------------ MODULE SingleUpdate_proofs ------------------------
(***************************************************************************)
(* Proofs about the update of a server without a partner (SingleUpdate):   *)
(* types, and that no change of a user is lost as long as the job file     *)
(* could not be written at most once.                                      *)
(***************************************************************************)
EXTENDS SingleUpdate, SequenceTheorems, TLAPS

Update == [phase : Phases, aborted : BOOLEAN, finishing : BOOLEAN,
           rb : {"stop", "restore", "script", "verify"}, mark : BOOLEAN, remark : BOOLEAN]

Dump == [schema : {"none", "old", "new"}, work : Nat, late : Nat]

\* The restore of the backup may still come, from this job on.
AtRisk(u) ==
  /\ u.finishing
  /\ \/ u.phase \in {"locked", "verify_new"}
     \/ u.phase = "rollback" /\ u.rb \in {"stop", "restore"}

\* Users enter only what counts as late, and the backup has all else that the
\* database holds.
Safe == dump.work = work /\ (pdhRuns = "off" \/ locks)

\* Finishing is set in the locked phase and stays.
Late == {"locked", "verify_new", "release", "rollback", "done", "failed"}

\* The job in memory and the job in the file.
JobInv ==
  /\ update \in Update /\ saved \in Update /\ unsaved \in Nat
  /\ unsaved = 0 => /\ saved.phase = update.phase /\ saved.rb = update.rb
                    /\ saved.finishing = update.finishing
  /\ saved.finishing => update.finishing
  /\ update.finishing => update.phase \in Late
  /\ saved.finishing => saved.phase \in Late
  /\ unsaved <= 1 /\ (AtRisk(update) \/ AtRisk(saved)) => Locks(update) /\ Safe

HostInv ==
  /\ {source, bin, schema} \subseteq {"old", "new"} /\ stamp \in {"none", "old", "new"}
  /\ pdhRuns \in {"off", "old", "new"}
  /\ {work, made, late} \subseteq Nat
  /\ dump \in [schema : {"none", "old", "new"}, work : Nat, late : Nat]
  /\ locks \in BOOLEAN
  /\ update.finishing => dump.schema # "none"
  /\ unsaved <= 1 => WritesKept

\* What is left of a step, and what the job is in then.
PlanInv ==
  \/ plan = "none" /\ todo = <<>>
  \/ plan = "health" /\ todo = <<>> /\ update.phase = "verify_new"
  \/ /\ plan = "prepare" /\ todo \in {<<"fetch", "build">>, <<"build">>, <<>>}
     /\ update.phase = "prepare"
  \/ /\ plan \in {"cancel", "discard"} /\ todo \in {<<"reset", "build">>, <<"build">>, <<>>}
     /\ update.phase \in {"prepare", "countdown"}
  \/ /\ plan = "abandon"
     /\ todo \in {<<"reset", "build", "unlock", "start">>, <<"build", "unlock", "start">>,
                  <<"unlock", "start">>, <<"start">>, <<>>}
     /\ ~update.finishing
  \/ /\ plan = "locked" /\ update.phase = "locked" /\ ~update.finishing
     /\ \/ todo = <<"lock", "stop", "dump", "finishing", "restart">>
        \/ todo = <<"stop", "dump", "finishing", "restart">>
        \/ todo = <<"dump", "finishing", "restart">> /\ pdhRuns = "off"
        \/ /\ todo = <<"finishing", "restart">>
           /\ pdhRuns = "off" /\ dump.work = work /\ dump.schema # "none"
  \/ /\ plan = "locked" /\ todo \in {<<"restart">>, <<>>}
     /\ update.phase = "locked" /\ update.finishing
  \/ plan = "release" /\ todo \in {<<"unlock">>, <<>>} /\ update.phase = "release"
  \/ /\ plan = "rb_stop" /\ todo \in {<<"stop">>, <<>>}
     /\ update.phase = "rollback" /\ update.finishing /\ update.rb = "stop"
  \/ /\ plan = "rb_restore" /\ todo \in {<<"restore">>, <<>>}
     /\ update.phase = "rollback" /\ update.finishing /\ update.rb = "restore"
  \/ /\ plan = "rb_script"
     /\ todo \in {<<"reset", "build", "restart">>, <<"build", "restart">>, <<"restart">>, <<>>}
     /\ update.phase = "rollback" /\ update.rb = "verify"
  \/ /\ plan = "rb_unlock" /\ todo \in {<<"unlock">>, <<>>}
     /\ update.phase = "rollback" /\ update.rb = "verify"

SingleInv == JobInv /\ HostInv /\ PlanInv

-----------------------------------------------------------------------------
(* Sequences of commands, and the job's records.                           *)

\* The commands of an abandoned update and of the way back, written out.
LEMMA UndoWritten ==
  /\ Undo \o <<"unlock", "start">> = <<"reset", "build", "unlock", "start">>
  /\ Undo \o <<"restart">> = <<"reset", "build", "restart">>
<1> DEFINE S == {"reset", "build", "unlock", "start", "restart"}
           s == Undo \o <<"unlock", "start">>
           t == <<"reset", "build", "unlock", "start">>
           u == Undo \o <<"restart">>
           v == <<"reset", "build", "restart">>
<1>1. Len(s) = 4 /\ Len(t) = 4 /\ Len(u) = 3 /\ Len(v) = 3
  BY DEF Undo
<1>2. s[1] = t[1] /\ s[2] = t[2] /\ s[3] = t[3] /\ s[4] = t[4]
  BY DEF Undo
<1>3. u[1] = v[1] /\ u[2] = v[2] /\ u[3] = v[3]
  BY DEF Undo
<1>4. s \in Seq(S) /\ t \in Seq(S)
  BY DEF Undo
<1>5. u \in Seq(S) /\ v \in Seq(S)
  BY DEF Undo
<1>6. (\A i \in 1..4 : s[i] = t[i]) /\ (\A i \in 1..3 : u[i] = v[i])
  BY <1>2, <1>3
<1> HIDE DEF S, s, t, u, v
<1>7. s = t
  BY <1>1, <1>4, <1>6, SeqEqual
<1>8. u = v
  BY <1>1, <1>5, <1>6, SeqEqual
<1> QED
  BY <1>7, <1>8 DEF s, t, u, v

\* Saving a job keeps it in memory, and in the file or not.
LEMMA PutJob ==
  ASSUME update \in Update, saved \in Update, unsaved \in Nat, NEW u \in Update, Put(u)
  PROVE  /\ update' \in Update
         /\ update'.phase = u.phase /\ update'.finishing = u.finishing /\ update'.rb = u.rb
         /\ update'.remark = u.remark /\ update'.aborted = (u.aborted \/ update.aborted)
         /\ \/ saved' = update' /\ unsaved' = unsaved
            \/ saved' = saved /\ unsaved' = unsaved + 1
<1>1. (u.aborted \/ update.aborted) \in BOOLEAN
  BY DEF Update
<1>2. update' = [u EXCEPT !.aborted = (u.aborted \/ update.aborted)]
  BY DEF Put, Update
<1>3. update' \in Update
  BY <1>1, <1>2 DEF Update
<1>4. /\ update'.phase = u.phase /\ update'.finishing = u.finishing /\ update'.rb = u.rb
      /\ update'.remark = u.remark
  BY <1>2 DEF Update
<1>5. update'.aborted = (u.aborted \/ update.aborted)
  BY <1>2 DEF Update
<1>6. \/ saved' = update' /\ unsaved' = unsaved
      \/ saved' = saved /\ unsaved' = unsaved + 1
  BY DEF Put
<1> QED
  BY <1>3, <1>4, <1>5, <1>6

\* What is asked of a job that is saved: it goes on from the one in memory.
GoesOn(u) ==
  /\ u \in Update
  /\ update.finishing => u.finishing
  /\ u.finishing => u.phase \in Late
  /\ AtRisk(update) => Locks(u)

LEMMA PutKeeps ==
  ASSUME JobInv, NEW u, GoesOn(u), Put(u),
         unsaved <= 1 /\ (AtRisk(update) \/ AtRisk(u)) => Safe'
  PROVE  JobInv'
<1>1. /\ update' \in Update
      /\ update'.phase = u.phase /\ update'.finishing = u.finishing /\ update'.rb = u.rb
      /\ \/ saved' = update' /\ unsaved' = unsaved
         \/ saved' = saved /\ unsaved' = unsaved + 1
  BY PutJob DEF JobInv, GoesOn
<1>2. AtRisk(u) => Locks(u)
  BY DEF AtRisk, Locks
<1>3. /\ AtRisk(update)' <=> AtRisk(u)
      /\ Locks(update)' <=> Locks(u)
  BY <1>1 DEF AtRisk, Locks
<1>4. CASE saved' = update' /\ unsaved' = unsaved
  <2>1. AtRisk(saved)' <=> AtRisk(u)
    BY <1>1, <1>4 DEF AtRisk
  <2> QED
    BY <1>1, <1>2, <1>3, <1>4, <2>1 DEF JobInv, GoesOn
<1>5. CASE saved' = saved /\ unsaved' = unsaved + 1
  <2>1. unsaved' <= 1 => unsaved = 0
    BY <1>5 DEF JobInv
  <2>2. AtRisk(saved)' <=> AtRisk(saved)
    BY <1>5 DEF AtRisk
  <2>3. unsaved = 0 => (AtRisk(saved) <=> AtRisk(update))
    BY DEF JobInv, AtRisk
  <2>4. unsaved' # 0 /\ unsaved' \in Nat
    BY <1>5 DEF JobInv
  <2>5. unsaved' <= 1 /\ (AtRisk(update)' \/ AtRisk(saved)') => Locks(update)' /\ Safe'
    BY <2>1, <2>2, <2>3, <1>2, <1>3 DEF GoesOn
  <2> QED
    BY <1>1, <1>5, <2>4, <2>5 DEF JobInv, GoesOn
<1> QED
  BY <1>1, <1>4, <1>5

\* A change of the job leaves the server as it is.
LEMMA HostKeeps ==
  ASSUME JobInv, HostInv, UNCHANGED hostVars, unsaved' \in Nat, unsaved' >= unsaved,
         update'.finishing => dump.schema # "none"
  PROVE  HostInv' /\ (Safe <=> Safe')
<1> USE DEF hostVars
<1>1. (unsaved <= 1 => WritesKept) => (unsaved' <= 1 => WritesKept')
  BY DEF JobInv, WritesKept
<1>2. Safe <=> Safe'
  BY DEF Safe
<1> QED
  BY <1>1, <1>2 DEF HostInv

\* The same, when a new state of the job is saved beside it.
LEMMA PutStep ==
  ASSUME SingleInv, NEW u, GoesOn(u), AtRisk(u) => AtRisk(update), u.finishing => update.finishing,
         Put(u), UNCHANGED hostVars
  PROVE  JobInv' /\ HostInv'
<1> USE DEF SingleInv
<1>1. /\ update'.finishing = u.finishing
      /\ unsaved' \in Nat /\ unsaved' >= unsaved
  BY PutJob DEF JobInv, GoesOn
<1>2. HostInv' /\ (Safe <=> Safe')
  BY <1>1, HostKeeps DEF HostInv
<1>3. JobInv'
  BY <1>2, PutKeeps DEF JobInv
<1> QED
  BY <1>2, <1>3

\* A step that only plans, or changes nothing of the job and the server.
LEMMA PlanStep ==
  ASSUME SingleInv, UNCHANGED <<update, saved, unsaved>>, UNCHANGED hostVars
  PROVE  JobInv' /\ HostInv'
<1> USE DEF SingleInv, hostVars
<1>1. unsaved' \in Nat /\ unsaved' >= unsaved /\ (update'.finishing => dump.schema # "none")
  BY DEF JobInv, HostInv
<1>2. HostInv' /\ (Safe <=> Safe')
  BY <1>1, HostKeeps
<1>3. JobInv'
  BY <1>2 DEF JobInv, AtRisk, Locks
<1> QED
  BY <1>2, <1>3

LEMMA StaysHost == Stays => UNCHANGED hostVars
  BY DEF Stays

\* The phases one after another.
LEMMA EntersKeeps ==
  ASSUME SingleInv, NEW p \in Phases, EntersPhase(p), UNCHANGED hostVars,
         update.finishing => p \in Late,
         AtRisk(update) => p \in {"locked", "verify_new", "release", "rollback"},
         update.finishing /\ p \in {"locked", "verify_new", "rollback"} => AtRisk(update)
  PROVE  SingleInv'
<1> DEFINE u == [update EXCEPT !.phase = p]
<1>1. /\ u \in Update /\ u.phase = p /\ u.finishing = update.finishing /\ u.rb = update.rb
  BY DEF SingleInv, JobInv, Update
<1>2. Put(u) /\ plan' = "none" /\ todo' = <<>>
  BY DEF EntersPhase, Plans
<1> HIDE DEF u
<1>3. GoesOn(u) /\ (AtRisk(u) => AtRisk(update)) /\ (u.finishing => update.finishing)
  BY <1>1 DEF GoesOn, AtRisk, Locks
<1>4. JobInv' /\ HostInv'
  BY <1>2, <1>3, PutStep
<1>5. PlanInv'
  BY <1>2 DEF PlanInv
<1> QED
  BY <1>4, <1>5 DEF SingleInv

\* The job ends, with or without a remark.
LEMMA FailsKeeps ==
  ASSUME SingleInv, NEW mark \in BOOLEAN, NEW remark \in BOOLEAN, FailsWith(mark, remark),
         UNCHANGED hostVars, ~AtRisk(update)
  PROVE  SingleInv'
<1> DEFINE u == [update EXCEPT !.phase = "failed", !.mark = mark, !.remark = update.remark \/ remark]
<1>1. (update.remark \/ remark) \in BOOLEAN
  BY DEF SingleInv, JobInv, Update
<1>2. u \in Update
  BY <1>1 DEF SingleInv, JobInv, Update, Phases
<1>3. u.phase = "failed" /\ u.finishing = update.finishing /\ u.rb = update.rb
  BY DEF SingleInv, JobInv, Update
<1>4. Put(u) /\ plan' = "none" /\ todo' = <<>>
  BY DEF FailsWith, Plans, SingleInv, JobInv, Update
<1> HIDE DEF u
<1>5. GoesOn(u) /\ (AtRisk(u) => AtRisk(update)) /\ (u.finishing => update.finishing)
  BY <1>2, <1>3 DEF GoesOn, AtRisk, Late
<1>6. JobInv' /\ HostInv'
  BY <1>4, <1>5, PutStep
<1>7. PlanInv'
  BY <1>4 DEF PlanInv
<1> QED
  BY <1>6, <1>7 DEF SingleInv

\* The way back begins with the stop of pdh.
LEMMA RollsBackKeeps ==
  ASSUME SingleInv, NEW mark \in BOOLEAN, RollsBack(mark), UNCHANGED hostVars,
         update.phase \in {"locked", "verify_new"}
  PROVE  SingleInv'
<1> DEFINE u == [update EXCEPT !.phase = "rollback", !.mark = mark, !.rb = "stop"]
<1>1. /\ u \in Update /\ u.phase = "rollback" /\ u.finishing = update.finishing
  BY DEF SingleInv, JobInv, Update, Phases
<1>2. Put(u) /\ plan' = "none" /\ todo' = <<>>
  BY DEF RollsBack, Plans
<1> HIDE DEF u
<1>3. GoesOn(u) /\ (AtRisk(u) => AtRisk(update)) /\ (u.finishing => update.finishing)
  BY <1>1 DEF GoesOn, AtRisk, Locks, Late
<1>4. JobInv' /\ HostInv'
  BY <1>2, <1>3, PutStep
<1>5. PlanInv'
  BY <1>2 DEF PlanInv
<1> QED
  BY <1>4, <1>5 DEF SingleInv

\* Giving up before --finish: back to the old checkout, unlock, start.
LEMMA AbandonsKeeps ==
  ASSUME SingleInv, Abandons, UNCHANGED hostVars, ~update.finishing
  PROVE  SingleInv'
<1>1. JobInv' /\ HostInv'
  BY PlanStep DEF Abandons
<1>2. plan' = "abandon" /\ todo' = <<"reset", "build", "unlock", "start">> /\ update' = update
  BY UndoWritten DEF Abandons, Plans
<1>3. PlanInv'
  BY <1>2 DEF PlanInv
<1> QED
  BY <1>1, <1>3 DEF SingleInv

-----------------------------------------------------------------------------
(* The steps of the job.                                                   *)

LEMMA StartKeeps ==
  ASSUME SingleInv, StartSingleJob
  PROVE  SingleInv'
<1> DEFINE u == [NoUpdate EXCEPT !.phase = "prepare"]
<1>1. /\ u \in Update /\ u.phase = "prepare" /\ u.finishing = FALSE
  BY DEF NoUpdate, Update, Phases
<1>2. Put(u) /\ UNCHANGED <<plan, todo>> /\ update.phase = "none"
  BY DEF StartSingleJob
<1> HIDE DEF u
<1>3. ~update.finishing
  BY <1>2 DEF SingleInv, JobInv, Late
<1>4. UNCHANGED hostVars
  BY StaysHost DEF StartSingleJob
<1>5. GoesOn(u) /\ (AtRisk(u) => AtRisk(update)) /\ (u.finishing => update.finishing)
  BY <1>1, <1>3 DEF GoesOn, AtRisk
<1>6. JobInv' /\ HostInv'
  BY <1>2, <1>4, <1>5, PutStep
<1>7. update'.finishing = FALSE
  BY <1>1, <1>2, PutJob DEF SingleInv, JobInv
<1>8. plan \in {"none", "abandon"}
  BY <1>2, <1>3 DEF SingleInv, PlanInv
<1>9. PlanInv'
  BY <1>2, <1>7, <1>8 DEF SingleInv, PlanInv
<1> QED
  BY <1>6, <1>9 DEF SingleInv

LEMMA PrepareKeeps ==
  ASSUME SingleInv, JobPrepare
  PROVE  SingleInv'
<1>1. update.phase = "prepare" /\ UNCHANGED hostVars
  BY StaysHost DEF JobPrepare, Ready
<1>2. ~AtRisk(update)
  BY <1>1 DEF AtRisk
<1>3. CASE update.aborted
  BY <1>1, <1>2, <1>3, FailsKeeps DEF JobPrepare
<1>4. CASE ~update.aborted
  <2>1. Plans("prepare", Install) /\ UNCHANGED <<update, saved, unsaved>>
    BY <1>4 DEF JobPrepare
  <2>2. JobInv' /\ HostInv'
    BY <2>1, <1>1, PlanStep
  <2>3. PlanInv'
    BY <2>1, <1>1 DEF PlanInv, Plans, Install
  <2> QED
    BY <2>2, <2>3 DEF SingleInv
<1> QED
  BY <1>3, <1>4

LEMMA CountdownKeeps ==
  ASSUME SingleInv, JobCountdown
  PROVE  SingleInv'
<1>1. update.phase = "countdown" /\ UNCHANGED hostVars
  BY StaysHost DEF JobCountdown, Ready
<1>2. ~update.finishing /\ ~AtRisk(update)
  BY <1>1 DEF SingleInv, JobInv, Late, AtRisk
<1>3. CASE update.aborted
  <2>1. Plans("cancel", Undo) /\ UNCHANGED <<update, saved, unsaved>>
    BY <1>3 DEF JobCountdown
  <2>2. JobInv' /\ HostInv'
    BY <2>1, <1>1, PlanStep
  <2>3. PlanInv'
    BY <2>1, <1>1 DEF PlanInv, Plans, Undo
  <2> QED
    BY <2>2, <2>3 DEF SingleInv
<1>4. CASE ~update.aborted
  <2>1. EntersPhase("locked") /\ "locked" \in Phases
    BY <1>4 DEF JobCountdown, Phases
  <2> QED
    BY <2>1, <1>1, <1>2, EntersKeeps
<1> QED
  BY <1>3, <1>4

LEMMA LockedKeeps ==
  ASSUME SingleInv, JobLocked
  PROVE  SingleInv'
<1>1. update.phase = "locked" /\ UNCHANGED hostVars
  BY StaysHost DEF JobLocked, Ready
<1>2. CASE update.finishing
  <2>1. EntersPhase("verify_new") /\ "verify_new" \in Phases /\ AtRisk(update)
    BY <1>1, <1>2 DEF JobLocked, Phases, AtRisk
  <2> QED
    BY <2>1, <1>1, EntersKeeps DEF Late
<1>3. CASE ~update.finishing /\ update.aborted
  BY <1>1, <1>3, AbandonsKeeps DEF JobLocked
<1>4. CASE ~update.finishing /\ ~update.aborted
  <2>1. /\ Plans("locked", <<"lock", "stop", "dump", "finishing", "restart">>)
        /\ UNCHANGED <<update, saved, unsaved>>
    BY <1>4 DEF JobLocked
  <2>2. JobInv' /\ HostInv'
    BY <2>1, <1>1, PlanStep
  <2>3. PlanInv'
    BY <2>1, <1>1, <1>4 DEF PlanInv, Plans
  <2> QED
    BY <2>2, <2>3 DEF SingleInv
<1> QED
  BY <1>2, <1>3, <1>4

LEMMA VerifyKeeps ==
  ASSUME SingleInv, JobVerifyNew
  PROVE  SingleInv'
<1>1. update.phase = "verify_new" /\ UNCHANGED hostVars
  BY StaysHost DEF JobVerifyNew, Ready
<1>2. CASE update.aborted
  BY <1>1, <1>2, RollsBackKeeps DEF JobVerifyNew
<1>3. CASE ~update.aborted
  <2>1. Plans("health", <<>>) /\ UNCHANGED <<update, saved, unsaved>>
    BY <1>3 DEF JobVerifyNew
  <2>2. JobInv' /\ HostInv'
    BY <2>1, <1>1, PlanStep
  <2>3. PlanInv'
    BY <2>1, <1>1 DEF PlanInv, Plans
  <2> QED
    BY <2>2, <2>3 DEF SingleInv
<1> QED
  BY <1>2, <1>3

LEMMA HealthKeeps ==
  ASSUME SingleInv, HealthAnswers
  PROVE  SingleInv'
<1>1. update.phase = "verify_new"
  BY DEF HealthAnswers, SingleInv, PlanInv
<1>2. CASE EntersPhase("release") /\ Stays
  <2>1. UNCHANGED hostVars /\ "release" \in Phases
    BY <1>2, StaysHost DEF Phases
  <2> QED
    BY <2>1, <1>1, <1>2, EntersKeeps DEF Late
<1>3. CASE RollsBack(TRUE) /\ UNCHANGED hostVars
  BY <1>1, <1>3, RollsBackKeeps
<1> QED
  BY <1>2, <1>3 DEF HealthAnswers

LEMMA ReleaseKeeps ==
  ASSUME SingleInv, JobRelease
  PROVE  SingleInv'
<1>1. update.phase = "release" /\ UNCHANGED hostVars
  BY StaysHost DEF JobRelease, Ready
<1>2. Plans("release", <<"unlock">>) /\ UNCHANGED <<update, saved, unsaved>>
  BY DEF JobRelease
<1>3. JobInv' /\ HostInv'
  BY <1>1, <1>2, PlanStep
<1>4. PlanInv'
  BY <1>1, <1>2 DEF PlanInv, Plans
<1> QED
  BY <1>3, <1>4 DEF SingleInv

\* The next step of the way back is saved before the one at hand ends.
LEMMA RbSaved ==
  ASSUME SingleInv, NEW rb \in {"restore", "script", "verify"}, NEW remark \in BOOLEAN,
         Put([update EXCEPT !.rb = rb, !.remark = remark]), UNCHANGED hostVars,
         update.phase = "rollback", rb = "restore" => update.rb = "stop"
  PROVE  /\ JobInv' /\ HostInv'
         /\ update'.phase = "rollback" /\ update'.rb = rb
         /\ update'.finishing = update.finishing
<1> DEFINE u == [update EXCEPT !.rb = rb, !.remark = remark]
<1>1. /\ u \in Update /\ u.phase = "rollback" /\ u.finishing = update.finishing /\ u.rb = rb
  BY DEF SingleInv, JobInv, Update
<1>2. Put(u)
  OBVIOUS
<1> HIDE DEF u
<1>3. GoesOn(u) /\ (AtRisk(u) => AtRisk(update)) /\ (u.finishing => update.finishing)
  BY <1>1 DEF GoesOn, AtRisk, Locks, Late
<1>4. JobInv' /\ HostInv'
  BY <1>2, <1>3, PutStep
<1>5. update'.phase = u.phase /\ update'.rb = u.rb /\ update'.finishing = u.finishing
  BY <1>1, <1>2, PutJob DEF SingleInv, JobInv
<1> QED
  BY <1>1, <1>4, <1>5

LEMMA RollbackKeeps ==
  ASSUME SingleInv, JobRollback
  PROVE  SingleInv'
<1>1. update.phase = "rollback" /\ UNCHANGED hostVars
  BY StaysHost DEF JobRollback, Ready
<1>2. update \in Update
  BY DEF SingleInv, JobInv
<1>3. CASE ~update.finishing
  BY <1>1, <1>3, AbandonsKeeps DEF JobRollback
<1>4. CASE update.finishing /\ update.rb = "stop"
  <2>1. Plans("rb_stop", <<"stop">>) /\ UNCHANGED <<update, saved, unsaved>>
    BY <1>4 DEF JobRollback
  <2>2. JobInv' /\ HostInv'
    BY <2>1, <1>1, PlanStep
  <2>3. PlanInv'
    BY <2>1, <1>1, <1>4 DEF PlanInv, Plans
  <2> QED
    BY <2>2, <2>3 DEF SingleInv
<1>5. CASE update.finishing /\ update.rb = "restore"
  <2>1. Plans("rb_restore", <<"restore">>) /\ UNCHANGED <<update, saved, unsaved>>
    BY <1>5 DEF JobRollback
  <2>2. JobInv' /\ HostInv'
    BY <2>1, <1>1, PlanStep
  <2>3. PlanInv'
    BY <2>1, <1>1, <1>5 DEF PlanInv, Plans
  <2> QED
    BY <2>2, <2>3 DEF SingleInv
<1>6. CASE update.finishing /\ update.rb = "script"
  <2>1. Put([update EXCEPT !.rb = "verify"]) /\ Plans("rb_script", Undo \o <<"restart">>)
    BY <1>6 DEF JobRollback
  <2>2. [update EXCEPT !.rb = "verify"] = [update EXCEPT !.rb = "verify", !.remark = update.remark]
        /\ update.remark \in BOOLEAN
    BY <1>2 DEF Update
  <2>3. JobInv' /\ HostInv' /\ update'.phase = "rollback" /\ update'.rb = "verify"
    BY <2>1, <2>2, <1>1, RbSaved
  <2>4. PlanInv'
    BY <2>1, <2>3, UndoWritten DEF PlanInv, Plans
  <2> QED
    BY <2>3, <2>4 DEF SingleInv
<1>7. CASE update.finishing /\ update.rb = "verify"
  <2>1. /\ Plans("rb_unlock", <<"unlock">>) /\ UNCHANGED <<saved, unsaved>>
        /\ update' = [update EXCEPT !.remark = update.remark \/ ~PdhHealthy("old")]
    BY <1>7, <1>2 DEF JobRollback, Update
  <2>2. (update.remark \/ ~PdhHealthy("old")) \in BOOLEAN
    BY <1>2 DEF Update
  <2>3. /\ update' \in Update /\ update'.phase = update.phase /\ update'.rb = update.rb
        /\ update'.finishing = update.finishing
    BY <2>1, <2>2, <1>2 DEF Update
  <2>4. HostInv' /\ (Safe <=> Safe')
    BY <2>1, <2>3, <1>1, HostKeeps DEF SingleInv, HostInv, JobInv
  <2>5. JobInv'
    BY <2>1, <2>3, <2>4 DEF SingleInv, JobInv, AtRisk, Locks
  <2>6. PlanInv'
    BY <2>1, <2>3, <1>1, <1>7 DEF PlanInv, Plans
  <2> QED
    BY <2>4, <2>5, <2>6 DEF SingleInv
<1> QED
  BY <1>2, <1>3, <1>4, <1>5, <1>6, <1>7 DEF Update

LEMMA DoneKeeps ==
  ASSUME SingleInv, PlanDone
  PROVE  SingleInv'
<1>1. /\ plan \notin {"none", "health"} /\ todo = <<>> /\ UNCHANGED hostVars
      /\ update \in Update
  BY StaysHost DEF PlanDone, SingleInv, JobInv
<1>2. CASE plan = "prepare"
  <2>1. EntersPhase("countdown") /\ update.phase = "prepare" /\ "countdown" \in Phases
    BY <1>1, <1>2 DEF PlanDone, SingleInv, PlanInv, Phases
  <2>2. ~update.finishing /\ ~AtRisk(update)
    BY <2>1 DEF SingleInv, JobInv, Late, AtRisk
  <2> QED
    BY <2>1, <2>2, <1>1, EntersKeeps
<1>3. CASE plan \in {"cancel", "abandon"}
  <2>1. FailsWith(FALSE, FALSE) /\ ~AtRisk(update)
    BY <1>1, <1>3 DEF PlanDone, SingleInv, PlanInv, AtRisk
  <2> QED
    BY <2>1, <1>1, FailsKeeps
<1>4. CASE plan = "discard"
  <2>1. FailsWith(TRUE, FALSE) /\ ~AtRisk(update)
    BY <1>1, <1>4 DEF PlanDone, SingleInv, PlanInv, AtRisk
  <2> QED
    BY <2>1, <1>1, FailsKeeps
<1>5. CASE plan = "locked"
  <2>1. EntersPhase("verify_new") /\ AtRisk(update) /\ "verify_new" \in Phases
    BY <1>1, <1>5 DEF PlanDone, SingleInv, PlanInv, AtRisk, Phases
  <2> QED
    BY <2>1, <1>1, EntersKeeps DEF Late
<1>6. CASE plan = "release"
  <2>1. EntersPhase("done") /\ update.phase = "release" /\ "done" \in Phases
    BY <1>1, <1>6 DEF PlanDone, SingleInv, PlanInv, Phases
  <2>2. ~AtRisk(update)
    BY <2>1 DEF AtRisk
  <2> QED
    BY <2>1, <2>2, <1>1, EntersKeeps DEF Late
<1>7. CASE plan = "rb_stop"
  <2>1. /\ Put([update EXCEPT !.rb = "restore"]) /\ Plans("none", <<>>)
        /\ update.phase = "rollback" /\ update.rb = "stop"
    BY <1>1, <1>7 DEF PlanDone, SingleInv, PlanInv
  <2>2. [update EXCEPT !.rb = "restore"] = [update EXCEPT !.rb = "restore", !.remark = update.remark]
        /\ update.remark \in BOOLEAN
    BY <1>1 DEF Update
  <2>3. JobInv' /\ HostInv'
    BY <2>1, <2>2, <1>1, RbSaved
  <2> QED
    BY <2>1, <2>3 DEF SingleInv, PlanInv, Plans
<1>8. CASE plan = "rb_restore"
  <2>1. /\ Put([update EXCEPT !.rb = "script"]) /\ Plans("none", <<>>)
        /\ update.phase = "rollback"
    BY <1>1, <1>8 DEF PlanDone, SingleInv, PlanInv
  <2>2. [update EXCEPT !.rb = "script"] = [update EXCEPT !.rb = "script", !.remark = update.remark]
        /\ update.remark \in BOOLEAN
    BY <1>1 DEF Update
  <2>3. JobInv' /\ HostInv'
    BY <2>1, <2>2, <1>1, RbSaved
  <2> QED
    BY <2>1, <2>3 DEF SingleInv, PlanInv, Plans
<1>9. CASE plan = "rb_script"
  <2>1. Put(update) /\ Plans("none", <<>>)
    BY <1>1, <1>9 DEF PlanDone
  <2>2. GoesOn(update)
    BY <1>1 DEF GoesOn, AtRisk, Locks, SingleInv, JobInv
  <2>3. JobInv' /\ HostInv'
    BY <2>1, <2>2, <1>1, PutStep
  <2> QED
    BY <2>1, <2>3 DEF SingleInv, PlanInv, Plans
<1>10. CASE plan = "rb_unlock"
  <2>1. FailsWith(update.mark, FALSE) /\ ~AtRisk(update) /\ update.mark \in BOOLEAN
    BY <1>1, <1>10 DEF PlanDone, SingleInv, PlanInv, AtRisk, Update
  <2> QED
    BY <2>1, <1>1, FailsKeeps
<1> QED
  BY <1>1, <1>2, <1>3, <1>4, <1>5, <1>6, <1>7, <1>8, <1>9, <1>10 DEF SingleInv, PlanInv

LEMMA AbortKeeps ==
  ASSUME SingleInv, AbortSingleJob
  PROVE  SingleInv'
<1>1. UNCHANGED hostVars /\ UNCHANGED <<plan, todo, unsaved>> /\ saved' = update'
      /\ update' = [update EXCEPT !.aborted = TRUE]
  BY StaysHost DEF AbortSingleJob
<1>2. /\ update' \in Update /\ update'.phase = update.phase /\ update'.rb = update.rb
      /\ update'.finishing = update.finishing
  BY <1>1 DEF SingleInv, JobInv, Update
<1>3. HostInv' /\ (Safe <=> Safe')
  BY <1>1, <1>2, HostKeeps DEF SingleInv, HostInv, JobInv
<1>4. JobInv'
  BY <1>1, <1>2, <1>3 DEF SingleInv, JobInv, AtRisk, Locks
<1>5. PlanInv'
  BY <1>1, <1>2 DEF SingleInv, PlanInv, hostVars
<1> QED
  BY <1>3, <1>4, <1>5 DEF SingleInv

-----------------------------------------------------------------------------
(* The host commands.                                                      *)

\* The beginnings and the rests of what is left of a step.
LEMMA HeadsAndTails ==
  /\ Head(<<"fetch", "build">>) = "fetch" /\ Tail(<<"fetch", "build">>) = <<"build">>
  /\ Head(<<"reset", "build">>) = "reset" /\ Tail(<<"reset", "build">>) = <<"build">>
  /\ Head(<<"build">>) = "build" /\ Tail(<<"build">>) = <<>>
  /\ Head(<<"reset", "build", "unlock", "start">>) = "reset"
  /\ Tail(<<"reset", "build", "unlock", "start">>) = <<"build", "unlock", "start">>
  /\ Head(<<"build", "unlock", "start">>) = "build"
  /\ Tail(<<"build", "unlock", "start">>) = <<"unlock", "start">>
  /\ Head(<<"unlock", "start">>) = "unlock" /\ Tail(<<"unlock", "start">>) = <<"start">>
  /\ Head(<<"start">>) = "start" /\ Tail(<<"start">>) = <<>>
  /\ Head(<<"lock", "stop", "dump", "finishing", "restart">>) = "lock"
  /\ Tail(<<"lock", "stop", "dump", "finishing", "restart">>)
       = <<"stop", "dump", "finishing", "restart">>
  /\ Head(<<"stop", "dump", "finishing", "restart">>) = "stop"
  /\ Tail(<<"stop", "dump", "finishing", "restart">>) = <<"dump", "finishing", "restart">>
  /\ Head(<<"dump", "finishing", "restart">>) = "dump"
  /\ Tail(<<"dump", "finishing", "restart">>) = <<"finishing", "restart">>
  /\ Head(<<"finishing", "restart">>) = "finishing"
  /\ Tail(<<"finishing", "restart">>) = <<"restart">>
  /\ Head(<<"restart">>) = "restart" /\ Tail(<<"restart">>) = <<>>
  /\ Head(<<"unlock">>) = "unlock" /\ Tail(<<"unlock">>) = <<>>
  /\ Head(<<"stop">>) = "stop" /\ Tail(<<"stop">>) = <<>>
  /\ Head(<<"restore">>) = "restore" /\ Tail(<<"restore">>) = <<>>
  /\ Head(<<"reset", "build", "restart">>) = "reset"
  /\ Tail(<<"reset", "build", "restart">>) = <<"build", "restart">>
  /\ Head(<<"build", "restart">>) = "build" /\ Tail(<<"build", "restart">>) = <<"restart">>
  OBVIOUS

\* The command that is next, and what is left after it, step by step.
Next0(pl, c, rest) == plan = pl /\ Head(todo) = c /\ Tail(todo) = rest

LEMMA WhatIsNext ==
  ASSUME PlanInv, todo # <<>>
  PROVE  \/ Next0("prepare", "fetch", <<"build">>) /\ update.phase = "prepare"
         \/ Next0("prepare", "build", <<>>) /\ update.phase = "prepare"
         \/ /\ plan \in {"cancel", "discard"} /\ update.phase \in {"prepare", "countdown"}
            /\ \/ Head(todo) = "reset" /\ Tail(todo) = <<"build">>
               \/ Head(todo) = "build" /\ Tail(todo) = <<>>
         \/ /\ ~update.finishing
            /\ \/ Next0("abandon", "reset", <<"build", "unlock", "start">>)
               \/ Next0("abandon", "build", <<"unlock", "start">>)
               \/ Next0("abandon", "unlock", <<"start">>)
               \/ Next0("abandon", "start", <<>>)
         \/ /\ update.phase = "locked" /\ ~update.finishing
            /\ \/ Next0("locked", "lock", <<"stop", "dump", "finishing", "restart">>)
               \/ Next0("locked", "stop", <<"dump", "finishing", "restart">>)
               \/ Next0("locked", "dump", <<"finishing", "restart">>) /\ pdhRuns = "off"
               \/ /\ Next0("locked", "finishing", <<"restart">>)
                  /\ pdhRuns = "off" /\ dump.work = work /\ dump.schema # "none"
         \/ /\ Next0("locked", "restart", <<>>)
            /\ update.phase = "locked" /\ update.finishing
         \/ Next0("release", "unlock", <<>>) /\ update.phase = "release"
         \/ /\ Next0("rb_stop", "stop", <<>>)
            /\ update.phase = "rollback" /\ update.finishing /\ update.rb = "stop"
         \/ /\ Next0("rb_restore", "restore", <<>>)
            /\ update.phase = "rollback" /\ update.finishing /\ update.rb = "restore"
         \/ /\ update.phase = "rollback" /\ update.rb = "verify"
            /\ \/ Next0("rb_script", "reset", <<"build", "restart">>)
               \/ Next0("rb_script", "build", <<"restart">>)
               \/ Next0("rb_script", "restart", <<>>)
         \/ Next0("rb_unlock", "unlock", <<>>) /\ update.phase = "rollback" /\ update.rb = "verify"
<1> USE HeadsAndTails DEF Next0
<1>1. CASE plan = "prepare"
  BY <1>1 DEF PlanInv
<1>2. CASE plan \in {"cancel", "discard"}
  BY <1>2 DEF PlanInv
<1>3. CASE plan = "abandon"
  BY <1>3 DEF PlanInv
<1>4. CASE plan = "locked"
  BY <1>4 DEF PlanInv
<1>5. CASE plan = "release"
  BY <1>5 DEF PlanInv
<1>6. CASE plan = "rb_stop"
  BY <1>6 DEF PlanInv
<1>7. CASE plan = "rb_restore"
  BY <1>7 DEF PlanInv
<1>8. CASE plan = "rb_script"
  BY <1>8 DEF PlanInv
<1>9. CASE plan = "rb_unlock"
  BY <1>9 DEF PlanInv
<1> QED
  BY <1>1, <1>2, <1>3, <1>4, <1>5, <1>6, <1>7, <1>8, <1>9 DEF PlanInv

\* The server moves, the job does not: what the backup is good for stays.
LEMMA HostMoves ==
  ASSUME JobInv, HostInv, UNCHANGED <<update, saved, unsaved>>,
         {source', bin', schema'} \subseteq {"old", "new"}, stamp' \in {"none", "old", "new"},
         pdhRuns' \in {"off", "old", "new"}, {work', made', late'} \subseteq Nat, locks' \in BOOLEAN,
         dump' \in [schema : {"none", "old", "new"}, work : Nat, late : Nat],
         update.finishing => dump'.schema # "none",
         unsaved <= 1 /\ WritesKept => WritesKept',
         unsaved <= 1 /\ (AtRisk(update) \/ AtRisk(saved)) => Safe'
  PROVE  JobInv' /\ HostInv'
<1>1. JobInv'
  BY DEF JobInv, AtRisk, Locks
<1>2. HostInv'
  BY DEF HostInv
<1> QED
  BY <1>1, <1>2

\* While the restore may come nothing but pdh starting and stopping happens.
LEMMA StartMoves ==
  ASSUME JobInv, HostInv, UNCHANGED <<update, saved, unsaved>>, Starts
  PROVE  JobInv' /\ HostInv'
<1>1. /\ pdhRuns' = bin /\ locks' = TRUE /\ UNCHANGED <<source, bin, stamp, work, made, late, dump>>
      /\ schema' \in {"old", "new"}
  BY DEF Starts, HostInv
<1>2. unsaved <= 1 /\ (AtRisk(update) \/ AtRisk(saved)) => Safe'
  BY <1>1 DEF JobInv, Safe
<1>3. WritesKept => WritesKept'
  BY <1>1 DEF WritesKept
<1>4. {source', bin', schema'} \subseteq {"old", "new"} /\ pdhRuns' \in {"off", "old", "new"}
  BY <1>1 DEF HostInv
<1>5. /\ stamp' \in {"none", "old", "new"} /\ {work', made', late'} \subseteq Nat /\ locks' \in BOOLEAN
      /\ dump' \in [schema : {"none", "old", "new"}, work : Nat, late : Nat]
      /\ update.finishing => dump'.schema # "none"
  BY <1>1 DEF HostInv
<1> QED
  BY <1>2, <1>3, <1>4, <1>5, HostMoves

\* The checkout and the program are of no account for the backup.
LEMMA TreeMoves ==
  ASSUME JobInv, HostInv, UNCHANGED <<update, saved, unsaved>>,
         {source', bin'} \subseteq {"old", "new"}, stamp' \in {"none", "old", "new"},
         pdhRuns' \in {pdhRuns, "off"}, UNCHANGED <<schema, work, made, late, dump, locks>>
  PROVE  JobInv' /\ HostInv'
<1>1. unsaved <= 1 /\ (AtRisk(update) \/ AtRisk(saved)) => Safe'
  BY DEF JobInv, Safe
<1>2. WritesKept => WritesKept'
  BY DEF WritesKept
<1>3. /\ {source', bin', schema'} \subseteq {"old", "new"} /\ pdhRuns' \in {"off", "old", "new"}
      /\ {work', made', late'} \subseteq Nat /\ locks' \in BOOLEAN
      /\ dump' \in [schema : {"none", "old", "new"}, work : Nat, late : Nat]
      /\ update.finishing => dump'.schema # "none"
  BY DEF HostInv
<1> QED
  BY <1>1, <1>2, <1>3, HostMoves

LEMMA RunKeeps ==
  ASSUME SingleInv, RunCommand
  PROVE  SingleInv'
<1> DEFINE c == Head(todo)
<1>1. todo # <<>> /\ HostDoes(c) /\ todo' = Tail(todo) /\ UNCHANGED plan
  BY DEF RunCommand
<1>2. JobInv /\ HostInv /\ PlanInv
  BY DEF SingleInv
<1>3. CASE c # "finishing"
  <2>1. UNCHANGED <<update, saved, unsaved>>
    BY <1>3 DEF RunCommand
  <2>2. /\ c \in {"fetch", "build", "reset", "unlock", "start", "lock", "stop", "dump",
                  "restart", "restore"}
        /\ c = "dump" => ~update.finishing
        /\ c = "restore" => update.finishing /\ AtRisk(update)
    BY <1>1, <1>2, <1>3, WhatIsNext DEF Next0, AtRisk
  <2> HIDE DEF c
  <2>3. JobInv' /\ HostInv'
    <3>1. CASE c \in {"fetch", "reset"}
      BY <2>1, <3>1, <1>1, <1>2, TreeMoves DEF HostDoes, HostInv
    <3>2. CASE c = "build"
      BY <2>1, <3>2, <1>1, <1>2, TreeMoves DEF HostDoes, HostInv
    <3>3. CASE c = "stop"
      BY <2>1, <3>3, <1>1, <1>2, TreeMoves DEF HostDoes, HostInv
    <3>4. CASE c \in {"unlock", "lock"}
      <4>1. UNCHANGED hostVars
        BY <3>4, <1>1 DEF HostDoes
      <4> QED
        BY <4>1, <2>1, PlanStep
    <3>5. CASE c \in {"start", "restart"}
      <4>1. Starts \/ UNCHANGED hostVars
        BY <3>5, <1>1 DEF HostDoes
      <4> QED
        BY <4>1, <2>1, <1>2, StartMoves, PlanStep
    <3>6. CASE c = "dump"
      <4>1. /\ dump' = [schema |-> schema, work |-> work, late |-> late]
            /\ UNCHANGED <<source, bin, stamp, pdhRuns, schema, work, made, late, locks>>
        BY <3>6, <1>1 DEF HostDoes
      <4>2. ~AtRisk(update) /\ ~AtRisk(saved)
        BY <2>2, <3>6, <1>2 DEF AtRisk, JobInv
      <4>3. dump' \in [schema : {"none", "old", "new"}, work : Nat, late : Nat]
        BY <4>1, <1>2 DEF HostInv
      <4>4. WritesKept => WritesKept'
        BY <4>1 DEF WritesKept
      <4>5. /\ {source', bin', schema'} \subseteq {"old", "new"} /\ stamp' \in {"none", "old", "new"}
            /\ pdhRuns' \in {"off", "old", "new"} /\ {work', made', late'} \subseteq Nat
            /\ locks' \in BOOLEAN
        BY <4>1, <1>2 DEF HostInv
      <4> QED
        BY <2>1, <2>2, <3>6, <4>2, <4>3, <4>4, <4>5, <1>2, HostMoves
    <3>7. CASE c = "restore"
      <4>1. /\ schema' = dump.schema /\ work' = dump.work /\ late' = dump.late
            /\ UNCHANGED <<source, bin, stamp, pdhRuns, made, dump, locks>>
        BY <3>7, <1>1 DEF HostDoes
      <4>2. schema' \in {"old", "new"} /\ work' \in Nat /\ late' \in Nat
        BY <4>1, <2>2, <3>7, <1>2 DEF HostInv
      <4>3. unsaved <= 1 => Safe' /\ work' = work
        BY <4>1, <2>2, <3>7, <1>2 DEF JobInv, Safe
      <4>4. unsaved <= 1 /\ WritesKept => WritesKept'
        BY <4>1, <4>3 DEF WritesKept
      <4>5. /\ {source', bin', schema'} \subseteq {"old", "new"} /\ stamp' \in {"none", "old", "new"}
            /\ pdhRuns' \in {"off", "old", "new"} /\ made' \in Nat /\ locks' \in BOOLEAN
            /\ dump' \in [schema : {"none", "old", "new"}, work : Nat, late : Nat]
            /\ update.finishing => dump'.schema # "none"
        BY <4>1, <4>2, <1>2 DEF HostInv
      <4> QED
        BY <2>1, <4>2, <4>3, <4>4, <4>5, <1>2, HostMoves
    <3> QED
      BY <2>2, <3>1, <3>2, <3>3, <3>4, <3>5, <3>6, <3>7
  <2>4. c = "stop" => pdhRuns' = "off"
    BY <1>1 DEF HostDoes
  <2>5. c = "dump" => pdhRuns' = pdhRuns /\ dump'.work = work' /\ dump'.schema = schema /\ schema # "none"
    BY <1>1, <1>2 DEF HostDoes, HostInv
  <2>6. c # "finishing" /\ update' = update /\ plan' = plan /\ todo' = Tail(todo)
    BY <2>1, <1>1, <1>3
  <2>7. PlanInv'
    <3> USE DEF Next0, c
    <3>1. CASE plan \in {"prepare", "cancel", "discard", "abandon"}
      BY <2>6, <3>1, <1>1, <1>2, WhatIsNext DEF PlanInv
    <3>2. CASE plan = "locked"
      BY <2>4, <2>5, <2>6, <3>2, <1>1, <1>2, WhatIsNext DEF PlanInv
    <3>3. CASE plan \in {"release", "rb_stop", "rb_restore", "rb_script", "rb_unlock"}
      BY <2>6, <3>3, <1>1, <1>2, WhatIsNext DEF PlanInv
    <3> QED
      BY <3>1, <3>2, <3>3, <1>1, <1>2, WhatIsNext
  <2> QED
    BY <2>3, <2>7 DEF SingleInv
<1>4. CASE c = "finishing"
  <2> DEFINE u == [update EXCEPT !.finishing = TRUE]
  <2>1. Put(u) /\ UNCHANGED hostVars
    BY <1>1, <1>4 DEF RunCommand, HostDoes
  <2>2. /\ Tail(todo) = <<"restart">> /\ plan = "locked" /\ update.phase = "locked"
        /\ ~update.finishing /\ Safe /\ dump.schema # "none"
    BY <1>1, <1>2, <1>4, WhatIsNext DEF Next0, Safe
  <2>3. /\ u \in Update /\ u.phase = "locked" /\ u.finishing
    BY <1>2, <2>2 DEF JobInv, Update
  <2> HIDE DEF u
  <2>4. GoesOn(u)
    BY <2>2, <2>3 DEF GoesOn, AtRisk, Late
  <2>5. /\ unsaved' \in Nat /\ unsaved' >= unsaved
        /\ update'.phase = "locked" /\ update'.finishing
    BY <2>1, <2>3, <1>2, PutJob DEF JobInv
  <2>6. HostInv' /\ (Safe <=> Safe')
    BY <2>1, <2>2, <2>5, <1>2, HostKeeps
  <2>7. JobInv'
    BY <2>1, <2>2, <2>4, <2>6, <1>2, PutKeeps
  <2>8. PlanInv'
    BY <1>1, <2>2, <2>5 DEF PlanInv
  <2> QED
    BY <2>6, <2>7, <2>8 DEF SingleInv
<1> QED
  BY <1>3, <1>4

\* A failed command spoils a build at most; what the job does about it.
LEMMA FailKeeps ==
  ASSUME SingleInv, CommandFails
  PROVE  SingleInv'
<1> DEFINE c == Head(todo)
<1>1. todo # <<>> /\ c # "finishing" /\ Damage(c) /\ AfterFailure(c)
  BY DEF CommandFails
<1>2. JobInv /\ HostInv /\ PlanInv
  BY DEF SingleInv
<1>3. update \in Update /\ update.mark \in BOOLEAN
  BY <1>2 DEF JobInv, Update
<1>4. UNCHANGED <<source, bin, pdhRuns, schema, work, made, late, dump, sound, locks>>
      /\ stamp' \in {"none", "old", "new"}
  BY <1>1, <1>2 DEF Damage, HostInv
<1> HIDE DEF c
\* The job's steps below leave the rest of the server alone; the stamp plays no part.
<1>5. ASSUME NEW u, GoesOn(u), AtRisk(u) => AtRisk(update), u.finishing => update.finishing,
             Put(u)
      PROVE  JobInv' /\ HostInv'
  <2>1. /\ update'.finishing = u.finishing
        /\ unsaved' \in Nat /\ unsaved' >= unsaved
    BY <1>2, <1>5, PutJob DEF JobInv, GoesOn
  <2>2. unsaved <= 1 /\ WritesKept => WritesKept'
    BY <1>4 DEF WritesKept
  <2>3. HostInv'
    BY <2>1, <2>2, <1>2, <1>4, <1>5 DEF HostInv, JobInv
  <2>4. Safe <=> Safe'
    BY <1>4 DEF Safe
  <2>5. JobInv'
    BY <2>4, <1>2, <1>5, PutKeeps DEF JobInv
  <2> QED
    BY <2>3, <2>5
<1>6. ASSUME UNCHANGED <<update, saved, unsaved>>
      PROVE  JobInv' /\ HostInv'
  BY <1>2, <1>4, <1>6, TreeMoves DEF HostInv
<1>7. ASSUME NEW mark \in BOOLEAN, NEW remark \in BOOLEAN, FailsWith(mark, remark),
             ~AtRisk(update)
      PROVE  SingleInv'
  <2> DEFINE u == [update EXCEPT !.phase = "failed", !.mark = mark,
                                 !.remark = update.remark \/ remark]
  <2>1. (update.remark \/ remark) \in BOOLEAN
    BY <1>3 DEF Update
  <2>2. u \in Update /\ u.phase = "failed" /\ u.finishing = update.finishing
    BY <2>1, <1>3 DEF Update, Phases
  <2>3. Put(u) /\ plan' = "none" /\ todo' = <<>>
    BY <1>3, <1>7 DEF FailsWith, Plans, Update
  <2> HIDE DEF u
  <2>4. GoesOn(u) /\ (AtRisk(u) => AtRisk(update)) /\ (u.finishing => update.finishing)
    BY <1>7, <2>2 DEF GoesOn, AtRisk, Late
  <2>5. JobInv' /\ HostInv'
    BY <2>3, <2>4, <1>5
  <2> QED
    BY <2>3, <2>5 DEF SingleInv, PlanInv
<1>8. CASE plan = "prepare" /\ FailsWith(FALSE, FALSE)
  <2>1. ~AtRisk(update)
    BY <1>1, <1>2, <1>8, WhatIsNext DEF AtRisk, Next0
  <2> QED
    BY <2>1, <1>7, <1>8
<1>9. CASE plan = "prepare" /\ ~FailsWith(FALSE, FALSE)
  <2>1. plan' = "discard" /\ todo' = <<"reset", "build">> /\ UNCHANGED <<update, saved, unsaved>>
    BY <1>1, <1>9 DEF AfterFailure, PrepareFails, Plans, Undo
  <2>2. update.phase = "prepare"
    BY <1>1, <1>2, <1>9, WhatIsNext DEF Next0
  <2>3. PlanInv'
    BY <2>1, <2>2 DEF PlanInv
  <2> QED
    BY <2>1, <2>3, <1>6 DEF SingleInv
<1>10. CASE plan = "locked" /\ c = "restart"
  <2> DEFINE u == [update EXCEPT !.phase = "rollback", !.mark = TRUE, !.rb = "stop"]
  <2>1. update.phase = "locked" /\ update.finishing
    BY <1>1, <1>2, <1>10, WhatIsNext DEF Next0, c
  <2>2. Put(u) /\ plan' = "none" /\ todo' = <<>>
    BY <1>1, <1>10 DEF AfterFailure, LockedFails, RollsBack, Plans
  <2>3. u \in Update /\ u.phase = "rollback" /\ u.finishing = update.finishing
    BY <1>3 DEF Update, Phases
  <2> HIDE DEF u
  <2>4. GoesOn(u) /\ (AtRisk(u) => AtRisk(update)) /\ (u.finishing => update.finishing)
    BY <2>1, <2>3 DEF GoesOn, AtRisk, Locks, Late
  <2>5. JobInv' /\ HostInv'
    BY <2>2, <2>4, <1>5
  <2> QED
    BY <2>2, <2>5 DEF SingleInv, PlanInv
<1>11. CASE plan = "locked" /\ c # "restart"
  <2>1. ~update.finishing /\ c \notin {"fetch", "start"}
    BY <1>1, <1>2, <1>11, WhatIsNext DEF Next0, c
  <2>2. Abandons
    BY <2>1, <1>1, <1>11 DEF AfterFailure, LockedFails
  <2>3. plan' = "abandon" /\ todo' = <<"reset", "build", "unlock", "start">>
        /\ UNCHANGED <<update, saved, unsaved>>
    BY <2>2, UndoWritten DEF Abandons, Plans
  <2>4. PlanInv'
    BY <2>1, <2>3 DEF PlanInv
  <2> QED
    BY <2>3, <2>4, <1>6 DEF SingleInv
<1>12. CASE plan \in {"rb_stop", "rb_restore"}
  <2> DEFINE u == [update EXCEPT !.rb = "script", !.remark = TRUE]
  <2>1. update.phase = "rollback" /\ c \notin {"fetch", "start"}
    BY <1>1, <1>2, <1>12, WhatIsNext DEF Next0, c
  <2>2. Put(u) /\ plan' = "none" /\ todo' = <<>>
    BY <2>1, <1>1, <1>12 DEF AfterFailure, RollbackFails, Plans
  <2>3. u \in Update /\ u.phase = "rollback" /\ u.finishing = update.finishing /\ u.rb = "script"
    BY <2>1, <1>3 DEF Update
  <2> HIDE DEF u
  <2>4. GoesOn(u) /\ (AtRisk(u) => AtRisk(update)) /\ (u.finishing => update.finishing)
    BY <2>1, <2>3 DEF GoesOn, AtRisk, Locks, Late
  <2>5. JobInv' /\ HostInv'
    BY <2>2, <2>4, <1>5
  <2> QED
    BY <2>2, <2>5 DEF SingleInv, PlanInv
<1>13. CASE plan = "rb_script"
  <2> DEFINE u == [update EXCEPT !.rb = "verify", !.remark = TRUE]
  <2>1. update.phase = "rollback" /\ update.rb = "verify" /\ c \notin {"fetch", "start"}
    BY <1>1, <1>2, <1>13, WhatIsNext DEF Next0, c
  <2>2. Put(u) /\ plan' = "none" /\ todo' = <<>>
    BY <2>1, <1>1, <1>13 DEF AfterFailure, RollbackFails, Plans
  <2>3. u \in Update /\ u.phase = "rollback" /\ u.finishing = update.finishing /\ u.rb = "verify"
    BY <2>1, <1>3 DEF Update
  <2> HIDE DEF u
  <2>4. GoesOn(u) /\ (AtRisk(u) => AtRisk(update)) /\ (u.finishing => update.finishing)
    BY <2>1, <2>3 DEF GoesOn, AtRisk, Locks, Late
  <2>5. JobInv' /\ HostInv'
    BY <2>2, <2>4, <1>5
  <2> QED
    BY <2>2, <2>5 DEF SingleInv, PlanInv
<1>14. CASE plan = "abandon" /\ c = "start"
  <2>1. FailsWith(FALSE, TRUE) /\ ~AtRisk(update)
    BY <1>1, <1>2, <1>14, WhatIsNext DEF AfterFailure, AtRisk, Next0
  <2> QED
    BY <2>1, <1>7
<1>15. CASE \/ plan \in {"cancel", "discard", "release", "rb_unlock"}
            \/ plan = "abandon" /\ c # "start"
  <2>1. c \in {"reset", "build", "unlock"}
    BY <1>1, <1>2, <1>15, WhatIsNext DEF Next0, c
  <2>2. /\ plan' = plan /\ UNCHANGED <<update, saved, unsaved>>
        /\ todo' = IF c = "reset" THEN Tail(Tail(todo)) ELSE Tail(todo)
    BY <2>1, <1>1, <1>15 DEF AfterFailure, Plans
  <2>3. PlanInv'
    <3>1. CASE plan \in {"cancel", "discard"}
      BY <2>2, <3>1, <1>1, <1>2, WhatIsNext, HeadsAndTails DEF PlanInv, Next0, c
    <3>2. CASE plan = "abandon"
      BY <2>1, <2>2, <3>2, <1>1, <1>2, WhatIsNext, HeadsAndTails DEF PlanInv, Next0, c
    <3>3. CASE plan \in {"release", "rb_unlock"}
      BY <2>2, <3>3, <1>1, <1>2, WhatIsNext, HeadsAndTails DEF PlanInv, Next0, c
    <3> QED
      BY <3>1, <3>2, <3>3, <1>15
  <2> QED
    BY <2>2, <2>3, <1>6 DEF SingleInv
<1> QED
  BY <1>1, <1>2, <1>8, <1>9, <1>10, <1>11, <1>12, <1>13, <1>14, <1>15 DEF PlanInv

\* The agent goes on with the saved job.
LEMMA DiesKeeps ==
  ASSUME SingleInv, AgentDies
  PROVE  SingleInv'
<1>1. update' = saved /\ UNCHANGED <<saved, unsaved>> /\ plan' = "none" /\ todo' = <<>>
  BY DEF AgentDies, Plans
<1>2. UNCHANGED <<source, bin, pdhRuns, schema, work, made, late, dump, sound, locks>>
      /\ stamp' \in {"none", "old", "new"}
  BY DEF AgentDies, Damage, hostVars, SingleInv, HostInv
<1>3. Safe <=> Safe'
  BY <1>2 DEF Safe
<1>4. AtRisk(saved) => Locks(saved)
  BY DEF AtRisk, Locks
<1>5. AtRisk(update)' <=> AtRisk(saved)
  BY <1>1 DEF AtRisk
<1>6. AtRisk(saved)' <=> AtRisk(saved)
  BY <1>1 DEF AtRisk
<1>7. Locks(update)' <=> Locks(saved)
  BY <1>1 DEF Locks
<1>8. JobInv'
  BY <1>1, <1>3, <1>4, <1>5, <1>6, <1>7 DEF SingleInv, JobInv
<1>9. WritesKept <=> WritesKept'
  BY <1>2 DEF WritesKept
<1>10. HostInv'
  BY <1>1, <1>2, <1>9 DEF SingleInv, HostInv, JobInv
<1>11. PlanInv'
  BY <1>1 DEF PlanInv
<1> QED
  BY <1>8, <1>10, <1>11 DEF SingleInv

-----------------------------------------------------------------------------
(* pdh and its users.                                                      *)

\* The agent starts, or pdh gives up waiting for it: nobody has written yet.
LEMMA AwayKeeps ==
  ASSUME SingleInv, AgentStarts \/ LockLapses
  PROVE  SingleInv'
<1>1. /\ UNCHANGED <<update, saved, plan, todo, unsaved>>
      /\ UNCHANGED <<source, bin, stamp, pdhRuns, schema, work, made, late, dump, locks>>
  BY DEF AgentStarts, LockLapses, agentVars, hostVars, singleBounds
<1>2. unsaved <= 1 /\ (AtRisk(update) \/ AtRisk(saved)) => Safe'
  BY <1>1 DEF SingleInv, JobInv, Safe
<1>3. WritesKept => WritesKept'
  BY <1>1 DEF WritesKept
<1>4. JobInv' /\ HostInv'
  BY <1>1, <1>2, <1>3, HostMoves DEF SingleInv, HostInv
<1>5. PlanInv'
  BY <1>1 DEF SingleInv, PlanInv
<1> QED
  BY <1>4, <1>5 DEF SingleInv

LEMMA MaintTickKeeps ==
  ASSUME SingleInv, MaintTick
  PROVE  SingleInv'
<1>1. /\ locks' = Locks(update) /\ UNCHANGED <<update, saved, plan, todo, unsaved>>
      /\ UNCHANGED <<source, bin, stamp, pdhRuns, schema, work, made, late, dump>>
  BY DEF MaintTick, agentVars, singleBounds
<1>2. locks' \in BOOLEAN
  BY <1>1 DEF Locks
<1>3. unsaved <= 1 /\ (AtRisk(update) \/ AtRisk(saved)) => Safe'
  BY <1>1 DEF SingleInv, JobInv, Safe
<1>4. WritesKept => WritesKept'
  BY <1>1 DEF WritesKept
<1>5. JobInv' /\ HostInv'
  BY <1>1, <1>2, <1>3, <1>4, HostMoves DEF SingleInv, HostInv
<1>6. PlanInv'
  BY <1>1 DEF SingleInv, PlanInv
<1> QED
  BY <1>5, <1>6 DEF SingleInv

\* Users write while no backup is waiting to be restored, or too late.
LEMMA UserKeeps ==
  ASSUME SingleInv, UserWrites
  PROVE  SingleInv'
<1>1. /\ pdhRuns # "off" /\ UNCHANGED <<update, saved, plan, todo, unsaved>>
      /\ UNCHANGED <<source, bin, stamp, pdhRuns, schema, dump, locks>>
  BY DEF UserWrites, agentVars, singleBounds
<1>2. \/ /\ ~locks \/ ~Locks(update)
         /\ work' = work + 1 /\ made' = made + 1 /\ late' = late
      \/ work' = work /\ made' = made /\ late' = late + 1
  BY DEF UserWrites
<1>3. unsaved <= 1 /\ (AtRisk(update) \/ AtRisk(saved)) => Safe'
  BY <1>1, <1>2 DEF SingleInv, JobInv, Safe
<1>4. {work', made', late'} \subseteq Nat /\ (WritesKept => WritesKept')
  BY <1>2 DEF WritesKept, SingleInv, HostInv
<1>5. JobInv' /\ HostInv'
  BY <1>1, <1>3, <1>4, HostMoves DEF SingleInv, HostInv
<1>6. PlanInv'
  BY <1>1, <1>3 DEF SingleInv, PlanInv
<1> QED
  BY <1>5, <1>6 DEF SingleInv

LEMMA RelaunchKeeps ==
  ASSUME SingleInv, PdhRelaunches
  PROVE  SingleInv'
<1>1. Starts /\ UNCHANGED <<update, saved, plan, todo, unsaved>> /\ pdhRuns # "off"
  BY DEF PdhRelaunches, agentVars
<1>2. JobInv' /\ HostInv'
  BY <1>1, StartMoves DEF SingleInv
<1>3. PlanInv'
  BY <1>1 DEF SingleInv, PlanInv
<1> QED
  BY <1>2, <1>3 DEF SingleInv

LEMMA SingleInitInv == SingleInit => SingleInv
<1> SUFFICES ASSUME SingleInit PROVE SingleInv
  OBVIOUS
<1>1. NoUpdate \in Update /\ ~NoUpdate.finishing
  BY DEF NoUpdate, Update, Phases
<1>2. JobInv
  BY <1>1 DEF SingleInit, JobInv, AtRisk
<1>3. /\ dump = [schema |-> "none", work |-> 0, late |-> 0]
      /\ work = 0 /\ made = 0 /\ late = 0 /\ locks = FALSE /\ ~update.finishing
  BY <1>1 DEF SingleInit
<1>4. dump \in [schema : {"none", "old", "new"}, work : Nat, late : Nat]
  BY <1>3
<1>5. /\ {work, made, late} \subseteq Nat /\ locks \in BOOLEAN
      /\ WritesKept
  <2>1. 0 \in Nat
    OBVIOUS
  <2>2. {work, made, late} \subseteq Nat
    BY <2>1, <1>3, Zenon
  <2>3. locks \in BOOLEAN /\ WritesKept
    BY <1>3 DEF WritesKept
  <2> QED
    BY <2>2, <2>3
<1>6. HostInv
  BY <1>3, <1>4, <1>5 DEF SingleInit, HostInv
<1>7. PlanInv
  BY DEF SingleInit, PlanInv
<1> QED
  BY <1>2, <1>6, <1>7 DEF SingleInv

LEMMA SingleNextInv == SingleInv /\ [SingleNext]_singleVars => SingleInv'
<1> SUFFICES ASSUME SingleInv, [SingleNext]_singleVars PROVE SingleInv'
  OBVIOUS
<1>1. CASE JobStep
  BY <1>1, PrepareKeeps, CountdownKeeps, LockedKeeps, VerifyKeeps, HealthKeeps, ReleaseKeeps,
     RollbackKeeps, DoneKeeps, RunKeeps, FailKeeps DEF JobStep
<1>2. CASE UNCHANGED singleVars
  <2>1. UNCHANGED hostVars /\ UNCHANGED <<update, saved, unsaved, plan, todo>>
    BY <1>2 DEF singleVars, agentVars, singleBounds
  <2>2. JobInv' /\ HostInv'
    BY <2>1, PlanStep
  <2>3. PlanInv'
    BY <2>1 DEF SingleInv, PlanInv, hostVars
  <2> QED
    BY <2>2, <2>3 DEF SingleInv
<1> QED
  BY <1>1, <1>2, StartKeeps, AbortKeeps, DiesKeeps, AwayKeeps, MaintTickKeeps, UserKeeps, RelaunchKeeps
  DEF SingleNext

\* What holds of the job, its file and the server at every moment of an update.
LEMMA SingleInvHolds == SingleSpec => []SingleInv
<1>1. SingleInit => SingleInv
  BY SingleInitInv
<1>2. SingleInv /\ [SingleNext]_singleVars => SingleInv'
  BY SingleNextInv
<1> QED
  BY <1>1, <1>2, PTL DEF SingleSpec

-----------------------------------------------------------------------------
(* The results.                                                            *)

\* The variables of the single update keep their types (job.go, job_host.go,
\* install_update.sh).
THEOREM SingleTypes == SingleSpec => []SingleTypeOK
<1>1. SingleInv => SingleTypeOK
  <2> SUFFICES ASSUME SingleInv PROVE SingleTypeOK
    OBVIOUS
  <2>1. {update.phase, saved.phase} \subseteq Phases
    BY DEF SingleInv, JobInv, Update
  <2>2. /\ {source, bin, schema} \subseteq {"old", "new"} /\ stamp \in {"none", "old", "new"}
        /\ pdhRuns \in {"off", "old", "new"}
    BY DEF SingleInv, HostInv
  <2>3. plan \in {"none", "prepare", "cancel", "discard", "abandon", "locked", "health", "release",
               "rb_stop", "rb_restore", "rb_script", "rb_unlock"}
    BY DEF SingleInv, PlanInv
  <2> QED
    BY <2>1, <2>2, <2>3 DEF SingleTypeOK
<1> QED
  BY <1>1, SingleInvHolds, PTL

\* As long as the job file could not be written at most once, no change that a
\* user made before, during or after the update is lost: whatever command fails,
\* whenever the agent dies and however long it stays away, the backup that is
\* restored (jobRollbackStep) holds what the database held when pdh was stopped,
\* and nobody wrote since but the users pdh let in by itself, after 30 s without
\* the agent in the middle of the job (maintTick).  Their changes are counted
\* apart (late): the code does not keep them.
THEOREM UpdateKeepsWrites == SingleSpec => [](unsaved <= 1 => WritesKept)
<1>1. SingleInv => (unsaved <= 1 => WritesKept)
  BY DEF SingleInv, HostInv
<1> QED
  BY <1>1, SingleInvHolds, PTL

-----------------------------------------------------------------------------
(* The old program and the database.  Three things break the rule by       *)
(* themselves: a job file that is not written, pdh started by systemd in   *)
(* the middle of a step, and two failed commands with a death of the agent *)
(* between them.  Without these it holds.                                  *)

Undisturbed == unsaved = 0 /\ relaunches = 0 /\ (refusals <= 1 \/ kills = 0)

\* A job that was given up although its way back failed: the new program runs.
LeftNew ==
  /\ pdhRuns = "new" /\ (update.aborted \/ refusals >= 2)
  /\ \/ plan = "abandon"
     \/ plan = "none" /\ update.phase = "failed"
     \/ plan = "none" /\ update.phase = "locked" /\ update.aborted

\* Before --finish no new program has run on the database.
BeforeFinish ==
  /\ update.phase \in {"none", "prepare", "countdown", "locked", "failed"}
  /\ ~rerun
  /\ (schema = "old" /\ pdhRuns # "new") \/ LeftNew
  /\ todo = <<"finishing", "restart">> => dump.schema = "old"

\* Giving up: pdh is off after a failed command or an abort only, and what it
\* will start is the old program, or another command has failed.
GivingUp ==
  plan = "abandon" =>
    /\ update.phase = "locked"
    /\ pdhRuns = "off" => update.aborted \/ refusals >= 1
    /\ todo = <<"build", "unlock", "start">> => source = "old"
    /\ todo \in {<<"unlock", "start">>, <<"start">>} /\ pdhRuns = "off" /\ bin = "new" =>
         update.aborted \/ refusals >= 2

\* After it the backup is of the old database, and the way back goes over the
\* stop and the restore, or leaves a remark in the file.
AfterFinish ==
  /\ dump.schema = "old"
  /\ pdhRuns = "old" => schema = "old" \/ saved.remark
  /\ plan = "locked" /\ todo = <<"restart">> => schema = "old"
  /\ update.phase = "rollback" =>
       /\ update.rb = "restore" => pdhRuns = "off"
       /\ update.rb \in {"script", "verify"} => schema = "old" \/ saved.remark
  /\ plan = "rb_stop" /\ todo = <<>> => pdhRuns = "off"
  /\ plan = "rb_restore" /\ todo = <<>> => schema = "old"
  /\ plan = "rb_script" =>
       /\ todo = <<"build", "restart">> => source = "old"
       /\ todo = <<"restart">> => bin = "old"

CountsInv == {refusals, kills, relaunches} \subseteq Nat

OldInv ==
  /\ CountsInv
  /\ Undisturbed =>
       /\ saved.aborted = update.aborted /\ (saved.remark => update.remark)
       /\ ~update.finishing => BeforeFinish
       /\ update.finishing => AfterFinish
       /\ GivingUp

\* What a step finds when nothing has disturbed the job up to its end.
OldParts ==
  /\ saved.aborted = update.aborted /\ (saved.remark => update.remark)
  /\ ~update.finishing => BeforeFinish
  /\ update.finishing => AfterFinish
  /\ GivingUp

\* The counts only grow.
CountsGrow ==
  /\ unsaved' >= unsaved /\ refusals' >= refusals /\ kills' >= kills /\ relaunches' >= relaunches
  /\ {refusals', kills', relaunches'} \subseteq Nat /\ unsaved' \in Nat

LEMMA OldStep ==
  ASSUME SingleInv, OldInv, CountsGrow,
         ASSUME Undisturbed, Undisturbed', OldParts, unsaved = 0, unsaved' = 0
         PROVE  OldParts'
  PROVE  OldInv'
<1>1. CountsInv'
  BY DEF CountsGrow, CountsInv
<1>2. Undisturbed' => Undisturbed /\ unsaved = 0 /\ unsaved' = 0
  BY DEF CountsGrow, Undisturbed, OldInv, CountsInv, SingleInv, JobInv
<1>3. Undisturbed => OldParts
  BY DEF OldInv, OldParts
<1>4. Undisturbed' => OldParts'
  BY <1>2, <1>3
<1> QED
  BY <1>1, <1>4 DEF OldInv, OldParts

LEMMA PutGrows ==
  ASSUME SingleInv, OldInv, NEW u \in Update, Put(u), UNCHANGED <<kills, relaunches>>,
         refusals' \in Nat, refusals' >= refusals
  PROVE  CountsGrow
<1>1. unsaved' \in Nat /\ unsaved' >= unsaved
  BY PutJob DEF SingleInv, JobInv
<1> QED
  BY <1>1 DEF CountsGrow, OldInv, CountsInv

LEMMA SameGrows ==
  ASSUME SingleInv, OldInv, UNCHANGED <<unsaved, kills, relaunches>>,
         refusals' \in Nat, refusals' >= refusals
  PROVE  CountsGrow
  BY DEF CountsGrow, OldInv, CountsInv, SingleInv, JobInv

LEMMA RefusalGrows == OldInv => refusals \in Nat /\ refusals + 1 \in Nat /\ refusals + 1 >= refusals
                                /\ refusals >= refusals
  BY DEF OldInv, CountsInv

\* A job that is saved while nothing disturbs: the file has it too.
LEMMA PutSaved ==
  ASSUME SingleInv, OldParts, NEW u \in Update, Put(u), unsaved = 0, unsaved' = 0
  PROVE  /\ saved' = update'
         /\ update'.phase = u.phase /\ update'.finishing = u.finishing /\ update'.rb = u.rb
         /\ update'.remark = u.remark /\ update'.aborted = (u.aborted \/ update.aborted)
<1>1. /\ update' \in Update
      /\ update'.phase = u.phase /\ update'.finishing = u.finishing /\ update'.rb = u.rb
      /\ update'.remark = u.remark /\ update'.aborted = (u.aborted \/ update.aborted)
      /\ \/ saved' = update' /\ unsaved' = unsaved
         \/ saved' = saved /\ unsaved' = unsaved + 1
  BY PutJob DEF SingleInv, JobInv
<1> QED
  BY <1>1

\* A save at the end of a step, the server as it was.
LEMMA OldSaves ==
  ASSUME SingleInv, OldInv, NEW u \in Update, Put(u),
         UNCHANGED <<rerun, source, bin, pdhRuns, schema, dump, kills, relaunches>>,
         refusals' \in Nat, refusals' >= refusals,
         plan' = "none", todo' = <<>>,
         u.finishing = update.finishing, update.aborted => u.aborted,
         update.remark => u.remark,
         ASSUME OldParts, ~update.finishing, BeforeFinish, GivingUp
         PROVE  /\ u.phase \in {"none", "prepare", "countdown", "locked", "failed"}
                /\ LeftNew => u.phase = "failed",
         ASSUME OldParts, update.finishing, AfterFinish, u.phase = "rollback"
         PROVE  /\ u.rb = "restore" => pdhRuns = "off"
                /\ u.rb \in {"script", "verify"} => schema = "old" \/ u.remark
  PROVE  OldInv'
<1>1. CountsGrow
  BY PutGrows
<1>2. ASSUME Undisturbed, Undisturbed', OldParts, unsaved = 0, unsaved' = 0
      PROVE  OldParts'
  <2>1. /\ saved' = update'
        /\ update'.phase = u.phase /\ update'.finishing = u.finishing /\ update'.rb = u.rb
        /\ update'.remark = u.remark /\ update'.aborted = (u.aborted \/ update.aborted)
    BY <1>2, PutSaved
  <2>2. GivingUp'
    BY DEF GivingUp
  <2>3. ASSUME ~update'.finishing PROVE BeforeFinish'
    <3>1. BeforeFinish /\ GivingUp /\ ~update.finishing
      BY <1>2, <2>1, <2>3 DEF OldParts
    <3>2. /\ u.phase \in {"none", "prepare", "countdown", "locked", "failed"}
          /\ LeftNew => u.phase = "failed"
      BY <3>1, <1>2
    <3>3. refusals >= 2 => refusals' >= 2
      BY <1>1 DEF CountsGrow, OldInv, CountsInv
    <3>4. update.aborted => update'.aborted
      BY <2>1
    <3>5. LeftNew => LeftNew'
      BY <3>2, <3>3, <3>4, <2>1 DEF LeftNew
    <3> QED
      BY <3>1, <3>2, <3>5, <2>1 DEF BeforeFinish
  <2>4. ASSUME update'.finishing PROVE AfterFinish'
    <3>1. AfterFinish /\ update.finishing
      BY <1>2, <2>1, <2>4 DEF OldParts
    <3>2. saved.remark => u.remark
      BY <1>2 DEF OldParts
    <3>3. u.phase = "rollback" =>
             /\ u.rb = "restore" => pdhRuns = "off"
             /\ u.rb \in {"script", "verify"} => schema = "old" \/ u.remark
      BY <3>1, <1>2
    <3> QED
      BY <3>1, <3>2, <3>3, <2>1 DEF AfterFinish
  <2> QED
    BY <2>1, <2>2, <2>3, <2>4 DEF OldParts
<1> QED
  BY <1>1, <1>2, OldStep

LEMMA OldFails ==
  ASSUME SingleInv, OldInv, NEW mark \in BOOLEAN, NEW remark \in BOOLEAN, FailsWith(mark, remark),
         UNCHANGED <<rerun, source, bin, pdhRuns, schema, dump, kills, relaunches>>,
         refusals' \in Nat, refusals' >= refusals
  PROVE  OldInv'
<1> DEFINE u == [update EXCEPT !.phase = "failed", !.mark = mark, !.remark = update.remark \/ remark]
<1>1. (update.remark \/ remark) \in BOOLEAN /\ update \in Update
  BY DEF SingleInv, JobInv, Update
<1>2. u \in Update
  BY <1>1 DEF Update, Phases
<1>3. /\ u.phase = "failed" /\ u.finishing = update.finishing /\ u.aborted = update.aborted
      /\ u.remark = (update.remark \/ remark)
  BY <1>1 DEF Update
<1>4. Put(u) /\ plan' = "none" /\ todo' = <<>>
  BY <1>1 DEF FailsWith, Plans, Update
<1> HIDE DEF u
<1> QED
  BY <1>2, <1>3, <1>4, OldSaves

LEMMA OldEnters ==
  ASSUME SingleInv, OldInv, NEW p \in Phases \ {"rollback"}, EntersPhase(p),
         UNCHANGED <<rerun, source, bin, pdhRuns, schema, dump, kills, relaunches, refusals>>,
         ASSUME OldParts, ~update.finishing, BeforeFinish, GivingUp
         PROVE  p \in {"none", "prepare", "countdown", "locked", "failed"} /\ ~LeftNew
  PROVE  OldInv'
<1> DEFINE u == [update EXCEPT !.phase = p]
<1>1. /\ u \in Update /\ u.phase = p /\ u.finishing = update.finishing /\ u.aborted = update.aborted
      /\ u.remark = update.remark
  BY DEF SingleInv, JobInv, Update
<1>2. Put(u) /\ plan' = "none" /\ todo' = <<>>
  BY DEF EntersPhase, Plans
<1>3. refusals' \in Nat /\ refusals' >= refusals
  BY RefusalGrows
<1> HIDE DEF u
<1> QED
  BY <1>1, <1>2, <1>3, OldSaves

LEMMA OldRollsBack ==
  ASSUME SingleInv, OldInv, NEW mark \in BOOLEAN, RollsBack(mark),
         UNCHANGED <<rerun, source, bin, pdhRuns, schema, dump, kills, relaunches>>,
         refusals' \in Nat, refusals' >= refusals,
         update.finishing \/ update.phase = "verify_new"
  PROVE  OldInv'
<1> DEFINE u == [update EXCEPT !.phase = "rollback", !.mark = mark, !.rb = "stop"]
<1>1. /\ u \in Update /\ u.phase = "rollback" /\ u.finishing = update.finishing
      /\ u.aborted = update.aborted /\ u.remark = update.remark /\ u.rb = "stop"
  BY DEF SingleInv, JobInv, Update, Phases
<1>2. Put(u) /\ plan' = "none" /\ todo' = <<>>
  BY DEF RollsBack, Plans
<1> HIDE DEF u
<1>3. ASSUME OldParts, ~update.finishing, BeforeFinish, GivingUp
      PROVE  /\ u.phase \in {"none", "prepare", "countdown", "locked", "failed"}
             /\ LeftNew => u.phase = "failed"
  BY <1>3 DEF BeforeFinish
<1> QED
  BY <1>1, <1>2, <1>3, OldSaves

LEMMA OldRb ==
  ASSUME SingleInv, OldInv, NEW rb \in {"restore", "script", "verify"}, NEW remark \in BOOLEAN,
         Put([update EXCEPT !.rb = rb, !.remark = remark]), update.phase = "rollback",
         update.remark => remark,
         UNCHANGED <<rerun, source, bin, pdhRuns, schema, dump, kills, relaunches>>,
         refusals' \in Nat, refusals' >= refusals, plan' = "none", todo' = <<>>,
         ASSUME OldParts, AfterFinish
         PROVE  /\ rb = "restore" => pdhRuns = "off"
                /\ rb \in {"script", "verify"} => schema = "old" \/ remark
  PROVE  OldInv'
<1> DEFINE u == [update EXCEPT !.rb = rb, !.remark = remark]
<1>1. /\ u \in Update /\ u.phase = "rollback" /\ u.finishing = update.finishing
      /\ u.aborted = update.aborted /\ u.remark = remark /\ u.rb = rb
  BY DEF SingleInv, JobInv, Update
<1>2. Put(u)
  OBVIOUS
<1> HIDE DEF u
<1>3. ASSUME OldParts, ~update.finishing, BeforeFinish, GivingUp
      PROVE  /\ u.phase \in {"none", "prepare", "countdown", "locked", "failed"}
             /\ LeftNew => u.phase = "failed"
  BY <1>3 DEF BeforeFinish
<1> QED
  BY <1>1, <1>2, <1>3, OldSaves

\* Steps that leave the job in memory and in the file as they are.
LEMMA OldPlans ==
  ASSUME SingleInv, OldInv, UNCHANGED <<update, saved, unsaved, kills, relaunches>>,
         refusals' \in Nat, refusals' >= refusals,
         ASSUME OldParts, ~update.finishing, BeforeFinish, GivingUp
         PROVE  BeforeFinish',
         ASSUME OldParts, update.finishing, AfterFinish PROVE AfterFinish',
         ASSUME OldParts PROVE GivingUp'
  PROVE  OldInv'
<1>1. CountsGrow
  BY SameGrows
<1>2. ASSUME Undisturbed, Undisturbed', OldParts, unsaved = 0, unsaved' = 0
      PROVE  OldParts'
  BY <1>2 DEF OldParts
<1> QED
  BY <1>1, <1>2, OldStep

LEMMA StaysOld ==
  Stays => UNCHANGED <<rerun, source, bin, pdhRuns, schema, dump, kills, relaunches, refusals>>
  BY DEF Stays, hostVars

LEMMA OldStart ==
  ASSUME SingleInv, OldInv, StartSingleJob
  PROVE  OldInv'
<1> DEFINE u == [NoUpdate EXCEPT !.phase = "prepare"]
<1>1. /\ u \in Update /\ u.phase = "prepare" /\ u.finishing = FALSE
  BY DEF NoUpdate, Update, Phases
<1>2. Put(u) /\ UNCHANGED <<plan, todo>> /\ update.phase = "none"
  BY DEF StartSingleJob
<1>3. UNCHANGED <<rerun, source, bin, pdhRuns, schema, dump, kills, relaunches, refusals>>
  BY StaysOld DEF StartSingleJob
<1> HIDE DEF u
<1>4. ~update.finishing
  BY <1>2 DEF SingleInv, JobInv, Late
<1>5. CountsGrow
  BY <1>1, <1>2, <1>3, RefusalGrows, PutGrows
<1>6. ASSUME Undisturbed, Undisturbed', OldParts, unsaved = 0, unsaved' = 0
      PROVE  OldParts'
  <2>1. saved' = update' /\ update'.phase = "prepare" /\ update'.finishing = FALSE
    BY <1>1, <1>2, <1>6, PutSaved
  <2>2. plan # "abandon" /\ ~LeftNew
    BY <1>2, <1>6 DEF OldParts, GivingUp, LeftNew
  <2> QED
    BY <2>1, <2>2, <1>2, <1>3, <1>4, <1>6 DEF OldParts, GivingUp, BeforeFinish
<1> QED
  BY <1>5, <1>6, OldStep

LEMMA OldJob ==
  ASSUME SingleInv, OldInv, JobPrepare \/ JobCountdown \/ JobLocked \/ JobVerifyNew \/ JobRelease
  PROVE  OldInv'
<1>1. /\ Stays /\ plan = "none"
      /\ UNCHANGED <<rerun, source, bin, pdhRuns, schema, dump, kills, relaunches, refusals>>
  BY StaysOld DEF JobPrepare, JobCountdown, JobLocked, JobVerifyNew, JobRelease, Ready
<1>2. refusals' \in Nat /\ refusals' >= refusals /\ todo = <<>>
  BY <1>1, RefusalGrows DEF SingleInv, PlanInv
<1>3. update.phase \in {"prepare", "countdown"} => ~update.finishing
  BY DEF SingleInv, JobInv, Late
<1>4. CASE JobPrepare
  <2>1. CASE update.aborted
    BY <2>1, <1>1, <1>2, <1>4, OldFails DEF JobPrepare
  <2>2. CASE ~update.aborted
    <3>1. plan' = "prepare" /\ todo' = <<"fetch", "build">> /\ update.phase = "prepare"
          /\ UNCHANGED <<update, saved, unsaved>>
      BY <2>2, <1>4 DEF JobPrepare, Ready, Plans, Install
    <3> QED
      BY <3>1, <1>1, <1>2, <1>3, OldPlans DEF BeforeFinish, LeftNew, GivingUp
  <2> QED
    BY <2>1, <2>2
<1>5. CASE JobCountdown
  <2>1. CASE update.aborted
    <3>1. plan' = "cancel" /\ todo' = <<"reset", "build">> /\ update.phase = "countdown"
          /\ UNCHANGED <<update, saved, unsaved>>
      BY <2>1, <1>5 DEF JobCountdown, Ready, Plans, Undo
    <3> QED
      BY <3>1, <1>1, <1>2, <1>3, OldPlans DEF BeforeFinish, LeftNew, GivingUp
  <2>2. CASE ~update.aborted
    <3>1. EntersPhase("locked") /\ "locked" \in Phases \ {"rollback"} /\ ~LeftNew
      BY <2>2, <1>1, <1>5 DEF JobCountdown, Ready, Phases, LeftNew
    <3> QED
      BY <3>1, <1>1, OldEnters
  <2> QED
    BY <2>1, <2>2
<1>6. CASE JobLocked
  <2>1. CASE update.finishing
    <3>1. EntersPhase("verify_new") /\ "verify_new" \in Phases \ {"rollback"}
      BY <2>1, <1>6 DEF JobLocked, Phases
    <3> QED
      BY <2>1, <3>1, <1>1, OldEnters
  <2>2. CASE ~update.finishing /\ update.aborted
    <3>1. plan' = "abandon" /\ todo' = <<"reset", "build", "unlock", "start">>
          /\ update.phase = "locked" /\ UNCHANGED <<update, saved, unsaved>>
      BY <2>2, <1>6, UndoWritten DEF JobLocked, Ready, Plans, Abandons
    <3>2. BeforeFinish => BeforeFinish'
      BY <2>2, <3>1, <1>1 DEF BeforeFinish, LeftNew
    <3>3. GivingUp'
      BY <2>2, <3>1 DEF GivingUp
    <3> QED
      BY <2>2, <3>1, <3>2, <3>3, <1>1, <1>2, OldPlans
  <2>3. CASE ~update.finishing /\ ~update.aborted
    <3>1. plan' = "locked" /\ todo' = <<"lock", "stop", "dump", "finishing", "restart">>
          /\ update.phase = "locked" /\ UNCHANGED <<update, saved, unsaved>>
      BY <2>3, <1>6 DEF JobLocked, Ready, Plans
    <3>2. BeforeFinish => BeforeFinish'
      BY <2>3, <3>1, <1>1 DEF BeforeFinish, LeftNew
    <3>3. GivingUp'
      BY <3>1 DEF GivingUp
    <3> QED
      BY <2>3, <3>1, <3>2, <3>3, <1>1, <1>2, OldPlans
  <2> QED
    BY <2>1, <2>2, <2>3
<1>7. CASE JobVerifyNew
  <2>1. CASE update.aborted
    BY <2>1, <1>1, <1>2, <1>7, OldRollsBack DEF JobVerifyNew, Ready
  <2>2. CASE ~update.aborted
    <3>1. plan' = "health" /\ todo' = <<>> /\ update.phase = "verify_new"
          /\ UNCHANGED <<update, saved, unsaved>>
      BY <2>2, <1>7 DEF JobVerifyNew, Ready, Plans
    <3> QED
      BY <3>1, <1>1, <1>2, OldPlans DEF BeforeFinish, AfterFinish, GivingUp
  <2> QED
    BY <2>1, <2>2
<1>8. CASE JobRelease
  <2>1. plan' = "release" /\ todo' = <<"unlock">> /\ update.phase = "release"
        /\ UNCHANGED <<update, saved, unsaved>>
    BY <1>8 DEF JobRelease, Ready, Plans
  <2> QED
    BY <2>1, <1>1, <1>2, OldPlans DEF BeforeFinish, AfterFinish, GivingUp
<1> QED
  BY <1>4, <1>5, <1>6, <1>7, <1>8

LEMMA OldHealth ==
  ASSUME SingleInv, OldInv, HealthAnswers
  PROVE  OldInv'
<1>1. plan = "health" /\ update.phase = "verify_new"
  BY DEF HealthAnswers, SingleInv, PlanInv
<1>2. CASE EntersPhase("release") /\ Stays
  <2>1. "release" \in Phases \ {"rollback"}
        /\ UNCHANGED <<rerun, source, bin, pdhRuns, schema, dump, kills, relaunches, refusals>>
    BY <1>2, StaysOld DEF Phases
  <2>2. ASSUME BeforeFinish PROVE FALSE
    BY <2>2, <1>1 DEF BeforeFinish
  <2> QED
    BY <2>1, <2>2, <1>2, OldEnters
<1>3. CASE /\ RollsBack(TRUE) /\ UNCHANGED <<rerun, hostVars, kills, relaunches>>
           /\ refusals' = refusals + 1 \/ refusals' = refusals
  <2>1. UNCHANGED <<rerun, source, bin, pdhRuns, schema, dump, kills, relaunches>>
    BY <1>3 DEF hostVars
  <2>2. refusals' \in Nat /\ refusals' >= refusals
    BY <1>3, RefusalGrows
  <2> QED
    BY <2>1, <2>2, <1>1, <1>3, OldRollsBack
<1> QED
  BY <1>2, <1>3 DEF HealthAnswers

LEMMA OldRollback ==
  ASSUME SingleInv, OldInv, JobRollback
  PROVE  OldInv'
<1>1. /\ update.phase = "rollback" /\ plan = "none" /\ todo = <<>> /\ update \in Update
      /\ UNCHANGED <<rerun, source, bin, pdhRuns, schema, dump, kills, relaunches, refusals>>
  BY StaysOld DEF JobRollback, Ready, SingleInv, JobInv, PlanInv
<1>2. refusals' \in Nat /\ refusals' >= refusals
  BY <1>1, RefusalGrows
<1>3. BeforeFinish => FALSE
  BY <1>1 DEF BeforeFinish
<1>4. CASE ~update.finishing
  <2>1. UNCHANGED <<update, saved, unsaved>> /\ plan' = "abandon"
    BY <1>4 DEF JobRollback, Abandons, Plans
  <2>2. ASSUME OldParts PROVE GivingUp'
    BY <2>2, <1>3, <1>4 DEF OldParts
  <2> QED
    BY <2>1, <2>2, <1>1, <1>2, <1>3, <1>4, OldPlans
<1>5. CASE update.finishing /\ update.rb = "stop"
  <2>1. UNCHANGED <<update, saved, unsaved>> /\ plan' = "rb_stop" /\ todo' = <<"stop">>
    BY <1>5 DEF JobRollback, Plans
  <2>2. GivingUp' /\ (AfterFinish => AfterFinish')
    BY <2>1, <1>1, <1>5 DEF GivingUp, AfterFinish
  <2> QED
    BY <2>1, <2>2, <1>1, <1>2, <1>3, OldPlans
<1>6. CASE update.finishing /\ update.rb = "restore"
  <2>1. UNCHANGED <<update, saved, unsaved>> /\ plan' = "rb_restore" /\ todo' = <<"restore">>
    BY <1>6 DEF JobRollback, Plans
  <2>2. GivingUp' /\ (AfterFinish => AfterFinish')
    BY <2>1, <1>1, <1>6 DEF GivingUp, AfterFinish
  <2> QED
    BY <2>1, <2>2, <1>1, <1>2, <1>3, OldPlans
<1>7. CASE update.finishing /\ update.rb = "script"
  <2> DEFINE u == [update EXCEPT !.rb = "verify"]
  <2>1. Put(u) /\ plan' = "rb_script" /\ todo' = <<"reset", "build", "restart">>
    BY <1>7, UndoWritten DEF JobRollback, Plans
  <2>2. /\ u \in Update /\ u.phase = "rollback" /\ u.finishing = update.finishing
        /\ u.aborted = update.aborted /\ u.remark = update.remark /\ u.rb = "verify"
    BY <1>1 DEF Update
  <2> HIDE DEF u
  <2>3. CountsGrow
    BY <2>1, <2>2, <1>1, <1>2, PutGrows
  <2>4. ASSUME Undisturbed, Undisturbed', OldParts, unsaved = 0, unsaved' = 0
        PROVE  OldParts'
    <3>1. /\ saved' = update' /\ update'.phase = "rollback" /\ update'.finishing
          /\ update'.remark = update.remark /\ update'.rb = "verify"
      BY <2>1, <2>2, <2>4, <1>7, PutSaved
    <3>2. GivingUp'
      BY <2>1 DEF GivingUp
    <3>3. AfterFinish /\ (saved.remark => update.remark)
      BY <2>4, <1>7 DEF OldParts
    <3>4. schema = "old" \/ saved.remark
      BY <3>3, <1>1, <1>7 DEF AfterFinish
    <3>5. AfterFinish'
      BY <3>1, <3>3, <3>4, <2>1, <1>1 DEF AfterFinish
    <3> QED
      BY <3>1, <3>2, <3>5 DEF OldParts
  <2> QED
    BY <2>3, <2>4, OldStep
<1>8. CASE update.finishing /\ update.rb = "verify"
  <2>1. /\ UNCHANGED <<saved, unsaved>> /\ plan' = "rb_unlock" /\ todo' = <<"unlock">>
        /\ update' = [update EXCEPT !.remark = update.remark \/ ~PdhHealthy("old")]
    BY <1>1, <1>8 DEF JobRollback, Plans, Update
  <2>2. /\ update'.phase = update.phase /\ update'.finishing = update.finishing
        /\ update'.rb = update.rb /\ update'.aborted = update.aborted
        /\ (update.remark => update'.remark)
    BY <2>1, <1>1 DEF Update
  <2>3. CountsGrow
    BY <2>1, <1>1, <1>2, SameGrows
  <2>4. GivingUp' /\ (AfterFinish => AfterFinish')
    BY <2>1, <2>2, <1>1, <1>8 DEF GivingUp, AfterFinish
  <2>5. ASSUME OldParts PROVE OldParts'
    BY <2>1, <2>2, <2>4, <2>5, <1>8 DEF OldParts
  <2> QED
    BY <2>3, <2>5, OldStep
<1> QED
  BY <1>1, <1>4, <1>5, <1>6, <1>7, <1>8 DEF Update

LEMMA OldDone ==
  ASSUME SingleInv, OldInv, PlanDone
  PROVE  OldInv'
<1>1. /\ plan \notin {"none", "health"} /\ todo = <<>> /\ update \in Update
      /\ UNCHANGED <<rerun, source, bin, pdhRuns, schema, dump, kills, relaunches, refusals>>
  BY StaysOld DEF PlanDone, SingleInv, JobInv
<1>2. refusals' \in Nat /\ refusals' >= refusals
  BY <1>1, RefusalGrows
<1>3. CASE plan = "prepare"
  <2>1. EntersPhase("countdown") /\ "countdown" \in Phases \ {"rollback"} /\ ~LeftNew
    BY <1>1, <1>3 DEF PlanDone, Phases, LeftNew
  <2> QED
    BY <2>1, <1>1, OldEnters
<1>4. CASE plan \in {"cancel", "abandon"}
  <2>1. FailsWith(FALSE, FALSE)
    BY <1>1, <1>4 DEF PlanDone
  <2> QED
    BY <2>1, <1>1, <1>2, OldFails
<1>5. CASE plan = "discard"
  <2>1. FailsWith(TRUE, FALSE)
    BY <1>1, <1>5 DEF PlanDone
  <2> QED
    BY <2>1, <1>1, <1>2, OldFails
<1>6. CASE plan = "locked"
  <2>1. EntersPhase("verify_new") /\ "verify_new" \in Phases \ {"rollback"} /\ update.finishing
    BY <1>1, <1>6 DEF PlanDone, Phases, SingleInv, PlanInv
  <2> QED
    BY <2>1, <1>1, OldEnters
<1>7. CASE plan = "release"
  <2>1. EntersPhase("done") /\ "done" \in Phases \ {"rollback"} /\ update.phase = "release"
    BY <1>1, <1>7 DEF PlanDone, Phases, SingleInv, PlanInv
  <2>2. BeforeFinish => FALSE
    BY <2>1 DEF BeforeFinish
  <2> QED
    BY <2>1, <2>2, <1>1, OldEnters
<1>8. CASE plan = "rb_stop"
  <2>1. /\ Put([update EXCEPT !.rb = "restore"]) /\ plan' = "none" /\ todo' = <<>>
        /\ update.phase = "rollback"
    BY <1>1, <1>8 DEF PlanDone, SingleInv, PlanInv, Plans
  <2>2. [update EXCEPT !.rb = "restore"] = [update EXCEPT !.rb = "restore", !.remark = update.remark]
        /\ update.remark \in BOOLEAN
    BY <1>1 DEF Update
  <2>3. AfterFinish => pdhRuns = "off"
    BY <1>1, <1>8 DEF AfterFinish
  <2> QED
    BY <2>1, <2>2, <2>3, <1>1, <1>2, OldRb
<1>9. CASE plan = "rb_restore"
  <2>1. /\ Put([update EXCEPT !.rb = "script"]) /\ plan' = "none" /\ todo' = <<>>
        /\ update.phase = "rollback"
    BY <1>1, <1>9 DEF PlanDone, SingleInv, PlanInv, Plans
  <2>2. [update EXCEPT !.rb = "script"] = [update EXCEPT !.rb = "script", !.remark = update.remark]
        /\ update.remark \in BOOLEAN
    BY <1>1 DEF Update
  <2>3. AfterFinish => schema = "old"
    BY <1>1, <1>9 DEF AfterFinish
  <2> QED
    BY <2>1, <2>2, <2>3, <1>1, <1>2, OldRb
<1>10. CASE plan = "rb_script"
  <2>1. /\ Put(update) /\ plan' = "none" /\ todo' = <<>>
        /\ update.phase = "rollback" /\ update.rb = "verify"
    BY <1>1, <1>10 DEF PlanDone, SingleInv, PlanInv, Plans
  <2>2. update = [update EXCEPT !.rb = "verify", !.remark = update.remark]
        /\ update.remark \in BOOLEAN
    BY <2>1, <1>1 DEF Update
  <2>3. ASSUME OldParts, AfterFinish PROVE schema = "old" \/ update.remark
    BY <2>1, <2>3 DEF AfterFinish, OldParts
  <2> QED
    BY <2>1, <2>2, <2>3, <1>1, <1>2, OldRb
<1>11. CASE plan = "rb_unlock"
  <2>1. FailsWith(update.mark, FALSE) /\ update.mark \in BOOLEAN
    BY <1>1, <1>11 DEF PlanDone, Update
  <2> QED
    BY <2>1, <1>1, <1>2, OldFails
<1> QED
  BY <1>1, <1>3, <1>4, <1>5, <1>6, <1>7, <1>8, <1>9, <1>10, <1>11 DEF SingleInv, PlanInv

LEMMA OldAbort ==
  ASSUME SingleInv, OldInv, AbortSingleJob
  PROVE  OldInv'
<1>1. /\ saved' = update' /\ UNCHANGED <<plan, todo, unsaved>>
      /\ update' = [update EXCEPT !.aborted = TRUE]
      /\ UNCHANGED <<rerun, source, bin, pdhRuns, schema, dump, kills, relaunches, refusals>>
  BY StaysOld DEF AbortSingleJob
<1>2. /\ update'.phase = update.phase /\ update'.rb = update.rb /\ update'.aborted = TRUE
      /\ update'.finishing = update.finishing /\ update'.remark = update.remark
  BY <1>1 DEF SingleInv, JobInv, Update
<1>3. CountsGrow
  BY <1>1, RefusalGrows, SameGrows
<1>4. ASSUME OldParts PROVE OldParts'
  <2>1. LeftNew => LeftNew'
    BY <1>1, <1>2 DEF LeftNew
  <2>2. BeforeFinish => BeforeFinish'
    BY <2>1, <1>1, <1>2 DEF BeforeFinish
  <2>3. GivingUp => GivingUp'
    BY <1>1, <1>2 DEF GivingUp
  <2>4. saved.remark => saved'.remark
    BY <1>1, <1>2, <1>4 DEF OldParts
  <2>5. AfterFinish => AfterFinish'
    BY <2>4, <1>1, <1>2 DEF AfterFinish
  <2> QED
    BY <2>2, <2>3, <2>5, <1>1, <1>2, <1>4 DEF OldParts
<1> QED
  BY <1>3, <1>4, OldStep

\* The commands of a step.
LEMMA OldRun ==
  ASSUME SingleInv, OldInv, RunCommand
  PROVE  OldInv'
<1> DEFINE c == Head(todo)
<1>1. /\ todo # <<>> /\ HostDoes(c) /\ todo' = Tail(todo)
      /\ UNCHANGED <<plan, refusals, kills, relaunches>> /\ rerun' = (rerun \/ c = "restart")
  BY DEF RunCommand
<1>2. JobInv /\ HostInv /\ PlanInv
  BY DEF SingleInv
<1>3. refusals' \in Nat /\ refusals' >= refusals
  BY <1>1, RefusalGrows
<1>4. ASSUME c # "finishing" PROVE UNCHANGED <<update, saved, unsaved>>
  BY <1>4 DEF RunCommand
<1>5. update.phase \in {"prepare", "countdown"} => ~update.finishing
  BY <1>2 DEF JobInv, Late
<1>6. CASE plan \in {"prepare", "cancel", "discard"}
  <2>1. c \in {"fetch", "reset", "build"} /\ todo' \in {<<"build">>, <<>>}
        /\ update.phase \in {"prepare", "countdown"}
    BY <1>1, <1>2, <1>6, WhatIsNext DEF Next0
  <2>2. UNCHANGED <<pdhRuns, schema, dump, update, saved, unsaved>> /\ (~rerun => ~rerun')
    BY <2>1, <1>1, <1>4 DEF HostDoes
  <2>3. GivingUp'
    BY <1>1, <1>6 DEF GivingUp
  <2>4. ASSUME BeforeFinish PROVE BeforeFinish'
    <3>1. ~LeftNew
      BY <2>1, <1>6 DEF LeftNew
    <3>2. todo' # <<"finishing", "restart">>
      BY <2>1
    <3> QED
      BY <2>2, <2>4, <3>1, <3>2 DEF BeforeFinish
  <2> QED
    BY <2>1, <2>2, <2>3, <2>4, <1>1, <1>3, <1>5, OldPlans
<1>7. CASE plan = "abandon"
  <2>1. /\ ~update.finishing
        /\ \/ c = "reset" /\ todo' = <<"build", "unlock", "start">>
           \/ c = "build" /\ todo' = <<"unlock", "start">> /\ todo = <<"build", "unlock", "start">>
           \/ c = "unlock" /\ todo' = <<"start">> /\ todo = <<"unlock", "start">>
           \/ c = "start" /\ todo' = <<>> /\ todo = <<"start">>
    BY <1>1, <1>2, <1>7, HeadsAndTails DEF PlanInv
  <2>2. UNCHANGED <<update, saved, unsaved>> /\ (~rerun => ~rerun')
    BY <2>1, <1>1, <1>4
  <2>3. CASE c = "reset"
    <3>1. source' = "old" /\ UNCHANGED <<bin, pdhRuns, schema, dump>>
      BY <2>3, <1>1 DEF HostDoes
    <3>2. (GivingUp => GivingUp') /\ (BeforeFinish => BeforeFinish')
      BY <2>1, <2>2, <2>3, <3>1, <1>1, <1>7 DEF GivingUp, BeforeFinish, LeftNew
    <3> QED
      BY <2>1, <2>2, <3>2, <1>1, <1>3, OldPlans DEF OldParts
  <2>4. CASE c = "build"
    <3>1. bin' = source /\ UNCHANGED <<source, pdhRuns, schema, dump>>
      BY <2>4, <1>1 DEF HostDoes
    <3>2. (GivingUp => GivingUp') /\ (BeforeFinish => BeforeFinish')
      BY <2>1, <2>2, <2>4, <3>1, <1>1, <1>7 DEF GivingUp, BeforeFinish, LeftNew
    <3> QED
      BY <2>1, <2>2, <3>2, <1>1, <1>3, OldPlans DEF OldParts
  <2>5. CASE c = "unlock"
    <3>1. UNCHANGED <<source, bin, pdhRuns, schema, dump>>
      BY <2>5, <1>1 DEF HostDoes, hostVars
    <3>2. (GivingUp => GivingUp') /\ (BeforeFinish => BeforeFinish')
      BY <2>1, <2>2, <2>5, <3>1, <1>1, <1>7 DEF GivingUp, BeforeFinish, LeftNew
    <3> QED
      BY <2>1, <2>2, <3>2, <1>1, <1>3, OldPlans DEF OldParts
  <2>6. CASE c = "start" /\ pdhRuns = "off"
    <3>1. /\ pdhRuns' = bin /\ bin \in {"old", "new"} /\ UNCHANGED <<source, bin, dump>>
          /\ bin = "old" => schema' = schema
      BY <2>6, <1>1, <1>2 DEF HostDoes, Starts, HostInv
    <3>2. GivingUp => GivingUp'
      BY <2>1, <2>2, <2>6, <3>1, <1>1, <1>7 DEF GivingUp
    <3>3. ~LeftNew
      BY <2>6 DEF LeftNew
    <3>4. ASSUME BeforeFinish, GivingUp PROVE BeforeFinish'
      <4>1. CASE bin = "old"
        BY <2>1, <2>2, <2>6, <3>1, <3>3, <3>4, <4>1 DEF BeforeFinish
      <4>2. CASE bin = "new"
        <5>1. update.aborted \/ refusals >= 2
          BY <2>1, <2>6, <3>4, <4>2, <1>7 DEF GivingUp
        <5>2. LeftNew'
          BY <5>1, <2>2, <3>1, <4>2, <1>1, <1>7 DEF LeftNew
        <5> QED
          BY <5>2, <2>1, <2>2, <2>6, <3>4 DEF BeforeFinish
      <4> QED
        BY <4>1, <4>2, <3>1
    <3> QED
      BY <2>1, <2>2, <3>2, <3>4, <1>1, <1>3, OldPlans DEF OldParts
  <2>7. CASE c = "start" /\ pdhRuns # "off"
    <3>1. UNCHANGED <<source, bin, pdhRuns, schema, dump>>
      BY <2>7, <1>1 DEF HostDoes, hostVars
    <3>2. (GivingUp => GivingUp') /\ (BeforeFinish => BeforeFinish')
      BY <2>1, <2>2, <2>7, <3>1, <1>1, <1>7 DEF GivingUp, BeforeFinish, LeftNew
    <3> QED
      BY <2>1, <2>2, <3>2, <1>1, <1>3, OldPlans DEF OldParts
  <2> QED
    BY <2>1, <2>3, <2>4, <2>5, <2>6, <2>7
<1>8. CASE plan = "locked" /\ ~update.finishing /\ c # "finishing"
  <2>1. /\ update.phase = "locked" /\ c \in {"lock", "stop", "dump"} /\ ~LeftNew
        /\ c # "dump" => todo' # <<"finishing", "restart">>
    BY <1>1, <1>2, <1>8, HeadsAndTails DEF PlanInv, LeftNew
  <2>2. /\ UNCHANGED <<update, saved, unsaved, schema>> /\ (~rerun => ~rerun')
        /\ pdhRuns' \in {pdhRuns, "off"}
        /\ c = "dump" => dump'.schema = schema
    <3>1. UNCHANGED <<update, saved, unsaved>> /\ (~rerun => ~rerun')
      BY <2>1, <1>1, <1>4
    <3>2. CASE c = "lock"
      <4>1. UNCHANGED <<schema, pdhRuns>>
        BY <3>2, <1>1 DEF HostDoes, hostVars
      <4> QED
        BY <4>1, <3>1, <3>2
    <3>3. CASE c = "stop"
      <4>1. pdhRuns' = "off" /\ UNCHANGED schema
        BY <3>3, <1>1 DEF HostDoes
      <4> QED
        BY <4>1, <3>1, <3>3
    <3>4. CASE c = "dump"
      <4>1. dump' = [schema |-> schema, work |-> work, late |-> late] /\ UNCHANGED <<pdhRuns, schema>>
        BY <3>4, <1>1 DEF HostDoes
      <4>2. dump'.schema = schema
        BY <4>1
      <4> QED
        BY <4>1, <4>2, <3>1
    <3> QED
      BY <2>1, <3>2, <3>3, <3>4
  <2>3. GivingUp' /\ (BeforeFinish => BeforeFinish')
    BY <2>1, <2>2, <1>1, <1>8 DEF GivingUp, BeforeFinish
  <2> QED
    BY <2>2, <2>3, <1>1, <1>3, <1>8, OldPlans
<1>9. CASE plan = "locked" /\ ~update.finishing /\ c = "finishing"
  <2> DEFINE u == [update EXCEPT !.finishing = TRUE]
  <2>1. /\ Put(u) /\ UNCHANGED <<source, bin, pdhRuns, schema, dump>>
        /\ update.phase = "locked" /\ pdhRuns = "off" /\ ~LeftNew
        /\ todo = <<"finishing", "restart">> /\ todo' = <<"restart">>
    BY <1>1, <1>2, <1>9, HeadsAndTails DEF RunCommand, HostDoes, hostVars, PlanInv, LeftNew
  <2>2. /\ u \in Update /\ u.phase = "locked" /\ u.finishing
        /\ u.aborted = update.aborted /\ u.remark = update.remark
    BY <2>1, <1>2 DEF JobInv, Update
  <2> HIDE DEF u
  <2>3. CountsGrow
    BY <2>1, <2>2, <1>1, <1>3, PutGrows
  <2>4. ASSUME Undisturbed, Undisturbed', OldParts, unsaved = 0, unsaved' = 0
        PROVE  OldParts'
    <3>1. saved' = update' /\ update'.phase = "locked" /\ update'.finishing
      BY <2>1, <2>2, <2>4, PutSaved
    <3>2. schema = "old" /\ dump.schema = "old"
      BY <2>1, <2>4, <1>9 DEF OldParts, BeforeFinish
    <3>3. GivingUp'
      BY <1>1, <1>9 DEF GivingUp
    <3>4. AfterFinish'
      BY <3>1, <3>2, <2>1, <1>1, <1>9 DEF AfterFinish
    <3> QED
      BY <3>1, <3>3, <3>4 DEF OldParts
  <2> QED
    BY <2>3, <2>4, OldStep
<1>10. CASE plan = "locked" /\ update.finishing
  <2>1. c = "restart" /\ todo = <<"restart">> /\ todo' = <<>> /\ update.phase = "locked"
    BY <1>1, <1>2, <1>10, HeadsAndTails DEF PlanInv
  <2>2. /\ pdhRuns' = bin /\ bin \in {"old", "new"} /\ UNCHANGED <<source, bin, dump>>
        /\ bin = "old" => schema' = schema
        /\ UNCHANGED <<update, saved, unsaved>>
    BY <2>1, <1>1, <1>2, <1>4 DEF HostDoes, Starts, HostInv
  <2>3. GivingUp' /\ (AfterFinish => AfterFinish')
    BY <2>1, <2>2, <1>1, <1>10 DEF GivingUp, AfterFinish
  <2> QED
    BY <2>2, <2>3, <1>1, <1>3, <1>10, OldPlans
<1>11. CASE plan \in {"release", "rb_unlock"}
  <2>1. c = "unlock" /\ todo' = <<>> /\ update.phase \in {"release", "rollback"}
    BY <1>1, <1>2, <1>11, HeadsAndTails DEF PlanInv
  <2>2. UNCHANGED <<source, bin, pdhRuns, schema, dump, update, saved, unsaved>>
    BY <2>1, <1>1, <1>4 DEF HostDoes, hostVars
  <2>3. GivingUp' /\ (AfterFinish => AfterFinish') /\ (BeforeFinish => FALSE)
    BY <2>1, <2>2, <1>1, <1>11 DEF GivingUp, AfterFinish, BeforeFinish
  <2> QED
    BY <2>2, <2>3, <1>1, <1>3, OldPlans
<1>12. CASE plan = "rb_stop"
  <2>1. c = "stop" /\ update.phase = "rollback" /\ update.rb = "stop" /\ update.finishing
    BY <1>1, <1>2, <1>12, HeadsAndTails DEF PlanInv
  <2>2. pdhRuns' = "off" /\ UNCHANGED <<source, bin, schema, dump, update, saved, unsaved>>
    BY <2>1, <1>1, <1>4 DEF HostDoes
  <2>3. GivingUp' /\ (AfterFinish => AfterFinish')
    BY <2>1, <2>2, <1>1, <1>12 DEF GivingUp, AfterFinish
  <2> QED
    BY <2>1, <2>2, <2>3, <1>1, <1>3, OldPlans
<1>13. CASE plan = "rb_restore"
  <2>1. c = "restore" /\ update.phase = "rollback" /\ update.rb = "restore" /\ update.finishing
    BY <1>1, <1>2, <1>13, HeadsAndTails DEF PlanInv
  <2>2. schema' = dump.schema /\ UNCHANGED <<source, bin, pdhRuns, dump, update, saved, unsaved>>
    BY <2>1, <1>1, <1>4 DEF HostDoes
  <2>3. GivingUp' /\ (AfterFinish => AfterFinish')
    BY <2>1, <2>2, <1>1, <1>13 DEF GivingUp, AfterFinish
  <2> QED
    BY <2>1, <2>2, <2>3, <1>1, <1>3, OldPlans
<1>14. CASE plan = "rb_script"
  <2>1. /\ update.phase = "rollback" /\ update.rb = "verify"
        /\ \/ c = "reset" /\ todo' = <<"build", "restart">>
           \/ c = "build" /\ todo' = <<"restart">> /\ todo = <<"build", "restart">>
           \/ c = "restart" /\ todo' = <<>> /\ todo = <<"restart">>
    BY <1>1, <1>2, <1>14, HeadsAndTails DEF PlanInv
  <2>2. UNCHANGED <<update, saved, unsaved>> /\ GivingUp' /\ (BeforeFinish => FALSE)
    BY <2>1, <1>1, <1>4, <1>14 DEF GivingUp, BeforeFinish
  <2>3. ASSUME AfterFinish PROVE AfterFinish'
    <3>1. CASE c = "reset"
      <4>1. source' = "old" /\ UNCHANGED <<bin, pdhRuns, schema, dump>>
        BY <3>1, <1>1 DEF HostDoes
      <4> QED
        BY <4>1, <2>1, <2>2, <2>3, <3>1, <1>1, <1>14 DEF AfterFinish
    <3>2. CASE c = "build"
      <4>1. bin' = source /\ UNCHANGED <<source, pdhRuns, schema, dump>>
        BY <3>2, <1>1 DEF HostDoes
      <4> QED
        BY <4>1, <2>1, <2>2, <2>3, <3>2, <1>1, <1>14 DEF AfterFinish
    <3>3. CASE c = "restart"
      <4>1. bin = "old"
        BY <2>1, <2>3, <3>3, <1>14 DEF AfterFinish
      <4>2. pdhRuns' = bin /\ schema' = schema /\ UNCHANGED <<source, bin, dump>>
        BY <4>1, <3>3, <1>1 DEF HostDoes, Starts
      <4> QED
        BY <4>2, <2>1, <2>2, <2>3, <3>3, <1>1, <1>14 DEF AfterFinish
    <3> QED
      BY <2>1, <3>1, <3>2, <3>3
  <2> QED
    BY <2>2, <2>3, <1>1, <1>3, OldPlans
<1> QED
  BY <1>1, <1>2, <1>6, <1>7, <1>8, <1>9, <1>10, <1>11, <1>12, <1>13, <1>14 DEF PlanInv

\* The commands that fail.
LEMMA OldFailure ==
  ASSUME SingleInv, OldInv, CommandFails
  PROVE  OldInv'
<1> DEFINE c == Head(todo)
<1>1. /\ todo # <<>> /\ c # "finishing" /\ AfterFailure(c)
      /\ UNCHANGED <<rerun, source, bin, pdhRuns, schema, dump, kills, relaunches>>
  BY DEF CommandFails, Damage
<1>2. JobInv /\ HostInv /\ PlanInv /\ update \in Update
  BY DEF SingleInv, JobInv
<1>3. /\ refusals' \in Nat /\ refusals' >= refusals /\ refusals \in Nat
      /\ c # "restart" => refusals' = refusals + 1
  BY RefusalGrows DEF CommandFails, CanDo
<1>4. update.phase \in {"prepare", "countdown"} => ~update.finishing
  BY <1>2 DEF JobInv, Late
<1>5. CASE plan = "prepare" /\ FailsWith(FALSE, FALSE)
  BY <1>1, <1>3, <1>5, OldFails
<1>6. CASE plan = "prepare" /\ ~FailsWith(FALSE, FALSE)
  <2>1. plan' = "discard" /\ todo' = <<"reset", "build">> /\ UNCHANGED <<update, saved, unsaved>>
        /\ update.phase = "prepare"
    BY <1>1, <1>2, <1>6, WhatIsNext DEF AfterFailure, PrepareFails, Plans, Undo, Next0
  <2>2. GivingUp' /\ (BeforeFinish => BeforeFinish')
    BY <2>1, <1>1, <1>6 DEF GivingUp, BeforeFinish, LeftNew
  <2> QED
    BY <2>1, <2>2, <1>1, <1>3, <1>4, OldPlans
<1>7. CASE plan = "locked" /\ c = "restart"
  <2>1. update.finishing /\ RollsBack(TRUE)
    BY <1>1, <1>2, <1>7, WhatIsNext DEF Next0, AfterFailure, LockedFails
  <2> QED
    BY <2>1, <1>1, <1>3, OldRollsBack
<1>8. CASE plan = "locked" /\ c # "restart"
  <2>1. ~update.finishing /\ c \notin {"fetch", "start"} /\ update.phase = "locked" /\ ~LeftNew
    BY <1>1, <1>2, <1>8, WhatIsNext DEF Next0, LeftNew
  <2>2. Abandons
    BY <2>1, <1>1, <1>8 DEF AfterFailure, LockedFails
  <2>3. plan' = "abandon" /\ todo' = <<"reset", "build", "unlock", "start">>
        /\ UNCHANGED <<update, saved, unsaved>>
    BY <2>2, UndoWritten DEF Abandons, Plans
  <2>4. refusals' >= 1
    BY <1>3, <1>8
  <2>5. GivingUp'
    BY <2>1, <2>3, <2>4 DEF GivingUp
  <2>6. BeforeFinish => BeforeFinish'
    BY <2>1, <2>3, <1>1 DEF BeforeFinish
  <2> QED
    BY <2>1, <2>3, <2>5, <2>6, <1>1, <1>3, OldPlans
<1>9. CASE plan \in {"rb_stop", "rb_restore"}
  <2>1. update.phase = "rollback" /\ c \notin {"fetch", "start"}
    BY <1>1, <1>2, <1>9, WhatIsNext DEF Next0
  <2>2. /\ Put([update EXCEPT !.rb = "script", !.remark = TRUE])
        /\ plan' = "none" /\ todo' = <<>>
    BY <2>1, <1>1, <1>9 DEF AfterFailure, RollbackFails, Plans
  <2> QED
    BY <2>1, <2>2, <1>1, <1>3, OldRb
<1>10. CASE plan = "rb_script"
  <2>1. update.phase = "rollback" /\ update.rb = "verify" /\ c \notin {"fetch", "start"}
    BY <1>1, <1>2, <1>10, WhatIsNext DEF Next0
  <2>2. /\ Put([update EXCEPT !.rb = "verify", !.remark = TRUE])
        /\ plan' = "none" /\ todo' = <<>>
    BY <2>1, <1>1, <1>10 DEF AfterFailure, RollbackFails, Plans
  <2> QED
    BY <2>1, <2>2, <1>1, <1>3, OldRb
<1>11. CASE plan = "abandon" /\ c = "start"
  <2>1. FailsWith(FALSE, TRUE)
    BY <1>1, <1>11 DEF AfterFailure
  <2> QED
    BY <2>1, <1>1, <1>3, OldFails
<1>12. CASE plan \in {"cancel", "discard", "release", "rb_unlock"}
  <2>1. c \in {"reset", "build", "unlock"}
    BY <1>1, <1>2, <1>12, WhatIsNext DEF Next0
  <2>2. plan' = plan /\ UNCHANGED <<update, saved, unsaved>>
        /\ todo' = IF c = "reset" THEN Tail(Tail(todo)) ELSE Tail(todo)
    BY <2>1, <1>1, <1>12 DEF AfterFailure, Plans
  <2>3. todo' = <<>> /\ update.phase \in {"prepare", "countdown", "release", "rollback"}
    BY <2>2, <1>1, <1>2, <1>12, WhatIsNext, HeadsAndTails DEF PlanInv, Next0
  <2>4. /\ GivingUp'
        /\ AfterFinish => AfterFinish'
        /\ BeforeFinish => BeforeFinish'
    BY <2>2, <2>3, <1>1, <1>12 DEF GivingUp, AfterFinish, BeforeFinish, LeftNew
  <2> QED
    BY <2>2, <2>4, <1>1, <1>3, OldPlans
<1>13. CASE plan = "abandon" /\ c # "start"
  <2>1. c \in {"reset", "build", "unlock"} /\ ~update.finishing
    BY <1>1, <1>2, <1>13, WhatIsNext DEF Next0
  <2>2. plan' = plan /\ UNCHANGED <<update, saved, unsaved>>
        /\ todo' = IF c = "reset" THEN Tail(Tail(todo)) ELSE Tail(todo)
    BY <2>1, <1>1, <1>13 DEF AfterFailure, Plans
  <2>3. todo' \in {<<"unlock", "start">>, <<"start">>}
    BY <2>2, <1>1, <1>2, <1>13, HeadsAndTails DEF PlanInv
  <2>4. refusals' = refusals + 1
    BY <2>1, <1>3
  <2>5. refusals >= 1 => refusals' >= 2
    BY <2>4, <1>3
  <2>6. GivingUp => GivingUp'
    BY <2>2, <2>3, <2>4, <2>5, <1>1, <1>3, <1>13 DEF GivingUp
  <2>7. refusals >= 2 => refusals' >= 2
    BY <2>4, <1>3
  <2>8. LeftNew => LeftNew'
    BY <2>2, <2>7, <1>1, <1>13 DEF LeftNew
  <2>9. BeforeFinish => BeforeFinish'
    BY <2>2, <2>3, <2>8, <1>1 DEF BeforeFinish
  <2> QED
    BY <2>1, <2>2, <2>6, <2>9, <1>1, <1>3, OldPlans DEF OldParts
<1> QED
  BY <1>1, <1>2, <1>5, <1>6, <1>7, <1>8, <1>9, <1>10, <1>11, <1>12, <1>13 DEF PlanInv

LEMMA OldDies ==
  ASSUME SingleInv, OldInv, AgentDies
  PROVE  OldInv'
<1>1. /\ update' = saved /\ UNCHANGED <<saved, unsaved>> /\ plan' = "none" /\ todo' = <<>>
      /\ UNCHANGED <<source, bin, pdhRuns, schema, dump, refusals, relaunches>> /\ rerun' = FALSE
      /\ IF rerun THEN kills' = kills ELSE kills' = kills + 1
  BY DEF AgentDies, Plans, Damage, hostVars
<1>2. kills' \in Nat /\ kills' >= kills /\ kills \in Nat /\ refusals \in Nat
  BY <1>1 DEF OldInv, CountsInv
<1>3. CountsGrow
  BY <1>1, <1>2 DEF CountsGrow, OldInv, CountsInv, SingleInv, JobInv
<1>4. ASSUME Undisturbed, Undisturbed', OldParts, unsaved = 0, unsaved' = 0
      PROVE  OldParts'
  <2>1. /\ saved.phase = update.phase /\ saved.rb = update.rb
        /\ saved.finishing = update.finishing /\ saved.aborted = update.aborted
    BY <1>4 DEF SingleInv, JobInv, OldParts
  <2>2. GivingUp'
    BY <1>1 DEF GivingUp
  <2>3. ASSUME ~update'.finishing PROVE BeforeFinish'
    <3>1. BeforeFinish /\ GivingUp
      BY <2>1, <2>3, <1>1, <1>4 DEF OldParts
    <3>2. kills' # 0 /\ ~(refusals >= 2)
      <4>1. kills' = kills + 1
        BY <3>1, <1>1 DEF BeforeFinish
      <4>2. kills' # 0
        BY <4>1, <1>2
      <4>3. refusals <= 1
        BY <4>2, <1>1, <1>4 DEF Undisturbed
      <4> QED
        BY <4>2, <4>3, <1>2
    <3>3. LeftNew => LeftNew'
      BY <3>1, <3>2, <2>1, <1>1 DEF LeftNew, GivingUp
    <3> QED
      BY <3>1, <3>3, <2>1, <1>1 DEF BeforeFinish
  <2>4. ASSUME update'.finishing PROVE AfterFinish'
    <3>1. AfterFinish
      BY <2>1, <2>4, <1>1, <1>4 DEF OldParts
    <3> QED
      BY <3>1, <2>1, <1>1 DEF AfterFinish
  <2> QED
    BY <2>1, <2>2, <2>3, <2>4, <1>1 DEF OldParts
<1> QED
  BY <1>3, <1>4, OldStep

\* pdh and its users move nothing of this, as long as pdh does not start by itself.
LEMMA OldPdh ==
  ASSUME SingleInv, OldInv,
         AgentStarts \/ MaintTick \/ LockLapses \/ UserWrites \/ PdhRelaunches
  PROVE  OldInv'
<1>1. CASE AgentStarts \/ MaintTick \/ LockLapses \/ UserWrites
  <2>1. /\ UNCHANGED <<update, saved, plan, todo, rerun, unsaved, kills, refusals, relaunches>>
        /\ UNCHANGED <<source, bin, pdhRuns, schema, dump>>
    BY <1>1 DEF AgentStarts, MaintTick, LockLapses, UserWrites, agentVars, hostVars, singleBounds
  <2>2. refusals' \in Nat /\ refusals' >= refusals
    BY <2>1, RefusalGrows
  <2>3. /\ BeforeFinish => BeforeFinish'
        /\ AfterFinish => AfterFinish'
        /\ GivingUp => GivingUp'
    BY <2>1 DEF BeforeFinish, AfterFinish, GivingUp, LeftNew
  <2> QED
    BY <2>1, <2>2, <2>3, OldPlans DEF OldParts
<1>2. CASE PdhRelaunches
  <2>1. relaunches' = relaunches + 1 /\ UNCHANGED <<unsaved, kills, refusals>>
    BY <1>2 DEF PdhRelaunches
  <2>2. CountsGrow /\ relaunches' # 0
    BY <2>1, <1>2 DEF CountsGrow, OldInv, CountsInv, SingleInv, JobInv
  <2>3. ~Undisturbed'
    BY <2>2 DEF Undisturbed
  <2> QED
    BY <2>2, <2>3, OldStep
<1> QED
  BY <1>1, <1>2

LEMMA OldInitInv == SingleInit => OldInv
<1> SUFFICES ASSUME SingleInit PROVE OldInv
  OBVIOUS
<1>1. /\ ~update.finishing /\ update.phase = "none" /\ saved = update
      /\ ~rerun /\ schema = "old" /\ pdhRuns = "old" /\ todo = <<>> /\ plan = "none"
  BY DEF SingleInit, NoUpdate
<1>2. BeforeFinish /\ GivingUp
  BY <1>1 DEF BeforeFinish, GivingUp
<1>3. CountsInv
  BY DEF SingleInit, CountsInv
<1> QED
  BY <1>1, <1>2, <1>3 DEF OldInv

LEMMA OldNextInv == SingleInv /\ OldInv /\ [SingleNext]_singleVars => OldInv'
<1> SUFFICES ASSUME SingleInv, OldInv, [SingleNext]_singleVars PROVE OldInv'
  OBVIOUS
<1>1. CASE JobStep
  BY <1>1, OldJob, OldHealth, OldRollback, OldDone, OldRun, OldFailure DEF JobStep
<1>2. CASE UNCHANGED singleVars
  <2>1. /\ UNCHANGED <<update, saved, plan, todo, rerun, unsaved, kills, refusals, relaunches>>
        /\ UNCHANGED <<source, bin, pdhRuns, schema, dump>>
    BY <1>2 DEF singleVars, agentVars, hostVars, singleBounds
  <2> QED
    BY <2>1 DEF OldInv, CountsInv, Undisturbed, BeforeFinish, AfterFinish, GivingUp, LeftNew
<1> QED
  BY <1>1, <1>2, OldStart, OldAbort, OldDies, OldPdh DEF SingleNext

\* As long as the job file is written, pdh does not start by itself, and the
\* agent does not die once two commands have failed, the old program never
\* runs on a database the new one has migrated, unless the job has a remark:
\* the way back goes stop, restore, script (jobRollbackStep).
THEOREM OldProgramOldData == SingleSpec => [](Undisturbed => OldOnOld)
<1>1. SingleInit => SingleInv /\ OldInv
  BY SingleInitInv, OldInitInv
<1>2. SingleInv /\ OldInv /\ [SingleNext]_singleVars => (SingleInv /\ OldInv)'
  BY SingleNextInv, OldNextInv
<1>3. SingleInv /\ OldInv => (Undisturbed => OldOnOld)
  <2> SUFFICES ASSUME SingleInv, OldInv, Undisturbed PROVE OldOnOld
    OBVIOUS
  <2>1. CASE update.finishing
    BY <2>1 DEF OldInv, AfterFinish, OldOnOld
  <2>2. CASE ~update.finishing
    BY <2>2 DEF OldInv, BeforeFinish, LeftNew, OldOnOld
  <2> QED
    BY <2>1, <2>2
<1> QED
  BY <1>1, <1>2, <1>3, PTL DEF SingleSpec
=============================================================================
