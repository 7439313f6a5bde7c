----------------------------- MODULE UpdateJob -----------------------------
(***************************************************************************)
(* The update of the pair of servers while it is in use                    *)
(* (internal/ha/update.go, cmd/pdh-ha/update_job.go).                      *)
(*                                                                         *)
(* The active server conducts: every tick it makes one step of the job,    *)
(* saves it, mirrors it to its partner and sends the operation the step    *)
(* calls for.  The partner carries operations out and answers.  A swap of  *)
(* the roles hands the job to the other server, which goes on from its     *)
(* mirrored copy.                                                          *)
(*                                                                         *)
(* Times are abstracted: a step may find any deadline passed or not yet.   *)
(* The failover kernel is reduced to what the job sees of it: who is       *)
(* active, a swap that succeeds or fails, a take-over after a crash.       *)
(***************************************************************************)
EXTENDS Naturals, Sequences, FiniteSets

CONSTANTS A, B,          \* the servers; A is active when the job is created
          None,          \* nobody, nothing
          Kinds,         \* the kinds of job started: rolling, sequential, swap
          MaxFaults,     \* bound: lost messages, restarts, failed operations, crashes
          MaxWrites,     \* bound: writes of users
          MaxRepeats     \* bound: repeated swap commands and sent-again operations

Server == {A, B}

ASSUME DistinctAssumption == A # B /\ None \notin Server

ASSUME KindsAssumption == Kinds \subseteq {"rolling", "sequential", "swap"}

ASSUME BoundsAssumption == {MaxFaults, MaxWrites, MaxRepeats} \subseteq Nat

Other(n) == IF n = A THEN B ELSE A

VARIABLES
  job,        \* update-job.json of each server
  acks,       \* results on their way to a server or queued there (memory)
  running,    \* the operation a server is carrying out (memory)
  done,       \* the result of its last operation, for a repeated request (memory)
  flags,      \* abort, confirm, freshStart, restartAbort, takeover (memory)
  cmd,        \* the swap command waiting for the kernel
  mail,       \* the newest update_job / update_node on its way to a server
  active,     \* the server with the active role
  db,         \* the state of the database of each server
  data,       \* how many of the users' writes each database holds
  commit,     \* the program each server runs
  seen,       \* the program each server last reported in its heartbeat
  acked,      \* writes confirmed to users
  faults, repeats

updateVars == <<job, acks, running, done, flags, cmd, mail, active, db, data,
          commit, seen, acked, faults, repeats>>

world == <<active, db, data, commit, seen, acked>>
memory == <<acks, running, done, flags>>

Op == {"install", "install_norestart", "rollback", "rollback_norestart",
       "freeze", "thaw", "reinit", "seal"}

ASSUME NoneAssumption == None \notin Op \cup {"swap", "abandon"}

Ack == [op : Op, node : Server, seq : Nat, ok : BOOLEAN, noFault : BOOLEAN]
Phase == {"Ask", "Entry", "Prepare", "VerifyPrep", "Countdown", "Locked", "VerifyNew",
          "Release", "Follow", "Rollback", "Done", "Failed"}

\* The job.  Phase "Entry" is Prepare with an empty PhaseAt; lock is LockedAt
\* and ReleasedAt; help: it ended with the call for a check by hand.
Job == [phase : Phase, seq : Nat, first : Server, second : Server,
        kind : Kinds, lock : {"none", "on", "off"},
        waitOp : Op \cup {None}, waitNode : Server \cup {None}, waitSeq : Nat,
        waitOK : BOOLEAN, attempts : 0 .. 1, faulty : BOOLEAN,
        freezeAcked : BOOLEAN, frozenSynced : BOOLEAN, sealed : BOOLEAN,
        unprotected : BOOLEAN, rollbackSent : BOOLEAN, installSeen : BOOLEAN,
        freezeSent : BOOLEAN, help : BOOLEAN]

Ended(j) == j.phase \in {"Done", "Failed"}
\* Mutant: users may work again as soon as the way back begins.
Locked_NotBack(j) == j.lock = "on" /\ ~Ended(j) /\ j.phase # "Rollback"

Locked(j) == j.lock = "on" /\ ~Ended(j)
BeforeLock(j) == j.phase \in {"Entry", "Prepare", "VerifyPrep", "Countdown"}

NoFlags == [abort |-> FALSE, confirm |-> "no", fresh |-> FALSE,
            restart |-> FALSE, takeover |-> FALSE, entered |-> FALSE]

-----------------------------------------------------------------------------
(* What a step of the job does: the job it leaves, the operation it sends  *)
(* (op, at node to), the command it gives to its own kernel, and whether   *)
(* a result was waiting.                                                   *)

Step(j) == [j |-> j, op |-> None, to |-> None, cmd |-> None, ack |-> FALSE]

Enter(j, p) == [j EXCEPT !.phase = p, !.waitOp = None, !.waitNode = None,
                         !.waitSeq = 0, !.waitOK = FALSE]

Finish(j, p) == [Enter(j, p) EXCEPT !.lock = IF @ = "on" THEN "off" ELSE @]

Send(j, op, node) ==
  [Step([j EXCEPT !.waitOp = op, !.waitNode = node, !.waitSeq = j.seq + 1, !.waitOK = FALSE])
     EXCEPT !.op = op, !.to = node]

Command(j, c) == [Step(j) EXCEPT !.cmd = c]

GotOK(j) == [j EXCEPT !.waitOK = TRUE]

(* The view o of a step, for the conducting server o.self: o.late, the     *)
(* deadline of the phase is past; o.lockMax, the lock's; o.again, a        *)
(* command or operation may be repeated.                                   *)

AckOf(j, o) ==
  IF /\ o.ack # None /\ j.waitOp # None /\ ~j.waitOK
     /\ o.ack.op = j.waitOp /\ o.ack.node = j.waitNode /\ o.ack.seq >= j.waitSeq
  THEN o.ack ELSE None

FirstActive(j, o) == o.self = j.first
NewActive(j, o) == FirstActive(j, o) /\ (j.kind # "sequential" \/ j.freezeAcked)
NewStarted(j, o) == CASE j.kind = "swap" -> FALSE
                      [] j.kind = "sequential" -> j.freezeAcked
                      [] OTHER -> j.phase = "VerifyNew" \/ FirstActive(j, o)
PartnerReadyPrep(o) == o.partnerCommit = "new" /\ (o.partnerUp \/ o.partnerOK)
PartnerOnTarget(o) == o.partnerCommit = "new" /\ o.partnerOK
PartnerOnOld(o) == o.partnerCommit = "old" /\ o.partnerOK

NoteInstall(j, o) ==
  IF \/ j.installSeen \/ j.kind = "swap" THEN j
  ELSE [j EXCEPT !.installSeen =
          \/ j.first # o.self /\ o.partnerCommit = "new"
          \/ /\ o.ack # None
             /\ ~o.ack.ok /\ o.ack.node = j.first
             /\ o.ack.op \in {"install", "install_norestart"}]

SwapBack(j) == Command(j, IF j.kind = "swap" THEN "swap" ELSE "abandon")
\* Mutant: the old server becomes a standby at once instead of a frozen copy.
SwapCommand_Plain(j) == Command(j, "swap")

SwapCommand(j) == Command(j, IF j.kind = "swap" THEN "swap" ELSE "freeze")

Rollback(j, o, faulty) ==
  IF NewActive(j, o) /\ j.kind # "swap" /\ ~j.frozenSynced
  THEN Step([Finish(j, "Failed") EXCEPT !.faulty = @ \/ faulty, !.help = TRUE])
  ELSE LET k == [Enter(j, "Rollback") EXCEPT !.rollbackSent = FALSE, !.faulty = @ \/ faulty]
       IN IF NewActive(j, o) THEN SwapBack(k) ELSE Step(k)

\* Mutant: giving up before the lock leaves the prepared version in place.
UndoPrep_Leaves(j, o, sent) == Step(Finish(j, "Failed"))

UndoPrep(j, o, sent) ==
  IF ~sent \/ j.kind = "swap" THEN Step(Finish(j, "Failed"))
  ELSE LET k == [Enter(j, "Rollback") EXCEPT !.rollbackSent = TRUE]
       IN IF j.kind = "sequential" THEN Send(k, "rollback_norestart", o.self)
          ELSE Send(k, "rollback", j.first)

FailPrep(j, o, faulty) == UndoPrep([j EXCEPT !.faulty = faulty], o, TRUE)

Follow(j) == Send([Enter(j, "Follow") EXCEPT !.lock = "off"], "install", j.second)

Unprotected(j) == Follow([j EXCEPT !.unprotected = TRUE])

-----------------------------------------------------------------------------
(* One operator per phase. *)

AskStep(j, o) ==
  CASE o.confirm = "blocked" -> Step(Finish(j, "Failed"))
    [] o.confirm = "yes" -> Step(Enter(j, "Entry"))
    [] o.confirm = "no" /\ o.late -> Step(Finish(j, "Failed"))
    [] OTHER -> Step(j)

EntryStep(j, o) ==
  LET k == [j EXCEPT !.phase = "Prepare"]
  IN CASE j.kind = "swap" -> Step(Enter(j, "Countdown"))
       [] j.kind = "sequential" -> Send(k, "install_norestart", o.self)
       [] OTHER -> Send(k, "install", j.first)

PrepareStep(j, o) ==
  LET a == AckOf(j, o)
  IN CASE a # None /\ a.ok -> Step(Enter(j, "VerifyPrep"))
       [] a # None /\ ~a.ok -> FailPrep(j, o, ~a.noFault)
       [] a = None /\ j.kind = "rolling" /\ PartnerReadyPrep(o) -> Step(Enter(j, "VerifyPrep"))
       [] a = None /\ ~(j.kind = "rolling" /\ PartnerReadyPrep(o)) /\ o.late -> FailPrep(j, o, TRUE)
       [] OTHER -> Step(j)

VerifyPrepStep(j, o) ==
  IF j.kind = "sequential" \/ (PartnerReadyPrep(o) /\ o.mirrorSync)
  THEN Step(Enter(j, "Countdown"))
  ELSE IF o.late THEN FailPrep(j, o, TRUE) ELSE Step(j)

CountdownStep(j, o) ==
  LET k == [Enter(j, "Locked") EXCEPT !.lock = "on", !.freezeAcked = FALSE, !.frozenSynced = FALSE]
  IN CASE ~o.late -> Step(j)
       [] o.late /\ j.kind = "sequential" -> Send([k EXCEPT !.sealed = TRUE], "seal", o.self)
       [] o.late /\ j.kind # "sequential" -> IF o.self = j.second THEN SwapCommand(k) ELSE Step(k)

\* rolling and swap: wait for the exchange of roles, give the command again
LockedSwap(j, o) ==
  CASE FirstActive(j, o) -> Step(Enter(j, "VerifyNew"))
    [] ~FirstActive(j, o) /\ ~o.handover /\ o.late -> Rollback(j, o, FALSE)
    [] ~FirstActive(j, o) /\ ~o.handover /\ ~o.late /\ o.again ->
         [SwapCommand(j) EXCEPT !.j = [j EXCEPT !.seq = @ + 1]]   \* CmdAt changes
    [] OTHER -> Step(j)

SealFailed(j, o) ==
  IF j.freezeSent THEN Rollback(j, o, FALSE) ELSE UndoPrep([j EXCEPT !.lock = "none"], o, TRUE)

\* sequential: seal A, freeze B, only then install on A
LockedSequential(j, o) ==
  LET a == AckOf(j, o)
  IN CASE ~j.freezeAcked /\ o.fresh /\ j.sealed /\ j.waitOp = "seal" -> Send(j, "seal", o.self)
       [] ~j.freezeAcked /\ o.fresh /\ j.sealed /\ j.waitOp = "freeze" -> Send(j, "thaw", j.second)
       [] ~j.freezeAcked /\ ~(o.fresh /\ j.sealed /\ j.waitOp \in {"seal", "freeze"}) ->
            CASE a = None -> Step(j)
              [] a # None /\ a.op = "seal" /\ a.ok -> Send([j EXCEPT !.freezeSent = TRUE], "freeze", j.second)
              [] a # None /\ a.op = "seal" /\ ~a.ok -> SealFailed(j, o)
              [] a # None /\ a.op = "thaw" /\ a.ok -> Send(j, "seal", o.self)
              [] a # None /\ a.op = "freeze" /\ a.ok ->
                   Send([j EXCEPT !.freezeAcked = TRUE, !.frozenSynced = TRUE], "install", o.self)
              [] OTHER -> Rollback(j, o, FALSE)
       [] j.freezeAcked /\ o.selfCommit = "new" -> Step(Enter(j, "VerifyNew"))
       [] j.freezeAcked /\ o.selfCommit # "new" ->
            IF a = None THEN Step(j)
            ELSE IF a.ok THEN Step(GotOK(j)) ELSE Rollback(j, o, ~a.noFault)

VerifyNewStep(j, o) ==
  CASE o.selfOK /\ ~o.dbPending /\ j.kind = "swap" -> Step(Finish(j, "Done"))
    [] o.selfOK /\ ~o.dbPending /\ j.kind # "swap" -> Send(Enter(j, "Release"), "thaw", j.second)
    [] OTHER -> IF o.late THEN Rollback(j, o, NewStarted(j, o)) ELSE Step(j)

ReleaseStep(j, o) ==
  LET a == AckOf(j, o)
      k == IF a # None THEN GotOK(j) ELSE j
  IN IF a # None /\ ~a.ok THEN Unprotected(j)
     ELSE IF o.mirrorSync THEN Follow(k) ELSE Step(k)

ReinitStep(j, o) ==
  LET a == AckOf(j, o)
      end == Finish(j, "Done")
  IN IF a # None THEN Step([end EXCEPT !.help = ~a.ok])
     ELSE IF o.late THEN Step([end EXCEPT !.help = TRUE]) ELSE Step(j)

FollowStep(j, o) ==
  LET a == AckOf(j, o)
      k == IF a # None /\ a.ok THEN GotOK(j) ELSE j
      bad == a # None /\ ~a.ok
  IN CASE j.waitOp = "reinit" -> ReinitStep(j, o)
       [] j.waitOp # "reinit" /\ ~bad /\ PartnerOnTarget(o) -> Step([Finish(k, "Done") EXCEPT !.help = k.unprotected])
       [] j.waitOp # "reinit" /\ (bad \/ (~PartnerOnTarget(o) /\ o.late)) ->
            IF k.attempts = 0 THEN Send([k EXCEPT !.attempts = 1], "install", j.second)
            ELSE Send(k, "reinit", j.second)
       [] OTHER -> Step(k)

\* the way back before the lock
UndoStep(j, o) ==
  LET a == AckOf(j, o)
  IN CASE a # None -> Step([Finish(j, "Failed") EXCEPT !.help = ~a.ok])
       [] a = None /\ j.waitNode = Other(o.self) /\ j.waitOp = "rollback"
            /\ j.installSeen /\ PartnerOnOld(o) -> Step(Finish(j, "Failed"))
       [] OTHER -> IF o.late THEN Step([Finish(j, "Failed") EXCEPT !.help = TRUE]) ELSE Step(j)

RollbackOp(j, o) == CASE j.kind = "swap" -> None
                      [] j.kind = "sequential" /\ o.self = j.first -> "thaw"
                      [] OTHER -> "rollback"

\* the way back from the lock, once the old server is active again
BackStep(j, o) ==
  LET a == AckOf(j, o)
      op == RollbackOp(j, o)
      \* the result was lost in the restart, the partner runs the old program
      ok == a # None \/ (op = "rollback" /\ j.waitOp = "rollback" /\ ~j.waitOK /\ PartnerOnOld(o))
      k == IF ok THEN GotOK(j) ELSE j
  IN CASE ~j.rollbackSent /\ o.dbPending /\ op # None -> Step(j)
       [] ~j.rollbackSent /\ op = None -> Step([j EXCEPT !.rollbackSent = TRUE])
       [] ~j.rollbackSent /\ ~o.dbPending /\ op # None ->
            Send([j EXCEPT !.rollbackSent = TRUE], op, Other(o.self))
       [] j.rollbackSent /\ a # None /\ ~a.ok -> Step([j EXCEPT !.waitOp = None])
       [] OTHER -> IF (op = None \/ k.waitOK) /\ o.mirrorSync /\ o.selfOK
                   THEN Step(Finish(k, "Failed")) ELSE Step(k)

RollbackStep(j, o) ==
  LET a == AckOf(j, o)
      unseal == j.kind = "sequential" /\ o.self = j.first /\ ~j.freezeAcked /\ j.sealed
  IN CASE j.lock = "none" -> UndoStep(j, o)
       [] j.lock # "none" /\ NewActive(j, o) ->
            IF ~o.handover /\ o.again THEN [SwapBack(j) EXCEPT !.j = [j EXCEPT !.seq = @ + 1]] ELSE Step(j)
       [] j.lock # "none" /\ ~NewActive(j, o) /\ unseal ->
            IF j.waitOp # "rollback_norestart" THEN Send(j, "rollback_norestart", o.self)
            ELSE IF a = None THEN Step(j)
            ELSE BackStep([j EXCEPT !.sealed = FALSE, !.waitOp = None, !.waitNode = None,
                                    !.waitSeq = 0, !.waitOK = FALSE], o)
       [] j.lock # "none" /\ ~NewActive(j, o) /\ ~unseal -> BackStep(j, o)

Abortable(j) == j.phase = "Ask" \/ BeforeLock(j) \/ j.phase \in {"Locked", "VerifyNew"}

AbortStep(j, o) ==
  CASE j.phase = "Ask" -> Step(Finish(j, "Failed"))
    [] BeforeLock(j) -> UndoPrep(j, o, j.phase # "Entry")
    [] OTHER -> Rollback(j, o, FALSE)

\* Mutant: the longest time of the lock is not looked at on the way back.
Overdue_NotBack(j, o) == o.lockMax /\ j.lock = "on" /\ j.phase \in {"Locked", "VerifyNew", "Release"}

Overdue(j, o) == o.lockMax /\ j.lock = "on"
                 /\ \/ j.phase \in {"Locked", "VerifyNew", "Release"}
                    \/ j.phase = "Rollback" /\ o.late

OverdueStep(j, o) ==
  CASE j.phase \in {"Locked", "VerifyNew"} -> Rollback(j, o, NewStarted(j, o))
    [] j.phase = "Release" -> Unprotected(j)
    [] OTHER -> Step([Finish(j, "Failed") EXCEPT !.help = TRUE])

PhaseStep(j, o) ==
  CASE j.phase = "Ask" -> AskStep(j, o)
    [] j.phase = "Entry" -> EntryStep(j, o)
    [] j.phase = "Prepare" -> PrepareStep(j, o)
    [] j.phase = "VerifyPrep" -> VerifyPrepStep(j, o)
    [] j.phase = "Countdown" -> CountdownStep(j, o)
    [] j.phase = "Locked" -> IF j.kind = "sequential" THEN LockedSequential(j, o) ELSE LockedSwap(j, o)
    [] j.phase = "VerifyNew" -> VerifyNewStep(j, o)
    [] j.phase = "Release" -> ReleaseStep(j, o)
    [] j.phase = "Follow" -> FollowStep(j, o)
    [] j.phase = "Rollback" -> RollbackStep(j, o)

\* One step of the job; any change raises the sequence number by one.
UpdateStep(job0, o) ==
  LET n == NoteInstall(job0, o)
      j == IF n.kind # "sequential" /\ n.phase = "Locked" /\ FirstActive(n, o)
           THEN [n EXCEPT !.frozenSynced = TRUE] ELSE n
      r == CASE o.takeover -> Step(Finish(j, "Failed"))
             [] ~o.takeover /\ o.abort /\ Abortable(j) -> AbortStep(j, o)
             [] ~o.takeover /\ ~(o.abort /\ Abortable(j)) /\ Overdue(j, o) -> OverdueStep(j, o)
             [] OTHER -> PhaseStep(j, o)
  IN IF r.j = job0 THEN r ELSE [r EXCEPT !.j = [r.j EXCEPT !.seq = job0.seq + 1]]

-----------------------------------------------------------------------------
NewJob(k, p) ==
  [phase |-> p, seq |-> 1, first |-> IF k = "sequential" THEN A ELSE B,
   second |-> IF k = "sequential" THEN B ELSE A, kind |-> k, lock |-> "none",
   waitOp |-> None, waitNode |-> None, waitSeq |-> 0, waitOK |-> FALSE,
   attempts |-> 0, faulty |-> FALSE, freezeAcked |-> FALSE, frozenSynced |-> FALSE,
   sealed |-> FALSE, unprotected |-> FALSE, rollbackSent |-> FALSE,
   installSeen |-> FALSE, freezeSent |-> FALSE, help |-> FALSE]

\* The button starts at once; the nightly window may ask first.  The partner
\* knows nothing of the job yet.
UpdateInit ==
  /\ \E k \in Kinds, p \in {"Ask", "Entry"} :
       /\ p = "Ask" => k # "swap"
       /\ job = [n \in Server |-> CASE n = A /\ p = "Ask" -> NewJob(k, p)
                                    [] n = A /\ p = "Entry" -> [NewJob(k, p) EXCEPT !.seq = 2]
                                    [] n = B -> [NewJob(k, p) EXCEPT !.phase = "Failed", !.seq = 0]]
  /\ acks = [n \in Server |-> <<>>] /\ running = [n \in Server |-> None]
  /\ done = [n \in Server |-> None] /\ flags = [n \in Server |-> NoFlags]
  /\ cmd = [n \in Server |-> None]
  /\ mail = [n \in Server |-> None]
  /\ active = A /\ db = [n \in Server |-> IF n = A THEN "primary" ELSE "standby"]
  /\ data = [n \in Server |-> 0] /\ commit = [n \in Server |-> "old"]
  /\ seen = [n \in Server |-> "old"] /\ acked = 0 /\ faults = 0 /\ repeats = 0

Fault == faults < MaxFaults /\ faults' = faults + 1

\* Bound: something is repeated only after something went wrong.
MayRepeat == repeats < MaxRepeats /\ repeats < faults
Again == IF MayRepeat THEN BOOLEAN ELSE {FALSE}

\* What the active server n sees when it makes a step, whether the deadlines
\* are past, what the two programs answer, and whether a command may be repeated.
View(n, late, lockMax, again, selfOK, partnerOK, partnerUp, ack) ==
  [self |-> n, late |-> late, lockMax |-> lockMax, again |-> again,
   selfOK |-> selfOK, partnerOK |-> partnerOK, partnerUp |-> partnerUp, ack |-> ack,
   selfCommit |-> commit[n], partnerCommit |-> seen[Other(n)],
   mirrorSync |-> db[n] \in {"primary", "sealed"} /\ db[Other(n)] = "standby",
   dbPending |-> db[n] # "primary", handover |-> cmd[n] # None,
   abort |-> flags[n].abort \/ flags[n].restart, confirm |-> flags[n].confirm,
   takeover |-> flags[n].takeover, fresh |-> flags[n].fresh]

\* The program the step waits for, and whether a server can answer with it.
Wanted(n) == IF job[n].phase = "Rollback" \/ job[n].kind = "swap" THEN "old" ELSE "new"
SelfAnswers(n) == IF commit[n] = Wanted(n) /\ db[n] = "primary" THEN BOOLEAN ELSE {FALSE}
PartnerAnswers(n) ==
  IF seen[Other(n)] = Wanted(n) /\ db[Other(n)] \notin {"stopped", "replaced"} THEN BOOLEAN ELSE {FALSE}

\* A swap takes seconds, the deadlines of the phases minutes; and the clocks of
\* the servers agree: a countdown past for one is past for the other.
Late(n) ==
  CASE cmd[n] # None -> {FALSE}
    [] cmd[n] = None /\ job[n].phase = "Countdown" /\ n # job[n].second /\ job[n].kind # "sequential" -> {TRUE}
    [] OTHER -> BOOLEAN

Views(n) ==
  {View(n, late, lockMax, again, selfOK, partnerOK, partnerUp, ack) :
     late \in Late(n), lockMax \in BOOLEAN,
     again \in Again,
     selfOK \in SelfAnswers(n), partnerOK \in PartnerAnswers(n), partnerUp \in BOOLEAN,
     ack \in {None} \cup {acks[n][1] : i \in DOMAIN acks[n]}}

\* Save, mirror, send: the tail of the tick.  An operation for this server
\* starts at once, one for the partner goes out with the job.
TickEnd(n, r) ==
  LET m == Other(n)
  IN /\ job' = [job EXCEPT ![n] = r.j]
     /\ acks' = [acks EXCEPT ![n] = IF r.ack THEN Tail(@) ELSE @]
     /\ flags' = [flags EXCEPT ![n] = NoFlags]
     /\ cmd' = [cmd EXCEPT ![n] = IF r.cmd = None THEN @ ELSE r.cmd]
     /\ mail' = IF r.to = m THEN [mail EXCEPT ![m] = [op |-> r.op, job |-> r.j]]
                ELSE IF r.j # job[n] THEN [mail EXCEPT ![m] = [op |-> None, job |-> r.j]] ELSE mail
     /\ running' = IF r.to = n
                   THEN [running EXCEPT ![n] = [op |-> r.op, seq |-> r.j.waitSeq, from |-> n, sealed |-> r.j.sealed]]
                   ELSE running
     /\ repeats' = IF r.cmd # None /\ r.j.phase = job[n].phase THEN repeats + 1 ELSE repeats

\* What the last tick sent has arrived or was lost.
ConductOn(n, views) ==
  /\ active = n /\ ~Ended(job[n]) /\ mail[Other(n)] = None
  /\ \E s \in {[UpdateStep(job[n], o) EXCEPT !.ack = o.ack # None] : o \in views} :
       /\ s.j # job[n] \/ s.ack \/ flags[n] # NoFlags
       /\ s.to = n => running[n] = None
       /\ TickEnd(n, s)
  /\ UNCHANGED <<done, faults, world>>

Conduct(n) == ConductOn(n, Views(n))

\* Time passes: the tick finds the longest time of the lock over, and what the
\* programs answer makes no difference any more.
ConductOverdue(n) ==
  Locked(job[n]) /\ ConductOn(n, {View(n, late, TRUE, FALSE, FALSE, FALSE, FALSE, None) :
                                   late \in IF cmd[n] = None THEN {TRUE} ELSE {FALSE}})

\* No action in this step: an operation without a result goes out again after
\* upResendAfter, the job itself is mirrored again after upMirrorEvery.
Resend(n) ==
  LET j == job[n]
      m == Other(n)
  IN /\ active = n /\ MayRepeat /\ repeats' = repeats + 1
     /\ mail[m] = None /\ acks[n] = <<>>
     /\ \/ /\ ~Ended(j) /\ j.waitOp # None /\ ~j.waitOK /\ j.waitNode = m /\ running[m] = None
           /\ mail' = [mail EXCEPT ![m] = [op |-> j.waitOp, job |-> j]] /\ UNCHANGED <<running, acks>>
        \/ /\ ~Ended(j) /\ j.waitOp # None /\ ~j.waitOK /\ j.waitNode = n /\ running[n] = None
           /\ IF done[n] # None /\ done[n].op = j.waitOp /\ done[n].seq = j.waitSeq
              THEN acks' = [acks EXCEPT ![n] = Append(@, done[n])] /\ UNCHANGED running
              ELSE /\ running' = [running EXCEPT ![n] = [op |-> j.waitOp, seq |-> j.waitSeq, from |-> n, sealed |-> j.sealed]]
                   /\ UNCHANGED acks
           /\ UNCHANGED mail
        \/ /\ job[m] # j
           /\ mail' = [mail EXCEPT ![m] = [op |-> None, job |-> j]] /\ UNCHANGED <<running, acks>>
  /\ UNCHANGED <<job, done, flags, cmd, faults, world>>

\* The administrator.
Abort(n) ==
  /\ active = n /\ ~Ended(job[n]) /\ Abortable(job[n]) /\ ~flags[n].abort
  /\ flags' = [flags EXCEPT ![n].abort = TRUE]
  /\ UNCHANGED <<job, acks, running, done, cmd, mail, world, faults, repeats>>

\* Confirming checks once more that everything is green.
Confirm(n) ==
  /\ active = n /\ job[n].phase = "Ask" /\ flags[n].confirm = "no" /\ ~flags[n].abort
  /\ flags' = [flags EXCEPT ![n].confirm = IF db[Other(n)] = "standby" THEN "yes" ELSE "blocked"]
  /\ UNCHANGED <<job, acks, running, done, cmd, mail, world, faults, repeats>>

-----------------------------------------------------------------------------
(* Messages. *)

MirrorWins(cur, in) == \/ in.seq > cur.seq
                       \/ cur.seq = 0 /\ ~Ended(in)

MirrorIn(n, in) ==
  /\ job' = [job EXCEPT ![n] = IF MirrorWins(@, in) THEN in ELSE @]
  /\ flags' = [flags EXCEPT ![n].restart = @ /\ ~MirrorWins(job[n], in) /\ in.seq < job[n].seq]

\* update_job or update_node arrives; an operation already running is not
\* started again, one already done is answered from memory.
Receive(n) ==
  /\ mail[n] # None
  /\ mail' = [mail EXCEPT ![n] = None]
  /\ LET in == mail[n].job
         op == mail[n].op
         busy == running[n] # None
         known == done[n] # None /\ done[n].op = op /\ done[n].seq = in.waitSeq
     IN /\ MirrorIn(n, in)
        /\ op # None => known \/ (busy => running[n].op = op /\ running[n].seq = in.waitSeq)
        /\ running' = IF op = None \/ known \/ busy THEN running
                      ELSE [running EXCEPT ![n] = [op |-> op, seq |-> in.waitSeq, from |-> Other(n), sealed |-> in.sealed]]
        /\ acks' = IF op # None /\ known THEN [acks EXCEPT ![Other(n)] = Append(@, done[n])] ELSE acks
  /\ UNCHANGED <<done, cmd, world, faults, repeats>>

Lose(n) ==
  /\ Fault
  /\ \/ mail[n] # None /\ mail' = [mail EXCEPT ![n] = None] /\ UNCHANGED acks
     \/ /\ acks[n] # <<>> /\ Head(acks[n]).node # n
        /\ acks' = [acks EXCEPT ![n] = Tail(@)] /\ UNCHANGED mail
  /\ UNCHANGED <<job, running, done, flags, cmd, world, repeats>>

\* A server reports the program it runs.
Heartbeat(n) ==
  /\ seen[n] # commit[n] /\ ~Ended(job[Other(n)])
  /\ seen' = [seen EXCEPT ![n] = commit[n]]
  /\ UNCHANGED <<job, acks, running, done, flags, cmd, mail, active, db, data,
                 commit, acked, faults, repeats>>

-----------------------------------------------------------------------------
(* Operations on a server. *)

Result(n, ok, noFault) ==
  LET a == [op |-> running[n].op, node |-> n, seq |-> running[n].seq, ok |-> ok, noFault |-> noFault]
  IN /\ running' = [running EXCEPT ![n] = None]
     /\ done' = [done EXCEPT ![n] = a]
     /\ acks' = [acks EXCEPT ![running[n].from] = Append(@, a)]

\* pdh-ha of n starts again: the memory of the job is read from disk, an
\* active server frees a seal.
Reborn(n) ==
  /\ acks' = [acks EXCEPT ![n] = <<>>]
  /\ running' = [running EXCEPT ![n] = None]
  /\ done' = [done EXCEPT ![n] = None]
  /\ flags' = [flags EXCEPT ![n] = [NoFlags EXCEPT !.fresh = ~Ended(job[n]), !.restart = BeforeLock(job[n])]]
  /\ cmd' = [cmd EXCEPT ![n] = None]
  /\ db' = [db EXCEPT ![n] = IF @ = "sealed" /\ active = n THEN "primary" ELSE @]

\* The first server of a sequential update is A.
Sequential == job[A].kind = "sequential"

NeedPassive(n) == active # n
FollowActive(n) == db' = [db EXCEPT ![n] = "standby"] /\ data' = [data EXCEPT ![n] = data[active]]
SourceReady(n) == active # None /\ active # n /\ db[active] \in {"primary", "sealed"}

\* Installing and turning back end with a restart of pdh-ha, in which the
\* result may be lost; with the result kept the restart is over before.
Change(n, c) ==
  /\ commit' = [commit EXCEPT ![n] = c]
  /\ \/ Result(n, TRUE, FALSE) /\ UNCHANGED <<flags, cmd>>
     \/ acks' = [acks EXCEPT ![n] = <<>>]
        /\ running' = [running EXCEPT ![n] = None] /\ done' = [done EXCEPT ![n] = None]
        /\ flags' = [flags EXCEPT ![n] = [NoFlags EXCEPT !.fresh = ~Ended(job[n]), !.restart = BeforeLock(job[n])]]
        /\ cmd' = [cmd EXCEPT ![n] = None]

RunInstall(n) ==
  LET own == Sequential /\ n = A
  IN /\ running[n].op = "install"
     /\ IF commit[n] = "new"
        THEN Result(n, TRUE, FALSE) /\ UNCHANGED <<flags, cmd, commit, db, data>>
        ELSE /\ db' = [db EXCEPT ![n] = IF own /\ running[n].sealed /\ @ = "sealed" THEN "primary" ELSE @]
             /\ Change(n, "new") /\ UNCHANGED data
     /\ UNCHANGED faults

RunNoRestart(n) ==
  /\ running[n].op \in {"install_norestart", "rollback_norestart"}
  /\ db' = [db EXCEPT ![n] = IF running[n].op = "rollback_norestart" /\ running[n].sealed
                               /\ n = A /\ active = n /\ @ = "sealed"
                            THEN "primary" ELSE @]
  /\ Result(n, TRUE, FALSE)
  /\ UNCHANGED <<flags, cmd, commit, data, faults>>

\* Turning back: first a standby of the active server again, then the old
\* program; already there, nothing is done twice.
RunRollback(n) ==
  /\ running[n].op = "rollback"
  /\ IF NeedPassive(n) /\ db[n] # "standby"
     THEN SourceReady(n) /\ FollowActive(n) ELSE UNCHANGED <<db, data>>
  /\ Change(n, "old")
  /\ UNCHANGED faults

RunSeal(n) ==
  /\ running[n].op = "seal" /\ active = n /\ db[n] \in {"primary", "sealed"}
  /\ IF db[Other(n)] = "standby" /\ data[Other(n)] = data[n]
     THEN db' = [db EXCEPT ![n] = "sealed"] /\ Result(n, TRUE, FALSE)
     ELSE db' = [db EXCEPT ![n] = "sealed"] /\ UNCHANGED <<running, done, acks>> /\ db[n] = "primary"
  /\ UNCHANGED <<flags, cmd, commit, data, faults>>

RunFreeze(n) ==
  /\ running[n].op = "freeze" /\ NeedPassive(n)
  /\ db' = [db EXCEPT ![n] = IF @ \in {"standby", "frozen"} THEN "frozen" ELSE "stopped"]
  /\ Result(n, TRUE, FALSE)
  /\ UNCHANGED <<flags, cmd, commit, data, faults>>

RunThaw(n) ==
  /\ running[n].op = "thaw" /\ NeedPassive(n) /\ SourceReady(n)
  /\ FollowActive(n)
  /\ Result(n, TRUE, FALSE)
  /\ UNCHANGED <<flags, cmd, commit, faults>>

RunReinit(n) ==
  /\ running[n].op = "reinit" /\ NeedPassive(n) /\ SourceReady(n)
  /\ FollowActive(n)
  /\ Change(n, "new")
  /\ UNCHANGED faults

\* An operation that fails, or is refused: the active server's database is
\* never frozen, thawed or copied; a seal that is not reached is taken back.
RunFails(n) ==
  LET op == running[n].op
      refused == \/ op \in {"freeze", "thaw", "reinit"} /\ ~NeedPassive(n)
                 \/ op = "seal" /\ active # n
  IN /\ IF refused THEN UNCHANGED faults ELSE Fault
     /\ db' = [db EXCEPT ![n] = IF op = "seal" /\ @ = "sealed" THEN "primary" ELSE @]
     /\ \E noFault \in (IF op \in {"install", "install_norestart", "rollback_norestart"} THEN BOOLEAN ELSE {FALSE}) :
          Result(n, FALSE, noFault)
     /\ UNCHANGED <<flags, cmd, commit, data>>

Run(n) ==
  /\ running[n] # None
  /\ \/ RunInstall(n) \/ RunNoRestart(n) \/ RunRollback(n) \/ RunSeal(n)
     \/ RunFreeze(n) \/ RunThaw(n) \/ RunReinit(n) \/ RunFails(n)
  /\ UNCHANGED <<job, mail, active, seen, acked, repeats>>

-----------------------------------------------------------------------------
(* The kernel, as far as the job sees it. *)

\* The job itself swaps the roles in these phases; any other way to become
\* active is a take-over.  The tick in which the role changes makes the first
\* step of the job, before the database is opened.
SwapExpected(j) == j.phase \in {"Countdown", "Locked", "VerifyNew"} \/ (j.phase = "Rollback" /\ j.lock # "none")

Becomes(n, swapped) ==
  /\ active' = n
  /\ flags' = [flags EXCEPT ![n].takeover = ~Ended(job[n]) /\ ~(swapped /\ SwapExpected(job[n])),
                            ![n].entered = ~Ended(job[n])]

\* The frozen copy may be promoted: the job says it was equal when it froze.
FrozenCurrent(n) == /\ job[n].lock # "none" /\ job[n].second = n /\ job[n].frozenSynced
                    /\ job[n].phase \in {"Locked", "VerifyNew", "Rollback"}

\* A swap: fence, wait until the partner has everything, stop, hand over.  The
\* job was sent before, on the same connection.
Swap(n) ==
  LET m == Other(n)
  IN /\ active = n /\ cmd[n] \in {"swap", "freeze"} /\ running[n] = None
     /\ db[n] = "primary" /\ db[m] = "standby" /\ mail[m] = None
     /\ data' = [data EXCEPT ![m] = data[n]]
     /\ db' = [db EXCEPT ![n] = IF cmd[n] = "swap" THEN "standby" ELSE "frozen", ![m] = "primary"]
     /\ Becomes(m, TRUE) /\ cmd' = [cmd EXCEPT ![n] = None]
     /\ UNCHANGED <<job, acks, running, done, mail, commit, seen, acked, faults, repeats>>

\* The way back gives the new data up: the frozen copy becomes primary, if
\* this server may promote it.
Abandon(n) ==
  LET m == Other(n)
  IN /\ active = n /\ cmd[n] = "abandon" /\ mail[m] = None
     /\ db' = [db EXCEPT ![n] = "stopped", ![m] = IF @ = "frozen" /\ FrozenCurrent(m) THEN "primary" ELSE @]
     /\ Becomes(m, TRUE) /\ cmd' = [cmd EXCEPT ![n] = None]
     /\ UNCHANGED <<job, acks, running, done, mail, data, commit, seen, acked, faults, repeats>>

\* Later the copy may be promoted after all, when the job says so.
PromoteLate(n) ==
  /\ active = n /\ db[n] = "frozen" /\ FrozenCurrent(n)
  /\ db' = [db EXCEPT ![n] = "primary"]
  /\ UNCHANGED <<job, memory, cmd, mail, active, data, commit, seen, acked, faults, repeats>>

SwapFails(n) ==
  /\ cmd[n] # None /\ (Fault \/ (UNCHANGED faults /\ (active # n \/ db[n] # "primary" \/ db[Other(n)] # "standby")))
  /\ cmd' = [cmd EXCEPT ![n] = None]
  /\ UNCHANGED <<job, memory, mail, world, repeats>>

\* The active server fails; its partner takes over if its database is current
\* (or the frozen copy counts as current).  The take-over time is longer than
\* the 3 ticks after which a silent connection is closed: what was under way
\* arrived before, or never does.
TakeOver(n) ==
  LET m == Other(n)
  IN /\ active = m /\ Fault /\ \E s \in Server : ~Ended(job[s])
     /\ db[n] = "standby" /\ data[n] = acked
     /\ active' = n
     /\ db' = [db EXCEPT ![n] = "primary", ![m] = "replaced"]
     /\ acks' = [acks EXCEPT ![m] = <<>>] /\ running' = [running EXCEPT ![m] = None]
     /\ done' = [done EXCEPT ![m] = None] /\ cmd' = [cmd EXCEPT ![m] = None]
     /\ flags' = [flags EXCEPT ![n].takeover = ~Ended(job[n]), ![n].entered = ~Ended(job[n]),
                               ![m] = [NoFlags EXCEPT !.fresh = ~Ended(job[m]), !.restart = BeforeLock(job[m])]]
     /\ mail' = [s \in Server |-> None]
     /\ UNCHANGED <<job, data, commit, seen, acked, repeats>>

\* The kernel of a server that lost the role in a take-over brings it back as a
\* standby (ActRejoin); after a swap the job does that.
Rejoin(n) ==
  /\ active # n /\ db[n] = "replaced" /\ SourceReady(n)
  /\ FollowActive(n)
  /\ UNCHANGED <<job, memory, cmd, mail, active, commit, seen, acked, faults, repeats>>

\* (A restart without an open job changes nothing here.)
Restart(n) ==
  /\ ~Ended(job[n]) \/ running[n] # None
  /\ Fault /\ Reborn(n)
  /\ UNCHANGED <<job, mail, active, data, commit, seen, acked, repeats>>

\* A user writes on the active server, unless the lock or a seal is on; the
\* write reaches a standby now or later.
Write(n) ==
  /\ active = n /\ db[n] = "primary" /\ ~Locked(job[n]) /\ ~flags[n].entered
  /\ acked < MaxWrites
  /\ acked' = acked + 1
  /\ \E now \in BOOLEAN :
       data' = [m \in Server |-> IF m = n \/ (now /\ db[m] = "standby") THEN acked + 1 ELSE data[m]]
  /\ UNCHANGED <<job, memory, cmd, mail, active, db, commit, seen, faults, repeats>>

Replicate(n) ==
  /\ db[n] = "standby" /\ active = Other(n) /\ db[active] \in {"primary", "sealed"} /\ data[n] # data[active]
  /\ data' = [data EXCEPT ![n] = data[active]]
  /\ UNCHANGED <<job, memory, cmd, mail, active, db, commit, seen, acked, faults, repeats>>

UpdateNext == \E n \in Server :
  \/ Conduct(n) \/ Resend(n) \/ Abort(n) \/ Confirm(n)
  \/ Receive(n) \/ Lose(n) \/ Heartbeat(n) \/ Run(n)
  \/ Swap(n) \/ Abandon(n) \/ PromoteLate(n) \/ SwapFails(n) \/ TakeOver(n)
  \/ Rejoin(n) \/ Restart(n) \/ Write(n) \/ Replicate(n)

\* Ticks, deliveries, operations and the kernel go on; deadlines pass.
UpdateGoesOn(n) == Receive(n) \/ Run(n) \/ Swap(n) \/ Abandon(n) \/ SwapFails(n)

UpdateFair == \A n \in Server : WF_updateVars(ConductOverdue(n)) /\ WF_updateVars(UpdateGoesOn(n))

UpdateSpec == UpdateInit /\ [][UpdateNext]_updateVars /\ UpdateFair

UpdateTypeOK ==
  /\ job \in [Server -> Job]
  /\ acks \in [Server -> Seq(Ack)] /\ done \in [Server -> Ack \cup {None}]
  /\ cmd \in [Server -> {"swap", "freeze", "abandon", None}]
  /\ active \in Server
  /\ db \in [Server -> {"primary", "sealed", "standby", "frozen", "stopped", "replaced"}]
  /\ data \in [Server -> Nat] /\ acked \in Nat
  /\ commit \in [Server -> {"old", "new"}] /\ seen \in [Server -> {"old", "new"}]
  /\ faults \in 0 .. MaxFaults /\ repeats \in 0 .. MaxRepeats

-----------------------------------------------------------------------------
(* Properties. *)

\* No write confirmed to a user is missing in the database the active server
\* works with, whatever swap, way back or take-over happened: the frozen copy
\* is only promoted when it was equal (FrozenSynced), and nobody writes while
\* the lock is on.
NothingLost == \A n \in Server : active = n /\ db[n] = "primary" => data[n] = acked

\* While the new program is being verified under the lock, the other server
\* keeps the way back: the old program and a frozen database with every write.
FallbackKept ==
  \A n \in Server :
    active = n /\ job[n].first = n /\ job[n].phase = "VerifyNew" /\ job[n].kind # "swap"
      /\ ~flags[n].takeover =>
      LET m == Other(n) IN db[m] = "frozen" /\ commit[m] = "old" /\ data[m] = acked

\* A job that ends without calling for help leaves the pair whole: turned
\* back, both servers run the old program and no installation is under way;
\* done, both run the new one; after a lock the partner follows.
EndsWhole ==
  [][\A n \in Server :
       active = n /\ ~Ended(job[n]) /\ Ended(job'[n]) /\ active' = n /\ mail'[n] = mail[n]
         /\ ~flags[n].takeover /\ ~job'[n].help /\ job[n].kind # "swap" =>
         /\ job'[n].phase = "Failed" =>
              \A m \in Server : commit[m] = "old" /\ (running[m] # None => running[m].op # "install")
         /\ job'[n].phase = "Done" => \A m \in Server : commit[m] = "new"
         /\ job'[n].lock = "off" => db[n] = "primary" /\ db[Other(n)] = "standby"]_updateVars

\* Every lock ends: the longest time allowed for it does its work in every
\* phase, so users are not locked out for good.
LockEnds ==
  (\E n \in Server : active = n /\ Locked(job[n])) ~> (\A n \in Server : active = n => ~Locked(job[n]))
=============================================================================
